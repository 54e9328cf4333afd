-------------------------- MODULE MCPolicyVerifier --------------------------
(* Constants for the runs of PolicyVerifier. *)
EXTENDS PolicyVerifier

\* Two nonces that share digits, so that torn lines can spell either.
eta1 == <<0, 1>>
eta2 == <<1, 0>>

session(subject, tAtt, connectionTime) ==
    [genuine |-> TRUE, subject |-> subject, tAtt |-> tAtt, connectionTime |-> connectionTime]

request(x, subject, presentation) ==
    [x |-> x, subject |-> subject, presentation |-> presentation,
     proof |-> [x |-> x, presentation |-> presentation]]

registering(eta, policyId) ==
    [phase |-> "R", policyId |-> policyId, propertyId |-> "flat", eta |-> eta,
     tAtt |-> 9, expiresAt |-> 0]
applying(eta)     == [registering(eta, "A") EXCEPT !.phase = "A"]
settling(eta, at) == [registering(eta, "S") EXCEPT !.phase = "S", !.expiresAt = at]

title  == session("flat", 9, 8)
income == session("", 9, 9)

\* Requests the notary signs: one per phase, two of them with the same nonce.
MC_Good == {request(registering(eta1, "R"), "flat", title),
            request(applying(eta1), "", income),
            request(settling(eta2, 20), "N-1", session("N-1", 9, 9))}

\* Requests it must refuse: a policy of another phase, a proof of another
\* session, an attested time the session does not support.
MC_Bad == {request(registering(eta2, "A"), "flat", title),
           [request(applying(eta2), "", income) EXCEPT !.presentation.connectionTime = 8],
           request(settling(eta1, 20), "N-1", session("N-1", 9, 2))}

MC_Requests == MC_Good \cup MC_Bad
MC_TauLock == {14}
=============================================================================
