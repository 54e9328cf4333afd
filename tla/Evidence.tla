------------------------------ MODULE Evidence ------------------------------
(***************************************************************************)
(* From a registry's record to a signature.  The prover notarises a         *)
(* response: it commits to ranges of it and reveals others                  *)
(* (pprev-prover/src/session.rs).  With the openings it makes the inputs of *)
(* a circuit (pprev-prover/src/circuit.rs, pprev-types/src/circuit.rs,      *)
(* circuits/src/phi_*.circom).  The policy verifier checks the presentation *)
(* against the layout of the policy (presentation.rs) and the proof against *)
(* the commitments and the statement (register.rs, phases.rs, groth16.rs).  *)
(* No party but the prover sees a value.                                    *)
(*                                                                          *)
(* Hashes are ideal: a SHA-256 commitment determines the bytes it commits   *)
(* to, a Poseidon commitment the identifier and the salt.  A proof exists   *)
(* when the circuit has a witness.  The field has order R.  The times of a  *)
(* session, nonces and the binding of a proof to its statement are in       *)
(* PolicyVerifier, the real calendar in Calendar: a date has one digit here.*)
(***************************************************************************)
EXTENDS Layout

CONSTANTS
    PolicyLayout,  \* by phase, the layout its policy names
    Prefix(_),     \* path prefix of a layout
    Claims,        \* statements a prover may ask a signature for
    R,             \* field order
    WORD,          \* bytes of a word: 32 in the code, two limbs
    AMOUNT_SIZE,   \* 2^AMOUNT_BITS
    CMP_SIZE,      \* 2^CMP_BITS
    MULTIPLE       \* the policy's income multiple

HALF == WORD \div 2
DAY_SIZE == 16  \* 2^27 in the code, where a day has eight digits

Phases == {"register", "apply", "settle"}

\* A word of the chain, and c_B: Poseidon of an identifier and a salt.  As a word it may
\* be the field element plus a multiple of R.
Word == [1..WORD -> Byte]
Poseidon(id, salt, wraps) == [id |-> id, salt |-> salt, wraps |-> wraps]
Commitment == [id : Nat, salt : Nat, wraps : Nat]

Claim == [phase : {"register"}, subject : Text, property : Word]
         \cup [phase : {"apply"}, cB : Commitment, amount : Nat]
         \cup [phase : {"settle"}, subject : Text, property : Word, cB : Commitment, day : Nat]

\* Digits, the most significant first.
bigEndian(base, ds) ==
    LET upTo[n \in 0..Len(ds)] == IF n = 0 THEN 0 ELSE upTo[n - 1] * base + ds[n]
    IN upTo[Len(ds)]

\* A one and n zeros.
power(base, n) == bigEndian(base, <<1>> \o [i \in 1..n |-> 0])

\* What the generators of the circuits' main components and the templates assert of a
\* policy's layouts; a date takes one digit instead of ten characters.
main_circom(l) ==
    /\ l.account_width < WORD
    /\ HALF < l.property_id_width /\ l.property_id_width <= WORD

main_circom_phi_a(l) ==
    /\ Len(l.fields) = 1 /\ l.fields[1].key = KEY_MONTHLY_INCOME
    /\ l.account_width < WORD
    /\ MULTIPLE > 0 /\ MULTIPLE * AMOUNT_SIZE < CMP_SIZE /\ 2 * CMP_SIZE < R
    /\ power(10, l.fields[1].width) < CMP_SIZE

main_circom_phi_s(l) ==
    /\ [i \in DOMAIN l.fields |-> l.fields[i].key] = <<KEY_PROPERTY_ID, KEY_TENANT, KEY_RECORD_DATE>>
    /\ l.fields[2].width = l.account_width /\ l.fields[3].width = 1
    /\ l.account_width < WORD
    /\ HALF < l.fields[1].width /\ l.fields[1].width <= WORD

ASSUME CircuitAssumption ==
    /\ main_circom(PolicyLayout["register"])
    /\ main_circom_phi_a(PolicyLayout["apply"])
    /\ main_circom_phi_s(PolicyLayout["settle"])

VARIABLES
    attestation,   \* the notary's, with the openings the prover keeps, or NoLayout
    proof,         \* the prover's: the claim and the bytes it was made for, or NoLayout
    accepted       \* the claim that was signed, or NoLayout

evars == <<layout, shape, view, response, attestation, proof, accepted>>

policyShape == [p \in Phases |-> shapeOf(PolicyLayout[p])]

-----------------------------------------------------------------------------
(* The prover's session.                                                   *)

\* The ranges a prover commits to: the layout's, as this prover does, or others.
shifted(r) == [start |-> r.start + 1, end |-> r.end + 1]
plans ==
    {shape.hidden, Front(shape.hidden), shape.hidden \o <<shape.hidden[1]>>}
    \cup {[shape.hidden EXCEPT ![i] = shifted(@)] : i \in DOMAIN shape.hidden}

NotarizeBy(plan) ==
    /\ attestation = NoLayout /\ Len(response) = shape.len
    /\ attestation' = [line      |-> <<Prefix(layout), view.subject>>,
                       received  |-> Len(response),
                       revealed  |-> shape.revealed,
                       committed |-> [i \in DOMAIN plan |->
                                        [idx |-> plan[i],
                                         value |-> SubSeq(response, plan[i].start + 1, plan[i].end)]]]
    /\ UNCHANGED <<layout, shape, view, response, proof, accepted>>

Notarize == response # Err /\ \E plan \in plans : NotarizeBy(plan)

-----------------------------------------------------------------------------
(* The policy verifier: presentation.rs.                                   *)

check_shape(sh, line) ==
    /\ attestation.line = line /\ attestation.received = sh.len
    /\ attestation.revealed = sh.revealed
    /\ \A i \in DOMAIN sh.revealed :
        SubSeq(response, sh.revealed[i].start + 1, sh.revealed[i].end)
        = SubSeq(sh.template, sh.revealed[i].start + 1, sh.revealed[i].end)
    /\ Len(attestation.committed) = Len(sh.hidden)
    /\ \A i \in DOMAIN sh.hidden :
        Cardinality({c \in DOMAIN attestation.committed : attestation.committed[c].idx = sh.hidden[i]}) = 1

\* hidden_hashes: what the commitments to the layout's ranges open to.
hidden(sh, i) == (CHOOSE c \in Range(attestation.committed) : c.idx = sh.hidden[i]).value

-----------------------------------------------------------------------------
(* The circuits: lib/bytes.circom, lib/decimal.circom, circomlib.           *)

PackBytes(bytes) == bigEndian(256, bytes) % R

\* The comparator of n bits has a witness only while a + 2^n - b takes n + 1 bits.
LessThan(size, a, b) ==
    LET sum == (a + size - b) % R IN sum < 2 * size /\ sum < size

\* Mutant of GreaterEqThan: strictly greater.
GreaterThan(size, a, b) == LessThan(size, b, a)

GreaterEqThan(size, a, b) == LessThan(size, b, a + 1)

Digit(b) == (b - Zero) % R
IsDecimal(text) == \A i \in DOMAIN text : Digit(text[i]) < 16 /\ LessThan(16, Digit(text[i]), 10)
DecimalValue(text) == bigEndian(10, [i \in 1..Len(text) |-> Digit(text[i])])

\* The layouts of the policy, and the field: a word less one byte fits it.  One path
\* serves one kind of record in one padding, no digit in records; a title is asked for by
\* its identifier.
ASSUME EvidenceAssumption ==
    /\ Claims \subseteq Claim
    /\ R \in Nat /\ AMOUNT_SIZE \in Nat /\ CMP_SIZE \in Nat /\ MULTIPLE \in Nat
    /\ WORD \in Nat /\ WORD >= 2 /\ power(256, WORD - 1) <= R
    /\ PolicyLayout["register"] \in TitleLayout
    /\ PolicyLayout["apply"] \in RecordLayout /\ PolicyLayout["settle"] \in RecordLayout
    /\ \A p \in Phases :
        /\ valid(PolicyLayout[p]) /\ (p # "register" => ~ IsDecimal(PolicyLayout[p].padding))
        /\ \A l \in LayoutFiles : Prefix(l) = Prefix(PolicyLayout[p]) =>
            l.kind = PolicyLayout[p].kind /\ l.padding = PolicyLayout[p].padding
    /\ \A l \in LayoutFiles : l.kind = "title" => \A v \in Views(l) : v.subject = v.property_id

\* A word is its two limbs; the layout's value fills it from the left.
word(l, value, width) == pad(l, value, width) \o [i \in 1..(WORD - width) |-> 0]
limbs(w) == <<PackBytes(SubSeq(w, 1, HALF)), PackBytes(SubSeq(w, HALF + 1, WORD))>>

propertyIs(property, w) ==
    /\ PackBytes(SubSeq(property, 1, HALF)) = limbs(w)[1]
    /\ (PackBytes(SubSeq(property, HALF + 1, Len(property))) * power(256, WORD - Len(property))) % R
       = limbs(w)[2]

notEmpty(text, l) == text[1] # l.padding[1]

PhiR(l, account, owners, property, w) ==
    LET width  == l.account_width
        stride == width + 3
    IN /\ notEmpty(account, l)
       /\ \A k \in 0..(l.owner_slots - 2) :
            SubSeq(owners, k * stride + width + 1, k * stride + width + 3) = <<Quote, Comma, Quote>>
       /\ \E k \in 0..(l.owner_slots - 1) :
            PackBytes(SubSeq(owners, k * stride + 1, k * stride + width)) = PackBytes(account)
       /\ propertyIs(property, w)

enough(income, amount) == GreaterEqThan(CMP_SIZE, DecimalValue(income), (MULTIPLE * (amount % R)) % R)

PhiA(l, account, income, cB, amount) ==
    /\ notEmpty(account, l) /\ PackBytes(account) = cB.id
    /\ IsDecimal(income) /\ amount % R < AMOUNT_SIZE /\ enough(income, amount)

PhiS(l, property, tenant, recordDate, w, cB, day) ==
    /\ propertyIs(property, w)
    /\ notEmpty(tenant, l) /\ PackBytes(tenant) = cB.id
    /\ IsDecimal(recordDate) /\ day % R < DAY_SIZE
    /\ GreaterEqThan(DAY_SIZE, DecimalValue(recordDate), day % R)

-----------------------------------------------------------------------------
(* Public inputs: pprev-types/src/circuit.rs and groth16.rs.                 *)

\* Mutant of field_element: reduced, as bind is.
fieldElementReduced(cB) == TRUE

field_element(cB) == cB.wraps = 0

\* PhiAPublic::new, PhiSPublic::new, and field of groth16.rs.
amountFits(amount) == amount < AMOUNT_SIZE
dayFits(day) == day < DAY_SIZE
publicInput(number) == number < R

-----------------------------------------------------------------------------
(* The prover: pprev-prover/src/circuit.rs.                                *)

openings == [i \in DOMAIN attestation.committed |-> attestation.committed[i].value]

\* The commitments that the public inputs of a phase carry, in the circuit's order.
PhiRPublic(values) == values
PhiAPublic(values) == values
PhiSPublic(values) == Tail(values)

PhiRInput(values, x) ==
    /\ Len(values) = 3
    /\ PhiR(PolicyLayout["register"], values[1], values[2], values[3], x.property)

PhiAInput(values, x) ==
    /\ Len(values) = 2 /\ amountFits(x.amount) /\ field_element(x.cB)
    /\ PhiA(PolicyLayout["apply"], values[1], values[2], x.cB, x.amount)

PhiSInput(values, x) ==
    /\ Len(values) = 4 /\ dayFits(x.day) /\ field_element(x.cB)
    /\ PhiS(PolicyLayout["settle"], values[2], values[3], values[4], x.property, x.cB, x.day)

public(x, values) ==
    CASE x.phase = "register" -> PhiRPublic(values)
      [] x.phase = "apply" -> PhiAPublic(values)
      [] x.phase = "settle" -> PhiSPublic(values)

\* generate_witness neither fails with Unsatisfied nor for an input of another length.
satisfied(x) ==
    /\ \A i \in DOMAIN openings \cap DOMAIN policyShape[x.phase].hidden :
        Len(openings[i]) = policyShape[x.phase].hidden[i].end - policyShape[x.phase].hidden[i].start
    /\ CASE x.phase = "register" -> PhiRInput(openings, x)
         [] x.phase = "apply" -> PhiAInput(openings, x)
         [] x.phase = "settle" -> PhiSInput(openings, x)

prove(x) == [claim |-> x, public |-> public(x, openings)]

Prove ==
    /\ attestation # NoLayout /\ proof = NoLayout
    /\ \E x \in Claims : satisfied(x) /\ proof' = prove(x)
    /\ UNCHANGED <<layout, shape, view, response, attestation, accepted>>

-----------------------------------------------------------------------------
(* The policy verifier: register.rs, phases.rs.                            *)

\* Groth16: the proof is for this statement and these commitments.
verify(pf, x, values) == pf # NoLayout /\ pf.claim = x /\ pf.public = public(x, values)

hiddenHashes(sh) == [i \in DOMAIN sh.hidden |-> hidden(sh, i)]

\* A register claim names the property of the request, and the word must be its word.
signsRegister(pf, x) ==
    LET l == PolicyLayout["register"]
        sh == policyShape["register"]
    IN /\ fits(x.subject, l.property_id_width) /\ word(l, x.subject, l.property_id_width) = x.property
       /\ check_shape(sh, <<Prefix(l), x.subject>>)
       /\ verify(pf, x, hiddenHashes(sh))

signsApply(pf, x) ==
    LET l == PolicyLayout["apply"]
        sh == policyShape["apply"]
    IN /\ check_shape(sh, <<Prefix(l), <<>> >>)
       /\ amountFits(x.amount) /\ field_element(x.cB) /\ publicInput(x.amount)
       /\ verify(pf, x, hiddenHashes(sh))

\* Letters, digits and '-' only: the request line around them cannot change.
check_subject(subject) ==
    /\ Len(subject) \in 1..64
    /\ \A i \in DOMAIN subject :
        subject[i] \in (Zero..(Zero + 9)) \cup (65..90) \cup (97..122) \cup {45}

signsSettle(pf, x) ==
    LET l == PolicyLayout["settle"]
        sh == policyShape["settle"]
    IN /\ check_subject(x.subject)
       /\ check_shape(sh, <<Prefix(l), x.subject>>)
       /\ dayFits(x.day) /\ field_element(x.cB)
       /\ verify(pf, x, hiddenHashes(sh))

signs(pf, x) ==
    CASE x.phase = "register" -> signsRegister(pf, x)
      [] x.phase = "apply" -> signsApply(pf, x)
      [] x.phase = "settle" -> signsSettle(pf, x)

-----------------------------------------------------------------------------
(* mock.rs: the mock notary has the record in the clear.                     *)

\* day_number parses it.
isDay(text) == Len(text) = 1 /\ IsDecimal(text)

mockSigns(x) ==
    CASE x.phase = "apply" ->
            /\ PackBytes(pad(layout, view.account, layout.account_width)) = x.cB.id /\ x.cB.wraps = 0
            /\ DecimalValue(view.values[1]) >= MULTIPLE * x.amount
      [] x.phase = "settle" ->
            /\ PackBytes(pad(layout, view.values[2], layout.account_width)) = x.cB.id /\ x.cB.wraps = 0
            /\ word(layout, view.values[1], layout.fields[1].width) = x.property
            /\ isDay(view.values[3]) /\ DecimalValue(view.values[3]) >= x.day
      [] x.phase = "register" -> FALSE

-----------------------------------------------------------------------------
EInit == Init /\ attestation = NoLayout /\ proof = NoLayout /\ accepted = NoLayout

\* The registry and its readers load a layout, and the registry answers.
Respond == Next /\ UNCHANGED <<attestation, proof, accepted>>

\* sign_register, sign_apply, sign_settle.
Sign ==
    /\ proof # NoLayout /\ accepted = NoLayout
    /\ \E x \in Claims : signs(proof, x) /\ accepted' = x
    /\ UNCHANGED <<layout, shape, view, response, attestation, proof>>

ENext == Respond \/ Notarize \/ Prove \/ Sign

ESpec == EInit /\ [][ENext]_evars

-----------------------------------------------------------------------------
(* Properties.                                                             *)

signed(p) == accepted # NoLayout /\ accepted.phase = p

same(text1, text2, width) == pad(layout, text1, width) = pad(layout, text2, width)

\* A signed registration: the registry's record of exactly that property names the
\* account of the session, which is somebody, among its owners (sign_register_timed,
\* check_shape, phi_r.circom).
SignedOwner == signed("register") =>
    /\ layout = PolicyLayout["register"]
    /\ ~ same(view.account, <<>>, layout.account_width)
    /\ \E k \in DOMAIN view.owners : same(view.owners[k], view.account, layout.account_width)
    /\ accepted.property = word(layout, view.property_id, layout.property_id_width)

\* A signed application: the income is at least the multiple of the rent, as whole
\* numbers, and c_B is the one word that names the account of the session
\* (sign_apply_timed, PhiAPublic::new, phi_a.circom).
SignedIncome == signed("apply") =>
    /\ layout = PolicyLayout["apply"]
    /\ DecimalValue(view.values[1]) >= MULTIPLE * accepted.amount
    /\ accepted.cB = Poseidon(PackBytes(pad(layout, view.account, layout.account_width)),
                              accepted.cB.salt, 0)

\* A signed settlement: a notation on that property names the tenant c_B committed
\* to, dated no earlier than the engagement (sign_settle_timed, phi_s.circom).
SignedTenancy == signed("settle") =>
    /\ layout = PolicyLayout["settle"]
    /\ accepted.property = word(layout, view.values[1], layout.fields[1].width)
    /\ accepted.cB = Poseidon(PackBytes(pad(layout, view.values[2], layout.account_width)),
                              accepted.cB.salt, 0)
    /\ DecimalValue(view.values[3]) >= accepted.day

\* The mock notary, which evaluates the predicates in the clear, signs whatever the
\* circuits let through (mock.rs: sign_apply, sign_settle).
MockSignsToo == accepted # NoLayout /\ accepted.phase # "register" => mockSigns(accepted)

\* Whatever a prover commits to, proves and asks for: what is signed is true of the
\* record the registry rendered, in every phase, also by the mock's plain reading.
SignedIsTrue == SignedOwner /\ SignedIncome /\ SignedTenancy /\ MockSignsToo

\* The prover's own commitments.
asThisProver ==
    [i \in DOMAIN attestation.committed |-> attestation.committed[i].idx] = shape.hidden

\* A name that does not begin like an empty one.
somebody(text) == text # <<>> /\ text[1] # layout.padding[1]

\* Nobody entitled is turned away: an owner, an applicant with the income and a
\* settlement that is due are signed when the prover follows the layout (run_mpc,
\* generate_witness, sign_register_timed, sign_apply_timed, sign_settle_timed).
EntitledIsSigned == attestation # NoLayout /\ asThisProver => \A x \in Claims :
    LET truth ==
        CASE x.phase = "register" ->
                /\ layout = PolicyLayout["register"] /\ x.subject = view.subject
                /\ x.property = word(layout, view.property_id, layout.property_id_width)
                /\ somebody(view.account) /\ view.account \in Range(view.owners)
          [] x.phase = "apply" ->
                /\ layout = PolicyLayout["apply"] /\ view.subject = <<>>
                /\ somebody(view.account) /\ mockSigns(x) /\ x.amount < AMOUNT_SIZE
                /\ IsDecimal(view.values[1]) /\ Len(view.values[1]) = layout.fields[1].width
          [] x.phase = "settle" ->
                /\ layout = PolicyLayout["settle"] /\ x.subject = view.subject
                /\ check_subject(x.subject) /\ somebody(view.values[2]) /\ mockSigns(x)
    IN truth => satisfied(x) /\ signs(prove(x), x)
=============================================================================
