------------------------ MODULE PolicyVerifierProofs ------------------------
(***************************************************************************)
(* Proofs about PolicyVerifier: the notary never signs two statements with *)
(* the same nonce, for any number of clients, requests, crashes and any    *)
(* nonce length, and so implements NotarySigner.                           *)
(***************************************************************************)
EXTENDS PolicyVerifier, SequenceTheorems, TLAPS

\* A line of exactly one nonce's length that ends with eta is eta: the reason
\* why open, which refuses every other length, reads each signed nonce.
LEMMA WholeLine ==
    ASSUME NEW line \in Line, NEW eta \in Nonce,
           Len(line) = NONCE_DIGITS, EndsWith(line, eta, NONCE_DIGITS)
    PROVE  line = eta
<1>1. Len(eta) = Len(line) /\ eta \in Seq(Digit) /\ line \in Seq(Digit)
    BY DEF Nonce, Line
<1>2. \A j \in 1..Len(line) : line[j] = eta[j]
    BY <1>1, DigitsAssumption DEF EndsWith
<1>3. QED
    BY <1>1, <1>2, SeqEqual

\* Appending the next digit of eta to the tail extends what the tail ends with.
LEMMA AppendDigit ==
    ASSUME NEW line \in Line, NEW eta \in Nonce, NEW w \in Nat,
           w < NONCE_DIGITS, EndsWith(line, eta, w)
    PROVE  EndsWith(Append(line, eta[w + 1]), eta, w + 1)
<1> DEFINE longer == Append(line, eta[w + 1])
<1>1. eta[w + 1] \in Digit /\ line \in Seq(Digit)
    BY DigitsAssumption DEF Nonce, Line
<1>2. Len(line) \in Nat /\ Len(longer) = Len(line) + 1
    BY <1>1
<1>3. ASSUME NEW j \in 1..(w + 1)
      PROVE  longer[Len(longer) - (w + 1) + j] = eta[j]
    <2>1. CASE j = w + 1
        BY <1>1, <1>2, <2>1
    <2>2. CASE j \in 1..w
        <3>1. Len(line) - w + j \in 1..Len(line)
            BY <1>2, <2>2 DEF EndsWith
        <3>2. longer[Len(line) - w + j] = line[Len(line) - w + j]
            BY <1>1, <3>1
        <3>3. Len(longer) - (w + 1) + j = Len(line) - w + j
            BY <1>2, <2>2
        <3>4. QED
            BY <2>2, <3>2, <3>3 DEF EndsWith
    <2>3. j = w + 1 \/ j \in 1..w
        OBVIOUS
    <2>4. QED
        BY <2>1, <2>2, <2>3
<1>4. Len(longer) >= w + 1
    BY <1>2 DEF EndsWith
<1>5. QED
    BY <1>3, <1>4 DEF EndsWith

\* A file that open accepts and that keeps the synced lines holds every nonce
\* that has been signed.
LEMMA OpenFindsSigned ==
    ASSUME TypeOK, SignedOnDisk,
           NEW ls \in Seq(Line), NEW t \in Line,
           Len(ls) >= synced, \A m \in 1..synced : ls[m] = lines[m],
           wellFormed(ls, t)
    PROVE  SignedEtas \subseteq LinesOf(ls, t)
<1> SUFFICES ASSUME NEW i \in 1..Len(issued)
             PROVE  issued[i].eta \in LinesOf(ls, t)
    BY DEF SignedEtas, Signed
<1>1. issued[i].eta \in Nonce
    BY RequestsAssumption DEF TypeOK
<1>2. PICK m \in 1..synced : OnLine(issued[i].eta, m)
    BY DEF SignedOnDisk
<1>3. synced \in Nat /\ m \in 1..Len(ls)
    BY DEF TypeOK, StoreTypeOK
<1>4. ls[m] \in LinesOf(ls, t) /\ ls[m] \in Line
    BY <1>3 DEF LinesOf
<1>5. Len(ls[m]) = NONCE_DIGITS
    BY <1>4 DEF wellFormed
<1>6. EndsWith(ls[m], issued[i].eta, NONCE_DIGITS)
    BY <1>2 DEF OnLine
<1>7. QED
    BY <1>1, <1>4, <1>5, <1>6, WholeLine

-----------------------------------------------------------------------------
(* The invariant is inductive. *)

\* The record is empty and nothing has been signed.
LEMMA InitIInv == Init => IInv
<1> SUFFICES ASSUME Init PROVE IInv
    OBVIOUS
<1> USE DEF Init, StoreInit
<1>1. TypeOK
    BY DigitsAssumption, RequestsAssumption DEF TypeOK, StoreTypeOK, Line, Nonce
<1>2. SignedOnce /\ SignedOnDisk /\ SignedInMemory /\ RecordProgress /\ CurrentUnsigned
    BY DEF SignedOnce, SignedOnDisk, SignedInMemory, running, RecordProgress, CurrentUnsigned
<1>3. QED
    BY <1>1, <1>2 DEF IInv

\* What has been signed stays on the same synced lines while the record does.
LEMMA DiskKept ==
    ASSUME TypeOK, SignedOnDisk, issued' = issued,
           synced' >= synced, \A m \in 1..synced : lines'[m] = lines[m],
           synced' \in Nat
    PROVE  SignedOnDisk'
<1>1. synced \in Nat
    BY DEF TypeOK, StoreTypeOK
<1>2. ASSUME NEW i \in 1..Len(issued)
      PROVE  \E m \in 1..synced' : OnLine(issued[i].eta, m)'
    <2>1. PICK m \in 1..synced : OnLine(issued[i].eta, m)
        BY DEF SignedOnDisk
    <2>2. m \in 1..synced' /\ lines'[m] = lines[m]
        BY <1>1
    <2>3. QED
        BY <2>1, <2>2 DEF OnLine
<1>3. QED
    BY <1>2 DEF SignedOnDisk

LEMMA StartStep ==
    ASSUME IInv, Start
    PROVE  IInv'
<1> USE DEF IInv, Start, open
<1>1. TypeOK'
    <2>1. LinesOf(lines, tail) \subseteq Nonce
        <3>1. lines \in Seq(Line) /\ tail \in Line
            BY DEF TypeOK, StoreTypeOK
        <3>2. LinesOf(lines, tail) \subseteq Line
            BY <3>1 DEF LinesOf
        <3>3. QED
            BY <3>2 DEF wellFormed, Nonce
    <2>2. QED
        BY <2>1, DigitsAssumption DEF TypeOK, StoreTypeOK, fileVars
<1>2. SignedInMemory'
    <2>1. SignedEtas \subseteq LinesOf(lines, tail)
        BY OpenFindsSigned DEF TypeOK, StoreTypeOK
    <2>2. QED
        BY <2>1 DEF SignedInMemory, SignedEtas, Signed
<1>3. SignedOnce' /\ SignedOnDisk'
    BY DEF SignedOnce, SignedOnDisk, OnLine, fileVars
<1>4. RecordProgress' /\ CurrentUnsigned'
    BY DEF RecordProgress, CurrentUnsigned
<1>5. QED
    BY <1>1, <1>2, <1>3, <1>4

LEMMA SubmitStep ==
    ASSUME IInv, NEW c \in Client, NEW r \in Request, Submit(c, r)
    PROVE  IInv'
<1> USE DEF IInv, Submit
<1>1. TypeOK'
    BY RequestsAssumption DEF TypeOK, StoreTypeOK, storeVars, fileVars
<1>2. SignedOnce' /\ SignedOnDisk' /\ SignedInMemory' /\ RecordProgress' /\ CurrentUnsigned'
    BY DEF SignedOnce, SignedOnDisk, OnLine, SignedInMemory, running, SignedEtas, Signed,
           RecordProgress, CurrentUnsigned, storeVars, fileVars
<1>3. QED
    BY <1>1, <1>2

LEMMA AcceptStep ==
    ASSUME IInv, NEW c \in Client, Accept(c)
    PROVE  IInv'
<1> USE DEF IInv, Accept
<1>1. waiting[c] \in Request /\ waiting[c].x \in Statement
    BY DEF TypeOK, Statement
<1>2. TypeOK'
    BY <1>1 DEF TypeOK, StoreTypeOK, storeVars, fileVars
<1>3. SignedOnce' /\ SignedOnDisk' /\ SignedInMemory'
    BY DEF SignedOnce, SignedOnDisk, OnLine, SignedInMemory, running, SignedEtas, Signed,
           storeVars, fileVars
<1>4. CurrentUnsigned'
    <2>1. waiting[c].x.eta \notin seen
        BY DEF accepts, acceptsRegister, acceptsApply, acceptsSettle, ensure_unsigned, contains
    <2>2. waiting[c].x.eta \notin SignedEtas
        BY <2>1 DEF SignedInMemory, running
    <2>3. QED
        BY <2>2 DEF CurrentUnsigned, SignedEtas, Signed
<1>5. RecordProgress'
    BY DEF RecordProgress, EndsWith, TypeOK, StoreTypeOK, Line, storeVars, fileVars
<1>6. QED
    BY <1>2, <1>3, <1>4, <1>5

LEMMA RefuseStep ==
    ASSUME IInv, NEW c \in Client, Refuse(c)
    PROVE  IInv'
<1> USE DEF IInv, Refuse
<1>1. TypeOK'
    BY DEF TypeOK, StoreTypeOK, storeVars, fileVars
<1>2. SignedOnce' /\ SignedOnDisk' /\ SignedInMemory' /\ RecordProgress' /\ CurrentUnsigned'
    BY DEF SignedOnce, SignedOnDisk, OnLine, SignedInMemory, running, SignedEtas, Signed,
           RecordProgress, CurrentUnsigned, storeVars, fileVars
<1>3. QED
    BY <1>1, <1>2

LEMMA WriteDigitStep ==
    ASSUME IInv, WriteDigit
    PROVE  IInv'
<1> USE DEF IInv, WriteDigit, writeDigit
<1>1. current.eta \in Nonce /\ written \in Nat /\ written < NONCE_DIGITS
    BY RequestsAssumption, DigitsAssumption DEF TypeOK, StoreTypeOK
<1>2. current.eta[written + 1] \in Digit
    BY <1>1, DigitsAssumption DEF Nonce, Line
<1>3. TypeOK'
    BY <1>1, <1>2, DigitsAssumption DEF TypeOK, StoreTypeOK, Line, serviceVars
<1>4. SignedOnce' /\ SignedOnDisk' /\ SignedInMemory' /\ CurrentUnsigned'
    BY DEF SignedOnce, SignedOnDisk, OnLine, SignedInMemory, running, SignedEtas, Signed,
           CurrentUnsigned, serviceVars
<1>5. RecordProgress'
    <2>1. EndsWith(tail', current.eta, written + 1)
        BY <1>1, AppendDigit DEF RecordProgress, TypeOK, StoreTypeOK
    <2>2. QED
        BY <2>1 DEF RecordProgress, serviceVars
<1>6. QED
    BY <1>3, <1>4, <1>5

LEMMA WriteNewlineStep ==
    ASSUME IInv, WriteNewline
    PROVE  IInv'
<1> USE DEF IInv, WriteNewline, writeNewline
<1>1. /\ lines \in Seq(Line) /\ tail \in Line
      /\ Len(lines') = Len(lines) + 1 /\ lines'[Len(lines) + 1] = tail
      /\ \A m \in 1..Len(lines) : lines'[m] = lines[m]
    BY DEF TypeOK, StoreTypeOK
<1>2. TypeOK'
    BY <1>1 DEF TypeOK, StoreTypeOK, Line
<1>3. SignedOnDisk'
    BY <1>1, DiskKept DEF TypeOK, StoreTypeOK
<1>4. SignedOnce' /\ SignedInMemory' /\ CurrentUnsigned'
    BY DEF SignedOnce, SignedInMemory, running, SignedEtas, Signed, CurrentUnsigned
<1>5. RecordProgress'
    BY <1>1 DEF RecordProgress, OnLine
<1>6. QED
    BY <1>2, <1>3, <1>4, <1>5

LEMMA RecordFailsStep ==
    ASSUME IInv, RecordFails
    PROVE  IInv'
<1> USE DEF IInv, RecordFails, recordFails
<1>1. TypeOK'
    BY DigitsAssumption DEF TypeOK, StoreTypeOK, fileVars
<1>2. SignedOnce' /\ SignedOnDisk' /\ SignedInMemory' /\ RecordProgress' /\ CurrentUnsigned'
    BY DEF SignedOnce, SignedOnDisk, OnLine, SignedInMemory, running, SignedEtas, Signed,
           RecordProgress, CurrentUnsigned, fileVars
<1>3. QED
    BY <1>1, <1>2

LEMMA SyncDataStep ==
    ASSUME IInv, SyncData
    PROVE  IInv'
<1> USE DEF IInv, SyncData, syncData
<1>1. current.eta \in Nonce
    BY RequestsAssumption DEF TypeOK
<1>2. Len(lines) \in Nat /\ synced \in 0..Len(lines)
    BY DEF TypeOK, StoreTypeOK
<1>3. TypeOK'
    BY <1>1, <1>2, DigitsAssumption DEF TypeOK, StoreTypeOK
<1>4. SignedOnDisk'
    BY <1>2, DiskKept
<1>5. SignedOnce' /\ SignedInMemory' /\ CurrentUnsigned'
    BY DEF SignedOnce, SignedInMemory, running, SignedEtas, Signed, CurrentUnsigned
<1>6. RecordProgress'
    <2>1. Len(lines) \in 1..synced' /\ OnLine(current.eta, Len(lines))'
        BY <1>2 DEF RecordProgress, OnLine
    <2>2. QED
        BY <2>1 DEF RecordProgress
<1>7. QED
    BY <1>3, <1>4, <1>5, <1>6

\* The one step that signs: the nonce is unsigned, on disk and in memory.
LEMMA SignStep ==
    ASSUME IInv, Sign
    PROVE  IInv' /\ current \in Statement /\ Signer!Sign(current)
<1> USE DEF IInv, Sign
<1>1. current \in Statement /\ issued \in Seq(Statement) /\ current.eta \notin SignedEtas
    BY DEF TypeOK, CurrentUnsigned
<1>2. /\ Len(issued') = Len(issued) + 1 /\ issued'[Len(issued) + 1] = current
      /\ \A i \in 1..Len(issued) : issued'[i] = issued[i]
      /\ Len(issued) \in Nat
    BY <1>1
<1>3. \A i \in 1..Len(issued') : i \in 1..Len(issued) \/ i = Len(issued) + 1
    BY <1>2
<1>4. \A i \in 1..Len(issued) : issued[i].eta # current.eta
    BY <1>1 DEF SignedEtas, Signed
<1>5. TypeOK'
    BY <1>1 DEF TypeOK, StoreTypeOK, storeVars, fileVars
<1>6. SignedOnce'
    BY <1>2, <1>3, <1>4 DEF SignedOnce
<1>7. SignedOnDisk'
    BY <1>2, <1>3 DEF SignedOnDisk, RecordProgress, OnLine, storeVars, fileVars
<1>8. SignedInMemory'
    BY <1>2, <1>3 DEF SignedInMemory, RecordProgress, running, SignedEtas, Signed,
                      storeVars
<1>9. RecordProgress' /\ CurrentUnsigned'
    BY DEF RecordProgress, CurrentUnsigned, storeVars
<1>10. Signer!Sign(current)
    <2>1. \A y \in Signed : y.eta # current.eta
        BY <1>1 DEF SignedEtas
    <2>2. Signed' = Signed \cup {current}
        BY <1>2, <1>3 DEF Signed
    <2>3. QED
        BY <2>1, <2>2 DEF Signer!Sign
<1>11. QED
    BY <1>1, <1>5, <1>6, <1>7, <1>8, <1>9, <1>10

LEMMA SignFailsStep ==
    ASSUME IInv, SignFails
    PROVE  IInv'
<1> USE DEF IInv, SignFails
<1>1. TypeOK'
    BY DEF TypeOK, StoreTypeOK, storeVars, fileVars
<1>2. SignedOnce' /\ SignedOnDisk' /\ SignedInMemory' /\ RecordProgress' /\ CurrentUnsigned'
    BY DEF SignedOnce, SignedOnDisk, OnLine, SignedInMemory, running, SignedEtas, Signed,
           RecordProgress, CurrentUnsigned, storeVars, fileVars
<1>3. QED
    BY <1>1, <1>2

LEMMA KillStep ==
    ASSUME IInv, Kill
    PROVE  IInv'
<1> USE DEF IInv, Kill, kill, GoDown
<1>1. TypeOK'
    BY DigitsAssumption, RequestsAssumption DEF TypeOK, StoreTypeOK, fileVars
<1>2. SignedOnce' /\ SignedOnDisk' /\ SignedInMemory' /\ RecordProgress' /\ CurrentUnsigned'
    BY DEF SignedOnce, SignedOnDisk, OnLine, SignedInMemory, running,
           RecordProgress, CurrentUnsigned, fileVars
<1>3. QED
    BY <1>1, <1>2

\* A line cut short is a line.
LEMMA PrefixOfLine ==
    ASSUME NEW s \in Line, NEW j \in 0..Len(s)
    PROVE  SubSeq(s, 1, j) \in Line
BY DEF Line

\* The cut is after the synced lines, so what was signed stays on disk.
LEMMA PowerLossStep ==
    ASSUME IInv, PowerLoss
    PROVE  IInv'
<1> USE DEF IInv, PowerLoss, powerLoss, GoDown
<1>1. /\ lines \in Seq(Line) /\ tail \in Line
      /\ synced \in Nat /\ synced <= Len(lines) /\ Len(lines) \in Nat
    BY DEF TypeOK, StoreTypeOK
<1>2. PICK k \in synced..Len(lines) :
        /\ lines' = SubSeq(lines, 1, k)
        /\ LET cut == IF k = Len(lines) THEN tail ELSE lines[k + 1]
           IN \E j \in 0..Len(cut) : tail' = SubSeq(cut, 1, j)
    OBVIOUS
<1> DEFINE cut == IF k = Len(lines) THEN tail ELSE lines[k + 1]
<1>3. cut \in Line
    BY <1>1
<1>4. PICK j \in 0..Len(cut) : tail' = SubSeq(cut, 1, j)
    BY <1>2
<1>5. tail' \in Line
    <2> HIDE DEF cut
    <2>1. QED
        BY <1>3, <1>4, PrefixOfLine
<1>6. /\ lines' \in Seq(Line) /\ Len(lines') = k
      /\ \A m \in 1..synced : lines'[m] = lines[m]
    BY <1>1, <1>2
<1>7. TypeOK'
    BY <1>1, <1>2, <1>5, <1>6, DigitsAssumption, RequestsAssumption DEF TypeOK, StoreTypeOK
<1>8. SignedOnDisk'
    BY <1>1, <1>6, DiskKept
<1>9. SignedOnce' /\ SignedInMemory' /\ RecordProgress' /\ CurrentUnsigned'
    BY DEF SignedOnce, SignedInMemory, running, RecordProgress, CurrentUnsigned
<1>10. QED
    BY <1>7, <1>8, <1>9

LEMMA NextIInv ==
    ASSUME IInv, [Next]_vars
    PROVE  IInv' /\ [Signer!Next]_Signed
<1>0. issued' = issued => Signed' = Signed
    BY DEF Signed
<1>1. CASE UNCHANGED vars
    BY <1>0, <1>1 DEF vars, storeVars, fileVars, serviceVars, IInv, TypeOK, StoreTypeOK, SignedOnce,
                SignedOnDisk, OnLine, SignedInMemory, running, SignedEtas, Signed,
                RecordProgress, CurrentUnsigned
<1>2. CASE Start
    BY <1>0, <1>2, StartStep DEF Start
<1>3. ASSUME NEW c \in Client, NEW r \in Request, Submit(c, r)
      PROVE  IInv' /\ issued' = issued
    BY <1>0, <1>3, SubmitStep DEF Submit
<1>4. ASSUME NEW c \in Client, Accept(c)
      PROVE  IInv' /\ issued' = issued
    BY <1>0, <1>4, AcceptStep DEF Accept
<1>5. ASSUME NEW c \in Client, Refuse(c)
      PROVE  IInv' /\ issued' = issued
    BY <1>0, <1>5, RefuseStep DEF Refuse
<1>6. CASE WriteDigit
    BY <1>0, <1>6, WriteDigitStep DEF WriteDigit, serviceVars
<1>7. CASE WriteNewline
    BY <1>0, <1>7, WriteNewlineStep DEF WriteNewline
<1>8. CASE RecordFails
    BY <1>0, <1>8, RecordFailsStep DEF RecordFails
<1>9. CASE SyncData
    BY <1>0, <1>9, SyncDataStep DEF SyncData
<1>10. CASE Sign
    BY <1>10, SignStep DEF Signer!Next
<1>11. CASE SignFails
    BY <1>0, <1>11, SignFailsStep DEF SignFails
<1>12. CASE Kill
    BY <1>0, <1>12, KillStep DEF Kill, GoDown
<1>13. CASE PowerLoss
    BY <1>0, <1>13, PowerLossStep DEF PowerLoss, GoDown
<1>14. QED
    BY <1>0, <1>1, <1>2, <1>3, <1>4, <1>5, <1>6, <1>7, <1>8, <1>9, <1>10, <1>11, <1>12, <1>13
    DEF Next

\* IInv holds in every reachable state of the policy verifier.
THEOREM Invariance == Spec => []IInv
<1>1. Init => IInv
    BY InitIInv
<1>2. IInv /\ [Next]_vars => IInv'
    BY NextIInv
<1>3. QED
    BY <1>1, <1>2, PTL DEF Spec

-----------------------------------------------------------------------------
(* What follows from it. *)

\* NonceStore::record with record_and_sign: no nonce is signed twice, across
\* crashes, power losses and failed writes.
THEOREM NoNonceSignedTwice == Spec => []SignedOnce
<1>1. IInv => SignedOnce
    BY DEF IInv
<1>2. QED
    BY <1>1, Invariance, PTL

\* The service, its record in memory and on disk keep their types.
THEOREM TypeCorrect == Spec => []TypeOK
<1>1. IInv => TypeOK
    BY DEF IInv
<1>2. QED
    BY <1>1, Invariance, PTL

\* NonceStore::open: every file that a restart can find is refused or holds
\* every signed nonce.
THEOREM RestartRemembersSigned == Spec => []LoadRemembersSigned
<1>1. IInv => LoadRemembersSigned
    <2> SUFFICES ASSUME IInv, NEW k \in synced..Len(lines),
                        NEW t \in Prefixes(IF k = Len(lines) THEN tail ELSE lines[k + 1]),
                        wellFormed(SubSeq(lines, 1, k), t)
                 PROVE  SignedEtas \subseteq LinesOf(SubSeq(lines, 1, k), t)
        BY DEF LoadRemembersSigned
    <2> DEFINE cut == IF k = Len(lines) THEN tail ELSE lines[k + 1]
    <2>1. /\ lines \in Seq(Line) /\ tail \in Line
          /\ synced \in Nat /\ synced <= Len(lines) /\ Len(lines) \in Nat
        BY DEF IInv, TypeOK, StoreTypeOK
    <2>2. cut \in Line
        BY <2>1
    <2>3. t \in Line
        <3>1. t \in Prefixes(cut)
            OBVIOUS
        <3> HIDE DEF cut
        <3>2. QED
            BY <2>2, <3>1, PrefixOfLine DEF Prefixes
    <2>4. /\ SubSeq(lines, 1, k) \in Seq(Line) /\ Len(SubSeq(lines, 1, k)) >= synced
          /\ \A m \in 1..synced : SubSeq(lines, 1, k)[m] = lines[m]
        BY <2>1
    <2>5. QED
        BY <2>3, <2>4, OpenFindsSigned DEF IInv
<1>2. QED
    BY <1>1, Invariance, PTL

\* The policy verifier, with its file, crashes and restarts, implements the
\* signer that the contract relies on: NotarySigner.
THEOREM Refinement == Spec => ImplementsSigner
<1>1. Init => Signer!Init
    BY DEF Init, Signer!Init, Signed
<1>2. IInv /\ [Next]_vars => [Signer!Next]_Signed
    BY NextIInv
<1>3. QED
    BY <1>1, <1>2, Invariance, PTL DEF Spec, ImplementsSigner, Signer!Spec

-----------------------------------------------------------------------------
(* What every signature rests on. *)

\* The statement in hand has passed the checks of its phase.
CurrentSupported == pc \in {"record", "sync", "sign"} => Supported(current)

SupportInv == CurrentSupported /\ SignedTimeSupported

\* A request that any of the three phases accepts supports its own statement: the
\* one place where the proof, the presentation and the times are compared.
LEMMA AcceptedIsSupported ==
    ASSUME NEW r \in Request, accepts(r)
    PROVE  Supported(r.x)
<1>1. attested(r)
    BY DEF accepts, acceptsRegister, acceptsApply, acceptsSettle
<1> DEFINE t == r.presentation.tAtt
           began == r.presentation.connectionTime
<1>2. r.x.tAtt = t /\ r.proof = [x |-> r.x, presentation |-> r.presentation]
    BY <1>1 DEF attested, verifyProof
<1>3. r.proof.x = r.x /\ r.proof.presentation = r.presentation
    BY <1>2
<1>4. r.presentation.genuine /\ check_times(t, began)
    BY <1>1 DEF attested, check_shape
<1>5. t \in Nat /\ began \in Nat /\ MaxSessionSecs \in Nat /\ TlsnClockTolerance \in Nat
    BY RequestsAssumption
<1>6. t \in 0..(began + MaxSessionSecs) /\ began \in 0..(t + TlsnClockTolerance)
    <2>1. t + TlsnClockTolerance >= began /\ (t > began => t - began <= MaxSessionSecs)
        BY <1>4 DEF check_times
    <2> HIDE DEF t, began
    <2>2. QED
        BY <1>5, <2>1
<1>7. QED
    BY <1>2, <1>3, <1>4, <1>6 DEF Supported

LEMMA SupportStep ==
    ASSUME IInv, SupportInv, [Next]_vars
    PROVE  SupportInv'
<1> USE DEF SupportInv
<1>1. ASSUME issued' = issued,
             pc' \in {"record", "sync", "sign"} =>
                pc \in {"record", "sync", "sign"} /\ current' = current
      PROVE  SupportInv'
    BY <1>1 DEF CurrentSupported, SignedTimeSupported
<1>2. CASE UNCHANGED vars
    BY <1>1, <1>2 DEF vars, serviceVars
<1>3. CASE Start \/ RecordFails \/ SignFails \/ Kill \/ PowerLoss
    BY <1>1, <1>3 DEF Start, RecordFails, SignFails, Kill, PowerLoss, GoDown
<1>4. ASSUME NEW c \in Client, NEW r \in Request, Submit(c, r)
      PROVE  SupportInv'
    BY <1>1, <1>4 DEF Submit
<1>5. ASSUME NEW c \in Client, Accept(c)
      PROVE  SupportInv'
    <2>1. waiting[c] \in Request /\ accepts(waiting[c])
        BY <1>5 DEF Accept, IInv, TypeOK
    <2>2. Supported(waiting[c].x)
        BY <2>1, AcceptedIsSupported
    <2>3. CurrentSupported'
        BY <1>5, <2>2 DEF Accept, CurrentSupported
    <2>4. SignedTimeSupported'
        BY <1>5 DEF Accept, SignedTimeSupported
    <2>5. QED
        BY <2>3, <2>4
<1>6. ASSUME NEW c \in Client, Refuse(c)
      PROVE  SupportInv'
    BY <1>1, <1>6 DEF Refuse
<1>7. CASE WriteDigit \/ WriteNewline \/ SyncData
    BY <1>1, <1>7 DEF WriteDigit, WriteNewline, SyncData, serviceVars
<1>8. CASE Sign
    <2>1. issued \in Seq(Statement) /\ current \in Statement /\ Supported(current)
        BY <1>8 DEF Sign, IInv, TypeOK, CurrentSupported
    <2>2. \A i \in 1..Len(issued') :
            issued'[i] = current \/ (i \in 1..Len(issued) /\ issued'[i] = issued[i])
        BY <1>8, <2>1 DEF Sign
    <2>3. SignedTimeSupported'
        BY <2>1, <2>2 DEF SignedTimeSupported
    <2>4. QED
        BY <1>8, <2>3 DEF Sign, CurrentSupported
<1>9. QED
    BY <1>2, <1>3, <1>4, <1>5, <1>6, <1>7, <1>8 DEF Next

\* check_shape, check_times and the sign_* functions: whatever the clients submit and
\* whenever the notary crashes, every signed time is within the tolerances of D29 of a
\* genuine session that the proof was made for.
THEOREM SignedTimesAreSupported == Spec => []SignedTimeSupported
<1>1. Init => SupportInv
    BY DEF Init, SupportInv, CurrentSupported, SignedTimeSupported
<1>2. IInv /\ SupportInv /\ [Next]_vars => SupportInv'
    BY SupportStep
<1>3. SupportInv => SignedTimeSupported
    BY DEF SupportInv
<1>4. QED
    BY <1>1, <1>2, <1>3, Invariance, PTL DEF Spec
=============================================================================
