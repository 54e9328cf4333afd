----------------------------- MODULE NonceStore -----------------------------
(***************************************************************************)
(* The notary's record of signed nonces,                                   *)
(* offchain/crates/pprev-notary/src/nonces.rs: an append-only file with    *)
(* one nonce per line, and the set of nonces read from it at start.        *)
(*                                                                         *)
(* A nonce is a sequence of NONCE_DIGITS digits (64 in the code).  The     *)
(* file is the sequence of its terminated lines and the unterminated tail  *)
(* after the last newline.  record appends with writeln!, which issues the *)
(* digits and the newline as separate writes: each digit is a step, so     *)
(* that a write cut short by an error or a crash leaves any prefix.        *)
(* sync_data is called only after a newline, so what is known to be on     *)
(* disk is always a number of whole lines, synced.                         *)
(***************************************************************************)
EXTENDS Naturals, Sequences

CONSTANTS
    Digit,
    NONCE_DIGITS

ASSUME DigitsAssumption == NONCE_DIGITS \in Nat \ {0}

VARIABLES
    lines,       \* the terminated lines of the file
    tail,        \* the digits after the last newline
    synced,      \* how many lines sync_data has put on disk
    seen,        \* NonceStore::seen, the nonces held in memory
    written      \* digits of the nonce being recorded that are in the file

fileVars  == <<lines, tail, synced>>
storeVars == <<fileVars, seen, written>>

Line  == Seq(Digit)
Nonce == {n \in Line : Len(n) = NONCE_DIGITS}

StoreTypeOK ==
    /\ lines \in Seq(Line) /\ tail \in Line
    /\ synced \in 0..Len(lines)
    /\ seen \subseteq Nonce
    /\ written \in 0..NONCE_DIGITS

StoreInit ==
    /\ lines = <<>> /\ tail = <<>> /\ synced = 0
    /\ seen = {} /\ written = 0

-----------------------------------------------------------------------------
(* open *)

\* The lines BufRead::lines yields: an empty tail is not a line.
LinesOf(ls, t) ==
    {ls[i] : i \in 1..Len(ls)} \cup (IF t = <<>> THEN {} ELSE {t})

\* Every line decodes to a 32-byte nonce.
wellFormed(ls, t) == \A line \in LinesOf(ls, t) : Len(line) = NONCE_DIGITS

\* NonceStore::open on the file (lines, tail); it fails on any malformed line.
open ==
    /\ wellFormed(lines, tail)
    /\ seen' = LinesOf(lines, tail)
    /\ written' = 0
    /\ UNCHANGED fileVars

-----------------------------------------------------------------------------
(* record, one system call at a time *)

\* Mutant of contains: no nonce is found.
containsNothing(eta) == FALSE

contains(eta) == eta \in seen

\* The test for eta and the first digits of writeln!; a write may be short.
writeDigit(eta) ==
    /\ written = 0 => ~contains(eta)
    /\ written < NONCE_DIGITS
    /\ tail' = Append(tail, eta[written + 1])
    /\ written' = written + 1
    /\ UNCHANGED <<lines, synced, seen>>

\* The newline of writeln!.
writeNewline ==
    /\ written = NONCE_DIGITS
    /\ lines' = Append(lines, tail)
    /\ tail' = <<>>
    /\ UNCHANGED <<synced, seen, written>>

\* Mutant of syncData: the nonce is remembered but not flushed to disk.
insertOnly(eta) ==
    /\ seen' = seen \cup {eta}
    /\ written' = 0
    /\ UNCHANGED fileVars

\* sync_data succeeds and eta is inserted: record returns Ok.
syncData(eta) ==
    /\ synced' = Len(lines)
    /\ seen' = seen \cup {eta}
    /\ written' = 0
    /\ UNCHANGED <<lines, tail>>

\* A write or sync_data fails: record returns the error.  What reached the
\* file stays there, and eta is not inserted.
recordFails ==
    /\ written' = 0
    /\ UNCHANGED <<fileVars, seen>>

-----------------------------------------------------------------------------
(* The process and the machine going down.  Memory is lost. *)

\* The process is killed: the operating system keeps what was written.
kill ==
    /\ seen' = {}
    /\ written' = 0
    /\ UNCHANGED fileVars

\* The machine goes down: any part of the file after the synced lines may be
\* cut off, in the middle of a line too.
powerLoss ==
    /\ \E k \in synced..Len(lines) :
         /\ lines' = SubSeq(lines, 1, k)
         /\ LET cut == IF k = Len(lines) THEN tail ELSE lines[k + 1]
            IN \E j \in 0..Len(cut) : tail' = SubSeq(cut, 1, j)
    /\ seen' = {}
    /\ written' = 0
    /\ UNCHANGED synced
=============================================================================
