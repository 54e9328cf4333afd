-------------------------- MODULE NetemLinkProofs --------------------------
(***************************************************************************)
(* Proofs about one connection of the emulated link, for every chunk size, *)
(* queue bound, delay and bandwidth: it neither loses nor reorders, keeps  *)
(* the bound of its queues and is no faster than its parameters.           *)
(***************************************************************************)
EXTENDS NetemLink, SequenceTheorems, TLAPS

Local(d) == Adjoining(d) /\ EndIsLast(d) /\ RoomCounts(d) /\ Scheduled(d)

\* What a step that does not touch direction e leaves alone.
Untouched(e) ==
    /\ sent'[e] = sent[e] /\ eof'[e] = eof[e] /\ queue_bytes'[e] = queue_bytes[e]
    /\ readTo'[e] = readTo[e] /\ pushed'[e] = pushed[e] /\ reader'[e] = reader[e]
    /\ queue'[e] = queue[e] /\ room'[e] = room[e] /\ link_free_at'[e] = link_free_at[e]
    /\ writer'[e] = writer[e] /\ held'[e] = held[e] /\ delivered'[e] = delivered[e]

-----------------------------------------------------------------------------
(* Data. *)

LEMMA Constants ==
    /\ CHUNK \in Nat \ {0} /\ QueueSizes \subseteq Nat
    /\ DELAY \in Nat /\ PER_BYTE \in Nat /\ MaxTime \in Nat
    /\ MaxBytes \in [Direction -> Nat]
BY LinkAssumption

LEMMA Product == \A a, b \in Nat : a * b \in Nat
OBVIOUS

\* The time for the bytes up to hi is the time up to lo and the time between.
LEMMA Distribute ==
    ASSUME NEW p \in Nat, NEW lo \in Nat, NEW hi \in Nat, lo <= hi
    PROVE  p * lo + (hi - lo) * p = p * hi
OBVIOUS

LEMMA AppendFacts ==
    ASSUME NEW q \in Seq(Chunk), NEW c \in Chunk
    PROVE  /\ Append(q, c) \in Seq(Chunk) /\ Append(q, c) # <<>>
           /\ Len(Append(q, c)) = Len(q) + 1 /\ Len(q) \in Nat
           /\ \A i \in 1..Len(q) : Append(q, c)[i] = q[i]
           /\ Append(q, c)[Len(q) + 1] = c
OBVIOUS

LEMMA TailFacts ==
    ASSUME NEW q \in Seq(Chunk), q # <<>>
    PROVE  /\ Tail(q) \in Seq(Chunk) /\ Head(q) = q[1] /\ q[1] \in Chunk
           /\ Len(q) \in Nat /\ Len(q) >= 1 /\ Len(Tail(q)) = Len(q) - 1
           /\ \A i \in 1..Len(Tail(q)) : Tail(q)[i] = q[i + 1]
           /\ Tail(q) = <<>> <=> Len(q) = 1
<1>1. Tail(q) \in Seq(Chunk) /\ Head(q) = q[1] /\ Len(q) \in Nat /\ Len(q) >= 1
  OBVIOUS
<1>2. Len(Tail(q)) = Len(q) - 1
  OBVIOUS
<1>3. \A i \in 1..Len(Tail(q)) : Tail(q)[i] = q[i + 1]
  BY <1>2
<1>4. Tail(q) = <<>> <=> Len(Tail(q)) = 0
  BY <1>1, EmptySeq
<1> QED BY <1>1, <1>2, <1>3, <1>4

LEMMA UntouchedLocal ==
    ASSUME NEW e \in Direction, Local(e), Untouched(e)
    PROVE  Local(e)'
BY DEF Local, Untouched, Adjoining, EndIsLast, RoomCounts, Scheduled

-----------------------------------------------------------------------------
LEMMA InitLInv == Init => LInv
<1> SUFFICES ASSUME Init PROVE LInv
  OBVIOUS
<1>1. queue_bytes \in [Direction -> Nat]
  BY Constants DEF Init
<1>2. TypeOK
  BY <1>1 DEF Init, TypeOK, Chunk, NoChunk
<1>3. LinkRate
  BY DEF Init, LinkRate
<1>4. ASSUME NEW d \in Direction PROVE Local(d)
  <2>1. PER_BYTE * 0 = 0
    BY Constants
  <2> QED BY <1>1, <2>1 DEF Init, Local, Adjoining, EndIsLast, RoomCounts, Scheduled
<1> QED BY <1>2, <1>3, <1>4 DEF LInv, Local

\* The ends of the connection and time.
LEMMA OutsideKeepsLInv ==
    ASSUME LInv,
           \/ \E d \in Direction : Send(d) \/ HalfClose(d)
           \/ \E p \in Peer : Reset(p)
           \/ Tick \/ \E d \in Direction : Fail(d)
    PROVE  LInv'
<1>1. ASSUME NEW d \in Direction, Send(d) PROVE LInv'
  <2>1. TypeOK'
    <3>a. sent \in [Direction -> Nat] /\ sent' = [sent EXCEPT ![d] = sent[d] + 1]
      BY <1>1 DEF LInv, TypeOK, Send
    <3>b. sent[d] + 1 \in Nat
      BY <3>a
    <3>1. sent' \in [Direction -> Nat]
      BY <3>a, <3>b
    <3> QED BY <1>1, <3>1 DEF LInv, TypeOK, Send, readVars, writeVars
  <2>2. LinkRate'
    BY <1>1 DEF LInv, LinkRate, Send, writeVars
  <2>3. ASSUME NEW e \in Direction PROVE Local(e)'
    <3>1. CASE e # d
      BY <1>1, <3>1, UntouchedLocal DEF LInv, Local, TypeOK, Untouched, Send, readVars, writeVars
    <3>2. CASE e = d
      <4>1. ~(reader[e] = "done")
        BY <1>1, <3>2 DEF LInv, EndIsLast, Send
      <4> QED BY <1>1, <3>2, <4>1 DEF LInv, Local, Send, readVars, writeVars,
                  Adjoining, EndIsLast, RoomCounts, Scheduled
    <3> QED BY <3>1, <3>2
  <2> QED BY <2>1, <2>2, <2>3 DEF LInv, Local
<1>2. ASSUME NEW d \in Direction, HalfClose(d) PROVE LInv'
  <2>1. TypeOK'
    BY <1>2 DEF LInv, TypeOK, HalfClose, readVars, writeVars
  <2>2. LinkRate'
    BY <1>2 DEF LInv, LinkRate, HalfClose, writeVars
  <2>3. ASSUME NEW e \in Direction PROVE Local(e)'
    <3>1. eof[e] => eof'[e]
      BY <1>2 DEF LInv, TypeOK, HalfClose
    <3> QED BY <1>2, <3>1 DEF LInv, Local, HalfClose, readVars, writeVars,
                Adjoining, EndIsLast, RoomCounts, Scheduled
  <2> QED BY <2>1, <2>2, <2>3 DEF LInv, Local
<1>3. ASSUME NEW p \in Peer, Reset(p) PROVE LInv'
  <2>1. TypeOK'
    BY <1>3 DEF LInv, TypeOK, Reset, readVars, writeVars
  <2>2. LinkRate'
    BY <1>3 DEF LInv, LinkRate, Reset, writeVars
  <2>3. ASSUME NEW e \in Direction PROVE Local(e)'
    <3>1. Untouched(e)
      BY <1>3 DEF Untouched, Reset, readVars, writeVars
    <3> QED BY <3>1, UntouchedLocal DEF LInv, Local
  <2> QED BY <2>1, <2>2, <2>3 DEF LInv, Local
<1>4. ASSUME Tick PROVE LInv'
  <2>1. TypeOK'
    <3>1. /\ now' = now + 1
          /\ UNCHANGED <<peerVars, queue_bytes, readVars, queue, room, ready, writeVars, outcome>>
      BY <1>4 DEF Tick
    <3>2. TypeOK
      BY DEF LInv
    <3>3. now' \in Nat
      BY <3>1, <3>2 DEF TypeOK
    <3> QED BY <3>1, <3>2, <3>3 DEF TypeOK, peerVars, readVars, writeVars
  <2>2. LinkRate'
    <3> SUFFICES ASSUME NEW d \in Direction, delivered[d] > 0
                 PROVE  DELAY + PER_BYTE * delivered[d] <= now + 1
      BY <1>4 DEF LinkRate, Tick, writeVars
    <3>1. PER_BYTE * delivered[d] \in Nat
      BY Constants, Product DEF LInv, TypeOK
    <3>2. DELAY + PER_BYTE * delivered[d] <= now
      BY DEF LInv, LinkRate
    <3>3. now \in Nat
      BY DEF LInv, TypeOK
    <3> QED BY <3>1, <3>2, <3>3, Constants
  <2>3. ASSUME NEW e \in Direction PROVE Local(e)'
    <3>1. Untouched(e)
      BY <1>4 DEF Untouched, Tick, peerVars, readVars, writeVars
    <3> QED BY <3>1, UntouchedLocal DEF LInv, Local
  <2> QED BY <2>1, <2>2, <2>3 DEF LInv, Local
<1>5. ASSUME NEW d \in Direction, Fail(d) PROVE LInv'
  <2>1. TypeOK'
    BY <1>5 DEF LInv, TypeOK, Fail, peerVars, readVars, writeVars
  <2>2. LinkRate'
    BY <1>5 DEF LInv, LinkRate, Fail, writeVars
  <2>3. ASSUME NEW e \in Direction PROVE Local(e)'
    <3>1. Untouched(e)
      BY <1>5 DEF Untouched, Fail, peerVars, readVars, writeVars
    <3> QED BY <3>1, UntouchedLocal DEF LInv, Local
  <2> QED BY <2>1, <2>2, <2>3 DEF LInv, Local
<1> QED BY <1>1, <1>2, <1>3, <1>4, <1>5

-----------------------------------------------------------------------------
(* The reader. *)

\* What push adds to direction d.
LEMMA PushFacts ==
    ASSUME LInv, NEW d \in Direction, NEW hi \in Nat, pushed[d] <= hi, push(d, hi)
    PROVE  /\ queue' \in [Direction -> Seq(Chunk)] /\ link_free_at' \in [Direction -> Nat]
           /\ pushed' = [pushed EXCEPT ![d] = hi] /\ ready' \in [Direction -> BOOLEAN]
           /\ \A e \in Direction : e # d => /\ queue'[e] = queue[e] /\ pushed'[e] = pushed[e]
                                             /\ link_free_at'[e] = link_free_at[e]
           /\ PER_BYTE * hi <= link_free_at'[d]
           /\ \E c \in Chunk : /\ queue'[d] = Append(queue[d], c)
                                /\ c.lo = pushed[d] /\ c.hi = hi
                                /\ DELAY + PER_BYTE * hi <= c.at
<1> DEFINE free == start(d) + (hi - pushed[d]) * PER_BYTE
           c == [at |-> free + DELAY, lo |-> pushed[d], hi |-> hi]
<1>1. start(d) \in Nat /\ link_free_at[d] <= start(d) /\ pushed[d] \in Nat
  BY DEF LInv, TypeOK, start
<1>2. hi - pushed[d] \in Nat /\ (hi - pushed[d]) * PER_BYTE \in Nat
      /\ PER_BYTE * pushed[d] \in Nat /\ PER_BYTE * hi \in Nat
  <2>1. hi - pushed[d] \in Nat
    BY <1>1
  <2> QED BY <1>1, <2>1, Constants, Product
<1>3. PER_BYTE * pushed[d] + (hi - pushed[d]) * PER_BYTE = PER_BYTE * hi
  BY <1>1, Constants, Distribute
<1>4. PER_BYTE * pushed[d] <= link_free_at[d] /\ link_free_at[d] \in Nat
  BY DEF LInv, Scheduled, TypeOK
<1>5. free \in Nat /\ PER_BYTE * hi <= free
  BY <1>1, <1>2, <1>3, <1>4
<1>6. c \in Chunk /\ DELAY + PER_BYTE * hi <= c.at
  BY <1>1, <1>2, <1>5, Constants DEF Chunk
<1> HIDE DEF free
<1>7. /\ link_free_at' = [link_free_at EXCEPT ![d] = free]
      /\ queue' = [queue EXCEPT ![d] = Append(@, c)]
      /\ pushed' = [pushed EXCEPT ![d] = hi]
      /\ ready' = [ready EXCEPT ![d] = TRUE]
  BY DEF push, enqueue, free
<1>8. queue \in [Direction -> Seq(Chunk)] /\ Append(queue[d], c) \in Seq(Chunk)
  BY <1>6, AppendFacts DEF LInv, TypeOK
<1>9. queue' \in [Direction -> Seq(Chunk)] /\ queue'[d] = Append(queue[d], c)
  BY <1>7, <1>8
<1>10. ready' \in [Direction -> BOOLEAN]
  BY <1>7 DEF LInv, TypeOK
<1>11. link_free_at' \in [Direction -> Nat] /\ link_free_at'[d] = free
  BY <1>5, <1>7 DEF LInv, TypeOK
<1>12. \A e \in Direction : e # d => /\ queue'[e] = queue[e] /\ pushed'[e] = pushed[e]
                                     /\ link_free_at'[e] = link_free_at[e]
  BY <1>7 DEF LInv, TypeOK
<1> QED BY <1>5, <1>6, <1>7, <1>9, <1>10, <1>11, <1>12

LEMMA ReadStep ==
    ASSUME LInv, NEW d \in Direction, Read(d)
    PROVE  LInv'
<1>1. PICK n \in 1..CHUNK : readTo[d] + n <= sent[d] /\ readTo' = [readTo EXCEPT ![d] = @ + n]
  BY DEF Read
<1>2. n \in Nat /\ n > 0
  BY Constants
<1>3. readTo' \in [Direction -> Nat] /\ readTo'[d] = readTo[d] + n
  BY <1>1, <1>2 DEF LInv, TypeOK
<1>4. TypeOK'
  BY <1>3 DEF LInv, TypeOK, Read, peerVars, writeVars
<1>5. LinkRate'
  BY DEF LInv, LinkRate, Read, writeVars
<1>6. ASSUME NEW e \in Direction PROVE Local(e)'
  <2>1. CASE e # d
    <3>1. Untouched(e)
      BY <1>1, <2>1 DEF LInv, TypeOK, Untouched, Read, peerVars, writeVars
    <3> QED BY <3>1, UntouchedLocal DEF LInv, Local
  <2>2. CASE e = d
    <3>1. /\ reader[d] = "read" /\ reader'[d] = "acquire" /\ pushed[d] = readTo[d]
          /\ readTo[d] \in Nat
      BY DEF Read, LInv, TypeOK, RoomCounts
    <3>2. UNCHANGED <<queue, writer, held, delivered, pushed, room, queue_bytes, link_free_at,
                      eof, sent>>
      BY DEF Read, peerVars, writeVars
    <3>3. Adjoining(d)' /\ Scheduled(d)'
      BY <3>2 DEF LInv, Adjoining, Scheduled
    <3>4. EndIsLast(d)'
      BY <3>1, <3>2 DEF LInv, EndIsLast
    <3>5. RoomCounts(d)'
      BY <1>2, <1>3, <3>1, <3>2 DEF LInv, RoomCounts
    <3> QED BY <2>2, <3>3, <3>4, <3>5 DEF Local
  <2> QED BY <2>1, <2>2
<1> QED BY <1>4, <1>5, <1>6 DEF LInv, Local

\* The queue of direction d after a chunk, or the end of the stream, is pushed.
LEMMA PushLocal ==
    ASSUME LInv, NEW d \in Direction, NEW hi \in Nat, pushed[d] <= hi, push(d, hi),
           reader[d] # "done", reader'[d] \in {"read", "done"},
           pushed[d] = hi <=> reader'[d] = "done",
           reader'[d] = "done" => eof[d] /\ readTo[d] = sent[d],
           readTo[d] = hi,
           room'[d] = room[d] - (hi - pushed[d]),
           UNCHANGED <<peerVars, queue_bytes, readTo, writeVars>>
    PROVE  Local(d)'
<1>1. PICK c \in Chunk : /\ queue'[d] = Append(queue[d], c)
                         /\ c.lo = pushed[d] /\ c.hi = hi
                         /\ DELAY + PER_BYTE * hi <= c.at
  BY PushFacts
<1>2. pushed'[d] = hi /\ PER_BYTE * hi <= link_free_at'[d]
  <2>1. pushed' = [pushed EXCEPT ![d] = hi] /\ PER_BYTE * hi <= link_free_at'[d]
    BY PushFacts
  <2>2. pushed \in [Direction -> Nat]
    BY DEF LInv, TypeOK
  <2> QED BY <2>1, <2>2
<1> DEFINE q == queue[d]
           r == Append(queue[d], c)
<1>3. /\ q \in Seq(Chunk) /\ r # <<>> /\ Len(r) = Len(q) + 1 /\ Len(q) \in Nat
      /\ \A i \in 1..Len(q) : r[i] = q[i]
      /\ r[Len(q) + 1] = c
  <2>1. q \in Seq(Chunk)
    BY DEF LInv, TypeOK
  <2> HIDE DEF q
  <2>2. r = Append(q, c)
    BY DEF q
  <2> HIDE DEF r
  <2> QED BY <2>1, <2>2, AppendFacts
<1>4. q # <<>> => Len(q) >= 1 /\ r[1] = q[1]
  BY <1>3, EmptySeq
<1>5. q = <<>> => Len(q) = 0
  OBVIOUS
<1>6. /\ sent' = sent /\ eof' = eof /\ writer' = writer /\ held' = held
      /\ delivered' = delivered /\ readTo' = readTo /\ queue_bytes' = queue_bytes
  BY DEF peerVars, writeVars
<1>7. Adjoining(d) /\ EndIsLast(d) /\ RoomCounts(d) /\ Scheduled(d)
  BY DEF LInv
<1>8. pushed[d] \in Nat /\ room[d] \in Nat /\ delivered[d] \in Nat /\ queue_bytes[d] \in Nat
  BY DEF LInv, TypeOK
<1> HIDE DEF q, r
<1>9. \A i \in 1..Len(r) : i \in 1..Len(q) \/ i = Len(r)
  BY <1>3
<1>10. Adjoining(d)'
  <2>1. queue'[d] = r
    BY <1>1 DEF r
  <2>2. ASSUME NEW i \in 1..Len(r) PROVE r[i].lo <= r[i].hi /\ r[i].hi <= pushed'[d]
    <3>1. CASE i \in 1..Len(q)
      <4>1. r[i] = q[i] /\ q[i] \in Chunk /\ q[i].lo <= q[i].hi /\ q[i].hi <= pushed[d]
        BY <1>3, <1>7, <3>1 DEF Adjoining, q
      <4> QED BY <1>2, <1>8, <4>1 DEF Chunk
    <3>2. CASE i = Len(r)
      BY <1>1, <1>2, <1>3, <3>2
    <3> QED BY <1>9, <3>1, <3>2
  <2>6. writer[d] = "deliver" => held[d].hi <= pushed'[d]
    BY <1>2, <1>7, <1>8 DEF Adjoining, LInv, TypeOK, Chunk
  <2>3. ASSUME NEW i \in 1..Len(r), i > 1 PROVE r[i].lo = r[i - 1].hi
    <3>1. CASE i \in 1..Len(q)
      <4>1. i - 1 \in 1..Len(q)
        BY <1>3, <2>3, <3>1
      <4> QED BY <1>3, <1>7, <2>3, <3>1, <4>1 DEF Adjoining, q
    <3>2. CASE i = Len(r)
      <4>1. i - 1 = Len(q) /\ Len(q) \in 1..Len(q) /\ r[i] = c
        BY <1>3, <2>3, <3>2
      <4>2. q # <<>>
        BY <4>1, <1>5 DEF q
      <4> QED BY <1>1, <1>3, <1>7, <4>1, <4>2 DEF Adjoining, q
    <3> QED BY <1>9, <3>1, <3>2
  <2>4. r[Len(r)].hi = pushed'[d]
    BY <1>1, <1>2, <1>3
  <2>5. r[1].lo = IF writer[d] = "deliver" THEN held[d].hi ELSE delivered[d]
    <3>1. CASE q = <<>>
      <4>1. r[1] = c
        BY <1>3, <1>5, <3>1 DEF q
      <4> QED BY <1>1, <1>7, <3>1, <4>1 DEF Adjoining, q
    <3>2. CASE q # <<>>
      BY <1>4, <1>7, <3>2 DEF Adjoining, q
    <3> QED BY <3>1, <3>2
  <2> QED BY <1>3, <1>6, <1>7, <2>1, <2>2, <2>3, <2>4, <2>5, <2>6 DEF Adjoining
<1>11. EndIsLast(d)'
  <2>1. queue'[d] = r
    BY <1>1 DEF r
  <2>2. ASSUME NEW i \in 1..Len(r), r[i].lo = r[i].hi PROVE i = Len(r) /\ reader'[d] = "done"
    <3>1. CASE i \in 1..Len(q)
      BY <1>3, <1>7, <2>2, <3>1 DEF EndIsLast, q
    <3>2. CASE i = Len(r)
      BY <1>1, <1>3, <2>2, <3>2
    <3> QED BY <1>9, <3>1, <3>2
  <2> QED BY <1>6, <1>7, <2>1, <2>2 DEF EndIsLast
<1>12. RoomCounts(d)'
  BY <1>2, <1>6, <1>7, <1>8 DEF RoomCounts
<1>13. Scheduled(d)'
  <2>1. queue'[d] = r
    BY <1>1 DEF r
  <2>2. \A i \in 1..Len(r) : DELAY + PER_BYTE * r[i].hi <= r[i].at
    BY <1>1, <1>3, <1>7, <1>9 DEF Scheduled, q
  <2> QED BY <1>2, <1>6, <1>7, <2>1, <2>2 DEF Scheduled
<1> QED BY <1>10, <1>11, <1>12, <1>13 DEF Local

LEMMA AcquireStep ==
    ASSUME LInv, NEW d \in Direction, Acquire(d)
    PROVE  LInv'
<1> DEFINE n == readTo[d] - pushed[d]
<1>1. /\ reader[d] = "acquire" /\ reader' = [reader EXCEPT ![d] = "read"]
      /\ room' = [room EXCEPT ![d] = @ - n] /\ room[d] >= n /\ push(d, readTo[d])
      /\ UNCHANGED <<now, peerVars, queue_bytes, readTo, writeVars, outcome>>
  BY DEF Acquire
<1>2. readTo[d] \in Nat /\ pushed[d] \in Nat /\ pushed[d] < readTo[d]
  BY <1>1 DEF LInv, TypeOK, RoomCounts
<1>3. n \in Nat /\ room[d] - n \in Nat
  BY <1>1, <1>2 DEF LInv, TypeOK
<1>4. room' \in [Direction -> Nat] /\ room'[d] = room[d] - n
  BY <1>1, <1>3 DEF LInv, TypeOK
<1>5. TypeOK'
  <2>1. /\ queue' \in [Direction -> Seq(Chunk)] /\ link_free_at' \in [Direction -> Nat]
        /\ pushed' = [pushed EXCEPT ![d] = readTo[d]] /\ ready' \in [Direction -> BOOLEAN]
    BY <1>1, <1>2, PushFacts
  <2> QED BY <1>1, <1>2, <1>4, <2>1 DEF LInv, TypeOK, peerVars, writeVars
<1>6. LinkRate'
  BY <1>1 DEF LInv, LinkRate, writeVars
<1>7. reader'[d] = "read"
  BY <1>1 DEF LInv, TypeOK
<1>8. Local(d)'
  BY <1>1, <1>2, <1>4, <1>7, PushLocal
<1>9. ASSUME NEW e \in Direction, e # d PROVE Local(e)'
  <2>1. queue'[e] = queue[e] /\ pushed'[e] = pushed[e] /\ link_free_at'[e] = link_free_at[e]
    BY <1>1, <1>2, <1>9, PushFacts
  <2>2. room'[e] = room[e] /\ reader'[e] = reader[e]
    BY <1>1, <1>9 DEF LInv, TypeOK
  <2>3. Untouched(e)
    BY <1>1, <2>1, <2>2 DEF Untouched, peerVars, writeVars
  <2> QED BY <2>3, UntouchedLocal DEF LInv, Local
<1> QED BY <1>5, <1>6, <1>8, <1>9 DEF LInv, Local

LEMMA ReadEndStep ==
    ASSUME LInv, NEW d \in Direction, ReadEnd(d)
    PROVE  LInv'
<1>1. /\ reader[d] = "read" /\ reader' = [reader EXCEPT ![d] = "done"]
      /\ eof[d] /\ readTo[d] = sent[d] /\ push(d, pushed[d])
      /\ UNCHANGED <<now, peerVars, queue_bytes, readTo, room, writeVars, outcome>>
  BY DEF ReadEnd
<1>2. readTo[d] = pushed[d] /\ pushed[d] \in Nat /\ room[d] \in Nat
  BY <1>1 DEF LInv, TypeOK, RoomCounts
<1>3. pushed[d] <= pushed[d] /\ room[d] = room[d] - (pushed[d] - pushed[d])
  BY <1>2
<1>5. TypeOK'
  <2>1. /\ queue' \in [Direction -> Seq(Chunk)] /\ link_free_at' \in [Direction -> Nat]
        /\ pushed' = [pushed EXCEPT ![d] = pushed[d]] /\ ready' \in [Direction -> BOOLEAN]
    BY <1>1, <1>2, <1>3, PushFacts
  <2> QED BY <1>1, <1>2, <2>1 DEF LInv, TypeOK, peerVars, writeVars
<1>6. LinkRate'
  BY <1>1 DEF LInv, LinkRate, writeVars
<1>7. reader'[d] = "done"
  BY <1>1 DEF LInv, TypeOK
<1>8. Local(d)'
  BY <1>1, <1>2, <1>3, <1>7, PushLocal
<1>9. ASSUME NEW e \in Direction, e # d PROVE Local(e)'
  <2>1. queue'[e] = queue[e] /\ pushed'[e] = pushed[e] /\ link_free_at'[e] = link_free_at[e]
    BY <1>1, <1>2, <1>3, <1>9, PushFacts
  <2>2. reader'[e] = reader[e]
    BY <1>1, <1>9 DEF LInv, TypeOK
  <2>3. Untouched(e)
    BY <1>1, <2>1, <2>2 DEF Untouched, peerVars, writeVars
  <2> QED BY <2>3, UntouchedLocal DEF LInv, Local
<1> QED BY <1>5, <1>6, <1>8, <1>9 DEF LInv, Local

-----------------------------------------------------------------------------
(* The writer. *)

LEMMA PopFrontStep ==
    ASSUME LInv, NEW d \in Direction, PopFront(d)
    PROVE  LInv'
<1>0. UNCHANGED <<now, peerVars, queue_bytes, readVars, room, ready, delivered, outcome>>
      /\ writer[d] = "next"
  BY DEF PopFront
<1>1. LinkRate'
  BY <1>0 DEF LInv, LinkRate
<1>2. CASE queue[d] = <<>> /\ writer' = [writer EXCEPT ![d] = "notified"]
           /\ UNCHANGED <<held, queue>>
  <2>1. TypeOK'
    BY <1>0, <1>2 DEF LInv, TypeOK, peerVars, readVars
  <2>2. ASSUME NEW e \in Direction PROVE Local(e)'
    <3>1. writer'[e] = writer[e] \/ (writer[e] = "next" /\ writer'[e] = "notified")
      BY <1>0, <1>2 DEF LInv, TypeOK
    <3> QED BY <1>0, <1>2, <3>1 DEF LInv, Local, peerVars, readVars,
               Adjoining, EndIsLast, RoomCounts, Scheduled
  <2> QED BY <1>1, <2>1, <2>2 DEF LInv, Local
<1>3. CASE /\ queue[d] # <<>>
           /\ held' = [held EXCEPT ![d] = Head(queue[d])]
           /\ queue' = [queue EXCEPT ![d] = Tail(@)]
           /\ writer' = [writer EXCEPT ![d] = "deliver"]
  <2> DEFINE q == queue[d]
             r == Tail(queue[d])
  <2>1. /\ r \in Seq(Chunk) /\ Head(q) = q[1] /\ q[1] \in Chunk
        /\ Len(q) \in Nat /\ Len(q) >= 1 /\ Len(r) = Len(q) - 1
        /\ \A i \in 1..Len(r) : r[i] = q[i + 1]
        /\ r = <<>> <=> Len(q) = 1
    BY <1>3, TailFacts DEF LInv, TypeOK
  <2>2. TypeOK'
    BY <1>0, <1>3, <2>1 DEF LInv, TypeOK, peerVars, readVars
  <2>3. queue'[d] = r /\ held'[d] = q[1] /\ writer'[d] = "deliver"
    BY <1>3, <2>1 DEF LInv, TypeOK
  <2>4. Adjoining(d) /\ EndIsLast(d) /\ RoomCounts(d) /\ Scheduled(d)
    BY DEF LInv
  <2> HIDE DEF r
  <2>5. 1 \in 1..Len(q) /\ \A i \in 1..Len(r) : i + 1 \in 1..Len(q)
    BY <2>1
  <2>6. Adjoining(d)'
    <3>1. q[1].lo = delivered[d] /\ q[1].lo <= q[1].hi /\ q[1].hi <= pushed[d]
          /\ q[Len(q)].hi = pushed[d]
      BY <1>0, <1>3, <2>4, <2>5 DEF Adjoining
    <3>2. \A i \in 1..Len(r) : r[i].lo <= r[i].hi /\ r[i].hi <= pushed[d]
      BY <2>1, <2>4, <2>5 DEF Adjoining
    <3>3. ASSUME NEW i \in 1..Len(r), i > 1 PROVE r[i].lo = r[i - 1].hi
      <4>1. i - 1 \in 1..Len(r) /\ i + 1 > 1 /\ (i - 1) + 1 = i /\ (i + 1) - 1 = i
        BY <2>1, <3>3
      <4>2. q[i + 1].lo = q[(i + 1) - 1].hi
        BY <2>4, <2>5, <4>1 DEF Adjoining
      <4> QED BY <2>1, <4>1, <4>2
    <3>4. r # <<>> => r[1].lo = q[1].hi /\ r[Len(r)].hi = pushed[d]
      <4> SUFFICES ASSUME r # <<>> PROVE r[1].lo = q[1].hi /\ r[Len(r)].hi = pushed[d]
        OBVIOUS
      <4>1. 1 \in 1..Len(r) /\ Len(r) \in 1..Len(r) /\ Len(r) + 1 = Len(q) /\ 1 + 1 = 2 /\ 2 - 1 = 1
            /\ 2 > 1 /\ 2 \in 1..Len(q)
        BY <2>1
      <4>2. q[2].lo = q[1].hi
        BY <2>4, <4>1 DEF Adjoining
      <4> QED BY <2>1, <3>1, <4>1, <4>2
    <3>5. r = <<>> => pushed[d] = q[1].hi
      BY <2>1, <3>1
    <3> QED BY <1>0, <2>3, <3>1, <3>2, <3>3, <3>4, <3>5 DEF Adjoining, readVars
  <2>7. EndIsLast(d)'
    <3>1. q[1].lo = q[1].hi => r = <<>> /\ reader[d] = "done"
      BY <2>1, <2>4, <2>5 DEF EndIsLast
    <3>2. ASSUME NEW i \in 1..Len(r), r[i].lo = r[i].hi PROVE i = Len(r) /\ reader[d] = "done"
      <4>1. i + 1 = Len(q) /\ reader[d] = "done"
        BY <2>1, <2>4, <2>5, <3>2 DEF EndIsLast
      <4> QED BY <2>1, <4>1
    <3> QED BY <1>0, <2>3, <2>4, <3>1, <3>2 DEF EndIsLast, readVars, peerVars
  <2>8. RoomCounts(d)'
    BY <1>0, <2>4 DEF RoomCounts, readVars
  <2>9. Scheduled(d)'
    BY <1>0, <2>1, <2>3, <2>4, <2>5 DEF Scheduled, readVars
  <2>10. ASSUME NEW e \in Direction, e # d PROVE Local(e)'
    <3>1. queue'[e] = queue[e] /\ held'[e] = held[e] /\ writer'[e] = writer[e]
      BY <1>3, <2>10 DEF LInv, TypeOK
    <3>2. Untouched(e)
      BY <1>0, <3>1 DEF Untouched, peerVars, readVars
    <3> QED BY <3>2, UntouchedLocal DEF LInv, Local
  <2> QED BY <1>1, <2>2, <2>6, <2>7, <2>8, <2>9, <2>10 DEF LInv, Local
<1> QED BY <1>2, <1>3 DEF PopFront

LEMMA NotifiedStep ==
    ASSUME LInv, NEW d \in Direction, Notified(d)
    PROVE  LInv'
<1>1. TypeOK'
  BY DEF LInv, TypeOK, Notified, peerVars, readVars
<1>2. LinkRate'
  BY DEF LInv, LinkRate, Notified
<1>3. ASSUME NEW e \in Direction PROVE Local(e)'
  <2>1. writer'[e] = writer[e] \/ (writer[e] = "notified" /\ writer'[e] = "next")
    BY DEF LInv, TypeOK, Notified
  <2>2. /\ queue' = queue /\ held' = held /\ delivered' = delivered /\ pushed' = pushed
        /\ reader' = reader /\ readTo' = readTo /\ sent' = sent /\ eof' = eof /\ room' = room
        /\ queue_bytes' = queue_bytes /\ link_free_at' = link_free_at
    BY DEF Notified, peerVars, readVars
  <2>3. Adjoining(e) /\ EndIsLast(e) /\ RoomCounts(e) /\ Scheduled(e)
    BY DEF LInv
  <2>4. Adjoining(e)'
    BY <2>1, <2>2, <2>3 DEF Adjoining
  <2>5. EndIsLast(e)' /\ RoomCounts(e)' /\ Scheduled(e)'
    BY <2>1, <2>2, <2>3 DEF EndIsLast, RoomCounts, Scheduled
  <2> QED BY <2>4, <2>5 DEF Local
<1> QED BY <1>1, <1>2, <1>3 DEF LInv, Local

LEMMA WriteStep ==
    ASSUME LInv, NEW d \in Direction, Write(d)
    PROVE  LInv'
<1> DEFINE n == held[d].hi - held[d].lo
<1>1. /\ writer[d] = "deliver" /\ held[d].at <= now /\ held[d].hi > held[d].lo
      /\ delivered' = [delivered EXCEPT ![d] = @ + n] /\ room' = [room EXCEPT ![d] = @ + n]
      /\ writer' = [writer EXCEPT ![d] = "next"]
      /\ UNCHANGED <<now, peerVars, queue_bytes, readVars, queue, ready, held, outcome>>
  BY DEF Write, due
<1>2. held[d].hi \in Nat /\ held[d].lo \in Nat /\ held[d].at \in Nat /\ delivered[d] \in Nat
      /\ room[d] \in Nat /\ pushed[d] \in Nat /\ queue_bytes[d] \in Nat /\ now \in Nat
  BY DEF LInv, TypeOK, Chunk
<1>3. Adjoining(d) /\ EndIsLast(d) /\ RoomCounts(d) /\ Scheduled(d)
  BY DEF LInv
<1>4. n \in Nat /\ delivered[d] + n = held[d].hi /\ held[d].hi <= pushed[d]
  BY <1>1, <1>2, <1>3 DEF Adjoining
<1> HIDE DEF n
<1>5. /\ delivered \in [Direction -> Nat] /\ room \in [Direction -> Nat]
      /\ writer \in [Direction -> {"next", "notified", "deliver", "done"}]
      /\ delivered[d] + n \in Nat /\ room[d] + n \in Nat
  <2>1. /\ delivered \in [Direction -> Nat] /\ room \in [Direction -> Nat]
        /\ writer \in [Direction -> {"next", "notified", "deliver", "done"}]
    BY DEF LInv, TypeOK
  <2> QED BY <1>2, <1>4, <2>1
<1>6. /\ delivered' \in [Direction -> Nat] /\ room' \in [Direction -> Nat]
      /\ delivered'[d] = held[d].hi /\ room'[d] = room[d] + n /\ writer'[d] = "next"
      /\ \A e \in Direction : e # d => /\ delivered'[e] = delivered[e] /\ room'[e] = room[e]
                                        /\ writer'[e] = writer[e]
  BY <1>1, <1>4, <1>5
<1>7. TypeOK'
  BY <1>1, <1>6 DEF LInv, TypeOK, peerVars, readVars
<1>8. LinkRate'
  <2>1. DELAY + PER_BYTE * held[d].hi <= now
    <3>1. PER_BYTE * held[d].hi \in Nat
      BY <1>2, Constants, Product
    <3>2. DELAY + PER_BYTE * held[d].hi <= held[d].at
      BY <1>1, <1>3 DEF Scheduled
    <3>3. DELAY \in Nat
      BY Constants
    <3> QED BY <1>1, <1>2, <3>1, <3>2, <3>3
  <2> SUFFICES ASSUME NEW e \in Direction, delivered'[e] > 0
               PROVE  DELAY + PER_BYTE * delivered'[e] <= now'
    BY DEF LinkRate
  <2>2. now' = now
    BY <1>1
  <2>3. CASE e = d
    BY <1>6, <2>1, <2>2, <2>3
  <2>4. CASE e # d
    BY <1>6, <2>2, <2>4 DEF LInv, LinkRate
  <2> QED BY <2>3, <2>4
<1>9. Local(d)'
  <2>1. Adjoining(d)'
    BY <1>1, <1>3, <1>6 DEF Adjoining, readVars
  <2>2. EndIsLast(d)'
    BY <1>1, <1>3, <1>6 DEF EndIsLast, readVars, peerVars
  <2>3. RoomCounts(d)'
    BY <1>1, <1>2, <1>3, <1>4, <1>6 DEF RoomCounts, readVars
  <2>4. Scheduled(d)'
    BY <1>1, <1>3, <1>6 DEF Scheduled, readVars
  <2> QED BY <2>1, <2>2, <2>3, <2>4 DEF Local
<1>10. ASSUME NEW e \in Direction, e # d PROVE Local(e)'
  <2>1. Untouched(e)
    BY <1>1, <1>6, <1>10 DEF Untouched, peerVars, readVars
  <2> QED BY <2>1, UntouchedLocal DEF LInv, Local
<1> QED BY <1>7, <1>8, <1>9, <1>10 DEF LInv, Local

LEMMA ShutdownStep ==
    ASSUME LInv, NEW d \in Direction, Shutdown(d)
    PROVE  LInv'
<1>1. /\ writer[d] = "deliver" /\ held[d].hi = held[d].lo
      /\ writer' = [writer EXCEPT ![d] = "done"] /\ outcome' \in {"open", "closed"}
      /\ UNCHANGED <<now, peerVars, queue_bytes, readVars, queue, room, ready, held, delivered>>
  BY DEF Shutdown, due
<1>2. TypeOK'
  BY <1>1 DEF LInv, TypeOK, peerVars, readVars
<1>3. LinkRate'
  BY <1>1 DEF LInv, LinkRate
<1>4. writer'[d] = "done" /\ \A e \in Direction : e # d => writer'[e] = writer[e]
  BY <1>1 DEF LInv, TypeOK
<1>5. Adjoining(d) /\ EndIsLast(d) /\ RoomCounts(d) /\ Scheduled(d)
  BY DEF LInv
<1>6. Local(d)'
  <2>1. queue[d] = <<>> /\ reader[d] = "done" /\ held[d].hi = delivered[d]
    BY <1>1, <1>5 DEF EndIsLast, Adjoining
  <2> QED BY <1>1, <1>4, <1>5, <2>1 DEF Local, peerVars, readVars,
             Adjoining, EndIsLast, RoomCounts, Scheduled
<1>7. ASSUME NEW e \in Direction, e # d PROVE Local(e)'
  <2>1. Untouched(e)
    BY <1>1, <1>4, <1>7 DEF Untouched, peerVars, readVars
  <2> QED BY <2>1, UntouchedLocal DEF LInv, Local
<1> QED BY <1>2, <1>3, <1>6, <1>7 DEF LInv, Local

-----------------------------------------------------------------------------
LEMMA NextLInv == LInv /\ [Next]_vars => LInv'
<1> SUFFICES ASSUME LInv, [Next]_vars PROVE LInv'
  OBVIOUS
<1>1. CASE UNCHANGED vars
  <2>1. UNCHANGED <<now, sent, eof, reset, queue_bytes, readTo, pushed, reader, link_free_at,
                    queue, room, ready, writer, held, delivered, outcome>>
    BY <1>1 DEF vars, peerVars, readVars, writeVars
  <2>2. TypeOK' /\ LinkRate'
    BY <2>1 DEF LInv, TypeOK, LinkRate
  <2>3. ASSUME NEW e \in Direction PROVE Local(e)'
    <3>1. Untouched(e)
      BY <2>1 DEF Untouched
    <3> QED BY <3>1, UntouchedLocal DEF LInv, Local
  <2> QED BY <2>2, <2>3 DEF LInv, Local
<1>2. CASE Next
  BY <1>2, OutsideKeepsLInv, ReadStep, AcquireStep, ReadEndStep, PopFrontStep, NotifiedStep,
     WriteStep, ShutdownStep DEF Next, Pump
<1> QED BY <1>1, <1>2

\* The invariant of reader and writer of a pump holds throughout (netem.rs, pump).
THEOREM Invariance == Spec => []LInv
BY InitLInv, NextLInv, PTL DEF Spec

\* The pumps keep their types: no offset, room or time is negative.
THEOREM TypeCorrect == Spec => []TypeOK
<1>1. LInv => TypeOK
  BY DEF LInv
<1> QED BY <1>1, Invariance, PTL

\* The link loses and reorders nothing, for every chunk size, bound and timing.
THEOREM NothingLostOrReordered == Spec => []InOrder
<1>1. LInv => InOrder
  <2> SUFFICES ASSUME LInv, NEW d \in Direction
               PROVE  /\ writer[d] = "deliver" => held[d].lo = delivered[d]
                      /\ writer[d] = "done" => delivered[d] = sent[d]
    BY DEF InOrder
  <2>1. Adjoining(d) /\ EndIsLast(d) /\ RoomCounts(d)
    BY DEF LInv
  <2> QED BY <2>1 DEF Adjoining, EndIsLast, RoomCounts
<1> QED BY <1>1, Invariance, PTL

\* The semaphore keeps the queue of each direction within its bound.
THEOREM QueueKeepsBound == Spec => []QueueBounded
<1>1. LInv => QueueBounded
  <2> SUFFICES ASSUME LInv, NEW d \in Direction
               PROVE  pushed[d] - delivered[d] <= queue_bytes[d]
    BY DEF QueueBounded
  <2>1. room[d] + (pushed[d] - delivered[d]) = queue_bytes[d] /\ delivered[d] <= pushed[d]
    BY DEF LInv, RoomCounts
  <2> QED BY <2>1 DEF LInv, TypeOK
<1> QED BY <1>1, Invariance, PTL

\* No byte is early: the schedule holds the link to its delay and bandwidth.
THEOREM NoFasterThanTheLink == Spec => []LinkRate
<1>1. LInv => LinkRate
  BY DEF LInv
<1> QED BY <1>1, Invariance, PTL
=============================================================================
