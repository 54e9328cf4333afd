------------------------------ MODULE NetemLink ------------------------------
(***************************************************************************)
(* One proxied connection of the emulated link,                            *)
(* offchain/crates/pprev-prover/src/netem.rs: proxy_connection_counted     *)
(* with its two pumps.  A pump is a reader and a writer that share a queue *)
(* of chunks with delivery times, a semaphore for the room in it and a     *)
(* notification.  Either end of the connection may send, half-close or     *)
(* reset at any time; an error anywhere ends the whole connection.         *)
(*                                                                         *)
(* A byte is its position in its direction's stream: a chunk is the bytes  *)
(* after lo up to hi.  The reader and the writer of a pump are one task,   *)
(* so what runs between two awaits is one action.                          *)
(***************************************************************************)
EXTENDS Integers, Sequences

CONSTANTS
    CHUNK,           \* largest chunk read at once
    MAX_QUEUE,       \* largest queue_bytes
    QueueSizes,      \* values asked for queue_bytes
    DELAY,           \* LinkParams::delay
    PER_BYTE,        \* time to put one byte on the link; 0 is unlimited
    MaxBytes,        \* bound on the bytes each direction carries
    MaxTime          \* bound on the clock while no chunk waits for its time

Peer == {"client", "server"}
Direction == {"forward", "reverse"}
source(d) == IF d = "forward" THEN "client" ELSE "server"
sink(d)   == IF d = "forward" THEN "server" ELSE "client"

ASSUME LinkAssumption ==
    /\ CHUNK \in Nat \ {0} /\ MAX_QUEUE \in Nat /\ QueueSizes \subseteq Nat
    /\ DELAY \in Nat /\ PER_BYTE \in Nat /\ MaxTime \in Nat
    /\ MaxBytes \in [Direction -> Nat]

VARIABLES
    now,
    sent, eof,       \* what a direction's source has sent, and whether it closed
    reset,           \* the peers that reset the connection
    queue_bytes,     \* the bound of each direction
    readTo, pushed,  \* the bytes a direction has read, and put in its queue
    reader,          \* "read", "acquire" or "done"
    queue, room, ready,   \* the queue, the semaphore, the stored notification
    link_free_at,    \* of the direction's Schedule
    writer, held,    \* "next", "notified", "deliver" or "done"; the chunk it holds
    delivered,       \* the direction's counter
    outcome          \* "open", "closed" or "error"

peerVars  == <<sent, eof, reset>>
readVars  == <<readTo, pushed, reader, link_free_at>>
writeVars == <<writer, held, delivered>>
vars == <<now, peerVars, queue_bytes, readVars, queue, room, ready, writeVars, outcome>>

Chunk == [at : Nat, lo : Nat, hi : Nat]
NoChunk == [at |-> 0, lo |-> 0, hi |-> 0]

TypeOK ==
    /\ now \in Nat
    /\ sent \in [Direction -> Nat] /\ eof \in [Direction -> BOOLEAN] /\ reset \subseteq Peer
    /\ queue_bytes \in [Direction -> Nat]
    /\ readTo \in [Direction -> Nat] /\ pushed \in [Direction -> Nat]
    /\ reader \in [Direction -> {"read", "acquire", "done"}]
    /\ queue \in [Direction -> Seq(Chunk)]
    /\ room \in [Direction -> Nat] /\ ready \in [Direction -> BOOLEAN]
    /\ link_free_at \in [Direction -> Nat]
    /\ writer \in [Direction -> {"next", "notified", "deliver", "done"}]
    /\ held \in [Direction -> Chunk] /\ delivered \in [Direction -> Nat]
    /\ outcome \in {"open", "closed", "error"}

-----------------------------------------------------------------------------
\* Mutant of validate: a queue smaller than a chunk is let through.
validateAny(size) == TRUE

validate(size) == CHUNK <= size /\ size <= MAX_QUEUE

\* Mutant of deliver_at: each chunk has the link to itself.
startNow(d) == now

\* Schedule::deliver_at: the link serialises one chunk after another.
start(d) == IF link_free_at[d] > now THEN link_free_at[d] ELSE now

\* Mutant of enqueue: the newest chunk goes first.
enqueueFirst(q, c) == <<c>> \o q

enqueue(q, c) == Append(q, c)

\* deliver_at, push_back and notify_one for the bytes after pushed up to hi;
\* without bytes it is the end of the stream.
push(d, hi) ==
    LET free == start(d) + (hi - pushed[d]) * PER_BYTE
    IN  /\ link_free_at' = [link_free_at EXCEPT ![d] = free]
        /\ queue' = [queue EXCEPT ![d] =
                        enqueue(@, [at |-> free + DELAY, lo |-> pushed[d], hi |-> hi])]
        /\ pushed' = [pushed EXCEPT ![d] = hi]
        /\ ready' = [ready EXCEPT ![d] = TRUE]

Init ==
    /\ now = 0
    /\ sent = [d \in Direction |-> 0] /\ eof = [d \in Direction |-> FALSE] /\ reset = {}
    /\ queue_bytes \in [Direction -> {q \in QueueSizes : validate(q)}]
    /\ readTo = [d \in Direction |-> 0] /\ pushed = [d \in Direction |-> 0]
    /\ reader = [d \in Direction |-> "read"]
    /\ queue = [d \in Direction |-> <<>>] /\ room = queue_bytes
    /\ ready = [d \in Direction |-> FALSE]
    /\ link_free_at = [d \in Direction |-> 0]
    /\ writer = [d \in Direction |-> "next"] /\ held = [d \in Direction |-> NoChunk]
    /\ delivered = [d \in Direction |-> 0]
    /\ outcome = "open"

-----------------------------------------------------------------------------
(* The two ends of the connection, and time, while the connection lasts. *)

Send(d) ==
    /\ outcome = "open" /\ ~eof[d] /\ source(d) \notin reset
    /\ sent[d] < MaxBytes[d]
    /\ sent' = [sent EXCEPT ![d] = @ + 1]
    /\ UNCHANGED <<now, eof, reset, queue_bytes, readVars, queue, room, ready, writeVars, outcome>>

HalfClose(d) ==
    /\ outcome = "open" /\ ~eof[d] /\ source(d) \notin reset
    /\ eof' = [eof EXCEPT ![d] = TRUE]
    /\ UNCHANGED <<now, sent, reset, queue_bytes, readVars, queue, room, ready, writeVars, outcome>>

Reset(p) ==
    /\ outcome = "open" /\ p \notin reset
    /\ reset' = reset \cup {p}
    /\ UNCHANGED <<now, sent, eof, queue_bytes, readVars, queue, room, ready, writeVars, outcome>>

\* A writer sleeps until its chunk is due.
sleeps(d) == writer[d] = "deliver" /\ held[d].at > now

Tick ==
    /\ outcome = "open"
    /\ now < MaxTime \/ \E d \in Direction : sleeps(d)
    /\ now' = now + 1
    /\ UNCHANGED <<peerVars, queue_bytes, readVars, queue, room, ready, writeVars, outcome>>

-----------------------------------------------------------------------------
(* The reader. *)

Read(d) ==
    /\ outcome = "open" /\ reader[d] = "read" /\ source(d) \notin reset
    /\ \E n \in 1..CHUNK :
          /\ readTo[d] + n <= sent[d]
          /\ readTo' = [readTo EXCEPT ![d] = @ + n]
    /\ reader' = [reader EXCEPT ![d] = "acquire"]
    /\ UNCHANGED <<now, peerVars, queue_bytes, pushed, link_free_at, queue, room, ready,
                   writeVars, outcome>>

\* Mutant of Acquire: the permits are not forgotten, so they return at once.
AcquireWithoutForget(d) ==
    /\ outcome = "open" /\ reader[d] = "acquire"
    /\ room[d] >= readTo[d] - pushed[d]
    /\ push(d, readTo[d])
    /\ reader' = [reader EXCEPT ![d] = "read"]
    /\ UNCHANGED <<now, peerVars, queue_bytes, readTo, room, writeVars, outcome>>

Acquire(d) ==
    /\ outcome = "open" /\ reader[d] = "acquire"
    /\ room[d] >= readTo[d] - pushed[d]
    /\ room' = [room EXCEPT ![d] = @ - (readTo[d] - pushed[d])]
    /\ push(d, readTo[d])
    /\ reader' = [reader EXCEPT ![d] = "read"]
    /\ UNCHANGED <<now, peerVars, queue_bytes, readTo, writeVars, outcome>>

\* The end of the stream takes no room.
ReadEnd(d) ==
    /\ outcome = "open" /\ reader[d] = "read" /\ source(d) \notin reset
    /\ eof[d] /\ readTo[d] = sent[d]
    /\ push(d, pushed[d])
    /\ reader' = [reader EXCEPT ![d] = "done"]
    /\ UNCHANGED <<now, peerVars, queue_bytes, readTo, room, writeVars, outcome>>

-----------------------------------------------------------------------------
(* The writer. *)

PopFront(d) ==
    /\ outcome = "open" /\ writer[d] = "next"
    /\ \/ /\ queue[d] # <<>>
          /\ held' = [held EXCEPT ![d] = Head(queue[d])]
          /\ queue' = [queue EXCEPT ![d] = Tail(@)]
          /\ writer' = [writer EXCEPT ![d] = "deliver"]
       \/ /\ queue[d] = <<>>
          /\ writer' = [writer EXCEPT ![d] = "notified"]
          /\ UNCHANGED <<held, queue>>
    /\ UNCHANGED <<now, peerVars, queue_bytes, readVars, room, ready, delivered, outcome>>

Notified(d) ==
    /\ outcome = "open" /\ writer[d] = "notified" /\ ready[d]
    /\ ready' = [ready EXCEPT ![d] = FALSE]
    /\ writer' = [writer EXCEPT ![d] = "next"]
    /\ UNCHANGED <<now, peerVars, queue_bytes, readVars, queue, room, held, delivered, outcome>>

due(d) == outcome = "open" /\ writer[d] = "deliver" /\ held[d].at <= now

Write(d) ==
    /\ due(d) /\ held[d].hi > held[d].lo /\ sink(d) \notin reset
    /\ delivered' = [delivered EXCEPT ![d] = @ + (held[d].hi - held[d].lo)]
    /\ room' = [room EXCEPT ![d] = @ + (held[d].hi - held[d].lo)]
    /\ writer' = [writer EXCEPT ![d] = "next"]
    /\ UNCHANGED <<now, peerVars, queue_bytes, readVars, queue, ready, held, outcome>>

\* The empty chunk: shutdown.  The connection is closed when both directions are.
Shutdown(d) ==
    /\ due(d) /\ held[d].hi = held[d].lo /\ sink(d) \notin reset
    /\ writer' = [writer EXCEPT ![d] = "done"]
    /\ outcome' = IF \A e \in Direction : writer'[e] = "done" THEN "closed" ELSE "open"
    /\ UNCHANGED <<now, peerVars, queue_bytes, readVars, queue, room, ready, held, delivered>>

\* A read or a write fails: try_join! drops everything else.
Fail(d) ==
    /\ outcome = "open"
    /\ \/ reader[d] = "read" /\ source(d) \in reset
       \/ due(d) /\ sink(d) \in reset
    /\ outcome' = "error"
    /\ UNCHANGED <<now, peerVars, queue_bytes, readVars, queue, room, ready, writeVars>>

-----------------------------------------------------------------------------
Pump(d) ==
    \/ Read(d) \/ Acquire(d) \/ ReadEnd(d)
    \/ PopFront(d) \/ Notified(d) \/ Write(d) \/ Shutdown(d) \/ Fail(d)

Next ==
    \/ \E d \in Direction : Send(d) \/ HalfClose(d) \/ Pump(d)
    \/ \E p \in Peer : Reset(p)
    \/ Tick

Spec == Init /\ [][Next]_vars

\* The runtime polls every part of a pump that can go on, and each end goes on
\* reading; nobody has to send or to close.
FairSpec ==
    /\ Spec
    /\ WF_vars(Tick)
    /\ \A d \in Direction :
          /\ WF_vars(Read(d) \/ Acquire(d) \/ ReadEnd(d))
          /\ WF_vars(PopFront(d) \/ Notified(d) \/ Write(d) \/ Shutdown(d))
          /\ WF_vars(Fail(d))

-----------------------------------------------------------------------------
(* Properties. *)

\* The link loses and reorders nothing: what is written next is what follows
\* the bytes delivered, and a direction that is shut down has delivered all.
InOrder ==
    \A d \in Direction :
        /\ writer[d] = "deliver" => held[d].lo = delivered[d]
        /\ writer[d] = "done" => delivered[d] = sent[d]

\* The bytes in the queue and in the writer's hands keep the bound (the
\* semaphore of pump counts them over several steps of two parties).
QueueBounded == \A d \in Direction : pushed[d] - delivered[d] <= queue_bytes[d]

\* No byte arrives before the link can have carried all bytes up to it.
LinkRate ==
    \A d \in Direction :
        delivered[d] > 0 => DELAY + PER_BYTE * delivered[d] <= now

\* What is sent before a half-close arrives, and the half-close after it,
\* whatever the other direction does, unless an end resets the connection:
\* neither party of a pump waits for the other for ever.
AllArrives ==
    \A d \in Direction :
        eof[d] ~> (reset # {} \/ (writer[d] = "done" /\ delivered[d] = sent[d]))

\* The chunks of a direction, from the writer's to the newest, adjoin one
\* another from the bytes delivered to the bytes pushed; only the last can be
\* the end of the stream.
Adjoining(d) ==
    LET q == queue[d] IN
    /\ writer[d] = "deliver" => /\ held[d].lo = delivered[d]
                                /\ held[d].lo <= held[d].hi /\ held[d].hi <= pushed[d]
    /\ \A i \in 1..Len(q) : q[i].lo <= q[i].hi /\ q[i].hi <= pushed[d]
    /\ \A i \in 1..Len(q) : i > 1 => q[i].lo = q[i - 1].hi
    /\ q # <<>> => /\ q[1].lo = IF writer[d] = "deliver" THEN held[d].hi ELSE delivered[d]
                   /\ q[Len(q)].hi = pushed[d]
    /\ q = <<>> => pushed[d] = IF writer[d] = "deliver" THEN held[d].hi ELSE delivered[d]

EndIsLast(d) ==
    LET q == queue[d] IN
    /\ \A i \in 1..Len(q) : q[i].lo = q[i].hi => i = Len(q) /\ reader[d] = "done"
    /\ writer[d] = "deliver" /\ held[d].lo = held[d].hi => q = <<>> /\ reader[d] = "done"
    /\ writer[d] = "done" => q = <<>> /\ reader[d] = "done"
    /\ reader[d] = "done" => eof[d] /\ readTo[d] = sent[d]

\* The semaphore counts what is pushed and not delivered.
RoomCounts(d) ==
    /\ delivered[d] <= pushed[d]
    /\ room[d] + (pushed[d] - delivered[d]) = queue_bytes[d]
    /\ reader[d] = "acquire" => pushed[d] < readTo[d]
    /\ reader[d] # "acquire" => pushed[d] = readTo[d]

\* Each chunk is due when the link can have carried everything up to it.
Scheduled(d) ==
    /\ PER_BYTE * pushed[d] <= link_free_at[d]
    /\ \A i \in 1..Len(queue[d]) : DELAY + PER_BYTE * queue[d][i].hi <= queue[d][i].at
    /\ writer[d] = "deliver" => DELAY + PER_BYTE * held[d].hi <= held[d].at

\* The inductive invariant behind the theorems of NetemLinkProofs.
LInv ==
    /\ TypeOK
    /\ LinkRate
    /\ \A d \in Direction : Adjoining(d) /\ EndIsLast(d) /\ RoomCounts(d) /\ Scheduled(d)
=============================================================================
