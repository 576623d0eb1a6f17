------------------------------ MODULE NvmQueue ------------------------------
(***************************************************************************)
(* One NVMe queue pair of BaM, shared by the GPU threads that read pages   *)
(* through it, and the device on its other side (nvm_parallel_queue.h, and *)
(* read_data and enqueue_second of page_cache.h).                          *)
(*                                                                         *)
(* A thread takes a command id, takes a ticket for a submission slot,      *)
(* waits until the slot's turn number says it is free, copies the command  *)
(* and marks the slot.  Whoever holds the tail lock moves the tail over    *)
(* every marked slot and rings the doorbell once for all of them.  The     *)
(* thread then polls the completion queue from its head for its id in the  *)
(* current phase, marks the entry, and whoever holds the head lock moves   *)
(* the head over every marked entry.  After a first read the thread makes  *)
(* sure that a second, one-block read is sent: it sends one itself, or     *)
(* finds that one sent for another thread has covered its position.        *)
(*                                                                         *)
(* Memory is sequentially consistent here.  What one thread does under a   *)
(* lock, or in one pass over the entries, is one step where no other       *)
(* thread can tell the difference.                                         *)
(***************************************************************************)
EXTENDS Integers, FiniteSets, FiniteSetsExt

CONSTANTS
    Threads,    \* the GPU threads that share the queue pair
    Cids,       \* how many command ids there are, 65536 in the code
    SqSize,     \* slots of the submission queue, a power of two
    CqSize,     \* entries of the completion queue, a power of two
    CounterSpan,\* how many values a counter of the queues has, 2^32 in the code
    Reads       \* bound: how many pages each thread reads

ASSUME SizesAssumption ==
    /\ {Cids, SqSize, CqSize, CounterSpan} \subseteq Nat \ {0}
    /\ SqSize > 1 /\ CqSize > 1
    /\ Reads \in [Threads -> Nat]
    /\ CounterSpan % (2 * SqSize) = 0 /\ CounterSpan % (2 * CqSize) = 0

VARIABLES
    pc,         \* where a thread is in read_data
    reg,        \* a thread's local variables
    locked,     \* the command ids in use
    cidTicket,  \* sq->cid_ticket
    sq,         \* the submission queue and its doorbell
    cq,         \* the completion queue and its doorbell
    flush,      \* q_head, q_tail and q_lock of the page cache
    dev,        \* the device's head, tail and the commands it works on
    landed,     \* the reads whose data the device has written, for the
                \* properties only
    flushed,    \* those among them that a later command has flushed
    lapped      \* a poller has scanned from a head more than a lap old

vars == << pc, reg, locked, cidTicket, sq, cq, flush, dev, landed, flushed, lapped >>

Nobody == "nobody"

NoCommand == [by |-> Nobody, left |-> 0, second |-> FALSE, cid |-> 0]

Command(t) ==
    [by |-> t, left |-> reg[t].left, second |-> reg[t].second, cid |-> reg[t].cid]

\* The registers of a thread with so many reads still to make.
Registers(left) ==
    [left |-> left, cid |-> 0, second |-> FALSE, ticket |-> 0, moved |-> 0,
     head |-> 0, loc |-> 0, prev |-> 0, pos |-> 0, tail |-> 0]

Plus(counter, n) == (counter + n) % CounterSpan

Slot(t)  == reg[t].ticket % SqSize
Entry(t) == reg[t].loc % CqSize

\* The turn a slot must show before the holder of the ticket may fill it:
\* every command moves it on twice, once when it has been submitted and once
\* when the head has passed it.
Turn(ticket) == (ticket \div SqSize) * 2

\* The phase bit of a completion at this position, 1 in the first lap.
Phase(position) == 1 - ((position \div CqSize) % 2)

Init ==
    /\ pc = [t \in Threads |-> "idle"]
    /\ reg = [t \in Threads |-> Registers(Reads[t])]
    /\ locked = {}
    /\ cidTicket = 0
    /\ sq = [ticket |-> 0, turn |-> [s \in 0 .. SqSize - 1 |-> 0],
             marked |-> {}, lock |-> FALSE, tail |-> 0, head |-> 0, db |-> 0,
             slot |-> [s \in 0 .. SqSize - 1 |-> NoCommand]]
    /\ cq = [head |-> 0, marked |-> {}, lock |-> FALSE, held |-> {}, db |-> 0,
             entry |-> [e \in 0 .. CqSize - 1 |->
                           [of |-> NoCommand, phase |-> 0, head |-> 0]]]
    /\ flush = [head |-> 0, tail |-> 0, lock |-> FALSE]
    /\ dev = [head |-> 0, tail |-> 0, busy |-> {}]
    /\ landed = {}
    /\ flushed = {}
    /\ lapped = FALSE

Goto(t, label) == pc' = [pc EXCEPT ![t] = label]
Ghosts == << landed, flushed, lapped >>

-----------------------------------------------------------------------------
\* get_cid: the next id of the ring, if nobody uses it.
GetCid(t) ==
    /\ pc[t] = "idle" /\ reg[t].left > 0
    /\ cidTicket' = (cidTicket + 1) % Cids
    /\ IF cidTicket \in locked
       THEN UNCHANGED << pc, reg, locked >>
       ELSE /\ locked' = locked \cup {cidTicket}
            /\ reg' = [reg EXCEPT ![t].cid = cidTicket]
            /\ Goto(t, "ticket")
    /\ UNCHANGED << sq, cq, flush, dev, Ghosts >>

\* sq_enqueue, from its ticket to the turn it leaves in the slot.
TakeTicket(t) ==
    /\ pc[t] = "ticket"
    /\ reg' = [reg EXCEPT ![t].ticket = sq.ticket]
    /\ sq' = [sq EXCEPT !.ticket = Plus(@, 1)]
    /\ Goto(t, "write")
    /\ UNCHANGED << locked, cidTicket, cq, flush, dev, Ghosts >>

WriteCommand(t) ==
    /\ pc[t] = "write"
    /\ sq.turn[Slot(t)] = Turn(reg[t].ticket)
    /\ sq' = [sq EXCEPT !.slot[Slot(t)] = Command(t)]
    /\ reg' = [reg EXCEPT ![t].tail = IF reg[t].second THEN flush.tail ELSE 0]
    /\ Goto(t, "mark")
    /\ UNCHANGED << locked, cidTicket, cq, flush, dev, Ghosts >>

MarkSlot(t) ==
    /\ pc[t] = "mark"
    /\ sq' = [sq EXCEPT !.marked = @ \cup {Slot(t)}]
    /\ Goto(t, "submit")
    /\ UNCHANGED << reg, locked, cidTicket, cq, flush, dev, Ghosts >>

\* The load of the mark that ends the loop or starts another round of it.
SeeSlot(t) ==
    /\ pc[t] = "submit"
    /\ Goto(t, IF Slot(t) \in sq.marked THEN "moveTail" ELSE "turn")
    /\ UNCHANGED << reg, locked, cidTicket, sq, cq, flush, dev, Ghosts >>

\* How far move_tail gets: over marked slots, up to one before the head.
TailRun ==
    Max({n \in 0 .. SqSize - 1 : \A k \in 0 .. n - 1 :
            /\ (sq.tail + k + 1) % SqSize # sq.head % SqSize
            /\ (sq.tail + k) % SqSize \in sq.marked})

MoveTail(t) ==
    /\ pc[t] = "moveTail"
    /\ IF sq.lock \/ TailRun = 0
       THEN Goto(t, "submit") /\ UNCHANGED << reg, sq >>
       ELSE /\ sq' = [sq EXCEPT !.lock = TRUE,
                                !.marked = @ \ {(sq.tail + k) % SqSize : k \in 0 .. TailRun - 1}]
            /\ reg' = [reg EXCEPT ![t].moved = TailRun]
            /\ Goto(t, "ringSq")
    /\ UNCHANGED << locked, cidTicket, cq, flush, dev, Ghosts >>

\* The mover reads the tail of the page cache again, then rings.
RingSq(t) ==
    /\ pc[t] = "ringSq"
    /\ reg' = [reg EXCEPT ![t].tail = IF reg[t].second THEN flush.tail ELSE 0]
    /\ sq' = [sq EXCEPT !.db = (sq.tail + reg[t].moved) % SqSize]
    /\ Goto(t, "storeTail")
    /\ UNCHANGED << locked, cidTicket, cq, flush, dev, Ghosts >>

StoreTail(t) ==
    /\ pc[t] = "storeTail"
    /\ sq' = [sq EXCEPT !.tail = Plus(@, reg[t].moved), !.lock = FALSE]
    /\ reg' = [reg EXCEPT ![t].moved = 0]
    /\ Goto(t, "submit")
    /\ UNCHANGED << locked, cidTicket, cq, flush, dev, Ghosts >>

PassTurn(t) ==
    /\ pc[t] = "turn"
    /\ sq' = [sq EXCEPT !.turn[Slot(t)] = Plus(@, 1)]
    /\ Goto(t, "poll")
    /\ UNCHANGED << reg, locked, cidTicket, cq, flush, dev, Ghosts >>

-----------------------------------------------------------------------------
\* cq_poll: the head first, then the entries from there.
LoadHead(t) ==
    /\ pc[t] = "poll"
    /\ reg' = [reg EXCEPT ![t].head = cq.head]
    /\ Goto(t, "scan")
    /\ UNCHANGED << locked, cidTicket, sq, cq, flush, dev, Ghosts >>

InAnyPhase(position) == TRUE

InPhase(position) == cq.entry[position % CqSize].phase = Phase(position)

\* How far from this head a scan finds the id, among the entries in phase.
Matches(head, cid) ==
    {i \in 0 .. CqSize - 2 :
        /\ \A k \in 0 .. i : InPhase(Plus(head, k))
        /\ cq.entry[(head + i) % CqSize].of.cid = cid}

\* How many entries have been given back to the device since the poll took
\* its head, those of a head that is being moved included.
Freed(t) ==
    (cq.head + MapThenSumSet(LAMBDA u : IF pc[u] = "storeHead" THEN reg[u].moved ELSE 0, Threads)
       - reg[t].head) % CounterSpan

Scan(t) ==
    /\ pc[t] = "scan"
    /\ lapped' = (lapped \/ Freed(t) > CqSize)
    /\ LET found == Matches(reg[t].head, reg[t].cid) IN
       IF found = {}
       THEN /\ reg' = [reg EXCEPT ![t].head = 0]
            /\ Goto(t, "poll")
       ELSE /\ reg' = [reg EXCEPT ![t].loc = Plus(reg[t].head, Min(found))]
            /\ Goto(t, IF reg[t].second THEN "publish" ELSE "before")
    /\ UNCHANGED << locked, cidTicket, sq, cq, flush, dev, landed, flushed >>

\* read_data notes how far the flushes have come, then takes a position.
LoadFlushHead(t) ==
    /\ pc[t] = "before"
    /\ reg' = [reg EXCEPT ![t].prev = flush.head]
    /\ Goto(t, "position")
    /\ UNCHANGED << locked, cidTicket, sq, cq, flush, dev, Ghosts >>

TakePosition(t) ==
    /\ pc[t] = "position"
    /\ reg' = [reg EXCEPT ![t].pos = flush.tail]
    /\ flush' = [flush EXCEPT !.tail = @ + 1]
    /\ Goto(t, "mine")
    /\ UNCHANGED << locked, cidTicket, sq, cq, dev, Ghosts >>

-----------------------------------------------------------------------------
\* cq_dequeue: nobody else at this entry, then the mark.
MarkEntry(t) ==
    /\ pc[t] = "mine"
    /\ Entry(t) \notin cq.held
    /\ cq' = [cq EXCEPT !.held = @ \cup {Entry(t)}, !.marked = @ \cup {Entry(t)}]
    /\ Goto(t, "consume")
    /\ UNCHANGED << reg, locked, cidTicket, sq, flush, dev, Ghosts >>

SeeEntryUnlessLocked(t) ==
    /\ pc[t] = "consume"
    /\ Goto(t, IF Entry(t) \in cq.marked /\ ~cq.lock THEN "moveHead" ELSE "passed")
    /\ UNCHANGED << reg, locked, cidTicket, sq, cq, flush, dev, Ghosts >>

SeeEntry(t) ==
    /\ pc[t] = "consume"
    /\ Goto(t, IF Entry(t) \in cq.marked THEN "moveHead" ELSE "passed")
    /\ UNCHANGED << reg, locked, cidTicket, sq, cq, flush, dev, Ghosts >>

\* How far move_head_cq gets: over marked entries.
HeadRun ==
    Max({n \in 0 .. CqSize : \A k \in 0 .. n - 1 : (cq.head + k) % CqSize \in cq.marked})

\* The slots between the head and the one that the device reports.
PassedSlots(reported) ==
    LET count == (reported - sq.head) % SqSize IN
    {(sq.head + k) % SqSize : k \in 0 .. count - 1}

\* The holder of the head lock also frees the slots that the device, in the
\* last completion it passes, says it has fetched.
MoveHead(t) ==
    /\ pc[t] = "moveHead"
    /\ IF cq.lock \/ HeadRun = 0
       THEN Goto(t, "consume") /\ UNCHANGED << reg, sq, cq >>
       ELSE LET last   == cq.entry[(cq.head + HeadRun - 1) % CqSize]
                passed == PassedSlots(last.head)
            IN  /\ sq' = [sq EXCEPT !.head = Plus(@, Cardinality(passed)),
                                    !.turn = [s \in DOMAIN @ |->
                                                 IF s \in passed THEN Plus(@[s], 1) ELSE @[s]]]
                /\ cq' = [cq EXCEPT !.lock = TRUE,
                                    !.marked = @ \ {(cq.head + k) % CqSize : k \in 0 .. HeadRun - 1}]
                /\ reg' = [reg EXCEPT ![t].moved = HeadRun]
                /\ Goto(t, "ringCq")
    /\ UNCHANGED << locked, cidTicket, flush, dev, Ghosts >>

RingCq(t) ==
    /\ pc[t] = "ringCq"
    /\ cq' = [cq EXCEPT !.db = (cq.head + reg[t].moved) % CqSize]
    /\ Goto(t, "storeHead")
    /\ UNCHANGED << reg, locked, cidTicket, sq, flush, dev, Ghosts >>

StoreHead(t) ==
    /\ pc[t] = "storeHead"
    /\ cq' = [cq EXCEPT !.head = Plus(@, reg[t].moved), !.lock = FALSE]
    /\ reg' = [reg EXCEPT ![t].moved = 0]
    /\ Goto(t, "consume")
    /\ UNCHANGED << locked, cidTicket, sq, flush, dev, Ghosts >>

\* The head has passed the entry, seen from the head the poll began with.
HeadPassed(t) ==
    \/ cq.head > reg[t].head /\ reg[t].loc \in reg[t].head .. cq.head - 1
    \/ cq.head < reg[t].head /\ (reg[t].loc >= reg[t].head \/ reg[t].loc < cq.head)

Consumed(t) ==
    /\ pc[t] = "passed"
    /\ HeadPassed(t)
    /\ cq' = [cq EXCEPT !.held = @ \ {Entry(t)}]
    /\ reg' = [reg EXCEPT ![t].head = 0, ![t].loc = 0]
    /\ Goto(t, IF reg[t].second THEN "put" ELSE "flush")
    /\ UNCHANGED << locked, cidTicket, sq, flush, dev, Ghosts >>

-----------------------------------------------------------------------------
\* enqueue_second: a flush has passed the position, or this thread sends one.
Covered(t) ==
    LET new == flush.head IN
    \/ new < reg[t].prev /\ reg[t].prev <= reg[t].pos
    \/ reg[t].prev <= reg[t].pos /\ reg[t].pos < new
    \/ reg[t].pos < new /\ new < reg[t].prev

SeeFlush(t) ==
    /\ pc[t] = "flush"
    /\ Goto(t, IF Covered(t) THEN "put" ELSE "lockFlush")
    /\ UNCHANGED << reg, locked, cidTicket, sq, cq, flush, dev, Ghosts >>

LockFlush(t) ==
    /\ pc[t] = "lockFlush"
    /\ IF flush.lock
       THEN Goto(t, "flush") /\ UNCHANGED << reg, flush >>
       ELSE /\ flush' = [flush EXCEPT !.lock = TRUE]
            /\ reg' = [reg EXCEPT ![t].second = TRUE, ![t].prev = 0, ![t].pos = 0]
            /\ Goto(t, "ticket")
    /\ UNCHANGED << locked, cidTicket, sq, cq, dev, Ghosts >>

Publish(t) ==
    /\ pc[t] = "publish"
    /\ flush' = [flush EXCEPT !.head = reg[t].tail, !.lock = FALSE]
    /\ Goto(t, "mine")
    /\ UNCHANGED << reg, locked, cidTicket, sq, cq, dev, Ghosts >>

\* put_cid, and the thread returns from read_data.
PutCid(t) ==
    /\ pc[t] = "put"
    /\ locked' = locked \ {reg[t].cid}
    /\ reg' = [reg EXCEPT ![t] = Registers(@.left - 1)]
    /\ Goto(t, "idle")
    /\ landed' = {r \in landed : r[1] # t}
    /\ flushed' = {r \in flushed : r[1] # t}
    /\ UNCHANGED << cidTicket, sq, cq, flush, dev, lapped >>

-----------------------------------------------------------------------------
\* The device takes commands in order, up to the doorbell it was given.
Fetch ==
    /\ dev.head % SqSize # sq.db
    /\ LET command == sq.slot[dev.head % SqSize]
           job == [of |-> command, after |-> IF command.second THEN landed ELSE {}]
       IN  dev' = [dev EXCEPT !.head = Plus(@, 1), !.busy = @ \cup {job}]
    /\ UNCHANGED << pc, reg, locked, cidTicket, sq, cq, flush, Ghosts >>

\* It finishes them in any order, as long as it finds room for the answer.
Complete(job) ==
    /\ (dev.tail + 1) % CqSize # cq.db
    /\ cq' = [cq EXCEPT !.entry[dev.tail % CqSize] =
                 [of |-> job.of, phase |-> Phase(dev.tail), head |-> dev.head % SqSize]]
    /\ dev' = [dev EXCEPT !.tail = (@ + 1) % (2 * CqSize), !.busy = @ \ {job}]
    /\ landed' = IF job.of.second THEN landed
                 ELSE landed \cup {<< job.of.by, job.of.left >>}
    /\ flushed' = flushed \cup (job.after \cap landed)
    /\ UNCHANGED << pc, reg, locked, cidTicket, sq, flush, lapped >>

ThreadStep(t) ==
    \/ GetCid(t) \/ TakeTicket(t) \/ WriteCommand(t) \/ MarkSlot(t)
    \/ SeeSlot(t) \/ MoveTail(t) \/ RingSq(t) \/ StoreTail(t) \/ PassTurn(t)
    \/ LoadHead(t) \/ Scan(t) \/ LoadFlushHead(t) \/ TakePosition(t)
    \/ MarkEntry(t) \/ SeeEntry(t) \/ MoveHead(t) \/ RingCq(t) \/ StoreHead(t)
    \/ Consumed(t) \/ SeeFlush(t) \/ LockFlush(t) \/ Publish(t) \/ PutCid(t)

Answer == \E job \in dev.busy : Complete(job)

Next == (\E t \in Threads : ThreadStep(t)) \/ Fetch \/ Answer

Fairness ==
    /\ \A t \in Threads : WF_vars(ThreadStep(t))
    /\ WF_vars(Fetch)
    /\ WF_vars(Answer)

Spec == Init /\ [][Next]_vars /\ Fairness

-----------------------------------------------------------------------------
\* A poll ends with the completion of the command the thread has sent, not
\* with that of an earlier command of its id nor with what an earlier lap
\* left, as long as no poller was slow enough for the queue to be freed more
\* than once around between its load of the head and its scan: cq_poll knows
\* an entry by its id and one phase bit.
OwnAnswer == ~lapped => \A t \in Threads :
    pc[t] \in {"before", "position", "publish", "mine"} =>
        cq.entry[Entry(t)].of = Command(t)

\* A read returns only when the device has finished a second command that it
\* fetched after the data of the read had landed, its own or that of another
\* thread (enqueue_second).  Three threads can break it: one whose mark
\* another mover has taken, and who then moves the tail for a third thread,
\* reads the tail of the page cache again after its own command was sent.
FlushedFirst == \A t \in Threads :
    pc[t] = "put" => << t, reg[t].left >> \in flushed

\* What a caller of read_data is promised (ReadService).
Service == INSTANCE ReadService WITH
    state <- [t \in Threads |-> IF pc[t] = "idle" THEN "idle"
                                ELSE IF << t, reg[t].left >> \in landed THEN "landed"
                                ELSE "asked"],
    left  <- [t \in Threads |-> reg[t].left]

\* Every read lands exactly once, returns only after that, and does return:
\* the queue pair implements the service, as long as no poller is lapped.
ImplementsService ==
    /\ Service!Init
    /\ [][lapped' \/ Service!Next]_(Service!vars)
    /\ <>(lapped \/ Service!Done)
=============================================================================
