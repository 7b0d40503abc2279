---------------------------- MODULE EndpointOutbox ----------------------------
(***************************************************************************)
(* The outbound side of one connection, _EndpointSendMixin of              *)
(* server/lan_battle_server.py: a bounded FIFO of reliable messages, one   *)
(* slot for the latest snapshot, and a writer thread that drains both into *)
(* the socket.  Producers are the handler threads and the tick thread.     *)
(*                                                                         *)
(* A message is stamped with the state of the room it describes.  Most     *)
(* producers build and enqueue under the state lock; a handler that        *)
(* broadcasts a roster (broadcast) or answers (send) builds under that     *)
(* lock and enqueues after it has released it.                             *)
(*                                                                         *)
(* Payloads, the delta codec and the sparse sections of a snapshot are     *)
(* left out; so is the synchronous path for a connection that is not a     *)
(* socket.  A reliable message that fits the wire when it is enqueued fits *)
(* it when it is written.                                                  *)
(***************************************************************************)
EXTENDS Integers, Sequences

CONSTANTS
    Senders,      \* threads that enqueue outside the state lock
    Nobody,       \* no thread waits for an item
    NoItem,       \* no item
    MaxMessages,  \* MAX_RELIABLE_OUTBOUND_MESSAGES
    MaxBytes,     \* MAX_RELIABLE_OUTBOUND_BYTES
    SizeOf,       \* the payload size of each kind of message
    MaxOffers,    \* bound: messages built
    MaxRound, MaxTick, MaxRevision   \* bounds of the room's clock

\* "roster" stands for roster, battle_start and battle_live, "state" for a
\* reliable snapshot, "other" for receipts, chat and acknowledgements.
Kinds == {"roster", "events", "state", "other", "snapshot"}
Reliable == Kinds \ {"snapshot"}

ASSUME OutboxAssumption ==
    /\ Nobody \notin Senders
    /\ MaxMessages \in Nat /\ MaxBytes \in Nat
    /\ SizeOf \in [Kinds -> Nat]
    /\ MaxOffers \in Nat /\ MaxRound \in Nat /\ MaxTick \in Nat
    /\ MaxRevision \in Nat

VARIABLES
    now,        \* the room: round, server tick, state revision, epoch
    offers,     \* messages built so far
    held,       \* the message a sender has built and not yet enqueued
    sync,       \* whether it sends it (waits) or offers it
    pc,         \* "idle", "held", "wait", "late"
    answer,     \* result and done event of a waited item
    connected,
    queue,      \* _outbox_reliable
    bytes,      \* _outbox_reliable_bytes
    slot,       \* _outbox_snapshot
    writer,     \* the outbox thread: "off", "loop", "write", "dead"
    hand,       \* the item it is writing
    sent,       \* the reliable messages written, oldest first
    shown       \* the last snapshot written from the slot

roomVars   == <<now, offers>>
senderVars == <<held, sync, pc>>
boxVars    == <<connected, queue, bytes, slot, answer>>
writerVars == <<writer, hand, sent, shown>>
vars == <<roomVars, senderVars, boxVars, writerVars>>

-------------------------------------------------------------------------------
(* Messages. *)

Message(kind) == [n |-> offers + 1, kind |-> kind, at |-> now]
Item(msg, p) == [msg |-> msg, by |-> p]

\* Mutant: a snapshot of the tick of the events survives them.
Fences_Strictly(m, s) ==
    /\ m.kind \in {"roster", "events", "state"}
    /\ \/ m.at.round # s.at.round
       \/ m.kind = "roster"
       \/ m.at.tick > s.at.tick
       \/ m.at.epoch > s.at.epoch

\* _reliable_fences_snapshot: the waiting snapshot must not follow this message.
Fences(m, s) ==
    /\ m.kind \in {"roster", "events", "state"}
    /\ \/ m.at.round # s.at.round
       \/ m.kind = "roster"
       \/ m.at.tick >= s.at.tick
       \/ m.at.epoch > s.at.epoch

\* The state a describes is older than the state b describes.
Older(a, b) ==
    \/ a.round < b.round
    \/ a.round = b.round /\ (a.tick < b.tick \/ a.revision < b.revision)

\* A waiting snapshot that m fences is withdrawn.
SlotAfter(m) == IF slot # NoItem /\ Fences(m, slot.msg) THEN NoItem ELSE slot

-------------------------------------------------------------------------------
(* The outbox, under its condition. *)

Waiting(items) == {items[i].by : i \in DOMAIN items} \ {Nobody}

\* Mutant: the item in the writer's hand is reported as written.
Fail_ReportsWritten(current) ==
    /\ connected' = FALSE /\ queue' = <<>> /\ bytes' = 0 /\ slot' = NoItem
    /\ answer' = [p \in Senders |->
                    IF p \in Waiting(queue \o current) THEN "true" ELSE answer[p]]

\* _fail_outbox: disconnect, drop everything and wake every waiting sender.
Fail(current) ==
    /\ connected' = FALSE /\ queue' = <<>> /\ bytes' = 0 /\ slot' = NoItem
    /\ answer' = [p \in Senders |->
                    IF p \in Waiting(queue \o current) THEN "false" ELSE answer[p]]

\* Mutant: the thread is only started for snapshots.
StartWriter_Not == UNCHANGED writer

\* _start_outbox_locked.
StartWriter == writer' = IF writer = "off" THEN "loop" ELSE writer

\* The reliable queue has no room for m.
Overflows(m) ==
    Len(queue) >= MaxMessages \/ bytes + SizeOf[m.kind] > MaxBytes

\* _enqueue_reliable on a connected endpoint: a full queue fails the connection,
\* otherwise the message joins the queue; by is the sender that waits for it.
Put(m, by) ==
    IF Overflows(m)
    THEN Fail(<<>>) /\ UNCHANGED writer
    ELSE /\ slot' = SlotAfter(m)
         /\ queue' = Append(queue, Item(m, by))
         /\ bytes' = bytes + SizeOf[m.kind]
         /\ answer' = [p \in Senders |-> IF p = by THEN "none" ELSE answer[p]]
         /\ StartWriter
         /\ UNCHANGED connected

-------------------------------------------------------------------------------
Init ==
    /\ now = [round |-> 1, tick |-> 0, revision |-> 0, epoch |-> 0]
    /\ offers = 0
    /\ held = [p \in Senders |-> NoItem] /\ sync = [p \in Senders |-> FALSE]
    /\ pc = [p \in Senders |-> "idle"]
    /\ answer = [p \in Senders |-> "none"]
    /\ connected = TRUE /\ queue = <<>> /\ bytes = 0 /\ slot = NoItem
    /\ writer = "off" /\ hand = NoItem
    /\ sent = <<>> /\ shown = NoItem

\* A tick of the battle.
RoomTicks ==
    now.tick < MaxTick /\ now' = [now EXCEPT !.tick = @ + 1]

\* A change of the room's state, perhaps of its authority.
RoomChanges ==
    /\ now.revision < MaxRevision
    /\ \E e \in {0, 1} :
         now' = [now EXCEPT !.revision = @ + 1, !.epoch = @ + e]

\* The next round.
RoomResets ==
    /\ now.round < MaxRound /\ now.revision < MaxRevision
    /\ now' = [round |-> now.round + 1, tick |-> 0,
               revision |-> now.revision + 1, epoch |-> 0]

RoomMoves ==
    /\ RoomTicks \/ RoomChanges \/ RoomResets
    /\ UNCHANGED <<offers, senderVars, boxVars, writerVars>>

-------------------------------------------------------------------------------
(* Producers. *)

\* offer_reliable under the state lock (tick_once, _broadcast_current_roster).
OfferReliable(kind) ==
    /\ offers < MaxOffers /\ connected
    /\ offers' = offers + 1
    /\ Put(Message(kind), Nobody)
    /\ UNCHANGED <<now, senderVars, hand, sent, shown>>

\* offer_snapshot, after tick_once has found the room unchanged under the lock:
\* it replaces the snapshot that waits in the slot.
OfferSnapshot ==
    /\ offers < MaxOffers /\ connected
    /\ offers' = offers + 1
    /\ slot' = Item(Message("snapshot"), Nobody)
    /\ StartWriter
    /\ UNCHANGED <<now, senderVars, connected, queue, bytes, answer,
                   hand, sent, shown>>

\* A handler builds a message under the state lock: a roster it will broadcast,
\* or a battle_start or an answer it will send.
Build(p, kind, waits) ==
    /\ pc[p] = "idle" /\ offers < MaxOffers
    /\ kind = "roster" \/ waits
    /\ offers' = offers + 1
    /\ held' = [held EXCEPT ![p] = Message(kind)]
    /\ sync' = [sync EXCEPT ![p] = waits]
    /\ pc' = [pc EXCEPT ![p] = "held"]
    /\ UNCHANGED <<now, boxVars, writerVars>>

\* The sender is done with its message.
Leave(p) ==
    pc' = [pc EXCEPT ![p] = "idle"] /\ held' = [held EXCEPT ![p] = NoItem]

\* send or offer_reliable of that message, outside the state lock.
Enqueue(p) ==
    /\ pc[p] = "held"
    /\ IF connected
       THEN Put(held[p], IF sync[p] THEN p ELSE Nobody)
       ELSE UNCHANGED <<boxVars, writer>>
    /\ IF sync[p] /\ connected /\ ~Overflows(held[p])
       THEN pc' = [pc EXCEPT ![p] = "wait"] /\ UNCHANGED held
       ELSE Leave(p)
    /\ UNCHANGED <<roomVars, sync, hand, sent, shown>>

\* The done event is set: send returns the result.
Return(p) ==
    /\ pc[p] = "wait" /\ answer[p] # "none"
    /\ Leave(p)
    /\ UNCHANGED <<roomVars, sync, boxVars, writerVars>>

\* done.wait times out; the item may still be written before the sender acts.
TimeOut(p) ==
    /\ pc[p] = "wait" /\ answer[p] = "none"
    /\ pc' = [pc EXCEPT ![p] = "late"]
    /\ UNCHANGED <<roomVars, held, sync, boxVars, writerVars>>

\* The sender that timed out fails the connection and returns False.
GiveUp(p) ==
    /\ pc[p] = "late"
    /\ Fail(<<>>)
    /\ Leave(p)
    /\ UNCHANGED <<roomVars, sync, writerVars>>

\* _mark_disconnected, by the thread that removes the endpoint.
Disconnect ==
    /\ connected /\ connected' = FALSE
    /\ UNCHANGED <<roomVars, senderVars, queue, bytes, slot, answer,
                   writerVars>>

-------------------------------------------------------------------------------
(* The writer thread, _outbox_loop. *)

\* Mutants: the newest message first; the bytes of a taken message still count.
WriterTakes_Newest ==
    /\ writer = "loop" /\ connected /\ queue # <<>>
    /\ hand' = queue[Len(queue)]
    /\ queue' = SubSeq(queue, 1, Len(queue) - 1)
    /\ bytes' = bytes - SizeOf[hand'.msg.kind]
    /\ writer' = "write"
    /\ UNCHANGED <<roomVars, senderVars, connected, slot, answer, sent,
                   shown>>
WriterTakes_KeepsBytes ==
    /\ writer = "loop" /\ connected /\ queue # <<>>
    /\ hand' = Head(queue) /\ queue' = Tail(queue)
    /\ writer' = "write"
    /\ UNCHANGED <<roomVars, senderVars, connected, bytes, slot,
                   answer, sent, shown>>

\* It takes the oldest reliable message.
WriterTakes ==
    /\ writer = "loop" /\ connected /\ queue # <<>>
    /\ hand' = Head(queue) /\ queue' = Tail(queue)
    /\ bytes' = bytes - SizeOf[Head(queue).msg.kind]
    /\ writer' = "write"
    /\ UNCHANGED <<roomVars, senderVars, connected, slot, answer, sent,
                   shown>>

\* Without a reliable message, it takes the snapshot.
WriterTakesSnapshot ==
    /\ writer = "loop" /\ connected /\ queue = <<>> /\ slot # NoItem
    /\ hand' = slot /\ slot' = NoItem
    /\ writer' = "write"
    /\ UNCHANGED <<roomVars, senderVars, connected, queue, bytes,
                   answer, sent, shown>>

\* The item is written and its sender woken; the connection may have failed in
\* the meantime.
WriterWrites ==
    /\ writer = "write" /\ writer' = "loop" /\ hand' = NoItem
    /\ IF hand.msg.kind \in Reliable
       THEN sent' = Append(sent, hand.msg) /\ UNCHANGED shown
       ELSE shown' = hand.msg /\ UNCHANGED sent
    /\ answer' = [p \in Senders |-> IF p = hand.by THEN "true" ELSE answer[p]]
    /\ UNCHANGED <<roomVars, senderVars, connected, queue, bytes, slot>>

\* A snapshot that does not fit the wire is skipped (_write_message is False).
WriterSkips ==
    /\ writer = "write" /\ hand.msg.kind = "snapshot"
    /\ writer' = "loop" /\ hand' = NoItem
    /\ UNCHANGED <<roomVars, senderVars, boxVars, sent, shown>>

\* The socket fails or stalls: the outbox fails with the item, the thread ends.
WriterFails ==
    /\ writer = "write" /\ writer' = "dead" /\ hand' = NoItem
    /\ Fail(<<hand>>)
    /\ UNCHANGED <<roomVars, senderVars, sent, shown>>

\* Mutant: the loop ends without waking anybody.
WriterQuits_Quietly ==
    /\ writer = "loop" /\ ~connected /\ writer' = "dead"
    /\ UNCHANGED <<roomVars, senderVars, boxVars, hand, sent, shown>>

\* The loop finds the connection gone: it fails the outbox and ends.
WriterQuits ==
    /\ writer = "loop" /\ ~connected /\ writer' = "dead"
    /\ Fail(<<>>)
    /\ UNCHANGED <<roomVars, senderVars, hand, sent, shown>>

-------------------------------------------------------------------------------
Next ==
    \/ RoomMoves \/ OfferSnapshot \/ Disconnect
    \/ \E k \in Reliable : OfferReliable(k)
    \/ \E p \in Senders :
         \/ \E k \in {"roster", "other"}, w \in BOOLEAN : Build(p, k, w)
         \/ Enqueue(p) \/ Return(p) \/ TimeOut(p) \/ GiveUp(p)
    \/ WriterTakes \/ WriterTakesSnapshot \/ WriterWrites \/ WriterSkips
    \/ WriterFails \/ WriterQuits

Spec == Init /\ [][Next]_vars

\* The writer is scheduled, and ends each write (a stalled one fails after
\* OUTBOUND_STALL_TIMEOUT_SECONDS); a sender whose event is set goes on.
Fairness ==
    /\ WF_vars(WriterTakes) /\ WF_vars(WriterTakesSnapshot)
    /\ WF_vars(WriterWrites \/ WriterSkips \/ WriterFails) /\ WF_vars(WriterQuits)
    /\ \A p \in Senders : WF_vars(Return(p)) /\ WF_vars(GiveUp(p))

FairSpec == Spec /\ Fairness

-------------------------------------------------------------------------------
(* Properties. *)

Stamps == [round : Nat, tick : Nat, revision : Nat, epoch : Nat]
Messages == [n : Nat, kind : Kinds, at : Stamps]
ReliableMessages == {m \in Messages : m.kind \in Reliable}
Items == [msg : Messages, by : Senders \cup {Nobody}]
ReliableItems == {i \in Items : i.msg.kind \in Reliable}

\* Type invariant of the outbox; the writer holds an item exactly while it
\* writes, a busy sender has its message, and only the slot holds snapshots.
TypeOK ==
    /\ now \in Stamps /\ offers \in Nat
    /\ held \in [Senders -> ReliableMessages \cup {NoItem}]
    /\ sync \in [Senders -> BOOLEAN]
    /\ pc \in [Senders -> {"idle", "held", "wait", "late"}]
    /\ \A p \in Senders : pc[p] # "idle" => held[p] \in ReliableMessages
    /\ answer \in [Senders -> {"none", "true", "false"}]
    /\ connected \in BOOLEAN
    /\ queue \in Seq(ReliableItems) /\ bytes \in Int
    /\ slot \in Items \cup {NoItem}
    /\ writer \in {"off", "loop", "write", "dead"}
    /\ IF writer = "write" THEN hand \in Items ELSE hand = NoItem
    /\ sent \in Seq(ReliableMessages) /\ shown \in Messages \cup {NoItem}

\* The queue is bounded for a peer that does not read, and the byte account never
\* drifts from the messages it stands for.
WithinLimits ==
    LET total[i \in 0..Len(queue)] ==
          IF i = 0 THEN 0 ELSE total[i - 1] + SizeOf[queue[i].msg.kind]
    IN  Len(queue) <= MaxMessages /\ bytes = total[Len(queue)] /\ bytes <= MaxBytes

\* No snapshot, from the slot or reliable, is written after a roster or events
\* that describe a newer state: it would bring back a departed member, a former
\* phase, or the health before the hit (_reliable_fences_snapshot).
NoStaleSnapshot ==
    [][writer = "write" /\ writer' = "loop" /\ hand.msg.kind \in {"snapshot", "state"}
         /\ (sent' # sent \/ shown' # shown)
       => \A i \in DOMAIN sent :
            sent[i].kind \in {"roster", "events"} => ~Older(hand.msg.at, sent[i].at)]_vars

\* A thread that waits in send is never forgotten: while its event is unset its
\* item is in the queue or in the hand of a living writer, whatever failed.
NoSenderForgotten ==
    \A p \in Senders :
      pc[p] = "wait" /\ answer[p] = "none" =>
        /\ writer \in {"loop", "write"}
        /\ \/ p \in Waiting(queue)
           \/ writer = "write" /\ hand.by = p

\* send returns True only for a message that reached the socket.
TrueMeansWritten ==
    \A p \in Senders :
      pc[p] = "wait" /\ answer[p] = "true" =>
        \E i \in DOMAIN sent : sent[i] = held[p]

\* The reliable messages accepted and not yet written: the one in the writer's
\* hand and those in the queue.
InHand ==
    IF writer = "write" /\ hand.msg.kind \in Reliable THEN <<hand.msg>> ELSE <<>>
Pending == InHand \o [i \in 1..Len(queue) |-> queue[i].msg]

Stream == INSTANCE OrderedStream WITH
    pending <- Pending, delivered <- sent, open <- connected

\* The reliable messages form one ordered stream without gaps, whatever fails,
\* times out or overflows: the outbox implements OrderedStream.
ImplementsStream == Stream!Spec

\* send returns, although its item may be behind others, the peer may not read
\* and another thread may fail the connection meanwhile.
SendReturns == \A p \in Senders : pc[p] = "wait" ~> pc[p] = "idle"

\* A message that was accepted is written or the connection is given up.
AcceptedIsWritten ==
    \A k \in 1..MaxOffers :
      (\E i \in DOMAIN queue : queue[i].msg.n = k)
        ~> (\E i \in DOMAIN sent : sent[i].n = k) \/ ~connected
=============================================================================
