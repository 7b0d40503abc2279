------------------------- MODULE EndpointOutboxProofs -------------------------
(***************************************************************************)
(* Proofs about EndpointOutbox for any senders, limits and sizes.          *)
(***************************************************************************)
EXTENDS EndpointOutbox, SequenceTheorems, WellFoundedInduction, TLAPS

-------------------------------------------------------------------------------
(* Typing. *)

\* The variables the producers and the writer may change under the condition of
\* the outbox, typed.
BoxTyped ==
    /\ answer \in [Senders -> {"none", "true", "false"}]
    /\ connected \in BOOLEAN
    /\ queue \in Seq(ReliableItems) /\ bytes \in Int
    /\ slot \in Items \cup {NoItem}

\* A message of the current room is a message.
LEMMA MessageType ==
    ASSUME TypeOK, NEW kind \in Kinds
    PROVE  Message(kind) \in Messages
  BY DEF TypeOK, Message, Messages

\* A failed outbox is well typed.
LEMMA FailType ==
    ASSUME TypeOK, NEW current, Fail(current)
    PROVE  BoxTyped'
<1>1. answer' \in [Senders -> {"none", "true", "false"}]
  <2> DEFINE W == Waiting(queue \o current)
  <2>1. answer' = [p \in Senders |-> IF p \in W THEN "false" ELSE answer[p]]
    BY DEF Fail
  <2> HIDE DEF W
  <2> QED
    BY <2>1 DEF TypeOK
<1>2. queue' \in Seq(ReliableItems) /\ bytes' \in Int /\ connected' \in BOOLEAN
  <2>1. queue' = <<>> /\ bytes' = 0 /\ connected' = FALSE
    BY DEF Fail
  <2>2. <<>> \in Seq(ReliableItems)
    OBVIOUS
  <2>3. queue' \in Seq(ReliableItems) /\ bytes' \in Int
    BY <2>1, <2>2
  <2> QED
    BY <2>1, <2>3, Zenon
<1>3. slot' \in Items \cup {NoItem}
  BY DEF Fail
<1> QED
  BY <1>1, <1>2, <1>3 DEF BoxTyped

\* What _enqueue_reliable leaves is well typed.
LEMMA PutType ==
    ASSUME TypeOK, NEW m \in Messages, m.kind \in Reliable,
           NEW by \in Senders \cup {Nobody}, Put(m, by)
    PROVE  /\ BoxTyped'
           /\ writer' = writer \/ (writer = "off" /\ writer' = "loop")
<1>1. CASE Overflows(m)
  <2>1. Fail(<<>>) /\ writer' = writer
    BY <1>1 DEF Put
  <2>2. BoxTyped'
    BY <2>1, FailType
  <2> QED
    BY <2>1, <2>2
<1>2. CASE ~Overflows(m)
  <2>1. Item(m, by) \in ReliableItems
    BY DEF Item, Items, ReliableItems
  <2>2. queue' = Append(queue, Item(m, by)) /\ queue' \in Seq(ReliableItems)
    <3>1. queue' = Append(queue, Item(m, by)) /\ queue \in Seq(ReliableItems)
      BY <1>2 DEF Put, TypeOK
    <3> QED
      BY <2>1, <3>1
  <2>3. bytes' \in Int
    <3>1. bytes' = bytes + SizeOf[m.kind]
      BY <1>2 DEF Put
    <3>2. SizeOf[m.kind] \in Nat
      BY OutboxAssumption DEF Messages
    <3> QED
      BY <3>1, <3>2 DEF TypeOK
  <2>4. answer' \in [Senders -> {"none", "true", "false"}]
    BY <1>2 DEF Put, TypeOK
  <2>5. slot' \in Items \cup {NoItem}
    BY <1>2 DEF Put, SlotAfter, TypeOK
  <2>6. connected' \in BOOLEAN
    BY <1>2 DEF Put, TypeOK
  <2>7. writer' = writer \/ (writer = "off" /\ writer' = "loop")
    BY <1>2 DEF Put, StartWriter
  <2> QED
    BY <2>2, <2>3, <2>4, <2>5, <2>6, <2>7 DEF BoxTyped
<1> QED
  BY <1>1, <1>2

\* Every step of the outbox preserves the type invariant.
LEMMA TypeStep ==
    TypeOK /\ [Next]_vars => TypeOK'
<1> SUFFICES ASSUME TypeOK, [Next]_vars PROVE TypeOK'
  OBVIOUS
<1>a. BoxTyped
  BY DEF TypeOK, BoxTyped
<1>1. CASE RoomMoves
  <2>1. now' \in Stamps
    <3>1. now \in [round : Nat, tick : Nat, revision : Nat, epoch : Nat]
      BY DEF TypeOK, Stamps
    <3>2. \/ now' = [now EXCEPT !.tick = @ + 1]
          \/ \E e \in {0, 1} :
               now' = [now EXCEPT !.revision = @ + 1, !.epoch = @ + e]
          \/ now' = [round |-> now.round + 1, tick |-> 0,
                     revision |-> now.revision + 1, epoch |-> 0]
      BY <1>1 DEF RoomMoves, RoomTicks, RoomChanges, RoomResets
    <3>3. ASSUME now' = [now EXCEPT !.tick = @ + 1] PROVE now' \in Stamps
      BY <3>1, <3>3 DEF Stamps
    <3>4. ASSUME NEW e \in {0, 1},
                 now' = [now EXCEPT !.revision = @ + 1, !.epoch = @ + e]
          PROVE  now' \in Stamps
      <4>1. now.revision + 1 \in Nat /\ now.epoch + e \in Nat
        BY <3>1
      <4> QED
        BY <3>1, <3>4, <4>1 DEF Stamps
    <3> QED
      BY <3>1, <3>2, <3>3, <3>4 DEF Stamps
  <2> QED
    BY <1>1, <2>1 DEF RoomMoves, RoomTicks, RoomChanges, RoomResets, TypeOK, senderVars, boxVars, writerVars
<1>2. ASSUME NEW k \in Reliable, OfferReliable(k) PROVE TypeOK'
  <2>1. Message(k) \in Messages /\ Message(k).kind \in Reliable
    BY MessageType DEF Reliable, Message
  <2>2. Put(Message(k), Nobody)
    BY <1>2 DEF OfferReliable
  <2>3. BoxTyped' /\ (writer' = writer \/ (writer = "off" /\ writer' = "loop"))
    BY <2>1, <2>2, PutType
  <2> QED
    BY <1>2, <2>3 DEF OfferReliable, TypeOK, BoxTyped, senderVars
<1>3. CASE OfferSnapshot
  <2>1. Message("snapshot") \in Messages
    BY MessageType DEF Kinds
  <2>2. slot' \in Items
    BY <1>3, <2>1 DEF OfferSnapshot, Item, Items
  <2>3. writer' = writer \/ (writer = "off" /\ writer' = "loop")
    BY <1>3 DEF OfferSnapshot, StartWriter
  <2> QED
    BY <1>3, <2>2, <2>3 DEF OfferSnapshot, TypeOK, senderVars
<1>4. CASE Disconnect
  BY <1>4 DEF Disconnect, TypeOK, roomVars, senderVars, writerVars
<1>5. ASSUME NEW p \in Senders, NEW k \in {"roster", "other"}, NEW w \in BOOLEAN,
             Build(p, k, w)
      PROVE  TypeOK'
  <2>1. Message(k) \in ReliableMessages
    BY MessageType DEF Kinds, Reliable, ReliableMessages, Message
  <2> QED
    BY <1>5, <2>1 DEF Build, TypeOK, boxVars, writerVars
<1>6. ASSUME NEW p \in Senders, Enqueue(p) PROVE TypeOK'
  <2>1. held[p] \in Messages /\ held[p].kind \in Reliable
    BY <1>6 DEF Enqueue, TypeOK, ReliableMessages
  <2>2. BoxTyped' /\ (writer' = writer \/ (writer = "off" /\ writer' = "loop"))
    <3>1. CASE connected
      <4>1. Put(held[p], IF sync[p] THEN p ELSE Nobody)
        BY <1>6, <3>1 DEF Enqueue
      <4> QED
        BY <2>1, <4>1, PutType
    <3>2. CASE ~connected
      BY <1>6, <1>a, <3>2 DEF Enqueue, boxVars, BoxTyped
    <3> QED
      BY <3>1, <3>2
  <2>3. /\ pc' \in [Senders -> {"idle", "held", "wait", "late"}]
        /\ held' \in [Senders -> ReliableMessages \cup {NoItem}]
        /\ \A q \in Senders : pc'[q] # "idle" => held'[q] \in ReliableMessages
    BY <1>6 DEF Enqueue, Leave, TypeOK
  <2> QED
    BY <1>6, <2>2, <2>3 DEF Enqueue, TypeOK, BoxTyped, roomVars
<1>7. ASSUME NEW p \in Senders, Return(p) PROVE TypeOK'
  BY <1>7 DEF Return, Leave, TypeOK, roomVars, boxVars, writerVars
<1>8. ASSUME NEW p \in Senders, TimeOut(p) PROVE TypeOK'
  BY <1>8 DEF TimeOut, TypeOK, roomVars, boxVars, writerVars
<1>9. ASSUME NEW p \in Senders, GiveUp(p) PROVE TypeOK'
  <2>1. BoxTyped'
    BY <1>9, FailType DEF GiveUp
  <2> QED
    BY <1>9, <2>1 DEF GiveUp, Leave, TypeOK, BoxTyped, roomVars, writerVars
<1>10. CASE WriterTakes
  <2>1. Head(queue) \in ReliableItems /\ Tail(queue) \in Seq(ReliableItems)
    BY <1>10 DEF WriterTakes, TypeOK
  <2>2. bytes' \in Int
    <3>1. SizeOf[Head(queue).msg.kind] \in Nat
      BY <2>1, OutboxAssumption DEF ReliableItems, Items, Messages
    <3> QED
      BY <1>10, <3>1 DEF WriterTakes, TypeOK
  <2> QED
    BY <1>10, <2>1, <2>2 DEF WriterTakes, TypeOK, ReliableItems, roomVars, senderVars
<1>11. CASE WriterTakesSnapshot
  BY <1>11 DEF WriterTakesSnapshot, TypeOK, roomVars, senderVars
<1>12. CASE WriterWrites
  <2>1. hand.msg \in Messages
    BY <1>12 DEF WriterWrites, TypeOK, Items
  <2>2. sent' \in Seq(ReliableMessages) /\ shown' \in Messages \cup {NoItem}
    <3>1. CASE hand.msg.kind \in Reliable
      <4>1. sent' = Append(sent, hand.msg) /\ shown' = shown
        BY <1>12, <3>1 DEF WriterWrites
      <4> QED
        BY <2>1, <3>1, <4>1 DEF TypeOK, ReliableMessages
    <3>2. CASE hand.msg.kind \notin Reliable
      <4>1. shown' = hand.msg /\ sent' = sent
        BY <1>12, <3>2 DEF WriterWrites
      <4> QED
        BY <2>1, <4>1 DEF TypeOK
    <3> QED
      BY <3>1, <3>2
  <2> QED
    BY <1>12, <2>2 DEF WriterWrites, TypeOK, roomVars, senderVars
<1>13. CASE WriterSkips
  BY <1>13 DEF WriterSkips, TypeOK, roomVars, senderVars, boxVars
<1>14. CASE WriterFails
  <2>1. BoxTyped'
    BY <1>14, FailType DEF WriterFails
  <2> QED
    BY <1>14, <2>1 DEF WriterFails, TypeOK, BoxTyped, roomVars, senderVars
<1>15. CASE WriterQuits
  <2>1. BoxTyped'
    BY <1>15, FailType DEF WriterQuits
  <2> QED
    BY <1>15, <2>1 DEF WriterQuits, TypeOK, BoxTyped, roomVars, senderVars
<1>16. CASE UNCHANGED vars
  BY <1>16 DEF TypeOK, vars, roomVars, senderVars, boxVars, writerVars
<1> QED
  BY <1>1, <1>2, <1>3, <1>4, <1>5, <1>6, <1>7, <1>8, <1>9, <1>10, <1>11,
     <1>12, <1>13, <1>14, <1>15, <1>16 DEF Next

\* Every field of the outbox keeps its type: the writer holds an item exactly
\* while it writes, and a snapshot is never queued as a reliable message.
THEOREM OutboxTypeOK == Spec => []TypeOK
<1>1. Init => TypeOK
  BY DEF Init, TypeOK, Stamps
<1> QED
  BY <1>1, TypeStep, PTL DEF Spec

-------------------------------------------------------------------------------
(* The threads that wait in send. *)

\* What is known of the sender that waits for item i: while the connection is
\* up it is waiting with its event unset, and the item carries its message.
OwnedItem(i) ==
    i.by # Nobody =>
      /\ connected => pc[i.by] \in {"wait", "late"} /\ answer[i.by] = "none"
      /\ pc[i.by] \in {"wait", "late"} => i.msg = held[i.by]

ItemsOwned ==
    /\ \A k \in 1..Len(queue) : OwnedItem(queue[k])
    /\ writer = "write" => OwnedItem(hand)

\* No sender waits for two items.
OneItemEach ==
    /\ \A j, k \in 1..Len(queue) :
         queue[j].by = queue[k].by /\ queue[j].by # Nobody => j = k
    /\ writer = "write" /\ hand.by # Nobody =>
         \A k \in 1..Len(queue) : queue[k].by # hand.by

\* A snapshot is waited for by nobody, and a dead writer leaves no connection.
SnapshotsUnwaited ==
    /\ slot # NoItem => slot.by = Nobody
    /\ writer = "write" /\ hand.msg.kind \notin Reliable => hand.by = Nobody
    /\ writer = "dead" => ~connected

\* A sender whose event says True has its message on the wire.
TrueIsWritten ==
    \A p \in Senders :
      pc[p] \in {"wait", "late"} /\ answer[p] = "true" =>
        \E i \in 1..Len(sent) : sent[i] = held[p]

\* No waiting sender is forgotten, with the positions of its item spelled out.
SenderIsServed ==
    \A p \in Senders :
      pc[p] = "wait" /\ answer[p] = "none" =>
        /\ writer \in {"loop", "write"}
        /\ \/ \E k \in 1..Len(queue) : queue[k].by = p
           \/ writer = "write" /\ hand.by = p

SenderInv ==
    /\ TypeOK /\ ItemsOwned /\ OneItemEach /\ SnapshotsUnwaited
    /\ TrueIsWritten /\ SenderIsServed

\* The senders waiting for items of a sequence, by position.
LEMMA WaitingPositions ==
    ASSUME NEW items, NEW p \in Senders, items \in Seq(Items)
    PROVE  p \in Waiting(items) <=> \E k \in 1..Len(items) : items[k].by = p
  BY OutboxAssumption DEF Waiting

\* Failing the outbox answers whoever waits for a queued item or for the item
\* that is given up.
LEMMA FailAnswers ==
    ASSUME TypeOK, NEW current \in Seq(Items), Fail(current), NEW p \in Senders
    PROVE  /\ answer'[p] \in {answer[p], "false"}
           /\ (\E k \in 1..Len(queue) : queue[k].by = p) => answer'[p] = "false"
           /\ (\E k \in 1..Len(current) : current[k].by = p)
                => answer'[p] = "false"
<1>1. queue \in Seq(Items)
  BY DEF TypeOK, ReliableItems
<1>2. queue \o current \in Seq(Items)
  BY <1>1
<1>3. answer'[p] = IF p \in Waiting(queue \o current) THEN "false" ELSE answer[p]
  BY DEF Fail
<1>4. ASSUME NEW k \in 1..Len(queue), queue[k].by = p
      PROVE  p \in Waiting(queue \o current)
  <2>1. k \in 1..Len(queue \o current) /\ (queue \o current)[k] = queue[k]
    BY <1>1
  <2> QED
    BY <1>2, <1>4, <2>1, WaitingPositions
<1>5. ASSUME NEW k \in 1..Len(current), current[k].by = p
      PROVE  p \in Waiting(queue \o current)
  <2>1. /\ Len(queue) + k \in 1..Len(queue \o current)
        /\ (queue \o current)[Len(queue) + k] = current[k]
    BY <1>1
  <2> QED
    BY <1>2, <1>5, <2>1, WaitingPositions
<1> QED
  BY <1>3, <1>4, <1>5

\* Failing the outbox without giving up the item in the writer's hand keeps the
\* senders' invariant, for senders that do not start to wait.
LEMMA FailSenders ==
    ASSUME SenderInv, TypeOK', Fail(<<>>), UNCHANGED <<sent, hand>>,
           \/ writer' = writer
           \/ writer = "loop" /\ writer' = "dead",
           \A p \in Senders :
             pc'[p] \in {"wait", "late"} =>
               /\ pc[p] \in {"wait", "late"} /\ held'[p] = held[p]
               /\ pc'[p] = pc[p]
    PROVE  SenderInv'
<1> USE DEF SenderInv
<1>1. queue' = <<>> /\ slot' = NoItem /\ connected' = FALSE
  BY DEF Fail
<1>2. \A p \in Senders :
        /\ answer'[p] \in {answer[p], "false"}
        /\ (\E k \in 1..Len(queue) : queue[k].by = p) => answer'[p] = "false"
  <2>1. <<>> \in Seq(Items)
    OBVIOUS
  <2> QED
    BY <2>1, FailAnswers
<1>3. ItemsOwned'
  <2>1. ASSUME writer' = "write" PROVE OwnedItem(hand)'
    <3>1. hand \in Items /\ OwnedItem(hand)
      BY <2>1 DEF TypeOK, ItemsOwned
    <3> QED
      BY <1>1, <3>1 DEF OwnedItem, Items
  <2> QED
    BY <1>1, <2>1 DEF ItemsOwned
<1>4. OneItemEach' /\ SnapshotsUnwaited'
  BY <1>1 DEF OneItemEach, SnapshotsUnwaited
<1>5. TrueIsWritten'
  BY <1>2 DEF TrueIsWritten
<1>6. SenderIsServed'
  BY <1>2 DEF SenderIsServed
<1> QED
  BY <1>3, <1>4, <1>5, <1>6

\* Enqueueing a reliable message keeps the senders' invariant: nobody waits for
\* it, or the sender by that had its message ready and owned no item.
LEMMA PutSenders ==
    ASSUME SenderInv, TypeOK', connected, NEW m \in ReliableMessages,
           NEW by \in Senders \cup {Nobody}, Put(m, by), ~Overflows(m),
           UNCHANGED <<sent, hand>>,
           by # Nobody => pc[by] = "held" /\ held[by] = m /\ pc'[by] = "wait",
           \A p \in Senders :
             p # by => \/ pc'[p] = pc[p] /\ held'[p] = held[p]
                       \/ pc[p] = "held" /\ pc'[p] = "idle",
           by # Nobody => held'[by] = held[by]
    PROVE  SenderInv'
<1> USE DEF SenderInv
<1>1. /\ queue' = Append(queue, Item(m, by)) /\ connected' = TRUE
      /\ answer' = [p \in Senders |-> IF p = by THEN "none" ELSE answer[p]]
      /\ slot' \in {slot, NoItem}
      /\ writer' = IF writer = "off" THEN "loop" ELSE writer
  BY DEF Put, SlotAfter, StartWriter
<1>2. queue \in Seq(ReliableItems) /\ Item(m, by) \in ReliableItems
  BY DEF TypeOK, Item, ReliableItems, Items, ReliableMessages
<1>3. /\ Len(queue') = Len(queue) + 1 /\ Len(queue) \in Nat
      /\ \A k \in 1..Len(queue) : queue'[k] = queue[k] /\ queue[k] \in ReliableItems
      /\ queue'[Len(queue) + 1] = Item(m, by)
  BY <1>1, <1>2
<1>4. Item(m, by).by = by /\ Item(m, by).msg = m
  BY DEF Item
<1>5. /\ \A k \in 1..Len(queue) : by # Nobody => queue[k].by # by
      /\ writer = "write" /\ by # Nobody => hand.by # by
  BY DEF ItemsOwned, OwnedItem
<1>6. writer' = "write" <=> writer = "write"
  BY <1>1
<1> DEFINE OwnedNext(i) ==
      i.by # Nobody =>
        /\ connected' => pc'[i.by] \in {"wait", "late"} /\ answer'[i.by] = "none"
        /\ pc'[i.by] \in {"wait", "late"} => i.msg = held'[i.by]
<1>7. ASSUME NEW i \in Items, OwnedItem(i), i.by = Nobody \/ i.by # by
      PROVE  OwnedNext(i)
  BY <1>1, <1>7 DEF OwnedItem, Items
<1>8. OwnedNext(Item(m, by))
  BY <1>1, <1>4
<1>9. ItemsOwned'
  <2>1. ASSUME NEW k \in 1..Len(queue') PROVE OwnedNext(queue'[k])
    <3>1. CASE k \in 1..Len(queue)
      <4>1. queue[k] \in Items /\ OwnedItem(queue[k])
        BY <1>3, <3>1 DEF ItemsOwned, ReliableItems
      <4>2. queue[k].by = Nobody \/ queue[k].by # by
        BY <1>5, <3>1
      <4>3. OwnedNext(queue[k])
        BY <1>7, <4>1, <4>2
      <4> QED
        BY <1>3, <3>1, <4>3
    <3>2. CASE k = Len(queue) + 1
      BY <1>3, <1>8, <3>2
    <3> QED
      BY <1>3, <3>1, <3>2
  <2>2. ASSUME writer' = "write" PROVE OwnedNext(hand')
    <3>1. hand \in Items /\ OwnedItem(hand)
      BY <1>6, <2>2 DEF ItemsOwned, TypeOK
    <3>2. hand.by = Nobody \/ hand.by # by
      BY <1>5, <1>6, <2>2
    <3> QED
      BY <1>7, <3>1, <3>2
  <2> QED
    BY <2>1, <2>2 DEF ItemsOwned, OwnedItem
<1>10. OneItemEach'
  BY <1>3, <1>4, <1>5, <1>6 DEF OneItemEach
<1>11. SnapshotsUnwaited'
  BY <1>1 DEF SnapshotsUnwaited
<1>12. TrueIsWritten'
  BY <1>1 DEF TrueIsWritten
<1>13. SenderIsServed'
  <2> SUFFICES ASSUME NEW p \in Senders, pc'[p] = "wait", answer'[p] = "none"
               PROVE  /\ writer' \in {"loop", "write"}
                      /\ \/ \E k \in 1..Len(queue') : queue'[k].by = p
                         \/ writer' = "write" /\ hand'.by = p
    BY DEF SenderIsServed
  <2>1. writer \in {"off", "loop", "write"}
    BY DEF SnapshotsUnwaited, TypeOK
  <2>2. CASE p = by
    BY <1>1, <1>3, <1>4, <2>1, <2>2
  <2>3. CASE p # by
    <3>1. pc[p] = "wait" /\ answer[p] = "none"
      BY <1>1, <2>3
    <3> QED
      BY <1>1, <1>3, <1>6, <3>1 DEF SenderIsServed
  <2> QED
    BY <2>2, <2>3
<1> QED
  BY <1>9, <1>10, <1>11, <1>12, <1>13

\* Every step of the outbox preserves the senders' invariant.
LEMMA SenderStep ==
    SenderInv /\ [Next]_vars => SenderInv'
<1> SUFFICES ASSUME SenderInv, [Next]_vars PROVE SenderInv'
  OBVIOUS
<1>t. TypeOK /\ TypeOK'
  BY TypeStep DEF SenderInv
<1>same. ASSUME UNCHANGED <<senderVars, boxVars, writerVars>> PROVE SenderInv'
  BY <1>same, <1>t DEF SenderInv, ItemsOwned, OwnedItem, OneItemEach,
     SnapshotsUnwaited, TrueIsWritten, SenderIsServed, senderVars, boxVars,
     writerVars
<1>1. CASE RoomMoves
  BY <1>1, <1>same DEF RoomMoves
<1>2. ASSUME NEW k \in Reliable, OfferReliable(k) PROVE SenderInv'
  <2>1. Message(k) \in ReliableMessages
    BY <1>t, MessageType DEF Reliable, ReliableMessages, Message
  <2>2. /\ connected /\ Put(Message(k), Nobody)
        /\ UNCHANGED <<held, sync, pc, hand, sent>>
    BY <1>2 DEF OfferReliable, senderVars
  <2>3. CASE Overflows(Message(k))
    <3>1. Fail(<<>>) /\ writer' = writer
      BY <2>2, <2>3 DEF Put
    <3> QED
      BY <1>t, <2>2, <3>1, FailSenders
  <2>4. CASE ~Overflows(Message(k))
    BY <1>t, <2>1, <2>2, <2>4, PutSenders
  <2> QED
    BY <2>3, <2>4
<1>3. CASE OfferSnapshot
  <2>1. /\ UNCHANGED <<senderVars, connected, queue, answer, hand, sent>>
        /\ slot'.by = Nobody /\ connected
        /\ writer' = IF writer = "off" THEN "loop" ELSE writer
    BY <1>3 DEF OfferSnapshot, Item, StartWriter
  <2> QED
    BY <1>t, <2>1 DEF SenderInv, ItemsOwned, OwnedItem, OneItemEach,
       SnapshotsUnwaited, TrueIsWritten, SenderIsServed, senderVars
<1>4. CASE Disconnect
  BY <1>4, <1>t DEF Disconnect, SenderInv, ItemsOwned, OwnedItem, OneItemEach,
     SnapshotsUnwaited, TrueIsWritten, SenderIsServed, senderVars, writerVars
<1>idle. ASSUME NEW p \in Senders,
                pc[p] = "idle" \/ (pc[p] = "held" /\ ~connected)
                  \/ (pc[p] = "wait" /\ answer[p] # "none"),
                pc'[p] \in {"idle", "held"},
                \A q \in Senders : q # p => pc'[q] = pc[q] /\ held'[q] = held[q],
                UNCHANGED <<boxVars, writerVars>>
         PROVE  SenderInv'
  <2> USE DEF SenderInv, boxVars, writerVars
  <2>1. ASSUME NEW i \in Items, OwnedItem(i)
        PROVE  i.by # Nobody =>
                 /\ connected => pc'[i.by] \in {"wait", "late"} /\ answer[i.by] = "none"
                 /\ pc'[i.by] \in {"wait", "late"} => i.msg = held'[i.by]
    BY <1>idle, <2>1 DEF OwnedItem, Items
  <2>2. ItemsOwned'
    <3>1. \A k \in 1..Len(queue) : queue[k] \in Items
      BY <1>t DEF TypeOK, ReliableItems
    <3>2. writer = "write" => hand \in Items
      BY <1>t DEF TypeOK
    <3> QED
      BY <1>idle, <2>1, <3>1, <3>2 DEF ItemsOwned, OwnedItem
  <2>3. OneItemEach' /\ SnapshotsUnwaited'
    BY <1>idle DEF OneItemEach, SnapshotsUnwaited
  <2>4. TrueIsWritten' /\ SenderIsServed'
    BY <1>idle DEF TrueIsWritten, SenderIsServed
  <2> QED
    BY <1>t, <2>2, <2>3, <2>4
<1>5. ASSUME NEW p \in Senders, NEW k \in {"roster", "other"}, NEW w \in BOOLEAN,
             Build(p, k, w)
      PROVE  SenderInv'
  BY <1>5, <1>t, <1>idle DEF Build, TypeOK
<1>6. ASSUME NEW p \in Senders, Enqueue(p) PROVE SenderInv'
  <2>1. CASE ~connected
    BY <1>6, <2>1, <1>t, <1>idle DEF Enqueue, Leave, TypeOK, writerVars, boxVars
  <2>2. CASE connected /\ Overflows(held[p])
    <3>1. Fail(<<>>) /\ writer' = writer /\ Leave(p) /\ UNCHANGED <<hand, sent>>
      BY <1>6, <2>2 DEF Enqueue, Put
    <3>2. \A q \in Senders :
            pc'[q] \in {"wait", "late"} =>
              /\ pc[q] \in {"wait", "late"} /\ held'[q] = held[q]
              /\ pc'[q] = pc[q]
      BY <3>1, <1>t DEF Leave, TypeOK
    <3> QED
      BY <1>t, <3>1, <3>2, FailSenders
  <2>3. CASE connected /\ ~Overflows(held[p])
    <3> DEFINE by == IF sync[p] THEN p ELSE Nobody
    <3>1. /\ Put(held[p], by) /\ UNCHANGED <<hand, sent>> /\ pc[p] = "held"
          /\ IF sync[p] THEN pc' = [pc EXCEPT ![p] = "wait"] /\ held' = held
                        ELSE Leave(p)
      BY <1>6, <2>3 DEF Enqueue
    <3>2. held[p] \in ReliableMessages
      BY <3>1, <1>t DEF TypeOK
    <3>3. \A q \in Senders :
             q # by => \/ pc'[q] = pc[q] /\ held'[q] = held[q]
                       \/ pc[q] = "held" /\ pc'[q] = "idle"
      BY <3>1, <1>t DEF Leave, TypeOK
    <3>4. by # Nobody => /\ pc[by] = "held" /\ held[by] = held[p]
                         /\ pc'[by] = "wait" /\ held'[by] = held[by]
      BY <3>1, <1>t DEF TypeOK
    <3>5. by \in Senders \cup {Nobody}
      OBVIOUS
    <3> HIDE DEF by
    <3> QED
      BY <2>3, <1>t, <3>1, <3>2, <3>3, <3>4, <3>5, PutSenders
  <2> QED
    BY <2>1, <2>2, <2>3
<1>7. ASSUME NEW p \in Senders, Return(p) PROVE SenderInv'
  BY <1>7, <1>t, <1>idle DEF Return, Leave, TypeOK
<1>8. ASSUME NEW p \in Senders, TimeOut(p) PROVE SenderInv'
  BY <1>8, <1>t DEF TimeOut, TypeOK, SenderInv, ItemsOwned, OwnedItem, OneItemEach,
     SnapshotsUnwaited, TrueIsWritten, SenderIsServed, boxVars, writerVars
<1>9. ASSUME NEW p \in Senders, GiveUp(p) PROVE SenderInv'
  <2>1. Fail(<<>>) /\ writer' = writer /\ Leave(p) /\ UNCHANGED <<hand, sent>>
    BY <1>9 DEF GiveUp, writerVars
  <2>2. \A q \in Senders :
          pc'[q] \in {"wait", "late"} =>
            /\ pc[q] \in {"wait", "late"} /\ held'[q] = held[q]
            /\ pc'[q] = pc[q]
    BY <2>1, <1>t DEF Leave, TypeOK
  <2> QED
    BY <1>t, <2>1, <2>2, FailSenders
<1>10. CASE WriterTakes
  <2> USE DEF SenderInv
  <2>1. /\ hand' = queue[1] /\ Len(queue') = Len(queue) - 1 /\ Len(queue) \in Nat \ {0}
        /\ \A k \in 1..Len(queue') : queue'[k] = queue[k + 1]
        /\ \A k \in 1..Len(queue) : queue[k] \in ReliableItems
    BY <1>10, <1>t DEF WriterTakes, TypeOK
  <2>2. /\ UNCHANGED <<held, pc, connected, answer, slot, sent>>
        /\ writer = "loop" /\ writer' = "write" /\ connected
    BY <1>10 DEF WriterTakes, senderVars
  <2>3. ItemsOwned'
    BY <2>1, <2>2 DEF ItemsOwned, OwnedItem
  <2>4. OneItemEach'
    BY SMTT(30), <2>1, <2>2 DEF OneItemEach
  <2>5. SnapshotsUnwaited'
    BY <2>1, <2>2 DEF SnapshotsUnwaited, ReliableItems
  <2>6. TrueIsWritten'
    BY <2>2 DEF TrueIsWritten
  <2>7. SenderIsServed'
    <3> SUFFICES ASSUME NEW p \in Senders, pc[p] = "wait", answer[p] = "none"
                 PROVE  hand'.by = p \/ \E k \in 1..Len(queue') : queue'[k].by = p
      BY <2>2 DEF SenderIsServed
    <3>1. PICK k \in 1..Len(queue) : queue[k].by = p
      BY <2>2 DEF SenderIsServed
    <3>2. CASE k = 1
      BY <2>1, <3>1, <3>2
    <3>3. CASE k # 1
      <4>1. k - 1 \in 1..Len(queue') /\ queue'[k - 1] = queue[k]
        BY <2>1, <3>3
      <4> QED
        BY <3>1, <4>1
    <3> QED
      BY <3>2, <3>3
  <2> QED
    BY <1>t, <2>3, <2>4, <2>5, <2>6, <2>7
<1>11. CASE WriterTakesSnapshot
  <2>1. /\ UNCHANGED <<senderVars, connected, queue, answer, sent>> /\ connected
        /\ hand' = slot /\ slot # NoItem /\ slot' = NoItem /\ queue = <<>>
        /\ writer = "loop" /\ writer' = "write"
    BY <1>11 DEF WriterTakesSnapshot
  <2> QED
    BY <1>t, <2>1 DEF SenderInv, ItemsOwned, OwnedItem, OneItemEach,
       SnapshotsUnwaited, TrueIsWritten, SenderIsServed, senderVars
<1>12. CASE WriterWrites
  <2> USE DEF SenderInv
  <2>1. /\ UNCHANGED <<held, pc, connected, queue, slot>>
        /\ writer = "write" /\ writer' = "loop"
        /\ answer' = [p \in Senders |-> IF p = hand.by THEN "true" ELSE answer[p]]
        /\ hand.msg.kind \in Reliable => sent' = Append(sent, hand.msg)
        /\ hand.msg.kind \notin Reliable => sent' = sent
    BY <1>12 DEF WriterWrites, senderVars
  <2>2. \A k \in 1..Len(queue) :
          queue[k] \in Items /\ (queue[k].by # Nobody => queue[k].by # hand.by)
    BY <2>1, <1>t DEF OneItemEach, TypeOK, ReliableItems
  <2>3. ItemsOwned'
    BY <2>1, <2>2 DEF ItemsOwned, OwnedItem, Items
  <2>4. OneItemEach' /\ SnapshotsUnwaited'
    BY <2>1 DEF OneItemEach, SnapshotsUnwaited
  <2>5. TrueIsWritten'
    <3> SUFFICES ASSUME NEW p \in Senders, pc[p] \in {"wait", "late"},
                        answer'[p] = "true"
                 PROVE  \E i \in 1..Len(sent') : sent'[i] = held[p]
      BY <2>1 DEF TrueIsWritten
    <3>1. CASE hand.by = p
      <4>1. hand.msg.kind \in Reliable
        BY <2>1, <3>1, OutboxAssumption DEF SnapshotsUnwaited
      <4>2. hand.msg = held[p]
        BY <2>1, <3>1, OutboxAssumption DEF ItemsOwned, OwnedItem
      <4>3. /\ Len(sent') = Len(sent) + 1 /\ Len(sent) \in Nat
            /\ sent'[Len(sent) + 1] = hand.msg
        BY <2>1, <4>1, <1>t DEF TypeOK
      <4> QED
        BY <4>2, <4>3
    <3>2. CASE hand.by # p
      <4>1. PICK i \in 1..Len(sent) : sent[i] = held[p]
        BY <2>1, <3>2 DEF TrueIsWritten
      <4>2. i \in 1..Len(sent') /\ sent'[i] = sent[i]
        BY <2>1, <1>t DEF TypeOK
      <4> QED
        BY <4>1, <4>2
    <3> QED
      BY <3>1, <3>2
  <2>6. SenderIsServed'
    BY <2>1 DEF SenderIsServed
  <2> QED
    BY <1>t, <2>3, <2>4, <2>5, <2>6
<1>13. CASE WriterSkips
  <2>1. /\ UNCHANGED <<senderVars, boxVars, sent>> /\ writer = "write"
        /\ writer' = "loop" /\ hand.by = Nobody
    BY <1>13 DEF WriterSkips, SenderInv, SnapshotsUnwaited, Reliable
  <2> QED
    BY <1>t, <2>1, OutboxAssumption DEF SenderInv, ItemsOwned, OwnedItem, OneItemEach,
       SnapshotsUnwaited, TrueIsWritten, SenderIsServed, senderVars, boxVars
<1>14. CASE WriterFails
  <2> USE DEF SenderInv
  <2>1. /\ UNCHANGED <<held, pc, sent>> /\ Fail(<<hand>>)
        /\ writer = "write" /\ writer' = "dead"
        /\ queue' = <<>> /\ slot' = NoItem /\ connected' = FALSE
    BY <1>14 DEF WriterFails, senderVars, Fail
  <2>2. \A p \in Senders :
          /\ answer'[p] \in {answer[p], "false"}
          /\ (\E k \in 1..Len(queue) : queue[k].by = p) => answer'[p] = "false"
          /\ hand.by = p => answer'[p] = "false"
    <3>1. <<hand>> \in Seq(Items) /\ Len(<<hand>>) = 1 /\ <<hand>>[1] = hand
      BY <2>1, <1>t DEF TypeOK
    <3> SUFFICES ASSUME NEW p \in Senders
                 PROVE  /\ answer'[p] \in {answer[p], "false"}
                        /\ (\E k \in 1..Len(queue) : queue[k].by = p)
                             => answer'[p] = "false"
                        /\ hand.by = p => answer'[p] = "false"
      OBVIOUS
    <3>2. /\ answer'[p] \in {answer[p], "false"}
          /\ (\E k \in 1..Len(queue) : queue[k].by = p) => answer'[p] = "false"
          /\ (\E k \in 1..Len(<<hand>>) : <<hand>>[k].by = p)
               => answer'[p] = "false"
      BY <1>t, <2>1, <3>1, FailAnswers
    <3>3. ASSUME hand.by = p
          PROVE  \E k \in 1..Len(<<hand>>) : <<hand>>[k].by = p
      <4>1. 1 \in 1..Len(<<hand>>) /\ <<hand>>[1].by = p
        BY <3>1, <3>3
      <4> QED
        BY <4>1
    <3> QED
      BY <3>2, <3>3
  <2>3. ItemsOwned' /\ OneItemEach' /\ SnapshotsUnwaited'
    BY <2>1 DEF ItemsOwned, OneItemEach, SnapshotsUnwaited
  <2>4. TrueIsWritten' /\ SenderIsServed'
    BY <2>1, <2>2 DEF TrueIsWritten, SenderIsServed
  <2> QED
    BY <1>t, <2>3, <2>4
<1>15. CASE WriterQuits
  <2>1. /\ Fail(<<>>) /\ writer = "loop" /\ writer' = "dead"
        /\ UNCHANGED <<held, pc, hand, sent>>
    BY <1>15 DEF WriterQuits, senderVars
  <2> QED
    BY <1>t, <2>1, FailSenders
<1>16. CASE UNCHANGED vars
  BY <1>16, <1>same DEF vars
<1> QED
  BY <1>1, <1>2, <1>3, <1>4, <1>5, <1>6, <1>7, <1>8, <1>9, <1>10, <1>11,
     <1>12, <1>13, <1>14, <1>15, <1>16 DEF Next

\* The senders' invariant holds in every reachable outbox.
LEMMA SenderInvariant == Spec => []SenderInv
<1>1. Init => SenderInv
  BY DEF Init, SenderInv, TypeOK, Stamps, ItemsOwned, OneItemEach,
     SnapshotsUnwaited, TrueIsWritten, SenderIsServed
<1> QED
  BY <1>1, SenderStep, PTL DEF Spec

\* While a sender waits with its event unset, a living writer holds its item or
\* will come to it: no failure, overflow or timeout leaves it behind.
THEOREM OutboxForgetsNoSender == Spec => []NoSenderForgotten
<1>1. SenderInv => NoSenderForgotten
  <2>1. ASSUME TypeOK, NEW p \in Senders, NEW k \in 1..Len(queue), queue[k].by = p
        PROVE  p \in Waiting(queue)
    <3>1. queue \in Seq(Items)
      BY <2>1 DEF TypeOK, ReliableItems
    <3> QED
      BY <2>1, <3>1, WaitingPositions
  <2> QED
    BY <2>1 DEF SenderInv, SenderIsServed, NoSenderForgotten
<1> QED
  BY <1>1, SenderInvariant, PTL

\* send returns True only for a message that was written to the socket.
THEOREM OutboxTrueMeansWritten == Spec => []TrueMeansWritten
<1>1. SenderInv => TrueMeansWritten
  BY DEF SenderInv, TypeOK, TrueIsWritten, TrueMeansWritten
<1> QED
  BY <1>1, SenderInvariant, PTL

-------------------------------------------------------------------------------
(* The limits. *)

\* The two limits, without the sum the byte account stands for.
LimitsHold == Len(queue) <= MaxMessages /\ bytes <= MaxBytes

\* A failed outbox is empty.
LEMMA FailLimits ==
    ASSUME NEW current, Fail(current)
    PROVE  LimitsHold'
<1>1. queue' = <<>> /\ bytes' = 0 /\ MaxMessages \in Nat /\ MaxBytes \in Nat
  BY OutboxAssumption DEF Fail
<1> QED
  BY <1>1 DEF LimitsHold

\* _enqueue_reliable fails the connection before it passes a limit.
LEMMA PutLimits ==
    ASSUME TypeOK, NEW m \in Messages, NEW by, Put(m, by)
    PROVE  LimitsHold'
<1>1. CASE Overflows(m)
  BY <1>1, FailLimits DEF Put
<1>2. CASE ~Overflows(m)
  <2>1. queue' = Append(queue, Item(m, by)) /\ bytes' = bytes + SizeOf[m.kind]
    BY <1>2 DEF Put
  <2>2. ~(Len(queue) >= MaxMessages) /\ ~(bytes + SizeOf[m.kind] > MaxBytes)
    BY <1>2 DEF Overflows
  <2>3. /\ Len(queue) \in Nat /\ Len(queue') = Len(queue) + 1
        /\ SizeOf[m.kind] \in Nat /\ bytes \in Int
        /\ MaxMessages \in Nat /\ MaxBytes \in Nat
    BY <2>1, OutboxAssumption DEF TypeOK, Messages
  <2> QED
    BY <2>1, <2>2, <2>3 DEF LimitsHold
<1> QED
  BY <1>1, <1>2

\* No step passes a limit: what does not enqueue or fail only takes away.
LEMMA LimitsStep ==
    TypeOK /\ LimitsHold /\ [Next]_vars => LimitsHold'
<1> SUFFICES ASSUME TypeOK, LimitsHold, [Next]_vars PROVE LimitsHold'
  OBVIOUS
<1>1. ASSUME UNCHANGED <<queue, bytes>> PROVE LimitsHold'
  BY <1>1 DEF LimitsHold
<1>2. ASSUME NEW k \in Reliable, OfferReliable(k) PROVE LimitsHold'
  BY <1>2, MessageType, PutLimits DEF OfferReliable, Reliable
<1>3. ASSUME NEW p \in Senders, Enqueue(p) PROVE LimitsHold'
  <2>1. held[p] \in Messages
    BY <1>3 DEF Enqueue, TypeOK, ReliableMessages
  <2>2. CASE connected
    BY <1>3, <2>1, <2>2, PutLimits DEF Enqueue
  <2>3. CASE ~connected
    BY <1>1, <1>3, <2>3 DEF Enqueue, boxVars
  <2> QED
    BY <2>2, <2>3
<1>4. ASSUME NEW p \in Senders, GiveUp(p) PROVE LimitsHold'
  BY <1>4, FailLimits DEF GiveUp
<1>5. CASE WriterTakes
  <2>1. /\ Len(queue') = Len(queue) - 1 /\ Len(queue) \in Nat
        /\ Head(queue) \in ReliableItems
    BY <1>5 DEF WriterTakes, TypeOK
  <2>2. SizeOf[Head(queue).msg.kind] \in Nat /\ bytes \in Int
        /\ MaxMessages \in Nat /\ MaxBytes \in Nat
    BY <2>1, OutboxAssumption DEF TypeOK, ReliableItems, Items, Messages
  <2> QED
    BY <1>5, <2>1, <2>2 DEF WriterTakes, LimitsHold
<1>6. CASE WriterFails \/ WriterQuits
  BY <1>6, FailLimits DEF WriterFails, WriterQuits
<1>7. ASSUME NEW p \in Senders, NEW k \in {"roster", "other"}, NEW w \in BOOLEAN,
             Build(p, k, w)
      PROVE  LimitsHold'
  BY <1>1, <1>7 DEF Build, boxVars
<1>8. ASSUME NEW p \in Senders, Return(p) \/ TimeOut(p) PROVE LimitsHold'
  BY <1>1, <1>8 DEF Return, TimeOut, boxVars
<1>9. CASE RoomMoves \/ OfferSnapshot \/ Disconnect \/ WriterTakesSnapshot
           \/ WriterWrites \/ WriterSkips
  BY <1>1, <1>9 DEF RoomMoves, OfferSnapshot, Disconnect, WriterTakesSnapshot,
     WriterWrites, WriterSkips, boxVars
<1>10. CASE UNCHANGED vars
  BY <1>1, <1>10 DEF vars, boxVars
<1> QED
  BY <1>2, <1>3, <1>4, <1>5, <1>6, <1>7, <1>8, <1>9, <1>10 DEF Next

\* The two limits hold in every reachable outbox.
LEMMA OutboxKeepsItsLimits == Spec => []LimitsHold
<1>1. Init => LimitsHold
  BY OutboxAssumption DEF Init, LimitsHold
<1> QED
  BY <1>1, LimitsStep, OutboxTypeOK, PTL DEF Spec

-------------------------------------------------------------------------------
(* The byte account.  The sum it stands for is a recursive function over the
   places of the queue; what holds at every place is shown by its least
   exception, since no induction theorem can be instantiated. *)

\* f is the running total of the sizes of the messages of q.
Accounts(f, q) ==
    f = [i \in 0..Len(q) |-> IF i = 0 THEN 0 ELSE f[i - 1] + SizeOf[q[i].msg.kind]]

Totals(q) == CHOOSE f : Accounts(f, q)

\* The bytes of the messages of q.
Sum(q) == Totals(q)[Len(q)]

\* A set of naturals that is not empty has a least member.
LEMMA LeastNatural ==
    ASSUME NEW T, T \subseteq Nat, T # {}
    PROVE  \E x \in T : \A y \in T : x <= y
<1>1. \E x \in T : \A y \in T : <<y, x>> \notin OpToRel(<, Nat)
  BY NatLessThanWellFounded, WFMin
<1>2. PICK x \in T : \A y \in T : <<y, x>> \notin OpToRel(<, Nat)
  BY <1>1
<1>3. ASSUME NEW y \in T PROVE x <= y
  <2>1. x \in Nat /\ y \in Nat
    BY <1>3
  <2>2. ~(y < x)
    BY <1>2, <1>3, <2>1 DEF OpToRel
  <2> QED
    BY <2>1, <2>2
<1> QED
  BY <1>2, <1>3

\* What an account says of each place.
LEMMA AccountPlaces ==
    ASSUME NEW q \in Seq(ReliableItems), NEW f, Accounts(f, q)
    PROVE  /\ DOMAIN f = 0..Len(q) /\ f[0] = 0
           /\ \A i \in 1..Len(q) : /\ i - 1 \in 0..Len(q)
                                   /\ f[i] = f[i - 1] + SizeOf[q[i].msg.kind]
                                   /\ SizeOf[q[i].msg.kind] \in Nat
<1>1. Len(q) \in Nat /\ 0 \in 0..Len(q)
  OBVIOUS
<1>2. /\ DOMAIN f = 0..Len(q)
      /\ \A i \in 0..Len(q) :
           f[i] = IF i = 0 THEN 0 ELSE f[i - 1] + SizeOf[q[i].msg.kind]
  BY Zenon DEF Accounts
<1>3. \A i \in 1..Len(q) : i \in 0..Len(q) /\ i # 0 /\ i - 1 \in 0..Len(q)
  BY <1>1
<1>4. \A i \in 1..Len(q) : SizeOf[q[i].msg.kind] \in Nat
  <2>1. \A i \in 1..Len(q) : q[i] \in ReliableItems
    OBVIOUS
  <2>2. \A m \in ReliableItems : m.msg.kind \in Kinds
    BY DEF ReliableItems, Items, Messages
  <2> QED
    BY <2>1, <2>2, OutboxAssumption
<1> QED
  BY <1>1, <1>2, <1>3, <1>4

\* A function that says this of each place is an account.
LEMMA AccountMade ==
    ASSUME NEW q \in Seq(ReliableItems), NEW f, f = [i \in 0..Len(q) |-> f[i]],
           f[0] = 0, \A i \in 1..Len(q) : f[i] = f[i - 1] + SizeOf[q[i].msg.kind]
    PROVE  Accounts(f, q)
<1>1. Len(q) \in Nat
  OBVIOUS
<1>2. \A i \in 0..Len(q) : i # 0 => i \in 1..Len(q)
  BY <1>1
<1>3. \A i \in 0..Len(q) :
        f[i] = IF i = 0 THEN 0 ELSE f[i - 1] + SizeOf[q[i].msg.kind]
  BY <1>2, Zenon
<1> QED
  BY <1>3, Zenon DEF Accounts

\* A running total is a natural number at every place.
LEMMA AccountIsNat ==
    ASSUME NEW q \in Seq(ReliableItems), NEW f, Accounts(f, q), NEW k \in 0..Len(q)
    PROVE  f[k] \in Nat
<1> DEFINE T == {i \in 0..Len(q) : f[i] \notin Nat}
<1>1. Len(q) \in Nat
  OBVIOUS
<1>2. /\ f[0] = 0
      /\ \A i \in 1..Len(q) : /\ i - 1 \in 0..Len(q)
                              /\ f[i] = f[i - 1] + SizeOf[q[i].msg.kind]
                              /\ SizeOf[q[i].msg.kind] \in Nat
  BY AccountPlaces
<1>3. SUFFICES ASSUME T # {} PROVE FALSE
  BY <1>1
<1>4. T \subseteq Nat
  BY <1>1
<1> HIDE DEF T
<1>5. PICK x \in T : \A y \in T : x <= y
  BY <1>3, <1>4, LeastNatural
<1>6. x \in 0..Len(q) /\ f[x] \notin Nat
  BY <1>5 DEF T
<1>7. x # 0
  BY <1>2, <1>6
<1>8. x \in 1..Len(q) /\ ~(x <= x - 1)
  BY <1>1, <1>6, <1>7
<1>9. x - 1 \in 0..Len(q) /\ x - 1 \notin T
  BY <1>2, <1>5, <1>8
<1>10. f[x - 1] \in Nat
  BY <1>9 DEF T
<1>11. f[x] = f[x - 1] + SizeOf[q[x].msg.kind] /\ SizeOf[q[x].msg.kind] \in Nat
  BY <1>2, <1>8
<1> QED
  BY <1>6, <1>10, <1>11

\* Two accounts of one beginning agree on it.
LEMMA AccountsAgree ==
    ASSUME NEW p \in Seq(ReliableItems), NEW q \in Seq(ReliableItems), NEW f, NEW g,
           Accounts(f, p), Accounts(g, q), Len(p) <= Len(q),
           \A i \in 1..Len(p) : q[i] = p[i],
           NEW k \in 0..Len(p)
    PROVE  f[k] = g[k]
<1> DEFINE T == {i \in 0..Len(p) : f[i] # g[i]}
<1>1. Len(p) \in Nat /\ Len(q) \in Nat /\ \A i \in 1..Len(p) : i \in 1..Len(q)
  OBVIOUS
<1>2. /\ f[0] = 0 /\ g[0] = 0
      /\ \A i \in 1..Len(p) : /\ i - 1 \in 0..Len(p)
                              /\ f[i] = f[i - 1] + SizeOf[p[i].msg.kind]
      /\ \A i \in 1..Len(q) : g[i] = g[i - 1] + SizeOf[q[i].msg.kind]
  BY AccountPlaces
<1>3. SUFFICES ASSUME T # {} PROVE FALSE
  BY <1>1
<1>4. T \subseteq Nat
  BY <1>1
<1> HIDE DEF T
<1>5. PICK x \in T : \A y \in T : x <= y
  BY <1>3, <1>4, LeastNatural
<1>6. x \in 0..Len(p) /\ f[x] # g[x]
  BY <1>5 DEF T
<1>7. x # 0
  BY <1>2, <1>6
<1>8. x \in 1..Len(p) /\ ~(x <= x - 1)
  BY <1>1, <1>6, <1>7
<1>9. x - 1 \in 0..Len(p) /\ x - 1 \notin T
  BY <1>2, <1>5, <1>8
<1>10. f[x - 1] = g[x - 1]
  BY <1>9 DEF T
<1>11. x \in 1..Len(q) /\ q[x] = p[x]
  BY <1>1, <1>8
<1>12. /\ f[x] = f[x - 1] + SizeOf[p[x].msg.kind]
       /\ g[x] = g[x - 1] + SizeOf[q[x].msg.kind]
  BY <1>2, <1>8, <1>11
<1> QED
  BY <1>6, <1>10, <1>11, <1>12

\* Every queue has an account.
LEMMA AccountExists ==
    ASSUME NEW q \in Seq(ReliableItems)
    PROVE  \E f : Accounts(f, q)
<1> DEFINE Counted(s) == \E f : Accounts(f, s)
           T == {i \in Nat : \E s \in Seq(ReliableItems) : Len(s) = i /\ ~Counted(s)}
<1>1. SUFFICES ASSUME T # {} PROVE FALSE
  BY DEF T
<1>2. T \subseteq Nat
  OBVIOUS
<1> HIDE DEF T
<1>3. PICK x \in T : \A y \in T : x <= y
  BY <1>1, <1>2, LeastNatural
<1>4. PICK s \in Seq(ReliableItems) : Len(s) = x /\ ~Counted(s)
  BY <1>3 DEF T
<1>5. x \in Nat
  BY <1>2
<1>6. CASE x = 0
  <2> DEFINE z == [i \in 0..0 |-> 0]
  <2>1. z = [i \in 0..Len(s) |-> z[i]] /\ z[0] = 0 /\ 1..Len(s) = {}
    BY <1>4, <1>6
  <2> HIDE DEF z
  <2>2. Accounts(z, s)
    BY <2>1, AccountMade
  <2> QED
    BY <1>4, <2>2
<1>7. CASE x # 0
  <2> DEFINE r == SubSeq(s, 1, x - 1)
  <2>1. x - 1 \in Nat /\ ~(x <= x - 1) /\ x - 1 + 1 = x
    BY <1>5, <1>7
  <2>2. r \in Seq(ReliableItems) /\ Len(r) = x - 1 /\ \A i \in 1..(x - 1) : r[i] = s[i]
    BY <1>4, <2>1
  <2> HIDE DEF r
  <2>3. Counted(r)
    <3>1. x - 1 \notin T
      BY <1>3, <2>1
    <3> QED
      BY <2>1, <2>2, <3>1 DEF T
  <2>4. PICK f : Accounts(f, r)
    BY <2>3
  <2> DEFINE h == [i \in 0..x |-> IF i = x THEN f[x - 1] + SizeOf[s[x].msg.kind] ELSE f[i]]
  <2>5. /\ f[0] = 0
        /\ \A i \in 1..(x - 1) : f[i] = f[i - 1] + SizeOf[r[i].msg.kind]
    <3>1. /\ f[0] = 0
          /\ \A i \in 1..Len(r) : f[i] = f[i - 1] + SizeOf[r[i].msg.kind]
      BY <2>2, <2>4, AccountPlaces
    <3> QED
      BY <2>2, <3>1
  <2>6. h = [i \in 0..Len(s) |-> h[i]] /\ h[0] = 0
    <3>1. 0 \in 0..x
      BY <1>5
    <3>2. h[0] = f[0]
      BY <1>7, <3>1
    <3>3. h = [i \in 0..x |-> h[i]]
      OBVIOUS
    <3> HIDE DEF h
    <3> QED
      BY <1>4, <2>5, <3>2, <3>3
  <2>7. ASSUME NEW i \in 1..Len(s)
        PROVE  h[i] = h[i - 1] + SizeOf[s[i].msg.kind]
    <3>1. i \in Nat /\ i \in 0..x /\ i - 1 \in 0..x /\ i - 1 # x
      BY <1>4, <1>5, <2>7
    <3>2. h[i - 1] = f[i - 1]
      BY <3>1
    <3>3. CASE i = x
      BY <3>1, <3>2, <3>3
    <3>4. CASE i # x
      <4>1. i \in 1..(x - 1)
        BY <1>4, <1>5, <2>7, <3>4
      <4>2. h[i] = f[i]
        BY <3>1, <3>4
      <4> QED
        BY <2>2, <2>5, <3>2, <4>1, <4>2
    <3> QED
      BY <3>3, <3>4
  <2> HIDE DEF h
  <2>8. Accounts(h, s)
    BY <2>6, <2>7, AccountMade
  <2> QED
    BY <1>4, <2>8
<1> QED
  BY <1>6, <1>7

\* The sum of a queue is what its account says at the last place.
LEMMA SumIsTotal ==
    ASSUME NEW q \in Seq(ReliableItems)
    PROVE  Accounts(Totals(q), q) /\ Sum(q) \in Nat
<1>1. Accounts(Totals(q), q)
  BY AccountExists, Zenon DEF Totals
<1> QED
  BY <1>1, AccountIsNat DEF Sum

\* Nothing waits in an empty queue.
LEMMA SumEmpty == Sum(<<>>) = 0
<1>1. <<>> \in Seq(ReliableItems) /\ Len(<<>>) = 0
  OBVIOUS
<1> QED
  BY <1>1, SumIsTotal, AccountPlaces DEF Sum

\* A message enqueued adds its size.
LEMMA SumAppend ==
    ASSUME NEW q \in Seq(ReliableItems), NEW m \in ReliableItems
    PROVE  Sum(Append(q, m)) = Sum(q) + SizeOf[m.msg.kind]
<1> DEFINE a == Append(q, m)
           n == Len(q)
<1>1. /\ a \in Seq(ReliableItems) /\ Len(a) = n + 1 /\ n \in Nat
      /\ \A i \in 1..n : a[i] = q[i]
      /\ a[n + 1] = m
  BY AppendProperties
<1> HIDE DEF a, n
<1>2. n \in 0..n /\ n <= n + 1 /\ n + 1 \in 1..(n + 1) /\ (n + 1) - 1 = n
  BY <1>1
<1>3. Accounts(Totals(q), q) /\ Accounts(Totals(a), a)
  BY <1>1, SumIsTotal
<1>4. Totals(q)[n] = Totals(a)[n]
  BY <1>1, <1>2, <1>3, AccountsAgree DEF n
<1>5. Totals(a)[n + 1] = Totals(a)[n] + SizeOf[m.msg.kind]
  BY <1>1, <1>2, <1>3, AccountPlaces
<1> QED
  BY <1>1, <1>4, <1>5 DEF Sum, a, n

\* The oldest message taken, the sum loses its size.
LEMMA SumTail ==
    ASSUME NEW q \in Seq(ReliableItems), q # <<>>
    PROVE  /\ Sum(q) = Sum(Tail(q)) + SizeOf[Head(q).msg.kind]
           /\ SizeOf[Head(q).msg.kind] \in Nat
<1> DEFINE t == Tail(q)
           n == Len(t)
           f == Totals(q)
           size == SizeOf[Head(q).msg.kind]
           g == [i \in 0..n |-> f[i + 1] - size]
<1>1. /\ t \in Seq(ReliableItems) /\ n \in Nat /\ Len(q) = n + 1
      /\ \A i \in 1..n : t[i] = q[i + 1]
  BY HeadTailProperties
<1>2. Head(q) = q[1]
  OBVIOUS
<1>3. Accounts(f, q)
  BY SumIsTotal
<1> HIDE DEF t, n, f
<1>4. /\ f[0] = 0
      /\ \A i \in 1..(n + 1) : f[i] = f[i - 1] + SizeOf[q[i].msg.kind]
                               /\ SizeOf[q[i].msg.kind] \in Nat
  <2>1. /\ f[0] = 0
        /\ \A i \in 1..Len(q) : f[i] = f[i - 1] + SizeOf[q[i].msg.kind]
                                /\ SizeOf[q[i].msg.kind] \in Nat
    BY <1>3, AccountPlaces
  <2> QED
    BY <1>1, <2>1
<1>5. \A i \in 0..(n + 1) : f[i] \in Nat
  BY <1>1, <1>3, AccountIsNat
<1>6. 1 \in 1..(n + 1) /\ 1 - 1 = 0 /\ 0 \in 0..n /\ 0 + 1 = 1 /\ n \in 0..n
  BY <1>1
<1>7. size \in Nat /\ f[1] = size
  BY <1>2, <1>4, <1>6
<1> HIDE DEF size
<1>8. g = [i \in 0..Len(t) |-> g[i]] /\ g[0] = 0
  BY <1>6, <1>7 DEF n
<1>9. ASSUME NEW i \in 1..Len(t) PROVE g[i] = g[i - 1] + SizeOf[t[i].msg.kind]
  <2>1. /\ i \in 1..n /\ i \in 0..n /\ i - 1 \in 0..n /\ (i - 1) + 1 = i /\ (i + 1) - 1 = i
        /\ i \in 0..(n + 1) /\ i + 1 \in 1..(n + 1) /\ i + 1 \in 0..(n + 1)
    BY <1>1, <1>9 DEF n
  <2>2. f[i + 1] = f[i] + SizeOf[t[i].msg.kind] /\ SizeOf[t[i].msg.kind] \in Nat
    BY <1>1, <1>4, <2>1
  <2>3. g[i] = f[i + 1] - size /\ g[i - 1] = f[i] - size
    BY <2>1
  <2> HIDE DEF g
  <2>4. f[i] \in Nat
    BY <1>5, <2>1
  <2> QED
    BY <1>7, <2>2, <2>3, <2>4
<1>10. g[n] = f[n + 1] - size
  BY <1>6
<1> HIDE DEF g
<1>11. Accounts(g, t)
  BY <1>1, <1>8, <1>9, AccountMade
<1>12. Totals(t)[n] = g[n]
  <2>1. Accounts(Totals(t), t) /\ n \in 0..Len(t) /\ Len(t) <= Len(t)
    BY <1>1, <1>6, SumIsTotal DEF n
  <2> QED
    BY <1>1, <1>11, <2>1, AccountsAgree
<1>13. Sum(q) = f[n + 1] /\ Sum(t) = Totals(t)[n]
  BY <1>1 DEF Sum, f, n
<1>14. f[n + 1] \in Nat
  BY <1>1, <1>5
<1> QED
  BY <1>7, <1>10, <1>12, <1>13, <1>14 DEF t, size

\* The byte account is the sum of the sizes of the messages that wait.
AccountHolds == bytes = Sum(queue)

\* A failed outbox is empty, and so is its account.
LEMMA FailAccount ==
    ASSUME NEW current, Fail(current)
    PROVE  AccountHolds'
<1>1. queue' = <<>> /\ bytes' = 0
  BY DEF Fail
<1>2. Sum(queue)' = Sum(<<>>)
  BY <1>1 DEF Sum, Totals, Accounts
<1> QED
  BY <1>1, <1>2, SumEmpty DEF AccountHolds

\* _enqueue_reliable adds the size of what it appends.
LEMMA PutAccount ==
    ASSUME TypeOK, AccountHolds, NEW m \in ReliableMessages,
           NEW by \in Senders \cup {Nobody}, Put(m, by)
    PROVE  AccountHolds'
<1>1. CASE Overflows(m)
  BY <1>1, FailAccount DEF Put
<1>2. CASE ~Overflows(m)
  <2>1. queue' = Append(queue, Item(m, by)) /\ bytes' = bytes + SizeOf[m.kind]
    BY <1>2 DEF Put
  <2>2. queue \in Seq(ReliableItems) /\ Item(m, by) \in ReliableItems /\ Item(m, by).msg = m
    BY DEF TypeOK, Item, ReliableItems, Items, ReliableMessages
  <2>3. Sum(queue)' = Sum(Append(queue, Item(m, by)))
    BY <2>1 DEF Sum, Totals, Accounts
  <2>4. Sum(Append(queue, Item(m, by))) = Sum(queue) + SizeOf[m.kind]
    BY <2>2, SumAppend
  <2> QED
    BY <2>1, <2>3, <2>4 DEF AccountHolds
<1> QED
  BY <1>1, <1>2

\* Whatever fails, no step lets the account drift from the queue.
LEMMA AccountStep ==
    TypeOK /\ AccountHolds /\ [Next]_vars => AccountHolds'
<1> SUFFICES ASSUME TypeOK, AccountHolds, [Next]_vars PROVE AccountHolds'
  OBVIOUS
<1>1. ASSUME UNCHANGED <<queue, bytes>> PROVE AccountHolds'
  <2>1. Sum(queue)' = Sum(queue)
    BY <1>1 DEF Sum, Totals, Accounts
  <2> QED
    BY <1>1, <2>1 DEF AccountHolds
<1>2. ASSUME NEW k \in Reliable, OfferReliable(k) PROVE AccountHolds'
  <2>1. Message(k) \in ReliableMessages
    BY <1>2, MessageType DEF Reliable, ReliableMessages, Message
  <2> QED
    BY <1>2, <2>1, PutAccount DEF OfferReliable
<1>3. ASSUME NEW p \in Senders, Enqueue(p) PROVE AccountHolds'
  <2>1. held[p] \in ReliableMessages
    BY <1>3 DEF Enqueue, TypeOK
  <2>2. CASE connected
    BY <1>3, <2>1, <2>2, PutAccount DEF Enqueue
  <2>3. CASE ~connected
    BY <1>1, <1>3, <2>3 DEF Enqueue, boxVars
  <2> QED
    BY <2>2, <2>3
<1>4. ASSUME NEW p \in Senders, GiveUp(p) PROVE AccountHolds'
  BY <1>4, FailAccount DEF GiveUp
<1>5. CASE WriterTakes
  <2> DEFINE size == SizeOf[Head(queue).msg.kind]
  <2>1. queue # <<>> /\ queue' = Tail(queue) /\ bytes' = bytes - size
    BY <1>5 DEF WriterTakes
  <2>2. queue \in Seq(ReliableItems)
    BY DEF TypeOK
  <2>3. Sum(queue)' = Sum(Tail(queue))
    BY <2>1 DEF Sum, Totals, Accounts
  <2>4. Sum(queue) = Sum(Tail(queue)) + size /\ size \in Nat
    BY <2>1, <2>2, SumTail
  <2>5. Tail(queue) \in Seq(ReliableItems)
    BY <2>1, <2>2
  <2>6. Sum(Tail(queue)) \in Nat
    BY <2>5, SumIsTotal
  <2> HIDE DEF size
  <2>7. bytes = Sum(Tail(queue)) + size
    BY <2>4 DEF AccountHolds
  <2>8. bytes' = Sum(Tail(queue))
    BY <2>1, <2>4, <2>6, <2>7
  <2> QED
    BY <2>3, <2>8 DEF AccountHolds
<1>6. CASE WriterFails \/ WriterQuits
  BY <1>6, FailAccount DEF WriterFails, WriterQuits
<1>7. ASSUME NEW p \in Senders, NEW k \in {"roster", "other"}, NEW w \in BOOLEAN,
             Build(p, k, w)
      PROVE  AccountHolds'
  BY <1>1, <1>7 DEF Build, boxVars
<1>8. ASSUME NEW p \in Senders, Return(p) \/ TimeOut(p) PROVE AccountHolds'
  BY <1>1, <1>8 DEF Return, TimeOut, boxVars
<1>9. CASE RoomMoves \/ OfferSnapshot \/ Disconnect \/ WriterTakesSnapshot
           \/ WriterWrites \/ WriterSkips
  BY <1>1, <1>9 DEF RoomMoves, OfferSnapshot, Disconnect, WriterTakesSnapshot,
     WriterWrites, WriterSkips, boxVars
<1>10. CASE UNCHANGED vars
  BY <1>1, <1>10 DEF vars, boxVars
<1> QED
  BY <1>2, <1>3, <1>4, <1>5, <1>6, <1>7, <1>8, <1>9, <1>10 DEF Next

\* However many messages there are and however long, the queue of a peer that
\* does not read passes neither limit -- _enqueue_reliable gives the connection
\* up first -- and the byte account is the sum of the sizes of what waits.
THEOREM OutboxWithinLimits == Spec => []WithinLimits
<1>1. Init => AccountHolds
  BY SumEmpty DEF Init, AccountHolds
<1>2. ASSUME LimitsHold, AccountHolds PROVE WithinLimits
  BY <1>2 DEF LimitsHold, AccountHolds, WithinLimits, Sum, Totals, Accounts
<1> QED
  BY <1>1, <1>2, AccountStep, OutboxTypeOK, OutboxKeepsItsLimits, PTL DEF Spec

-------------------------------------------------------------------------------
(* The outbox implements OrderedStream, for any senders, limits and sizes: a message
   enqueued is Accept, a message written is Deliver, every way the connection fails is
   Break, and every other step is a stutter. *)

-------------------------------------------------------------------------------
(* The pending messages of the stream. *)

\* The messages of a queue of items.
Texts(q) == [i \in 1..Len(q) |-> q[i].msg]

\* The messages of a queue are as many, and at the same places, as its items.
LEMMA TextsType ==
    ASSUME NEW q \in Seq(ReliableItems)
    PROVE  /\ Texts(q) \in Seq(ReliableMessages) /\ Len(Texts(q)) = Len(q)
           /\ \A i \in 1..Len(q) : Texts(q)[i] = q[i].msg
<1>1. Len(q) \in Nat /\ \A i \in 1..Len(q) : q[i] \in ReliableItems
  OBVIOUS
<1>2. \A i \in 1..Len(q) : q[i].msg \in ReliableMessages
  BY <1>1 DEF ReliableItems, Items, ReliableMessages
<1> QED
  BY <1>1, <1>2 DEF Texts

\* An empty queue has no messages.
LEMMA TextsEmpty == Texts(<<>>) = <<>>
  BY DEF Texts

\* The writer holds at most one message of the stream.
LEMMA InHandType ==
    ASSUME TypeOK
    PROVE  /\ InHand \in Seq(ReliableMessages) /\ Len(InHand) \in {0, 1}
           /\ writer # "write" => InHand = <<>>
<1>1. <<>> \in Seq(ReliableMessages)
  OBVIOUS
<1>2. CASE writer = "write" /\ hand.msg.kind \in Reliable
  <2>1. InHand = <<hand.msg>> /\ hand.msg \in ReliableMessages
    BY <1>2 DEF InHand, TypeOK, Items, ReliableMessages
  <2> QED
    BY <1>2, <2>1
<1>3. CASE ~(writer = "write" /\ hand.msg.kind \in Reliable)
  BY <1>1, <1>3 DEF InHand
<1> QED
  BY <1>2, <1>3

\* The pending messages are those of the hand followed by those of the queue.
LEMMA PendingType ==
    ASSUME TypeOK
    PROVE  /\ Pending = InHand \o Texts(queue)
           /\ Pending \in Seq(ReliableMessages)
           /\ Len(Pending) = Len(InHand) + Len(queue)
           /\ SubSeq(Pending, 1, Len(InHand)) = InHand
<1>1. Pending = InHand \o Texts(queue)
  BY DEF Pending, Texts
<1>2. queue \in Seq(ReliableItems) /\ Len(queue) \in Nat
  BY DEF TypeOK
<1>3. Texts(queue) \in Seq(ReliableMessages) /\ Len(Texts(queue)) = Len(queue)
  BY <1>2, TextsType
<1>4. InHand \in Seq(ReliableMessages) /\ Len(InHand) \in Nat
  BY InHandType
<1>5. /\ InHand \o Texts(queue) \in Seq(ReliableMessages)
      /\ Len(InHand \o Texts(queue)) = Len(InHand) + Len(queue)
      /\ \A i \in 1..Len(InHand) : (InHand \o Texts(queue))[i] = InHand[i]
  BY <1>2, <1>3, <1>4
<1>6. SubSeq(Pending, 1, Len(InHand)) = InHand
  <2> DEFINE P == InHand \o Texts(queue)
             n == Len(InHand)
  <2>1. P \in Seq(ReliableMessages) /\ n \in Nat /\ n <= Len(P)
    BY <1>2, <1>4, <1>5
  <2>2. \A i \in 1..n : P[i] = InHand[i] /\ InHand[i] \in ReliableMessages
    BY <1>4, <1>5
  <2>3. /\ SubSeq(P, 1, n) \in Seq(ReliableMessages)
        /\ Len(SubSeq(P, 1, n)) = n
        /\ \A i \in 1..n : SubSeq(P, 1, n)[i] = P[i]
    <3> HIDE DEF P, n
    <3> QED
      BY <2>1
  <2>4. SubSeq(P, 1, n) = InHand
    BY <1>4, <2>2, <2>3, SeqEqual
  <2> QED
    BY <1>1, <2>4
<1> QED
  BY <1>1, <1>5, <1>6

-------------------------------------------------------------------------------
(* How the outbox's operations map to the stream's. *)

\* A failure of the outbox breaks the stream after the message in the writer's
\* hand, or after nothing.
LEMMA FailBreaks ==
    ASSUME TypeOK, TypeOK', NEW current, Fail(current), sent' = sent,
           InHand' = InHand \/ InHand' = <<>>
    PROVE  Stream!Break
<1>1. queue' = <<>> /\ connected' = FALSE
  BY DEF Fail
<1>2. Pending' = InHand' \o <<>>
  <2>1. Pending' = InHand' \o Texts(queue)'
    BY DEF Pending, Texts
  <2>2. Texts(queue)' = Texts(<<>>)
    BY <1>1 DEF Texts
  <2> QED
    BY <2>1, <2>2, TextsEmpty
<1>3. Pending' = InHand'
  <2>1. <<>> \in Seq(ReliableMessages)
    OBVIOUS
  <2>2. InHand' \in Seq(ReliableMessages)
    BY <2>1, InHandType
  <2>3. InHand' \o <<>> = InHand'
    BY <2>2
  <2> QED
    BY <1>2, <2>3
<1>4. Len(Pending) \in Nat /\ Len(InHand) \in 0..Len(Pending)
  BY PendingType, InHandType DEF TypeOK
<1>5. \E n \in 0..Len(Pending) : Pending' = SubSeq(Pending, 1, n)
  <2>1. CASE InHand' = InHand
    BY <1>3, <1>4, <2>1, PendingType
  <2>2. CASE InHand' = <<>>
    BY <1>3, <1>4, <2>2
  <2> QED
    BY <2>1, <2>2
<1> QED
  BY <1>1, <1>5 DEF Stream!Break

\* A message enqueued is accepted, or the full queue breaks the stream.
LEMMA PutAccepts ==
    ASSUME TypeOK, TypeOK', connected, NEW m \in ReliableMessages,
           NEW by \in Senders \cup {Nobody}, Put(m, by),
           UNCHANGED <<hand, sent>>
    PROVE  Stream!Accept \/ Stream!Break
<1>1. writer' = writer \/ (writer = "off" /\ writer' = "loop")
  BY PutType DEF ReliableMessages
<1>2. InHand' = InHand
  BY <1>1 DEF InHand
<1>3. CASE Overflows(m)
  BY <1>2, <1>3, FailBreaks DEF Put
<1>4. CASE ~Overflows(m)
  <2> DEFINE item == Item(m, by)
             T == Texts(queue)
             T1 == Texts(Append(queue, item))
  <2>1. queue' = Append(queue, item) /\ connected' = connected
    BY <1>4 DEF Put
  <2>2. queue \in Seq(ReliableItems) /\ Len(queue) \in Nat
    BY DEF TypeOK
  <2>3. item \in ReliableItems
    BY DEF Item, Items, ReliableItems, ReliableMessages
  <2> HIDE DEF item
  <2>4. /\ Append(queue, item) \in Seq(ReliableItems)
        /\ Len(Append(queue, item)) = Len(queue) + 1
        /\ \A i \in 1..Len(queue) : Append(queue, item)[i] = queue[i]
    BY <2>2, <2>3
  <2>5. T \in Seq(ReliableMessages) /\ Len(T) = Len(queue)
        /\ \A i \in 1..Len(queue) : T[i] = queue[i].msg
    BY <2>2, TextsType
  <2>6. T1 \in Seq(ReliableMessages) /\ Len(T1) = Len(queue) + 1
        /\ \A i \in 1..Len(queue) + 1 : T1[i] = Append(queue, item)[i].msg
    BY <2>4, TextsType
  <2>7. \A i \in 1..Len(queue) : T1[i] = T[i]
    BY <2>2, <2>4, <2>5, <2>6
  <2>8. Pending' = InHand \o T1 /\ Pending = InHand \o T
    BY <1>2, <2>1, PendingType DEF Pending, Texts
  <2>9. InHand \in Seq(ReliableMessages) /\ Len(InHand) \in Nat
    BY InHandType
  <2> HIDE DEF T, T1
  <2>10. /\ Len(InHand \o T1) = Len(InHand \o T) + 1
         /\ InHand \o T \in Seq(ReliableMessages)
         /\ InHand \o T1 \in Seq(ReliableMessages)
         /\ \A i \in 1..Len(InHand \o T) : (InHand \o T1)[i] = (InHand \o T)[i]
    <3>1. /\ InHand \o T \in Seq(ReliableMessages)
          /\ Len(InHand \o T) = Len(InHand) + Len(T)
          /\ \A i \in 1..Len(InHand) + Len(T) :
               (InHand \o T)[i] = IF i <= Len(InHand) THEN InHand[i]
                                  ELSE T[i - Len(InHand)]
      BY <2>5, <2>9, ConcatProperties
    <3>2. /\ InHand \o T1 \in Seq(ReliableMessages)
          /\ Len(InHand \o T1) = Len(InHand) + Len(T1)
          /\ \A i \in 1..Len(InHand) + Len(T1) :
               (InHand \o T1)[i] = IF i <= Len(InHand) THEN InHand[i]
                                  ELSE T1[i - Len(InHand)]
      BY <2>6, <2>9, ConcatProperties
    <3>3. ASSUME NEW i \in 1..Len(InHand) + Len(queue)
          PROVE  (InHand \o T1)[i] = (InHand \o T)[i]
      <4>1. i > Len(InHand) => i - Len(InHand) \in 1..Len(queue)
        BY <2>2, <2>9
      <4>2. i \in 1..Len(InHand) + Len(T) /\ i \in 1..Len(InHand) + Len(T1)
        BY <2>2, <2>5, <2>6, <2>9
      <4> QED
        BY <2>2, <2>7, <2>9, <3>1, <3>2, <4>1, <4>2
    <3> QED
      BY <2>2, <2>5, <2>6, <2>9, <3>1, <3>2, <3>3
  <2>11. SubSeq(InHand \o T1, 1, Len(InHand \o T)) = InHand \o T
    <3> DEFINE P == InHand \o T
               P1 == InHand \o T1
    <3>1. Len(P) \in Nat /\ Len(P1) = Len(P) + 1 /\ P1 \in Seq(ReliableMessages)
      BY <2>10
    <3> HIDE DEF P, P1
    <3>2. /\ SubSeq(P1, 1, Len(P)) \in Seq(ReliableMessages)
          /\ Len(SubSeq(P1, 1, Len(P))) = Len(P)
          /\ \A i \in 1..Len(P) : SubSeq(P1, 1, Len(P))[i] = P1[i]
      BY <3>1
    <3>3. \A i \in 1..Len(P) : SubSeq(P1, 1, Len(P))[i] = P[i]
      BY <2>10, <3>2 DEF P, P1
    <3>4. P \in Seq(ReliableMessages)
      BY <2>10 DEF P
    <3>5. SubSeq(P1, 1, Len(P)) = P
      BY <3>2, <3>3, <3>4, SeqEqual
    <3> QED
      BY <3>5 DEF P, P1
  <2> QED
    BY <2>1, <2>8, <2>10, <2>11 DEF Stream!Accept
<1> QED
  BY <1>3, <1>4

\* The writer's taking the oldest message leaves the pending messages alone.
LEMMA TakeStutters ==
    ASSUME TypeOK, WriterTakes
    PROVE  UNCHANGED <<Pending, sent, connected>>
<1>1. /\ writer = "loop" /\ writer' = "write" /\ queue # <<>>
      /\ hand' = Head(queue) /\ queue' = Tail(queue)
      /\ queue \in Seq(ReliableItems) /\ UNCHANGED <<sent, connected>>
  BY DEF WriterTakes, TypeOK
<1>2. /\ Head(queue) \in ReliableItems /\ Tail(queue) \in Seq(ReliableItems)
      /\ Len(queue) \in Nat \ {0} /\ Len(Tail(queue)) = Len(queue) - 1
      /\ Head(queue) = queue[1]
      /\ \A i \in 1..Len(queue) - 1 : Tail(queue)[i] = queue[i + 1]
  BY <1>1
<1> DEFINE T == Texts(queue)
           T1 == Texts(Tail(queue))
<1>3. /\ T \in Seq(ReliableMessages) /\ Len(T) = Len(queue)
      /\ \A i \in 1..Len(queue) : T[i] = queue[i].msg
  BY <1>1, TextsType
<1>4. /\ T1 \in Seq(ReliableMessages) /\ Len(T1) = Len(queue) - 1
      /\ \A i \in 1..Len(queue) - 1 : T1[i] = Tail(queue)[i].msg
  BY <1>2, TextsType
<1>5. Pending = T
  <2>1. Pending = InHand \o T /\ InHand = <<>>
    BY <1>1, PendingType, InHandType
  <2> QED
    BY <1>3, <2>1
<1>6. Pending' = <<T[1]>> \o T1
  <2>1. InHand' = <<Head(queue).msg>>
    BY <1>1, <1>2 DEF InHand, ReliableItems
  <2>2. Pending' = InHand' \o T1
    BY <1>1 DEF Pending, Texts
  <2>3. Head(queue).msg = T[1]
    BY <1>2, <1>3
  <2> QED
    BY <2>1, <2>2, <2>3
<1> HIDE DEF T, T1
<1>7. <<T[1]>> \o T1 = T
  <2>1. <<T[1]>> \in Seq(ReliableMessages) /\ Len(<<T[1]>>) = 1
    BY <1>2, <1>3
  <2>2. /\ <<T[1]>> \o T1 \in Seq(ReliableMessages)
        /\ Len(<<T[1]>> \o T1) = Len(<<T[1]>>) + Len(T1)
        /\ \A i \in 1..Len(<<T[1]>>) + Len(T1) :
             (<<T[1]>> \o T1)[i] = IF i <= Len(<<T[1]>>) THEN <<T[1]>>[i]
                                   ELSE T1[i - Len(<<T[1]>>)]
    BY <1>4, <2>1, ConcatProperties
  <2>3. ASSUME NEW i \in 1..Len(queue) PROVE (<<T[1]>> \o T1)[i] = T[i]
    <3>0. /\ i = 1 \/ i > 1
          /\ i \in 1..Len(<<T[1]>>) + Len(T1)
      BY <1>2, <1>4, <2>1
    <3>1. CASE i = 1
      <4>1. (<<T[1]>> \o T1)[i] = <<T[1]>>[1]
        BY <2>1, <2>2, <3>0, <3>1
      <4> QED
        BY <3>1, <4>1
    <3>2. CASE i > 1
      <4>1. i - 1 \in 1..Len(queue) - 1 /\ (i - 1) + 1 = i
        BY <1>2, <3>2
      <4>2. T1[i - 1] = queue[i].msg
        BY <1>2, <1>4, <4>1
      <4> QED
        BY <1>2, <1>3, <2>1, <2>2, <3>0, <3>2, <4>2
    <3> QED
      BY <3>0, <3>1, <3>2
  <2>4. Len(<<T[1]>> \o T1) = Len(T)
    <3>1. Len(<<T[1]>> \o T1) = 1 + (Len(queue) - 1)
      BY <1>4, <2>1, <2>2, Zenon
    <3>2. 1 + (Len(queue) - 1) = Len(queue)
      BY <1>2
    <3> QED
      BY <1>3, <3>1, <3>2, Zenon
  <2> QED
    BY <1>3, <2>2, <2>3, <2>4, SeqEqual
<1> QED
  BY <1>1, <1>5, <1>6, <1>7

\* The message the writer writes is the oldest that is pending.
LEMMA WriteDelivers ==
    ASSUME TypeOK, WriterWrites
    PROVE  Stream!Deliver \/ UNCHANGED <<Pending, sent, connected>>
<1>1. /\ writer = "write" /\ writer' = "loop" /\ hand \in Items
      /\ UNCHANGED <<queue, connected>>
  BY DEF WriterWrites, TypeOK
<1> DEFINE T == Texts(queue)
<1>2. T \in Seq(ReliableMessages)
  BY TextsType DEF TypeOK
<1>3. Pending = InHand \o T /\ Pending' = T
  <2>1. Pending' = InHand' \o T
    BY <1>1 DEF Pending, Texts
  <2>2. InHand' = <<>>
    BY <1>1 DEF InHand
  <2>3. <<>> \o T = T
    BY <1>2
  <2> QED
    BY <2>1, <2>2, <2>3, PendingType
<1> HIDE DEF T
<1>4. CASE hand.msg.kind \in Reliable
  <2>1. sent' = Append(sent, hand.msg) /\ InHand = <<hand.msg>>
    BY <1>1, <1>4 DEF WriterWrites, InHand
  <2>2. hand.msg \in ReliableMessages
    BY <1>1, <1>4 DEF Items, ReliableMessages
  <2>3. /\ <<hand.msg>> \o T # <<>>
        /\ Head(<<hand.msg>> \o T) = hand.msg
        /\ Tail(<<hand.msg>> \o T) = T
    BY <1>2, <2>2
  <2> QED
    BY <1>1, <1>3, <2>1, <2>3 DEF Stream!Deliver
<1>5. CASE hand.msg.kind \notin Reliable
  <2>1. sent' = sent /\ InHand = <<>>
    BY <1>1, <1>5 DEF WriterWrites, InHand
  <2>2. <<>> \o T = T
    BY <1>2
  <2> QED
    BY <1>1, <1>3, <2>1, <2>2
<1> QED
  BY <1>4, <1>5

-------------------------------------------------------------------------------
(* Refinement. *)

\* The slot holds snapshots only, so the writer takes no message of the stream
\* from it.
SlotHoldsSnapshot == slot # NoItem => slot.msg.kind = "snapshot"

StreamInv == TypeOK /\ SlotHoldsSnapshot

\* Only snapshots are put in the slot.
LEMMA SlotStep == StreamInv /\ [Next]_vars => SlotHoldsSnapshot'
<1> SUFFICES ASSUME StreamInv, [Next]_vars PROVE slot' \in {slot, NoItem} \/
                                                slot'.msg.kind = "snapshot"
  BY DEF StreamInv, SlotHoldsSnapshot
<1>1. ASSUME NEW m, NEW by, Put(m, by) PROVE slot' \in {slot, NoItem}
  BY <1>1 DEF Put, SlotAfter, Fail
<1>2. ASSUME NEW c, Fail(c) PROVE slot' = NoItem
  BY <1>2 DEF Fail
<1>3. CASE OfferSnapshot
  BY <1>3 DEF OfferSnapshot, Item, Message
<1>4. ASSUME NEW k \in Reliable, OfferReliable(k) PROVE slot' \in {slot, NoItem}
  BY <1>1, <1>4 DEF OfferReliable
<1>5. ASSUME NEW p \in Senders, Enqueue(p) PROVE slot' \in {slot, NoItem}
  BY <1>1, <1>5 DEF Enqueue, boxVars
<1>6. CASE \E p \in Senders : GiveUp(p)
  BY <1>2, <1>6 DEF GiveUp
<1>7. CASE WriterFails \/ WriterQuits
  BY <1>2, <1>7 DEF WriterFails, WriterQuits
<1>8. CASE RoomMoves
  BY <1>8 DEF RoomMoves, boxVars
<1>9. CASE \E p \in Senders : \/ Return(p) \/ TimeOut(p)
                              \/ \E k \in {"roster", "other"}, w \in BOOLEAN :
                                   Build(p, k, w)
  BY <1>9 DEF Return, TimeOut, Build, boxVars
<1>10. CASE Disconnect \/ WriterTakes \/ WriterTakesSnapshot \/ WriterWrites
              \/ WriterSkips \/ UNCHANGED vars
  BY <1>10 DEF Disconnect, WriterTakes, WriterTakesSnapshot, WriterWrites,
     WriterSkips, boxVars, vars
<1> QED
  BY <1>3, <1>4, <1>5, <1>6, <1>7, <1>8, <1>9, <1>10 DEF Next

\* Every step of the outbox is a step of the stream, or a stutter.
LEMMA StreamStep ==
    ASSUME StreamInv, TypeOK', [Next]_vars
    PROVE  [Stream!Accept \/ Stream!Deliver \/ Stream!Break]_<<Pending, sent, connected>>
<1> DEFINE Same == UNCHANGED <<Pending, sent, connected>>
<1>t. TypeOK
  BY DEF StreamInv
<1>same. ASSUME UNCHANGED <<writer, hand, queue, sent, connected>> PROVE Same
  BY <1>same DEF Pending, InHand
<1>1. CASE RoomMoves
  BY <1>1, <1>same DEF RoomMoves, boxVars, writerVars
<1>2. CASE OfferSnapshot
  <2>1. writer' = "write" <=> writer = "write"
    BY <1>2 DEF OfferSnapshot, StartWriter
  <2>2. UNCHANGED <<hand, queue, sent, connected>>
    BY <1>2 DEF OfferSnapshot
  <2> QED
    BY <2>1, <2>2 DEF Pending, InHand
<1>3. CASE Disconnect
  <2>1. connected' = FALSE /\ UNCHANGED <<writer, hand, queue, sent>>
    BY <1>3 DEF Disconnect, writerVars
  <2>2. Pending' = Pending
    BY <2>1 DEF Pending, InHand
  <2>3. Len(Pending) \in 0..Len(Pending) /\ SubSeq(Pending, 1, Len(Pending)) = Pending
    <3>1. Pending \in Seq(ReliableMessages)
      BY <1>t, PendingType
    <3> QED
      BY <3>1, SubSeqFull
  <2> QED
    BY <2>1, <2>2, <2>3 DEF Stream!Break
<1>4. ASSUME NEW k \in Reliable, OfferReliable(k)
      PROVE  Stream!Accept \/ Stream!Break
  <2>1. /\ connected /\ Put(Message(k), Nobody) /\ UNCHANGED <<hand, sent>>
        /\ Message(k) \in ReliableMessages
    <3>1. Message(k) \in Messages /\ Message(k).kind \in Reliable
      BY <1>t, MessageType DEF Reliable, Message
    <3> QED
      BY <1>4, <3>1 DEF OfferReliable, ReliableMessages
  <2> QED
    BY <1>t, <2>1, PutAccepts
<1>5. ASSUME NEW p \in Senders, Enqueue(p)
      PROVE  Stream!Accept \/ Stream!Break \/ Same
  <2>1. CASE connected
    <3>1. /\ held[p] \in ReliableMessages
          /\ Put(held[p], IF sync[p] THEN p ELSE Nobody)
          /\ UNCHANGED <<hand, sent>>
      BY <1>5, <1>t, <2>1 DEF Enqueue, TypeOK
    <3> DEFINE by == IF sync[p] THEN p ELSE Nobody
    <3>2. by \in Senders \cup {Nobody} /\ Put(held[p], by)
      BY <3>1
    <3> HIDE DEF by
    <3> QED
      BY <1>t, <2>1, <3>1, <3>2, PutAccepts
  <2>2. CASE ~connected
    BY <1>5, <1>same, <2>2 DEF Enqueue, boxVars
  <2> QED
    BY <2>1, <2>2
<1>6. ASSUME NEW p \in Senders, GiveUp(p) PROVE Stream!Break
  <2>1. Fail(<<>>) /\ UNCHANGED <<writer, hand, sent>>
    BY <1>6 DEF GiveUp, writerVars
  <2> QED
    BY <1>t, <2>1, FailBreaks DEF InHand
<1>7. ASSUME NEW p \in Senders,
             \/ Return(p) \/ TimeOut(p)
             \/ \E k \in {"roster", "other"}, w \in BOOLEAN : Build(p, k, w)
      PROVE  Same
  BY <1>7, <1>same DEF Return, TimeOut, Build, boxVars, writerVars
<1>8. CASE WriterTakes
  BY <1>8, <1>t, TakeStutters
<1>9. CASE WriterTakesSnapshot
  <2>1. /\ UNCHANGED <<queue, sent, connected>> /\ writer = "loop"
        /\ slot # NoItem /\ hand' = slot
    BY <1>9 DEF WriterTakesSnapshot
  <2>2. InHand = <<>> /\ InHand' = <<>>
    BY <2>1 DEF InHand, StreamInv, SlotHoldsSnapshot, Reliable
  <2> QED
    BY <2>1, <2>2 DEF Pending
<1>10. CASE WriterWrites
  BY <1>10, <1>t, WriteDelivers
<1>11. CASE WriterSkips
  <2>1. UNCHANGED <<queue, sent, connected>> /\ InHand = <<>> /\ InHand' = <<>>
    BY <1>11 DEF WriterSkips, boxVars, InHand, Reliable
  <2> QED
    BY <2>1 DEF Pending
<1>12. CASE WriterFails
  <2>1. Fail(<<hand>>) /\ sent' = sent /\ InHand' = <<>>
    BY <1>12 DEF WriterFails, InHand
  <2> QED
    BY <1>t, <2>1, FailBreaks
<1>13. CASE WriterQuits
  <2>1. Fail(<<>>) /\ sent' = sent /\ InHand' = <<>>
    BY <1>13 DEF WriterQuits, InHand
  <2> QED
    BY <1>t, <2>1, FailBreaks
<1>14. CASE UNCHANGED vars
  BY <1>14, <1>same DEF vars, boxVars, writerVars
<1> QED
  BY <1>1, <1>2, <1>3, <1>4, <1>5, <1>6, <1>7, <1>8, <1>9, <1>10, <1>11, <1>12,
     <1>13, <1>14 DEF Next

\* The reliable messages of a connection form one ordered stream without gaps,
\* whatever fails, times out or overflows.
THEOREM OutboxImplementsStream == Spec => ImplementsStream
<1>1. Init => Stream!Init
  BY TextsEmpty DEF Init, Stream!Init, Pending, InHand, Texts
<1>2. Init => SlotHoldsSnapshot
  BY DEF Init, SlotHoldsSnapshot
<1>3. StreamInv /\ TypeOK' /\ [Next]_vars
        => [Stream!Accept \/ Stream!Deliver \/ Stream!Break]_(Stream!streamVars)
  BY StreamStep DEF Stream!streamVars
<1> QED
  BY <1>1, <1>2, <1>3, OutboxTypeOK, SlotStep, PTL
     DEF Spec, StreamInv, ImplementsStream, Stream!Spec

-------------------------------------------------------------------------------
(* No stale state on the wire. *)

\* A message that describes the whole room, and one that a roster or events m
\* may precede: it is not older than m.
IsState(x) == x.kind \in {"snapshot", "state"}
MayPrecede(m, x) == m.kind \in {"roster", "events"} => ~Older(x.at, m.at)

\* No message describes a state the room has not reached.
HeldReached ==
    \A p \in Senders :
      pc[p] # "idle" => ~Older(now, held[p].at) /\ held[p].kind \in {"roster", "other"}
BoxReached ==
    /\ \A k \in 1..Len(queue) : ~Older(now, queue[k].msg.at)
    /\ writer = "write" => ~Older(now, hand.msg.at)
    /\ \A i \in 1..Len(sent) : ~Older(now, sent[i].at)
    /\ slot # NoItem => ~Older(now, slot.msg.at)

\* Every state in the queue, in the writer's hand or in the slot may follow the
\* rosters and events that will be on the wire before it.
StatesFollow ==
    /\ \A k \in 1..Len(queue) :
         IsState(queue[k].msg) =>
           /\ \A j \in 1..k - 1 : MayPrecede(queue[j].msg, queue[k].msg)
           /\ writer = "write" => MayPrecede(hand.msg, queue[k].msg)
           /\ \A i \in 1..Len(sent) : MayPrecede(sent[i], queue[k].msg)
    /\ writer = "write" /\ IsState(hand.msg) =>
         \A i \in 1..Len(sent) : MayPrecede(sent[i], hand.msg)
    /\ slot # NoItem =>
         /\ \A k \in 1..Len(queue) : MayPrecede(queue[k].msg, slot.msg)
         /\ writer = "write" => MayPrecede(hand.msg, slot.msg)
         /\ \A i \in 1..Len(sent) : MayPrecede(sent[i], slot.msg)

FreshInv == TypeOK /\ HeldReached /\ BoxReached /\ StatesFollow

\* The room's clock never goes back.
LEMMA ClockAdvances ==
    ASSUME TypeOK, RoomMoves, NEW m \in Messages, ~Older(now, m.at)
    PROVE  ~Older(now', m.at)
<1>1. now \in [round : Nat, tick : Nat, revision : Nat, epoch : Nat]
  BY DEF TypeOK, Stamps
<1>2. m.at \in [round : Nat, tick : Nat, revision : Nat, epoch : Nat]
  BY DEF Messages, Stamps
<1>3. CASE RoomTicks
  <2>1. now'.round = now.round /\ now'.tick = now.tick + 1 /\ now'.revision = now.revision
    BY <1>1, <1>3 DEF RoomTicks
  <2> QED
    BY <1>1, <1>2, <2>1 DEF Older
<1>4. CASE RoomChanges
  <2>1. now'.round = now.round /\ now'.tick = now.tick /\ now'.revision = now.revision + 1
    BY <1>1, <1>4 DEF RoomChanges
  <2> QED
    BY <1>1, <1>2, <2>1 DEF Older
<1>5. CASE RoomResets
  <2>1. now'.round = now.round + 1
    BY <1>5 DEF RoomResets
  <2> QED
    BY <1>1, <1>2, <2>1 DEF Older
<1> QED
  BY <1>3, <1>4, <1>5 DEF RoomMoves

\* A failed outbox has nothing left that could be stale.
LEMMA FailFresh ==
    ASSUME FreshInv, NEW current, Fail(current), UNCHANGED <<now, sent>>,
           writer' = "write" => writer = "write" /\ hand' = hand
    PROVE  BoxReached' /\ StatesFollow'
<1>1. queue' = <<>> /\ slot' = NoItem
  BY DEF Fail
<1>2. Len(queue') = 0
  BY <1>1
<1>3. BoxReached'
  BY <1>1, <1>2 DEF FreshInv, BoxReached
<1>4. StatesFollow'
  BY <1>1, <1>2 DEF FreshInv, StatesFollow
<1> QED
  BY <1>3, <1>4

\* An enqueued message may follow all that is before it, and takes a snapshot it
\* must not precede out of the slot.
LEMMA PutFresh ==
    ASSUME FreshInv, NEW m \in ReliableMessages, NEW by \in Senders \cup {Nobody},
           Put(m, by), UNCHANGED <<now, sent, hand>>,
           ~Older(now, m.at), m.kind \in {"roster", "other"} \/ m.at = now
    PROVE  BoxReached' /\ StatesFollow'
<1> USE DEF FreshInv
<1>1. CASE Overflows(m)
  BY <1>1, FailFresh DEF Put
<1>2. CASE ~Overflows(m)
  <2>1. /\ queue' = Append(queue, Item(m, by)) /\ slot' = SlotAfter(m)
        /\ writer' = "write" <=> writer = "write"
    BY <1>2 DEF Put, StartWriter
  <2>2. queue \in Seq(ReliableItems) /\ Item(m, by) \in ReliableItems
    BY DEF TypeOK, Item, ReliableItems, Items, ReliableMessages
  <2>3. /\ Len(queue) \in Nat /\ Len(queue') = Len(queue) + 1
        /\ \A k \in 1..Len(queue) : queue'[k] = queue[k]
        /\ queue'[Len(queue) + 1] = Item(m, by)
    BY <2>1, <2>2
  <2>4. Item(m, by).msg = m
    BY DEF Item
  <2>5. BoxReached'
    BY <2>1, <2>3, <2>4 DEF BoxReached, SlotAfter
  <2>6. slot' # NoItem => slot' = slot /\ MayPrecede(m, slot.msg)
    <3>1. SUFFICES ASSUME slot # NoItem, ~Fences(m, slot.msg), m.kind = "events"
                   PROVE  FALSE
      BY <2>1 DEF SlotAfter, MayPrecede, Fences
    <3>2. /\ now \in [round : Nat, tick : Nat, revision : Nat, epoch : Nat]
          /\ slot.msg.at \in [round : Nat, tick : Nat, revision : Nat, epoch : Nat]
      BY <3>1 DEF TypeOK, Stamps, Items, Messages
    <3>3. m.at = now /\ ~Older(now, slot.msg.at)
      BY <3>1 DEF BoxReached
    <3> QED
      BY <3>1, <3>2, <3>3 DEF Fences, Older
  <2>7. IsState(m) => m.at = now
    BY DEF IsState
  <2>8. ASSUME NEW k \in 1..Len(queue'), IsState(queue'[k].msg)
        PROVE  /\ \A j \in 1..k - 1 : MayPrecede(queue'[j].msg, queue'[k].msg)
               /\ writer = "write" => MayPrecede(hand.msg, queue'[k].msg)
               /\ \A i \in 1..Len(sent) : MayPrecede(sent[i], queue'[k].msg)
    <3>1. CASE k \in 1..Len(queue)
      <4>1. queue'[k] = queue[k] /\ \A j \in 1..k - 1 : queue'[j] = queue[j]
        BY <2>3, <3>1
      <4> QED
        BY <2>8, <3>1, <4>1 DEF StatesFollow
    <3>2. CASE k = Len(queue) + 1
      <4>1. queue'[k].msg = m /\ m.at = now
        BY <2>3, <2>4, <2>7, <2>8, <3>2
      <4>2. \A j \in 1..k - 1 : queue'[j] = queue[j] /\ ~Older(now, queue[j].msg.at)
        BY <2>3, <3>2 DEF BoxReached
      <4> QED
        BY <4>1, <4>2 DEF BoxReached, MayPrecede
    <3> QED
      BY <2>3, <3>1, <3>2
  <2>9. slot' # NoItem => /\ \A k \in 1..Len(queue') : MayPrecede(queue'[k].msg, slot'.msg)
                          /\ writer = "write" => MayPrecede(hand.msg, slot'.msg)
                          /\ \A i \in 1..Len(sent) : MayPrecede(sent[i], slot'.msg)
    <3>1. SUFFICES ASSUME slot' # NoItem
                   PROVE  /\ \A k \in 1..Len(queue') : MayPrecede(queue'[k].msg, slot.msg)
                          /\ writer = "write" => MayPrecede(hand.msg, slot.msg)
                          /\ \A i \in 1..Len(sent) : MayPrecede(sent[i], slot.msg)
      BY <2>6
    <3>2. ASSUME NEW k \in 1..Len(queue') PROVE MayPrecede(queue'[k].msg, slot.msg)
      <4>1. CASE k \in 1..Len(queue)
        BY <2>3, <2>6, <3>1, <4>1 DEF StatesFollow
      <4>2. CASE k = Len(queue) + 1
        BY <2>3, <2>4, <2>6, <3>1, <4>2
      <4> QED
        BY <2>3, <4>1, <4>2
    <3> QED
      BY <2>6, <3>1, <3>2 DEF StatesFollow
  <2>10. StatesFollow'
    BY <2>1, <2>8, <2>9 DEF StatesFollow, MayPrecede, IsState
  <2> QED
    BY <2>5, <2>10
<1> QED
  BY <1>1, <1>2

\* Every step keeps the states that wait behind what they may follow.
LEMMA FreshStep ==
    ASSUME FreshInv, TypeOK', [Next]_vars
    PROVE  HeldReached' /\ BoxReached' /\ StatesFollow'
<1> USE DEF FreshInv
<1>now. ~Older(now, now)
  <2>1. now \in [round : Nat, tick : Nat, revision : Nat, epoch : Nat]
    BY DEF TypeOK, Stamps
  <2> QED
    BY <2>1 DEF Older
<1>held. ASSUME UNCHANGED now,
                \A p \in Senders : pc'[p] # "idle" => pc[p] # "idle" /\ held'[p] = held[p]
         PROVE  HeldReached'
  BY <1>held DEF HeldReached
<1>box. ASSUME UNCHANGED <<now, queue, slot, writer, hand, sent>>
        PROVE  BoxReached' /\ StatesFollow'
  BY <1>box DEF BoxReached, StatesFollow
<1>1. CASE RoomMoves
  <2>1. UNCHANGED <<held, pc, queue, slot, writer, hand, sent>>
    BY <1>1 DEF RoomMoves, senderVars, boxVars, writerVars
  <2>2. HeldReached'
    BY <1>1, <2>1, ClockAdvances DEF HeldReached, TypeOK, ReliableMessages
  <2>3. \A k \in 1..Len(queue) : ~Older(now', queue[k].msg.at)
    BY <1>1, ClockAdvances DEF BoxReached, TypeOK, ReliableItems, Items
  <2>4. \A i \in 1..Len(sent) : ~Older(now', sent[i].at)
    BY <1>1, ClockAdvances DEF BoxReached, TypeOK, ReliableMessages
  <2>5. (writer = "write" => ~Older(now', hand.msg.at))
        /\ (slot # NoItem => ~Older(now', slot.msg.at))
    BY <1>1, ClockAdvances DEF BoxReached, TypeOK, Items
  <2>6. BoxReached'
    BY <2>1, <2>3, <2>4, <2>5 DEF BoxReached
  <2>7. StatesFollow'
    BY <2>1 DEF StatesFollow
  <2> QED
    BY <2>2, <2>6, <2>7
<1>2. ASSUME NEW k \in Reliable, OfferReliable(k)
      PROVE  HeldReached' /\ BoxReached' /\ StatesFollow'
  <2>1. Message(k) \in ReliableMessages /\ Message(k).at = now
    <3>1. Message(k) \in Messages /\ Message(k).kind = k /\ Message(k).at = now
      BY MessageType DEF Reliable, Message
    <3> QED
      BY <3>1 DEF ReliableMessages
  <2>2. Put(Message(k), Nobody) /\ UNCHANGED <<now, sent, hand>>
    BY <1>2 DEF OfferReliable
  <2>3. BoxReached' /\ StatesFollow'
    BY <1>now, <2>1, <2>2, PutFresh
  <2> QED
    BY <1>2, <1>held, <2>3 DEF OfferReliable, senderVars
<1>3. CASE OfferSnapshot
  <2>1. /\ UNCHANGED <<now, held, pc, queue, hand, sent>> /\ slot'.msg.at = now
        /\ writer' = "write" <=> writer = "write"
    BY <1>3 DEF OfferSnapshot, StartWriter, senderVars, Item, Message
  <2>2. BoxReached'
    BY <1>now, <2>1 DEF BoxReached
  <2>3. StatesFollow'
    BY <2>1 DEF BoxReached, StatesFollow, MayPrecede
  <2> QED
    BY <1>held, <2>1, <2>2, <2>3
<1>4. CASE Disconnect
  BY <1>4, <1>held, <1>box DEF Disconnect, roomVars, senderVars, writerVars
<1>5. ASSUME NEW p \in Senders, NEW k \in {"roster", "other"}, NEW w \in BOOLEAN,
             Build(p, k, w)
      PROVE  HeldReached' /\ BoxReached' /\ StatesFollow'
  <2>1. HeldReached'
    <3>1. /\ now' = now /\ pc[p] = "idle"
          /\ \A q \in Senders : q # p => pc'[q] = pc[q] /\ held'[q] = held[q]
          /\ held'[p] = Message(k)
      BY <1>5 DEF Build, TypeOK
    <3>2. Message(k).at = now /\ Message(k).kind = k
      BY DEF Message
    <3> QED
      BY <1>now, <3>1, <3>2 DEF HeldReached
  <2> QED
    BY <1>5, <1>box, <2>1 DEF Build, boxVars, writerVars
<1>6. ASSUME NEW p \in Senders, Enqueue(p)
      PROVE  HeldReached' /\ BoxReached' /\ StatesFollow'
  <2>1. HeldReached'
    BY <1>6, <1>held DEF Enqueue, Leave, TypeOK, roomVars
  <2>2. CASE connected
    <3>1. /\ held[p] \in ReliableMessages /\ ~Older(now, held[p].at)
          /\ held[p].kind \in {"roster", "other"}
      BY <1>6 DEF Enqueue, TypeOK, HeldReached
    <3> DEFINE by == IF sync[p] THEN p ELSE Nobody
    <3>2. Put(held[p], by) /\ by \in Senders \cup {Nobody} /\ UNCHANGED <<now, sent, hand>>
      BY <1>6, <2>2 DEF Enqueue, roomVars
    <3> HIDE DEF by
    <3> QED
      BY <2>1, <3>1, <3>2, PutFresh
  <2>3. CASE ~connected
    BY <1>6, <1>box, <2>1, <2>3 DEF Enqueue, roomVars, boxVars
  <2> QED
    BY <2>2, <2>3
<1>7. ASSUME NEW p \in Senders, Return(p) \/ TimeOut(p)
      PROVE  HeldReached' /\ BoxReached' /\ StatesFollow'
  BY <1>7, <1>held, <1>box DEF Return, TimeOut, Leave, TypeOK, roomVars, boxVars, writerVars
<1>8. ASSUME NEW p \in Senders, GiveUp(p)
      PROVE  HeldReached' /\ BoxReached' /\ StatesFollow'
  <2>1. HeldReached'
    BY <1>8, <1>held DEF GiveUp, Leave, TypeOK, roomVars
  <2> QED
    BY <1>8, <2>1, FailFresh DEF GiveUp, roomVars, writerVars
<1>9. CASE WriterTakes
  <2>1. /\ writer = "loop" /\ writer' = "write" /\ queue # <<>>
        /\ hand' = Head(queue) /\ queue' = Tail(queue)
        /\ UNCHANGED <<now, held, pc, slot, sent>> /\ queue \in Seq(ReliableItems)
    BY <1>9 DEF WriterTakes, TypeOK, roomVars, senderVars
  <2>2. /\ Len(queue) \in Nat \ {0} /\ Len(queue') = Len(queue) - 1
        /\ hand' = queue[1]
        /\ \A k \in 1..Len(queue') : queue'[k] = queue[k + 1]
    BY <2>1
  <2>3. /\ 1 \in 1..Len(queue)
        /\ \A k \in 1..Len(queue') : k + 1 \in 1..Len(queue) /\ 1 \in 1..(k + 1) - 1
    BY <2>2
  <2>4. \A k \in 1..Len(queue') : \A j \in 1..k - 1 :
          queue'[j] = queue[j + 1] /\ j + 1 \in 1..(k + 1) - 1
    BY <2>2
  <2>5. BoxReached'
    BY <2>1, <2>2, <2>3 DEF BoxReached
  <2>6. ASSUME NEW k \in 1..Len(queue'), IsState(queue'[k].msg)
        PROVE  /\ \A j \in 1..k - 1 : MayPrecede(queue'[j].msg, queue'[k].msg)
               /\ MayPrecede(queue[1].msg, queue'[k].msg)
               /\ \A i \in 1..Len(sent) : MayPrecede(sent[i], queue'[k].msg)
    <3>1. k + 1 \in 1..Len(queue) /\ queue'[k] = queue[k + 1] /\ 1 \in 1..(k + 1) - 1
      BY <2>2, <2>3
    <3>2. /\ \A j \in 1..(k + 1) - 1 : MayPrecede(queue[j].msg, queue[k + 1].msg)
          /\ \A i \in 1..Len(sent) : MayPrecede(sent[i], queue[k + 1].msg)
      BY <2>6, <3>1 DEF StatesFollow
    <3> QED
      BY <2>4, <3>1, <3>2
  <2>7. IsState(queue[1].msg) => \A i \in 1..Len(sent) : MayPrecede(sent[i], queue[1].msg)
    BY <2>3 DEF StatesFollow
  <2>8. slot # NoItem =>
          /\ \A k \in 1..Len(queue') : MayPrecede(queue'[k].msg, slot.msg)
          /\ MayPrecede(queue[1].msg, slot.msg)
          /\ \A i \in 1..Len(sent) : MayPrecede(sent[i], slot.msg)
    BY <2>2, <2>3 DEF StatesFollow
  <2>9. StatesFollow'
    BY <2>1, <2>2, <2>6, <2>7, <2>8 DEF StatesFollow, MayPrecede, IsState
  <2> QED
    BY <1>held, <2>1, <2>5, <2>9
<1>10. CASE WriterTakesSnapshot
  <2>1. /\ slot # NoItem /\ hand' = slot /\ slot' = NoItem /\ writer' = "write"
        /\ queue = <<>> /\ UNCHANGED <<now, held, pc, queue, sent>>
    BY <1>10 DEF WriterTakesSnapshot, roomVars, senderVars
  <2>2. Len(queue') = 0
    BY <2>1
  <2>3. BoxReached'
    BY <2>1, <2>2 DEF BoxReached
  <2>4. StatesFollow'
    BY <2>1, <2>2 DEF StatesFollow
  <2> QED
    BY <1>held, <2>1, <2>3, <2>4
<1>11. CASE WriterWrites
  <2>1. /\ writer = "write" /\ writer' = "loop"
        /\ UNCHANGED <<now, held, pc, queue, slot>>
    BY <1>11 DEF WriterWrites, roomVars, senderVars
  <2>2. \/ sent' = sent
        \/ sent' = Append(sent, hand.msg) /\ hand.msg \in ReliableMessages
    BY <1>11 DEF WriterWrites, TypeOK, Items, ReliableMessages
  <2>3. \A i \in 1..Len(sent') : sent'[i] = hand.msg \/ \E j \in 1..Len(sent) : sent'[i] = sent[j]
    <3>1. sent \in Seq(ReliableMessages)
      BY DEF TypeOK
    <3> QED
      BY <2>2, <3>1
  <2>4. BoxReached'
    BY <2>1, <2>3 DEF BoxReached
  <2>5. StatesFollow'
    BY <2>1, <2>3 DEF StatesFollow
  <2> QED
    BY <1>held, <2>1, <2>4, <2>5
<1>12. CASE WriterSkips
  <2>1. /\ writer' # "write" /\ UNCHANGED <<now, held, pc, queue, slot, sent>>
    BY <1>12 DEF WriterSkips, roomVars, senderVars, boxVars
  <2>2. BoxReached' /\ StatesFollow'
    BY <2>1 DEF BoxReached, StatesFollow
  <2> QED
    BY <1>held, <2>1, <2>2
<1>13. CASE WriterFails
  BY <1>13, <1>held, FailFresh DEF WriterFails, roomVars, senderVars
<1>14. CASE WriterQuits
  BY <1>14, <1>held, FailFresh DEF WriterQuits, roomVars, senderVars
<1>15. CASE UNCHANGED vars
  BY <1>15, <1>held, <1>box DEF vars, roomVars, senderVars, boxVars, writerVars
<1> QED
  BY <1>1, <1>2, <1>3, <1>4, <1>5, <1>6, <1>7, <1>8, <1>9, <1>10, <1>11, <1>12,
     <1>13, <1>14, <1>15 DEF Next

\* No snapshot, from the slot or reliable, is written after a roster or events
\* that describe a newer state, in whatever order handlers and tick build and
\* enqueue them (_reliable_fences_snapshot).
THEOREM OutboxNoStaleSnapshot == Spec => NoStaleSnapshot
<1> DEFINE Fresh == writer = "write" /\ writer' = "loop"
                      /\ hand.msg.kind \in {"snapshot", "state"}
                      /\ (sent' # sent \/ shown' # shown)
                    => \A i \in DOMAIN sent :
                         sent[i].kind \in {"roster", "events"}
                           => ~Older(hand.msg.at, sent[i].at)
<1>1. FreshInv => Fresh
  <2> SUFFICES ASSUME FreshInv, writer = "write", hand.msg.kind \in {"snapshot", "state"},
                      NEW i \in DOMAIN sent, sent[i].kind \in {"roster", "events"}
               PROVE  ~Older(hand.msg.at, sent[i].at)
    OBVIOUS
  <2>1. i \in 1..Len(sent)
    BY DEF FreshInv, TypeOK
  <2> QED
    BY <2>1 DEF FreshInv, StatesFollow, MayPrecede, IsState
<1>2. Init => FreshInv
  <2>1. ASSUME Init PROVE TypeOK
    BY <2>1 DEF Init, TypeOK, Stamps
  <2>2. ASSUME Init PROVE Len(queue) = 0 /\ Len(sent) = 0
    BY <2>2 DEF Init
  <2> QED
    BY <2>1, <2>2 DEF Init, FreshInv, HeldReached, BoxReached, StatesFollow
<1>3. FreshInv /\ TypeOK' /\ [Next]_vars => FreshInv'
  BY FreshStep DEF FreshInv
<1>4. Spec => [][Fresh]_vars
  BY <1>1, <1>2, <1>3, OutboxTypeOK, PTL DEF Spec
<1> QED
  BY <1>4 DEF NoStaleSnapshot
==============================================================================
