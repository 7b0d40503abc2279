------------------------ MODULE SnapshotStreamProofs ------------------------
(***************************************************************************)
(* Proofs about SnapshotStream for any page size, socket and bounds.       *)
(***************************************************************************)
EXTENDS SnapshotStream, TLAPS

-------------------------------------------------------------------------------
(* The invariants. *)

\* What waits to be written is not a delta yet.
Plain(m) == m # None => m.from = None
OutboxPlain ==
    /\ tick # None => IsSnapshot(tick) /\ tick.full
    /\ Plain(tick) /\ Plain(slot) /\ Plain(hand)
    /\ \A i \in 1..Len(queue) : Plain(queue[i])

\* The baseline of the writer is the snapshot that the client decodes last, of
\* those on the wire and the one decoded before.
LastOnWire(i) ==
    IsSnapshot(down[i]) /\ \A j \in i + 1 .. Len(down) : ~IsSnapshot(down[j])
BaseFollows ==
    base.line # None =>
        /\ \A i \in 1..Len(down) :
              LastOnWire(i) => down[i].seq = base.seq /\ Line(down[i]) = base.line
        /\ \/ \E i \in 1..Len(down) : IsSnapshot(down[i])
           \/ known \in {None, [seq |-> base.seq, line |-> base.line]}

\* No message tells of more than its round has had.
Told(m) ==
    m # None =>
        /\ m.round <= round
        /\ m.round = round => /\ m.page.top <= ledger /\ m.orders <= orders
                              /\ IsSnapshot(m) => m.lineage <= lineage
ChainInv == OutboxPlain /\ BaseFollows /\ DeltasFollow

-------------------------------------------------------------------------------
(* Typing. *)

\* A message of the current round is a message, complete and not yet encoded.
LEMMA MessageType ==
    ASSUME TypeOK, NEW type \in {"snapshot", "roster", "start", "live"},
           NEW manifest \in BOOLEAN, NEW revision \in -1..MaxEvents, NEW page \in Page
    PROVE  /\ Message(type, manifest, revision, page) \in Messages
           /\ [Message(type, manifest, revision, page) EXCEPT !.repair = TRUE] \in Messages
BY DEF TypeOK, Message, Messages

LEMMA NoPageType == NoPage \in Page
BY StreamAssumption DEF NoPage, Page

\* The pages a snapshot may carry are pages that reach no further than the
\* ledger.
LEMMA PagesType ==
    ASSUME TypeOK, NEW page \in Pages
    PROVE  page \in Page /\ page.top <= ledger
<1> DEFINE after == IF ~replay /\ 0 <= sent.ledger /\ sent.ledger < ledger
                    THEN sent.ledger ELSE 0
<1>1. /\ ledger \in 0..MaxEvents /\ sent.ledger \in -1..MaxEvents
      /\ MaxEvents \in Nat /\ PageRows \in Nat
  BY StreamAssumption DEF TypeOK
<1>2. after \in 0..ledger
  BY <1>1
<1>3. page \in [base : {after},
                top : IF after = ledger THEN {ledger}
                      ELSE after + 1 .. Lesser(ledger, after + PageRows)]
  BY DEF Pages
<1> HIDE DEF after
<1>4. page.base = after /\ page.top \in 0..ledger /\ page = [base |-> page.base, top |-> page.top]
  BY <1>1, <1>2, <1>3 DEF Lesser
<1> QED
  BY <1>1, <1>2, <1>4 DEF Page

\* What is enqueued is queued, and leaves no snapshot in its slot.
LEMMA PutType ==
    ASSUME TypeOK, NEW m \in Messages, Put(m)
    PROVE  /\ queue' \in Seq(Messages) /\ Len(queue') <= MaxQueue /\ slot' = None
           /\ Len(queue') = Len(queue) + 1 /\ queue'[Len(queue) + 1] = m
           /\ \A i \in 1..Len(queue) : queue'[i] = queue[i]
<1>1. queue \in Seq(Messages) /\ Len(queue) < MaxQueue /\ MaxQueue \in Nat
  BY StreamAssumption DEF TypeOK, Put
<1> QED
  BY <1>1 DEF Put

\* The rows of a page are rows.
LEMMA RowsType ==
    ASSUME NEW page \in Page
    PROVE  Rows(page) \subseteq 1..MaxEvents /\ Rows(page) \subseteq 1..page.top
BY StreamAssumption DEF Rows, Page

\* What is written of a message in hand is a message, whether it is encoded or
\* not, and the writer's baseline keeps its type.
LEMMA WriteType ==
    ASSUME TypeOK, hand # None
    PROVE  /\ hand \in Messages /\ Outgoing \in Messages
           /\ Encoded(Outgoing) \in Messages
           /\ NextBase(Outgoing) \in [seq : SeqNumbers, line : Lines \cup {None}]
           /\ [base EXCEPT !.line = None] \in [seq : SeqNumbers, line : Lines \cup {None}]
           /\ Marked(Outgoing) \in [ledger : -1..MaxEvents, orders : -1..MaxEvents,
                                    manifest : Lines \cup {None}]
<1>1. hand \in Messages
  BY DEF TypeOK
<1>2. Outgoing \in Messages
  BY <1>1, NoPageType DEF Outgoing, Messages
<1> DEFINE m == Outgoing
<1> HIDE DEF m
<1>3. NextSeq(base.seq) \in SeqNumbers /\ base.seq \in SeqNumbers
  <2>1. base.seq \in 0..MaxSeq /\ MaxSeq \in Nat
    BY StreamAssumption DEF TypeOK, SeqNumbers
  <2>2. (base.seq + 1) % (MaxSeq + 1) \in 0..MaxSeq
    BY <2>1
  <2> QED
    BY <2>1, <2>2 DEF NextSeq, SeqNumbers
<1>4. Line(m) \in Lines
  BY <1>2 DEF m, Line, Lines, Messages
<1>5. ASSUME NEW n \in Messages, NEW from \in SeqNumbers \cup {None}
      PROVE  [n EXCEPT !.seq = NextSeq(base.seq), !.from = from] \in Messages
  BY <1>3, <1>5 DEF Messages
<1>6. Encoded(m) \in Messages
  <2> DEFINE from == IF m.full \/ base.line # Line(m) THEN None ELSE base.seq
  <2>1. from \in SeqNumbers \cup {None}
    BY <1>3
  <2>2. Encoded(m) = IF ~IsSnapshot(m) THEN m
                     ELSE [m EXCEPT !.seq = NextSeq(base.seq), !.from = from]
    BY DEF Encoded
  <2> HIDE DEF from
  <2> QED
    BY <1>2, <1>5, <2>1, <2>2 DEF m
<1>7. NextBase(m) \in [seq : SeqNumbers, line : Lines \cup {None}]
  BY <1>3, <1>4 DEF NextBase, TypeOK
<1>8. Marked(m) \in [ledger : -1..MaxEvents, orders : -1..MaxEvents,
                     manifest : Lines \cup {None}]
  <2>1. m.page.top \in -1..MaxEvents /\ m.orders \in -1..MaxEvents
    BY <1>2 DEF m, Messages, Page
  <2>2. -1 \in -1..MaxEvents /\ -1 \in -1..MaxEvents
    BY StreamAssumption
  <2> QED
    BY <2>1, <2>2 DEF Marked, TypeOK
<1> QED
  BY <1>1, <1>2, <1>6, <1>7, <1>8 DEF m, TypeOK

\* What a message does to the view keeps its type.
LEMMA AppliedType ==
    ASSUME TypeOK, NEW m \in Messages
    PROVE  Applied(m) \in [round : 1..MaxChanges, loaded : 0..MaxChanges,
                           rows : SUBSET (1..MaxEvents), orders : 0..MaxEvents,
                           manifest : (1..MaxChanges) \cup {None}]
<1>1. /\ m.round \in 1..MaxChanges /\ m.lineage \in 1..MaxChanges
      /\ m.orders \in -1..MaxEvents /\ m.page \in Page
      /\ MaxChanges \in Nat /\ MaxEvents \in Nat
  BY StreamAssumption DEF Messages
<1>2. Rows(m.page) \subseteq 1..MaxEvents
  BY <1>1, RowsType
<1>3. CASE m.type \in {"roster", "start"}
  BY <1>1, <1>3 DEF Applied
<1>4. CASE m.type \notin {"roster", "start"}
  <2>1. /\ view.rows \cup Rows(m.page) \in SUBSET (1..MaxEvents)
        /\ (IF m.orders > view.orders THEN m.orders ELSE view.orders) \in 0..MaxEvents
        /\ (IF m.manifest THEN m.lineage ELSE view.manifest) \in (1..MaxChanges) \cup {None}
    BY SMTT(30), <1>1, <1>2 DEF TypeOK
  <2>2. Applied(m) = view \/
        Applied(m) = [view EXCEPT !.rows = view.rows \cup Rows(m.page),
                                  !.orders = IF m.orders > view.orders THEN m.orders ELSE view.orders,
                                  !.manifest = IF m.manifest THEN m.lineage ELSE view.manifest]
    BY <1>4 DEF Applied
  <2> QED
    BY <2>1, <2>2 DEF TypeOK
<1> QED
  BY <1>3, <1>4

\* The first item of a queue, and the rest.
LEMMA FirstOf ==
    ASSUME NEW S, NEW s \in Seq(S), s # <<>>
    PROVE  /\ Head(s) \in S /\ Head(s) = s[1] /\ 1 \in 1..Len(s) /\ Len(s) \in Nat
           /\ Tail(s) \in Seq(S) /\ Len(Tail(s)) = Len(s) - 1
           /\ \A i \in 1..Len(Tail(s)) : Tail(s)[i] = s[i + 1]
OBVIOUS

\* What Receive and ReceiveUndecodable take from the wire.
LEMMA HeadType ==
    ASSUME TypeOK, down # <<>>
    PROVE  /\ Head(down) \in Messages /\ Head(down) = down[1] /\ 1 \in 1..Len(down)
           /\ Tail(down) \in Seq(Messages) /\ Len(Tail(down)) <= MaxWire
           /\ Len(Tail(down)) = Len(down) - 1
           /\ \A i \in 1..Len(Tail(down)) : Tail(down)[i] = down[i + 1]
<1>1. down \in Seq(Messages) /\ Len(down) <= MaxWire /\ MaxWire \in Nat
  BY StreamAssumption DEF TypeOK
<1>2. /\ Head(down) \in Messages /\ Head(down) = down[1] /\ 1 \in 1..Len(down) /\ Len(down) \in Nat
      /\ Tail(down) \in Seq(Messages) /\ Len(Tail(down)) = Len(down) - 1
      /\ \A i \in 1..Len(Tail(down)) : Tail(down)[i] = down[i + 1]
  BY <1>1, FirstOf
<1> QED
  BY <1>1, <1>2

\* The type invariant, by groups of variables.
RoomTyped ==
    /\ phase \in {"waiting", "loading", "battle"}
    /\ round \in 1..MaxChanges /\ lineage \in 1..MaxChanges
    /\ ledger \in 0..MaxEvents /\ orders \in 0..MaxEvents
SentTyped ==
    sent \in [ledger : -1..MaxEvents, orders : -1..MaxEvents, manifest : Lines \cup {None}]
FrontTyped ==
    SentTyped /\ aged \in Sections \cup {"sent", None} /\ resync \in BOOLEAN /\ replay \in BOOLEAN
QueueTyped ==
    queue \in Seq(Messages) /\ Len(queue) <= MaxQueue /\ slot \in Messages \cup {None}
BaseTyped == base \in [seq : SeqNumbers, line : Lines \cup {None}]
BoxTyped == QueueTyped /\ hand \in Messages \cup {None} /\ BaseTyped
DownTyped == down \in Seq(Messages) /\ Len(down) <= MaxWire
ViewTyped ==
    view \in [round : 1..MaxChanges, loaded : 0..MaxChanges, rows : SUBSET (1..MaxEvents),
              orders : 0..MaxEvents, manifest : (1..MaxChanges) \cup {None}]
ClientTyped ==
    /\ known \in [seq : SeqNumbers, line : Lines] \cup {None}
    /\ asked \in BOOLEAN /\ ViewTyped /\ decoded \subseteq 1..MaxEvents

LEMMA TypeParts ==
    TypeOK <=> /\ RoomTyped /\ FrontTyped /\ tick \in Messages \cup {None} /\ BoxTyped
               /\ DownTyped /\ up \in Nat /\ ClientTyped /\ faults \in 0..MaxFaults
BY DEF TypeOK, RoomTyped, FrontTyped, SentTyped, BoxTyped, QueueTyped, BaseTyped, DownTyped,
       ViewTyped, ClientTyped

\* A group that a step leaves alone keeps its type.
LEMMA Untouched ==
    ASSUME TypeOK
    PROVE  /\ UNCHANGED roomVars => RoomTyped'
           /\ UNCHANGED sent => SentTyped'
           /\ UNCHANGED frontiers => FrontTyped'
           /\ UNCHANGED tick => tick' \in Messages \cup {None}
           /\ UNCHANGED <<queue, slot>> => QueueTyped'
           /\ UNCHANGED base => BaseTyped'
           /\ UNCHANGED outboxVars => BoxTyped'
           /\ UNCHANGED down => DownTyped'
           /\ UNCHANGED up => up' \in Nat
           /\ UNCHANGED view => ViewTyped'
           /\ UNCHANGED clientVars => ClientTyped'
           /\ UNCHANGED faults => faults' \in 0..MaxFaults
           /\ Fault => faults' \in 0..MaxFaults
<1>1. /\ RoomTyped /\ FrontTyped /\ tick \in Messages \cup {None} /\ BoxTyped
      /\ DownTyped /\ up \in Nat /\ ClientTyped /\ faults \in 0..MaxFaults
  BY TypeParts
<1>2. UNCHANGED roomVars => RoomTyped'
  BY <1>1 DEF RoomTyped, roomVars
<1>3. UNCHANGED sent => SentTyped'
  BY <1>1 DEF SentTyped, FrontTyped
<1>4. UNCHANGED frontiers => FrontTyped'
  BY <1>1 DEF SentTyped, FrontTyped, frontiers
<1>5. UNCHANGED <<queue, slot>> => QueueTyped'
  BY <1>1 DEF QueueTyped, BoxTyped
<1>6. UNCHANGED base => BaseTyped'
  BY <1>1 DEF BaseTyped, BoxTyped
<1>7. UNCHANGED outboxVars => BoxTyped'
  BY <1>1 DEF BaseTyped, QueueTyped, BoxTyped, outboxVars
<1>8. UNCHANGED down => DownTyped'
  BY <1>1 DEF DownTyped
<1>9. UNCHANGED view => ViewTyped'
  BY <1>1 DEF ViewTyped, ClientTyped
<1>10. UNCHANGED clientVars => ClientTyped'
  BY <1>1 DEF ViewTyped, ClientTyped, clientVars
<1>11. Fault => faults' \in 0..MaxFaults
  BY <1>1, StreamAssumption DEF Fault
<1> QED
  BY <1>1, <1>2, <1>3, <1>4, <1>5, <1>6, <1>7, <1>8, <1>9, <1>10, <1>11

\* Every step of the stream preserves the type invariant.
LEMMA TypeStep ==
    TypeOK /\ [Next]_vars => TypeOK'
<1> SUFFICES ASSUME TypeOK, [Next]_vars
             PROVE  /\ RoomTyped' /\ FrontTyped' /\ tick' \in Messages \cup {None} /\ BoxTyped'
                    /\ DownTyped' /\ up' \in Nat /\ ClientTyped' /\ faults' \in 0..MaxFaults
  <2>1. TypeOK' <=> (/\ RoomTyped /\ FrontTyped /\ tick \in Messages \cup {None} /\ BoxTyped
                     /\ DownTyped /\ up \in Nat /\ ClientTyped /\ faults \in 0..MaxFaults)'
    BY TypeParts, PTL
  <2> QED
    BY <2>1
<1>0. /\ RoomTyped /\ FrontTyped /\ tick \in Messages \cup {None} /\ BoxTyped
      /\ DownTyped /\ up \in Nat /\ ClientTyped /\ faults \in 0..MaxFaults
  BY TypeParts
<1>a. /\ -1 \in -1..MaxEvents /\ NoPage \in Page /\ orders \in -1..MaxEvents
      /\ [base |-> 0, top |-> ledger] \in Page
  BY <1>0, NoPageType, StreamAssumption DEF RoomTyped, Page
<1>1. CASE Destroy
  <2>1. RoomTyped'
    BY <1>0, <1>1, StreamAssumption DEF Destroy, RoomTyped
  <2> QED
    BY <1>1, <2>1, Untouched DEF Destroy
<1>2. CASE Order
  <2>1. RoomTyped'
    BY <1>0, <1>2, StreamAssumption DEF Order, RoomTyped
  <2> QED
    BY <1>2, <2>1, Untouched DEF Order
<1>3. CASE NewLineage
  <2>1. RoomTyped'
    BY <1>0, <1>3, StreamAssumption DEF NewLineage, ChangesLeft, RoomTyped
  <2> QED
    BY <1>3, <2>1, Untouched DEF NewLineage
<1>4. CASE ResetRound
  <2>1. RoomTyped' /\ round + 1 \in 1..MaxChanges
    BY <1>0, <1>4, StreamAssumption DEF ResetRound, ChangesLeft, RoomTyped
  <2>2. [Message("roster", FALSE, -1, NoPage) EXCEPT !.round = round + 1] \in Messages
    <3>1. Message("roster", FALSE, -1, NoPage) \in Messages
      BY <1>a, MessageType
    <3> QED
      BY <2>1, <3>1 DEF Messages
  <2>3. QueueTyped'
    BY <1>4, <2>2, PutType DEF ResetRound, QueueTyped
  <2>4. SentTyped'
    <3>1. -1 \in -1..MaxEvents
      BY StreamAssumption
    <3> QED
      BY <1>0, <1>4, <1>a, <3>1 DEF ResetRound, FrontTyped, SentTyped
  <2>5. FrontTyped' /\ BoxTyped'
    BY <1>0, <1>4, <2>3, <2>4, Untouched DEF ResetRound, FrontTyped, BoxTyped
  <2> QED
    BY <1>4, <2>1, <2>5, Untouched DEF ResetRound
<1>5. CASE StartBattle
  <2>1. Message("start", TRUE, orders, [base |-> 0, top |-> ledger]) \in Messages
    BY <1>a, MessageType
  <2>2. QueueTyped'
    BY <1>5, <2>1, PutType DEF StartBattle, QueueTyped
  <2>3. BoxTyped' /\ RoomTyped'
    BY <1>0, <1>5, <2>2, Untouched DEF StartBattle, BoxTyped, RoomTyped
  <2> QED
    BY <1>5, <2>3, Untouched DEF StartBattle
<1>6. CASE BattleLive
  <2>1. Message("live", FALSE, -1, NoPage) \in Messages
    BY <1>a, MessageType
  <2>2. QueueTyped'
    BY <1>6, <2>1, PutType DEF BattleLive, QueueTyped
  <2>3. BoxTyped' /\ RoomTyped'
    BY <1>0, <1>6, <2>2, Untouched DEF BattleLive, BoxTyped, RoomTyped
  <2> QED
    BY <1>6, <2>3, Untouched DEF BattleLive
<1>7. CASE TakeResync
  <2>1. [Message("snapshot", TRUE, -1, [base |-> 0, top |-> ledger]) EXCEPT !.repair = TRUE] \in Messages
    BY <1>a, MessageType
  <2>2. QueueTyped' /\ resync' \in BOOLEAN
    <3>1. CASE Put([Message("snapshot", TRUE, -1, [base |-> 0, top |-> ledger])
                      EXCEPT !.repair = TRUE]) /\ UNCHANGED resync
      BY <1>0, <2>1, <3>1, PutType DEF QueueTyped, FrontTyped
    <3>2. CASE resync' = TRUE /\ UNCHANGED <<queue, slot>>
      BY <3>2, Untouched
    <3> QED
      BY <1>7, <3>1, <3>2 DEF TakeResync
  <2>3. up' \in Nat
    BY <1>0, <1>7 DEF TakeResync
  <2>4. BoxTyped' /\ FrontTyped'
    BY <1>0, <1>7, <2>2, Untouched DEF TakeResync, BoxTyped, FrontTyped
  <2> QED
    BY <1>7, <2>3, <2>4, Untouched DEF TakeResync
<1>8. ASSUME NEW section \in Sections, Age(section)
      PROVE  /\ RoomTyped' /\ FrontTyped' /\ tick' \in Messages \cup {None} /\ BoxTyped'
             /\ DownTyped' /\ up' \in Nat /\ ClientTyped' /\ faults' \in 0..MaxFaults
  <2>1. FrontTyped'
    BY <1>0, <1>8, Untouched DEF Age, FrontTyped
  <2> QED
    BY <1>8, <2>1, Untouched DEF Age
<1>9. CASE Compose
  <2>1. ASSUME NEW manifest \in BOOLEAN PROVE Message("snapshot", manifest, -1, NoPage) \in Messages
    BY <1>a, MessageType
  <2>2. ASSUME NEW page \in Pages \cup {NoPage}, NEW revision \in {orders, -1}
        PROVE  Message("snapshot", FALSE, revision, page) \in Messages
    BY <1>a, <2>2, MessageType, PagesType
  <2>3. tick' \in Messages /\ (faults' = faults \/ Fault)
    BY <1>9, <2>1, <2>2 DEF Compose
  <2> QED
    BY <1>9, <2>3, Untouched DEF Compose
<1>10. CASE Offer
  <2>1. tick \in Messages
    BY <1>0, <1>10 DEF Offer
  <2>2. [tick EXCEPT !.repair = resync] \in Messages /\ [tick EXCEPT !.full = FALSE] \in Messages
        /\ Line(tick) \in Lines
    BY <1>0, <2>1 DEF FrontTyped, Messages, Line, Lines
  <2>3. QueueTyped'
    <3>1. CASE UNCHANGED <<queue, slot>>
      BY <3>1, Untouched
    <3>2. CASE Put([tick EXCEPT !.repair = resync])
      BY <2>2, <3>2, PutType DEF QueueTyped
    <3>3. CASE slot' = [tick EXCEPT !.full = FALSE] /\ UNCHANGED queue
      BY <1>0, <2>2, <3>3 DEF BoxTyped, QueueTyped
    <3> QED
      BY <1>10, <3>1, <3>2, <3>3 DEF Offer
  <2>4. SentTyped'
    <3>1. UNCHANGED sent \/ sent' = [sent EXCEPT !.manifest = Line(tick)]
      BY <1>10 DEF Offer
    <3> QED
      BY <1>0, <2>2, <3>1 DEF SentTyped, FrontTyped
  <2>5. aged' \in Sections \cup {"sent", None} /\ resync' \in BOOLEAN
    <3>1. aged' \in {aged, "sent"} /\ resync' \in {resync, TRUE, resync /\ ~tick.manifest}
      BY <1>10 DEF Offer, ResyncAfter
    <3> QED
      BY <1>0, <2>1, <3>1 DEF FrontTyped, Messages
  <2>6. faults' = faults \/ Fault
    BY <1>10 DEF Offer
  <2>7. BoxTyped' /\ FrontTyped'
    BY <1>0, <1>10, <2>3, <2>4, <2>5, Untouched DEF Offer, BoxTyped, FrontTyped
  <2> QED
    BY <1>10, <2>6, <2>7, Untouched DEF Offer
<1>11. CASE Take
  <2>1. hand' \in Messages \cup {None} /\ QueueTyped'
    <3>1. queue \in Seq(Messages) /\ Len(queue) <= MaxQueue /\ MaxQueue \in Nat
      BY <1>0, StreamAssumption DEF BoxTyped, QueueTyped
    <3>2. CASE queue # <<>> /\ hand' = Head(queue) /\ queue' = Tail(queue) /\ UNCHANGED slot
      <4>1. /\ Head(queue) \in Messages /\ Len(queue) \in Nat
            /\ Tail(queue) \in Seq(Messages) /\ Len(Tail(queue)) = Len(queue) - 1
        BY <3>1, <3>2, FirstOf
      <4>2. Len(Tail(queue)) <= MaxQueue
        BY <3>1, <4>1
      <4> QED
        BY <1>0, <3>2, <4>1, <4>2 DEF BoxTyped, QueueTyped
    <3>3. CASE hand' = slot /\ slot' = None /\ UNCHANGED queue
      BY <1>0, <3>3 DEF BoxTyped, QueueTyped
    <3> QED
      BY <1>11, <3>2, <3>3 DEF Take
  <2>2. BoxTyped'
    BY <1>11, <2>1, Untouched DEF Take, BoxTyped
  <2> QED
    BY <1>11, <2>2, Untouched DEF Take
<1>12. CASE Write
  <2>1. hand # None
    BY <1>12 DEF Write
  <2>2. /\ down' = Append(down, Encoded(Outgoing)) \/ down' = Append(down, Outgoing)
        /\ base' = NextBase(Outgoing) \/ base' = [base EXCEPT !.line = None]
        /\ faults' = faults \/ Fault
        /\ sent' = Marked(Outgoing)
        /\ replay' \in BOOLEAN
    BY <1>0, <1>12 DEF Write, FrontTyped
  <2>3. DownTyped'
    <3>1. down \in Seq(Messages) /\ Len(down) < MaxWire /\ MaxWire \in Nat
      BY <1>0, <1>12, StreamAssumption DEF Write, DownTyped
    <3>2. Encoded(Outgoing) \in Messages /\ Outgoing \in Messages
      BY <2>1, WriteType
    <3> QED
      BY <2>2, <3>1, <3>2 DEF DownTyped
  <2>4. BaseTyped' /\ SentTyped'
    BY <2>1, <2>2, WriteType DEF BaseTyped, SentTyped
  <2>5. aged' \in Sections \cup {"sent", None}
    <3>1. aged' \in {aged, "sent", None}
      BY <1>12 DEF Write
    <3> QED
      BY <1>0, <3>1 DEF FrontTyped
  <2>6. BoxTyped' /\ FrontTyped'
    BY <1>0, <1>12, <2>2, <2>4, <2>5, Untouched DEF Write, BoxTyped, FrontTyped
  <2> QED
    BY <1>12, <2>2, <2>3, <2>6, Untouched DEF Write
<1>13. CASE WriteRefused
  <2>1. BoxTyped' /\ FrontTyped'
    BY <1>0, <1>13, Untouched DEF WriteRefused, BoxTyped, FrontTyped
  <2> QED
    BY <1>13, <2>1, Untouched DEF WriteRefused
<1>14. CASE Receive
  <2> DEFINE m == Head(down)
  <2>1. m \in Messages /\ DownTyped'
    BY <1>14, HeadType DEF Receive, DownTyped
  <2>2. /\ \/ UNCHANGED <<known, asked>>
           \/ /\ known' = IF m.seq = None THEN None ELSE [seq |-> m.seq, line |-> Line(m)]
              /\ asked' = (asked /\ m.from # None)
        /\ decoded' = {} \/ decoded' = decoded \cup Rows(m.page)
        /\ view' = Applied(m) \/ view' = view
        /\ faults' = faults \/ Fault
    BY <1>14 DEF Receive
  <2> HIDE DEF m
  <2>3. known' \in [seq : SeqNumbers, line : Lines] \cup {None} /\ asked' \in BOOLEAN
    <3>1. m.seq \in SeqNumbers \cup {None} /\ Line(m) \in Lines
      BY <2>1 DEF Messages, Line, Lines
    <3>2. known' \in {known, None}
          \/ (m.seq \in SeqNumbers /\ known' = [seq |-> m.seq, line |-> Line(m)])
      BY <2>2, <3>1
    <3>3. asked' \in BOOLEAN
      BY <1>0, <2>2 DEF ClientTyped
    <3> QED
      BY <1>0, <3>1, <3>2, <3>3 DEF ClientTyped
  <2>4. decoded' \subseteq 1..MaxEvents
    <3>1. Rows(m.page) \subseteq 1..MaxEvents
      BY <2>1, RowsType DEF Messages
    <3> QED
      BY <1>0, <2>2, <3>1 DEF ClientTyped
  <2>5. ViewTyped'
    BY <2>1, <2>2, AppliedType, Untouched DEF ViewTyped
  <2> QED
    BY <1>14, <2>1, <2>2, <2>3, <2>4, <2>5, Untouched DEF Receive, ClientTyped
<1>15. CASE ReceiveUndecodable
  <2>1. DownTyped'
    BY <1>15, HeadType DEF ReceiveUndecodable, DownTyped
  <2>2. up' \in Nat
    BY <1>0, <1>15 DEF ReceiveUndecodable
  <2>3. ClientTyped'
    BY <1>0, <1>15, Untouched DEF ReceiveUndecodable, ClientTyped
  <2> QED
    BY <1>15, <2>1, <2>2, <2>3, Untouched DEF ReceiveUndecodable
<1>16. CASE UNCHANGED vars
  BY <1>16, Untouched DEF vars
<1> QED
  BY <1>1, <1>2, <1>3, <1>4, <1>5, <1>6, <1>7, <1>8, <1>9, <1>10, <1>11, <1>12,
     <1>13, <1>14, <1>15, <1>16 DEF Next

\* Every reachable state of the snapshot stream is well typed, and its queue
\* and its socket keep their limits.
THEOREM StreamTypeOK == Spec => []TypeOK
<1>1. Init => TypeOK
  <2> SUFFICES ASSUME Init
               PROVE  /\ RoomTyped /\ FrontTyped /\ tick \in Messages \cup {None} /\ BoxTyped
                      /\ DownTyped /\ up \in Nat /\ ClientTyped /\ faults \in 0..MaxFaults
    BY TypeParts
  <2>1. /\ 0 \in 0..MaxEvents /\ 0 \in 0..MaxEvents /\ 1 \in 1..MaxChanges /\ 0 \in 0..MaxChanges
        /\ -1 \in -1..MaxEvents /\ -1 \in -1..MaxEvents /\ 0 \in SeqNumbers /\ 0 \in 0..MaxFaults
        /\ MaxQueue \in Nat /\ MaxWire \in Nat
    BY StreamAssumption DEF SeqNumbers
  <2>2. SentTyped /\ BaseTyped /\ ViewTyped
    <3>1. SentTyped
      BY <2>1 DEF Init, SentTyped
    <3>2. BaseTyped
      BY <2>1 DEF Init, BaseTyped
    <3>3. ViewTyped
      BY <2>1 DEF Init, ViewTyped
    <3> QED
      BY <3>1, <3>2, <3>3
  <2>3. queue \in Seq(Messages) /\ Len(queue) = 0 /\ down \in Seq(Messages) /\ Len(down) = 0
    <3>1. queue = <<>> /\ down = <<>>
      BY DEF Init
    <3>2. <<>> \in Seq(Messages) /\ Len(<<>>) = 0
      OBVIOUS
    <3> QED
      BY <3>1, <3>2, Zenon
  <2>4. FrontTyped /\ BoxTyped /\ DownTyped
    <3>1. /\ aged = None /\ resync = FALSE /\ replay = FALSE
          /\ slot = None /\ hand = None
      BY DEF Init
    <3>2. Len(queue) <= MaxQueue /\ Len(down) <= MaxWire
      BY <2>1, <2>3
    <3> QED
      BY <2>2, <2>3, <3>1, <3>2 DEF FrontTyped, BoxTyped, QueueTyped, DownTyped
  <2>5. RoomTyped /\ ClientTyped
    <3>1. /\ phase = "waiting" /\ round = 1 /\ lineage = 1 /\ ledger = 0 /\ orders = 0
          /\ known = None /\ asked = FALSE /\ decoded = {}
      BY DEF Init
    <3> QED
      BY <2>1, <2>2, <3>1 DEF RoomTyped, ClientTyped
  <2> QED
    BY <2>1, <2>4, <2>5 DEF Init
<1> QED
  BY <1>1, TypeStep, PTL DEF Spec

-------------------------------------------------------------------------------
(* The chain of deltas. *)

\* A written message lengthens the wire, and leaves what was on it.
LEMMA OnWire ==
    ASSUME TypeOK, NEW m \in Messages, down' = Append(down, m)
    PROVE  /\ Len(down) \in Nat /\ Len(down') = Len(down) + 1
           /\ down'[Len(down) + 1] = m
           /\ \A i \in 1..Len(down) : down'[i] = down[i]
<1>1. down \in Seq(Messages)
  BY DEF TypeOK
<1> QED
  BY <1>1

\* Writing a message keeps the chain: a delta is made against the baseline, the
\* snapshot that is last on the wire.
LEMMA WriteKeepsChain ==
    ASSUME TypeOK, ChainInv, Write
    PROVE  BaseFollows' /\ DeltasFollow'
<1> DEFINE m == Outgoing
           n == Len(down)
<1>1. /\ hand # None /\ hand \in Messages /\ m \in Messages /\ Encoded(m) \in Messages
      /\ UNCHANGED known
  BY WriteType DEF Write, clientVars
<1>2. m.from = None /\ (IsSnapshot(m) => Line(m) \in Lines) /\ Line(m) # None
  <2>1. hand.from = None
    BY <1>1 DEF ChainInv, OutboxPlain, Plain
  <2>2. m.from = None
    BY <1>1, <2>1 DEF Outgoing, Messages
  <2>3. Line(m) \in Lines
    BY <1>1 DEF Line, Lines, Messages
  <2> QED
    BY <2>2, <2>3, NoneAssumption
<1>3. PICK e \in {m, Encoded(m)} :
        /\ down' = Append(down, e)
        /\ \/ e = Encoded(m) /\ base' = NextBase(m)
           \/ IsSnapshot(m) /\ e = m /\ base' = [base EXCEPT !.line = None]
  BY DEF Write
<1>4. /\ n \in Nat /\ Len(down') = n + 1 /\ down'[n + 1] = e
      /\ \A i \in 1..n : down'[i] = down[i]
  BY <1>1, <1>3, OnWire
<1>5. IsSnapshot(e) <=> IsSnapshot(m)
  BY <1>1, <1>3 DEF IsSnapshot, Encoded, Messages
<1>6. BaseFollows'
  <2>1. CASE ~IsSnapshot(e)
    <3>1. base'.line = None
      BY <1>3, <1>5, <2>1 DEF NextBase, TypeOK
    <3> QED
      BY <3>1 DEF BaseFollows
  <2>2. CASE IsSnapshot(e) /\ e = m /\ base' = [base EXCEPT !.line = None]
    <3>1. base'.line = None
      BY <2>2 DEF TypeOK
    <3> QED
      BY <3>1 DEF BaseFollows
  <2>3. CASE IsSnapshot(e) /\ e = Encoded(m) /\ base' = NextBase(m)
    <3>1. e.seq = base'.seq /\ Line(e) = base'.line
      BY <1>1, <1>5, <2>3 DEF Encoded, NextBase, Line, Messages
    <3>2. ASSUME NEW i \in 1..Len(down'), LastOnWire(i)'
          PROVE  i = n + 1
      BY <1>4, <2>3, <3>2 DEF LastOnWire
    <3> QED
      BY <1>4, <2>3, <3>1, <3>2 DEF BaseFollows
  <2> QED
    BY <1>3, <1>5, <2>1, <2>2, <2>3
<1>7. ASSUME NEW j \in 1..n, IsSnapshot(down'[j]), down'[j].from # None
      PROVE  /\ \A i \in 1..n + 1 : Precedes(i, j)' =>
                    down'[j].from = down'[i].seq /\ Line(down'[j]) = Line(down'[i])
             /\ \/ \E i \in 1..j - 1 : IsSnapshot(down'[i])
                \/ known' \in {None, [seq |-> down'[j].from, line |-> Line(down'[j])]}
  <2>1. /\ \A i \in 1..n : Precedes(i, j) =>
              down[j].from = down[i].seq /\ Line(down[j]) = Line(down[i])
        /\ \/ \E i \in 1..j - 1 : IsSnapshot(down[i])
           \/ known \in {None, [seq |-> down[j].from, line |-> Line(down[j])]}
    BY <1>4, <1>7 DEF ChainInv, DeltasFollow
  <2>2. ASSUME NEW i \in 1..n + 1, Precedes(i, j)'
        PROVE  i \in 1..n /\ Precedes(i, j)
    BY SMTT(30), <1>4, <2>2 DEF Precedes
  <2> QED
    BY <1>1, <1>4, <2>1, <2>2
<1>8. ASSUME NEW k, k = n + 1, IsSnapshot(e), e.from # None
      PROVE  /\ \A i \in 1..n + 1 : Precedes(i, k)' =>
                    e.from = down'[i].seq /\ Line(e) = Line(down'[i])
             /\ \/ \E i \in 1..n : IsSnapshot(down'[i])
                \/ known' \in {None, [seq |-> e.from, line |-> Line(e)]}
  <2>1. e = Encoded(m) /\ base.line = Line(m) /\ e.from = base.seq /\ Line(e) = Line(m)
    BY <1>1, <1>2, <1>3, <1>5, <1>8 DEF Encoded, Line, Messages
  <2>2. /\ \A i \in 1..n : LastOnWire(i) => down[i].seq = base.seq /\ Line(down[i]) = base.line
        /\ \/ \E i \in 1..n : IsSnapshot(down[i])
           \/ known \in {None, [seq |-> base.seq, line |-> base.line]}
    BY <1>2, <2>1 DEF ChainInv, BaseFollows
  <2>3. ASSUME NEW i \in 1..n + 1, Precedes(i, k)'
        PROVE  i \in 1..n /\ LastOnWire(i)
    BY <1>4, <1>8, <2>3 DEF Precedes, LastOnWire
  <2> QED
    BY <1>1, <1>4, <2>1, <2>2, <2>3
<1>9. ASSUME NEW j \in 1..n + 1, IsSnapshot(down'[j]), down'[j].from # None
      PROVE  /\ \A i \in 1..n + 1 : Precedes(i, j)' =>
                    down'[j].from = down'[i].seq /\ Line(down'[j]) = Line(down'[i])
             /\ \/ \E i \in 1..j - 1 : IsSnapshot(down'[i])
                \/ known' \in {None, [seq |-> down'[j].from, line |-> Line(down'[j])]}
  <2>1. CASE j = n + 1
    BY <1>4, <1>8, <1>9, <2>1
  <2>2. CASE j \in 1..n
    BY <1>7, <1>9, <2>2
  <2> QED
    BY <1>4, <2>1, <2>2
<1> QED
  BY <1>4, <1>6, <1>9 DEF DeltasFollow

\* What is left of the wire when its first message is read.
LEMMA OffWire ==
    ASSUME TypeOK, down # <<>>, down' = Tail(down)
    PROVE  /\ Len(down) \in Nat \ {0} /\ Len(down') = Len(down) - 1
           /\ Head(down) = down[1] /\ down[1] \in Messages
           /\ \A i \in 1..Len(down') : down'[i] = down[i + 1]
           /\ \A i, j \in 1..Len(down') :
                 Precedes(i, j)' => i + 1 \in 1..Len(down) /\ Precedes(i + 1, j + 1)
           /\ \A i \in 1..Len(down') :
                 LastOnWire(i)' => i + 1 \in 1..Len(down) /\ LastOnWire(i + 1)
<1>1. /\ Len(down) \in Nat \ {0} /\ Len(down') = Len(down) - 1
      /\ Head(down) = down[1] /\ down[1] \in Messages
      /\ \A i \in 1..Len(down') : down'[i] = down[i + 1]
  BY HeadType
<1>2. ASSUME NEW i \in 1..Len(down'), NEW j \in 1..Len(down'), Precedes(i, j)'
      PROVE  Precedes(i + 1, j + 1)
  <2>1. i < j /\ IsSnapshot(down'[i]) /\ \A k \in i + 1 .. j - 1 : ~IsSnapshot(down'[k])
    BY <1>2 DEF Precedes
  <2>2. ASSUME NEW k \in i + 2 .. j PROVE ~IsSnapshot(down[k])
    <3>1. k - 1 \in i + 1 .. j - 1 /\ k - 1 \in 1..Len(down') /\ (k - 1) + 1 = k
      BY <1>1
    <3> QED
      BY <1>1, <2>1, <3>1
  <2> QED
    BY <1>1, <2>1, <2>2 DEF Precedes
<1>3. ASSUME NEW i \in 1..Len(down'), LastOnWire(i)'
      PROVE  LastOnWire(i + 1)
  <2>1. IsSnapshot(down'[i]) /\ \A k \in i + 1 .. Len(down') : ~IsSnapshot(down'[k])
    BY <1>3 DEF LastOnWire
  <2>2. ASSUME NEW k \in i + 2 .. Len(down) PROVE ~IsSnapshot(down[k])
    <3>1. k - 1 \in i + 1 .. Len(down') /\ k - 1 \in 1..Len(down') /\ (k - 1) + 1 = k
      BY <1>1
    <3> QED
      BY <1>1, <2>1, <3>1
  <2> QED
    BY <1>1, <2>1, <2>2 DEF LastOnWire
<1> QED
  BY <1>1, <1>2, <1>3

\* Reading the first message keeps the chain: if it was a snapshot, it is the
\* client's baseline now; if the client could not decode it, it has none.
LEMMA ReadKeepsChain ==
    ASSUME TypeOK, ChainInv, Receive \/ ReceiveUndecodable
    PROVE  BaseFollows' /\ DeltasFollow'
<1> DEFINE m == down[1]
<1>1. down # <<>> /\ down' = Tail(down) /\ UNCHANGED base
  BY DEF Receive, ReceiveUndecodable, outboxVars
<1>2. /\ Len(down) \in Nat \ {0} /\ Len(down') = Len(down) - 1
      /\ Head(down) = m /\ m \in Messages
      /\ \A i \in 1..Len(down') : down'[i] = down[i + 1]
      /\ \A i, j \in 1..Len(down') :
            Precedes(i, j)' => i + 1 \in 1..Len(down) /\ Precedes(i + 1, j + 1)
      /\ \A i \in 1..Len(down') :
            LastOnWire(i)' => i + 1 \in 1..Len(down) /\ LastOnWire(i + 1)
  BY <1>1, OffWire
<1>3. \/ known' = None
      \/ IsSnapshot(m) /\ m.seq # None /\ known' = [seq |-> m.seq, line |-> Line(m)]
      \/ ~IsSnapshot(m) /\ known' = known
  BY <1>2 DEF Receive, ReceiveUndecodable
<1> HIDE DEF m
<1>4. BaseFollows'
  <2> SUFFICES ASSUME base.line # None
               PROVE  /\ \A i \in 1..Len(down') :
                            LastOnWire(i)' => down'[i].seq = base.seq /\ Line(down'[i]) = base.line
                      /\ \/ \E i \in 1..Len(down') : IsSnapshot(down'[i])
                         \/ known' \in {None, [seq |-> base.seq, line |-> base.line]}
    BY <1>1 DEF BaseFollows
  <2>1. /\ \A i \in 1..Len(down) :
              LastOnWire(i) => down[i].seq = base.seq /\ Line(down[i]) = base.line
        /\ \/ \E i \in 1..Len(down) : IsSnapshot(down[i])
           \/ known \in {None, [seq |-> base.seq, line |-> base.line]}
    BY DEF ChainInv, BaseFollows
  <2>2. ASSUME \A i \in 1..Len(down') : ~IsSnapshot(down'[i])
        PROVE  known' \in {None, [seq |-> base.seq, line |-> base.line]}
    <3>1. ASSUME NEW i \in 2..Len(down) PROVE ~IsSnapshot(down[i])
      <4>1. i - 1 \in 1..Len(down') /\ (i - 1) + 1 = i
        BY <1>2
      <4> QED
        BY <1>2, <2>2, <4>1
    <3>2. CASE IsSnapshot(m)
      <4>1. LastOnWire(1) /\ 1 \in 1..Len(down)
        BY <1>2, <3>1, <3>2 DEF LastOnWire, m
      <4>2. m.seq = base.seq /\ Line(m) = base.line
        BY <2>1, <4>1 DEF m
      <4> QED
        BY <1>3, <3>2, <4>2
    <3>3. CASE ~IsSnapshot(m)
      <4>1. ASSUME NEW i \in 1..Len(down) PROVE ~IsSnapshot(down[i])
        BY <1>2, <3>1, <3>3 DEF m
      <4> QED
        BY <1>3, <2>1, <3>3, <4>1
    <3> QED
      BY <3>2, <3>3
  <2> QED
    BY <1>2, <2>1, <2>2
<1>5. ASSUME NEW j \in 1..Len(down'), IsSnapshot(down'[j]), down'[j].from # None
      PROVE  /\ \A i \in 1..Len(down') : Precedes(i, j)' =>
                    down'[j].from = down'[i].seq /\ Line(down'[j]) = Line(down'[i])
             /\ \/ \E i \in 1..j - 1 : IsSnapshot(down'[i])
                \/ known' \in {None, [seq |-> down'[j].from, line |-> Line(down'[j])]}
  <2>0. j + 1 \in 1..Len(down) /\ down'[j] = down[j + 1]
    BY <1>2
  <2>1. /\ \A i \in 1..Len(down) : Precedes(i, j + 1) =>
              down'[j].from = down[i].seq /\ Line(down'[j]) = Line(down[i])
        /\ \/ \E i \in 1..j : IsSnapshot(down[i])
           \/ known \in {None, [seq |-> down'[j].from, line |-> Line(down'[j])]}
    BY <1>5, <2>0 DEF ChainInv, DeltasFollow
  <2>2. ASSUME \A i \in 1..j - 1 : ~IsSnapshot(down'[i])
        PROVE  known' \in {None, [seq |-> down'[j].from, line |-> Line(down'[j])]}
    <3>1. ASSUME NEW i \in 2..j PROVE ~IsSnapshot(down[i])
      <4>1. i - 1 \in 1..j - 1 /\ i - 1 \in 1..Len(down') /\ (i - 1) + 1 = i
        BY <1>2
      <4> QED
        BY <1>2, <2>2, <4>1
    <3>2. CASE IsSnapshot(m)
      <4>1. Precedes(1, j + 1) /\ 1 \in 1..Len(down)
        BY <1>2, <3>1, <3>2 DEF Precedes, m
      <4>2. m.seq = down'[j].from /\ Line(m) = Line(down'[j])
        BY <2>1, <4>1 DEF m
      <4> QED
        BY <1>3, <3>2, <4>2
    <3>3. CASE ~IsSnapshot(m)
      <4>1. ASSUME NEW i \in 1..j PROVE ~IsSnapshot(down[i])
        BY <1>2, <3>1, <3>3 DEF m
      <4> QED
        BY <1>3, <2>1, <3>3, <4>1
    <3> QED
      BY <3>2, <3>3
  <2>3. ASSUME NEW i \in 1..Len(down'), Precedes(i, j)'
        PROVE  down'[j].from = down'[i].seq /\ Line(down'[j]) = Line(down'[i])
    <3>1. i + 1 \in 1..Len(down) /\ Precedes(i + 1, j + 1) /\ down'[i] = down[i + 1]
      BY <1>2, <2>3
    <3> QED
      BY <2>1, <3>1
  <2> QED
    BY <2>2, <2>3
<1> QED
  BY <1>4, <1>5 DEF DeltasFollow

-------------------------------------------------------------------------------
(* The outbox. *)

\* The room only moves on: to its next round, or within it to more.
RoomGrows ==
    \/ round' > round
    \/ /\ round' = round /\ lineage' \in Nat /\ lineage <= lineage'
       /\ ledger <= ledger' /\ orders <= orders'

\* A message that a step composes: it tells what the room has then.
Fresh(m) ==
    /\ m \in Messages /\ m.from = None
    /\ m.round = round' /\ m.page.top <= ledger' /\ m.orders <= orders'
    /\ IsSnapshot(m) => m.lineage <= lineage'

\* A message that differs from another in its flags only.
Alike(m, n) ==
    /\ m \in Messages /\ m.from = n.from /\ m.type = n.type /\ m.round = n.round
    /\ m.lineage = n.lineage /\ m.orders = n.orders /\ m.page = n.page

\* What a step does to the outbox.
EnqueueFresh == /\ \E m \in Messages : Fresh(m) /\ Put(m)
                /\ UNCHANGED <<tick, hand>>
ComposeFresh == /\ Fresh(tick') /\ IsSnapshot(tick') /\ tick'.full
                /\ UNCHANGED <<queue, slot, hand>>
OfferAlike == /\ tick # None /\ tick' = None /\ UNCHANGED hand
              /\ \/ UNCHANGED <<queue, slot>>
                 \/ \E m \in Messages : Alike(m, tick) /\ Put(m)
                 \/ \E m \in Messages : Alike(m, tick) /\ slot' = m /\ UNCHANGED queue
TakeNext == /\ UNCHANGED tick
            /\ \/ queue # <<>> /\ hand' = Head(queue) /\ queue' = Tail(queue) /\ UNCHANGED slot
               \/ hand' = slot /\ slot' = None /\ UNCHANGED queue
HandDone == hand' = None /\ UNCHANGED <<tick, queue, slot>>
OutboxQuiet == UNCHANGED <<tick, queue, slot, hand>>

LEMMA RoomStep ==
    TypeOK /\ [Next]_vars => RoomGrows
<1> SUFFICES ASSUME TypeOK, [Next]_vars PROVE RoomGrows
  OBVIOUS
<1>1. round \in Nat /\ lineage \in Nat /\ ledger \in Nat /\ orders \in Nat
  BY DEF TypeOK
<1>2. CASE UNCHANGED <<round, lineage, ledger, orders>>
  BY <1>1, <1>2 DEF RoomGrows
<1>3. CASE Destroy \/ Order
  BY <1>1, <1>3 DEF Destroy, Order, RoomGrows
<1>4. CASE NewLineage
  BY <1>1, <1>4 DEF NewLineage, RoomGrows
<1>5. CASE ResetRound
  BY <1>1, <1>5 DEF ResetRound, RoomGrows
<1>6. CASE StartBattle \/ BattleLive
  BY <1>2, <1>6 DEF StartBattle, BattleLive
<1>7. CASE TakeResync \/ (\E section \in Sections : Age(section)) \/ Compose \/ Offer
           \/ Take \/ Write \/ WriteRefused \/ Receive \/ ReceiveUndecodable \/ UNCHANGED vars
  <2>1. UNCHANGED roomVars
    BY <1>7 DEF TakeResync, Age, Compose, Offer, Take, Write, WriteRefused, Receive,
                ReceiveUndecodable, vars
  <2> QED
    BY <1>2, <2>1 DEF roomVars
<1> QED
  BY <1>3, <1>4, <1>5, <1>6, <1>7 DEF Next

\* Every step does one of these to the outbox, and the room grows.
LEMMA OutboxStep ==
    ASSUME TypeOK, [Next]_vars
    PROVE  EnqueueFresh \/ ComposeFresh \/ OfferAlike \/ TakeNext \/ HandDone \/ OutboxQuiet
<1>1. /\ round \in 1..MaxChanges /\ lineage \in Nat /\ ledger \in 0..MaxEvents /\ orders \in 0..MaxEvents
      /\ NoPage \in Page /\ -1 \in -1..MaxEvents /\ orders \in -1..MaxEvents
      /\ [base |-> 0, top |-> ledger] \in Page
      /\ NoPage.top = -1 /\ -1 <= ledger /\ -1 <= orders
      /\ [base |-> 0, top |-> ledger].top <= ledger
  <2>1. /\ round \in 1..MaxChanges /\ lineage \in Nat /\ ledger \in 0..MaxEvents
        /\ orders \in 0..MaxEvents /\ MaxEvents \in Nat /\ MaxEvents \in Nat
    BY TypeParts, StreamAssumption DEF RoomTyped
  <2>2. NoPage.top = -1
    BY DEF NoPage
  <2> QED
    BY <2>1, <2>2, NoPageType DEF Page
<1>2. ASSUME NEW type \in {"snapshot", "roster", "start", "live"}, NEW manifest \in BOOLEAN,
             NEW revision \in {-1, orders}, NEW page \in Page, page.top <= ledger,
             UNCHANGED <<round, lineage, ledger, orders>>
      PROVE  /\ Fresh(Message(type, manifest, revision, page))
             /\ Fresh([Message(type, manifest, revision, page) EXCEPT !.repair = TRUE])
  <2>1. revision \in -1..MaxEvents /\ revision <= orders
    BY <1>1
  <2>2. /\ Message(type, manifest, revision, page) \in Messages
        /\ [Message(type, manifest, revision, page) EXCEPT !.repair = TRUE] \in Messages
    BY <2>1, MessageType
  <2>3. ASSUME NEW m \in {Message(type, manifest, revision, page),
                          [Message(type, manifest, revision, page) EXCEPT !.repair = TRUE]}
        PROVE  /\ m.from = None /\ m.round = round /\ m.lineage = lineage
               /\ m.page = page /\ m.orders = revision
    BY <2>3 DEF Message
  <2> QED
    BY <1>1, <1>2, <2>1, <2>2, <2>3 DEF Fresh
<1>3. CASE ResetRound
  <2> DEFINE m == [Message("roster", FALSE, -1, NoPage) EXCEPT !.round = round + 1]
  <2>1. Message("roster", FALSE, -1, NoPage) \in Messages
    BY <1>1, MessageType
  <2>2. round + 1 \in 1..MaxChanges
    <3>1. round + lineage <= MaxChanges /\ lineage \in 1..MaxChanges /\ MaxChanges \in Nat
      BY <1>3, TypeParts, StreamAssumption DEF ResetRound, ChangesLeft, RoomTyped
    <3> QED
      BY <1>1, <3>1
  <2>3. m \in Messages
    BY <2>1, <2>2 DEF Messages
  <2>4. /\ m.from = None /\ m.round = round + 1 /\ m.page = NoPage /\ m.orders = -1
        /\ ~IsSnapshot(m)
    BY DEF Message, IsSnapshot
  <2>5. /\ round' = round + 1 /\ ledger' = 0 /\ orders' = 0
        /\ Put(m) /\ UNCHANGED <<tick, hand>>
    BY <1>3 DEF ResetRound
  <2>6. -1 <= ledger' /\ -1 <= orders'
    BY <2>5
  <2> HIDE DEF m
  <2> QED
    BY <1>1, <2>3, <2>4, <2>5, <2>6 DEF EnqueueFresh, Fresh
<1>4. CASE StartBattle
  <2> DEFINE page == [base |-> 0, top |-> ledger]
  <2>1. /\ UNCHANGED <<round, lineage, ledger, orders>> /\ UNCHANGED <<tick, hand>>
        /\ Put(Message("start", TRUE, orders, page)) /\ page \in Page /\ page.top <= ledger
    BY <1>1, <1>4 DEF StartBattle
  <2> HIDE DEF page
  <2>2. Fresh(Message("start", TRUE, orders, page))
    BY <1>2, <2>1
  <2> QED
    BY <2>1, <2>2 DEF EnqueueFresh, Fresh
<1>5. CASE BattleLive
  <2>1. /\ UNCHANGED <<round, lineage, ledger, orders>> /\ UNCHANGED <<tick, hand>>
        /\ Put(Message("live", FALSE, -1, NoPage)) /\ NoPage.top <= ledger
    BY <1>1, <1>5 DEF BattleLive
  <2>2. Fresh(Message("live", FALSE, -1, NoPage))
    BY <1>1, <1>2, <2>1
  <2> QED
    BY <2>1, <2>2 DEF EnqueueFresh, Fresh
<1>6. CASE TakeResync
  <2> DEFINE page == [base |-> 0, top |-> ledger]
             m == [Message("snapshot", TRUE, -1, page) EXCEPT !.repair = TRUE]
  <2>1. /\ UNCHANGED roomVars /\ UNCHANGED <<tick, hand>>
        /\ Put(m) \/ UNCHANGED <<queue, slot>>
        /\ page \in Page /\ page.top <= ledger
    BY <1>1, <1>6 DEF TakeResync
  <2> HIDE DEF page
  <2>2. Fresh(m)
    BY <1>2, <2>1 DEF roomVars
  <2> QED
    BY <2>1, <2>2 DEF EnqueueFresh, OutboxQuiet, Fresh
<1>7. CASE Compose
  <2>1. PICK manifest \in BOOLEAN, revision \in {-1, orders}, page \in Pages \cup {NoPage} :
          tick' = Message("snapshot", manifest, revision, page)
    <3>1. \/ \E manifest \in BOOLEAN : tick' = Message("snapshot", manifest, -1, NoPage)
          \/ \E page \in Pages \cup {NoPage}, with \in BOOLEAN :
                tick' = Message("snapshot", FALSE, IF with THEN orders ELSE -1, page)
      BY <1>7 DEF Compose
    <3> QED
      BY <3>1
  <2>2. page \in Page /\ page.top <= ledger
    BY <1>1, PagesType
  <2>3. UNCHANGED roomVars /\ UNCHANGED <<queue, slot, hand>>
    BY <1>7 DEF Compose, outboxVars
  <2> QED
    <3> DEFINE m == Message("snapshot", manifest, revision, page)
    <3>1. UNCHANGED <<round, lineage, ledger, orders>>
      BY <2>3 DEF roomVars
    <3>2. m.full /\ m.type = "snapshot"
      BY DEF Message
    <3>3. Fresh(m)
      BY <1>2, <2>1, <2>2, <3>1
    <3> QED
      BY <2>1, <2>3, <3>2, <3>3 DEF ComposeFresh, IsSnapshot
<1>8. CASE Offer
  <2>1. tick # None /\ tick \in Messages /\ tick' = None /\ UNCHANGED hand
    BY <1>8 DEF Offer, TypeOK
  <2>2. /\ Alike([tick EXCEPT !.repair = resync], tick)
        /\ Alike([tick EXCEPT !.full = FALSE], tick)
    <3>1. resync \in BOOLEAN
      BY TypeParts DEF FrontTyped
    <3>2. [tick EXCEPT !.repair = resync] \in Messages /\ [tick EXCEPT !.full = FALSE] \in Messages
      BY <2>1, <3>1 DEF Messages
    <3>3. ASSUME NEW m \in {[tick EXCEPT !.repair = resync], [tick EXCEPT !.full = FALSE]}
          PROVE  /\ m.from = tick.from /\ m.type = tick.type /\ m.round = tick.round
                 /\ m.lineage = tick.lineage /\ m.orders = tick.orders /\ m.page = tick.page
      BY <2>1, <3>3 DEF Messages
    <3> QED
      BY <3>2, <3>3 DEF Alike
  <2>3. \/ UNCHANGED <<queue, slot>>
        \/ Put([tick EXCEPT !.repair = resync])
        \/ slot' = [tick EXCEPT !.full = FALSE] /\ UNCHANGED queue
    BY <1>8 DEF Offer
  <2>4. [tick EXCEPT !.repair = resync] \in Messages /\ [tick EXCEPT !.full = FALSE] \in Messages
    BY <2>2 DEF Alike
  <2> QED
    BY <2>1, <2>2, <2>3, <2>4 DEF OfferAlike
<1>9. CASE Take
  BY <1>9 DEF Take, TakeNext
<1>10. CASE Write \/ WriteRefused
  BY <1>10 DEF Write, WriteRefused, HandDone
<1>11. CASE Destroy \/ Order \/ NewLineage \/ (\E section \in Sections : Age(section))
            \/ Receive \/ ReceiveUndecodable \/ UNCHANGED vars
  BY <1>11 DEF Destroy, Order, NewLineage, Age, Receive, ReceiveUndecodable, vars, outboxVars,
               OutboxQuiet
<1> QED
  BY <1>3, <1>4, <1>5, <1>6, <1>7, <1>8, <1>9, <1>10, <1>11 DEF Next

\* What a message tells, of the room after the step.
ToldThen(m) ==
    m # None =>
        /\ m.round <= round'
        /\ m.round = round' => /\ m.page.top <= ledger' /\ m.orders <= orders'
                               /\ IsSnapshot(m) => m.lineage <= lineage'

\* What was told stays true, and what is composed or copied is.
LEMMA ToldKept ==
    ASSUME TypeOK, [Next]_vars
    PROVE  /\ \A m \in Messages : Told(m) => ToldThen(m)
           /\ \A m : Fresh(m) => Plain(m) /\ ToldThen(m)
           /\ \A m, n \in Messages : Alike(m, n) /\ Plain(n) /\ Told(n) => Plain(m) /\ ToldThen(m)
           /\ Plain(None) /\ ToldThen(None)
<1>1. RoomGrows
  BY RoomStep
<1>2. /\ round \in Nat /\ lineage \in Nat /\ ledger \in Nat /\ orders \in Nat
      /\ round' \in Nat /\ ledger' \in Int /\ orders' \in Int
  <2>1. TypeOK'
    BY TypeStep
  <2>2. RoomTyped /\ RoomTyped'
    BY <2>1, TypeParts, PTL
  <2> QED
    BY <2>2 DEF RoomTyped
<1>3. ASSUME NEW m \in Messages, Told(m)
      PROVE  ToldThen(m)
  <2>1. m.round \in Int /\ m.lineage \in Int /\ m.orders \in Int /\ m.page.top \in Int
    BY <1>3 DEF Messages, Page
  <2>2. m # None
    BY <1>3, NoneAssumption
  <2> QED
    BY <1>1, <1>2, <1>3, <2>1, <2>2 DEF Told, ToldThen, RoomGrows
<1>4. ASSUME NEW m, Fresh(m)
      PROVE  Plain(m) /\ ToldThen(m)
  BY <1>2, <1>4 DEF Fresh, Plain, ToldThen
<1>5. ASSUME NEW m \in Messages, NEW n \in Messages, Alike(m, n), Plain(n), Told(n)
      PROVE  Plain(m) /\ ToldThen(m)
  <2>1. m # None /\ n # None
    BY <1>5, NoneAssumption
  <2>2. Told(m) /\ Plain(m)
    BY <1>5, <2>1 DEF Alike, Told, Plain, IsSnapshot
  <2> QED
    BY <1>3, <2>2
<1>6. Plain(None) /\ ToldThen(None)
  BY DEF Plain, ToldThen
<1> QED
  BY <1>3, <1>4, <1>5, <1>6

\* The messages of the outbox are complete, and tell what the room has had.
OutboxSound ==
    /\ OutboxPlain
    /\ Told(tick) /\ Told(slot) /\ Told(hand)
    /\ \A i \in 1..Len(queue) : Told(queue[i])

LEMMA OutboxKept ==
    ASSUME TypeOK, OutboxSound, [Next]_vars
    PROVE  OutboxSound'
<1> DEFINE Sound(m) == Plain(m) /\ ToldThen(m)
<1>1. /\ tick \in Messages \cup {None} /\ slot \in Messages \cup {None}
      /\ hand \in Messages \cup {None} /\ queue \in Seq(Messages)
      /\ \A i \in 1..Len(queue) : queue[i] \in Messages
  BY DEF TypeOK
<1>2. /\ Sound(tick) /\ Sound(slot) /\ Sound(hand) /\ Sound(None)
      /\ \A i \in 1..Len(queue) : Sound(queue[i])
  BY <1>1, ToldKept DEF OutboxSound, OutboxPlain
<1>3. /\ \A m : Fresh(m) => Sound(m)
      /\ tick # None => \A m \in Messages : Alike(m, tick) => Sound(m)
  BY <1>1, ToldKept DEF OutboxSound, OutboxPlain
<1>4. ASSUME NEW m \in Messages, Put(m), Sound(m)
      PROVE  Sound(slot') /\ \A i \in 1..Len(queue') : Sound(queue'[i])
  <2>1. /\ slot' = None /\ queue'[Len(queue) + 1] = m /\ Len(queue') = Len(queue) + 1
        /\ \A i \in 1..Len(queue) : queue'[i] = queue[i]
    BY <1>4, PutType
  <2>2. Len(queue) \in Nat
    BY <1>1
  <2>3. ASSUME NEW i \in 1..Len(queue') PROVE Sound(queue'[i])
    BY <1>2, <1>4, <2>1, <2>2
  <2> QED
    BY <1>2, <2>1, <2>3
<1> SUFFICES /\ tick' # None => IsSnapshot(tick') /\ tick'.full
             /\ Sound(tick') /\ Sound(slot') /\ Sound(hand')
             /\ \A i \in 1..Len(queue') : Sound(queue'[i])
  BY DEF OutboxSound, OutboxPlain, Plain, Told, ToldThen
<1>a. tick # None => IsSnapshot(tick) /\ tick.full
  BY DEF OutboxSound, OutboxPlain
<1> HIDE DEF Sound
<1>5. CASE EnqueueFresh
  BY <1>2, <1>3, <1>4, <1>5, <1>a DEF EnqueueFresh
<1>6. CASE ComposeFresh
  BY <1>2, <1>3, <1>6 DEF ComposeFresh
<1>7. CASE OfferAlike
  BY <1>2, <1>3, <1>4, <1>7 DEF OfferAlike
<1>8. CASE TakeNext
  <2>1. CASE queue # <<>> /\ hand' = Head(queue) /\ queue' = Tail(queue) /\ UNCHANGED slot
    <3>1. /\ Head(queue) = queue[1] /\ 1 \in 1..Len(queue) /\ Len(Tail(queue)) = Len(queue) - 1
          /\ \A i \in 1..Len(Tail(queue)) : Tail(queue)[i] = queue[i + 1]
          /\ Len(queue) \in Nat
      BY <1>1, <2>1, FirstOf
    <3>2. ASSUME NEW i \in 1..Len(queue') PROVE Sound(queue'[i])
      BY <1>2, <2>1, <3>1
    <3> QED
      BY <1>2, <1>8, <1>a, <2>1, <3>1, <3>2 DEF TakeNext
  <2>2. CASE hand' = slot /\ slot' = None /\ UNCHANGED queue
    BY <1>2, <1>8, <1>a, <2>2 DEF TakeNext
  <2> QED
    BY <1>8, <2>1, <2>2 DEF TakeNext
<1>9. CASE HandDone \/ OutboxQuiet
  BY <1>2, <1>9, <1>a DEF HandDone, OutboxQuiet
<1> QED
  BY <1>5, <1>6, <1>7, <1>8, <1>9, OutboxStep

\* Nothing is on its way when a client has connected.
LEMMA OutboxInit ==
    Init => OutboxSound
BY DEF Init, OutboxSound, OutboxPlain, Plain, Told

\* A delta on the wire is always made against the snapshot that the client
\* decodes just before it.
THEOREM StreamDeltasFollow == Spec => []DeltasFollow
<1>1. Init => ChainInv
  <2> SUFFICES ASSUME Init PROVE ChainInv
    OBVIOUS
  <2>1. OutboxPlain
    BY OutboxInit DEF OutboxSound
  <2>2. down = <<>> /\ base.line = None
    BY DEF Init
  <2> QED
    BY <2>1, <2>2 DEF ChainInv, BaseFollows, DeltasFollow
<1>2. TypeOK /\ OutboxSound /\ ChainInv /\ [Next]_vars => OutboxSound' /\ ChainInv'
  <2> SUFFICES ASSUME TypeOK, OutboxSound, ChainInv, [Next]_vars
               PROVE  OutboxSound' /\ ChainInv'
    OBVIOUS
  <2>1. OutboxSound' /\ OutboxPlain'
    BY OutboxKept DEF OutboxSound
  <2>2. CASE Write
    BY <2>1, <2>2, WriteKeepsChain DEF ChainInv
  <2>3. CASE Receive \/ ReceiveUndecodable
    BY <2>1, <2>3, ReadKeepsChain DEF ChainInv
  <2>4. CASE UNCHANGED <<base, down, known>>
    BY <2>1, <2>4 DEF ChainInv, BaseFollows, DeltasFollow, LastOnWire, Precedes
  <2>5. Write \/ Receive \/ ReceiveUndecodable \/ UNCHANGED <<base, down, known>>
    <3>1. CASE TakeResync \/ Take \/ WriteRefused \/ UNCHANGED vars
      BY <3>1 DEF TakeResync, Take, WriteRefused, vars, clientVars, outboxVars
    <3>2. CASE Destroy \/ Order \/ NewLineage \/ ResetRound \/ StartBattle \/ BattleLive
      BY <3>2 DEF Destroy, Order, NewLineage, ResetRound, StartBattle, BattleLive, clientVars,
                  outboxVars
    <3>3. CASE (\E section \in Sections : Age(section)) \/ Compose \/ Offer
      BY <3>3 DEF Age, Compose, Offer, clientVars, outboxVars
    <3> QED
      BY <3>1, <3>2, <3>3 DEF Next
  <2> QED
    BY <2>2, <2>3, <2>4, <2>5
<1>3. ChainInv => DeltasFollow
  BY DEF ChainInv
<1> QED
  BY <1>1, <1>2, <1>3, OutboxInit, StreamTypeOK, PTL DEF Spec

-------------------------------------------------------------------------------
(* What the client shows. *)

\* The wire and the view tell what the room has had.
WireSound ==
    /\ \A i \in 1..Len(down) : Told(down[i])
    /\ view.round <= round
    /\ ViewIsTrue

\* What is written tells what the message in hand told.
LEMMA WrittenTold ==
    ASSUME TypeOK, hand # None, Told(hand), NEW e \in {Outgoing, Encoded(Outgoing)}
    PROVE  e \in Messages /\ Told(e)
<1>1. hand \in Messages /\ Outgoing \in Messages /\ Encoded(Outgoing) \in Messages
  BY WriteType
<1>2. /\ Outgoing.round = hand.round /\ Outgoing.lineage = hand.lineage
      /\ Outgoing.orders = hand.orders /\ Outgoing.type = hand.type
      /\ Outgoing.page = hand.page \/ Outgoing.page = NoPage
  BY <1>1 DEF Outgoing, Messages
<1>3. /\ e.round = hand.round /\ e.lineage = hand.lineage
      /\ e.orders = hand.orders /\ e.type = hand.type
      /\ e.page = hand.page \/ e.page = NoPage
  <2>1. CASE e = Outgoing
    BY <1>2, <2>1
  <2>2. CASE e = Encoded(Outgoing)
    <3> DEFINE m == Outgoing
    <3>1. m \in Messages
      BY <1>1
    <3>2. e = m \/ \E s, f : e = [m EXCEPT !.seq = s, !.from = f]
      BY <2>2 DEF Encoded
    <3> HIDE DEF m
    <3>3. /\ e.round = m.round /\ e.lineage = m.lineage /\ e.orders = m.orders
          /\ e.type = m.type /\ e.page = m.page
      BY <3>1, <3>2 DEF Messages
    <3> QED
      BY <1>2, <3>3 DEF m
  <2> QED
    BY <2>1, <2>2
<1>4. NoPage.top <= ledger
  BY DEF NoPage, TypeOK
<1> QED
  BY <1>1, <1>3, <1>4 DEF Told, IsSnapshot

\* Applying a message that tells what the room has had keeps the view true.
LEMMA AppliedIsTrue ==
    ASSUME TypeOK, WireSound, NEW m \in Messages, Told(m)
    PROVE  LET v == Applied(m) IN
           /\ v.round <= round
           /\ v.round = round =>
                /\ v.rows \subseteq 1..ledger /\ v.orders <= orders
                /\ v.manifest # None => v.manifest <= lineage
<1> DEFINE v == Applied(m)
<1>1. /\ m.round \in 1..MaxChanges /\ m.orders \in Int /\ m.page \in Page /\ m.page.top \in Int
      /\ m # None
  BY NoneAssumption DEF Messages, Page
<1>2. /\ round \in Nat /\ ledger \in Nat /\ orders \in Nat /\ lineage \in Nat
      /\ ViewTyped
  BY TypeParts DEF RoomTyped, ClientTyped
<1>3. CASE m.type \in {"roster", "start"}
  <2>1. v.round = m.round /\ v.rows = {} /\ v.orders = 0 /\ v.manifest = None
    BY <1>3 DEF Applied
  <2> QED
    BY <1>1, <1>2, <2>1 DEF Told
<1>4. CASE v = view
  BY <1>4 DEF WireSound, ViewIsTrue
<1>5. CASE /\ IsSnapshot(m) /\ m.round = view.round
           /\ v = [view EXCEPT !.rows = view.rows \cup Rows(m.page),
                               !.orders = IF m.orders > view.orders THEN m.orders ELSE view.orders,
                               !.manifest = IF m.manifest THEN m.lineage ELSE view.manifest]
  <2>1. /\ v.round = view.round /\ v.rows = view.rows \cup Rows(m.page)
        /\ v.orders \in {m.orders, view.orders} /\ v.manifest \in {m.lineage, view.manifest}
    BY <1>2, <1>5 DEF ViewTyped
  <2>2. ASSUME view.round = round
        PROVE  /\ m.page.top <= ledger /\ m.orders <= orders /\ m.lineage <= lineage
               /\ view.rows \subseteq 1..ledger /\ view.orders <= orders
               /\ view.manifest # None => view.manifest <= lineage
    BY <1>1, <1>5, <2>2 DEF Told, WireSound, ViewIsTrue
  <2>3. ASSUME view.round = round
        PROVE  Rows(m.page) \subseteq 1..ledger
    <3>1. Rows(m.page) \subseteq 1..m.page.top
      BY <1>1, RowsType
    <3> QED
      BY <1>1, <1>2, <2>2, <2>3, <3>1
  <2>4. v.round <= round
    BY <2>1 DEF WireSound
  <2> QED
    BY <2>1, <2>2, <2>3, <2>4
<1>6. \/ m.type \in {"roster", "start"} \/ v = view
      \/ /\ IsSnapshot(m) /\ m.round = view.round
         /\ v = [view EXCEPT !.rows = view.rows \cup Rows(m.page),
                             !.orders = IF m.orders > view.orders THEN m.orders ELSE view.orders,
                             !.manifest = IF m.manifest THEN m.lineage ELSE view.manifest]
  BY DEF Applied
<1> QED
  BY <1>3, <1>4, <1>5, <1>6

\* Every step keeps what is on the wire and in the view true.
LEMMA WireStep ==
    ASSUME TypeOK, OutboxSound, WireSound, [Next]_vars
    PROVE  WireSound'
<1>1. /\ RoomGrows /\ down \in Seq(Messages) /\ Len(down) \in Nat
      /\ round \in Nat /\ ledger \in Nat /\ orders \in Nat /\ lineage \in Nat
      /\ view.round \in Nat /\ view.orders \in Nat
      /\ view.manifest \in Nat \cup {None}
  <2>1. RoomTyped /\ ViewTyped
    BY TypeParts DEF ClientTyped
  <2> QED
    BY SMTT(30), <2>1, RoomStep DEF TypeOK, RoomTyped, ViewTyped
<1>2. \A i \in 1..Len(down) : down[i] \in Messages /\ Told(down[i])
  BY <1>1 DEF WireSound
<1>3. \A m \in Messages : Told(m) => ToldThen(m)
  BY ToldKept
<1>4. ASSUME NEW v,
             v.round \in Nat, v.orders \in Nat, v.manifest \in Nat \cup {None},
             v.round <= round,
             v.round = round =>
               /\ v.rows \subseteq 1..ledger /\ v.orders <= orders
               /\ v.manifest # None => v.manifest <= lineage
      PROVE  /\ v.round <= round'
             /\ v.round = round' =>
                  /\ v.rows \subseteq 1..ledger' /\ v.orders <= orders'
                  /\ v.manifest # None => v.manifest <= lineage'
  <2>1. round' \in Nat /\ ledger' \in Int /\ orders' \in Int /\ lineage' \in Int
    <3>1. RoomTyped'
      <4>1. TypeOK'
        BY TypeStep
      <4> QED
        BY <4>1, TypeParts, PTL
    <3> QED
      BY <3>1 DEF RoomTyped
  <2>2. CASE round' > round
    BY <1>1, <1>4, <2>1, <2>2
  <2>3. CASE /\ round' = round /\ lineage' \in Nat /\ lineage <= lineage'
             /\ ledger <= ledger' /\ orders <= orders'
    BY <1>1, <1>4, <2>1, <2>3
  <2> QED
    BY <1>1, <2>2, <2>3 DEF RoomGrows
<1>5. ASSUME view' = view
      PROVE  view'.round <= round' /\ ViewIsTrue'
  BY <1>1, <1>4, <1>5 DEF WireSound, ViewIsTrue
<1>6. CASE Write
  <2>1. PICK e \in {Outgoing, Encoded(Outgoing)} : down' = Append(down, e)
    BY <1>6 DEF Write
  <2>2. hand # None /\ Told(hand) /\ view' = view
    BY <1>6 DEF Write, OutboxSound, clientVars
  <2>3. e \in Messages /\ Told(e)
    BY <2>2, WrittenTold
  <2>4. /\ Len(down') = Len(down) + 1 /\ down'[Len(down) + 1] = e
        /\ \A i \in 1..Len(down) : down'[i] = down[i]
    BY <2>1, <2>3, OnWire
  <2>5. ASSUME NEW i \in 1..Len(down') PROVE ToldThen(down'[i])
    BY <1>1, <1>2, <1>3, <2>3, <2>4
  <2> QED
    BY <1>5, <2>2, <2>5 DEF WireSound, Told, ToldThen
<1>7. CASE Receive \/ ReceiveUndecodable
  <2>1. down # <<>> /\ down' = Tail(down)
    BY <1>7 DEF Receive, ReceiveUndecodable
  <2>2. /\ Head(down) = down[1] /\ 1 \in 1..Len(down) /\ Len(down') = Len(down) - 1
        /\ \A i \in 1..Len(down') : down'[i] = down[i + 1]
    BY <2>1, HeadType
  <2>3. ASSUME NEW i \in 1..Len(down') PROVE ToldThen(down'[i])
    BY <1>1, <1>2, <1>3, <2>2
  <2>4. CASE view' = view
    BY <1>5, <2>3, <2>4 DEF WireSound, Told, ToldThen
  <2>5. CASE view' = Applied(down[1])
    <3> DEFINE v == Applied(down[1])
    <3>1. down[1] \in Messages /\ Told(down[1])
      BY <1>2, <2>2
    <3>2. /\ v.round <= round
          /\ v.round = round =>
               /\ v.rows \subseteq 1..ledger /\ v.orders <= orders
               /\ v.manifest # None => v.manifest <= lineage
      BY <3>1, AppliedIsTrue
    <3>3. v.round \in Nat /\ v.orders \in Nat /\ v.manifest \in Nat \cup {None}
      BY <3>1, AppliedType
    <3> HIDE DEF v
    <3>4. view' = v
      BY <2>5 DEF v
    <3>5. view'.round <= round' /\ ViewIsTrue'
      BY <1>4, <3>2, <3>3, <3>4 DEF ViewIsTrue
    <3> QED
      BY <2>3, <3>5 DEF WireSound, Told, ToldThen
  <2> QED
    BY <1>7, <2>2, <2>4, <2>5 DEF Receive, ReceiveUndecodable
<1>8. CASE UNCHANGED <<down, view>>
  <2>1. ASSUME NEW i \in 1..Len(down') PROVE ToldThen(down'[i])
    BY <1>2, <1>3, <1>8
  <2> QED
    BY <1>5, <1>8, <2>1 DEF WireSound, Told, ToldThen
<1>9. Write \/ Receive \/ ReceiveUndecodable \/ UNCHANGED <<down, view>>
  <2>1. CASE TakeResync \/ Take \/ WriteRefused \/ UNCHANGED vars
    BY <2>1 DEF TakeResync, Take, WriteRefused, vars, clientVars
  <2>2. CASE Destroy \/ Order \/ NewLineage \/ ResetRound \/ StartBattle \/ BattleLive
    BY <2>2 DEF Destroy, Order, NewLineage, ResetRound, StartBattle, BattleLive, clientVars
  <2>3. CASE (\E section \in Sections : Age(section)) \/ Compose \/ Offer
    BY <2>3 DEF Age, Compose, Offer, clientVars
  <2> QED
    BY <2>1, <2>2, <2>3 DEF Next
<1> QED
  BY <1>6, <1>7, <1>8, <1>9

\* The client never shows more of a round than the server's round has had.
THEOREM StreamViewIsTrue == Spec => []ViewIsTrue
<1>1. Init => WireSound
  BY DEF Init, WireSound, ViewIsTrue
<1>2. TypeOK /\ OutboxSound /\ WireSound /\ [Next]_vars => OutboxSound' /\ WireSound'
  BY OutboxKept, WireStep
<1>3. WireSound => ViewIsTrue
  BY DEF WireSound
<1> QED
  BY <1>1, <1>2, <1>3, OutboxInit, StreamTypeOK, PTL DEF Spec

-------------------------------------------------------------------------------
(* The repair a client waits for. *)

Complete(m) == IsSnapshot(m) /\ m.full
CompleteQueued == \E i \in 1..Len(queue) : Complete(queue[i])
CompleteInHand == hand # None /\ Complete(hand)
CompleteOnWire == \E i \in 1..Len(down) : IsSnapshot(down[i]) /\ down[i].from = None
Answered == up > 0 \/ resync \/ CompleteQueued \/ CompleteInHand \/ CompleteOnWire

LEMMA AnsweredParts ==
    AskedIsAnswered <=> (asked => Answered)
BY DEF AskedIsAnswered, Answered, CompleteQueued, CompleteInHand, CompleteOnWire, Complete,
       InOutbox, Values

\* What is enqueued joins what is queued already.
LEMMA PutAnswers ==
    ASSUME TypeOK, NEW m, Put(m)
    PROVE  CompleteQueued \/ Complete(m) => CompleteQueued'
<1>1. /\ queue'[Len(queue) + 1] = m /\ Len(queue') = Len(queue) + 1
      /\ \A i \in 1..Len(queue) : queue'[i] = queue[i]
  <2>1. queue \in Seq(Messages) /\ queue' = Append(queue, m)
    BY DEF Put, TypeOK
  <2> QED
    BY <2>1
<1>2. Len(queue) \in Nat
  BY DEF TypeOK
<1>3. ASSUME CompleteQueued PROVE CompleteQueued'
  <2>1. PICK i \in 1..Len(queue) : Complete(queue[i])
    BY <1>3 DEF CompleteQueued
  <2>2. i \in 1..Len(queue') /\ Complete(queue'[i])
    BY <1>1, <1>2, <2>1
  <2> QED
    BY <2>2 DEF CompleteQueued
<1>4. ASSUME Complete(m) PROVE CompleteQueued'
  <2>1. Len(queue) + 1 \in 1..Len(queue') /\ Complete(queue'[Len(queue) + 1])
    BY <1>1, <1>2, <1>4
  <2> QED
    BY <2>1 DEF CompleteQueued
<1> QED
  BY <1>3, <1>4

\* Every step keeps the answer coming.
LEMMA AnswerStep ==
    ASSUME TypeOK, OutboxSound, asked => Answered, [Next]_vars
    PROVE  asked' => Answered'
<1>1. /\ up \in Nat /\ queue \in Seq(Messages) /\ down \in Seq(Messages)
      /\ Len(queue) \in Nat /\ Len(down) \in Nat
  BY DEF TypeOK
<1>2. CASE UNCHANGED <<asked, up, resync, queue, hand, down>>
  BY <1>2 DEF Answered, CompleteQueued, CompleteInHand, CompleteOnWire
<1>3. ASSUME UNCHANGED <<asked, up, resync, hand, down>>, NEW m, Put(m)
      PROVE  asked' => Answered'
  BY <1>3, PutAnswers DEF Answered, CompleteInHand, CompleteOnWire
<1>4. CASE ResetRound \/ StartBattle \/ BattleLive
  <2>1. UNCHANGED <<asked, up, resync, hand, down>>
    BY <1>4 DEF ResetRound, StartBattle, BattleLive, frontiers, clientVars
  <2>2. \E m : Put(m)
    BY <1>4 DEF ResetRound, StartBattle, BattleLive
  <2> QED
    BY <1>3, <2>1, <2>2
<1>5. CASE TakeResync
  <2> DEFINE m == [Message("snapshot", TRUE, -1, [base |-> 0, top |-> ledger]) EXCEPT !.repair = TRUE]
  <2>1. Complete(m)
    BY DEF Complete, IsSnapshot, Message
  <2> HIDE DEF m
  <2>2. Put(m) \/ resync' = TRUE
    BY <1>5 DEF TakeResync, m
  <2> QED
    BY <2>1, <2>2, PutAnswers DEF Answered
<1>6. CASE Offer
  <2> DEFINE m == [tick EXCEPT !.repair = resync]
  <2>1. UNCHANGED <<asked, up, hand, down>> /\ tick # None
    BY <1>6 DEF Offer, clientVars
  <2>2. Complete(tick) /\ tick \in Messages
    BY <2>1 DEF OutboxSound, OutboxPlain, Complete, TypeOK
  <2>3. Complete(m)
    BY <2>2 DEF Complete, IsSnapshot, Messages
  <2> HIDE DEF m
  <2>4. \/ UNCHANGED <<resync, queue>>
        \/ Put(m)
        \/ resync' = TRUE
    <3>1. resync \in BOOLEAN
      BY TypeParts DEF FrontTyped
    <3>2. ~tick.manifest => ResyncAfter(tick) = resync
      BY <3>1 DEF ResyncAfter
    <3> QED
      BY <1>6, <3>2 DEF Offer, m
  <2> QED
    BY <1>2, <2>1, <2>3, <2>4, PutAnswers DEF Answered
<1>7. CASE Take
  <2>1. UNCHANGED <<asked, up, resync, down>> /\ hand = None
    BY <1>7 DEF Take, frontiers, clientVars
  <2>2. ASSUME CompleteQueued PROVE CompleteQueued' \/ CompleteInHand'
    <3>1. PICK i \in 1..Len(queue) : Complete(queue[i])
      BY <2>2 DEF CompleteQueued
    <3>2. queue # <<>>
      BY <3>1
    <3>3. hand' = Head(queue) /\ queue' = Tail(queue)
      BY <1>7, <3>2 DEF Take
    <3>4. /\ Head(queue) = queue[1] /\ Head(queue) \in Messages /\ Len(queue') = Len(queue) - 1
          /\ \A j \in 1..Len(queue') : queue'[j] = queue[j + 1]
      BY <1>1, <3>2, <3>3, FirstOf
    <3>5. CASE i = 1
      BY <3>1, <3>3, <3>4, <3>5, NoneAssumption DEF CompleteInHand
    <3>6. CASE i # 1
      <4>1. i - 1 \in 1..Len(queue') /\ (i - 1) + 1 = i
        BY <1>1, <3>1, <3>4, <3>6
      <4>2. Complete(queue'[i - 1])
        BY <3>1, <3>4, <4>1
      <4> QED
        BY <4>1, <4>2 DEF CompleteQueued
    <3> QED
      BY <3>5, <3>6
  <2> QED
    BY <2>1, <2>2 DEF Answered, CompleteInHand, CompleteOnWire
<1>8. CASE Write
  <2>1. UNCHANGED <<asked, up, resync, queue>> /\ hand # None
    BY <1>8 DEF Write, clientVars
  <2>2. PICK e \in {Outgoing, Encoded(Outgoing)} : down' = Append(down, e)
    BY <1>8 DEF Write
  <2>3. hand \in Messages /\ Outgoing \in Messages /\ e \in Messages
    BY <2>1, <2>2, WriteType
  <2>4. /\ Len(down') = Len(down) + 1 /\ down'[Len(down) + 1] = e
        /\ \A i \in 1..Len(down) : down'[i] = down[i]
    BY <2>2, <2>3, OnWire
  <2>5. ASSUME CompleteOnWire PROVE CompleteOnWire'
    <3>1. PICK i \in 1..Len(down) : IsSnapshot(down[i]) /\ down[i].from = None
      BY <2>5 DEF CompleteOnWire
    <3>2. i \in 1..Len(down') /\ down'[i] = down[i]
      BY <1>1, <2>4
    <3> QED
      BY <3>1, <3>2 DEF CompleteOnWire
  <2>6. ASSUME CompleteInHand PROVE CompleteOnWire'
    <3>1. hand.from = None /\ IsSnapshot(hand) /\ hand.full
      BY <2>1, <2>6 DEF CompleteInHand, Complete, OutboxSound, OutboxPlain, Plain
    <3>2. Outgoing.from = None /\ IsSnapshot(Outgoing) /\ Outgoing.full
      BY <2>3, <3>1 DEF Outgoing, IsSnapshot, Messages
    <3>3. e.from = None /\ IsSnapshot(e)
      BY <2>2, <2>3, <3>2 DEF Encoded, IsSnapshot, Messages
    <3>4. Len(down) + 1 \in 1..Len(down')
      BY <1>1, <2>4
    <3> QED
      BY <2>4, <3>3, <3>4 DEF CompleteOnWire
  <2> QED
    BY <2>1, <2>5, <2>6 DEF Answered, CompleteQueued
<1>9. CASE WriteRefused
  BY <1>9 DEF WriteRefused, Answered
<1>10. CASE Receive \/ ReceiveUndecodable
  <2>1. UNCHANGED <<resync, queue, hand>> /\ down # <<>> /\ down' = Tail(down)
    BY <1>10 DEF Receive, ReceiveUndecodable, frontiers, outboxVars
  <2>2. /\ Head(down) = down[1] /\ 1 \in 1..Len(down) /\ Len(down') = Len(down) - 1
        /\ \A i \in 1..Len(down') : down'[i] = down[i + 1]
    BY <2>1, HeadType
  <2>3. ASSUME CompleteOnWire, ~(IsSnapshot(down[1]) /\ down[1].from = None)
        PROVE  CompleteOnWire'
    <3>1. PICK i \in 1..Len(down) : IsSnapshot(down[i]) /\ down[i].from = None
      BY <2>3 DEF CompleteOnWire
    <3>2. i # 1
      BY <2>3, <3>1
    <3>3. i - 1 \in 1..Len(down') /\ (i - 1) + 1 = i
      BY <1>1, <2>2, <3>2
    <3>4. down'[i - 1] = down[i]
      BY <2>2, <3>3
    <3> QED
      BY <3>1, <3>3, <3>4 DEF CompleteOnWire
  <2>4. asked' => \/ asked /\ up' = up /\ ~(IsSnapshot(down[1]) /\ down[1].from = None)
                  \/ up' = up + 1
    BY <1>10, <2>2 DEF Receive, ReceiveUndecodable
  <2> QED
    BY <1>1, <2>1, <2>3, <2>4 DEF Answered, CompleteQueued, CompleteInHand
<1>11. CASE Destroy \/ Order \/ NewLineage \/ (\E section \in Sections : Age(section)) \/ Compose
            \/ UNCHANGED vars
  BY <1>2, <1>11 DEF Destroy, Order, NewLineage, Age, Compose, vars, frontiers, outboxVars, clientVars
<1> QED
  BY <1>4, <1>5, <1>6, <1>7, <1>8, <1>9, <1>10, <1>11 DEF Next

\* A client that waits for a repair is always about to get a complete snapshot.
THEOREM StreamAskedIsAnswered == Spec => []AskedIsAnswered
<1>1. Init => AskedIsAnswered
  BY DEF Init, AskedIsAnswered
<1>2. TypeOK /\ OutboxSound /\ AskedIsAnswered /\ [Next]_vars => OutboxSound' /\ AskedIsAnswered'
  <2> SUFFICES ASSUME TypeOK, OutboxSound, AskedIsAnswered, [Next]_vars
               PROVE  OutboxSound' /\ AskedIsAnswered'
    OBVIOUS
  <2>1. OutboxSound'
    BY OutboxKept
  <2>2. asked' => Answered'
    BY AnsweredParts, AnswerStep
  <2>3. AskedIsAnswered' <=> (asked' => Answered')
    BY AnsweredParts, PTL
  <2> QED
    BY <2>1, <2>2, <2>3
<1> QED
  BY <1>1, <1>2, OutboxInit, StreamTypeOK, PTL DEF Spec
=============================================================================
