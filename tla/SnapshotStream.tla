--------------------------- MODULE SnapshotStream ---------------------------
(***************************************************************************)
(* The snapshots of a battle on one connection.  Every tick the server     *)
(* composes a snapshot for the endpoint (lan_battle_server.py, tick_once): *)
(* the actors, and what the endpoint still lacks of three sections, the    *)
(* Bot manifest, the Bot orders and the ledger of destructions.  The       *)
(* writer thread sends the actors as a delta against the snapshot written  *)
(* before and moves the frontiers of the sections when a write has         *)
(* completed (_write_message).  The client decodes on its network thread,  *)
(* asks for a repair when it cannot (lan_client.py).                       *)
(*                                                                         *)
(* An actor's state is left out: a delta decodes iff it was made against   *)
(* the snapshot the client decoded last.  The row with revision r of the   *)
(* ledger is the number r, so a page of rows is an interval.  The outbox   *)
(* is that of EndpointOutbox without its limits and its failures, which    *)
(* end the connection and this story.                                      *)
(***************************************************************************)
EXTENDS Integers, Sequences

CONSTANTS
    None,         \* no message, no baseline, no manifest
    PageRows,     \* rows of the ledger that fit into one snapshot
    MaxWire,      \* messages the socket holds before a write blocks
    MaxSeq,       \* bound: _snapshot_sequence counts modulo MaxSeq + 1
    MaxChanges,   \* bound: rounds, authority epochs and manifests, and revisions of
                  \* the orders together
    MaxEvents,    \* bound: destructions and revisions of the orders of a round
    MaxQueue,     \* bound: reliable messages waiting to be written
    MaxFaults     \* bound: snapshots that exceed the wire budget, fail to
                  \* decode, or are dropped by the client

ASSUME StreamAssumption ==
    /\ {PageRows, MaxWire, MaxSeq, MaxChanges, MaxQueue} \subseteq Nat \ {0}
    /\ {MaxEvents, MaxFaults} \subseteq Nat

VARIABLES
    phase, round, lineage,  \* the room; a lineage is an epoch and a manifest
    ledger, orders,         \* destructible_revision and bot_orders.revision
    sent,     \* the endpoint's frontiers: *_revision_sent, bot_manifest_*_sent
    aged,     \* the section that is due again, "sent" just after it was sent
    resync,   \* snapshot_resync_requested
    replay,   \* _destructible_replay_required
    tick,     \* the snapshot the tick thread has composed and not yet offered
    queue, slot, hand,      \* the outbox, and the message the writer writes
    base,     \* _snapshot_baseline of the writer
    down, up,               \* the socket: messages, and requests for a repair
    known, asked,  \* _snapshot_wire_baseline and _snapshot_resync_pending
    view,     \* what the client has applied
    decoded,  \* rows of the round the client has decoded
    faults

roomVars   == <<phase, round, lineage, ledger, orders>>
frontiers  == <<sent, aged, resync, replay>>
outboxVars == <<queue, slot, hand, base>>
clientVars == <<known, asked, view, decoded>>
vars == <<roomVars, frontiers, tick, outboxVars, down, up, clientVars, faults>>

Lines == (1..MaxChanges) \X (1..MaxChanges)
SeqNumbers == 0..MaxSeq
Page == [base : -1..MaxEvents, top : -1..MaxEvents]
Messages == [type : {"snapshot", "roster", "start", "live"}, round : 1..MaxChanges,
             lineage : 1..MaxChanges, manifest : BOOLEAN,
             orders : -1..MaxEvents, page : Page, full : BOOLEAN,
             repair : BOOLEAN, seq : SeqNumbers \cup {None},
             from : SeqNumbers \cup {None}]

ASSUME NoneAssumption == None \notin Messages \cup Lines

Sections == {"manifest", "orders", "ledger"}

\* A page holds the rows after its base up to its top.
NoPage == [base |-> -1, top |-> -1]
Rows(page) == (page.base + 1)..page.top \ {0}

Line(m) == <<m.round, m.lineage>>

\* A message: a snapshot or one of the barriers of a round.  seq is its
\* place in the delta chain and from the snapshot a delta was made against.
Message(type, manifest, revision, page) ==
    [type |-> type, round |-> round, lineage |-> lineage,
     manifest |-> manifest, orders |-> revision, page |-> page,
     full |-> TRUE, repair |-> FALSE, seq |-> None, from |-> None]

IsSnapshot(m) == m.type = "snapshot"

Fault == faults < MaxFaults /\ faults' = faults + 1

\* _snapshot_sequence.
NextSeq(s) == (s + 1) % (MaxSeq + 1)

----------------------------------------------------------------------------
(* The room *)

\* _enqueue_reliable: what is enqueued is newer than the slot and fences it.
Put(m) ==
    /\ Len(queue) < MaxQueue
    /\ queue' = Append(queue, m) /\ slot' = None

\* The bound on the changes, of which n more are counted.
ChangesLeft(n) == round + lineage + orders + n <= MaxChanges

\* report_destructible.
Destroy ==
    /\ phase = "battle" /\ ledger + orders < MaxEvents
    /\ ledger' = ledger + 1
    /\ UNCHANGED <<phase, round, lineage, orders, frontiers, tick, outboxVars,
                   down, up, clientVars, faults>>

\* The planner of the tick thread builds new orders, before the tick captures
\* what its snapshot shows.
Order ==
    /\ phase = "battle" /\ tick = None /\ ledger + orders < MaxEvents /\ ChangesLeft(ledger)
    /\ orders' = orders + 1
    /\ UNCHANGED <<phase, round, lineage, ledger, frontiers, tick, outboxVars,
                   down, up, clientVars, faults>>

\* The authority or its manifest changes.
NewLineage ==
    /\ phase = "battle" /\ ChangesLeft(ledger)
    /\ lineage' = lineage + 1
    /\ UNCHANGED <<phase, round, ledger, orders, frontiers, tick, outboxVars,
                   down, up, clientVars, faults>>

\* _reset_round, and the roster it broadcasts.
ResetRound ==
    /\ phase = "battle" /\ ChangesLeft(0)
    /\ phase' = "waiting" /\ round' = round + 1
    /\ ledger' = 0 /\ orders' = 0
    /\ lineage' = 1 /\ aged' = None
    /\ sent' = [sent EXCEPT !.ledger = -1, !.orders = -1]
    /\ Put([Message("roster", FALSE, -1, NoPage) EXCEPT !.round = round + 1])
    /\ UNCHANGED <<resync, replay, tick, hand, base, down, up, clientVars,
                   faults>>

\* request_start: the message carries every section.
StartBattle ==
    /\ phase = "waiting" /\ phase' = "loading"
    /\ Put(Message("start", TRUE, orders, [base |-> 0, top |-> ledger]))
    /\ UNCHANGED <<round, lineage, ledger, orders, frontiers, tick, hand, base,
                   down, up, clientVars, faults>>

\* battle_ready: the client has loaded the round it was told to start.
BattleLive ==
    /\ phase = "loading" /\ view.loaded = round
    /\ phase' = "battle"
    /\ Put(Message("live", FALSE, -1, NoPage))
    /\ UNCHANGED <<round, lineage, ledger, orders, frontiers, tick, hand, base,
                   down, up, clientVars, faults>>

\* request_snapshot_resync.  A load whose authority has not published its
\* manifest leaves it to the first snapshot of the battle.
TakeResync ==
    /\ up > 0 /\ up' = up - 1
    /\ \/ /\ phase = "loading"
          /\ Put([Message("snapshot", TRUE, -1, [base |-> 0, top |-> ledger])
                    EXCEPT !.repair = TRUE])
          /\ UNCHANGED resync
       \/ /\ resync' = TRUE
          /\ UNCHANGED <<queue, slot>>
    /\ UNCHANGED <<roomVars, sent, aged, replay, tick, hand, base, down,
                   clientVars, faults>>

\* The tick comes *_REFRESH_TICKS after the section was sent.  That is 5 or
\* 10 s; a steady snapshot is taken to be written between two such occasions,
\* since a writer that makes no progress for 5 s gives up the connection.
Age(section) ==
    /\ phase = "battle" /\ tick = None /\ aged = None
    /\ aged' = section
    /\ UNCHANGED <<roomVars, sent, resync, replay, tick, outboxVars, down, up,
                   clientVars, faults>>

----------------------------------------------------------------------------
(* The tick thread *)

Lesser(a, b) == IF a < b THEN a ELSE b

LineageChanged == sent.manifest # <<round, lineage>>

\* Mutant: a replay sends what is newer than the frontier only.
PagesAfterFrontier ==
    LET after == IF 0 <= sent.ledger THEN sent.ledger ELSE 0
    IN  [base : {after}, top : {Lesser(ledger, after + PageRows)}]

\* The pages a snapshot may carry: after what was sent, or all over again.
Pages ==
    LET after == IF ~replay /\ 0 <= sent.ledger /\ sent.ledger < ledger
                 THEN sent.ledger ELSE 0
    IN  [base : {after},
         top : IF after = ledger THEN {ledger}
               ELSE after + 1 .. Lesser(ledger, after + PageRows)]

\* tick_once captures the room under its lock and composes the snapshot after
\* releasing it, reading the frontiers the writer may be moving.  The two are
\* one step, because nothing the writer does depends on the room.
\* - A due manifest travels without the other sections.  If only its cadence
\*   or a repair asks for it and it does not fit, it waits.
\* - The orders give way to the first row of a page.  Either alone is taken to
\*   fit beside the actors.
Compose ==
    LET manifestDue == LineageChanged \/ aged = "manifest" \/ resync
        ordersDue   == sent.orders # orders \/ aged = "orders"
        ledgerDue   == replay \/ sent.ledger # ledger \/ aged = "ledger"
    IN
    /\ tick = None /\ phase = "battle"
    /\ \/ /\ manifestDue
          /\ tick' = Message("snapshot", TRUE, -1, NoPage)
          /\ UNCHANGED faults
       \/ /\ manifestDue /\ ~LineageChanged
          /\ Fault
          /\ tick' = Message("snapshot", FALSE, -1, NoPage)
       \/ /\ ~manifestDue
          /\ \E page \in IF ledgerDue THEN Pages ELSE {NoPage},
                with \in BOOLEAN :
                /\ with => ordersDue
                /\ ~with => ~ordersDue \/ Rows(page) # {}
                /\ tick' = Message("snapshot", FALSE,
                                   IF with THEN orders ELSE -1, page)
          /\ UNCHANGED faults
    /\ UNCHANGED <<roomVars, frontiers, outboxVars, down, up, clientVars>>

\* Mutant: the flag is cleared with every snapshot.
ResyncForgotten(m) == FALSE

\* What an offered snapshot leaves of the repair that was asked for.
ResyncAfter(m) == resync /\ ~m.manifest

\* The second look at the room, under its lock, and the offer.  The repair
\* flag is read here again: a repair that was asked for meanwhile goes with a
\* snapshot that carries the manifest, and waits for one otherwise.
Offer ==
    /\ tick # None /\ tick' = None
    /\ LET m == tick
           current == Line(m) = <<round, lineage>>
       IN  \/ /\ ~current
              /\ UNCHANGED <<sent, aged, resync, queue, slot, faults>>
           \/ /\ Fault   \* state_revision has changed
              /\ UNCHANGED <<sent, aged, resync, queue, slot>>
           \/ /\ current /\ m.manifest
              /\ Put([m EXCEPT !.repair = resync])
              /\ resync' = ResyncAfter(m)
              /\ sent' = [sent EXCEPT !.manifest = Line(m)]
              /\ aged' = IF aged = "manifest" THEN "sent" ELSE aged
              /\ UNCHANGED faults
           \/ /\ current /\ m.manifest
              /\ Fault
              /\ resync' = TRUE
              /\ UNCHANGED <<sent, aged, queue, slot>>
           \/ /\ current /\ ~m.manifest
              /\ slot' = [m EXCEPT !.full = FALSE]
              /\ aged' = IF aged = "manifest" THEN "sent" ELSE aged
              /\ resync' = ResyncAfter(m)
              /\ UNCHANGED <<sent, queue, faults>>
    /\ UNCHANGED <<roomVars, replay, hand, base, down, up, clientVars>>

----------------------------------------------------------------------------
(* The writer thread *)

\* _outbox_loop: reliable messages first.
Take ==
    /\ hand = None
    /\ \/ /\ queue # <<>>
          /\ hand' = Head(queue) /\ queue' = Tail(queue)
          /\ UNCHANGED slot
       \/ /\ queue = <<>> /\ slot # None
          /\ hand' = slot /\ slot' = None
          /\ UNCHANGED queue
    /\ UNCHANGED <<roomVars, frontiers, tick, base, down, up, clientVars, faults>>

\* A page prepared before a repair would hide the rows before its base.
Outgoing ==
    IF replay /\ IsSnapshot(hand) /\ hand.page.base > 0
    THEN [hand EXCEPT !.page = NoPage] ELSE hand

\* snapshot_delta.encode, and what becomes of the baseline.  That a snapshot
\* also goes complete when its rows have come into another order, or when its
\* delta does not fit the wire, is left out: it leaves the same baseline, and
\* needs none to be decoded.
Encoded(m) ==
    IF ~IsSnapshot(m) THEN m
    ELSE [m EXCEPT !.seq = NextSeq(base.seq),
                   !.from = IF m.full \/ base.line # Line(m) THEN None
                            ELSE base.seq]
NextBase(m) ==
    IF IsSnapshot(m) THEN [seq |-> NextSeq(base.seq), line |-> Line(m)]
    ELSE [base EXCEPT !.line = None]

\* _mark_message_sent, after a repair has reset the frontiers.
Marked(m) ==
    [sent EXCEPT
       !.ledger = IF m.page # NoPage THEN m.page.top
                  ELSE IF m.repair THEN -1 ELSE @,
       !.orders = IF m.orders # -1 THEN m.orders
                  ELSE IF m.repair THEN -1 ELSE @]

\* _write_message.  The frontiers move in the step that puts the message on
\* the wire: nothing the client does in between depends on them.  A snapshot
\* that fits without the metadata of the codec only goes without, complete.
Write ==
    /\ hand # None /\ Len(down) < MaxWire
    /\ LET m == Outgoing IN
       /\ \/ /\ down' = Append(down, Encoded(m))
             /\ base' = NextBase(m)
             /\ UNCHANGED faults
          \/ /\ IsSnapshot(m) /\ Fault
             /\ down' = Append(down, m)
             /\ base' = [base EXCEPT !.line = None]
       /\ sent' = Marked(m)
       /\ replay' = (m.page = NoPage /\ (replay \/ m.repair))
       /\ aged' = CASE aged = "ledger" /\ m.page # NoPage -> "sent"
                    [] aged = "orders" /\ m.orders # -1 -> "sent"
                    [] aged = "sent" /\ ~m.full -> None
                    [] OTHER -> aged
    /\ hand' = None
    /\ UNCHANGED <<roomVars, resync, tick, queue, slot, up, clientVars>>

\* Mutant: the baseline is committed before the payload is checked.
WriteRefusedCommits ==
    /\ hand # None /\ IsSnapshot(hand) /\ Fault
    /\ resync' = TRUE /\ hand' = None /\ base' = NextBase(hand)
    /\ UNCHANGED <<roomVars, sent, aged, replay, tick, queue, slot, down, up,
                   clientVars>>

\* The encoded snapshot exceeds the wire budget: nothing is written.
WriteRefused ==
    /\ hand # None /\ IsSnapshot(hand)
    /\ Fault
    /\ resync' = TRUE /\ hand' = None
    /\ UNCHANGED <<roomVars, sent, aged, replay, tick, queue, slot, base, down,
                   up, clientVars>>

----------------------------------------------------------------------------
(* The client *)

\* Mutant: a roster leaves what the last round has shown.
AppliedKeeping(m) ==
    IF IsSnapshot(m) THEN [view EXCEPT !.rows = @ \cup Rows(m.page)]
    ELSE [view EXCEPT !.round = m.round, !.loaded = IF m.type = "start" THEN m.round ELSE @]

\* What a message does to the view.  A snapshot of an earlier round, or one
\* without a manifest before the round's first, is ignored.
Applied(m) ==
    IF m.type \in {"roster", "start"}
    THEN [round |-> m.round, loaded |-> IF m.type = "start" THEN m.round ELSE 0,
          rows |-> {}, orders |-> 0, manifest |-> None]
    ELSE IF /\ IsSnapshot(m) /\ m.round = view.round
            /\ m.manifest \/ view.manifest # None
    THEN [view EXCEPT !.rows = @ \cup Rows(m.page),
                      !.orders = IF m.orders > @ THEN m.orders ELSE @,
                      !.manifest = IF m.manifest THEN m.lineage ELSE @]
    ELSE view

\* snapshot_delta.decode accepts the message.
Decodes(m) == m.from # None => known = [seq |-> m.from, line |-> Line(m)]

\* _decode_received_snapshot, and what the frame callback does with the message
\* later; in between a full queue may drop a snapshot.
Receive ==
    /\ down # <<>> /\ down' = Tail(down)
    /\ LET m == Head(down) IN
       /\ IsSnapshot(m) => Decodes(m)
       /\ IF IsSnapshot(m)
          THEN /\ known' = IF m.seq = None THEN None
                           ELSE [seq |-> m.seq, line |-> Line(m)]
               /\ asked' = (asked /\ m.from # None)
          ELSE UNCHANGED <<known, asked>>
       /\ decoded' = IF m.type = "roster" THEN {}
                     ELSE decoded \cup Rows(m.page)
       /\ \/ view' = Applied(m) /\ UNCHANGED faults
          \/ /\ IsSnapshot(m) /\ Fault
             /\ UNCHANGED view
    /\ UNCHANGED <<roomVars, frontiers, tick, outboxVars, up>>

\* A delta without its baseline, or one the client fails to apply: it forgets
\* its baseline and asks for a repair, unless it already has.
ReceiveUndecodable ==
    /\ down # <<>> /\ down' = Tail(down)
    /\ LET m == Head(down) IN
       /\ IsSnapshot(m) /\ m.from # None
       /\ \/ ~Decodes(m) /\ UNCHANGED faults
          \/ Decodes(m) /\ Fault
    /\ known' = None
    /\ asked' = TRUE
    /\ up' = IF asked THEN up ELSE up + 1
    /\ UNCHANGED <<roomVars, frontiers, tick, outboxVars, view, decoded>>

----------------------------------------------------------------------------

\* A client has connected and read the roster of round 1.
Init ==
    /\ phase = "waiting" /\ round = 1 /\ lineage = 1
    /\ ledger = 0 /\ orders = 0
    /\ sent = [ledger |-> -1, orders |-> -1, manifest |-> None]
    /\ aged = None /\ resync = FALSE /\ replay = FALSE
    /\ tick = None
    /\ queue = <<>> /\ slot = None /\ hand = None
    /\ base = [seq |-> 0, line |-> None]
    /\ down = <<>> /\ up = 0
    /\ known = None /\ asked = FALSE
    /\ view = [round |-> 1, loaded |-> 0, rows |-> {}, orders |-> 0, manifest |-> None]
    /\ decoded = {}
    /\ faults = 0

Next ==
    \/ Destroy \/ Order \/ NewLineage
    \/ ResetRound \/ StartBattle \/ BattleLive
    \/ TakeResync
    \/ \E section \in Sections : Age(section)
    \/ Compose \/ Offer
    \/ Take \/ Write \/ WriteRefused
    \/ Receive \/ ReceiveUndecodable

Spec == Init /\ [][Next]_vars

\* The tick thread runs at a fixed rate, the writer ends every write, the
\* client reads its socket, every section comes to its cadence again and again.
\* That its requests for a repair are read is not needed.
Fairness ==
    /\ WF_vars(Compose \/ Offer)
    /\ WF_vars(Take \/ Write)
    /\ WF_vars(Receive \/ ReceiveUndecodable)
    /\ \A section \in Sections : SF_vars(Age(section))

FairSpec == Spec /\ Fairness

----------------------------------------------------------------------------
(* Properties *)

\* Every variable has its type.
TypeOK ==
    /\ phase \in {"waiting", "loading", "battle"}
    /\ round \in 1..MaxChanges /\ lineage \in 1..MaxChanges
    /\ ledger \in 0..MaxEvents /\ orders \in 0..MaxEvents
    /\ sent \in [ledger : -1..MaxEvents, orders : -1..MaxEvents,
                 manifest : Lines \cup {None}]
    /\ aged \in Sections \cup {"sent", None}
    /\ resync \in BOOLEAN /\ replay \in BOOLEAN
    /\ tick \in Messages \cup {None}
    /\ queue \in Seq(Messages) /\ Len(queue) <= MaxQueue
    /\ slot \in Messages \cup {None} /\ hand \in Messages \cup {None}
    /\ base \in [seq : SeqNumbers, line : Lines \cup {None}]
    /\ down \in Seq(Messages) /\ Len(down) <= MaxWire /\ up \in Nat
    /\ known \in [seq : SeqNumbers, line : Lines] \cup {None}
    /\ asked \in BOOLEAN
    /\ view \in [round : 1..MaxChanges, loaded : 0..MaxChanges,
                 rows : SUBSET (1..MaxEvents), orders : 0..MaxEvents,
                 manifest : (1..MaxChanges) \cup {None}]
    /\ decoded \subseteq 1..MaxEvents
    /\ faults \in 0..MaxFaults

Values(s) == {s[i] : i \in 1..Len(s)}
InOutbox == Values(queue) \cup ({hand} \ {None})

\* A repair the server still owes: it has been asked for, or is on its way to
\* the wire, or its replay of the ledger has not begun.
RepairOwed ==
    asked \/ up > 0 \/ resync \/ replay \/ (\E m \in InOutbox : m.repair)

\* Unless a repair is owed, the frontier of the ledger hides no hole in a
\* battle: every row up to it has been decoded by the client or is on the wire
\* to it.  "Sending it now would hide the missing prefix behind its newer
\* revision" (lan_battle_server.py:1910), of a page prepared before a repair.
\* It is not so when two pages were, the first of them a replay
\* (_write_message).
FrontierHidesNoHole ==
    phase = "battle" /\ ~RepairOwed =>
        \A row \in 1..sent.ledger :
            \/ row \in decoded
            \/ \E m \in Values(down) : m.round = round /\ row \in Rows(m.page)

\* down[i] is the snapshot right before down[j].
Precedes(i, j) ==
    i < j /\ IsSnapshot(down[i]) /\ \A k \in i + 1 .. j - 1 : ~IsSnapshot(down[k])

\* A delta on the wire is always made against the snapshot the client decodes
\* just before it, whatever was refused, replaced or fenced in between: only
\* a client that has already lost its baseline refuses one
\* (_write_message, snapshot_delta.decode).
DeltasFollow ==
    \A j \in 1..Len(down) :
        IsSnapshot(down[j]) /\ down[j].from # None =>
            /\ \A i \in 1..Len(down) :
                  Precedes(i, j) => down[j].from = down[i].seq /\ Line(down[j]) = Line(down[i])
            /\ \/ \E i \in 1..j - 1 : IsSnapshot(down[i])
               \/ known \in {None, [seq |-> down[j].from, line |-> Line(down[j])]}

\* A client that has asked for a repair, and so asks no more, gets a complete
\* snapshot: the request is on its way, or noted, or the snapshot is.
AskedIsAnswered ==
    asked => \/ up > 0 \/ resync
             \/ \E m \in InOutbox : IsSnapshot(m) /\ m.full
             \/ \E m \in Values(down) : IsSnapshot(m) /\ m.from = None

\* The client never shows a destruction, orders or a manifest that the server's
\* round has not had, whatever is still on its way when a round is reset
\* (_reset_round, and the client's guards in its snapshot handler).
ViewIsTrue ==
    view.round = round =>
        /\ view.rows \subseteq 1..ledger /\ view.orders <= orders
        /\ view.manifest # None => view.manifest <= lineage

Shown == view.rows = 1..ledger /\ view.orders = orders /\ view.manifest = lineage

\* Once the room is at rest in a battle, the client comes to show all of it,
\* although deltas are lost, snapshots replaced, refused and dropped, and
\* nothing acknowledges a section.
ViewCatchesUp == <>[](phase = "battle" => Shown)

=============================================================================
