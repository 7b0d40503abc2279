----------------------------- MODULE BotCombat -----------------------------
(***************************************************************************)
(* The combat state of one Bot: its health, whether it lives, burns or is  *)
(* stunned.  Two parties change it.  The server admits external changes    *)
(* (shots, stuns) under its state lock; the simulation worker advances     *)
(* fire, uses the Bot's medkit and lands it after a fall                   *)
(* (bot_runtime.py).  The worker publishes its state in rows that name the *)
(* base revision they derive from and a sequence number; the server        *)
(* accepts a row of its own base that follows the last one, and each       *)
(* external change opens a new base.  Rows ride the ordered queue of the   *)
(* worker's connection, the server's answers ride snapshots, of which the  *)
(* waiting one is replaced by the next.                                    *)
(*                                                                         *)
(* A slice of burning costs one unit of health.  Modules and crew are      *)
(* left out, and so are an authority's handoff, poses and shots.           *)
(***************************************************************************)
EXTENDS Integers, Sequences, FiniteSets

CONSTANTS
    Full,          \* max_health
    FireDuration,  \* FIRE_DURATION_SECONDS, in slices
    MaxHits,       \* bound: shots that reach the Bot
    MaxStuns,      \* bound: stuns
    MaxBurns,      \* bound: slices the worker advances while the Bot burns
    MaxKits,       \* uses of the medkit
    MaxFalls,      \* bound: hard landings
    MaxFailed,     \* bound: rows that cannot be encoded
    MaxUp,         \* bound: rows on their way
    MaxDown        \* bound: snapshots on their way

ASSUME CombatAssumption ==
    /\ Full \in Nat \ {0} /\ FireDuration \in Nat \ {0}
    /\ MaxUp \in Nat \ {0} /\ MaxDown \in Nat \ {0}
    /\ {MaxHits, MaxStuns, MaxBurns, MaxKits, MaxFalls, MaxFailed} \subseteq Nat

VARIABLES
    server,   \* the row of bot_states: the combat state, the uses of the medkit,
              \* combat_revision, combat_base_revision and combat_ack_seq
    worker,   \* the Bot in the worker: the combat state and the uses
    sync,     \* the Bot's row of _combat_sync
    up,       \* publications on their way
    down,     \* snapshots on their way
    count     \* what has happened so far

vars == <<server, worker, sync, up, down, count>>

\* What both sides' signatures range over.  A stun is named by its deadline.
States ==
    [health : 0..Full, alive : BOOLEAN, fire : BOOLEAN, elapsed : 0..FireDuration,
     stun : 0..MaxStuns]

Limited(n) == IF n > 0 THEN n ELSE 0
Least(m, n) == IF m < n THEN m ELSE n

\* What is counted: shots and what they cost, stuns, burning slices, landings,
\* rows not encoded, health lost to contained rows.
Counted == {"shots", "hits", "stuns", "burns", "falls", "failed", "merged"}
Happens(what, bound) == count[what] < bound
Counting(what, n) == count' = [count EXCEPT ![what] = @ + n]

\* The wreck: a dead Bot's fire is out.
Wreck(s) == [s EXCEPT !.alive = FALSE, !.fire = FALSE, !.elapsed = 0]

\* A loss of health, and the wreck when none is left.
Damaged(s, n) ==
    LET left == [s EXCEPT !.health = Limited(@ - n)] IN
    IF left.health > 0 THEN left ELSE Wreck(left)

\* Mutant: the base moves and the revision does not.
NewBase_SameRevision(s) == [server EXCEPT !.state = s, !.base = server.rev + 1]

\* Every change of the state that the worker did not publish opens a new
\* base; the accepted prefix of publications stays.
NewBase(s) == [server EXCEPT !.state = s, !.rev = @ + 1, !.base = server.rev + 1]

(***************************************************************************)
(* The server's external changes.                                          *)
(***************************************************************************)
\* An admitted change to s, or a repair started over.
Committed(s, restart) ==
    LET after == IF server.state.fire /\ s.fire THEN s ELSE [s EXCEPT !.elapsed = 0] IN
    IF after = server.state /\ ~restart THEN server ELSE NewBase(after)

\* A shot damages the hull, ignites it, knocks the crew out, or hits a
\* broken module again.
HitKinds == {"damage", "ignite", "knockout", "again"}

Struck(kind) ==
    CASE kind = "damage" -> Damaged(server.state, 1)
      [] kind = "ignite" -> [server.state EXCEPT !.fire = TRUE]
      [] kind = "knockout" -> Wreck(server.state)
      [] kind = "again" -> server.state

\* A death ends the victim's stun in a commit of its own.
Hit(kind) ==
    /\ server.state.alive /\ Happens("shots", MaxHits)
    /\ LET hit == Committed(Struck(kind), kind = "again") IN
       /\ server' = IF hit.state.alive \/ hit.state.stun = 0 THEN hit
                    ELSE [hit EXCEPT !.state.stun = 0, !.rev = @ + 1, !.base = hit.rev + 1]
       /\ count' = [count EXCEPT !.shots = @ + 1,
                                 !.hits = @ + server.state.health - hit.state.health]
    /\ UNCHANGED <<worker, sync, up, down>>

\* A longer stun replaces the one in force.
Stun ==
    /\ server.state.alive /\ Happens("stuns", MaxStuns)
    /\ server' = Committed([server.state EXCEPT !.stun = count.stuns + 1], FALSE)
    /\ Counting("stuns", 1)
    /\ UNCHANGED <<worker, sync, up, down>>

\* The deadline of the stun passes, or its victim is dead.
ExpireStun ==
    /\ server.state.stun # 0
    /\ server' = Committed([server.state EXCEPT !.stun = 0], FALSE)
    /\ UNCHANGED <<worker, sync, up, down, count>>

(***************************************************************************)
(* The worker's own changes.                                               *)
(***************************************************************************)
\* Slices of time, the first or replayed: a medkit clears only the stun it
\* was used against, and the slices in which the Bot burned burn it as long
\* as the fire lasts.
Advanced(s, slices) ==
    LET treated == IF \E c \in slices : c.clears # 0 /\ c.clears = s.stun
                   THEN [s EXCEPT !.stun = 0] ELSE s
        burns == Cardinality({c \in slices : c.burns})
        lasts == FireDuration - s.elapsed
    IN IF ~s.fire \/ burns = 0 THEN treated
       ELSE IF s.health = 0 THEN [treated EXCEPT !.elapsed = Least(@ + burns, FireDuration)]
       ELSE IF burns < lasts THEN Damaged([treated EXCEPT !.elapsed = @ + burns], burns)
       ELSE Damaged([treated EXCEPT !.fire = FALSE, !.elapsed = 0], lasts)

\* A slice is recorded with the number its publication will have.
Slice(kit) ==
    /\ worker.state.alive /\ (worker.state.fire \/ kit)
    /\ worker.state.fire => Happens("burns", MaxBurns)
    /\ kit => worker.state.stun # 0 /\ worker.used < MaxKits
    /\ LET slice == [at |-> count.burns + worker.used, seq |-> sync.next + 1,
                     burns |-> worker.state.fire, clears |-> IF kit THEN worker.state.stun ELSE 0] IN
       /\ worker' = [state |-> Advanced(worker.state, {slice}),
                     used |-> worker.used + IF kit THEN 1 ELSE 0]
       /\ sync' = [sync EXCEPT !.slices = @ \cup {slice}]
    /\ Counting("burns", IF worker.state.fire THEN 1 ELSE 0)
    /\ UNCHANGED <<server, up, down>>

\* A landing costs health and leaves no slice.
Land ==
    /\ worker.state.alive /\ Happens("falls", MaxFalls)
    /\ worker' = [worker EXCEPT !.state = Damaged(@, 1)]
    /\ Counting("falls", 1)
    /\ UNCHANGED <<server, sync, up, down>>

\* A changed state takes the next sequence number, whether or not its row
\* can be encoded.
Marked ==
    IF worker.state = sync.published THEN sync
    ELSE [sync EXCEPT
        !.next = @ + 1,
        !.pending = @ \cup {[seq |-> sync.next + 1, state |-> worker.state]},
        !.published = worker.state]

Row == [state |-> worker.state, used |-> worker.used, base |-> sync.base, seq |-> Marked.next]

Publish(encoded) ==
    /\ Len(up) < MaxUp
    /\ sync' = Marked
    /\ IF encoded
       THEN up' = Append(up, Row) /\ UNCHANGED count
       ELSE Happens("failed", MaxFailed) /\ Counting("failed", 1) /\ UNCHANGED up
    /\ UNCHANGED <<server, worker, down>>

(***************************************************************************)
(* The server takes a publication.                                         *)
(***************************************************************************)
\* Health is merged, never raised.
Merged(row) ==
    LET health == Least(row.state.health, server.state.health) IN
    [row.state EXCEPT !.health = health, !.alive = @ /\ health > 0]

\* A stun is only the server's to give, and is cleared by one use of the
\* medkit that no earlier row has shown.
StunRefused(row) ==
    /\ row.base >= server.base
    /\ \/ row.state.stun \notin {0, server.state.stun}
       \/ server.state.stun # 0 /\ row.state.stun = 0 /\ row.used # server.used + 1

\* A publication of another lineage than the server's.
Foreign(row) ==
    \/ row.base > server.base
    \/ row.base = server.base /\ row.seq \notin {server.ack, server.ack + 1}
    \/ row.base = server.base /\ row.seq = server.ack /\ Merged(row) # server.state

\* Combat stays the server's; the medkit is the worker's.
Fenced(row) == [server EXCEPT !.used = row.used]

Contained(row) ==
    [server EXCEPT !.state.health = Merged(row).health, !.state.alive = Merged(row).alive]

Accepted(row) ==
    [server EXCEPT !.state = Merged(row), !.used = row.used, !.rev = @ + 1, !.ack = row.seq]

\* The answer to another lineage: a revision above both, and a new base.
Answered(row) ==
    LET revision == (IF row.base > server.rev THEN row.base ELSE server.rev) + 1 IN
    [Fenced(row) EXCEPT !.rev = revision, !.base = revision]

\* Mutant: another lineage is fenced and not answered.
Taken_Answerless(row) ==
    IF StunRefused(row) THEN Contained(row)
    ELSE IF Foreign(row) \/ row.base < server.base \/ row.seq = server.ack THEN Fenced(row)
    ELSE Accepted(row)

\* Mutant: a row of an older base is not fenced.
Taken_Unfenced(row) ==
    IF StunRefused(row) THEN Contained(row)
    ELSE IF Foreign(row) THEN Answered(row)
    ELSE IF row.seq = server.ack THEN Fenced(row)
    ELSE Accepted(row)

\* A row of an older base lost a race with an external change, and one with
\* the last number repeats it.
Taken(row) ==
    IF StunRefused(row) THEN Contained(row)
    ELSE IF Foreign(row) THEN Answered(row)
    ELSE IF row.base < server.base \/ row.seq = server.ack THEN Fenced(row)
    ELSE Accepted(row)

Receive ==
    /\ up # <<>>
    /\ server' = Taken(Head(up))
    /\ Counting("merged", IF StunRefused(Head(up))
                          THEN server.state.health - server'.state.health ELSE 0)
    /\ up' = Tail(up)
    /\ UNCHANGED <<worker, sync, down>>

(***************************************************************************)
(* Snapshots.                                                              *)
(***************************************************************************)
Snapshot ==
    [state |-> server.state, rev |-> server.rev, base |-> server.base, ack |-> server.ack]

\* The one waiting to be written is replaced by the next.
Broadcast ==
    /\ \/ Len(down) < MaxDown /\ down' = Append(down, Snapshot)
       \/ down # <<>> /\ down' = [down EXCEPT ![Len(down)] = Snapshot]
    /\ UNCHANGED <<server, worker, sync, up, count>>

MovedBackwards(m) ==
    m.rev < sync.rev \/ m.base < sync.base \/ m.ack < sync.acked \/ m.ack > sync.next

ChangedUnacknowledged(m) ==
    /\ m.base = sync.base /\ m.ack = sync.acked
    /\ m.rev # sync.rev \/ m.state # sync.known

AckInconsistent(m) ==
    /\ m.base = sync.base /\ m.ack # sync.acked
    /\ m.rev <= sync.rev \/ [seq |-> m.ack, state |-> m.state] \notin sync.pending

BaseInconsistent(m) ==
    /\ m.base # sync.base
    /\ \/ m.rev < m.base \/ m.rev <= sync.rev
       \/ m.ack # sync.acked /\ ~ \E p \in sync.pending : p.seq = m.ack

\* The worker raises a ValueError and drops the snapshot.
Refused(m) ==
    MovedBackwards(m) \/ ChangedUnacknowledged(m) \/ AckInconsistent(m) \/ BaseInconsistent(m)

\* A publication of the worker's own base is acknowledged.
Acknowledge(m) ==
    /\ sync' = [sync EXCEPT !.pending = {p \in @ : p.seq > m.ack},
                            !.slices = {c \in @ : c.seq > m.ack},
                            !.known = m.state, !.acked = m.ack, !.rev = m.rev]
    /\ UNCHANGED worker

\* The slices the server has not consumed are replayed on a new base, and
\* stay unpublished if they change it.
RebasedOn(m, slices) ==
    LET replayed == {[c EXCEPT !.seq = m.ack + 1] : c \in slices}
        state == Advanced(m.state, replayed)
    IN /\ worker' = [worker EXCEPT !.state = state]
       /\ sync' = [published |-> m.state, known |-> m.state, pending |-> {},
                   slices |-> IF state = m.state THEN {} ELSE replayed,
                   next |-> m.ack, acked |-> m.ack, rev |-> m.rev, base |-> m.base]

\* Mutant: also the consumed slices are replayed.
Rebase_ReplaysAll(m) == RebasedOn(m, sync.slices)

Rebase(m) == RebasedOn(m, {c \in sync.slices : c.seq > m.ack})

Deliver ==
    /\ down # <<>>
    /\ down' = Tail(down)
    /\ LET m == Head(down) IN
       IF Refused(m) THEN UNCHANGED <<worker, sync>>
       ELSE IF m.base = sync.base THEN Acknowledge(m) ELSE Rebase(m)
    /\ UNCHANGED <<server, up, count>>

(***************************************************************************)
(* The specification.                                                      *)
(***************************************************************************)
Fresh == [health |-> Full, alive |-> TRUE, fire |-> FALSE, elapsed |-> 0, stun |-> 0]

Init ==
    /\ server = [state |-> Fresh, used |-> 0, rev |-> 0, base |-> 0, ack |-> 0]
    /\ worker = [state |-> Fresh, used |-> 0]
    /\ sync = [published |-> Fresh, known |-> Fresh, pending |-> {}, slices |-> {},
               next |-> 0, acked |-> 0, rev |-> 0, base |-> 0]
    /\ up = <<>> /\ down = <<>>
    /\ count = [w \in Counted |-> 0]

Next ==
    \/ \E kind \in HitKinds : Hit(kind)
    \/ Stun \/ ExpireStun
    \/ \E kit \in BOOLEAN : Slice(kit)
    \/ Land
    \/ \E encoded \in BOOLEAN : Publish(encoded)
    \/ Receive \/ Broadcast \/ Deliver

Spec == Init /\ [][Next]_vars

\* The worker publishes and reads for ever; the server reads, and its tick
\* broadcasts and ends the stuns whose time has come.
FairSpec ==
    /\ Spec
    /\ WF_vars(Publish(TRUE)) /\ WF_vars(Receive)
    /\ WF_vars(Broadcast) /\ WF_vars(Deliver) /\ WF_vars(ExpireStun)

(***************************************************************************)
(* Properties.                                                             *)
(***************************************************************************)
\* Types.
TypeOK ==
    /\ server \in [state : States, used : 0..MaxKits, rev : Nat, base : Nat, ack : Nat]
    /\ worker \in [state : States, used : 0..MaxKits]
    /\ sync \in [published : States, known : States, pending : SUBSET [seq : Nat, state : States],
                 slices : SUBSET [at : Nat, seq : Nat, burns : BOOLEAN, clears : Nat],
                 next : Nat, acked : Nat, rev : Nat, base : Nat]
    /\ up \in Seq([state : States, used : 0..MaxKits, base : Nat, seq : Nat])
    /\ down \in Seq([state : States, rev : Nat, base : Nat, ack : Nat])
    /\ Len(up) <= MaxUp /\ Len(down) <= MaxDown
    /\ \A p \in sync.pending : p.seq \in (sync.acked + 1)..sync.next
    /\ \A c \in sync.slices : c.seq \in (sync.acked + 1)..(sync.next + 1)
    /\ count \in [Counted -> Nat]

\* What the server has admitted stands: whatever row arrives, however late,
\* a Bot gains no health and does not come back to life
\* (_reconcile_modern_bot_combat).
HitsStand ==
    [][/\ server'.state.health <= server.state.health
       /\ server'.state.alive => server.state.alive]_vars

\* The bookkeeping of the two sides never parts: no snapshot carries a base,
\* a revision or an acknowledgement that the worker must refuse
\* (_apply_server_combat_state).
LineageHolds ==
    down # <<>> => LET m == Head(down) IN
        ~(MovedBackwards(m) \/ AckInconsistent(m) \/ BaseInconsistent(m))

\* The two sides agree, and what is on its way to the server repeats it.
Agreed ==
    /\ \A i \in DOMAIN up : up[i] = Row
    /\ sync.pending = {} /\ sync.slices = {}
    /\ sync.rev = server.rev /\ worker.state = server.state

\* Slices are replayed on new bases, rows are fenced, repeated or not encoded:
\* yet every hit, slice of burning and landing is charged at most once (but
\* for what a contained row merged, which the replay repeats), and when the
\* two sides agree no hit and no slice has been forgotten.
LossesAreExact ==
    LET lost == Full - server.state.health IN
    /\ lost <= count.hits + count.burns + count.falls + count.merged
    /\ Agreed /\ server.state.alive => lost >= count.hits + count.burns

\* Every race is settled: the two sides come to agree again and again.
Converges == []<>Agreed

=============================================================================
