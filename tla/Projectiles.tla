---------------------------- MODULE Projectiles ----------------------------
(***************************************************************************)
(* The shells of one player.  Its own client flies them: it fires without  *)
(* waiting, and sends the launch, the progress, a first ricochet and the   *)
(* terminal of each shell over one ordered connection (battle_runtime.py). *)
(* The server keeps the ledger of the shells it has admitted, refuses what *)
(* contradicts it, ends them, and answers with ordered events, which the   *)
(* client presents late if it must, and with snapshots of the ledger       *)
(* (lan_battle_server.py).                                                 *)
(*                                                                         *)
(* Events and snapshots leave the server with a tick, and no snapshot      *)
(* arrives after the events of a later tick: it arrives before them, or is *)
(* replaced by the snapshot of their tick.  What the server does between   *)
(* two ticks commutes with what the client does.  So an event is on its    *)
(* way as soon as it is noted, and the client handles a snapshot when it   *)
(* is taken.                                                               *)
(*                                                                         *)
(* Time is the age of a shell.  Effects are left out, and so are the Bots' *)
(* shells, other players' clients, and the end of the battle or of the     *)
(* connection.                                                             *)
(***************************************************************************)
EXTENDS PiercingSeries, FiniteSets

CONSTANTS
    None,
    MaxShots,   \* bound: shots the player fires
    Flight,     \* max_time_ms
    MaxUp,      \* bound: messages on their way to the server
    MaxMishaps  \* bound: launches refused, shells that the server ends itself,
                \* ricochets whose second segment begins after the frame

ASSUME ShellAssumption ==
    /\ {MaxShots, Flight, MaxUp} \subseteq Nat \ {0}
    /\ MaxMishaps \in Nat

VARIABLES
    ledger,   \* projectiles and projectile_tombstones
    meta,     \* _projectile_meta of each shot
    shell,    \* the shot's shell in the manager
    settled,  \* _projectile_visual_terminals and _projectile_resolution_acks
    journal,  \* pending_events of each shot, on their way and in _event_journal
    up,       \* messages to the server
    count     \* shots fired, launches refused, shells expired, segments deferred

serverVars == <<ledger, seriesVars>>
clientVars == <<meta, shell, settled, journal>>
vars == <<serverVars, clientVars, up, count>>

Shots == 1..MaxShots
Ages == 0..Flight
Segments == {0, 1, None}

\* A message that tells of one shot's flight, and a message that tells of others.
Tellings(types) == [type : types, shot : Shots, base : Ages, time : Ages]
Batches == [type : {"progress"}, cursors : UNION {[d -> Ages] : d \in SUBSET Shots}]
Messages ==
    [type : {"launch"}, shot : Shots] \cup Batches \cup Tellings({"ricochet", "resolve"})

Wires == Tellings({"resolve"})
Metas == [base : Ages, queued : Ages, bounces : {0, 1}, launching : BOOLEAN,
          ricochet : BOOLEAN, deferred : {"no", "ahead", "due"}, terminal : Wires \cup {None}]
Shells == [segment : Segments, known : SUBSET {0, 1}, at : Ages]
Entries == [life : {"none", "live", "over", "refused"}, checked : Ages, bounces : {0, 1},
            ordinal : Nat]
Events == [kind : {"launch", "refused", "ricochet", "impact"}, checked : Ages]

ASSUME NoneAssumption == None \notin 0..1 /\ None \notin Wires /\ None \notin Metas

Mishap == count.refused + count.expired + count.deferred < MaxMishaps
Larger(m, n) == IF m > n THEN m ELSE n

(***************************************************************************)
(* The server's ledger.                                                    *)
(***************************************************************************)
Live == {s \in Shots : ledger[s].life = "live"}
Unknown == [life |-> "none", checked |-> 0, bounces |-> 0, ordinal |-> 0]
Launched == [Unknown EXCEPT !.life = "live", !.ordinal = Fired + 1]

\* The tombstone.  That of a shell retired by _retire_rejected_projectile is
\* told apart.
Tombstone(outcome) == [Unknown EXCEPT !.life = IF outcome = "refused" THEN "refused" ELSE "over"]

\* A verdict is recorded once: a ricochet has lost it already.
Verdict(s, how) ==
    IF ledger[s].ordinal \in Open THEN Record(ledger[s].ordinal, how)
    ELSE UNCHANGED seriesVars

Event(kind, s) == [kind |-> kind, checked |-> ledger[s].checked]
Announce(s, event) == journal' = [journal EXCEPT ![s] = Append(@, event)]

End(s, outcome) ==
    /\ ledger' = [ledger EXCEPT ![s] = Tombstone(outcome)]
    /\ Announce(s, Event("impact", s))
    /\ Verdict(s, IF outcome = "pierced" THEN "pierced" ELSE "lost")

\* A launch is refused when the shot is not newer than the last admitted; it
\* may be because the shooter is dead, its trigger is too old or too many of
\* its shells fly.
Launch(m) ==
    \/ /\ \A r \in Shots : r >= m.shot => ledger[r].life = "none"
       /\ ledger' = [ledger EXCEPT ![m.shot] = Launched]
       /\ Announce(m.shot, [kind |-> "launch", checked |-> 0])
       /\ Count
       /\ UNCHANGED count
    \/ /\ Mishap
       /\ Announce(m.shot, [kind |-> "refused", checked |-> 0])
       /\ count' = [count EXCEPT !.refused = @ + 1]
       /\ UNCHANGED <<ledger, seriesVars>>

\* Mutant: a batch that names a retired shell is refused too.
ProgressAllLive(m) ==
    /\ ledger' = IF \E s \in DOMAIN m.cursors : ledger[s].life # "live" THEN ledger
                 ELSE [s \in Shots |->
                        IF s \notin DOMAIN m.cursors THEN ledger[s]
                        ELSE [ledger[s] EXCEPT !.checked = Larger(@, m.cursors[s])]]
    /\ UNCHANGED <<seriesVars, journal, count>>

\* A batch that names an unknown shell is refused whole; a retired shell's
\* cursor is passed over, the others converge to the larger age.
Progress(m) ==
    /\ ledger' = IF \E s \in DOMAIN m.cursors : ledger[s].life = "none" THEN ledger
                 ELSE [s \in Shots |->
                        IF s \notin DOMAIN m.cursors \cap Live THEN ledger[s]
                        ELSE [ledger[s] EXCEPT !.checked = Larger(@, m.cursors[s])]]
    /\ UNCHANGED <<seriesVars, journal, count>>

\* A base ahead of the ledger tells of progress that was not accepted.
Believed(m) == m.base <= ledger[m.shot].checked /\ ledger[m.shot].checked <= m.time

Ricochet(m) ==
    /\ IF m.shot \notin Live \/ ledger[m.shot].bounces = 1
       THEN UNCHANGED <<ledger, seriesVars, journal>>
       ELSE IF ~Believed(m) THEN End(m.shot, "refused")
       ELSE /\ ledger' = [ledger EXCEPT ![m.shot].checked = m.time, ![m.shot].bounces = 1]
            /\ Announce(m.shot, [kind |-> "ricochet", checked |-> m.time])
            /\ Verdict(m.shot, "lost")
    /\ UNCHANGED count

\* The terminal of a shell that is over, or was never admitted, is a retry or
\* too late.  What the shell has hit matters here only, so it is chosen here.
Resolve(m) ==
    /\ IF m.shot \notin Live THEN UNCHANGED <<ledger, seriesVars, journal>>
       ELSE IF ~Believed(m) THEN End(m.shot, "refused")
       ELSE \E outcome \in {"pierced", "stopped"} : End(m.shot, outcome)
    /\ UNCHANGED count

Receive ==
    /\ up # <<>>
    /\ LET m == Head(up) IN
       \/ m.type = "launch" /\ Launch(m)
       \/ m.type = "progress" /\ Progress(m)
       \/ m.type = "ricochet" /\ Ricochet(m)
       \/ m.type = "resolve" /\ Resolve(m)
    /\ up' = Tail(up)
    /\ UNCHANGED <<meta, shell, settled>>

\* An admitted shell whose owner has not ended it in time.
Expire ==
    /\ Mishap
    /\ \E s \in Live : End(s, "expired")
    /\ count' = [count EXCEPT !.expired = @ + 1]
    /\ UNCHANGED <<meta, shell, settled, up>>

\* The ledger as a snapshot shows it.
Rows == [s \in Live |-> [checked |-> ledger[s].checked, bounces |-> ledger[s].bounces]]

(***************************************************************************)
(* The owner of the shells.  An owner is what a client holds of one shot:  *)
(* its meta m, its shell f, and what it sends when it is done.             *)
(***************************************************************************)
Owner(s) == [m |-> meta[s], f |-> shell[s], out |-> <<>>]

\* A new meta of a canonical row, or of the shot just fired.
NewMeta(checked, bounces, launching) ==
    [base |-> checked, queued |-> 0, bounces |-> bounces, launching |-> launching,
     ricochet |-> FALSE, deferred |-> "no", terminal |-> None]

Flies(f, segment) == [f EXCEPT !.segment = segment, !.known = @ \cup {segment}]
Ground(f) == [f EXCEPT !.segment = None, !.at = 0]
Flying(s) == shell[s].segment # None

\* The age a message tells, and the base it tells it on: for the player's own
\* shells the progress that has been queued counts as accepted.
Age(o) == Larger(o.m.base, o.f.at)
Base(o) == Larger(o.m.base, o.m.queued)

\* A terminal is frozen, and sent at once unless one has been sent.
Terminated(o, s) ==
    LET wire == [type |-> "resolve", shot |-> s, base |-> Base(o), time |-> Age(o)]
    IN  [o EXCEPT !.m.terminal = wire,
                  !.out = IF o.m.terminal = None THEN Append(@, wire) ELSE @]

\* The second segment takes off when its time has come; the manager refuses a
\* segment that it knows, and the shot ends as expired.
Admitted(o, s) ==
    IF o.m.deferred # "due" THEN o
    ELSE LET begun == [o EXCEPT !.m.deferred = "no"] IN
         IF 1 \notin o.f.known THEN [begun EXCEPT !.f = Flies(@, 1)]
         ELSE IF o.m.terminal = None THEN Terminated(begun, s)
         ELSE begun

\* A canonical row meets the meta: an older segment leaves it alone, a newer
\* one replaces it.
Installed(o, row) ==
    IF o.m = None THEN [o EXCEPT !.m = NewMeta(row.checked, row.bounces, FALSE)]
    ELSE LET heard == [o EXCEPT !.m.launching = FALSE] IN
         CASE row.bounces < o.m.bounces -> heard
           [] row.bounces = o.m.bounces -> [heard EXCEPT !.m.base = Larger(@, row.checked)]
           [] row.bounces > o.m.bounces ->
                [heard EXCEPT !.m.base = Larger(@, row.checked), !.m.bounces = row.bounces,
                              !.m.ricochet = FALSE,
                              !.f = IF @.segment = 0 THEN Ground(@) ELSE @]

\* _accept_projectile_event.
Accepted(o, s, row) ==
    LET i == Installed(o, row) IN
    IF i.f.segment = i.m.bounces \/ i.m.terminal # None \/ i.m.ricochet THEN i
    ELSE IF i.m.deferred # "no" THEN Admitted(i, s)
    ELSE IF row.bounces \notin i.f.known
         THEN [i EXCEPT !.f = [Flies(@, row.bounces) EXCEPT !.at = row.checked]]
    ELSE [i EXCEPT !.m = None]

\* One shot's owner takes a step.
Steps(s, o) ==
    /\ Len(up) + Len(o.out) <= MaxUp
    /\ meta' = [meta EXCEPT ![s] = o.m]
    /\ shell' = [shell EXCEPT ![s] = o.f]
    /\ up' = up \o o.out

\* The player fires: the shell flies before the launch is sent.
Fire ==
    /\ count.fired < MaxShots
    /\ LET s == count.fired + 1 IN
       Steps(s, [m |-> NewMeta(0, 0, TRUE), f |-> Flies(shell[s], 0),
                 out |-> <<[type |-> "launch", shot |-> s]>>])
    /\ count' = [count EXCEPT !.fired = @ + 1]
    /\ UNCHANGED <<serverVars, settled, journal>>

\* A frame admits the segments that are due before it advances the shells.
FrameBegun == \A s \in Shots : meta[s] # None => meta[s].deferred # "due"

Advance(s) ==
    /\ FrameBegun /\ Flying(s) /\ shell[s].at < Flight
    /\ shell' = [shell EXCEPT ![s].at = @ + 1]
    /\ UNCHANGED <<serverVars, meta, settled, journal, up, count>>

\* The shell pierces a target, or ends without.  One that has lost its meta
\* ends unnoticed.
Hit(s) ==
    /\ FrameBegun /\ Flying(s)
    /\ LET landed == [Owner(s) EXCEPT !.f = Ground(@)] IN
       Steps(s, IF meta[s] = None THEN landed
                ELSE [Terminated(Owner(s), s) EXCEPT !.f = landed.f])
    /\ UNCHANGED <<serverVars, settled, journal, count>>

\* Mutant: the ricochet is sent on the base the server has confirmed, and the
\* shell goes on from there.
RicochetsRewound(s, time) ==
    LET o == Owner(s) IN
    [o EXCEPT !.m.bounces = 1, !.m.ricochet = TRUE, !.m.queued = o.m.base,
              !.m.deferred = IF time > o.f.at THEN "ahead" ELSE "no",
              !.f = IF time > o.f.at THEN [Ground(@) EXCEPT !.at = time]
                    ELSE [Flies(@, 1) EXCEPT !.at = o.m.base],
              !.out = <<[type |-> "ricochet", shot |-> s, base |-> o.m.base, time |-> time]>>]

\* A first ricochet is sent, and its second segment takes off, or waits for
\* its time when rounding puts it after the frame.
Ricochets(s, time) ==
    LET o == Owner(s) IN
    [o EXCEPT !.m.bounces = 1, !.m.ricochet = TRUE, !.m.queued = time,
              !.m.deferred = IF time > o.f.at THEN "ahead" ELSE "no",
              !.f = IF time > o.f.at THEN [Ground(@) EXCEPT !.at = time]
                    ELSE [Flies(@, 1) EXCEPT !.at = time],
              !.out = <<[type |-> "ricochet", shot |-> s, base |-> Base(o), time |-> time]>>]

Bounce(s) ==
    /\ FrameBegun /\ Flying(s) /\ meta[s] # None /\ meta[s].bounces = 0
    /\ \E time \in {Age(Owner(s)), Age(Owner(s)) + 1} :
         /\ time < Flight
         /\ time > shell[s].at => Mishap
         /\ Steps(s, Ricochets(s, time))
         /\ count' = [count EXCEPT !.deferred = @ + IF time > shell[s].at THEN 1 ELSE 0]
    /\ UNCHANGED <<serverVars, settled, journal>>

\* The time of a deferred segment comes.
Due(s) ==
    /\ meta[s] # None /\ meta[s].deferred = "ahead"
    /\ meta' = [meta EXCEPT ![s].deferred = "due"]
    /\ UNCHANGED <<serverVars, shell, settled, journal, up, count>>

Admit(s) ==
    /\ meta[s] # None /\ meta[s].deferred = "due"
    /\ Steps(s, Admitted(Owner(s), s))
    /\ UNCHANGED <<serverVars, settled, journal, count>>

\* The progress of every shell in flight is sent, when there is some.
Publish ==
    LET flying == {s \in Shots : Flying(s) /\ meta[s] # None} IN
    /\ FrameBegun /\ Len(up) < MaxUp
    /\ \E s \in flying : Age(Owner(s)) > meta[s].queued
    /\ up' = Append(up, [type |-> "progress", cursors |-> [s \in flying |-> Age(Owner(s))]])
    /\ meta' = [s \in Shots |-> IF s \notin flying THEN meta[s]
                                ELSE [meta[s] EXCEPT !.queued = Age(Owner(s))]]
    /\ UNCHANGED <<serverVars, shell, settled, journal, count>>

(***************************************************************************)
(* What the server answers.                                                *)
(***************************************************************************)
\* Mutant: a shot whose launch is still on its way is absent, too.
AcknowledgedLaunching(o, s, rows) ==
    o.m # None /\ s \notin DOMAIN rows /\ o.f.segment = None

\* A full ledger without the shot acknowledges what the client has sent of it,
\* once the server has been heard to know the shot.
Acknowledged(o, s, rows) ==
    /\ o.m # None /\ ~o.m.launching /\ (o.m.terminal # None \/ o.m.ricochet)
    /\ s \notin DOMAIN rows \ settled

\* A snapshot installs its rows; then, shot by shot, it has a frozen terminal
\* sent again and restores a shell that does not fly.  A shell that cannot be
\* restored ends the handling of the snapshot.
Reconcile(rows) ==
    LET listed == DOMAIN rows \ settled
        installed == [s \in Shots |-> IF s \in listed THEN Installed(Owner(s), rows[s]) ELSE Owner(s)]
        idle == {s \in listed : installed[s].f.segment # installed[s].m.bounces}
        stuck == {s \in idle : /\ installed[s].m.terminal = None
                               /\ \/ rows[s].bounces \in installed[s].f.known
                                  \/ installed[s].m.deferred = "ahead"}
        again == {s \in idle : installed[s].m.terminal # None /\ \A r \in stuck : s < r}
        restored == {s \in idle : installed[s].m.terminal = None /\ \A r \in stuck : s < r}
        gone == {s \in Shots : stuck = {} /\ Acknowledged(installed[s], s, rows)}
    IN  /\ Len(up) + Cardinality(again) <= MaxUp
        /\ \E order \in [1..Cardinality(again) -> again] :
             /\ \A i, j \in DOMAIN order : i < j => order[i] < order[j]
             /\ up' = up \o [i \in DOMAIN order |-> installed[order[i]].m.terminal]
        /\ meta' = [s \in Shots |-> IF s \in gone THEN None ELSE installed[s].m]
        /\ shell' = [s \in Shots |->
                       IF s \notin restored THEN installed[s].f
                       ELSE [Flies(installed[s].f, rows[s].bounces) EXCEPT !.at = rows[s].checked]]
        /\ settled' = settled \cup {s \in gone : meta[s].terminal # None /\ s \notin DOMAIN rows}
        /\ UNCHANGED journal

\* A refused launch takes its shell out of the air, and frees its identity.
Withdrawn(s) ==
    IF meta[s] = None THEN UNCHANGED <<meta, shell, settled>>
    ELSE /\ meta' = [meta EXCEPT ![s] = None]
         /\ shell' = [shell EXCEPT ![s] =
              [(IF shell[s].segment = meta[s].bounces THEN Ground(shell[s]) ELSE shell[s])
                 EXCEPT !.known = shell[s].known \ {meta[s].bounces}]]
         /\ settled' = settled \cup {s}

Snapshot == Reconcile(Rows) /\ UNCHANGED <<serverVars, count>>

\* The oldest event of a shot is presented.  Launches and ricochets of a shot
\* that is settled are passed over; an impact ends the shot.
Present(s) ==
    /\ journal[s] # <<>>
    /\ LET e == Head(journal[s]) IN
       IF e.kind = "refused" THEN Withdrawn(s) /\ UNCHANGED up
       ELSE IF e.kind = "impact"
       THEN /\ meta' = [meta EXCEPT ![s] = None]
            /\ shell' = [shell EXCEPT ![s] =
                 IF @.segment = (IF meta[s] = None THEN 0 ELSE meta[s].bounces)
                 THEN Ground(@) ELSE @]
            /\ settled' = settled \cup {s}
            /\ UNCHANGED up
       ELSE IF s \in settled
            THEN UNCHANGED <<meta, shell, settled, up>>
       ELSE /\ LET row == [checked |-> e.checked, bounces |-> IF e.kind = "ricochet" THEN 1 ELSE 0]
                   known == Installed(Owner(s), row)
               IN  Steps(s, Accepted([known EXCEPT !.m.ricochet = @ /\ e.kind # "ricochet"], s, row))
            /\ UNCHANGED settled
    /\ journal' = [journal EXCEPT ![s] = Tail(@)]
    /\ UNCHANGED <<serverVars, count>>

Init ==
    /\ SeriesInit
    /\ ledger = [s \in Shots |-> Unknown]
    /\ journal = [s \in Shots |-> <<>>]
    /\ meta = [s \in Shots |-> None]
    /\ shell = [s \in Shots |-> [segment |-> None, known |-> {}, at |-> 0]]
    /\ settled = {}
    /\ up = <<>>
    /\ count = [fired |-> 0, refused |-> 0, expired |-> 0, deferred |-> 0]

Owning(s) ==
    Advance(s) \/ Hit(s) \/ Bounce(s) \/ Due(s) \/ Admit(s) \/ Present(s)

Next ==
    \/ Receive \/ Expire
    \/ Fire \/ Publish \/ Snapshot
    \/ \E s \in Shots : Owning(s)

Spec == Init /\ [][Next]_vars

(***************************************************************************)
(* Properties.                                                             *)
(***************************************************************************)
TypeOK ==
    /\ ledger \in [Shots -> Entries]
    /\ meta \in [Shots -> Metas \cup {None}]
    /\ shell \in [Shots -> Shells]
    /\ settled \subseteq Shots
    /\ journal \in [Shots -> Seq(Events)]
    /\ up \in Seq(Messages) /\ Len(up) <= MaxUp
    /\ count \in [fired : 0..MaxShots, refused : Nat, expired : Nat, deferred : Nat]

\* The server never retires a shell because it disbelieves the owner's message,
\* unless it has refused one of the owner's launches: the base and the age of
\* each message agree with what was accepted before it
\* (resolve_projectile, ricochet_projectile: cursor compare-and-swap).
OwnerIsBelieved ==
    (\E s \in Shots : ledger[s].life = "refused") => count.refused > 0

\* A shell of the ledger is in its owner's hands: it flies, waits for its second
\* segment, or its terminal has been sent.  No echo, snapshot or refusal makes
\* the client forget it, so that only its expiry would ever end it
\* (_reconcile_projectile_snapshot, _accept_projectile_event).
LiveIsTracked ==
    \A s \in Live : /\ meta[s] # None
                    /\ Flying(s) \/ meta[s].terminal # None \/ meta[s].deferred # "no"
=============================================================================
