------------------------------ MODULE BattleRoom ------------------------------
(***************************************************************************)
(* The single room of server/lan_battle_server.py: BattleState under its   *)
(* lock.  A room goes round after round through                            *)
(*                                                                         *)
(*    waiting --request_start--> loading --ready barrier--> battle         *)
(*       ^                                                    |            *)
(*       +------------------- _reset_round <-------- result --+            *)
(*                                                                         *)
(* while the threads that own the pieces interleave: one ClientHandler     *)
(* thread per player connection, one for the simulation worker (the Bot    *)
(* authority), one writer thread per endpoint, which clears `connected'    *)
(* WITHOUT the state lock, and the tick thread, whose tick_once takes the  *)
(* lock once for the battle_live barrier and the reset, releases it, and   *)
(* takes it again to advance.                                              *)
(*                                                                         *)
(* A connection is one Player object (or one SimulationWorker object) and  *)
(* is used once; player ids are drawn from next_id, which a reset rewinds, *)
(* so an id may come back on another connection.                           *)
(*                                                                         *)
(* Combat itself is abstracted to which players and which bot teams are    *)
(* alive; map, vehicles, lineups, statistics and wording are left out.     *)
(***************************************************************************)
EXTENDS Integers, FiniteSets

CONSTANTS
    Conns,           \* player connections (Player objects)
    Workers,         \* simulation worker connections
    NoWorker,        \* simulation_worker is None
    TeamOf,          \* the team a connection is assigned to
    BotTeams,        \* the teams bot_roster has bots for
    MaxPlayers,      \* max_players
    PrebattleTicks,  \* PREBATTLE_SECONDS * TICK_HZ
    BattleTicks,     \* battle_duration_seconds * TICK_HZ
    ResetTicks,      \* RESULT_RESET_SECONDS * TICK_HZ
    MaxRound,        \* bound: no start is requested from this round on
    MaxTick,         \* bound: the tick counter stops here (no battle lasts so long)
    MaxDiskFaults,   \* bound: failures of _persist_result_receipts
    MaxTickFaults    \* bound: ticks that raise

Teams == {1, 2}
Endpoints == Conns \cup Workers

ASSUME RoomAssumption ==
    /\ Conns \cap Workers = {}
    /\ NoWorker \notin Endpoints
    /\ IsFiniteSet(Conns)
    /\ TeamOf \in [Conns -> Teams]
    /\ BotTeams \subseteq Teams
    /\ MaxPlayers \in Nat
    /\ PrebattleTicks \in Nat \ {0}
    /\ BattleTicks \in Nat
    /\ ResetTicks \in Nat \ {0, 1, 2}
    /\ MaxRound \in Nat
    /\ MaxTick \in Nat
    /\ MaxDiskFaults \in Nat
    /\ MaxTickFaults \in Nat

VARIABLES
    phase,        \* "waiting", "loading" or "battle"
    round,        \* round_id
    tick,         \* server tick of the round
    members,      \* the connections in BattleState.players
    pid,          \* player_id of each connection, 0 before it joins
    nextId,       \* next_id
    host,         \* host_player_id, 0 for None
    thread,       \* handler thread of a connection: "new", "run", "done"
    link,         \* `connected' of each endpoint
    part,         \* Player.participating
    alive,        \* Player.alive
    loaded,       \* last round each endpoint's own process finished loading
    ready,        \* battle_ready_round of each endpoint
    worker,       \* simulation_worker
    spent,        \* worker connections already used
    authority,    \* bot_authority_id = SIMULATION_WORKER_AUTHORITY_ID
    epoch,        \* authority_epoch
    manifest,     \* bot_manifest_authority_id = bot_authority_id, not None
    wpc,          \* worker handler: "idle", or "activate" after a manifest
    botTeams,     \* the teams that still have a living bot
    frozen,       \* round_participants
    live,         \* recipients of pending_live_message, or NoLive
    heardLive,    \* endpoints that were offered this round's battle_live
    result,       \* battle_result: "none", "settled", "failed"
    resetTick,    \* result_reset_tick
    resultEvent,  \* a battle_result event waits in pending_events
    announced,    \* the result event of this round was published by a tick
    receipts,     \* the rows of result_receipts that belong to this round
    tpc,          \* tick thread: "idle", "advance", "failed", "stopped"
    streak,       \* consecutive_failures of _run_tick_loop
    diskFaults,
    tickFaults

lobbyVars  == <<members, pid, nextId, host, thread>>
workerVars == <<worker, spent, authority, epoch, wpc>>
roundVars  == <<phase, round, tick, manifest, botTeams, frozen, live,
                heardLive, result, resetTick, resultEvent, announced, receipts>>
playVars   == <<part, alive, ready>>
tickVars   == <<tpc, streak, tickFaults>>
vars == <<lobbyVars, workerVars, roundVars, playVars, tickVars, link, loaded,
          diskFaults>>

NoLive == {}
Active == phase \in {"loading", "battle"}

-------------------------------------------------------------------------------
(* What the code computes from the room. *)

\* The players that count: connected (and participating), out of a set of them.
Connected(M, lk) == {c \in M : lk[c]}
Participants(M, lk, p) == {c \in M : lk[c] /\ p[c]}

\* Mutant: the host is not elected again.
Elected_Keeps(h, M, lk) == h = host

\* _elect_room_host: the lowest id of a connected player, or None.
Elected(h, M, lk) ==
    LET C == Connected(M, lk)
    IN  IF C = {} THEN h = 0
        ELSE /\ \E c \in C : pid[c] = h
             /\ \A c \in C : h <= pid[c]

\* The worker can be the authority: attached and connected.
WorkerUp(w, lk) == w # NoWorker /\ lk[w]

\* _endpoint_is_current, participating only.
IsCurrent(e) ==
    /\ link[e]
    /\ \/ e = worker
       \/ e \in members /\ part[e]

\* _activate_battle_if_ready: the ready barrier over the players in M.
BarrierMet(M, lk, p, rd, mf) ==
    /\ WorkerUp(worker, lk) /\ authority
    /\ Participants(M, lk, p) # {}
    /\ mf
    /\ \A c \in Participants(M, lk, p) : rd[c] = round
    /\ rd[worker] = round

\* Mutant: no round fence.
MessageRoundMatches_Any(r) == r <= round

\* _message_round_matches.
MessageRoundMatches(r) == r = round

\* _combat_accepting at a given tick.
CombatAccepting(t) == phase = "battle" /\ t >= PrebattleTicks

\* _maybe_finish_battle: both teams are fielded, and fewer than two have a living
\* vehicle.
Eliminated(M, lk, al, bots, t) ==
    /\ CombatAccepting(t) /\ result = "none" /\ manifest
    /\ BotTeams \cup {TeamOf[c] : c \in Connected(M, lk)} = Teams
    /\ bots \cup {TeamOf[c] : c \in {d \in M : lk[d] /\ al[d]}} # Teams

\* Mutant: compares for equality, so a finish that failed is not tried again.
TimeUp_Once(t) == t = PrebattleTicks + BattleTicks

\* The battle_timeout test of tick_once.
TimeUp(t) == t >= PrebattleTicks + BattleTicks

\* The next tick.
NextTick == IF tick < MaxTick THEN tick + 1 ELSE tick

\* Mutant: looks the player up by id only.
OwnPlayer_ById(c) == {d \in members : pid[d] = pid[c]}

\* The player remove_player(id, expected=c) may remove.
OwnPlayer(c) == members \cap {c}

-------------------------------------------------------------------------------
(* The blocks the handlers are built from. *)

\* Mutant: the result is committed before the receipts are written.
Settle_CommitsFirst(ok, t) ==
    /\ result' = "settled" /\ resetTick' = t + ResetTicks /\ resultEvent' = TRUE
    /\ receipts' = IF ok THEN receipts \cup frozen ELSE receipts
    /\ ok \/ diskFaults < MaxDiskFaults
    /\ diskFaults' = IF ok THEN diskFaults ELSE diskFaults + 1

\* _finish_battle with receipts: they are persisted first, and a failed write
\* leaves the room without a result.
Settle(ok, t) ==
    IF ok
    THEN /\ result' = "settled"
         /\ resetTick' = t + ResetTicks
         /\ resultEvent' = TRUE
         /\ receipts' = receipts \cup frozen
         /\ UNCHANGED diskFaults
    ELSE /\ diskFaults < MaxDiskFaults
         /\ diskFaults' = diskFaults + 1
         /\ UNCHANGED <<result, resetTick, resultEvent, receipts>>

NoSettle == UNCHANGED <<result, resetTick, resultEvent, receipts, diskFaults>>

\* Mutant: a failure overwrites the outcome the round already has.
FinishFailed_Overwrites ==
    result' = "failed" /\ resetTick' = tick + ResetTicks /\ resultEvent' = TRUE

\* _finish_battle without receipts, for an infrastructure failure.
FinishFailed ==
    IF result = "none"
    THEN /\ result' = "failed"
         /\ resetTick' = tick + ResetTicks
         /\ resultEvent' = TRUE
    ELSE UNCHANGED <<result, resetTick, resultEvent>>

\* pending_live_message = None.
WithdrawBarrier == live' = NoLive

\* _elect_bot_authority: the worker if it is up, else nobody.
Elect(up) ==
    /\ authority' = up
    /\ epoch' = IF authority = up THEN epoch ELSE epoch + 1

\* Mutant: next_id starts again at one.
RewindIds_All(M) == nextId' = 1

\* next_id after a reset: one more than the highest id in the room.
RewindIds(M) ==
    \E n \in 1..nextId :
      /\ \A c \in M : pid[c] < n
      /\ n = 1 \/ \E c \in M : pid[c] = n - 1
      /\ nextId' = n

\* _reset_round over the players in M, with w as the worker.
ResetRoom(M, lk, w) ==
    /\ phase' = "waiting" /\ round' = round + 1 /\ tick' = 0
    /\ part' = [c \in Conns |-> IF c \in M THEN TRUE ELSE part[c]]
    /\ alive' = [c \in Conns |-> IF c \in M THEN TRUE ELSE alive[c]]
    /\ ready' = [e \in Endpoints |->
                   IF e \in M \/ (e = w /\ lk[e]) THEN 0 ELSE ready[e]]
    /\ RewindIds(M)
    /\ authority' = WorkerUp(w, lk)
    /\ epoch' = IF WorkerUp(w, lk) THEN 1 ELSE 0
    /\ manifest' = FALSE /\ botTeams' = BotTeams /\ frozen' = {}
    /\ live' = NoLive /\ heardLive' = {}
    /\ result' = "none" /\ resetTick' = 0
    /\ resultEvent' = FALSE /\ announced' = FALSE /\ receipts' = {}
    /\ \E h \in {0} \cup {pid[c] : c \in M} :
         Elected(h, M, lk) /\ host' = h

\* Mutants: the worker is not a recipient; the phase is misspelt.
Activate_WithoutWorker(M, lk, p) ==
    phase' = "battle" /\ tick' = 0 /\ live' = Participants(M, lk, p)
Activate_OtherPhase(M, lk, p) ==
    phase' = "prebattle" /\ tick' = 0 /\ live' = Participants(M, lk, p)

\* The successful end of _activate_battle_if_ready.
Activate(M, lk, p) ==
    /\ phase' = "battle" /\ tick' = 0
    /\ live' = Participants(M, lk, p) \cup {worker}

-------------------------------------------------------------------------------
Init ==
    /\ phase = "waiting" /\ round = 1 /\ tick = 0
    /\ members = {} /\ pid = [c \in Conns |-> 0] /\ nextId = 1 /\ host = 0
    /\ thread = [c \in Conns |-> "new"]
    /\ link = [e \in Endpoints |-> FALSE]
    /\ part = [c \in Conns |-> TRUE] /\ alive = [c \in Conns |-> TRUE]
    /\ loaded = [e \in Endpoints |-> 0] /\ ready = [e \in Endpoints |-> 0]
    /\ worker = NoWorker /\ spent = {} /\ authority = FALSE /\ epoch = 0
    /\ manifest = FALSE /\ wpc = "idle"
    /\ botTeams = BotTeams /\ frozen = {} /\ live = NoLive /\ heardLive = {}
    /\ result = "none" /\ resetTick = 0
    /\ resultEvent = FALSE /\ announced = FALSE
    /\ receipts = {} /\ tpc = "idle" /\ streak = 0
    /\ diskFaults = 0 /\ tickFaults = 0

-------------------------------------------------------------------------------
(* Joining and leaving the room. *)

\* add_player.
AddPlayer(c) ==
    /\ thread[c] = "new" /\ phase = "waiting"
    /\ Cardinality(members) < MaxPlayers
    /\ thread' = [thread EXCEPT ![c] = "run"]
    /\ link' = [link EXCEPT ![c] = TRUE]
    /\ members' = members \cup {c}
    /\ pid' = [pid EXCEPT ![c] = nextId]
    /\ nextId' = nextId + 1
    /\ host' = IF host = 0 THEN nextId ELSE host
    /\ UNCHANGED <<workerVars, roundVars, playVars, tickVars, loaded, diskFaults>>

\* The writer thread of an endpoint fails: _fail_outbox clears `connected'
\* without the state lock.
LinkFails(e) ==
    /\ e \in members \/ e = worker
    /\ link[e]
    /\ link' = [link EXCEPT ![e] = FALSE]
    /\ UNCHANGED <<lobbyVars, workerVars, roundVars, playVars, tickVars,
                   loaded, diskFaults>>

\* Mutant: a departure does not look at the barrier.
Departure_NoBarrier(M, lk, p, al) ==
    /\ IF /\ phase = "battle" /\ result = "none"
          /\ \/ Participants(M, lk, p) = {}
             \/ Eliminated(M, lk, al, botTeams, tick)
       THEN \E ok \in BOOLEAN : Settle(ok, tick)
       ELSE NoSettle
    /\ UNCHANGED <<phase, tick, live, round, manifest, botTeams, frozen,
                   heardLive, announced, ready, authority, epoch, nextId>>

\* What remove_player and leave_battle do for those who stay, with the players,
\* links and flags as the departure leaves them: a load that is now complete
\* opens, and a battle that is abandoned or decided is settled.
Departure(M, lk, p, al) ==
    /\ IF phase = "loading" /\ BarrierMet(M, lk, p, ready, manifest)
       THEN Activate(M, lk, p)
       ELSE UNCHANGED <<phase, tick, live>>
    /\ IF /\ phase = "battle" /\ result = "none"
          /\ \/ Participants(M, lk, p) = {}
             \/ Eliminated(M, lk, al, botTeams, tick)
       THEN \E ok \in BOOLEAN : Settle(ok, tick)
       ELSE NoSettle
    /\ UNCHANGED <<round, manifest, botTeams, frozen, heardLive, announced,
                   ready, authority, epoch, nextId>>

\* The host after c has left the players M: elected again if it was c.
HostMoves(c, M, lk) ==
    \E h \in {host, 0} \cup {pid[d] : d \in M} :
      /\ IF pid[c] = host THEN Elected(h, M, lk) ELSE h = host
      /\ host' = IF M = {} /\ ~WorkerUp(worker, lk) THEN 0 ELSE h

\* remove_player, for a connection c that is in the room: one critical section.
\* A load that nobody is left in is reset.
RemovePlayer(c) ==
    LET M  == members \ {c}
        lk == [link EXCEPT ![c] = FALSE]
    IN  /\ members' = M /\ link' = lk
        /\ IF phase = "loading" /\ M = {}
           THEN ResetRoom(M, lk, worker) /\ UNCHANGED diskFaults
           ELSE /\ Departure(M, lk, part, alive)
                /\ HostMoves(c, M, lk)
                /\ UNCHANGED <<part, alive>>
        /\ UNCHANGED <<pid, worker, spent, wpc, loaded, tickVars>>

\* ClientHandler.handle ends (end of stream, error, `leave'): its `finally'
\* removes the player it admitted, unless another thread already has.
HandlerExits(c) ==
    /\ thread[c] = "run"
    /\ thread' = [thread EXCEPT ![c] = "done"]
    /\ IF OwnPlayer(c) # {}
       THEN \E d \in OwnPlayer(c) : RemovePlayer(d)
       ELSE UNCHANGED <<members, pid, nextId, host, workerVars, roundVars,
                        playVars, tickVars, link, loaded, diskFaults>>

\* _remove_endpoint, and the retirement of disconnected players that
\* broadcast_loading_transition starts with: a publisher drops an endpoint it
\* cannot enqueue to.  The handler thread of the connection lives on.
DropPlayer(c) ==
    /\ c \in members /\ ~link[c]
    /\ RemovePlayer(c)
    /\ UNCHANGED thread

\* leave_battle, accepted: the participant retires from the round and keeps its
\* connection.
LeaveBattle(c) ==
    LET p  == [part EXCEPT ![c] = FALSE]
        al == [alive EXCEPT ![c] = FALSE]
    IN  /\ thread[c] = "run" /\ c \in members /\ link[c] /\ part[c] /\ Active
        /\ IF phase = "loading" /\ Participants(members, link, p) = {}
           THEN ResetRoom(members, link, worker) /\ UNCHANGED diskFaults
           ELSE /\ Departure(members, link, p, al)
                /\ part' = p /\ alive' = al /\ UNCHANGED host
        /\ UNCHANGED <<members, pid, thread, worker, spent, wpc, link, loaded,
                       tickVars>>

-------------------------------------------------------------------------------
(* The simulation worker. *)

\* add_simulation_worker.  A worker whose link is gone may be replaced before
\* its own handler has removed it; the authority id is then the same one.
AddWorker(w) ==
    /\ w \notin spent /\ phase = "waiting"
    /\ ~WorkerUp(worker, link)
    /\ spent' = spent \cup {w}
    /\ worker' = w
    /\ link' = [link EXCEPT ![w] = TRUE]
    /\ Elect(TRUE)
    /\ wpc' = "idle"
    /\ UNCHANGED <<lobbyVars, roundVars, playVars, tickVars, loaded, diskFaults>>

\* remove_simulation_worker: the attached worker goes (handler exit, liveness
\* timeout, fatal manifest or state, failed enqueue).  An active round with the
\* worker as its authority ends without receipts; a room without players then
\* goes straight back to waiting.
RemoveWorker ==
    LET lk == [link EXCEPT ![worker] = FALSE]
        roundFailed == Active /\ authority
    IN  /\ worker # NoWorker
        /\ worker' = NoWorker /\ link' = lk /\ wpc' = "idle"
        /\ UNCHANGED <<members, pid, thread, spent, loaded, tickVars, diskFaults>>
        /\ \/ /\ roundFailed /\ members = {}
              /\ ResetRoom(members, lk, NoWorker)
           \/ /\ ~(roundFailed /\ members = {})
              /\ Elect(FALSE)
              /\ manifest' = (manifest /\ ~roundFailed)
              /\ host' = IF members = {} THEN 0 ELSE host
              /\ IF roundFailed
                 THEN phase' = "battle" /\ WithdrawBarrier /\ FinishFailed
                 ELSE UNCHANGED <<phase, live, result, resetTick, resultEvent>>
              /\ UNCHANGED <<round, tick, botTeams, frozen, heardLive,
                             announced, receipts, playVars, nextId>>

-------------------------------------------------------------------------------
(* Starting a round. *)

\* request_start by the handler of connection c.  The player is looked up by
\* the id the handler keeps, whoever holds it now.  `lost': the link of the
\* worker fails between the check at the top of the function and the election
\* at its end, which the state lock does not prevent.
RequestStart(c, lost) ==
    /\ thread[c] = "run" /\ phase = "waiting" /\ round < MaxRound
    /\ \E d \in members : pid[d] = pid[c] /\ link[d] /\ pid[d] = host
    /\ WorkerUp(worker, link)
    /\ link' = [link EXCEPT ![worker] = ~lost]
    /\ phase' = "loading"
    /\ frozen' = Connected(members, link)
    /\ part' = [d \in Conns |-> part[d] \/ d \in Connected(members, link)]
    /\ Elect(~lost)
    /\ UNCHANGED <<lobbyVars, worker, spent, wpc, round, tick, manifest,
                   botTeams, live, heardLive, result, resetTick, resultEvent,
                   announced, alive, ready, tickVars, loaded, receipts,
                   diskFaults>>

\* _preflight_loading_transfer refuses battle_start or the loading snapshot that
\* broadcast_loading_transition publishes: no endpoint sees it and the load is
\* reset.
PreflightFails ==
    /\ phase = "loading"
    /\ ResetRoom(members, link, worker)
    /\ UNCHANGED <<members, pid, thread, worker, spent, wpc, tickVars, link,
                   loaded, diskFaults>>

\* A client or the worker finishes loading the current round (its process).
Load(e) ==
    /\ phase = "loading" /\ loaded[e] < round /\ IsCurrent(e)
    /\ loaded' = [loaded EXCEPT ![e] = round]
    /\ UNCHANGED <<lobbyVars, workerVars, roundVars, playVars, tickVars, link,
                   diskFaults>>

\* mark_battle_ready, on a message that e sent once it had loaded round r.  The
\* message may have waited in the socket while the room went on to other rounds.
BattleReady(e, r) ==
    LET rd == [ready EXCEPT ![e] = round]
        opened == BarrierMet(members, link, part, rd, manifest)
    IN  /\ r \in 1..loaded[e] /\ MessageRoundMatches(r) /\ phase = "loading"
        /\ IsCurrent(e) /\ (e = worker => authority)
        /\ ready' = rd
        /\ IF opened THEN Activate(members, link, part)
                     ELSE UNCHANGED <<phase, tick, live>>
        /\ UNCHANGED <<lobbyVars, workerVars, round, manifest, botTeams,
                       frozen, heardLive, result, resetTick, resultEvent,
                       announced, part, alive, tickVars, link, loaded,
                       receipts, diskFaults>>

\* update_bot_manifest accepts the lineup of the authority.  The worker handler
\* publishes it and looks at the barrier under the lock taken again.
UpdateManifest ==
    /\ wpc = "idle" /\ Active /\ result = "none"
    /\ WorkerUp(worker, link) /\ authority /\ ~manifest
    /\ manifest' = TRUE /\ wpc' = "activate"
    /\ UNCHANGED <<lobbyVars, worker, spent, authority, epoch, phase, round,
                   tick, botTeams, frozen, live, heardLive, result, resetTick,
                   resultEvent, announced, playVars, tickVars, link, loaded,
                   receipts, diskFaults>>

\* activate_battle_if_ready, by the worker handler after a manifest.
ActivateAfterManifest ==
    /\ wpc = "activate" /\ wpc' = "idle"
    /\ IF phase = "loading" /\ BarrierMet(members, link, part, ready, manifest)
       THEN Activate(members, link, part)
       ELSE UNCHANGED <<phase, tick, live>>
    /\ UNCHANGED <<lobbyVars, worker, spent, authority, epoch, round, manifest,
                   botTeams, frozen, heardLive, result, resetTick, resultEvent,
                   announced, playVars, tickVars, link, loaded, receipts,
                   diskFaults>>

-------------------------------------------------------------------------------
(* Combat, reduced to deaths. *)

\* A combat report (update_bot_states, a projectile, a ram, fire) kills player
\* c or the last bot of a team, and looks whether that decides the battle.
Casualty(al, bots) ==
    /\ CombatAccepting(tick) /\ result = "none"
    /\ alive' = al /\ botTeams' = bots
    /\ IF Eliminated(members, link, al, bots, tick)
       THEN \E ok \in BOOLEAN : Settle(ok, tick)
       ELSE NoSettle
    /\ UNCHANGED <<lobbyVars, workerVars, phase, round, tick, manifest, frozen,
                   live, heardLive, announced, part, ready, tickVars, link,
                   loaded>>

PlayerDies(c) ==
    c \in members /\ alive[c] /\ Casualty([alive EXCEPT ![c] = FALSE], botTeams)
BotTeamDies(t) == t \in botTeams /\ Casualty(alive, botTeams \ {t})

-------------------------------------------------------------------------------
(* The tick thread. *)

\* First critical section of tick_once: publish the queued battle_live barrier
\* to the recipients that are still current, and reset the room when the result
\* has been shown for ResetTicks.  Either of them consumes the tick.
TickBegin ==
    LET due == /\ phase = "battle" /\ result # "none"
               /\ tick + 1 >= resetTick
        heard == IF phase = "battle"
                 THEN {e \in live : IsCurrent(e)}
                 ELSE {}
    IN  /\ tpc = "idle"
        /\ IF due
           THEN /\ ResetRoom(members, link, worker)
                /\ tpc' = "idle"
                /\ UNCHANGED <<members, pid, thread, worker, spent, wpc>>
           ELSE /\ live' = NoLive
                /\ heardLive' = heardLive \cup heard
                /\ tpc' = IF live = NoLive THEN "advance" ELSE "idle"
                /\ UNCHANGED <<lobbyVars, workerVars, playVars, phase, round,
                               tick, manifest, botTeams, frozen, result,
                               resetTick, resultEvent, announced, receipts>>
        /\ streak' = IF tpc' = "idle" THEN 0 ELSE streak
        /\ UNCHANGED <<tickFaults, link, loaded, diskFaults>>

\* _finish_battle inside a tick: the result event is among the events that this
\* tick enqueues, and what earlier steps left in pending_events goes with it.
TickSettles(ok, t) ==
    IF ok
    THEN /\ result' = "settled"
         /\ resetTick' = t + ResetTicks
         /\ receipts' = receipts \cup frozen
         /\ announced' = TRUE
         /\ UNCHANGED diskFaults
    ELSE /\ diskFaults < MaxDiskFaults
         /\ diskFaults' = diskFaults + 1
         /\ announced' = (announced \/ resultEvent)
         /\ UNCHANGED <<result, resetTick, receipts>>

\* Second critical section, in a live battle: the tick counts, a timeout, a
\* captured base or the deaths of this tick may finish the battle, and the
\* pending events are enqueued to every endpoint.
TickAdvance ==
    LET t == NextTick
    IN  /\ tpc = "advance" /\ tpc' = "idle" /\ streak' = 0
        /\ IF phase = "battle"
           THEN /\ tick' = t /\ resultEvent' = FALSE
                /\ \/ /\ result = "none" /\ t >= PrebattleTicks
                      /\ \E ok \in BOOLEAN : TickSettles(ok, t)
                   \/ /\ result # "none" \/ ~TimeUp(t)
                      /\ announced' = (announced \/ resultEvent)
                      /\ UNCHANGED <<result, resetTick, receipts, diskFaults>>
           ELSE UNCHANGED <<tick, result, resetTick, resultEvent, announced,
                            receipts, diskFaults>>
        /\ UNCHANGED <<lobbyVars, workerVars, playVars, phase, round, manifest,
                       botTeams, frozen, live, heardLive, tickFaults, link,
                       loaded>>

\* The second critical section raises, before or after it has counted the tick,
\* settled the round and taken the pending events.  Two failures in a row stop
\* the server.
TickRaises ==
    /\ tpc = "advance" /\ phase = "battle" /\ tickFaults < MaxTickFaults
    /\ tickFaults' = tickFaults + 1
    /\ \/ /\ tick' \in {tick, NextTick} /\ resultEvent' \in {resultEvent, FALSE}
          /\ UNCHANGED <<result, resetTick, receipts, diskFaults>>
       \/ /\ result = "none" /\ NextTick >= PrebattleTicks /\ tick' = NextTick
          /\ result' = "settled" /\ resetTick' = NextTick + ResetTicks
          /\ receipts' = receipts \cup frozen /\ resultEvent' \in BOOLEAN
          /\ UNCHANGED diskFaults
    /\ tpc' = IF streak = 0 THEN "failed" ELSE "stopped"
    /\ streak' = 1
    /\ UNCHANGED <<lobbyVars, workerVars, playVars, phase, round, manifest,
                   botTeams, frozen, live, heardLive, announced, link, loaded>>

\* Mutant: the lost event is not queued again.
RequeueResult_Not == UNCHANGED resultEvent

\* The battle_result event that handle_tick_failure leaves in pending_events.
RequeueResult == resultEvent' = TRUE

\* handle_tick_failure: end the uncertain round without receipts, or queue the
\* result it already had once more.
HandleTickFailure ==
    /\ tpc = "failed" /\ tpc' = "idle"
    /\ IF Active
       THEN /\ WithdrawBarrier
            /\ IF result = "none"
               THEN phase' = "battle" /\ FinishFailed
               ELSE /\ RequeueResult
                    /\ UNCHANGED <<phase, result, resetTick>>
       ELSE UNCHANGED <<phase, live, result, resetTick, resultEvent>>
    /\ UNCHANGED <<lobbyVars, workerVars, playVars, round, tick, manifest,
                   botTeams, frozen, heardLive, announced, streak, tickFaults,
                   link, loaded, receipts, diskFaults>>

-------------------------------------------------------------------------------
Next ==
    \/ \E c \in Conns : \/ AddPlayer(c) \/ HandlerExits(c) \/ DropPlayer(c)
                        \/ LeaveBattle(c) \/ PlayerDies(c)
                        \/ \E lost \in BOOLEAN : RequestStart(c, lost)
    \/ \E e \in Endpoints : LinkFails(e) \/ Load(e)
    \/ \E e \in Endpoints, r \in 1..MaxRound : BattleReady(e, r)
    \/ \E w \in Workers : AddWorker(w)
    \/ \E t \in Teams : BotTeamDies(t)
    \/ RemoveWorker \/ PreflightFails
    \/ UpdateManifest \/ ActivateAfterManifest
    \/ TickBegin \/ TickAdvance \/ TickRaises \/ HandleTickFailure

Spec == Init /\ [][Next]_vars

\* The tick thread is scheduled for as long as it runs, and the worker handler
\* finishes the message it is dispatching.
Fairness ==
    /\ WF_vars(TickBegin) /\ WF_vars(TickAdvance) /\ WF_vars(HandleTickFailure)
    /\ WF_vars(ActivateAfterManifest)
FairSpec == Spec /\ Fairness

-------------------------------------------------------------------------------
(* Properties. *)

\* Type invariant of the room.
TypeOK ==
    /\ phase \in {"waiting", "loading", "battle"}
    /\ round \in Nat \ {0} /\ tick \in Nat
    /\ members \subseteq Conns
    /\ pid \in [Conns -> Nat] /\ nextId \in Nat \ {0} /\ host \in Nat
    /\ thread \in [Conns -> {"new", "run", "done"}]
    /\ link \in [Endpoints -> BOOLEAN]
    /\ part \in [Conns -> BOOLEAN] /\ alive \in [Conns -> BOOLEAN]
    /\ loaded \in [Endpoints -> Nat] /\ ready \in [Endpoints -> Nat]
    /\ worker \in Workers \cup {NoWorker} /\ spent \subseteq Workers
    /\ authority \in BOOLEAN /\ epoch \in Nat /\ manifest \in BOOLEAN
    /\ wpc \in {"idle", "activate"}
    /\ botTeams \subseteq Teams /\ frozen \subseteq Conns
    /\ live \subseteq Endpoints /\ heardLive \subseteq Endpoints
    /\ result \in {"none", "settled", "failed"} /\ resetTick \in Nat
    /\ resultEvent \in BOOLEAN /\ announced \in BOOLEAN
    /\ receipts \subseteq Conns
    /\ tpc \in {"idle", "advance", "failed", "stopped"} /\ streak \in {0, 1}
    /\ diskFaults \in Nat /\ tickFaults \in Nat

\* Player ids are unique in the room although a reset rewinds next_id: every
\* handler finds its own player, and no joiner is given an id still in use.
IdsAreUnique ==
    /\ \A c, d \in members : pid[c] = pid[d] => c = d
    /\ \A c \in members : pid[c] \in 1..(nextId - 1)

\* Whatever leaves, fails or resets in between, a room with a connected player
\* names as its host a player who is in the room (_elect_room_host).
HostIsInTheRoom ==
    Connected(members, link) # {} => \E d \in members : pid[d] = host

\* The ready barrier holds for the whole battle, not only when it opens: no
\* connected participant fights in a round it has not itself finished loading,
\* whatever old ready messages were still on the wire, and the worker that
\* simulates the bots is attached, is the authority and has loaded it too.
LiveBattleIsLoaded ==
    phase = "battle" /\ result = "none" =>
      /\ manifest /\ authority /\ worker # NoWorker
      /\ loaded[worker] = round
      /\ \A c \in Participants(members, link, part) : loaded[c] = round

\* battle_live reaches everyone it must: once the barrier has left the queue of
\* an undecided battle, each connected participant and the worker were offered it.
EveryoneHeardLive ==
    phase = "battle" /\ result = "none" /\ live = NoLive =>
      /\ Participants(members, link, part) \subseteq heardLive
      /\ link[worker] => worker \in heardLive

\* A round that ended in a failure is not announced as live any more: the
\* barrier still queued for it is withdrawn (remove_simulation_worker,
\* handle_tick_failure), and no barrier survives into a waiting room.
FailedRoundIsNotLive ==
    live # NoLive => phase = "battle" /\ result # "failed"

\* Settlement is all or nothing: the frozen participants of the round have their
\* receipts exactly when the round ended in a settled result -- none after a
\* failed write, a lost worker or a failed tick, and no one else has any.
ReceiptsFollowSettlement ==
    receipts = IF result = "settled" THEN frozen ELSE {}

\* A round has one outcome: whatever ends it a second time (a leave, a timeout,
\* the loss of the worker, a failed tick) changes nothing until the reset.
OneOutcome ==
    [][result # "none" /\ round' = round =>
         result' = result /\ resetTick' = resetTick]_vars

\* Bot authority is fenced: within a round the epoch never falls, and rises with
\* each change of the authority (_elect_bot_authority).
EpochFencesAuthority ==
    [][round' = round =>
         /\ epoch' >= epoch
         /\ authority' # authority => epoch' > epoch]_vars

\* A player leaves the room only because its own link failed or its own handler
\* ended: an old handler that outlived its player cannot remove the connection
\* that was given the same id later (remove_player's `expected').
OnlyOwnExit ==
    [][\A d \in members :
         d \notin members' => ~link[d] \/ thread'[d] = "done"]_vars

\* The clients are told the result before the room returns to waiting, even when
\* the tick that had taken the event fails (handle_tick_failure queues it again).
ResultShownBeforeReset ==
    [][phase = "battle" /\ phase' = "waiting" /\ members' # {} => announced]_vars

\* Every battle ends: abandoned, decided, timed out, failed, or with a disk that
\* refuses the receipts for a while, the room is waiting again.
BattleEnds == phase = "battle" ~> phase = "waiting" \/ tpc = "stopped"

\* No complete load is forgotten, whatever made it complete: a message, the
\* lineup, or the departure, retirement or failed link of the one who was not
\* ready.  If the barrier is met and the round has not started, a thread is still
\* to look at it: the worker handler after a manifest, or the handler of a player
\* whose link failed.  That one ends, since whoever clears `connected' shuts the
\* socket down that it reads from (_shutdown_transport), and removes the player.
CompleteLoadIsNoticed ==
    phase = "loading" /\ BarrierMet(members, link, part, ready, manifest) =>
        \/ wpc = "activate"
        \/ \E c \in members : ~link[c] /\ thread[c] = "run"

\* What the comments say and the code does not do (see the violation runs).

\* "Fence a lost worker and terminate its active #1513 round."
LostWorkerEndsRound ==
    [][Active /\ worker # NoWorker /\ worker' = NoWorker =>
         result' # "none" \/ phase' = "waiting"]_vars
=============================================================================
