--------------------------- MODULE BattleRoomProofs ---------------------------
(***************************************************************************)
(* Proofs about BattleRoom for any connections, workers, teams, tick       *)
(* counts and bounds.                                                      *)
(***************************************************************************)
EXTENDS BattleRoom, TLAPS

-------------------------------------------------------------------------------
(* Typing. *)

\* The variables that _reset_round and its callers may set, typed.
RoundTyped ==
    /\ phase \in {"waiting", "loading", "battle"}
    /\ round \in Nat \ {0} /\ tick \in Nat
    /\ part \in [Conns -> BOOLEAN] /\ alive \in [Conns -> BOOLEAN]
    /\ ready \in [Endpoints -> Nat] /\ nextId \in Nat \ {0}
    /\ authority \in BOOLEAN /\ epoch \in Nat /\ manifest \in BOOLEAN
    /\ botTeams \subseteq Teams /\ frozen \subseteq Conns
    /\ live \subseteq Endpoints /\ heardLive \subseteq Endpoints
    /\ result \in {"none", "settled", "failed"} /\ resetTick \in Nat
    /\ resultEvent \in BOOLEAN /\ announced \in BOOLEAN
    /\ receipts \subseteq Conns /\ host \in Nat

\* What _reset_round leaves is well typed.
LEMMA ResetRoomType ==
    ASSUME TypeOK, NEW M \in SUBSET members, NEW lk \in [Endpoints -> BOOLEAN],
           NEW w \in Workers \cup {NoWorker}, ResetRoom(M, lk, w)
    PROVE  RoundTyped'
<1> USE DEF TypeOK, ResetRoom
<1>1. botTeams' \subseteq Teams
  BY RoomAssumption
<1>2. authority' \in BOOLEAN
  BY Zenon DEF WorkerUp
<1>3. nextId' \in Nat \ {0}
  BY DEF RewindIds
<1>4. host' \in Nat
  OBVIOUS
<1>5. ready' \in [Endpoints -> Nat]
  OBVIOUS
<1>6. part' \in [Conns -> BOOLEAN] /\ alive' \in [Conns -> BOOLEAN]
  OBVIOUS
<1>7. live' \subseteq Endpoints /\ heardLive' \subseteq Endpoints
  BY DEF NoLive
<1>8. round' \in Nat \ {0} /\ epoch' \in Nat
  OBVIOUS
<1> QED
  BY <1>1, <1>2, <1>3, <1>4, <1>5, <1>6, <1>7, <1>8 DEF RoundTyped

\* The successful end of the ready barrier is well typed.
LEMMA ActivateType ==
    ASSUME TypeOK, NEW lk \in [Endpoints -> BOOLEAN], NEW M \in SUBSET members,
           NEW p \in [Conns -> BOOLEAN], WorkerUp(worker, lk),
           Activate(M, lk, p)
    PROVE  phase' = "battle" /\ tick' = 0 /\ live' \subseteq Endpoints
  BY DEF TypeOK, Activate, Participants, WorkerUp, Endpoints

\* Settling, failing and leaving the outcome alone are well typed.
LEMMA OutcomeType ==
    ASSUME TypeOK, NEW t \in Nat,
           \/ \E ok \in BOOLEAN : Settle(ok, t)
           \/ NoSettle
    PROVE  /\ result' \in {"none", "settled", "failed"} /\ resetTick' \in Nat
           /\ resultEvent' \in BOOLEAN /\ receipts' \subseteq Conns
           /\ diskFaults' \in Nat
<1>1. CASE \E ok \in BOOLEAN : Settle(ok, t)
  <2> PICK ok \in BOOLEAN : Settle(ok, t)
    BY <1>1
  <2>1. t + ResetTicks \in Nat
    BY RoomAssumption
  <2>2. CASE ok
    BY <2>1, <2>2 DEF TypeOK, Settle
  <2>3. CASE ~ok
    BY <2>3 DEF TypeOK, Settle
  <2> QED
    BY <2>2, <2>3
<1>2. CASE NoSettle
  BY <1>2 DEF TypeOK, NoSettle
<1> QED
  BY <1>1, <1>2

\* What remains of a departure is well typed.
LEMMA DepartureType ==
    ASSUME TypeOK, NEW lk \in [Endpoints -> BOOLEAN], NEW M \in SUBSET members,
           NEW p \in [Conns -> BOOLEAN], NEW al \in [Conns -> BOOLEAN],
           Departure(M, lk, p, al),
           part' \in [Conns -> BOOLEAN], alive' \in [Conns -> BOOLEAN],
           host' \in Nat
    PROVE  RoundTyped' /\ diskFaults' \in Nat
<1>1. /\ phase' \in {"waiting", "loading", "battle"} /\ tick' \in Nat
      /\ live' \subseteq Endpoints
  <2>1. CASE phase = "loading" /\ BarrierMet(M, lk, p, ready, manifest)
    BY <2>1, ActivateType DEF Departure, BarrierMet
  <2>2. CASE ~(phase = "loading" /\ BarrierMet(M, lk, p, ready, manifest))
    BY <2>2 DEF Departure, TypeOK
  <2> QED
    BY <2>1, <2>2
<1>2. /\ result' \in {"none", "settled", "failed"} /\ resetTick' \in Nat
      /\ resultEvent' \in BOOLEAN /\ receipts' \subseteq Conns
      /\ diskFaults' \in Nat
  <2>1. tick \in Nat
    BY DEF TypeOK
  <2>2. (\E ok \in BOOLEAN : Settle(ok, tick)) \/ NoSettle
    BY DEF Departure
  <2> QED
    BY <2>1, <2>2, OutcomeType
<1>3. UNCHANGED <<round, manifest, botTeams, frozen, heardLive, announced,
                  ready, authority, epoch, nextId>>
  BY DEF Departure
<1> QED
  BY <1>1, <1>2, <1>3 DEF TypeOK, RoundTyped

\* Ending a round as failed is well typed (_finish_battle without receipts).
LEMMA FinishFailedType ==
    ASSUME TypeOK, FinishFailed
    PROVE  /\ result' \in {"none", "settled", "failed"} /\ resetTick' \in Nat
           /\ resultEvent' \in BOOLEAN
<1>1. tick \in Nat /\ tick + ResetTicks \in Nat
  BY RoomAssumption DEF TypeOK
<1>2. CASE result = "none"
  BY <1>1, <1>2 DEF FinishFailed
<1>3. CASE result # "none"
  BY <1>3 DEF FinishFailed, TypeOK
<1> QED
  BY <1>2, <1>3

\* The whole of remove_player is well typed.
LEMMA RemovePlayerType ==
    ASSUME TypeOK, NEW c \in members, RemovePlayer(c),
           thread' \in [Conns -> {"new", "run", "done"}]
    PROVE  TypeOK'
<1> DEFINE M  == members \ {c}
           lk == [link EXCEPT ![c] = FALSE]
<1>1. /\ M \in SUBSET members /\ lk \in [Endpoints -> BOOLEAN]
      /\ part \in [Conns -> BOOLEAN] /\ alive \in [Conns -> BOOLEAN]
      /\ worker \in Workers \cup {NoWorker}
  BY DEF TypeOK
<1>2. /\ members' \subseteq Conns /\ link' \in [Endpoints -> BOOLEAN]
      /\ UNCHANGED <<pid, worker, spent, wpc, loaded, tickVars>>
  BY <1>1 DEF RemovePlayer, TypeOK
<1>3. CASE phase = "loading" /\ M = {}
  <2>1. ResetRoom(M, lk, worker) /\ UNCHANGED diskFaults
    BY <1>3 DEF RemovePlayer
  <2> HIDE DEF M, lk
  <2>2. RoundTyped'
    BY <1>1, <2>1, ResetRoomType
  <2> QED
    BY <1>2, <2>1, <2>2 DEF TypeOK, RoundTyped, tickVars
<1>4. CASE ~(phase = "loading" /\ M = {})
  <2>1. /\ Departure(M, lk, part, alive) /\ HostMoves(c, M, lk)
        /\ UNCHANGED <<part, alive>>
    BY <1>4 DEF RemovePlayer
  <2>2. host' \in Nat
    BY <2>1, <1>1 DEF HostMoves, TypeOK
  <2> HIDE DEF M, lk
  <2>3. RoundTyped' /\ diskFaults' \in Nat
    BY <1>1, <2>1, <2>2, DepartureType
  <2> QED
    BY <1>2, <2>3 DEF TypeOK, RoundTyped, tickVars
<1> QED
  BY <1>3, <1>4

\* Every step of the room preserves the type invariant.
LEMMA TypeOKStep ==
    TypeOK /\ [Next]_vars => TypeOK'
<1> SUFFICES ASSUME TypeOK, [Next]_vars PROVE TypeOK'
  OBVIOUS
<1>reset. ASSUME ResetRoom(members, link, worker) PROVE RoundTyped'
  <2>1. /\ members \in SUBSET members /\ link \in [Endpoints -> BOOLEAN]
        /\ worker \in Workers \cup {NoWorker}
    BY DEF TypeOK
  <2> QED
    BY <1>reset, <2>1, ResetRoomType
<1>1. ASSUME NEW c \in Conns, AddPlayer(c) PROVE TypeOK'
  BY <1>1 DEF TypeOK, AddPlayer, workerVars, roundVars, playVars, tickVars,
              Endpoints
<1>2. ASSUME NEW e \in Endpoints, LinkFails(e) PROVE TypeOK'
  BY <1>2 DEF TypeOK, LinkFails, lobbyVars, workerVars, roundVars, playVars,
              tickVars
<1>3. ASSUME NEW c \in Conns, HandlerExits(c) PROVE TypeOK'
  <2>1. thread' \in [Conns -> {"new", "run", "done"}]
    BY <1>3 DEF HandlerExits, TypeOK
  <2>2. CASE OwnPlayer(c) # {}
    BY <1>3, <2>1, <2>2, RemovePlayerType DEF HandlerExits, OwnPlayer
  <2>3. CASE OwnPlayer(c) = {}
    BY <1>3, <2>1, <2>3 DEF HandlerExits, TypeOK, workerVars, roundVars,
                            playVars, tickVars
  <2> QED
    BY <2>2, <2>3
<1>4. ASSUME NEW c \in Conns, DropPlayer(c) PROVE TypeOK'
  <2>1. thread' \in [Conns -> {"new", "run", "done"}]
    BY <1>4 DEF DropPlayer, TypeOK
  <2> QED
    BY <1>4, <2>1, RemovePlayerType DEF DropPlayer
<1>5. ASSUME NEW c \in Conns, LeaveBattle(c) PROVE TypeOK'
  <2> DEFINE p  == [part EXCEPT ![c] = FALSE]
             al == [alive EXCEPT ![c] = FALSE]
  <2>1. p \in [Conns -> BOOLEAN] /\ al \in [Conns -> BOOLEAN]
    BY DEF TypeOK
  <2>2. UNCHANGED <<members, pid, thread, worker, spent, wpc, link, loaded,
                    tickVars>>
    BY <1>5 DEF LeaveBattle
  <2>3. RoundTyped' /\ diskFaults' \in Nat
    <3>1. CASE ResetRoom(members, link, worker) /\ UNCHANGED diskFaults
      BY <1>reset, <3>1 DEF TypeOK
    <3>2. CASE /\ Departure(members, link, p, al)
               /\ part' = p /\ alive' = al /\ UNCHANGED host
      <4>1. members \in SUBSET members /\ link \in [Endpoints -> BOOLEAN]
        BY DEF TypeOK
      <4>2. part' \in [Conns -> BOOLEAN] /\ alive' \in [Conns -> BOOLEAN]
            /\ host' \in Nat
        BY <2>1, <3>2 DEF TypeOK
      <4> HIDE DEF p, al
      <4> QED
        BY <2>1, <3>2, <4>1, <4>2, DepartureType
    <3> QED
      BY <1>5, <3>1, <3>2 DEF LeaveBattle
  <2> QED
    BY <2>2, <2>3 DEF TypeOK, RoundTyped, tickVars
<1>6. ASSUME NEW w \in Workers, AddWorker(w) PROVE TypeOK'
  BY <1>6 DEF TypeOK, AddWorker, Elect, lobbyVars, roundVars, playVars,
              tickVars, Endpoints
<1>7. ASSUME RemoveWorker PROVE TypeOK'
  <2> DEFINE lk == [link EXCEPT ![worker] = FALSE]
             roundFailed == Active /\ authority
  <2>1. /\ worker' = NoWorker /\ link' \in [Endpoints -> BOOLEAN] /\ wpc' = "idle"
        /\ UNCHANGED <<members, pid, thread, spent, loaded, tickVars, diskFaults>>
    BY <1>7 DEF RemoveWorker, TypeOK
  <2>2. RoundTyped'
    <3>1. CASE ResetRoom(members, lk, NoWorker)
      <4>1. /\ members \in SUBSET members /\ lk \in [Endpoints -> BOOLEAN]
            /\ NoWorker \in Workers \cup {NoWorker}
        BY DEF TypeOK
      <4> HIDE DEF lk
      <4> QED
        BY <3>1, <4>1, ResetRoomType
    <3>2. CASE ~(roundFailed /\ members = {})
      <4>1. /\ Elect(FALSE)
            /\ manifest' = (manifest /\ ~roundFailed)
            /\ host' = IF members = {} THEN 0 ELSE host
            /\ UNCHANGED <<round, tick, botTeams, frozen, heardLive,
                           announced, receipts, playVars, nextId>>
        BY <1>7, <3>2 DEF RemoveWorker
      <4>2. authority' \in BOOLEAN /\ epoch' \in Nat
        <5>1. authority' \in BOOLEAN
          BY <4>1, Zenon DEF Elect
        <5>2. epoch' \in {epoch, epoch + 1}
          BY <4>1 DEF Elect
        <5> QED
          BY <5>1, <5>2 DEF TypeOK
      <4>4. manifest' \in BOOLEAN
        BY <4>1, Zenon
      <4>3. /\ phase' \in {"waiting", "loading", "battle"}
            /\ live' \subseteq Endpoints
            /\ result' \in {"none", "settled", "failed"}
            /\ resetTick' \in Nat /\ resultEvent' \in BOOLEAN
        <5>1. CASE roundFailed
          <6>1. phase' = "battle" /\ WithdrawBarrier /\ FinishFailed
            BY <1>7, <3>2, <5>1 DEF RemoveWorker
          <6> QED
            BY <6>1, FinishFailedType DEF WithdrawBarrier, NoLive
        <5>2. CASE ~roundFailed
          BY <1>7, <3>2, <5>2 DEF RemoveWorker, TypeOK
        <5> QED
          BY <5>1, <5>2
      <4> QED
        BY <4>1, <4>2, <4>3, <4>4 DEF TypeOK, RoundTyped, playVars
    <3> QED
      BY <1>7, <3>1, <3>2 DEF RemoveWorker
  <2> QED
    BY <2>1, <2>2 DEF TypeOK, RoundTyped, tickVars
<1>8. ASSUME NEW c \in Conns, NEW lost \in BOOLEAN, RequestStart(c, lost)
      PROVE  TypeOK'
  <2>1. link' \in [Endpoints -> BOOLEAN] /\ part' \in [Conns -> BOOLEAN]
    BY <1>8 DEF RequestStart, TypeOK
  <2>2. frozen' \subseteq Conns
    BY <1>8 DEF RequestStart, TypeOK, Connected
  <2>3. authority' \in BOOLEAN /\ epoch' \in Nat
    BY <1>8 DEF RequestStart, Elect, TypeOK
  <2> QED
    BY <1>8, <2>1, <2>2, <2>3 DEF RequestStart, TypeOK, lobbyVars, tickVars
<1>9. ASSUME PreflightFails PROVE TypeOK'
  <2>1. RoundTyped'
    BY <1>9, <1>reset DEF PreflightFails
  <2> QED
    BY <1>9, <2>1 DEF PreflightFails, RoundTyped, TypeOK, tickVars
<1>10. ASSUME NEW e \in Endpoints, Load(e) PROVE TypeOK'
  BY <1>10 DEF Load, TypeOK, lobbyVars, workerVars, roundVars, playVars,
               tickVars
<1>11. ASSUME NEW e \in Endpoints, NEW r \in 1..MaxRound, BattleReady(e, r)
       PROVE  TypeOK'
  <2> DEFINE rd == [ready EXCEPT ![e] = round]
  <2>1. ready' \in [Endpoints -> Nat]
    BY <1>11 DEF BattleReady, TypeOK
  <2>2. /\ phase' \in {"waiting", "loading", "battle"} /\ tick' \in Nat
        /\ live' \subseteq Endpoints
    <3>1. CASE BarrierMet(members, link, part, rd, manifest)
      <4>1. Activate(members, link, part) /\ WorkerUp(worker, link)
        BY <1>11, <3>1 DEF BattleReady, BarrierMet
      <4>2. /\ members \in SUBSET members /\ link \in [Endpoints -> BOOLEAN]
            /\ part \in [Conns -> BOOLEAN]
        BY DEF TypeOK
      <4> QED
        BY <4>1, <4>2, ActivateType
    <3>2. CASE ~BarrierMet(members, link, part, rd, manifest)
      BY <1>11, <3>2 DEF BattleReady, TypeOK
    <3> QED
      BY <3>1, <3>2
  <2> QED
    BY <1>11, <2>1, <2>2 DEF BattleReady, TypeOK, lobbyVars, workerVars, tickVars
<1>12. ASSUME UpdateManifest PROVE TypeOK'
  BY <1>12 DEF UpdateManifest, TypeOK, lobbyVars, playVars, tickVars
<1>13. ASSUME ActivateAfterManifest PROVE TypeOK'
  <2>1. /\ phase' \in {"waiting", "loading", "battle"} /\ tick' \in Nat
        /\ live' \subseteq Endpoints
    <3>1. CASE Activate(members, link, part) /\ WorkerUp(worker, link)
      <4>1. /\ members \in SUBSET members /\ link \in [Endpoints -> BOOLEAN]
            /\ part \in [Conns -> BOOLEAN]
        BY DEF TypeOK
      <4> QED
        BY <3>1, <4>1, ActivateType
    <3>2. CASE UNCHANGED <<phase, tick, live>>
      BY <3>2 DEF TypeOK
    <3> QED
      BY <1>13, <3>1, <3>2 DEF ActivateAfterManifest, BarrierMet
  <2> QED
    BY <1>13, <2>1 DEF ActivateAfterManifest, TypeOK, lobbyVars, playVars,
                       tickVars
<1>14. ASSUME NEW al \in [Conns -> BOOLEAN], NEW bots \in SUBSET Teams,
              Casualty(al, bots)
       PROVE  TypeOK'
  <2>1. tick \in Nat
    BY DEF TypeOK
  <2>2. (\E ok \in BOOLEAN : Settle(ok, tick)) \/ NoSettle
    BY <1>14 DEF Casualty
  <2>3. /\ result' \in {"none", "settled", "failed"} /\ resetTick' \in Nat
        /\ resultEvent' \in BOOLEAN /\ receipts' \subseteq Conns
        /\ diskFaults' \in Nat
    BY <2>1, <2>2, OutcomeType
  <2> QED
    BY <1>14, <2>3 DEF Casualty, TypeOK, lobbyVars, workerVars, tickVars
<1>15. ASSUME NEW c \in Conns, PlayerDies(c) PROVE TypeOK'
  BY <1>14, <1>15 DEF PlayerDies, TypeOK
<1>16. ASSUME NEW t \in Teams, BotTeamDies(t) PROVE TypeOK'
  BY <1>14, <1>16 DEF BotTeamDies, TypeOK
<1>17. ASSUME TickBegin PROVE TypeOK'
  <2>1. tpc' \in {"idle", "advance", "failed", "stopped"}
    BY <1>17 DEF TickBegin
  <2>2. streak' \in {0, 1} /\ UNCHANGED <<tickFaults, link, loaded, diskFaults>>
    BY <1>17 DEF TickBegin, TypeOK
  <2>3. CASE /\ ResetRoom(members, link, worker)
             /\ UNCHANGED <<members, pid, thread, worker, spent, wpc>>
    <3>1. RoundTyped'
      BY <1>reset, <2>3
    <3> QED
      BY <2>1, <2>2, <2>3, <3>1 DEF RoundTyped, TypeOK
  <2>4. CASE /\ live' = NoLive
             /\ \E h \in SUBSET Endpoints : heardLive' = heardLive \cup h
             /\ UNCHANGED <<lobbyVars, workerVars, playVars, phase, round,
                            tick, manifest, botTeams, frozen, result,
                            resetTick, resultEvent, announced, receipts>>
    BY <2>1, <2>2, <2>4 DEF TypeOK, NoLive, lobbyVars, workerVars, playVars
  <2>5. (IF phase = "battle" THEN {e \in live : IsCurrent(e)} ELSE {})
           \in SUBSET Endpoints
    BY DEF TypeOK
  <2> QED
    BY <1>17, <2>3, <2>4, <2>5 DEF TickBegin
<1>18. ASSUME TickAdvance PROVE TypeOK'
  <2>1. NextTick \in Nat
    BY DEF NextTick, TypeOK
  <2>2. /\ tick' \in Nat /\ result' \in {"none", "settled", "failed"}
        /\ resetTick' \in Nat /\ resultEvent' \in BOOLEAN
        /\ announced' \in BOOLEAN /\ receipts' \subseteq Conns
        /\ diskFaults' \in Nat
    <3>1. NextTick + ResetTicks \in Nat
      BY <2>1, RoomAssumption
    <3>2. announced' \in BOOLEAN
      <4>1. \/ announced' = TRUE
            \/ announced' = (announced \/ resultEvent)
            \/ announced' = announced
        BY <1>18 DEF TickAdvance, TickSettles
      <4> QED
        BY <4>1, Zenon DEF TypeOK
    <3>3. CASE phase = "battle"
      <4>1. tick' = NextTick /\ resultEvent' = FALSE
        BY <1>18, <3>3 DEF TickAdvance
      <4>2. CASE UNCHANGED <<result, resetTick, receipts, diskFaults>>
        BY <2>1, <3>2, <4>1, <4>2 DEF TypeOK
      <4>3. CASE /\ result' = "settled" /\ resetTick' = NextTick + ResetTicks
                 /\ receipts' = receipts \cup frozen /\ UNCHANGED diskFaults
        BY <2>1, <3>1, <3>2, <4>1, <4>3 DEF TypeOK
      <4>4. CASE /\ diskFaults' = diskFaults + 1
                 /\ UNCHANGED <<result, resetTick, receipts>>
        <5>1. diskFaults' \in Nat
          BY <4>4 DEF TypeOK
        <5>2. resultEvent' \in BOOLEAN
          BY <4>1
        <5> QED
          BY <2>1, <3>2, <4>1, <4>4, <5>1, <5>2 DEF TypeOK
      <4>5. CASE \E ok \in BOOLEAN : TickSettles(ok, NextTick)
        <5> PICK ok \in BOOLEAN : TickSettles(ok, NextTick)
          BY <4>5
        <5> QED
          BY <4>3, <4>4 DEF TickSettles
      <4> QED
        BY <1>18, <3>3, <4>2, <4>5 DEF TickAdvance
    <3>4. CASE phase # "battle"
      BY <1>18, <3>4 DEF TickAdvance, TypeOK
    <3> QED
      BY <3>3, <3>4
  <2> QED
    BY <1>18, <2>2 DEF TickAdvance, TypeOK, lobbyVars, workerVars, playVars
<1>19. ASSUME TickRaises PROVE TypeOK'
  <2>1. NextTick \in Nat
    BY DEF NextTick, TypeOK
  <2>2. tick' \in Nat /\ tpc' \in {"idle", "advance", "failed", "stopped"}
    BY <1>19, <2>1 DEF TickRaises, TypeOK
  <2>3. streak' \in {0, 1} /\ tickFaults' \in Nat
    BY <1>19 DEF TickRaises, TypeOK
  <2>4. resultEvent' \in BOOLEAN
    BY <1>19, Zenon DEF TickRaises, TypeOK
  <2>5. /\ result' \in {"none", "settled", "failed"} /\ resetTick' \in Nat
        /\ receipts' \subseteq Conns /\ diskFaults' \in Nat
    <3>1. CASE UNCHANGED <<result, resetTick, receipts, diskFaults>>
      BY <3>1 DEF TypeOK
    <3>2. CASE /\ result' = "settled" /\ resetTick' = NextTick + ResetTicks
               /\ receipts' = receipts \cup frozen /\ UNCHANGED diskFaults
      BY <2>1, <3>2, RoomAssumption DEF TypeOK
    <3> QED
      BY <1>19, <3>1, <3>2 DEF TickRaises
  <2> QED
    BY <1>19, <2>2, <2>3, <2>4, <2>5
    DEF TickRaises, TypeOK, lobbyVars, workerVars, playVars
<1>20. ASSUME HandleTickFailure PROVE TypeOK'
  <2>1. /\ phase' \in {"waiting", "loading", "battle"}
        /\ live' \subseteq Endpoints
        /\ result' \in {"none", "settled", "failed"}
        /\ resetTick' \in Nat /\ resultEvent' \in BOOLEAN
    <3>1. CASE Active /\ result = "none"
      BY <1>20, <3>1, FinishFailedType
      DEF HandleTickFailure, WithdrawBarrier, NoLive
    <3>2. CASE ~(Active /\ result = "none")
      BY <1>20, <3>2
      DEF HandleTickFailure, WithdrawBarrier, RequeueResult, NoLive, TypeOK
    <3> QED
      BY <3>1, <3>2
  <2> QED
    BY <1>20, <2>1 DEF HandleTickFailure, TypeOK, lobbyVars, workerVars, playVars
<1>21. ASSUME UNCHANGED vars PROVE TypeOK'
  BY <1>21 DEF vars, lobbyVars, workerVars, roundVars, playVars, tickVars, TypeOK
<1> QED
  BY <1>1, <1>2, <1>3, <1>4, <1>5, <1>6, <1>7, <1>8, <1>9, <1>10, <1>11, <1>12,
     <1>13, <1>15, <1>16, <1>17, <1>18, <1>19, <1>20, <1>21 DEF Next

\* The room keeps its types whatever happens (every field of BattleState the
\* other properties relate).
THEOREM RoomTypeOK == Spec => []TypeOK
<1>1. Init => TypeOK
  <2>1. ASSUME Init PROVE TypeOK
    <3>1. botTeams \subseteq Teams
      BY <2>1, RoomAssumption DEF Init
    <3>2. /\ authority \in BOOLEAN /\ manifest \in BOOLEAN
          /\ resultEvent \in BOOLEAN /\ announced \in BOOLEAN
      BY <2>1, Zenon DEF Init
    <3>3. /\ link \in [Endpoints -> BOOLEAN] /\ part \in [Conns -> BOOLEAN]
          /\ alive \in [Conns -> BOOLEAN] /\ pid \in [Conns -> Nat]
          /\ loaded \in [Endpoints -> Nat] /\ ready \in [Endpoints -> Nat]
          /\ thread \in [Conns -> {"new", "run", "done"}]
      BY <2>1 DEF Init
    <3> QED
      BY <2>1, <3>1, <3>2, <3>3 DEF Init, TypeOK, NoLive
  <2> QED
    BY <2>1
<1> QED
  BY <1>1, TypeOKStep, PTL DEF Spec

-------------------------------------------------------------------------------
(* Outcome: the result, the receipts and the queued barrier of a round. *)

\* Only a battle has an outcome; a load and a waiting room have none.
OutcomeInBattle == result # "none" => phase = "battle"

\* The inductive invariant of the outcome.
OutcomeInv ==
    /\ OutcomeInBattle
    /\ ReceiptsFollowSettlement
    /\ FailedRoundIsNotLive

\* A reset leaves no outcome, no receipts and no barrier.
LEMMA ResetOutcome ==
    ASSUME NEW M, NEW lk, NEW w, ResetRoom(M, lk, w)
    PROVE  OutcomeInv'
  BY DEF ResetRoom, OutcomeInv, OutcomeInBattle, ReceiptsFollowSettlement,
         FailedRoundIsNotLive, NoLive

\* Opening the barrier keeps the outcome of the load, which has none.
LEMMA ActivateOutcome ==
    ASSUME OutcomeInv, NEW M, NEW lk, NEW p, phase = "loading",
           Activate(M, lk, p), UNCHANGED <<result, receipts, frozen>>
    PROVE  OutcomeInv'
  BY DEF Activate, OutcomeInv, OutcomeInBattle, ReceiptsFollowSettlement,
         FailedRoundIsNotLive

\* Settling an undecided battle writes the receipts of all its participants, or
\* changes nothing.
LEMMA SettleOutcome ==
    ASSUME OutcomeInv, NEW ok \in BOOLEAN, NEW t, Settle(ok, t),
           phase = "battle", result = "none", UNCHANGED <<phase, frozen, live>>
    PROVE  OutcomeInv'
  BY DEF Settle, OutcomeInv, OutcomeInBattle, ReceiptsFollowSettlement,
         FailedRoundIsNotLive

\* What a departure does to those who stay keeps the outcome consistent.
LEMMA DepartureOutcome ==
    ASSUME OutcomeInv, NEW M, NEW lk, NEW p, NEW al, Departure(M, lk, p, al)
    PROVE  OutcomeInv'
<1>1. UNCHANGED frozen
  BY DEF Departure
<1>2. CASE phase = "loading" /\ BarrierMet(M, lk, p, ready, manifest)
  <2>1. Activate(M, lk, p) /\ NoSettle
    BY <1>2 DEF Departure
  <2> QED
    BY <1>1, <1>2, <2>1, ActivateOutcome DEF NoSettle
<1>3. CASE ~(phase = "loading" /\ BarrierMet(M, lk, p, ready, manifest))
  <2>1. UNCHANGED <<phase, tick, live>>
    BY <1>3 DEF Departure
  <2>2. CASE NoSettle
    BY <1>1, <2>1, <2>2 DEF NoSettle, OutcomeInv, OutcomeInBattle,
       ReceiptsFollowSettlement, FailedRoundIsNotLive
  <2>3. ASSUME phase = "battle", result = "none",
               NEW ok \in BOOLEAN, Settle(ok, tick)
        PROVE  OutcomeInv'
    BY <1>1, <2>1, <2>3, SettleOutcome
  <2> QED
    BY <2>2, <2>3 DEF Departure
<1> QED
  BY <1>2, <1>3

\* Taking a worker's or a tick's failure for the end of an active round.
LEMMA FailureOutcome ==
    ASSUME OutcomeInv, phase' = "battle", WithdrawBarrier,
           FinishFailed \/ UNCHANGED result, UNCHANGED <<receipts, frozen>>,
           result # "none" => result' = result
    PROVE  OutcomeInv'
  BY DEF WithdrawBarrier, FinishFailed, OutcomeInv, OutcomeInBattle,
         ReceiptsFollowSettlement, FailedRoundIsNotLive, NoLive

\* Every step of the room preserves the strengthened outcome invariant.
LEMMA OutcomeStep ==
    OutcomeInv /\ [Next]_vars => OutcomeInv'
<1> SUFFICES ASSUME OutcomeInv, [Next]_vars PROVE OutcomeInv'
  OBVIOUS
<1>same. ASSUME UNCHANGED <<phase, result, receipts, frozen, live>>
         PROVE  OutcomeInv'
  BY <1>same DEF OutcomeInv, OutcomeInBattle, ReceiptsFollowSettlement,
                 FailedRoundIsNotLive
<1>1. ASSUME NEW c \in Conns, AddPlayer(c) PROVE OutcomeInv'
  BY <1>1, <1>same DEF AddPlayer, roundVars
<1>2. ASSUME NEW e \in Endpoints, LinkFails(e) PROVE OutcomeInv'
  BY <1>2, <1>same DEF LinkFails, roundVars
<1>remove. ASSUME NEW c, RemovePlayer(c) PROVE OutcomeInv'
  BY <1>remove, ResetOutcome, DepartureOutcome DEF RemovePlayer
<1>3. ASSUME NEW c \in Conns, HandlerExits(c) PROVE OutcomeInv'
  BY <1>3, <1>remove, <1>same DEF HandlerExits, roundVars
<1>4. ASSUME NEW c \in Conns, DropPlayer(c) PROVE OutcomeInv'
  BY <1>4, <1>remove DEF DropPlayer
<1>5. ASSUME NEW c \in Conns, LeaveBattle(c) PROVE OutcomeInv'
  BY <1>5, ResetOutcome, DepartureOutcome DEF LeaveBattle
<1>6. ASSUME NEW w \in Workers, AddWorker(w) PROVE OutcomeInv'
  BY <1>6, <1>same DEF AddWorker, roundVars
<1>7. ASSUME RemoveWorker PROVE OutcomeInv'
  <2>1. CASE Active /\ authority /\ members = {}
    BY <1>7, <2>1, ResetOutcome DEF RemoveWorker
  <2>2. CASE Active /\ authority /\ members # {}
    <3>1. /\ phase' = "battle" /\ WithdrawBarrier /\ FinishFailed
          /\ UNCHANGED <<receipts, frozen>>
      BY <1>7, <2>2 DEF RemoveWorker
    <3> QED
      BY <3>1, FailureOutcome DEF FinishFailed
  <2>3. CASE ~(Active /\ authority)
    BY <1>7, <2>3, <1>same DEF RemoveWorker
  <2> QED
    BY <2>1, <2>2, <2>3
<1>8. ASSUME NEW c \in Conns, NEW lost \in BOOLEAN, RequestStart(c, lost)
      PROVE  OutcomeInv'
  BY <1>8 DEF RequestStart, OutcomeInv, OutcomeInBattle,
              ReceiptsFollowSettlement, FailedRoundIsNotLive
<1>9. ASSUME PreflightFails PROVE OutcomeInv'
  BY <1>9, ResetOutcome DEF PreflightFails
<1>10. ASSUME NEW e \in Endpoints, Load(e) PROVE OutcomeInv'
  BY <1>10, <1>same DEF Load, roundVars
<1>11. ASSUME NEW e \in Endpoints, NEW r \in 1..MaxRound, BattleReady(e, r)
       PROVE  OutcomeInv'
  BY <1>11, <1>same, ActivateOutcome DEF BattleReady
<1>12. ASSUME UpdateManifest PROVE OutcomeInv'
  BY <1>12, <1>same DEF UpdateManifest
<1>13. ASSUME ActivateAfterManifest PROVE OutcomeInv'
  BY <1>13, <1>same, ActivateOutcome DEF ActivateAfterManifest
<1>14. ASSUME NEW al, NEW bots, Casualty(al, bots) PROVE OutcomeInv'
  <2>1. CASE NoSettle
    BY <1>14, <2>1, <1>same DEF Casualty, NoSettle
  <2>2. ASSUME NEW ok \in BOOLEAN, Settle(ok, tick) PROVE OutcomeInv'
    BY <1>14, <2>2, SettleOutcome DEF Casualty, CombatAccepting
  <2> QED
    BY <1>14, <2>1, <2>2 DEF Casualty
<1>15. ASSUME NEW c \in Conns, PlayerDies(c) PROVE OutcomeInv'
  BY <1>14, <1>15 DEF PlayerDies
<1>16. ASSUME NEW t \in Teams, BotTeamDies(t) PROVE OutcomeInv'
  BY <1>14, <1>16 DEF BotTeamDies
<1>17. ASSUME TickBegin PROVE OutcomeInv'
  <2>1. CASE ResetRoom(members, link, worker)
    BY <2>1, ResetOutcome
  <2>2. CASE live' = NoLive /\ UNCHANGED <<phase, result, receipts, frozen>>
    BY <2>2 DEF OutcomeInv, OutcomeInBattle, ReceiptsFollowSettlement,
                FailedRoundIsNotLive, NoLive
  <2> QED
    BY <1>17, <2>1, <2>2 DEF TickBegin
<1>18. ASSUME TickAdvance PROVE OutcomeInv'
  <2>1. UNCHANGED <<phase, frozen, live>>
    BY <1>18 DEF TickAdvance
  <2>2. CASE UNCHANGED <<result, receipts>>
    BY <2>1, <2>2, <1>same
  <2>3. ASSUME NEW ok \in BOOLEAN, TickSettles(ok, NextTick),
               phase = "battle", result = "none"
        PROVE  OutcomeInv'
    BY <2>1, <2>3 DEF TickSettles, OutcomeInv, OutcomeInBattle,
                      ReceiptsFollowSettlement, FailedRoundIsNotLive
  <2> QED
    BY <1>18, <2>2, <2>3 DEF TickAdvance
<1>19. ASSUME TickRaises PROVE OutcomeInv'
  <2>1. UNCHANGED <<phase, frozen, live>> /\ phase = "battle"
    BY <1>19 DEF TickRaises
  <2>2. CASE UNCHANGED <<result, receipts>>
    BY <2>1, <2>2, <1>same
  <2>3. CASE result = "none" /\ result' = "settled" /\ receipts' = receipts \cup frozen
    BY <2>1, <2>3 DEF OutcomeInv, OutcomeInBattle, ReceiptsFollowSettlement,
                      FailedRoundIsNotLive
  <2> QED
    BY <1>19, <2>2, <2>3 DEF TickRaises
<1>20. ASSUME HandleTickFailure PROVE OutcomeInv'
  <2>1. CASE Active
    <3>1. WithdrawBarrier /\ UNCHANGED <<receipts, frozen>>
      BY <1>20, <2>1 DEF HandleTickFailure
    <3>2. CASE result = "none"
      BY <1>20, <2>1, <3>1, <3>2, FailureOutcome DEF HandleTickFailure
    <3>3. CASE result # "none"
      <4>1. phase' = "battle" /\ UNCHANGED result
        BY <1>20, <2>1, <3>3
        DEF HandleTickFailure, OutcomeInv, OutcomeInBattle
      <4> QED
        BY <3>1, <4>1, FailureOutcome
    <3> QED
      BY <3>2, <3>3
  <2>2. CASE ~Active
    BY <1>20, <2>2, <1>same DEF HandleTickFailure
  <2> QED
    BY <2>1, <2>2
<1>21. CASE UNCHANGED vars
  BY <1>21, <1>same DEF vars, roundVars
<1> QED
  BY <1>1, <1>2, <1>3, <1>4, <1>5, <1>6, <1>7, <1>8, <1>9, <1>10, <1>11, <1>12,
     <1>13, <1>15, <1>16, <1>17, <1>18, <1>19, <1>20, <1>21 DEF Next

\* Settlement is all or nothing (_finish_battle persists before it commits, and
\* no path after it takes a receipt away or adds one).
THEOREM RoomReceipts == Spec => []ReceiptsFollowSettlement
<1>1. Init => OutcomeInv
  BY DEF Init, OutcomeInv, OutcomeInBattle, ReceiptsFollowSettlement,
         FailedRoundIsNotLive, NoLive
<1>2. OutcomeInv => ReceiptsFollowSettlement
  BY DEF OutcomeInv
<1> QED
  BY <1>1, <1>2, OutcomeStep, PTL DEF Spec

\* A failed round and a room that is not in battle have no barrier in the queue
\* (remove_simulation_worker, handle_tick_failure, _reset_round withdraw it).
THEOREM RoomBarrierWithdrawn == Spec => []FailedRoundIsNotLive
<1>1. Init => OutcomeInv
  BY DEF Init, OutcomeInv, OutcomeInBattle, ReceiptsFollowSettlement,
         FailedRoundIsNotLive, NoLive
<1>2. OutcomeInv => FailedRoundIsNotLive
  BY DEF OutcomeInv
<1> QED
  BY <1>1, <1>2, OutcomeStep, PTL DEF Spec

-------------------------------------------------------------------------------
(* Action properties of a round. *)

\* A reset is a new round.
LEMMA ResetIsNewRound ==
    ASSUME TypeOK, NEW M, NEW lk, NEW w, ResetRoom(M, lk, w)
    PROVE  round' # round
  BY DEF ResetRoom, TypeOK

\* A departure that resets nothing leaves a decided round as it is.
LEMMA DepartureKeepsOutcome ==
    ASSUME NEW M, NEW lk, NEW p, NEW al, Departure(M, lk, p, al),
           result # "none"
    PROVE  UNCHANGED <<result, resetTick>>
  BY DEF Departure, NoSettle

\* A decided round keeps its outcome and its reset tick until it is reset: no
\* later leave, death, timeout, lost worker or failed tick decides it again.
THEOREM RoomOneOutcome == Spec => OneOutcome
<1> DEFINE Kept == result # "none" /\ round' = round =>
                     result' = result /\ resetTick' = resetTick
<1>1. ASSUME TypeOK, [Next]_vars PROVE Kept
  <2> SUFFICES ASSUME result # "none", round' = round
               PROVE  UNCHANGED <<result, resetTick>>
    OBVIOUS
  <2> USE <1>1
  <2>1. ASSUME NEW c \in Conns, AddPlayer(c)
        PROVE  UNCHANGED <<result, resetTick>>
    BY <2>1 DEF AddPlayer, roundVars
  <2>2. ASSUME NEW e \in Endpoints, LinkFails(e)
        PROVE  UNCHANGED <<result, resetTick>>
    BY <2>2 DEF LinkFails, roundVars
  <2>remove. ASSUME NEW c, RemovePlayer(c) PROVE UNCHANGED <<result, resetTick>>
    BY <2>remove, ResetIsNewRound, DepartureKeepsOutcome DEF RemovePlayer
  <2>3. ASSUME NEW c \in Conns, HandlerExits(c)
        PROVE  UNCHANGED <<result, resetTick>>
    BY <2>3, <2>remove DEF HandlerExits, roundVars
  <2>4. ASSUME NEW c \in Conns, DropPlayer(c)
        PROVE  UNCHANGED <<result, resetTick>>
    BY <2>4, <2>remove DEF DropPlayer
  <2>5. ASSUME NEW c \in Conns, LeaveBattle(c)
        PROVE  UNCHANGED <<result, resetTick>>
    BY <2>5, ResetIsNewRound, DepartureKeepsOutcome DEF LeaveBattle
  <2>6. ASSUME NEW w \in Workers, AddWorker(w)
        PROVE  UNCHANGED <<result, resetTick>>
    BY <2>6 DEF AddWorker, roundVars
  <2>7. ASSUME RemoveWorker PROVE UNCHANGED <<result, resetTick>>
    BY <2>7, ResetIsNewRound DEF RemoveWorker, FinishFailed
  <2>8. ASSUME NEW c \in Conns, NEW lost \in BOOLEAN, RequestStart(c, lost)
        PROVE  UNCHANGED <<result, resetTick>>
    BY <2>8 DEF RequestStart
  <2>9. ASSUME PreflightFails PROVE UNCHANGED <<result, resetTick>>
    BY <2>9, ResetIsNewRound DEF PreflightFails
  <2>10. ASSUME NEW e \in Endpoints, Load(e)
         PROVE  UNCHANGED <<result, resetTick>>
    BY <2>10 DEF Load, roundVars
  <2>11. ASSUME NEW e \in Endpoints, NEW r \in 1..MaxRound, BattleReady(e, r)
         PROVE  UNCHANGED <<result, resetTick>>
    BY <2>11 DEF BattleReady
  <2>12. ASSUME UpdateManifest \/ ActivateAfterManifest
         PROVE  UNCHANGED <<result, resetTick>>
    BY <2>12 DEF UpdateManifest, ActivateAfterManifest
  <2>13. ASSUME NEW al, NEW bots, Casualty(al, bots)
         PROVE  UNCHANGED <<result, resetTick>>
    BY <2>13 DEF Casualty
  <2>14. ASSUME NEW c \in Conns, PlayerDies(c)
         PROVE  UNCHANGED <<result, resetTick>>
    BY <2>13, <2>14 DEF PlayerDies
  <2>15. ASSUME NEW t \in Teams, BotTeamDies(t)
         PROVE  UNCHANGED <<result, resetTick>>
    BY <2>13, <2>15 DEF BotTeamDies
  <2>16. ASSUME TickBegin PROVE UNCHANGED <<result, resetTick>>
    BY <2>16, ResetIsNewRound DEF TickBegin
  <2>17. ASSUME TickAdvance PROVE UNCHANGED <<result, resetTick>>
    BY <2>17 DEF TickAdvance
  <2>18. ASSUME TickRaises PROVE UNCHANGED <<result, resetTick>>
    BY <2>18 DEF TickRaises
  <2>19. ASSUME HandleTickFailure PROVE UNCHANGED <<result, resetTick>>
    BY <2>19 DEF HandleTickFailure
  <2>20. CASE UNCHANGED vars
    BY <2>20 DEF vars, roundVars
  <2> QED
    BY <2>1, <2>2, <2>3, <2>4, <2>5, <2>6, <2>7, <2>8, <2>9, <2>10, <2>11,
       <2>12, <2>14, <2>15, <2>16, <2>17, <2>18, <2>19, <2>20 DEF Next
<1>2. Spec => [][Kept]_vars
  BY <1>1, RoomTypeOK, PTL DEF Spec
<1> QED
  BY <1>2 DEF OneOutcome

\* Within a round the epoch never falls, and moves with the authority.
THEOREM RoomEpochFence == Spec => EpochFencesAuthority
<1> DEFINE Fenced == round' = round =>
                       /\ epoch' >= epoch
                       /\ authority' # authority => epoch' > epoch
<1>1. ASSUME TypeOK, [Next]_vars PROVE Fenced
  <2> SUFFICES ASSUME round' = round
               PROVE  /\ epoch' >= epoch
                      /\ authority' # authority => epoch' > epoch
    OBVIOUS
  <2> USE <1>1
  <2>elect. ASSUME NEW up, Elect(up) PROVE Fenced
    BY <2>elect DEF Elect, TypeOK
  <2>same. ASSUME UNCHANGED <<authority, epoch>> PROVE Fenced
    BY <2>same DEF TypeOK
  <2>1. ASSUME NEW c \in Conns, AddPlayer(c) PROVE Fenced
    BY <2>1, <2>same DEF AddPlayer, workerVars
  <2>2. ASSUME NEW e \in Endpoints, LinkFails(e) PROVE Fenced
    BY <2>2, <2>same DEF LinkFails, workerVars
  <2>departure. ASSUME NEW M, NEW lk, NEW p, NEW al, Departure(M, lk, p, al)
                PROVE  Fenced
    BY <2>departure, <2>same DEF Departure
  <2>remove. ASSUME NEW c, RemovePlayer(c) PROVE Fenced
    BY <2>remove, <2>departure, ResetIsNewRound DEF RemovePlayer
  <2>3. ASSUME NEW c \in Conns, HandlerExits(c) PROVE Fenced
    BY <2>3, <2>remove, <2>same DEF HandlerExits, workerVars
  <2>4. ASSUME NEW c \in Conns, DropPlayer(c) PROVE Fenced
    BY <2>4, <2>remove DEF DropPlayer
  <2>5. ASSUME NEW c \in Conns, LeaveBattle(c) PROVE Fenced
    BY <2>5, <2>departure, ResetIsNewRound DEF LeaveBattle
  <2>6. ASSUME NEW w \in Workers, AddWorker(w) PROVE Fenced
    BY <2>6, <2>elect DEF AddWorker
  <2>7. ASSUME RemoveWorker PROVE Fenced
    BY <2>7, <2>elect, ResetIsNewRound DEF RemoveWorker
  <2>8. ASSUME NEW c \in Conns, NEW lost \in BOOLEAN, RequestStart(c, lost)
        PROVE  Fenced
    BY <2>8, <2>elect DEF RequestStart
  <2>9. ASSUME PreflightFails PROVE Fenced
    BY <2>9, ResetIsNewRound DEF PreflightFails
  <2>10. ASSUME NEW e \in Endpoints, Load(e) PROVE Fenced
    BY <2>10, <2>same DEF Load, workerVars
  <2>11. ASSUME NEW e \in Endpoints, NEW r \in 1..MaxRound, BattleReady(e, r)
         PROVE  Fenced
    BY <2>11, <2>same DEF BattleReady, workerVars
  <2>12. ASSUME UpdateManifest \/ ActivateAfterManifest PROVE Fenced
    BY <2>12, <2>same DEF UpdateManifest, ActivateAfterManifest
  <2>13. ASSUME NEW al, NEW bots, Casualty(al, bots) PROVE Fenced
    BY <2>13, <2>same DEF Casualty, workerVars
  <2>14. ASSUME NEW c \in Conns, PlayerDies(c) PROVE Fenced
    BY <2>13, <2>14 DEF PlayerDies
  <2>15. ASSUME NEW t \in Teams, BotTeamDies(t) PROVE Fenced
    BY <2>13, <2>15 DEF BotTeamDies
  <2>16. ASSUME TickBegin PROVE Fenced
    BY <2>16, <2>same, ResetIsNewRound DEF TickBegin, workerVars
  <2>17. ASSUME TickAdvance \/ TickRaises \/ HandleTickFailure PROVE Fenced
    BY <2>17, <2>same DEF TickAdvance, TickRaises, HandleTickFailure, workerVars
  <2>18. ASSUME UNCHANGED vars PROVE Fenced
    BY <2>18, <2>same DEF vars, workerVars
  <2> QED
    BY <2>1, <2>2, <2>3, <2>4, <2>5, <2>6, <2>7, <2>8, <2>9, <2>10, <2>11,
       <2>12, <2>14, <2>15, <2>16, <2>17, <2>18 DEF Next
<1>2. Spec => [][Fenced]_vars
  BY <1>1, RoomTypeOK, PTL DEF Spec
<1> QED
  BY <1>2 DEF EpochFencesAuthority

-------------------------------------------------------------------------------
(* Who is in the room: player ids, which resets recycle, and the host. *)

\* A connection that is in the room has joined.
MembersHaveJoined == \A c \in members : thread[c] # "new"

\* The host is somebody in the room, and nobody only when no player is connected.
HostIsElected ==
    /\ host = 0 => Connected(members, link) = {}
    /\ host # 0 => \E d \in members : pid[d] = host

\* The inductive invariant of the lobby.
LobbyInv == IdsAreUnique /\ MembersHaveJoined /\ HostIsElected

\* _reset_round over some of the players: their ids stay below the new next_id
\* and the host is elected among them.
LEMMA ResetLobby ==
    ASSUME TypeOK, LobbyInv, NEW M \in SUBSET members, NEW w,
           NEW lk, \A c \in M : lk[c] => link[c],
           ResetRoom(M, lk, w), members' = M, pid' = pid, link' = lk,
           \A c \in members : thread'[c] # "new"
    PROVE  LobbyInv'
<1>1. IdsAreUnique'
  <2>1. \A c \in M : pid[c] \in 1..(nextId - 1)
    BY DEF LobbyInv, IdsAreUnique
  <2>2. PICK n \in 1..nextId : (\A c \in M : pid[c] < n) /\ nextId' = n
    BY DEF ResetRoom, RewindIds
  <2>3. \A c \in M : pid[c] \in 1..(nextId' - 1)
    BY <2>1, <2>2 DEF TypeOK
  <2> QED
    BY <2>3 DEF LobbyInv, IdsAreUnique
<1>2. MembersHaveJoined'
  BY DEF MembersHaveJoined
<1>3. HostIsElected'
  <2>1. PICK h \in {0} \cup {pid[c] : c \in M} :
           Elected(h, M, lk) /\ host' = h
    BY DEF ResetRoom
  <2>2. CASE Connected(M, lk) = {}
    BY <2>1, <2>2 DEF Elected, HostIsElected, Connected
  <2>3. CASE Connected(M, lk) # {}
    <3>1. PICK c \in Connected(M, lk) : pid[c] = h
      BY <2>1, <2>3 DEF Elected
    <3>2. c \in M /\ pid[c] # 0
      BY <3>1 DEF Connected, LobbyInv, IdsAreUnique
    <3> QED
      BY <2>1, <3>1, <3>2 DEF HostIsElected
  <2> QED
    BY <2>2, <2>3
<1> QED
  BY <1>1, <1>2, <1>3 DEF LobbyInv

\* remove_player: the leaver's id is free again, and a new host is elected if
\* the leaver was it.
LEMMA RemoveLobby ==
    ASSUME TypeOK, LobbyInv, NEW c \in members, RemovePlayer(c),
           \A d \in members : thread'[d] # "new"
    PROVE  LobbyInv'
<1> DEFINE M  == members \ {c}
           lk == [link EXCEPT ![c] = FALSE]
<1>1. /\ members' = M /\ link' = lk /\ pid' = pid
      /\ M \in SUBSET members /\ \A d \in M : lk[d] => link[d]
  BY DEF RemovePlayer, TypeOK
<1>2. CASE phase = "loading" /\ M = {}
  <2>1. ResetRoom(M, lk, worker)
    BY <1>2 DEF RemovePlayer
  <2> HIDE DEF M, lk
  <2> QED
    BY <1>1, <2>1, ResetLobby
<1>3. CASE ~(phase = "loading" /\ M = {})
  <2>1. nextId' = nextId /\ HostMoves(c, M, lk)
    BY <1>3 DEF RemovePlayer, Departure
  <2>2. IdsAreUnique' /\ MembersHaveJoined'
    BY <1>1, <2>1 DEF LobbyInv, IdsAreUnique, MembersHaveJoined
  <2>3. HostIsElected'
    <3>1. PICK h \in {host, 0} \cup {pid[d] : d \in M} :
             /\ IF pid[c] = host THEN Elected(h, M, lk) ELSE h = host
             /\ host' = IF M = {} /\ ~WorkerUp(worker, lk) THEN 0 ELSE h
      BY <2>1 DEF HostMoves
    <3>2. Connected(M, lk) \subseteq Connected(members, link)
      BY <1>1 DEF Connected
    <3>3. \A d \in members : pid[d] # 0
      BY DEF LobbyInv, IdsAreUnique
    <3>4. CASE M = {} /\ ~WorkerUp(worker, lk)
      BY <1>1, <3>1, <3>4 DEF HostIsElected, Connected
    <3>5. CASE ~(M = {} /\ ~WorkerUp(worker, lk)) /\ pid[c] = host
      <4>1. Elected(h, M, lk) /\ host' = h
        BY <3>1, <3>5
      <4>2. CASE Connected(M, lk) = {}
        BY <1>1, <4>1, <4>2 DEF Elected, HostIsElected
      <4>3. CASE Connected(M, lk) # {}
        <5>1. PICK d \in Connected(M, lk) : pid[d] = h
          BY <4>1, <4>3 DEF Elected
        <5>2. d \in M /\ pid[d] # 0
          BY <1>1, <3>3, <5>1 DEF Connected
        <5> QED
          BY <1>1, <4>1, <5>1, <5>2 DEF HostIsElected
      <4> QED
        BY <4>2, <4>3
    <3>6. CASE ~(M = {} /\ ~WorkerUp(worker, lk)) /\ pid[c] # host
      <4>1. host' = host
        BY <3>1, <3>6
      <4>2. host = 0 => Connected(M, lk) = {}
        BY <3>2 DEF LobbyInv, HostIsElected
      <4>3. host # 0 => \E d \in M : pid[d] = host
        BY <3>6 DEF LobbyInv, HostIsElected
      <4> QED
        BY <1>1, <4>1, <4>2, <4>3 DEF HostIsElected
    <3> QED
      BY <3>4, <3>5, <3>6
  <2> QED
    BY <2>2, <2>3 DEF LobbyInv
<1> QED
  BY <1>2, <1>3

\* Steps that touch no player keep the lobby; a link may fail meanwhile.
LEMMA SameLobby ==
    ASSUME LobbyInv, UNCHANGED <<members, pid, nextId, host>>,
           \A c \in members : /\ link'[c] => link[c]
                              /\ thread'[c] # "new"
    PROVE  LobbyInv'
<1>1. IdsAreUnique' /\ MembersHaveJoined'
  BY DEF LobbyInv, IdsAreUnique, MembersHaveJoined
<1>2. Connected(members, link)' \subseteq Connected(members, link)
  BY DEF Connected
<1>3. HostIsElected'
  BY <1>2 DEF LobbyInv, HostIsElected
<1> QED
  BY <1>1, <1>3 DEF LobbyInv

\* Every step of the room preserves the strengthened lobby invariant.
LEMMA LobbyStep ==
    TypeOK /\ LobbyInv /\ [Next]_vars => LobbyInv'
<1> SUFFICES ASSUME TypeOK, LobbyInv, [Next]_vars PROVE LobbyInv'
  OBVIOUS
<1>joined. \A c \in members : thread[c] # "new"
  BY DEF LobbyInv, MembersHaveJoined
<1>same. ASSUME UNCHANGED <<lobbyVars, link>> PROVE LobbyInv'
  BY <1>same, <1>joined, SameLobby DEF lobbyVars
<1>reset. ASSUME ResetRoom(members, link, worker),
                 UNCHANGED <<members, pid, thread, link>>
          PROVE  LobbyInv'
  <2>1. members \in SUBSET members /\ members' = members
        /\ \A c \in members : (link[c] => link[c]) /\ thread'[c] # "new"
    BY <1>reset, <1>joined
  <2> QED
    BY <1>reset, <2>1, ResetLobby
<1>departure. ASSUME NEW p, NEW al, Departure(members, link, p, al),
                     UNCHANGED <<members, pid, host, thread, link>>
              PROVE  LobbyInv'
  BY <1>departure, <1>same DEF Departure, lobbyVars
<1>1. ASSUME NEW c \in Conns, AddPlayer(c) PROVE LobbyInv'
  <2>1. /\ c \notin members /\ members' = members \cup {c}
        /\ pid' = [pid EXCEPT ![c] = nextId] /\ nextId' = nextId + 1
        /\ thread' = [thread EXCEPT ![c] = "run"]
        /\ link' = [link EXCEPT ![c] = TRUE]
        /\ host' = IF host = 0 THEN nextId ELSE host
    BY <1>1, <1>joined DEF AddPlayer
  <2>2. /\ pid'[c] = nextId
        /\ \A d \in members : /\ pid'[d] = pid[d] /\ pid[d] \in 1..(nextId - 1)
                              /\ thread'[d] = thread[d]
    BY <2>1 DEF TypeOK, LobbyInv, IdsAreUnique
  <2>3. IdsAreUnique'
    <3>1. nextId \in Nat \ {0} /\ nextId' - 1 = nextId
      BY <2>1 DEF TypeOK
    <3>2. \A d \in members' : pid'[d] \in 1..(nextId' - 1)
      BY <2>1, <2>2, <3>1
    <3>3. \A d, e \in members' : pid'[d] = pid'[e] => d = e
      BY <2>1, <2>2, <3>1 DEF LobbyInv, IdsAreUnique
    <3> QED
      BY <3>2, <3>3 DEF IdsAreUnique
  <2>4. MembersHaveJoined'
    BY <2>1, <2>2, <1>joined DEF MembersHaveJoined, TypeOK
  <2>5. HostIsElected'
    <3>1. host' # 0
      BY <2>1 DEF TypeOK
    <3>2. CASE host = 0
      BY <2>1, <2>2, <3>1, <3>2 DEF HostIsElected
    <3>3. CASE host # 0
      <4>1. PICK d \in members : pid[d] = host
        BY <3>3 DEF LobbyInv, HostIsElected
      <4>2. d \in members' /\ pid'[d] = host'
        BY <2>1, <2>2, <3>3, <4>1
      <4> QED
        BY <3>1, <4>2 DEF HostIsElected
    <3> QED
      BY <3>2, <3>3
  <2> QED
    BY <2>3, <2>4, <2>5 DEF LobbyInv
<1>2. ASSUME NEW e \in Endpoints, LinkFails(e) PROVE LobbyInv'
  <2>1. /\ UNCHANGED <<members, pid, nextId, host, thread>>
        /\ \A c \in members : link'[c] => link[c]
    BY <1>2 DEF LinkFails, lobbyVars, TypeOK
  <2> QED
    BY <2>1, <1>joined, SameLobby
<1>3. ASSUME NEW c \in Conns, HandlerExits(c) PROVE LobbyInv'
  <2>1. \A d \in members : thread'[d] # "new"
    BY <1>3, <1>joined DEF HandlerExits, TypeOK
  <2>2. CASE OwnPlayer(c) # {}
    <3>1. PICK d \in OwnPlayer(c) : RemovePlayer(d)
      BY <1>3, <2>2 DEF HandlerExits
    <3>2. d \in members
      BY DEF OwnPlayer
    <3> QED
      BY <2>1, <3>1, <3>2, RemoveLobby
  <2>3. CASE OwnPlayer(c) = {}
    <3>1. UNCHANGED <<members, pid, nextId, host, link>>
      BY <1>3, <2>3 DEF HandlerExits
    <3> QED
      BY <2>1, <3>1, SameLobby
  <2> QED
    BY <2>2, <2>3
<1>4. ASSUME NEW c \in Conns, DropPlayer(c) PROVE LobbyInv'
  <2>1. c \in members /\ RemovePlayer(c) /\ \A d \in members : thread'[d] # "new"
    BY <1>4, <1>joined DEF DropPlayer
  <2> QED
    BY <2>1, RemoveLobby
<1>5. ASSUME NEW c \in Conns, LeaveBattle(c) PROVE LobbyInv'
  BY <1>5, <1>reset, <1>departure DEF LeaveBattle
<1>6. ASSUME NEW w \in Workers, AddWorker(w) PROVE LobbyInv'
  <2>1. UNCHANGED <<members, pid, nextId, host, thread>>
    BY <1>6 DEF AddWorker, lobbyVars
  <2>2. \A c \in members : link'[c] => link[c]
    BY <1>6, RoomAssumption DEF AddWorker, TypeOK
  <2> QED
    BY <2>1, <2>2, <1>joined, SameLobby
<1>7. ASSUME RemoveWorker PROVE LobbyInv'
  <2> DEFINE lk == [link EXCEPT ![worker] = FALSE]
  <2>1. /\ UNCHANGED <<members, pid, thread>> /\ link' = lk
        /\ \A c \in members : lk[c] => link[c]
    BY <1>7 DEF RemoveWorker, TypeOK
  <2>2. CASE ResetRoom(members, lk, NoWorker)
    <3>1. members \in SUBSET members /\ members' = members /\ pid' = pid
          /\ \A c \in members : thread'[c] # "new"
      BY <2>1, <1>joined
    <3> HIDE DEF lk
    <3> QED
      BY <2>1, <2>2, <3>1, ResetLobby
  <2>3. CASE UNCHANGED nextId /\ host' = IF members = {} THEN 0 ELSE host
    <3>1. CASE members = {}
      BY <2>1, <2>3, <3>1
      DEF LobbyInv, IdsAreUnique, MembersHaveJoined, HostIsElected, Connected
    <3>2. CASE members # {}
      BY <2>1, <2>3, <3>2, <1>joined, SameLobby
    <3> QED
      BY <3>1, <3>2
  <2> QED
    BY <1>7, <2>2, <2>3 DEF RemoveWorker
<1>8. ASSUME NEW c \in Conns, NEW lost \in BOOLEAN, RequestStart(c, lost)
      PROVE  LobbyInv'
  <2>1. UNCHANGED <<members, pid, nextId, host, thread>>
    BY <1>8 DEF RequestStart, lobbyVars
  <2>2. \A d \in members : link'[d] => link[d]
    BY <1>8 DEF RequestStart, WorkerUp, TypeOK
  <2> QED
    BY <2>1, <2>2, <1>joined, SameLobby
<1>9. ASSUME PreflightFails PROVE LobbyInv'
  BY <1>9, <1>reset DEF PreflightFails
<1>10. ASSUME NEW e \in Endpoints, Load(e) PROVE LobbyInv'
  BY <1>10, <1>same DEF Load
<1>11. ASSUME NEW e \in Endpoints, NEW r \in 1..MaxRound, BattleReady(e, r)
       PROVE  LobbyInv'
  BY <1>11, <1>same DEF BattleReady
<1>12. ASSUME UpdateManifest \/ ActivateAfterManifest PROVE LobbyInv'
  BY <1>12, <1>same DEF UpdateManifest, ActivateAfterManifest
<1>13. ASSUME NEW al, NEW bots, Casualty(al, bots) PROVE LobbyInv'
  BY <1>13, <1>same DEF Casualty
<1>14. ASSUME NEW c \in Conns, PlayerDies(c) PROVE LobbyInv'
  BY <1>13, <1>14 DEF PlayerDies
<1>15. ASSUME NEW t \in Teams, BotTeamDies(t) PROVE LobbyInv'
  BY <1>13, <1>15 DEF BotTeamDies
<1>16. ASSUME TickBegin PROVE LobbyInv'
  <2>1. UNCHANGED link
    BY <1>16 DEF TickBegin
  <2> QED
    BY <1>16, <2>1, <1>reset, <1>same DEF TickBegin
<1>17. ASSUME TickAdvance \/ TickRaises \/ HandleTickFailure PROVE LobbyInv'
  BY <1>17, <1>same DEF TickAdvance, TickRaises, HandleTickFailure
<1>18. ASSUME UNCHANGED vars PROVE LobbyInv'
  BY <1>18, <1>same DEF vars
<1> QED
  BY <1>1, <1>2, <1>3, <1>4, <1>5, <1>6, <1>7, <1>8, <1>9, <1>10, <1>11, <1>12,
     <1>14, <1>15, <1>16, <1>17, <1>18 DEF Next

\* The strengthened lobby invariant holds in every reachable room.
LEMMA LobbyInvariant == Spec => []LobbyInv
<1>1. Init => LobbyInv
  BY DEF Init, LobbyInv, IdsAreUnique, MembersHaveJoined, HostIsElected,
         Connected
<1> QED
  BY <1>1, LobbyStep, RoomTypeOK, PTL DEF Spec

\* Player ids never collide in the room, however often a reset rewinds next_id
\* while players stay (add_player and _reset_round).
THEOREM RoomIdsAreUnique == Spec => []IdsAreUnique
<1>1. LobbyInv => IdsAreUnique
  BY DEF LobbyInv
<1> QED
  BY <1>1, LobbyInvariant, PTL

\* A room with a connected player has one of its players as the host.
THEOREM RoomHasHost == Spec => []HostIsInTheRoom
<1>1. LobbyInv => HostIsInTheRoom
  BY DEF LobbyInv, HostIsElected, HostIsInTheRoom
<1> QED
  BY <1>1, LobbyInvariant, PTL

-------------------------------------------------------------------------------
(* Leaving the room, and being told the result. *)

\* Every step of the room that is no joining and no removal keeps its members.
LEMMA MembersMove ==
    ASSUME TypeOK, [Next]_vars
    PROVE  \/ members \subseteq members'
           \/ \E c \in members : /\ members' = members \ {c}
                                 /\ ~link[c] \/ thread'[c] = "done"
<1>1. ASSUME NEW c \in Conns, AddPlayer(c) PROVE members \subseteq members'
  BY <1>1 DEF AddPlayer
<1>2. ASSUME NEW c \in Conns, HandlerExits(c), OwnPlayer(c) # {}
      PROVE  \E d \in members : members' = members \ {d} /\ thread'[d] = "done"
  <2>1. c \in members /\ RemovePlayer(c)
    BY <1>2 DEF HandlerExits, OwnPlayer
  <2>2. members' = members \ {c} /\ thread'[c] = "done"
    BY <1>2, <2>1 DEF RemovePlayer, HandlerExits, TypeOK
  <2> QED
    BY <2>1, <2>2
<1>3. ASSUME NEW c \in Conns, HandlerExits(c), OwnPlayer(c) = {} PROVE members' = members
  BY <1>3 DEF HandlerExits
<1>4. ASSUME NEW c \in Conns, DropPlayer(c)
      PROVE  c \in members /\ members' = members \ {c} /\ ~link[c]
  BY <1>4 DEF DropPlayer, RemovePlayer
<1>5. ASSUME NEW c \in Conns, LeaveBattle(c) PROVE members' = members
  BY <1>5 DEF LeaveBattle
<1>6. ASSUME NEW c \in Conns, PlayerDies(c) PROVE members' = members
  BY <1>6 DEF PlayerDies, Casualty, lobbyVars
<1>7. ASSUME NEW t \in Teams, BotTeamDies(t) PROVE members' = members
  BY <1>7 DEF BotTeamDies, Casualty, lobbyVars
<1>8. ASSUME NEW c \in Conns, NEW lost \in BOOLEAN, RequestStart(c, lost) PROVE members' = members
  BY <1>8 DEF RequestStart, lobbyVars
<1>9. ASSUME NEW e \in Endpoints, LinkFails(e) \/ Load(e) PROVE members' = members
  BY <1>9 DEF LinkFails, Load, lobbyVars
<1>10. ASSUME NEW e \in Endpoints, NEW r \in 1..MaxRound, BattleReady(e, r) PROVE members' = members
  BY <1>10 DEF BattleReady, lobbyVars
<1>11. ASSUME NEW w \in Workers, AddWorker(w) PROVE members' = members
  BY <1>11 DEF AddWorker, lobbyVars
<1>12. ASSUME RemoveWorker \/ PreflightFails \/ UpdateManifest \/ ActivateAfterManifest
       PROVE  members' = members
  BY <1>12 DEF RemoveWorker, PreflightFails, UpdateManifest, ActivateAfterManifest, lobbyVars
<1>13. ASSUME TickBegin \/ TickAdvance \/ TickRaises \/ HandleTickFailure PROVE members' = members
  BY <1>13 DEF TickBegin, TickAdvance, TickRaises, HandleTickFailure, lobbyVars
<1>14. ASSUME UNCHANGED vars PROVE members' = members
  BY <1>14 DEF vars, lobbyVars
<1> QED
  BY <1>1, <1>2, <1>3, <1>4, <1>5, <1>6, <1>7, <1>8, <1>9, <1>10, <1>11, <1>12, <1>13, <1>14
  DEF Next

\* No handler removes a connection but its own: only a failed link or the end of
\* its own handler takes a player out of the room (remove_player's `expected').
THEOREM RoomOnlyOwnExit == Spec => OnlyOwnExit
<1>1. TypeOK /\ [Next]_vars =>
        \A d \in members : d \notin members' => ~link[d] \/ thread'[d] = "done"
  BY MembersMove
<1> QED
  BY <1>1, RoomTypeOK, PTL DEF Spec, OnlyOwnExit

\* Until the clients have been told the result of a round, its event waits in
\* pending_events or with the tick that failed, and the reset is not near: one
\* more tick may fail before the event is out, two in a row stop the server.
ResultUntold == phase = "battle" /\ result # "none" /\ ~announced /\ tpc # "stopped"
ShownInv ==
    ResultUntold =>
        /\ resultEvent \/ tpc = "failed"
        /\ tick + 2 <= resetTick
        /\ tick + 3 <= resetTick \/ (streak = 1 /\ (live = NoLive \/ tpc = "failed"))

shownVars == <<phase, tick, live, result, resetTick, resultEvent, announced, tpc, streak>>

\* What a step may do to the result: nothing, settle it anew, clear or withdraw
\* the barrier, or start the round over.
LEMMA ShownKept ==
    ASSUME TypeOK, ShownInv,
           \/ UNCHANGED shownVars
           \/ /\ result = "none"
              /\ result' # "none" => resetTick' = tick + ResetTicks /\ resultEvent' = TRUE
              /\ UNCHANGED tick
           \/ phase' # "battle"
           \/ result' = "none"
    PROVE  ShownInv'
<1>1. tick \in Nat /\ ResetTicks \in Nat /\ ResetTicks >= 3
  BY RoomAssumption DEF TypeOK
<1>2. CASE UNCHANGED shownVars
  BY <1>2 DEF ShownInv, ResultUntold, shownVars
<1>3. CASE /\ result = "none"
           /\ result' # "none" => resetTick' = tick + ResetTicks /\ resultEvent' = TRUE
           /\ UNCHANGED tick
  <2>1. result' # "none" => /\ tick' + 3 <= resetTick' /\ tick' + 2 <= resetTick' /\ resultEvent'
    BY <1>1, <1>3
  <2> QED
    BY <2>1 DEF ShownInv, ResultUntold
<1> QED
  BY <1>2, <1>3 DEF ShownInv, ResultUntold

\* Every step of the room keeps it.
LEMMA ShownStep ==
    ASSUME TypeOK, OutcomeInv, ShownInv, [Next]_vars
    PROVE  ShownInv'
<1>type. tick \in Nat /\ MaxTick \in Nat /\ ResetTicks \in Nat /\ ResetTicks >= 3
  BY RoomAssumption DEF TypeOK
<1>wait. phase # "battle" => result = "none"
  BY DEF OutcomeInv, OutcomeInBattle
<1>next. NextTick <= tick + 1 /\ NextTick \in Nat
  BY <1>type DEF NextTick
<1>same. ASSUME UNCHANGED shownVars PROVE ShownInv'
  BY <1>same, ShownKept
<1>reset. ASSUME NEW M, NEW lk, NEW w, ResetRoom(M, lk, w) PROVE ShownInv'
  BY <1>reset, ShownKept DEF ResetRoom
<1>open. ASSUME phase = "loading", UNCHANGED result PROVE ShownInv'
  BY <1>open, <1>wait DEF ShownInv, ResultUntold
<1>settle. ASSUME NEW ok \in BOOLEAN, Settle(ok, tick), result = "none", UNCHANGED tick
           PROVE  ShownInv'
  BY <1>settle, ShownKept DEF Settle
<1>failed. ASSUME FinishFailed, result = "none", UNCHANGED tick PROVE ShownInv'
  BY <1>failed, ShownKept DEF FinishFailed
<1>departure. ASSUME NEW M, NEW lk, NEW p, NEW al, Departure(M, lk, p, al), UNCHANGED tickVars
              PROVE  ShownInv'
  <2>1. CASE phase = "loading"
    BY <1>departure, <1>open, <2>1 DEF Departure, NoSettle
  <2>2. CASE phase # "loading"
    <3>1. UNCHANGED <<phase, tick, live, announced>> /\ UNCHANGED <<tpc, streak>>
      BY <1>departure, <2>2 DEF Departure, tickVars
    <3>2. CASE NoSettle
      BY <3>1, <3>2, <1>same DEF NoSettle, shownVars
    <3>3. CASE \E ok \in BOOLEAN : Settle(ok, tick) /\ result = "none"
      BY <3>1, <3>3, <1>settle
    <3> QED
      BY <1>departure, <3>2, <3>3 DEF Departure
  <2> QED
    BY <2>1, <2>2
<1>1. ASSUME NEW c \in Conns, AddPlayer(c) PROVE ShownInv'
  BY <1>1, <1>same DEF AddPlayer, roundVars, tickVars, shownVars
<1>2. ASSUME NEW e \in Endpoints, LinkFails(e) PROVE ShownInv'
  BY <1>2, <1>same DEF LinkFails, roundVars, tickVars, shownVars
<1>remove. ASSUME NEW c, RemovePlayer(c) PROVE ShownInv'
  BY <1>remove, <1>reset, <1>departure DEF RemovePlayer
<1>3. ASSUME NEW c \in Conns, HandlerExits(c) PROVE ShownInv'
  BY <1>3, <1>remove, <1>same DEF HandlerExits, roundVars, tickVars, shownVars
<1>4. ASSUME NEW c \in Conns, DropPlayer(c) PROVE ShownInv'
  BY <1>4, <1>remove DEF DropPlayer
<1>5. ASSUME NEW c \in Conns, LeaveBattle(c) PROVE ShownInv'
  BY <1>5, <1>reset, <1>departure DEF LeaveBattle
<1>6. ASSUME NEW w \in Workers, AddWorker(w) PROVE ShownInv'
  BY <1>6, <1>same DEF AddWorker, roundVars, tickVars, shownVars
<1>7. ASSUME RemoveWorker PROVE ShownInv'
  <2>1. CASE Active /\ authority /\ members = {}
    BY <1>7, <2>1, <1>reset DEF RemoveWorker
  <2>2. CASE Active /\ authority /\ members # {}
    <3>1. /\ phase' = "battle" /\ WithdrawBarrier /\ FinishFailed
          /\ UNCHANGED <<tick, announced>> /\ UNCHANGED <<tpc, streak>>
      BY <1>7, <2>2 DEF RemoveWorker, tickVars
    <3>2. CASE result = "none"
      BY <3>1, <3>2, <1>failed
    <3>3. CASE result # "none"
      <4>1. phase = "battle" /\ UNCHANGED <<result, resetTick, resultEvent>> /\ live' = NoLive
        BY <1>wait, <3>1, <3>3 DEF FinishFailed, WithdrawBarrier
      <4> QED
        BY <3>1, <4>1 DEF ShownInv, ResultUntold
    <3> QED
      BY <3>2, <3>3
  <2>3. CASE ~(Active /\ authority)
    BY <1>7, <2>3, <1>same DEF RemoveWorker, tickVars, shownVars
  <2> QED
    BY <2>1, <2>2, <2>3
<1>8. ASSUME NEW c \in Conns, NEW lost \in BOOLEAN, RequestStart(c, lost) PROVE ShownInv'
  BY <1>8, ShownKept DEF RequestStart
<1>9. ASSUME PreflightFails PROVE ShownInv'
  BY <1>9, <1>reset DEF PreflightFails
<1>10. ASSUME NEW e \in Endpoints, Load(e) PROVE ShownInv'
  BY <1>10, <1>same DEF Load, roundVars, tickVars, shownVars
<1>11. ASSUME NEW e \in Endpoints, NEW r \in 1..MaxRound, BattleReady(e, r) PROVE ShownInv'
  BY <1>11, <1>open DEF BattleReady
<1>12. ASSUME UpdateManifest PROVE ShownInv'
  BY <1>12, <1>same DEF UpdateManifest, tickVars, shownVars
<1>13. ASSUME ActivateAfterManifest PROVE ShownInv'
  <2>1. CASE phase = "loading"
    BY <1>13, <2>1, <1>open DEF ActivateAfterManifest
  <2>2. CASE phase # "loading"
    BY <1>13, <2>2, <1>same DEF ActivateAfterManifest, tickVars, shownVars
  <2> QED
    BY <2>1, <2>2
<1>14. ASSUME NEW al, NEW bots, Casualty(al, bots) PROVE ShownInv'
  <2>1. CASE NoSettle
    BY <1>14, <2>1, <1>same DEF Casualty, NoSettle, tickVars, shownVars
  <2>2. ASSUME NEW ok \in BOOLEAN, Settle(ok, tick) PROVE ShownInv'
    BY <1>14, <2>2, <1>settle DEF Casualty
  <2> QED
    BY <1>14, <2>1, <2>2 DEF Casualty
<1>15. ASSUME NEW c \in Conns, PlayerDies(c) PROVE ShownInv'
  BY <1>14, <1>15 DEF PlayerDies
<1>16. ASSUME NEW t \in Teams, BotTeamDies(t) PROVE ShownInv'
  BY <1>14, <1>16 DEF BotTeamDies
<1>17. ASSUME TickBegin PROVE ShownInv'
  <2>1. CASE ResetRoom(members, link, worker)
    BY <2>1, <1>reset
  <2>2. CASE /\ live' = NoLive
             /\ tpc' = IF live = NoLive THEN "advance" ELSE "idle"
             /\ UNCHANGED <<phase, tick, result, resetTick, resultEvent, announced>>
    <3>1. tpc = "idle" /\ streak' = IF tpc' = "idle" THEN 0 ELSE streak
      BY <1>17 DEF TickBegin
    <3> QED
      BY <2>2, <3>1 DEF ShownInv, ResultUntold
  <2> QED
    BY <1>17, <2>1, <2>2 DEF TickBegin
<1>18. ASSUME TickAdvance PROVE ShownInv'
  <2>1. CASE phase # "battle"
    BY <1>18, <2>1 DEF TickAdvance, ShownInv, ResultUntold
  <2>2. CASE phase = "battle" /\ result = "none"
    <3>1. result' = "none" \/ announced'
      BY <1>18, <2>2 DEF TickAdvance, TickSettles
    <3> QED
      BY <3>1 DEF ShownInv, ResultUntold
  <2>3. CASE phase = "battle" /\ result # "none"
    <3>1. /\ announced' = (announced \/ resultEvent) /\ tpc = "advance"
          /\ UNCHANGED <<phase, result>>
      BY <1>18, <2>3 DEF TickAdvance
    <3>2. announced'
      BY <2>3, <3>1 DEF ShownInv, ResultUntold
    <3> QED
      BY <3>2 DEF ShownInv, ResultUntold
  <2> QED
    BY <2>1, <2>2, <2>3
<1>19. ASSUME TickRaises PROVE ShownInv'
  <2>1. /\ tpc = "advance" /\ phase = "battle" /\ UNCHANGED <<phase, live, announced>>
        /\ tick' \in {tick, NextTick} /\ streak' = 1
        /\ tpc' = IF streak = 0 THEN "failed" ELSE "stopped"
    BY <1>19 DEF TickRaises
  <2>2. tick' \in Nat /\ tick' <= tick + 1 /\ tick \in Nat /\ NextTick \in Nat
    BY <1>type, <1>next, <2>1
  <2>3. resetTick \in Nat /\ streak \in {0, 1} /\ ResetTicks \in Nat /\ ResetTicks >= 3
    BY RoomAssumption DEF TypeOK
  <2>4. SUFFICES ASSUME ResultUntold'
                 PROVE  tick' + 2 <= resetTick' /\ streak' = 1 /\ tpc' = "failed"
    BY <2>1 DEF ShownInv
  <2>5. streak = 0 /\ tpc' = "failed"
    BY <2>1, <2>3, <2>4 DEF ResultUntold
  <2>6. CASE UNCHANGED <<result, resetTick>>
    <3>1. ResultUntold
      BY <2>1, <2>4, <2>6 DEF ResultUntold
    <3>2. tick + 3 <= resetTick
      BY <2>5, <3>1 DEF ShownInv
    <3>3. \A a, b, c \in Nat : b <= a + 1 /\ a + 3 <= c => b + 2 <= c
      OBVIOUS
    <3>4. tick' + 2 <= resetTick
      BY <2>2, <2>3, <3>2, <3>3
    <3> QED
      BY <2>1, <2>5, <2>6, <3>4
  <2>7. CASE tick' = NextTick /\ resetTick' = NextTick + ResetTicks
    <3>1. tick' + 2 <= resetTick'
      BY <2>2, <2>3, <2>7
    <3> QED
      BY <2>1, <2>5, <3>1
  <2> QED
    BY <1>19, <2>6, <2>7 DEF TickRaises
<1>20. ASSUME HandleTickFailure PROVE ShownInv'
  <2>1. CASE Active
    <3>1. live' = NoLive /\ UNCHANGED <<tick, announced, streak>> /\ tpc = "failed" /\ tpc' = "idle"
      BY <1>20, <2>1 DEF HandleTickFailure, WithdrawBarrier
    <3>2. CASE result = "none"
      BY <1>20, <2>1, <3>1, <3>2, <1>failed DEF HandleTickFailure
    <3>3. CASE result # "none"
      <4>1. phase = "battle" /\ UNCHANGED <<phase, result, resetTick>> /\ resultEvent' = TRUE
        BY <1>20, <2>1, <3>3, <1>wait DEF HandleTickFailure, RequeueResult
      <4> QED
        BY <3>1, <4>1 DEF ShownInv, ResultUntold
    <3> QED
      BY <3>2, <3>3
  <2>2. CASE ~Active
    BY <1>20, <2>2 DEF HandleTickFailure, Active, ShownInv, ResultUntold
  <2> QED
    BY <2>1, <2>2
<1>21. ASSUME UNCHANGED vars PROVE ShownInv'
  BY <1>21, <1>same DEF vars, roundVars, tickVars, shownVars
<1> QED
  BY <1>1, <1>2, <1>3, <1>4, <1>5, <1>6, <1>7, <1>8, <1>9, <1>10, <1>11, <1>12,
     <1>13, <1>15, <1>16, <1>17, <1>18, <1>19, <1>20, <1>21 DEF Next

\* The clients are told the result before the room returns to waiting, even when
\* the tick that had taken the event fails: the reset needs reset_tick, and until
\* the event is out the tick number is two short of it (tick_once,
\* handle_tick_failure).
THEOREM RoomResultShown == Spec => ResultShownBeforeReset
<1> DEFINE Shown == phase = "battle" /\ phase' = "waiting" /\ members' # {} => announced
<1>1. ASSUME TypeOK, OutcomeInv, ShownInv, [Next]_vars PROVE Shown
  <2> SUFFICES ASSUME phase = "battle", phase' = "waiting", members' # {}
               PROVE  announced
    OBVIOUS
  <2> USE <1>1
  <2>1. ASSUME NEW c \in Conns, AddPlayer(c) PROVE FALSE
    BY <2>1 DEF AddPlayer, roundVars
  <2>2. ASSUME NEW e \in Endpoints, LinkFails(e) PROVE FALSE
    BY <2>2 DEF LinkFails, roundVars
  <2>remove. ASSUME NEW c, RemovePlayer(c) PROVE FALSE
    BY <2>remove DEF RemovePlayer, Departure
  <2>3. ASSUME NEW c \in Conns, HandlerExits(c) PROVE FALSE
    BY <2>3, <2>remove DEF HandlerExits, roundVars
  <2>4. ASSUME NEW c \in Conns, DropPlayer(c) PROVE FALSE
    BY <2>4, <2>remove DEF DropPlayer
  <2>5. ASSUME NEW c \in Conns, LeaveBattle(c) PROVE FALSE
    BY <2>5 DEF LeaveBattle, Departure
  <2>6. ASSUME NEW w \in Workers, AddWorker(w) PROVE FALSE
    BY <2>6 DEF AddWorker, roundVars
  <2>7. ASSUME RemoveWorker PROVE FALSE
    BY <2>7 DEF RemoveWorker
  <2>8. ASSUME NEW c \in Conns, NEW lost \in BOOLEAN, RequestStart(c, lost) PROVE FALSE
    BY <2>8 DEF RequestStart
  <2>9. ASSUME PreflightFails PROVE FALSE
    BY <2>9 DEF PreflightFails
  <2>10. ASSUME NEW e \in Endpoints, Load(e) PROVE FALSE
    BY <2>10 DEF Load, roundVars
  <2>11. ASSUME NEW e \in Endpoints, NEW r \in 1..MaxRound, BattleReady(e, r) PROVE FALSE
    BY <2>11 DEF BattleReady
  <2>12. ASSUME UpdateManifest PROVE FALSE
    BY <2>12 DEF UpdateManifest
  <2>13. ASSUME ActivateAfterManifest PROVE FALSE
    BY <2>13 DEF ActivateAfterManifest
  <2>14. ASSUME NEW al, NEW bots, Casualty(al, bots) PROVE FALSE
    BY <2>14 DEF Casualty
  <2>15. ASSUME NEW c \in Conns, PlayerDies(c) PROVE FALSE
    BY <2>14, <2>15 DEF PlayerDies
  <2>16. ASSUME NEW t \in Teams, BotTeamDies(t) PROVE FALSE
    BY <2>14, <2>16 DEF BotTeamDies
  <2>17. ASSUME TickBegin, ~announced PROVE FALSE
    <3>1. result # "none" /\ tick + 1 >= resetTick /\ tpc = "idle"
      BY <2>17 DEF TickBegin
    <3>2. tick + 2 <= resetTick
      BY <2>17, <3>1 DEF ShownInv, ResultUntold
    <3>3. tick \in Nat /\ resetTick \in Nat
      BY DEF TypeOK
    <3> QED
      BY <3>1, <3>2, <3>3
  <2>18. ASSUME TickAdvance PROVE FALSE
    BY <2>18 DEF TickAdvance
  <2>19. ASSUME TickRaises PROVE FALSE
    BY <2>19 DEF TickRaises
  <2>20. ASSUME HandleTickFailure PROVE FALSE
    BY <2>20 DEF HandleTickFailure, FinishFailed
  <2>21. CASE UNCHANGED vars
    BY <2>21 DEF vars, roundVars
  <2> QED
    BY <2>1, <2>2, <2>3, <2>4, <2>5, <2>6, <2>7, <2>8, <2>9, <2>10, <2>11,
       <2>12, <2>13, <2>15, <2>16, <2>17, <2>18, <2>19, <2>20, <2>21 DEF Next
<1>2. Init => OutcomeInv
  BY DEF Init, OutcomeInv, OutcomeInBattle, ReceiptsFollowSettlement,
         FailedRoundIsNotLive, NoLive
<1>3. Init => ShownInv
  BY DEF Init, ShownInv, ResultUntold
<1>4. Spec => [][Shown]_vars
  BY <1>1, <1>2, <1>3, RoomTypeOK, OutcomeStep, ShownStep, PTL DEF Spec
<1> QED
  BY <1>4 DEF ResultShownBeforeReset
==============================================================================
