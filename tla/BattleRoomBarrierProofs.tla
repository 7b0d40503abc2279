----------------------- MODULE BattleRoomBarrierProofs -----------------------
(***************************************************************************)
(* Proofs about the ready barrier: what it guarantees for as long as the   *)
(* battle it opened is undecided, who is told, and that no complete load   *)
(* is forgotten.                                                           *)
(***************************************************************************)
EXTENDS BattleRoomProofs

\* An endpoint declares ready only what it has loaded, and loads no later round.
ReadyIsLoaded ==
    \A e \in Endpoints : ready[e] <= loaded[e] /\ loaded[e] <= round

\* The barrier that opened an undecided battle still holds for those who fight.
BarrierHolds ==
    phase = "battle" /\ result = "none" =>
      /\ manifest /\ authority /\ worker # NoWorker
      /\ ready[worker] = round
      /\ \A c \in Participants(members, link, part) : ready[c] = round

\* Those who fight were offered battle_live or are still in line for it.
LiveIsOnItsWay ==
    phase = "battle" /\ result = "none" =>
      /\ Participants(members, link, part) \subseteq heardLive \cup live
      /\ link[worker] => worker \in heardLive \cup live

\* The inductive invariant of the barrier.
BarrierInv == ReadyIsLoaded /\ BarrierHolds /\ LiveIsOnItsWay

\* A reset starts a round nobody is ready for.
LEMMA ResetBarrier ==
    ASSUME TypeOK, BarrierInv, NEW M, NEW lk, NEW w, ResetRoom(M, lk, w),
           UNCHANGED loaded
    PROVE  BarrierInv'
<1>1. phase' = "waiting"
  BY DEF ResetRoom
<1>2. ASSUME NEW e \in Endpoints
      PROVE  ready'[e] <= loaded'[e] /\ loaded'[e] <= round'
  <2>1. ready[e] <= loaded[e] /\ loaded[e] <= round /\ loaded[e] \in Nat
        /\ ready[e] \in Nat /\ round \in Nat
    BY DEF BarrierInv, ReadyIsLoaded, TypeOK
  <2>2. round' = round + 1 /\ ready'[e] \in {0, ready[e]}
    BY DEF ResetRoom
  <2> QED
    BY <2>1, <2>2
<1> QED
  BY <1>1, <1>2 DEF BarrierInv, ReadyIsLoaded, BarrierHolds, LiveIsOnItsWay

\* The barrier holds when it opens.
LEMMA ActivateBarrier ==
    ASSUME NEW M, NEW lk, NEW p, NEW rd,
           BarrierMet(M, lk, p, rd, manifest), Activate(M, lk, p),
           members' = M, link' = lk, part' = p, ready' = rd,
           UNCHANGED <<round, manifest, authority, worker, heardLive>>,
           ReadyIsLoaded'
    PROVE  BarrierInv'
<1>1. /\ WorkerUp(worker, lk) /\ authority /\ manifest /\ rd[worker] = round
      /\ \A c \in Participants(M, lk, p) : rd[c] = round
  BY DEF BarrierMet
<1>2. BarrierHolds'
  BY <1>1 DEF BarrierHolds, WorkerUp, Participants
<1>3. LiveIsOnItsWay'
  <2>1. live' = Participants(M, lk, p) \cup {worker}
    BY DEF Activate
  <2>2. Participants(members, link, part)' = Participants(M, lk, p)
    BY DEF Participants
  <2> QED
    BY <2>1, <2>2 DEF LiveIsOnItsWay
<1> QED
  BY <1>2, <1>3 DEF BarrierInv

\* Steps that only take participants away, or decide the battle, keep it.
LEMMA FewerBarrier ==
    ASSUME BarrierInv,
           UNCHANGED <<phase, round, manifest, authority, worker, ready,
                       loaded>>,
           result' = "none" => result = "none",
           heardLive \cup live \subseteq heardLive' \cup live',
           members' \subseteq members,
           \A c \in members : /\ link'[c] => link[c]
                              /\ part'[c] => part[c],
           link'[worker] => link[worker]
    PROVE  BarrierInv'
<1>1. Participants(members, link, part)' \subseteq
         Participants(members, link, part)
  BY DEF Participants
<1>2. ReadyIsLoaded'
  BY DEF BarrierInv, ReadyIsLoaded
<1>3. BarrierHolds'
  BY <1>1 DEF BarrierInv, BarrierHolds
<1>4. LiveIsOnItsWay'
  BY <1>1 DEF BarrierInv, LiveIsOnItsWay
<1> QED
  BY <1>2, <1>3, <1>4 DEF BarrierInv

\* Outside an undecided battle only the rounds that are loaded matter.
LEMMA NoBattleBarrier ==
    ASSUME ReadyIsLoaded', phase' # "battle" \/ result' # "none"
    PROVE  BarrierInv'
  BY DEF BarrierInv, BarrierHolds, LiveIsOnItsWay

\* What remove_player and leave_battle do for those who stay keeps the barrier.
LEMMA DepartureBarrier ==
    ASSUME TypeOK, BarrierInv, NEW M \in SUBSET members,
           NEW lk, NEW p, NEW al, Departure(M, lk, p, al),
           \A c \in members : (lk[c] => link[c]) /\ (p[c] => part[c]),
           lk[worker] => link[worker],
           members' = M, link' = lk, part' = p, UNCHANGED <<worker, loaded>>
    PROVE  BarrierInv'
<1>1. UNCHANGED <<round, manifest, heardLive, ready, authority>>
  BY DEF Departure
<1>2. CASE phase = "loading" /\ BarrierMet(M, lk, p, ready, manifest)
  <2>1. Activate(M, lk, p)
    BY <1>2 DEF Departure
  <2>2. ReadyIsLoaded'
    BY <1>1 DEF BarrierInv, ReadyIsLoaded
  <2> QED
    BY <1>1, <1>2, <2>1, <2>2, ActivateBarrier
<1>3. CASE ~(phase = "loading" /\ BarrierMet(M, lk, p, ready, manifest))
  <2>1. UNCHANGED <<phase, live>>
    BY <1>3 DEF Departure
  <2>2. result' = "none" => result = "none"
    BY DEF Departure, NoSettle
  <2> QED
    BY <1>1, <2>1, <2>2, FewerBarrier
<1> QED
  BY <1>2, <1>3

\* So does the whole of remove_player, whether the load is reset or not.
LEMMA RemoveBarrier ==
    ASSUME TypeOK, BarrierInv, NEW c \in members, RemovePlayer(c)
    PROVE  BarrierInv'
<1> DEFINE M  == members \ {c}
           lk == [link EXCEPT ![c] = FALSE]
<1>1. /\ members' = M /\ link' = lk /\ UNCHANGED <<worker, loaded>>
      /\ M \in SUBSET members
      /\ \A d \in members : (lk[d] => link[d]) /\ (part[d] => part[d])
  BY DEF RemovePlayer, TypeOK
<1>2. lk[worker] => link[worker]
  BY DEF TypeOK
<1>3. CASE phase = "loading" /\ M = {}
  <2>1. ResetRoom(M, lk, worker)
    BY <1>3 DEF RemovePlayer
  <2> HIDE DEF M, lk
  <2> QED
    BY <1>1, <2>1, ResetBarrier
<1>4. CASE ~(phase = "loading" /\ M = {})
  <2>1. Departure(M, lk, part, alive) /\ part' = part
    BY <1>4 DEF RemovePlayer
  <2> HIDE DEF M, lk
  <2> QED
    BY <1>1, <1>2, <2>1, DepartureBarrier
<1> QED
  BY <1>3, <1>4

\* Every step of the room preserves the strengthened barrier invariant.
LEMMA BarrierStep ==
    TypeOK /\ BarrierInv /\ [Next]_vars => BarrierInv'
<1> SUFFICES ASSUME TypeOK, BarrierInv, [Next]_vars PROVE BarrierInv'
  OBVIOUS
<1>same. ASSUME UNCHANGED <<phase, round, manifest, authority, worker, ready,
                            loaded, live, heardLive, members, link, part>>,
                result' = "none" => result = "none"
         PROVE  BarrierInv'
  BY <1>same, FewerBarrier
<1>loaded. UNCHANGED <<ready, loaded, round>> => ReadyIsLoaded'
  BY DEF BarrierInv, ReadyIsLoaded
<1>1. ASSUME NEW c \in Conns, AddPlayer(c) PROVE BarrierInv'
  <2>1. phase' = "waiting" /\ UNCHANGED <<ready, loaded, round>>
    BY <1>1 DEF AddPlayer, roundVars, playVars
  <2> QED
    BY <2>1, <1>loaded, NoBattleBarrier
<1>2. ASSUME NEW e \in Endpoints, LinkFails(e) PROVE BarrierInv'
  <2>1. /\ UNCHANGED <<phase, round, manifest, authority, worker, ready,
                       loaded, live, heardLive, members, part, result>>
        /\ link' = [link EXCEPT ![e] = FALSE]
    BY <1>2 DEF LinkFails, lobbyVars, workerVars, roundVars, playVars
  <2>2. /\ \A d \in members : (link'[d] => link[d]) /\ (part'[d] => part[d])
        /\ link'[worker] => link[worker]
    BY <2>1 DEF TypeOK
  <2> QED
    BY <2>1, <2>2, FewerBarrier
<1>3. ASSUME NEW c \in Conns, HandlerExits(c) PROVE BarrierInv'
  <2>1. CASE OwnPlayer(c) # {}
    <3>1. PICK d \in OwnPlayer(c) : RemovePlayer(d)
      BY <1>3, <2>1 DEF HandlerExits
    <3>2. d \in members
      BY DEF OwnPlayer
    <3> QED
      BY <3>1, <3>2, RemoveBarrier
  <2>2. CASE OwnPlayer(c) = {}
    BY <1>3, <2>2, <1>same DEF HandlerExits, workerVars, roundVars, playVars
  <2> QED
    BY <2>1, <2>2
<1>4. ASSUME NEW c \in Conns, DropPlayer(c) PROVE BarrierInv'
  BY <1>4, RemoveBarrier DEF DropPlayer
<1>5. ASSUME NEW c \in Conns, LeaveBattle(c) PROVE BarrierInv'
  <2> DEFINE p  == [part EXCEPT ![c] = FALSE]
             al == [alive EXCEPT ![c] = FALSE]
  <2>1. UNCHANGED <<members, link, worker, loaded>>
    BY <1>5 DEF LeaveBattle
  <2>2. CASE ResetRoom(members, link, worker)
    BY <2>1, <2>2, ResetBarrier
  <2>3. CASE Departure(members, link, p, al) /\ part' = p
    <3>1. /\ members \in SUBSET members
          /\ \A d \in members : (link[d] => link[d]) /\ (p[d] => part[d])
      BY DEF TypeOK
    <3> HIDE DEF p, al
    <3> QED
      BY <2>1, <2>3, <3>1, DepartureBarrier
  <2> QED
    BY <1>5, <2>2, <2>3 DEF LeaveBattle
<1>6. ASSUME NEW w \in Workers, AddWorker(w) PROVE BarrierInv'
  <2>1. phase' = "waiting" /\ UNCHANGED <<ready, loaded, round>>
    BY <1>6 DEF AddWorker, roundVars, playVars
  <2> QED
    BY <2>1, <1>loaded, NoBattleBarrier
<1>7. ASSUME RemoveWorker PROVE BarrierInv'
  <2>1. CASE Active /\ authority /\ members = {}
    BY <1>7, <2>1, ResetBarrier DEF RemoveWorker
  <2>2. CASE Active /\ authority /\ members # {}
    <3>1. FinishFailed /\ UNCHANGED <<ready, loaded, round>>
      BY <1>7, <2>2 DEF RemoveWorker, playVars
    <3>2. result' # "none"
      BY <3>1 DEF FinishFailed
    <3> QED
      BY <3>1, <3>2, <1>loaded, NoBattleBarrier
  <2>3. CASE ~(Active /\ authority)
    <3>1. UNCHANGED <<phase, result, ready, loaded, round>>
      BY <1>7, <2>3 DEF RemoveWorker, playVars
    <3>2. phase' # "battle" \/ result' # "none"
      BY <2>3, <3>1 DEF BarrierInv, BarrierHolds, Active
    <3> QED
      BY <3>1, <3>2, <1>loaded, NoBattleBarrier
  <2> QED
    BY <2>1, <2>2, <2>3
<1>8. ASSUME NEW c \in Conns, NEW lost \in BOOLEAN, RequestStart(c, lost)
      PROVE  BarrierInv'
  <2>1. phase' = "loading" /\ UNCHANGED <<ready, loaded, round>>
    BY <1>8 DEF RequestStart
  <2> QED
    BY <2>1, <1>loaded, NoBattleBarrier
<1>9. ASSUME PreflightFails PROVE BarrierInv'
  BY <1>9, ResetBarrier DEF PreflightFails
<1>10. ASSUME NEW e \in Endpoints, Load(e) PROVE BarrierInv'
  <2>1. /\ phase' = "loading" /\ UNCHANGED <<ready, round>>
        /\ loaded' = [loaded EXCEPT ![e] = round] /\ loaded[e] < round
    BY <1>10 DEF Load, roundVars, playVars
  <2>2. ReadyIsLoaded'
    BY <2>1 DEF BarrierInv, ReadyIsLoaded, TypeOK
  <2> QED
    BY <2>1, <2>2, NoBattleBarrier
<1>11. ASSUME NEW e \in Endpoints, NEW r \in 1..MaxRound, BattleReady(e, r)
       PROVE  BarrierInv'
  <2> DEFINE rd == [ready EXCEPT ![e] = round]
  <2>1. /\ r \in 1..loaded[e] /\ r = round /\ phase = "loading"
        /\ ready' = rd
        /\ UNCHANGED <<members, worker, authority, round, manifest, heardLive,
                       result, part, link, loaded>>
    BY <1>11 DEF BattleReady, MessageRoundMatches, lobbyVars, workerVars
  <2>2. ReadyIsLoaded'
    <3>1. loaded[e] \in Nat /\ round <= loaded[e]
      BY <2>1 DEF TypeOK
    <3> QED
      BY <2>1, <3>1 DEF BarrierInv, ReadyIsLoaded, TypeOK
  <2>3. CASE BarrierMet(members, link, part, rd, manifest)
    <3>1. Activate(members, link, part)
      BY <1>11, <2>3 DEF BattleReady
    <3> HIDE DEF rd
    <3> QED
      BY <2>1, <2>2, <2>3, <3>1, ActivateBarrier
  <2>4. CASE ~BarrierMet(members, link, part, rd, manifest)
    <3>1. phase' = "loading"
      BY <1>11, <2>1, <2>4 DEF BattleReady
    <3> QED
      BY <2>2, <3>1, NoBattleBarrier
  <2> QED
    BY <2>3, <2>4
<1>12. ASSUME UpdateManifest PROVE BarrierInv'
  <2>1. /\ manifest' = TRUE
        /\ UNCHANGED <<phase, round, authority, worker, ready, loaded, live,
                       heardLive, members, link, part, result>>
    BY <1>12 DEF UpdateManifest, lobbyVars, playVars
  <2>2. UNCHANGED Participants(members, link, part)
    BY <2>1 DEF Participants
  <2> QED
    BY <2>1, <2>2
    DEF BarrierInv, ReadyIsLoaded, BarrierHolds, LiveIsOnItsWay
<1>13. ASSUME ActivateAfterManifest PROVE BarrierInv'
  <2>1. UNCHANGED <<round, manifest, authority, worker, ready, loaded,
                    heardLive, members, link, part, result>>
    BY <1>13 DEF ActivateAfterManifest, lobbyVars, playVars
  <2>2. CASE UNCHANGED <<phase, tick, live>>
    BY <2>1, <2>2, <1>same
  <2>3. CASE /\ BarrierMet(members, link, part, ready, manifest)
             /\ Activate(members, link, part)
    BY <2>1, <2>3, <1>loaded, ActivateBarrier
  <2> QED
    BY <1>13, <2>2, <2>3 DEF ActivateAfterManifest
<1>14. ASSUME NEW al, NEW bots, Casualty(al, bots) PROVE BarrierInv'
  <2>1. UNCHANGED <<phase, round, manifest, authority, worker, ready, loaded,
                    live, heardLive, members, link, part>>
    BY <1>14 DEF Casualty, lobbyVars, workerVars
  <2>2. result = "none"
    BY <1>14 DEF Casualty
  <2> QED
    BY <2>1, <2>2, <1>same
<1>15. ASSUME NEW c \in Conns, PlayerDies(c) PROVE BarrierInv'
  BY <1>14, <1>15 DEF PlayerDies
<1>16. ASSUME NEW t \in Teams, BotTeamDies(t) PROVE BarrierInv'
  BY <1>14, <1>16 DEF BotTeamDies
<1>17. ASSUME TickBegin PROVE BarrierInv'
  <2>1. UNCHANGED <<link, loaded>>
    BY <1>17 DEF TickBegin
  <2>2. CASE ResetRoom(members, link, worker)
    BY <2>1, <2>2, ResetBarrier
  <2>3. CASE /\ live' = NoLive
             /\ heardLive' = heardLive \cup
                  IF phase = "battle" THEN {e \in live : IsCurrent(e)} ELSE {}
             /\ UNCHANGED <<phase, round, manifest, authority, worker, ready,
                            members, part, result>>
    <3>1. CASE phase # "battle"
      BY <2>1, <2>3, <3>1, <1>loaded, NoBattleBarrier
    <3>2. CASE phase = "battle"
      <4>1. heardLive' = heardLive \cup {e \in live : IsCurrent(e)}
        BY <2>3, <3>2
      <4>2. UNCHANGED Participants(members, link, part)
        BY <2>1, <2>3 DEF Participants
      <4>3. \A c \in Participants(members, link, part) : IsCurrent(c)
        BY DEF Participants, IsCurrent
      <4>4. link[worker] => IsCurrent(worker)
        BY DEF IsCurrent
      <4> QED
        BY <2>1, <2>3, <4>1, <4>2, <4>3, <4>4
        DEF BarrierInv, ReadyIsLoaded, BarrierHolds, LiveIsOnItsWay
    <3> QED
      BY <3>1, <3>2
  <2> QED
    BY <1>17, <2>2, <2>3 DEF TickBegin, lobbyVars, workerVars, playVars
<1>18. ASSUME TickAdvance PROVE BarrierInv'
  <2>1. UNCHANGED <<phase, round, manifest, authority, worker, ready, loaded,
                    live, heardLive, members, link, part>>
    BY <1>18 DEF TickAdvance, lobbyVars, workerVars, playVars
  <2>2. result' = "none" => result = "none"
    BY <1>18 DEF TickAdvance, TickSettles
  <2> QED
    BY <2>1, <2>2, <1>same
<1>19. ASSUME TickRaises PROVE BarrierInv'
  <2>1. UNCHANGED <<phase, round, manifest, authority, worker, ready, loaded,
                    live, heardLive, members, link, part>>
    BY <1>19 DEF TickRaises, lobbyVars, workerVars, playVars
  <2>2. result' = "none" => result = "none"
    BY <1>19 DEF TickRaises
  <2> QED
    BY <2>1, <2>2, <1>same
<1>20. ASSUME HandleTickFailure PROVE BarrierInv'
  <2>1. UNCHANGED <<ready, loaded, round>>
    BY <1>20 DEF HandleTickFailure, playVars
  <2>2. phase' # "battle" \/ result' # "none"
    BY <1>20 DEF HandleTickFailure, FinishFailed, Active
  <2> QED
    BY <2>1, <2>2, <1>loaded, NoBattleBarrier
<1>21. ASSUME UNCHANGED vars PROVE BarrierInv'
  BY <1>21, <1>same DEF vars, lobbyVars, workerVars, roundVars, playVars
<1> QED
  BY <1>1, <1>2, <1>3, <1>4, <1>5, <1>6, <1>7, <1>8, <1>9, <1>10, <1>11, <1>12,
     <1>13, <1>15, <1>16, <1>17, <1>18, <1>19, <1>20, <1>21 DEF Next

\* The strengthened barrier invariant holds in every reachable room.
LEMMA BarrierInvariant == Spec => []BarrierInv
<1>1. Init => BarrierInv
  BY DEF Init, BarrierInv, ReadyIsLoaded, BarrierHolds, LiveIsOnItsWay
<1> QED
  BY <1>1, BarrierStep, RoomTypeOK, PTL DEF Spec

\* Nobody fights in a round it has not loaded, and the worker that simulates it
\* has loaded it, for as long as the battle is undecided.
THEOREM RoomLiveBattleIsLoaded == Spec => []LiveBattleIsLoaded
<1>1. TypeOK /\ BarrierInv => LiveBattleIsLoaded
  <2> SUFFICES ASSUME TypeOK, BarrierInv, phase = "battle", result = "none"
               PROVE  /\ manifest /\ authority /\ worker # NoWorker
                      /\ loaded[worker] = round
                      /\ \A c \in Participants(members, link, part) :
                           loaded[c] = round
    BY DEF LiveBattleIsLoaded
  <2>1. \A e \in Endpoints : ready[e] = round => loaded[e] = round
    BY DEF BarrierInv, ReadyIsLoaded, TypeOK
  <2>2. /\ manifest /\ authority /\ worker # NoWorker
        /\ ready[worker] = round
        /\ \A c \in Participants(members, link, part) : ready[c] = round
    BY DEF BarrierInv, BarrierHolds
  <2>3. worker \in Endpoints
    BY <2>2 DEF TypeOK, Endpoints
  <2>4. Participants(members, link, part) \subseteq Endpoints
    BY DEF TypeOK, Participants, Endpoints
  <2> QED
    BY <2>1, <2>2, <2>3, <2>4
<1> QED
  BY <1>1, RoomTypeOK, BarrierInvariant, PTL

\* Everyone who fights in an undecided battle was offered its battle_live once
\* the barrier left the queue.
THEOREM RoomEveryoneHeardLive == Spec => []EveryoneHeardLive
<1>1. BarrierInv => EveryoneHeardLive
  BY DEF BarrierInv, LiveIsOnItsWay, EveryoneHeardLive, NoLive
<1> QED
  BY <1>1, BarrierInvariant, PTL

-------------------------------------------------------------------------------
(* A complete load is opened or about to be looked at. *)

\* The handler of every player in the room is running.
PlayersAreServed == \A c \in members : thread[c] = "run"

\* The lineup belongs to a round that has started.
ManifestOfRound == phase = "waiting" => ~manifest

\* The inductive invariant.
NoticeInv == CompleteLoadIsNoticed /\ ManifestOfRound /\ PlayersAreServed

\* Handlers go on for the players that stay.
LEMMA StillServed ==
    ASSUME NoticeInv, members' \subseteq members,
           \A c \in members' : thread'[c] = thread[c]
    PROVE  PlayersAreServed'
  BY DEF NoticeInv, PlayersAreServed

\* A reset leaves neither a load nor a lineup.
LEMMA ResetNotice ==
    ASSUME NEW M, NEW lk, NEW w, ResetRoom(M, lk, w), PlayersAreServed'
    PROVE  NoticeInv'
  BY DEF ResetRoom, NoticeInv, CompleteLoadIsNoticed, ManifestOfRound

\* A room whose barrier did not change.
LEMMA SameNotice ==
    ASSUME NoticeInv,
           UNCHANGED <<phase, round, manifest, authority, worker, wpc, ready,
                       members, link, part, thread>>
    PROVE  NoticeInv'
<1>1. BarrierMet(members, link, part, ready, manifest)' =>
         BarrierMet(members, link, part, ready, manifest)
  BY DEF BarrierMet, WorkerUp, Participants
<1> QED
  BY <1>1 DEF NoticeInv, CompleteLoadIsNoticed, ManifestOfRound, PlayersAreServed

\* A departure looks at the barrier that it leaves.
LEMMA DepartureNotice ==
    ASSUME NoticeInv, NEW M, NEW lk, NEW p, NEW al, Departure(M, lk, p, al),
           members' = M, link' = lk, part' = p, UNCHANGED worker,
           PlayersAreServed'
    PROVE  NoticeInv'
<1>1. UNCHANGED <<round, manifest, ready, authority>>
  BY DEF Departure
<1>2. CASE phase = "loading" /\ BarrierMet(M, lk, p, ready, manifest)
  <2>1. phase' = "battle"
    BY <1>2 DEF Departure, Activate
  <2> QED
    BY <2>1 DEF NoticeInv, CompleteLoadIsNoticed, ManifestOfRound
<1>3. CASE ~(phase = "loading" /\ BarrierMet(M, lk, p, ready, manifest))
  <2>1. phase' = phase
    BY <1>3 DEF Departure
  <2>2. BarrierMet(members, link, part, ready, manifest)' =>
           BarrierMet(M, lk, p, ready, manifest)
    BY <1>1 DEF BarrierMet, WorkerUp, Participants
  <2> QED
    BY <1>1, <1>3, <2>1, <2>2 DEF NoticeInv, CompleteLoadIsNoticed, ManifestOfRound
<1> QED
  BY <1>2, <1>3

\* So does remove_player.
LEMMA RemoveNotice ==
    ASSUME NoticeInv, NEW c \in members, RemovePlayer(c), PlayersAreServed'
    PROVE  NoticeInv'
<1> DEFINE M  == members \ {c}
           lk == [link EXCEPT ![c] = FALSE]
<1>1. members' = M /\ link' = lk /\ UNCHANGED worker
  BY DEF RemovePlayer
<1>2. CASE ResetRoom(M, lk, worker)
  BY <1>2, ResetNotice
<1>3. CASE Departure(M, lk, part, alive) /\ part' = part
  <2> HIDE DEF M, lk
  <2> QED
    BY <1>1, <1>3, DepartureNotice
<1> QED
  BY <1>2, <1>3 DEF RemovePlayer

\* Every step of the room preserves the invariant.
LEMMA NoticeStep ==
    TypeOK /\ NoticeInv /\ [Next]_vars => NoticeInv'
<1> SUFFICES ASSUME TypeOK, NoticeInv, [Next]_vars PROVE NoticeInv'
  OBVIOUS
<1>served. UNCHANGED <<members, thread>> => PlayersAreServed'
  BY StillServed
<1>waits. ASSUME phase' = "waiting", phase = "waiting", UNCHANGED manifest,
                 PlayersAreServed'
          PROVE  NoticeInv'
  BY <1>waits DEF NoticeInv, CompleteLoadIsNoticed, ManifestOfRound
<1>fights. ASSUME phase' = "battle", PlayersAreServed' PROVE NoticeInv'
  BY <1>fights DEF NoticeInv, CompleteLoadIsNoticed, ManifestOfRound
<1>1. ASSUME NEW c \in Conns, AddPlayer(c) PROVE NoticeInv'
  <2>1. /\ phase = "waiting" /\ UNCHANGED <<phase, manifest>>
        /\ members' = members \cup {c} /\ thread' = [thread EXCEPT ![c] = "run"]
    BY <1>1 DEF AddPlayer, roundVars
  <2>2. PlayersAreServed'
    BY <2>1 DEF TypeOK, NoticeInv, PlayersAreServed
  <2> QED
    BY <2>1, <2>2, <1>waits
<1>2. ASSUME NEW e \in Endpoints, LinkFails(e) PROVE NoticeInv'
  <2>1. /\ UNCHANGED <<phase, round, manifest, authority, worker, wpc, ready,
                       members, part, thread>>
        /\ link' = [link EXCEPT ![e] = FALSE] /\ (e \in members \/ e = worker)
    BY <1>2 DEF LinkFails, lobbyVars, workerVars, roundVars, playVars
  <2>2. link'[e] = FALSE
    BY <2>1 DEF TypeOK
  <2>3. CASE e \in members
    <3>1. thread'[e] = "run" /\ e \in members'
      BY <2>1, <2>3 DEF NoticeInv, PlayersAreServed
    <3> QED
      BY <2>1, <2>2, <3>1, <1>served
      DEF NoticeInv, CompleteLoadIsNoticed, ManifestOfRound
  <2>4. CASE e = worker
    <3>1. ~BarrierMet(members, link, part, ready, manifest)'
      BY <2>1, <2>2, <2>4 DEF BarrierMet, WorkerUp
    <3> QED
      BY <2>1, <3>1, <1>served DEF NoticeInv, CompleteLoadIsNoticed, ManifestOfRound
  <2> QED
    BY <2>1, <2>3, <2>4
<1>3. ASSUME NEW c \in Conns, HandlerExits(c) PROVE NoticeInv'
  <2>1. thread' = [thread EXCEPT ![c] = "done"]
    BY <1>3 DEF HandlerExits
  <2>2. CASE OwnPlayer(c) # {}
    <3>1. c \in members /\ RemovePlayer(c)
      BY <1>3, <2>2 DEF HandlerExits, OwnPlayer
    <3>2. members' = members \ {c}
      BY <3>1 DEF RemovePlayer
    <3>3. PlayersAreServed'
      BY <2>1, <3>2, StillServed DEF TypeOK
    <3> QED
      BY <3>1, <3>3, RemoveNotice
  <2>3. CASE OwnPlayer(c) = {}
    <3>1. /\ c \notin members
          /\ UNCHANGED <<phase, round, manifest, authority, worker, wpc, ready,
                         members, link, part>>
      BY <1>3, <2>3 DEF HandlerExits, OwnPlayer, workerVars, roundVars, playVars
    <3>2. \A d \in members : thread'[d] = thread[d]
      BY <2>1, <3>1 DEF TypeOK
    <3>3. BarrierMet(members, link, part, ready, manifest)' =>
             BarrierMet(members, link, part, ready, manifest)
      BY <3>1 DEF BarrierMet, WorkerUp, Participants
    <3> QED
      BY <3>1, <3>2, <3>3, StillServed
      DEF NoticeInv, CompleteLoadIsNoticed, ManifestOfRound
  <2> QED
    BY <2>2, <2>3
<1>4. ASSUME NEW c \in Conns, DropPlayer(c) PROVE NoticeInv'
  <2>1. c \in members /\ RemovePlayer(c) /\ UNCHANGED thread
    BY <1>4 DEF DropPlayer
  <2>2. members' \subseteq members
    BY <2>1 DEF RemovePlayer
  <2> QED
    BY <2>1, <2>2, StillServed, RemoveNotice
<1>5. ASSUME NEW c \in Conns, LeaveBattle(c) PROVE NoticeInv'
  <2> DEFINE p  == [part EXCEPT ![c] = FALSE]
             al == [alive EXCEPT ![c] = FALSE]
  <2>1. UNCHANGED <<members, thread, link, worker>>
    BY <1>5 DEF LeaveBattle
  <2>2. CASE ResetRoom(members, link, worker)
    BY <2>1, <2>2, <1>served, ResetNotice
  <2>3. CASE Departure(members, link, p, al) /\ part' = p
    <3> HIDE DEF p, al
    <3> QED
      BY <2>1, <2>3, <1>served, DepartureNotice
  <2> QED
    BY <1>5, <2>2, <2>3 DEF LeaveBattle
<1>6. ASSUME NEW w \in Workers, AddWorker(w) PROVE NoticeInv'
  <2>1. phase = "waiting" /\ UNCHANGED <<phase, manifest, members, thread>>
    BY <1>6 DEF AddWorker, roundVars, lobbyVars
  <2> QED
    BY <2>1, <1>served, <1>waits
<1>7. ASSUME RemoveWorker PROVE NoticeInv'
  <2>1. UNCHANGED <<members, thread>>
    BY <1>7 DEF RemoveWorker
  <2>2. CASE Active /\ authority /\ members = {}
    BY <1>7, <2>1, <2>2, <1>served, ResetNotice DEF RemoveWorker
  <2>3. CASE Active /\ authority /\ members # {}
    BY <1>7, <2>1, <2>3, <1>served, <1>fights DEF RemoveWorker
  <2>4. CASE ~(Active /\ authority)
    <3>1. UNCHANGED phase /\ Elect(FALSE) /\ manifest' = manifest
      BY <1>7, <2>4 DEF RemoveWorker, NoticeInv, ManifestOfRound, TypeOK
    <3>2. ~BarrierMet(members, link, part, ready, manifest)'
      BY <3>1 DEF Elect, BarrierMet
    <3> QED
      BY <2>1, <3>1, <3>2, <1>served
      DEF NoticeInv, CompleteLoadIsNoticed, ManifestOfRound
  <2> QED
    BY <2>2, <2>3, <2>4
<1>8. ASSUME NEW c \in Conns, NEW lost \in BOOLEAN, RequestStart(c, lost)
      PROVE  NoticeInv'
  <2>1. /\ phase = "waiting" /\ phase' = "loading"
        /\ UNCHANGED <<manifest, members, thread>>
    BY <1>8 DEF RequestStart, lobbyVars
  <2>2. ~manifest'
    BY <2>1 DEF NoticeInv, ManifestOfRound
  <2>3. ~BarrierMet(members, link, part, ready, manifest)'
    BY <2>2 DEF BarrierMet
  <2> QED
    BY <2>1, <2>3, <1>served DEF NoticeInv, CompleteLoadIsNoticed, ManifestOfRound
<1>9. ASSUME PreflightFails PROVE NoticeInv'
  BY <1>9, <1>served, ResetNotice DEF PreflightFails
<1>10. ASSUME NEW e \in Endpoints, Load(e) PROVE NoticeInv'
  BY <1>10, SameNotice DEF Load, lobbyVars, workerVars, roundVars, playVars
<1>11. ASSUME NEW e \in Endpoints, NEW r \in 1..MaxRound, BattleReady(e, r)
       PROVE  NoticeInv'
  <2> DEFINE rd == [ready EXCEPT ![e] = round]
  <2>1. /\ phase = "loading" /\ ready' = rd
        /\ UNCHANGED <<members, thread, worker, authority, round, manifest, part, link>>
    BY <1>11 DEF BattleReady, lobbyVars, workerVars
  <2>2. CASE BarrierMet(members, link, part, rd, manifest)
    <3>1. phase' = "battle"
      BY <1>11, <2>2 DEF BattleReady, Activate
    <3> QED
      BY <2>1, <3>1, <1>served, <1>fights
  <2>3. CASE ~BarrierMet(members, link, part, rd, manifest)
    <3>1. phase' = "loading"
      BY <1>11, <2>1, <2>3 DEF BattleReady
    <3>2. ~BarrierMet(members, link, part, ready, manifest)'
      BY <2>1, <2>3 DEF BarrierMet, WorkerUp, Participants
    <3> QED
      BY <2>1, <3>1, <3>2, <1>served
      DEF NoticeInv, CompleteLoadIsNoticed, ManifestOfRound
  <2> QED
    BY <2>2, <2>3
<1>12. ASSUME UpdateManifest PROVE NoticeInv'
  <2>1. Active /\ wpc' = "activate" /\ UNCHANGED <<phase, members, thread>>
    BY <1>12 DEF UpdateManifest, lobbyVars
  <2> QED
    BY <2>1, <1>served
    DEF Active, NoticeInv, CompleteLoadIsNoticed, ManifestOfRound
<1>13. ASSUME ActivateAfterManifest PROVE NoticeInv'
  <2>1. UNCHANGED <<round, manifest, authority, worker, ready, members, thread,
                    link, part>>
    BY <1>13 DEF ActivateAfterManifest, lobbyVars, playVars
  <2>2. CASE phase = "loading" /\ BarrierMet(members, link, part, ready, manifest)
    <3>1. phase' = "battle"
      BY <1>13, <2>2 DEF ActivateAfterManifest, Activate
    <3> QED
      BY <2>1, <3>1, <1>served, <1>fights
  <2>3. CASE ~(phase = "loading" /\ BarrierMet(members, link, part, ready, manifest))
    <3>1. phase' = phase
      BY <1>13, <2>3 DEF ActivateAfterManifest
    <3>2. BarrierMet(members, link, part, ready, manifest)' =>
             BarrierMet(members, link, part, ready, manifest)
      BY <2>1 DEF BarrierMet, WorkerUp, Participants
    <3> QED
      BY <2>1, <2>3, <3>1, <3>2, <1>served
      DEF NoticeInv, CompleteLoadIsNoticed, ManifestOfRound
  <2> QED
    BY <2>2, <2>3
<1>14. ASSUME NEW al, NEW bots, Casualty(al, bots) PROVE NoticeInv'
  BY <1>14, SameNotice DEF Casualty, lobbyVars, workerVars
<1>15. ASSUME NEW c \in Conns, PlayerDies(c) PROVE NoticeInv'
  BY <1>14, <1>15 DEF PlayerDies
<1>16. ASSUME NEW t \in Teams, BotTeamDies(t) PROVE NoticeInv'
  BY <1>14, <1>16 DEF BotTeamDies
<1>17. ASSUME TickBegin PROVE NoticeInv'
  <2>1. CASE ResetRoom(members, link, worker) /\ UNCHANGED <<members, thread>>
    BY <2>1, <1>served, ResetNotice
  <2>2. CASE UNCHANGED <<lobbyVars, workerVars, playVars, phase, round, manifest,
                         link>>
    BY <2>2, SameNotice DEF lobbyVars, workerVars, playVars
  <2> QED
    BY <1>17, <2>1, <2>2 DEF TickBegin
<1>18. ASSUME TickAdvance \/ TickRaises PROVE NoticeInv'
  BY <1>18, SameNotice DEF TickAdvance, TickRaises, lobbyVars, workerVars, playVars
<1>19. ASSUME HandleTickFailure PROVE NoticeInv'
  <2>1. UNCHANGED <<round, manifest, authority, worker, wpc, ready, members,
                    link, part, thread>>
    BY <1>19 DEF HandleTickFailure, lobbyVars, workerVars, playVars
  <2>2. phase' = phase \/ phase' = "battle"
    BY <1>19 DEF HandleTickFailure
  <2> QED
    BY <2>1, <2>2, <1>served, <1>fights, SameNotice
<1>20. ASSUME UNCHANGED vars PROVE NoticeInv'
  BY <1>20, SameNotice DEF vars, lobbyVars, workerVars, roundVars, playVars
<1> QED
  BY <1>1, <1>2, <1>3, <1>4, <1>5, <1>6, <1>7, <1>8, <1>9, <1>10, <1>11, <1>12,
     <1>13, <1>15, <1>16, <1>17, <1>18, <1>19, <1>20 DEF Next

\* Whatever completes a load, the round starts or a thread is still to look at
\* the barrier, for any number of players, rounds and failures.
THEOREM RoomLoadIsNoticed == Spec => []CompleteLoadIsNoticed
<1>1. Init => NoticeInv
  BY DEF Init, NoticeInv, CompleteLoadIsNoticed, ManifestOfRound, PlayersAreServed
<1>2. NoticeInv => CompleteLoadIsNoticed
  BY DEF NoticeInv
<1> QED
  BY <1>1, <1>2, NoticeStep, RoomTypeOK, PTL DEF Spec

===============================================================================
