-------------------------- MODULE BotCombatProofs --------------------------
(***************************************************************************)
(* Proofs about BotCombat for any health, durations and bounds: the types, *)
(* that no publication heals or revives a Bot, that no snapshot breaks the *)
(* worker's lineage, and that every loss is charged exactly once.          *)
(***************************************************************************)
EXTENDS BotCombat, FiniteSetTheorems, TLAPS

\* A Bot that lives has health left.
Sound(s) == s.alive => s.health > 0

SoundInv ==
    /\ Sound(server.state) /\ Sound(worker.state)
    /\ \A i \in DOMAIN up : Sound(up[i].state)
    /\ \A i \in DOMAIN down : Sound(down[i].state)

\* The bases on their way are not ahead of the server's; a base that the
\* worker has not taken stands as the server opened it.
BaseInv ==
    /\ sync.base <= server.base /\ server.base <= server.rev
    /\ \A i \in DOMAIN up : up[i].base <= sync.base
    /\ \A i \in DOMAIN down : down[i].base <= server.base
    /\ sync.base < server.base =>
          \A i \in DOMAIN down :
             down[i].base = server.base => down[i].state = server.state

\* Of one base, the dead stay dead: from the worker back to the server, whoever
\* is dead is dead in everything published later.
DeadInv ==
    /\ ~server.state.alive =>
          /\ \A i \in DOMAIN up : up[i].base = server.base => ~up[i].state.alive
          /\ sync.base = server.base => ~worker.state.alive
    /\ \A i, j \in DOMAIN up :
          i < j /\ up[i].base = up[j].base /\ ~up[i].state.alive => ~up[j].state.alive
    /\ \A i \in DOMAIN up :
          up[i].base = sync.base /\ ~up[i].state.alive => ~worker.state.alive

CountInv == sync.acked <= sync.next /\ IsFiniteSet(sync.slices)

CombatInv == TypeOK /\ CountInv /\ SoundInv /\ BaseInv /\ DeadInv

Servers == [state : States, used : 0..MaxKits, rev : Nat, base : Nat, ack : Nat]
Rows == [state : States, used : 0..MaxKits, base : Nat, seq : Nat]
Snapshots == [state : States, rev : Nat, base : Nat, ack : Nat]
Workers == [state : States, used : 0..MaxKits]
Slices == [at : Nat, seq : Nat, burns : BOOLEAN, clears : Nat]
Pending == [seq : Nat, state : States]
Syncs == [published : States, known : States, pending : SUBSET Pending,
          slices : SUBSET Slices, next : Nat, acked : Nat, rev : Nat, base : Nat]

\* The types by these names.
LEMMA Typed ==
    ASSUME TypeOK
    PROVE  /\ server \in Servers /\ worker \in Workers /\ sync \in Syncs
           /\ up \in Seq(Rows) /\ down \in Seq(Snapshots)
           /\ Len(up) \in Nat /\ Len(down) \in Nat
           /\ \A i \in DOMAIN up : up[i] \in Rows
           /\ \A i \in DOMAIN down : down[i] \in Snapshots
           /\ count \in [Counted -> Nat]
<1>1. /\ server \in Servers /\ worker \in Workers
      /\ up \in Seq(Rows) /\ down \in Seq(Snapshots) /\ count \in [Counted -> Nat]
  BY DEF TypeOK, Servers, Workers, Rows, Snapshots
<1>2. sync \in Syncs
  BY DEF TypeOK, Syncs, Pending, Slices
<1> QED BY <1>1, <1>2

----------------------------------------------------------------------------
(* What a change of the combat state can do. *)

LEMMA WreckFacts ==
    ASSUME NEW s \in States
    PROVE  Wreck(s) \in States /\ Wreck(s).health = s.health /\ ~Wreck(s).alive
<1>1. 0 \in 0..FireDuration
  BY CombatAssumption
<1>2. [s EXCEPT !.alive = FALSE] \in States
  BY DEF States
<1>3. [[s EXCEPT !.alive = FALSE] EXCEPT !.fire = FALSE] \in States
  BY <1>2 DEF States
<1>4. [[[s EXCEPT !.alive = FALSE] EXCEPT !.fire = FALSE] EXCEPT !.elapsed = 0] \in States
  BY <1>1, <1>3 DEF States
<1> QED BY <1>4 DEF Wreck, States

LEMMA DamagedFacts ==
    ASSUME NEW s \in States, NEW n \in Nat
    PROVE  /\ Damaged(s, n) \in States /\ Sound(Damaged(s, n))
           /\ Damaged(s, n).health <= s.health
           /\ Damaged(s, n).alive => s.alive
<1> DEFINE left == [s EXCEPT !.health = Limited(@ - n)]
<1>1. left \in States /\ left.health <= s.health /\ left.alive = s.alive
  BY CombatAssumption DEF States, Limited
<1>2. Wreck(left) \in States /\ Wreck(left).health = left.health /\ ~Wreck(left).alive
  BY <1>1, WreckFacts
<1>3. CASE left.health > 0
  BY <1>1, <1>3 DEF Damaged, Sound
<1>4. CASE ~(left.health > 0)
  BY <1>1, <1>2, <1>4 DEF Damaged, Sound
<1> QED BY <1>3, <1>4

LEMMA AdvancedFacts ==
    ASSUME NEW s \in States, Sound(s), NEW slices, IsFiniteSet(slices)
    PROVE  /\ Advanced(s, slices) \in States /\ Sound(Advanced(s, slices))
           /\ Advanced(s, slices).health <= s.health
           /\ Advanced(s, slices).alive => s.alive
<1> DEFINE treated == IF \E c \in slices : c.clears # 0 /\ c.clears = s.stun
                      THEN [s EXCEPT !.stun = 0] ELSE s
           burns == Cardinality({c \in slices : c.burns})
           lasts == FireDuration - s.elapsed
           burnt == [treated EXCEPT !.elapsed = Least(@ + burns, FireDuration)]
           burning == [treated EXCEPT !.elapsed = @ + burns]
           out == [treated EXCEPT !.fire = FALSE, !.elapsed = 0]
<1>1. burns \in Nat
  <2>1. IsFiniteSet({c \in slices : c.burns})
    BY FS_Subset
  <2> QED BY <2>1, FS_CardinalityType
<1>2. /\ treated \in States /\ treated.health = s.health /\ treated.alive = s.alive
      /\ treated.elapsed = s.elapsed
  BY CombatAssumption DEF States
<1>3. lasts \in Nat
  BY CombatAssumption DEF States
<1>4. CASE ~s.fire \/ burns = 0
  <2>1. Advanced(s, slices) = treated
    BY <1>4 DEF Advanced
  <2> HIDE DEF treated
  <2> QED BY <1>2, <2>1 DEF Sound, States
<1>5. CASE ~(~s.fire \/ burns = 0) /\ s.health = 0
  <2>1. Advanced(s, slices) = burnt
    BY <1>5 DEF Advanced
  <2> HIDE DEF treated, burns
  <2>2. burnt \in States /\ burnt.health = s.health /\ burnt.alive = s.alive
    BY <1>1, <1>2, CombatAssumption DEF States, Least
  <2> HIDE DEF burnt
  <2> QED BY <2>1, <2>2 DEF Sound, States
<1>6. CASE ~(~s.fire \/ burns = 0) /\ s.health # 0 /\ burns < lasts
  <2>1. Advanced(s, slices) = Damaged(burning, burns)
    BY <1>6 DEF Advanced
  <2> HIDE DEF treated, burns
  <2>2. burning \in States /\ burning.health = s.health /\ burning.alive = s.alive
    BY <1>1, <1>2, <1>6, CombatAssumption DEF States
  <2> HIDE DEF burning
  <2> QED BY <1>1, <2>1, <2>2, DamagedFacts
<1>7. CASE ~(~s.fire \/ burns = 0) /\ s.health # 0 /\ ~(burns < lasts)
  <2>1. Advanced(s, slices) = Damaged(out, lasts)
    BY <1>7 DEF Advanced
  <2> HIDE DEF treated, lasts
  <2> DEFINE doused == [treated EXCEPT !.fire = FALSE]
  <2>2. doused \in States /\ doused.health = s.health /\ doused.alive = s.alive
    BY <1>2 DEF States
  <2>3. out = [doused EXCEPT !.elapsed = 0]
    OBVIOUS
  <2> HIDE DEF doused, out
  <2>4. 0 \in 0..FireDuration
    BY CombatAssumption
  <2>5. out \in States /\ out.health = s.health /\ out.alive = s.alive
    BY <2>2, <2>3, <2>4 DEF States
  <2> QED BY <1>3, <2>1, <2>5, DamagedFacts
<1> QED BY <1>4, <1>5, <1>6, <1>7

LEMMA CommittedFacts ==
    ASSUME server \in Servers, NEW s \in States, NEW restart \in BOOLEAN
    PROVE  LET c == Committed(s, restart) IN
           /\ c \in Servers /\ c.used = server.used
           /\ c.state.health = s.health /\ c.state.alive = s.alive
           /\ c.state.stun = s.stun
           /\ c = server \/ (c.base = server.rev + 1 /\ c.rev = server.rev + 1)
<1> DEFINE after == IF server.state.fire /\ s.fire THEN s ELSE [s EXCEPT !.elapsed = 0]
<1>1. /\ after \in States /\ after.health = s.health /\ after.alive = s.alive
      /\ after.stun = s.stun
  BY CombatAssumption DEF States
<1>2. Committed(s, restart) = IF after = server.state /\ ~restart THEN server ELSE NewBase(after)
  BY DEF Committed
<1> HIDE DEF after
<1>3. /\ NewBase(after) \in Servers /\ NewBase(after).used = server.used
      /\ NewBase(after).state = after
      /\ NewBase(after).base = server.rev + 1 /\ NewBase(after).rev = server.rev + 1
  <2> DEFINE one == [server EXCEPT !.state = after]
             two == [one EXCEPT !.rev = server.rev + 1]
  <2>1. NewBase(after) = [two EXCEPT !.base = server.rev + 1]
    BY DEF NewBase, Servers
  <2>2. server.rev + 1 \in Nat
    BY DEF Servers
  <2>3. one \in Servers /\ one.used = server.used /\ one.state = after
    BY <1>1 DEF Servers
  <2> HIDE DEF one
  <2>4. two \in Servers /\ two.used = server.used /\ two.state = after /\ two.rev = server.rev + 1
    BY <2>2, <2>3 DEF Servers
  <2> HIDE DEF two
  <2> QED BY <2>1, <2>2, <2>4 DEF Servers
<1> QED BY <1>1, <1>2, <1>3 DEF Servers

LEMMA StruckFacts ==
    ASSUME server \in Servers, Sound(server.state), NEW kind \in HitKinds
    PROVE  /\ Struck(kind) \in States /\ Sound(Struck(kind))
           /\ Struck(kind).health <= server.state.health
<1>1. server.state \in States
  BY DEF Servers
<1>2. CASE kind = "damage"
  <2>1. Struck(kind) = Damaged(server.state, 1)
    BY <1>2 DEF Struck
  <2> QED BY <1>1, <2>1, DamagedFacts
<1>3. CASE kind = "ignite"
  <2>1. Struck(kind) = [server.state EXCEPT !.fire = TRUE]
    BY <1>3 DEF Struck
  <2>2. [server.state EXCEPT !.fire = TRUE] \in States
    BY <1>1 DEF States
  <2>3. /\ [server.state EXCEPT !.fire = TRUE].health = server.state.health
        /\ [server.state EXCEPT !.fire = TRUE].alive = server.state.alive
    BY <1>1 DEF States
  <2> QED BY <1>1, <2>1, <2>2, <2>3 DEF Sound, States
<1>4. CASE kind = "knockout"
  <2>1. Struck(kind) = Wreck(server.state)
    BY <1>4 DEF Struck
  <2> QED BY <1>1, <2>1, WreckFacts DEF Sound, States
<1>5. CASE kind = "again"
  BY <1>1, <1>5 DEF Struck, Sound, States
<1> QED BY <1>2, <1>3, <1>4, <1>5 DEF HitKinds


----------------------------------------------------------------------------
(* What the server makes of a publication. *)

LEMMA MergedFacts ==
    ASSUME server \in Servers, NEW row \in Rows
    PROVE  /\ Merged(row) \in States /\ Sound(Merged(row))
           /\ Merged(row).health <= server.state.health
           /\ Merged(row).alive => row.state.alive
           /\ row.state.alive /\ row.state.health > 0 /\ server.state.health > 0
                => Merged(row).alive
<1> DEFINE health == Least(row.state.health, server.state.health)
           lower == [row.state EXCEPT !.health = health]
<1>1. server.state \in States /\ row.state \in States
  BY DEF Servers, Rows
<1>2. /\ health \in 0..Full /\ health <= server.state.health
      /\ row.state.health > 0 /\ server.state.health > 0 => health > 0
  BY <1>1, CombatAssumption DEF States, Least
<1>3. Merged(row) = [lower EXCEPT !.alive = row.state.alive /\ health > 0]
  BY <1>1 DEF Merged, States
<1> HIDE DEF health
<1>4. lower \in States /\ lower.health = health
  BY <1>1, <1>2 DEF States
<1> HIDE DEF lower
<1>5. (row.state.alive /\ health > 0) \in BOOLEAN
  BY <1>1, <1>2 DEF States
<1>6. /\ Merged(row) \in States /\ Merged(row).health = health
      /\ Merged(row).alive = (row.state.alive /\ health > 0)
  BY <1>3, <1>4, <1>5 DEF States
<1> QED BY <1>2, <1>6 DEF Sound

\* A publication lowers the health or leaves it. It changes the state only if
\* it is of the server's base, which then stands; it neither revives a Bot nor
\* kills one that it shows alive.
LEMMA TakenFacts ==
    ASSUME server \in Servers, server.base <= server.rev, Sound(server.state),
           NEW row \in Rows, Sound(row.state), row.base <= server.base
    PROVE  LET taken == Taken(row) IN
           /\ taken \in Servers /\ Sound(taken.state)
           /\ taken.state.health <= server.state.health
           /\ taken.base <= taken.rev
           /\ taken.base = server.base \/ (taken.base > server.rev /\ taken.state = server.state)
           /\ taken.state = server.state \/ row.base = server.base
           /\ taken.state.alive => row.state.alive \/ (server.state.alive /\ taken.state = server.state)
           /\ server.state.alive /\ row.state.alive => taken.state.alive
<1> DEFINE taken == Taken(row)
           Good(s) == /\ s \in Servers /\ Sound(s.state)
                      /\ s.state.health <= server.state.health
                      /\ s.base <= s.rev
                      /\ s.base = server.base \/ (s.base > server.rev /\ s.state = server.state)
                      /\ s.state = server.state \/ row.base = server.base
                      /\ s.state.alive =>
                            row.state.alive \/ (server.state.alive /\ s.state = server.state)
                      /\ server.state.alive /\ row.state.alive => s.state.alive
<1>0. /\ server.state \in States /\ row.state \in States
      /\ server.rev \in Nat /\ server.base \in Nat /\ row.base \in Nat /\ row.seq \in Nat
      /\ row.used \in 0..MaxKits /\ server.state.health \in Nat /\ row.state.health \in Nat
      /\ server.state.alive \in BOOLEAN /\ row.state.alive \in BOOLEAN
  BY CombatAssumption DEF Servers, Rows, States
<1>1. /\ Fenced(row) \in Servers /\ Fenced(row).state = server.state
      /\ Fenced(row).base = server.base /\ Fenced(row).rev = server.rev
  BY <1>0 DEF Fenced, Servers
<1>2. Good(Fenced(row))
  BY <1>0, <1>1
<1>3. Good(Contained(row)) \/ ~StunRefused(row)
  <2> SUFFICES ASSUME StunRefused(row) PROVE Good(Contained(row))
    OBVIOUS
  <2>1. row.base = server.base
    BY <1>0 DEF StunRefused
  <2> DEFINE one == [server.state EXCEPT !.health = Merged(row).health]
             two == [one EXCEPT !.alive = Merged(row).alive]
  <2>2. Contained(row) = [server EXCEPT !.state = two]
    BY <1>0 DEF Contained, Servers, States
  <2>3. Merged(row).health \in 0..Full /\ Merged(row).alive \in BOOLEAN
    BY MergedFacts DEF States
  <2>4. one \in States /\ one.health = Merged(row).health
    BY <1>0, <2>3 DEF States
  <2> HIDE DEF one
  <2>5. two \in States /\ two.health = Merged(row).health /\ two.alive = Merged(row).alive
    BY <2>3, <2>4 DEF States
  <2> HIDE DEF two
  <2>6. /\ Contained(row) \in Servers /\ Contained(row).state = two
        /\ Contained(row).base = server.base /\ Contained(row).rev = server.rev
    BY <2>2, <2>5 DEF Servers
  <2>7. Sound(two)
    BY <2>5, MergedFacts DEF Sound
  <2> QED BY <1>0, <2>1, <2>5, <2>6, <2>7, MergedFacts DEF Sound
<1>4. Good(Answered(row))
  <2> DEFINE revision == (IF row.base > server.rev THEN row.base ELSE server.rev) + 1
             one == [Fenced(row) EXCEPT !.rev = revision]
  <2>1. revision \in Nat /\ revision > server.rev
    BY <1>0
  <2>2. Answered(row) = [one EXCEPT !.base = revision]
    BY <1>1 DEF Answered, Servers
  <2> HIDE DEF revision
  <2>3. one \in Servers /\ one.state = server.state /\ one.rev = revision
    BY <1>1, <2>1 DEF Servers
  <2> HIDE DEF one
  <2>4. /\ Answered(row) \in Servers /\ Answered(row).state = server.state
        /\ Answered(row).rev = revision /\ Answered(row).base = revision
    BY <2>1, <2>2, <2>3 DEF Servers
  <2> QED BY <1>0, <2>1, <2>4
<1>5. Good(Accepted(row)) \/ Foreign(row) \/ row.base < server.base
  <2> SUFFICES ASSUME ~Foreign(row), ~(row.base < server.base) PROVE Good(Accepted(row))
    OBVIOUS
  <2>1. row.base = server.base
    BY <1>0
  <2> DEFINE one == [server EXCEPT !.state = Merged(row)]
             two == [one EXCEPT !.used = row.used]
             three == [two EXCEPT !.rev = server.rev + 1]
  <2>2. Accepted(row) = [three EXCEPT !.ack = row.seq]
    BY <1>0 DEF Accepted, Servers
  <2>3. one \in Servers /\ one.state = Merged(row) /\ one.base = server.base
    BY MergedFacts DEF Servers
  <2> HIDE DEF one
  <2>4. two \in Servers /\ two.state = Merged(row) /\ two.base = server.base
    BY <1>0, <2>3 DEF Servers
  <2> HIDE DEF two
  <2>5. server.rev + 1 \in Nat
    BY <1>0
  <2>6. /\ three \in Servers /\ three.state = Merged(row) /\ three.base = server.base
        /\ three.rev = server.rev + 1
    BY <2>4, <2>5 DEF Servers
  <2> HIDE DEF three
  <2>7. /\ Accepted(row) \in Servers /\ Accepted(row).state = Merged(row)
        /\ Accepted(row).base = server.base /\ Accepted(row).rev = server.rev + 1
    BY <1>0, <2>2, <2>6 DEF Servers
  <2> QED BY <1>0, <2>1, <2>7, MergedFacts DEF Sound
<1>6. Good(Taken(row))
  BY <1>2, <1>3, <1>4, <1>5 DEF Taken
<1> QED BY <1>6

----------------------------------------------------------------------------
(* The external changes keep the invariant: they open a base of their own. *)

\* A server that keeps its state or opens a base leaves everybody else alone.
LEMMA OpensBase ==
    ASSUME CombatInv, UNCHANGED <<worker, sync, up, down>>,
           server' \in Servers, Sound(server'.state), server'.base <= server'.rev,
           server'.base > server.rev \/ server' = server
    PROVE  SoundInv' /\ BaseInv' /\ DeadInv' /\ CountInv'
<1>1. CASE server' = server
  <2>1. UNCHANGED <<server, worker, sync, up, down>>
    BY <1>1
  <2> QED BY <2>1 DEF CombatInv, CountInv, SoundInv, BaseInv, DeadInv
<1>2. CASE server'.base > server.rev
  <2>1. /\ server.rev \in Nat /\ server.base \in Nat /\ server'.base \in Nat /\ sync.base \in Nat
        /\ \A i \in DOMAIN up : up[i] \in Rows
        /\ \A i \in DOMAIN down : down[i] \in Snapshots
    BY Typed DEF CombatInv, Servers, Syncs
  <2>2. /\ \A i \in DOMAIN up : up[i].base < server'.base
        /\ \A i \in DOMAIN down : down[i].base < server'.base
        /\ sync.base < server'.base
    BY <1>2, <2>1 DEF CombatInv, BaseInv, Rows, Snapshots
  <2>3. SoundInv' /\ CountInv'
    BY DEF CombatInv, SoundInv, CountInv
  <2>4. BaseInv'
    BY <2>1, <2>2 DEF CombatInv, BaseInv, Rows, Snapshots
  <2>5. DeadInv'
    BY <2>1, <2>2 DEF CombatInv, DeadInv, Rows
  <2> QED BY <2>3, <2>4, <2>5
<1> QED BY <1>1, <1>2

\* The types of everybody else.
LEMMA ServerTypes ==
    ASSUME TypeOK, UNCHANGED <<worker, sync, up, down>>,
           server' \in Servers, count' \in [Counted -> Nat]
    PROVE  TypeOK'
BY DEF TypeOK, Servers

LEMMA HitKeeps ==
    ASSUME CombatInv, NEW kind \in HitKinds, Hit(kind)
    PROVE  CombatInv' /\ server'.state.health <= server.state.health
<1> DEFINE hit == Committed(Struck(kind), kind = "again")
           after == IF hit.state.alive \/ hit.state.stun = 0 THEN hit
                    ELSE [hit EXCEPT !.state.stun = 0, !.rev = @ + 1, !.base = hit.rev + 1]
<1>1. /\ server \in Servers /\ Sound(server.state) /\ server.base <= server.rev
      /\ server.rev \in Nat /\ server.base \in Nat /\ count \in [Counted -> Nat]
  BY DEF CombatInv, TypeOK, SoundInv, BaseInv, Servers
<1>2. /\ Struck(kind) \in States /\ Sound(Struck(kind))
      /\ Struck(kind).health <= server.state.health
  BY <1>1, StruckFacts
<1>3. /\ hit \in Servers /\ Sound(hit.state) /\ hit.state.health <= server.state.health
      /\ hit = server \/ (hit.base = server.rev + 1 /\ hit.rev = server.rev + 1)
  BY <1>1, <1>2, CommittedFacts DEF Sound
<1>4. server' = after /\ UNCHANGED <<worker, sync, up, down>>
      /\ count' = [count EXCEPT !.shots = @ + 1,
                                !.hits = @ + server.state.health - hit.state.health]
  BY DEF Hit
<1> HIDE DEF hit
<1>5. /\ after \in Servers /\ Sound(after.state) /\ after.state.health = hit.state.health
      /\ after.base <= after.rev
      /\ after = server \/ after.base > server.rev
  <2>1. CASE hit.state.alive \/ hit.state.stun = 0
    BY <1>1, <1>3, <2>1
  <2>2. CASE ~(hit.state.alive \/ hit.state.stun = 0)
    <3> DEFINE quiet == [hit.state EXCEPT !.stun = 0]
               one == [hit EXCEPT !.state = quiet]
               two == [one EXCEPT !.rev = hit.rev + 1]
    <3>1. after = [two EXCEPT !.base = hit.rev + 1]
      BY <1>3, <2>2 DEF Servers, States
    <3>2. 0 \in 0..MaxStuns /\ hit.state \in States /\ hit.rev + 1 \in Nat
      BY <1>3, CombatAssumption DEF Servers
    <3>3. quiet \in States /\ quiet.health = hit.state.health /\ quiet.alive = hit.state.alive
      BY <3>2 DEF States
    <3> HIDE DEF quiet
    <3>4. one \in Servers /\ one.state = quiet
      BY <1>3, <3>3 DEF Servers
    <3> HIDE DEF one
    <3>5. two \in Servers /\ two.state = quiet /\ two.rev = hit.rev + 1
      BY <3>2, <3>4 DEF Servers
    <3> HIDE DEF two
    <3>6. [two EXCEPT !.base = hit.rev + 1] \in Servers
          /\ [two EXCEPT !.base = hit.rev + 1].state = quiet
          /\ [two EXCEPT !.base = hit.rev + 1].rev = hit.rev + 1
          /\ [two EXCEPT !.base = hit.rev + 1].base = hit.rev + 1
      BY <3>2, <3>5 DEF Servers
    <3>7. hit.rev + 1 > server.rev /\ hit.rev + 1 <= hit.rev + 1
      BY <1>1, <1>3 DEF Servers
    <3> HIDE DEF after
    <3>8. Sound(quiet)
      BY <1>3, <3>3 DEF Sound
    <3> QED BY <3>1, <3>3, <3>6, <3>7, <3>8
  <2> QED BY <2>1, <2>2
<1> HIDE DEF after
<1>6. count' \in [Counted -> Nat]
  <2>1. /\ server.state.health \in Nat /\ hit.state.health \in Nat
        /\ count["hits"] \in Nat /\ count["shots"] \in Nat
    BY <1>1, <1>3, CombatAssumption DEF Servers, States, Counted
  <2>2. /\ count["shots"] + 1 \in Nat
        /\ count["hits"] + server.state.health - hit.state.health \in Nat
    BY <1>3, <2>1
  <2> QED BY <1>1, <1>4, <2>2 DEF Counted
<1>7. SoundInv' /\ BaseInv' /\ DeadInv' /\ CountInv'
  BY <1>4, <1>5, OpensBase
<1>8. TypeOK'
  BY <1>4, <1>5, <1>6, ServerTypes DEF CombatInv
<1> QED BY <1>3, <1>4, <1>5, <1>7, <1>8 DEF CombatInv

LEMMA StunKeeps ==
    ASSUME CombatInv, Stun \/ ExpireStun
    PROVE  CombatInv' /\ server'.state.health = server.state.health
                      /\ server'.state.alive = server.state.alive
<1>1. /\ server \in Servers /\ Sound(server.state) /\ server.base <= server.rev
      /\ server.rev \in Nat /\ server.base \in Nat /\ count \in [Counted -> Nat]
      /\ server.state \in States
  BY DEF CombatInv, TypeOK, SoundInv, BaseInv, Servers
<1>2. PICK n \in 0..MaxStuns :
         server' = Committed([server.state EXCEPT !.stun = n], FALSE)
  <2>1. CASE Stun
    <3>1. count["stuns"] \in Nat /\ count["stuns"] < MaxStuns /\ MaxStuns \in Nat
      BY <1>1, <2>1, CombatAssumption DEF Stun, Happens, Counted
    <3>2. count["stuns"] + 1 \in 0..MaxStuns
      BY <3>1
    <3>3. server' = Committed([server.state EXCEPT !.stun = count["stuns"] + 1], FALSE)
      BY <2>1 DEF Stun
    <3> QED BY <3>2, <3>3
  <2>2. CASE ExpireStun
    <3>1. 0 \in 0..MaxStuns
      BY CombatAssumption
    <3> QED BY <2>2, <3>1 DEF ExpireStun
  <2> QED BY <2>1, <2>2
<1> DEFINE s == [server.state EXCEPT !.stun = n]
<1>3. s \in States /\ s.health = server.state.health /\ s.alive = server.state.alive
  BY <1>1 DEF States
<1> HIDE DEF s
<1>4. server' = Committed(s, FALSE)
  BY <1>2 DEF s
<1>5. /\ server' \in Servers /\ server'.state.health = s.health /\ server'.state.alive = s.alive
      /\ server' = server \/ (server'.base = server.rev + 1 /\ server'.rev = server.rev + 1)
  BY <1>1, <1>3, <1>4, CommittedFacts
<1>6. UNCHANGED <<worker, sync, up, down>> /\ count' \in [Counted -> Nat]
  <2>1. CASE Stun
    <3>1. count' = [count EXCEPT !["stuns"] = @ + 1] /\ UNCHANGED <<worker, sync, up, down>>
      BY <2>1 DEF Stun, Counting
    <3> QED BY <1>1, <3>1 DEF Counted
  <2>2. CASE ExpireStun
    BY <1>1, <2>2 DEF ExpireStun
  <2> QED BY <2>1, <2>2
<1>7. SoundInv' /\ BaseInv' /\ DeadInv' /\ CountInv'
  BY <1>1, <1>3, <1>5, <1>6, OpensBase DEF Sound
<1>8. TypeOK'
  BY <1>5, <1>6, ServerTypes DEF CombatInv
<1> QED BY <1>3, <1>5, <1>7, <1>8 DEF CombatInv

----------------------------------------------------------------------------
(* The worker's changes keep the invariant: they are made to a Bot that     *)
(* lives.                                                                   *)

\* A worker that changes a living Bot disturbs no order among the dead.
LEMMA LivingChange ==
    ASSUME CombatInv, UNCHANGED <<server, up, down>>, worker.state.alive,
           sync'.base = sync.base, Sound(worker'.state)
    PROVE  SoundInv' /\ BaseInv' /\ DeadInv'
<1>1. SoundInv'
  BY DEF CombatInv, SoundInv
<1>2. BaseInv'
  BY DEF CombatInv, BaseInv
<1>3. DeadInv'
  BY DEF CombatInv, DeadInv
<1> QED BY <1>1, <1>2, <1>3

LEMMA SliceKeeps ==
    ASSUME CombatInv, NEW kit \in BOOLEAN, Slice(kit)
    PROVE  CombatInv'
<1> DEFINE slice == [at |-> count.burns + worker.used, seq |-> sync.next + 1,
                     burns |-> worker.state.fire,
                     clears |-> IF kit THEN worker.state.stun ELSE 0]
           state == Advanced(worker.state, {slice})
           used == worker.used + IF kit THEN 1 ELSE 0
           more == sync.slices \cup {slice}
<1>1. /\ worker \in Workers /\ sync \in Syncs /\ count \in [Counted -> Nat]
      /\ Sound(worker.state) /\ sync.acked <= sync.next /\ IsFiniteSet(sync.slices)
      /\ \A c \in sync.slices : c.seq \in (sync.acked + 1)..(sync.next + 1)
  BY DEF CombatInv, TypeOK, SoundInv, CountInv, Workers, Syncs, Slices, Pending
<1>2. /\ worker.state \in States /\ worker.used \in 0..MaxKits /\ sync.next \in Nat
      /\ sync.acked \in Nat /\ sync.slices \subseteq Slices /\ MaxKits \in Nat
      /\ count["burns"] \in Nat
  BY <1>1, CombatAssumption DEF Workers, Syncs, Counted
<1>3. slice \in Slices /\ slice.seq = sync.next + 1
  <2>1. /\ worker.state.fire \in BOOLEAN
        /\ (IF kit THEN worker.state.stun ELSE 0) \in Nat
        /\ count["burns"] + worker.used \in Nat /\ sync.next + 1 \in Nat
    BY <1>2, CombatAssumption DEF States
  <2> QED BY <2>1 DEF Slices
<1>4. /\ worker.state.alive
      /\ worker' = [state |-> state, used |-> used]
      /\ sync' = [sync EXCEPT !.slices = more]
      /\ count' = [count EXCEPT !["burns"] = @ + IF worker.state.fire THEN 1 ELSE 0]
      /\ UNCHANGED <<server, up, down>>
      /\ kit => worker.used < MaxKits
  BY DEF Slice, Counting
<1> HIDE DEF slice
<1>5. state \in States /\ Sound(state)
  <2>1. IsFiniteSet({slice})
    BY FS_Singleton
  <2> QED BY <1>1, <1>2, <2>1, AdvancedFacts
<1> HIDE DEF state
<1>6. used \in 0..MaxKits
  BY <1>2, <1>4
<1> HIDE DEF used
<1>7. more \subseteq Slices /\ IsFiniteSet(more)
      /\ \A c \in more : c.seq \in (sync.acked + 1)..(sync.next + 1)
  <2>1. IsFiniteSet(more)
    BY <1>1, FS_AddElement
  <2>2. slice.seq \in (sync.acked + 1)..(sync.next + 1)
    BY <1>1, <1>2, <1>3
  <2> QED BY <1>1, <1>2, <1>3, <2>1, <2>2
<1> HIDE DEF more
<1>8. /\ sync' \in Syncs /\ sync'.slices = more /\ sync'.base = sync.base
      /\ sync'.next = sync.next /\ sync'.acked = sync.acked /\ sync'.pending = sync.pending
  BY <1>1, <1>4, <1>7 DEF Syncs
<1>9. count' \in [Counted -> Nat]
  BY <1>1, <1>2, <1>4 DEF Counted
<1>10. worker' \in Workers /\ Sound(worker'.state)
  BY <1>4, <1>5, <1>6 DEF Workers
<1>11. SoundInv' /\ BaseInv' /\ DeadInv'
  BY <1>4, <1>8, <1>10, LivingChange
<1>12. TypeOK'
  BY <1>4, <1>7, <1>8, <1>9, <1>10 DEF CombatInv, TypeOK, Workers, Syncs, Slices, Pending
<1>13. CountInv'
  BY <1>1, <1>7, <1>8 DEF CountInv
<1> QED BY <1>11, <1>12, <1>13 DEF CombatInv

LEMMA LandKeeps ==
    ASSUME CombatInv, Land
    PROVE  CombatInv'
<1>1. worker \in Workers /\ worker.state \in States /\ count \in [Counted -> Nat]
  BY DEF CombatInv, TypeOK, Workers
<1>2. /\ worker.state.alive /\ UNCHANGED <<server, sync, up, down>>
      /\ worker' = [worker EXCEPT !.state = Damaged(worker.state, 1)]
      /\ count' = [count EXCEPT !["falls"] = @ + 1]
  BY <1>1 DEF Land, Counting, Workers
<1>3. Damaged(worker.state, 1) \in States /\ Sound(Damaged(worker.state, 1))
  BY <1>1, DamagedFacts
<1>4. worker' \in Workers /\ Sound(worker'.state)
  BY <1>1, <1>2, <1>3 DEF Workers
<1>5. count' \in [Counted -> Nat]
  BY <1>1, <1>2 DEF Counted
<1>6. SoundInv' /\ BaseInv' /\ DeadInv'
  BY <1>2, <1>4, LivingChange
<1>7. TypeOK' /\ CountInv'
  BY <1>2, <1>4, <1>5 DEF CombatInv, TypeOK, CountInv, Workers
<1> QED BY <1>6, <1>7 DEF CombatInv

LEMMA PublishKeeps ==
    ASSUME CombatInv, NEW encoded \in BOOLEAN, Publish(encoded)
    PROVE  CombatInv'
<1> DEFINE proposal == [seq |-> sync.next + 1, state |-> worker.state]
<1>1. /\ worker \in Workers /\ sync \in Syncs /\ count \in [Counted -> Nat]
      /\ up \in Seq(Rows) /\ Len(up) \in Nat /\ sync.acked <= sync.next
      /\ worker.state \in States /\ worker.used \in 0..MaxKits /\ sync.base \in Nat
      /\ sync.next \in Nat /\ sync.acked \in Nat /\ MaxUp \in Nat
      /\ \A p \in sync.pending : p.seq \in (sync.acked + 1)..sync.next
      /\ \A c \in sync.slices : c.seq \in (sync.acked + 1)..(sync.next + 1)
  <2>1. worker \in Workers /\ sync \in Syncs /\ count \in [Counted -> Nat] /\ up \in Seq(Rows)
    BY Typed DEF CombatInv
  <2>2. /\ Len(up) \in Nat /\ worker.state \in States /\ worker.used \in 0..MaxKits
        /\ sync.base \in Nat /\ sync.next \in Nat /\ sync.acked \in Nat /\ MaxUp \in Nat
    BY <2>1, CombatAssumption DEF Workers, Syncs
  <2>3. /\ \A p \in sync.pending : p.seq \in (sync.acked + 1)..sync.next
        /\ \A c \in sync.slices : c.seq \in (sync.acked + 1)..(sync.next + 1)
        /\ sync.acked <= sync.next
    BY DEF CombatInv, TypeOK, CountInv
  <2> QED BY <2>1, <2>2, <2>3
<1>2. /\ sync' = Marked /\ UNCHANGED <<server, worker, down>>
      /\ Len(up) < MaxUp
      /\ \/ up' = Append(up, Row) /\ UNCHANGED count
         \/ UNCHANGED up /\ count' = [count EXCEPT !["failed"] = @ + 1]
  BY DEF Publish, Counting
<1>3. /\ Marked \in Syncs /\ Marked.base = sync.base /\ Marked.acked = sync.acked
      /\ Marked.slices = sync.slices /\ Marked.next \in Nat
      /\ \/ Marked.next = sync.next /\ Marked.pending = sync.pending
         \/ Marked.next = sync.next + 1 /\ Marked.pending = sync.pending \cup {proposal}
  <2>1. CASE worker.state = sync.published
    BY <1>1, <2>1 DEF Marked, Syncs
  <2>2. CASE worker.state # sync.published
    <3> DEFINE one == [sync EXCEPT !.next = sync.next + 1]
               two == [one EXCEPT !.pending = sync.pending \cup {proposal}]
    <3>1. Marked = [two EXCEPT !.published = worker.state]
      BY <1>1, <2>2 DEF Marked, Syncs
    <3>2. sync.next + 1 \in Nat /\ sync.pending \cup {proposal} \subseteq Pending
      BY <1>1 DEF Syncs, Pending
    <3> HIDE DEF proposal
    <3>3. /\ one \in Syncs /\ one.next = sync.next + 1 /\ one.base = sync.base
          /\ one.acked = sync.acked /\ one.slices = sync.slices
      BY <1>1, <3>2 DEF Syncs
    <3> HIDE DEF one
    <3>4. /\ two \in Syncs /\ two.next = sync.next + 1 /\ two.base = sync.base
          /\ two.acked = sync.acked /\ two.slices = sync.slices
          /\ two.pending = sync.pending \cup {proposal}
      BY <3>2, <3>3 DEF Syncs
    <3> HIDE DEF two
    <3> QED BY <1>1, <3>1, <3>2, <3>4 DEF Syncs
  <2> QED BY <2>1, <2>2
<1>4. Row \in Rows /\ Row.base = sync.base /\ Row.state = worker.state
  BY <1>1, <1>3 DEF Row, Rows
<1>5. /\ up' \in Seq(Rows) /\ Len(up') <= MaxUp
      /\ \A i \in DOMAIN up' : up'[i] = Row \/ (i \in DOMAIN up /\ up'[i] = up[i])
      /\ \A i, j \in DOMAIN up' :
            i < j => /\ i \in DOMAIN up /\ up'[i] = up[i]
                     /\ up'[j] = Row \/ (j \in DOMAIN up /\ up'[j] = up[j])
  <2>1. CASE UNCHANGED up
    BY <1>1, <1>2, <2>1
  <2>2. CASE up' = Append(up, Row)
    <3> HIDE DEF Row
    <3>1. /\ up' \in Seq(Rows) /\ Len(up') = Len(up) + 1
          /\ \A i \in 1..Len(up) : up'[i] = up[i]
          /\ up'[Len(up) + 1] = Row
      BY <1>1, <1>4, <2>2
    <3>2. DOMAIN up = 1..Len(up) /\ DOMAIN up' = 1..(Len(up) + 1)
      BY <1>1, <3>1
    <3> QED BY <1>1, <1>2, <3>1, <3>2
  <2> QED BY <1>2, <2>1, <2>2
<1>6. count' \in [Counted -> Nat]
  <2>1. count \in [Counted -> Nat]
    BY <1>1
  <2>2. CASE count' = [count EXCEPT !["failed"] = @ + 1]
    BY <2>1, <2>2 DEF Counted
  <2> QED BY <1>2, <2>1, <2>2
<1>7. TypeOK'
  <2>1. \A p \in Marked.pending : p.seq \in (sync.acked + 1)..Marked.next
    BY <1>1, <1>3
  <2>2. \A c \in Marked.slices : c.seq \in (sync.acked + 1)..(Marked.next + 1)
    BY <1>1, <1>3
  <2> QED BY <1>2, <1>3, <1>5, <1>6, <2>1, <2>2
          DEF CombatInv, TypeOK, Rows, Syncs, Slices, Pending
<1>8. CountInv'
  BY <1>1, <1>2, <1>3 DEF CombatInv, CountInv
<1>9. SoundInv'
  BY <1>2, <1>4, <1>5 DEF CombatInv, SoundInv
<1>10. BaseInv'
  <2>1. \A i \in DOMAIN up' : up'[i].base <= sync.base
    BY <1>1, <1>4, <1>5 DEF CombatInv, BaseInv
  <2> QED BY <1>2, <1>3, <2>1 DEF CombatInv, BaseInv
<1>11. DeadInv'
  <2>1. ~server.state.alive =>
            \A i \in DOMAIN up' : up'[i].base = server.base => ~up'[i].state.alive
    BY <1>4, <1>5 DEF CombatInv, DeadInv
  <2>2. \A i, j \in DOMAIN up' :
            i < j /\ up'[i].base = up'[j].base /\ ~up'[i].state.alive => ~up'[j].state.alive
    BY <1>4, <1>5 DEF CombatInv, DeadInv
  <2>3. \A i \in DOMAIN up' :
            up'[i].base = sync.base /\ ~up'[i].state.alive => ~worker.state.alive
    BY <1>4, <1>5 DEF CombatInv, DeadInv
  <2>4. sync'.base = sync.base
    BY <1>2, <1>3
  <2> QED BY <1>2, <2>1, <2>2, <2>3, <2>4 DEF CombatInv, DeadInv
<1> QED BY <1>7, <1>8, <1>9, <1>10, <1>11 DEF CombatInv

----------------------------------------------------------------------------
(* The server takes a publication. *)

LEMMA ReceiveKeeps ==
    ASSUME CombatInv, Receive
    PROVE  /\ CombatInv' /\ server'.state.health <= server.state.health
           /\ server'.state.alive => server.state.alive
<1> DEFINE row == Head(up)
<1>1. /\ server \in Servers /\ up \in Seq(Rows) /\ count \in [Counted -> Nat]
      /\ \A i \in DOMAIN up : up[i] \in Rows
      /\ server.base \in Nat /\ server.rev \in Nat /\ sync.base \in Nat
      /\ server.base <= server.rev /\ sync.base <= server.base
  BY Typed DEF CombatInv, BaseInv, Servers, Syncs
<1>2. /\ up # <<>> /\ server' = Taken(row) /\ up' = Tail(up)
      /\ UNCHANGED <<worker, sync, down>>
      /\ count' = [count EXCEPT !["merged"] =
                      @ + IF StunRefused(row) THEN server.state.health - server'.state.health ELSE 0]
  BY DEF Receive, Counting
<1>3. /\ 1 \in DOMAIN up /\ row = up[1] /\ Len(up') = Len(up) - 1
      /\ up' \in Seq(Rows)
      /\ \A i \in DOMAIN up' : i + 1 \in DOMAIN up /\ up'[i] = up[i + 1] /\ i \in Nat \ {0}
  BY <1>1, <1>2
<1>4. /\ row \in Rows /\ row.base \in Nat /\ Sound(row.state) /\ Sound(server.state)
      /\ row.base <= sync.base /\ row.base <= server.base
  <2>1. row \in Rows /\ row.base \in Nat
    BY <1>1, <1>3 DEF Rows
  <2>2. Sound(row.state) /\ Sound(server.state) /\ row.base <= sync.base
    BY <1>3 DEF CombatInv, SoundInv, BaseInv
  <2> QED BY <1>1, <2>1, <2>2
<1>5. /\ server' \in Servers /\ Sound(server'.state)
      /\ server'.state.health <= server.state.health
      /\ server'.base <= server'.rev
      /\ server'.base = server.base \/ (server'.base > server.rev /\ server'.state = server.state)
      /\ server'.state = server.state \/ row.base = server.base
      /\ server'.state.alive =>
            row.state.alive \/ (server.state.alive /\ server'.state = server.state)
      /\ server.state.alive /\ row.state.alive => server'.state.alive
  BY <1>1, <1>2, <1>4, TakenFacts
<1>6. server'.state.alive => server.state.alive
  <2>1. ~server.state.alive /\ row.base = server.base => ~row.state.alive
    BY <1>3 DEF CombatInv, DeadInv
  <2> QED BY <1>5, <2>1
<1>7. count' \in [Counted -> Nat]
  <2>1. /\ server.state.health \in Nat /\ server'.state.health \in Nat
        /\ count["merged"] \in Nat
    BY <1>1, <1>5, CombatAssumption DEF Servers, States, Counted
  <2>2. (IF StunRefused(row) THEN server.state.health - server'.state.health ELSE 0) \in Nat
    BY <1>5, <2>1
  <2>3. count["merged"]
          + (IF StunRefused(row) THEN server.state.health - server'.state.health ELSE 0) \in Nat
    BY <2>1, <2>2
  <2> QED BY <1>1, <1>2, <2>3 DEF Counted
<1>8. TypeOK'
  <2>1. Len(up') <= MaxUp
    <3>1. Len(up) \in Nat /\ Len(up) <= MaxUp /\ MaxUp \in Nat
      BY <1>1, CombatAssumption DEF CombatInv, TypeOK
    <3> QED BY <1>3, <3>1
  <2> QED BY <1>2, <1>3, <1>5, <1>7, <2>1 DEF CombatInv, TypeOK, Servers, Rows
<1>9. CountInv'
  BY <1>2 DEF CombatInv, CountInv
<1>10. SoundInv'
  BY <1>2, <1>3, <1>5 DEF CombatInv, SoundInv
<1>11. BaseInv'
  <2>1. server'.base \in Nat
    BY <1>5 DEF Servers
  <2>2. /\ \A i \in DOMAIN up' : up'[i].base <= sync.base
        /\ sync.base <= server'.base
    BY <1>1, <1>3, <1>5, <2>1 DEF CombatInv, BaseInv
  <2>3. \A i \in DOMAIN down : down[i].base <= server'.base
    <3>1. \A i \in DOMAIN down : down[i].base \in Nat /\ down[i].base <= server.base
      BY Typed DEF CombatInv, BaseInv, Snapshots
    <3> QED BY <1>1, <1>5, <2>1, <3>1
  <2>4. sync.base < server'.base =>
          \A i \in DOMAIN down : down[i].base = server'.base => down[i].state = server'.state
    <3>1. CASE server'.base = server.base
      <4>1. sync.base < server.base => server'.state = server.state
        BY <1>1, <1>4, <1>5
      <4> QED BY <3>1, <4>1 DEF CombatInv, BaseInv
    <3>2. CASE server'.base > server.rev
      <4>1. \A i \in DOMAIN down : down[i].base \in Nat /\ down[i].base <= server.base
        BY Typed DEF CombatInv, BaseInv, Snapshots
      <4>2. \A i \in DOMAIN down : down[i].base # server'.base
        BY <1>1, <2>1, <3>2, <4>1
      <4> QED BY <4>2
    <3> QED BY <1>5, <3>1, <3>2
  <2> QED BY <1>2, <1>5, <2>2, <2>3, <2>4 DEF BaseInv
<1>12. DeadInv'
  <2>1. server'.base \in Nat /\ \A i \in DOMAIN up' : up'[i].base \in Nat
    BY <1>1, <1>3, <1>5 DEF Servers, Rows
  <2>2. \A i, j \in DOMAIN up' :
          i < j /\ up'[i].base = up'[j].base /\ ~up'[i].state.alive => ~up'[j].state.alive
    BY <1>3 DEF CombatInv, DeadInv
  <2>3. \A i \in DOMAIN up' :
          up'[i].base = sync.base /\ ~up'[i].state.alive => ~worker.state.alive
    BY <1>3 DEF CombatInv, DeadInv
  <2>4. ASSUME ~server'.state.alive, NEW i \in DOMAIN up', up'[i].base = server'.base
        PROVE  ~up'[i].state.alive
    <3>1. up'[i].base <= server.base /\ server'.base = server.base
      <4>1. up'[i].base <= sync.base
        BY <1>3 DEF CombatInv, BaseInv
      <4> QED BY <1>1, <1>5, <2>1, <2>4, <4>1
    <3>2. CASE ~server.state.alive
      BY <1>3, <2>4, <3>1, <3>2 DEF CombatInv, DeadInv
    <3>3. CASE server.state.alive
      <4>1. row.base = server.base /\ ~row.state.alive
        BY <1>5, <2>4, <3>3
      <4>2. 1 < i + 1 /\ i + 1 \in DOMAIN up /\ up[1].base = up[i + 1].base
            /\ up'[i] = up[i + 1]
        BY <1>3, <2>4, <3>1, <4>1
      <4> QED BY <1>3, <4>1, <4>2 DEF CombatInv, DeadInv
    <3> QED BY <3>2, <3>3
  <2>5. ASSUME ~server'.state.alive, sync.base = server'.base
        PROVE  ~worker.state.alive
    <3>1. server'.base = server.base
      BY <1>1, <1>5, <2>1, <2>5
    <3>2. CASE ~server.state.alive
      BY <2>5, <3>1, <3>2 DEF CombatInv, DeadInv
    <3>3. CASE server.state.alive
      <4>1. row.base = server.base /\ ~row.state.alive
        BY <1>5, <2>5, <3>3
      <4> QED BY <1>3, <2>5, <3>1, <4>1 DEF CombatInv, DeadInv
    <3> QED BY <3>2, <3>3
  <2> QED BY <1>2, <2>2, <2>3, <2>4, <2>5 DEF DeadInv
<1> QED BY <1>5, <1>6, <1>8, <1>9, <1>10, <1>11, <1>12 DEF CombatInv

----------------------------------------------------------------------------
(* Snapshots. *)

LEMMA BroadcastKeeps ==
    ASSUME CombatInv, Broadcast
    PROVE  CombatInv'
<1>1. /\ server \in Servers /\ down \in Seq(Snapshots) /\ Len(down) \in Nat /\ Len(down) <= MaxDown
      /\ MaxDown \in Nat /\ server.base \in Nat
  BY Typed, CombatAssumption DEF CombatInv, TypeOK, Servers
<1>2. /\ UNCHANGED <<server, worker, sync, up, count>>
      /\ \/ Len(down) < MaxDown /\ down' = Append(down, Snapshot)
         \/ down # <<>> /\ down' = [down EXCEPT ![Len(down)] = Snapshot]
  BY DEF Broadcast
<1>3. Snapshot \in Snapshots /\ Snapshot.base = server.base /\ Snapshot.state = server.state
  BY <1>1 DEF Snapshot, Snapshots, Servers
<1> HIDE DEF Snapshot
<1>4. /\ down' \in Seq(Snapshots) /\ Len(down') <= MaxDown
      /\ \A i \in DOMAIN down' : down'[i] = Snapshot \/ (i \in DOMAIN down /\ down'[i] = down[i])
  <2>1. CASE Len(down) < MaxDown /\ down' = Append(down, Snapshot)
    BY <1>1, <1>3, <2>1
  <2>2. CASE down # <<>> /\ down' = [down EXCEPT ![Len(down)] = Snapshot]
    BY <1>1, <1>3, <2>2
  <2> QED BY <1>2, <2>1, <2>2
<1>5. TypeOK'
  BY <1>2, <1>4 DEF CombatInv, TypeOK, Snapshots
<1>6. CountInv' /\ SoundInv' /\ DeadInv'
  BY <1>2, <1>3, <1>4 DEF CombatInv, CountInv, SoundInv, DeadInv
<1>7. BaseInv'
  <2>1. BaseInv
    BY DEF CombatInv
  <2>2. \A i \in DOMAIN down' : down'[i].base <= server.base
    BY <1>1, <1>3, <1>4, <2>1 DEF BaseInv
  <2>3. ASSUME sync.base < server.base, NEW i \in DOMAIN down', down'[i].base = server.base
        PROVE  down'[i].state = server.state
    <3>1. CASE down'[i] = Snapshot
      BY <1>3, <3>1
    <3>2. CASE i \in DOMAIN down /\ down'[i] = down[i]
      BY <2>1, <2>3, <3>2 DEF BaseInv
    <3> QED BY <1>4, <3>1, <3>2
  <2> QED BY <1>2, <2>1, <2>2, <2>3 DEF BaseInv
<1> QED BY <1>5, <1>6, <1>7 DEF CombatInv

LEMMA AcknowledgeKeeps ==
    ASSUME CombatInv, NEW m \in Snapshots, ~MovedBackwards(m), m.base = sync.base,
           Acknowledge(m), UNCHANGED <<server, up, count>>,
           down' \in Seq(Snapshots), Len(down') <= MaxDown,
           \A i \in DOMAIN down' : \E j \in DOMAIN down : down'[i] = down[j]
    PROVE  CombatInv'
<1> DEFINE pending == {p \in sync.pending : p.seq > m.ack}
           slices == {c \in sync.slices : c.seq > m.ack}
<1>1. /\ sync \in Syncs /\ m.state \in States /\ m.ack \in Nat /\ m.rev \in Nat
      /\ sync.next \in Nat /\ sync.acked \in Nat /\ IsFiniteSet(sync.slices)
      /\ \A p \in sync.pending : p.seq \in (sync.acked + 1)..sync.next
      /\ \A c \in sync.slices : c.seq \in (sync.acked + 1)..(sync.next + 1)
  <2>1. sync \in Syncs
    BY Typed DEF CombatInv
  <2> QED BY <2>1 DEF CombatInv, TypeOK, CountInv, Syncs, Snapshots
<1>2. /\ UNCHANGED worker /\ m.ack <= sync.next
      /\ sync' = [sync EXCEPT !.pending = pending, !.slices = slices,
                              !.known = m.state, !.acked = m.ack, !.rev = m.rev]
  BY <1>1 DEF Acknowledge, MovedBackwards, Syncs
<1>3. /\ sync' \in Syncs /\ sync'.base = sync.base /\ sync'.next = sync.next
      /\ sync'.acked = m.ack /\ sync'.pending = pending /\ sync'.slices = slices
  <2> DEFINE one == [sync EXCEPT !.pending = pending]
             two == [one EXCEPT !.slices = slices]
             three == [two EXCEPT !.known = m.state]
             four == [three EXCEPT !.acked = m.ack]
  <2>1. sync' = [four EXCEPT !.rev = m.rev]
    BY <1>1, <1>2 DEF Syncs
  <2>2. pending \subseteq Pending /\ slices \subseteq Slices
    BY <1>1 DEF Syncs
  <2> HIDE DEF pending, slices
  <2>3. /\ one \in Syncs /\ one.base = sync.base /\ one.next = sync.next /\ one.pending = pending
    BY <1>1, <2>2 DEF Syncs
  <2> HIDE DEF one
  <2>4. /\ two \in Syncs /\ two.base = sync.base /\ two.next = sync.next
        /\ two.pending = pending /\ two.slices = slices
    BY <2>2, <2>3 DEF Syncs
  <2> HIDE DEF two
  <2>5. /\ three \in Syncs /\ three.base = sync.base /\ three.next = sync.next
        /\ three.pending = pending /\ three.slices = slices
    BY <1>1, <2>4 DEF Syncs
  <2> HIDE DEF three
  <2>6. /\ four \in Syncs /\ four.base = sync.base /\ four.next = sync.next
        /\ four.pending = pending /\ four.slices = slices /\ four.acked = m.ack
    BY <1>1, <2>5 DEF Syncs
  <2> HIDE DEF four
  <2> QED BY <1>1, <2>1, <2>6 DEF Syncs
<1>4. /\ \A p \in pending : p.seq \in (m.ack + 1)..sync.next
      /\ \A c \in slices : c.seq \in (m.ack + 1)..(sync.next + 1)
  BY <1>1
<1>5. IsFiniteSet(slices)
  BY <1>1, FS_Subset
<1> HIDE DEF pending, slices
<1>6. TypeOK'
  BY <1>2, <1>3, <1>4 DEF CombatInv, TypeOK, Syncs, Pending, Slices, Snapshots
<1>7. CountInv'
  BY <1>2, <1>3, <1>5 DEF CountInv
<1>8. SoundInv' /\ BaseInv' /\ DeadInv'
  BY <1>2, <1>3 DEF CombatInv, SoundInv, BaseInv, DeadInv
<1> QED BY <1>6, <1>7, <1>8 DEF CombatInv

LEMMA RebaseKeeps ==
    ASSUME CombatInv, NEW m \in Snapshots, Sound(m.state), ~MovedBackwards(m), m.base # sync.base,
           m.base <= server.base,
           m.base = server.base /\ sync.base < server.base => m.state = server.state,
           Rebase(m), UNCHANGED <<server, up, count>>,
           down' \in Seq(Snapshots), Len(down') <= MaxDown,
           \A i \in DOMAIN down' : \E j \in DOMAIN down : down'[i] = down[j]
    PROVE  CombatInv'
<1> DEFINE kept == {c \in sync.slices : c.seq > m.ack}
           replayed == {[c EXCEPT !.seq = m.ack + 1] : c \in kept}
           state == Advanced(m.state, replayed)
           left == IF state = m.state THEN {} ELSE replayed
<1>1. /\ sync \in Syncs /\ worker \in Workers /\ m.state \in States
      /\ m.ack \in Nat /\ m.rev \in Nat /\ m.base \in Nat
      /\ sync.base \in Nat /\ sync.slices \subseteq Slices /\ IsFiniteSet(sync.slices)
  BY Typed DEF CombatInv, CountInv, Syncs, Snapshots
<1>2. m.base > sync.base
  BY <1>1 DEF MovedBackwards
<1>3. IsFiniteSet(replayed) /\ replayed \subseteq Slices /\ \A c \in replayed : c.seq = m.ack + 1
  <2>1. IsFiniteSet(kept)
    BY <1>1, FS_Subset
  <2> DEFINE move == [c \in kept |-> [c EXCEPT !.seq = m.ack + 1]]
  <2>2. IsFiniteSet(replayed)
    <3>1. /\ \A c \in kept : move[c] \in replayed
          /\ \A r \in replayed : \E c \in kept : move[c] = r
      OBVIOUS
    <3>2. move \in [kept -> replayed]
      OBVIOUS
    <3> HIDE DEF kept, replayed, move
    <3>3. move \in Surjection(kept, replayed)
      BY <3>1, <3>2 DEF Surjection
    <3> QED BY <2>1, <3>3, FS_Surjection
  <2>3. \A c \in kept : [c EXCEPT !.seq = m.ack + 1] \in Slices /\ [c EXCEPT !.seq = m.ack + 1].seq = m.ack + 1
    BY SMTT(30), <1>1 DEF Slices
  <2> QED BY <2>2, <2>3
<1>4. /\ worker' = [worker EXCEPT !.state = state]
      /\ sync' = [published |-> m.state, known |-> m.state, pending |-> {},
                  slices |-> left, next |-> m.ack, acked |-> m.ack,
                  rev |-> m.rev, base |-> m.base]
  BY DEF Rebase, RebasedOn
<1> HIDE DEF replayed
<1>5. /\ state \in States /\ Sound(state)
      /\ state.alive => m.state.alive
  BY <1>1, <1>3, AdvancedFacts
<1> HIDE DEF state
<1>6. left \subseteq Slices /\ IsFiniteSet(left) /\ \A c \in left : c.seq = m.ack + 1
  BY <1>3, FS_EmptySet
<1> HIDE DEF left
<1>7. worker' \in Workers /\ worker'.state = state
  BY <1>1, <1>4, <1>5 DEF Workers
<1>8. /\ sync' \in Syncs /\ sync'.pending = {} /\ sync'.slices = left
      /\ sync'.next = m.ack /\ sync'.acked = m.ack /\ sync'.base = m.base
  BY <1>1, <1>4, <1>6 DEF Syncs
<1>9. TypeOK'
  <2>1. \A c \in left : c.seq \in (m.ack + 1)..(m.ack + 1)
    BY <1>1, <1>6
  <2> QED BY <1>7, <1>8, <2>1
          DEF CombatInv, TypeOK, Workers, Syncs, Pending, Slices, Snapshots
<1>10. CountInv'
  BY <1>1, <1>6, <1>8 DEF CountInv
<1>11. SoundInv'
  BY <1>5, <1>7 DEF CombatInv, SoundInv
<1>12. \A i \in DOMAIN up : up[i].base \in Nat /\ up[i].base < m.base
  <2>1. \A i \in DOMAIN up : up[i].base \in Nat /\ up[i].base <= sync.base
    BY Typed DEF CombatInv, BaseInv, Rows
  <2> QED BY <1>1, <1>2, <2>1
<1>13. BaseInv'
  <2>1. \A i \in DOMAIN up : up[i].base <= m.base
    BY <1>1, <1>12
  <2>2. m.base < server.base => sync.base < server.base
    BY <1>1, <1>2, Typed DEF CombatInv, Servers
  <2> QED BY <1>8, <2>1, <2>2 DEF CombatInv, BaseInv
<1>14. DeadInv'
  <2>1. m.base = server.base /\ ~server.state.alive => ~state.alive
    BY <1>1, <1>2, <1>5
  <2> QED BY <1>1, <1>7, <1>8, <1>12, <2>1 DEF CombatInv, DeadInv
<1> QED BY <1>9, <1>10, <1>11, <1>13, <1>14 DEF CombatInv

LEMMA DeliverKeeps ==
    ASSUME CombatInv, Deliver
    PROVE  CombatInv'
<1> DEFINE m == Head(down)
<1>1. /\ down \in Seq(Snapshots) /\ Len(down) \in Nat /\ Len(down) <= MaxDown /\ MaxDown \in Nat
      /\ \A i \in DOMAIN down : down[i] \in Snapshots
  BY Typed, CombatAssumption DEF CombatInv, TypeOK
<1>2. down # <<>> /\ down' = Tail(down) /\ UNCHANGED <<server, up, count>>
  BY DEF Deliver
<1>3. /\ 1 \in DOMAIN down /\ m = down[1] /\ down' \in Seq(Snapshots) /\ Len(down') <= MaxDown
      /\ \A i \in DOMAIN down' : i + 1 \in DOMAIN down /\ down'[i] = down[i + 1]
  BY <1>1, <1>2
<1>4. \A i \in DOMAIN down' : \E j \in DOMAIN down : down'[i] = down[j]
  BY <1>3
<1>5. /\ m \in Snapshots /\ Sound(m.state) /\ m.base <= server.base
      /\ m.base = server.base /\ sync.base < server.base => m.state = server.state
  BY <1>1, <1>3 DEF CombatInv, SoundInv, BaseInv
<1> HIDE DEF m
<1>6. CASE UNCHANGED <<worker, sync>>
  <2>1. TypeOK'
    BY <1>2, <1>3, <1>6 DEF CombatInv, TypeOK, Snapshots
  <2>2. CountInv' /\ SoundInv' /\ BaseInv' /\ DeadInv'
    BY <1>2, <1>4, <1>6 DEF CombatInv, CountInv, SoundInv, BaseInv, DeadInv
  <2> QED BY <2>1, <2>2 DEF CombatInv
<1>7. CASE ~Refused(m) /\ m.base = sync.base /\ Acknowledge(m)
  BY <1>2, <1>3, <1>4, <1>5, <1>7, AcknowledgeKeeps DEF Refused
<1>8. CASE ~Refused(m) /\ m.base # sync.base /\ Rebase(m)
  BY <1>2, <1>3, <1>4, <1>5, <1>8, RebaseKeeps DEF Refused
<1> QED BY <1>6, <1>7, <1>8 DEF Deliver, m

----------------------------------------------------------------------------
(* The theorems. *)

LEMMA CombatInit == Init => CombatInv
<1> SUFFICES ASSUME Init PROVE CombatInv
  OBVIOUS
<1>1. Fresh \in States /\ Sound(Fresh)
  BY CombatAssumption DEF Fresh, States, Sound
<1> HIDE DEF Fresh
<1>2. 0 \in 0..MaxKits /\ 0 <= MaxUp /\ 0 <= MaxDown
  BY CombatAssumption
<1>3. /\ server = [state |-> Fresh, used |-> 0, rev |-> 0, base |-> 0, ack |-> 0]
      /\ worker = [state |-> Fresh, used |-> 0]
      /\ sync = [published |-> Fresh, known |-> Fresh, pending |-> {}, slices |-> {},
                 next |-> 0, acked |-> 0, rev |-> 0, base |-> 0]
      /\ up = <<>> /\ down = <<>>
      /\ count = [w \in Counted |-> 0]
  BY DEF Init
<1>4. TypeOK
  BY <1>1, <1>2, <1>3 DEF TypeOK
<1>5. CountInv
  BY <1>3, FS_EmptySet DEF CountInv
<1>6. SoundInv /\ BaseInv /\ DeadInv
  BY <1>1, <1>3 DEF SoundInv, BaseInv, DeadInv
<1> QED BY <1>4, <1>5, <1>6 DEF CombatInv

LEMMA CombatStep ==
    ASSUME CombatInv, [Next]_vars
    PROVE  /\ CombatInv' /\ server'.state.health <= server.state.health
           /\ server'.state.alive => server.state.alive
<1>1. server.state.health \in Nat
  BY Typed, CombatAssumption DEF CombatInv, Servers, States
<1>2. CASE UNCHANGED vars
  <2>1. TypeOK'
    BY <1>2 DEF CombatInv, TypeOK, vars
  <2> QED BY <1>1, <1>2, <2>1 DEF CombatInv, CountInv, SoundInv, BaseInv, DeadInv, vars
<1>3. ASSUME NEW kind \in HitKinds, Hit(kind)
      PROVE  /\ CombatInv' /\ server'.state.health <= server.state.health
             /\ server'.state.alive => server.state.alive
  BY <1>3, HitKeeps DEF Hit
<1>4. CASE Stun \/ ExpireStun
  BY <1>1, <1>4, StunKeeps
<1>5. ASSUME NEW kit \in BOOLEAN, Slice(kit) PROVE CombatInv' /\ UNCHANGED server
  BY <1>5, SliceKeeps DEF Slice
<1>6. CASE Land
  BY <1>1, <1>6, LandKeeps DEF Land
<1>7. ASSUME NEW encoded \in BOOLEAN, Publish(encoded) PROVE CombatInv' /\ UNCHANGED server
  BY <1>7, PublishKeeps DEF Publish
<1>8. CASE Receive
  BY <1>8, ReceiveKeeps
<1>9. CASE Broadcast
  BY <1>1, <1>9, BroadcastKeeps DEF Broadcast
<1>10. CASE Deliver
  BY <1>1, <1>10, DeliverKeeps DEF Deliver
<1> QED BY <1>1, <1>2, <1>3, <1>4, <1>5, <1>6, <1>7, <1>8, <1>9, <1>10 DEF Next

\* The variables of both sides keep their types, and the numbers of the
\* pending publications lie between the acknowledged and the last one.
THEOREM CombatTypeOK == Spec => []TypeOK
<1>1. Init => CombatInv
  BY CombatInit
<1>2. CombatInv /\ [Next]_vars => CombatInv'
  BY CombatStep
<1>3. CombatInv => TypeOK
  BY DEF CombatInv
<1> QED BY <1>1, <1>2, <1>3, PTL DEF Spec

\* No publication heals or revives a Bot, whatever base it was made on and
\* however late it arrives (_reconcile_modern_bot_combat).
THEOREM CombatHitsStand == Spec => HitsStand
<1>1. Init => CombatInv
  BY CombatInit
<1>2. CombatInv /\ [Next]_vars =>
        CombatInv' /\ [/\ server'.state.health <= server.state.health
                       /\ server'.state.alive => server.state.alive]_vars
  BY CombatStep
<1> QED BY <1>1, <1>2, PTL DEF Spec, HitsStand

----------------------------------------------------------------------------
(* The lineage: what the two sides have counted never parts. *)

\* Of two states of the server's numbers, b may follow a.
Ordered(a, b) ==
    /\ a.rev <= b.rev /\ a.base <= b.base /\ a.ack <= b.ack
    /\ a.base # b.base \/ a.ack # b.ack => a.rev < b.rev

\* What the worker has taken of them.
Position == [rev |-> sync.rev, base |-> sync.base, ack |-> sync.acked]

OrderInv ==
    /\ Ordered(Position, server)
    /\ \A i \in DOMAIN down :
          /\ Ordered(Position, down[i]) /\ Ordered(down[i], server)
          /\ down[i].base <= down[i].rev
    /\ \A i, j \in DOMAIN down : i < j => Ordered(down[i], down[j])

\* The publication numbered n is still pending, and in the given state.
Pends(n) == \E p \in sync.pending : p.seq = n
PendsAs(n, s) == [seq |-> n, state |-> s] \in sync.pending

\* Whatever the server has accepted and the worker not seen acknowledged is
\* pending, in the state the server has it in as long as the base stands; once
\* the server has opened another base it accepts nothing more.
AckInv ==
    /\ sync.next > sync.acked => PendsAs(sync.next, sync.published)
    /\ server.ack > sync.acked =>
          /\ Pends(server.ack)
          /\ server.base = sync.base => PendsAs(server.ack, server.state)
    /\ \A i \in DOMAIN up :
          up[i].base = sync.base /\ up[i].seq > sync.acked => PendsAs(up[i].seq, up[i].state)
    /\ \A i \in DOMAIN down :
          /\ down[i].base > sync.base => down[i].ack = server.ack
          /\ down[i].ack > sync.acked =>
                /\ Pends(down[i].ack)
                /\ down[i].base = sync.base => PendsAs(down[i].ack, down[i].state)

\* What of one base follows x: no more health, and the stun of x, or none
\* after one more use of the medkit.
Follows(x, y) ==
    /\ y.state.health <= x.state.health
    /\ \/ y.state.stun = x.state.stun /\ y.used = x.used
       \/ x.state.stun # 0 /\ y.state.stun = 0 /\ y.used = x.used + 1

\* The publications of one base follow each other and the worker follows them;
\* once one of them is accepted, they follow the server, which will refuse
\* no stun of theirs.
RowInv ==
    /\ \A i, j \in DOMAIN up :
          i < j => /\ up[i].base <= up[j].base
                   /\ up[i].base = up[j].base => Follows(up[i], up[j])
    /\ \A i \in DOMAIN up : up[i].base = sync.base => Follows(up[i], worker)
    /\ server.base = sync.base =>
          /\ worker.state.health <= server.state.health
          /\ \A i \in DOMAIN up :
                up[i].base = server.base => up[i].state.health <= server.state.health
          /\ server.ack > sync.acked =>
                /\ Follows(server, worker)
                /\ \A i \in DOMAIN up : up[i].base = server.base /\ Follows(server, up[i])

LineInv == OrderInv /\ AckInv /\ RowInv

\* The types of the numbers.
LEMMA LineTypes ==
    ASSUME CombatInv
    PROVE  /\ server \in Servers /\ worker \in Workers /\ sync \in Syncs
           /\ server.rev \in Nat /\ server.base \in Nat /\ server.ack \in Nat
           /\ sync.rev \in Nat /\ sync.base \in Nat /\ sync.acked \in Nat /\ sync.next \in Nat
           /\ server.used \in Nat /\ worker.used \in Nat
           /\ server.state \in States /\ worker.state \in States
           /\ server.state.health \in Nat /\ worker.state.health \in Nat
           /\ \A i \in DOMAIN up :
                 /\ up[i] \in Rows /\ up[i].state \in States /\ up[i].state.health \in Nat
                 /\ up[i].base \in Nat /\ up[i].seq \in Nat /\ up[i].used \in Nat
           /\ \A i \in DOMAIN down :
                 /\ down[i] \in Snapshots /\ down[i].state \in States
                 /\ down[i].rev \in Nat /\ down[i].base \in Nat /\ down[i].ack \in Nat
<1>1. /\ server \in Servers /\ worker \in Workers /\ sync \in Syncs
      /\ \A i \in DOMAIN up : up[i] \in Rows
      /\ \A i \in DOMAIN down : down[i] \in Snapshots
  BY Typed DEF CombatInv
<1>2. \A s \in States : s.health \in Nat
  BY CombatAssumption DEF States
<1>3. \A n \in 0..MaxKits : n \in Nat
  BY CombatAssumption
<1>4. /\ server.rev \in Nat /\ server.base \in Nat /\ server.ack \in Nat
      /\ server.used \in Nat /\ server.state \in States /\ server.state.health \in Nat
  BY <1>1, <1>2, <1>3 DEF Servers
<1>5. worker.used \in Nat /\ worker.state \in States /\ worker.state.health \in Nat
  BY <1>1, <1>2, <1>3 DEF Workers
<1>6. sync.rev \in Nat /\ sync.base \in Nat /\ sync.acked \in Nat /\ sync.next \in Nat
  BY <1>1 DEF Syncs
<1>7. \A i \in DOMAIN up :
         /\ up[i].state \in States /\ up[i].state.health \in Nat
         /\ up[i].base \in Nat /\ up[i].seq \in Nat /\ up[i].used \in Nat
  BY <1>1, <1>2, <1>3 DEF Rows
<1>8. \A i \in DOMAIN down :
         /\ down[i].state \in States
         /\ down[i].rev \in Nat /\ down[i].base \in Nat /\ down[i].ack \in Nat
  BY <1>1 DEF Snapshots
<1> QED BY <1>1, <1>4, <1>5, <1>6, <1>7, <1>8

\* A server that keeps its state, or opens a base and keeps its prefix of
\* publications, leaves the lineage alone.
LEMMA ExternalLine ==
    ASSUME CombatInv, LineInv, UNCHANGED <<worker, sync, up, down>>, server' \in Servers,
           \/ server' = server
           \/ server'.ack = server.ack /\ server'.rev > server.rev /\ server'.base > server.rev
    PROVE  LineInv'
<1>1. CASE server' = server
  <2>1. UNCHANGED <<server, worker, sync, up, down>>
    BY <1>1
  <2> QED BY <2>1 DEF LineInv, OrderInv, AckInv, RowInv, Ordered, Position, Pends, PendsAs, Follows
<1>2. CASE server'.ack = server.ack /\ server'.rev > server.rev /\ server'.base > server.rev
  <2>1. server'.rev \in Nat /\ server'.base \in Nat
    BY DEF Servers
  <2>2. server'.base > server.base /\ server'.base > sync.base
    BY <1>2, <2>1, LineTypes DEF CombatInv, BaseInv
  <2>3. OrderInv'
    BY <1>2, <2>1, <2>2, LineTypes DEF LineInv, OrderInv, Ordered, Position
  <2>4. AckInv'
    BY <1>2, <2>1, <2>2, LineTypes DEF LineInv, AckInv, Pends, PendsAs
  <2>5. RowInv'
    BY <2>1, <2>2, LineTypes DEF LineInv, RowInv, Follows
  <2> QED BY <2>3, <2>4, <2>5 DEF LineInv
<1> QED BY <1>1, <1>2

\* A committed change keeps the prefix of publications.
LEMMA CommittedAck ==
    ASSUME server \in Servers, NEW s \in States, NEW restart \in BOOLEAN
    PROVE  Committed(s, restart).ack = server.ack
<1> DEFINE after == IF server.state.fire /\ s.fire THEN s ELSE [s EXCEPT !.elapsed = 0]
<1>1. after \in States
  BY CombatAssumption DEF States
<1> HIDE DEF after
<1>2. NewBase(after).ack = server.ack
  BY DEF NewBase, Servers
<1>3. Committed(s, restart) = IF after = server.state /\ ~restart THEN server ELSE NewBase(after)
  BY DEF Committed, after
<1> QED BY <1>2, <1>3

LEMMA HitLine ==
    ASSUME CombatInv, LineInv, NEW kind \in HitKinds, Hit(kind), CombatInv'
    PROVE  LineInv'
<1> DEFINE hit == Committed(Struck(kind), kind = "again")
<1>1. server \in Servers /\ Sound(server.state) /\ server' \in Servers
      /\ server.rev \in Nat
  BY LineTypes, Typed DEF CombatInv, SoundInv, TypeOK, Servers
<1>2. Struck(kind) \in States
  BY <1>1, StruckFacts
<1>3. /\ hit \in Servers /\ hit.ack = server.ack
      /\ hit = server \/ (hit.base = server.rev + 1 /\ hit.rev = server.rev + 1)
  BY <1>1, <1>2, CommittedFacts, CommittedAck
<1>4. /\ server' = (IF hit.state.alive \/ hit.state.stun = 0 THEN hit
                    ELSE [hit EXCEPT !.state.stun = 0, !.rev = @ + 1, !.base = hit.rev + 1])
      /\ UNCHANGED <<worker, sync, up, down>>
  BY DEF Hit
<1> HIDE DEF hit
<1>5. CASE hit.state.alive \/ hit.state.stun = 0
  <2>1. server' = hit
    BY <1>4, <1>5
  <2>2. server' = server \/ (server'.ack = server.ack /\ server'.rev > server.rev /\ server'.base > server.rev)
    BY <1>1, <1>3, <2>1
  <2> QED BY <1>1, <1>4, <2>2, ExternalLine
<1>6. CASE ~(hit.state.alive \/ hit.state.stun = 0)
  <2>1. server' = [hit EXCEPT !.state.stun = 0, !.rev = hit.rev + 1, !.base = hit.rev + 1]
    BY <1>3, <1>4, <1>6 DEF Servers
  <2>2. server'.ack = hit.ack /\ server'.rev = hit.rev + 1 /\ server'.base = hit.rev + 1
    BY <1>3, <2>1 DEF Servers
  <2>3. hit.rev + 1 > server.rev
    BY <1>1, <1>3 DEF Servers
  <2> QED BY <1>1, <1>3, <1>4, <2>2, <2>3, ExternalLine
<1> QED BY <1>5, <1>6

LEMMA StunLine ==
    ASSUME CombatInv, LineInv, Stun \/ ExpireStun, CombatInv'
    PROVE  LineInv'
<1>1. server \in Servers /\ server' \in Servers /\ server.state \in States /\ server.rev \in Nat
      /\ count \in [Counted -> Nat]
  BY LineTypes, Typed DEF CombatInv, TypeOK, Servers
<1>2. PICK n \in 0..MaxStuns :
         server' = Committed([server.state EXCEPT !.stun = n], FALSE)
  <2>1. CASE Stun
    <3>1. count["stuns"] \in Nat /\ count["stuns"] < MaxStuns /\ MaxStuns \in Nat
      BY <1>1, <2>1, CombatAssumption DEF Stun, Happens, Counted
    <3>2. count["stuns"] + 1 \in 0..MaxStuns
      BY <3>1
    <3>3. server' = Committed([server.state EXCEPT !.stun = count["stuns"] + 1], FALSE)
      BY <2>1 DEF Stun
    <3> QED BY <3>2, <3>3
  <2>2. CASE ExpireStun
    <3>1. 0 \in 0..MaxStuns
      BY CombatAssumption
    <3> QED BY <2>2, <3>1 DEF ExpireStun
  <2> QED BY <2>1, <2>2
<1> DEFINE s == [server.state EXCEPT !.stun = n]
<1>3. s \in States
  BY <1>1 DEF States
<1> HIDE DEF s
<1>4. server' = Committed(s, FALSE)
  BY <1>2 DEF s
<1>5. /\ server'.ack = server.ack
      /\ server' = server \/ (server'.base = server.rev + 1 /\ server'.rev = server.rev + 1)
  BY <1>1, <1>3, <1>4, CommittedFacts, CommittedAck
<1>6. server' = server \/ (server'.rev > server.rev /\ server'.base > server.rev)
  BY <1>1, <1>5
<1>7. UNCHANGED <<worker, sync, up, down>>
  BY DEF Stun, ExpireStun
<1> QED BY <1>1, <1>5, <1>6, <1>7, ExternalLine

\* The worker loses health, and its stun only to one more use of the medkit.
LEMMA WorkerLine ==
    ASSUME CombatInv, LineInv, UNCHANGED <<server, up, down>>, worker' \in Workers,
           sync'.base = sync.base, sync'.acked = sync.acked, sync'.rev = sync.rev,
           sync'.next = sync.next, sync'.pending = sync.pending,
           sync'.published = sync.published, Follows(worker, worker')
    PROVE  LineInv'
<1>1. worker'.state.health \in Nat /\ worker'.used \in Nat
  BY CombatAssumption DEF Workers, States
<1>2. OrderInv'
  BY DEF LineInv, OrderInv, Ordered, Position
<1>3. AckInv'
  BY DEF LineInv, AckInv, Pends, PendsAs
<1>4. ASSUME NEW x, x.state.health \in Nat, Follows(x, worker)
      PROVE  Follows(x, worker')
  BY <1>1, <1>4, LineTypes DEF Follows
<1>5. RowInv'
  <2>1. \A i \in DOMAIN up : up[i].base = sync.base => Follows(up[i], worker')
    BY <1>4, LineTypes DEF LineInv, RowInv
  <2>2. server.base = sync.base =>
          /\ worker'.state.health <= server.state.health
          /\ server.ack > sync.acked => Follows(server, worker')
    BY <1>1, <1>4, LineTypes DEF LineInv, RowInv, Follows
  <2> QED BY <2>1, <2>2 DEF LineInv, RowInv, Follows
<1> QED BY <1>2, <1>3, <1>5 DEF LineInv

\* No loss of health touches the stun.
LEMMA DamagedStun ==
    ASSUME NEW s \in States, NEW n \in Nat
    PROVE  Damaged(s, n).stun = s.stun
<1> DEFINE left == [s EXCEPT !.health = Limited(@ - n)]
<1>1. left \in States /\ left.stun = s.stun
  BY CombatAssumption DEF States, Limited
<1> HIDE DEF left
<1>2. Wreck(left).stun = left.stun
  BY <1>1 DEF Wreck, States
<1>3. Damaged(s, n) = IF left.health > 0 THEN left ELSE Wreck(left)
  BY DEF Damaged, left
<1> QED BY <1>1, <1>2, <1>3

\* A slice of time clears the stun it was treated against, and no other.
LEMMA AdvancedStun ==
    ASSUME NEW s \in States, NEW slices, IsFiniteSet(slices)
    PROVE  Advanced(s, slices).stun =
              IF \E c \in slices : c.clears # 0 /\ c.clears = s.stun THEN 0 ELSE s.stun
<1> DEFINE clears == \E c \in slices : c.clears # 0 /\ c.clears = s.stun
           treated == IF clears THEN [s EXCEPT !.stun = 0] ELSE s
           burns == Cardinality({c \in slices : c.burns})
           lasts == FireDuration - s.elapsed
           burnt == [treated EXCEPT !.elapsed = Least(@ + burns, FireDuration)]
           burning == [treated EXCEPT !.elapsed = @ + burns]
           out == [treated EXCEPT !.fire = FALSE, !.elapsed = 0]
<1>1. burns \in Nat
  <2>1. IsFiniteSet({c \in slices : c.burns})
    BY FS_Subset
  <2> QED BY <2>1, FS_CardinalityType
<1>2. /\ treated \in States /\ treated.stun = (IF clears THEN 0 ELSE s.stun)
      /\ treated.elapsed = s.elapsed
  BY CombatAssumption DEF States
<1>3. lasts \in Nat
  BY CombatAssumption DEF States
<1>4. CASE ~s.fire \/ burns = 0
  <2>1. Advanced(s, slices) = treated
    BY <1>4 DEF Advanced
  <2> QED BY <1>2, <2>1
<1>5. CASE ~(~s.fire \/ burns = 0) /\ s.health = 0
  <2>1. Advanced(s, slices) = burnt
    BY <1>5 DEF Advanced
  <2> HIDE DEF clears, treated, burns
  <2>2. burnt.stun = treated.stun
    BY <1>2 DEF States
  <2> HIDE DEF burnt
  <2> QED BY <1>2, <2>1, <2>2 DEF clears
<1>6. CASE ~(~s.fire \/ burns = 0) /\ s.health # 0 /\ burns < lasts
  <2>1. Advanced(s, slices) = Damaged(burning, burns)
    BY <1>6 DEF Advanced
  <2> HIDE DEF clears, treated, burns
  <2>2. burning \in States /\ burning.stun = treated.stun
    BY <1>1, <1>2, <1>6, CombatAssumption DEF States
  <2> HIDE DEF burning
  <2>3. Damaged(burning, burns).stun = treated.stun
    BY <1>1, <2>2, DamagedStun
  <2> QED BY <1>2, <2>1, <2>3 DEF clears
<1>7. CASE ~(~s.fire \/ burns = 0) /\ s.health # 0 /\ ~(burns < lasts)
  <2>1. Advanced(s, slices) = Damaged(out, lasts)
    BY <1>7 DEF Advanced
  <2> HIDE DEF clears, treated, lasts
  <2> DEFINE doused == [treated EXCEPT !.fire = FALSE]
  <2>2. doused \in States /\ doused.stun = treated.stun
    BY <1>2 DEF States
  <2>3. out = [doused EXCEPT !.elapsed = 0]
    OBVIOUS
  <2> HIDE DEF doused, out
  <2>4. 0 \in 0..FireDuration
    BY CombatAssumption
  <2>5. out \in States /\ out.stun = treated.stun
    BY <2>2, <2>3, <2>4 DEF States
  <2>6. Damaged(out, lasts).stun = treated.stun
    BY <1>3, <2>5, DamagedStun
  <2> QED BY <1>2, <2>1, <2>6 DEF clears
<1> QED BY <1>4, <1>5, <1>6, <1>7

LEMMA SliceLine ==
    ASSUME CombatInv, LineInv, NEW kit \in BOOLEAN, Slice(kit), CombatInv'
    PROVE  LineInv'
<1> DEFINE slice == [at |-> count.burns + worker.used, seq |-> sync.next + 1,
                     burns |-> worker.state.fire,
                     clears |-> IF kit THEN worker.state.stun ELSE 0]
           state == Advanced(worker.state, {slice})
<1>1. /\ worker \in Workers /\ worker.state \in States /\ worker.used \in Nat
      /\ Sound(worker.state) /\ sync \in Syncs /\ worker' \in Workers
  BY LineTypes, Typed DEF CombatInv, SoundInv, TypeOK, Workers
<1>2. /\ worker' = [state |-> state, used |-> worker.used + IF kit THEN 1 ELSE 0]
      /\ sync' = [sync EXCEPT !.slices = sync.slices \cup {slice}]
      /\ UNCHANGED <<server, up, down>>
      /\ kit => worker.state.stun # 0
  BY <1>1 DEF Slice, Syncs
<1>3. slice.clears = (IF kit THEN worker.state.stun ELSE 0)
  OBVIOUS
<1> HIDE DEF slice
<1>4. IsFiniteSet({slice})
  BY FS_Singleton
<1>5. state.stun = (IF kit THEN 0 ELSE worker.state.stun)
  <2>1. state.stun = IF \E c \in {slice} : c.clears # 0 /\ c.clears = worker.state.stun
                     THEN 0 ELSE worker.state.stun
    BY <1>1, <1>4, AdvancedStun
  <2> HIDE DEF state
  <2> QED BY <1>2, <1>3, <2>1
<1>6. state.health <= worker.state.health
  BY <1>1, <1>4, AdvancedFacts
<1> HIDE DEF state
<1>7. Follows(worker, worker')
  BY <1>1, <1>2, <1>5, <1>6 DEF Follows
<1>8. /\ sync'.base = sync.base /\ sync'.acked = sync.acked /\ sync'.rev = sync.rev
      /\ sync'.next = sync.next /\ sync'.pending = sync.pending
      /\ sync'.published = sync.published
  BY <1>1, <1>2 DEF Syncs
<1> QED BY <1>1, <1>2, <1>7, <1>8, WorkerLine

LEMMA LandLine ==
    ASSUME CombatInv, LineInv, Land, CombatInv'
    PROVE  LineInv'
<1>1. worker \in Workers /\ worker.state \in States /\ worker' \in Workers
  BY LineTypes, Typed DEF CombatInv, TypeOK, Workers
<1>2. /\ UNCHANGED <<server, sync, up, down>>
      /\ worker' = [worker EXCEPT !.state = Damaged(worker.state, 1)]
  BY <1>1 DEF Land, Workers
<1>3. /\ Damaged(worker.state, 1).health <= worker.state.health
      /\ Damaged(worker.state, 1).stun = worker.state.stun
  BY <1>1, DamagedFacts, DamagedStun
<1>4. worker'.state = Damaged(worker.state, 1) /\ worker'.used = worker.used
  BY <1>1, <1>2 DEF Workers
<1>5. Follows(worker, worker')
  BY <1>3, <1>4 DEF Follows
<1> QED BY <1>1, <1>2, <1>5, WorkerLine

LEMMA PublishLine ==
    ASSUME CombatInv, LineInv, NEW encoded \in BOOLEAN, Publish(encoded), CombatInv'
    PROVE  LineInv'
<1>1. /\ worker \in Workers /\ sync \in Syncs /\ up \in Seq(Rows) /\ Len(up) \in Nat
      /\ sync' \in Syncs /\ worker.state \in States
      /\ sync.next \in Nat /\ sync.acked \in Nat /\ sync.acked <= sync.next
  BY LineTypes, Typed DEF CombatInv, CountInv, TypeOK, Syncs, Pending, Slices
<1>2. /\ sync' = Marked /\ UNCHANGED <<server, worker, down>>
      /\ up' = Append(up, Row) \/ up' = up
  BY DEF Publish
<1>3. /\ Marked.base = sync.base /\ Marked.acked = sync.acked /\ Marked.rev = sync.rev
      /\ Marked.published = worker.state /\ sync.pending \subseteq Marked.pending
      /\ Marked.next \in Nat
      /\ Marked.next > sync.acked =>
            [seq |-> Marked.next, state |-> worker.state] \in Marked.pending
  <2>1. CASE worker.state = sync.published
    BY <1>1, <2>1 DEF Marked, LineInv, AckInv, PendsAs
  <2>2. CASE worker.state # sync.published
    <3>1. Marked = [sync EXCEPT !.next = sync.next + 1,
                                !.pending = sync.pending \cup
                                   {[seq |-> sync.next + 1, state |-> worker.state]},
                                !.published = worker.state]
      BY <1>1, <2>2 DEF Marked, Syncs
    <3> QED BY <1>1, <3>1 DEF Syncs
  <2> QED BY <2>1, <2>2
<1>4. /\ Row.base = sync.base /\ Row.state = worker.state /\ Row.used = worker.used
      /\ Row.seq = Marked.next
  BY DEF Row
<1> HIDE DEF Row, Marked
<1>5. \A i \in DOMAIN up' :
         \/ i \in DOMAIN up /\ up'[i] = up[i]
         \/ up'[i] = Row /\ \A j \in DOMAIN up' : j # i => j \in DOMAIN up /\ up'[j] = up[j] /\ j < i
  <2>1. CASE up' = Append(up, Row)
    BY <1>1, <2>1
  <2>2. CASE up' = up
    BY <2>2
  <2> QED BY <1>2, <2>1, <2>2
<1>6. OrderInv'
  BY <1>2, <1>3 DEF LineInv, OrderInv, Ordered, Position
<1>7. AckInv'
  <2>1. PendsAs(sync.next, sync.published)' \/ ~(sync'.next > sync'.acked)
    BY <1>2, <1>3 DEF PendsAs
  <2>2. \A n : Pends(n) => Pends(n)'
    BY <1>2, <1>3 DEF Pends
  <2>3. \A n, s : PendsAs(n, s) => PendsAs(n, s)'
    BY <1>2, <1>3 DEF PendsAs
  <2>4. ASSUME NEW i \in DOMAIN up', up'[i].base = sync'.base, up'[i].seq > sync'.acked
        PROVE  [seq |-> up'[i].seq, state |-> up'[i].state] \in sync'.pending
    <3>1. CASE i \in DOMAIN up /\ up'[i] = up[i]
      BY <1>2, <1>3, <2>4, <3>1 DEF LineInv, AckInv, PendsAs
    <3>2. CASE up'[i] = Row
      BY <1>2, <1>3, <1>4, <2>4, <3>2
    <3> QED BY <1>5, <3>1, <3>2
  <2>5. server.ack > sync.acked =>
          /\ Pends(server.ack)'
          /\ server.base = sync.base => PendsAs(server.ack, server.state)'
    BY <1>2, <1>3 DEF LineInv, AckInv, Pends, PendsAs
  <2>6. \A i \in DOMAIN down :
          /\ down[i].base > sync.base => down[i].ack = server.ack
          /\ down[i].ack > sync.acked =>
                /\ \E p \in sync'.pending : p.seq = down[i].ack
                /\ down[i].base = sync.base =>
                      [seq |-> down[i].ack, state |-> down[i].state] \in sync'.pending
    BY <1>2, <1>3 DEF LineInv, AckInv, Pends, PendsAs
  <2> QED BY <1>2, <1>3, <2>1, <2>4, <2>5, <2>6 DEF AckInv, Pends, PendsAs
<1>8. RowInv'
  <2>1. /\ \A i \in DOMAIN up : up[i].base \in Nat /\ up[i].base <= sync.base
        /\ server.base \in Nat /\ sync.base \in Nat
    BY LineTypes DEF CombatInv, BaseInv
  <2>2. ASSUME NEW x, Follows(x, worker) PROVE Follows(x, Row)
    BY <1>4, <2>2 DEF Follows
  <2>3. Follows(Row, worker)
    BY <1>1, <1>4, LineTypes DEF Follows
  <2>4. ASSUME NEW i \in DOMAIN up', NEW j \in DOMAIN up', i < j
        PROVE  /\ up'[i].base <= up'[j].base
               /\ up'[i].base = up'[j].base => Follows(up'[i], up'[j])
    <3>1. CASE i \in DOMAIN up /\ up'[i] = up[i] /\ j \in DOMAIN up /\ up'[j] = up[j]
      BY <2>4, <3>1 DEF LineInv, RowInv
    <3>2. CASE i \in DOMAIN up /\ up'[i] = up[i] /\ up'[j] = Row
      BY <1>4, <2>1, <2>2, <3>2 DEF LineInv, RowInv
    <3>3. i \in Nat /\ j \in Nat
      BY <1>1, <1>2
    <3>4. up'[i] # Row \/ (i \in DOMAIN up /\ up'[i] = up[i])
      BY <1>5, <2>4, <3>3
    <3> QED BY <1>5, <3>1, <3>2, <3>4
  <2>5. ASSUME NEW i \in DOMAIN up', up'[i].base = sync.base
        PROVE  Follows(up'[i], worker)
    BY <1>5, <2>3, <2>5 DEF LineInv, RowInv
  <2>6. ASSUME server.base = sync.base
        PROVE  /\ \A i \in DOMAIN up' :
                     up'[i].base = server.base => up'[i].state.health <= server.state.health
               /\ server.ack > sync.acked =>
                     \A i \in DOMAIN up' : up'[i].base = server.base /\ Follows(server, up'[i])
    BY <1>4, <1>5, <2>2, <2>6 DEF LineInv, RowInv
  <2> QED BY <1>2, <1>3, <2>4, <2>5, <2>6 DEF LineInv, RowInv, Follows
<1> QED BY <1>6, <1>7, <1>8 DEF LineInv

\* A publication that shows no more health than the server has is merged as
\* it is.
LEMMA MergedShape ==
    ASSUME server \in Servers, NEW row \in Rows, Sound(row.state)
    PROVE  /\ Merged(row).stun = row.state.stun
           /\ Merged(row).health = Least(row.state.health, server.state.health)
           /\ row.state.health <= server.state.health => Merged(row) = row.state
<1> DEFINE health == Least(row.state.health, server.state.health)
           lower == [row.state EXCEPT !.health = health]
<1>1. /\ server.state \in States /\ row.state \in States
      /\ server.state.health \in Nat /\ row.state.health \in Nat
  BY CombatAssumption DEF Servers, Rows, States
<1>2. health \in 0..Full
  BY <1>1, CombatAssumption DEF States, Least
<1>3. row.state.health <= server.state.health => health = row.state.health
  BY <1>1 DEF Least
<1>4. Merged(row) = [lower EXCEPT !.alive = row.state.alive /\ health > 0]
  BY <1>1 DEF Merged, States
<1> HIDE DEF health
<1>5. /\ lower \in States /\ lower.health = health /\ lower.stun = row.state.stun
      /\ lower.alive = row.state.alive
  BY <1>1, <1>2 DEF States
<1>6. health = row.state.health => lower = row.state
  BY <1>1 DEF States
<1> HIDE DEF lower
<1>7. Merged(row).stun = row.state.stun /\ Merged(row).health = health
  BY <1>4, <1>5 DEF States
<1>8. ASSUME health = row.state.health
      PROVE  Merged(row) = row.state
  <2>1. (row.state.alive /\ health > 0) = row.state.alive
    BY <1>1, <1>8 DEF Sound, States
  <2>2. [row.state EXCEPT !.alive = row.state.alive] = row.state
    BY <1>1 DEF States
  <2> QED BY <1>4, <1>6, <1>8, <2>1, <2>2
<1> QED BY <1>3, <1>7, <1>8 DEF health

\* The four things the server can make of a publication.
LEMMA TakenLine ==
    ASSUME server \in Servers, NEW row \in Rows, row.base <= server.base
    PROVE  LET taken == Taken(row) IN
           \/ /\ StunRefused(row) /\ row.base = server.base
              /\ taken.rev = server.rev /\ taken.base = server.base
              /\ taken.ack = server.ack /\ taken.used = server.used
              /\ taken.state.health = Merged(row).health
           \/ /\ taken.rev > server.rev /\ taken.base > server.rev
              /\ taken.ack = server.ack
           \/ /\ row.base < server.base \/ (row.seq = server.ack /\ Merged(row) = server.state)
              /\ taken.rev = server.rev /\ taken.base = server.base
              /\ taken.ack = server.ack /\ taken.used = row.used
              /\ taken.state = server.state
           \/ /\ row.base = server.base /\ row.seq = server.ack + 1
              /\ taken.rev = server.rev + 1 /\ taken.base = server.base
              /\ taken.ack = row.seq /\ taken.used = row.used
              /\ taken.state = Merged(row)
<1>1. /\ server.rev \in Nat /\ server.base \in Nat /\ server.ack \in Nat
      /\ row.base \in Nat /\ row.seq \in Nat /\ server.state \in States
  BY DEF Servers, Rows
<1>2. /\ Fenced(row).state = server.state /\ Fenced(row).used = row.used
      /\ Fenced(row).rev = server.rev /\ Fenced(row).base = server.base
      /\ Fenced(row).ack = server.ack
      /\ Fenced(row) = [state |-> server.state, used |-> row.used, rev |-> server.rev,
                        base |-> server.base, ack |-> server.ack]
  BY DEF Fenced, Servers
<1>3. CASE StunRefused(row)
  <2>1. Taken(row) = Contained(row) /\ row.base = server.base
    BY <1>1, <1>3 DEF Taken, StunRefused
  <2>2. /\ Contained(row).rev = server.rev /\ Contained(row).base = server.base
        /\ Contained(row).ack = server.ack /\ Contained(row).used = server.used
    BY DEF Contained, Servers
  <2>3. Contained(row).state.health = Merged(row).health
    BY <1>1 DEF Contained, Servers, States
  <2> QED BY <1>3, <2>1, <2>2, <2>3
<1>4. CASE ~StunRefused(row) /\ Foreign(row)
  <2> DEFINE revision == (IF row.base > server.rev THEN row.base ELSE server.rev) + 1
  <2>1. Taken(row) = [Fenced(row) EXCEPT !.rev = revision, !.base = revision]
    BY <1>4 DEF Taken, Answered
  <2>2. revision > server.rev
    BY <1>1
  <2> HIDE DEF revision
  <2>3. /\ Taken(row).rev = revision /\ Taken(row).base = revision
        /\ Taken(row).ack = server.ack
    BY <1>2, <2>1
  <2> QED BY <2>2, <2>3
<1>5. CASE ~StunRefused(row) /\ ~Foreign(row) /\ (row.base < server.base \/ row.seq = server.ack)
  <2>1. Taken(row) = Fenced(row)
    BY <1>5 DEF Taken
  <2>2. row.base < server.base \/ (row.seq = server.ack /\ Merged(row) = server.state)
    BY <1>1, <1>5 DEF Foreign
  <2> QED BY <1>2, <2>1, <2>2
<1>6. CASE ~StunRefused(row) /\ ~Foreign(row) /\ ~(row.base < server.base \/ row.seq = server.ack)
  <2>1. Taken(row) = Accepted(row)
    BY <1>6 DEF Taken
  <2>2. row.base = server.base /\ row.seq = server.ack + 1
    BY <1>1, <1>6 DEF Foreign
  <2>3. /\ Accepted(row).rev = server.rev + 1 /\ Accepted(row).base = server.base
        /\ Accepted(row).ack = row.seq /\ Accepted(row).used = row.used
        /\ Accepted(row).state = Merged(row)
    BY DEF Accepted, Servers
  <2> QED BY <2>1, <2>2, <2>3
<1> QED BY <1>3, <1>4, <1>5, <1>6

LEMMA ReceiveLine ==
    ASSUME CombatInv, LineInv, Receive, CombatInv'
    PROVE  LineInv'
<1> DEFINE row == Head(up)
<1>1. /\ up \in Seq(Rows) /\ up # <<>> /\ up' = Tail(up) /\ server' = Taken(row)
      /\ UNCHANGED <<worker, sync, down>>
  BY Typed DEF CombatInv, Receive
<1>2. /\ 1 \in DOMAIN up /\ row = up[1]
      /\ \A i \in DOMAIN up' : i \in Nat /\ i + 1 \in DOMAIN up /\ 1 < i + 1 /\ up'[i] = up[i + 1]
  BY <1>1
<1>3. /\ row \in Rows /\ Sound(row.state) /\ row.base \in Nat /\ row.seq \in Nat
      /\ row.used \in Nat /\ row.state.health \in Nat
      /\ row.base <= sync.base /\ sync.base <= server.base
  BY <1>2, LineTypes DEF CombatInv, SoundInv, BaseInv
<1>4. row.base <= server.base
  BY <1>3, LineTypes
<1> DEFINE Refuses == /\ StunRefused(row) /\ row.base = server.base
                      /\ server'.rev = server.rev /\ server'.base = server.base
                      /\ server'.ack = server.ack /\ server'.used = server.used
                      /\ server'.state.health = Merged(row).health
           Answers == /\ server'.rev > server.rev /\ server'.base > server.rev
                      /\ server'.ack = server.ack
           Fences == /\ row.base < server.base \/ (row.seq = server.ack /\ Merged(row) = server.state)
                     /\ server'.rev = server.rev /\ server'.base = server.base
                     /\ server'.ack = server.ack /\ server'.used = row.used
                     /\ server'.state = server.state
           Accepts == /\ row.base = server.base /\ row.seq = server.ack + 1
                      /\ server'.rev = server.rev + 1 /\ server'.base = server.base
                      /\ server'.ack = row.seq /\ server'.used = row.used
                      /\ server'.state = Merged(row)
<1>5. Refuses \/ Answers \/ Fences \/ Accepts
  BY <1>1, <1>3, <1>4, LineTypes, TakenLine
<1> HIDE DEF row
<1>6. server'.rev \in Nat /\ server'.base \in Nat /\ server'.ack \in Nat
      /\ server'.state.health \in Nat
  <2>1. server' \in Servers
    BY DEF CombatInv, TypeOK, Servers
  <2> QED BY <2>1, CombatAssumption DEF Servers, States
<1>7. server.base <= server.rev
  BY DEF CombatInv, BaseInv
<1>8. /\ Merged(row).stun = row.state.stun
      /\ Merged(row).health = Least(row.state.health, server.state.health)
      /\ row.state.health <= server.state.health => Merged(row) = row.state
  BY <1>3, LineTypes, MergedShape
\* A refused publication is the first of its base.
<1>9. Refuses => server.base = sync.base /\ ~(server.ack > sync.acked)
  <2> SUFFICES ASSUME Refuses, server.ack > sync.acked, server.base = sync.base PROVE FALSE
    BY <1>3, LineTypes
  <2>1. Follows(server, row)
    BY <1>2 DEF LineInv, RowInv
  <2>2. ~StunRefused(row)
    BY <1>3, <2>1, LineTypes DEF StunRefused, Follows
  <2> QED BY <2>2
\* One that is accepted is of the worker's base, and stands as it is.
<1>10. Accepts => /\ server.base = sync.base /\ row.seq > sync.acked
                  /\ server'.state = row.state
  <2> SUFFICES ASSUME Accepts PROVE server.base = sync.base /\ row.seq > sync.acked
                                    /\ row.state.health <= server.state.health
    BY <1>8
  <2>1. server.base = sync.base
    BY <1>3, LineTypes
  <2>2. sync.acked <= server.ack
    BY DEF LineInv, OrderInv, Ordered, Position
  <2> QED BY <1>2, <2>1, <2>2, LineTypes DEF LineInv, RowInv
<1>11. Ordered(server, server')
  BY <1>3, <1>5, <1>6, <1>7, LineTypes DEF Ordered
<1>12. OrderInv'
  <2>1. ASSUME NEW a, a.rev \in Nat, a.base \in Nat, a.ack \in Nat, Ordered(a, server)
        PROVE  Ordered(a, server')
    BY <1>6, <1>11, <2>1, LineTypes DEF Ordered
  <2>2. /\ Position.rev \in Nat /\ Position.base \in Nat /\ Position.ack \in Nat
    BY LineTypes DEF Position
  <2>3. Ordered(Position, server')
    BY <2>1, <2>2 DEF LineInv, OrderInv
  <2>4. \A i \in DOMAIN down : Ordered(down[i], server')
    BY <2>1, LineTypes DEF LineInv, OrderInv
  <2>5. Position' = Position
    BY <1>1 DEF Position
  <2> QED BY <1>1, <2>3, <2>4, <2>5 DEF LineInv, OrderInv
<1>13. AckInv'
  <2>1. ASSUME server'.ack > sync.acked
        PROVE  /\ Pends(server'.ack)
               /\ server'.base = sync.base => PendsAs(server'.ack, server'.state)
    <3>1. CASE Refuses
      BY <1>9, <2>1, <3>1
    <3>2. CASE Answers
      BY <1>3, <1>6, <1>7, <2>1, <3>2, LineTypes DEF LineInv, AckInv
    <3>3. CASE Fences
      BY <2>1, <3>3 DEF LineInv, AckInv
    <3>4. CASE Accepts
      <4>1. PendsAs(row.seq, row.state)
        BY <1>2, <1>10, <3>4 DEF LineInv, AckInv
      <4> QED BY <1>10, <3>4, <4>1 DEF Pends, PendsAs
    <3> QED BY <1>5, <3>1, <3>2, <3>3, <3>4
  <2>2. ASSUME NEW i \in DOMAIN down, down[i].base > sync.base
        PROVE  down[i].ack = server'.ack
    <3>1. CASE Accepts
      <4>1. down[i].base <= server.base
        BY DEF CombatInv, BaseInv
      <4> QED BY <1>10, <2>2, <3>1, <4>1, LineTypes
    <3>2. CASE ~Accepts
      <4>1. server'.ack = server.ack
        BY <1>5, <3>2
      <4> QED BY <2>2, <4>1 DEF LineInv, AckInv
    <3> QED BY <3>1, <3>2
  <2>3. /\ \A n : Pends(n)' <=> Pends(n)
        /\ \A n, s : PendsAs(n, s)' <=> PendsAs(n, s)
    BY <1>1 DEF Pends, PendsAs
  <2>4. \A i \in DOMAIN up' :
          up'[i].base = sync.base /\ up'[i].seq > sync.acked => PendsAs(up'[i].seq, up'[i].state)
    BY <1>2 DEF LineInv, AckInv
  <2> QED BY <1>1, <2>1, <2>2, <2>4 DEF LineInv, AckInv, Pends, PendsAs
<1>14. RowInv'
  <2>1. \A i, j \in DOMAIN up' :
          i < j => /\ up'[i].base <= up'[j].base
                   /\ up'[i].base = up'[j].base => Follows(up'[i], up'[j])
    <3> SUFFICES ASSUME NEW i \in DOMAIN up', NEW j \in DOMAIN up', i < j
                 PROVE  /\ up'[i].base <= up'[j].base
                        /\ up'[i].base = up'[j].base => Follows(up'[i], up'[j])
      OBVIOUS
    <3>1. i + 1 < j + 1
      BY <1>2
    <3> QED BY <1>2, <3>1 DEF LineInv, RowInv
  <2>2. \A i \in DOMAIN up' : up'[i].base = sync.base => Follows(up'[i], worker)
    BY <1>2 DEF LineInv, RowInv
  <2>3. \A i \in DOMAIN up' :
          /\ row.base <= up'[i].base
          /\ up'[i].base = row.base => Follows(row, up'[i])
          /\ up'[i].base \in Nat /\ up'[i].base <= sync.base
          /\ up'[i].state.health \in Nat
    BY <1>2, LineTypes DEF LineInv, RowInv, CombatInv, BaseInv
  <2>4. row.base = sync.base => Follows(row, worker)
    BY <1>2 DEF LineInv, RowInv
  <2>5. ASSUME server'.base = sync.base
        PROVE  /\ server.base = sync.base /\ ~Answers
               /\ worker.state.health <= server'.state.health
               /\ \A i \in DOMAIN up' :
                     up'[i].base = server.base => up'[i].state.health <= server'.state.health
    <3>1. server.base = sync.base /\ ~Answers
      BY <1>3, <1>5, <1>6, <1>7, <2>5, LineTypes
    <3>2. /\ worker.state.health <= server.state.health
          /\ \A i \in DOMAIN up' :
                up'[i].base = server.base => up'[i].state.health <= server.state.health
      BY <1>2, <3>1 DEF LineInv, RowInv
    <3>3. CASE Fences
      BY <3>1, <3>2, <3>3
    <3>4. CASE Refuses \/ Accepts
      <4>1. server'.state.health = Least(row.state.health, server.state.health)
            /\ row.base = server.base
        BY <1>8, <3>4
      <4>2. worker.state.health <= row.state.health
        BY <2>4, <3>1, <4>1 DEF Follows
      <4>3. \A i \in DOMAIN up' :
                up'[i].base = server.base => up'[i].state.health <= row.state.health
        BY <2>3, <4>1 DEF Follows
      <4> QED BY <3>1, <3>2, <4>1, <4>2, <4>3 DEF Least
    <3> QED BY <1>5, <3>1, <3>3, <3>4
  <2>6. ASSUME server'.base = sync.base, server'.ack > sync.acked
        PROVE  /\ Follows(server', worker)
               /\ \A i \in DOMAIN up' : up'[i].base = server'.base /\ Follows(server', up'[i])
    <3>1. server.base = sync.base /\ (Fences \/ Accepts)
      BY <1>5, <1>9, <2>5, <2>6
    <3>2. row.base = server.base /\ server'.base = server.base
      <4>1. CASE Fences
        BY <1>2, <2>6, <3>1, <4>1 DEF LineInv, RowInv
      <4>2. CASE Accepts
        BY <4>2
      <4> QED BY <3>1, <4>1, <4>2
    <3>3. server'.state.stun = row.state.stun /\ server'.used = row.used
      <4>1. CASE Fences
        BY <1>8, <3>2, <4>1, LineTypes
      <4>2. CASE Accepts
        BY <1>10, <4>2
      <4> QED BY <3>1, <4>1, <4>2
    <3>4. \A i \in DOMAIN up' : up'[i].base = row.base
      BY <1>3, <2>3, <3>1, <3>2
    <3>5. Follows(row, worker) /\ worker.state.health <= server'.state.health
      BY <2>4, <2>5, <2>6, <3>1, <3>2
    <3>6. ASSUME NEW i \in DOMAIN up'
          PROVE  Follows(row, up'[i]) /\ up'[i].state.health <= server'.state.health
      BY <2>3, <2>5, <2>6, <3>2, <3>4
    <3> QED BY <3>2, <3>3, <3>4, <3>5, <3>6 DEF Follows
  <2> HIDE DEF Refuses, Answers, Fences, Accepts
  <2>7. server'.base = sync.base => server'.base = server.base
    BY <2>5
  <2> QED BY <1>1, <2>1, <2>2, <2>5, <2>6, <2>7 DEF RowInv
<1> QED BY <1>12, <1>13, <1>14 DEF LineInv

LEMMA BroadcastLine ==
    ASSUME CombatInv, LineInv, Broadcast
    PROVE  LineInv'
<1>1. /\ server \in Servers /\ down \in Seq(Snapshots) /\ Len(down) \in Nat
      /\ UNCHANGED <<server, worker, sync, up>>
      /\ \/ Len(down) < MaxDown /\ down' = Append(down, Snapshot)
         \/ down # <<>> /\ down' = [down EXCEPT ![Len(down)] = Snapshot]
  BY Typed DEF CombatInv, Broadcast
<1>2. /\ Snapshot.rev = server.rev /\ Snapshot.base = server.base /\ Snapshot.ack = server.ack
      /\ Snapshot.state = server.state
  BY DEF Snapshot
<1> HIDE DEF Snapshot
<1>3. \A i \in DOMAIN down' :
         \/ i \in DOMAIN down /\ down'[i] = down[i]
         \/ down'[i] = Snapshot /\ \A j \in DOMAIN down' : j # i => j < i
  <2>1. CASE Len(down) < MaxDown /\ down' = Append(down, Snapshot)
    BY <1>1, <2>1
  <2>2. CASE down # <<>> /\ down' = [down EXCEPT ![Len(down)] = Snapshot]
    BY <1>1, <2>2
  <2> QED BY <1>1, <2>1, <2>2
<1>4. \A i \in DOMAIN down' : i \in Nat
  BY <1>1
<1>5. OrderInv'
  <2>1. Ordered(server, server) /\ server.base <= server.rev
    BY LineTypes DEF Ordered, CombatInv, BaseInv
  <2>2. /\ \A x : Ordered(x, server) => Ordered(x, Snapshot)
        /\ Ordered(Snapshot, server) /\ Snapshot.base <= Snapshot.rev
    BY <1>2, <2>1 DEF Ordered
  <2>3. \A i \in DOMAIN down' :
           /\ Ordered(Position, down'[i]) /\ Ordered(down'[i], server)
           /\ down'[i].base <= down'[i].rev
    BY <1>3, <2>2 DEF LineInv, OrderInv
  <2>4. ASSUME NEW i \in DOMAIN down', NEW j \in DOMAIN down', i < j
        PROVE  Ordered(down'[i], down'[j])
    <3>1. i \in DOMAIN down /\ down'[i] = down[i]
      BY <1>3, <1>4, <2>4
    <3>2. CASE j \in DOMAIN down /\ down'[j] = down[j]
      BY <2>4, <3>1, <3>2 DEF LineInv, OrderInv
    <3>3. CASE down'[j] = Snapshot
      BY <2>2, <3>1, <3>3 DEF LineInv, OrderInv
    <3> QED BY <1>3, <3>2, <3>3
  <2>5. Position' = Position /\ Ordered(Position, server)
    BY <1>1 DEF Position, LineInv, OrderInv
  <2> QED BY <1>1, <2>3, <2>4, <2>5 DEF OrderInv
<1>6. AckInv'
  <2>1. \A i \in DOMAIN down' :
          /\ down'[i].base > sync.base => down'[i].ack = server.ack
          /\ down'[i].ack > sync.acked =>
                /\ Pends(down'[i].ack)
                /\ down'[i].base = sync.base => PendsAs(down'[i].ack, down'[i].state)
    BY <1>2, <1>3 DEF LineInv, AckInv
  <2> QED BY <1>1, <2>1 DEF LineInv, AckInv, Pends, PendsAs
<1>7. RowInv'
  BY <1>1 DEF LineInv, RowInv, Follows
<1> QED BY <1>5, <1>6, <1>7 DEF LineInv

\* A snapshot taken moves the worker's numbers to its own, and the others on
\* their way follow it.
LEMMA TakenPosition ==
    ASSUME CombatInv, LineInv, down # <<>>, down' = Tail(down), UNCHANGED server,
           \/ sync'.rev = sync.rev /\ sync'.base = sync.base /\ sync'.acked = sync.acked
           \/ /\ sync'.rev = down[1].rev /\ sync'.base = down[1].base
              /\ sync'.acked = down[1].ack
    PROVE  /\ OrderInv' /\ 1 \in DOMAIN down
           /\ \A i \in DOMAIN down' : i + 1 \in DOMAIN down /\ down'[i] = down[i + 1]
<1>1. down \in Seq(Snapshots)
  BY Typed DEF CombatInv
<1>2. /\ 1 \in DOMAIN down
      /\ \A i \in DOMAIN down' :
            i \in Nat /\ i + 1 \in DOMAIN down /\ 1 < i + 1 /\ down'[i] = down[i + 1]
  BY <1>1
<1>3. ASSUME NEW i \in DOMAIN down', NEW j \in DOMAIN down', i < j
      PROVE  Ordered(down'[i], down'[j])
  <2>1. i + 1 < j + 1
    BY <1>2, <1>3
  <2> QED BY <1>2, <2>1 DEF LineInv, OrderInv
<1>4. /\ Ordered(Position', server)
      /\ \A i \in DOMAIN down' : Ordered(Position', down[i + 1])
  <2>1. CASE sync'.rev = sync.rev /\ sync'.base = sync.base /\ sync'.acked = sync.acked
    <3>1. Position' = Position
      BY <2>1 DEF Position
    <3> QED BY <1>2, <3>1 DEF LineInv, OrderInv
  <2>2. CASE sync'.rev = down[1].rev /\ sync'.base = down[1].base /\ sync'.acked = down[1].ack
    <3>1. \A x : Ordered(down[1], x) => Ordered(Position', x)
      BY <2>2 DEF Ordered, Position
    <3> QED BY <1>2, <3>1 DEF LineInv, OrderInv
  <2> QED BY <2>1, <2>2
<1> QED BY <1>2, <1>3, <1>4 DEF LineInv, OrderInv

LEMMA AcknowledgeLine ==
    ASSUME CombatInv, LineInv, down # <<>>, down' = Tail(down), UNCHANGED <<server, up>>,
           ~MovedBackwards(down[1]), down[1].base = sync.base, Acknowledge(down[1])
    PROVE  LineInv'
<1> DEFINE m == down[1]
<1>1. sync \in Syncs
  BY Typed DEF CombatInv
<1>2. /\ sync'.rev = m.rev /\ sync'.base = m.base /\ sync'.acked = m.ack
      /\ sync'.next = sync.next /\ sync'.published = sync.published
      /\ sync'.pending = {p \in sync.pending : p.seq > m.ack}
      /\ UNCHANGED worker /\ m.base = sync.base
  BY <1>1 DEF Acknowledge, Syncs
<1>3. /\ OrderInv' /\ 1 \in DOMAIN down
      /\ \A i \in DOMAIN down' : i + 1 \in DOMAIN down /\ down'[i] = down[i + 1]
  BY <1>2, TakenPosition
<1>4. m.ack \in Nat /\ sync.acked \in Nat /\ sync.acked <= m.ack
  BY <1>3, LineTypes DEF MovedBackwards
<1> HIDE DEF m
<1>5. ASSUME NEW n, n > m.ack
      PROVE  /\ Pends(n) => \E p \in sync'.pending : p.seq = n
             /\ \A s : PendsAs(n, s) => [seq |-> n, state |-> s] \in sync'.pending
  BY <1>2, <1>5 DEF Pends, PendsAs
<1>6. AckInv'
  <2>1. ASSUME NEW n \in Nat, n > m.ack PROVE n > sync.acked
    BY <1>4, <2>1
  <2>2. sync.next > m.ack => [seq |-> sync.next, state |-> sync.published] \in sync'.pending
    BY <1>5, <2>1, LineTypes DEF LineInv, AckInv
  <2>3. server.ack > m.ack =>
          /\ \E p \in sync'.pending : p.seq = server.ack
          /\ server.base = sync.base => [seq |-> server.ack, state |-> server.state] \in sync'.pending
    BY <1>5, <2>1, LineTypes DEF LineInv, AckInv
  <2>4. \A i \in DOMAIN up :
          up[i].base = sync.base /\ up[i].seq > m.ack =>
             [seq |-> up[i].seq, state |-> up[i].state] \in sync'.pending
    BY <1>5, <2>1, LineTypes DEF LineInv, AckInv
  <2>5. \A i \in DOMAIN down :
          /\ down[i].base > sync.base => down[i].ack = server.ack
          /\ down[i].ack > m.ack =>
                /\ \E p \in sync'.pending : p.seq = down[i].ack
                /\ down[i].base = sync.base =>
                      [seq |-> down[i].ack, state |-> down[i].state] \in sync'.pending
    BY <1>5, <2>1, LineTypes DEF LineInv, AckInv
  <2> QED BY <1>2, <1>3, <2>2, <2>3, <2>4, <2>5 DEF AckInv, Pends, PendsAs
<1>7. RowInv'
  BY <1>2, <1>4, LineTypes DEF LineInv, RowInv, Follows
<1> QED BY <1>3, <1>6, <1>7 DEF LineInv

\* A worker that takes a new base has nothing pending on it.
LEMMA RebaseLine ==
    ASSUME CombatInv, LineInv, down # <<>>, down' = Tail(down), UNCHANGED <<server, up>>,
           ~MovedBackwards(down[1]), down[1].base # sync.base, Rebase(down[1])
    PROVE  LineInv'
<1> DEFINE m == down[1]
           kept == {c \in sync.slices : c.seq > m.ack}
           replayed == {[c EXCEPT !.seq = m.ack + 1] : c \in kept}
           state == Advanced(m.state, replayed)
<1>1. worker \in Workers /\ IsFiniteSet(sync.slices)
  BY Typed DEF CombatInv, CountInv
<1>2. /\ sync'.rev = m.rev /\ sync'.base = m.base /\ sync'.acked = m.ack
      /\ sync'.next = m.ack /\ sync'.pending = {} /\ worker'.state = state
  BY <1>1 DEF Rebase, RebasedOn, Workers
<1>3. /\ OrderInv' /\ 1 \in DOMAIN down
      /\ \A i \in DOMAIN down' : i + 1 \in DOMAIN down /\ down'[i] = down[i + 1]
  BY <1>2, TakenPosition
<1>4. /\ m \in Snapshots /\ m.state \in States /\ m.rev \in Nat /\ m.base \in Nat /\ m.ack \in Nat
      /\ m.base # sync.base /\ ~MovedBackwards(m)
  BY <1>3, LineTypes
<1>5. state.health <= m.state.health
  <2>1. IsFiniteSet(kept)
    BY <1>1, FS_Subset
  <2> DEFINE move == [c \in kept |-> [c EXCEPT !.seq = m.ack + 1]]
  <2>2. IsFiniteSet(replayed)
    <3>1. /\ \A c \in kept : move[c] \in replayed
          /\ \A r \in replayed : \E c \in kept : move[c] = r
      OBVIOUS
    <3>2. move \in [kept -> replayed]
      OBVIOUS
    <3> HIDE DEF kept, replayed, move
    <3>3. move \in Surjection(kept, replayed)
      BY <3>1, <3>2 DEF Surjection
    <3> QED BY <2>1, <3>3, FS_Surjection
  <2>3. Sound(m.state)
    BY <1>3 DEF CombatInv, SoundInv
  <2> HIDE DEF replayed
  <2> QED BY <1>4, <2>2, <2>3, AdvancedFacts
<1>6. m.base <= server.base
      /\ (m.base = server.base /\ sync.base < server.base => m.state = server.state)
  BY <1>3 DEF CombatInv, BaseInv
<1>7. Ordered(m, server) /\ (m.base > sync.base => m.ack = server.ack)
  BY <1>3 DEF LineInv, OrderInv, AckInv
<1> HIDE DEF m, state
<1>8. m.base > sync.base /\ sync.base \in Nat
  BY SMTT(30), <1>4, LineTypes DEF MovedBackwards
<1>9. \A i \in DOMAIN up : up[i].base \in Nat /\ up[i].base < m.base
  <2>1. \A i \in DOMAIN up : up[i].base \in Nat /\ up[i].base <= sync.base
    BY LineTypes DEF CombatInv, BaseInv
  <2> QED BY <1>4, <1>8, <2>1
<1>10. AckInv'
  <2>1. \A i \in DOMAIN down :
          /\ down[i].base > m.base => down[i].ack = server.ack
          /\ ~(down[i].ack > m.ack)
    <3> SUFFICES ASSUME NEW i \in DOMAIN down
                 PROVE  /\ down[i].base > m.base => down[i].ack = server.ack
                        /\ ~(down[i].ack > m.ack)
      OBVIOUS
    <3>1. Ordered(down[i], server) /\ (down[i].base > sync.base => down[i].ack = server.ack)
      BY DEF LineInv, OrderInv, AckInv
    <3>2. /\ down[i].ack \in Nat /\ down[i].base \in Nat /\ server.ack \in Nat
          /\ m.base \in Nat /\ m.ack = server.ack
      BY <1>4, <1>7, <1>8, LineTypes
    <3>3. down[i].ack <= server.ack
      BY <3>1 DEF Ordered
    <3>4. down[i].base > m.base => down[i].base > sync.base
      BY <1>8, <3>2
    <3> QED BY <3>1, <3>2, <3>3, <3>4
  <2>2. ~(server.ack > m.ack) /\ ~(m.ack > m.ack)
    BY <1>4, <1>7, <1>8, LineTypes
  <2> QED BY <1>2, <1>3, <1>9, <2>1, <2>2 DEF AckInv
<1>11. RowInv'
  <2>1. ~(server.ack > m.ack)
    BY <1>4, <1>7, <1>8, LineTypes
  <2>2. server.base = m.base => worker'.state.health <= server.state.health
    BY <1>2, <1>5, <1>6, <1>8
  <2> QED BY <1>2, <1>9, <2>1, <2>2 DEF LineInv, RowInv, Follows
<1> QED BY <1>3, <1>10, <1>11 DEF LineInv

LEMMA DeliverLine ==
    ASSUME CombatInv, LineInv, Deliver
    PROVE  LineInv'
<1>1. down \in Seq(Snapshots)
  BY Typed DEF CombatInv
<1>2. down # <<>> /\ down' = Tail(down) /\ UNCHANGED <<server, up>> /\ Head(down) = down[1]
  BY <1>1 DEF Deliver
<1>3. CASE UNCHANGED <<worker, sync>>
  <2>1. /\ OrderInv'
        /\ \A i \in DOMAIN down' : i + 1 \in DOMAIN down /\ down'[i] = down[i + 1]
    BY <1>2, <1>3, TakenPosition
  <2>2. AckInv'
    BY <1>2, <1>3, <2>1 DEF LineInv, AckInv, Pends, PendsAs
  <2>3. RowInv'
    BY <1>2, <1>3 DEF LineInv, RowInv, Follows
  <2> QED BY <2>1, <2>2, <2>3 DEF LineInv
<1>4. CASE ~Refused(down[1]) /\ down[1].base = sync.base /\ Acknowledge(down[1])
  BY <1>2, <1>4, AcknowledgeLine DEF Refused
<1>5. CASE ~Refused(down[1]) /\ down[1].base # sync.base /\ Rebase(down[1])
  BY <1>2, <1>5, RebaseLine DEF Refused
<1> QED BY <1>2, <1>3, <1>4, <1>5 DEF Deliver

LEMMA LineInit == Init => LineInv
<1> SUFFICES ASSUME Init PROVE LineInv
  OBVIOUS
<1>1. /\ server = [state |-> Fresh, used |-> 0, rev |-> 0, base |-> 0, ack |-> 0]
      /\ worker = [state |-> Fresh, used |-> 0]
      /\ sync = [published |-> Fresh, known |-> Fresh, pending |-> {}, slices |-> {},
                 next |-> 0, acked |-> 0, rev |-> 0, base |-> 0]
      /\ up = <<>> /\ down = <<>> /\ Fresh.health = Full /\ Full \in Nat
  BY CombatAssumption DEF Init, Fresh
<1> HIDE DEF Fresh
<1>2. OrderInv
  BY <1>1 DEF OrderInv, Ordered, Position
<1>3. AckInv
  BY <1>1 DEF AckInv
<1>4. RowInv
  BY <1>1 DEF RowInv
<1> QED BY <1>2, <1>3, <1>4 DEF LineInv

LEMMA LineStep ==
    ASSUME CombatInv, LineInv, [Next]_vars
    PROVE  CombatInv' /\ LineInv'
<1>1. CombatInv'
  BY CombatStep
<1>2. CASE UNCHANGED vars
  BY <1>1, <1>2 DEF vars, LineInv, OrderInv, AckInv, RowInv, Ordered, Position, Pends, PendsAs, Follows
<1>3. ASSUME NEW kind \in HitKinds, Hit(kind) PROVE LineInv'
  BY <1>1, <1>3, HitLine
<1>4. CASE Stun \/ ExpireStun
  BY <1>1, <1>4, StunLine
<1>5. ASSUME NEW kit \in BOOLEAN, Slice(kit) PROVE LineInv'
  BY <1>1, <1>5, SliceLine
<1>6. CASE Land
  BY <1>1, <1>6, LandLine
<1>7. ASSUME NEW encoded \in BOOLEAN, Publish(encoded) PROVE LineInv'
  BY <1>1, <1>7, PublishLine
<1>8. CASE Receive
  BY <1>1, <1>8, ReceiveLine
<1>9. CASE Broadcast
  BY <1>1, <1>9, BroadcastLine
<1>10. CASE Deliver
  BY <1>1, <1>10, DeliverLine
<1> QED BY <1>1, <1>2, <1>3, <1>4, <1>5, <1>6, <1>7, <1>8, <1>9, <1>10 DEF Next

LEMMA LineHolds ==
    ASSUME CombatInv, LineInv
    PROVE  LineageHolds
<1> SUFFICES ASSUME down # <<>>
             PROVE  ~(MovedBackwards(down[1]) \/ AckInconsistent(down[1]) \/ BaseInconsistent(down[1]))
  BY Typed DEF CombatInv, LineageHolds
<1> DEFINE m == down[1]
<1>1. 1 \in DOMAIN down
  BY Typed DEF CombatInv
<1>2. m.rev \in Nat /\ m.base \in Nat /\ m.ack \in Nat
  BY <1>1, LineTypes
<1>3. /\ Ordered(Position, m) /\ m.base <= m.rev
      /\ m.ack > sync.acked =>
            Pends(m.ack) /\ (m.base = sync.base => PendsAs(m.ack, m.state))
  BY <1>1 DEF LineInv, OrderInv, AckInv
<1> HIDE DEF m
<1>4. sync.rev \in Nat /\ sync.base \in Nat /\ sync.acked \in Nat /\ sync.next \in Nat
  BY LineTypes
<1>5. /\ sync.rev <= m.rev /\ sync.base <= m.base /\ sync.acked <= m.ack
      /\ (sync.base # m.base \/ sync.acked # m.ack) => sync.rev < m.rev
  BY <1>3 DEF Ordered, Position
<1>6. ~MovedBackwards(m)
  <2>1. \A p \in sync.pending : p.seq <= sync.next /\ p.seq \in Nat
    BY LineTypes DEF CombatInv, TypeOK
  <2>2. sync.acked <= sync.next
    BY DEF CombatInv, CountInv
  <2>3. m.ack <= sync.next
    BY <1>2, <1>3, <1>4, <2>1, <2>2 DEF Pends
  <2> QED BY <1>2, <1>4, <1>5, <2>3 DEF MovedBackwards
<1>7. ~AckInconsistent(m)
  BY <1>2, <1>3, <1>4, <1>5 DEF AckInconsistent, PendsAs
<1>8. ~BaseInconsistent(m)
  BY <1>2, <1>3, <1>4, <1>5 DEF BaseInconsistent, Pends
<1> QED BY <1>6, <1>7, <1>8 DEF m

\* The bookkeeping of the two sides never parts: no snapshot carries a base,
\* a revision or an acknowledgement that the worker must refuse, whatever was
\* fenced, answered, replayed or replaced before (_apply_server_combat_state).
THEOREM CombatLineageHolds == Spec => []LineageHolds
<1>1. Init => CombatInv /\ LineInv
  BY CombatInit, LineInit
<1>2. CombatInv /\ LineInv /\ [Next]_vars => (CombatInv /\ LineInv)'
  BY LineStep
<1>3. CombatInv /\ LineInv => LineageHolds
  BY LineHolds
<1> QED BY <1>1, <1>2, <1>3, PTL DEF Spec

----------------------------------------------------------------------------
(* The losses: every hit, slice of burning and landing is charged once. *)

Lost(s) == Full - s.health

\* The burning slices numbered above k: what one who has consumed the
\* publications up to k has not been charged.
Charged(slices, k) == Cardinality({c \in slices : c.burns /\ c.seq > k})

\* The burning slices of a replay.
Burning(slices) == Cardinality({c \in slices : c.burns})

\* What both sides have been charged for, and all that was ever lost.
Done == count.hits + count.burns
Most == Done + count.falls + count.merged

\* Nobody has lost, with what the slices will still cost it, more than there
\* was to lose.
OverInv ==
    /\ Lost(server.state) + Charged(sync.slices, server.ack) <= Most
    /\ Lost(worker.state) <= Most
    /\ Lost(sync.published) + Charged(sync.slices, sync.next) <= Most
    /\ \A i \in DOMAIN up :
          up[i].base = sync.base =>
             Lost(up[i].state) + Charged(sync.slices, up[i].seq) <= Most
    /\ \A i \in DOMAIN down :
          Lost(down[i].state) + Charged(sync.slices, down[i].ack) <= Most

\* A fire that burns has not burned out.
Lit(s) == s.alive /\ s.fire => s.elapsed < FireDuration

LitInv ==
    /\ Lit(server.state) /\ Lit(worker.state)
    /\ \A i \in DOMAIN up : Lit(up[i].state)
    /\ \A i \in DOMAIN down : Lit(down[i].state)

\* A slice is told from every other by when it was made.
AtInv ==
    /\ \A c \in sync.slices : c.at < count.burns + worker.used
    /\ \A c, d \in sync.slices : c.at = d.at => c = d

\* The publications of one base are numbered in their order, after the one the
\* server has accepted and up to the worker's last.
SeqInv ==
    /\ server.ack <= sync.next
    /\ \A i \in DOMAIN up : up[i].base = sync.base => up[i].seq <= sync.next
    /\ \A i \in DOMAIN up : up[i].base = server.base => server.ack <= up[i].seq
    /\ \A i, j \in DOMAIN up :
          i < j /\ up[i].base = up[j].base => up[i].seq <= up[j].seq

\* A living Bot that owes slices of burning burns long enough to be charged
\* for all of them, and is then no older in burning than the worker's Bot.
Bears(s, owed, w) ==
    s.alive =>
      /\ owed > 0 => s.fire /\ s.elapsed + owed <= FireDuration
      /\ w.alive /\ w.fire => s.fire /\ s.elapsed + owed <= w.elapsed

Covers(s, owed, w, done) == Bears(s, owed, w) /\ (s.alive => Lost(s) + owed >= done)

\* Later, t burns whenever s did, and has burned no longer: what s bears, t bears.
Ages(s, t) == t.alive => s.alive /\ (s.fire => t.fire /\ t.elapsed <= s.elapsed)

\* The living have lost, with what the slices will still cost them, all that
\* was charged; a snapshot that opens a base bears the slices replayed on it.
UnderInv ==
    /\ Covers(server.state, Charged(sync.slices, server.ack), worker.state, Done)
    /\ \A i \in DOMAIN up :
          up[i].base = server.base =>
             Covers(up[i].state, Charged(sync.slices, up[i].seq), worker.state, Done)
    /\ sync.base = server.base =>
          /\ Covers(sync.published, Charged(sync.slices, sync.next), worker.state, Done)
          /\ worker.state.alive => Lost(worker.state) >= Done
    /\ \A i \in DOMAIN down :
          down[i].base > sync.base =>
             /\ Bears(down[i].state, Charged(sync.slices, down[i].ack), worker.state)
             /\ Ages(down[i].state, server.state)
    /\ \A i, j \in DOMAIN down :
          i < j /\ down[i].base > sync.base => Ages(down[i].state, down[j].state)

LossInv == OverInv /\ LitInv /\ AtInv /\ SeqInv /\ UnderInv

\* The charges are numbers.
LEMMA ChargedType ==
    ASSUME NEW slices, IsFiniteSet(slices), NEW k
    PROVE  Charged(slices, k) \in Nat
<1>1. IsFiniteSet({c \in slices : c.burns /\ c.seq > k})
  BY FS_Subset
<1> QED BY <1>1, FS_CardinalityType DEF Charged

\* Of fewer slices, or above a higher number, no more is charged.
LEMMA ChargedLess ==
    ASSUME NEW slices, IsFiniteSet(slices), NEW fewer \in SUBSET slices,
           NEW k, NEW n, \A c \in fewer : c.seq > n => c.seq > k
    PROVE  Charged(fewer, n) <= Charged(slices, k)
<1> DEFINE all == {c \in slices : c.burns /\ c.seq > k}
           some == {c \in fewer : c.burns /\ c.seq > n}
<1>1. some \in SUBSET all
  OBVIOUS
<1>2. IsFiniteSet(all)
  BY FS_Subset
<1> HIDE DEF all, some
<1>3. Cardinality(some) <= Cardinality(all)
  BY <1>1, <1>2, FS_Subset
<1> QED BY <1>3 DEF Charged, all, some

\* Above the last number nothing is charged.
LEMMA ChargedNone ==
    ASSUME NEW slices, NEW k, \A c \in slices : ~(c.seq > k)
    PROVE  Charged(slices, k) = 0
<1>1. {c \in slices : c.burns /\ c.seq > k} = {}
  OBVIOUS
<1> QED BY <1>1, FS_EmptySet DEF Charged

\* A new slice is charged to everybody who has not consumed it, if it burns.
LEMMA ChargedMore ==
    ASSUME NEW slices, IsFiniteSet(slices), NEW slice, slice \notin slices,
           NEW k, slice.seq > k
    PROVE  Charged(slices \cup {slice}, k) = Charged(slices, k) + IF slice.burns THEN 1 ELSE 0
<1> DEFINE before == {c \in slices : c.burns /\ c.seq > k}
           after == {c \in slices \cup {slice} : c.burns /\ c.seq > k}
<1>1. IsFiniteSet(before) /\ slice \notin before
  BY FS_Subset
<1>2. after = IF slice.burns THEN before \cup {slice} ELSE before
  OBVIOUS
<1>3. Cardinality(before) \in Nat
  BY <1>1, FS_CardinalityType
<1> HIDE DEF before, after
<1>4. Cardinality(before \cup {slice}) = Cardinality(before) + 1
  BY <1>1, FS_AddElement
<1>5. Cardinality(after) = IF slice.burns THEN Cardinality(before) + 1 ELSE Cardinality(before)
  BY Zenon, <1>2, <1>4
<1>6. Cardinality(after) = Cardinality(before) + IF slice.burns THEN 1 ELSE 0
  BY <1>3, <1>5
<1> QED BY <1>6 DEF Charged, before, after

\* The consumed slices were not charged to those who have consumed them.
LEMMA ChargedKept ==
    ASSUME NEW slices \in SUBSET Slices, NEW n \in Nat, NEW k \in Nat, n <= k
    PROVE  Charged({c \in slices : c.seq > n}, k) = Charged(slices, k)
<1>1. \A c \in slices : c.seq \in Nat
  BY DEF Slices
<1>2. {c \in {d \in slices : d.seq > n} : c.burns /\ c.seq > k} = {c \in slices : c.burns /\ c.seq > k}
  BY <1>1
<1> QED BY <1>2 DEF Charged

\* The slices replayed on a new base are as many as they were.
LEMMA ChargedMoved ==
    ASSUME NEW slices \in SUBSET Slices, IsFiniteSet(slices), NEW n \in Nat,
           \A c, d \in slices : c.at = d.at => c = d
    PROVE  LET replayed == {[c EXCEPT !.seq = n + 1] : c \in {d \in slices : d.seq > n}} IN
           /\ IsFiniteSet(replayed) /\ replayed \subseteq Slices
           /\ \A c \in replayed : c.seq = n + 1 /\ \E d \in slices : d.at = c.at
           /\ \A c, d \in replayed : c.at = d.at => c = d
           /\ Burning(replayed) = Charged(slices, n)
           /\ Charged(replayed, n) = Charged(slices, n)
<1> DEFINE kept == {d \in slices : d.seq > n}
           replayed == {[c EXCEPT !.seq = n + 1] : c \in kept}
           burning == {c \in slices : c.burns /\ c.seq > n}
           moved == {c \in replayed : c.burns}
           move == [c \in kept |-> [c EXCEPT !.seq = n + 1]]
           burn == [c \in burning |-> [c EXCEPT !.seq = n + 1]]
<1>1. \A c \in slices : /\ [c EXCEPT !.seq = n + 1] \in Slices
                        /\ [c EXCEPT !.seq = n + 1].seq = n + 1
                        /\ [c EXCEPT !.seq = n + 1].at = c.at
                        /\ [c EXCEPT !.seq = n + 1].burns = c.burns
  BY SMTT(30) DEF Slices
<1>2. IsFiniteSet(kept) /\ IsFiniteSet(burning)
  BY FS_Subset
<1>3. IsFiniteSet(replayed)
  <2>1. /\ \A c \in kept : move[c] \in replayed
        /\ \A r \in replayed : \E c \in kept : move[c] = r
    OBVIOUS
  <2>2. move \in [kept -> replayed]
    OBVIOUS
  <2> HIDE DEF kept, replayed, move
  <2>3. move \in Surjection(kept, replayed)
    BY <2>1, <2>2 DEF Surjection
  <2> QED BY <1>2, <2>3, FS_Surjection
<1>4. /\ replayed \subseteq Slices
      /\ \A c \in replayed : c.seq = n + 1 /\ \E d \in slices : d.at = c.at
      /\ \A c, d \in replayed : c.at = d.at => c = d
  <2>1. \A r \in replayed : \E c \in slices : r = [c EXCEPT !.seq = n + 1]
    OBVIOUS
  <2> HIDE DEF replayed
  <2>2. \A r \in replayed : r \in Slices /\ r.seq = n + 1 /\ \E d \in slices : d.at = r.at
    <3> SUFFICES ASSUME NEW r \in replayed
                 PROVE  r \in Slices /\ r.seq = n + 1 /\ \E d \in slices : d.at = r.at
      OBVIOUS
    <3>1. PICK c \in slices : r = [c EXCEPT !.seq = n + 1]
      BY <2>1
    <3>2. r \in Slices /\ r.seq = n + 1 /\ c.at = r.at
      BY <1>1, <3>1
    <3> QED BY <3>2
  <2>3. ASSUME NEW c \in replayed, NEW d \in replayed, c.at = d.at PROVE c = d
    <3>1. PICK a \in slices : c = [a EXCEPT !.seq = n + 1]
      BY <2>1
    <3>2. PICK b \in slices : d = [b EXCEPT !.seq = n + 1]
      BY <2>1
    <3>3. a.at = b.at
      BY <1>1, <2>3, <3>1, <3>2
    <3> QED BY <3>1, <3>2, <3>3
  <2> QED BY <2>2, <2>3
<1>5. Cardinality(moved) = Cardinality(burning)
  <2>1. /\ \A c \in burning : burn[c] \in moved
        /\ \A r \in moved : \E c \in burning : burn[c] = r
        /\ \A c, d \in burning : burn[c] = burn[d] => c = d
    <3>1. \A c \in burning : c \in kept /\ c \in slices /\ burn[c] = [c EXCEPT !.seq = n + 1] /\ c.burns
      OBVIOUS
    <3>2. \A c \in burning : burn[c] \in moved
      BY <1>1, <3>1
    <3>3. \A r \in moved : \E c \in burning : burn[c] = r
      <4> SUFFICES ASSUME NEW r \in moved PROVE \E c \in burning : burn[c] = r
        OBVIOUS
      <4>1. PICK c \in kept : r = [c EXCEPT !.seq = n + 1] /\ r.burns
        OBVIOUS
      <4>2. c \in burning
        BY <1>1, <4>1
      <4> QED BY <3>1, <4>1, <4>2
    <3>4. \A c, d \in burning : burn[c] = burn[d] => c.at = d.at
      <4> HIDE DEF burn, burning
      <4>1. \A c \in burning : burn[c].at = c.at
        BY <1>1, <3>1
      <4> QED BY <4>1
    <3>5. \A c, d \in burning : c.at = d.at => c = d
      OBVIOUS
    <3> HIDE DEF burning, moved, burn
    <3> QED BY <3>2, <3>3, <3>4, <3>5
  <2>2. burn \in [burning -> moved]
    BY <2>1
  <2> HIDE DEF burning, moved, burn
  <2>3. burn \in Bijection(burning, moved)
    BY <2>1, <2>2 DEF Bijection, Injection, Surjection, IsInjective
  <2> QED BY <1>2, <2>3, FS_Bijection DEF ExistsBijection
<1>6. {c \in replayed : c.burns /\ c.seq > n} = moved
  BY <1>4
<1> QED BY <1>3, <1>4, <1>5, <1>6 DEF Charged, Burning

\* What is lost is a number, and the more the less is left.
LEMMA LostType ==
    ASSUME NEW s \in States
    PROVE  /\ Lost(s) \in Nat /\ s.health \in Nat /\ s.elapsed \in Nat
           /\ s.alive \in BOOLEAN /\ s.fire \in BOOLEAN
           /\ Full \in Nat /\ FireDuration \in Nat /\ FireDuration > 0
BY CombatAssumption DEF Lost, States

\* A loss is charged once, and in full to those who survive it; it touches no
\* fire of theirs.
LEMMA DamagedLoss ==
    ASSUME NEW s \in States, NEW n \in Nat
    PROVE  /\ Lost(Damaged(s, n)) <= Lost(s) + n
           /\ Damaged(s, n).alive =>
                 /\ Lost(Damaged(s, n)) = Lost(s) + n /\ s.alive
                 /\ Damaged(s, n).fire = s.fire /\ Damaged(s, n).elapsed = s.elapsed
<1> DEFINE left == [s EXCEPT !.health = Limited(@ - n)]
<1>1. /\ left \in States /\ left.health = Limited(s.health - n) /\ left.alive = s.alive
      /\ left.fire = s.fire /\ left.elapsed = s.elapsed
  BY CombatAssumption DEF States, Limited
<1>2. Damaged(s, n) = IF left.health > 0 THEN left ELSE Wreck(left)
  BY DEF Damaged
<1> HIDE DEF left
<1>3. /\ Lost(left) <= Lost(s) + n
      /\ left.health > 0 => Lost(left) = Lost(s) + n
  BY <1>1, LostType DEF Lost, Limited
<1>4. Wreck(left).health = left.health /\ ~Wreck(left).alive
  BY <1>1, WreckFacts
<1>5. Lost(Wreck(left)) = Lost(left)
  BY <1>4 DEF Lost
<1>6. CASE left.health > 0
  BY <1>1, <1>2, <1>3, <1>6
<1>7. CASE ~(left.health > 0)
  BY <1>2, <1>3, <1>4, <1>5, <1>7
<1> QED BY <1>6, <1>7

\* Of the slices that burn, a Bot is charged for each at most once, and the
\* survivor whose fire lasts for each; its fire is then older by as many.
LEMMA AdvancedLoss ==
    ASSUME NEW s \in States, Sound(s), Lit(s), NEW slices, IsFiniteSet(slices)
    PROVE  LET a == Advanced(s, slices)
               burns == Burning(slices)
           IN /\ burns \in Nat /\ Lost(a) <= Lost(s) + burns /\ Lit(a)
              /\ a.alive => s.alive
              /\ a.alive /\ a.fire => s.fire /\ a.elapsed = s.elapsed + burns
              /\ s.alive /\ (burns > 0 => s.fire /\ s.elapsed + burns <= FireDuration) =>
                    /\ a.alive => Lost(a) = Lost(s) + burns
                    /\ burns > 0 => a # s
<1> DEFINE a == Advanced(s, slices)
           burns == Cardinality({c \in slices : c.burns})
           treated == IF \E c \in slices : c.clears # 0 /\ c.clears = s.stun
                      THEN [s EXCEPT !.stun = 0] ELSE s
           lasts == FireDuration - s.elapsed
           burnt == [treated EXCEPT !.elapsed = Least(@ + burns, FireDuration)]
           burning == [treated EXCEPT !.elapsed = @ + burns]
           out == [treated EXCEPT !.fire = FALSE, !.elapsed = 0]
           Exact == s.alive /\ (burns > 0 => s.fire /\ s.elapsed + burns <= FireDuration)
           Good == /\ Lost(a) <= Lost(s) + burns /\ Lit(a)
                   /\ a.alive => s.alive
                   /\ a.alive /\ a.fire => s.fire /\ a.elapsed = s.elapsed + burns
                   /\ Exact /\ a.alive => Lost(a) = Lost(s) + burns
<1>1. burns \in Nat
  <2>1. IsFiniteSet({c \in slices : c.burns})
    BY FS_Subset
  <2> QED BY <2>1, FS_CardinalityType
<1>2. /\ treated \in States /\ treated.health = s.health /\ treated.alive = s.alive
      /\ treated.elapsed = s.elapsed /\ treated.fire = s.fire
  BY CombatAssumption DEF States
<1>3. lasts \in Nat /\ Lost(treated) = Lost(s) /\ Lost(s) \in Nat
  BY <1>2, LostType DEF States, Lost
<1>4. ASSUME ~s.fire \/ burns = 0
      PROVE  Good
  <2>1. a = treated
    BY <1>4 DEF Advanced
  <2> HIDE DEF treated, burns, a
  <2> QED BY <1>1, <1>2, <1>3, <1>4, <2>1, LostType DEF Lit
<1>5. ASSUME ~(~s.fire \/ burns = 0) /\ s.health = 0
      PROVE  Good
  <2>1. a = burnt
    BY <1>5 DEF Advanced
  <2> HIDE DEF treated, burns, a
  <2>2. burnt.health = s.health /\ burnt.alive = s.alive
    BY <1>1, <1>2, CombatAssumption DEF States, Least
  <2>3. ~s.alive /\ Lost(burnt) = Lost(s)
    BY <1>5, <2>2, LostType DEF Sound, Lost
  <2> HIDE DEF burnt
  <2> QED BY <1>1, <1>3, <2>1, <2>2, <2>3 DEF Lit
<1>6. ASSUME ~(~s.fire \/ burns = 0) /\ s.health # 0 /\ burns < lasts
      PROVE  Good
  <2>1. a = Damaged(burning, burns)
    BY <1>6 DEF Advanced
  <2> HIDE DEF treated, burns, a
  <2>2. /\ burning \in States /\ burning.health = s.health /\ burning.alive = s.alive
        /\ burning.fire = s.fire /\ burning.elapsed = s.elapsed + burns
    BY <1>1, <1>2, <1>6, CombatAssumption DEF States
  <2>3. Lost(burning) = Lost(s)
    BY <2>2 DEF Lost
  <2> HIDE DEF burning
  <2>4. /\ Lost(a) <= Lost(s) + burns
        /\ a.alive => /\ Lost(a) = Lost(s) + burns /\ s.alive
                      /\ a.fire = s.fire /\ a.elapsed = s.elapsed + burns
    BY <1>1, <2>1, <2>2, <2>3, DamagedLoss
  <2>5. s.elapsed + burns < FireDuration
    BY <1>1, <1>6, LostType
  <2> HIDE DEF lasts
  <2> QED BY <1>6, <2>4, <2>5 DEF Lit
<1>7. ASSUME ~(~s.fire \/ burns = 0) /\ s.health # 0 /\ ~(burns < lasts)
      PROVE  Good
  <2>1. a = Damaged(out, lasts)
    BY <1>7 DEF Advanced
  <2> HIDE DEF treated, a
  <2> DEFINE doused == [treated EXCEPT !.fire = FALSE]
  <2>2. doused \in States /\ doused.health = s.health /\ doused.alive = s.alive /\ ~doused.fire
    BY <1>2 DEF States
  <2>3. out = [doused EXCEPT !.elapsed = 0]
    OBVIOUS
  <2> HIDE DEF doused, out
  <2>4. 0 \in 0..FireDuration
    BY CombatAssumption
  <2>5. out \in States /\ out.health = s.health /\ out.alive = s.alive /\ ~out.fire
    BY <2>2, <2>3, <2>4 DEF States
  <2>6. Lost(out) = Lost(s)
    BY <2>5 DEF Lost
  <2>7. /\ Lost(a) <= Lost(s) + lasts
        /\ a.alive => Lost(a) = Lost(s) + lasts /\ s.alive /\ ~a.fire
    <3> HIDE DEF lasts
    <3> QED BY <1>3, <2>1, <2>5, <2>6, DamagedLoss
  <2>8. Lost(a) \in Int
    <3>1. a \in States
      <4> HIDE DEF lasts
      <4> QED BY <1>3, <2>1, <2>5, DamagedFacts
    <3> QED BY <3>1, LostType
  <2> HIDE DEF burns
  <2>9. lasts <= burns /\ (s.elapsed + burns <= FireDuration => burns = lasts)
    BY <1>1, <1>7, LostType
  <2> HIDE DEF lasts
  <2>10. Lost(a) <= Lost(s) + burns
    BY <1>1, <1>3, <2>7, <2>8, <2>9
  <2>11. Exact /\ a.alive => Lost(a) = Lost(s) + burns
    BY <1>1, <1>7, <2>7, <2>9
  <2> QED BY <2>7, <2>10, <2>11 DEF Lit
<1> HIDE DEF a, burns
<1>8. Good
  BY <1>4, <1>5, <1>6, <1>7
<1>9. Exact /\ burns > 0 => a # s
  BY <1>1, <1>3, <1>8
<1> QED BY <1>1, <1>8, <1>9 DEF a, burns, Burning

\* A committed change keeps the time of a fire that goes on, and starts that
\* of a new one.
LEMMA CommittedFire ==
    ASSUME server \in Servers, NEW s \in States, NEW restart \in BOOLEAN, Lit(server.state),
           s.alive => server.state.alive,
           s.alive /\ server.state.fire => s.fire /\ s.elapsed = server.state.elapsed
    PROVE  LET after == Committed(s, restart).state IN
           Ages(server.state, after) /\ Lit(after) /\ after.health = s.health
<1> DEFINE after == IF server.state.fire /\ s.fire THEN s ELSE [s EXCEPT !.elapsed = 0]
<1>1. /\ after \in States /\ after.health = s.health /\ after.alive = s.alive
      /\ after.fire = s.fire
      /\ after.elapsed = IF server.state.fire /\ s.fire THEN s.elapsed ELSE 0
  BY CombatAssumption DEF States
<1>2. Committed(s, restart) = IF after = server.state /\ ~restart THEN server ELSE NewBase(after)
  BY DEF Committed
<1> HIDE DEF after
<1>3. NewBase(after).state = after
  BY DEF NewBase, Servers
<1>4. Committed(s, restart).state = after
  BY <1>2, <1>3
<1>5. server.state \in States
  BY DEF Servers
<1> QED BY <1>1, <1>4, <1>5, LostType DEF Ages, Lit

\* A shot puts no fire out but that of the wreck.
LEMMA StruckFire ==
    ASSUME server \in Servers, NEW kind \in HitKinds
    PROVE  /\ Struck(kind).alive => server.state.alive
           /\ Struck(kind).alive /\ server.state.fire =>
                 Struck(kind).fire /\ Struck(kind).elapsed = server.state.elapsed
<1>1. server.state \in States
  BY DEF Servers
<1>2. CASE kind = "damage"
  BY <1>1, <1>2, DamagedLoss DEF Struck
<1>3. CASE kind = "ignite"
  <2>1. Struck(kind) = [server.state EXCEPT !.fire = TRUE]
    BY <1>3 DEF Struck
  <2> QED BY <1>1, <2>1 DEF States
<1>4. CASE kind = "knockout"
  BY <1>1, <1>4, WreckFacts DEF Struck
<1>5. CASE kind = "again"
  BY <1>5 DEF Struck
<1> QED BY <1>2, <1>3, <1>4, <1>5 DEF HitKinds

\* The types of what is lost and charged.
LEMMA LossTypes ==
    ASSUME CombatInv
    PROVE  /\ \A k : Charged(sync.slices, k) \in Nat
           /\ IsFiniteSet(sync.slices) /\ sync.slices \in SUBSET Slices
           /\ count.hits \in Nat /\ count.burns \in Nat /\ count.falls \in Nat
           /\ count.merged \in Nat /\ Done \in Nat /\ Most \in Nat
           /\ Lost(server.state) \in Nat /\ Lost(worker.state) \in Nat
           /\ sync.published \in States /\ Lost(sync.published) \in Nat
           /\ \A i \in DOMAIN up : Lost(up[i].state) \in Nat
           /\ \A i \in DOMAIN down : Lost(down[i].state) \in Nat
<1>1. IsFiniteSet(sync.slices) /\ sync \in Syncs /\ count \in [Counted -> Nat]
  BY Typed DEF CombatInv, CountInv
<1>2. \A k : Charged(sync.slices, k) \in Nat
  BY <1>1, ChargedType
<1>3. /\ count.hits \in Nat /\ count.burns \in Nat /\ count.falls \in Nat
      /\ count.merged \in Nat
  BY <1>1 DEF Counted
<1>4. Done \in Nat /\ Most \in Nat
  BY <1>3 DEF Done, Most
<1>5. sync.published \in States /\ sync.slices \in SUBSET Slices
  BY <1>1 DEF Syncs
<1>6. \A s \in States : Lost(s) \in Nat
  BY LostType
<1> QED BY <1>1, <1>2, <1>3, <1>4, <1>5, <1>6, LineTypes

\* Ageing is an order, and keeps what is borne.
LEMMA AgesFacts ==
    ASSUME NEW s \in States, NEW t \in States, NEW u \in States, NEW w \in States,
           NEW owed \in Nat
    PROVE  /\ Ages(s, s)
           /\ Ages(s, t) /\ Ages(t, u) => Ages(s, u)
           /\ Bears(s, owed, w) /\ Ages(s, t) => Bears(t, owed, w)
<1>1. /\ s.elapsed \in Nat /\ t.elapsed \in Nat /\ u.elapsed \in Nat /\ w.elapsed \in Nat
      /\ FireDuration \in Nat
  BY LostType
<1>2. Ages(s, s)
  BY <1>1 DEF Ages
<1>3. Ages(s, t) /\ Ages(t, u) => Ages(s, u)
  BY <1>1 DEF Ages
<1>4. Bears(s, owed, w) /\ Ages(s, t) => Bears(t, owed, w)
  BY <1>1 DEF Ages, Bears
<1> QED BY <1>2, <1>3, <1>4

\* The server's state moves and its prefix of publications does not: by the
\* health it loses, which all may now have lost, and which all are charged
\* for only if a new base makes them learn of it.
LEMMA ServerMoves ==
    ASSUME CombatInv, CombatInv', LossInv, UNCHANGED <<worker, sync, down>>,
           NEW shift \in {0, 1},
           \A i \in DOMAIN up' : i \in Nat /\ i + shift \in DOMAIN up /\ up'[i] = up[i + shift],
           count'.burns = count.burns, server'.ack = server.ack,
           server'.base = server.base \/ server'.base > server.rev,
           Ages(server.state, server'.state), Lit(server'.state),
           NEW d \in Nat, NEW e \in Nat, e <= d, server'.base = server.base => e = 0,
           Lost(server'.state) = Lost(server.state) + d,
           Most' = Most + d, Done' = Done + e
    PROVE  LossInv'
<1>1. /\ server.ack \in Nat /\ server.base \in Nat /\ server.rev \in Nat /\ sync.base \in Nat
      /\ server.state \in States /\ worker.state \in States
      /\ \A i \in DOMAIN up : up[i].base \in Nat /\ up[i].seq \in Nat /\ up[i].state \in States
      /\ \A i \in DOMAIN down :
            down[i].base \in Nat /\ down[i].ack \in Nat /\ down[i].state \in States
  BY LineTypes
<1>2. /\ \A k : Charged(sync.slices, k) \in Nat
      /\ Lost(server.state) \in Nat /\ Lost(worker.state) \in Nat
      /\ Lost(sync.published) \in Nat /\ Done \in Nat /\ Most \in Nat
      /\ \A i \in DOMAIN up : Lost(up[i].state) \in Nat
      /\ \A i \in DOMAIN down : Lost(down[i].state) \in Nat
  BY LossTypes
<1>3. server'.state \in States /\ server'.base \in Nat
  BY DEF CombatInv, TypeOK
<1>4. /\ server.base <= server.rev /\ sync.base <= server.base
      /\ \A i \in DOMAIN up : up[i].base <= sync.base
  BY DEF CombatInv, BaseInv
<1>5. server'.base # server.base =>
         sync.base # server'.base /\ \A i \in DOMAIN up : up[i].base # server'.base
  BY <1>1, <1>3, <1>4
<1>6. OverInv'
  <2>1. \A m \in Int : m <= Most => m <= Most'
    BY <1>2
  <2>2. Lost(server'.state) + Charged(sync.slices, server.ack) <= Most'
    BY <1>2 DEF LossInv, OverInv
  <2>3. \A i \in DOMAIN up :
           up[i].base = sync.base =>
              Lost(up[i].state) + Charged(sync.slices, up[i].seq) <= Most'
    BY <1>2, <2>1 DEF LossInv, OverInv
  <2>4. \A i \in DOMAIN down :
           Lost(down[i].state) + Charged(sync.slices, down[i].ack) <= Most'
    BY <1>2, <2>1 DEF LossInv, OverInv
  <2>5. /\ Lost(worker.state) <= Most'
        /\ Lost(sync.published) + Charged(sync.slices, sync.next) <= Most'
    BY <1>2, <2>1 DEF LossInv, OverInv
  <2> QED BY <2>2, <2>3, <2>4, <2>5 DEF OverInv
<1>7. LitInv'
  BY DEF LossInv, LitInv
<1>8. AtInv'
  BY DEF LossInv, AtInv
<1>9. SeqInv'
  <2>1. ASSUME NEW i \in DOMAIN up', NEW j \in DOMAIN up', i < j, up'[i].base = up'[j].base
        PROVE  up'[i].seq <= up'[j].seq
    <3>1. i + shift < j + shift
      BY <2>1
    <3> QED BY <2>1, <3>1 DEF LossInv, SeqInv
  <2>2. \A i \in DOMAIN up' : up'[i].base = server'.base => server.ack <= up'[i].seq
    BY <1>5 DEF LossInv, SeqInv
  <2> QED BY <2>1, <2>2 DEF LossInv, SeqInv
<1>10. UnderInv'
  <2>1. Covers(server'.state, Charged(sync.slices, server.ack), worker.state, Done')
    <3>1. Bears(server'.state, Charged(sync.slices, server.ack), worker.state)
      BY <1>1, <1>2, <1>3, AgesFacts DEF LossInv, UnderInv, Covers
    <3>2. server'.state.alive =>
             Lost(server'.state) + Charged(sync.slices, server.ack) >= Done'
      <4>1. server'.state.alive =>
               Lost(server.state) + Charged(sync.slices, server.ack) >= Done
        BY DEF LossInv, UnderInv, Covers, Ages
      <4> QED BY <1>2, <4>1
    <3> QED BY <3>1, <3>2 DEF Covers
  <2>2. \A i \in DOMAIN up' :
           up'[i].base = server'.base =>
              Covers(up'[i].state, Charged(sync.slices, up'[i].seq), worker.state, Done')
    <3> SUFFICES ASSUME NEW i \in DOMAIN up', up'[i].base = server'.base
                 PROVE  Covers(up'[i].state, Charged(sync.slices, up'[i].seq), worker.state, Done')
      OBVIOUS
    <3>1. server'.base = server.base /\ Done' = Done
      BY <1>2, <1>5
    <3> QED BY <3>1 DEF LossInv, UnderInv
  <2>3. sync.base = server'.base =>
           /\ Covers(sync.published, Charged(sync.slices, sync.next), worker.state, Done')
           /\ worker.state.alive => Lost(worker.state) >= Done'
    <3> SUFFICES ASSUME sync.base = server'.base
                 PROVE  /\ Covers(sync.published, Charged(sync.slices, sync.next),
                                  worker.state, Done')
                        /\ worker.state.alive => Lost(worker.state) >= Done'
      OBVIOUS
    <3>1. server'.base = server.base /\ Done' = Done
      BY <1>2, <1>5
    <3> QED BY <3>1 DEF LossInv, UnderInv
  <2>4. \A i \in DOMAIN down :
           down[i].base > sync.base =>
              /\ Bears(down[i].state, Charged(sync.slices, down[i].ack), worker.state)
              /\ Ages(down[i].state, server'.state)
    BY <1>1, <1>3, AgesFacts DEF LossInv, UnderInv
  <2>5. \A i, j \in DOMAIN down :
           i < j /\ down[i].base > sync.base => Ages(down[i].state, down[j].state)
    BY DEF LossInv, UnderInv
  <2> QED BY <2>1, <2>2, <2>3, <2>4, <2>5 DEF UnderInv
<1> QED BY <1>6, <1>7, <1>8, <1>9, <1>10 DEF LossInv

LEMMA HitLoss ==
    ASSUME CombatInv, LossInv, NEW kind \in HitKinds, Hit(kind), CombatInv'
    PROVE  LossInv'
<1> DEFINE hit == Committed(Struck(kind), kind = "again")
<1>1. /\ server \in Servers /\ Sound(server.state) /\ server.state \in States
      /\ server.rev \in Nat /\ server.base \in Nat /\ count \in [Counted -> Nat]
      /\ Lit(server.state) /\ server.state.alive
  BY LineTypes, Typed DEF CombatInv, SoundInv, LossInv, LitInv, Hit
<1>2. /\ Struck(kind) \in States /\ Struck(kind).health <= server.state.health
  BY <1>1, StruckFacts
<1>3. /\ hit \in Servers /\ hit.ack = server.ack
      /\ hit.state.health = Struck(kind).health
      /\ hit = server \/ (hit.base = server.rev + 1 /\ hit.rev = server.rev + 1)
  BY <1>1, <1>2, CommittedFacts, CommittedAck
<1>4. Ages(server.state, hit.state) /\ Lit(hit.state)
  BY <1>1, <1>2, StruckFire, CommittedFire
<1>5. /\ server' = (IF hit.state.alive \/ hit.state.stun = 0 THEN hit
                    ELSE [hit EXCEPT !.state.stun = 0, !.rev = @ + 1, !.base = hit.rev + 1])
      /\ count' = [count EXCEPT !["shots"] = @ + 1,
                                !["hits"] = @ + server.state.health - hit.state.health]
      /\ UNCHANGED <<worker, sync, up, down>>
  BY DEF Hit
<1> HIDE DEF hit
<1>6. /\ server'.ack = server.ack /\ server'.state.health = hit.state.health
      /\ Ages(server.state, server'.state) /\ Lit(server'.state)
      /\ server' = server \/ server'.base > server.rev
  <2>1. CASE hit.state.alive \/ hit.state.stun = 0
    BY <1>1, <1>3, <1>4, <1>5, <2>1
  <2>2. CASE ~(hit.state.alive \/ hit.state.stun = 0)
    <3>1. server' = [hit EXCEPT !.state.stun = 0, !.rev = hit.rev + 1, !.base = hit.rev + 1]
      BY <1>3, <1>5, <2>2 DEF Servers
    <3>2. /\ server'.ack = hit.ack /\ server'.base = hit.rev + 1
          /\ server'.state = [hit.state EXCEPT !.stun = 0]
      BY <1>3, <3>1 DEF Servers
    <3>3. server'.state.health = hit.state.health /\ ~server'.state.alive
      BY <1>3, <2>2, <3>2 DEF Servers, States
    <3>4. hit.rev + 1 > server.rev
      BY <1>1, <1>3 DEF Servers
    <3> QED BY <1>3, <3>2, <3>3, <3>4 DEF Ages, Lit
  <2> QED BY <2>1, <2>2
<1> DEFINE d == server.state.health - hit.state.health
<1>7. /\ d \in Nat /\ server.state.health \in Nat /\ hit.state.health \in Nat
      /\ server' = server => d = 0
  BY <1>1, <1>2, <1>3, <1>6, LostType DEF Servers
<1>8. Lost(server'.state) = Lost(server.state) + d
  BY <1>6, <1>7, LostType, <1>1 DEF Lost
<1>9. /\ count'.hits = count.hits + d /\ count'.burns = count.burns
      /\ count'.falls = count.falls /\ count'.merged = count.merged
  <2>1. count'.hits = count.hits + server.state.health - hit.state.health
    BY <1>1, <1>5 DEF Counted
  <2>2. count.hits \in Nat
    BY LossTypes
  <2>3. /\ count'.burns = count.burns
        /\ count'.falls = count.falls /\ count'.merged = count.merged
    BY <1>1, <1>5 DEF Counted
  <2> QED BY <1>7, <2>1, <2>2, <2>3
<1> HIDE DEF d
<1>10. Most' = Most + d /\ Done' = Done + d
  BY <1>7, <1>9, LossTypes DEF Most, Done
<1>11. server'.base = server.base => d = 0
  <2>1. server.base <= server.rev
    BY DEF CombatInv, BaseInv
  <2> QED BY <1>1, <1>6, <1>7, <2>1
<1>12. \A i \in DOMAIN up' : i \in Nat /\ i + 0 \in DOMAIN up /\ up'[i] = up[i + 0]
  BY <1>5, Typed DEF CombatInv
<1>13. /\ UNCHANGED <<worker, sync, down>> /\ count'.burns = count.burns
       /\ server'.base = server.base \/ server'.base > server.rev
  BY <1>5, <1>6, <1>9
<1>14. d \in Nat /\ d <= d
  BY <1>7
<1> QED BY <1>6, <1>8, <1>10, <1>11, <1>12, <1>13, <1>14, ServerMoves

LEMMA StunLoss ==
    ASSUME CombatInv, LossInv, Stun \/ ExpireStun, CombatInv'
    PROVE  LossInv'
<1>1. /\ server \in Servers /\ server.state \in States /\ server.rev \in Nat
      /\ server.base \in Nat /\ count \in [Counted -> Nat] /\ Lit(server.state)
  BY LineTypes, Typed DEF CombatInv, LossInv, LitInv
<1>2. PICK n \in 0..MaxStuns :
         server' = Committed([server.state EXCEPT !.stun = n], FALSE)
  <2>1. CASE Stun
    <3>1. count["stuns"] \in Nat /\ count["stuns"] < MaxStuns /\ MaxStuns \in Nat
      BY <1>1, <2>1, CombatAssumption DEF Stun, Happens, Counted
    <3>2. count["stuns"] + 1 \in 0..MaxStuns
      BY <3>1
    <3>3. server' = Committed([server.state EXCEPT !.stun = count["stuns"] + 1], FALSE)
      BY <2>1 DEF Stun
    <3> QED BY <3>2, <3>3
  <2>2. CASE ExpireStun
    <3>1. 0 \in 0..MaxStuns
      BY CombatAssumption
    <3> QED BY <2>2, <3>1 DEF ExpireStun
  <2> QED BY <2>1, <2>2
<1> DEFINE s == [server.state EXCEPT !.stun = n]
<1>3. /\ s \in States /\ s.health = server.state.health /\ s.alive = server.state.alive
      /\ s.fire = server.state.fire /\ s.elapsed = server.state.elapsed
  BY <1>1 DEF States
<1> HIDE DEF s
<1>4. server' = Committed(s, FALSE)
  BY <1>2 DEF s
<1>5. /\ server'.ack = server.ack
      /\ server' = server \/ (server'.base = server.rev + 1 /\ server'.rev = server.rev + 1)
  BY <1>1, <1>3, <1>4, CommittedFacts, CommittedAck
<1>6. /\ Ages(server.state, server'.state) /\ Lit(server'.state)
      /\ server'.state.health = server.state.health
  BY <1>1, <1>3, <1>4, CommittedFire
<1>7. Lost(server'.state) = Lost(server.state) + 0
  BY <1>6, LossTypes DEF Lost
<1>8. /\ UNCHANGED <<worker, sync, up, down>>
      /\ count'.hits = count.hits /\ count'.burns = count.burns
      /\ count'.falls = count.falls /\ count'.merged = count.merged
  <2>1. CASE Stun
    <3>1. count' = [count EXCEPT !["stuns"] = @ + 1] /\ UNCHANGED <<worker, sync, up, down>>
      BY <2>1 DEF Stun, Counting
    <3> QED BY <1>1, <3>1 DEF Counted
  <2>2. CASE ExpireStun
    BY <2>2 DEF ExpireStun
  <2> QED BY <2>1, <2>2
<1>9. Most' = Most + 0 /\ Done' = Done + 0
  BY <1>8, LossTypes DEF Most, Done
<1>10. \A i \in DOMAIN up' : i \in Nat /\ i + 0 \in DOMAIN up /\ up'[i] = up[i + 0]
  BY <1>8, Typed DEF CombatInv
<1>11. server'.base = server.base \/ server'.base > server.rev
  BY <1>1, <1>5
<1> QED BY <1>5, <1>6, <1>7, <1>8, <1>9, <1>10, <1>11, ServerMoves

\* No snapshot acknowledges a publication that was not made.
LEMMA AckBounds ==
    ASSUME CombatInv, LineInv
    PROVE  \A i \in DOMAIN down : down[i].ack <= sync.next
<1> SUFFICES ASSUME NEW i \in DOMAIN down PROVE down[i].ack <= sync.next
  OBVIOUS
<1>1. /\ down[i].ack \in Nat /\ sync.acked \in Nat /\ sync.next \in Nat
      /\ sync.acked <= sync.next
  BY LineTypes DEF CombatInv, CountInv
<1>2. down[i].ack > sync.acked => \E p \in sync.pending : p.seq = down[i].ack
  BY DEF LineInv, AckInv, Pends
<1>3. \A p \in sync.pending : p.seq \in Nat /\ p.seq <= sync.next
  BY LineTypes DEF CombatInv, TypeOK
<1> QED BY <1>1, <1>2, <1>3

\* Whoever bore what it owed bears one slice more, which the worker's fire has
\* just burned; v is the worker's Bot after it.
LEMMA BearsMore ==
    ASSUME NEW s \in States, NEW w \in States, NEW v \in States, NEW owed \in Nat,
           Bears(s, owed, w), Lit(w), w.alive, NEW b \in Nat,
           b = IF w.fire THEN 1 ELSE 0,
           v.alive /\ v.fire => w.fire /\ v.elapsed = w.elapsed + b
    PROVE  Bears(s, owed + b, v)
<1>1. /\ s.elapsed \in Nat /\ w.elapsed \in Nat /\ v.elapsed \in Nat /\ FireDuration \in Nat
  BY LostType
<1>2. ASSUME s.alive, owed + b > 0 PROVE s.fire /\ s.elapsed + (owed + b) <= FireDuration
  <2>1. CASE w.fire
    <3>1. s.fire /\ s.elapsed + owed <= w.elapsed /\ w.elapsed < FireDuration /\ b = 1
      BY <1>2, <2>1 DEF Bears, Lit
    <3> QED BY <1>1, <3>1
  <2>2. CASE ~w.fire
    BY <1>1, <1>2, <2>2 DEF Bears
  <2> QED BY <2>1, <2>2
<1>3. ASSUME s.alive, v.alive, v.fire PROVE s.fire /\ s.elapsed + (owed + b) <= v.elapsed
  <2>1. s.fire /\ s.elapsed + owed <= w.elapsed /\ v.elapsed = w.elapsed + b
    BY <1>3 DEF Bears
  <2> QED BY <1>1, <2>1
<1> QED BY <1>2, <1>3 DEF Bears

LEMMA SliceLoss ==
    ASSUME CombatInv, LineInv, LossInv, NEW kit \in BOOLEAN, Slice(kit), CombatInv'
    PROVE  LossInv'
<1> DEFINE slice == [at |-> count.burns + worker.used, seq |-> sync.next + 1,
                     burns |-> worker.state.fire,
                     clears |-> IF kit THEN worker.state.stun ELSE 0]
           state == Advanced(worker.state, {slice})
           b == IF worker.state.fire THEN 1 ELSE 0
           used == worker.used + IF kit THEN 1 ELSE 0
           more == sync.slices \cup {slice}
           C(k) == Charged(sync.slices, k)
<1>1. /\ server.ack \in Nat /\ sync.next \in Nat /\ worker.used \in Nat
      /\ server.state \in States /\ worker.state \in States
      /\ \A i \in DOMAIN up : up[i].base \in Nat /\ up[i].seq \in Nat /\ up[i].state \in States
      /\ \A i \in DOMAIN down :
            down[i].base \in Nat /\ down[i].ack \in Nat /\ down[i].state \in States
  BY LineTypes
<1>2. /\ \A k : C(k) \in Nat
      /\ Lost(server.state) \in Nat /\ Lost(worker.state) \in Nat /\ sync.published \in States
      /\ Lost(sync.published) \in Nat /\ Done \in Nat /\ Most \in Nat
      /\ count.burns \in Nat /\ count.hits \in Nat /\ count.falls \in Nat /\ count.merged \in Nat
      /\ \A i \in DOMAIN up : Lost(up[i].state) \in Nat
      /\ \A i \in DOMAIN down : Lost(down[i].state) \in Nat
      /\ IsFiniteSet(sync.slices)
  BY LossTypes
<1>3. /\ worker.state.alive /\ (worker.state.fire \/ kit)
      /\ worker' = [state |-> state, used |-> used]
      /\ sync' = [sync EXCEPT !.slices = more]
      /\ count' = [count EXCEPT !["burns"] = @ + b]
      /\ UNCHANGED <<server, up, down>>
  BY DEF Slice, Counting
<1>4. /\ sync'.slices = more /\ sync'.base = sync.base /\ sync'.next = sync.next
      /\ sync'.published = sync.published
      /\ count'.burns = count.burns + b /\ count'.hits = count.hits
      /\ count'.falls = count.falls /\ count'.merged = count.merged
      /\ worker'.state = state /\ worker'.used = used
  <2> HIDE DEF more, state, b, used
  <2>1. sync \in Syncs /\ count \in [Counted -> Nat]
    BY Typed DEF CombatInv
  <2> QED BY <1>3, <2>1 DEF Syncs, Counted
<1>5. b \in Nat /\ count.burns + worker.used < count.burns + b + used
  BY <1>1, <1>2, <1>3
<1>6. /\ slice.at = count.burns + worker.used /\ slice.seq = sync.next + 1
      /\ slice.burns = worker.state.fire
  OBVIOUS
<1>7. slice \notin sync.slices
  <2>1. count.burns + worker.used \in Int
    BY <1>1, <1>2
  <2> HIDE DEF slice
  <2>2. \A c \in sync.slices : c.at < slice.at
    BY <1>6 DEF LossInv, AtInv
  <2> QED BY <1>6, <2>1, <2>2
<1>8. \A k \in Nat : k <= sync.next => Charged(more, k) = C(k) + b
  <2> SUFFICES ASSUME NEW k \in Nat, k <= sync.next PROVE Charged(more, k) = C(k) + b
    OBVIOUS
  <2> HIDE DEF slice
  <2>1. slice.seq > k
    BY <1>1, <1>6
  <2>2. Charged(more, k) = C(k) + IF slice.burns THEN 1 ELSE 0
    BY <1>2, <1>7, <2>1, ChargedMore
  <2> QED BY <1>6, <2>2
<1>9. /\ Lost(state) <= Lost(worker.state) + b /\ Lit(state)
      /\ state.alive /\ state.fire => worker.state.fire /\ state.elapsed = worker.state.elapsed + b
      /\ state.alive => Lost(state) = Lost(worker.state) + b
      /\ state \in States
  <2>1. Sound(worker.state) /\ Lit(worker.state)
    BY DEF CombatInv, SoundInv, LossInv, LitInv
  <2>2. IsFiniteSet({slice})
    BY FS_Singleton
  <2>3. Burning({slice}) = b
    <3> HIDE DEF slice
    <3>1. {c \in {slice} : c.burns} = IF worker.state.fire THEN {slice} ELSE {}
      BY <1>6
    <3> QED BY <3>1, FS_Singleton, FS_EmptySet DEF Burning
  <2>4. b > 0 => worker.state.fire /\ worker.state.elapsed + b <= FireDuration
    BY <1>1, <1>3, <2>1, LostType DEF Lit
  <2> HIDE DEF slice, b
  <2>5. /\ Lost(state) <= Lost(worker.state) + b /\ Lit(state)
        /\ state.alive /\ state.fire => worker.state.fire /\ state.elapsed = worker.state.elapsed + b
        /\ state.alive => Lost(state) = Lost(worker.state) + b
    BY <1>1, <1>3, <2>1, <2>2, <2>3, <2>4, AdvancedLoss
  <2>6. state \in States
    BY <1>1, <2>1, <2>2, AdvancedFacts
  <2> QED BY <2>5, <2>6
<1>10. b = IF worker.state.fire THEN 1 ELSE 0
  OBVIOUS
<1>11. /\ server.ack <= sync.next
       /\ \A i \in DOMAIN up : up[i].base = sync.base => up[i].seq <= sync.next
       /\ \A i \in DOMAIN down : down[i].ack <= sync.next
       /\ \A i \in DOMAIN up : up[i].base = server.base => up[i].seq <= sync.next
  <2>1. /\ server.ack <= sync.next
        /\ \A i \in DOMAIN up : up[i].base = sync.base => up[i].seq <= sync.next
    BY DEF LossInv, SeqInv
  <2>2. \A i \in DOMAIN up : up[i].base = server.base => up[i].base = sync.base
    BY LineTypes DEF CombatInv, BaseInv
  <2> QED BY <2>1, <2>2, AckBounds
<1>12. AtInv'
  <2> HIDE DEF slice, b, used
  <2>1. \A c \in sync.slices : c.at < count.burns + worker.used
    BY DEF LossInv, AtInv
  <2>2. \A c \in sync.slices : c.at \in Nat
    BY LossTypes DEF Slices
  <2>3. \A c \in more : c.at < count.burns + b + used
    <3>1. used \in Nat
      BY <1>1 DEF used
    <3>2. count.burns + worker.used \in Nat /\ count.burns + b + used \in Nat
      BY <1>1, <1>2, <1>5, <3>1
    <3> QED BY <1>5, <1>6, <2>1, <2>2, <3>2
  <2>4. \A c \in sync.slices : c.at # slice.at
    BY <1>1, <1>2, <1>6, <2>1, <2>2
  <2>5. \A c, e \in more : c.at = e.at => c = e
    BY <2>4 DEF LossInv, AtInv
  <2> QED BY <1>4, <2>3, <2>5 DEF AtInv
<1> HIDE DEF slice, state, b, used, more
<1>13. Done' = Done + b /\ Most' = Most + b
  BY <1>2, <1>4, <1>5 DEF Done, Most
<1>14. OverInv'
  <2>1. ASSUME NEW s \in States, NEW k \in Nat, k <= sync.next, Lost(s) + C(k) <= Most
        PROVE  Lost(s) + Charged(more, k) <= Most + b
    <3>1. Charged(more, k) = C(k) + b
      BY <1>8, <2>1
    <3>2. Lost(s) \in Nat /\ C(k) \in Nat
      BY <1>2, <2>1, LostType
    <3> HIDE DEF C
    <3> QED BY <1>2, <1>5, <2>1, <3>1, <3>2
  <2>2. Lost(server.state) + Charged(more, server.ack) <= Most + b
    BY <1>1, <1>11, <2>1 DEF LossInv, OverInv
  <2>3. Lost(sync.published) + Charged(more, sync.next) <= Most + b
    BY <1>1, <1>2, <2>1 DEF LossInv, OverInv
  <2>4. \A i \in DOMAIN up :
          up[i].base = sync.base => Lost(up[i].state) + Charged(more, up[i].seq) <= Most + b
    BY <1>1, <1>11, <2>1 DEF LossInv, OverInv
  <2>5. \A i \in DOMAIN down : Lost(down[i].state) + Charged(more, down[i].ack) <= Most + b
    BY <1>1, <1>11, <2>1 DEF LossInv, OverInv
  <2>6. Lost(state) <= Most + b
    <3>1. Lost(worker.state) <= Most /\ Lost(state) \in Nat
      BY <1>9, LostType DEF LossInv, OverInv
    <3> QED BY <1>2, <1>5, <1>9, <3>1
  <2> QED BY <1>3, <1>4, <1>13, <2>2, <2>3, <2>4, <2>5, <2>6 DEF OverInv
<1>15. LitInv'
  BY <1>3, <1>4, <1>9 DEF LossInv, LitInv
<1>16. SeqInv'
  BY <1>3, <1>4 DEF LossInv, SeqInv
<1>17. UnderInv'
  <2>1. ASSUME NEW s \in States, NEW k \in Nat, k <= sync.next, Bears(s, C(k), worker.state)
        PROVE  Bears(s, Charged(more, k), state)
    <3>1. Charged(more, k) = C(k) + b /\ C(k) \in Nat
      BY <1>2, <1>8, <2>1
    <3>2. Lit(worker.state)
      BY DEF LossInv, LitInv
    <3> HIDE DEF C
    <3> QED BY <1>1, <1>3, <1>5, <1>9, <1>10, <2>1, <3>1, <3>2, BearsMore
  <2>2. ASSUME NEW s \in States, NEW k \in Nat, k <= sync.next,
               Covers(s, C(k), worker.state, Done)
        PROVE  Covers(s, Charged(more, k), state, Done + b)
    <3>1. Charged(more, k) = C(k) + b /\ C(k) \in Nat /\ Lost(s) \in Nat
      BY <1>2, <1>8, <2>2, LostType
    <3>2. s.alive => Lost(s) + C(k) >= Done
      BY <2>2 DEF Covers
    <3>3. Bears(s, Charged(more, k), state)
      BY <2>1, <2>2 DEF Covers
    <3> HIDE DEF C
    <3>4. s.alive => Lost(s) + Charged(more, k) >= Done + b
      BY <1>2, <1>5, <3>1, <3>2
    <3> QED BY <3>3, <3>4 DEF Covers
  <2>3. Covers(server.state, Charged(more, server.ack), state, Done + b)
    BY <1>1, <1>11, <2>2 DEF LossInv, UnderInv
  <2>4. \A i \in DOMAIN up :
          up[i].base = server.base => Covers(up[i].state, Charged(more, up[i].seq), state, Done + b)
    BY <1>1, <1>11, <2>2 DEF LossInv, UnderInv
  <2>5. sync.base = server.base =>
          /\ Covers(sync.published, Charged(more, sync.next), state, Done + b)
          /\ state.alive => Lost(state) >= Done + b
    <3> SUFFICES ASSUME sync.base = server.base
                 PROVE  /\ Covers(sync.published, Charged(more, sync.next), state, Done + b)
                        /\ state.alive => Lost(state) >= Done + b
      OBVIOUS
    <3>1. Covers(sync.published, Charged(more, sync.next), state, Done + b)
      BY <1>1, <1>2, <2>2 DEF LossInv, UnderInv
    <3>2. Lost(worker.state) >= Done
      BY <1>3 DEF LossInv, UnderInv
    <3>3. state.alive => Lost(state) >= Done + b
      BY <1>2, <1>5, <1>9, <3>2
    <3> QED BY <3>1, <3>3
  <2>6. \A i \in DOMAIN down :
          down[i].base > sync.base =>
             /\ Bears(down[i].state, Charged(more, down[i].ack), state)
             /\ Ages(down[i].state, server.state)
    BY <1>1, <1>11, <2>1 DEF LossInv, UnderInv
  <2>7. \A i, j \in DOMAIN down :
          i < j /\ down[i].base > sync.base => Ages(down[i].state, down[j].state)
    BY DEF LossInv, UnderInv
  <2> QED BY <1>3, <1>4, <1>13, <2>3, <2>4, <2>5, <2>6, <2>7 DEF UnderInv
<1> QED BY <1>12, <1>14, <1>15, <1>16, <1>17 DEF LossInv

\* A landing is charged once, and lets the fire burn on.
LEMMA LandLoss ==
    ASSUME CombatInv, LossInv, Land, CombatInv'
    PROVE  LossInv'
<1> DEFINE state == Damaged(worker.state, 1)
<1>1. /\ worker \in Workers /\ worker.state \in States /\ count \in [Counted -> Nat]
      /\ worker.state.alive /\ UNCHANGED <<server, sync, up, down>>
  BY LineTypes, Typed DEF CombatInv, Land
<1>2. /\ worker' = [worker EXCEPT !.state = state]
      /\ count' = [count EXCEPT !["falls"] = @ + 1]
  BY <1>1 DEF Land, Counting, Workers
<1>3. /\ Lost(state) <= Lost(worker.state) + 1 /\ state \in States
      /\ state.alive =>
            /\ Lost(state) = Lost(worker.state) + 1
            /\ state.fire = worker.state.fire /\ state.elapsed = worker.state.elapsed
  BY <1>1, DamagedLoss, DamagedFacts
<1> HIDE DEF state
<1>4. /\ worker'.state = state /\ worker'.used = worker.used
      /\ count'.hits = count.hits /\ count'.burns = count.burns
      /\ count'.falls = count.falls + 1 /\ count'.merged = count.merged
  BY <1>1, <1>2 DEF Workers, Counted
<1>5. /\ \A k : Charged(sync.slices, k) \in Nat
      /\ Lost(server.state) \in Nat /\ Lost(worker.state) \in Nat /\ Lost(state) \in Nat
      /\ Lost(sync.published) \in Nat /\ Done \in Nat /\ Most \in Nat
      /\ \A i \in DOMAIN up : Lost(up[i].state) \in Nat
      /\ \A i \in DOMAIN down : Lost(down[i].state) \in Nat
  BY <1>3, LossTypes, LostType
<1>6. Done' = Done /\ Most' = Most + 1
  BY <1>4, LossTypes DEF Done, Most
<1>7. OverInv'
  <2>1. \A x \in Int : x <= Most => x <= Most + 1
    BY <1>5
  <2>2. Lost(state) <= Most + 1
    BY <1>3, <1>5 DEF LossInv, OverInv
  <2>3. /\ Lost(server.state) + Charged(sync.slices, server.ack) <= Most + 1
        /\ Lost(sync.published) + Charged(sync.slices, sync.next) <= Most + 1
    BY <1>5, <2>1 DEF LossInv, OverInv
  <2>4. \A i \in DOMAIN up :
          up[i].base = sync.base =>
             Lost(up[i].state) + Charged(sync.slices, up[i].seq) <= Most + 1
    BY <1>5, <2>1 DEF LossInv, OverInv
  <2>5. \A i \in DOMAIN down :
          Lost(down[i].state) + Charged(sync.slices, down[i].ack) <= Most + 1
    BY <1>5, <2>1 DEF LossInv, OverInv
  <2> QED BY <1>1, <1>4, <1>6, <2>2, <2>3, <2>4, <2>5 DEF OverInv
<1>8. LitInv'
  BY <1>1, <1>3, <1>4 DEF LossInv, LitInv, Lit
<1>9. AtInv' /\ SeqInv'
  BY <1>1, <1>4 DEF LossInv, AtInv, SeqInv
<1>10. UnderInv'
  <2>1. ASSUME NEW s, NEW owed, Bears(s, owed, worker.state) PROVE Bears(s, owed, state)
    BY <1>1, <1>3, <2>1 DEF Bears
  <2>2. ASSUME NEW s, NEW owed, Covers(s, owed, worker.state, Done)
        PROVE  Covers(s, owed, state, Done)
    BY <2>1, <2>2 DEF Covers
  <2>3. sync.base = server.base => (state.alive => Lost(state) >= Done)
    <3>1. sync.base = server.base => Lost(worker.state) >= Done
      BY <1>1 DEF LossInv, UnderInv
    <3> QED BY <1>3, <1>5, <3>1
  <2> QED BY <1>1, <1>4, <1>6, <2>1, <2>2, <2>3 DEF LossInv, UnderInv
<1> QED BY <1>7, <1>8, <1>9, <1>10 DEF LossInv

\* A publication shows what the worker has lost: it has consumed every slice.
LEMMA PublishLoss ==
    ASSUME CombatInv, LossInv, NEW encoded \in BOOLEAN, Publish(encoded), CombatInv'
    PROVE  LossInv'
<1> DEFINE C(k) == Charged(sync.slices, k)
<1>1. /\ sync \in Syncs /\ up \in Seq(Rows) /\ count \in [Counted -> Nat]
      /\ sync.next \in Nat /\ server.ack \in Nat /\ worker.state \in States
      /\ \A c \in sync.slices : c.seq \in (sync.acked + 1)..(sync.next + 1)
      /\ sync.acked \in Nat
  BY LineTypes, Typed DEF CombatInv, TypeOK
<1>2. /\ sync' = Marked /\ UNCHANGED <<server, worker, down>>
      /\ up' = Append(up, Row) \/ up' = up
      /\ count' = count \/ count' = [count EXCEPT !["failed"] = @ + 1]
  BY DEF Publish, Counting
<1>3. /\ Marked.base = sync.base /\ Marked.slices = sync.slices /\ Marked.published = worker.state
      /\ \/ Marked.next = sync.next /\ sync.published = worker.state
         \/ Marked.next = sync.next + 1
  <2>1. CASE worker.state = sync.published
    BY <2>1 DEF Marked
  <2>2. CASE worker.state # sync.published
    <3>1. Marked = [sync EXCEPT !.next = sync.next + 1,
                                !.pending = sync.pending \cup
                                   {[seq |-> sync.next + 1, state |-> worker.state]},
                                !.published = worker.state]
      BY <1>1, <2>2 DEF Marked, Syncs
    <3> QED BY <1>1, <3>1 DEF Syncs
  <2> QED BY <2>1, <2>2
<1>4. Row.base = sync.base /\ Row.state = worker.state /\ Row.seq = Marked.next
  BY DEF Row
<1> HIDE DEF Row
<1> DEFINE next == Marked.next
<1>5. next \in Nat /\ sync.next <= next /\ (next = sync.next \/ next = sync.next + 1)
  BY <1>1, <1>3
<1>6. /\ sync'.base = sync.base /\ sync'.slices = sync.slices /\ sync'.next = next
      /\ sync'.published = worker.state
  BY <1>2, <1>3
<1> HIDE DEF next
<1>7. next = sync.next + 1 => C(next) = 0
  BY <1>1, ChargedNone
<1>8. Lost(worker.state) + C(next) <= Most
  <2>1. CASE next = sync.next /\ sync.published = worker.state
    BY <2>1 DEF LossInv, OverInv
  <2>2. CASE next = sync.next + 1
    BY <1>7, <2>2, LossTypes DEF LossInv, OverInv
  <2> QED BY <1>3, <2>1, <2>2 DEF next
<1>9. sync.base = server.base =>
         /\ Covers(worker.state, C(next), worker.state, Done)
         /\ worker.state.alive => Lost(worker.state) >= Done
  <2> SUFFICES ASSUME sync.base = server.base
               PROVE  /\ Covers(worker.state, C(next), worker.state, Done)
                      /\ worker.state.alive => Lost(worker.state) >= Done
    OBVIOUS
  <2>1. /\ Covers(sync.published, C(sync.next), worker.state, Done)
        /\ worker.state.alive => Lost(worker.state) >= Done
    BY DEF LossInv, UnderInv
  <2>2. CASE next = sync.next /\ sync.published = worker.state
    BY <2>1, <2>2
  <2>3. CASE next = sync.next + 1
    <3>1. worker.state.elapsed \in Nat /\ Lost(worker.state) \in Nat
      BY <1>1, LostType
    <3> QED BY <1>7, <2>1, <2>3, <3>1 DEF Covers, Bears
  <2> QED BY <1>3, <2>1, <2>2, <2>3 DEF next
<1>10. \A i \in DOMAIN up' :
          \/ i \in DOMAIN up /\ up'[i] = up[i]
          \/ /\ up'[i].base = sync.base /\ up'[i].state = worker.state /\ up'[i].seq = next
             /\ \A j \in DOMAIN up' : j # i => j \in DOMAIN up /\ up'[j] = up[j] /\ j < i
  <2>1. CASE up' = Append(up, Row)
    BY <1>1, <1>4, <2>1 DEF next
  <2>2. CASE up' = up
    BY <2>2
  <2> QED BY <1>2, <2>1, <2>2
<1>11. Done' = Done /\ Most' = Most /\ count'.burns = count.burns
  <2>1. /\ count'.hits = count.hits /\ count'.burns = count.burns
        /\ count'.falls = count.falls /\ count'.merged = count.merged
    BY <1>1, <1>2 DEF Counted
  <2> QED BY <2>1 DEF Done, Most
<1>12. OverInv'
  <2>1. \A i \in DOMAIN up' :
           up'[i].base = sync.base => Lost(up'[i].state) + C(up'[i].seq) <= Most
    BY <1>8, <1>10 DEF LossInv, OverInv
  <2> QED BY <1>2, <1>6, <1>8, <1>11, <2>1 DEF LossInv, OverInv
<1>13. LitInv'
  BY <1>2, <1>10 DEF LossInv, LitInv
<1>14. AtInv'
  BY <1>2, <1>6, <1>11 DEF LossInv, AtInv
<1>15. SeqInv'
  <2>1. /\ server.ack <= next
        /\ \A i \in DOMAIN up : up[i].base = sync.base => up[i].seq <= next
    BY <1>1, <1>5, LineTypes DEF LossInv, SeqInv
  <2>2. \A i \in DOMAIN up' : up'[i].base = sync.base => up'[i].seq <= next
    BY <1>5, <1>10, <2>1
  <2>3. \A i \in DOMAIN up' : up'[i].base = server.base => server.ack <= up'[i].seq
    BY <1>10, <2>1 DEF LossInv, SeqInv
  <2>4. ASSUME NEW i \in DOMAIN up', NEW j \in DOMAIN up', i < j, up'[i].base = up'[j].base
        PROVE  up'[i].seq <= up'[j].seq
    <3>1. i \in Nat /\ j \in Nat
      <4>1. up' \in Seq(Rows)
        BY DEF CombatInv, TypeOK, Rows
      <4> QED BY <4>1
    <3>2. i \in DOMAIN up /\ up'[i] = up[i]
      BY <1>10, <2>4, <3>1
    <3>3. CASE j \in DOMAIN up /\ up'[j] = up[j]
      BY <2>4, <3>2, <3>3 DEF LossInv, SeqInv
    <3>4. CASE up'[j].base = sync.base /\ up'[j].seq = next
      BY <2>1, <2>4, <3>2, <3>4
    <3> QED BY <1>10, <3>3, <3>4
  <2> QED BY <1>2, <1>6, <2>1, <2>2, <2>3, <2>4 DEF SeqInv
<1>16. UnderInv'
  <2>1. \A i \in DOMAIN up' :
           up'[i].base = server.base => Covers(up'[i].state, C(up'[i].seq), worker.state, Done)
    BY <1>9, <1>10 DEF LossInv, UnderInv
  <2>2. /\ Covers(server.state, C(server.ack), worker.state, Done)
        /\ \A i \in DOMAIN down :
              down[i].base > sync.base =>
                 /\ Bears(down[i].state, C(down[i].ack), worker.state)
                 /\ Ages(down[i].state, server.state)
        /\ \A i, j \in DOMAIN down :
              i < j /\ down[i].base > sync.base => Ages(down[i].state, down[j].state)
    BY DEF LossInv, UnderInv
  <2> QED BY <1>2, <1>6, <1>9, <1>11, <2>1, <2>2 DEF UnderInv
<1> QED BY <1>12, <1>13, <1>14, <1>15, <1>16 DEF LossInv

\* What the server makes of a publication, by the cases of Taken: it keeps its
\* state and opens a base or not, or lowers the health to a refused row's, or
\* takes the row that follows its last.
LEMMA TakenLoss ==
    ASSUME server \in Servers, server.base <= server.rev, NEW row \in Rows,
           row.base <= server.base
    PROVE  LET taken == Taken(row) IN
           \/ /\ taken.state = server.state /\ taken.ack = server.ack /\ ~StunRefused(row)
              /\ taken.base = server.base \/ taken.base > server.rev
           \/ /\ StunRefused(row) /\ taken.ack = server.ack /\ taken.base = server.base
              /\ taken.state.fire = server.state.fire
              /\ taken.state.elapsed = server.state.elapsed
              /\ taken.state.health <= server.state.health
           \/ /\ row.base = server.base /\ row.seq = server.ack + 1 /\ ~StunRefused(row)
              /\ taken.ack = row.seq /\ taken.base = server.base
              /\ taken.state.alive => row.state.alive
              /\ taken.state.fire = row.state.fire
              /\ taken.state.elapsed = row.state.elapsed
              /\ \/ taken.state.health = row.state.health
                 \/ taken.state.health = server.state.health
              /\ taken.state.health <= row.state.health
<1> DEFINE Fence(s) == /\ s.state = server.state /\ s.ack = server.ack
                       /\ s.base = server.base \/ s.base > server.rev
           Contain(s) == /\ s.ack = server.ack /\ s.base = server.base
                         /\ s.state.fire = server.state.fire
                         /\ s.state.elapsed = server.state.elapsed
                         /\ s.state.health <= server.state.health
           Accept(s) == /\ s.ack = row.seq /\ s.base = server.base
                        /\ s.state.alive => row.state.alive
                        /\ s.state.fire = row.state.fire
                        /\ s.state.elapsed = row.state.elapsed
                        /\ \/ s.state.health = row.state.health
                           \/ s.state.health = server.state.health
                        /\ s.state.health <= row.state.health
<1>1. /\ server.state \in States /\ row.state \in States
      /\ server.rev \in Nat /\ server.base \in Nat /\ row.base \in Nat /\ row.seq \in Nat
      /\ server.ack \in Nat
      /\ row.used \in 0..MaxKits /\ server.state.health \in Nat /\ row.state.health \in Nat
  BY CombatAssumption DEF Servers, Rows, States
<1>2. Fence(Fenced(row)) /\ Fenced(row) \in Servers
  BY <1>1 DEF Fenced, Servers
<1>3. Fence(Answered(row))
  <2> DEFINE revision == (IF row.base > server.rev THEN row.base ELSE server.rev) + 1
  <2>1. revision \in Nat /\ revision > server.rev
    BY <1>1
  <2> HIDE DEF revision
  <2>2. Answered(row) = [Fenced(row) EXCEPT !.rev = revision, !.base = revision]
    BY DEF Answered, revision
  <2>3. /\ Answered(row).state = Fenced(row).state /\ Answered(row).ack = Fenced(row).ack
        /\ Answered(row).base = revision
    BY <1>2, <2>2 DEF Servers
  <2> QED BY <1>2, <2>1, <2>3
<1>4. Contain(Contained(row))
  <2> DEFINE one == [server.state EXCEPT !.health = Merged(row).health]
             two == [one EXCEPT !.alive = Merged(row).alive]
  <2>1. Contained(row) = [server EXCEPT !.state = two]
    BY <1>1 DEF Contained, Servers, States
  <2>2. Merged(row).health \in 0..Full /\ Merged(row).alive \in BOOLEAN
        /\ Merged(row).health <= server.state.health
    BY MergedFacts DEF States
  <2>3. one \in States /\ one.health = Merged(row).health /\ one.fire = server.state.fire
        /\ one.elapsed = server.state.elapsed
    BY <1>1, <2>2 DEF States
  <2> HIDE DEF one
  <2>4. two.health = Merged(row).health /\ two.fire = server.state.fire
        /\ two.elapsed = server.state.elapsed
    BY <2>2, <2>3 DEF States
  <2> HIDE DEF two
  <2>5. /\ Contained(row).state = two /\ Contained(row).ack = server.ack
        /\ Contained(row).base = server.base
    BY <2>1 DEF Servers
  <2> QED BY <2>2, <2>4, <2>5
<1>5. Accept(Accepted(row))
  <2> DEFINE health == Least(row.state.health, server.state.health)
             lower == [row.state EXCEPT !.health = health]
  <2>1. Merged(row) = [lower EXCEPT !.alive = row.state.alive /\ health > 0]
    BY <1>1 DEF Merged, States
  <2>2. /\ health \in 0..Full /\ health <= row.state.health
        /\ health = row.state.health \/ health = server.state.health
    BY <1>1, CombatAssumption DEF States, Least
  <2> HIDE DEF health
  <2>3. lower \in States /\ lower.health = health /\ lower.fire = row.state.fire
        /\ lower.elapsed = row.state.elapsed
    BY <1>1, <2>2 DEF States
  <2> HIDE DEF lower
  <2>4. (row.state.alive /\ health > 0) \in BOOLEAN
    BY <1>1, <2>2 DEF States
  <2>5. /\ Merged(row).health = health /\ Merged(row).fire = row.state.fire
        /\ Merged(row).elapsed = row.state.elapsed
        /\ Merged(row).alive = (row.state.alive /\ health > 0)
    BY <2>1, <2>3, <2>4 DEF States
  <2>6. /\ Accepted(row).state = Merged(row) /\ Accepted(row).ack = row.seq
        /\ Accepted(row).base = server.base
    BY DEF Accepted, Servers
  <2> QED BY <2>2, <2>5, <2>6
<1> DEFINE taken == Taken(row)
<1>6. \/ taken = Contained(row) /\ StunRefused(row)
      \/ taken = Answered(row) /\ ~StunRefused(row)
      \/ taken = Fenced(row) /\ ~StunRefused(row)
      \/ /\ taken = Accepted(row) /\ ~StunRefused(row) /\ ~Foreign(row)
         /\ ~(row.base < server.base) /\ row.seq # server.ack
  BY DEF Taken
<1> HIDE DEF taken
<1>7. ~Foreign(row) /\ ~(row.base < server.base) /\ row.seq # server.ack =>
         row.base = server.base /\ row.seq = server.ack + 1
  BY <1>1 DEF Foreign
<1>8. CASE taken = Contained(row) /\ StunRefused(row)
  BY <1>4, <1>8 DEF taken
<1>9. CASE taken = Answered(row) /\ ~StunRefused(row)
  BY <1>3, <1>9 DEF taken
<1>10. CASE taken = Fenced(row) /\ ~StunRefused(row)
  BY <1>2, <1>10 DEF taken
<1>11. CASE /\ taken = Accepted(row) /\ ~StunRefused(row) /\ ~Foreign(row)
            /\ ~(row.base < server.base) /\ row.seq # server.ack
  BY <1>5, <1>7, <1>11 DEF taken
<1> QED BY <1>6, <1>8, <1>9, <1>10, <1>11

LEMMA ReceiveLoss ==
    ASSUME CombatInv, LossInv, Receive, CombatInv', server'.state.alive => server.state.alive
    PROVE  LossInv'
<1> DEFINE row == Head(up)
           C(k) == Charged(sync.slices, k)
<1>1. /\ server \in Servers /\ up \in Seq(Rows) /\ count \in [Counted -> Nat]
      /\ server.state \in States /\ server.state.health \in Nat
      /\ server.rev \in Nat /\ server.base \in Nat /\ server.ack \in Nat
      /\ server'.state \in States /\ server'.state.health \in Nat
  <2>1. server'.state \in States
    BY DEF CombatInv, TypeOK
  <2> QED BY <2>1, LineTypes, LostType, Typed DEF CombatInv
<1>2. /\ up # <<>> /\ server' = Taken(row) /\ up' = Tail(up)
      /\ UNCHANGED <<worker, sync, down>>
      /\ count' = [count EXCEPT !["merged"] =
                      @ + IF StunRefused(row) THEN server.state.health - server'.state.health ELSE 0]
  BY DEF Receive, Counting
<1>3. /\ 1 \in DOMAIN up /\ row = up[1]
      /\ \A i \in DOMAIN up' : i \in Nat /\ i > 0 /\ i + 1 \in DOMAIN up /\ up'[i] = up[i + 1]
  BY <1>1, <1>2
<1>4. /\ row \in Rows /\ row.state \in States /\ row.seq \in Nat
      /\ server.base <= server.rev /\ row.base <= sync.base /\ sync.base <= server.base
      /\ sync.base \in Nat /\ row.base \in Nat /\ row.base <= server.base
  <2>1. /\ row \in Rows /\ row.state \in States /\ row.seq \in Nat /\ row.base \in Nat
        /\ sync.base \in Nat
    BY <1>3, LineTypes
  <2>2. server.base <= server.rev /\ row.base <= sync.base /\ sync.base <= server.base
    BY <1>3 DEF CombatInv, BaseInv
  <2> QED BY <1>1, <2>1, <2>2
<1> HIDE DEF row
<1>5. /\ count'.hits = count.hits /\ count'.burns = count.burns /\ count'.falls = count.falls
      /\ count'.merged = count.merged +
            IF StunRefused(row) THEN server.state.health - server'.state.health ELSE 0
  BY <1>1, <1>2 DEF Counted
<1>6. Done' = Done
  BY <1>5 DEF Done
<1>7. CASE /\ server'.state = server.state /\ server'.ack = server.ack /\ ~StunRefused(row)
           /\ server'.base = server.base \/ server'.base > server.rev
  <2>1. Most' = Most + 0 /\ Done' = Done + 0
    BY <1>5, <1>6, <1>7, LossTypes DEF Most
  <2>2. Ages(server.state, server'.state) /\ Lit(server'.state)
        /\ Lost(server'.state) = Lost(server.state) + 0
    BY <1>1, <1>7, AgesFacts, LossTypes DEF LossInv, LitInv
  <2> QED BY <1>2, <1>3, <1>5, <1>7, <2>1, <2>2, ServerMoves
<1>8. CASE /\ StunRefused(row) /\ server'.ack = server.ack /\ server'.base = server.base
           /\ server'.state.fire = server.state.fire
           /\ server'.state.elapsed = server.state.elapsed
           /\ server'.state.health <= server.state.health
  <2> DEFINE d == server.state.health - server'.state.health
  <2>1. d \in Nat /\ 0 \in Nat /\ 0 <= d
    <3>1. \A x, y \in Nat : y <= x => x - y \in Nat /\ 0 \in Nat /\ 0 <= x - y
      OBVIOUS
    <3> QED BY <1>1, <1>8, <3>1
  <2>2. Lost(server'.state) = Lost(server.state) + d
    <3>1. \A x, y, z \in Nat : x - y = x - z + (z - y)
      OBVIOUS
    <3>2. Full \in Nat /\ server.state.health \in Nat /\ server'.state.health \in Nat
      BY <1>1, LostType
    <3> QED BY <3>1, <3>2 DEF Lost
  <2>3. count'.merged = count.merged + d
    BY <1>5, <1>8
  <2> HIDE DEF d
  <2>4. Most' = Most + d /\ Done' = Done + 0
    BY <1>5, <1>6, <2>1, <2>3, LossTypes DEF Most
  <2>5. Ages(server.state, server'.state) /\ Lit(server'.state)
    <3>1. server.state.elapsed \in Nat /\ Lit(server.state)
      BY <1>1, LostType DEF LossInv, LitInv
    <3> QED BY <1>8, <3>1 DEF Ages, Lit
  <2> QED BY <1>2, <1>3, <1>5, <1>8, <2>1, <2>2, <2>4, <2>5, ServerMoves
<1>9. CASE /\ row.base = server.base /\ row.seq = server.ack + 1 /\ ~StunRefused(row)
           /\ server'.ack = row.seq /\ server'.base = server.base
           /\ server'.state.alive => row.state.alive
           /\ server'.state.fire = row.state.fire
           /\ server'.state.elapsed = row.state.elapsed
           /\ \/ server'.state.health = row.state.health
              \/ server'.state.health = server.state.health
           /\ server'.state.health <= row.state.health
  <2>1. Most' = Most
    <3>1. count'.merged = count.merged
      BY <1>5, <1>9, LossTypes
    <3> QED BY <1>5, <1>6, <3>1 DEF Most
  <2>2. row.base = sync.base /\ sync.base = server.base
    BY <1>1, <1>4, <1>9
  <2>3. /\ C(row.seq) \in Nat /\ C(server.ack) \in Nat /\ C(row.seq) <= C(server.ack)
        /\ Lost(server.state) \in Nat /\ Lost(row.state) \in Nat /\ Most \in Nat /\ Done \in Nat
    <3>1. \A c \in sync.slices : c.seq > row.seq => c.seq > server.ack
      <4>1. \A c \in sync.slices : c.seq \in Nat
        BY LossTypes DEF Slices
      <4> QED BY <1>1, <1>9, <4>1
    <3>2. C(row.seq) <= C(server.ack)
      BY <3>1, LossTypes, ChargedLess
    <3> QED BY <1>4, <3>2, LossTypes, LostType
  <2>4. Lost(row.state) + C(row.seq) <= Most /\ Lost(server.state) + C(server.ack) <= Most
    BY <1>3, <2>2 DEF LossInv, OverInv
  <2>5. Covers(row.state, C(row.seq), worker.state, Done) /\ Lit(row.state)
    BY <1>3, <1>9 DEF LossInv, UnderInv, LitInv
  <2>6. /\ Lost(server'.state) = Lost(row.state) \/ Lost(server'.state) = Lost(server.state)
        /\ Lost(row.state) <= Lost(server'.state)
    <3>1. /\ server'.state.health \in Nat /\ row.state.health \in Nat /\ Full \in Nat
          /\ server'.state.health <= row.state.health
      BY <1>1, <1>4, <1>9, LostType
    <3>2. Lost(server'.state) = Lost(row.state) \/ Lost(server'.state) = Lost(server.state)
      BY <1>9 DEF Lost
    <3>3. Lost(row.state) <= Lost(server'.state)
      BY <3>1 DEF Lost
    <3> QED BY <3>2, <3>3
  <2>7. OverInv'
    <3>1. Lost(server'.state) + C(row.seq) <= Most
      BY <2>3, <2>4, <2>6
    <3> QED BY <1>2, <1>3, <1>9, <2>1, <3>1 DEF LossInv, OverInv
  <2>8. LitInv'
    <3>1. Lit(server'.state)
      BY <1>9, <2>5 DEF Lit
    <3> QED BY <1>2, <1>3, <3>1 DEF LossInv, LitInv
  <2>9. AtInv'
    BY <1>2, <1>5 DEF LossInv, AtInv
  <2>10. SeqInv'
    <3>1. row.seq <= sync.next
      BY <1>3, <2>2 DEF LossInv, SeqInv
    <3>2. \A i \in DOMAIN up' : up'[i].base = server.base => row.seq <= up'[i].seq
      <4>1. \A i \in DOMAIN up' : 1 < i + 1
        BY <1>3
      <4> QED BY <1>3, <1>9, <4>1 DEF LossInv, SeqInv
    <3>3. ASSUME NEW i \in DOMAIN up', NEW j \in DOMAIN up', i < j, up'[i].base = up'[j].base
          PROVE  up'[i].seq <= up'[j].seq
      <4>1. i + 1 < j + 1
        BY <1>3, <3>3
      <4> QED BY <1>3, <3>3, <4>1 DEF LossInv, SeqInv
    <3>4. \A i \in DOMAIN up' : up'[i].base = sync.base => up'[i].seq <= sync.next
      BY <1>3 DEF LossInv, SeqInv
    <3> QED BY <1>2, <1>9, <3>1, <3>2, <3>3, <3>4 DEF SeqInv
  <2>11. UnderInv'
    <3>1. Covers(server'.state, C(row.seq), worker.state, Done)
      <4>1. Bears(server'.state, C(row.seq), worker.state)
        BY <1>9, <2>5 DEF Covers, Bears
      <4>2. server'.state.alive => Lost(server'.state) + C(row.seq) >= Done
        <5>1. row.state.alive => Lost(row.state) + C(row.seq) >= Done
          BY <2>5 DEF Covers
        <5> QED BY <1>9, <2>3, <2>6, <5>1
      <4> QED BY <4>1, <4>2 DEF Covers
    <3>2. \A i \in DOMAIN down : ~(down[i].base > sync.base)
      BY <1>1, <2>2, LineTypes DEF CombatInv, BaseInv
    <3>3. \A i \in DOMAIN up' :
             up'[i].base = server.base => Covers(up'[i].state, C(up'[i].seq), worker.state, Done)
      BY <1>3 DEF LossInv, UnderInv
    <3> QED BY <1>2, <1>6, <1>9, <3>1, <3>2, <3>3 DEF LossInv, UnderInv
  <2> QED BY <2>7, <2>8, <2>9, <2>10, <2>11 DEF LossInv
<1> QED BY <1>1, <1>2, <1>4, <1>7, <1>8, <1>9, TakenLoss

\* A snapshot shows what the server has lost.
LEMMA BroadcastLoss ==
    ASSUME CombatInv, LossInv, Broadcast
    PROVE  LossInv'
<1> DEFINE C(k) == Charged(sync.slices, k)
<1>1. /\ down \in Seq(Snapshots) /\ Len(down) \in Nat /\ server.state \in States
      /\ UNCHANGED <<server, worker, sync, up, count>>
      /\ \/ Len(down) < MaxDown /\ down' = Append(down, Snapshot)
         \/ down # <<>> /\ down' = [down EXCEPT ![Len(down)] = Snapshot]
  BY LineTypes, Typed DEF CombatInv, Broadcast
<1>2. /\ Snapshot.base = server.base /\ Snapshot.ack = server.ack
      /\ Snapshot.state = server.state
  BY DEF Snapshot
<1> HIDE DEF Snapshot
<1>3. \A i \in DOMAIN down' :
         \/ i \in DOMAIN down /\ down'[i] = down[i]
         \/ down'[i] = Snapshot /\ \A j \in DOMAIN down' : j # i => j < i
  <2>1. CASE Len(down) < MaxDown /\ down' = Append(down, Snapshot)
    BY <1>1, <2>1
  <2>2. CASE down # <<>> /\ down' = [down EXCEPT ![Len(down)] = Snapshot]
    BY <1>1, <2>2
  <2> QED BY <1>1, <2>1, <2>2
<1>4. \A i \in DOMAIN down' : i \in Nat
  BY <1>1
<1>5. Done' = Done /\ Most' = Most
  BY <1>1 DEF Done, Most
<1>6. OverInv'
  <2>1. \A i \in DOMAIN down' : Lost(down'[i].state) + C(down'[i].ack) <= Most
    BY <1>2, <1>3 DEF LossInv, OverInv
  <2> QED BY <1>1, <1>5, <2>1 DEF LossInv, OverInv
<1>7. LitInv'
  BY <1>1, <1>2, <1>3 DEF LossInv, LitInv
<1>8. AtInv' /\ SeqInv'
  BY <1>1 DEF LossInv, AtInv, SeqInv
<1>9. UnderInv'
  <2>1. Ages(server.state, server.state)
    BY <1>1, LostType DEF Ages
  <2>2. \A i \in DOMAIN down' :
           down'[i].base > sync.base =>
              /\ Bears(down'[i].state, C(down'[i].ack), worker.state)
              /\ Ages(down'[i].state, server.state)
    BY <1>2, <1>3, <2>1 DEF LossInv, UnderInv, Covers
  <2>3. ASSUME NEW i \in DOMAIN down', NEW j \in DOMAIN down', i < j, down'[i].base > sync.base
        PROVE  Ages(down'[i].state, down'[j].state)
    <3>1. i \in DOMAIN down /\ down'[i] = down[i]
      BY <1>3, <1>4, <2>3
    <3>2. CASE j \in DOMAIN down /\ down'[j] = down[j]
      BY <2>3, <3>1, <3>2 DEF LossInv, UnderInv
    <3>3. CASE down'[j] = Snapshot
      BY <1>2, <2>3, <3>1, <3>3 DEF LossInv, UnderInv
    <3> QED BY <1>3, <3>2, <3>3
  <2>4. /\ Covers(server.state, C(server.ack), worker.state, Done)
        /\ \A i \in DOMAIN up :
             up[i].base = server.base => Covers(up[i].state, C(up[i].seq), worker.state, Done)
        /\ sync.base = server.base =>
              /\ Covers(sync.published, C(sync.next), worker.state, Done)
              /\ worker.state.alive => Lost(worker.state) >= Done
    BY DEF LossInv, UnderInv
  <2> QED BY <1>1, <1>5, <2>2, <2>3, <2>4 DEF UnderInv
<1> QED BY <1>6, <1>7, <1>8, <1>9 DEF LossInv

\* The slices a snapshot acknowledges were charged to everybody who has gone on
\* from it.
LEMMA AcknowledgeLoss ==
    ASSUME CombatInv, LineInv, LossInv, down # <<>>, down' = Tail(down),
           UNCHANGED <<server, up, count>>, CombatInv',
           ~MovedBackwards(down[1]), down[1].base = sync.base, Acknowledge(down[1])
    PROVE  LossInv'
<1> DEFINE m == down[1]
           C(k) == Charged(sync.slices, k)
           kept == {c \in sync.slices : c.seq > m.ack}
<1>1. sync \in Syncs /\ down \in Seq(Snapshots)
  BY Typed DEF CombatInv
<1>2. /\ 1 \in DOMAIN down
      /\ \A i \in DOMAIN down' :
            i \in Nat /\ i > 0 /\ i + 1 \in DOMAIN down /\ down'[i] = down[i + 1]
  BY <1>1
<1>3. /\ sync'.base = sync.base /\ sync'.next = sync.next /\ sync'.published = sync.published
      /\ sync'.slices = kept /\ UNCHANGED worker
  BY <1>1 DEF Acknowledge, Syncs
<1>4. /\ m.ack \in Nat /\ m.ack <= sync.next /\ sync.next \in Nat /\ server.ack \in Nat
      /\ Ordered(m, server) /\ m.base = sync.base
  BY <1>2, LineTypes DEF MovedBackwards, LineInv, OrderInv
<1>5. m.ack <= server.ack
  BY <1>4 DEF Ordered
<1>6. \A i \in DOMAIN down' : m.ack <= down'[i].ack
  <2>1. ASSUME NEW i \in DOMAIN down' PROVE Ordered(m, down[i + 1])
    <3>1. 1 < i + 1
      BY <1>2
    <3> QED BY <1>2, <3>1 DEF LineInv, OrderInv
  <2>2. \A x, y : Ordered(x, y) => x.ack <= y.ack
    BY DEF Ordered
  <2> QED BY <1>2, <2>1, <2>2
<1>7. \A i \in DOMAIN up : up[i].base = server.base => m.ack <= up[i].seq
  <2>1. \A i \in DOMAIN up : up[i].base = server.base => server.ack <= up[i].seq
    BY DEF LossInv, SeqInv
  <2>2. \A i \in DOMAIN up : up[i].seq \in Nat
    BY LineTypes
  <2>3. \A n \in Nat : server.ack <= n => m.ack <= n
    BY <1>4, <1>5
  <2> QED BY <2>1, <2>2, <2>3
<1> HIDE DEF m
<1>8. \A k \in Nat : m.ack <= k => Charged(kept, k) = C(k)
  BY <1>4, LossTypes, ChargedKept
<1>9. \A k : Charged(kept, k) \in Nat /\ C(k) \in Nat /\ Charged(kept, k) <= C(k)
  <2> SUFFICES ASSUME NEW k
               PROVE  Charged(kept, k) \in Nat /\ C(k) \in Nat /\ Charged(kept, k) <= C(k)
    OBVIOUS
  <2>1. IsFiniteSet(kept) /\ kept \in SUBSET sync.slices
    BY LossTypes, FS_Subset
  <2>2. Charged(kept, k) \in Nat
    BY <2>1, ChargedType
  <2>3. Charged(kept, k) <= C(k)
    BY <2>1, LossTypes, ChargedLess
  <2> QED BY <2>2, <2>3, LossTypes
<1>10. Done' = Done /\ Most' = Most /\ count'.burns = count.burns
  BY DEF Done, Most
<1>11. OverInv'
  <2>1. ASSUME NEW x \in Nat, NEW k, x + C(k) <= Most PROVE x + Charged(kept, k) <= Most
    <3>1. C(k) \in Nat /\ Charged(kept, k) \in Nat /\ Charged(kept, k) <= C(k) /\ Most \in Nat
      BY <1>9, LossTypes
    <3> QED BY <2>1, <3>1
  <2>2. Lost(server.state) + Charged(kept, server.ack) <= Most
    BY <2>1, LossTypes DEF LossInv, OverInv
  <2>3. Lost(sync.published) + Charged(kept, sync.next) <= Most
    BY <2>1, LossTypes DEF LossInv, OverInv
  <2>4. \A i \in DOMAIN up :
          up[i].base = sync.base => Lost(up[i].state) + Charged(kept, up[i].seq) <= Most
    BY <2>1, LossTypes DEF LossInv, OverInv
  <2>5. \A i \in DOMAIN down : Lost(down[i].state) + Charged(kept, down[i].ack) <= Most
    BY <2>1, LossTypes DEF LossInv, OverInv
  <2>6. Lost(worker.state) <= Most
    BY DEF LossInv, OverInv
  <2> HIDE DEF kept
  <2> QED BY <1>2, <1>3, <1>10, <2>2, <2>3, <2>4, <2>5, <2>6 DEF OverInv
<1>12. LitInv'
  BY <1>2, <1>3 DEF LossInv, LitInv
<1>13. AtInv'
  BY <1>3, <1>10 DEF LossInv, AtInv
<1>14. SeqInv'
  BY <1>3 DEF LossInv, SeqInv
<1>15. UnderInv'
  <2>1. Covers(server.state, Charged(kept, server.ack), worker.state, Done)
    BY <1>4, <1>5, <1>8 DEF LossInv, UnderInv
  <2>2. \A i \in DOMAIN up :
          up[i].base = server.base =>
             Covers(up[i].state, Charged(kept, up[i].seq), worker.state, Done)
    BY <1>7, <1>8, LineTypes DEF LossInv, UnderInv
  <2>3. sync.base = server.base =>
          /\ Covers(sync.published, Charged(kept, sync.next), worker.state, Done)
          /\ worker.state.alive => Lost(worker.state) >= Done
    BY <1>4, <1>8 DEF LossInv, UnderInv
  <2>4. ASSUME NEW i \in DOMAIN down', down'[i].base > sync.base
        PROVE  /\ Bears(down'[i].state, Charged(kept, down'[i].ack), worker.state)
               /\ Ages(down'[i].state, server.state)
    <3>1. down'[i].ack \in Nat /\ down'[i] = down[i + 1] /\ i + 1 \in DOMAIN down
      BY <1>2, LineTypes
    <3>2. Charged(kept, down'[i].ack) = C(down'[i].ack)
      BY <1>6, <1>8, <3>1
    <3> QED BY <2>4, <3>1, <3>2 DEF LossInv, UnderInv
  <2>5. ASSUME NEW i \in DOMAIN down', NEW j \in DOMAIN down', i < j, down'[i].base > sync.base
        PROVE  Ages(down'[i].state, down'[j].state)
    <3>1. i + 1 < j + 1
      BY <1>2, <2>5
    <3> QED BY <1>2, <2>5, <3>1 DEF LossInv, UnderInv
  <2> HIDE DEF kept
  <2> QED BY <1>3, <1>10, <2>1, <2>2, <2>3, <2>4, <2>5 DEF UnderInv
<1> QED BY <1>11, <1>12, <1>13, <1>14, <1>15 DEF LossInv

\* The slices replayed on a new base are charged anew, to the worker's Bot and,
\* when they show, to whoever goes on from that base: as many as had not been
\* consumed, and to each as before.
LEMMA RebaseLoss ==
    ASSUME CombatInv, LineInv, LossInv, down # <<>>, down' = Tail(down),
           UNCHANGED <<server, up, count>>, CombatInv',
           ~MovedBackwards(down[1]), down[1].base # sync.base, Rebase(down[1])
    PROVE  LossInv'
<1> DEFINE m == down[1]
           C(k) == Charged(sync.slices, k)
           kept == {c \in sync.slices : c.seq > m.ack}
           replayed == {[c EXCEPT !.seq = m.ack + 1] : c \in kept}
           state == Advanced(m.state, replayed)
           left == IF state = m.state THEN {} ELSE replayed
           owed == C(m.ack)
<1>1. down \in Seq(Snapshots) /\ worker \in Workers
  BY Typed DEF CombatInv
<1>2. /\ 1 \in DOMAIN down
      /\ \A i \in DOMAIN down' :
            i \in Nat /\ i > 0 /\ i + 1 \in DOMAIN down /\ down'[i] = down[i + 1]
  BY <1>1
<1>3. /\ m.state \in States /\ m.ack \in Nat /\ m.base \in Nat /\ sync.base \in Nat
      /\ server.base \in Nat /\ server.ack \in Nat /\ server.state \in States
      /\ worker.state \in States
      /\ \A i \in DOMAIN down :
            down[i].base \in Nat /\ down[i].ack \in Nat /\ down[i].state \in States
      /\ \A i \in DOMAIN up : up[i].base \in Nat
  BY <1>2, LineTypes
<1>4. /\ m.base > sync.base /\ m.base <= server.base
      /\ m.base = server.base => m.state = server.state
  <2>1. /\ m.base <= server.base
        /\ m.base = server.base /\ sync.base < server.base => m.state = server.state
    BY <1>2 DEF CombatInv, BaseInv
  <2>2. m.base > sync.base
    BY <1>2, <1>3 DEF MovedBackwards
  <2> QED BY <1>3, <2>1, <2>2
<1>5. m.ack = server.ack
  BY <1>2, <1>4 DEF LineInv, AckInv
<1>6. /\ Bears(m.state, owed, worker.state) /\ Ages(m.state, server.state)
      /\ Sound(m.state) /\ Lit(m.state) /\ Lost(m.state) + owed <= Most
  BY <1>2, <1>4 DEF CombatInv, SoundInv, LossInv, UnderInv, LitInv, OverInv
<1>7. /\ IsFiniteSet(replayed) /\ replayed \subseteq Slices
      /\ \A c \in replayed : c.seq = m.ack + 1 /\ \E d \in sync.slices : d.at = c.at
      /\ \A c, d \in replayed : c.at = d.at => c = d
      /\ Burning(replayed) = owed
      /\ Charged(replayed, m.ack) = owed
  <2>1. \A c, d \in sync.slices : c.at = d.at => c = d
    BY DEF LossInv, AtInv
  <2>2. sync.slices \in SUBSET Slices /\ IsFiniteSet(sync.slices)
    BY LossTypes
  <2> HIDE DEF m
  <2> QED BY <1>3, <2>1, <2>2, ChargedMoved
<1>8. /\ worker'.state = state /\ worker'.used = worker.used
      /\ sync'.published = m.state /\ sync'.slices = left /\ sync'.next = m.ack
      /\ sync'.base = m.base
  <2> HIDE DEF state, replayed, m
  <2> QED BY <1>1, m = down[1] DEF Rebase, RebasedOn, Workers, state, replayed, m
<1>9. \A i \in DOMAIN up : up[i].base < m.base
  <2>1. \A i \in DOMAIN up : up[i].base <= sync.base
    BY DEF CombatInv, BaseInv
  <2> QED BY <1>3, <1>4, <2>1
<1>10. \A i \in DOMAIN down' :
          /\ down'[i].base >= m.base /\ down'[i].base > sync.base /\ down'[i].ack = m.ack
          /\ Ages(m.state, down'[i].state)
  <2> SUFFICES ASSUME NEW i \in DOMAIN down'
               PROVE  /\ down'[i].base >= m.base /\ down'[i].base > sync.base
                      /\ down'[i].ack = m.ack /\ Ages(m.state, down'[i].state)
    OBVIOUS
  <2>1. 1 < i + 1 /\ i + 1 \in DOMAIN down /\ down'[i] = down[i + 1]
    BY <1>2
  <2>2. Ordered(m, down[i + 1]) /\ Ages(m.state, down[i + 1].state)
    BY <1>2, <1>4, <2>1 DEF LineInv, OrderInv, LossInv, UnderInv
  <2>3. down'[i].base >= m.base /\ down'[i].base > sync.base
    BY <1>3, <1>4, <2>1, <2>2 DEF Ordered
  <2>4. down'[i].ack = server.ack
    BY <2>1, <2>3 DEF LineInv, AckInv
  <2> QED BY <1>5, <2>1, <2>2, <2>3, <2>4
<1> HIDE DEF m, replayed
<1>11. /\ owed \in Nat /\ Lost(state) <= Lost(m.state) + owed /\ Lit(state)
       /\ state.alive => m.state.alive
       /\ state.alive /\ state.fire => m.state.fire /\ state.elapsed = m.state.elapsed + owed
       /\ m.state.alive => /\ state.alive => Lost(state) = Lost(m.state) + owed
                           /\ owed > 0 => state # m.state
       /\ state \in States
  <2>1. m.state.alive => (owed > 0 => m.state.fire /\ m.state.elapsed + owed <= FireDuration)
    BY <1>6 DEF Bears
  <2>2. owed \in Nat /\ state \in States
    BY <1>3, <1>6, <1>7, LossTypes, AdvancedFacts
  <2> HIDE DEF owed
  <2>3. /\ Lost(state) <= Lost(m.state) + owed /\ Lit(state)
        /\ state.alive => m.state.alive
        /\ state.alive /\ state.fire => m.state.fire /\ state.elapsed = m.state.elapsed + owed
    BY <1>3, <1>6, <1>7, AdvancedLoss
  <2>4. ASSUME m.state.alive
        PROVE  /\ state.alive => Lost(state) = Lost(m.state) + owed
               /\ owed > 0 => state # m.state
    BY <1>3, <1>6, <1>7, <2>1, <2>4, AdvancedLoss
  <2> HIDE DEF state
  <2> QED BY <2>2, <2>3, <2>4
<1> HIDE DEF state
<1>12. /\ IsFiniteSet(left) /\ left \subseteq replayed
       /\ Charged(left, m.ack) \in Nat /\ Charged(left, m.ack) <= owed
       /\ m.state.alive => Charged(left, m.ack) = owed
  <2>1. Charged({}, m.ack) = 0
    BY ChargedNone
  <2>2. IsFiniteSet({})
    BY FS_EmptySet
  <2>3. CASE state = m.state
    <3>1. m.state.alive => owed = 0
      BY <1>11, <2>3
    <3> QED BY <1>11, <2>1, <2>2, <2>3, <3>1
  <2>4. CASE state # m.state
    BY <1>7, <1>11, <2>4
  <2> QED BY <2>3, <2>4
<1> HIDE DEF left
<1> DEFINE still == Charged(left, m.ack)
<1>13. Done' = Done /\ Most' = Most /\ count'.burns = count.burns
  BY DEF Done, Most
<1>14. /\ Done \in Nat /\ Most \in Nat /\ Lost(state) \in Nat /\ Lost(m.state) \in Nat
       /\ Lost(server.state) \in Nat
  BY <1>3, <1>11, LossTypes, LostType
<1>15. OverInv'
  <2> HIDE DEF owed, still
  <2>1. still \in Nat /\ still <= owed /\ owed \in Nat
    BY <1>11, <1>12 DEF still
  <2>2. ASSUME NEW x \in Nat, x + owed <= Most PROVE x + still <= Most
    BY <1>14, <2>1, <2>2
  <2>3. Lost(server.state) + still <= Most
    <3>1. Lost(server.state) + owed <= Most
      BY <1>5 DEF LossInv, OverInv, owed
    <3> QED BY <1>14, <2>2, <3>1
  <2>4. Lost(m.state) + still <= Most /\ Lost(state) <= Most
    BY <1>6, <1>11, <1>14, <2>1
  <2>5. \A i \in DOMAIN down' : Lost(down'[i].state) + still <= Most
    <3> SUFFICES ASSUME NEW i \in DOMAIN down' PROVE Lost(down'[i].state) + still <= Most
      OBVIOUS
    <3>1. Lost(down'[i].state) \in Nat /\ Lost(down'[i].state) + C(down'[i].ack) <= Most
      BY <1>2, LossTypes DEF LossInv, OverInv
    <3>2. Lost(down'[i].state) + owed <= Most
      BY <1>10, <3>1 DEF owed
    <3> QED BY <2>2, <3>1, <3>2
  <2>6. \A i \in DOMAIN up : up[i].base # m.base
    BY <1>3, <1>9
  <2> QED BY <1>5, <1>8, <1>10, <1>13, <2>3, <2>4, <2>5, <2>6 DEF OverInv, still
<1>16. LitInv'
  BY <1>2, <1>8, <1>11 DEF LossInv, LitInv
<1>17. AtInv'
  <2>1. \A c \in left : c.at < count.burns + worker.used
    BY <1>7, <1>12 DEF LossInv, AtInv
  <2> QED BY <1>7, <1>8, <1>12, <1>13, <2>1 DEF AtInv
<1>18. \A i \in DOMAIN up : up[i].base # m.base /\ up[i].base # server.base
  BY <1>3, <1>4, <1>9
<1>19. SeqInv'
  <2>1. server.ack <= m.ack
    BY <1>3, <1>5
  <2> QED BY <1>8, <1>18, <2>1 DEF LossInv, SeqInv
<1>20. UnderInv'
  <2>1. ASSUME NEW s \in States, Bears(s, owed, worker.state), Ages(m.state, s)
        PROVE  Bears(s, still, state)
    <3> SUFFICES ASSUME s.alive PROVE Bears(s, still, state)
      BY DEF Bears
    <3>1. m.state.alive /\ (m.state.fire => s.fire /\ s.elapsed <= m.state.elapsed)
      BY <2>1 DEF Ages
    <3>2. still = owed
      BY <1>12, <3>1
    <3> HIDE DEF still, owed
    <3>3. owed > 0 => s.fire /\ s.elapsed + owed <= FireDuration
      BY <2>1 DEF Bears
    <3>4. state.alive /\ state.fire => s.fire /\ s.elapsed + owed <= state.elapsed
      BY <1>3, <1>11, <2>1, <3>1, LostType
    <3> QED BY <3>2, <3>3, <3>4 DEF Bears
  <2>2. Covers(server.state, still, state, Done)
    <3>1. /\ Bears(server.state, owed, worker.state)
          /\ server.state.alive => Lost(server.state) + owed >= Done
      BY <1>5 DEF LossInv, UnderInv, Covers
    <3>2. Bears(server.state, still, state)
      BY <1>3, <1>6, <2>1, <3>1
    <3>3. server.state.alive => still = owed
      BY <1>6, <1>12 DEF Ages
    <3> HIDE DEF owed, still
    <3> QED BY <3>1, <3>2, <3>3 DEF Covers
  <2>3. m.base = server.base =>
          /\ Covers(m.state, still, state, Done)
          /\ state.alive => Lost(state) >= Done
    <3> SUFFICES ASSUME m.base = server.base
                 PROVE  /\ Covers(m.state, still, state, Done)
                        /\ state.alive => Lost(state) >= Done
      OBVIOUS
    <3>1. Covers(m.state, still, state, Done)
      BY <1>4, <2>2
    <3>2. m.state.alive => Lost(m.state) + owed >= Done
      <4> HIDE DEF owed
      <4> QED BY <1>4, <1>5 DEF LossInv, UnderInv, Covers, owed
    <3>3. state.alive => Lost(state) >= Done
      <4> HIDE DEF owed
      <4> QED BY <1>11, <3>2
    <3> QED BY <3>1, <3>3
  <2>4. ASSUME NEW i \in DOMAIN down'
        PROVE  /\ Bears(down'[i].state, still, state)
               /\ Ages(down'[i].state, server.state)
    <3>1. down'[i] = down[i + 1] /\ i + 1 \in DOMAIN down /\ down[i + 1].state \in States
      BY <1>2, <1>3
    <3>2. /\ Bears(down'[i].state, owed, worker.state)
          /\ Ages(down'[i].state, server.state)
      BY <1>10, <3>1 DEF LossInv, UnderInv
    <3> HIDE DEF owed, still
    <3> QED BY <1>10, <2>1, <3>1, <3>2
  <2>5. ASSUME NEW i \in DOMAIN down', NEW j \in DOMAIN down', i < j
        PROVE  Ages(down'[i].state, down'[j].state)
    <3>1. i + 1 < j + 1
      BY <1>2, <2>5
    <3> QED BY <1>2, <1>10, <2>5, <3>1 DEF LossInv, UnderInv
  <2> HIDE DEF owed, still
  <2> QED BY <1>5, <1>8, <1>10, <1>13, <1>18, <2>2, <2>3, <2>4, <2>5 DEF UnderInv, still
<1> QED BY <1>15, <1>16, <1>17, <1>19, <1>20 DEF LossInv

LEMMA DeliverLoss ==
    ASSUME CombatInv, LineInv, LossInv, Deliver, CombatInv'
    PROVE  LossInv'
<1>1. down \in Seq(Snapshots)
  BY Typed DEF CombatInv
<1>2. /\ down # <<>> /\ down' = Tail(down) /\ UNCHANGED <<server, up, count>>
      /\ Head(down) = down[1]
  BY <1>1 DEF Deliver
<1>3. CASE UNCHANGED <<worker, sync>>
  <2>1. \A i \in DOMAIN down' : i \in Nat /\ i + 1 \in DOMAIN down /\ down'[i] = down[i + 1]
    BY <1>1, <1>2
  <2>2. \A i, j \in DOMAIN down' : i < j => i + 1 < j + 1
    BY <2>1
  <2>3. Done' = Done /\ Most' = Most
    BY <1>2 DEF Done, Most
  <2>4. OverInv' /\ LitInv' /\ AtInv' /\ SeqInv'
    BY <1>2, <1>3, <2>1, <2>3 DEF LossInv, OverInv, LitInv, AtInv, SeqInv
  <2>5. UnderInv'
    BY <1>2, <1>3, <2>1, <2>2, <2>3 DEF LossInv, UnderInv
  <2> QED BY <2>4, <2>5 DEF LossInv
<1>4. CASE ~Refused(down[1]) /\ down[1].base = sync.base /\ Acknowledge(down[1])
  BY <1>2, <1>4, AcknowledgeLoss DEF Refused
<1>5. CASE ~Refused(down[1]) /\ down[1].base # sync.base /\ Rebase(down[1])
  BY <1>2, <1>5, RebaseLoss DEF Refused
<1> QED BY <1>2, <1>3, <1>4, <1>5 DEF Deliver

LEMMA LossInit == Init => LossInv
<1> SUFFICES ASSUME Init PROVE LossInv
  OBVIOUS
<1>1. /\ server = [state |-> Fresh, used |-> 0, rev |-> 0, base |-> 0, ack |-> 0]
      /\ worker = [state |-> Fresh, used |-> 0]
      /\ sync = [published |-> Fresh, known |-> Fresh, pending |-> {}, slices |-> {},
                 next |-> 0, acked |-> 0, rev |-> 0, base |-> 0]
      /\ up = <<>> /\ down = <<>> /\ count = [w \in Counted |-> 0]
  BY DEF Init
<1>2. Lost(Fresh) = 0 /\ ~Fresh.fire
  BY CombatAssumption DEF Fresh, Lost
<1> HIDE DEF Fresh
<1>3. \A k : Charged(sync.slices, k) = 0
  BY <1>1, ChargedNone
<1>4. Done = 0 /\ Most = 0
  BY <1>1 DEF Done, Most, Counted
<1>5. OverInv
  BY <1>1, <1>2, <1>3, <1>4 DEF OverInv
<1>6. LitInv /\ AtInv /\ SeqInv
  BY <1>1, <1>2 DEF LitInv, Lit, AtInv, SeqInv
<1>7. Covers(Fresh, 0, Fresh, 0)
  BY <1>2 DEF Covers, Bears
<1>8. UnderInv
  BY <1>1, <1>2, <1>3, <1>4, <1>7 DEF UnderInv
<1> QED BY <1>5, <1>6, <1>8 DEF LossInv

LEMMA LossStep ==
    ASSUME CombatInv, LineInv, LossInv, [Next]_vars
    PROVE  CombatInv' /\ LineInv' /\ LossInv'
<1>1. CombatInv' /\ LineInv'
  BY LineStep
<1>2. CASE UNCHANGED vars
  <2>1. UNCHANGED <<server, worker, sync, up, down, count>> /\ Done' = Done /\ Most' = Most
    BY <1>2 DEF vars, Done, Most
  <2>2. OverInv' /\ LitInv' /\ AtInv' /\ SeqInv'
    BY <2>1 DEF LossInv, OverInv, LitInv, AtInv, SeqInv
  <2>3. UnderInv'
    BY <2>1 DEF LossInv, UnderInv
  <2> QED BY <1>1, <2>2, <2>3 DEF LossInv
<1>3. ASSUME NEW kind \in HitKinds, Hit(kind) PROVE LossInv'
  BY <1>1, <1>3, HitLoss
<1>4. CASE Stun \/ ExpireStun
  BY <1>1, <1>4, StunLoss
<1>5. ASSUME NEW kit \in BOOLEAN, Slice(kit) PROVE LossInv'
  BY <1>1, <1>5, SliceLoss
<1>6. CASE Land
  BY <1>1, <1>6, LandLoss
<1>7. ASSUME NEW encoded \in BOOLEAN, Publish(encoded) PROVE LossInv'
  BY <1>1, <1>7, PublishLoss
<1>8. CASE Receive
  <2>1. server'.state.alive => server.state.alive
    BY CombatStep
  <2> QED BY <1>1, <1>8, <2>1, ReceiveLoss
<1>9. CASE Broadcast
  BY <1>1, <1>9, BroadcastLoss
<1>10. CASE Deliver
  BY <1>1, <1>10, DeliverLoss
<1> QED BY <1>1, <1>2, <1>3, <1>4, <1>5, <1>6, <1>7, <1>8, <1>9, <1>10 DEF Next

\* Two who agree owe nothing.
LEMMA LossHolds ==
    ASSUME CombatInv, LossInv
    PROVE  LossesAreExact
<1>1. /\ Charged(sync.slices, server.ack) \in Nat /\ Lost(server.state) \in Nat
      /\ count.hits \in Nat /\ count.burns \in Nat /\ count.falls \in Nat
      /\ count.merged \in Nat
  BY LossTypes
<1>2. Lost(server.state) <= count.hits + count.burns + count.falls + count.merged
  BY <1>1 DEF LossInv, OverInv, Most, Done
<1>3. Agreed /\ server.state.alive => Lost(server.state) >= count.hits + count.burns
  <2>1. Agreed => Charged(sync.slices, server.ack) = 0
    BY ChargedNone DEF Agreed
  <2>2. server.state.alive => Lost(server.state) + Charged(sync.slices, server.ack) >= Done
    BY DEF LossInv, UnderInv, Covers
  <2> QED BY <1>1, <2>1, <2>2 DEF Done
<1> QED BY <1>2, <1>3 DEF LossesAreExact, Lost

\* Slices are replayed on new bases, rows are fenced, repeated or not encoded,
\* and snapshots replaced: yet every hit, slice of burning and landing is
\* charged at most once, and when the two sides agree no hit and no slice has
\* been forgotten (_reconcile_modern_bot_combat, _apply_server_combat_state).
THEOREM CombatLossesAreExact == Spec => []LossesAreExact
<1>1. Init => CombatInv /\ LineInv /\ LossInv
  BY CombatInit, LineInit, LossInit
<1>2. CombatInv /\ LineInv /\ LossInv /\ [Next]_vars => (CombatInv /\ LineInv /\ LossInv)'
  BY LossStep
<1>3. CombatInv /\ LineInv /\ LossInv => LossesAreExact
  BY LossHolds
<1> QED BY <1>1, <1>2, <1>3, PTL DEF Spec
=============================================================================
