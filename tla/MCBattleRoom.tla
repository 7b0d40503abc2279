---------------------------- MODULE MCBattleRoom ----------------------------
(* BattleRoom for TLC: three connections, two teams, two worker connections. *)
EXTENDS BattleRoom, TLC

CONSTANTS c1, c2, c3, w1, w2

MCConns == {c1, c2, c3}
MCTwoConns == {c1, c2}
MCWorkers == {w1, w2}
MCOneWorker == {w1}
ConnSymmetry == Permutations(Conns)
MCTeamOf == [c \in Conns |-> 1]
=============================================================================
