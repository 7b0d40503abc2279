--------------------------- MODULE PiercingSeries ---------------------------
(***************************************************************************)
(* The longest series of consecutive piercing shots of one shooter, as the *)
(* server counts it (_record_projectile_piercing).  Shots are numbered as  *)
(* they are launched; their verdicts arrive in any order.  Only the runs   *)
(* that a shell in flight or the next launch may still extend are kept.    *)
(***************************************************************************)
EXTENDS Integers, Sequences

VARIABLES
    verdict,   \* the verdict on each launched shot: open, pierced or lost
    runs,      \* _piercing_series_runs: first and last shot of each run kept
    longest    \* max_piercing_series

seriesVars == <<verdict, runs, longest>>

\* shots_fired, and the shots whose verdict is awaited.
Fired == Len(verdict)
Open == {o \in 1..Fired : verdict[o] = "open"}

SeriesInit == verdict = <<>> /\ runs = {} /\ longest = 0

\* A shot is launched.
Count == verdict' = Append(verdict, "open") /\ UNCHANGED <<runs, longest>>

\* The run that a piercing shot forms with its neighbours.
First(o) == IF \E r \in runs : r[2] + 1 = o
            THEN (CHOOSE r \in runs : r[2] + 1 = o)[1] ELSE o
Last(o) == IF \E r \in runs : r[1] = o + 1
           THEN (CHOOSE r \in runs : r[1] = o + 1)[2] ELSE o

Joined(o) == {r \in runs : r[2] + 1 # o /\ r[1] # o + 1} \cup {<<First(o), Last(o)>>}

\* Mutant: a run that ends right before the frontier is dropped.
ExtendableShort(r, open) == \E o \in open \cup {Fired + 1} : o <= r[2]

\* A run is kept when it reaches the shot before the first open one, or the
\* last launched.
Extendable(r, open) == \E o \in open \cup {Fired + 1} : o <= r[2] + 1

\* Other runs have been measured when they were joined.
Record(o, how) ==
    /\ o \in Open
    /\ verdict' = [verdict EXCEPT ![o] = how]
    /\ runs' = {r \in IF how = "pierced" THEN Joined(o) ELSE runs : Extendable(r, Open \ {o})}
    /\ longest' = IF how = "pierced" /\ Last(o) - First(o) + 1 > longest
                  THEN Last(o) - First(o) + 1 ELSE longest

SeriesNext == Count \/ \E o \in Open, how \in {"pierced", "lost"} : Record(o, how)

SeriesSpec == SeriesInit /\ [][SeriesNext]_seriesVars

Pierced(a, b) == \A o \in a..b : verdict[o] = "pierced"

\* The medal's number is the length of the longest series of consecutive
\* launches that all pierced, whatever the order of the verdicts and whatever
\* runs have been dropped on the way (_record_projectile_piercing).
LongestIsExact ==
    /\ \A a, b \in 1..Fired : a <= b /\ Pierced(a, b) => b - a + 1 <= longest
    /\ longest # 0 => \E a, b \in 1..Fired : b - a + 1 = longest /\ Pierced(a, b)
=============================================================================
