-------------------------- MODULE ProjectilesProofs --------------------------
(***************************************************************************)
(* Proofs about the piercing series, for any number of shots, launched and *)
(* judged in any order, and about the shells of one player: what each      *)
(* party has heard of a shot, what the owner has in its hands, and the     *)
(* ages that owner and server agree on.                                    *)
(***************************************************************************)
EXTENDS Projectiles, FiniteSetTheorems, TLAPS

Verdicts == {"open", "pierced", "lost"}

SeriesTyped ==
    /\ verdict \in Seq(Verdicts)
    /\ runs \subseteq Nat \X Nat
    /\ longest \in Nat

\* A launched shot that has pierced.
IsPierced(o) == o \in 1..Fired /\ verdict[o] = "pierced"

\* A run is a maximal series of piercing shots, and has been measured.
RunsAreMaximal ==
    \A r \in runs :
        /\ 1 <= r[1] /\ r[1] <= r[2] /\ r[2] <= Fired
        /\ Pierced(r[1], r[2])
        /\ ~IsPierced(r[1] - 1) /\ ~IsPierced(r[2] + 1)
        /\ r[2] - r[1] + 1 <= longest

\* A piercing shot whose next, or previous, shot may still be judged is at the
\* end, or at the beginning, of a run that is kept.
EdgesAreKept ==
    /\ \A o \in 1..Fired :
          /\ verdict[o] = "pierced"
          /\ o < Fired => verdict[o + 1] = "open"
          => \E r \in runs : r[2] = o
    /\ \A o \in 1..Fired :
          /\ verdict[o] = "pierced"
          /\ 1 < o /\ verdict[o - 1] = "open"
          => \E r \in runs : r[1] = o

\* The inductive invariant of the series.  The dropped runs show in it only by
\* their length: nothing can extend them any more.
SeriesInv == SeriesTyped /\ RunsAreMaximal /\ EdgesAreKept /\ LongestIsExact

\* A launch extends no run.
LEMMA CountKeepsSeries == SeriesInv /\ Count => SeriesInv'
<1> SUFFICES ASSUME SeriesInv, Count
             PROVE  SeriesInv'
  OBVIOUS
<1>1. /\ Fired \in Nat /\ Fired' = Fired + 1
      /\ verdict' \in Seq(Verdicts)
      /\ \A o \in 1..Fired : verdict'[o] = verdict[o]
      /\ verdict'[Fired + 1] = "open"
      /\ UNCHANGED <<runs, longest>>
  BY DEF SeriesInv, SeriesTyped, Count, Fired, Verdicts
<1>2. \A o \in Int : IsPierced(o)' <=> IsPierced(o)
  BY <1>1 DEF IsPierced
<1>3. \A a, b \in Nat : 1 <= a /\ b <= Fired => (Pierced(a, b)' <=> Pierced(a, b))
  BY <1>1 DEF Pierced
<1>4. SeriesTyped'
  BY <1>1 DEF SeriesInv, SeriesTyped
<1>5. RunsAreMaximal'
  <2> SUFFICES ASSUME NEW r \in runs
               PROVE  /\ 1 <= r[1] /\ r[1] <= r[2] /\ r[2] <= Fired'
                      /\ Pierced(r[1], r[2])'
                      /\ ~IsPierced(r[1] - 1)' /\ ~IsPierced(r[2] + 1)'
                      /\ r[2] - r[1] + 1 <= longest'
    BY <1>1 DEF RunsAreMaximal
  <2>1. r[1] \in Nat /\ r[2] \in Nat
    BY DEF SeriesInv, SeriesTyped
  <2>2. /\ 1 <= r[1] /\ r[1] <= r[2] /\ r[2] <= Fired
        /\ Pierced(r[1], r[2])
        /\ ~IsPierced(r[1] - 1) /\ ~IsPierced(r[2] + 1)
        /\ r[2] - r[1] + 1 <= longest
    BY DEF SeriesInv, RunsAreMaximal
  <2>3. ~IsPierced(r[1] - 1)' /\ ~IsPierced(r[2] + 1)'
    BY <1>2, <2>1, <2>2
  <2> QED
    BY <1>1, <1>3, <2>1, <2>2, <2>3
<1>6. EdgesAreKept'
  <2>1. ASSUME NEW o \in 1..(Fired + 1), verdict'[o] = "pierced",
               o < Fired + 1 => verdict'[o + 1] = "open"
        PROVE  \E r \in runs : r[2] = o
    <3>1. o \in 1..Fired /\ verdict[o] = "pierced"
      BY <1>1, <2>1
    <3>2. o < Fired => verdict[o + 1] = "open"
      BY <1>1, <2>1
    <3> QED
      BY <3>1, <3>2 DEF SeriesInv, EdgesAreKept
  <2>2. ASSUME NEW o \in 1..(Fired + 1), verdict'[o] = "pierced",
               1 < o, verdict'[o - 1] = "open"
        PROVE  \E r \in runs : r[1] = o
    <3>1. o \in 1..Fired /\ verdict[o] = "pierced"
      BY <1>1, <2>2
    <3>2. o - 1 \in 1..Fired /\ verdict[o - 1] = "open"
      BY <1>1, <2>2, <3>1
    <3> QED
      BY <2>2, <3>1, <3>2 DEF SeriesInv, EdgesAreKept
  <2> QED
    BY <1>1, <2>1, <2>2 DEF EdgesAreKept
<1>7. LongestIsExact'
  <2>1. ASSUME NEW a \in 1..(Fired + 1), NEW b \in 1..(Fired + 1), a <= b, Pierced(a, b)'
        PROVE  b - a + 1 <= longest
    <3>1. b \in a..b /\ verdict'[b] = "pierced"
      BY <2>1 DEF Pierced
    <3>2. b \in 1..Fired /\ a \in 1..Fired
      BY <1>1, <2>1, <3>1
    <3>3. Pierced(a, b)
      BY <1>3, <2>1, <3>2
    <3> QED
      BY <2>1, <3>2, <3>3 DEF SeriesInv, LongestIsExact
  <2>2. ASSUME longest # 0
        PROVE  \E a, b \in 1..Fired' : b - a + 1 = longest /\ Pierced(a, b)'
    <3>1. PICK a, b \in 1..Fired : b - a + 1 = longest /\ Pierced(a, b)
      BY <2>2 DEF SeriesInv, LongestIsExact
    <3>2. Pierced(a, b)'
      BY <1>3, <3>1
    <3> QED
      BY <1>1, <3>1, <3>2
  <2> QED
    BY <1>1, <2>1, <2>2 DEF LongestIsExact
<1> QED
  BY <1>4, <1>5, <1>6, <1>7 DEF SeriesInv

\* The run before an open shot, and there is at most one, begins at First.
LEMMA RunBefore ==
    ASSUME SeriesInv, NEW o \in Open
    PROVE  /\ First(o) \in 1..o
           /\ \A i \in First(o)..(o - 1) : verdict[i] = "pierced"
           /\ ~IsPierced(First(o) - 1)
           /\ \A r \in runs : r[2] + 1 = o => r[1] = First(o)
<1>1. Fired \in Nat /\ o \in 1..Fired /\ verdict[o] = "open"
  BY DEF SeriesInv, SeriesTyped, Open, Fired
<1>2. CASE \E r \in runs : r[2] + 1 = o
  <2> DEFINE q == CHOOSE r \in runs : r[2] + 1 = o
  <2>1. q \in runs /\ q[2] + 1 = o /\ First(o) = q[1]
    BY <1>2 DEF First
  <2> HIDE DEF q
  <2>2. q[1] \in Nat /\ q[2] \in Nat /\ 1 <= q[1] /\ q[1] <= q[2]
        /\ Pierced(q[1], q[2]) /\ ~IsPierced(q[1] - 1)
    BY <2>1 DEF SeriesInv, SeriesTyped, RunsAreMaximal
  <2>3. ASSUME NEW r \in runs, r[2] + 1 = o
        PROVE  r[1] = q[1]
    <3>1. r[1] \in Nat /\ r[2] \in Nat /\ 1 <= r[1] /\ r[1] <= r[2] /\ r[2] <= Fired
          /\ Pierced(r[1], r[2]) /\ ~IsPierced(r[1] - 1)
      BY <2>3 DEF SeriesInv, SeriesTyped, RunsAreMaximal
    <3>2. r[2] = q[2]
      BY <2>1, <2>2, <2>3, <3>1
    <3>3. ~(r[1] < q[1])
      BY <1>1, <2>2, <3>1, <3>2 DEF Pierced, IsPierced
    <3>4. ~(q[1] < r[1])
      BY <1>1, <2>2, <3>1, <3>2 DEF Pierced, IsPierced
    <3> QED
      BY <2>2, <3>1, <3>3, <3>4
  <2> QED
    BY <1>1, <2>1, <2>2, <2>3 DEF Pierced
<1>3. CASE ~\E r \in runs : r[2] + 1 = o
  <2>1. First(o) = o
    BY <1>3 DEF First
  <2>2. ~IsPierced(o - 1)
    <3> SUFFICES ASSUME IsPierced(o - 1)
                 PROVE  FALSE
      OBVIOUS
    <3>1. PICK r \in runs : r[2] = o - 1
      BY <1>1 DEF IsPierced, SeriesInv, EdgesAreKept
    <3> QED
      BY <1>1, <1>3, <3>1
  <2> QED
    BY <1>1, <1>3, <2>1, <2>2
<1> QED
  BY <1>2, <1>3

\* The run after an open shot, and there is at most one, ends at Last.
LEMMA RunAfter ==
    ASSUME SeriesInv, NEW o \in Open
    PROVE  /\ Last(o) \in o..Fired
           /\ \A i \in (o + 1)..Last(o) : verdict[i] = "pierced"
           /\ ~IsPierced(Last(o) + 1)
           /\ \A r \in runs : r[1] = o + 1 => r[2] = Last(o)
<1>1. Fired \in Nat /\ o \in 1..Fired /\ verdict[o] = "open"
  BY DEF SeriesInv, SeriesTyped, Open, Fired
<1>2. CASE \E r \in runs : r[1] = o + 1
  <2> DEFINE q == CHOOSE r \in runs : r[1] = o + 1
  <2>1. q \in runs /\ q[1] = o + 1 /\ Last(o) = q[2]
    BY <1>2 DEF Last
  <2> HIDE DEF q
  <2>2. q[1] \in Nat /\ q[2] \in Nat /\ q[1] <= q[2] /\ q[2] <= Fired
        /\ Pierced(q[1], q[2]) /\ ~IsPierced(q[2] + 1)
    BY <2>1 DEF SeriesInv, SeriesTyped, RunsAreMaximal
  <2>3. ASSUME NEW r \in runs, r[1] = o + 1
        PROVE  r[2] = q[2]
    <3>1. r[1] \in Nat /\ r[2] \in Nat /\ r[1] <= r[2] /\ r[2] <= Fired
          /\ Pierced(r[1], r[2]) /\ ~IsPierced(r[2] + 1)
      BY <2>3 DEF SeriesInv, SeriesTyped, RunsAreMaximal
    <3>2. r[1] = q[1]
      BY <2>1, <2>3
    <3>3. ~(r[2] < q[2])
      BY <1>1, <2>2, <3>1, <3>2 DEF Pierced, IsPierced
    <3>4. ~(q[2] < r[2])
      BY <1>1, <2>2, <3>1, <3>2 DEF Pierced, IsPierced
    <3> QED
      BY <2>2, <3>1, <3>3, <3>4
  <2> QED
    BY <1>1, <2>1, <2>2, <2>3 DEF Pierced
<1>3. CASE ~\E r \in runs : r[1] = o + 1
  <2>1. Last(o) = o
    BY <1>3 DEF Last
  <2>2. ~IsPierced(o + 1)
    <3> SUFFICES ASSUME IsPierced(o + 1)
                 PROVE  FALSE
      OBVIOUS
    <3>1. PICK r \in runs : r[1] = o + 1
      BY <1>1 DEF IsPierced, SeriesInv, EdgesAreKept
    <3> QED
      BY <1>3, <3>1
  <2> QED
    BY <1>1, <1>3, <2>1, <2>2
<1> QED
  BY <1>2, <1>3

\* A verdict joins the runs around a piercing shot, and drops what nothing can
\* extend any more.
LEMMA RecordKeepsSeries ==
    ASSUME SeriesInv, NEW o \in Open, NEW how \in {"pierced", "lost"}, Record(o, how)
    PROVE  SeriesInv'
<1>1. /\ Fired \in Nat /\ Fired' = Fired /\ o \in 1..Fired /\ verdict[o] = "open"
      /\ verdict' \in Seq(Verdicts) /\ verdict'[o] = how
      /\ \A i \in 1..Fired : i # o => verdict'[i] = verdict[i]
  BY DEF SeriesInv, SeriesTyped, Record, Fired, Verdicts, Open
<1>2. PICK f \in 1..o :
      /\ f = First(o) /\ \A i \in f..(o - 1) : verdict[i] = "pierced"
      /\ ~IsPierced(f - 1)
      /\ \A r \in runs : r[2] + 1 = o => r[1] = f
  BY RunBefore
<1>3. PICK l \in o..Fired :
      /\ l = Last(o) /\ \A i \in (o + 1)..l : verdict[i] = "pierced"
      /\ ~IsPierced(l + 1)
      /\ \A r \in runs : r[1] = o + 1 => r[2] = l
  BY RunAfter
<1>4. PICK formed :
      /\ runs' \subseteq formed
      /\ \A r \in formed : (\E p \in (Open \ {o}) \cup {Fired + 1} : p <= r[2] + 1) => r \in runs'
      /\ \A r : r \in formed <=>
            IF how = "pierced" THEN r = <<f, l>> \/ (r \in runs /\ r[2] + 1 # o /\ r[1] # o + 1)
            ELSE r \in runs
  <2> DEFINE all == IF how = "pierced" THEN Joined(o) ELSE runs
  <2>1. runs' = {r \in all : Extendable(r, Open \ {o})}
    BY DEF Record
  <2>2. \A r : r \in all <=>
            IF how = "pierced" THEN r = <<f, l>> \/ (r \in runs /\ r[2] + 1 # o /\ r[1] # o + 1)
            ELSE r \in runs
    BY <1>2, <1>3 DEF Joined
  <2> HIDE DEF all
  <2> QED
    BY <2>1, <2>2 DEF Extendable
<1>5. /\ longest \in Nat /\ longest' \in Nat /\ longest <= longest'
      /\ longest' \in {longest, (l - f + 1)}
      /\ how = "pierced" => (l - f + 1) <= longest'
      /\ longest' # longest => how = "pierced"
  BY <1>1, <1>2, <1>3 DEF SeriesInv, SeriesTyped, Record
<1>6. \A r \in runs : /\ r[1] \in Nat /\ r[2] \in Nat /\ r = <<r[1], r[2]>>
                      /\ 1 <= r[1] /\ r[1] <= r[2] /\ r[2] <= Fired
                      /\ \A i \in r[1]..r[2] : verdict[i] = "pierced"
                      /\ ~IsPierced(r[1] - 1) /\ ~IsPierced(r[2] + 1)
                      /\ r[2] - r[1] + 1 <= longest
  BY DEF SeriesInv, SeriesTyped, RunsAreMaximal, Pierced
<1>7. \A i \in Int : IsPierced(i)' <=> IsPierced(i) \/ (i = o /\ how = "pierced")
  BY <1>1 DEF IsPierced
<1>8. \A r \in formed : r \in runs \/ (how = "pierced" /\ r = <<f, l>>)
  BY <1>4
<1>9. SeriesTyped'
  <2>1. formed \subseteq Nat \X Nat
    BY <1>1, <1>2, <1>3, <1>8 DEF SeriesInv, SeriesTyped
  <2> QED
    BY <1>1, <1>4, <1>5, <2>1 DEF SeriesTyped
<1>10. RunsAreMaximal'
  <2> SUFFICES ASSUME NEW r \in formed
               PROVE  /\ 1 <= r[1] /\ r[1] <= r[2] /\ r[2] <= Fired
                      /\ Pierced(r[1], r[2])'
                      /\ ~IsPierced(r[1] - 1)' /\ ~IsPierced(r[2] + 1)'
                      /\ r[2] - r[1] + 1 <= longest'
    BY <1>1, <1>4 DEF RunsAreMaximal
  <2>1. CASE how = "pierced" /\ r = <<f, l>>
    <3>1. r[1] = f /\ r[2] = l /\ (l - f + 1) <= longest'
      BY <1>5, <2>1
    <3>2. Pierced(f, l)'
      BY <1>1, <1>2, <1>3, <2>1 DEF Pierced
    <3>3. ~IsPierced(f - 1)' /\ ~IsPierced(l + 1)'
      BY <1>2, <1>3, <1>7
    <3> QED
      BY <1>1, <1>2, <1>3, <3>1, <3>2, <3>3
  <2>2. CASE r \in runs /\ (how = "pierced" => r[2] + 1 # o /\ r[1] # o + 1)
    <3>1. ASSUME NEW i \in r[1]..r[2]
          PROVE  verdict'[i] = "pierced"
      <4>1. i \in 1..Fired /\ verdict[i] = "pierced"
        BY SMTT(30), <1>1, <1>6, <2>2
      <4> QED
        BY <1>1, <4>1
    <3>2. ~IsPierced(r[1] - 1)' /\ ~IsPierced(r[2] + 1)'
      BY <1>6, <1>7, <2>2
    <3> QED
      BY <1>5, <1>6, <2>2, <3>1, <3>2 DEF Pierced
  <2> QED
    BY <1>4, <2>1, <2>2
<1>11. EdgesAreKept'
  <2>1. ASSUME NEW p \in 1..Fired, verdict'[p] = "pierced",
               p < Fired => verdict'[p + 1] = "open"
        PROVE  \E r \in runs' : r[2] = p
    <3>1. \E x \in (Open \ {o}) \cup {Fired + 1} : x <= p + 1
      <4>1. CASE p = Fired
        <5>1. Fired + 1 \in (Open \ {o}) \cup {Fired + 1} /\ Fired + 1 <= p + 1
          BY <1>1, <4>1
        <5> QED
          BY <5>1
      <4>2. CASE p < Fired
        <5>1. p + 1 \in 1..Fired /\ verdict'[p + 1] = "open" /\ p + 1 # o
          BY <1>1, <2>1, <4>2
        <5>2. p + 1 \in Open
          BY <1>1, <5>1 DEF Open
        <5> QED
          BY <5>1, <5>2
      <4> QED
        BY <1>1, <4>1, <4>2
    <3>2. \E r \in formed : r[2] = p
      <4>1. CASE p = o
        <5>1. how = "pierced" /\ ~IsPierced(p + 1)
          BY <1>1, <2>1, <4>1 DEF IsPierced
        <5>2. l = o
          BY <1>1, <1>3, <4>1, <5>1 DEF IsPierced
        <5>3. <<f, l>> \in formed /\ <<f, l>>[2] = p
          BY <1>4, <4>1, <5>1, <5>2
        <5> QED
          BY <5>3
      <4>2. CASE p # o
        <5>1. verdict[p] = "pierced" /\ (p < Fired => verdict[p + 1] = "open" /\ p + 1 # o)
          BY <1>1, <2>1, <4>2
        <5>2. PICK r \in runs : r[2] = p
          BY <5>1 DEF SeriesInv, EdgesAreKept
        <5>3. CASE how = "pierced" /\ r[1] = o + 1
          <6>1. <<f, l>> \in formed /\ l = p
            BY <1>3, <1>4, <5>2, <5>3
          <6> QED
            BY <6>1
        <5>4. CASE ~(how = "pierced" /\ r[1] = o + 1)
          <6>1. r[2] + 1 # o
            BY <1>1, <5>1, <5>2
          <6> QED
            BY <1>4, <5>2, <5>4, <6>1
        <5> QED
          BY <5>3, <5>4
      <4> QED
        BY <4>1, <4>2
    <3> QED
      BY <1>4, <3>1, <3>2
  <2>2. ASSUME NEW p \in 1..Fired, verdict'[p] = "pierced",
               1 < p, verdict'[p - 1] = "open"
        PROVE  \E r \in runs' : r[1] = p
    <3>1. p - 1 \in Open \ {o}
      BY <1>1, <2>2 DEF Open
    <3>2. PICK r \in formed : r[1] = p
      <4>1. CASE p = o
        <5>1. how = "pierced" /\ verdict[p - 1] = "open"
          BY <1>1, <2>2, <4>1, <3>1 DEF Open
        <5>2. f = o
          <6>1. o - 1 \in Int /\ verdict[o - 1] # "pierced"
            BY <1>1, <4>1, <5>1
          <6>2. ~(f < o)
            BY <1>1, <1>2, <6>1
          <6> QED
            BY <1>1, <6>2
        <5>3. <<f, l>> \in formed /\ <<f, l>>[1] = p
          BY <1>4, <4>1, <5>1, <5>2
        <5> QED
          BY <5>3
      <4>2. CASE p # o
        <5>1. verdict[p] = "pierced" /\ verdict[p - 1] = "open" /\ p - 1 # o
          BY <1>1, <2>2, <4>2, <3>1 DEF Open
        <5>2. PICK r \in runs : r[1] = p
          BY <2>2, <5>1 DEF SeriesInv, EdgesAreKept
        <5>3. CASE how = "pierced" /\ r[2] + 1 = o
          <6>1. <<f, l>> \in formed /\ f = p
            BY <1>2, <1>4, <5>2, <5>3
          <6> QED
            BY <6>1
        <5>4. CASE ~(how = "pierced" /\ r[2] + 1 = o)
          <6>1. r[1] # o + 1
            BY <1>1, <5>1, <5>2
          <6> QED
            BY <1>4, <5>2, <5>4, <6>1
        <5> QED
          BY <5>3, <5>4
      <4> QED
        BY <4>1, <4>2
    <3>3. r[2] \in Nat /\ p <= r[2]
      BY <1>1, <1>2, <1>3, <1>6, <1>8, <3>2
    <3>4. \E x \in (Open \ {o}) \cup {Fired + 1} : x <= r[2] + 1
      BY <1>1, <3>1, <3>3
    <3> QED
      BY <1>4, <3>2, <3>4
  <2> QED
    BY <1>1, <2>1, <2>2 DEF EdgesAreKept
<1>12. LongestIsExact'
  <2>1. ASSUME NEW a \in 1..Fired, NEW b \in 1..Fired, a <= b, Pierced(a, b)'
        PROVE  b - a + 1 <= longest'
    <3>1. CASE o \notin a..b
      <4>1. Pierced(a, b)
        BY <1>1, <2>1, <3>1 DEF Pierced
      <4>2. b - a + 1 <= longest
        BY <2>1, <4>1 DEF SeriesInv, LongestIsExact
      <4> QED
        BY <1>5, <2>1, <4>2
    <3>2. CASE o \in a..b
      <4>1. how = "pierced"
        BY <1>1, <2>1, <3>2 DEF Pierced
      <4>2. f <= a
        <5>1. ~(a < f)
          <6> SUFFICES ASSUME a < f
                       PROVE  FALSE
            OBVIOUS
          <6>1. f - 1 \in a..b /\ f - 1 \in 1..Fired /\ f - 1 # o
            BY <1>1, <1>2, <3>2
          <6>2. IsPierced(f - 1)
            BY <1>1, <2>1, <6>1 DEF Pierced, IsPierced
          <6> QED
            BY <1>2, <6>2
        <5> QED
          BY <1>2, <5>1
      <4>3. b <= l
        <5>1. ~(l < b)
          <6> SUFFICES ASSUME l < b
                       PROVE  FALSE
            OBVIOUS
          <6>1. l + 1 \in a..b /\ l + 1 \in 1..Fired /\ l + 1 # o
            BY <1>1, <1>3, <3>2
          <6>2. IsPierced(l + 1)
            BY <1>1, <2>1, <6>1 DEF Pierced, IsPierced
          <6> QED
            BY <1>3, <6>2
        <5> QED
          BY <1>3, <5>1
      <4> QED
        BY SMTT(30), <1>1, <1>2, <1>3, <1>5, <2>1, <4>1, <4>2, <4>3
    <3> QED
      BY <3>1, <3>2
  <2>2. ASSUME longest' # 0
        PROVE  \E a, b \in 1..Fired : b - a + 1 = longest' /\ Pierced(a, b)'
    <3>1. CASE longest' = longest
      <4>1. PICK a, b \in 1..Fired : b - a + 1 = longest /\ Pierced(a, b)
        BY <2>2, <3>1 DEF SeriesInv, LongestIsExact
      <4>2. Pierced(a, b)'
        BY <1>1, <4>1 DEF Pierced
      <4> QED
        BY <3>1, <4>1, <4>2
    <3>2. CASE longest' # longest
      <4>1. how = "pierced" /\ longest' = (l - f + 1)
        BY <1>5, <3>2
      <4>2. Pierced(f, l)'
        <5>1. ASSUME NEW i \in f..l
              PROVE  verdict'[i] = "pierced"
          <6>1. CASE i = o
            BY <1>1, <4>1, <6>1
          <6>2. CASE i # o
            BY <1>1, <1>2, <1>3, <6>2
          <6> QED
            BY <6>1, <6>2
        <5> QED
          BY <5>1 DEF Pierced
      <4>3. f \in 1..Fired /\ l \in 1..Fired
        BY <1>1, <1>2, <1>3
      <4> QED
        BY <4>1, <4>2, <4>3
    <3> QED
      BY <3>1, <3>2
  <2> QED
    BY <1>1, <2>1, <2>2 DEF LongestIsExact
<1> QED
  BY <1>9, <1>10, <1>11, <1>12 DEF SeriesInv

\* The initial state, and steps that leave the series alone.
LEMMA SeriesBegins == SeriesInit => SeriesInv
  BY DEF SeriesInit, SeriesInv, SeriesTyped, RunsAreMaximal, EdgesAreKept, LongestIsExact,
         Fired, Pierced, Verdicts

LEMMA SeriesStep == SeriesInv /\ [SeriesNext]_seriesVars => SeriesInv'
<1>1. SeriesInv /\ SeriesNext => SeriesInv'
  BY CountKeepsSeries, RecordKeepsSeries DEF SeriesNext
<1>2. SeriesInv /\ UNCHANGED seriesVars => SeriesInv'
  BY DEF seriesVars, SeriesInv, SeriesTyped, RunsAreMaximal, EdgesAreKept, LongestIsExact,
         Fired, IsPierced, Pierced
<1> QED
  BY <1>1, <1>2

\* However many shots are launched and in whatever order they are judged, the
\* medal's number is the longest series of consecutive piercing launches
\* (_record_projectile_piercing).
THEOREM SeriesIsExact == SeriesSpec => []LongestIsExact
<1>1. SeriesInv => LongestIsExact
  BY DEF SeriesInv
<1> QED
  BY SeriesBegins, SeriesStep, <1>1, PTL DEF SeriesSpec

-----------------------------------------------------------------------------
(* The ledger of shells uses the series as it is meant to be used. *)

LEMMA EndRecords == ASSUME NEW s, NEW outcome, End(s, outcome) PROVE [SeriesNext]_seriesVars
  BY DEF End, Verdict, SeriesNext

\* Every step of the ledger is a step of the series or leaves it alone: a shell
\* is counted when it is launched, and judged at most once.
LEMMA LedgerStep == [Next]_vars => [SeriesNext]_seriesVars
<1> SUFFICES ASSUME [Next]_vars
             PROVE  [SeriesNext]_seriesVars
  OBVIOUS
<1>1. CASE Receive
  <2> DEFINE m == Head(up)
  <2>1. CASE Launch(m)
    BY <2>1 DEF Launch, SeriesNext
  <2>2. CASE Progress(m)
    BY <2>2 DEF Progress, seriesVars
  <2>3. CASE Ricochet(m)
    BY <2>3, EndRecords DEF Ricochet, Verdict, SeriesNext
  <2>4. CASE Resolve(m)
    BY <2>4, EndRecords DEF Resolve
  <2> QED
    BY <1>1, <2>1, <2>2, <2>3, <2>4 DEF Receive
<1>2. CASE Expire
  BY <1>2, EndRecords DEF Expire
<1>3. CASE Fire
  BY <1>3 DEF Fire, serverVars
<1>4. CASE Publish
  BY <1>4 DEF Publish, serverVars
<1>5. CASE Snapshot
  BY <1>5 DEF Snapshot, serverVars
<1>6. ASSUME NEW s \in Shots, Owning(s)
      PROVE  UNCHANGED seriesVars
  BY <1>6 DEF Owning, Advance, Hit, Bounce, Due, Admit, Present, serverVars
<1>7. CASE UNCHANGED vars
  BY <1>7 DEF vars, serverVars
<1> QED
  BY <1>1, <1>2, <1>3, <1>4, <1>5, <1>6, <1>7 DEF Next

\* The shells of a player, fired, refused, bounced, resolved and expired in any
\* interleaving, keep the medal's number exact.
THEOREM ShellsKeepSeries == Spec => []LongestIsExact
<1>1. Init => SeriesInit
  BY DEF Init
<1>2. SeriesInv => LongestIsExact
  BY DEF SeriesInv
<1> QED
  BY <1>1, <1>2, SeriesBegins, SeriesStep, LedgerStep, PTL DEF Spec

-----------------------------------------------------------------------------
(* The words of the messages. *)

Is(m, type, s) == m.type = type /\ m.shot = s
Carries(m, s) == m.type = "progress" /\ s \in DOMAIN m.cursors
Moves(m, s) == Carries(m, s) \/ Is(m, "ricochet", s)
Claims(m, s) == Is(m, "ricochet", s) \/ Is(m, "resolve", s)
Tells(m, s) == Moves(m, s) \/ Is(m, "resolve", s)
About(m, s) == Tells(m, s) \/ Is(m, "launch", s)

\* The age a message tells of a shot.
Told(m, s) == IF m.type = "progress" THEN m.cursors[s] ELSE m.time

\* A message of a type about a shot is among those of u.
Waits(u, type, s) == \E i \in DOMAIN u : Is(u[i], type, s)

LEMMA AgesAreNumbers == Ages \subseteq Nat /\ 0 \in Ages /\ Flight \in Nat
  BY ShellAssumption DEF Ages

LEMMA MessageFacts ==
    ASSUME NEW m \in Messages
    PROVE  /\ m.type \in {"launch", "progress", "ricochet", "resolve"}
           /\ m.type # "progress" => m.shot \in Shots
           /\ m.type \in {"ricochet", "resolve"} =>
                /\ m.base \in Ages /\ m.time \in Ages
                /\ m \in Tellings({m.type})
           /\ m.type = "resolve" => m \in Wires
           /\ m.type = "progress" =>
                DOMAIN m.cursors \subseteq Shots /\ m.cursors \in [DOMAIN m.cursors -> Ages]
<1>1. CASE m \in [type : {"launch"}, shot : Shots]
  BY <1>1
<1>2. CASE m \in Batches
  <2>1. PICK cursors \in UNION {[d -> Ages] : d \in SUBSET Shots} :
          m = [type |-> "progress", cursors |-> cursors]
    BY <1>2 DEF Batches
  <2>2. PICK d \in SUBSET Shots : cursors \in [d -> Ages]
    BY <2>1
  <2>3. m.type = "progress" /\ m.cursors = cursors /\ DOMAIN cursors = d
    BY <2>1, <2>2
  <2> QED
    BY <2>2, <2>3
<1>3. CASE m \in Tellings({"ricochet", "resolve"})
  BY <1>3 DEF Tellings, Wires
<1> QED
  BY <1>1, <1>2, <1>3 DEF Messages

LEMMA ToldIsAge ==
    ASSUME NEW m \in Messages, NEW s, Tells(m, s)
    PROVE  Told(m, s) \in Ages
  BY MessageFacts DEF Tells, Moves, Carries, Is, Told

\* What a message of one type is not.
LEMMA MessageKinds ==
    ASSUME NEW m, NEW s, NEW type \in {"launch", "ricochet", "resolve"}, Is(m, type, s)
    PROVE  /\ \A r : ~Carries(m, r)
           /\ \A r, other : other # type => ~Is(m, other, r)
           /\ \A r : r # s => ~About(m, r)
           /\ Told(m, s) = m.time
  BY DEF Is, Carries, About, Tells, Moves, Told

\* Messages that follow others.
LEMMA JoinedFacts ==
    ASSUME NEW S, NEW u \in Seq(S), NEW w \in Seq(S)
    PROVE  /\ u \o w \in Seq(S)
           /\ Len(u \o w) = Len(u) + Len(w)
           /\ \A i \in DOMAIN u : i \in DOMAIN (u \o w) /\ (u \o w)[i] = u[i]
           /\ \A i \in DOMAIN w : Len(u) + i \in DOMAIN (u \o w) /\ (u \o w)[Len(u) + i] = w[i]
           /\ \A k \in DOMAIN (u \o w) :
                 k \in DOMAIN u \/ (k > Len(u) /\ k - Len(u) \in DOMAIN w)
  OBVIOUS

LEMMA SingleFacts ==
    ASSUME NEW S, NEW w \in S
    PROVE  <<w>> \in Seq(S) /\ Len(<<w>>) = 1 /\ DOMAIN <<w>> = {1} /\ <<w>>[1] = w
  OBVIOUS

LEMMA EmptyFacts ==
    ASSUME NEW S
    PROVE  <<>> \in Seq(S) /\ DOMAIN <<>> = {} /\ Len(<<>>) = 0 /\ \A u \in Seq(S) : u \o <<>> = u
  OBVIOUS

LEMMA TailFacts ==
    ASSUME NEW S, NEW u \in Seq(S), u # <<>>
    PROVE  /\ Tail(u) \in Seq(S) /\ Head(u) \in S /\ Head(u) = u[1]
           /\ 1 \in DOMAIN u /\ Len(Tail(u)) = Len(u) - 1
           /\ \A i \in DOMAIN Tail(u) : i \in Nat \ {0} /\ i + 1 \in DOMAIN u /\ Tail(u)[i] = u[i + 1]
           /\ \A i \in DOMAIN u : i \in Nat \ {0} /\ (i > 1 => i - 1 \in DOMAIN Tail(u) /\ Tail(u)[i - 1] = u[i])
  OBVIOUS

LEMMA WaitsJoined ==
    ASSUME NEW u \in Seq(Messages), NEW w \in Seq(Messages), NEW type, NEW s
    PROVE  Waits(u \o w, type, s) <=> Waits(u, type, s) \/ Waits(w, type, s)
<1>1. ASSUME Waits(u, type, s) PROVE Waits(u \o w, type, s)
  BY <1>1, JoinedFacts DEF Waits
<1>2. ASSUME Waits(w, type, s) PROVE Waits(u \o w, type, s)
  <2>1. PICK i \in DOMAIN w : Is(w[i], type, s)
    BY <1>2 DEF Waits
  <2>2. Len(u) + i \in DOMAIN (u \o w) /\ (u \o w)[Len(u) + i] = w[i]
    BY JoinedFacts
  <2> QED
    BY <2>1, <2>2 DEF Waits
<1>3. ASSUME Waits(u \o w, type, s) PROVE Waits(u, type, s) \/ Waits(w, type, s)
  <2>1. PICK k \in DOMAIN (u \o w) : Is((u \o w)[k], type, s)
    BY <1>3 DEF Waits
  <2>2. CASE k \in DOMAIN u
    BY <2>1, <2>2, JoinedFacts DEF Waits
  <2>3. CASE k > Len(u) /\ k - Len(u) \in DOMAIN w
    <3>1. (u \o w)[k] = w[k - Len(u)]
      BY <2>1, <2>3
    <3> QED
      BY <2>1, <2>3, <3>1 DEF Waits
  <2> QED
    BY <2>1, <2>2, <2>3, JoinedFacts
<1> QED
  BY <1>1, <1>2, <1>3

LEMMA WaitsTail ==
    ASSUME NEW u \in Seq(Messages), u # <<>>, NEW type, NEW s
    PROVE  Waits(u, type, s) <=> Is(Head(u), type, s) \/ Waits(Tail(u), type, s)
<1>1. ASSUME NEW i \in DOMAIN u, Is(u[i], type, s)
      PROVE  Is(Head(u), type, s) \/ Waits(Tail(u), type, s)
  <2>1. CASE i = 1
    BY <1>1, <2>1, TailFacts
  <2>2. CASE i # 1
    <3>1. i > 1
      BY <1>1, <2>2, TailFacts
    <3> QED
      BY <1>1, <3>1, TailFacts DEF Waits
  <2> QED
    BY <2>1, <2>2
<1>2. ASSUME Is(Head(u), type, s) PROVE Waits(u, type, s)
  BY <1>2, TailFacts DEF Waits
<1>3. ASSUME NEW i \in DOMAIN Tail(u), Is(Tail(u)[i], type, s) PROVE Waits(u, type, s)
  BY <1>3, TailFacts DEF Waits
<1> QED
  BY <1>1, <1>2, <1>3 DEF Waits

-----------------------------------------------------------------------------
(* The invariant. *)

\* A shell the server keeps, or will be asked to keep: its launch was admitted,
\* or is on its way.
Owned(s) == ledger[s].life = "live" \/ Waits(up, "launch", s)

\* What the records say of themselves.
OwnTerminal(s, m) == m # None /\ m.terminal # None => m.terminal.shot = s
RecordInv ==
    \A s \in Shots : /\ OwnTerminal(s, meta[s])
                     /\ ledger[s].life = "none" => ledger[s] = Unknown

\* A shot that has not been fired is known to nobody.
Unfired(s, m, f, j) ==
    /\ ledger[s].life = "none" /\ j = <<>> /\ m = None
    /\ f.known = {} /\ f.segment = None
    /\ \A i \in DOMAIN up : ~About(up[i], s)

\* The launch is the first message about a shot, and the only launch.
LaunchedFirst(s, u) ==
    \A i, k \in DOMAIN u : Is(u[i], "launch", s) /\ About(u[k], s) => i <= k

\* What each party has heard of a shot follows what the server has decided.
Heard(m, j, life) ==
    /\ \A i \in DOMAIN j :
          /\ j[i].kind = "refused" <=> life = "none"
          /\ j[i].kind = "impact" => life # "live"
    /\ m # None /\ ~m.launching => life # "none"

PhaseInv ==
    \A s \in Shots :
        /\ s > count.fired => Unfired(s, meta[s], shell[s], journal[s])
        /\ LaunchedFirst(s, up)
        /\ Waits(up, "launch", s) => ledger[s].life = "none" /\ journal[s] = <<>>
        /\ Heard(meta[s], journal[s], ledger[s].life)
        /\ s \in settled => s <= count.fired /\ ~Owned(s)

\* The owner holds a shell: it flies on its segment, waits for the second, or
\* its terminal is on its way.  The second segment is its own ricochet's, which
\* the server learns of once.
Held(resolving, bouncing, l, m, f, j) ==
    /\ m # None
    /\ 0 \in f.known
    /\ f.segment # None => f.segment = m.bounces
    /\ f.segment = None => m.terminal # None \/ m.deferred # "no"
    /\ m.terminal # None <=> resolving
    /\ m.deferred # "no" => m.bounces = 1
    /\ m.deferred = "ahead" => f.segment = None
    /\ m.bounces = 0 => /\ 1 \notin f.known /\ ~m.ricochet /\ l.bounces = 0 /\ ~bouncing
                        /\ \A i \in DOMAIN j : j[i].kind # "ricochet"
    /\ bouncing => l.bounces = 0

\* The ricochet of a shot is told once.
Once(s, u) == \A i, k \in DOMAIN u : Is(u[i], "ricochet", s) /\ Is(u[k], "ricochet", s) => i = k

InHand(s) ==
    /\ Once(s, up)
    /\ Held(Waits(up, "resolve", s), Waits(up, "ricochet", s),
            ledger[s], meta[s], shell[s], journal[s])

HandInv == \A s \in Shots : Owned(s) => InHand(s)

\* No terminal of the shot is among the messages before the i-th.
Early(s, u, i) == \A k \in 1..(i - 1) : ~Is(u[k], "resolve", s)

\* The ages told of a shot grow from the server's on, up to its terminal.
Grows(s, u, checked) ==
    \A i \in DOMAIN u :
        Tells(u[i], s) /\ Early(s, u, i) =>
            /\ checked <= Told(u[i], s)
            /\ \A k \in 1..(i - 1) : Moves(u[k], s) => Told(u[k], s) <= Told(u[i], s)

\* The server has an age of the shot that is at least this, or will have it
\* from the messages before the i-th.
Reached(s, u, i, checked, age) ==
    age <= checked \/ \E k \in 1..(i - 1) : Moves(u[k], s) /\ age <= Told(u[k], s)

\* A ricochet or a terminal is told on progress that was told before it.
Based(s, u, checked) ==
    \A i \in DOMAIN u :
        Claims(u[i], s) /\ Early(s, u, i) => Reached(s, u, i, checked, u[i].base)

\* The age the owner tells next, unless the shell has its terminal.
AgeOf(m, f) == Larger(m.base, f.at)

\* A shell in flight is at least as old as the owner has told.
Ahead(s, u, l, m, f) ==
    /\ l.checked <= AgeOf(m, f)
    /\ \A i \in DOMAIN u : Moves(u[i], s) => Told(u[i], s) <= AgeOf(m, f)
    /\ Reached(s, u, Len(u) + 1, l.checked, m.queued)
    /\ m.deferred # "no" =>
          /\ l.bounces = 1 => f.at <= l.checked
          /\ \A i \in DOMAIN u : Is(u[i], "ricochet", s) => f.at <= u[i].time

Agreed(s, u, l, m, f, j) ==
    /\ m.base <= l.checked
    /\ Grows(s, u, l.checked)
    /\ Based(s, u, l.checked)
    /\ \A i \in DOMAIN j : j[i].checked <= l.checked
    /\ m.terminal = None => Ahead(s, u, l, m, f)

\* The server has had the launch of every shot fired, or has it before it.
Introduced ==
    \A s \in Shots : s <= count.fired => ledger[s].life # "none" \/ Waits(up, "launch", s)

\* As long as no launch has been refused, server and owner agree on the ages.
CursorInv ==
    count.refused = 0 =>
        /\ \A s \in Shots : ledger[s].life # "refused"
        /\ Introduced
        /\ \A s \in Shots :
              Owned(s) => Agreed(s, up, ledger[s], meta[s], shell[s], journal[s])

ShellInv == TypeOK /\ SeriesTyped /\ RecordInv /\ PhaseInv /\ HandInv /\ CursorInv

-----------------------------------------------------------------------------
(* The records of an owner. *)

Owners == [m : Metas \cup {None}, f : Shells, out : Seq(Messages)]
Rowed(row) == row.checked \in Ages /\ row.bounces \in {0, 1}
Wire(o, s) == [type |-> "resolve", shot |-> s, base |-> Base(o), time |-> Age(o)]

LEMMA LargerFacts ==
    ASSUME NEW a \in Ages, NEW b \in Ages
    PROVE  Larger(a, b) \in Ages /\ a <= Larger(a, b) /\ b <= Larger(a, b)
           /\ Larger(a, b) \in {a, b}
  BY AgesAreNumbers DEF Larger

LEMMA ShellFacts ==
    ASSUME NEW f \in Shells, NEW segment \in {0, 1}, NEW at \in Ages
    PROVE  /\ Flies(f, segment) \in Shells
           /\ Flies(f, segment).segment = segment /\ Flies(f, segment).at = f.at
           /\ Flies(f, segment).known = f.known \cup {segment}
           /\ [Flies(f, segment) EXCEPT !.at = at] \in Shells
           /\ [Flies(f, segment) EXCEPT !.at = at].segment = segment
           /\ [Flies(f, segment) EXCEPT !.at = at].known = f.known \cup {segment}
           /\ [Flies(f, segment) EXCEPT !.at = at].at = at
           /\ Ground(f) \in Shells
           /\ Ground(f).segment = None /\ Ground(f).known = f.known /\ Ground(f).at = 0
           /\ [Ground(f) EXCEPT !.at = at] \in Shells
           /\ [Ground(f) EXCEPT !.at = at].segment = None
           /\ [Ground(f) EXCEPT !.at = at].known = f.known
           /\ [Ground(f) EXCEPT !.at = at].at = at
           /\ [f EXCEPT !.at = at] \in Shells
           /\ [f EXCEPT !.at = at].segment = f.segment /\ [f EXCEPT !.at = at].known = f.known
           /\ [f EXCEPT !.at = at].at = at
  BY AgesAreNumbers DEF Shells, Segments, Flies, Ground

LEMMA NewMetaFacts ==
    ASSUME NEW checked \in Ages, NEW bounces \in {0, 1}, NEW launching \in BOOLEAN
    PROVE  /\ NewMeta(checked, bounces, launching) \in Metas
           /\ NewMeta(checked, bounces, launching).terminal = None
<1>1. 0 \in Ages
  BY AgesAreNumbers
<1> DEFINE m == NewMeta(checked, bounces, launching)
<1>2. m = [base |-> checked, queued |-> 0, bounces |-> bounces, launching |-> launching,
           ricochet |-> FALSE, deferred |-> "no", terminal |-> None]
  BY DEF NewMeta
<1>3. None \in Wires \cup {None}
  OBVIOUS
<1> HIDE DEF m
<1>4. m \in Metas
  BY <1>1, <1>2, <1>3 DEF Metas
<1> QED
  BY <1>2, <1>4 DEF m

LEMMA WireFacts ==
    ASSUME NEW o \in Owners, o.m \in Metas, NEW s \in Shots
    PROVE  /\ Base(o) \in Ages /\ Age(o) \in Ages
           /\ Wire(o, s) \in Wires /\ Wire(o, s) \in Messages
           /\ Is(Wire(o, s), "resolve", s) /\ Wire(o, s) # None
           /\ Wire(o, s).base = Base(o) /\ Wire(o, s).time = Age(o)
<1>1. o.m.base \in Ages /\ o.m.queued \in Ages /\ o.f.at \in Ages
  BY DEF Owners, Metas, Shells
<1>2. Base(o) \in Ages /\ Age(o) \in Ages
  BY <1>1, LargerFacts DEF Base, Age
<1>3. Wire(o, s) \in Wires
  BY <1>2 DEF Wire, Wires, Tellings
<1>4. Wire(o, s) \in Messages
  BY <1>2 DEF Wire, Messages, Tellings
<1> QED
  BY <1>2, <1>3, <1>4, NoneAssumption DEF Is, Wire

LEMMA TerminatedFacts ==
    ASSUME NEW o \in Owners, o.m \in Metas, o.out = <<>>, NEW s \in Shots
    PROVE  /\ Terminated(o, s) = [m |-> [o.m EXCEPT !.terminal = Wire(o, s)], f |-> o.f,
                 out |-> IF o.m.terminal = None THEN <<Wire(o, s)>> ELSE <<>>]
           /\ [o.m EXCEPT !.terminal = Wire(o, s)] \in Metas
           /\ Terminated(o, s) \in Owners
<1>1. Terminated(o, s) = [m |-> [o.m EXCEPT !.terminal = Wire(o, s)], f |-> o.f,
                 out |-> IF o.m.terminal = None THEN <<Wire(o, s)>> ELSE <<>>]
  <2> DEFINE w == Wire(o, s)
  <2>1. Terminated(o, s) = [o EXCEPT !.m.terminal = w,
                                     !.out = IF o.m.terminal = None THEN Append(@, w) ELSE @]
    BY DEF Terminated, Wire
  <2>2. Append(<<>>, w) = <<w>>
    OBVIOUS
  <2> HIDE DEF w
  <2>3. Terminated(o, s) = [o EXCEPT !.m.terminal = w,
                                     !.out = IF o.m.terminal = None THEN <<w>> ELSE <<>>]
    BY <2>1, <2>2
  <2>4. Terminated(o, s) = [m |-> [o.m EXCEPT !.terminal = w], f |-> o.f,
                            out |-> IF o.m.terminal = None THEN <<w>> ELSE <<>>]
    BY <2>3 DEF Owners
  <2> QED
    BY <2>4 DEF w
<1>2. [o.m EXCEPT !.terminal = Wire(o, s)] \in Metas
  BY WireFacts DEF Metas
<1>3. <<Wire(o, s)>> \in Seq(Messages) /\ <<>> \in Seq(Messages)
  BY WireFacts
<1>4. o.f \in Shells
  BY DEF Owners
<1> QED
  BY <1>1, <1>2, <1>3, <1>4 DEF Owners

\* A segment that is due is begun, or the shell ends.
AdmitsNothing(o, a) == o.m.deferred # "due" /\ a = o
AdmitsSegment(o, a) ==
    /\ o.m.deferred = "due" /\ 1 \notin o.f.known
    /\ a = [m |-> [o.m EXCEPT !.deferred = "no"], f |-> Flies(o.f, 1), out |-> <<>>]
AdmitsEnd(o, s, a) ==
    /\ o.m.deferred = "due" /\ 1 \in o.f.known /\ o.m.terminal = None
    /\ a = [m |-> [[o.m EXCEPT !.deferred = "no"] EXCEPT !.terminal = Wire(o, s)], f |-> o.f,
            out |-> <<Wire(o, s)>>]
AdmitsEnded(o, a) ==
    /\ o.m.deferred = "due" /\ 1 \in o.f.known /\ o.m.terminal # None
    /\ a = [m |-> [o.m EXCEPT !.deferred = "no"], f |-> o.f, out |-> <<>>]

LEMMA AdmittedFacts ==
    ASSUME NEW o \in Owners, o.m \in Metas, o.out = <<>>, NEW s \in Shots
    PROVE  /\ \/ AdmitsNothing(o, Admitted(o, s)) \/ AdmitsSegment(o, Admitted(o, s))
              \/ AdmitsEnd(o, s, Admitted(o, s)) \/ AdmitsEnded(o, Admitted(o, s))
           /\ Admitted(o, s) \in Owners /\ Admitted(o, s).m \in Metas
<1> DEFINE m == [o.m EXCEPT !.deferred = "no"]
           b == [m |-> m, f |-> o.f, out |-> <<>>]
<1>1. m \in Metas
  BY DEF Metas
<1>2. [o EXCEPT !.m.deferred = "no"] = b
  BY DEF Owners
<1>3. o.f \in Shells /\ <<>> \in Seq(Messages)
  BY DEF Owners
<1>4. b \in Owners /\ b.m \in Metas /\ b.out = <<>>
  BY <1>1, <1>3 DEF Owners
<1>5. m.base = o.m.base /\ m.queued = o.m.queued /\ m.terminal = o.m.terminal
  BY DEF Metas
<1>6. Wire(b, s) = Wire(o, s)
  BY <1>5 DEF Wire, Base, Age
<1>7. b.m = m /\ b.f = o.f
  OBVIOUS
<1> HIDE DEF m, b
<1>8. CASE o.m.deferred # "due"
  BY <1>8 DEF Admitted, AdmitsNothing
<1>9. CASE o.m.deferred = "due" /\ 1 \notin o.f.known
  <2>1. Admitted(o, s) = [b EXCEPT !.f = Flies(@, 1)]
    BY <1>2, <1>7, <1>9 DEF Admitted
  <2>2. Admitted(o, s) = [m |-> m, f |-> Flies(o.f, 1), out |-> <<>>]
    BY <2>1 DEF b
  <2>3. Flies(o.f, 1) \in Shells
    BY <1>3, ShellFacts, AgesAreNumbers
  <2> QED
    BY <1>1, <1>3, <1>9, <2>2, <2>3 DEF AdmitsSegment, m, Owners
<1>10. CASE o.m.deferred = "due" /\ 1 \in o.f.known /\ o.m.terminal = None
  <2>1. Admitted(o, s) = Terminated(b, s)
    BY <1>2, <1>7, <1>10 DEF Admitted
  <2>2. /\ Terminated(b, s) = [m |-> [m EXCEPT !.terminal = Wire(o, s)], f |-> o.f,
                               out |-> <<Wire(o, s)>>]
        /\ [m EXCEPT !.terminal = Wire(o, s)] \in Metas /\ Terminated(b, s) \in Owners
    BY <1>4, <1>5, <1>6, <1>7, <1>10, TerminatedFacts
  <2> QED
    BY <1>10, <2>1, <2>2 DEF AdmitsEnd, m
<1>11. CASE o.m.deferred = "due" /\ 1 \in o.f.known /\ o.m.terminal # None
  <2>1. Admitted(o, s) = b
    BY <1>2, <1>5, <1>7, <1>11 DEF Admitted
  <2> QED
    BY <1>4, <1>11, <2>1 DEF AdmitsEnded, b, m
<1> QED
  BY <1>8, <1>9, <1>10, <1>11

\* What a row that is not newer than the meta does to it.
Updated(m, row) ==
    [m EXCEPT !.launching = FALSE,
              !.base = IF row.bounces = m.bounces THEN Larger(m.base, row.checked) ELSE m.base]

LEMMA InstalledFacts ==
    ASSUME NEW o \in Owners, NEW row, Rowed(row)
    PROVE  /\ Installed(o, row) \in Owners /\ Installed(o, row).m \in Metas
           /\ Installed(o, row).out = o.out
           /\ o.m = None => Installed(o, row).m.terminal = None
           /\ o.m # None => Installed(o, row).m.terminal = o.m.terminal
           /\ o.m # None /\ row.bounces <= o.m.bounces =>
                /\ Installed(o, row) = [m |-> Updated(o.m, row), f |-> o.f, out |-> o.out]
                /\ Updated(o.m, row) \in Metas
<1> DEFINE i == Installed(o, row)
<1>1. o.f \in Shells /\ o.out \in Seq(Messages) /\ o.m \in Metas \cup {None}
      /\ o = [m |-> o.m, f |-> o.f, out |-> o.out]
  BY DEF Owners
<1>2. row.checked \in Ages /\ row.bounces \in {0, 1}
  BY DEF Rowed
<1>3. CASE o.m = None
  <2> DEFINE n == NewMeta(row.checked, row.bounces, FALSE)
  <2>1. n \in Metas /\ n.terminal = None
    BY <1>2, NewMetaFacts
  <2>2. i = [o EXCEPT !.m = n]
    BY <1>3 DEF Installed
  <2> HIDE DEF n, i
  <2>3. i = [m |-> n, f |-> o.f, out |-> o.out]
    BY <1>1, <2>2
  <2>4. i \in Owners /\ i.m = n /\ i.out = o.out
    BY <1>1, <2>1, <2>3 DEF Owners
  <2> QED
    BY <1>3, <2>1, <2>4 DEF i
<1>4. CASE o.m # None
  <2> DEFINE h == [o.m EXCEPT !.launching = FALSE]
             b == Larger(o.m.base, row.checked)
             heard == [m |-> h, f |-> o.f, out |-> o.out]
  <2>1. o.m \in Metas
    BY <1>1, <1>4
  <2>2. o.m.base \in Ages /\ o.m.bounces \in {0, 1}
    BY <2>1 DEF Metas
  <2>3. b \in Ages
    BY <1>2, <2>2, LargerFacts
  <2>4. [o EXCEPT !.m.launching = FALSE] = heard
    <3> DEFINE m == o.m
               f == o.f
               out == o.out
    <3>1. o = [m |-> m, f |-> f, out |-> out] /\ m \in Metas
      BY <1>1, <2>1
    <3>2. o.m = m
      OBVIOUS
    <3> HIDE DEF m, f, out
    <3>3. \A no : [o EXCEPT !.m.launching = no] = [m |-> [m EXCEPT !.launching = no], f |-> f, out |-> out]
      BY <3>1
    <3>4. [o EXCEPT !.m.launching = FALSE] = [m |-> [m EXCEPT !.launching = FALSE], f |-> f, out |-> out]
      BY <3>3, Zenon
    <3> QED
      BY <3>2, <3>4, Zenon DEF m, f, out
  <2>5. h \in Metas /\ h.base = o.m.base /\ h.bounces = o.m.bounces /\ h.terminal = o.m.terminal
    BY <2>1 DEF Metas
  <2>6. heard.m = h /\ heard.f = o.f /\ heard.out = o.out
    OBVIOUS
  <2>11. i = CASE row.bounces < o.m.bounces -> heard
               [] row.bounces = o.m.bounces -> [heard EXCEPT !.m.base = Larger(@, row.checked)]
               [] row.bounces > o.m.bounces ->
                    [heard EXCEPT !.m.base = Larger(@, row.checked), !.m.bounces = row.bounces,
                                  !.m.ricochet = FALSE,
                                  !.f = IF @.segment = 0 THEN Ground(@) ELSE @]
    <3> HIDE DEF heard
    <3> QED
      BY <1>4, <2>4, ZenonT(30) DEF Installed
  <2> HIDE DEF h, heard, b
  <2>7. CASE row.bounces < o.m.bounces
    <3>1. i = heard
      <4> HIDE DEF i
      <4> QED
        BY <1>2, <2>2, <2>7, <2>11
    <3>2. row.bounces # o.m.bounces
      BY <1>2, <2>2, <2>7
    <3>3. h = Updated(o.m, row)
      BY <2>1, <3>2 DEF h, Updated, Metas
    <3> HIDE DEF i
    <3>4. i \in Owners
      BY <1>1, <2>5, <3>1 DEF heard, Owners
    <3> QED
      BY <1>4, <2>5, <2>6, <3>1, <3>3, <3>4 DEF i, heard
  <2>8. CASE row.bounces = o.m.bounces
    <3>1. ~(row.bounces < o.m.bounces)
      BY <1>2, <2>2, <2>8
    <3>2. i = [heard EXCEPT !.m.base = Larger(@, row.checked)]
      <4> HIDE DEF i
      <4> QED
        BY <1>2, <2>2, <2>8, <2>11, <3>1
    <3>3. heard.m.base = o.m.base
      BY <2>5, <2>6
    <3>4. i = [heard EXCEPT !.m.base = b]
      BY <3>2, <3>3 DEF b
    <3> DEFINE n == [h EXCEPT !.base = b]
    <3> HIDE DEF i
    <3>5. i = [m |-> n, f |-> o.f, out |-> o.out]
      BY <3>4 DEF heard
    <3>6. n \in Metas /\ n.terminal = o.m.terminal
      BY <2>3, <2>5 DEF Metas
    <3>7. n = Updated(o.m, row)
      BY <2>1, <2>8 DEF h, b, Updated, Metas
    <3> HIDE DEF n
    <3>8. i \in Owners /\ i.m = n /\ i.out = o.out
      BY <1>1, <3>5, <3>6 DEF Owners
    <3> QED
      BY <1>4, <3>5, <3>6, <3>7, <3>8 DEF i
  <2>9. CASE row.bounces > o.m.bounces
    <3> DEFINE f == IF o.f.segment = 0 THEN Ground(o.f) ELSE o.f
               n == [h EXCEPT !.base = b, !.bounces = row.bounces, !.ricochet = FALSE]
    <3>1. ~(row.bounces < o.m.bounces) /\ row.bounces # o.m.bounces /\ ~(row.bounces <= o.m.bounces)
      BY <1>2, <2>2, <2>9
    <3>2. i = [heard EXCEPT !.m.base = Larger(@, row.checked), !.m.bounces = row.bounces,
                            !.m.ricochet = FALSE,
                            !.f = IF @.segment = 0 THEN Ground(@) ELSE @]
      <4> HIDE DEF i
      <4> QED
        BY <1>2, <2>2, <2>9, <2>11, <3>1
    <3>3. heard.m.base = o.m.base
      BY <2>5, <2>6
    <3>4. i = [heard EXCEPT !.m.base = b, !.m.bounces = row.bounces, !.m.ricochet = FALSE, !.f = f]
      BY <2>6, <3>2, <3>3 DEF b
    <3>5. f \in Shells
      BY <1>1, ShellFacts, AgesAreNumbers
    <3>6. n \in Metas /\ n.terminal = o.m.terminal
      BY <1>2, <2>3, <2>5 DEF Metas
    <3> HIDE DEF i, f
    <3>7. i = [m |-> n, f |-> f, out |-> o.out]
      BY <3>4 DEF heard
    <3> HIDE DEF n
    <3>8. i \in Owners /\ i.m = n /\ i.out = o.out
      BY <1>1, <3>5, <3>6, <3>7 DEF Owners
    <3> QED
      BY <1>4, <3>1, <3>6, <3>8 DEF i
  <2>10. row.bounces < o.m.bounces \/ row.bounces = o.m.bounces \/ row.bounces > o.m.bounces
    BY <1>2, <2>2
  <2> QED
    BY <2>7, <2>8, <2>9, <2>10
<1> QED
  BY <1>3, <1>4

\* All an owner sends is terminals of its shot.
Ends(out, s) == \A i \in DOMAIN out : Is(out[i], "resolve", s)

LEMMA AdmittedType ==
    ASSUME NEW o \in Owners, o.m \in Metas, o.out = <<>>, NEW s \in Shots, OwnTerminal(s, o.m)
    PROVE  /\ Admitted(o, s) \in Owners /\ Admitted(o, s).m \in Metas
           /\ OwnTerminal(s, Admitted(o, s).m) /\ Ends(Admitted(o, s).out, s)
<1> DEFINE a == Admitted(o, s)
<1>1. a \in Owners /\ a.m \in Metas
  BY AdmittedFacts
<1>2. [o.m EXCEPT !.deferred = "no"].terminal = o.m.terminal
  BY DEF Metas
<1>3. o.m # None
  BY NoneAssumption
<1>4. AdmitsNothing(o, a) \/ AdmitsSegment(o, a) \/ AdmitsEnd(o, s, a) \/ AdmitsEnded(o, a)
  BY AdmittedFacts
<1>5. Is(Wire(o, s), "resolve", s)
  BY WireFacts
<1> HIDE DEF a
<1>6. CASE AdmitsNothing(o, a)
  BY <1>1, <1>6 DEF AdmitsNothing, Ends, a
<1>7. CASE AdmitsSegment(o, a)
  <2>1. a.m.terminal = o.m.terminal /\ a.out = <<>>
    BY <1>2, <1>7 DEF AdmitsSegment
  <2> QED
    BY <1>1, <1>3, <2>1 DEF Ends, OwnTerminal, a
<1>8. CASE AdmitsEnd(o, s, a)
  <2>1. a.m.terminal = Wire(o, s) /\ a.out = <<Wire(o, s)>>
    BY <1>8 DEF AdmitsEnd, Metas
  <2> QED
    BY <1>1, <1>5, <2>1 DEF Ends, OwnTerminal, Is, a
<1>9. CASE AdmitsEnded(o, a)
  <2>1. a.m.terminal = o.m.terminal /\ a.out = <<>>
    BY <1>2, <1>9 DEF AdmitsEnded
  <2> QED
    BY <1>1, <1>3, <2>1 DEF Ends, OwnTerminal, a
<1> QED
  BY <1>4, <1>6, <1>7, <1>8, <1>9

LEMMA AcceptedType ==
    ASSUME NEW o \in Owners, o.out = <<>>, NEW s \in Shots, NEW row, Rowed(row),
           OwnTerminal(s, o.m)
    PROVE  /\ Accepted(o, s, row) \in Owners
           /\ OwnTerminal(s, Accepted(o, s, row).m) /\ Ends(Accepted(o, s, row).out, s)
<1> DEFINE i == Installed(o, row)
<1>1. i \in Owners /\ i.m \in Metas /\ i.out = <<>> /\ OwnTerminal(s, i.m)
  BY InstalledFacts DEF OwnTerminal
<1>2. Ends(<<>>, s)
  BY DEF Ends
<1>3. i = [m |-> i.m, f |-> i.f, out |-> <<>>] /\ i.f \in Shells
  BY <1>1 DEF Owners
<1> DEFINE f == [Flies(i.f, row.bounces) EXCEPT !.at = row.checked]
<1>4. f \in Shells
  BY <1>3, ShellFacts DEF Rowed
<1> HIDE DEF i, f
<1>5. CASE i.f.segment = i.m.bounces \/ i.m.terminal # None \/ i.m.ricochet
  BY <1>1, <1>2, <1>5 DEF Accepted, i
<1>6. CASE ~(i.f.segment = i.m.bounces \/ i.m.terminal # None \/ i.m.ricochet)
  <2>1. CASE i.m.deferred # "no"
    <3>1. Accepted(o, s, row) = Admitted(i, s)
      BY <1>6, <2>1 DEF Accepted, i
    <3> QED
      BY <1>1, <3>1, AdmittedType
  <2>2. CASE i.m.deferred = "no" /\ row.bounces \notin i.f.known
    <3>1. Accepted(o, s, row) = [i EXCEPT !.f = f]
      BY <1>6, <2>2 DEF Accepted, i, f
    <3>2. Accepted(o, s, row) = [m |-> i.m, f |-> f, out |-> <<>>]
      BY <1>3, <3>1
    <3> QED
      BY <1>1, <1>2, <1>4, <3>2 DEF Owners
  <2>3. CASE i.m.deferred = "no" /\ row.bounces \in i.f.known
    <3>1. Accepted(o, s, row) = [i EXCEPT !.m = None]
      BY <1>6, <2>3 DEF Accepted, i
    <3>2. Accepted(o, s, row) = [m |-> None, f |-> i.f, out |-> <<>>]
      BY <1>3, <3>1
    <3> QED
      BY <1>1, <1>2, <1>3, <3>2 DEF Owners, OwnTerminal
  <2> QED
    BY <2>1, <2>2, <2>3
<1> QED
  BY <1>5, <1>6

-----------------------------------------------------------------------------
(* Types. *)

ServerTyped ==
    /\ ledger \in [Shots -> Entries]
    /\ journal \in [Shots -> Seq(Events)]
    /\ \A s \in Shots : ledger[s].life = "none" => ledger[s] = Unknown

ClientTyped ==
    /\ meta \in [Shots -> Metas \cup {None}]
    /\ shell \in [Shots -> Shells]
    /\ settled \subseteq Shots
    /\ up \in Seq(Messages) /\ Len(up) <= MaxUp
    /\ \A s \in Shots : OwnTerminal(s, meta[s])

CountTyped == count \in [fired : 0..MaxShots, refused : Nat, expired : Nat, deferred : Nat]

Typed == ServerTyped /\ ClientTyped /\ CountTyped

LEMMA TypedParts == Typed <=> TypeOK /\ RecordInv
  BY DEF Typed, ServerTyped, ClientTyped, CountTyped, TypeOK, RecordInv

LEMMA OwnerType ==
    ASSUME ClientTyped, NEW s \in Shots
    PROVE  /\ Owner(s) \in Owners /\ Owner(s).out = <<>> /\ OwnTerminal(s, Owner(s).m)
           /\ Owner(s).m = meta[s] /\ Owner(s).f = shell[s]
           /\ Owner(s) = [m |-> meta[s], f |-> shell[s], out |-> <<>>]
           /\ meta[s] # None => meta[s] \in Metas
           /\ shell[s] \in Shells
<1>1. meta[s] \in Metas \cup {None} /\ shell[s] \in Shells /\ <<>> \in Seq(Messages)
      /\ OwnTerminal(s, meta[s])
  BY DEF ClientTyped
<1>2. Owner(s) = [m |-> meta[s], f |-> shell[s], out |-> <<>>]
  BY DEF Owner
<1> QED
  BY <1>1, <1>2 DEF Owners

\* A step of the owner of one shot.
LEMMA StepsFacts ==
    ASSUME ClientTyped, NEW s \in Shots, NEW o \in Owners, OwnTerminal(s, o.m), Steps(s, o)
    PROVE  /\ meta' \in [Shots -> Metas \cup {None}] /\ shell' \in [Shots -> Shells]
           /\ up' = up \o o.out /\ up' \in Seq(Messages) /\ Len(up') <= MaxUp
           /\ meta'[s] = o.m /\ shell'[s] = o.f
           /\ \A r \in Shots : r # s => meta'[r] = meta[r] /\ shell'[r] = shell[r]
           /\ \A r \in Shots : OwnTerminal(r, meta'[r])
<1>1. o.m \in Metas \cup {None} /\ o.f \in Shells /\ o.out \in Seq(Messages)
  BY DEF Owners
<1>2. meta' = [meta EXCEPT ![s] = o.m] /\ shell' = [shell EXCEPT ![s] = o.f]
      /\ up' = up \o o.out /\ Len(up) + Len(o.out) <= MaxUp
  BY DEF Steps
<1>3. meta \in [Shots -> Metas \cup {None}] /\ shell \in [Shots -> Shells]
      /\ up \in Seq(Messages) /\ \A r \in Shots : OwnTerminal(r, meta[r])
  BY DEF ClientTyped
<1>4. meta' \in [Shots -> Metas \cup {None}] /\ shell' \in [Shots -> Shells]
      /\ meta'[s] = o.m /\ shell'[s] = o.f
      /\ \A r \in Shots : r # s => meta'[r] = meta[r] /\ shell'[r] = shell[r]
  BY <1>1, <1>2, <1>3
<1>5. up' \in Seq(Messages) /\ Len(up') = Len(up) + Len(o.out)
  BY <1>1, <1>2, <1>3, JoinedFacts
<1>6. ASSUME NEW r \in Shots PROVE OwnTerminal(r, meta'[r])
  BY <1>3, <1>4
<1> QED
  BY <1>2, <1>4, <1>5, <1>6

LEMMA StepsType ==
    ASSUME ClientTyped, NEW s \in Shots, NEW o \in Owners, OwnTerminal(s, o.m), Steps(s, o),
           settled' \subseteq Shots
    PROVE  ClientTyped'
<1>1. /\ meta' \in [Shots -> Metas \cup {None}] /\ shell' \in [Shots -> Shells]
      /\ up' \in Seq(Messages) /\ Len(up') <= MaxUp
      /\ \A r \in Shots : OwnTerminal(r, meta'[r])
  BY StepsFacts
<1> QED
  BY <1>1 DEF ClientTyped

LEMMA EntryFacts ==
    ASSUME SeriesTyped
    PROVE  /\ Unknown \in Entries /\ Unknown.life = "none" /\ Unknown.checked = 0
           /\ Unknown.bounces = 0
           /\ Launched \in Entries /\ Launched.life = "live" /\ Launched.checked = 0
           /\ Launched.bounces = 0
           /\ \A outcome : /\ Tombstone(outcome) \in Entries
                           /\ Tombstone(outcome).life \in {"over", "refused"}
                           /\ Tombstone(outcome).life = "refused" <=> outcome = "refused"
<1>1. Fired \in Nat
  BY DEF SeriesTyped, Fired
<1>2. 0 \in Ages
  BY AgesAreNumbers
<1> QED
  <2>1. /\ Unknown \in Entries /\ Unknown.life = "none" /\ Unknown.checked = 0
        /\ Unknown.bounces = 0
    BY <1>2 DEF Unknown, Entries
  <2>2. /\ Launched \in Entries /\ Launched.life = "live" /\ Launched.checked = 0
        /\ Launched.bounces = 0
    <3> DEFINE n == Fired + 1
    <3>1. n \in Nat
      BY <1>1
    <3>2. Launched = [Unknown EXCEPT !.life = "live", !.ordinal = n]
      BY DEF Launched
    <3> HIDE DEF n
    <3>3. Launched = [life |-> "live", checked |-> 0, bounces |-> 0, ordinal |-> n]
      BY <3>2 DEF Unknown
    <3> QED
      BY <1>2, <3>1, <3>3 DEF Entries
  <2>3. ASSUME NEW outcome
        PROVE  /\ Tombstone(outcome) \in Entries
               /\ Tombstone(outcome).life \in {"over", "refused"}
               /\ Tombstone(outcome).life = "refused" <=> outcome = "refused"
    <3>1. CASE outcome = "refused"
      <4>1. Tombstone(outcome) = [Unknown EXCEPT !.life = "refused"]
        BY <3>1 DEF Tombstone
      <4> QED
        BY <1>2, <3>1, <4>1 DEF Unknown, Entries
    <3>2. CASE outcome # "refused"
      <4>1. Tombstone(outcome) = [Unknown EXCEPT !.life = "over"]
        BY <3>2 DEF Tombstone
      <4> QED
        BY <1>2, <3>2, <4>1 DEF Unknown, Entries
    <3> QED
      BY <3>1, <3>2
  <2> QED
    BY <2>1, <2>2, <2>3

\* A shot's entry is replaced and an event announced.
LEMMA ServerType ==
    ASSUME ServerTyped, NEW s \in Shots, NEW l \in Entries, l.life = "none" => l = Unknown,
           ledger' = [ledger EXCEPT ![s] = l], NEW e \in Events, Announce(s, e)
    PROVE  /\ ServerTyped'
           /\ ledger'[s] = l /\ \A r \in Shots : r # s => ledger'[r] = ledger[r]
           /\ journal'[s] = Append(journal[s], e)
           /\ \A r \in Shots : r # s => journal'[r] = journal[r]
<1>1. ledger' \in [Shots -> Entries] /\ ledger'[s] = l
      /\ \A r \in Shots : r # s => ledger'[r] = ledger[r]
  BY DEF ServerTyped
<1>2. journal[s] \in Seq(Events)
  BY DEF ServerTyped
<1>3. Append(journal[s], e) \in Seq(Events)
  BY <1>2
<1>4. journal' = [journal EXCEPT ![s] = Append(journal[s], e)]
  BY DEF Announce
<1>5. journal' \in [Shots -> Seq(Events)] /\ journal'[s] = Append(journal[s], e)
      /\ \A r \in Shots : r # s => journal'[r] = journal[r]
  BY <1>3, <1>4 DEF ServerTyped
<1>6. \A r \in Shots : ledger'[r].life = "none" => ledger'[r] = Unknown
  BY <1>1 DEF ServerTyped
<1>7. ServerTyped'
  BY <1>1, <1>5, <1>6 DEF ServerTyped, Unknown
<1> QED
  BY <1>1, <1>5, <1>7

LEMMA EndFacts ==
    ASSUME ServerTyped, SeriesTyped, NEW s \in Shots, NEW outcome, End(s, outcome)
    PROVE  /\ ServerTyped'
           /\ ledger'[s] = Tombstone(outcome)
           /\ \A r \in Shots : r # s => ledger'[r] = ledger[r]
           /\ journal'[s] = Append(journal[s], Event("impact", s))
           /\ Event("impact", s).kind = "impact"
           /\ \A r \in Shots : r # s => journal'[r] = journal[r]
<1>1. ledger[s].checked \in Ages
  BY DEF ServerTyped, Entries
<1>2. Event("impact", s) \in Events /\ Event("impact", s).kind = "impact"
  BY <1>1 DEF Event, Events
<1>3. Tombstone(outcome) \in Entries /\ Tombstone(outcome).life # "none"
  BY EntryFacts
<1>4. ledger' = [ledger EXCEPT ![s] = Tombstone(outcome)] /\ Announce(s, Event("impact", s))
  BY DEF End
<1> HIDE DEF Tombstone, Event
<1> QED
  BY <1>2, <1>3, <1>4, ServerType

\* The server's reading of each message.
LEMMA LaunchFacts ==
    ASSUME ServerTyped, CountTyped, SeriesTyped, NEW m \in Messages, m.type = "launch", Launch(m)
    PROVE  /\ ServerTyped' /\ CountTyped' /\ m.shot \in Shots
           /\ \A r \in Shots : r # m.shot => ledger'[r] = ledger[r] /\ journal'[r] = journal[r]
           /\ \/ /\ ledger[m.shot].life = "none" /\ ledger'[m.shot] = Launched
                 /\ journal'[m.shot] = Append(journal[m.shot], [kind |-> "launch", checked |-> 0])
                 /\ count' = count
              \/ /\ ledger'[m.shot] = ledger[m.shot]
                 /\ journal'[m.shot] = Append(journal[m.shot], [kind |-> "refused", checked |-> 0])
                 /\ count'.refused > 0 /\ count'.fired = count.fired
<1>1. m.shot \in Shots
  BY MessageFacts
<1>2. /\ [kind |-> "launch", checked |-> 0] \in Events
      /\ [kind |-> "refused", checked |-> 0] \in Events
  BY AgesAreNumbers DEF Events
<1>3. CASE /\ \A r \in Shots : r >= m.shot => ledger[r].life = "none"
           /\ ledger' = [ledger EXCEPT ![m.shot] = Launched]
           /\ Announce(m.shot, [kind |-> "launch", checked |-> 0])
           /\ UNCHANGED count
  <2>1. ledger[m.shot].life = "none"
    <3>1. m.shot >= m.shot
      BY <1>1 DEF Shots
    <3> QED
      BY <1>1, <1>3, <3>1
  <2>2. Launched \in Entries /\ Launched.life # "none"
    BY EntryFacts
  <2>3. /\ ServerTyped' /\ ledger'[m.shot] = Launched
        /\ journal'[m.shot] = Append(journal[m.shot], [kind |-> "launch", checked |-> 0])
        /\ \A r \in Shots : r # m.shot => ledger'[r] = ledger[r]
        /\ \A r \in Shots : r # m.shot => journal'[r] = journal[r]
    BY <1>1, <1>2, <1>3, <2>2, ServerType, ZenonT(30)
  <2>4. CountTyped'
    BY <1>3 DEF CountTyped
  <2> QED
    BY <1>1, <1>3, <2>1, <2>3, <2>4
<1>4. CASE /\ Announce(m.shot, [kind |-> "refused", checked |-> 0])
           /\ count' = [count EXCEPT !.refused = @ + 1]
           /\ UNCHANGED ledger
  <2>1. ledger' = [ledger EXCEPT ![m.shot] = ledger[m.shot]]
    BY <1>1, <1>4 DEF ServerTyped
  <2>2. ledger[m.shot] \in Entries /\ (ledger[m.shot].life = "none" => ledger[m.shot] = Unknown)
    BY <1>1 DEF ServerTyped
  <2>3. /\ ServerTyped' /\ ledger'[m.shot] = ledger[m.shot]
        /\ journal'[m.shot] = Append(journal[m.shot], [kind |-> "refused", checked |-> 0])
        /\ \A r \in Shots : r # m.shot => ledger'[r] = ledger[r]
        /\ \A r \in Shots : r # m.shot => journal'[r] = journal[r]
    BY <1>1, <1>2, <1>4, <2>1, <2>2, ServerType, ZenonT(30)
  <2>4. CountTyped' /\ count'.refused > 0 /\ count'.fired = count.fired
    BY <1>4 DEF CountTyped
  <2> QED
    BY <1>1, <2>3, <2>4
<1> QED
  BY <1>3, <1>4 DEF Launch

\* What a batch does to one entry.
Progressed(m, s) == [ledger[s] EXCEPT !.checked = Larger(@, m.cursors[s])]

LEMMA ProgressFacts ==
    ASSUME ServerTyped, CountTyped, NEW m \in Messages, m.type = "progress", Progress(m)
    PROVE  /\ ServerTyped' /\ CountTyped' /\ journal' = journal /\ count' = count
           /\ \A s \in Shots : Carries(m, s) => m.cursors[s] \in Ages
           /\ \/ /\ ledger' = ledger
                 /\ \E s \in Shots : Carries(m, s) /\ ledger[s].life = "none"
              \/ \A s \in Shots :
                   ledger'[s] = IF Carries(m, s) /\ ledger[s].life = "live"
                                THEN Progressed(m, s) ELSE ledger[s]
<1>1. DOMAIN m.cursors \subseteq Shots /\ m.cursors \in [DOMAIN m.cursors -> Ages]
  BY MessageFacts
<1>2. journal' = journal /\ count' = count
  BY DEF Progress
<1>3. \A s : Carries(m, s) <=> s \in DOMAIN m.cursors
  BY DEF Carries
<1>4. CountTyped'
  BY <1>2 DEF CountTyped
<1>5. \A s \in Shots : Carries(m, s) => m.cursors[s] \in Ages
  BY <1>1, <1>3
<1>6. CASE \E s \in DOMAIN m.cursors : ledger[s].life = "none"
  <2>1. ledger' = ledger
    BY <1>6 DEF Progress
  <2>2. ServerTyped'
    BY <1>2, <2>1 DEF ServerTyped, Unknown
  <2> QED
    BY <1>1, <1>2, <1>3, <1>4, <1>5, <1>6, <2>1, <2>2
<1>7. CASE ~\E s \in DOMAIN m.cursors : ledger[s].life = "none"
  <2>1. ledger' = [s \in Shots |-> IF s \notin DOMAIN m.cursors \cap Live THEN ledger[s]
                                   ELSE [ledger[s] EXCEPT !.checked = Larger(@, m.cursors[s])]]
    BY <1>7 DEF Progress
  <2>2. ASSUME NEW s \in Shots
        PROVE  ledger'[s] = IF Carries(m, s) /\ ledger[s].life = "live"
                            THEN Progressed(m, s) ELSE ledger[s]
    BY <1>3, <2>1 DEF Live, Progressed
  <2>3. ASSUME NEW s \in Shots, Carries(m, s)
        PROVE  Progressed(m, s) \in Entries /\ Progressed(m, s).life = ledger[s].life
    <3>1. ledger[s] \in Entries /\ ledger[s].checked \in Ages
      BY DEF ServerTyped, Entries
    <3>2. Larger(ledger[s].checked, m.cursors[s]) \in Ages
      BY <1>5, <2>3, <3>1, LargerFacts
    <3> QED
      BY <3>1, <3>2 DEF Progressed, Entries
  <2>4. ASSUME NEW s \in Shots
        PROVE  ledger'[s] \in Entries /\ (ledger'[s].life = "none" => ledger'[s] = Unknown)
    <3>1. ledger[s] \in Entries /\ (ledger[s].life = "none" => ledger[s] = Unknown)
      BY DEF ServerTyped
    <3>2. CASE Carries(m, s) /\ ledger[s].life = "live"
      <4>1. ledger'[s] = Progressed(m, s)
        BY <2>2, <3>2
      <4> QED
        BY <2>3, <3>2, <4>1
    <3> QED
      BY <2>2, <3>1, <3>2
  <2>5. DOMAIN ledger' = Shots /\ ledger' = [s \in Shots |-> ledger'[s]]
    BY <2>1
  <2>6. ledger' \in [Shots -> Entries]
    BY <2>4, <2>5
  <2>7. ServerTyped'
    BY <1>2, <2>4, <2>6 DEF ServerTyped, Unknown
  <2> QED
    BY <1>2, <1>4, <1>5, <2>2, <2>7
<1> QED
  BY <1>6, <1>7

\* The entry of a shell that has bounced.
Bounced(m) == [ledger[m.shot] EXCEPT !.checked = m.time, !.bounces = 1]

LEMMA RicochetFacts ==
    ASSUME ServerTyped, CountTyped, SeriesTyped, NEW m \in Messages, m.type = "ricochet",
           Ricochet(m)
    PROVE  /\ ServerTyped' /\ CountTyped' /\ m.shot \in Shots /\ count' = count
           /\ \A r \in Shots : r # m.shot => ledger'[r] = ledger[r] /\ journal'[r] = journal[r]
           /\ \/ /\ ledger[m.shot].life # "live" \/ ledger[m.shot].bounces = 1
                 /\ ledger'[m.shot] = ledger[m.shot] /\ journal'[m.shot] = journal[m.shot]
              \/ ledger[m.shot].life = "live" /\ ~Believed(m) /\ End(m.shot, "refused")
              \/ /\ ledger[m.shot].life = "live" /\ Believed(m) /\ ledger'[m.shot] = Bounced(m)
                 /\ Bounced(m).life = "live" /\ Bounced(m).checked = m.time /\ Bounced(m).bounces = 1
                 /\ journal'[m.shot] =
                       Append(journal[m.shot], [kind |-> "ricochet", checked |-> m.time])
<1>1. m.shot \in Shots /\ m.time \in Ages
  BY MessageFacts
<1>2. count' = count
  BY DEF Ricochet
<1>3. CountTyped'
  BY <1>2 DEF CountTyped
<1>4. m.shot \in Live <=> ledger[m.shot].life = "live"
  BY <1>1 DEF Live
<1>5. CASE m.shot \notin Live \/ ledger[m.shot].bounces = 1
  <2>1. ledger' = ledger /\ journal' = journal
    BY <1>5 DEF Ricochet
  <2>2. ServerTyped'
    BY <2>1 DEF ServerTyped, Unknown
  <2> QED
    BY <1>1, <1>2, <1>3, <1>4, <1>5, <2>1, <2>2
<1>6. CASE ~(m.shot \notin Live \/ ledger[m.shot].bounces = 1) /\ ~Believed(m)
  <2>1. End(m.shot, "refused")
    BY <1>6 DEF Ricochet
  <2>2. /\ ServerTyped'
        /\ \A r \in Shots : r # m.shot => ledger'[r] = ledger[r]
        /\ \A r \in Shots : r # m.shot => journal'[r] = journal[r]
    BY <1>1, <2>1, EndFacts
  <2> QED
    BY <1>1, <1>2, <1>3, <1>4, <1>6, <2>1, <2>2
<1>7. CASE ~(m.shot \notin Live \/ ledger[m.shot].bounces = 1) /\ Believed(m)
  <2>1. /\ ledger' = [ledger EXCEPT ![m.shot].checked = m.time, ![m.shot].bounces = 1]
        /\ Announce(m.shot, [kind |-> "ricochet", checked |-> m.time])
    BY <1>7 DEF Ricochet
  <2>2. ledger[m.shot] \in Entries /\ ledger[m.shot].life = "live"
    BY <1>1, <1>4, <1>7 DEF ServerTyped
  <2>3. /\ Bounced(m) \in Entries /\ Bounced(m).life = "live" /\ Bounced(m).checked = m.time
        /\ Bounced(m).bounces = 1
    BY <1>1, <2>2 DEF Bounced, Entries
  <2>4. ledger' = [ledger EXCEPT ![m.shot] = Bounced(m)]
    BY <1>1, <2>1 DEF Bounced, ServerTyped
  <2>5. [kind |-> "ricochet", checked |-> m.time] \in Events
    BY <1>1 DEF Events
  <2>6. Bounced(m).life = "none" => Bounced(m) = Unknown
    BY <2>3
  <2>7. /\ ServerTyped' /\ ledger'[m.shot] = Bounced(m)
        /\ journal'[m.shot] = Append(journal[m.shot], [kind |-> "ricochet", checked |-> m.time])
        /\ \A r \in Shots : r # m.shot => ledger'[r] = ledger[r]
        /\ \A r \in Shots : r # m.shot => journal'[r] = journal[r]
    <3> DEFINE l == Bounced(m)
               e == [kind |-> "ricochet", checked |-> m.time]
    <3>1. /\ l \in Entries /\ e \in Events /\ Announce(m.shot, e)
          /\ (l.life = "none" => l = Unknown) /\ ledger' = [ledger EXCEPT ![m.shot] = l]
      BY <2>1, <2>3, <2>4, <2>5, <2>6
    <3> HIDE DEF l, e
    <3>2. /\ ServerTyped' /\ ledger'[m.shot] = l /\ journal'[m.shot] = Append(journal[m.shot], e)
          /\ \A r \in Shots : r # m.shot => ledger'[r] = ledger[r]
          /\ \A r \in Shots : r # m.shot => journal'[r] = journal[r]
      BY <1>1, <3>1, ServerType
    <3> QED
      BY <3>2 DEF l, e
  <2> QED
    BY <1>1, <1>2, <1>3, <1>4, <1>7, <2>3, <2>7
<1> QED
  BY <1>5, <1>6, <1>7

LEMMA ResolveFacts ==
    ASSUME ServerTyped, CountTyped, SeriesTyped, NEW m \in Messages, m.type = "resolve",
           Resolve(m)
    PROVE  /\ ServerTyped' /\ CountTyped' /\ m.shot \in Shots /\ count' = count
           /\ \A r \in Shots : r # m.shot => ledger'[r] = ledger[r] /\ journal'[r] = journal[r]
           /\ \/ /\ ledger[m.shot].life # "live"
                 /\ ledger'[m.shot] = ledger[m.shot] /\ journal'[m.shot] = journal[m.shot]
              \/ ledger[m.shot].life = "live" /\ ~Believed(m) /\ End(m.shot, "refused")
              \/ /\ ledger[m.shot].life = "live" /\ Believed(m)
                 /\ \E outcome \in {"pierced", "stopped"} : End(m.shot, outcome)
<1>1. m.shot \in Shots
  BY MessageFacts
<1>2. count' = count
  BY DEF Resolve
<1>3. CountTyped'
  BY <1>2 DEF CountTyped
<1>4. m.shot \in Live <=> ledger[m.shot].life = "live"
  BY <1>1 DEF Live
<1>5. CASE m.shot \notin Live
  <2>1. ledger' = ledger /\ journal' = journal
    BY <1>5 DEF Resolve
  <2>2. ServerTyped'
    BY <2>1 DEF ServerTyped, Unknown
  <2> QED
    BY <1>1, <1>2, <1>3, <1>4, <1>5, <2>1, <2>2
<1>6. ASSUME NEW outcome, End(m.shot, outcome)
      PROVE  /\ ServerTyped'
             /\ \A r \in Shots : r # m.shot => ledger'[r] = ledger[r] /\ journal'[r] = journal[r]
  BY <1>1, <1>6, EndFacts
<1>7. CASE m.shot \in Live /\ ~Believed(m)
  <2>1. End(m.shot, "refused")
    BY <1>7 DEF Resolve
  <2> QED
    BY <1>1, <1>2, <1>3, <1>4, <1>6, <1>7, <2>1
<1>8. CASE m.shot \in Live /\ Believed(m)
  <2>1. PICK outcome \in {"pierced", "stopped"} : End(m.shot, outcome)
    BY <1>8 DEF Resolve
  <2> QED
    BY <1>1, <1>2, <1>3, <1>4, <1>6, <1>8, <2>1
<1> QED
  BY <1>5, <1>7, <1>8

\* The owner's steps, and what they leave of a shot and say of it.
FiredOwner(s) ==
    [m |-> NewMeta(0, 0, TRUE), f |-> Flies(shell[s], 0),
     out |-> <<[type |-> "launch", shot |-> s]>>]

LEMMA FireFacts ==
    ASSUME ClientTyped, CountTyped, Fire
    PROVE  LET s == count.fired + 1 IN
           /\ s \in Shots /\ FiredOwner(s) \in Owners /\ Steps(s, FiredOwner(s))
           /\ OwnTerminal(s, FiredOwner(s).m)
           /\ [type |-> "launch", shot |-> s] \in Messages
           /\ count'.fired = s /\ count'.refused = count.refused /\ CountTyped'
<1> DEFINE s == count.fired + 1
           w == [type |-> "launch", shot |-> s]
           m == NewMeta(0, 0, TRUE)
           f == Flies(shell[s], 0)
<1>1. s \in Shots
  BY ShellAssumption DEF Fire, CountTyped, Shots
<1>2. count'.fired = s /\ count'.refused = count.refused /\ CountTyped'
  BY <1>1 DEF Fire, CountTyped, Shots
<1>3. w \in Messages
  BY <1>1 DEF Messages
<1>4. m \in Metas /\ m.terminal = None
  BY AgesAreNumbers, NewMetaFacts
<1>5. shell[s] \in Shells
  BY <1>1 DEF ClientTyped
<1>6. f \in Shells
  BY <1>5, ShellFacts, AgesAreNumbers
<1>7. Steps(s, FiredOwner(s))
  BY DEF Fire, FiredOwner
<1> HIDE DEF m, f, w
<1>8. <<w>> \in Seq(Messages)
  BY <1>3
<1>9. FiredOwner(s) = [m |-> m, f |-> f, out |-> <<w>>]
  BY DEF FiredOwner, m, f, w
<1> HIDE DEF s
<1>10. FiredOwner(s) \in Owners /\ FiredOwner(s).m = m
  BY <1>4, <1>6, <1>8, <1>9 DEF Owners
<1>11. OwnTerminal(s, FiredOwner(s).m)
  BY <1>4, <1>10 DEF OwnTerminal
<1> QED
  BY <1>1, <1>2, <1>3, <1>7, <1>10, <1>11 DEF w, s

HitOwner(s) ==
    [m |-> [meta[s] EXCEPT !.terminal = Wire(Owner(s), s)], f |-> Ground(shell[s]),
     out |-> IF meta[s].terminal = None THEN <<Wire(Owner(s), s)>> ELSE <<>>]
LostOwner(s) == [m |-> None, f |-> Ground(shell[s]), out |-> <<>>]

LEMMA HitFacts ==
    ASSUME ClientTyped, NEW s \in Shots, Hit(s)
    PROVE  /\ meta[s] = None => LostOwner(s) \in Owners /\ Steps(s, LostOwner(s))
           /\ meta[s] # None =>
                /\ HitOwner(s) \in Owners /\ Steps(s, HitOwner(s))
                /\ OwnTerminal(s, HitOwner(s).m)
<1> DEFINE o == Owner(s)
           f == Ground(shell[s])
           landed == [o EXCEPT !.f = Ground(@)]
<1>1. o \in Owners /\ o.out = <<>> /\ o.m = meta[s] /\ o.f = shell[s]
      /\ o = [m |-> meta[s], f |-> shell[s], out |-> <<>>]
      /\ shell[s] \in Shells /\ (meta[s] # None => meta[s] \in Metas)
  BY OwnerType
<1>2. f \in Shells
  BY <1>1, ShellFacts, AgesAreNumbers
<1>3. <<>> \in Seq(Messages)
  BY EmptyFacts
<1>4. landed = [m |-> meta[s], f |-> f, out |-> <<>>] /\ landed.f = f
  BY <1>1
<1>5. CASE meta[s] = None
  <2>1. Steps(s, landed)
    BY <1>5 DEF Hit
  <2>2. landed = LostOwner(s)
    BY <1>4, <1>5 DEF LostOwner
  <2>3. LostOwner(s) \in Owners
    <3> HIDE DEF f
    <3>1. LostOwner(s) = [m |-> None, f |-> f, out |-> <<>>]
      BY DEF LostOwner, f
    <3> QED
      BY <1>2, <1>3, <3>1 DEF Owners
  <2> HIDE DEF landed
  <2> QED
    BY <1>5, <2>1, <2>2, <2>3
<1>6. CASE meta[s] # None
  <2> DEFINE m == [meta[s] EXCEPT !.terminal = Wire(o, s)]
             out == IF meta[s].terminal = None THEN <<Wire(o, s)>> ELSE <<>>
  <2>1. /\ Terminated(o, s) = [m |-> m, f |-> shell[s], out |-> out] /\ m \in Metas
        /\ Terminated(o, s) \in Owners
    BY <1>1, <1>6, TerminatedFacts
  <2>2. Steps(s, [Terminated(o, s) EXCEPT !.f = landed.f])
    BY <1>6 DEF Hit
  <2>3. [Terminated(o, s) EXCEPT !.f = landed.f] = [Terminated(o, s) EXCEPT !.f = f]
    BY <1>4
  <2>4. HitOwner(s) = [m |-> m, f |-> f, out |-> out]
    BY DEF HitOwner
  <2>5. m.terminal = Wire(o, s) /\ Wire(o, s).shot = s
    BY <1>1, <1>6 DEF Metas, Wire
  <2> HIDE DEF m, f, out, landed, o
  <2>6. [Terminated(o, s) EXCEPT !.f = f] = HitOwner(s)
    BY <2>1, <2>4
  <2>7. out \in Seq(Messages)
    BY <2>1 DEF Owners
  <2>8. HitOwner(s) \in Owners /\ HitOwner(s).m = m
    BY <1>2, <2>1, <2>4, <2>7 DEF Owners
  <2>9. Steps(s, HitOwner(s))
    BY <2>2, <2>3, <2>6
  <2>10. OwnTerminal(s, HitOwner(s).m)
    BY <2>5, <2>8 DEF OwnTerminal
  <2> QED
    BY <1>6, <2>8, <2>9, <2>10
<1> QED
  BY <1>5, <1>6

BouncedMeta(s, time) ==
    [meta[s] EXCEPT !.bounces = 1, !.ricochet = TRUE, !.queued = time,
                    !.deferred = IF time > shell[s].at THEN "ahead" ELSE "no"]
BouncedShell(s, time) ==
    IF time > shell[s].at THEN [Ground(shell[s]) EXCEPT !.at = time]
    ELSE [Flies(shell[s], 1) EXCEPT !.at = time]
BouncedWire(s, time) ==
    [type |-> "ricochet", shot |-> s, base |-> Base(Owner(s)), time |-> time]
BouncedOwner(s, time) ==
    [m |-> BouncedMeta(s, time), f |-> BouncedShell(s, time), out |-> <<BouncedWire(s, time)>>]

LEMMA BounceFacts ==
    ASSUME ClientTyped, CountTyped, NEW s \in Shots, Bounce(s)
    PROVE  /\ CountTyped' /\ count'.fired = count.fired /\ count'.refused = count.refused
           /\ meta[s] \in Metas
           /\ \E time \in {Age(Owner(s)), Age(Owner(s)) + 1} :
                /\ time \in Ages /\ BouncedOwner(s, time) \in Owners
                /\ BouncedWire(s, time) \in Messages
                /\ Steps(s, BouncedOwner(s, time))
                /\ OwnTerminal(s, BouncedOwner(s, time).m)
<1> DEFINE o == Owner(s)
<1>1. o \in Owners /\ o.out = <<>> /\ o.m = meta[s] /\ o.f = shell[s]
      /\ o = [m |-> meta[s], f |-> shell[s], out |-> <<>>]
      /\ shell[s] \in Shells /\ meta[s] \in Metas /\ OwnTerminal(s, meta[s])
  BY OwnerType DEF Bounce
<1>2. PICK time \in {Age(o), Age(o) + 1} :
        /\ time < Flight /\ Steps(s, Ricochets(s, time))
        /\ count' = [count EXCEPT !.deferred = @ + IF time > shell[s].at THEN 1 ELSE 0]
  BY DEF Bounce
<1>3. Age(o) \in Ages /\ Base(o) \in Ages
  BY <1>1, WireFacts
<1>4. time \in Ages
  BY <1>2, <1>3, AgesAreNumbers DEF Ages
<1>5. CountTyped' /\ count'.fired = count.fired /\ count'.refused = count.refused
  BY <1>2 DEF CountTyped
<1>6. BouncedWire(s, time) \in Messages
  BY <1>3, <1>4 DEF BouncedWire, Messages, Tellings
<1>7. BouncedMeta(s, time) \in Metas /\ BouncedMeta(s, time).terminal = meta[s].terminal
  BY <1>1, <1>4 DEF BouncedMeta, Metas
<1>8. BouncedShell(s, time) \in Shells
  BY <1>1, <1>4, ShellFacts DEF BouncedShell
<1>9. Ricochets(s, time) = BouncedOwner(s, time)
  <2> DEFINE m == BouncedMeta(s, time)
             f == BouncedShell(s, time)
             out == <<BouncedWire(s, time)>>
  <2>1. Ricochets(s, time) = [o EXCEPT !.m = m, !.f = f, !.out = out]
    BY <1>1 DEF Ricochets, BouncedMeta, BouncedShell, BouncedWire
  <2>2. BouncedOwner(s, time) = [m |-> m, f |-> f, out |-> out]
    BY DEF BouncedOwner
  <2> HIDE DEF m, f, out, o
  <2> QED
    BY <1>1, <2>1, <2>2
<1>10. BouncedOwner(s, time) \in Owners /\ BouncedOwner(s, time).m = BouncedMeta(s, time)
  <2>1. <<BouncedWire(s, time)>> \in Seq(Messages)
    BY <1>6
  <2> QED
    BY <1>7, <1>8, <2>1 DEF BouncedOwner, Owners
<1>11. OwnTerminal(s, BouncedOwner(s, time).m)
  <2>1. meta[s] # None
    BY <1>1, NoneAssumption
  <2> QED
    BY <1>1, <1>7, <1>10, <2>1 DEF OwnTerminal
<1> QED
  BY <1>1, <1>2, <1>4, <1>5, <1>6, <1>9, <1>10, <1>11

LEMMA AdvanceFacts ==
    ASSUME ClientTyped, NEW s \in Shots, Advance(s)
    PROVE  /\ ClientTyped' /\ meta' = meta /\ up' = up /\ settled' = settled
           /\ shell'[s] = [shell[s] EXCEPT !.at = shell[s].at + 1]
           /\ shell'[s].segment = shell[s].segment /\ shell'[s].known = shell[s].known
           /\ shell'[s].at = shell[s].at + 1 /\ shell[s].at \in Nat
           /\ \A r \in Shots : r # s => shell'[r] = shell[r]
<1>1. shell[s] \in Shells /\ shell \in [Shots -> Shells]
  BY DEF ClientTyped
<1>2. shell[s].at \in Ages /\ shell[s].at < Flight
  BY <1>1 DEF Advance, Shells
<1>3. shell[s].at + 1 \in Ages /\ shell[s].at \in Nat
  BY <1>2, AgesAreNumbers DEF Ages
<1>4. shell' = [shell EXCEPT ![s] = [shell[s] EXCEPT !.at = shell[s].at + 1]]
  BY <1>1 DEF Advance
<1>5. [shell[s] EXCEPT !.at = shell[s].at + 1] \in Shells
  BY <1>1, <1>3, ShellFacts, AgesAreNumbers
<1>6. /\ shell' \in [Shots -> Shells]
      /\ shell'[s] = [shell[s] EXCEPT !.at = shell[s].at + 1]
      /\ \A r \in Shots : r # s => shell'[r] = shell[r]
  BY <1>1, <1>4, <1>5
<1>7. meta' = meta /\ up' = up /\ settled' = settled
  BY DEF Advance
<1>8. ClientTyped'
  BY <1>6, <1>7 DEF ClientTyped, OwnTerminal
<1>9. shell'[s].segment = shell[s].segment /\ shell'[s].known = shell[s].known
      /\ shell'[s].at = shell[s].at + 1
  BY <1>1, <1>6 DEF Shells
<1> QED
  BY <1>3, <1>6, <1>7, <1>8, <1>9

LEMMA DueFacts ==
    ASSUME ClientTyped, NEW s \in Shots, Due(s)
    PROVE  /\ ClientTyped' /\ shell' = shell /\ up' = up /\ settled' = settled
           /\ meta[s] \in Metas /\ meta'[s] = [meta[s] EXCEPT !.deferred = "due"]
           /\ meta[s].deferred = "ahead"
           /\ \A r \in Shots : r # s => meta'[r] = meta[r]
<1>1. meta[s] \in Metas /\ meta \in [Shots -> Metas \cup {None}] /\ OwnTerminal(s, meta[s])
  BY DEF ClientTyped, Due
<1>2. meta' = [meta EXCEPT ![s] = [meta[s] EXCEPT !.deferred = "due"]]
  BY <1>1 DEF Due
<1>3. /\ [meta[s] EXCEPT !.deferred = "due"] \in Metas
      /\ [meta[s] EXCEPT !.deferred = "due"].terminal = meta[s].terminal
  BY <1>1 DEF Metas
<1>4. /\ meta' \in [Shots -> Metas \cup {None}]
      /\ meta'[s] = [meta[s] EXCEPT !.deferred = "due"]
      /\ \A r \in Shots : r # s => meta'[r] = meta[r]
  BY <1>1, <1>2, <1>3
<1>5. \A r \in Shots : OwnTerminal(r, meta'[r])
  BY <1>1, <1>3, <1>4, NoneAssumption DEF ClientTyped, OwnTerminal
<1>6. shell' = shell /\ up' = up /\ settled' = settled /\ meta[s].deferred = "ahead"
  BY DEF Due
<1> QED
  BY <1>1, <1>4, <1>5, <1>6 DEF ClientTyped

\* A shot's event is presented.
Row(e) == [checked |-> e.checked, bounces |-> IF e.kind = "ricochet" THEN 1 ELSE 0]
Shown(s, e) ==
    [Installed(Owner(s), Row(e)) EXCEPT !.m.ricochet = @ /\ e.kind # "ricochet"]
ShownOwner(s, e) == Accepted(Shown(s, e), s, Row(e))

LEMMA EventFacts ==
    ASSUME NEW e \in Events
    PROVE  /\ Rowed(Row(e)) /\ e.checked \in Ages
           /\ e.kind \in {"launch", "refused", "ricochet", "impact"}
           /\ Row(e).checked = e.checked
           /\ Row(e).bounces = IF e.kind = "ricochet" THEN 1 ELSE 0
  BY DEF Events, Row, Rowed

\* Nothing is left of the shot.
Gone(s) ==
    /\ meta'[s] = None /\ \A r \in Shots : r # s => meta'[r] = meta[r]
    /\ \A r \in Shots : r # s => shell'[r] = shell[r]
    /\ up' = up /\ settled' \in {settled, settled \cup {s}}

LEMMA GoneType ==
    ASSUME ClientTyped, NEW s \in Shots, NEW f \in Shells, meta' = [meta EXCEPT ![s] = None],
           shell' = [shell EXCEPT ![s] = f], up' = up, settled' \in {settled, settled \cup {s}}
    PROVE  ClientTyped' /\ Gone(s)
<1>1. meta \in [Shots -> Metas \cup {None}] /\ shell \in [Shots -> Shells] /\ settled \subseteq Shots
      /\ \A r \in Shots : OwnTerminal(r, meta[r])
  BY DEF ClientTyped
<1>2. meta' \in [Shots -> Metas \cup {None}] /\ shell' \in [Shots -> Shells] /\ meta'[s] = None
      /\ \A r \in Shots : r # s => meta'[r] = meta[r] /\ shell'[r] = shell[r]
  BY <1>1
<1>3. \A r \in Shots : OwnTerminal(r, meta'[r])
  BY <1>1, <1>2 DEF OwnTerminal
<1>4. settled' \subseteq Shots
  BY <1>1
<1>5. up' \in Seq(Messages) /\ Len(up') <= MaxUp
  BY DEF ClientTyped
<1> QED
  BY <1>2, <1>3, <1>4, <1>5 DEF ClientTyped, Gone

LEMMA PresentFacts ==
    ASSUME ServerTyped, ClientTyped, NEW s \in Shots, Present(s)
    PROVE  LET e == Head(journal[s]) IN
           /\ journal[s] # <<>> /\ e \in Events /\ e = journal[s][1]
           /\ ServerTyped' /\ ledger' = ledger
           /\ journal'[s] = Tail(journal[s]) /\ \A r \in Shots : r # s => journal'[r] = journal[r]
           /\ ClientTyped'
           /\ \/ e.kind \in {"refused", "impact"} /\ Gone(s)
              \/ s \in settled /\ meta' = meta /\ shell' = shell /\ settled' = settled /\ up' = up
              \/ /\ e.kind \in {"launch", "ricochet"} /\ s \notin settled
                 /\ ShownOwner(s, e) \in Owners /\ Steps(s, ShownOwner(s, e))
                 /\ OwnTerminal(s, ShownOwner(s, e).m) /\ Ends(ShownOwner(s, e).out, s)
                 /\ settled' = settled
<1> DEFINE e == Head(journal[s])
<1>1. journal[s] # <<>> /\ journal[s] \in Seq(Events)
  BY DEF Present, ServerTyped
<1>2. e \in Events /\ e = journal[s][1] /\ Tail(journal[s]) \in Seq(Events)
  BY <1>1
<1>3. journal' = [journal EXCEPT ![s] = Tail(journal[s])] /\ ledger' = ledger
  BY DEF Present, serverVars
<1>4. /\ journal' \in [Shots -> Seq(Events)] /\ journal'[s] = Tail(journal[s])
      /\ \A r \in Shots : r # s => journal'[r] = journal[r]
  BY <1>2, <1>3 DEF ServerTyped
<1>5. ServerTyped'
  BY <1>3, <1>4 DEF ServerTyped, Unknown
<1> DEFINE Rest ==
             \/ e.kind \in {"refused", "impact"} /\ Gone(s)
             \/ s \in settled /\ meta' = meta /\ shell' = shell /\ settled' = settled /\ up' = up
             \/ /\ e.kind \in {"launch", "ricochet"} /\ s \notin settled
                /\ ShownOwner(s, e) \in Owners /\ Steps(s, ShownOwner(s, e))
                /\ OwnTerminal(s, ShownOwner(s, e).m) /\ Ends(ShownOwner(s, e).out, s)
                /\ settled' = settled
<1>6. meta \in [Shots -> Metas \cup {None}] /\ shell \in [Shots -> Shells] /\ shell[s] \in Shells
  BY DEF ClientTyped
<1>7. CASE e.kind = "refused"
  <2>1. Withdrawn(s) /\ up' = up
    BY <1>7 DEF Present
  <2>2. CASE meta[s] = None
    <3>1. UNCHANGED <<meta, shell, settled>>
      BY <2>1, <2>2 DEF Withdrawn
    <3>2. meta' = [meta EXCEPT ![s] = None] /\ shell' = [shell EXCEPT ![s] = shell[s]]
      BY <1>6, <2>2, <3>1
    <3>3. ClientTyped' /\ Gone(s)
      BY <1>6, <2>1, <3>1, <3>2, GoneType
    <3> QED
      BY <1>1, <1>2, <1>3, <1>4, <1>5, <1>7, <3>3
  <2>3. CASE meta[s] # None
    <3> DEFINE f == [(IF shell[s].segment = meta[s].bounces THEN Ground(shell[s]) ELSE shell[s])
                       EXCEPT !.known = shell[s].known \ {meta[s].bounces}]
    <3>1. /\ meta' = [meta EXCEPT ![s] = None] /\ settled' = settled \cup {s}
          /\ shell' = [shell EXCEPT ![s] = f]
      BY <2>1, <2>3 DEF Withdrawn
    <3>2. Ground(shell[s]) \in Shells
      BY <1>6, ShellFacts, AgesAreNumbers
    <3>3. f \in Shells
      BY <1>6, <3>2 DEF Shells
    <3> HIDE DEF f
    <3>4. ClientTyped' /\ Gone(s)
      BY <2>1, <3>1, <3>3, GoneType
    <3> QED
      BY <1>1, <1>2, <1>3, <1>4, <1>5, <1>7, <3>4
  <2> QED
    BY <2>2, <2>3
<1>8. CASE e.kind = "impact"
  <2> DEFINE f == IF shell[s].segment = (IF meta[s] = None THEN 0 ELSE meta[s].bounces)
                  THEN Ground(shell[s]) ELSE shell[s]
  <2>1. /\ meta' = [meta EXCEPT ![s] = None] /\ settled' = settled \cup {s} /\ up' = up
        /\ shell' = [shell EXCEPT ![s] = f]
    BY <1>8 DEF Present
  <2>2. f \in Shells
    BY <1>6, ShellFacts, AgesAreNumbers
  <2> HIDE DEF f
  <2>3. ClientTyped' /\ Gone(s)
    BY <2>1, <2>2, GoneType
  <2> QED
    BY <1>1, <1>2, <1>3, <1>4, <1>5, <1>8, <2>3
<1>9. CASE e.kind \notin {"refused", "impact"} /\ s \in settled
  <2>1. meta' = meta /\ shell' = shell /\ settled' = settled /\ up' = up
    BY <1>9 DEF Present
  <2>2. ClientTyped'
    BY <2>1 DEF ClientTyped, OwnTerminal
  <2> QED
    BY <1>1, <1>2, <1>3, <1>4, <1>5, <1>9, <2>1, <2>2
<1>10. CASE e.kind \notin {"refused", "impact"} /\ s \notin settled
  <2> DEFINE i == Installed(Owner(s), Row(e))
             b == i.m.ricochet /\ e.kind # "ricochet"
  <2>1. Steps(s, ShownOwner(s, e)) /\ settled' = settled
    BY <1>10 DEF Present, ShownOwner, Shown, Row
  <2>2. /\ Owner(s) \in Owners /\ Owner(s).out = <<>> /\ OwnTerminal(s, Owner(s).m)
    BY OwnerType
  <2>3. Rowed(Row(e)) /\ e.kind \in {"launch", "refused", "ricochet", "impact"}
    BY <1>2, EventFacts
  <2>4. /\ i \in Owners /\ i.m \in Metas /\ i.out = <<>>
        /\ i.m.terminal # None => i.m.terminal.shot = s
    BY <2>2, <2>3, InstalledFacts DEF OwnTerminal
  <2>5. Shown(s, e) = [i EXCEPT !.m.ricochet = b]
    BY DEF Shown
  <2>6. b \in BOOLEAN
    OBVIOUS
  <2> HIDE DEF i, b
  <2> DEFINE m == [i.m EXCEPT !.ricochet = b]
  <2>7. m \in Metas /\ m.terminal = i.m.terminal
    BY <2>4, <2>6 DEF Metas
  <2>8. i = [m |-> i.m, f |-> i.f, out |-> <<>>] /\ i.f \in Shells
    BY <2>4 DEF Owners
  <2>9. Shown(s, e) = [m |-> m, f |-> i.f, out |-> <<>>]
    BY <2>4, <2>5, <2>8
  <2> HIDE DEF m
  <2>10. Shown(s, e) \in Owners /\ Shown(s, e).out = <<>> /\ OwnTerminal(s, Shown(s, e).m)
    BY <2>4, <2>7, <2>8, <2>9, EmptyFacts DEF Owners, OwnTerminal
  <2>11. /\ ShownOwner(s, e) \in Owners
         /\ OwnTerminal(s, ShownOwner(s, e).m) /\ Ends(ShownOwner(s, e).out, s)
    BY <2>3, <2>10, AcceptedType DEF ShownOwner
  <2>12. settled' \subseteq Shots
    BY <2>1 DEF ClientTyped
  <2>13. ClientTyped'
    BY <2>1, <2>11, <2>12, StepsType
  <2>14. e.kind \in {"launch", "ricochet"}
    BY <1>10, <2>3
  <2> QED
    BY <1>1, <1>2, <1>3, <1>4, <1>5, <1>10, <2>1, <2>11, <2>13, <2>14
<1> QED
  BY <1>7, <1>8, <1>9, <1>10

LEMMA AdmitFacts ==
    ASSUME ClientTyped, NEW s \in Shots, Admit(s)
    PROVE  /\ meta[s] \in Metas /\ Steps(s, Admitted(Owner(s), s))
           /\ Admitted(Owner(s), s) \in Owners
           /\ OwnTerminal(s, Admitted(Owner(s), s).m) /\ Ends(Admitted(Owner(s), s).out, s)
<1>1. meta[s] \in Metas /\ Steps(s, Admitted(Owner(s), s))
  BY OwnerType DEF Admit
<1>2. Owner(s) \in Owners /\ Owner(s).out = <<>> /\ Owner(s).m = meta[s]
      /\ OwnTerminal(s, Owner(s).m)
  BY OwnerType
<1> QED
  BY <1>1, <1>2, AdmittedType

\* The shells in flight, and the message that tells of them.
InFlight == {s \in Shots : Flying(s) /\ meta[s] # None}
Batch == [type |-> "progress", cursors |-> [s \in InFlight |-> Age(Owner(s))]]

LEMMA PublishFacts ==
    ASSUME ClientTyped, Publish
    PROVE  /\ ClientTyped' /\ Batch \in Messages /\ up' = up \o <<Batch>>
           /\ shell' = shell /\ settled' = settled
           /\ \A s \in Shots :
                 /\ Carries(Batch, s) <=> s \in InFlight
                 /\ s \in InFlight =>
                       /\ meta[s] \in Metas /\ Age(Owner(s)) \in Ages
                       /\ Told(Batch, s) = Age(Owner(s))
                       /\ meta'[s] = [meta[s] EXCEPT !.queued = Age(Owner(s))]
                 /\ s \notin InFlight => meta'[s] = meta[s]
<1>1. meta \in [Shots -> Metas \cup {None}] /\ shell \in [Shots -> Shells]
      /\ up \in Seq(Messages) /\ Len(up) <= MaxUp /\ settled \subseteq Shots
      /\ \A s \in Shots : OwnTerminal(s, meta[s])
  BY DEF ClientTyped
<1>2. ASSUME NEW s \in InFlight
      PROVE  s \in Shots /\ meta[s] \in Metas /\ Age(Owner(s)) \in Ages
  <2>1. s \in Shots /\ meta[s] \in Metas
    BY <1>1 DEF InFlight
  <2> QED
    BY <2>1, OwnerType, WireFacts
<1> DEFINE c == [s \in InFlight |-> Age(Owner(s))]
<1>3. c \in [InFlight -> Ages] /\ InFlight \in SUBSET Shots
  BY <1>2
<1>4. Batch = [type |-> "progress", cursors |-> c]
  BY DEF Batch
<1>5. \A s \in InFlight : c[s] = Age(Owner(s))
  OBVIOUS
<1>6. DOMAIN c = InFlight
  OBVIOUS
<1> HIDE DEF c
<1>7. Batch \in Messages
  <2>1. c \in UNION {[d -> Ages] : d \in SUBSET Shots}
    BY <1>3
  <2> QED
    BY <1>4, <2>1 DEF Messages, Batches
<1>8. /\ up' = Append(up, Batch) /\ Len(up) < MaxUp /\ shell' = shell /\ settled' = settled
      /\ meta' = [s \in Shots |-> IF s \notin InFlight THEN meta[s]
                                  ELSE [meta[s] EXCEPT !.queued = Age(Owner(s))]]
  BY DEF Publish, InFlight, Batch
<1>9. up' = up \o <<Batch>>
  BY <1>1, <1>7, <1>8
<1>10. ASSUME NEW s \in Shots
       PROVE  /\ meta'[s] \in Metas \cup {None} /\ OwnTerminal(s, meta'[s])
              /\ s \in InFlight => meta'[s] = [meta[s] EXCEPT !.queued = Age(Owner(s))]
              /\ s \notin InFlight => meta'[s] = meta[s]
  <2>1. CASE s \in InFlight
    <3>1. meta'[s] = [meta[s] EXCEPT !.queued = Age(Owner(s))]
      BY <1>8, <2>1
    <3>2. meta[s] \in Metas /\ Age(Owner(s)) \in Ages
      BY <1>2, <2>1
    <3>3. meta'[s] \in Metas /\ meta'[s].terminal = meta[s].terminal
      BY <3>1, <3>2 DEF Metas
    <3> QED
      BY <1>1, <2>1, <3>1, <3>2, <3>3, NoneAssumption DEF OwnTerminal
  <2>2. CASE s \notin InFlight
    <3>1. meta'[s] = meta[s]
      BY <1>8, <2>2
    <3> QED
      BY <1>1, <2>2, <3>1
  <2> QED
    BY <2>1, <2>2
<1>11. meta' \in [Shots -> Metas \cup {None}]
  BY <1>8, <1>10
<1>12. up' \in Seq(Messages) /\ Len(up') <= MaxUp
  BY <1>1, <1>7, <1>8, ShellAssumption
<1>13. ClientTyped'
  BY <1>1, <1>8, <1>10, <1>11, <1>12 DEF ClientTyped
<1>14. ASSUME NEW s \in Shots
       PROVE  /\ Carries(Batch, s) <=> s \in InFlight
              /\ s \in InFlight => Told(Batch, s) = Age(Owner(s))
  BY <1>4, <1>5, <1>6 DEF Carries, Told
<1> QED
  BY <1>2, <1>7, <1>8, <1>9, <1>10, <1>13, <1>14

\* A snapshot is handled.
Met(s) ==
    IF s \in DOMAIN Rows \ settled THEN Installed(Owner(s), Rows[s]) ELSE Owner(s)

\* What is sent again are terminals of listed shots that have one.
Again(out) ==
    \A i \in DOMAIN out :
        \E s \in Shots : /\ meta[s] # None /\ meta[s].terminal # None
                         /\ out[i] = meta[s].terminal /\ Is(out[i], "resolve", s)

\* A shell is restored on the segment of its row.
Restored(s) ==
    /\ s \in DOMAIN Rows \ settled
    /\ Met(s).m.terminal = None /\ Met(s).f.segment # Met(s).m.bounces
    /\ Rows[s].bounces \notin Met(s).f.known /\ Met(s).m.deferred # "ahead"
    /\ shell'[s] = [Flies(Met(s).f, Rows[s].bounces) EXCEPT !.at = Rows[s].checked]

LEMMA RowFacts ==
    ASSUME ServerTyped
    PROVE  /\ DOMAIN Rows = Live
           /\ \A s \in Live : /\ s \in Shots /\ Rowed(Rows[s])
                              /\ Rows[s].checked = ledger[s].checked
                              /\ Rows[s].bounces = ledger[s].bounces
<1>1. DOMAIN Rows = Live
  BY DEF Rows
<1>2. ASSUME NEW s \in Live
      PROVE  /\ s \in Shots /\ Rowed(Rows[s])
             /\ Rows[s].checked = ledger[s].checked
             /\ Rows[s].bounces = ledger[s].bounces
  <2>1. s \in Shots
    BY DEF Live
  <2>2. Rows[s] = [checked |-> ledger[s].checked, bounces |-> ledger[s].bounces]
    BY DEF Rows
  <2>3. ledger[s].checked \in Ages /\ ledger[s].bounces \in {0, 1}
    BY <2>1 DEF ServerTyped, Entries
  <2> QED
    BY <2>1, <2>2, <2>3 DEF Rowed
<1> QED
  BY <1>1, <1>2

LEMMA MetFacts ==
    ASSUME ServerTyped, ClientTyped, NEW s \in Shots
    PROVE  /\ Met(s) \in Owners /\ OwnTerminal(s, Met(s).m)
           /\ meta[s] # None =>
                /\ Met(s).m # None /\ Met(s).m.terminal = meta[s].terminal
           /\ meta[s] = None => Met(s).m = None \/ Met(s).m.terminal = None
<1>1. Owner(s) \in Owners /\ OwnTerminal(s, Owner(s).m) /\ Owner(s).m = meta[s]
  BY OwnerType
<1>2. CASE s \in DOMAIN Rows \ settled
  <2>1. Rowed(Rows[s]) /\ Met(s) = Installed(Owner(s), Rows[s])
    BY <1>2, RowFacts DEF Met
  <2>2. /\ Met(s) \in Owners /\ Met(s).m \in Metas
        /\ meta[s] = None => Met(s).m.terminal = None
        /\ meta[s] # None => Met(s).m.terminal = meta[s].terminal
    BY <1>1, <2>1, InstalledFacts
  <2>3. Met(s).m # None
    BY <2>2, NoneAssumption
  <2> QED
    BY <1>1, <2>2, <2>3 DEF OwnTerminal
<1>3. CASE s \notin DOMAIN Rows \ settled
  <2>1. Met(s) = Owner(s)
    BY <1>3 DEF Met
  <2> QED
    BY <1>1, <2>1
<1> QED
  BY <1>2, <1>3

LEMMA SnapshotFacts ==
    ASSUME ServerTyped, ClientTyped, Snapshot
    PROVE  /\ ClientTyped' /\ UNCHANGED <<serverVars, journal, count>>
           /\ \A s \in Shots :
                 /\ \/ meta'[s] = Met(s).m
                    \/ /\ Acknowledged(Met(s), s, Rows) /\ meta'[s] = None
                 /\ shell'[s] = Met(s).f \/ Restored(s)
                 /\ s \in settled' => s \in settled
                      \/ (Acknowledged(Met(s), s, Rows) /\ s \notin DOMAIN Rows)
           /\ \E out \in Seq(Messages) : up' = up \o out /\ Again(out)
<1> DEFINE listed == DOMAIN Rows \ settled
           installed == [s \in Shots |-> IF s \in listed THEN Installed(Owner(s), Rows[s])
                                         ELSE Owner(s)]
           idle == {s \in listed : installed[s].f.segment # installed[s].m.bounces}
           stuck == {s \in idle : /\ installed[s].m.terminal = None
                                  /\ \/ Rows[s].bounces \in installed[s].f.known
                                     \/ installed[s].m.deferred = "ahead"}
           again == {s \in idle : installed[s].m.terminal # None /\ \A r \in stuck : s < r}
           restored == {s \in idle : installed[s].m.terminal = None /\ \A r \in stuck : s < r}
           gone == {s \in Shots : stuck = {} /\ Acknowledged(installed[s], s, Rows)}
<1>1. /\ Len(up) + Cardinality(again) <= MaxUp
      /\ \E order \in [1..Cardinality(again) -> again] :
            /\ \A i, j \in DOMAIN order : i < j => order[i] < order[j]
            /\ up' = up \o [i \in DOMAIN order |-> installed[order[i]].m.terminal]
      /\ meta' = [s \in Shots |-> IF s \in gone THEN None ELSE installed[s].m]
      /\ shell' = [s \in Shots |->
                      IF s \notin restored THEN installed[s].f
                      ELSE [Flies(installed[s].f, Rows[s].bounces) EXCEPT !.at = Rows[s].checked]]
      /\ settled' = settled \cup {s \in gone : meta[s].terminal # None /\ s \notin DOMAIN Rows}
      /\ UNCHANGED journal
  BY DEF Snapshot, Reconcile
<1>2. UNCHANGED <<serverVars, journal, count>>
  BY DEF Snapshot, Reconcile
<1>3. \A s \in Shots : installed[s] = Met(s)
  BY DEF Met
<1>4. listed \subseteq Shots /\ idle \subseteq listed /\ again \subseteq idle /\ restored \subseteq idle
  BY RowFacts DEF Live
<1>5. \A s \in idle : Met(s).f.segment # Met(s).m.bounces
  BY <1>3, <1>4
<1>6. \A s \in again : Met(s).m.terminal # None
  BY <1>3, <1>4
<1>7. \A s \in restored : Met(s).m.terminal = None /\ s \notin stuck
  <2>1. ASSUME NEW s \in restored, s \in stuck PROVE FALSE
    <3>1. s < s /\ s \in Shots
      BY <1>4, <2>1
    <3> QED
      BY <3>1 DEF Shots
  <2> QED
    BY <1>3, <1>4, <2>1
<1>8. \A s \in restored : Rows[s].bounces \notin Met(s).f.known /\ Met(s).m.deferred # "ahead"
  BY <1>3, <1>4, <1>7
<1>9. \A s \in gone : Acknowledged(Met(s), s, Rows)
  BY <1>3
<1>10. gone \subseteq Shots
  OBVIOUS
<1> HIDE DEF listed, installed, idle, stuck, again, restored, gone
<1>11. IsFiniteSet(again)
  <2>1. IsFiniteSet(Shots)
    BY ShellAssumption, FS_Interval DEF Shots
  <2>2. again \in SUBSET Shots
    BY <1>4
  <2> QED
    BY <2>1, <2>2, FS_Subset
<1>12. Cardinality(again) \in Nat
  BY <1>11, FS_CardinalityType
<1>13. PICK order \in [1..Cardinality(again) -> again] :
         up' = up \o [i \in DOMAIN order |-> installed[order[i]].m.terminal]
  BY <1>1
<1> DEFINE n == Cardinality(again)
           out == [i \in DOMAIN order |-> installed[order[i]].m.terminal]
<1>14. DOMAIN order = 1..n
  OBVIOUS
<1>15. ASSUME NEW i \in 1..n
       PROVE  /\ out[i] \in Messages
              /\ \E s \in Shots : /\ meta[s] # None /\ meta[s].terminal # None
                                  /\ out[i] = meta[s].terminal /\ Is(out[i], "resolve", s)
  <2> DEFINE s == order[i]
  <2>1. s \in again /\ s \in Shots
    BY <1>4, <1>15
  <2>2. out[i] = Met(s).m.terminal
    BY <1>3, <1>14, <2>1
  <2>3. Met(s).m.terminal # None
    BY <1>6, <2>1
  <2>4. Met(s).m # None /\ Met(s).m \in Metas
    <3>1. s \in DOMAIN Rows \ settled
      BY <1>4, <2>1 DEF listed
    <3>2. Met(s) = Installed(Owner(s), Rows[s]) /\ Rowed(Rows[s])
      BY <3>1, RowFacts DEF Met
    <3>3. Owner(s) \in Owners
      BY <2>1, OwnerType
    <3>4. Met(s).m \in Metas
      BY <3>2, <3>3, InstalledFacts
    <3> QED
      BY <3>4, NoneAssumption
  <2>5. meta[s] # None
    BY <2>1, <2>3, <2>4, MetFacts
  <2>6. meta[s].terminal # None /\ out[i] = meta[s].terminal /\ meta[s] \in Metas
    BY <2>1, <2>2, <2>3, <2>5, MetFacts DEF ClientTyped
  <2> HIDE DEF s, out
  <2>7. out[i] \in Wires
    BY <2>6 DEF Metas
  <2>8. out[i] \in Messages /\ out[i].type = "resolve"
    BY <2>7 DEF Wires, Messages, Tellings
  <2>9. out[i].shot = s
    BY <2>1, <2>5, <2>6 DEF ClientTyped, OwnTerminal
  <2> QED
    BY <2>1, <2>5, <2>6, <2>8, <2>9 DEF Is
<1>16. DOMAIN out = 1..n /\ n \in Nat
  BY <1>12, <1>14
<1>17. out = [i \in 1..n |-> out[i]]
  BY <1>14
<1>18. up' = up \o out /\ Len(up) + n <= MaxUp
  BY <1>1, <1>13
<1> HIDE DEF n, out
<1>19. out \in Seq(Messages) /\ Len(out) = n
  BY <1>15, <1>16, <1>17
<1>20. Again(out)
  BY <1>15, <1>16 DEF Again
<1>21. up' \in Seq(Messages) /\ Len(up') <= MaxUp
  BY <1>18, <1>19, JoinedFacts DEF ClientTyped
<1>22. ASSUME NEW s \in Shots
       PROVE  /\ meta'[s] \in Metas \cup {None} /\ OwnTerminal(s, meta'[s])
              /\ meta'[s] = Met(s).m \/ (Acknowledged(Met(s), s, Rows) /\ meta'[s] = None)
  <2>1. Met(s) \in Owners /\ OwnTerminal(s, Met(s).m)
    BY MetFacts
  <2>2. Met(s).m \in Metas \cup {None}
    BY <2>1 DEF Owners
  <2>3. meta'[s] = IF s \in gone THEN None ELSE Met(s).m
    BY <1>1, <1>3
  <2> QED
    BY <1>9, <2>1, <2>2, <2>3 DEF OwnTerminal
<1>23. ASSUME NEW s \in Shots
       PROVE  shell'[s] \in Shells /\ (shell'[s] = Met(s).f \/ Restored(s))
  <2>1. Met(s) \in Owners
    BY MetFacts
  <2>2. Met(s).f \in Shells
    BY <2>1 DEF Owners
  <2>3. CASE s \notin restored
    <3>1. shell'[s] = Met(s).f
      BY <1>1, <1>3, <2>3
    <3> QED
      BY <2>2, <3>1
  <2>4. CASE s \in restored
    <3>1. shell'[s] = [Flies(Met(s).f, Rows[s].bounces) EXCEPT !.at = Rows[s].checked]
      BY <1>1, <1>3, <2>4
    <3>2. s \in DOMAIN Rows \ settled
      BY <1>4, <2>4 DEF listed
    <3>3. Rowed(Rows[s])
      BY <3>2, RowFacts
    <3>4. shell'[s] \in Shells
      <4> DEFINE b == Rows[s].bounces
                 a == Rows[s].checked
                 f == Met(s).f
      <4>1. b \in {0, 1} /\ a \in Ages /\ f \in Shells
        BY <2>2, <3>3 DEF Rowed
      <4>2. shell'[s] = [Flies(f, b) EXCEPT !.at = a]
        BY <3>1
      <4> HIDE DEF a, b, f
      <4> QED
        <5>1. [Flies(f, b) EXCEPT !.at = a] \in Shells
          BY <4>1, ShellFacts
        <5> QED
          BY <4>2, <5>1
    <3>5. Restored(s)
      BY <1>4, <1>5, <1>7, <1>8, <2>4, <3>1, <3>2 DEF Restored
    <3> QED
      BY <3>4, <3>5
  <2> QED
    BY <2>3, <2>4
<1>24. meta' \in [Shots -> Metas \cup {None}] /\ shell' \in [Shots -> Shells]
  BY <1>1, <1>22, <1>23
<1>25. settled' \subseteq Shots
  BY <1>1, <1>10 DEF ClientTyped
<1>26. \A s \in settled' : s \in settled \/ (Acknowledged(Met(s), s, Rows) /\ s \notin DOMAIN Rows)
  BY <1>1, <1>9
<1>27. ClientTyped'
  BY <1>21, <1>22, <1>24, <1>25 DEF ClientTyped
<1> QED
  BY <1>2, <1>18, <1>19, <1>20, <1>22, <1>23, <1>26, <1>27

LEMMA ReceiveFacts ==
    ASSUME Typed, SeriesTyped, Receive
    PROVE  LET m == Head(up) IN
           /\ up # <<>> /\ m \in Messages /\ up' = Tail(up)
           /\ meta' = meta /\ shell' = shell /\ settled' = settled
           /\ \/ m.type = "launch" /\ Launch(m)
              \/ m.type = "progress" /\ Progress(m)
              \/ m.type = "ricochet" /\ Ricochet(m)
              \/ m.type = "resolve" /\ Resolve(m)
           /\ Typed'
<1> DEFINE m == Head(up)
<1>1. up # <<>> /\ up' = Tail(up) /\ meta' = meta /\ shell' = shell /\ settled' = settled
  BY DEF Receive
<1>2. up \in Seq(Messages) /\ Len(up) <= MaxUp
  BY DEF Typed, ClientTyped
<1>3. m \in Messages /\ Tail(up) \in Seq(Messages) /\ Len(Tail(up)) <= MaxUp
  BY <1>1, <1>2, ShellAssumption, TailFacts
<1>4. ClientTyped'
  BY <1>1, <1>3 DEF Typed, ClientTyped, OwnTerminal
<1>5. \/ m.type = "launch" /\ Launch(m)
      \/ m.type = "progress" /\ Progress(m)
      \/ m.type = "ricochet" /\ Ricochet(m)
      \/ m.type = "resolve" /\ Resolve(m)
  BY DEF Receive
<1> HIDE DEF m
<1>6. ServerTyped' /\ CountTyped'
  BY <1>3, <1>5, LaunchFacts, ProgressFacts, RicochetFacts, ResolveFacts DEF Typed
<1> QED
  BY <1>1, <1>3, <1>4, <1>5, <1>6 DEF Typed, m

LEMMA ExpireFacts ==
    ASSUME Typed, SeriesTyped, Expire
    PROVE  /\ meta' = meta /\ shell' = shell /\ settled' = settled /\ up' = up
           /\ count'.fired = count.fired /\ count'.refused = count.refused
           /\ \E s \in Live : End(s, "expired")
           /\ Typed'
<1>1. /\ meta' = meta /\ shell' = shell /\ settled' = settled /\ up' = up
      /\ count' = [count EXCEPT !.expired = @ + 1]
  BY DEF Expire
<1>2. PICK s \in Live : End(s, "expired")
  BY DEF Expire
<1>3. ServerTyped'
  BY <1>2, EndFacts DEF Typed, Live
<1>4. CountTyped' /\ count'.fired = count.fired /\ count'.refused = count.refused
  BY <1>1 DEF Typed, CountTyped
<1>5. ClientTyped'
  BY <1>1 DEF Typed, ClientTyped, OwnTerminal
<1> QED
  BY <1>1, <1>2, <1>3, <1>4, <1>5 DEF Typed

\* What the owner's steps leave alone.
LEMMA ServerRests ==
    ASSUME ServerTyped, CountTyped, UNCHANGED <<ledger, journal, count>>
    PROVE  ServerTyped' /\ CountTyped'
  BY DEF ServerTyped, CountTyped, Unknown

LEMMA TypedStep ==
    ASSUME Typed, SeriesTyped, [Next]_vars
    PROVE  Typed'
<1>1. CASE Receive
  BY <1>1, ReceiveFacts
<1>2. CASE Expire
  BY <1>2, ExpireFacts
<1>3. CASE Fire
  <2> DEFINE s == count.fired + 1
  <2>1. /\ s \in Shots /\ FiredOwner(s) \in Owners /\ Steps(s, FiredOwner(s))
        /\ OwnTerminal(s, FiredOwner(s).m) /\ CountTyped'
    BY <1>3, FireFacts DEF Typed
  <2>2. settled' \subseteq Shots /\ ledger' = ledger /\ journal' = journal
    BY <1>3 DEF Fire, serverVars, Typed, ClientTyped
  <2>3. ServerTyped'
    BY <2>2 DEF Typed, ServerTyped, Unknown
  <2> HIDE DEF s
  <2>4. ClientTyped'
    BY <2>1, <2>2, StepsType DEF Typed
  <2> QED
    BY <2>1, <2>3, <2>4 DEF Typed
<1>4. CASE Publish
  <2>1. UNCHANGED <<ledger, journal, count>>
    BY <1>4 DEF Publish, serverVars
  <2> QED
    BY <1>4, <2>1, PublishFacts, ServerRests DEF Typed
<1>5. CASE Snapshot
  <2>1. ClientTyped' /\ UNCHANGED <<serverVars, journal, count>>
    BY <1>5, SnapshotFacts DEF Typed
  <2>2. UNCHANGED <<ledger, journal, count>>
    BY <2>1 DEF serverVars
  <2> QED
    BY <2>1, <2>2, ServerRests DEF Typed
<1>6. ASSUME NEW s \in Shots, Owning(s)
      PROVE  Typed'
  <2>1. CASE Advance(s)
    <3>1. UNCHANGED <<ledger, journal, count>>
      BY <2>1 DEF Advance, serverVars
    <3> QED
      BY <2>1, <3>1, AdvanceFacts, ServerRests DEF Typed
  <2>2. CASE Hit(s)
    <3>1. UNCHANGED <<ledger, journal, count>> /\ settled' \subseteq Shots
      BY <2>2 DEF Hit, serverVars, Typed, ClientTyped
    <3>2. CASE meta[s] = None
      <4>1. LostOwner(s) \in Owners /\ Steps(s, LostOwner(s)) /\ OwnTerminal(s, LostOwner(s).m)
        BY <2>2, <3>2, HitFacts DEF Typed, LostOwner, OwnTerminal
      <4> QED
        BY <3>1, <4>1, StepsType, ServerRests DEF Typed
    <3>3. CASE meta[s] # None
      <4>1. HitOwner(s) \in Owners /\ Steps(s, HitOwner(s)) /\ OwnTerminal(s, HitOwner(s).m)
        BY <2>2, <3>3, HitFacts DEF Typed
      <4> QED
        BY <3>1, <4>1, StepsType, ServerRests DEF Typed
    <3> QED
      BY <3>2, <3>3
  <2>3. CASE Bounce(s)
    <3>1. UNCHANGED <<ledger, journal>> /\ settled' \subseteq Shots
      BY <2>3 DEF Bounce, serverVars, Typed, ClientTyped
    <3>2. PICK time : /\ BouncedOwner(s, time) \in Owners /\ Steps(s, BouncedOwner(s, time))
                      /\ OwnTerminal(s, BouncedOwner(s, time).m)
      BY <2>3, BounceFacts DEF Typed
    <3>3. CountTyped'
      BY <2>3, BounceFacts DEF Typed
    <3>4. ClientTyped'
      BY <3>1, <3>2, StepsType DEF Typed
    <3>5. ServerTyped'
      BY <3>1 DEF Typed, ServerTyped, Unknown
    <3> QED
      BY <3>3, <3>4, <3>5 DEF Typed
  <2>4. CASE Due(s)
    <3>1. UNCHANGED <<ledger, journal, count>>
      BY <2>4 DEF Due, serverVars
    <3> QED
      BY <2>4, <3>1, DueFacts, ServerRests DEF Typed
  <2>5. CASE Admit(s)
    <3>1. UNCHANGED <<ledger, journal, count>> /\ settled' \subseteq Shots
      BY <2>5 DEF Admit, serverVars, Typed, ClientTyped
    <3>2. /\ Admitted(Owner(s), s) \in Owners /\ Steps(s, Admitted(Owner(s), s))
          /\ OwnTerminal(s, Admitted(Owner(s), s).m)
      BY <2>5, AdmitFacts DEF Typed
    <3> QED
      BY <3>1, <3>2, StepsType, ServerRests DEF Typed
  <2>6. CASE Present(s)
    <3>1. ServerTyped' /\ ClientTyped'
      BY <2>6, PresentFacts DEF Typed
    <3>2. count' = count
      BY <2>6 DEF Present
    <3> QED
      BY <3>1, <3>2 DEF Typed, CountTyped
  <2> QED
    BY <1>6, <2>1, <2>2, <2>3, <2>4, <2>5, <2>6 DEF Owning
<1>7. CASE UNCHANGED vars
  BY <1>7 DEF vars, serverVars, clientVars, Typed, ServerTyped, ClientTyped, CountTyped,
              OwnTerminal, Unknown
<1> QED
  BY <1>1, <1>2, <1>3, <1>4, <1>5, <1>6, <1>7 DEF Next

LEMMA TypedBegins == Init => Typed
<1> SUFFICES ASSUME Init
             PROVE  Typed
  OBVIOUS
<1>1. 0 \in Ages
  BY AgesAreNumbers
<1>2. Unknown \in Entries
  BY <1>1 DEF Unknown, Entries
<1>3. ServerTyped
  BY <1>2, EmptyFacts DEF Init, ServerTyped
<1>4. [segment |-> None, known |-> {}, at |-> 0] \in Shells
  BY <1>1 DEF Shells, Segments
<1>5. ClientTyped
  BY <1>4, EmptyFacts, ShellAssumption DEF Init, ClientTyped, OwnTerminal
<1>6. CountTyped
  BY ShellAssumption DEF Init, CountTyped
<1> QED
  BY <1>3, <1>5, <1>6 DEF Typed

-----------------------------------------------------------------------------
(* What is known of a shot: PhaseInv. *)

LEMMA FirstJoined ==
    ASSUME NEW u \in Seq(Messages), NEW w \in Seq(Messages), NEW s,
           LaunchedFirst(s, u), \A i \in DOMAIN w : ~Is(w[i], "launch", s)
    PROVE  LaunchedFirst(s, u \o w)
<1> DEFINE j == u \o w
<1>1. SUFFICES ASSUME NEW i \in DOMAIN j, NEW k \in DOMAIN j,
                      Is(j[i], "launch", s), About(j[k], s)
               PROVE  i <= k
  BY DEF LaunchedFirst
<1>2. i \in DOMAIN u /\ j[i] = u[i]
  <2>1. CASE i \in DOMAIN u
    BY <2>1, JoinedFacts
  <2>2. CASE i > Len(u) /\ i - Len(u) \in DOMAIN w
    <3>1. j[i] = w[i - Len(u)]
      BY <1>1, <2>2
    <3> QED
      BY <1>1, <2>2, <3>1
  <2> QED
    BY <2>1, <2>2, JoinedFacts
<1>3. CASE k \in DOMAIN u
  BY <1>1, <1>2, <1>3, JoinedFacts DEF LaunchedFirst
<1>4. CASE k > Len(u)
  BY <1>2, <1>4
<1> QED
  BY <1>3, <1>4, JoinedFacts

\* When the launch is among the messages, the first of them about the shot is
\* the launch, and there is no other.
LEMMA FirstTail ==
    ASSUME NEW u \in Seq(Messages), u # <<>>, NEW s, LaunchedFirst(s, u)
    PROVE  /\ LaunchedFirst(s, Tail(u))
           /\ Waits(u, "launch", s) /\ About(Head(u), s) =>
                 Is(Head(u), "launch", s) /\ ~Waits(Tail(u), "launch", s)
<1>1. ASSUME NEW i \in DOMAIN Tail(u), NEW k \in DOMAIN Tail(u),
             Is(Tail(u)[i], "launch", s), About(Tail(u)[k], s)
      PROVE  i <= k
  <2>1. i + 1 \in DOMAIN u /\ k + 1 \in DOMAIN u /\ Tail(u)[i] = u[i + 1] /\ Tail(u)[k] = u[k + 1]
        /\ i \in Nat /\ k \in Nat
    BY <1>1, TailFacts
  <2>2. i + 1 <= k + 1
    BY <1>1, <2>1 DEF LaunchedFirst
  <2> QED
    BY <2>1, <2>2
<1>2. ASSUME NEW i \in DOMAIN u, Is(u[i], "launch", s), About(Head(u), s)
      PROVE  i = 1
  <2>1. 1 \in DOMAIN u /\ Head(u) = u[1] /\ i \in Nat \ {0}
    BY TailFacts
  <2>2. i <= 1
    BY <1>2, <2>1 DEF LaunchedFirst
  <2> QED
    BY <2>1, <2>2
<1>3. ASSUME Waits(u, "launch", s), About(Head(u), s)
      PROVE  Is(Head(u), "launch", s) /\ ~Waits(Tail(u), "launch", s)
  <2>1. Is(Head(u), "launch", s)
    BY <1>2, <1>3, TailFacts DEF Waits
  <2>2. ASSUME NEW i \in DOMAIN Tail(u), Is(Tail(u)[i], "launch", s) PROVE FALSE
    <3>1. i + 1 \in DOMAIN u /\ Tail(u)[i] = u[i + 1] /\ i \in Nat \ {0}
      BY TailFacts
    <3>2. i + 1 = 1
      BY <1>2, <1>3, <2>2, <3>1
    <3> QED
      BY <3>1, <3>2
  <2> QED
    BY <2>1, <2>2 DEF Waits
<1> QED
  BY <1>1, <1>3 DEF LaunchedFirst

\* A message about a shot is about a shot that was fired.
LEMMA AboutFired ==
    ASSUME Typed, PhaseInv, NEW s \in Shots,
           \/ \E i \in DOMAIN up : About(up[i], s)
           \/ meta[s] # None \/ ledger[s].life # "none" \/ journal[s] # <<>>
           \/ shell[s].segment # None
    PROVE  s <= count.fired
<1>1. ~(s > count.fired)
  BY DEF PhaseInv, Unfired
<1>2. s \in Nat /\ count.fired \in Nat
  BY ShellAssumption DEF Typed, CountTyped, Shots
<1> QED
  BY <1>1, <1>2

\* The steps of the owner and of its client.
LEMMA PhaseClient ==
    ASSUME Typed, Typed', PhaseInv, count'.fired = count.fired, ledger' = ledger,
           NEW out \in Seq(Messages), up' = up \o out,
           \A i \in DOMAIN out, s \in Shots :
               ~Is(out[i], "launch", s) /\ (About(out[i], s) => s <= count.fired),
           \A s \in Shots :
               /\ s > count.fired => meta'[s] = meta[s] /\ shell'[s] = shell[s]
               /\ journal[s] = <<>> => journal'[s] = <<>>
               /\ Heard(meta'[s], journal'[s], ledger[s].life)
               /\ s \in settled' => s \in settled \/ (s <= count.fired /\ ~Owned(s))
    PROVE  PhaseInv'
<1>1. up \in Seq(Messages) /\ count.fired \in Nat /\ Shots \subseteq Nat
  BY ShellAssumption DEF Typed, ClientTyped, CountTyped, Shots
<1>2. ASSUME NEW s \in Shots
      PROVE  Waits(up', "launch", s) <=> Waits(up, "launch", s)
  <2>1. ~Waits(out, "launch", s)
    BY <1>2 DEF Waits
  <2> QED
    BY <1>1, <2>1, WaitsJoined
<1>3. ASSUME NEW s \in Shots, s > count.fired
      PROVE  Unfired(s, meta[s], shell[s], journal[s])'
  <2>1. Unfired(s, meta[s], shell[s], journal[s])
    BY <1>3 DEF PhaseInv
  <2>2. ASSUME NEW k \in DOMAIN up'
        PROVE  ~About(up'[k], s)
    <3>1. CASE k \in DOMAIN up
      <4>1. up'[k] = up[k]
        BY <1>1, <3>1, JoinedFacts
      <4> QED
        BY <2>1, <3>1, <4>1 DEF Unfired
    <3>2. CASE k > Len(up) /\ k - Len(up) \in DOMAIN out
      <4>1. up'[k] = out[k - Len(up)]
        BY <1>1, <2>2, <3>2
      <4>2. ~(s <= count.fired)
        BY <1>1, <1>3
      <4> QED
        BY <3>2, <4>1, <4>2
    <3> QED
      BY <1>1, <2>2, <3>1, <3>2, JoinedFacts
  <2> QED
    BY <1>3, <2>1, <2>2 DEF Unfired
<1>4. ASSUME NEW s \in Shots
      PROVE  LaunchedFirst(s, up')
  <2>1. \A i \in DOMAIN out : ~Is(out[i], "launch", s)
    BY <1>4
  <2> QED
    BY <1>1, <2>1, FirstJoined DEF PhaseInv
<1>5. ASSUME NEW s \in Shots
      PROVE  Owned(s)' <=> Owned(s)
  BY <1>2 DEF Owned
<1>6. ASSUME NEW s \in Shots, Waits(up', "launch", s)
      PROVE  ledger'[s].life = "none" /\ journal'[s] = <<>>
  BY <1>2, <1>6 DEF PhaseInv
<1>7. ASSUME NEW s \in Shots, s \in settled'
      PROVE  s <= count'.fired /\ ~Owned(s)'
  BY <1>5, <1>7 DEF PhaseInv
<1> QED
  BY <1>3, <1>4, <1>6, <1>7 DEF PhaseInv

\* What the server may decide about a shot: nothing new; something about a
\* living shell; or whether to admit one.
Rests(s) == ledger'[s].life = ledger[s].life /\ journal'[s] = journal[s]
Decides(s) ==
    /\ ledger[s].life = "live" /\ ledger'[s].life # "none"
    /\ \E e \in Events : /\ journal'[s] = Append(journal[s], e) /\ e.kind # "refused"
                         /\ e.kind = "impact" => ledger'[s].life # "live"
Admits(s) ==
    /\ up # <<>> /\ Is(Head(up), "launch", s) /\ up' = Tail(up)
    /\ \E e \in Events : /\ journal'[s] = Append(journal[s], e) /\ e.kind # "impact"
                         /\ e.kind = "refused" <=> ledger'[s].life = "none"

LEMMA PhaseServer ==
    ASSUME Typed, Typed', PhaseInv, count'.fired = count.fired,
           meta' = meta, shell' = shell, settled' = settled,
           up' = up \/ (up # <<>> /\ up' = Tail(up)),
           \A s \in Shots : Rests(s) \/ Decides(s) \/ Admits(s)
    PROVE  PhaseInv'
<1>1. up \in Seq(Messages)
  BY DEF Typed, ClientTyped
<1>2. ASSUME NEW s \in Shots
      PROVE  /\ Waits(up', "launch", s) => Waits(up, "launch", s)
             /\ LaunchedFirst(s, up')
             /\ \A k \in DOMAIN up' : About(up'[k], s) => \E i \in DOMAIN up : About(up[i], s)
  <2>1. LaunchedFirst(s, up)
    BY DEF PhaseInv
  <2>2. CASE up' = up
    BY <2>1, <2>2
  <2>3. CASE up # <<>> /\ up' = Tail(up)
    <3>1. LaunchedFirst(s, up')
      BY <1>1, <2>1, <2>3, FirstTail
    <3>2. Waits(up', "launch", s) => Waits(up, "launch", s)
      BY <1>1, <2>3, WaitsTail
    <3>3. \A k \in DOMAIN up' : k + 1 \in DOMAIN up /\ up'[k] = up[k + 1]
      BY <1>1, <2>3, TailFacts
    <3> QED
      BY <3>1, <3>2, <3>3
  <2> QED
    BY <2>2, <2>3
<1>3. ASSUME NEW s \in Shots
      PROVE  /\ s > count'.fired => Unfired(s, meta[s], shell[s], journal[s])'
             /\ Waits(up', "launch", s) => ledger'[s].life = "none" /\ journal'[s] = <<>>
             /\ Heard(meta'[s], journal'[s], ledger'[s].life)
             /\ s \in settled' => s <= count'.fired /\ ~Owned(s)'
  <2>1. /\ s > count.fired => Unfired(s, meta[s], shell[s], journal[s])
        /\ LaunchedFirst(s, up)
        /\ Waits(up, "launch", s) => ledger[s].life = "none" /\ journal[s] = <<>>
        /\ Heard(meta[s], journal[s], ledger[s].life)
        /\ s \in settled => s <= count.fired /\ ~Owned(s)
    BY DEF PhaseInv
  <2>2. CASE Rests(s)
    <3>1. ledger'[s].life = ledger[s].life /\ journal'[s] = journal[s]
      BY <2>2 DEF Rests
    <3>2. Owned(s)' => Owned(s)
      BY <1>2, <3>1 DEF Owned
    <3>3. s > count.fired => Unfired(s, meta[s], shell[s], journal[s])'
      BY <1>2, <2>1, <3>1 DEF Unfired
    <3> QED
      BY <1>2, <2>1, <3>1, <3>2, <3>3
  <2>3. CASE Decides(s)
    <3>1. ledger[s].life = "live" /\ ledger'[s].life # "none"
      BY <2>3 DEF Decides
    <3>2. PICK e \in Events : /\ journal'[s] = Append(journal[s], e) /\ e.kind # "refused"
                              /\ e.kind = "impact" => ledger'[s].life # "live"
      BY <2>3 DEF Decides
    <3>3. ~Waits(up', "launch", s) /\ Owned(s)
      BY <1>2, <2>1, <3>1 DEF Owned
    <3>4. Heard(meta'[s], journal'[s], ledger'[s].life)
      <4>1. journal[s] \in Seq(Events)
        BY DEF Typed, ServerTyped
      <4>2. ASSUME NEW i \in DOMAIN journal'[s]
            PROVE  /\ journal'[s][i].kind # "refused"
                   /\ journal'[s][i].kind = "impact" => ledger'[s].life # "live"
        <5>1. CASE i \in DOMAIN journal[s]
          <6>1. journal'[s][i] = journal[s][i]
            BY <3>2, <4>1, <5>1
          <6> QED
            BY <2>1, <3>1, <5>1, <6>1 DEF Heard
        <5>2. CASE i \notin DOMAIN journal[s]
          <6>1. journal'[s][i] = e
            BY <3>2, <4>1, <4>2, <5>2
          <6> QED
            BY <3>2, <6>1
        <5> QED
          BY <5>1, <5>2
      <4> QED
        BY <3>1, <4>2 DEF Heard
    <3>5. s <= count.fired
      BY <3>1, AboutFired
    <3>6. ~(s > count'.fired)
      BY <3>5, ShellAssumption DEF Typed, CountTyped, Shots
    <3> QED
      BY <2>1, <3>3, <3>4, <3>6
  <2>4. CASE Admits(s)
    <3>1. Is(Head(up), "launch", s) /\ up # <<>> /\ up' = Tail(up)
      BY <2>4 DEF Admits
    <3>2. PICK e \in Events : /\ journal'[s] = Append(journal[s], e) /\ e.kind # "impact"
                              /\ e.kind = "refused" <=> ledger'[s].life = "none"
      BY <2>4 DEF Admits
    <3>3. Waits(up, "launch", s) /\ About(Head(up), s)
      BY <1>1, <3>1, WaitsTail DEF About
    <3>4. ~Waits(up', "launch", s)
      BY <1>1, <2>1, <3>1, <3>3, FirstTail
    <3>5. ledger[s].life = "none" /\ journal[s] = <<>> /\ s \notin settled
      BY <2>1, <3>3 DEF Owned
    <3>6. journal'[s] = <<e>>
      BY <3>2, <3>5
    <3>7. Heard(meta'[s], journal'[s], ledger'[s].life)
      <4>1. meta[s] = None \/ meta[s].launching
        BY <2>1, <3>5 DEF Heard
      <4>2. \A i \in DOMAIN journal'[s] : journal'[s][i] = e
        BY <3>6
      <4> QED
        BY <3>2, <4>1, <4>2 DEF Heard
    <3>8. \E i \in DOMAIN up : About(up[i], s)
      BY <1>1, <3>1, <3>3, TailFacts
    <3>9. s <= count.fired
      BY <3>8, AboutFired
    <3>10. ~(s > count'.fired)
      BY <3>9, ShellAssumption DEF Typed, CountTyped, Shots
    <3> QED
      BY <3>4, <3>5, <3>7, <3>10
  <2> QED
    BY <2>2, <2>3, <2>4
<1> QED
  BY <1>2, <1>3 DEF PhaseInv

LEMMA AdmittedKeeps ==
    ASSUME NEW o \in Owners, o.m \in Metas, o.out = <<>>, NEW s \in Shots
    PROVE  LET a == Admitted(o, s) IN
           /\ a.m.base = o.m.base /\ a.m.queued = o.m.queued /\ a.m.bounces = o.m.bounces
           /\ a.m.launching = o.m.launching /\ a.m.ricochet = o.m.ricochet
           /\ a.f.at = o.f.at
<1> DEFINE a == Admitted(o, s)
           d == [o.m EXCEPT !.deferred = "no"]
           e == [d EXCEPT !.terminal = Wire(o, s)]
<1>1. AdmitsNothing(o, a) \/ AdmitsSegment(o, a) \/ AdmitsEnd(o, s, a) \/ AdmitsEnded(o, a)
  BY AdmittedFacts
<1>2. /\ d.base = o.m.base /\ d.queued = o.m.queued /\ d.bounces = o.m.bounces
      /\ d.launching = o.m.launching /\ d.ricochet = o.m.ricochet
  BY DEF Metas
<1>3. /\ e.base = o.m.base /\ e.queued = o.m.queued /\ e.bounces = o.m.bounces
      /\ e.launching = o.m.launching /\ e.ricochet = o.m.ricochet
  BY DEF Metas
<1>4. Flies(o.f, 1).at = o.f.at
  BY ShellFacts, AgesAreNumbers DEF Owners
<1> HIDE DEF a, d, e
<1>5. CASE AdmitsNothing(o, a)
  BY <1>5 DEF AdmitsNothing, a
<1>6. CASE AdmitsSegment(o, a)
  <2>1. a.m = d /\ a.f.at = o.f.at
    BY <1>4, <1>6 DEF AdmitsSegment, d
  <2> QED
    BY <1>2, <2>1 DEF a
<1>7. CASE AdmitsEnd(o, s, a)
  <2>1. a.m = e /\ a.f = o.f
    BY <1>7 DEF AdmitsEnd, d, e
  <2> QED
    BY <1>3, <2>1 DEF a
<1>8. CASE AdmitsEnded(o, a)
  <2>1. a.m = d /\ a.f = o.f
    BY <1>8 DEF AdmitsEnded, d
  <2> QED
    BY <1>2, <2>1 DEF a
<1> QED
  BY <1>1, <1>5, <1>6, <1>7, <1>8

\* Terminals are about their shot only, and no launches.
LEMMA EndsAbout ==
    ASSUME NEW out, NEW s, Ends(out, s)
    PROVE  \A i \in DOMAIN out : \A r :
               ~Is(out[i], "launch", r) /\ ~Carries(out[i], r) /\ ~Is(out[i], "ricochet", r)
               /\ (About(out[i], r) => r = s)
  BY MessageKinds DEF Ends

\* One shot's owner takes a step that does not launch it.
LEMMA PhaseSteps ==
    ASSUME Typed, Typed', PhaseInv, UNCHANGED ledger, count'.fired = count.fired,
           NEW s \in Shots, NEW o \in Owners, OwnTerminal(s, o.m), Steps(s, o),
           \A i \in DOMAIN o.out : ~Is(o.out[i], "launch", s) /\ \A r : About(o.out[i], r) => r = s,
           s <= count.fired,
           UNCHANGED settled,
           \A r \in Shots : r # s => journal'[r] = journal[r],
           journal[s] = <<>> => journal'[s] = <<>>,
           Heard(o.m, journal'[s], ledger[s].life)
    PROVE  PhaseInv'
<1>1. /\ up' = up \o o.out /\ o.out \in Seq(Messages)
      /\ meta'[s] = o.m /\ \A r \in Shots : r # s => meta'[r] = meta[r] /\ shell'[r] = shell[r]
  BY StepsFacts DEF Typed, Owners
<1>2. \A i \in DOMAIN o.out, r \in Shots :
         ~Is(o.out[i], "launch", r) /\ (About(o.out[i], r) => r <= count.fired)
  BY DEF About
<1>3. ASSUME NEW r \in Shots
      PROVE  /\ r > count.fired => meta'[r] = meta[r] /\ shell'[r] = shell[r]
             /\ journal[r] = <<>> => journal'[r] = <<>>
             /\ Heard(meta'[r], journal'[r], ledger[r].life)
             /\ r \in settled' => r \in settled \/ (r <= count.fired /\ ~Owned(r))
  <2>1. CASE r = s
    <3>1. ~(s > count.fired)
      BY ShellAssumption DEF Typed, CountTyped, Shots
    <3> QED
      BY <1>1, <2>1, <3>1
  <2>2. CASE r # s
    BY <1>1, <2>2 DEF PhaseInv
  <2> QED
    BY <2>1, <2>2
<1> HIDE DEF Heard
<1> QED
  BY <1>1, <1>2, <1>3, PhaseClient

LEMMA PhaseFire ==
    ASSUME Typed, Typed', PhaseInv, Fire
    PROVE  PhaseInv'
<1> DEFINE s == count.fired + 1
           w == [type |-> "launch", shot |-> s]
<1>1. /\ s \in Shots /\ FiredOwner(s) \in Owners /\ Steps(s, FiredOwner(s))
      /\ OwnTerminal(s, FiredOwner(s).m) /\ w \in Messages /\ count'.fired = s
  BY FireFacts DEF Typed
<1>2. ledger' = ledger /\ journal' = journal /\ settled' = settled
  BY DEF Fire, serverVars
<1>3. FiredOwner(s).m.launching = TRUE /\ FiredOwner(s).out = <<w>>
  BY DEF FiredOwner, NewMeta
<1>4. up \in Seq(Messages) /\ count.fired \in Nat /\ Shots \subseteq Nat
  BY ShellAssumption DEF Typed, ClientTyped, CountTyped, Shots
<1>5. s > count.fired
  BY <1>4
<1>6. Is(w, "launch", s) /\ \A r : ~Is(w, "launch", r) \/ r = s
  BY DEF Is
<1>7. \A r : About(w, r) => r = s
  BY <1>6, MessageKinds
<1> HIDE DEF s, w
<1>8. /\ up' = up \o <<w>> /\ meta'[s] = FiredOwner(s).m
      /\ \A r \in Shots : r # s => meta'[r] = meta[r] /\ shell'[r] = shell[r]
  BY <1>1, <1>3, StepsFacts DEF Typed
<1>9. Unfired(s, meta[s], shell[s], journal[s])
  BY <1>1, <1>5 DEF PhaseInv
<1>10. /\ <<w>> \in Seq(Messages) /\ DOMAIN <<w>> = {1} /\ <<w>>[1] = w
  BY <1>1, SingleFacts
<1>11. ASSUME NEW k \in DOMAIN up'
       PROVE  k \in Nat /\ ((k \in DOMAIN up /\ up'[k] = up[k]) \/ (k = Len(up) + 1 /\ up'[k] = w))
  BY <1>1, <1>4, <1>8
<1>12. ASSUME NEW r \in Shots, r # s
       PROVE  Waits(up', "launch", r) => Waits(up, "launch", r)
  BY <1>6, <1>11, <1>12 DEF Waits
<1>13. ASSUME NEW r \in Shots
       PROVE  LaunchedFirst(r, up')
  <2>1. CASE r = s
    <3>1. ASSUME NEW i \in DOMAIN up', NEW k \in DOMAIN up', About(up'[i], s), About(up'[k], s)
          PROVE  i <= k
      <4>1. i = Len(up) + 1 /\ k = Len(up) + 1 /\ i \in Nat
        BY <1>9, <1>11, <3>1 DEF Unfired
      <4> QED
        BY <4>1
    <3> QED
      BY <2>1, <3>1 DEF LaunchedFirst, About
  <2>2. CASE r # s
    <3>1. \A i \in DOMAIN <<w>> : ~Is(<<w>>[i], "launch", r)
      BY <1>6, <1>10, <2>2
    <3> QED
      BY <1>4, <1>8, <1>10, <3>1, FirstJoined DEF PhaseInv
  <2> QED
    BY <2>1, <2>2
<1>14. ASSUME NEW r \in Shots, r > count'.fired
       PROVE  Unfired(r, meta[r], shell[r], journal[r])'
  <2>1. r # s /\ r > count.fired
    BY <1>1, <1>4, <1>5, <1>14
  <2>2. Unfired(r, meta[r], shell[r], journal[r])
    BY <2>1 DEF PhaseInv
  <2>3. \A k \in DOMAIN up' : ~About(up'[k], r)
    BY <1>7, <1>11, <2>1, <2>2 DEF Unfired
  <2> QED
    BY <1>2, <1>8, <2>1, <2>2, <2>3 DEF Unfired
<1>15. ASSUME NEW r \in Shots
       PROVE  Waits(up', "launch", r) => ledger'[r].life = "none" /\ journal'[r] = <<>>
  <2>1. CASE r = s
    BY <1>2, <1>9, <2>1 DEF Unfired
  <2>2. CASE r # s
    BY <1>2, <1>12, <2>2 DEF PhaseInv
  <2> QED
    BY <2>1, <2>2
<1>16. ASSUME NEW r \in Shots
       PROVE  Heard(meta'[r], journal'[r], ledger'[r].life)
  <2>1. Heard(meta[r], journal[r], ledger[r].life)
    BY DEF PhaseInv
  <2>2. CASE r = s
    BY <1>2, <1>3, <1>8, <2>1, <2>2 DEF Heard
  <2>3. CASE r # s
    BY <1>2, <1>8, <2>1, <2>3
  <2> QED
    BY <2>2, <2>3
<1>17. ASSUME NEW r \in Shots, r \in settled'
       PROVE  r <= count'.fired /\ ~Owned(r)'
  <2>1. r <= count.fired /\ ~Owned(r)
    BY <1>2, <1>17 DEF PhaseInv
  <2>2. r # s /\ r <= count'.fired
    BY <1>1, <1>4, <1>5, <2>1 DEF s
  <2> QED
    BY <1>2, <1>12, <2>1, <2>2 DEF Owned
<1> QED
  BY <1>13, <1>14, <1>15, <1>16, <1>17 DEF PhaseInv

LEMMA EndDecides ==
    ASSUME Typed, SeriesTyped, NEW s \in Shots, ledger[s].life = "live",
           NEW outcome, End(s, outcome)
    PROVE  Decides(s) /\ \A r \in Shots : r # s => Rests(r)
<1>1. /\ ledger'[s] = Tombstone(outcome)
      /\ \A r \in Shots : r # s => ledger'[r] = ledger[r]
      /\ journal'[s] = Append(journal[s], Event("impact", s))
      /\ \A r \in Shots : r # s => journal'[r] = journal[r]
  BY EndFacts DEF Typed
<1>2. Tombstone(outcome).life \in {"over", "refused"}
  BY EntryFacts
<1>3. Event("impact", s) \in Events /\ Event("impact", s).kind = "impact"
  BY DEF Event, Events, Typed, ServerTyped, Entries
<1> HIDE DEF Tombstone, Event
<1> QED
  BY <1>1, <1>2, <1>3 DEF Decides, Rests

LEMMA PhaseReceive ==
    ASSUME Typed, Typed', SeriesTyped, PhaseInv, Receive
    PROVE  PhaseInv' /\ count'.fired = count.fired
<1> DEFINE m == Head(up)
<1>1. /\ up # <<>> /\ m \in Messages /\ up' = Tail(up)
      /\ meta' = meta /\ shell' = shell /\ settled' = settled
      /\ \/ m.type = "launch" /\ Launch(m)
         \/ m.type = "progress" /\ Progress(m)
         \/ m.type = "ricochet" /\ Ricochet(m)
         \/ m.type = "resolve" /\ Resolve(m)
  BY ReceiveFacts
<1>2. SUFFICES count'.fired = count.fired /\ \A s \in Shots : Rests(s) \/ Decides(s) \/ Admits(s)
  BY <1>1, PhaseServer
<1>3. CASE m.type = "launch" /\ Launch(m)
  <2> DEFINE s == m.shot
  <2>1. /\ s \in Shots /\ count'.fired = count.fired
        /\ \A r \in Shots : r # s => ledger'[r] = ledger[r] /\ journal'[r] = journal[r]
        /\ \/ /\ ledger'[s] = Launched
              /\ journal'[s] = Append(journal[s], [kind |-> "launch", checked |-> 0])
           \/ /\ ledger'[s] = ledger[s]
              /\ journal'[s] = Append(journal[s], [kind |-> "refused", checked |-> 0])
    BY <1>1, <1>3, LaunchFacts DEF Typed
  <2>2. /\ [kind |-> "launch", checked |-> 0] \in Events
        /\ [kind |-> "refused", checked |-> 0] \in Events
    BY AgesAreNumbers DEF Events
  <2>3. Launched.life = "live"
    BY EntryFacts
  <2>4. Is(m, "launch", s)
    BY <1>3 DEF Is
  <2>5. ledger[s].life = "none"
    <3>1. up \in Seq(Messages)
      BY DEF Typed, ClientTyped
    <3>2. Waits(up, "launch", s)
      BY <1>1, <2>4, <3>1, WaitsTail
    <3> QED
      BY <2>1, <3>2 DEF PhaseInv
  <2> HIDE DEF s, m
  <2>6. Admits(s)
    BY <1>1, <2>1, <2>2, <2>3, <2>4, <2>5 DEF Admits, m
  <2>7. \A r \in Shots : r # s => Rests(r)
    BY <2>1 DEF Rests
  <2> QED
    BY <2>1, <2>6, <2>7
<1>4. CASE m.type = "progress" /\ Progress(m)
  <2>1. /\ journal' = journal /\ count' = count
        /\ \/ ledger' = ledger
           \/ \A s \in Shots :
                ledger'[s] = IF Carries(m, s) /\ ledger[s].life = "live"
                             THEN Progressed(m, s) ELSE ledger[s]
    BY <1>1, <1>4, ProgressFacts DEF Typed
  <2>2. \A s \in Shots : Progressed(m, s).life = ledger[s].life
    BY DEF Progressed, Typed, ServerTyped, Entries
  <2>3. \A s \in Shots : ledger'[s].life = ledger[s].life
    BY <2>1, <2>2
  <2> QED
    BY <2>1, <2>3 DEF Rests
<1>5. CASE m.type = "ricochet" /\ Ricochet(m)
  <2> DEFINE s == m.shot
             e == [kind |-> "ricochet", checked |-> m.time]
  <2>1. /\ s \in Shots /\ count' = count
        /\ \A r \in Shots : r # s => ledger'[r] = ledger[r] /\ journal'[r] = journal[r]
        /\ \/ ledger'[s] = ledger[s] /\ journal'[s] = journal[s]
           \/ ledger[s].life = "live" /\ End(s, "refused")
           \/ /\ ledger[s].life = "live" /\ ledger'[s] = Bounced(m) /\ Bounced(m).life = "live"
              /\ journal'[s] = Append(journal[s], e)
    BY <1>1, <1>5, RicochetFacts DEF Typed
  <2>2. e \in Events /\ e.kind = "ricochet"
    BY <1>1, <1>5, MessageFacts DEF Events
  <2>3. \A r \in Shots : r # s => Rests(r)
    BY <2>1 DEF Rests
  <2> HIDE DEF s, e
  <2>4. Rests(s) \/ Decides(s)
    <3>1. CASE ledger'[s] = ledger[s] /\ journal'[s] = journal[s]
      BY <3>1 DEF Rests
    <3>2. CASE ledger[s].life = "live" /\ End(s, "refused")
      BY <2>1, <3>2, EndDecides
    <3>3. CASE /\ ledger[s].life = "live" /\ ledger'[s] = Bounced(m) /\ Bounced(m).life = "live"
               /\ journal'[s] = Append(journal[s], e)
      BY <2>2, <3>3 DEF Decides
    <3> QED
      BY <2>1, <3>1, <3>2, <3>3
  <2> QED
    BY <2>1, <2>3, <2>4
<1>6. CASE m.type = "resolve" /\ Resolve(m)
  <2> DEFINE s == m.shot
  <2>1. /\ s \in Shots /\ count' = count
        /\ \A r \in Shots : r # s => ledger'[r] = ledger[r] /\ journal'[r] = journal[r]
        /\ \/ ledger'[s] = ledger[s] /\ journal'[s] = journal[s]
           \/ ledger[s].life = "live" /\ \E outcome : End(s, outcome)
    BY <1>1, <1>6, ResolveFacts DEF Typed
  <2>2. \A r \in Shots : r # s => Rests(r)
    BY <2>1 DEF Rests
  <2> HIDE DEF s
  <2>3. Rests(s) \/ Decides(s)
    BY <2>1, EndDecides DEF Rests
  <2> QED
    BY <2>1, <2>2, <2>3
<1> QED
  BY <1>1, <1>3, <1>4, <1>5, <1>6

LEMMA PhaseExpire ==
    ASSUME Typed, Typed', SeriesTyped, PhaseInv, Expire
    PROVE  PhaseInv'
<1>1. /\ meta' = meta /\ shell' = shell /\ settled' = settled /\ up' = up
      /\ count'.fired = count.fired /\ \E s \in Live : End(s, "expired")
  BY ExpireFacts
<1>2. PICK s \in Live : End(s, "expired")
  BY <1>1
<1>3. s \in Shots /\ ledger[s].life = "live"
  BY DEF Live
<1>4. Decides(s) /\ \A r \in Shots : r # s => Rests(r)
  BY <1>2, <1>3, EndDecides
<1> QED
  BY <1>1, <1>4, PhaseServer

LEMMA PhasePresent ==
    ASSUME Typed, Typed', PhaseInv, NEW s \in Shots, Present(s)
    PROVE  PhaseInv'
<1> DEFINE e == Head(journal[s])
<1>1. /\ journal[s] # <<>> /\ e = journal[s][1] /\ journal'[s] = Tail(journal[s])
      /\ \A r \in Shots : r # s => journal'[r] = journal[r]
      /\ ledger' = ledger
      /\ \/ e.kind \in {"refused", "impact"} /\ Gone(s)
         \/ meta' = meta /\ shell' = shell /\ settled' = settled /\ up' = up
         \/ /\ e.kind \in {"launch", "ricochet"}
            /\ ShownOwner(s, e) \in Owners /\ Steps(s, ShownOwner(s, e))
            /\ OwnTerminal(s, ShownOwner(s, e).m) /\ Ends(ShownOwner(s, e).out, s)
            /\ settled' = settled
  BY PresentFacts DEF Typed
<1>2. count' = count
  BY DEF Present
<1>3. s <= count.fired
  BY <1>1, AboutFired
<1>4. journal[s] \in Seq(Events) /\ up \in Seq(Messages)
  BY DEF Typed, ServerTyped, ClientTyped
<1>5. /\ \A i \in DOMAIN journal[s] :
            /\ journal[s][i].kind = "refused" <=> ledger[s].life = "none"
            /\ journal[s][i].kind = "impact" => ledger[s].life # "live"
      /\ meta[s] # None /\ ~meta[s].launching => ledger[s].life # "none"
      /\ ~Waits(up, "launch", s)
  BY <1>1 DEF PhaseInv, Heard
<1>6. 1 \in DOMAIN journal[s]
      /\ \A i \in DOMAIN journal'[s] : i + 1 \in DOMAIN journal[s]
                                      /\ journal'[s][i] = journal[s][i + 1]
  BY <1>1, <1>4, TailFacts
<1>7. /\ e.kind = "refused" <=> ledger[s].life = "none"
      /\ e.kind = "impact" => ledger[s].life # "live"
  BY <1>1, <1>5, <1>6
<1>8. ASSUME NEW m, m # None /\ ~m.launching => ledger[s].life # "none"
      PROVE  Heard(m, journal'[s], ledger[s].life)
  BY <1>5, <1>6, <1>8 DEF Heard
<1>9. /\ <<>> \in Seq(Messages) /\ up \o <<>> = up /\ DOMAIN <<>> = {}
  BY <1>4, EmptyFacts
<1>10. ~(s > count.fired)
  BY <1>3, ShellAssumption DEF Typed, CountTyped, Shots
<1> HIDE DEF e
<1>11. CASE e.kind \in {"refused", "impact"} /\ Gone(s)
  <2>1. /\ meta'[s] = None /\ \A r \in Shots : r # s => meta'[r] = meta[r] /\ shell'[r] = shell[r]
        /\ up' = up \o <<>> /\ settled' \subseteq settled \cup {s}
    BY <1>9, <1>11 DEF Gone
  <2>2. ~Owned(s)
    BY <1>5, <1>7, <1>11 DEF Owned
  <2>3. Heard(meta'[s], journal'[s], ledger[s].life)
    BY <1>8, <2>1
  <2>4. ASSUME NEW r \in Shots
        PROVE  /\ r > count.fired => meta'[r] = meta[r] /\ shell'[r] = shell[r]
               /\ journal[r] = <<>> => journal'[r] = <<>>
               /\ Heard(meta'[r], journal'[r], ledger[r].life)
               /\ r \in settled' => r \in settled \/ (r <= count.fired /\ ~Owned(r))
    <3>1. CASE r = s
      BY <1>1, <1>3, <1>10, <2>1, <2>2, <2>3, <3>1
    <3>2. CASE r # s
      BY <1>1, <2>1, <3>2 DEF PhaseInv
    <3> QED
      BY <3>1, <3>2
  <2> HIDE DEF Heard
  <2> QED
    BY <1>1, <1>2, <1>9, <2>1, <2>4, PhaseClient
<1>12. CASE meta' = meta /\ shell' = shell /\ settled' = settled /\ up' = up
  <2>1. Heard(meta'[s], journal'[s], ledger[s].life)
    BY <1>5, <1>8, <1>12
  <2>2. ASSUME NEW r \in Shots
        PROVE  /\ journal[r] = <<>> => journal'[r] = <<>>
               /\ Heard(meta'[r], journal'[r], ledger[r].life)
    <3>1. CASE r = s
      BY <1>1, <2>1, <3>1
    <3>2. CASE r # s
      BY <1>1, <1>12, <3>2 DEF PhaseInv
    <3> QED
      BY <3>1, <3>2
  <2>3. up' = up \o <<>>
    BY <1>9, <1>12
  <2> HIDE DEF Heard
  <2> QED
    BY <1>1, <1>2, <1>9, <1>12, <2>2, <2>3, PhaseClient
<1>13. CASE /\ e.kind \in {"launch", "ricochet"}
            /\ ShownOwner(s, e) \in Owners /\ Steps(s, ShownOwner(s, e))
            /\ OwnTerminal(s, ShownOwner(s, e).m) /\ Ends(ShownOwner(s, e).out, s)
            /\ settled' = settled
  <2> DEFINE o == ShownOwner(s, e)
  <2>1. ledger[s].life # "none"
    BY <1>7, <1>13
  <2>2. Heard(o.m, journal'[s], ledger[s].life)
    BY <1>8, <2>1
  <2>3. /\ o \in Owners /\ Steps(s, o) /\ OwnTerminal(s, o.m)
        /\ \A i \in DOMAIN o.out : ~Is(o.out[i], "launch", s) /\ \A r : About(o.out[i], r) => r = s
    BY <1>13, EndsAbout
  <2> HIDE DEF o
  <2> QED
    BY <1>1, <1>2, <1>3, <1>13, <2>2, <2>3, PhaseSteps
<1> QED
  BY <1>1, <1>11, <1>12, <1>13

LEMMA PhaseSnapshot ==
    ASSUME Typed, Typed', PhaseInv, Snapshot
    PROVE  PhaseInv'
<1>1. /\ UNCHANGED <<serverVars, journal, count>>
      /\ \A s \in Shots :
            /\ \/ meta'[s] = Met(s).m
               \/ Acknowledged(Met(s), s, Rows) /\ meta'[s] = None
            /\ shell'[s] = Met(s).f \/ Restored(s)
            /\ s \in settled' => s \in settled
                 \/ (Acknowledged(Met(s), s, Rows) /\ s \notin DOMAIN Rows)
  BY SnapshotFacts DEF Typed
<1>2. PICK out \in Seq(Messages) : up' = up \o out /\ Again(out)
  BY SnapshotFacts DEF Typed
<1>3. ledger' = ledger /\ journal' = journal /\ count' = count
  BY <1>1 DEF serverVars
<1>4. ASSUME NEW i \in DOMAIN out, NEW r \in Shots
      PROVE  ~Is(out[i], "launch", r) /\ (About(out[i], r) => r <= count.fired)
  <2>1. PICK s \in Shots : meta[s] # None /\ Is(out[i], "resolve", s)
    BY <1>2 DEF Again
  <2>2. s <= count.fired
    BY <2>1, AboutFired
  <2>3. ~Is(out[i], "launch", r) /\ (About(out[i], r) => r = s)
    BY <2>1, MessageKinds
  <2> QED
    BY <2>2, <2>3
<1>5. ASSUME NEW s \in Shots
      PROVE  /\ s > count.fired => meta'[s] = meta[s] /\ shell'[s] = shell[s]
             /\ Heard(meta'[s], journal'[s], ledger[s].life)
             /\ s \in settled' => s \in settled \/ (s <= count.fired /\ ~Owned(s))
  <2>1. Heard(meta[s], journal[s], ledger[s].life)
    BY DEF PhaseInv
  <2>2. DOMAIN Rows = Live /\ (s \in Live <=> ledger[s].life = "live")
    BY RowFacts DEF Typed, Live
  <2>3. CASE s \in DOMAIN Rows \ settled
    <3>1. ledger[s].life = "live"
      BY <2>2, <2>3
    <3>2. s <= count.fired /\ ~(s > count.fired)
      <4>1. s <= count.fired
        BY <3>1, AboutFired
      <4> QED
        BY <4>1, ShellAssumption DEF Typed, CountTyped, Shots
    <3>3. Heard(meta'[s], journal'[s], ledger[s].life)
      BY <1>3, <2>1, <3>1 DEF Heard
    <3> QED
      BY <1>1, <2>3, <3>2, <3>3
  <2>4. CASE s \notin DOMAIN Rows \ settled
    <3>1. Met(s).m = meta[s] /\ Met(s).f = shell[s]
      BY <2>4, OwnerType DEF Met, Typed
    <3>2. Heard(meta'[s], journal'[s], ledger[s].life)
      BY <1>1, <1>3, <2>1, <3>1 DEF Heard
    <3>3. ASSUME Acknowledged(Met(s), s, Rows)
          PROVE  meta[s] # None /\ ~meta[s].launching
      BY <3>1, <3>3 DEF Acknowledged
    <3>4. ASSUME s > count.fired
          PROVE  meta'[s] = meta[s] /\ shell'[s] = shell[s]
      <4>1. meta[s] = None
        BY <3>4 DEF PhaseInv, Unfired
      <4>2. ~Restored(s)
        BY <2>4 DEF Restored
      <4> QED
        BY <1>1, <3>1, <4>1, <4>2
    <3>5. ASSUME s \in settled', s \notin settled
          PROVE  s <= count.fired /\ ~Owned(s)
      <4>1. s \notin DOMAIN Rows /\ meta[s] # None /\ ~meta[s].launching
        BY <1>1, <3>3, <3>5
      <4>2. ledger[s].life # "live" /\ ledger[s].life # "none"
        BY <2>1, <2>2, <4>1 DEF Heard
      <4>3. ~Waits(up, "launch", s)
        BY <4>2 DEF PhaseInv
      <4> QED
        BY <4>1, <4>2, <4>3, AboutFired DEF Owned
    <3> QED
      BY <3>2, <3>4, <3>5
  <2> QED
    BY <2>3, <2>4
<1> HIDE DEF Heard
<1> QED
  BY <1>2, <1>3, <1>4, <1>5, PhaseClient

LEMMA PhasePublish ==
    ASSUME Typed, Typed', PhaseInv, Publish
    PROVE  PhaseInv'
<1>1. /\ Batch \in Messages /\ up' = up \o <<Batch>> /\ shell' = shell /\ settled' = settled
      /\ \A s \in Shots :
            /\ Carries(Batch, s) <=> s \in InFlight
            /\ s \in InFlight => meta[s] \in Metas
                                 /\ meta'[s] = [meta[s] EXCEPT !.queued = Age(Owner(s))]
            /\ s \notin InFlight => meta'[s] = meta[s]
  BY PublishFacts DEF Typed
<1>2. ledger' = ledger /\ journal' = journal /\ count' = count
  BY DEF Publish, serverVars
<1>3. <<Batch>> \in Seq(Messages) /\ DOMAIN <<Batch>> = {1} /\ <<Batch>>[1] = Batch
  BY <1>1, SingleFacts
<1>4. ASSUME NEW s \in Shots, s \in InFlight
      PROVE  s <= count.fired /\ ~(s > count.fired)
  <2>1. meta[s] # None
    BY <1>4 DEF InFlight
  <2>2. s <= count.fired
    BY <2>1, AboutFired
  <2> QED
    BY <2>2, ShellAssumption DEF Typed, CountTyped, Shots
<1>5. ASSUME NEW s \in Shots
      PROVE  ~Is(Batch, "launch", s) /\ (About(Batch, s) => s <= count.fired)
  <2>1. Batch.type = "progress"
    BY DEF Batch
  <2> QED
    BY <1>1, <1>4, <2>1 DEF Is, About, Tells, Moves
<1>6. ASSUME NEW s \in Shots
      PROVE  /\ s > count.fired => meta'[s] = meta[s] /\ shell'[s] = shell[s]
             /\ Heard(meta'[s], journal'[s], ledger[s].life)
  <2>1. Heard(meta[s], journal[s], ledger[s].life)
    BY DEF PhaseInv
  <2>2. CASE s \in InFlight
    <3>1. meta'[s].launching = meta[s].launching /\ meta[s] # None
      BY <1>1, <2>2 DEF InFlight, Metas
    <3>2. Heard(meta'[s], journal'[s], ledger[s].life)
      BY <1>2, <2>1, <3>1 DEF Heard
    <3> QED
      BY <1>4, <2>2, <3>2
  <2>3. CASE s \notin InFlight
    BY <1>1, <1>2, <2>1, <2>3
  <2> QED
    BY <2>2, <2>3
<1> HIDE DEF Heard
<1>7. \A i \in DOMAIN <<Batch>>, s \in Shots :
         ~Is(<<Batch>>[i], "launch", s) /\ (About(<<Batch>>[i], s) => s <= count.fired)
  BY <1>3, <1>5
<1> QED
  BY <1>1, <1>2, <1>3, <1>6, <1>7, PhaseClient

LEMMA PhaseOwning ==
    ASSUME Typed, Typed', PhaseInv, NEW s \in Shots, Owning(s)
    PROVE  PhaseInv'
<1>1. Heard(meta[s], journal[s], ledger[s].life)
  BY DEF PhaseInv
<1>2. up \in Seq(Messages) /\ shell[s] \in Shells
  BY DEF Typed, ClientTyped
<1>3. <<>> \in Seq(Messages) /\ up \o <<>> = up /\ DOMAIN <<>> = {}
  BY <1>2, EmptyFacts
<1>4. ASSUME meta[s] # None \/ shell[s].segment # None
      PROVE  s <= count.fired /\ ~(s > count.fired)
  <2>1. s <= count.fired
    BY <1>4, AboutFired
  <2> QED
    BY <2>1, ShellAssumption DEF Typed, CountTyped, Shots
<1>5. CASE Advance(s)
  <2>1. /\ meta' = meta /\ up' = up \o <<>> /\ settled' = settled
        /\ \A r \in Shots : r # s => shell'[r] = shell[r]
    BY <1>3, <1>5, AdvanceFacts DEF Typed
  <2>2. ledger' = ledger /\ journal' = journal /\ count' = count
    BY <1>5 DEF Advance, serverVars
  <2>3. ~(s > count.fired)
    BY <1>4, <1>5 DEF Advance, Flying
  <2>4. \A r \in Shots : /\ r > count.fired => meta'[r] = meta[r] /\ shell'[r] = shell[r]
                         /\ Heard(meta'[r], journal'[r], ledger[r].life)
    BY <2>1, <2>2, <2>3 DEF PhaseInv
  <2> HIDE DEF Heard
  <2> QED
    BY <1>3, <2>1, <2>2, <2>4, PhaseClient
<1>6. CASE Hit(s)
  <2>1. UNCHANGED <<ledger, journal, count, settled>>
    BY <1>6 DEF Hit, serverVars
  <2>2. s <= count.fired
    BY <1>4, <1>6 DEF Hit, Flying
  <2>3. CASE meta[s] = None
    <3> DEFINE o == LostOwner(s)
    <3>1. o \in Owners /\ Steps(s, o) /\ o.m = None /\ o.out = <<>>
      BY <1>6, <2>3, HitFacts DEF LostOwner, Typed
    <3>2. OwnTerminal(s, o.m) /\ Heard(o.m, journal'[s], ledger[s].life)
      BY <1>1, <2>1, <3>1 DEF OwnTerminal, Heard
    <3>3. \A i \in DOMAIN o.out : ~Is(o.out[i], "launch", s) /\ \A r : About(o.out[i], r) => r = s
      BY <1>3, <3>1
    <3> HIDE DEF o
    <3> QED
      BY <2>1, <2>2, <3>1, <3>2, <3>3, PhaseSteps
  <2>4. CASE meta[s] # None
    <3> DEFINE o == HitOwner(s)
               w == Wire(Owner(s), s)
    <3>1. o \in Owners /\ Steps(s, o) /\ OwnTerminal(s, o.m)
      BY <1>6, <2>4, HitFacts DEF Typed
    <3>2. meta[s] \in Metas
      BY <2>4 DEF Typed, ClientTyped
    <3>3. o.m.launching = meta[s].launching
      BY <3>2 DEF HitOwner, Metas
    <3>4. o.out = <<w>> \/ o.out = <<>>
      BY DEF HitOwner
    <3>5. Is(w, "resolve", s)
      BY DEF Wire, Is
    <3> HIDE DEF o, w
    <3>6. Ends(o.out, s)
      BY <3>4, <3>5 DEF Ends
    <3>7. Heard(o.m, journal'[s], ledger[s].life)
      BY <1>1, <2>1, <2>4, <3>3 DEF Heard
    <3>8. \A i \in DOMAIN o.out : ~Is(o.out[i], "launch", s) /\ \A r : About(o.out[i], r) => r = s
      BY <3>6, EndsAbout
    <3> QED
      BY <2>1, <2>2, <3>1, <3>7, <3>8, PhaseSteps
  <2> QED
    BY <2>3, <2>4
<1>7. CASE Bounce(s)
  <2>1. UNCHANGED <<ledger, journal, settled>>
    BY <1>7 DEF Bounce, serverVars
  <2>2. s <= count.fired /\ meta[s] # None
    BY <1>4, <1>7 DEF Bounce
  <2>3. PICK time : /\ BouncedOwner(s, time) \in Owners /\ Steps(s, BouncedOwner(s, time))
                    /\ OwnTerminal(s, BouncedOwner(s, time).m)
    BY <1>7, BounceFacts DEF Typed
  <2>4. count'.fired = count.fired /\ meta[s] \in Metas
    BY <1>7, BounceFacts DEF Typed
  <2> DEFINE o == BouncedOwner(s, time)
             w == BouncedWire(s, time)
  <2>5. o.m = BouncedMeta(s, time) /\ o.out = <<w>>
    BY DEF BouncedOwner
  <2>6. BouncedMeta(s, time).launching = meta[s].launching
    BY <2>4 DEF BouncedMeta, Metas
  <2>7. Is(w, "ricochet", s)
    BY DEF BouncedWire, Is
  <2> HIDE DEF o, w
  <2>8. Heard(o.m, journal'[s], ledger[s].life)
    BY <1>1, <2>1, <2>2, <2>5, <2>6 DEF Heard
  <2>9. \A i \in DOMAIN o.out : ~Is(o.out[i], "launch", s) /\ \A r : About(o.out[i], r) => r = s
    <3>1. \A i \in DOMAIN o.out : o.out[i] = w
      BY <2>5
    <3> QED
      BY <2>7, <3>1, MessageKinds
  <2>10. o \in Owners /\ Steps(s, o) /\ OwnTerminal(s, o.m)
    BY <2>3 DEF o
  <2> QED
    BY <2>1, <2>2, <2>4, <2>8, <2>9, <2>10, PhaseSteps
<1>8. CASE Due(s)
  <2>1. /\ shell' = shell /\ up' = up \o <<>> /\ settled' = settled /\ meta[s] \in Metas
        /\ meta'[s] = [meta[s] EXCEPT !.deferred = "due"]
        /\ \A r \in Shots : r # s => meta'[r] = meta[r]
    BY <1>3, <1>8, DueFacts DEF Typed
  <2>2. ledger' = ledger /\ journal' = journal /\ count' = count /\ meta[s] # None
    BY <1>8 DEF Due, serverVars
  <2>3. ~(s > count.fired)
    BY <1>4, <2>2
  <2>4. Heard(meta'[s], journal'[s], ledger[s].life)
    <3>1. meta'[s].launching = meta[s].launching
      BY <2>1 DEF Metas
    <3> QED
      BY <1>1, <2>2, <3>1 DEF Heard
  <2>5. ASSUME NEW r \in Shots
        PROVE  /\ r > count.fired => meta'[r] = meta[r] /\ shell'[r] = shell[r]
               /\ Heard(meta'[r], journal'[r], ledger[r].life)
    <3>1. CASE r = s
      BY <2>3, <2>4, <3>1
    <3>2. CASE r # s
      BY <2>1, <2>2, <3>2 DEF PhaseInv
    <3> QED
      BY <3>1, <3>2
  <2> HIDE DEF Heard
  <2> QED
    BY <1>3, <2>1, <2>2, <2>5, PhaseClient
<1>9. CASE Admit(s)
  <2> DEFINE o == Admitted(Owner(s), s)
  <2>1. UNCHANGED <<ledger, journal, count, settled>> /\ meta[s] # None
    BY <1>9 DEF Admit, serverVars
  <2>2. /\ meta[s] \in Metas /\ Steps(s, o) /\ o \in Owners /\ OwnTerminal(s, o.m) /\ Ends(o.out, s)
    BY <1>9, AdmitFacts DEF Typed
  <2>3. o.m.launching = meta[s].launching
    <3>1. Owner(s) \in Owners /\ Owner(s).m = meta[s] /\ Owner(s).out = <<>>
      BY OwnerType DEF Typed
    <3> QED
      BY <2>2, <3>1, AdmittedKeeps
  <2> HIDE DEF o
  <2>4. Heard(o.m, journal'[s], ledger[s].life)
    BY <1>1, <2>1, <2>3 DEF Heard
  <2>5. \A i \in DOMAIN o.out : ~Is(o.out[i], "launch", s) /\ \A r : About(o.out[i], r) => r = s
    BY <2>2, EndsAbout
  <2> QED
    BY <1>4, <2>1, <2>2, <2>4, <2>5, PhaseSteps
<1>10. CASE Present(s)
  BY <1>10, PhasePresent
<1> QED
  BY <1>5, <1>6, <1>7, <1>8, <1>9, <1>10 DEF Owning

LEMMA PhaseStutter ==
    ASSUME PhaseInv, UNCHANGED vars
    PROVE  PhaseInv'
<1>1. UNCHANGED <<ledger, meta, shell, settled, journal, up, count>>
  BY DEF vars, serverVars, clientVars
<1> QED
  BY <1>1 DEF PhaseInv, Unfired, LaunchedFirst, Heard, Owned, Waits

LEMMA PhaseStep ==
    ASSUME Typed, Typed', SeriesTyped, PhaseInv, [Next]_vars
    PROVE  PhaseInv'
  BY PhaseReceive, PhaseExpire, PhaseFire, PhasePublish, PhaseSnapshot, PhaseOwning, PhaseStutter
     DEF Next

LEMMA PhaseBegins == Init => PhaseInv
<1> SUFFICES ASSUME Init
             PROVE  PhaseInv
  OBVIOUS
<1>1. up = <<>> /\ settled = {} /\ \A s \in Shots :
         /\ ledger[s].life = "none" /\ journal[s] = <<>> /\ meta[s] = None
         /\ shell[s].known = {} /\ shell[s].segment = None
  BY DEF Init, Unknown
<1> QED
  BY <1>1 DEF PhaseInv, Unfired, LaunchedFirst, Heard, Waits

-----------------------------------------------------------------------------
(* What the owner has in its hands: HandInv. *)

LEMMA OnceJoined ==
    ASSUME NEW u \in Seq(Messages), NEW w \in Seq(Messages), NEW s,
           Once(s, u), ~Waits(w, "ricochet", s)
    PROVE  Once(s, u \o w)
<1>1. ASSUME NEW i \in DOMAIN (u \o w), Is((u \o w)[i], "ricochet", s)
      PROVE  i \in DOMAIN u /\ (u \o w)[i] = u[i]
  <2>1. CASE i \in DOMAIN u
    BY <2>1, JoinedFacts
  <2>2. CASE i > Len(u) /\ i - Len(u) \in DOMAIN w
    <3>1. (u \o w)[i] = w[i - Len(u)]
      BY <1>1, <2>2
    <3> QED
      BY <1>1, <2>2, <3>1 DEF Waits
  <2> QED
    BY <1>1, <2>1, <2>2, JoinedFacts
<1> QED
  BY <1>1 DEF Once

LEMMA OnceBegun ==
    ASSUME NEW u \in Seq(Messages), NEW w \in Messages, NEW s, ~Waits(u, "ricochet", s)
    PROVE  Once(s, u \o <<w>>)
<1>1. ASSUME NEW i \in DOMAIN (u \o <<w>>), Is((u \o <<w>>)[i], "ricochet", s)
      PROVE  i = Len(u) + 1
  <2>1. CASE i \in DOMAIN u
    <3>1. (u \o <<w>>)[i] = u[i]
      BY <2>1
    <3> QED
      BY <1>1, <2>1, <3>1 DEF Waits
  <2>2. CASE i \notin DOMAIN u
    BY <1>1, <2>2
  <2> QED
    BY <2>1, <2>2
<1> QED
  BY <1>1 DEF Once

LEMMA OnceTail ==
    ASSUME NEW u \in Seq(Messages), u # <<>>, NEW s, Once(s, u)
    PROVE  /\ Once(s, Tail(u))
           /\ Is(Head(u), "ricochet", s) => ~Waits(Tail(u), "ricochet", s)
<1>1. ASSUME NEW i \in DOMAIN Tail(u), Is(Tail(u)[i], "ricochet", s)
      PROVE  i + 1 \in DOMAIN u /\ Is(u[i + 1], "ricochet", s) /\ i \in Nat \ {0}
  BY <1>1, TailFacts
<1>2. Once(s, Tail(u))
  <2>1. ASSUME NEW i \in DOMAIN Tail(u), NEW k \in DOMAIN Tail(u),
               Is(Tail(u)[i], "ricochet", s), Is(Tail(u)[k], "ricochet", s)
        PROVE  i = k
    <3>1. i + 1 = k + 1 /\ i \in Nat /\ k \in Nat
      BY <1>1, <2>1 DEF Once
    <3> QED
      BY <3>1
  <2> QED
    BY <2>1 DEF Once
<1>3. ASSUME Is(Head(u), "ricochet", s), Waits(Tail(u), "ricochet", s)
      PROVE  FALSE
  <2>1. PICK i \in DOMAIN Tail(u) : Is(Tail(u)[i], "ricochet", s)
    BY <1>3 DEF Waits
  <2>2. 1 \in DOMAIN u /\ Is(u[1], "ricochet", s)
    BY <1>3, TailFacts
  <2>3. i + 1 = 1 /\ i \in Nat \ {0}
    BY <1>1, <2>1, <2>2 DEF Once
  <2> QED
    BY <2>3
<1> QED
  BY <1>2, <1>3

\* What of the records the hand does not depend on.
LEMMA HeldHeard ==
    ASSUME NEW resolving, NEW bouncing, NEW l, NEW m, NEW f, NEW j, NEW n, NEW k, NEW g,
           Held(resolving, bouncing, l, m, f, j),
           n # None, n.bounces = m.bounces, n.terminal = m.terminal, n.deferred = m.deferred,
           n.ricochet => m.ricochet,
           g.segment = f.segment, g.known = f.known,
           \A i \in DOMAIN k : k[i].kind = "ricochet" =>
               \E h \in DOMAIN j : j[h].kind = "ricochet"
    PROVE  Held(resolving, bouncing, l, n, g, k)
  BY DEF Held

\* The owner's messages, none of them a ricochet.
LEMMA InHandJoined ==
    ASSUME ClientTyped, NEW out \in Seq(Messages), up' = up \o out, NEW s, Once(s, up),
           ~Waits(out, "ricochet", s)
    PROVE  /\ Once(s, up')
           /\ Waits(up', "ricochet", s) <=> Waits(up, "ricochet", s)
           /\ Waits(up', "resolve", s) <=> Waits(up, "resolve", s) \/ Waits(out, "resolve", s)
<1>1. up \in Seq(Messages)
  BY DEF ClientTyped
<1> QED
  BY <1>1, OnceJoined, WaitsJoined

\* A shot whose owner does not step.
LEMMA HandRests ==
    ASSUME ClientTyped, HandInv, NEW out \in Seq(Messages), up' = up \o out,
           NEW s \in Shots, Owned(s),
           meta'[s] = meta[s], shell'[s] = shell[s], journal'[s] = journal[s],
           ledger'[s] = ledger[s],
           ~Waits(out, "ricochet", s), Waits(out, "resolve", s) => meta[s].terminal # None
    PROVE  InHand(s)'
<1>1. /\ Once(s, up)
      /\ Held(Waits(up, "resolve", s), Waits(up, "ricochet", s),
              ledger[s], meta[s], shell[s], journal[s])
  BY DEF HandInv, InHand
<1>2. /\ Once(s, up')
      /\ Waits(up', "ricochet", s) <=> Waits(up, "ricochet", s)
      /\ Waits(up', "resolve", s) <=> Waits(up, "resolve", s) \/ Waits(out, "resolve", s)
  BY <1>1, InHandJoined
<1>3. Waits(up', "resolve", s) <=> Waits(up, "resolve", s)
  BY <1>1, <1>2 DEF Held
<1> DEFINE a == Waits(up, "resolve", s)
           b == Waits(up, "ricochet", s)
           c == Waits(up', "resolve", s)
           d == Waits(up', "ricochet", s)
<1>4. Held(a, b, ledger'[s], meta'[s], shell'[s], journal'[s]) /\ (a <=> c) /\ (b <=> d)
  BY <1>1, <1>2, <1>3
<1>5. Held(c, d, ledger'[s], meta'[s], shell'[s], journal'[s])
  <2> HIDE DEF a, b, c, d
  <2> QED
    BY <1>4 DEF Held
<1> QED
  BY <1>2, <1>5 DEF InHand

\* One shot's owner takes a step that does not launch it.
LEMMA HandSteps ==
    ASSUME Typed, HandInv, UNCHANGED ledger,
           NEW s \in Shots, NEW o \in Owners, OwnTerminal(s, o.m), Steps(s, o),
           \A i \in DOMAIN o.out : ~Is(o.out[i], "launch", s) /\ \A r : About(o.out[i], r) => r = s,
           \A r \in Shots : r # s => journal'[r] = journal[r],
           Owned(s) => /\ Once(s, up')
                       /\ Held(Waits(up', "resolve", s), Waits(up', "ricochet", s),
                               ledger[s], o.m, o.f, journal'[s])
    PROVE  HandInv'
<1>1. /\ up' = up \o o.out /\ o.out \in Seq(Messages) /\ meta'[s] = o.m /\ shell'[s] = o.f
      /\ \A r \in Shots : r # s => meta'[r] = meta[r] /\ shell'[r] = shell[r]
  BY StepsFacts DEF Typed, Owners
<1>2. up \in Seq(Messages)
  BY DEF Typed, ClientTyped
<1>3. \A r : ~Waits(o.out, "launch", r)
  BY DEF Waits, About, Is
<1>4. \A r : r # s => ~Waits(o.out, "ricochet", r) /\ ~Waits(o.out, "resolve", r)
  BY DEF Waits, About, Tells, Moves
<1>5. ASSUME NEW r \in Shots, Owned(r)'
      PROVE  InHand(r)'
  <2>1. Owned(r)
    BY <1>1, <1>2, <1>3, <1>5, WaitsJoined DEF Owned
  <2>2. CASE r = s
    BY <1>1, <2>1, <2>2 DEF InHand
  <2>3. CASE r # s
    BY <1>1, <1>4, <2>1, <2>3, HandRests DEF Typed
  <2> QED
    BY <2>2, <2>3
<1> QED
  BY <1>5 DEF HandInv

LEMMA GroundFacts ==
    ASSUME NEW f \in Shells
    PROVE  /\ Ground(f) \in Shells
           /\ Ground(f).segment = None /\ Ground(f).known = f.known /\ Ground(f).at = 0
  BY AgesAreNumbers DEF Shells, Segments, Ground

LEMMA AgedFacts ==
    ASSUME NEW f \in Shells, NEW at \in Ages
    PROVE  /\ [f EXCEPT !.at = at].segment = f.segment
           /\ [f EXCEPT !.at = at].known = f.known
           /\ [f EXCEPT !.at = at].at = at
  BY DEF Shells

LEMMA FliesFacts ==
    ASSUME NEW f \in Shells, NEW segment \in {0, 1}
    PROVE  /\ Flies(f, segment) \in Shells
           /\ Flies(f, segment).segment = segment /\ Flies(f, segment).at = f.at
           /\ Flies(f, segment).known = f.known \cup {segment}
  BY DEF Shells, Segments, Flies

LEMMA HeldAdmitted ==
    ASSUME NEW o \in Owners, o.m \in Metas, o.out = <<>>, NEW s \in Shots,
           NEW resolving \in BOOLEAN, NEW bouncing, NEW l, NEW j,
           Held(resolving, bouncing, l, o.m, o.f, j)
    PROVE  LET a == Admitted(o, s) IN
           Held(resolving \/ Waits(a.out, "resolve", s), bouncing, l, a.m, a.f, j)
<1> DEFINE a == Admitted(o, s)
           d == [o.m EXCEPT !.deferred = "no"]
           e == [d EXCEPT !.terminal = Wire(o, s)]
           again == resolving \/ Waits(a.out, "resolve", s)
<1>1. AdmitsNothing(o, a) \/ AdmitsSegment(o, a) \/ AdmitsEnd(o, s, a) \/ AdmitsEnded(o, a)
  BY AdmittedFacts
<1>2. /\ d \in Metas /\ d.bounces = o.m.bounces /\ d.ricochet = o.m.ricochet
      /\ d.deferred = "no" /\ d.terminal = o.m.terminal /\ d # None
  BY NoneAssumption DEF Metas
<1>3. /\ e.bounces = o.m.bounces /\ e.ricochet = o.m.ricochet
      /\ e.deferred = "no" /\ e.terminal = Wire(o, s) /\ e.terminal # None /\ e # None
  <2>1. Wire(o, s) \in Wires /\ Wire(o, s) # None
    BY WireFacts
  <2>2. e \in Metas
    BY <1>2, <2>1 DEF Metas
  <2> QED
    BY <1>2, <2>1, <2>2, NoneAssumption DEF Metas
<1>4. Flies(o.f, 1).segment = 1 /\ Flies(o.f, 1).known = o.f.known \cup {1}
  BY ShellFacts, AgesAreNumbers DEF Owners
<1>5. Is(Wire(o, s), "resolve", s)
  BY WireFacts
<1>6. o.m.bounces \in {0, 1} /\ None # 1 /\ o.f.segment \in {0, 1, None}
  BY NoneAssumption DEF Metas, Owners, Shells, Segments
<1>7. ~Waits(<<>>, "resolve", s) /\ Waits(<<Wire(o, s)>>, "resolve", s)
  BY <1>5 DEF Waits
<1> HIDE DEF a, d, e, again
<1>8. CASE AdmitsNothing(o, a)
  <2>1. a = o /\ (again <=> resolving)
    BY <1>7, <1>8 DEF AdmitsNothing, again
  <2> QED
    BY <2>1 DEF Held, a, again
<1>9. CASE AdmitsSegment(o, a)
  <2>1. /\ a.m = d /\ a.f = Flies(o.f, 1) /\ (again <=> resolving)
        /\ o.m.deferred # "no"
    BY <1>7, <1>9 DEF AdmitsSegment, d, again
  <2>2. Held(again, bouncing, l, a.m, a.f, j)
    BY <1>2, <1>4, <1>6, <2>1 DEF Held
  <2> QED
    BY <2>2 DEF a, again
<1>10. CASE AdmitsEnd(o, s, a)
  <2>1. /\ a.m = e /\ a.f = o.f /\ again
    BY <1>7, <1>10 DEF AdmitsEnd, d, e, again
  <2>2. Held(again, bouncing, l, a.m, a.f, j)
    BY <1>3, <2>1 DEF Held
  <2> QED
    BY <2>2 DEF a, again
<1>11. CASE AdmitsEnded(o, a)
  <2>1. /\ a.m = d /\ a.f = o.f /\ (again <=> resolving) /\ o.m.terminal # None
    BY <1>7, <1>11 DEF AdmitsEnded, d, again
  <2>2. Held(again, bouncing, l, a.m, a.f, j)
    BY <1>2, <2>1 DEF Held
  <2> QED
    BY <2>2 DEF a, again
<1> QED
  BY <1>1, <1>8, <1>9, <1>10, <1>11

\* A terminal is sent at the end of a segment.
LEMMA HandHit ==
    ASSUME Typed, PhaseInv, HandInv, NEW s \in Shots, Hit(s)
    PROVE  HandInv'
<1>1. UNCHANGED ledger /\ journal' = journal
  BY DEF Hit, serverVars
<1>2. Owned(s) => InHand(s)
  BY DEF HandInv
<1>3. CASE meta[s] = None
  <2> DEFINE o == LostOwner(s)
  <2>1. o \in Owners /\ Steps(s, o) /\ OwnTerminal(s, o.m)
        /\ \A i \in DOMAIN o.out : ~Is(o.out[i], "launch", s) /\ \A r : About(o.out[i], r) => r = s
    BY <1>3, HitFacts DEF LostOwner, Typed, OwnTerminal
  <2>2. ~Owned(s)
    BY <1>2, <1>3 DEF InHand, Held
  <2> HIDE DEF o
  <2> QED
    BY <1>1, <2>1, <2>2, HandSteps
<1>4. CASE meta[s] # None
  <2> DEFINE o == HitOwner(s)
             w == Wire(Owner(s), s)
  <2>1. o \in Owners /\ Steps(s, o) /\ OwnTerminal(s, o.m)
    BY <1>4, HitFacts DEF Typed
  <2>2. meta[s] \in Metas /\ shell[s] \in Shells
    BY <1>4 DEF Typed, ClientTyped
  <2>3. /\ o.m = [meta[s] EXCEPT !.terminal = w] /\ o.f = Ground(shell[s])
        /\ o.out = IF meta[s].terminal = None THEN <<w>> ELSE <<>>
    BY DEF HitOwner
  <2>4. Is(w, "resolve", s) /\ w # None /\ w \in Wires
    <3>1. Owner(s) \in Owners /\ Owner(s).m \in Metas
      BY <2>2, OwnerType DEF Typed
    <3> QED
      BY <3>1, WireFacts
  <2> HIDE DEF o, w
  <2>5. Ends(o.out, s)
    BY <2>3, <2>4 DEF Ends
  <2>6. \A i \in DOMAIN o.out : ~Is(o.out[i], "launch", s) /\ \A r : About(o.out[i], r) => r = s
    BY <2>5, EndsAbout
  <2>7. ~Waits(o.out, "ricochet", s)
        /\ (Waits(o.out, "resolve", s) <=> meta[s].terminal = None)
    <3>1. ~Waits(o.out, "ricochet", s)
      BY <2>5, EndsAbout DEF Waits
    <3>2. Waits(<<w>>, "resolve", s) /\ ~Waits(<<>>, "resolve", s)
      BY <2>4 DEF Waits
    <3> QED
      BY <2>3, <3>1, <3>2
  <2>8. /\ o.m.bounces = meta[s].bounces /\ o.m.ricochet = meta[s].ricochet
        /\ o.m.deferred = meta[s].deferred /\ o.m.terminal # None /\ o.m # None
    <3>1. o.m \in Metas
      BY <2>2, <2>3, <2>4 DEF Metas
    <3> QED
      BY <2>2, <2>3, <2>4, <3>1, NoneAssumption DEF Metas
  <2>9. o.f.segment = None /\ o.f.known = shell[s].known
    BY <2>2, <2>3, GroundFacts
  <2>10. ASSUME Owned(s)
         PROVE  /\ Once(s, up')
                /\ Held(Waits(up', "resolve", s), Waits(up', "ricochet", s),
                        ledger[s], o.m, o.f, journal'[s])
    <3>1. /\ Once(s, up)
          /\ Held(Waits(up, "resolve", s), Waits(up, "ricochet", s),
                  ledger[s], meta[s], shell[s], journal[s])
      BY <1>2, <2>10 DEF InHand
    <3>2. up' = up \o o.out /\ o.out \in Seq(Messages)
      BY <2>1, StepsFacts DEF Typed, Owners
    <3>3. /\ Once(s, up')
          /\ Waits(up', "ricochet", s) <=> Waits(up, "ricochet", s)
          /\ Waits(up', "resolve", s) <=> Waits(up, "resolve", s) \/ Waits(o.out, "resolve", s)
      BY <2>7, <3>1, <3>2, InHandJoined DEF Typed
    <3>4. Waits(up', "resolve", s)
      BY <2>7, <3>1, <3>3 DEF Held
    <3> QED
      BY <1>1, <2>8, <2>9, <3>1, <3>3, <3>4 DEF Held
  <2> QED
    BY <1>1, <2>1, <2>6, <2>10, HandSteps
<1> QED
  BY <1>3, <1>4

\* The shell bounces for the first time.
LEMMA HandBounce ==
    ASSUME Typed, PhaseInv, HandInv, NEW s \in Shots, Bounce(s)
    PROVE  HandInv'
<1>1. UNCHANGED ledger /\ journal' = journal /\ meta[s].bounces = 0 /\ shell[s].segment # None
  BY DEF Bounce, serverVars, Flying
<1>2. PICK time : /\ BouncedOwner(s, time) \in Owners /\ Steps(s, BouncedOwner(s, time))
                  /\ OwnTerminal(s, BouncedOwner(s, time).m)
                  /\ BouncedWire(s, time) \in Messages /\ time \in Ages
  BY BounceFacts DEF Typed
<1>3. meta[s] \in Metas /\ shell[s] \in Shells
  BY BounceFacts DEF Typed, ClientTyped
<1> DEFINE o == BouncedOwner(s, time)
           w == BouncedWire(s, time)
<1>4. o.m = BouncedMeta(s, time) /\ o.f = BouncedShell(s, time) /\ o.out = <<w>>
  BY DEF BouncedOwner
<1>5. /\ o.m.bounces = 1 /\ o.m.terminal = meta[s].terminal
      /\ o.m.deferred = IF time > shell[s].at THEN "ahead" ELSE "no"
      /\ o.m # None
  <2>1. o.m \in Metas
    BY <1>2, <1>3, <1>4 DEF BouncedMeta, Metas
  <2> QED
    BY <1>3, <1>4, <2>1, NoneAssumption DEF BouncedMeta, Metas
<1>6. /\ o.f.segment = IF time > shell[s].at THEN None ELSE 1
      /\ o.f.known \in {shell[s].known, shell[s].known \cup {1}}
  <2> DEFINE f == shell[s]
  <2>1. /\ [Flies(f, 1) EXCEPT !.at = time].segment = 1
        /\ [Flies(f, 1) EXCEPT !.at = time].known = f.known \cup {1}
        /\ [Ground(f) EXCEPT !.at = time].segment = None
        /\ [Ground(f) EXCEPT !.at = time].known = f.known
    <3> DEFINE x == Flies(f, 1)
               y == Ground(f)
    <3>1. /\ x \in Shells /\ x.segment = 1 /\ x.known = f.known \cup {1}
          /\ y \in Shells /\ y.segment = None /\ y.known = f.known
      BY <1>3, FliesFacts, GroundFacts
    <3> HIDE DEF x, y
    <3>2. /\ [x EXCEPT !.at = time].segment = x.segment
          /\ [x EXCEPT !.at = time].known = x.known
          /\ [y EXCEPT !.at = time].segment = y.segment
          /\ [y EXCEPT !.at = time].known = y.known
      BY <1>2, <3>1, AgedFacts
    <3> QED
      BY <3>1, <3>2 DEF x, y
  <2>2. o.f = IF time > f.at THEN [Ground(f) EXCEPT !.at = time] ELSE [Flies(f, 1) EXCEPT !.at = time]
    BY <1>4 DEF BouncedShell
  <2> HIDE DEF f, o
  <2>3. /\ o.f.segment = IF time > f.at THEN None ELSE 1
        /\ o.f.known \in {f.known, f.known \cup {1}}
    BY <2>1, <2>2
  <2> QED
    BY <2>3 DEF f
<1>7. Is(w, "ricochet", s) /\ w \in Messages
  BY <1>2 DEF BouncedWire, Is
<1>8. o \in Owners /\ Steps(s, o) /\ OwnTerminal(s, o.m)
  BY <1>2
<1>9. None # 1
  BY NoneAssumption
<1> HIDE DEF o, w
<1>10. \A i \in DOMAIN o.out : ~Is(o.out[i], "launch", s) /\ \A r : About(o.out[i], r) => r = s
  <2>1. \A i \in DOMAIN o.out : o.out[i] = w
    BY <1>4
  <2> QED
    BY <1>7, <2>1, MessageKinds
<1>11. ~Waits(o.out, "resolve", s)
  <2>1. \A i \in DOMAIN o.out : o.out[i] = w
    BY <1>4
  <2> QED
    BY <1>7, <2>1, MessageKinds DEF Waits
<1>12. ASSUME Owned(s)
       PROVE  /\ Once(s, up')
              /\ Held(Waits(up', "resolve", s), Waits(up', "ricochet", s),
                      ledger[s], o.m, o.f, journal'[s])
  <2>1. Held(Waits(up, "resolve", s), Waits(up, "ricochet", s),
             ledger[s], meta[s], shell[s], journal[s])
    BY <1>12 DEF HandInv, InHand
  <2>2. up \in Seq(Messages) /\ o.out \in Seq(Messages) /\ up' = up \o o.out
    BY <1>8, StepsFacts DEF Typed, ClientTyped, Owners
  <2>3. Once(s, up')
    BY <1>1, <1>4, <1>7, <2>1, <2>2, OnceBegun DEF Held
  <2>4. Waits(up', "resolve", s) <=> Waits(up, "resolve", s)
    BY <1>11, <2>2, WaitsJoined
  <2>5. ledger[s].bounces = 0 /\ 0 \in shell[s].known
        /\ (meta[s].terminal # None <=> Waits(up, "resolve", s))
    BY <1>1, <2>1 DEF Held
  <2>6. Held(Waits(up', "resolve", s), Waits(up', "ricochet", s),
             ledger[s], o.m, o.f, journal'[s])
    BY <1>5, <1>6, <1>9, <2>4, <2>5 DEF Held
  <2> QED
    BY <2>3, <2>6
<1> QED
  BY <1>1, <1>8, <1>10, <1>12, HandSteps

\* A second segment is begun when it is due.
LEMMA HandAdmit ==
    ASSUME Typed, PhaseInv, HandInv, NEW s \in Shots, Admit(s)
    PROVE  HandInv'
<1>1. UNCHANGED ledger /\ journal' = journal
  BY DEF Admit, serverVars
<1> DEFINE o == Admitted(Owner(s), s)
<1>2. /\ meta[s] \in Metas /\ Steps(s, o) /\ o \in Owners /\ OwnTerminal(s, o.m) /\ Ends(o.out, s)
  BY AdmitFacts DEF Typed
<1>3. /\ Owner(s) \in Owners /\ Owner(s).m = meta[s] /\ Owner(s).f = shell[s] /\ Owner(s).out = <<>>
  BY OwnerType DEF Typed
<1>4. \A i \in DOMAIN o.out : ~Is(o.out[i], "launch", s) /\ \A r : About(o.out[i], r) => r = s
  BY <1>2, EndsAbout
<1>5. ~Waits(o.out, "ricochet", s)
  BY <1>2, EndsAbout DEF Waits
<1>6. ASSUME Owned(s)
      PROVE  /\ Once(s, up')
             /\ Held(Waits(up', "resolve", s), Waits(up', "ricochet", s),
                     ledger[s], o.m, o.f, journal'[s])
  <2> DEFINE a == Waits(up, "resolve", s)
             b == Waits(up, "ricochet", s)
  <2>1. Once(s, up) /\ Held(a, b, ledger[s], meta[s], shell[s], journal[s])
    BY <1>6 DEF HandInv, InHand
  <2>2. up' = up \o o.out /\ o.out \in Seq(Messages)
    BY <1>2, StepsFacts DEF Typed, Owners
  <2>3. /\ Once(s, up')
        /\ Waits(up', "ricochet", s) <=> b
        /\ Waits(up', "resolve", s) <=> a \/ Waits(o.out, "resolve", s)
    BY <1>5, <2>1, <2>2, InHandJoined DEF Typed
  <2>4. a \in BOOLEAN
    BY DEF Waits
  <2> HIDE DEF a, b
  <2>5. Held(a \/ Waits(o.out, "resolve", s), b, ledger[s], o.m, o.f, journal[s])
    BY <1>2, <1>3, <2>1, <2>4, HeldAdmitted
  <2> HIDE DEF o
  <2> QED
    BY <1>1, <2>3, <2>5 DEF Held
<1> HIDE DEF o
<1> QED
  BY <1>1, <1>2, <1>4, <1>6, HandSteps

\* A row that is not newer than the meta, and the shot's own.
LEMMA UpdatedFacts ==
    ASSUME NEW m \in Metas, NEW row, Rowed(row)
    PROVE  LET n == Updated(m, row) IN
           /\ n \in Metas /\ n # None
           /\ n.base = IF row.bounces = m.bounces THEN Larger(m.base, row.checked) ELSE m.base
           /\ n.queued = m.queued /\ n.bounces = m.bounces /\ n.ricochet = m.ricochet
           /\ n.deferred = m.deferred /\ n.terminal = m.terminal
<1> DEFINE b == IF row.bounces = m.bounces THEN Larger(m.base, row.checked) ELSE m.base
           n == Updated(m, row)
<1>1. m.base \in Ages /\ row.checked \in Ages
  BY DEF Metas, Rowed
<1>2. b \in Ages
  BY <1>1, LargerFacts
<1>3. \A no \in BOOLEAN : LET k == [m EXCEPT !.launching = no, !.base = b] IN
         /\ k \in Metas /\ k.base = b
         /\ k.queued = m.queued /\ k.bounces = m.bounces /\ k.ricochet = m.ricochet
         /\ k.deferred = m.deferred /\ k.terminal = m.terminal
  <2> HIDE DEF b
  <2> QED
    BY <1>2 DEF Metas
<1>4. n = [m EXCEPT !.launching = FALSE, !.base = b]
  BY DEF Updated
<1> HIDE DEF n, b
<1>5. /\ n \in Metas /\ n.base = b
      /\ n.queued = m.queued /\ n.bounces = m.bounces /\ n.ricochet = m.ricochet
      /\ n.deferred = m.deferred /\ n.terminal = m.terminal
  BY <1>3, <1>4, Zenon
<1> QED
  BY <1>5, NoneAssumption DEF n, b

\* A shell in its owner's hands meets a row of the server: the row is not newer.
\* The lines of _accept_projectile_event that make the client forget a shell are
\* not reached.
ShownMeta(s, e) ==
    [Updated(meta[s], Row(e)) EXCEPT !.ricochet = @ /\ e.kind # "ricochet"]
HeardMeta(s, e) == Updated(ShownMeta(s, e), Row(e))
HeardOwner(s, e) == [m |-> HeardMeta(s, e), f |-> shell[s], out |-> <<>>]

LEMMA ShownFacts ==
    ASSUME Typed, NEW s \in Shots, NEW e \in Events, e.kind \in {"launch", "ricochet"},
           NEW resolving \in BOOLEAN, NEW bouncing, NEW l, NEW j,
           Held(resolving, bouncing, l, meta[s], shell[s], j),
           e.kind = "ricochet" => meta[s].bounces = 1
    PROVE  /\ HeardOwner(s, e) \in Owners /\ HeardMeta(s, e) \in Metas
           /\ Held(resolving, bouncing, l, HeardMeta(s, e), shell[s], j)
           /\ meta[s] \in Metas
           /\ HeardMeta(s, e).bounces = meta[s].bounces
           /\ HeardMeta(s, e).terminal = meta[s].terminal
           /\ HeardMeta(s, e).deferred = meta[s].deferred
           /\ HeardMeta(s, e).queued = meta[s].queued
           /\ HeardMeta(s, e).base \in {meta[s].base, Larger(meta[s].base, e.checked),
                                        Larger(Larger(meta[s].base, e.checked), e.checked)}
           /\ ShownOwner(s, e) = HeardOwner(s, e)
              \/ ShownOwner(s, e) = Admitted(HeardOwner(s, e), s)
<1> DEFINE row == Row(e)
           m == meta[s]
           n == ShownMeta(s, e)
           k == HeardMeta(s, e)
           o == [m |-> n, f |-> shell[s], out |-> <<>>]
           i == HeardOwner(s, e)
<1>1. /\ m \in Metas /\ shell[s] \in Shells /\ Owner(s) \in Owners
      /\ Owner(s).m = m /\ Owner(s).f = shell[s] /\ Owner(s).out = <<>>
  <2>1. m # None
    BY DEF Held
  <2> QED
    BY <2>1, OwnerType DEF Typed
<1>2. /\ Rowed(row) /\ row.checked = e.checked
      /\ row.bounces = IF e.kind = "ricochet" THEN 1 ELSE 0
  BY EventFacts
<1>3. row.bounces <= m.bounces
  <2>1. m.bounces \in {0, 1}
    BY <1>1 DEF Metas
  <2> QED
    BY <1>2, <2>1
<1> HIDE DEF m, row
<1>4. Installed(Owner(s), row) = [m |-> Updated(m, row), f |-> shell[s], out |-> <<>>]
  <2>1. m # None
    BY <1>1, NoneAssumption
  <2> QED
    BY <1>1, <1>2, <1>3, <2>1, InstalledFacts
<1>5. LET u == Updated(m, row) IN
      /\ u \in Metas /\ u # None
      /\ u.base = IF row.bounces = m.bounces THEN Larger(m.base, row.checked) ELSE m.base
      /\ u.queued = m.queued /\ u.bounces = m.bounces /\ u.ricochet = m.ricochet
      /\ u.deferred = m.deferred /\ u.terminal = m.terminal
  BY <1>1, <1>2, UpdatedFacts
<1> DEFINE u == Updated(m, row)
           r == u.ricochet /\ e.kind # "ricochet"
<1>6. n = [u EXCEPT !.ricochet = r]
  BY DEF m, row, ShownMeta
<1>7. Shown(s, e) = [Installed(Owner(s), row) EXCEPT !.m.ricochet = @ /\ e.kind # "ricochet"]
  BY DEF Shown, row
<1>8. Shown(s, e) = o
  <2> DEFINE x == Installed(Owner(s), row)
             f == shell[s]
             b == x.m.ricochet /\ e.kind # "ricochet"
  <2>1. Shown(s, e) = [x EXCEPT !.m.ricochet = b]
    BY <1>7
  <2>2. x = [m |-> u, f |-> f, out |-> <<>>]
    BY <1>4
  <2>3. b = r
    BY <2>2
  <2>4. o = [m |-> n, f |-> f, out |-> <<>>]
    OBVIOUS
  <2> HIDE DEF x, b, r, u, f, o, n
  <2>5. [x EXCEPT !.m.ricochet = r] = [m |-> [u EXCEPT !.ricochet = r], f |-> f, out |-> <<>>]
    BY <2>2
  <2> QED
    BY <1>6, <2>1, <2>3, <2>4, <2>5
<1>9. /\ n \in Metas /\ n # None
      /\ n.base = u.base
      /\ n.queued = m.queued /\ n.bounces = m.bounces
      /\ n.deferred = m.deferred /\ n.terminal = m.terminal
      /\ n.ricochet => m.ricochet
  <2>1. r \in BOOLEAN /\ (r => m.ricochet)
    BY <1>5
  <2> HIDE DEF r, n, u
  <2>2. u \in Metas /\ u.queued = m.queued /\ u.bounces = m.bounces
        /\ u.deferred = m.deferred /\ u.terminal = m.terminal
    BY <1>5 DEF u
  <2>3. n \in Metas
    BY <1>6, <2>1, <2>2 DEF Metas
  <2>4. /\ n.base = u.base /\ n.queued = u.queued /\ n.bounces = u.bounces
        /\ n.deferred = u.deferred /\ n.terminal = u.terminal
    BY <1>6, <2>2 DEF Metas
  <2>5. n.ricochet = r
    BY <1>6, <2>2, Zenon DEF Metas
  <2> QED
    BY <2>1, <2>2, <2>3, <2>4, <2>5, NoneAssumption
<1>10. u.base \in {m.base, Larger(m.base, e.checked)}
  BY <1>2, <1>5
<1> HIDE DEF n, r, u
<1>11. k = Updated(n, row)
  BY DEF n, row, HeardMeta
<1>12. /\ k \in Metas /\ k # None
       /\ k.base = IF row.bounces = n.bounces THEN Larger(n.base, row.checked) ELSE n.base
       /\ k.queued = n.queued /\ k.bounces = n.bounces /\ k.ricochet = n.ricochet
       /\ k.deferred = n.deferred /\ k.terminal = n.terminal
  BY <1>2, <1>9, <1>11, UpdatedFacts
<1>13. k.base \in {m.base, Larger(m.base, e.checked), Larger(Larger(m.base, e.checked), e.checked)}
  BY <1>2, <1>5, <1>9, <1>10, <1>12 DEF u
<1>14. i = [m |-> k, f |-> shell[s], out |-> <<>>]
  BY DEF HeardOwner
<1> HIDE DEF k, i
<1>15. i \in Owners /\ i.m = k /\ i.f = shell[s] /\ i.out = <<>>
  BY <1>1, <1>12, <1>14, EmptyFacts DEF Owners
<1>16. o \in Owners /\ o.m = n /\ o.out = <<>> /\ o.f = shell[s]
  BY <1>1, <1>9, EmptyFacts DEF Owners
<1> HIDE DEF o
<1>17. Installed(o, row) = i
  BY <1>2, <1>3, <1>9, <1>11, <1>14, <1>16, InstalledFacts
<1>18. Held(resolving, bouncing, l, k, shell[s], j)
  <2>1. k.ricochet => m.ricochet
    BY <1>9, <1>12
  <2>2. k # None /\ k.bounces = m.bounces /\ k.terminal = m.terminal /\ k.deferred = m.deferred
    BY <1>9, <1>12
  <2>3. Held(resolving, bouncing, l, m, shell[s], j)
    BY DEF m
  <2> QED
    BY <2>1, <2>2, <2>3, HeldHeard
<1>19. ShownOwner(s, e) = Accepted(o, s, row)
  BY <1>8 DEF ShownOwner, row
<1>20. ShownOwner(s, e) = i \/ ShownOwner(s, e) = Admitted(i, s)
  <2>1. CASE i.f.segment = i.m.bounces \/ i.m.terminal # None \/ i.m.ricochet
    BY <1>17, <1>19, <2>1 DEF Accepted
  <2>2. CASE ~(i.f.segment = i.m.bounces \/ i.m.terminal # None \/ i.m.ricochet)
    <3>1. i.m.deferred # "no"
      BY <1>15, <1>18, <2>2 DEF Held
    <3> QED
      BY <1>17, <1>19, <2>2, <3>1 DEF Accepted
  <2> QED
    BY <2>1, <2>2
<1> QED
  BY <1>1, <1>9, <1>12, <1>13, <1>15, <1>18, <1>20 DEF m, k, i

\* What an owner hears of a shot it owns is a launch or its own ricochet.
LEMMA PresentOwned ==
    ASSUME Typed, PhaseInv, HandInv, NEW s \in Shots, Present(s), Owned(s)
    PROVE  LET e == Head(journal[s]) IN
           /\ e \in Events /\ e.kind \in {"launch", "ricochet"}
           /\ e.kind = "ricochet" => meta[s].bounces = 1
           /\ ledger[s].life = "live"
           /\ Steps(s, ShownOwner(s, e))
<1> DEFINE e == Head(journal[s])
<1>1. /\ journal[s] # <<>> /\ e \in Events /\ e = journal[s][1]
      /\ \/ e.kind \in {"refused", "impact"} /\ Gone(s)
         \/ s \in settled /\ meta' = meta /\ shell' = shell /\ settled' = settled /\ up' = up
         \/ /\ e.kind \in {"launch", "ricochet"} /\ s \notin settled
            /\ Steps(s, ShownOwner(s, e))
  BY PresentFacts DEF Typed
<1>2. 1 \in DOMAIN journal[s]
  BY <1>1, TailFacts DEF Typed, ServerTyped
<1>3. /\ Waits(up, "launch", s) => journal[s] = <<>>
      /\ Heard(meta[s], journal[s], ledger[s].life)
      /\ s \notin settled
  BY DEF PhaseInv
<1>4. ledger[s].life = "live"
  BY <1>1, <1>3 DEF Owned
<1>5. e.kind # "refused" /\ e.kind # "impact"
  BY <1>1, <1>2, <1>3, <1>4 DEF Heard
<1>6. meta[s] # None /\ (meta[s].bounces = 0 => e.kind # "ricochet")
  BY <1>1, <1>2 DEF HandInv, InHand, Held
<1>7. meta[s].bounces \in {0, 1}
  BY <1>6, OwnerType DEF Typed, Metas
<1> QED
  BY <1>1, <1>3, <1>4, <1>5, <1>6, <1>7

LEMMA HandPresent ==
    ASSUME Typed, PhaseInv, HandInv, NEW s \in Shots, Present(s)
    PROVE  HandInv'
<1> DEFINE e == Head(journal[s])
<1>1. /\ journal[s] # <<>> /\ e \in Events /\ ledger' = ledger
      /\ journal'[s] = Tail(journal[s]) /\ \A r \in Shots : r # s => journal'[r] = journal[r]
      /\ \/ e.kind \in {"refused", "impact"} /\ Gone(s)
         \/ s \in settled /\ meta' = meta /\ shell' = shell /\ settled' = settled /\ up' = up
         \/ /\ ShownOwner(s, e) \in Owners /\ Steps(s, ShownOwner(s, e))
            /\ OwnTerminal(s, ShownOwner(s, e).m) /\ Ends(ShownOwner(s, e).out, s)
  BY PresentFacts DEF Typed
<1>2. up \in Seq(Messages) /\ journal[s] \in Seq(Events)
  BY DEF Typed, ServerTyped, ClientTyped
<1>3. /\ <<>> \in Seq(Messages) /\ up \o <<>> = up
      /\ \A type, r : ~Waits(<<>>, type, r)
  BY <1>2, EmptyFacts DEF Waits
<1>4. CASE ~Owned(s) /\ up' = up /\ \A r \in Shots : r # s => meta'[r] = meta[r] /\ shell'[r] = shell[r]
  <2>1. ASSUME NEW r \in Shots, Owned(r)'
        PROVE  InHand(r)'
    <3>1. Owned(r) /\ r # s
      BY <1>1, <1>4, <2>1 DEF Owned
    <3>2. up' = up \o <<>>
      BY <1>3, <1>4
    <3> QED
      BY <1>1, <1>3, <1>4, <3>1, <3>2, HandRests DEF Typed
  <2> QED
    BY <2>1 DEF HandInv
<1>5. CASE /\ ShownOwner(s, e) \in Owners /\ Steps(s, ShownOwner(s, e))
           /\ OwnTerminal(s, ShownOwner(s, e).m) /\ Ends(ShownOwner(s, e).out, s)
  <2> DEFINE o == ShownOwner(s, e)
  <2>1. \A i \in DOMAIN o.out : ~Is(o.out[i], "launch", s) /\ \A r : About(o.out[i], r) => r = s
    BY <1>5, EndsAbout
  <2>2. ~Waits(o.out, "ricochet", s)
    BY <1>5, EndsAbout DEF Waits
  <2>3. ASSUME Owned(s)
        PROVE  /\ Once(s, up')
               /\ Held(Waits(up', "resolve", s), Waits(up', "ricochet", s),
                       ledger[s], o.m, o.f, journal'[s])
    <3> DEFINE a == Waits(up, "resolve", s)
               b == Waits(up, "ricochet", s)
               i == HeardOwner(s, e)
    <3>1. Once(s, up) /\ Held(a, b, ledger[s], meta[s], shell[s], journal[s])
      BY <2>3 DEF HandInv, InHand
    <3>2. /\ e \in Events /\ e.kind \in {"launch", "ricochet"}
          /\ e.kind = "ricochet" => meta[s].bounces = 1
      BY <2>3, PresentOwned
    <3>3. \A k \in DOMAIN journal'[s] : k + 1 \in DOMAIN journal[s]
                                         /\ journal'[s][k] = journal[s][k + 1]
      BY <1>1, <1>2, TailFacts
    <3>4. Held(a, b, ledger[s], meta[s], shell[s], journal'[s])
      <4> HIDE DEF a, b
      <4> QED
        BY <3>1, <3>3 DEF Held
    <3>5. a \in BOOLEAN
      BY DEF Waits
    <3> HIDE DEF a, b, e
    <3>6. /\ i \in Owners /\ i.m \in Metas /\ i.out = <<>> /\ i.f = shell[s]
          /\ Held(a, b, ledger[s], i.m, i.f, journal'[s])
          /\ o = i \/ o = Admitted(i, s)
      <4>1. /\ HeardOwner(s, e) \in Owners /\ HeardMeta(s, e) \in Metas
            /\ Held(a, b, ledger[s], HeardMeta(s, e), shell[s], journal'[s])
            /\ ShownOwner(s, e) = HeardOwner(s, e)
               \/ ShownOwner(s, e) = Admitted(HeardOwner(s, e), s)
        BY <3>2, <3>4, <3>5, ShownFacts
      <4> QED
        BY <4>1 DEF HeardOwner
    <3>7. up' = up \o o.out /\ o.out \in Seq(Messages)
      BY <1>5, StepsFacts DEF Typed, Owners
    <3>8. /\ Once(s, up')
          /\ Waits(up', "ricochet", s) <=> b
          /\ Waits(up', "resolve", s) <=> a \/ Waits(o.out, "resolve", s)
      BY <2>2, <3>1, <3>7, InHandJoined DEF Typed, a, b
    <3> HIDE DEF i, o
    <3>9. Held(a \/ Waits(o.out, "resolve", s), b, ledger[s], o.m, o.f, journal'[s])
      <4>1. CASE o = i
        <5>1. a \/ Waits(o.out, "resolve", s) <=> a
          BY <1>3, <3>6, <4>1
        <5> QED
          BY <3>6, <4>1, <5>1 DEF Held
      <4>2. CASE o = Admitted(i, s)
        BY <3>5, <3>6, <4>2, HeldAdmitted
      <4> QED
        BY <3>6, <4>1, <4>2
    <3> QED
      BY <3>8, <3>9 DEF Held
  <2> HIDE DEF o
  <2>4. o \in Owners /\ Steps(s, o) /\ OwnTerminal(s, o.m)
    BY <1>5 DEF o
  <2> QED
    BY <1>1, <2>1, <2>3, <2>4, HandSteps
<1>6. ASSUME Owned(s) PROVE Steps(s, ShownOwner(s, e))
  BY <1>6, PresentOwned
<1>7. CASE e.kind \in {"refused", "impact"} /\ Gone(s)
  <2>1. ~Owned(s)
    BY <1>7, PresentOwned
  <2> QED
    BY <1>4, <1>7, <2>1 DEF Gone
<1>8. CASE s \in settled /\ meta' = meta /\ shell' = shell /\ settled' = settled /\ up' = up
  <2>1. ~Owned(s)
    BY <1>8 DEF PhaseInv
  <2> QED
    BY <1>4, <1>8, <2>1
<1> QED
  BY <1>1, <1>5, <1>7, <1>8

\* The owner's steps that say nothing of the hand.
LEMMA HandQuiet ==
    ASSUME Typed, HandInv, UNCHANGED <<ledger, journal>>,
           NEW out \in Seq(Messages), up' = up \o out,
           \A s \in Shots : ~Waits(out, "launch", s) /\ ~Waits(out, "ricochet", s)
                            /\ ~Waits(out, "resolve", s),
           \A s \in Shots : Owned(s) =>
               /\ meta'[s] # None /\ meta'[s].bounces = meta[s].bounces
               /\ meta'[s].terminal = meta[s].terminal
               /\ meta'[s].ricochet = meta[s].ricochet
               /\ shell'[s].segment = shell[s].segment /\ shell'[s].known = shell[s].known
               /\ \/ meta'[s].deferred = meta[s].deferred
                  \/ meta[s].deferred = "ahead" /\ meta'[s].deferred = "due"
    PROVE  HandInv'
<1>1. up \in Seq(Messages)
  BY DEF Typed, ClientTyped
<1>2. ASSUME NEW s \in Shots, Owned(s)'
      PROVE  InHand(s)'
  <2>1. Owned(s)
    BY <1>1, <1>2, WaitsJoined DEF Owned
  <2>2. /\ Once(s, up)
        /\ Held(Waits(up, "resolve", s), Waits(up, "ricochet", s),
                ledger[s], meta[s], shell[s], journal[s])
    BY <2>1 DEF HandInv, InHand
  <2>3. /\ Once(s, up')
        /\ Waits(up', "ricochet", s) <=> Waits(up, "ricochet", s)
        /\ Waits(up', "resolve", s) <=> Waits(up, "resolve", s)
    BY <2>2, InHandJoined DEF Typed
  <2> DEFINE a == Waits(up, "resolve", s)
             b == Waits(up, "ricochet", s)
             c == Waits(up', "resolve", s)
             d == Waits(up', "ricochet", s)
  <2>4. Held(a, b, ledger[s], meta[s], shell[s], journal[s]) /\ (a <=> c) /\ (b <=> d)
    BY <2>2, <2>3
  <2>5. Held(c, d, ledger'[s], meta'[s], shell'[s], journal'[s])
    <3> HIDE DEF a, b, c, d
    <3> QED
      BY <2>1, <2>4 DEF Held
  <2> QED
    BY <2>3, <2>5 DEF InHand
<1> QED
  BY <1>2 DEF HandInv

LEMMA HandAdvance ==
    ASSUME Typed, HandInv, NEW s \in Shots, Advance(s)
    PROVE  HandInv'
<1>1. /\ meta' = meta /\ up' = up
      /\ shell'[s].segment = shell[s].segment /\ shell'[s].known = shell[s].known
      /\ \A r \in Shots : r # s => shell'[r] = shell[r]
  BY AdvanceFacts DEF Typed
<1>2. UNCHANGED <<ledger, journal>>
  BY DEF Advance, serverVars
<1>3. <<>> \in Seq(Messages) /\ up' = up \o <<>> /\ \A type, r : ~Waits(<<>>, type, r)
  BY <1>1, EmptyFacts DEF Waits, Typed, ClientTyped
<1>4. \A r \in Shots : Owned(r) => meta[r] # None
  BY DEF HandInv, InHand, Held
<1>5. \A r \in Shots : shell'[r].segment = shell[r].segment /\ shell'[r].known = shell[r].known
  BY <1>1
<1> QED
  BY <1>1, <1>2, <1>3, <1>4, <1>5, HandQuiet

LEMMA HandDue ==
    ASSUME Typed, HandInv, NEW s \in Shots, Due(s)
    PROVE  HandInv'
<1>1. /\ shell' = shell /\ up' = up
      /\ meta[s] \in Metas /\ meta'[s] = [meta[s] EXCEPT !.deferred = "due"]
      /\ meta[s].deferred = "ahead"
      /\ \A r \in Shots : r # s => meta'[r] = meta[r]
  BY DueFacts DEF Typed
<1>2. UNCHANGED <<ledger, journal>>
  BY DEF Due, serverVars
<1>3. <<>> \in Seq(Messages) /\ up' = up \o <<>> /\ \A type, r : ~Waits(<<>>, type, r)
  BY <1>1, EmptyFacts DEF Waits, Typed, ClientTyped
<1>4. \A r \in Shots : Owned(r) => meta[r] # None
  BY DEF HandInv, InHand, Held
<1>5. /\ meta'[s] # None /\ meta'[s].bounces = meta[s].bounces
      /\ meta'[s].terminal = meta[s].terminal /\ meta'[s].ricochet = meta[s].ricochet
      /\ meta'[s].deferred = "due"
  <2>1. meta'[s] \in Metas
    BY <1>1 DEF Metas
  <2> QED
    BY <1>1, <2>1, NoneAssumption DEF Metas
<1>6. \A r \in Shots : Owned(r) =>
         /\ meta'[r] # None /\ meta'[r].bounces = meta[r].bounces
         /\ meta'[r].terminal = meta[r].terminal
         /\ meta'[r].ricochet = meta[r].ricochet
         /\ \/ meta'[r].deferred = meta[r].deferred
            \/ meta[r].deferred = "ahead" /\ meta'[r].deferred = "due"
  BY <1>1, <1>4, <1>5
<1> QED
  BY <1>1, <1>2, <1>3, <1>6, HandQuiet

LEMMA HandPublish ==
    ASSUME Typed, HandInv, Publish
    PROVE  HandInv'
<1>1. /\ Batch \in Messages /\ up' = up \o <<Batch>> /\ shell' = shell
      /\ \A s \in Shots :
            /\ s \in InFlight =>
                  /\ meta[s] \in Metas /\ Age(Owner(s)) \in Ages
                  /\ meta'[s] = [meta[s] EXCEPT !.queued = Age(Owner(s))]
            /\ s \notin InFlight => meta'[s] = meta[s]
  BY PublishFacts DEF Typed
<1>2. UNCHANGED <<ledger, journal>>
  BY DEF Publish, serverVars
<1>3. /\ <<Batch>> \in Seq(Messages)
      /\ \A s \in Shots : ~Waits(<<Batch>>, "launch", s) /\ ~Waits(<<Batch>>, "ricochet", s)
                          /\ ~Waits(<<Batch>>, "resolve", s)
  <2>1. Batch.type = "progress"
    BY DEF Batch
  <2>2. DOMAIN <<Batch>> = {1} /\ <<Batch>>[1] = Batch /\ <<Batch>> \in Seq(Messages)
    BY <1>1, SingleFacts
  <2> QED
    BY <2>1, <2>2 DEF Waits, Is
<1>4. \A r \in Shots : Owned(r) => meta[r] # None
  BY DEF HandInv, InHand, Held
<1>5. ASSUME NEW s \in Shots, Owned(s)
      PROVE  /\ meta'[s] # None /\ meta'[s].bounces = meta[s].bounces
             /\ meta'[s].terminal = meta[s].terminal
             /\ meta'[s].ricochet = meta[s].ricochet
             /\ meta'[s].deferred = meta[s].deferred
  <2>1. CASE s \in InFlight
    <3> DEFINE a == Age(Owner(s))
               m == meta[s]
    <3>1. meta'[s] = [m EXCEPT !.queued = a] /\ m \in Metas /\ a \in Ages
      BY <1>1, <2>1
    <3> HIDE DEF a, m
    <3>2. meta'[s] \in Metas
      BY <3>1 DEF Metas
    <3>3. /\ meta'[s].bounces = m.bounces /\ meta'[s].terminal = m.terminal
          /\ meta'[s].ricochet = m.ricochet /\ meta'[s].deferred = m.deferred
      BY <3>1 DEF Metas
    <3> QED
      BY <3>2, <3>3, NoneAssumption DEF m
  <2>2. CASE s \notin InFlight
    BY <1>1, <1>4, <1>5, <2>2
  <2> QED
    BY <2>1, <2>2
<1> QED
  BY <1>1, <1>2, <1>3, <1>5, HandQuiet

\* A snapshot leaves a shell that is owned in its owner's hands.
LEMMA MetOwned ==
    ASSUME Typed, PhaseInv, HandInv, NEW s \in Shots, Owned(s), Snapshot
    PROVE  /\ meta[s] \in Metas /\ meta'[s] = Met(s).m /\ Met(s).m \in Metas
           /\ Met(s).f = shell[s]
           /\ Met(s).m.bounces = meta[s].bounces /\ Met(s).m.terminal = meta[s].terminal
           /\ Met(s).m.deferred = meta[s].deferred /\ Met(s).m.ricochet = meta[s].ricochet
           /\ Met(s).m.queued = meta[s].queued
           /\ Met(s).m.base \in {meta[s].base, Larger(meta[s].base, ledger[s].checked)}
           /\ \/ shell'[s] = shell[s]
              \/ /\ shell[s].segment = None /\ meta[s].terminal = None
                 /\ meta[s].deferred = "due" /\ ledger[s].bounces = 1
                 /\ shell'[s] = [Flies(shell[s], 1) EXCEPT !.at = ledger[s].checked]
<1>1. /\ \/ meta'[s] = Met(s).m
         \/ Acknowledged(Met(s), s, Rows) /\ meta'[s] = None
      /\ shell'[s] = Met(s).f \/ Restored(s)
  BY SnapshotFacts DEF Typed
<1>2. Held(Waits(up, "resolve", s), Waits(up, "ricochet", s),
           ledger[s], meta[s], shell[s], journal[s])
  BY DEF HandInv, InHand
<1>3. /\ meta[s] # None /\ (meta[s].bounces = 0 => ledger[s].bounces = 0)
      /\ 0 \in shell[s].known /\ (shell[s].segment # None => shell[s].segment = meta[s].bounces)
      /\ shell[s].segment = None => meta[s].terminal # None \/ meta[s].deferred # "no"
      /\ meta[s].deferred # "no" => meta[s].bounces = 1
  BY <1>2 DEF Held
<1>4. /\ Owner(s) \in Owners /\ Owner(s).m = meta[s] /\ Owner(s).f = shell[s]
      /\ Owner(s).out = <<>> /\ meta[s] \in Metas
  BY <1>3, OwnerType DEF Typed
<1>5. s \notin settled
  BY DEF PhaseInv
<1>6. s \in DOMAIN Rows <=> ledger[s].life = "live"
  BY RowFacts DEF Typed, Live
<1>7. CASE ledger[s].life = "live"
  <2> DEFINE row == Rows[s]
             u == Updated(meta[s], row)
  <2>1. /\ s \in DOMAIN Rows \ settled /\ Rowed(row)
        /\ row.checked = ledger[s].checked /\ row.bounces = ledger[s].bounces
    BY <1>5, <1>6, <1>7, RowFacts DEF Typed, Live
  <2>2. meta[s].bounces \in {0, 1} /\ ledger[s].bounces \in {0, 1}
    BY <1>4 DEF Metas, Typed, ServerTyped, Entries
  <2>3. row.bounces <= meta[s].bounces
    BY <1>3, <2>1, <2>2
  <2>4. Met(s) = Installed(Owner(s), row)
    BY <2>1 DEF Met
  <2> HIDE DEF row
  <2>5. Met(s) = [m |-> u, f |-> shell[s], out |-> <<>>]
    BY <1>3, <1>4, <2>1, <2>3, <2>4, InstalledFacts
  <2>6. /\ u \in Metas /\ u # None
        /\ u.base = IF row.bounces = meta[s].bounces THEN Larger(meta[s].base, row.checked)
                    ELSE meta[s].base
        /\ u.queued = meta[s].queued /\ u.bounces = meta[s].bounces
        /\ u.ricochet = meta[s].ricochet
        /\ u.deferred = meta[s].deferred /\ u.terminal = meta[s].terminal
    BY <1>4, <2>1, UpdatedFacts
  <2> HIDE DEF u
  <2>7. Met(s).m = u /\ Met(s).f = shell[s]
    BY <2>5
  <2>8. ~Acknowledged(Met(s), s, Rows)
    BY <2>1 DEF Acknowledged
  <2>9. ASSUME Restored(s)
        PROVE  /\ shell[s].segment = None /\ meta[s].terminal = None
               /\ meta[s].deferred = "due" /\ ledger[s].bounces = 1
               /\ shell'[s] = [Flies(shell[s], 1) EXCEPT !.at = ledger[s].checked]
    <3>1. /\ Met(s).m.terminal = None /\ Met(s).f.segment # Met(s).m.bounces
          /\ Rows[s].bounces \notin Met(s).f.known /\ Met(s).m.deferred # "ahead"
          /\ shell'[s] = [Flies(Met(s).f, Rows[s].bounces) EXCEPT !.at = Rows[s].checked]
      BY <2>9 DEF Restored
    <3>2. meta[s].terminal = None /\ shell[s].segment # meta[s].bounces
          /\ ledger[s].bounces \notin shell[s].known /\ meta[s].deferred # "ahead"
          /\ shell'[s] = [Flies(shell[s], ledger[s].bounces) EXCEPT !.at = ledger[s].checked]
      BY <2>1, <2>6, <2>7, <3>1 DEF row
    <3>3. ledger[s].bounces = 1
      BY <1>3, <2>2, <3>2
    <3>4. shell[s].segment = None /\ meta[s].deferred # "no"
      BY <1>3, <3>2
    <3>5. meta[s].deferred \in {"no", "ahead", "due"}
      BY <1>4 DEF Metas
    <3> QED
      BY <3>2, <3>3, <3>4, <3>5
  <2>10. Met(s).m.base \in {meta[s].base, Larger(meta[s].base, ledger[s].checked)}
    BY <2>1, <2>6, <2>7
  <2> QED
    BY <1>1, <1>4, <2>6, <2>7, <2>8, <2>9, <2>10
<1>8. CASE ledger[s].life # "live"
  <2>1. Waits(up, "launch", s) /\ ledger[s].life = "none"
    BY <1>8 DEF Owned, PhaseInv
  <2>2. meta[s].launching
    BY <1>3, <2>1 DEF PhaseInv, Heard
  <2>3. s \notin DOMAIN Rows \ settled
    BY <1>6, <1>8
  <2>4. Met(s) = Owner(s) /\ ~Restored(s)
    BY <2>3 DEF Met, Restored
  <2>5. ~Acknowledged(Met(s), s, Rows)
    BY <1>4, <2>2, <2>4 DEF Acknowledged
  <2> QED
    BY <1>1, <1>4, <2>4, <2>5
<1> QED
  BY <1>7, <1>8

LEMMA HandSnapshot ==
    ASSUME Typed, PhaseInv, HandInv, Snapshot
    PROVE  HandInv'
<1>1. UNCHANGED <<serverVars, journal, count>>
  BY SnapshotFacts DEF Typed
<1>2. PICK out \in Seq(Messages) : up' = up \o out /\ Again(out)
  BY SnapshotFacts DEF Typed
<1>3. ledger' = ledger /\ journal' = journal
  BY <1>1 DEF serverVars
<1>4. up \in Seq(Messages)
  BY DEF Typed, ClientTyped
<1>5. \A r : /\ ~Waits(out, "launch", r) /\ ~Waits(out, "ricochet", r)
             /\ r \in Shots /\ Waits(out, "resolve", r) => meta[r] # None /\ meta[r].terminal # None
  <2>1. ASSUME NEW i \in DOMAIN out, NEW r
        PROVE  /\ ~Is(out[i], "launch", r) /\ ~Is(out[i], "ricochet", r)
               /\ Is(out[i], "resolve", r) => meta[r] # None /\ meta[r].terminal # None
    <3>1. PICK s \in Shots : /\ meta[s] # None /\ meta[s].terminal # None
                             /\ Is(out[i], "resolve", s)
      BY <1>2 DEF Again
    <3> QED
      BY <3>1 DEF Is
  <2> QED
    BY <2>1 DEF Waits
<1>6. ASSUME NEW s \in Shots, Owned(s)'
      PROVE  InHand(s)'
  <2>1. Owned(s)
    BY <1>3, <1>4, <1>2, <1>5, <1>6, WaitsJoined DEF Owned
  <2>2. /\ Once(s, up)
        /\ Held(Waits(up, "resolve", s), Waits(up, "ricochet", s),
                ledger[s], meta[s], shell[s], journal[s])
    BY <2>1 DEF HandInv, InHand
  <2>3. /\ Once(s, up')
        /\ Waits(up', "ricochet", s) <=> Waits(up, "ricochet", s)
        /\ Waits(up', "resolve", s) <=> Waits(up, "resolve", s) \/ Waits(out, "resolve", s)
    BY <1>2, <1>5, <2>2, InHandJoined DEF Typed
  <2>4. Waits(up', "resolve", s) <=> Waits(up, "resolve", s)
    BY <1>5, <2>2, <2>3 DEF Held
  <2>5. /\ meta[s] \in Metas /\ meta'[s] = Met(s).m /\ Met(s).m \in Metas
        /\ Met(s).m.bounces = meta[s].bounces /\ Met(s).m.terminal = meta[s].terminal
        /\ Met(s).m.deferred = meta[s].deferred /\ Met(s).m.ricochet = meta[s].ricochet
        /\ \/ shell'[s] = shell[s]
           \/ /\ shell[s].segment = None /\ meta[s].terminal = None
              /\ meta[s].deferred = "due" /\ ledger[s].bounces = 1
              /\ shell'[s] = [Flies(shell[s], 1) EXCEPT !.at = ledger[s].checked]
    BY <2>1, MetOwned
  <2>6. meta'[s] # None
    BY <2>5, NoneAssumption
  <2> DEFINE a == Waits(up, "resolve", s)
             b == Waits(up, "ricochet", s)
             c == Waits(up', "resolve", s)
             d == Waits(up', "ricochet", s)
  <2>7. Held(a, b, ledger[s], meta[s], shell[s], journal[s]) /\ (a <=> c) /\ (b <=> d)
    BY <2>2, <2>3, <2>4
  <2> HIDE DEF a, b, c, d
  <2>8. CASE shell'[s] = shell[s]
    <3>1. Held(c, d, ledger'[s], meta'[s], shell'[s], journal'[s])
      BY <1>3, <2>5, <2>6, <2>7, <2>8 DEF Held
    <3> QED
      BY <2>3, <3>1 DEF InHand, c, d
  <2>9. CASE /\ shell[s].segment = None /\ meta[s].terminal = None
             /\ meta[s].deferred = "due" /\ ledger[s].bounces = 1
             /\ shell'[s] = [Flies(shell[s], 1) EXCEPT !.at = ledger[s].checked]
    <3>1. shell'[s].segment = 1 /\ shell'[s].known = shell[s].known \cup {1}
      <4> DEFINE at == ledger[s].checked
                 f == shell[s]
      <4>1. at \in Ages /\ f \in Shells
        BY DEF Typed, ServerTyped, ClientTyped, Entries
      <4>2. shell'[s] = [Flies(f, 1) EXCEPT !.at = at]
        BY <2>9
      <4> HIDE DEF at, f
      <4>3. /\ [Flies(f, 1) EXCEPT !.at = at].segment = 1
            /\ [Flies(f, 1) EXCEPT !.at = at].known = f.known \cup {1}
        <5> DEFINE x == Flies(f, 1)
        <5>1. x \in Shells /\ x.segment = 1 /\ x.known = f.known \cup {1}
          BY <4>1, FliesFacts
        <5> HIDE DEF x
        <5>2. [x EXCEPT !.at = at].segment = x.segment /\ [x EXCEPT !.at = at].known = x.known
          BY <4>1, <5>1, AgedFacts
        <5> QED
          BY <5>1, <5>2 DEF x
      <4> QED
        BY <4>2, <4>3 DEF f
    <3>2. Held(c, d, ledger'[s], meta'[s], shell'[s], journal'[s])
      <4>1. 1 # None
        BY NoneAssumption
      <4> QED
        BY <1>3, <2>5, <2>6, <2>7, <2>9, <3>1, <4>1 DEF Held
    <3> QED
      BY <2>3, <3>2 DEF InHand, c, d
  <2> QED
    BY <2>5, <2>8, <2>9
<1> QED
  BY <1>6 DEF HandInv

LEMMA HandFire ==
    ASSUME Typed, PhaseInv, HandInv, Fire
    PROVE  HandInv'
<1>0. PICK s : s = count.fired + 1
  OBVIOUS
<1> DEFINE w == [type |-> "launch", shot |-> s]
           m == NewMeta(0, 0, TRUE)
           f == Flies(shell[s], 0)
<1>1. /\ s \in Shots /\ FiredOwner(s) \in Owners /\ Steps(s, FiredOwner(s))
      /\ OwnTerminal(s, FiredOwner(s).m) /\ w \in Messages
  BY <1>0, FireFacts DEF Typed
<1>2. ledger' = ledger /\ journal' = journal
  BY DEF Fire, serverVars
<1>3. FiredOwner(s).m = m /\ FiredOwner(s).f = f /\ FiredOwner(s).out = <<w>>
  BY DEF FiredOwner
<1>4. up \in Seq(Messages) /\ count.fired \in Nat /\ Shots \subseteq Nat /\ shell[s] \in Shells
      /\ Unknown.bounces = 0
  BY <1>1, ShellAssumption DEF Typed, ClientTyped, CountTyped, Shots, Unknown
<1>5. s > count.fired
  BY <1>0, <1>4
<1>6. Is(w, "launch", s)
  BY DEF Is
<1>7. m.bounces = 0 /\ m.ricochet = FALSE /\ m.deferred = "no" /\ m.terminal = None /\ m # None
  <2>1. m \in Metas
    BY AgesAreNumbers, NewMetaFacts
  <2> QED
    BY <2>1, NoneAssumption DEF NewMeta
<1>8. f.segment = 0 /\ f.known = shell[s].known \cup {0} /\ 0 # None
  BY <1>4, FliesFacts, NoneAssumption
<1> HIDE DEF w, m, f
<1>9. /\ up' = up \o <<w>> /\ meta'[s] = m /\ shell'[s] = f
      /\ \A r \in Shots : r # s => meta'[r] = meta[r] /\ shell'[r] = shell[r]
  BY <1>1, <1>3, StepsFacts DEF Typed
<1>10. Unfired(s, meta[s], shell[s], journal[s])
  BY <1>1, <1>5 DEF PhaseInv
<1>11. /\ <<w>> \in Seq(Messages) /\ DOMAIN <<w>> = {1} /\ <<w>>[1] = w
  BY <1>1, SingleFacts
<1>12. /\ \A r : ~Waits(<<w>>, "ricochet", r) /\ ~Waits(<<w>>, "resolve", r)
       /\ \A r : r # s => ~Waits(<<w>>, "launch", r)
  BY <1>6, <1>11, MessageKinds DEF Waits, Is
<1>13. ASSUME NEW r \in Shots, r # s, Owned(r)'
       PROVE  InHand(r)'
  <2>1. Owned(r)
    BY <1>2, <1>4, <1>9, <1>11, <1>12, <1>13, WaitsJoined DEF Owned
  <2> QED
    BY <1>2, <1>9, <1>11, <1>12, <1>13, <2>1, HandRests DEF Typed
<1>14. InHand(s)'
  <2>1. \A i \in DOMAIN up : ~About(up[i], s)
    BY <1>10 DEF Unfired
  <2>2. ~Waits(up, "ricochet", s) /\ ~Waits(up, "resolve", s)
    BY <2>1 DEF Waits, About, Tells, Moves
  <2>3. Once(s, up) 
    BY <2>2 DEF Once, Waits
  <2>4. /\ Once(s, up') /\ ~Waits(up', "ricochet", s) /\ ~Waits(up', "resolve", s)
    BY <1>9, <1>11, <1>12, <2>2, <2>3, InHandJoined DEF Typed
  <2>5. /\ ledger[s].bounces = 0 /\ journal[s] = <<>> /\ shell[s].known = {}
    BY <1>1, <1>4, <1>10 DEF Unfired, Typed, ServerTyped
  <2>6. DOMAIN journal'[s] = {}
    BY <1>2, <2>5
  <2>7. Held(Waits(up', "resolve", s), Waits(up', "ricochet", s),
             ledger'[s], meta'[s], shell'[s], journal'[s])
    <3> DEFINE c == Waits(up', "resolve", s)
               d == Waits(up', "ricochet", s)
    <3>1. ~c /\ ~d
      BY <2>4
    <3> HIDE DEF c, d
    <3>2. Held(c, d, ledger'[s], meta'[s], shell'[s], journal'[s])
      BY <1>2, <1>7, <1>8, <1>9, <2>5, <2>6, <3>1 DEF Held
    <3> QED
      BY <3>2 DEF c, d
  <2> QED
    BY <2>4, <2>7 DEF InHand
<1> QED
  BY <1>13, <1>14 DEF HandInv

\* The server says nothing that disturbs the hand.
LEMMA HandKept ==
    ASSUME Typed, HandInv, NEW s \in Shots, Owned(s), UNCHANGED <<meta, shell>>,
           \/ up' = up
           \/ /\ up # <<>> /\ up' = Tail(up)
              /\ ~Is(Head(up), "ricochet", s) /\ ~Is(Head(up), "resolve", s),
           ledger'[s].bounces = ledger[s].bounces,
           \A i \in DOMAIN journal'[s] : journal'[s][i].kind = "ricochet" =>
               \E h \in DOMAIN journal[s] : journal[s][h].kind = "ricochet"
    PROVE  InHand(s)'
<1>1. /\ Once(s, up)
      /\ Held(Waits(up, "resolve", s), Waits(up, "ricochet", s),
              ledger[s], meta[s], shell[s], journal[s])
  BY DEF HandInv, InHand
<1>2. up \in Seq(Messages)
  BY DEF Typed, ClientTyped
<1>3. /\ Once(s, up')
      /\ Waits(up', "ricochet", s) <=> Waits(up, "ricochet", s)
      /\ Waits(up', "resolve", s) <=> Waits(up, "resolve", s)
  <2>1. CASE up' = up
    BY <1>1, <2>1
  <2>2. CASE /\ up # <<>> /\ up' = Tail(up)
             /\ ~Is(Head(up), "ricochet", s) /\ ~Is(Head(up), "resolve", s)
    BY <1>1, <1>2, <2>2, OnceTail, WaitsTail
  <2> QED
    BY <2>1, <2>2
<1> DEFINE a == Waits(up, "resolve", s)
           b == Waits(up, "ricochet", s)
           c == Waits(up', "resolve", s)
           d == Waits(up', "ricochet", s)
<1>4. Held(a, b, ledger[s], meta[s], shell[s], journal[s]) /\ (a <=> c) /\ (b <=> d)
  BY <1>1, <1>3
<1>5. Held(c, d, ledger'[s], meta'[s], shell'[s], journal'[s])
  <2> HIDE DEF a, b, c, d
  <2> QED
    BY <1>4 DEF Held
<1> QED
  BY <1>3, <1>5 DEF InHand

\* Whatever the server hears of, the shells it owns it owned before; a message
\* about a shot other than its launch finds the launch read.
LEMMA OwnedBefore ==
    ASSUME Typed, PhaseInv, NEW s \in Shots, Owned(s)', up # <<>>, up' = Tail(up),
           ledger'[s].life = "live" => ledger[s].life = "live" \/ Is(Head(up), "launch", s)
    PROVE  /\ Owned(s)
           /\ About(Head(up), s) => ledger'[s].life = "live"
<1>1. up \in Seq(Messages) /\ LaunchedFirst(s, up)
  BY DEF Typed, ClientTyped, PhaseInv
<1>2. Waits(up', "launch", s) => Waits(up, "launch", s)
  BY <1>1, WaitsTail
<1>3. Is(Head(up), "launch", s) => Waits(up, "launch", s)
  BY <1>1, WaitsTail
<1>4. About(Head(up), s) /\ Waits(up, "launch", s) => ~Waits(up', "launch", s)
  BY <1>1, FirstTail
<1> QED
  BY <1>2, <1>3, <1>4 DEF Owned

LEMMA HandReceive ==
    ASSUME Typed, SeriesTyped, PhaseInv, HandInv, Receive
    PROVE  HandInv'
<1>0. PICK m : m = Head(up)
  OBVIOUS
<1>1. /\ up # <<>> /\ m \in Messages /\ up' = Tail(up) /\ meta' = meta /\ shell' = shell
      /\ \/ m.type = "launch" /\ Launch(m)
         \/ m.type = "progress" /\ Progress(m)
         \/ m.type = "ricochet" /\ Ricochet(m)
         \/ m.type = "resolve" /\ Resolve(m)
  BY <1>0, ReceiveFacts
<1>2. ServerTyped /\ CountTyped /\ up \in Seq(Messages)
  BY DEF Typed, ClientTyped
<1>3. ASSUME NEW r \in Shots, Owned(r)', m.type = "progress" \/ m.shot # r,
             ledger'[r].life = ledger[r].life, ledger'[r].bounces = ledger[r].bounces,
             journal'[r] = journal[r]
      PROVE  InHand(r)'
  <2>1. ~Is(m, "ricochet", r) /\ ~Is(m, "resolve", r)
    BY <1>3 DEF Is
  <2>2. Owned(r)
    BY <1>1, <1>3, OwnedBefore
  <2> QED
    BY <1>0, <1>1, <1>3, <2>1, <2>2, HandKept
<1>4. CASE m.type = "launch" /\ Launch(m)
  <2>0. PICK s : s = m.shot
    OBVIOUS
  <2>1. /\ s \in Shots /\ Is(m, "launch", s)
        /\ \A r \in Shots : r # s => ledger'[r] = ledger[r] /\ journal'[r] = journal[r]
        /\ \/ /\ ledger[s].life = "none" /\ ledger'[s] = Launched
              /\ journal'[s] = Append(journal[s], [kind |-> "launch", checked |-> 0])
           \/ ledger'[s] = ledger[s]
    BY <1>1, <1>2, <1>4, <2>0, LaunchFacts DEF Is
  <2>2. ASSUME Owned(s)'
        PROVE  InHand(s)'
    <3>1. Owned(s) /\ ledger'[s].life = "live"
      BY <1>0, <1>1, <2>1, <2>2, OwnedBefore DEF About
    <3>2. Waits(up, "launch", s)
      BY <1>0, <1>1, <1>2, <2>1, WaitsTail
    <3>3. ledger[s].life = "none" /\ journal[s] = <<>>
      BY <2>1, <3>2 DEF PhaseInv
    <3>4. ledger[s].bounces = 0 /\ ledger'[s].bounces = 0
      BY <1>2, <2>1, <3>1, <3>3, EntryFacts DEF ServerTyped
    <3>5. journal'[s] = <<[kind |-> "launch", checked |-> 0]>>
      BY <2>1, <3>1, <3>3
    <3>6. \A i \in DOMAIN journal'[s] : journal'[s][i].kind # "ricochet"
      BY <3>5
    <3> QED
      BY <1>0, <1>1, <2>1, <3>1, <3>4, <3>6, HandKept DEF Is
  <2>3. ASSUME NEW r \in Shots, Owned(r)' PROVE InHand(r)'
    BY <1>3, <2>0, <2>1, <2>2, <2>3
  <2> QED
    BY <2>3 DEF HandInv
<1>5. CASE m.type = "progress" /\ Progress(m)
  <2>1. /\ journal' = journal
        /\ \/ ledger' = ledger
           \/ \A s \in Shots :
                ledger'[s] = IF Carries(m, s) /\ ledger[s].life = "live"
                             THEN Progressed(m, s) ELSE ledger[s]
    BY <1>1, <1>2, <1>5, ProgressFacts
  <2>2. ASSUME NEW r \in Shots
        PROVE  ledger'[r].life = ledger[r].life /\ ledger'[r].bounces = ledger[r].bounces
    <3>1. ledger[r] \in Entries
      BY <1>2 DEF ServerTyped
    <3>2. Progressed(m, r).life = ledger[r].life /\ Progressed(m, r).bounces = ledger[r].bounces
      BY <3>1 DEF Progressed, Entries
    <3> QED
      BY <2>1, <3>2
  <2>3. ASSUME NEW r \in Shots, Owned(r)' PROVE InHand(r)'
    BY <1>3, <1>5, <2>1, <2>2, <2>3
  <2> QED
    BY <2>3 DEF HandInv
<1>6. CASE m.type = "ricochet" /\ Ricochet(m)
  <2>0. PICK s : s = m.shot
    OBVIOUS
  <2>1. /\ s \in Shots /\ Is(m, "ricochet", s)
        /\ \A r \in Shots : r # s => ledger'[r] = ledger[r] /\ journal'[r] = journal[r]
        /\ \/ /\ ledger[s].life # "live" \/ ledger[s].bounces = 1
              /\ ledger'[s] = ledger[s] /\ journal'[s] = journal[s]
           \/ ledger[s].life = "live" /\ End(s, "refused")
           \/ /\ ledger[s].life = "live" /\ ledger'[s].bounces = 1
    <3>1. /\ m.shot \in Shots
          /\ \A r \in Shots : r # m.shot => ledger'[r] = ledger[r] /\ journal'[r] = journal[r]
          /\ \/ /\ ledger[m.shot].life # "live" \/ ledger[m.shot].bounces = 1
                /\ ledger'[m.shot] = ledger[m.shot] /\ journal'[m.shot] = journal[m.shot]
             \/ ledger[m.shot].life = "live" /\ ~Believed(m) /\ End(m.shot, "refused")
             \/ /\ ledger[m.shot].life = "live" /\ ledger'[m.shot] = Bounced(m)
                /\ Bounced(m).bounces = 1
      BY <1>1, <1>2, <1>6, RicochetFacts
    <3> QED
      BY <1>6, <2>0, <3>1 DEF Is
  <2>2. ASSUME Owned(s)'
        PROVE  InHand(s)'
    <3>0. About(m, s) /\ (ledger'[s].life = "live" => ledger[s].life = "live")
      BY <2>1 DEF About, Tells, Moves
    <3>1. Owned(s) /\ ledger'[s].life = "live"
      BY <1>0, <1>1, <2>1, <2>2, <3>0, OwnedBefore
    <3>2. /\ Once(s, up)
          /\ Held(Waits(up, "resolve", s), Waits(up, "ricochet", s),
                  ledger[s], meta[s], shell[s], journal[s])
      BY <2>1, <3>1 DEF HandInv, InHand
    <3>3. Waits(up, "ricochet", s)
      BY <1>0, <1>1, <1>2, <2>1, WaitsTail
    <3>4. ledger[s].bounces = 0 /\ meta[s].bounces # 0
      BY <3>2, <3>3 DEF Held
    <3>5. ledger[s].life = "live" /\ ledger'[s].bounces = 1
      <4>1. ASSUME End(s, "refused") PROVE FALSE
        <5>1. ledger'[s].life # "live"
          BY <1>2, <2>1, <4>1, EndFacts, EntryFacts
        <5> QED
          BY <3>1, <5>1
      <4> QED
        BY <2>1, <3>1, <3>4, <4>1
    <3>6. /\ Once(s, up') /\ ~Waits(up', "ricochet", s)
          /\ Waits(up', "resolve", s) <=> Waits(up, "resolve", s)
      <4>1. ~Is(m, "resolve", s)
        BY <2>1 DEF Is
      <4> QED
        BY <1>0, <1>1, <1>2, <2>1, <3>2, <4>1, OnceTail, WaitsTail
    <3> DEFINE a == Waits(up, "resolve", s)
               b == Waits(up, "ricochet", s)
               c == Waits(up', "resolve", s)
               d == Waits(up', "ricochet", s)
    <3>7. Held(a, b, ledger[s], meta[s], shell[s], journal[s]) /\ (a <=> c) /\ ~d
      BY <3>2, <3>6
    <3>8. Held(c, d, ledger'[s], meta'[s], shell'[s], journal'[s])
      <4> HIDE DEF a, b, c, d
      <4> QED
        BY <1>1, <3>4, <3>7 DEF Held
    <3> QED
      BY <3>6, <3>8 DEF InHand
  <2>3. ASSUME NEW r \in Shots, Owned(r)' PROVE InHand(r)'
    BY <1>3, <2>0, <2>1, <2>2, <2>3
  <2> QED
    BY <2>3 DEF HandInv
<1>7. CASE m.type = "resolve" /\ Resolve(m)
  <2>0. PICK s : s = m.shot
    OBVIOUS
  <2>1. /\ s \in Shots /\ Is(m, "resolve", s)
        /\ \A r \in Shots : r # s => ledger'[r] = ledger[r] /\ journal'[r] = journal[r]
        /\ \/ ledger[s].life # "live" /\ ledger'[s] = ledger[s]
           \/ \E outcome : End(s, outcome)
    <3>1. /\ m.shot \in Shots
          /\ \A r \in Shots : r # m.shot => ledger'[r] = ledger[r] /\ journal'[r] = journal[r]
          /\ \/ ledger[m.shot].life # "live" /\ ledger'[m.shot] = ledger[m.shot]
             \/ End(m.shot, "refused")
             \/ \E outcome \in {"pierced", "stopped"} : End(m.shot, outcome)
      BY <1>1, <1>2, <1>7, ResolveFacts
    <3> QED
      BY <1>7, <2>0, <3>1 DEF Is
  <2>2. ledger'[s].life # "live"
    <3>1. ASSUME NEW outcome, End(s, outcome) PROVE ledger'[s].life # "live"
      BY <1>2, <2>1, <3>1, EndFacts, EntryFacts
    <3> QED
      BY <2>1, <3>1
  <2>3. ~Owned(s)'
    BY <1>0, <1>1, <2>1, <2>2, OwnedBefore DEF About, Tells
  <2>4. ASSUME NEW r \in Shots, Owned(r)' PROVE InHand(r)'
    BY <1>3, <2>0, <2>1, <2>3, <2>4
  <2> QED
    BY <2>4 DEF HandInv
<1> QED
  BY <1>1, <1>4, <1>5, <1>6, <1>7

LEMMA HandExpire ==
    ASSUME Typed, SeriesTyped, PhaseInv, HandInv, Expire
    PROVE  HandInv'
<1>1. /\ meta' = meta /\ shell' = shell /\ up' = up
      /\ \E s \in Live : End(s, "expired")
  BY ExpireFacts
<1>2. PICK s \in Live : End(s, "expired")
  BY <1>1
<1>3. s \in Shots /\ ledger[s].life = "live"
  BY DEF Live
<1>4. /\ ledger'[s] = Tombstone("expired")
      /\ \A r \in Shots : r # s => ledger'[r] = ledger[r]
      /\ \A r \in Shots : r # s => journal'[r] = journal[r]
  BY <1>2, <1>3, EndFacts DEF Typed
<1>5. ~Waits(up, "launch", s)
  BY <1>3 DEF PhaseInv
<1>6. ledger'[s].life # "live"
  BY <1>4, EntryFacts
<1>7. ASSUME NEW r \in Shots, Owned(r)' PROVE InHand(r)'
  <2>1. r # s
    BY <1>1, <1>5, <1>6, <1>7 DEF Owned
  <2>2. Owned(r)
    BY <1>1, <1>4, <1>7, <2>1 DEF Owned
  <2> QED
    BY <1>1, <1>4, <2>1, <2>2, HandKept
<1> QED
  BY <1>7 DEF HandInv

LEMMA HandStep ==
    ASSUME Typed, SeriesTyped, PhaseInv, HandInv, [Next]_vars
    PROVE  HandInv'
<1>1. CASE UNCHANGED vars
  BY <1>1 DEF vars, serverVars, clientVars, HandInv, InHand, Owned
<1> QED
  BY <1>1, HandReceive, HandExpire, HandFire, HandPublish, HandSnapshot, HandAdvance, HandHit,
     HandBounce, HandDue, HandAdmit, HandPresent DEF Next, Owning

LEMMA HandBegins == Init => HandInv
<1> SUFFICES ASSUME Init
             PROVE  HandInv
  OBVIOUS
<1>1. up = <<>> /\ \A s \in Shots : ledger[s].life = "none"
  BY DEF Init, Unknown
<1> QED
  BY <1>1 DEF HandInv, Owned, Waits

LEMMA TrackedBegins == Init => Typed /\ PhaseInv /\ HandInv
  BY TypedBegins, PhaseBegins, HandBegins

LEMMA TrackedStep ==
    Typed /\ SeriesTyped /\ PhaseInv /\ HandInv /\ [Next]_vars => Typed' /\ PhaseInv' /\ HandInv'
  BY TypedStep, PhaseStep, HandStep

\* The variables are of their types: messages tell ages of shots that exist,
\* a terminal is one, and no more than MaxUp messages wait.
THEOREM ShellsTypeOK == Spec => []TypeOK
<1>1. Init => SeriesInit
  BY DEF Init
<1>2. SeriesInv => SeriesTyped
  BY DEF SeriesInv
<1>3. Typed => TypeOK
  BY TypedParts
<1> QED
  BY <1>1, <1>2, <1>3, SeriesBegins, SeriesStep, LedgerStep, TypedBegins, TypedStep, PTL
     DEF Spec

LEMMA HandTracks == Typed /\ HandInv => LiveIsTracked
<1> SUFFICES ASSUME Typed, HandInv, NEW s \in Live
             PROVE  /\ meta[s] # None
                    /\ Flying(s) \/ meta[s].terminal # None \/ meta[s].deferred # "no"
  BY DEF LiveIsTracked
<1>1. s \in Shots /\ Owned(s)
  BY DEF Live, Owned
<1> QED
  BY <1>1 DEF HandInv, InHand, Held, Flying

\* Whatever echo, snapshot or refusal the client hears, and in whatever order,
\* a shell that is in the server's ledger is in its owner's hands: it flies,
\* waits for its second segment, or its terminal is on its way
\* (_reconcile_projectile_snapshot, _accept_projectile_event).
THEOREM ShellsAreTracked == Spec => []LiveIsTracked
<1>1. Init => SeriesInit
  BY DEF Init
<1>2. SeriesInv => SeriesTyped
  BY DEF SeriesInv
<1> QED
  BY <1>1, <1>2, SeriesBegins, SeriesStep, LedgerStep, TrackedBegins, TrackedStep, HandTracks, PTL
     DEF Spec

-----------------------------------------------------------------------------
(* What server and owner agree on: CursorInv. *)

\* A prefix of the messages is the same when others follow.
LEMMA PrefixFacts ==
    ASSUME NEW u \in Seq(Messages), NEW w \in Seq(Messages), NEW s
    PROVE  LET j == u \o w IN
           /\ \A i \in DOMAIN u : \A k \in 1..(i - 1) : k \in DOMAIN u /\ j[k] = u[k]
           /\ \A k \in 1..((Len(u) + 1) - 1) : k \in DOMAIN u /\ j[k] = u[k]
           /\ \A i \in DOMAIN u : Early(s, j, i) => Early(s, u, i)
           /\ \A i \in DOMAIN j : i > Len(u) /\ Early(s, j, i) => ~Waits(u, "resolve", s)
           /\ \A i \in DOMAIN u : \A checked, age : Reached(s, u, i, checked, age) =>
                 Reached(s, j, i, checked, age)
           /\ \A i \in DOMAIN j : \A checked, age :
                 i > Len(u) /\ Reached(s, u, Len(u) + 1, checked, age) =>
                 Reached(s, j, i, checked, age)
           /\ \A checked, age : Reached(s, u, Len(u) + 1, checked, age) =>
                 Reached(s, j, Len(j) + 1, checked, age)
<1> DEFINE j == u \o w
<1>0. /\ j \in Seq(Messages) /\ Len(j) = Len(u) + Len(w)
      /\ \A i \in DOMAIN u : i \in DOMAIN j /\ j[i] = u[i]
  BY JoinedFacts
<1> HIDE DEF j
<1>1. /\ Len(j) = Len(u) + Len(w) /\ Len(u) \in Nat /\ Len(w) \in Nat
      /\ DOMAIN u = 1..Len(u) /\ DOMAIN j = 1..Len(j)
  BY <1>0
<1>2. \A i \in DOMAIN u : \A k \in 1..(i - 1) : k \in DOMAIN u /\ j[k] = u[k]
  BY <1>0, <1>1
<1>3. \A k \in 1..((Len(u) + 1) - 1) : k \in DOMAIN u /\ j[k] = u[k]
  BY <1>0, <1>1
<1>4. \A i \in DOMAIN u : Early(s, j, i) => Early(s, u, i)
  BY <1>2 DEF Early
<1>5. ASSUME NEW i \in DOMAIN j, i > Len(u), Early(s, j, i)
      PROVE  ~Waits(u, "resolve", s)
  <2>1. ASSUME NEW k \in DOMAIN u PROVE ~Is(u[k], "resolve", s)
    <3>1. k \in 1..(i - 1) /\ j[k] = u[k]
      BY <1>0, <1>1, <1>5
    <3> QED
      BY <1>5, <3>1 DEF Early
  <2> QED
    BY <2>1 DEF Waits
<1>6. ASSUME NEW i \in DOMAIN u, NEW checked, NEW age, Reached(s, u, i, checked, age)
      PROVE  Reached(s, j, i, checked, age)
  BY <1>2, <1>6 DEF Reached
<1>7. ASSUME NEW i \in Int, i > Len(u), NEW checked, NEW age,
             Reached(s, u, Len(u) + 1, checked, age)
      PROVE  Reached(s, j, i, checked, age)
  <2>1. \A k \in 1..((Len(u) + 1) - 1) : k \in 1..(i - 1)
    BY <1>0, <1>1, <1>7
  <2> QED
    BY <1>3, <1>7, <2>1 DEF Reached
<1>8. Len(j) + 1 \in Int /\ Len(j) + 1 > Len(u) /\ \A i \in DOMAIN j : i \in Int
  BY <1>0, <1>1
<1> QED
  BY <1>2, <1>3, <1>4, <1>5, <1>6, <1>7, <1>8 DEF j

\* What others say, or is said after the terminal, leaves the shot's ages alone.
LEMMA SaidJoined ==
    ASSUME NEW u \in Seq(Messages), NEW w \in Seq(Messages), NEW s, NEW checked,
           Grows(s, u, checked), Based(s, u, checked),
           \A i \in DOMAIN w : Tells(w[i], s) => Waits(u, "resolve", s)
    PROVE  Grows(s, u \o w, checked) /\ Based(s, u \o w, checked)
<1> DEFINE j == u \o w
<1>1. /\ \A i \in DOMAIN u : \A k \in 1..(i - 1) : k \in DOMAIN u /\ j[k] = u[k]
      /\ \A i \in DOMAIN u : Early(s, j, i) => Early(s, u, i)
      /\ \A i \in DOMAIN j : i > Len(u) /\ Early(s, j, i) => ~Waits(u, "resolve", s)
      /\ \A i \in DOMAIN u : \A age : Reached(s, u, i, checked, age) => Reached(s, j, i, checked, age)
  BY PrefixFacts
<1>2. ASSUME NEW i \in DOMAIN j, Tells(j[i], s), Early(s, j, i)
      PROVE  i \in DOMAIN u /\ j[i] = u[i] /\ Early(s, u, i)
  <2>1. CASE i \in DOMAIN u
    BY <1>1, <1>2, <2>1, JoinedFacts
  <2>2. CASE i > Len(u) /\ i - Len(u) \in DOMAIN w
    <3>1. j[i] = w[i - Len(u)]
      BY <1>2, <2>2
    <3> HIDE DEF j
    <3> QED
      BY <1>1, <1>2, <2>2, <3>1
  <2> QED
    BY <1>2, <2>1, <2>2, JoinedFacts
<1> HIDE DEF j
<1>3. Grows(s, j, checked)
  <2>1. ASSUME NEW i \in DOMAIN j, Tells(j[i], s), Early(s, j, i)
        PROVE  /\ checked <= Told(j[i], s)
               /\ \A k \in 1..(i - 1) : Moves(j[k], s) => Told(j[k], s) <= Told(j[i], s)
    <3>1. i \in DOMAIN u /\ j[i] = u[i] /\ Early(s, u, i)
      BY <1>2, <2>1
    <3>2. /\ checked <= Told(u[i], s)
          /\ \A k \in 1..(i - 1) : Moves(u[k], s) => Told(u[k], s) <= Told(u[i], s)
      BY <2>1, <3>1 DEF Grows
    <3> QED
      BY <1>1, <3>1, <3>2
  <2> QED
    BY <2>1 DEF Grows
<1>4. Based(s, j, checked)
  <2>1. ASSUME NEW i \in DOMAIN j, Claims(j[i], s), Early(s, j, i)
        PROVE  Reached(s, j, i, checked, j[i].base)
    <3>1. i \in DOMAIN u /\ j[i] = u[i] /\ Early(s, u, i)
      BY <1>2, <2>1 DEF Claims, Tells, Moves
    <3>2. Reached(s, u, i, checked, u[i].base)
      BY <2>1, <3>1 DEF Based
    <3> QED
      BY <1>1, <3>1, <3>2
  <2> QED
    BY <2>1 DEF Based
<1> QED
  BY <1>3, <1>4 DEF j

\* The owner's next message is not younger than those before it.
LEMMA SaidNext ==
    ASSUME NEW u \in Seq(Messages), NEW w \in Messages, NEW s, NEW checked,
           Grows(s, u, checked), Based(s, u, checked),
           checked <= Told(w, s),
           \A i \in DOMAIN u : Moves(u[i], s) => Told(u[i], s) <= Told(w, s),
           Claims(w, s) => Reached(s, u, Len(u) + 1, checked, w.base)
    PROVE  Grows(s, u \o <<w>>, checked) /\ Based(s, u \o <<w>>, checked)
<1> DEFINE v == <<w>>
           j == u \o v
<1>0. v \in Seq(Messages) /\ DOMAIN v = {1} /\ v[1] = w
  BY SingleFacts
<1> HIDE DEF v
<1>1. /\ \A i \in DOMAIN u : \A k \in 1..(i - 1) : k \in DOMAIN u /\ j[k] = u[k]
      /\ \A k \in 1..((Len(u) + 1) - 1) : k \in DOMAIN u /\ j[k] = u[k]
      /\ \A i \in DOMAIN u : Early(s, j, i) => Early(s, u, i)
      /\ \A i \in DOMAIN u : \A age : Reached(s, u, i, checked, age) => Reached(s, j, i, checked, age)
      /\ \A i \in DOMAIN j : \A age : i > Len(u) /\ Reached(s, u, Len(u) + 1, checked, age) =>
            Reached(s, j, i, checked, age)
  BY <1>0, PrefixFacts
<1>2. /\ \A i \in DOMAIN u : j[i] = u[i]
      /\ \A i \in DOMAIN j : i \in DOMAIN u \/ (i = Len(u) + 1 /\ i > Len(u) /\ j[i] = w)
  <2>1. \A i \in DOMAIN u : j[i] = u[i]
    BY <1>0, JoinedFacts
  <2>2. ASSUME NEW i \in DOMAIN j, i \notin DOMAIN u
        PROVE  i = Len(u) + 1 /\ i > Len(u) /\ j[i] = w
    <3>1. i > Len(u) /\ i - Len(u) \in DOMAIN v
      BY <1>0, <2>2, JoinedFacts
    <3>2. i = Len(u) + 1
      BY <1>0, <2>2, <3>1
    <3>3. j[Len(u) + 1] = v[1]
      BY <1>0, JoinedFacts
    <3> QED
      BY <1>0, <3>1, <3>2, <3>3
  <2> QED
    BY <2>1, <2>2
<1> HIDE DEF j
<1>3. Grows(s, j, checked)
  <2>1. ASSUME NEW i \in DOMAIN j, Tells(j[i], s), Early(s, j, i)
        PROVE  /\ checked <= Told(j[i], s)
               /\ \A k \in 1..(i - 1) : Moves(j[k], s) => Told(j[k], s) <= Told(j[i], s)
    <3>1. CASE i \in DOMAIN u
      <4>1. j[i] = u[i] /\ Early(s, u, i)
        BY <1>1, <1>2, <2>1, <3>1
      <4>2. /\ checked <= Told(u[i], s)
            /\ \A k \in 1..(i - 1) : Moves(u[k], s) => Told(u[k], s) <= Told(u[i], s)
        BY <2>1, <3>1, <4>1 DEF Grows
      <4> QED
        BY <1>1, <3>1, <4>1, <4>2
    <3>2. CASE i = Len(u) + 1 /\ j[i] = w
      BY <1>1, <3>2
    <3> QED
      BY <1>2, <3>1, <3>2
  <2> QED
    BY <2>1 DEF Grows
<1>4. Based(s, j, checked)
  <2>1. ASSUME NEW i \in DOMAIN j, Claims(j[i], s), Early(s, j, i)
        PROVE  Reached(s, j, i, checked, j[i].base)
    <3>1. CASE i \in DOMAIN u
      <4>1. j[i] = u[i] /\ Early(s, u, i)
        BY <1>1, <1>2, <2>1, <3>1
      <4>2. Reached(s, u, i, checked, u[i].base)
        BY <2>1, <3>1, <4>1 DEF Based
      <4> QED
        BY <1>1, <3>1, <4>1, <4>2
    <3>2. CASE i > Len(u) /\ j[i] = w
      BY <1>1, <2>1, <3>2
    <3> QED
      BY <1>2, <3>1, <3>2
  <2> QED
    BY <2>1 DEF Based
<1> QED
  BY <1>3, <1>4 DEF j, v

\* The age the server has of the shot once it has read a message.
After(m, s, checked) == IF Moves(m, s) THEN Told(m, s) ELSE checked

LEMMA SaidTail ==
    ASSUME NEW u \in Seq(Messages), u # <<>>, NEW s, NEW checked \in Ages,
           Grows(s, u, checked), Based(s, u, checked), ~Is(Head(u), "resolve", s)
    PROVE  LET after == After(Head(u), s, checked) IN
           /\ after \in Ages /\ checked <= after
           /\ Grows(s, Tail(u), after) /\ Based(s, Tail(u), after)
           /\ \A age \in Ages : Reached(s, u, Len(u) + 1, checked, age) =>
                 Reached(s, Tail(u), Len(Tail(u)) + 1, after, age)
<1> DEFINE h == Head(u)
           t == Tail(u)
           after == After(h, s, checked)
<1>1. /\ t \in Seq(Messages) /\ h \in Messages /\ h = u[1] /\ 1 \in DOMAIN u
      /\ Len(t) = Len(u) - 1 /\ Len(u) \in Nat
      /\ \A i \in DOMAIN t : i \in Nat \ {0} /\ i + 1 \in DOMAIN u /\ t[i] = u[i + 1]
      /\ \A i \in DOMAIN u : i \in Nat \ {0} /\ (i > 1 => i - 1 \in DOMAIN t /\ t[i - 1] = u[i])
  BY TailFacts
<1> HIDE DEF h, t
<1>2. Early(s, u, 1)
  BY DEF Early
<1>3. Moves(h, s) => checked <= Told(h, s) /\ Told(h, s) \in Ages
  BY <1>1, <1>2, ToldIsAge DEF Grows, Tells
<1>4. after \in Ages /\ checked <= after
  BY <1>3, AgesAreNumbers DEF After
<1>5. Moves(h, s) => after = Told(h, s)
  BY DEF After
<1>6. ~Moves(h, s) => after = checked
  BY DEF After
<1> HIDE DEF after
<1>7. \A i \in DOMAIN t : \A k \in 1..((i + 1) - 1) :
         k \in DOMAIN u /\ (k = 1 \/ (k - 1 \in 1..(i - 1) /\ k - 1 \in DOMAIN t /\ t[k - 1] = u[k]))
  <2> SUFFICES ASSUME NEW i \in DOMAIN t, NEW k \in 1..((i + 1) - 1)
               PROVE  k \in DOMAIN u /\ (k = 1 \/ (k - 1 \in 1..(i - 1) /\ k - 1 \in DOMAIN t /\ t[k - 1] = u[k]))
    OBVIOUS
  <2>1. i \in Nat \ {0} /\ i + 1 \in DOMAIN u /\ DOMAIN u = 1..Len(u)
    BY <1>1
  <2>2. k \in DOMAIN u /\ (k = 1 \/ k > 1) /\ (k > 1 => k - 1 \in 1..(i - 1))
    BY <1>1, <2>1
  <2> QED
    BY <1>1, <2>2
<1>8. \A i \in DOMAIN t : \A k \in 1..(i - 1) : k \in DOMAIN t /\ k + 1 \in 1..((i + 1) - 1) /\ t[k] = u[k + 1]
  <2> SUFFICES ASSUME NEW i \in DOMAIN t, NEW k \in 1..(i - 1)
               PROVE  k \in DOMAIN t /\ k + 1 \in 1..((i + 1) - 1) /\ t[k] = u[k + 1]
    OBVIOUS
  <2>1. DOMAIN t = 1..Len(t) /\ Len(t) \in Nat
    BY <1>1
  <2>2. k \in DOMAIN t /\ k + 1 \in 1..((i + 1) - 1)
    BY <2>1
  <2> QED
    BY <1>1, <2>2
<1>9. ASSUME NEW i \in DOMAIN t, Early(s, t, i)
      PROVE  Early(s, u, i + 1)
  <2>1. ASSUME NEW k \in 1..((i + 1) - 1) PROVE ~Is(u[k], "resolve", s)
    <3>1. CASE k = 1
      BY <1>1, <3>1 DEF h
    <3>2. CASE k - 1 \in 1..(i - 1) /\ t[k - 1] = u[k]
      BY <1>9, <3>2 DEF Early
    <3> QED
      BY <1>7, <2>1, <3>1, <3>2
  <2> QED
    BY <2>1 DEF Early
<1>10. Grows(s, t, after)
  <2>1. ASSUME NEW i \in DOMAIN t, Tells(t[i], s), Early(s, t, i)
        PROVE  /\ after <= Told(t[i], s)
               /\ \A k \in 1..(i - 1) : Moves(t[k], s) => Told(t[k], s) <= Told(t[i], s)
    <3>1. /\ i + 1 \in DOMAIN u /\ t[i] = u[i + 1] /\ Early(s, u, i + 1) /\ i \in Nat \ {0}
      BY <1>1, <1>9, <2>1
    <3>2. /\ checked <= Told(u[i + 1], s)
          /\ \A k \in 1..((i + 1) - 1) : Moves(u[k], s) => Told(u[k], s) <= Told(u[i + 1], s)
      BY <2>1, <3>1 DEF Grows
    <3>3. 1 \in 1..((i + 1) - 1)
      BY <3>1
    <3>4. after <= Told(t[i], s)
      BY <1>1, <1>5, <1>6, <3>1, <3>2, <3>3
    <3> QED
      BY <1>8, <3>1, <3>2, <3>4
  <2> QED
    BY <2>1 DEF Grows
<1>11. ASSUME NEW age \in Ages, NEW k \in DOMAIN u, Moves(u[k], s), age <= Told(u[k], s)
       PROVE  (k = 1 => age <= after)
  BY <1>1, <1>5, <1>11
<1>12. \A age \in Ages : age <= checked => age <= after
  BY <1>4, AgesAreNumbers
<1>13. Based(s, t, after)
  <2>1. ASSUME NEW i \in DOMAIN t, Claims(t[i], s), Early(s, t, i)
        PROVE  Reached(s, t, i, after, t[i].base)
    <3>1. /\ i + 1 \in DOMAIN u /\ t[i] = u[i + 1] /\ Early(s, u, i + 1) /\ t[i] \in Messages
      BY <1>1, <1>9, <2>1
    <3>2. Reached(s, u, i + 1, checked, t[i].base)
      BY <2>1, <3>1 DEF Based
    <3>3. t[i].base \in Ages
      BY <2>1, <3>1, MessageFacts DEF Claims, Is
    <3>4. CASE t[i].base <= checked
      BY <1>12, <3>3, <3>4 DEF Reached
    <3>5. ASSUME NEW k \in 1..((i + 1) - 1), Moves(u[k], s), t[i].base <= Told(u[k], s)
          PROVE  Reached(s, t, i, after, t[i].base)
      <4>1. k \in DOMAIN u /\ (k = 1 \/ (k - 1 \in 1..(i - 1) /\ t[k - 1] = u[k]))
        BY <1>7, <3>5
      <4>2. CASE k = 1
        BY <1>11, <3>3, <3>5, <4>1, <4>2 DEF Reached
      <4>3. CASE k - 1 \in 1..(i - 1) /\ t[k - 1] = u[k]
        BY <3>5, <4>3 DEF Reached
      <4> QED
        BY <4>1, <4>2, <4>3
    <3> QED
      BY <3>2, <3>4, <3>5 DEF Reached
  <2> QED
    BY <2>1 DEF Based
<1>14. ASSUME NEW age \in Ages, Reached(s, u, Len(u) + 1, checked, age)
       PROVE  Reached(s, t, Len(t) + 1, after, age)
  <2>1. CASE age <= checked
    BY <1>12, <2>1 DEF Reached
  <2>2. ASSUME NEW k \in 1..((Len(u) + 1) - 1), Moves(u[k], s), age <= Told(u[k], s)
        PROVE  Reached(s, t, Len(t) + 1, after, age)
    <3>1. k \in DOMAIN u /\ k \in Nat \ {0}
      BY <1>1, <2>2
    <3>2. CASE k = 1
      BY <1>11, <2>2, <3>1, <3>2 DEF Reached
    <3>3. CASE k # 1
      <4>1. k > 1
        BY <3>1, <3>3
      <4>2. k - 1 \in DOMAIN t /\ t[k - 1] = u[k] /\ DOMAIN t = 1..Len(t) /\ Len(t) \in Nat
        BY <1>1, <3>1, <4>1
      <4>3. k - 1 \in 1..((Len(t) + 1) - 1)
        BY <4>2
      <4> QED
        BY <2>2, <4>2, <4>3 DEF Reached
    <3> QED
      BY <3>2, <3>3
  <2> QED
    BY <1>14, <2>1, <2>2 DEF Reached
<1> QED
  BY <1>4, <1>10, <1>13, <1>14 DEF after, h, t

LEMMA AgeOfFacts ==
    ASSUME NEW m \in Metas, NEW f \in Shells
    PROVE  AgeOf(m, f) \in Ages /\ m.base <= AgeOf(m, f) /\ f.at <= AgeOf(m, f)
           /\ AgeOf(m, f) \in {m.base, f.at} /\ m.base \in Ages /\ f.at \in Ages
           /\ m.queued \in Ages
<1>1. m.base \in Ages /\ f.at \in Ages /\ m.queued \in Ages
  BY DEF Metas, Shells
<1> QED
  BY <1>1, LargerFacts DEF AgeOf

\* The moves among messages that others follow.
LEMMA MovesJoined ==
    ASSUME NEW u \in Seq(Messages), NEW w \in Seq(Messages), NEW s
    PROVE  \A i \in DOMAIN (u \o w) :
              \/ i \in DOMAIN u /\ (u \o w)[i] = u[i]
              \/ \E k \in DOMAIN w : (u \o w)[i] = w[k]
<1> SUFFICES ASSUME NEW i \in DOMAIN (u \o w), i \notin DOMAIN u
             PROVE  \E k \in DOMAIN w : (u \o w)[i] = w[k]
  BY JoinedFacts
<1>1. i > Len(u) /\ i - Len(u) \in DOMAIN w
  BY JoinedFacts
<1>2. (u \o w)[i] = w[i - Len(u)]
  BY <1>1
<1> QED
  BY <1>1, <1>2

\* The owner says nothing new of its shot.
LEMMA AgreedSame ==
    ASSUME NEW u \in Seq(Messages), NEW w \in Seq(Messages), NEW s, NEW l, l.checked \in Ages,
           NEW m \in Metas, NEW n \in Metas, NEW f \in Shells, NEW g \in Shells, NEW j, NEW k,
           Agreed(s, u, l, m, f, j),
           \A i \in DOMAIN w : Tells(w[i], s) => Waits(u, "resolve", s),
           n.base <= l.checked,
           \A i \in DOMAIN k : k[i].checked <= l.checked,
           n.terminal = None =>
               /\ m.terminal = None
               /\ AgeOf(m, f) <= AgeOf(n, g)
               /\ n.queued = m.queued
               /\ \A i \in DOMAIN w : ~Tells(w[i], s)
               /\ n.deferred # "no" =>
                     /\ m.deferred # "no"
                     /\ g.at = f.at \/ (g.at <= l.checked /\ ~Waits(u, "ricochet", s))
    PROVE  Agreed(s, u \o w, l, n, g, k)
<1> DEFINE v == u \o w
<1>1. /\ Grows(s, u, l.checked) /\ Based(s, u, l.checked)
      /\ m.terminal = None => Ahead(s, u, l, m, f)
  BY DEF Agreed
<1>2. Grows(s, v, l.checked) /\ Based(s, v, l.checked)
  BY <1>1, SaidJoined
<1>3. ASSUME n.terminal = None
      PROVE  Ahead(s, v, l, n, g)
  <2>1. /\ l.checked <= AgeOf(m, f)
        /\ \A i \in DOMAIN u : Moves(u[i], s) => Told(u[i], s) <= AgeOf(m, f)
        /\ Reached(s, u, Len(u) + 1, l.checked, m.queued)
        /\ m.deferred # "no" =>
              /\ l.bounces = 1 => f.at <= l.checked
              /\ \A i \in DOMAIN u : Is(u[i], "ricochet", s) => f.at <= u[i].time
    BY <1>1, <1>3 DEF Ahead
  <2>2. /\ AgeOf(m, f) <= AgeOf(n, g) /\ n.queued = m.queued
        /\ AgeOf(m, f) \in Nat /\ AgeOf(n, g) \in Nat /\ l.checked \in Nat
    BY <1>3, AgeOfFacts, AgesAreNumbers
  <2>3. l.checked <= AgeOf(n, g)
    BY <2>1, <2>2
  <2>4. \A i \in DOMAIN v : Tells(v[i], s) => i \in DOMAIN u /\ v[i] = u[i]
    BY <1>3, MovesJoined
  <2>5. \A i \in DOMAIN u : u[i] \in Messages
    OBVIOUS
  <2> HIDE DEF v
  <2>6. ASSUME NEW i \in DOMAIN v, Moves(v[i], s)
        PROVE  Told(v[i], s) <= AgeOf(n, g)
    <3>1. i \in DOMAIN u /\ v[i] = u[i] /\ Told(u[i], s) \in Nat
      BY <2>4, <2>5, <2>6, ToldIsAge, AgesAreNumbers DEF Tells
    <3> QED
      BY <2>1, <2>2, <2>6, <3>1
  <2>7. Reached(s, v, Len(v) + 1, l.checked, n.queued)
    BY <2>1, <2>2, PrefixFacts DEF v
  <2>8. ASSUME n.deferred # "no"
        PROVE  /\ l.bounces = 1 => g.at <= l.checked
               /\ \A i \in DOMAIN v : Is(v[i], "ricochet", s) => g.at <= v[i].time
    <3>1. \A i \in DOMAIN v : Is(v[i], "ricochet", s) => i \in DOMAIN u /\ v[i] = u[i]
      BY <2>4 DEF Tells, Moves
    <3>2. CASE g.at = f.at
      BY <1>3, <2>1, <2>8, <3>1, <3>2
    <3>3. CASE g.at <= l.checked /\ ~Waits(u, "ricochet", s)
      BY <3>1, <3>3 DEF Waits
    <3> QED
      BY <1>3, <2>8, <3>2, <3>3
  <2> QED
    BY <2>3, <2>6, <2>7, <2>8 DEF Ahead
<1> HIDE DEF v
<1>4. Agreed(s, v, l, n, g, k)
  BY <1>2, <1>3 DEF Agreed
<1> QED
  BY <1>4 DEF v

\* The owner tells its age, on progress that has been told: then the server
\* will have it before it reads the message.
LEMMA AgreedTold ==
    ASSUME NEW u \in Seq(Messages), NEW w \in Messages, NEW s, NEW l, l.checked \in Ages,
           NEW m \in Metas, NEW f \in Shells, NEW j,
           Agreed(s, u, l, m, f, j), m.terminal = None,
           Tells(w, s), AgeOf(m, f) <= Told(w, s),
           Claims(w, s) => w.base = Larger(m.base, m.queued)
    PROVE  /\ Grows(s, u \o <<w>>, l.checked) /\ Based(s, u \o <<w>>, l.checked)
           /\ \A i \in DOMAIN (u \o <<w>>) : Moves((u \o <<w>>)[i], s) =>
                 Told((u \o <<w>>)[i], s) <= Told(w, s)
           /\ l.checked <= Told(w, s) /\ Told(w, s) \in Ages
<1>1. /\ Grows(s, u, l.checked) /\ Based(s, u, l.checked) /\ m.base <= l.checked
      /\ l.checked <= AgeOf(m, f)
      /\ \A i \in DOMAIN u : Moves(u[i], s) => Told(u[i], s) <= AgeOf(m, f)
      /\ Reached(s, u, Len(u) + 1, l.checked, m.queued)
  BY DEF Agreed, Ahead
<1>2. AgeOf(m, f) \in Nat /\ Told(w, s) \in Ages /\ Told(w, s) \in Nat /\ l.checked \in Nat
  BY AgeOfFacts, ToldIsAge, AgesAreNumbers
<1>3. l.checked <= Told(w, s)
  BY <1>1, <1>2
<1>4. ASSUME NEW i \in DOMAIN u, Moves(u[i], s)
      PROVE  Told(u[i], s) <= Told(w, s)
  <2>1. Told(u[i], s) \in Nat
    BY <1>4, ToldIsAge, AgesAreNumbers DEF Tells
  <2> QED
    BY <1>1, <1>2, <1>4, <2>1
<1>5. Claims(w, s) => Reached(s, u, Len(u) + 1, l.checked, w.base)
  <2>1. Larger(m.base, m.queued) \in {m.base, m.queued}
    BY DEF Larger
  <2> QED
    BY <1>1, <2>1 DEF Reached
<1>6. Grows(s, u \o <<w>>, l.checked) /\ Based(s, u \o <<w>>, l.checked)
  BY <1>1, <1>3, <1>4, <1>5, SaidNext
<1>7. ASSUME NEW i \in DOMAIN (u \o <<w>>), Moves((u \o <<w>>)[i], s)
      PROVE  Told((u \o <<w>>)[i], s) <= Told(w, s)
  <2> DEFINE x == (u \o <<w>>)[i]
  <2>1. <<w>> \in Seq(Messages) /\ DOMAIN <<w>> = {1} /\ <<w>>[1] = w
    BY SingleFacts
  <2>2. (i \in DOMAIN u /\ x = u[i]) \/ x = w
    BY <2>1, MovesJoined
  <2>3. Moves(x, s)
    BY <1>7
  <2> HIDE DEF x
  <2>4. Told(x, s) <= Told(w, s)
    BY <1>2, <1>4, <2>2, <2>3
  <2> QED
    BY <2>4 DEF x
<1> QED
  BY <1>2, <1>3, <1>6, <1>7

\* The owner sends its terminal.
LEMMA AgreedEnd ==
    ASSUME NEW u \in Seq(Messages), NEW o \in Owners, o.m \in Metas, NEW s \in Shots,
           NEW l, l.checked \in Ages, NEW n \in Metas, NEW g, NEW j,
           Agreed(s, u, l, o.m, o.f, j), o.m.terminal = None,
           n.terminal # None, n.base = o.m.base
    PROVE  Agreed(s, u \o <<Wire(o, s)>>, l, n, g, j)
<1> DEFINE w == Wire(o, s)
<1>1. /\ w \in Messages /\ Is(w, "resolve", s) /\ w.base = Larger(o.m.base, o.m.queued)
      /\ w.time = AgeOf(o.m, o.f)
  BY WireFacts DEF Base, Age, AgeOf
<1> HIDE DEF w
<1>2. Tells(w, s) /\ Told(w, s) = AgeOf(o.m, o.f) /\ AgeOf(o.m, o.f) <= AgeOf(o.m, o.f)
      /\ o.f \in Shells
  <2>1. o.f \in Shells
    BY DEF Owners
  <2>2. AgeOf(o.m, o.f) \in Nat
    BY <2>1, AgeOfFacts, AgesAreNumbers
  <2> QED
    BY <1>1, <2>1, <2>2, MessageKinds DEF Tells
<1>3. Grows(s, u \o <<w>>, l.checked) /\ Based(s, u \o <<w>>, l.checked)
  BY <1>1, <1>2, AgreedTold
<1>4. Agreed(s, u \o <<w>>, l, n, g, j)
  BY <1>3 DEF Agreed
<1> QED
  BY <1>4 DEF w

LEMMA AgreedAdmitted ==
    ASSUME NEW u \in Seq(Messages), NEW o \in Owners, o.m \in Metas, o.out = <<>>,
           NEW s \in Shots, NEW l, l.checked \in Ages, NEW j,
           Agreed(s, u, l, o.m, o.f, j)
    PROVE  LET a == Admitted(o, s) IN Agreed(s, u \o a.out, l, a.m, a.f, j)
<1> DEFINE a == Admitted(o, s)
<1>1. AdmitsNothing(o, a) \/ AdmitsSegment(o, a) \/ AdmitsEnd(o, s, a) \/ AdmitsEnded(o, a)
  BY AdmittedFacts
<1>2. /\ a.m.base = o.m.base /\ a.m.queued = o.m.queued /\ a.f.at = o.f.at
      /\ a \in Owners /\ a.m \in Metas
  BY AdmittedKeeps, AdmittedFacts
<1>3. o.f \in Shells /\ a.f \in Shells /\ a.out \in Seq(Messages)
  BY <1>2 DEF Owners
<1>4. o.m.terminal = None \/ o.m.terminal # None
  OBVIOUS
<1> HIDE DEF a
<1>5. CASE AdmitsEnd(o, s, a)
  <2>1. a.out = <<Wire(o, s)>> /\ a.m.terminal = Wire(o, s) /\ o.m.terminal = None
    BY <1>5 DEF AdmitsEnd, Metas
  <2>2. a.m.terminal # None
    BY <2>1, WireFacts
  <2>3. Agreed(s, u \o <<Wire(o, s)>>, l, a.m, a.f, j)
    BY <1>2, <2>1, <2>2, AgreedEnd
  <2> QED
    BY <2>1, <2>3 DEF a
<1>6. CASE a.out = <<>> /\ (a.m.terminal = None => o.m.terminal = None)
           /\ (a.m.deferred # "no" => o.m.deferred # "no")
  <2>1. o.m.base <= l.checked /\ \A i \in DOMAIN j : j[i].checked <= l.checked
    BY DEF Agreed
  <2>2. AgeOf(o.m, o.f) <= AgeOf(a.m, a.f)
    <3>1. AgeOf(o.m, o.f) = AgeOf(a.m, a.f)
      BY <1>2 DEF AgeOf
    <3>2. AgeOf(o.m, o.f) \in Nat
      BY <1>3, AgeOfFacts, AgesAreNumbers
    <3> QED
      BY <3>1, <3>2
  <2>3. DOMAIN a.out = {}
    BY <1>6, EmptyFacts
  <2>4. Agreed(s, u \o a.out, l, a.m, a.f, j)
    BY <1>2, <1>3, <1>6, <2>1, <2>2, <2>3, AgreedSame
  <2> QED
    BY <2>4 DEF a
<1>7. CASE AdmitsNothing(o, a)
  BY <1>6, <1>7 DEF AdmitsNothing
<1>8. CASE AdmitsSegment(o, a) \/ AdmitsEnded(o, a)
  <2>1. a.m = [o.m EXCEPT !.deferred = "no"] /\ a.out = <<>>
    BY <1>8 DEF AdmitsSegment, AdmitsEnded
  <2>2. a.m.terminal = o.m.terminal /\ a.m.deferred = "no"
    BY <2>1 DEF Metas
  <2> QED
    BY <1>6, <2>1, <2>2
<1> QED
  BY <1>1, <1>5, <1>7, <1>8

\* What the hand tells of a shot.
LEMMA OwnedFacts ==
    ASSUME Typed, HandInv, NEW s \in Shots, Owned(s)
    PROVE  /\ meta[s] \in Metas /\ shell[s] \in Shells /\ ledger[s] \in Entries
           /\ ledger[s].checked \in Ages /\ up \in Seq(Messages)
           /\ meta[s].terminal # None <=> Waits(up, "resolve", s)
           /\ meta[s].deferred # "no" => meta[s].bounces = 1
           /\ meta[s].deferred = "ahead" => shell[s].segment = None
           /\ meta[s].bounces = 0 => ledger[s].bounces = 0 /\ ~Waits(up, "ricochet", s)
           /\ Waits(up, "ricochet", s) => ledger[s].bounces = 0
<1>1. /\ meta[s] \in Metas \cup {None} /\ shell[s] \in Shells /\ ledger[s] \in Entries
      /\ up \in Seq(Messages)
  BY DEF Typed, ClientTyped, ServerTyped
<1>2. ledger[s].checked \in Ages
  BY <1>1 DEF Entries
<1>3. Held(Waits(up, "resolve", s), Waits(up, "ricochet", s),
           ledger[s], meta[s], shell[s], journal[s])
  BY DEF HandInv, InHand
<1> DEFINE a == Waits(up, "resolve", s)
           b == Waits(up, "ricochet", s)
<1> HIDE DEF a, b
<1>4. Held(a, b, ledger[s], meta[s], shell[s], journal[s])
  BY <1>3 DEF a, b
<1>5. /\ meta[s] # None
      /\ meta[s].terminal # None <=> a
      /\ meta[s].deferred # "no" => meta[s].bounces = 1
      /\ meta[s].deferred = "ahead" => shell[s].segment = None
      /\ meta[s].bounces = 0 => ledger[s].bounces = 0 /\ ~b
      /\ b => ledger[s].bounces = 0
  BY <1>4 DEF Held
<1> QED
  BY <1>1, <1>2, <1>5 DEF a, b

\* A shot the step does not touch.
LEMMA AgreedRests ==
    ASSUME Typed, HandInv, NEW s \in Shots, Owned(s), NEW out \in Seq(Messages),
           \A i \in DOMAIN out : Tells(out[i], s) => meta[s].terminal # None,
           Agreed(s, up, ledger[s], meta[s], shell[s], journal[s])
    PROVE  Agreed(s, up \o out, ledger[s], meta[s], shell[s], journal[s])
<1> DEFINE l == ledger[s]
           m == meta[s]
           f == shell[s]
           j == journal[s]
<1>1. m \in Metas /\ f \in Shells /\ l.checked \in Ages /\ up \in Seq(Messages)
      /\ (m.terminal # None <=> Waits(up, "resolve", s))
  BY OwnedFacts
<1>2. AgeOf(m, f) <= AgeOf(m, f)
  BY <1>1, AgeOfFacts, AgesAreNumbers
<1>3. m.base <= l.checked /\ \A i \in DOMAIN j : j[i].checked <= l.checked
  BY DEF Agreed
<1>4. Agreed(s, up, l, m, f, j)
  OBVIOUS
<1>5. \A i \in DOMAIN out : Tells(out[i], s) => m.terminal # None
  OBVIOUS
<1> HIDE DEF l, m, f, j
<1>6. Agreed(s, up \o out, l, m, f, j)
  BY <1>1, <1>2, <1>3, <1>4, <1>5, AgreedSame
<1> QED
  BY <1>6 DEF l, m, f, j

\* A step of the client that launches nothing.
LEMMA CursorClient ==
    ASSUME Typed, CursorInv, UNCHANGED ledger, count'.fired = count.fired,
           count'.refused = count.refused,
           NEW out \in Seq(Messages), up' = up \o out,
           \A s \in Shots : ~Waits(out, "launch", s),
           \A s \in Shots :
               Owned(s) /\ Agreed(s, up, ledger[s], meta[s], shell[s], journal[s]) =>
               Agreed(s, up \o out, ledger[s], meta'[s], shell'[s], journal'[s])
    PROVE  CursorInv'
<1>1. up \in Seq(Messages)
  BY DEF Typed, ClientTyped
<1>2. \A s \in Shots : Waits(up', "launch", s) <=> Waits(up, "launch", s)
  BY <1>1, WaitsJoined
<1>3. \A s \in Shots : Owned(s)' <=> Owned(s)
  BY <1>2 DEF Owned, Waits
<1> SUFFICES ASSUME count'.refused = 0
             PROVE  /\ \A s \in Shots : ledger'[s].life # "refused"
                    /\ Introduced'
                    /\ \A s \in Shots : Owned(s)' =>
                          Agreed(s, up', ledger'[s], meta'[s], shell'[s], journal'[s])
  BY DEF CursorInv, Agreed, Grows, Based, Ahead, Early, Reached
<1>4. /\ \A s \in Shots : ledger[s].life # "refused"
      /\ Introduced
      /\ \A s \in Shots :
            Owned(s) => Agreed(s, up, ledger[s], meta[s], shell[s], journal[s])
  BY DEF CursorInv
<1>5. \A s \in Shots : Owned(s)' =>
          Agreed(s, up', ledger'[s], meta'[s], shell'[s], journal'[s])
  BY <1>3, <1>4
<1>6. Introduced'
  <2>1. \A s \in Shots : s <= count'.fired =>
            ledger'[s].life # "none" \/ Waits(up', "launch", s)
    BY <1>2, <1>4 DEF Introduced
  <2> QED
    BY <2>1 DEF Introduced, Waits
<1> QED
  BY <1>4, <1>5, <1>6

\* One shot's owner takes a step that does not launch it.
LEMMA CursorSteps ==
    ASSUME Typed, HandInv, CursorInv, UNCHANGED ledger, count'.fired = count.fired,
           count'.refused = count.refused,
           NEW s \in Shots, NEW o \in Owners, OwnTerminal(s, o.m), Steps(s, o),
           \A i \in DOMAIN o.out : ~Is(o.out[i], "launch", s) /\ \A r : About(o.out[i], r) => r = s,
           \A r \in Shots : r # s => journal'[r] = journal[r],
           Owned(s) /\ Agreed(s, up, ledger[s], meta[s], shell[s], journal[s]) =>
               Agreed(s, up \o o.out, ledger[s], o.m, o.f, journal'[s])
    PROVE  CursorInv'
<1>1. /\ up' = up \o o.out /\ meta'[s] = o.m /\ shell'[s] = o.f
      /\ \A r \in Shots : r # s => meta'[r] = meta[r] /\ shell'[r] = shell[r]
  BY StepsFacts DEF Typed
<1>2. o.out \in Seq(Messages)
  BY DEF Owners
<1>3. \A r \in Shots : ~Waits(o.out, "launch", r)
  BY DEF Waits, About
<1>4. ASSUME NEW r \in Shots, Owned(r),
             Agreed(r, up, ledger[r], meta[r], shell[r], journal[r])
      PROVE  Agreed(r, up \o o.out, ledger[r], meta'[r], shell'[r], journal'[r])
  <2>1. CASE r = s
    BY <1>1, <1>4, <2>1
  <2>2. CASE r # s
    <3>1. \A i \in DOMAIN o.out : ~Tells(o.out[i], r)
      BY <2>2 DEF About
    <3>2. Agreed(r, up \o o.out, ledger[r], meta[r], shell[r], journal[r])
      BY <1>2, <1>4, <3>1, AgreedRests
    <3> QED
      BY <1>1, <2>2, <3>2
  <2> QED
    BY <2>1, <2>2
<1> QED
  BY <1>1, <1>2, <1>3, <1>4, CursorClient

LEMMA LargerGrows ==
    ASSUME NEW a \in Ages, NEW b \in Ages, NEW c \in Ages, b <= c
    PROVE  Larger(a, b) <= Larger(a, c)
  BY AgesAreNumbers DEF Larger

\* A frame advances the shell.
LEMMA CursorAdvance ==
    ASSUME Typed, Typed', HandInv, CursorInv, NEW s \in Shots, Advance(s)
    PROVE  CursorInv'
<1>1. /\ meta' = meta /\ up' = up
      /\ shell'[s].at = shell[s].at + 1
      /\ \A r \in Shots : r # s => shell'[r] = shell[r]
  BY AdvanceFacts DEF Typed
<1>2. /\ UNCHANGED <<ledger, journal, count>>
      /\ FrameBegun /\ shell[s].segment # None
  BY DEF Advance, serverVars, Flying
<1>3. /\ up \in Seq(Messages) /\ up' = up \o <<>> /\ <<>> \in Seq(Messages) /\ DOMAIN <<>> = {}
  BY <1>1, EmptyFacts DEF Typed, ClientTyped
<1>4. \A r \in Shots : ~Waits(<<>>, "launch", r)
  BY <1>3 DEF Waits
<1>5. ASSUME NEW r \in Shots, Owned(r),
             Agreed(r, up, ledger[r], meta[r], shell[r], journal[r])
      PROVE  Agreed(r, up \o <<>>, ledger[r], meta'[r], shell'[r], journal'[r])
  <2>1. CASE r # s
    <3>1. Agreed(r, up \o <<>>, ledger[r], meta[r], shell[r], journal[r])
      BY <1>3, <1>5, AgreedRests
    <3> QED
      BY <1>1, <1>2, <2>1, <3>1
  <2>2. CASE r = s
    <3> DEFINE l == ledger[s]
               m == meta[s]
               f == shell[s]
               g == shell'[s]
               j == journal[s]
    <3>1. /\ m \in Metas /\ f \in Shells /\ l.checked \in Ages
          /\ m.deferred = "ahead" => f.segment = None
      BY <1>5, <2>2, OwnedFacts
    <3>2. g \in Shells
      BY DEF Typed, ClientTyped
    <3>3. m.deferred = "no"
      <4>1. m.deferred # "due"
        BY <1>2, <3>1, NoneAssumption DEF FrameBegun
      <4>2. m.deferred \in {"no", "ahead", "due"}
        BY <3>1 DEF Metas
      <4> QED
        BY <1>2, <3>1, <4>1, <4>2
    <3>4. g.at = f.at + 1
      BY <1>1
    <3>5. m.base <= l.checked /\ (\A i \in DOMAIN j : j[i].checked <= l.checked)
          /\ Agreed(s, up, l, m, f, j)
      BY <1>5, <2>2 DEF Agreed
    <3> HIDE DEF l, m, f, g, j
    <3>7. AgeOf(m, f) <= AgeOf(m, g)
      <4>1. f.at \in Ages /\ g.at \in Ages /\ m.base \in Ages
        BY <3>1, <3>2, AgeOfFacts
      <4>2. f.at \in Nat
        BY <4>1, AgesAreNumbers
      <4>3. f.at <= g.at
        BY <3>4, <4>2
      <4> QED
        BY <4>1, <4>3, LargerGrows DEF AgeOf
    <3>6. Agreed(s, up \o <<>>, l, m, g, j)
      BY <1>3, <3>1, <3>2, <3>3, <3>5, <3>7, AgreedSame
    <3> QED
      BY <1>1, <1>2, <2>2, <3>6 DEF l, m, g, j
  <2> QED
    BY <2>1, <2>2
<1> QED
  BY <1>2, <1>3, <1>4, <1>5, CursorClient DEF Typed

\* A terminal is sent at the end of a segment.
LEMMA CursorHit ==
    ASSUME Typed, HandInv, CursorInv, NEW s \in Shots, Hit(s)
    PROVE  CursorInv'
<1>1. UNCHANGED <<ledger, journal, count>>
  BY DEF Hit, serverVars
<1>2. CASE meta[s] = None
  <2> DEFINE o == LostOwner(s)
  <2>1. o \in Owners /\ Steps(s, o) /\ OwnTerminal(s, o.m)
        /\ \A i \in DOMAIN o.out : ~Is(o.out[i], "launch", s) /\ \A r : About(o.out[i], r) => r = s
    BY <1>2, HitFacts DEF LostOwner, Typed, OwnTerminal
  <2>2. ~Owned(s)
    BY <1>2, OwnedFacts, NoneAssumption
  <2> HIDE DEF o
  <2> QED
    BY <1>1, <2>1, <2>2, CursorSteps
<1>3. CASE meta[s] # None
  <2> DEFINE o == HitOwner(s)
             w == Wire(Owner(s), s)
             m == meta[s]
  <2>1. o \in Owners /\ Steps(s, o) /\ OwnTerminal(s, o.m)
    BY <1>3, HitFacts DEF Typed
  <2>2. m \in Metas /\ shell[s] \in Shells
    BY <1>3 DEF Typed, ClientTyped
  <2>3. /\ o.m = [m EXCEPT !.terminal = w] /\ o.f = Ground(shell[s])
        /\ o.out = IF m.terminal = None THEN <<w>> ELSE <<>>
    BY DEF HitOwner
  <2>4. Owner(s) \in Owners /\ Owner(s).m = m /\ Owner(s).f = shell[s]
    BY OwnerType DEF Typed
  <2>5. Is(w, "resolve", s) /\ w # None /\ w \in Wires
    BY <2>2, <2>4, WireFacts
  <2> HIDE DEF o, w, m
  <2>6. Ends(o.out, s)
    BY <2>3, <2>5 DEF Ends
  <2>7. \A i \in DOMAIN o.out : ~Is(o.out[i], "launch", s) /\ \A r : About(o.out[i], r) => r = s
    BY <2>6, EndsAbout
  <2>8. o.m \in Metas /\ o.m.terminal # None /\ o.m.base = m.base
    <3>1. o.m \in Metas
      BY <2>2, <2>3, <2>5 DEF Metas
    <3> QED
      BY <2>2, <2>3, <2>5, <3>1 DEF Metas
  <2>9. o.f \in Shells
    BY <2>1 DEF Owners
  <2>10. ASSUME Owned(s), Agreed(s, up, ledger[s], m, shell[s], journal[s])
         PROVE  Agreed(s, up \o o.out, ledger[s], o.m, o.f, journal[s])
    <3> DEFINE l == ledger[s]
               j == journal[s]
    <3>1. up \in Seq(Messages) /\ l.checked \in Ages
      BY <2>10, OwnedFacts
    <3>2. m.base <= l.checked /\ \A i \in DOMAIN j : j[i].checked <= l.checked
      BY <2>10 DEF Agreed
    <3>3. Agreed(s, up, l, m, shell[s], j)
      BY <2>10
    <3> HIDE DEF l, j
    <3>4. CASE m.terminal = None
      <4>1. Agreed(s, up \o <<Wire(Owner(s), s)>>, l, o.m, o.f, j)
        BY <2>2, <2>4, <2>8, <3>1, <3>3, <3>4, AgreedEnd
      <4> QED
        BY <2>3, <3>4, <4>1 DEF w, l, j
    <3>5. CASE m.terminal # None
      <4>1. o.out = <<>> /\ o.out \in Seq(Messages) /\ DOMAIN o.out = {}
        BY <2>3, <3>5, EmptyFacts
      <4>2. Agreed(s, up \o o.out, l, o.m, o.f, j)
        BY <2>2, <2>8, <2>9, <3>1, <3>2, <3>3, <4>1, AgreedSame
      <4> QED
        BY <4>2 DEF l, j
    <3> QED
      BY <3>4, <3>5
  <2>11. Owned(s) /\ Agreed(s, up, ledger[s], meta[s], shell[s], journal[s]) =>
             Agreed(s, up \o o.out, ledger[s], o.m, o.f, journal'[s])
    BY <1>1, <2>10 DEF m
  <2> QED
    BY <1>1, <2>1, <2>7, <2>11, CursorSteps
<1> QED
  BY <1>2, <1>3

\* The time of a deferred segment comes.
LEMMA CursorDue ==
    ASSUME Typed, Typed', HandInv, CursorInv, NEW s \in Shots, Due(s)
    PROVE  CursorInv'
<1>1. /\ shell' = shell /\ up' = up
      /\ meta[s] \in Metas /\ meta'[s] = [meta[s] EXCEPT !.deferred = "due"]
      /\ meta[s].deferred = "ahead"
      /\ \A r \in Shots : r # s => meta'[r] = meta[r]
  BY DueFacts DEF Typed
<1>2. UNCHANGED <<ledger, journal, count>>
  BY DEF Due, serverVars
<1>3. /\ up \in Seq(Messages) /\ up' = up \o <<>> /\ <<>> \in Seq(Messages) /\ DOMAIN <<>> = {}
  BY <1>1, EmptyFacts DEF Typed, ClientTyped
<1>4. \A r \in Shots : ~Waits(<<>>, "launch", r)
  BY <1>3 DEF Waits
<1>5. ASSUME NEW r \in Shots, Owned(r),
             Agreed(r, up, ledger[r], meta[r], shell[r], journal[r])
      PROVE  Agreed(r, up \o <<>>, ledger[r], meta'[r], shell'[r], journal'[r])
  <2>1. CASE r # s
    <3>1. Agreed(r, up \o <<>>, ledger[r], meta[r], shell[r], journal[r])
      BY <1>3, <1>5, AgreedRests
    <3> QED
      BY <1>1, <1>2, <2>1, <3>1
  <2>2. CASE r = s
    <3> DEFINE l == ledger[s]
               m == meta[s]
               n == meta'[s]
               f == shell[s]
               j == journal[s]
    <3>1. /\ m \in Metas /\ f \in Shells /\ l.checked \in Ages
      BY <1>5, <2>2, OwnedFacts
    <3>2. n = [m EXCEPT !.deferred = "due"] /\ m.deferred # "no"
      BY <1>1
    <3>3. m.base <= l.checked /\ (\A i \in DOMAIN j : j[i].checked <= l.checked)
          /\ Agreed(s, up, l, m, f, j)
      BY <1>5, <2>2 DEF Agreed
    <3> HIDE DEF l, m, n, f, j
    <3>4. n \in Metas /\ n.terminal = m.terminal /\ n.base = m.base /\ n.queued = m.queued
      BY <3>1, <3>2 DEF Metas
    <3>5. AgeOf(m, f) <= AgeOf(n, f)
      <4>1. AgeOf(m, f) = AgeOf(n, f)
        BY <3>4 DEF AgeOf
      <4> QED
        BY <3>1, <4>1, AgeOfFacts, AgesAreNumbers
    <3>6. Agreed(s, up \o <<>>, l, n, f, j)
      BY <1>3, <3>1, <3>2, <3>3, <3>4, <3>5, AgreedSame
    <3> QED
      BY <1>1, <1>2, <2>2, <3>6 DEF l, n, f, j
  <2> QED
    BY <2>1, <2>2
<1> QED
  BY <1>2, <1>3, <1>4, <1>5, CursorClient

\* A second segment is begun when it is due.
LEMMA CursorAdmit ==
    ASSUME Typed, HandInv, CursorInv, NEW s \in Shots, Admit(s)
    PROVE  CursorInv'
<1>1. UNCHANGED <<ledger, journal, count>>
  BY DEF Admit, serverVars
<1> DEFINE o == Admitted(Owner(s), s)
<1>2. /\ meta[s] \in Metas /\ Steps(s, o) /\ o \in Owners /\ OwnTerminal(s, o.m) /\ Ends(o.out, s)
  BY AdmitFacts DEF Typed
<1>3. /\ Owner(s) \in Owners /\ Owner(s).m = meta[s] /\ Owner(s).f = shell[s] /\ Owner(s).out = <<>>
  BY OwnerType DEF Typed
<1>4. \A i \in DOMAIN o.out : ~Is(o.out[i], "launch", s) /\ \A r : About(o.out[i], r) => r = s
  BY <1>2, EndsAbout
<1>5. ASSUME Owned(s), Agreed(s, up, ledger[s], meta[s], shell[s], journal[s])
      PROVE  Agreed(s, up \o o.out, ledger[s], o.m, o.f, journal[s])
  <2>1. up \in Seq(Messages) /\ ledger[s].checked \in Ages
    BY <1>5, OwnedFacts
  <2>2. Agreed(s, up, ledger[s], Owner(s).m, Owner(s).f, journal[s])
    BY <1>3, <1>5
  <2> QED
    BY <1>2, <1>3, <2>1, <2>2, AgreedAdmitted
<1> HIDE DEF o
<1> QED
  BY <1>1, <1>2, <1>4, <1>5, CursorSteps

\* The shell bounces for the first time: the ricochet tells the age the segment
\* begins with, on all the progress told before it.
LEMMA AgreedBounce ==
    ASSUME Typed, HandInv, NEW s \in Shots, Owned(s), meta[s].bounces = 0,
           NEW time \in Ages, time \in {Age(Owner(s)), Age(Owner(s)) + 1},
           BouncedOwner(s, time) \in Owners, BouncedWire(s, time) \in Messages,
           Agreed(s, up, ledger[s], meta[s], shell[s], journal[s])
    PROVE  Agreed(s, up \o <<BouncedWire(s, time)>>, ledger[s],
                  BouncedMeta(s, time), BouncedShell(s, time), journal[s])
<1> DEFINE l == ledger[s]
           m == meta[s]
           f == shell[s]
           j == journal[s]
           n == BouncedMeta(s, time)
           g == BouncedShell(s, time)
           w == BouncedWire(s, time)
           v == up \o <<w>>
<1>1. /\ m \in Metas /\ f \in Shells /\ l.checked \in Ages /\ up \in Seq(Messages)
      /\ (m.terminal # None <=> Waits(up, "resolve", s))
      /\ l.bounces = 0 /\ ~Waits(up, "ricochet", s)
  BY OwnedFacts
<1>2. /\ Owner(s).m = m /\ Owner(s).f = f
  BY OwnerType DEF Typed
<1>3. AgeOf(m, f) <= time /\ time \in Nat
  <2>1. Age(Owner(s)) = AgeOf(m, f)
    BY <1>2 DEF Age, AgeOf
  <2>2. AgeOf(m, f) \in Nat /\ time \in Nat
    BY <1>1, AgeOfFacts, AgesAreNumbers
  <2>3. time \in {AgeOf(m, f), AgeOf(m, f) + 1}
    BY <2>1
  <2> HIDE DEF m, f
  <2> QED
    BY <2>2, <2>3
<1>4. /\ Is(w, "ricochet", s) /\ w.time = time /\ w.base = Larger(m.base, m.queued)
      /\ w \in Messages
  BY <1>2 DEF BouncedWire, Is, Base
<1>5. n \in Metas /\ g \in Shells
  <2>1. BouncedOwner(s, time).m = n /\ BouncedOwner(s, time).f = g
    BY DEF BouncedOwner
  <2>2. g \in Shells
    BY <2>1 DEF Owners
  <2>3. n \in Metas
    BY <1>1 DEF BouncedMeta, Metas
  <2> QED
    BY <2>2, <2>3
<1>6. n.base = m.base /\ n.terminal = m.terminal /\ n.queued = time
  BY <1>1, <1>5 DEF BouncedMeta, Metas
<1>7. g.at = time
  BY <1>1, ShellFacts DEF BouncedShell
<1>8. m.base <= l.checked /\ (\A i \in DOMAIN j : j[i].checked <= l.checked)
      /\ Agreed(s, up, l, m, f, j)
  BY DEF Agreed
<1>9. <<w>> \in Seq(Messages) /\ Len(<<w>>) = 1 /\ DOMAIN <<w>> = {1} /\ <<w>>[1] = w
  BY <1>4, SingleFacts
<1> HIDE DEF l, m, f, j, n, g, w
<1>10. CASE m.terminal # None
  <2>1. \A i \in DOMAIN <<w>> : Tells(<<w>>[i], s) => Waits(up, "resolve", s)
    BY <1>1, <1>10
  <2>2. Agreed(s, up \o <<w>>, l, n, g, j)
    BY <1>1, <1>5, <1>6, <1>8, <1>9, <1>10, <2>1, AgreedSame
  <2> QED
    BY <2>2 DEF l, n, g, j, w
<1>11. CASE m.terminal = None
  <2>1. Tells(w, s) /\ Moves(w, s) /\ Told(w, s) = time
    BY <1>4, MessageKinds DEF Tells, Moves
  <2>2. /\ Grows(s, v, l.checked) /\ Based(s, v, l.checked)
        /\ \A i \in DOMAIN v : Moves(v[i], s) => Told(v[i], s) <= Told(w, s)
        /\ l.checked <= Told(w, s)
    BY <1>1, <1>3, <1>4, <1>8, <1>11, <2>1, AgreedTold
  <2>3. /\ Len(v) = Len(up) + 1 /\ v[Len(up) + 1] = w /\ Len(up) \in Nat
        /\ \A i \in DOMAIN v : i \in DOMAIN up \/ v[i] = w
        /\ \A i \in DOMAIN up : v[i] = up[i]
    <3>1. \A i \in DOMAIN v : (i \in DOMAIN up /\ v[i] = up[i]) \/ \E k \in DOMAIN <<w>> : v[i] = <<w>>[k]
      BY <1>1, <1>9, MovesJoined
    <3>2. /\ Len(v) = Len(up) + Len(<<w>>)
          /\ \A i \in DOMAIN up : v[i] = up[i]
          /\ \A i \in DOMAIN <<w>> : v[Len(up) + i] = <<w>>[i]
      BY <1>1, <1>9, JoinedFacts
    <3> QED
      BY <1>1, <1>9, <3>1, <3>2
  <2> HIDE DEF v
  <2>4. AgeOf(n, g) \in Nat /\ time <= AgeOf(n, g)
    BY <1>5, <1>7, AgeOfFacts, AgesAreNumbers
  <2>5. l.checked <= AgeOf(n, g)
    <3>1. l.checked \in Nat
      BY <1>1, AgesAreNumbers
    <3> QED
      BY <1>3, <2>1, <2>2, <2>4, <3>1
  <2>6. ASSUME NEW i \in DOMAIN v, Moves(v[i], s)
        PROVE  Told(v[i], s) <= AgeOf(n, g)
    <3>1. v \in Seq(Messages)
      BY <1>1, <1>9, JoinedFacts DEF v
    <3>2. v[i] \in Messages
      BY <3>1
    <3>3. Told(v[i], s) \in Nat
      BY <2>6, <3>2, ToldIsAge, AgesAreNumbers DEF Tells
    <3> QED
      BY <1>3, <2>1, <2>2, <2>4, <2>6, <3>3
  <2>7. Reached(s, v, Len(v) + 1, l.checked, n.queued)
    <3>1. Len(up) + 1 \in 1..((Len(v) + 1) - 1)
      BY <2>3
    <3>2. n.queued <= Told(v[Len(up) + 1], s) /\ Moves(v[Len(up) + 1], s)
      BY <1>3, <1>6, <2>1, <2>3
    <3> QED
      BY <3>1, <3>2 DEF Reached
  <2>8. ASSUME NEW i \in DOMAIN v, Is(v[i], "ricochet", s)
        PROVE  g.at <= v[i].time
    <3>1. v[i] = w
      BY <1>1, <2>3, <2>8 DEF Waits
    <3> QED
      BY <1>3, <1>4, <1>7, <3>1
  <2>9. Ahead(s, v, l, n, g)
    BY <1>1, <2>5, <2>6, <2>7, <2>8 DEF Ahead
  <2>10. Agreed(s, v, l, n, g, j)
    BY <1>6, <1>8, <2>2, <2>9 DEF Agreed
  <2> QED
    BY <2>10 DEF v, l, n, g, j, w
<1> QED
  BY <1>10, <1>11

LEMMA CursorBounce ==
    ASSUME Typed, HandInv, CursorInv, NEW s \in Shots, Bounce(s)
    PROVE  CursorInv'
<1>1. UNCHANGED <<ledger, journal>> /\ meta[s].bounces = 0
      /\ count'.fired = count.fired /\ count'.refused = count.refused
  BY BounceFacts DEF Bounce, serverVars, Typed
<1>2. PICK time \in {Age(Owner(s)), Age(Owner(s)) + 1} :
          /\ BouncedOwner(s, time) \in Owners /\ Steps(s, BouncedOwner(s, time))
          /\ OwnTerminal(s, BouncedOwner(s, time).m)
          /\ BouncedWire(s, time) \in Messages /\ time \in Ages
  BY BounceFacts DEF Typed
<1> DEFINE o == BouncedOwner(s, time)
           w == BouncedWire(s, time)
<1>3. o.m = BouncedMeta(s, time) /\ o.f = BouncedShell(s, time) /\ o.out = <<w>>
  BY DEF BouncedOwner
<1>4. Is(w, "ricochet", s)
  BY DEF BouncedWire, Is
<1>5. o \in Owners /\ Steps(s, o) /\ OwnTerminal(s, o.m)
  BY <1>2
<1>6. Owned(s) /\ Agreed(s, up, ledger[s], meta[s], shell[s], journal[s]) =>
          Agreed(s, up \o o.out, ledger[s], o.m, o.f, journal'[s])
  BY <1>1, <1>2, <1>3, AgreedBounce
<1> HIDE DEF o, w
<1>7. \A i \in DOMAIN o.out : ~Is(o.out[i], "launch", s) /\ \A r : About(o.out[i], r) => r = s
  <2>1. \A i \in DOMAIN o.out : o.out[i] = w
    BY <1>3
  <2> QED
    BY <1>4, <2>1, MessageKinds
<1> QED
  BY <1>1, <1>5, <1>6, <1>7, CursorSteps

LEMMA AgeFacts == \A a \in Ages : a \in Nat /\ a <= a
  BY AgesAreNumbers

LEMMA LargerBoth ==
    ASSUME NEW a \in Ages, NEW b \in Ages, NEW c \in Ages, NEW d \in Ages, a <= b, c <= d
    PROVE  Larger(a, c) <= Larger(b, d)
  BY AgesAreNumbers DEF Larger

LEMMA LargerBounded ==
    ASSUME NEW a \in Ages, NEW b \in Ages, NEW c \in Ages, a <= c, b <= c
    PROVE  Larger(a, b) <= c /\ Larger(a, b) \in Ages
  BY AgesAreNumbers DEF Larger

\* The oldest event of the shot, and what its owner hears in it.
LEMMA AgreedPresent ==
    ASSUME Typed, PhaseInv, HandInv, NEW s \in Shots, Present(s), Owned(s),
           Agreed(s, up, ledger[s], meta[s], shell[s], journal[s])
    PROVE  LET o == ShownOwner(s, Head(journal[s])) IN
           Agreed(s, up \o o.out, ledger[s], o.m, o.f, journal'[s])
<1> DEFINE e == Head(journal[s])
           o == ShownOwner(s, e)
           i == HeardOwner(s, e)
           l == ledger[s]
           m == meta[s]
           f == shell[s]
           j == journal[s]
           k == journal'[s]
           n == HeardMeta(s, e)
<1>1. /\ m \in Metas /\ f \in Shells /\ l.checked \in Ages /\ up \in Seq(Messages)
  BY OwnedFacts
<1>2. j \in Seq(Events) /\ j # <<>> /\ k = Tail(j)
  BY PresentFacts DEF Typed, ServerTyped
<1>3. m.base <= l.checked /\ (\A h \in DOMAIN j : j[h].checked <= l.checked)
      /\ Agreed(s, up, l, m, f, j)
  BY DEF Agreed
<1>4. /\ e \in Events /\ e.kind \in {"launch", "ricochet"}
      /\ e.kind = "ricochet" => m.bounces = 1
  BY PresentOwned
<1>5. e.checked <= l.checked /\ (\A h \in DOMAIN k : k[h].checked <= l.checked)
  <2>1. /\ 1 \in DOMAIN j /\ e = j[1]
        /\ \A h \in DOMAIN k : h + 1 \in DOMAIN j /\ k[h] = j[h + 1]
    BY <1>2, TailFacts
  <2> HIDE DEF e, j, k, l
  <2> QED
    BY <1>3, <2>1
<1>6. /\ i \in Owners /\ n \in Metas
      /\ n.terminal = m.terminal /\ n.deferred = m.deferred /\ n.queued = m.queued
      /\ n.base \in {m.base, Larger(m.base, e.checked),
                     Larger(Larger(m.base, e.checked), e.checked)}
      /\ o = i \/ o = Admitted(i, s)
  <2> DEFINE a == Waits(up, "resolve", s)
             b == Waits(up, "ricochet", s)
  <2>1. Held(a, b, l, m, f, j)
    BY DEF HandInv, InHand
  <2>2. a \in BOOLEAN
    BY DEF Waits
  <2> HIDE DEF a, b, l, j, e
  <2> QED
    BY <1>4, <2>1, <2>2, ShownFacts
<1>7. i.m = n /\ i.f = f /\ i.out = <<>>
  BY DEF HeardOwner
<1>8. e.checked \in Ages
  BY <1>4, EventFacts
<1> HIDE DEF e, o, i, l, m, f, j, k, n
<1>9. m.base <= n.base /\ n.base <= l.checked /\ m.base \in Ages /\ n.base \in Ages
  <2>1. m.base \in Ages /\ n.base \in Ages
    BY <1>1, <1>6, AgeOfFacts
  <2>2. /\ Larger(m.base, e.checked) <= l.checked /\ Larger(m.base, e.checked) \in Ages
        /\ m.base <= Larger(m.base, e.checked)
    BY <1>1, <1>3, <1>5, <1>8, <2>1, LargerBounded, LargerFacts
  <2> DEFINE x == Larger(m.base, e.checked)
  <2> HIDE DEF x
  <2>3. /\ Larger(x, e.checked) <= l.checked /\ Larger(x, e.checked) \in Ages
        /\ x <= Larger(x, e.checked)
    BY <1>1, <1>5, <1>8, <2>2, LargerBounded, LargerFacts DEF x
  <2>4. m.base \in Nat /\ x \in Nat /\ Larger(x, e.checked) \in Nat
    BY <2>1, <2>2, <2>3, AgesAreNumbers DEF x
  <2>5. m.base <= n.base /\ n.base <= l.checked
    <3>1. n.base \in {m.base, x, Larger(x, e.checked)}
      BY <1>6 DEF x
    <3>2. m.base <= x /\ x <= l.checked
      BY <2>2 DEF x
    <3> DEFINE y == Larger(x, e.checked)
    <3> HIDE DEF y
    <3> QED
      BY <1>3, <2>3, <2>4, <3>1, <3>2 DEF y
  <2> QED
    BY <2>1, <2>5
<1>10. AgeOf(m, f) <= AgeOf(n, f)
  <2>1. f.at \in Ages /\ f.at <= f.at
    BY <1>1, AgeOfFacts, AgesAreNumbers
  <2> QED
    BY <1>9, <2>1, LargerBoth DEF AgeOf
<1>11. Agreed(s, up, l, n, f, k)
  <2>1. <<>> \in Seq(Messages) /\ DOMAIN <<>> = {} /\ up \o <<>> = up
    BY <1>1, EmptyFacts
  <2>2. Agreed(s, up \o <<>>, l, n, f, k)
    BY <1>1, <1>3, <1>5, <1>6, <1>9, <1>10, <2>1, AgreedSame
  <2> QED
    BY <2>1, <2>2
<1>12. CASE o = i
  <2>1. up \o o.out = up
    BY <1>1, <1>7, <1>12, EmptyFacts
  <2>2. Agreed(s, up \o o.out, l, o.m, o.f, k)
    BY <1>7, <1>11, <1>12, <2>1
  <2> QED
    BY <2>2 DEF o, l, k, e
<1>13. CASE o = Admitted(i, s)
  <2>1. Agreed(s, up, l, i.m, i.f, k)
    BY <1>7, <1>11
  <2>2. Agreed(s, up \o o.out, l, o.m, o.f, k)
    BY <1>1, <1>6, <1>7, <1>13, <2>1, AgreedAdmitted
  <2> QED
    BY <2>2 DEF o, l, k, e
<1> QED
  BY <1>6, <1>12, <1>13

LEMMA CursorPresent ==
    ASSUME Typed, PhaseInv, HandInv, CursorInv, NEW s \in Shots, Present(s)
    PROVE  CursorInv'
<1> DEFINE e == Head(journal[s])
<1>1. /\ ledger' = ledger
      /\ \A r \in Shots : r # s => journal'[r] = journal[r]
      /\ \/ e.kind \in {"refused", "impact"} /\ Gone(s)
         \/ s \in settled /\ meta' = meta /\ shell' = shell /\ settled' = settled /\ up' = up
         \/ /\ ShownOwner(s, e) \in Owners /\ Steps(s, ShownOwner(s, e))
            /\ OwnTerminal(s, ShownOwner(s, e).m) /\ Ends(ShownOwner(s, e).out, s)
  BY PresentFacts DEF Typed
<1>2. UNCHANGED count
  BY DEF Present
<1>3. up \in Seq(Messages)
  BY DEF Typed, ClientTyped
<1>4. /\ <<>> \in Seq(Messages) /\ up \o <<>> = up /\ DOMAIN <<>> = {}
      /\ \A r \in Shots : ~Waits(<<>>, "launch", r)
  BY <1>3, EmptyFacts DEF Waits
<1>5. CASE ~Owned(s) /\ up' = up /\ \A r \in Shots : r # s => meta'[r] = meta[r] /\ shell'[r] = shell[r]
  <2>1. ASSUME NEW r \in Shots, Owned(r),
               Agreed(r, up, ledger[r], meta[r], shell[r], journal[r])
        PROVE  Agreed(r, up \o <<>>, ledger[r], meta'[r], shell'[r], journal'[r])
    <3>1. r # s
      BY <1>5, <2>1
    <3>2. Agreed(r, up \o <<>>, ledger[r], meta[r], shell[r], journal[r])
      BY <1>4, <2>1, AgreedRests
    <3> QED
      BY <1>1, <1>5, <3>1, <3>2
  <2>2. up' = up \o <<>>
    BY <1>4, <1>5
  <2> QED
    BY <1>1, <1>2, <1>4, <2>1, <2>2, CursorClient
<1>6. CASE /\ ShownOwner(s, e) \in Owners /\ Steps(s, ShownOwner(s, e))
           /\ OwnTerminal(s, ShownOwner(s, e).m) /\ Ends(ShownOwner(s, e).out, s)
  <2> DEFINE o == ShownOwner(s, e)
  <2>1. \A i \in DOMAIN o.out : ~Is(o.out[i], "launch", s) /\ \A r : About(o.out[i], r) => r = s
    BY <1>6, EndsAbout
  <2>2. Owned(s) /\ Agreed(s, up, ledger[s], meta[s], shell[s], journal[s]) =>
            Agreed(s, up \o o.out, ledger[s], o.m, o.f, journal'[s])
    BY AgreedPresent
  <2>3. o \in Owners /\ Steps(s, o) /\ OwnTerminal(s, o.m)
    BY <1>6
  <2> HIDE DEF o
  <2> QED
    BY <1>1, <1>2, <2>1, <2>2, <2>3, CursorSteps
<1>7. CASE e.kind \in {"refused", "impact"} /\ Gone(s)
  <2>1. ~Owned(s)
    BY <1>7, PresentOwned
  <2> QED
    BY <1>5, <1>7, <2>1 DEF Gone
<1>8. CASE s \in settled /\ meta' = meta /\ shell' = shell /\ settled' = settled /\ up' = up
  <2>1. ~Owned(s)
    BY <1>8 DEF PhaseInv
  <2> QED
    BY <1>5, <1>8, <2>1
<1> QED
  BY <1>1, <1>6, <1>7, <1>8

\* The progress of the shells in flight is told.
LEMMA AgreedPublish ==
    ASSUME Typed, Typed', HandInv, Publish, NEW s \in InFlight, Owned(s),
           Agreed(s, up, ledger[s], meta[s], shell[s], journal[s])
    PROVE  Agreed(s, up \o <<Batch>>, ledger[s], meta'[s], shell[s], journal[s])
<1> DEFINE l == ledger[s]
           m == meta[s]
           f == shell[s]
           j == journal[s]
           n == meta'[s]
           w == Batch
           v == up \o <<w>>
           age == Age(Owner(s))
<1>1. s \in Shots
  BY DEF InFlight
<1>2. /\ m \in Metas /\ f \in Shells /\ l.checked \in Ages /\ up \in Seq(Messages)
      /\ (m.terminal # None <=> Waits(up, "resolve", s))
      /\ m.deferred = "ahead" => f.segment = None
  BY <1>1, OwnedFacts
<1>3. /\ w \in Messages /\ Carries(w, s) /\ Told(w, s) = age /\ age \in Ages
      /\ n = [m EXCEPT !.queued = age]
  BY <1>1, PublishFacts DEF Typed
<1>4. age = AgeOf(m, f)
  BY <1>1, OwnerType DEF Age, AgeOf, Typed
<1>5. m.deferred = "no"
  <2>1. FrameBegun /\ f.segment # None /\ m # None
    BY DEF Publish, InFlight, Flying
  <2>2. m.deferred # "due"
    BY <1>1, <2>1 DEF FrameBegun
  <2>3. m.deferred \in {"no", "ahead", "due"}
    BY <1>2 DEF Metas
  <2> QED
    BY <1>2, <2>1, <2>2, <2>3
<1>6. m.base <= l.checked /\ (\A i \in DOMAIN j : j[i].checked <= l.checked)
      /\ Agreed(s, up, l, m, f, j)
  BY DEF Agreed
<1>7. Moves(w, s) /\ Tells(w, s) /\ ~Claims(w, s)
  BY <1>3 DEF Moves, Tells, Claims, Carries, Is
<1>8. <<w>> \in Seq(Messages) /\ Len(<<w>>) = 1 /\ DOMAIN <<w>> = {1} /\ <<w>>[1] = w
  BY <1>3, SingleFacts
<1> HIDE DEF l, m, f, j, n, w, age
<1>9. /\ n \in Metas /\ n.base = m.base /\ n.terminal = m.terminal /\ n.queued = age
      /\ n.deferred = m.deferred
  BY <1>2, <1>3 DEF Metas
<1>10. CASE m.terminal # None
  <2>1. \A i \in DOMAIN <<w>> : Tells(<<w>>[i], s) => Waits(up, "resolve", s)
    BY <1>2, <1>10
  <2>2. Agreed(s, up \o <<w>>, l, n, f, j)
    BY <1>2, <1>6, <1>8, <1>9, <1>10, <2>1, AgreedSame
  <2> QED
    BY <2>2 DEF l, n, f, j, w
<1>11. CASE m.terminal = None
  <2>1. AgeOf(n, f) = age /\ age \in Nat /\ AgeOf(m, f) <= Told(w, s)
    <3>1. AgeOf(n, f) = AgeOf(m, f)
      BY <1>9 DEF AgeOf
    <3>2. age \in Nat
      BY <1>3, AgesAreNumbers
    <3> QED
      BY <1>3, <1>4, <3>1, <3>2
  <2>2. /\ Grows(s, v, l.checked) /\ Based(s, v, l.checked)
        /\ \A i \in DOMAIN v : Moves(v[i], s) => Told(v[i], s) <= Told(w, s)
        /\ l.checked <= Told(w, s)
    BY <1>2, <1>3, <1>6, <1>7, <1>11, <2>1, AgreedTold
  <2>3. Len(v) = Len(up) + 1 /\ v[Len(up) + 1] = w /\ Len(up) \in Nat
    <3>1. /\ Len(v) = Len(up) + Len(<<w>>)
          /\ \A i \in DOMAIN <<w>> : v[Len(up) + i] = <<w>>[i]
      BY <1>2, <1>8, JoinedFacts
    <3> QED
      BY <1>2, <1>8, <3>1
  <2> HIDE DEF v
  <2>4. Reached(s, v, Len(v) + 1, l.checked, n.queued)
    <3>1. Len(up) + 1 \in 1..((Len(v) + 1) - 1)
      BY <2>3
    <3>2. n.queued <= Told(v[Len(up) + 1], s) /\ Moves(v[Len(up) + 1], s)
      BY <1>3, <1>7, <1>9, <2>1, <2>3
    <3> QED
      BY <3>1, <3>2 DEF Reached
  <2>5. Ahead(s, v, l, n, f)
    BY <1>3, <1>5, <1>9, <2>1, <2>2, <2>4 DEF Ahead
  <2>6. Agreed(s, v, l, n, f, j)
    BY <1>6, <1>9, <2>2, <2>5 DEF Agreed
  <2> QED
    BY <2>6 DEF v, l, n, f, j, w
<1> QED
  BY <1>10, <1>11

LEMMA CursorPublish ==
    ASSUME Typed, Typed', HandInv, CursorInv, Publish
    PROVE  CursorInv'
<1>1. /\ Batch \in Messages /\ up' = up \o <<Batch>> /\ shell' = shell
      /\ \A s \in Shots : /\ Carries(Batch, s) <=> s \in InFlight
                          /\ s \notin InFlight => meta'[s] = meta[s]
  BY PublishFacts DEF Typed
<1>2. UNCHANGED <<ledger, journal, count>>
  BY DEF Publish, serverVars
<1>3. /\ <<Batch>> \in Seq(Messages) /\ DOMAIN <<Batch>> = {1} /\ <<Batch>>[1] = Batch
  BY <1>1, SingleFacts
<1>4. Batch.type = "progress"
  BY DEF Batch
<1>5. \A s \in Shots : ~Waits(<<Batch>>, "launch", s)
  BY <1>3, <1>4 DEF Waits, Is
<1>6. ASSUME NEW s \in Shots, Owned(s),
             Agreed(s, up, ledger[s], meta[s], shell[s], journal[s])
      PROVE  Agreed(s, up \o <<Batch>>, ledger[s], meta'[s], shell'[s], journal'[s])
  <2>1. CASE s \in InFlight
    BY <1>1, <1>2, <1>6, <2>1, AgreedPublish
  <2>2. CASE s \notin InFlight
    <3>1. \A i \in DOMAIN <<Batch>> : ~Tells(<<Batch>>[i], s)
      BY <1>1, <1>3, <1>4, <2>2 DEF Tells, Moves, Is
    <3>2. Agreed(s, up \o <<Batch>>, ledger[s], meta[s], shell[s], journal[s])
      BY <1>3, <1>6, <3>1, AgreedRests
    <3> QED
      BY <1>1, <1>2, <2>2, <3>2
  <2> QED
    BY <2>1, <2>2
<1> QED
  BY <1>1, <1>2, <1>3, <1>5, <1>6, CursorClient

\* A snapshot restores a shell at the age the server has of it.
LEMMA CursorSnapshot ==
    ASSUME Typed, Typed', PhaseInv, HandInv, CursorInv, Snapshot
    PROVE  CursorInv'
<1>1. UNCHANGED <<ledger, journal, count>>
  BY SnapshotFacts DEF Typed, serverVars
<1>2. PICK out \in Seq(Messages) : up' = up \o out /\ Again(out)
  BY SnapshotFacts DEF Typed
<1>3. ASSUME NEW i \in DOMAIN out, NEW r
      PROVE  /\ ~Is(out[i], "launch", r)
             /\ Tells(out[i], r) => meta[r] # None /\ meta[r].terminal # None
  <2>1. PICK s \in Shots : /\ meta[s] # None /\ meta[s].terminal # None
                           /\ Is(out[i], "resolve", s)
    BY <1>2 DEF Again
  <2> QED
    BY <2>1, MessageKinds DEF Is, Tells, Moves, Carries
<1>4. \A r \in Shots : ~Waits(out, "launch", r)
  BY <1>3 DEF Waits
<1>5. ASSUME NEW s \in Shots, Owned(s),
             Agreed(s, up, ledger[s], meta[s], shell[s], journal[s])
      PROVE  Agreed(s, up \o out, ledger[s], meta'[s], shell'[s], journal'[s])
  <2> DEFINE l == ledger[s]
             m == meta[s]
             n == meta'[s]
             f == shell[s]
             g == shell'[s]
             j == journal[s]
  <2>1. /\ m \in Metas /\ f \in Shells /\ l.checked \in Ages /\ up \in Seq(Messages)
        /\ (m.terminal # None <=> Waits(up, "resolve", s))
        /\ Waits(up, "ricochet", s) => l.bounces = 0
    BY <1>5, OwnedFacts
  <2>2. /\ n \in Metas /\ n.terminal = m.terminal /\ n.deferred = m.deferred
        /\ n.queued = m.queued /\ n.base \in {m.base, Larger(m.base, l.checked)}
        /\ \/ g = f
           \/ /\ m.deferred = "due" /\ l.bounces = 1 /\ m.terminal = None
              /\ g = [Flies(f, 1) EXCEPT !.at = l.checked]
    BY <1>5, MetOwned
  <2>3. g \in Shells
    BY DEF Typed, ClientTyped
  <2>4. m.base <= l.checked /\ (\A i \in DOMAIN j : j[i].checked <= l.checked)
        /\ Agreed(s, up, l, m, f, j)
    BY <1>5 DEF Agreed
  <2>5. \A i \in DOMAIN out : Tells(out[i], s) => m.terminal # None
    BY <1>3
  <2> HIDE DEF l, m, n, f, g, j
  <2>6. n.base <= l.checked /\ m.base <= n.base /\ m.base \in Ages /\ n.base \in Ages
    <3>1. m.base \in Ages /\ m.base \in Nat /\ l.checked \in Nat /\ l.checked <= l.checked
      <4>1. m.base \in Ages
        BY <2>1, AgeOfFacts
      <4> QED
        BY <2>1, <4>1, AgeFacts
    <3>2. /\ Larger(m.base, l.checked) <= l.checked /\ m.base <= Larger(m.base, l.checked)
          /\ Larger(m.base, l.checked) \in Ages
      BY <2>1, <2>4, <3>1, LargerBounded, LargerFacts
    <3> DEFINE x == Larger(m.base, l.checked)
    <3> HIDE DEF x
    <3> QED
      BY <2>2, <2>4, <3>1, <3>2 DEF x
  <2>7. g = f \/ (g.at = l.checked /\ m.terminal = None /\ m.deferred = "due" /\ l.bounces = 1)
    <3>1. [Flies(f, 1) EXCEPT !.at = l.checked].at = l.checked
      BY <2>1, ShellFacts
    <3> QED
      BY <2>2, <3>1
  <2>8. f.at <= g.at /\ f.at \in Ages /\ g.at \in Ages
    <3>1. f.at \in Ages /\ g.at \in Ages /\ f.at <= f.at
      <4>1. f.at \in Ages /\ g.at \in Ages
        BY <2>1, <2>3, AgeOfFacts
      <4> QED
        BY <4>1, AgeFacts
    <3>2. CASE g.at = l.checked /\ m.terminal = None /\ m.deferred = "due" /\ l.bounces = 1
      BY <2>4, <3>1, <3>2 DEF Agreed, Ahead
    <3> QED
      BY <2>7, <3>1, <3>2
  <2>9. AgeOf(m, f) <= AgeOf(n, g)
    BY <2>6, <2>8, LargerBoth DEF AgeOf
  <2>10. g.at = f.at \/ (g.at <= l.checked /\ ~Waits(up, "ricochet", s))
    <3>1. l.checked <= l.checked
      BY <2>1, AgeFacts
    <3> QED
      BY <2>1, <2>7, <3>1
  <2>11. Agreed(s, up \o out, l, n, g, j)
    BY <2>1, <2>2, <2>3, <2>4, <2>5, <2>6, <2>9, <2>10, AgreedSame
  <2> QED
    BY <1>1, <2>11 DEF l, n, g, j
<1> QED
  BY <1>1, <1>2, <1>4, <1>5, CursorClient

\* A new shot is known to nobody but the owner, whose launch comes first.
LEMMA CursorFire ==
    ASSUME Typed, Typed', PhaseInv, HandInv, CursorInv, Fire
    PROVE  CursorInv'
<1>0. PICK s : s = count.fired + 1
  OBVIOUS
<1> DEFINE w == [type |-> "launch", shot |-> s]
           m == NewMeta(0, 0, TRUE)
           f == Flies(shell[s], 0)
<1>1. /\ s \in Shots /\ FiredOwner(s) \in Owners /\ Steps(s, FiredOwner(s))
      /\ OwnTerminal(s, FiredOwner(s).m) /\ w \in Messages
      /\ count'.fired = s /\ count'.refused = count.refused
  BY <1>0, FireFacts DEF Typed
<1>2. ledger' = ledger /\ journal' = journal
  BY DEF Fire, serverVars
<1>3. FiredOwner(s).m = m /\ FiredOwner(s).f = f /\ FiredOwner(s).out = <<w>>
  BY DEF FiredOwner
<1>4. up \in Seq(Messages) /\ count.fired \in Nat /\ Shots \subseteq Nat /\ shell[s] \in Shells
      /\ Unknown.checked = 0
  BY <1>1, ShellAssumption DEF Typed, ClientTyped, CountTyped, Shots, Unknown
<1>5. s > count.fired
  BY <1>0, <1>4
<1>6. Is(w, "launch", s)
  BY DEF Is
<1>7. m \in Metas /\ m.base = 0 /\ m.queued = 0 /\ m.deferred = "no"
  <2>1. m \in Metas
    BY AgesAreNumbers, NewMetaFacts
  <2> QED
    BY <2>1 DEF NewMeta
<1>8. f \in Shells
  BY <1>4, FliesFacts
<1> HIDE DEF w, m, f
<1>9. /\ up' = up \o <<w>> /\ meta'[s] = m /\ shell'[s] = f
      /\ \A r \in Shots : r # s => meta'[r] = meta[r] /\ shell'[r] = shell[r]
  BY <1>1, <1>3, StepsFacts DEF Typed
<1>10. Unfired(s, meta[s], shell[s], journal[s])
  BY <1>1, <1>5 DEF PhaseInv
<1>11. /\ <<w>> \in Seq(Messages) /\ DOMAIN <<w>> = {1} /\ <<w>>[1] = w
  BY <1>1, SingleFacts
<1>12. \A r : ~Tells(w, r) /\ (Is(w, "launch", r) => r = s)
  BY <1>6, MessageKinds DEF Tells, Moves, Is
<1>13. \A r \in Shots : Waits(up', "launch", r) <=> Waits(up, "launch", r) \/ r = s
  <2>1. \A r \in Shots : Waits(<<w>>, "launch", r) <=> r = s
    BY <1>6, <1>11, <1>12 DEF Waits
  <2> QED
    BY <1>4, <1>9, <1>11, <2>1, WaitsJoined
<1> SUFFICES ASSUME count'.refused = 0
             PROVE  /\ \A r \in Shots : ledger'[r].life # "refused"
                    /\ Introduced'
                    /\ \A r \in Shots : Owned(r)' =>
                          Agreed(r, up', ledger'[r], meta'[r], shell'[r], journal'[r])
  BY DEF CursorInv, Agreed, Grows, Based, Ahead, Early, Reached
<1>14. /\ \A r \in Shots : ledger[r].life # "refused"
       /\ Introduced
       /\ \A r \in Shots :
             Owned(r) => Agreed(r, up, ledger[r], meta[r], shell[r], journal[r])
  BY <1>1 DEF CursorInv
<1>15. Introduced'
  <2>1. ASSUME NEW r \in Shots, r <= count'.fired
        PROVE  ledger'[r].life # "none" \/ Waits(up', "launch", r)
    <3>1. r = s \/ r <= count.fired
      <4>1. r \in Nat
        BY <1>4
      <4>2. r <= s
        BY <1>1, <2>1
      <4> QED
        BY <1>0, <1>4, <4>1, <4>2
    <3> QED
      BY <1>2, <1>13, <1>14, <3>1 DEF Introduced
  <2> QED
    BY <2>1 DEF Introduced, Waits
<1>16. ASSUME NEW r \in Shots, r # s, Owned(r)'
       PROVE  Agreed(r, up', ledger'[r], meta'[r], shell'[r], journal'[r])
  <2>1. Owned(r)
    <3>1. ledger'[r].life = "live" \/ Waits(up', "launch", r)
      BY <1>16 DEF Owned, Waits
    <3> QED
      BY <1>2, <1>13, <1>16, <3>1 DEF Owned
  <2>2. \A i \in DOMAIN <<w>> : ~Tells(<<w>>[i], r)
    BY <1>11, <1>12
  <2>3. Agreed(r, up \o <<w>>, ledger[r], meta[r], shell[r], journal[r])
    BY <1>11, <1>14, <2>1, <2>2, AgreedRests
  <2> QED
    BY <1>2, <1>9, <1>16, <2>3
<1>17. Agreed(s, up', ledger'[s], meta'[s], shell'[s], journal'[s])
  <2> DEFINE v == up'
             l == ledger[s]
  <2>1. l.checked = 0 /\ journal[s] = <<>>
    BY <1>1, <1>4, <1>10 DEF Unfired, Typed, ServerTyped
  <2>2. \A i \in DOMAIN v : ~Tells(v[i], s)
    <3>1. \A i \in DOMAIN up : ~Tells(up[i], s)
      BY <1>10 DEF Unfired, About
    <3> QED
      BY <1>4, <1>9, <1>11, <1>12, <3>1, MovesJoined
  <2>3. 0 <= AgeOf(m, f) /\ DOMAIN <<>> = {}
    BY <1>7, <1>8, AgeOfFacts, AgesAreNumbers
  <2> HIDE DEF v, l
  <2>4. \A i \in DOMAIN v : ~Moves(v[i], s) /\ ~Claims(v[i], s) /\ ~Is(v[i], "ricochet", s)
    BY <2>2 DEF Tells, Moves, Claims
  <2>5. Grows(s, v, l.checked) /\ Based(s, v, l.checked)
    BY <2>2, <2>4 DEF Grows, Based
  <2>6. Ahead(s, v, l, m, f)
    BY <1>7, <2>1, <2>3, <2>4 DEF Ahead, Reached
  <2>7. Agreed(s, v, l, m, f, <<>>)
    BY <1>7, <2>1, <2>3, <2>5, <2>6 DEF Agreed
  <2> QED
    BY <1>2, <1>9, <2>1, <2>7 DEF v, l
<1> QED
  BY <1>14, <1>2, <1>15, <1>16, <1>17

\* The first message about a shot is on the age the server has of it.
LEMMA AgreedFirst ==
    ASSUME NEW u \in Seq(Messages), u # <<>>, NEW s, NEW l, NEW m, NEW f, NEW j,
           Agreed(s, u, l, m, f, j)
    PROVE  /\ Tells(Head(u), s) => l.checked <= Told(Head(u), s)
           /\ Claims(Head(u), s) => Head(u).base <= l.checked
<1>1. 1 \in DOMAIN u /\ Head(u) = u[1]
  BY TailFacts
<1>2. 1..(1 - 1) = {}
  OBVIOUS
<1>3. Early(s, u, 1)
  BY <1>2 DEF Early
<1>4. Grows(s, u, l.checked) /\ Based(s, u, l.checked)
  BY DEF Agreed
<1>5. Tells(u[1], s) => l.checked <= Told(u[1], s)
  BY <1>1, <1>3, <1>4 DEF Grows
<1>6. Claims(u[1], s) => u[1].base <= l.checked
  <2>1. Claims(u[1], s) => Reached(s, u, 1, l.checked, u[1].base)
    BY <1>1, <1>3, <1>4 DEF Based
  <2> QED
    BY <1>2, <2>1 DEF Reached
<1> QED
  BY <1>1, <1>5, <1>6

\* The server has read a message, and has the age it told.
LEMMA AgreedRead ==
    ASSUME NEW u \in Seq(Messages), u # <<>>, NEW s, NEW l, l.checked \in Ages, NEW n,
           NEW m \in Metas, NEW f \in Shells, NEW j, NEW k,
           Agreed(s, u, l, m, f, j), ~Is(Head(u), "resolve", s),
           n.checked = After(Head(u), s, l.checked),
           n.bounces = 1 => l.bounces = 1 \/ Is(Head(u), "ricochet", s),
           \A i \in DOMAIN k : k[i].checked = n.checked \/ \E h \in DOMAIN j : k[i] = j[h],
           \A i \in DOMAIN j : j[i].checked \in Ages
    PROVE  Agreed(s, Tail(u), n, m, f, k)
<1> DEFINE w == Head(u)
           v == Tail(u)
           after == n.checked
           checked == l.checked
           age == AgeOf(m, f)
<1>1. /\ Grows(s, u, checked) /\ Based(s, u, checked) /\ m.base <= checked
      /\ \A i \in DOMAIN j : j[i].checked <= checked
      /\ m.terminal = None => Ahead(s, u, l, m, f)
  BY DEF Agreed
<1>2. /\ after \in Ages /\ checked <= after
      /\ Grows(s, v, after) /\ Based(s, v, after)
      /\ \A a \in Ages : Reached(s, u, Len(u) + 1, checked, a) =>
            Reached(s, v, Len(v) + 1, after, a)
  BY <1>1, SaidTail
<1>3. /\ v \in Seq(Messages) /\ w \in Messages /\ 1 \in DOMAIN u /\ w = u[1]
      /\ \A i \in DOMAIN v : i + 1 \in DOMAIN u /\ v[i] = u[i + 1]
  BY TailFacts
<1>4. after \in Nat /\ checked \in Nat /\ m.base \in Nat /\ age \in Nat /\ f.at \in Nat
  BY <1>2, AgeOfFacts, AgesAreNumbers
<1>5. after = IF Moves(w, s) THEN Told(w, s) ELSE checked
  BY DEF After
<1>6. m.queued \in Ages
  BY AgeOfFacts
<1> HIDE DEF w, v, after, checked, age
<1>7. m.base <= after
  BY <1>1, <1>2, <1>4
<1>8. ASSUME NEW i \in DOMAIN k
      PROVE  k[i].checked <= after
  <2>1. CASE k[i].checked = after
    BY <1>4, <2>1
  <2>2. CASE \E h \in DOMAIN j : k[i] = j[h]
    <3>1. PICK h \in DOMAIN j : k[i] = j[h]
      BY <2>2
    <3>2. j[h].checked <= checked /\ j[h].checked \in Nat
      BY <1>1, AgesAreNumbers
    <3> QED
      BY <1>2, <1>4, <3>1, <3>2
  <2> QED
    BY <2>1, <2>2 DEF after
<1>9. ASSUME m.terminal = None
      PROVE  Ahead(s, v, n, m, f)
  <2>1. /\ checked <= age
        /\ \A i \in DOMAIN u : Moves(u[i], s) => Told(u[i], s) <= age
        /\ Reached(s, u, Len(u) + 1, checked, m.queued)
        /\ m.deferred # "no" =>
              /\ l.bounces = 1 => f.at <= checked
              /\ \A i \in DOMAIN u : Is(u[i], "ricochet", s) => f.at <= u[i].time
    BY <1>1, <1>9 DEF Ahead, age, checked
  <2>2. after <= age
    BY <1>3, <1>5, <2>1
  <2>3. \A i \in DOMAIN v : Moves(v[i], s) => Told(v[i], s) <= age
    BY <1>3, <2>1
  <2>4. Reached(s, v, Len(v) + 1, after, m.queued)
    BY <1>2, <1>6, <2>1
  <2>5. ASSUME m.deferred # "no"
        PROVE  /\ n.bounces = 1 => f.at <= after
               /\ \A i \in DOMAIN v : Is(v[i], "ricochet", s) => f.at <= v[i].time
    <3>1. \A i \in DOMAIN v : Is(v[i], "ricochet", s) => f.at <= v[i].time
      BY <1>3, <2>1, <2>5
    <3>2. l.bounces = 1 => f.at <= after
      BY <1>2, <1>4, <2>1, <2>5
    <3>3. Is(w, "ricochet", s) => f.at <= after
      <4>1. Is(w, "ricochet", s) => Moves(w, s) /\ Told(w, s) = w.time
        BY MessageKinds DEF Moves
      <4> QED
        BY <1>3, <1>5, <2>1, <2>5, <4>1
    <3> QED
      BY <3>1, <3>2, <3>3 DEF w
  <2> QED
    BY <2>2, <2>3, <2>4, <2>5 DEF Ahead, after, age
<1> QED
  BY <1>2, <1>7, <1>8, <1>9 DEF Agreed, v, after

\* What the server does of a shot when it reads a message, as long as it has
\* refused no launch: nothing; it admits the shot; it has the age it is told;
\* or the shell is over, as its owner says.
Skips(m, s) ==
    /\ ledger'[s] = ledger[s] /\ journal'[s] = journal[s]
    /\ ~Is(m, "launch", s)
    /\ About(m, s) => ledger[s].life # "live"
Introduces(m, s) ==
    /\ Is(m, "launch", s) /\ ledger'[s] = Launched
    /\ journal'[s] = Append(journal[s], [kind |-> "launch", checked |-> 0])
Believes(m, s) ==
    /\ Moves(m, s) /\ ledger[s].life = "live" /\ ledger'[s].life = "live"
    /\ ledger'[s].checked = Told(m, s)
    /\ ledger'[s].bounces = ledger[s].bounces \/ Is(m, "ricochet", s)
    /\ \/ journal'[s] = journal[s]
       \/ \E e : e.checked = Told(m, s) /\ journal'[s] = Append(journal[s], e)
Buries(m, s) == Is(m, "resolve", s) /\ ledger[s].life = "live" /\ ledger'[s].life = "over"

LEMMA ReceivesLaunch ==
    ASSUME Typed, SeriesTyped, NEW m \in Messages, m.type = "launch", Launch(m),
           count.refused = 0, count'.refused = 0
    PROVE  \A s \in Shots : Skips(m, s) \/ Introduces(m, s)
<1>1. /\ m.shot \in Shots
      /\ \A r \in Shots : r # m.shot => ledger'[r] = ledger[r] /\ journal'[r] = journal[r]
      /\ \/ /\ ledger'[m.shot] = Launched
            /\ journal'[m.shot] = Append(journal[m.shot], [kind |-> "launch", checked |-> 0])
         \/ count'.refused > 0
  BY LaunchFacts DEF Typed
<1>2. Is(m, "launch", m.shot)
  BY DEF Is
<1>3. \A r : r # m.shot => ~About(m, r) /\ ~Is(m, "launch", r)
  BY <1>2, MessageKinds DEF Is
<1>4. ASSUME NEW s \in Shots, s # m.shot
      PROVE  Skips(m, s)
  BY <1>1, <1>3, <1>4 DEF Skips
<1>5. Introduces(m, m.shot)
  BY <1>1, <1>2 DEF Introduces
<1> QED
  BY <1>4, <1>5

LEMMA ReceivesProgress ==
    ASSUME Typed, PhaseInv, CursorInv, NEW m \in Messages, m.type = "progress", Progress(m),
           up # <<>>, m = Head(up), count.refused = 0
    PROVE  \A s \in Shots : Skips(m, s) \/ Believes(m, s)
<1>1. up \in Seq(Messages) /\ 1 \in DOMAIN up /\ up[1] = m
  BY TailFacts DEF Typed, ClientTyped
<1>2. /\ journal' = journal
      /\ \A s \in Shots : Carries(m, s) => m.cursors[s] \in Ages
      /\ \/ /\ ledger' = ledger
            /\ \E s \in Shots : Carries(m, s) /\ ledger[s].life = "none"
         \/ \A s \in Shots :
              ledger'[s] = IF Carries(m, s) /\ ledger[s].life = "live"
                           THEN Progressed(m, s) ELSE ledger[s]
  BY ProgressFacts DEF Typed
<1>3. \A s \in Shots : ~(Carries(m, s) /\ ledger[s].life = "none")
  <2> SUFFICES ASSUME NEW s \in Shots, Carries(m, s), ledger[s].life = "none"
               PROVE  FALSE
    OBVIOUS
  <2>1. About(m, s)
    BY DEF About, Tells, Moves
  <2>2. s <= count.fired
    BY <1>1, <2>1, AboutFired
  <2>3. Waits(up, "launch", s)
    BY <2>2 DEF CursorInv, Introduced
  <2>4. LaunchedFirst(s, up)
    BY DEF PhaseInv
  <2>5. Is(m, "launch", s)
    BY <1>1, <2>1, <2>3, <2>4, FirstTail
  <2> QED
    BY <2>5 DEF Is
<1>4. ASSUME NEW s \in Shots
      PROVE  Skips(m, s) \/ Believes(m, s)
  <2>1. ledger'[s] = IF Carries(m, s) /\ ledger[s].life = "live"
                     THEN Progressed(m, s) ELSE ledger[s]
    BY <1>2, <1>3
  <2>2. ~Is(m, "launch", s) /\ ~Is(m, "ricochet", s) /\ ~Is(m, "resolve", s)
    BY DEF Is
  <2>3. CASE Carries(m, s) /\ ledger[s].life = "live"
    <3> DEFINE l == ledger[s]
               c == m.cursors[s]
    <3>1. l.checked <= c /\ c \in Ages /\ c = Told(m, s) /\ Moves(m, s)
      <4>1. Tells(m, s) /\ Moves(m, s) /\ c = Told(m, s)
        BY <2>3 DEF Tells, Moves, Told
      <4>2. Agreed(s, up, ledger[s], meta[s], shell[s], journal[s])
        BY <2>3 DEF CursorInv, Owned
      <4>3. l.checked <= Told(m, s)
        BY <1>1, <4>1, <4>2, AgreedFirst
      <4> QED
        BY <1>2, <2>3, <4>1, <4>3
    <3>2. ledger'[s] = [l EXCEPT !.checked = Larger(l.checked, c)] /\ l \in Entries
      BY <2>1, <2>3 DEF Progressed, Typed, ServerTyped
    <3>3. l.life = "live"
      BY <2>3
    <3> HIDE DEF l, c
    <3>4. Larger(l.checked, c) = c
      <4>1. l.checked \in Ages
        BY <3>2 DEF Entries
      <4>2. l.checked \in Nat /\ c \in Nat
        BY <3>1, <4>1, AgesAreNumbers
      <4> QED
        BY <3>1, <4>2 DEF Larger
    <3>5. ledger'[s].life = "live" /\ ledger'[s].checked = c /\ ledger'[s].bounces = l.bounces
      BY <3>2, <3>3, <3>4 DEF Entries
    <3> QED
      BY <1>2, <2>3, <3>1, <3>5 DEF Believes, l
  <2>4. CASE ~(Carries(m, s) /\ ledger[s].life = "live")
    <3>1. ledger'[s] = ledger[s] /\ journal'[s] = journal[s]
      BY <1>2, <2>1, <2>4
    <3>2. About(m, s) => ledger[s].life # "live"
      BY <2>2, <2>4 DEF About, Tells, Moves
    <3> QED
      BY <2>2, <3>1, <3>2 DEF Skips
  <2> QED
    BY <2>3, <2>4
<1> QED
  BY <1>4

\* A claim about a live shell is believed.
LEMMA ClaimBelieved ==
    ASSUME Typed, CursorInv, NEW m \in Messages, up # <<>>, m = Head(up), count.refused = 0,
           Claims(m, m.shot), m.shot \in Shots, ledger[m.shot].life = "live"
    PROVE  Believed(m)
<1> DEFINE s == m.shot
<1>1. Agreed(s, up, ledger[s], meta[s], shell[s], journal[s])
  BY DEF CursorInv, Owned
<1>2. up \in Seq(Messages)
  BY DEF Typed, ClientTyped
<1>3. Tells(m, s) /\ Told(m, s) = m.time
  BY MessageKinds DEF Claims, Tells, Moves
<1>4. ledger[s].checked <= m.time /\ m.base <= ledger[s].checked
  BY <1>1, <1>2, <1>3, AgreedFirst
<1> QED
  BY <1>4 DEF Believed

LEMMA ReceivesRicochet ==
    ASSUME Typed, SeriesTyped, PhaseInv, HandInv, CursorInv, NEW m \in Messages,
           m.type = "ricochet", Ricochet(m), up # <<>>, m = Head(up), count.refused = 0
    PROVE  \A s \in Shots : Skips(m, s) \/ Believes(m, s)
<1>1. /\ m.shot \in Shots
      /\ \A r \in Shots : r # m.shot => ledger'[r] = ledger[r] /\ journal'[r] = journal[r]
      /\ \/ /\ ledger[m.shot].life # "live" \/ ledger[m.shot].bounces = 1
            /\ ledger'[m.shot] = ledger[m.shot] /\ journal'[m.shot] = journal[m.shot]
         \/ ledger[m.shot].life = "live" /\ ~Believed(m) /\ End(m.shot, "refused")
         \/ /\ ledger[m.shot].life = "live" /\ Believed(m) /\ ledger'[m.shot] = Bounced(m)
            /\ Bounced(m).life = "live" /\ Bounced(m).checked = m.time /\ Bounced(m).bounces = 1
            /\ journal'[m.shot] =
                  Append(journal[m.shot], [kind |-> "ricochet", checked |-> m.time])
  BY RicochetFacts DEF Typed
<1>2. Is(m, "ricochet", m.shot)
  BY DEF Is
<1>3. \A r : ~Is(m, "launch", r) /\ (r # m.shot => ~About(m, r))
  BY <1>2, MessageKinds
<1>4. Claims(m, m.shot) /\ Moves(m, m.shot) /\ Told(m, m.shot) = m.time
  BY <1>2, MessageKinds DEF Claims, Moves
<1>5. ledger[m.shot].life = "live" => Believed(m)
  BY <1>1, <1>4, ClaimBelieved
<1>6. ledger[m.shot].life = "live" => ledger[m.shot].bounces = 0
  <2>1. up \in Seq(Messages)
    BY DEF Typed, ClientTyped
  <2>2. Waits(up, "ricochet", m.shot)
    BY <1>2, <2>1, WaitsTail
  <2> QED
    BY <1>1, <2>2, OwnedFacts DEF Owned
<1>7. ASSUME NEW s \in Shots, s # m.shot
      PROVE  Skips(m, s)
  BY <1>1, <1>3, <1>7 DEF Skips
<1>8. Skips(m, m.shot) \/ Believes(m, m.shot)
  <2>1. CASE ledger[m.shot].life # "live"
    BY <1>1, <1>3, <2>1 DEF Skips
  <2>2. CASE ledger[m.shot].life = "live"
    <3>1. /\ ledger'[m.shot].life = "live" /\ ledger'[m.shot].checked = m.time
          /\ journal'[m.shot] =
                  Append(journal[m.shot], [kind |-> "ricochet", checked |-> m.time])
      <4>1. Believed(m) /\ ledger[m.shot].bounces # 1
        BY <1>5, <1>6, <2>2
      <4>2. ledger'[m.shot] = Bounced(m) /\ Bounced(m).life = "live" /\ Bounced(m).checked = m.time
            /\ journal'[m.shot] =
                  Append(journal[m.shot], [kind |-> "ricochet", checked |-> m.time])
        BY <1>1, <2>2, <4>1, Zenon
      <4> QED
        BY <4>2, Zenon
    <3>2. [kind |-> "ricochet", checked |-> m.time].checked = Told(m, m.shot)
      BY <1>4
    <3> QED
      BY <1>2, <1>4, <2>2, <3>1, <3>2 DEF Believes
  <2> QED
    BY <2>1, <2>2
<1> QED
  BY <1>7, <1>8

LEMMA ReceivesResolve ==
    ASSUME Typed, SeriesTyped, CursorInv, NEW m \in Messages,
           m.type = "resolve", Resolve(m), up # <<>>, m = Head(up), count.refused = 0
    PROVE  \A s \in Shots : Skips(m, s) \/ Buries(m, s)
<1>1. /\ m.shot \in Shots
      /\ \A r \in Shots : r # m.shot => ledger'[r] = ledger[r] /\ journal'[r] = journal[r]
      /\ \/ /\ ledger[m.shot].life # "live"
            /\ ledger'[m.shot] = ledger[m.shot] /\ journal'[m.shot] = journal[m.shot]
         \/ ledger[m.shot].life = "live" /\ ~Believed(m) /\ End(m.shot, "refused")
         \/ /\ ledger[m.shot].life = "live" /\ Believed(m)
            /\ \E outcome \in {"pierced", "stopped"} : End(m.shot, outcome)
  BY ResolveFacts DEF Typed
<1>2. Is(m, "resolve", m.shot)
  BY DEF Is
<1>3. \A r : ~Is(m, "launch", r) /\ (r # m.shot => ~About(m, r))
  BY <1>2, MessageKinds
<1>4. ledger[m.shot].life = "live" => Believed(m)
  BY <1>1, <1>2, ClaimBelieved DEF Claims
<1>5. ASSUME NEW s \in Shots, s # m.shot
      PROVE  Skips(m, s)
  BY <1>1, <1>3, <1>5 DEF Skips
<1>6. Skips(m, m.shot) \/ Buries(m, m.shot)
  <2>1. CASE ledger[m.shot].life # "live"
    BY <1>1, <1>3, <2>1 DEF Skips
  <2>2. CASE ledger[m.shot].life = "live"
    <3>1. PICK outcome \in {"pierced", "stopped"} : End(m.shot, outcome)
      BY <1>1, <1>4, <2>2
    <3>2. ledger'[m.shot] = Tombstone(outcome)
      BY <1>1, <3>1, EndFacts DEF Typed
    <3>3. Tombstone(outcome).life \in {"over", "refused"}
          /\ (Tombstone(outcome).life = "refused" <=> outcome = "refused")
      BY EntryFacts
    <3> QED
      BY <1>2, <2>2, <3>2, <3>3 DEF Buries
  <2> QED
    BY <2>1, <2>2
<1> QED
  BY <1>5, <1>6

LEMMA CursorReceive ==
    ASSUME Typed, Typed', SeriesTyped, PhaseInv, HandInv, CursorInv, Receive
    PROVE  CursorInv'
<1>0. PICK w : w = Head(up)
  OBVIOUS
<1>1. /\ up # <<>> /\ w \in Messages /\ up' = Tail(up) /\ meta' = meta /\ shell' = shell
      /\ \/ w.type = "launch" /\ Launch(w)
         \/ w.type = "progress" /\ Progress(w)
         \/ w.type = "ricochet" /\ Ricochet(w)
         \/ w.type = "resolve" /\ Resolve(w)
  BY <1>0, ReceiveFacts
<1>2. up \in Seq(Messages) /\ count.refused \in Nat /\ count'.fired = count.fired
  BY PhaseReceive DEF Typed, ClientTyped, CountTyped
<1> SUFFICES ASSUME count'.refused = 0
             PROVE  /\ \A s \in Shots : ledger'[s].life # "refused"
                    /\ Introduced'
                    /\ \A s \in Shots : Owned(s)' =>
                          Agreed(s, up', ledger'[s], meta'[s], shell'[s], journal'[s])
  BY DEF CursorInv, Agreed, Grows, Based, Ahead, Early, Reached
<1>3. count.refused = 0
  <2>1. CASE w.type = "launch" /\ Launch(w)
    BY <1>1, <2>1, LaunchFacts DEF Typed
  <2>2. CASE w.type # "launch"
    BY <1>1, <2>2 DEF Progress, Ricochet, Resolve
  <2> QED
    BY <1>1, <2>1, <2>2
<1>4. /\ \A s \in Shots : ledger[s].life # "refused"
      /\ Introduced
      /\ \A s \in Shots :
            Owned(s) => Agreed(s, up, ledger[s], meta[s], shell[s], journal[s])
  BY <1>3 DEF CursorInv
<1>5. \A s \in Shots : Skips(w, s) \/ Introduces(w, s) \/ Believes(w, s) \/ Buries(w, s)
  BY <1>0, <1>1, <1>3, ReceivesLaunch, ReceivesProgress, ReceivesRicochet, ReceivesResolve
<1>6. Launched.life = "live" /\ Launched.checked = 0 /\ Launched.bounces = 0 /\ Unknown.checked = 0
  BY EntryFacts
<1>7. ASSUME NEW s \in Shots
      PROVE  ledger'[s].life # "refused"
  BY <1>4, <1>5, <1>6 DEF Skips, Introduces, Believes, Buries
<1>8. Introduced'
  <2>1. ASSUME NEW s \in Shots, s <= count'.fired
        PROVE  ledger'[s].life # "none" \/ Waits(up', "launch", s)
    <3>1. ledger[s].life # "none" \/ Waits(up, "launch", s)
      BY <1>2, <1>4, <2>1 DEF Introduced
    <3>2. ledger[s].life # "none" => ledger'[s].life # "none"
      BY <1>5, <1>6 DEF Skips, Introduces, Believes, Buries
    <3>3. Is(w, "launch", s) => ledger'[s].life # "none"
      BY <1>5, <1>6, MessageKinds DEF Skips, Introduces, Believes, Buries, Moves
    <3>4. Waits(up, "launch", s) <=> Is(w, "launch", s) \/ Waits(up', "launch", s)
      BY <1>0, <1>1, <1>2, WaitsTail
    <3> QED
      BY <3>1, <3>2, <3>3, <3>4
  <2> QED
    BY <2>1 DEF Introduced, Waits
<1>9. ASSUME NEW s \in Shots, Owned(s)'
      PROVE  Agreed(s, up', ledger'[s], meta'[s], shell'[s], journal'[s])
  <2> DEFINE l == ledger[s]
             n == ledger'[s]
             m == meta[s]
             f == shell[s]
             j == journal[s]
             k == journal'[s]
  <2>1. /\ Owned(s)
        /\ About(w, s) => n.life = "live"
    <3>1. n.life = "live" => l.life = "live" \/ Is(w, "launch", s)
      BY <1>5 DEF Skips, Introduces, Believes, Buries
    <3> QED
      BY <1>0, <1>1, <1>9, <3>1, OwnedBefore
  <2>2. /\ m \in Metas /\ f \in Shells /\ l \in Entries /\ l.checked \in Ages
    BY <2>1, OwnedFacts
  <2>3. Agreed(s, up, l, m, f, j)
    BY <1>4, <2>1
  <2>4. j \in Seq(Events) /\ \A i \in DOMAIN j : j[i].checked \in Ages
    <3>1. j \in Seq(Events)
      BY DEF Typed, ServerTyped
    <3>2. \A i \in DOMAIN j : j[i] \in Events
      BY <3>1
    <3> QED
      BY <3>1, <3>2 DEF Events
  <2>5. l.life = "none" => l.checked = 0 /\ l.bounces = 0
    BY EntryFacts DEF Typed, ServerTyped
  <2>6. Is(w, "launch", s) => l.life = "none"
    <3>1. Is(w, "launch", s) => Waits(up, "launch", s)
      BY <1>0, <1>1, <1>2, WaitsTail
    <3> QED
      BY <3>1 DEF PhaseInv
  <2>7. ~Is(w, "resolve", s)
    <3> SUFFICES ASSUME Is(w, "resolve", s) PROVE FALSE
      OBVIOUS
    <3>1. About(w, s) /\ ~Is(w, "launch", s) /\ ~Moves(w, s)
      BY MessageKinds DEF About, Tells, Moves
    <3> QED
      BY <1>5, <2>1, <3>1 DEF Skips, Introduces, Believes, Buries
  <2>8. /\ n.checked = After(w, s, l.checked)
        /\ n.bounces = 1 => l.bounces = 1 \/ Is(w, "ricochet", s)
    <3>1. CASE Skips(w, s)
      <4>1. n = l /\ ~About(w, s)
        BY <2>1, <3>1 DEF Skips
      <4> QED
        BY <4>1 DEF After, About, Tells
    <3>2. CASE Introduces(w, s)
      <4>1. n = Launched /\ Is(w, "launch", s)
        BY <3>2 DEF Introduces
      <4>2. ~Moves(w, s)
        BY <4>1, MessageKinds DEF Moves
      <4> QED
        BY <1>6, <2>5, <2>6, <4>1, <4>2 DEF After
    <3>3. CASE Believes(w, s)
      BY <3>3 DEF Believes, After
    <3>4. CASE Buries(w, s)
      BY <2>7, <3>4 DEF Buries
    <3> QED
      BY <1>5, <3>1, <3>2, <3>3, <3>4
  <2>9. \A i \in DOMAIN k : k[i].checked = n.checked \/ \E h \in DOMAIN j : k[i] = j[h]
    <3>1. k = j \/ \E e : e.checked = n.checked /\ k = Append(j, e)
      <4>1. CASE Introduces(w, s)
        <5>1. [kind |-> "launch", checked |-> 0].checked = n.checked
          BY <1>6, <4>1 DEF Introduces
        <5> QED
          BY <4>1, <5>1 DEF Introduces
      <4>2. CASE Skips(w, s) \/ Believes(w, s)
        BY <4>2 DEF Skips, Believes
      <4> QED
        BY <1>5, <2>7, <4>1, <4>2 DEF Buries
    <3> HIDE DEF k, j, n
    <3>2. CASE k = j
      BY <3>2
    <3>3. CASE \E e : e.checked = n.checked /\ k = Append(j, e)
      <4>1. PICK e : e.checked = n.checked /\ k = Append(j, e)
        BY <3>3
      <4>2. \A i \in DOMAIN k : (i \in DOMAIN j /\ k[i] = j[i]) \/ k[i] = e
        BY <2>4, <4>1
      <4> QED
        BY <4>1, <4>2
    <3> QED
      BY <3>1, <3>2, <3>3
  <2> HIDE DEF l, n, m, f, j, k
  <2>10. Agreed(s, Tail(up), n, m, f, k)
    BY <1>0, <1>1, <1>2, <2>2, <2>3, <2>4, <2>7, <2>8, <2>9, AgreedRead
  <2> QED
    BY <1>1, <2>10 DEF n, m, f, k
<1> QED
  BY <1>7, <1>8, <1>9

\* A shell that the server itself ends is not refused.
LEMMA CursorExpire ==
    ASSUME Typed, Typed', SeriesTyped, PhaseInv, HandInv, CursorInv, Expire
    PROVE  CursorInv'
<1>1. /\ meta' = meta /\ shell' = shell /\ up' = up
      /\ count'.fired = count.fired /\ count'.refused = count.refused
      /\ \E s \in Live : End(s, "expired")
  BY ExpireFacts
<1>2. PICK s \in Live : End(s, "expired")
  BY <1>1
<1>3. s \in Shots /\ ledger[s].life = "live"
  BY DEF Live
<1>4. /\ ledger'[s] = Tombstone("expired")
      /\ \A r \in Shots : r # s => ledger'[r] = ledger[r] /\ journal'[r] = journal[r]
  BY <1>2, <1>3, EndFacts DEF Typed
<1>5. ledger'[s].life = "over"
  BY <1>4, EntryFacts
<1>6. ~Waits(up, "launch", s)
  BY <1>3 DEF PhaseInv
<1> SUFFICES ASSUME count'.refused = 0
             PROVE  /\ \A r \in Shots : ledger'[r].life # "refused"
                    /\ Introduced'
                    /\ \A r \in Shots : Owned(r)' =>
                          Agreed(r, up', ledger'[r], meta'[r], shell'[r], journal'[r])
  BY DEF CursorInv, Agreed, Grows, Based, Ahead, Early, Reached
<1>7. /\ \A r \in Shots : ledger[r].life # "refused"
      /\ Introduced
      /\ \A r \in Shots :
            Owned(r) => Agreed(r, up, ledger[r], meta[r], shell[r], journal[r])
  BY <1>1 DEF CursorInv
<1>8. \A r \in Shots : ledger'[r].life # "refused"
  BY <1>4, <1>5, <1>7
<1>9. Introduced'
  BY <1>1, <1>4, <1>5, <1>7 DEF Introduced, Waits
<1>10. ASSUME NEW r \in Shots, Owned(r)'
       PROVE  Agreed(r, up', ledger'[r], meta'[r], shell'[r], journal'[r])
  <2>1. r # s /\ (ledger'[r].life = "live" \/ Waits(up, "launch", r))
    BY <1>1, <1>5, <1>6, <1>10 DEF Owned, Waits
  <2>2. Owned(r)
    BY <1>4, <2>1 DEF Owned
  <2> QED
    BY <1>1, <1>4, <1>7, <2>1, <2>2
<1> QED
  BY <1>8, <1>9, <1>10

LEMMA CursorStutter ==
    ASSUME CursorInv, UNCHANGED vars
    PROVE  CursorInv'
<1>1. /\ ledger' = ledger /\ meta' = meta /\ shell' = shell /\ journal' = journal /\ up' = up
      /\ count' = count
  BY DEF vars, serverVars, clientVars
<1> QED
  BY <1>1 DEF CursorInv, Introduced, Waits, Owned, Agreed, Grows, Based, Ahead, Early, Reached

LEMMA CursorStep ==
    ASSUME Typed, Typed', SeriesTyped, PhaseInv, HandInv, CursorInv, [Next]_vars
    PROVE  CursorInv'
<1>1. CASE UNCHANGED vars
  BY <1>1, CursorStutter
<1>2. ASSUME NEW s \in Shots, Owning(s)
      PROVE  CursorInv'
  BY <1>2, CursorAdvance, CursorHit, CursorBounce, CursorDue, CursorAdmit, CursorPresent
     DEF Owning
<1>3. CASE Receive \/ Expire
  BY <1>3, CursorReceive, CursorExpire
<1>4. CASE Fire \/ Publish \/ Snapshot
  BY <1>4, CursorFire, CursorPublish, CursorSnapshot
<1> QED
  BY <1>1, <1>2, <1>3, <1>4 DEF Next

LEMMA CursorBegins == Init => CursorInv
<1> SUFFICES ASSUME Init
             PROVE  CursorInv
  OBVIOUS
<1>1. /\ up = <<>> /\ count.fired = 0
      /\ \A s \in Shots : ledger[s].life = "none"
  BY DEF Init, Unknown
<1>2. \A s \in Shots : ~Owned(s) /\ ~(s <= count.fired)
  <2>1. \A s \in Shots : s \in Nat /\ s > 0
    BY ShellAssumption DEF Shots
  <2> QED
    BY <1>1, <2>1 DEF Owned, Waits
<1> QED
  BY <1>1, <1>2 DEF CursorInv, Introduced

LEMMA CursorBelieves == Typed /\ CursorInv => OwnerIsBelieved
  BY DEF CursorInv, OwnerIsBelieved, Typed, CountTyped

LEMMA BelievedStep ==
    Typed /\ SeriesTyped /\ PhaseInv /\ HandInv /\ CursorInv /\ [Next]_vars => CursorInv'
  BY TypedStep, CursorStep

\* Unless it has refused one of the owner's launches, the server never retires
\* a shell because it disbelieves its owner: each ricochet and each terminal is
\* told on progress the server has by then, and is not older than it
\* (resolve_projectile, ricochet_projectile: cursor compare-and-swap).
THEOREM OwnersAreBelieved == Spec => []OwnerIsBelieved
<1>1. Init => SeriesInit
  BY DEF Init
<1>2. SeriesInv => SeriesTyped
  BY DEF SeriesInv
<1> QED
  BY <1>1, <1>2, SeriesBegins, SeriesStep, LedgerStep, TrackedBegins, TrackedStep,
     CursorBegins, BelievedStep, CursorBelieves, PTL
     DEF Spec
==============================================================================
