------------------------- MODULE ResultReceiptsProofs -------------------------
(***************************************************************************)
(* Proofs about ResultReceipts for any accounts, limits and bounds, the    *)
(* size of the garage's journal included: what is banked twice was pushed  *)
(* out of a full journal by as many other awards (JournalInv).             *)
(***************************************************************************)
EXTENDS ResultReceipts, FunctionTheorems, FiniteSetTheorems, SequenceTheorems,
        WellFoundedInduction, TLAPS

----------------------------------------------------------------------------
(* Books: sequences of receipts. *)

\* A set of naturals has a smallest element.
LEMMA Smallest ==
    ASSUME NEW T \in SUBSET Nat, T # {}
    PROVE  \E i \in T : \A j \in T : i <= j
<1> DEFINE R == OpToRel(<, Nat)
<1>1. IsWellFoundedOn(R, Nat)
  BY NatLessThanWellFounded
<1>2. PICK x \in T : \A y \in T : <<y, x>> \notin R
  <2> HIDE DEF R
  <2> QED
    BY <1>1, WFMin
<1>3. \A y \in T : <<y, x>> \notin R => ~(y < x)
  BY DEF OpToRel
<1> HIDE DEF R
<1>4. \A y \in T : ~(y < x)
  BY <1>2, <1>3
<1> QED
  BY <1>4

\* What is looked up in a book is in it.
LEMMA FirstOfBook ==
    ASSUME NEW book \in Seq(Receipts), NEW rs
    PROVE  FirstOf(book, rs) \in (Values(book) \cap rs) \cup {None}
<1> DEFINE at == {i \in 1..Len(book) : book[i] \in rs}
<1>1. CASE at = {}
  BY <1>1 DEF FirstOf
<1>2. CASE at # {}
  <2>1. \E i \in at : \A j \in at : i <= j
    <3>1. at \in SUBSET Nat
      OBVIOUS
    <3> HIDE DEF at
    <3> QED
      BY <1>2, <3>1, Smallest
  <2> DEFINE k == CHOOSE i \in at : \A j \in at : i <= j
  <2>2. k \in at
    BY <2>1
  <2>3. FirstOf(book, rs) = book[k]
    BY <1>2 DEF FirstOf
  <2> QED
    BY <2>2, <2>3 DEF Values
<1> QED
  BY <1>1, <1>2

\* The values of a book are receipts.
LEMMA ValuesType ==
    ASSUME NEW book \in Seq(Receipts)
    PROVE  Values(book) \subseteq Receipts
  BY DEF Values

\* A book that grows by a row.
LEMMA AppendBook ==
    ASSUME NEW S, NEW s \in Seq(S), NEW x \in S
    PROVE  /\ Append(s, x) \in Seq(S)
           /\ Values(Append(s, x)) = Values(s) \cup {x}
           /\ Len(Append(s, x)) = Len(s) + 1
<1>1. /\ Append(s, x) \in Seq(S)
      /\ Len(Append(s, x)) = Len(s) + 1
      /\ \A i \in 1..Len(s) : Append(s, x)[i] = s[i]
      /\ Append(s, x)[Len(s) + 1] = x
  BY AppendProperties
<1>2. Len(s) \in Nat
  BY LenProperties
<1>3. 1..(Len(s) + 1) = (1..Len(s)) \cup {Len(s) + 1}
  BY <1>2
<1> QED
  BY <1>1, <1>2, <1>3 DEF Values

\* A message leaves the head of its queue.
LEMMA TailBook ==
    ASSUME NEW S, NEW s \in Seq(S), s # <<>>
    PROVE  /\ Head(s) \in S /\ Tail(s) \in Seq(S)
           /\ Head(s) \in Values(s)
           /\ Values(Tail(s)) \subseteq Values(s)
           /\ Values(s) \subseteq Values(Tail(s)) \cup {Head(s)}
<1>1. /\ Head(s) \in S /\ Tail(s) \in Seq(S)
      /\ Len(Tail(s)) = Len(s) - 1
      /\ \A i \in 1..Len(Tail(s)) : Tail(s)[i] = s[i + 1]
  BY HeadTailProperties
<1>2. Len(s) \in Nat /\ Len(s) # 0 /\ Head(s) = s[1]
  BY LenProperties, EmptySeq
<1>3. \A i \in 1..Len(s) : i = 1 \/ (i - 1) \in 1..Len(Tail(s))
  BY <1>1, <1>2
<1> QED
  BY <1>1, <1>2, <1>3 DEF Values

\* A row leaves a book: every other row stays, in its place.
LEMMA WithoutBook ==
    ASSUME NEW book \in Seq(Receipts), NEW i \in 1..Len(book)
    PROVE  /\ Without(book, i) \in Seq(Receipts)
           /\ Len(Without(book, i)) = Len(book) - 1
           /\ Values(Without(book, i)) \subseteq Values(book)
           /\ Values(book) \subseteq Values(Without(book, i)) \cup {book[i]}
           /\ \A j \in 1..Len(book) - 1 :
                 Without(book, i)[j] = IF j < i THEN book[j] ELSE book[j + 1]
<1> DEFINE front == SubSeq(book, 1, i - 1)
           back  == SubSeq(book, i + 1, Len(book))
<1>1. Len(book) \in Nat /\ \A j \in 1..Len(book) : book[j] \in Receipts
  BY LenProperties, ElementOfSeq
<1>2. /\ front \in Seq(Receipts) /\ Len(front) = i - 1
      /\ \A j \in 1..(i - 1) : front[j] = book[j]
  <2>1. \A j \in 1..(i - 1) : book[j] \in Receipts
    BY <1>1
  <2>2. /\ front \in Seq(Receipts)
        /\ Len(front) = IF 1 <= i - 1 THEN (i - 1) - 1 + 1 ELSE 0
        /\ \A j \in 1..((i - 1) - 1 + 1) : front[j] = book[1 + j - 1]
    BY <2>1, SubSeqProperties
  <2> HIDE DEF front
  <2> QED
    BY <2>2, <1>1
<1>3. /\ back \in Seq(Receipts) /\ Len(back) = Len(book) - i
      /\ \A j \in 1..(Len(book) - i) : back[j] = book[i + j]
  <2>1. \A j \in (i + 1)..Len(book) : book[j] \in Receipts
    BY <1>1
  <2>2. /\ back \in Seq(Receipts)
        /\ Len(back) = IF i + 1 <= Len(book) THEN Len(book) - (i + 1) + 1 ELSE 0
        /\ \A j \in 1..(Len(book) - (i + 1) + 1) : back[j] = book[i + 1 + j - 1]
    BY <1>1, <2>1, SubSeqProperties
  <2> HIDE DEF back
  <2> QED
    BY <2>2, <1>1
<1>4. Without(book, i) = front \o back
  BY DEF Without
<1> HIDE DEF front, back
<1>5. /\ Without(book, i) \in Seq(Receipts)
      /\ Len(Without(book, i)) = Len(book) - 1
      /\ \A j \in 1..Len(book) - 1 :
           Without(book, i)[j] = IF j <= i - 1 THEN front[j]
                                 ELSE back[j - (i - 1)]
  <2>1. /\ front \o back \in Seq(Receipts)
        /\ Len(front \o back) = Len(front) + Len(back)
        /\ \A j \in 1..Len(front) + Len(back) : (front \o back)[j] =
              IF j <= Len(front) THEN front[j] ELSE back[j - Len(front)]
    BY <1>2, <1>3, ConcatProperties
  <2>2. Len(front) + Len(back) = Len(book) - 1
    BY <1>1, <1>2, <1>3
  <2> QED
    BY <1>2, <1>4, <2>1, <2>2
<1>6. ASSUME NEW j \in 1..Len(book) - 1
      PROVE  Without(book, i)[j] = IF j < i THEN book[j] ELSE book[j + 1]
  <2>1. CASE j < i
    BY <2>1, <1>1, <1>2, <1>5
  <2>2. CASE ~(j < i)
    <3>1. j - (i - 1) \in 1..(Len(book) - i)
      BY <2>2, <1>1
    <3> QED
      BY <2>2, <3>1, <1>1, <1>3, <1>5
  <2> QED
    BY <2>1, <2>2
<1>7. Values(Without(book, i)) \subseteq Values(book)
  BY SMTT(30), <1>1, <1>5, <1>6 DEF Values
<1>8. Values(book) \subseteq Values(Without(book, i)) \cup {book[i]}
  <2> SUFFICES ASSUME NEW k \in 1..Len(book), k # i
               PROVE  book[k] \in Values(Without(book, i))
    BY DEF Values
  <2>1. CASE k < i
    BY <2>1, <1>1, <1>5, <1>6 DEF Values
  <2>2. CASE k > i
    <3>1. (k - 1) \in 1..Len(book) - 1 /\ ~(k - 1 < i)
      BY <2>2, <1>1
    <3>2. Without(book, i)[k - 1] = book[(k - 1) + 1]
      BY <3>1, <1>6
    <3>3. (k - 1) + 1 = k
      OBVIOUS
    <3> QED
      BY <3>1, <3>2, <3>3, <1>5 DEF Values
  <2> QED
    BY <2>1, <2>2, <1>1
<1> QED
  BY <1>5, <1>6, <1>7, <1>8

\* The newest rows of a book are its last ones.
LEMMA NewestBook ==
    ASSUME NEW s \in Seq(Receipts), NEW n \in Nat
    PROVE  /\ Newest(s, n) \in Seq(Receipts) /\ Len(Newest(s, n)) <= n
           /\ Values(Newest(s, n)) \subseteq Values(s)
           /\ Len(s) <= n => Newest(s, n) = s
           /\ Len(s) > n => /\ Len(Newest(s, n)) = n
                            /\ \A i \in 1..n : Newest(s, n)[i] = s[Len(s) - n + i]
<1>1. Len(s) \in Nat /\ \A j \in 1..Len(s) : s[j] \in Receipts
  BY LenProperties, ElementOfSeq
<1>2. CASE Len(s) > n
  <2>1. \A j \in (Len(s) - n + 1)..Len(s) : s[j] \in Receipts
    BY <1>1, <1>2
  <2>2. Newest(s, n) = SubSeq(s, Len(s) - n + 1, Len(s))
    BY <1>2 DEF Newest
  <2>3. /\ Newest(s, n) \in Seq(Receipts)
        /\ Len(Newest(s, n)) = IF Len(s) - n + 1 <= Len(s)
                               THEN Len(s) - (Len(s) - n + 1) + 1 ELSE 0
        /\ \A i \in 1..(Len(s) - (Len(s) - n + 1) + 1) :
              Newest(s, n)[i] = s[(Len(s) - n + 1) + i - 1]
    BY <1>1, <2>1, <2>2, SubSeqProperties
  <2>4. Len(Newest(s, n)) = n
    BY <1>1, <1>2, <2>3
  <2>5. \A i \in 1..n : Newest(s, n)[i] = s[Len(s) - n + i]
    BY <1>1, <1>2, <2>3
  <2>6. \A i \in 1..n : Len(s) - n + i \in 1..Len(s)
    BY <1>1, <1>2
  <2>7. Values(Newest(s, n)) \subseteq Values(s)
    BY <2>4, <2>5, <2>6 DEF Values
  <2> QED
    BY <1>1, <1>2, <2>3, <2>4, <2>5, <2>7
<1>3. CASE ~(Len(s) > n)
  BY <1>1, <1>3 DEF Newest
<1> QED
  BY <1>2, <1>3

----------------------------------------------------------------------------
(* Typing. *)

\* What an account is offered is a receipt.
LEMMA OldestType ==
    ASSUME NEW book \in Seq(Receipts)
    PROVE  [b \in Accounts |-> Oldest(book, b)] \in [Accounts -> Receipts \cup {None}]
  BY FirstOfBook DEF Oldest

LEMMA BarrierType ==
    ASSUME TypeOK
    PROVE  [b \in Accounts |-> BarrierOffer(b)] \in [Accounts -> Receipts \cup {None}]
  BY FirstOfBook DEF BarrierOffer, OfRound, TypeOK

\* A delivery leaves the connections well typed.
LEMMA DeliverType ==
    ASSUME TypeOK, NEW as, NEW offer \in [Accounts -> Receipts \cup {None}],
           Deliver(as, offer)
    PROVE  /\ delivered' \in [Accounts -> Receipts \cup {None}]
           /\ down' \in [Accounts -> Seq(Receipts)]
           /\ sentNow' \in [Accounts -> SUBSET Receipts]
<1> DEFINE to == {a \in as : News(a, offer[a])}
<1>1. ASSUME NEW a \in Accounts, a \in to PROVE offer[a] \in Receipts
  BY <1>1 DEF News
<1>2. delivered' \in [Accounts -> Receipts \cup {None}]
  <2>1. delivered' = [a \in Accounts |->
                        IF a \in to THEN offer[a] ELSE delivered[a]]
    BY DEF Deliver
  <2> HIDE DEF to
  <2> QED
    BY <2>1 DEF TypeOK
<1>3. down' \in [Accounts -> Seq(Receipts)]
  <2>1. down' = [a \in Accounts |->
                   IF a \in to /\ conn[a] = "open"
                   THEN Append(down[a], offer[a]) ELSE down[a]]
    BY DEF Deliver
  <2>2. ASSUME NEW a \in Accounts
        PROVE  (IF a \in to /\ conn[a] = "open"
                THEN Append(down[a], offer[a]) ELSE down[a]) \in Seq(Receipts)
    <3>1. down[a] \in Seq(Receipts)
      BY DEF TypeOK
    <3>2. CASE a \in to
      BY <1>1, <3>1, <3>2, AppendBook
    <3>3. CASE a \notin to
      BY <3>1, <3>3
    <3> QED
      BY <3>2, <3>3
  <2> HIDE DEF to
  <2> QED
    BY <2>1, <2>2
<1>4. sentNow' \in [Accounts -> SUBSET Receipts]
  <2>1. sentNow' = [a \in Accounts |->
                      IF a \in to THEN sentNow[a] \cup {offer[a]}
                      ELSE sentNow[a]]
    BY DEF Deliver
  <2> HIDE DEF to
  <2> QED
    BY <1>1, <2>1 DEF TypeOK
<1> QED
  BY <1>2, <1>3, <1>4

\* So does an acknowledgement.
LEMMA AcknowledgeType ==
    ASSUME TypeOK, NEW a \in Accounts, NEW e \in Entries, Acknowledge(a, e)
    PROVE  up' \in [Accounts -> Seq(Receipts)]
<1>1. up[a] \in Seq(Receipts) /\ e.receipt \in Receipts
  BY DEF TypeOK, Entries
<1>2. Append(up[a], e.receipt) \in Seq(Receipts)
  BY <1>1, AppendBook
<1>3. up' = [up EXCEPT ![a] = Append(up[a], e.receipt)] \/ up' = up
  BY DEF Acknowledge
<1> QED
  BY <1>2, <1>3 DEF TypeOK

\* What the stores do with a receipt.
LEMMA AcceptType ==
    ASSUME TypeOK, NEW a \in Accounts, NEW e \in Entries, Accept(a, e)
    PROVE  /\ up' \in [Accounts -> Seq(Receipts)]
           /\ accepting' \in [Accounts -> Entries \cup {None}]
           /\ markers' \in [Accounts -> Seq(Receipts)]
           /\ wallet' \in [Receipts -> Nat]
<1>1. e.receipt \in Receipts
  BY DEF Entries
<1>2. CASE Acknowledge(a, e) /\ UNCHANGED <<accepting, markers, wallet>>
  BY <1>2, AcknowledgeType DEF TypeOK
<1>3. CASE UNCHANGED <<up, accepting, markers, wallet>>
  BY <1>3 DEF TypeOK
<1>4. CASE /\ BankAward(a, e.receipt) /\ UNCHANGED up
           /\ accepting' = [accepting EXCEPT ![a] = e]
  <2>1. accepting' \in [Accounts -> Entries \cup {None}]
    BY <1>4 DEF TypeOK
  <2>2. CASE UNCHANGED <<markers, wallet>>
    BY <1>4, <2>1, <2>2 DEF TypeOK
  <2>3. CASE /\ markers' = [markers EXCEPT ![a] =
                               Newest(Append(@, e.receipt), MaxMarkers)]
             /\ wallet' = [wallet EXCEPT ![e.receipt] = @ + 1]
    <3>1. markers[a] \in Seq(Receipts)
      BY DEF TypeOK
    <3>2. Newest(Append(markers[a], e.receipt), MaxMarkers) \in Seq(Receipts)
      BY <1>1, <3>1, AppendBook, NewestBook, ReceiptsAssumption
    <3>3. markers' \in [Accounts -> Seq(Receipts)]
      BY <2>3, <3>2 DEF TypeOK
    <3>4. wallet' \in [Receipts -> Nat]
      BY <1>1, <2>3 DEF TypeOK
    <3> QED
      BY <1>4, <2>1, <3>3, <3>4 DEF TypeOK
  <2> QED
    BY <1>4, <2>2, <2>3 DEF BankAward
<1> QED
  BY <1>2, <1>3, <1>4 DEF Accept

\* A connection that dies.
LEMMA CutType ==
    ASSUME TypeOK, NEW as, Cut(as)
    PROVE  /\ down' \in [Accounts -> Seq(Receipts)]
           /\ deferred' \in [Accounts -> Seq(Entries)]
           /\ accepting' \in [Accounts -> Entries \cup {None}]
           /\ session' \in [Accounts -> {"up", "stopping", "off"}]
           /\ inBattle' \in [Accounts -> BOOLEAN]
<1>1. ASSUME NEW a \in Accounts PROVE Dead(deferred[a]) \in Seq(Entries)
  <2>1. deferred[a] \in Seq(Entries)
    BY DEF TypeOK
  <2>2. /\ Len(deferred[a]) \in Nat
        /\ \A i \in 1..Len(deferred[a]) :
              [deferred[a][i] EXCEPT !.live = FALSE] \in Entries
    <3>1. \A e \in Entries : [e EXCEPT !.live = FALSE] \in Entries
      BY DEF Entries
    <3>2. \A i \in 1..Len(deferred[a]) : deferred[a][i] \in Entries
      BY <2>1, ElementOfSeq
    <3> QED
      BY <2>1, <3>1, <3>2, LenProperties
  <2> QED
    BY <2>2, IsASeq DEF Dead
<1>2. deferred' \in [Accounts -> Seq(Entries)]
  <2>1. deferred' = [a \in Accounts |->
                       IF a \in as THEN Dead(deferred[a]) ELSE deferred[a]]
    BY DEF Cut
  <2> QED
    BY <1>1, <2>1 DEF TypeOK
<1>3. down' \in [Accounts -> Seq(Receipts)]
  <2>1. down' = [a \in Accounts |-> IF a \in as THEN <<>> ELSE down[a]]
    BY DEF Cut
  <2>2. <<>> \in Seq(Receipts)
    BY EmptySeq
  <2> QED
    BY <2>1, <2>2 DEF TypeOK
<1>4. accepting' \in [Accounts -> Entries \cup {None}]
  BY DEF Cut, TypeOK, Entries
<1>5. /\ session' \in [Accounts -> {"up", "stopping", "off"}]
      /\ inBattle' \in [Accounts -> BOOLEAN]
  BY DEF Cut, TypeOK
<1> QED
  BY <1>2, <1>3, <1>4, <1>5

\* The participants in some order.
LEMMA OrderType ==
    ASSUME NEW as \in SUBSET Accounts, NEW order \in JoinOrders(as)
    PROVE  /\ Len(order) \in Nat /\ Values(order) = as
           /\ \A i \in 1..Len(order) : order[i] \in as
<1>1. IsFiniteSet(as) /\ Cardinality(as) \in Nat
  BY FS_Subset, FS_CardinalityType, ReceiptsAssumption
<1>2. order \in [1..Cardinality(as) -> as] /\ Values(order) = as
  BY DEF JoinOrders
<1>3. order \in Seq(as)
  <2> DEFINE n == Cardinality(as)
  <2>1. n \in Nat /\ order \in [1..n -> as]
    BY <1>1, <1>2
  <2> HIDE DEF n
  <2> QED
    BY <2>1, SeqDef
<1> QED
  BY <1>2, <1>3, LenProperties, ElementOfSeq

\* The acts of the server.
LEMMA ServerType ==
    TypeOK /\ ServerNext => TypeOK'
<1> SUFFICES ASSUME TypeOK, ServerNext PROVE TypeOK'
  OBVIOUS
<1> USE DEF roomVars, ledgerVars, wireVars, clientVars, saveVars
<1>1. CASE StartBattle
  BY <1>1 DEF StartBattle, Connected, TypeOK
<1>2. CASE FinishBattle
  <2>1. \A a \in Accounts : Minted(a) \in Receipts
    BY <1>2, ReceiptsAssumption DEF FinishBattle, Minted, Receipts, TypeOK
  <2>2. PICK order \in JoinOrders(participants) :
           LET all == ledger \o [i \in 1..Len(order) |-> Minted(order[i])]
               kept == Newest(all, MaxReceipts)
           IN  /\ disk' = kept /\ ledger' = kept
               /\ evicted' = evicted \cup (Values(all) \ Values(kept))
    BY <1>2 DEF FinishBattle
  <2> DEFINE new == [i \in 1..Len(order) |-> Minted(order[i])]
             all == ledger \o new
  <2>3. new \in Seq(Receipts)
    <3>1. participants \in SUBSET Accounts
      BY DEF TypeOK
    <3>2. /\ Len(order) \in Nat
          /\ \A i \in 1..Len(order) : order[i] \in participants
      BY <3>1, OrderType
    <3> QED
      BY <2>1, <3>1, <3>2
  <2>4. all \in Seq(Receipts) /\ Values(all) \subseteq Receipts
    BY <2>3, ConcatProperties, ValuesType DEF TypeOK
  <2>5. /\ ledger' \in Seq(Receipts) /\ Len(ledger') <= MaxReceipts
        /\ disk' = ledger' /\ evicted' \subseteq Receipts
    <3>1. /\ disk' = Newest(all, MaxReceipts) /\ ledger' = Newest(all, MaxReceipts)
          /\ evicted' = evicted \cup (Values(all) \ Values(Newest(all, MaxReceipts)))
      BY <2>2
    <3> HIDE DEF all, new
    <3> QED
      BY <2>4, <3>1, NewestBook, ReceiptsAssumption DEF TypeOK
  <2>6. settled' \subseteq Receipts
    BY <1>2, <2>1 DEF FinishBattle, TypeOK
  <2> QED
    BY <1>2, <2>5, <2>6 DEF FinishBattle, TypeOK
<1>3. CASE FailBattle
  BY <1>3 DEF FailBattle, TypeOK
<1>4. CASE TerminalBarrier
  BY <1>4, BarrierType, DeliverType DEF TerminalBarrier, TypeOK
<1>5. CASE ResetRound
  BY <1>5, ReceiptsAssumption DEF ResetRound, TypeOK
<1>6. CASE RestartServer
  <2>1. /\ boot' \in 1..MaxBoot /\ round' \in 1..(MaxRound + 1)
        /\ phase' \in {"waiting", "battle", "result"} /\ participants' \subseteq Accounts
    BY <1>6, ReceiptsAssumption DEF RestartServer, TypeOK
  <2>2. ledger' \in Seq(Receipts) /\ Len(ledger') <= MaxReceipts
    BY <1>6 DEF RestartServer, TypeOK
  <2>3. /\ up' \in [Accounts -> Seq(Receipts)]
        /\ conn' \in [Accounts -> {"none", "open", "closing"}]
        /\ delivered' \in [Accounts -> Receipts \cup {None}]
        /\ sentNow' \in [Accounts -> SUBSET Receipts]
    BY <1>6, EmptySeq DEF RestartServer
  <2>4. Cut({a \in Accounts : conn[a] = "open"})
    BY <1>6 DEF RestartServer
  <2> QED
    BY <1>6, <2>1, <2>2, <2>3, <2>4, CutType DEF RestartServer, TypeOK
<1>7. ASSUME NEW a \in Accounts, TickDelivers(a) PROVE TypeOK'
  BY <1>7, OldestType, DeliverType DEF TickDelivers, TypeOK
<1>8. ASSUME NEW a \in Accounts, ServerTakesAck(a) PROVE TypeOK'
  <2>1. PICK i \in 1..Len(ledger) :
           /\ disk' = Without(ledger, i) /\ ledger' = disk'
           /\ Deliver({a}, [b \in Accounts |-> Oldest(Without(ledger, i), b)])
    BY <1>8 DEF ServerTakesAck
  <2>2. /\ Without(ledger, i) \in Seq(Receipts)
        /\ Len(Without(ledger, i)) <= MaxReceipts
    BY WithoutBook, LenProperties, ReceiptsAssumption DEF TypeOK
  <2>3. up' \in [Accounts -> Seq(Receipts)]
    <3>1. up[a] \in Seq(Receipts) /\ up[a] # <<>>
      BY <1>8 DEF ServerTakesAck, TypeOK
    <3> QED
      BY <1>8, <3>1, TailBook DEF ServerTakesAck, TypeOK
  <2>4. /\ delivered' \in [Accounts -> Receipts \cup {None}]
        /\ down' \in [Accounts -> Seq(Receipts)]
        /\ sentNow' \in [Accounts -> SUBSET Receipts]
    BY <2>1, <2>2, OldestType, DeliverType
  <2> QED
    BY <1>8, <2>1, <2>2, <2>3, <2>4 DEF ServerTakesAck, TypeOK
<1>9. ASSUME NEW a \in Accounts, ServerIgnoresAck(a) PROVE TypeOK'
  <2>1. up[a] \in Seq(Receipts) /\ up[a] # <<>>
    BY <1>9 DEF ServerIgnoresAck, TypeOK
  <2>2. up' \in [Accounts -> Seq(Receipts)]
    BY <1>9, <2>1, TailBook DEF ServerIgnoresAck, TypeOK
  <2> QED
    BY <1>9, <2>2 DEF ServerIgnoresAck, TypeOK
<1>10. ASSUME NEW a \in Accounts, RemovePlayer(a) PROVE TypeOK'
  <2>1. <<>> \in Seq(Receipts)
    BY EmptySeq
  <2> QED
    BY <1>10, <2>1 DEF RemovePlayer, TypeOK
<1> QED
  BY <1>1, <1>2, <1>3, <1>4, <1>5, <1>6, <1>7, <1>8, <1>9, <1>10 DEF ServerNext

\* A receipt the client can read, with the transport that brought it.
LEMMA EntryType ==
    ASSUME NEW r \in Receipts, NEW b \in BOOLEAN
    PROVE  [receipt |-> r, live |-> b] \in Entries
  BY DEF Entries

\* The acts of a session.
LEMMA SessionType ==
    ASSUME TypeOK, NEW a \in Accounts, SessionNext(a)
    PROVE  TypeOK'
<1> USE DEF roomVars, ledgerVars, wireVars, clientVars, saveVars
<1>1. CASE Connect(a)
  <2>1. Oldest(ledger, a) \in Receipts \cup {None}
    BY FirstOfBook DEF Oldest, TypeOK
  <2>2. /\ delivered' = [delivered EXCEPT ![a] = Oldest(ledger, a)]
        /\ down' = [down EXCEPT ![a] =
                      IF Oldest(ledger, a) = None THEN <<>>
                      ELSE <<Oldest(ledger, a)>>]
        /\ sentNow' = [sentNow EXCEPT ![a] = {Oldest(ledger, a)} \ {None}]
    BY <1>1 DEF Connect
  <2> DEFINE r == Oldest(ledger, a)
  <2> HIDE DEF r
  <2>3. (IF r = None THEN <<>> ELSE <<r>>) \in Seq(Receipts)
    BY <2>1 DEF r
  <2>4. /\ delivered' \in [Accounts -> Receipts \cup {None}]
        /\ down' \in [Accounts -> Seq(Receipts)]
        /\ sentNow' \in [Accounts -> SUBSET Receipts]
    BY <2>1, <2>2, <2>3 DEF r, TypeOK
  <2> QED
    BY <1>1, <2>4 DEF Connect, TypeOK
<1>2. CASE Lose(a)
  BY <1>2, CutType DEF Lose, TypeOK
<1>3. CASE EnterBattle(a)
  BY <1>3 DEF EnterBattle, TypeOK
<1>4. CASE LeaveBattle(a)
  BY <1>4 DEF LeaveBattle, TypeOK
<1>5. CASE Stop(a)
  BY <1>5 DEF Stop, TypeOK
<1>6. CASE Stopped(a)
  <2>1. down' \in [Accounts -> Seq(Receipts)]
    BY <1>6, EmptySeq DEF Stopped, TypeOK
  <2> QED
    BY <1>6, <2>1 DEF Stopped, TypeOK
<1>7. CASE CrashClient(a)
  <2>1. /\ down' \in [Accounts -> Seq(Receipts)]
        /\ deferred' \in [Accounts -> Seq(Entries)]
    BY <1>7, EmptySeq DEF CrashClient, TypeOK
  <2> QED
    BY <1>7, <2>1 DEF CrashClient, TypeOK
<1> QED
  BY <1>1, <1>2, <1>3, <1>4, <1>5, <1>6, <1>7 DEF SessionNext

\* The acts of the stores.
LEMMA ReceiptType ==
    ASSUME TypeOK, NEW a \in Accounts, ReceiptNext(a)
    PROVE  TypeOK'
<1> USE DEF roomVars, ledgerVars, wireVars, clientVars, saveVars
<1> DEFINE e == [receipt |-> Head(down[a]), live |-> TRUE]
<1>a. ASSUME down[a] # <<>>, down' = [down EXCEPT ![a] = Tail(@)]
      PROVE  e \in Entries /\ down' \in [Accounts -> Seq(Receipts)]
  <2>1. down[a] \in Seq(Receipts)
    BY DEF TypeOK
  <2>2. Head(down[a]) \in Receipts /\ Tail(down[a]) \in Seq(Receipts)
    BY <1>a, <2>1, TailBook
  <2> QED
    BY <1>a, <2>2, EntryType DEF TypeOK
<1> HIDE DEF e
<1>1. CASE ReceiveMalformed(a)
  <2>1. down[a] # <<>> /\ down' = [down EXCEPT ![a] = Tail(@)] /\ Acknowledge(a, e)
    BY <1>1 DEF ReceiveMalformed, e
  <2> QED
    BY <1>1, <2>1, <1>a, AcknowledgeType DEF ReceiveMalformed, TypeOK
<1>2. CASE ReceiveInGarage(a)
  <2>1. down[a] # <<>> /\ down' = [down EXCEPT ![a] = Tail(@)] /\ Accept(a, e)
    BY <1>2 DEF ReceiveInGarage, e
  <2> QED
    BY <1>2, <2>1, <1>a, AcceptType DEF ReceiveInGarage, TypeOK
<1>3. CASE ReceiveInBattle(a)
  <2>1. down[a] # <<>> /\ down' = [down EXCEPT ![a] = Tail(@)] /\ Defer(a, e)
    BY <1>3 DEF ReceiveInBattle, e
  <2>2. deferred[a] \in Seq(Entries)
    BY DEF TypeOK
  <2>3. Append(deferred[a], e) \in Seq(Entries)
    BY <2>1, <2>2, <1>a, AppendBook
  <2>4. [i \in 1..Len(deferred[a]) |->
           IF i \in Known(a, e.receipt) THEN e ELSE deferred[a][i]] \in Seq(Entries)
    BY <2>1, <2>2, <1>a, LenProperties, ElementOfSeq
  <2>5. deferred' \in [Accounts -> Seq(Entries)]
    BY <2>1, <2>3, <2>4 DEF Defer, TypeOK
  <2> QED
    BY <1>3, <2>1, <2>5, <1>a DEF ReceiveInBattle, TypeOK
<1>4. CASE DrainDeferred(a)
  <2>1. deferred[a] \in Seq(Entries) /\ deferred[a] # <<>>
    BY <1>4 DEF DrainDeferred, TypeOK
  <2>2. Head(deferred[a]) \in Entries /\ Tail(deferred[a]) \in Seq(Entries)
    BY <2>1, TailBook
  <2>3. deferred' \in [Accounts -> Seq(Entries)]
    BY <1>4, <2>2 DEF DrainDeferred, TypeOK
  <2>4. Accept(a, Head(deferred[a]))
    BY <1>4 DEF DrainDeferred
  <2> QED
    BY <1>4, <2>2, <2>3, <2>4, AcceptType DEF DrainDeferred, TypeOK
<1>5. CASE StoreResult(a)
  <2>1. accepting[a] \in Entries /\ accepting[a].receipt \in Receipts
    BY <1>5 DEF StoreResult, TypeOK, Entries
  <2>2. up' \in [Accounts -> Seq(Receipts)]
    BY <1>5, <2>1, AcknowledgeType DEF StoreResult
  <2>3. pending' \subseteq Receipts /\ career' \in [Receipts -> Nat]
    BY <1>5, <2>1 DEF StoreResult, TypeOK
  <2>4. accepting' \in [Accounts -> Entries \cup {None}]
    BY <1>5 DEF StoreResult, TypeOK
  <2> QED
    BY <1>5, <2>2, <2>3, <2>4 DEF StoreResult, TypeOK
<1>6. CASE StoreFails(a)
  BY <1>6 DEF StoreFails, TypeOK
<1> QED
  BY <1>1, <1>2, <1>3, <1>4, <1>5, <1>6 DEF ReceiptNext

\* Every step preserves the type invariant.
LEMMA TypeStep ==
    TypeOK /\ [Next]_vars => TypeOK'
<1> SUFFICES ASSUME TypeOK, [Next]_vars PROVE TypeOK'
  OBVIOUS
<1>1. ASSUME NEW r \in Receipts, ClaimResult(r) PROVE TypeOK'
  BY <1>1 DEF ClaimResult, TypeOK, roomVars, ledgerVars, wireVars, clientVars
<1>2. CASE UNCHANGED vars
  BY <1>2 DEF TypeOK, vars, roomVars, ledgerVars, wireVars, clientVars, saveVars
<1> QED
  BY <1>1, <1>2, ServerType, SessionType, ReceiptType DEF Next

LEMMA TypeInit ==
    Init => TypeOK
<1> SUFFICES ASSUME Init PROVE TypeOK
  OBVIOUS
<1>1. <<>> \in Seq(Receipts) /\ <<>> \in Seq(Entries) /\ Len(<<>>) = 0
  BY EmptySeq
<1> QED
  BY <1>1, ReceiptsAssumption DEF Init, TypeOK

\* Every variable keeps its type, and the ledger and its file their limit.
THEOREM ReceiptsTypeOK == Spec => []TypeOK
  BY TypeInit, TypeStep, PTL DEF Spec

----------------------------------------------------------------------------
(* The ledger. *)

\* The settled receipts are of earlier rounds, or of this one once its result
\* is out.
Past ==
    \A r \in settled :
        \/ r.boot < boot
        \/ /\ r.boot = boot
           /\ r.round < round \/ (r.round = round /\ phase = "result")

\* No row is older than one before it.
Sorted(book) ==
    \A i, j \in 1..Len(book) : i < j => ~Older(book[j], book[i])

\* The ledger and its file hold the same settled receipts, oldest first.
LedgerInv ==
    /\ disk = ledger /\ Values(ledger) \subseteq settled
    /\ Past /\ Sorted(ledger)

\* What can change the ledger.
LEMMA LedgerFrame ==
    ASSUME [Next]_vars
    PROVE  \/ StartBattle \/ FinishBattle \/ FailBattle \/ ResetRound
           \/ RestartServer \/ \E a \in Accounts : ServerTakesAck(a)
           \/ UNCHANGED <<boot, round, phase, ledgerVars>>
<1> USE DEF roomVars, ledgerVars
<1>1. CASE ServerNext
  <2>1. CASE TerminalBarrier
    BY <2>1 DEF TerminalBarrier
  <2>2. ASSUME NEW a \in Accounts,
               TickDelivers(a) \/ ServerIgnoresAck(a) \/ RemovePlayer(a)
        PROVE  UNCHANGED <<boot, round, phase, ledgerVars>>
    BY <2>2 DEF TickDelivers, ServerIgnoresAck, RemovePlayer
  <2> QED
    BY <1>1, <2>1, <2>2 DEF ServerNext
<1>2. ASSUME NEW a \in Accounts, SessionNext(a)
      PROVE  UNCHANGED <<boot, round, phase, ledgerVars>>
  BY <1>2 DEF SessionNext, Connect, Lose, EnterBattle, LeaveBattle, Stop,
              Stopped, CrashClient
<1>3. ASSUME NEW a \in Accounts, ReceiptNext(a)
      PROVE  UNCHANGED <<boot, round, phase, ledgerVars>>
  BY <1>3 DEF ReceiptNext, ReceiveMalformed, ReceiveInGarage, ReceiveInBattle,
              DrainDeferred, StoreResult, StoreFails
<1>4. ASSUME NEW r \in Receipts, ClaimResult(r)
      PROVE  UNCHANGED <<boot, round, phase, ledgerVars>>
  BY <1>4 DEF ClaimResult
<1>5. CASE UNCHANGED vars
  BY <1>5 DEF vars
<1> QED
  BY <1>1, <1>2, <1>3, <1>4, <1>5 DEF Next

\* A settled battle: the new rows come last, and the rows that the limit cuts
\* off are the first ones.
LEMMA FinishBook ==
    ASSUME TypeOK, LedgerInv, FinishBattle
    PROVE  /\ settled' = settled \cup {Minted(a) : a \in participants}
           /\ {Minted(a) : a \in participants} \cap settled = {}
           /\ Values(ledger') \subseteq
                 Values(ledger) \cup {Minted(a) : a \in participants}
           /\ Values(ledger') \subseteq settled' /\ disk' = ledger'
           /\ Sorted(ledger')
           /\ settled' \ settled \subseteq Values(ledger') \cup evicted'
           /\ Values(ledger) \subseteq Values(ledger') \cup evicted'
           /\ evicted \subseteq evicted'
           /\ \A r \in evicted' \ evicted :
                 /\ Len(ledger') = MaxReceipts
                 /\ \A q \in Values(ledger') : ~Older(q, r)
<1> DEFINE minted == {Minted(a) : a \in participants}
<1>1. PICK order \in JoinOrders(participants) :
         LET all == ledger \o [i \in 1..Len(order) |-> Minted(order[i])]
             kept == Newest(all, MaxReceipts)
         IN  /\ disk' = kept /\ ledger' = kept
             /\ evicted' = evicted \cup (Values(all) \ Values(kept))
  BY DEF FinishBattle
<1> DEFINE new == [i \in 1..Len(order) |-> Minted(order[i])]
           all == ledger \o new
<1>2. /\ disk' = Newest(all, MaxReceipts) /\ ledger' = Newest(all, MaxReceipts)
      /\ evicted' = evicted \cup (Values(all) \ Values(Newest(all, MaxReceipts)))
  BY <1>1
<1>3. settled' = settled \cup minted /\ phase = "battle"
  BY DEF FinishBattle
<1>4. \A a \in Accounts : Minted(a) \in Receipts /\ Minted(a).boot = boot
                          /\ Minted(a).round = round
  BY ReceiptsAssumption DEF FinishBattle, Minted, Receipts, TypeOK
<1>5. /\ Len(order) \in Nat /\ participants = {order[i] : i \in 1..Len(order)}
      /\ \A i \in 1..Len(order) : order[i] \in participants
  BY OrderType DEF TypeOK, Values
<1>6. /\ new \in Seq(Receipts) /\ Len(new) = Len(order)
      /\ \A i \in 1..Len(order) : new[i] = Minted(order[i])
  <2>1. \A i \in 1..Len(order) : Minted(order[i]) \in Receipts
    BY <1>4, <1>5 DEF TypeOK
  <2> QED
    BY <1>5, <2>1
<1>7. Values(new) = minted
  BY <1>5, <1>6 DEF Values
<1>8. /\ all \in Seq(Receipts) /\ Len(all) = Len(ledger) + Len(new)
      /\ Len(ledger) \in Nat /\ Len(new) \in Nat
      /\ \A i \in 1..Len(ledger) + Len(new) :
            all[i] = IF i <= Len(ledger) THEN ledger[i] ELSE new[i - Len(ledger)]
  BY <1>6, ConcatProperties, LenProperties DEF TypeOK
<1> HIDE DEF new, all
<1>9. Values(all) = Values(ledger) \cup minted
  <2>1. \A i \in 1..Len(all) : all[i] \in Values(ledger) \cup Values(new)
    BY <1>8 DEF Values
  <2>2. \A i \in 1..Len(ledger) : i \in 1..Len(all) /\ all[i] = ledger[i]
    BY <1>8
  <2>3. \A i \in 1..Len(new) : /\ i + Len(ledger) \in 1..Len(all)
                               /\ all[i + Len(ledger)] = new[i]
    <3> SUFFICES ASSUME NEW i \in 1..Len(new)
                 PROVE  /\ i + Len(ledger) \in 1..Len(all)
                        /\ all[i + Len(ledger)] = new[i]
      OBVIOUS
    <3>1. /\ i + Len(ledger) \in 1..Len(ledger) + Len(new)
          /\ ~(i + Len(ledger) <= Len(ledger))
          /\ (i + Len(ledger)) - Len(ledger) = i
      BY <1>8
    <3> QED
      BY <3>1, <1>8
  <2>4. Values(ledger) \cup Values(new) \subseteq Values(all)
    BY <2>2, <2>3 DEF Values
  <2>5. Values(all) \subseteq Values(ledger) \cup Values(new)
    BY <2>1 DEF Values
  <2> QED
    BY <2>4, <2>5, <1>7
<1>10. \A r \in settled : /\ r \in Receipts
                          /\ r.boot < boot \/ (r.boot = boot /\ r.round < round)
  BY <1>3 DEF LedgerInv, Past, TypeOK
<1>11. minted \cap settled = {}
  <2> SUFFICES ASSUME NEW a \in participants, Minted(a) \in settled PROVE FALSE
    OBVIOUS
  <2>1. a \in Accounts /\ boot \in Int /\ round \in Int
    BY DEF TypeOK
  <2>2. Minted(a).boot = boot /\ Minted(a).round = round
    BY <2>1, <1>4
  <2>3. Minted(a).boot < boot \/ Minted(a).round < round
    BY <1>10
  <2> QED
    BY <2>1, <2>2, <2>3
<1>12. Sorted(all)
  <2> SUFFICES ASSUME NEW i \in 1..Len(all), NEW j \in 1..Len(all), i < j
               PROVE  ~Older(all[j], all[i])
    BY DEF Sorted
  <2>1. ASSUME NEW k \in 1..Len(all), k > Len(ledger)
        PROVE  all[k].boot = boot /\ all[k].round = round
    <3>1. k - Len(ledger) \in 1..Len(order)
      BY <2>1, <1>6, <1>8
    <3>2. new[k - Len(ledger)] = Minted(order[k - Len(ledger)])
      BY <3>1, <1>6
    <3>3. all[k] = new[k - Len(ledger)]
      <4>1. k \in 1..Len(ledger) + Len(new) /\ ~(k <= Len(ledger))
        BY <2>1, <1>8
      <4> QED
        BY <4>1, <1>8
    <3>4. order[k - Len(ledger)] \in Accounts
      BY <3>1, <1>5 DEF TypeOK
    <3> QED
      BY <3>2, <3>3, <3>4, <1>4
  <2>2. CASE j <= Len(ledger)
    <3>1. i \in 1..Len(ledger) /\ j \in 1..Len(ledger)
      BY <2>2, <1>8
    <3>2. all[i] = ledger[i] /\ all[j] = ledger[j]
      BY <3>1, <1>8
    <3> QED
      BY <3>1, <3>2 DEF LedgerInv, Sorted
  <2>3. CASE j > Len(ledger) /\ i > Len(ledger)
    <3>1. /\ all[j].boot = boot /\ all[j].round = round
          /\ all[i].boot = boot /\ all[i].round = round
      BY <2>1, <2>3
    <3>2. boot \in Int /\ round \in Int
      BY DEF TypeOK
    <3> QED
      BY <3>1, <3>2 DEF Older
  <2>4. CASE j > Len(ledger) /\ i <= Len(ledger)
    <3>1. i \in 1..Len(ledger) /\ all[i] = ledger[i]
      BY <2>4, <1>8
    <3>2. all[i] \in settled
      BY <3>1 DEF LedgerInv, Values
    <3>3. all[j].boot = boot /\ all[j].round = round
      BY <2>1, <2>4
    <3>4. all[i].boot \in Nat /\ all[i].round \in Nat /\ boot \in Nat /\ round \in Nat
      <4>1. \A q \in Receipts : q.boot \in Nat /\ q.round \in Nat
        BY DEF Receipts
      <4>2. settled \subseteq Receipts /\ boot \in Nat /\ round \in Nat
        BY DEF TypeOK
      <4> QED
        BY <3>2, <4>1, <4>2
    <3>5. all[i].boot < boot \/ (all[i].boot = boot /\ all[i].round < round)
      BY <3>2, <1>10
    <3> QED
      BY <3>3, <3>4, <3>5 DEF Older
  <2> QED
    BY <2>2, <2>3, <2>4, <1>8
<1> DEFINE kept == Newest(all, MaxReceipts)
           drop == Len(all) - MaxReceipts
<1>13. /\ kept \in Seq(Receipts) /\ Values(kept) \subseteq Values(all)
       /\ Len(all) <= MaxReceipts => kept = all
       /\ Len(all) > MaxReceipts =>
             /\ Len(kept) = MaxReceipts
             /\ \A i \in 1..MaxReceipts : kept[i] = all[drop + i]
  BY <1>8, NewestBook, ReceiptsAssumption
<1>14. MaxReceipts \in Nat /\ Len(all) \in Nat
  BY <1>8, ReceiptsAssumption
<1>15. /\ ledger' = kept /\ disk' = kept
       /\ evicted' = evicted \cup (Values(all) \ Values(kept))
  BY <1>2
<1> HIDE DEF kept
<1>16. Sorted(kept)
  <2>1. CASE Len(all) <= MaxReceipts
    BY <2>1, <1>12, <1>13
  <2>2. CASE Len(all) > MaxReceipts
    <3>1. ASSUME NEW i \in 1..MaxReceipts, NEW j \in 1..MaxReceipts, i < j
          PROVE  ~Older(kept[j], kept[i])
      <4>1. kept[i] = all[drop + i] /\ kept[j] = all[drop + j]
        BY <2>2, <1>13
      <4>2. /\ drop + i \in 1..Len(all) /\ drop + j \in 1..Len(all)
            /\ drop + i < drop + j
        BY <2>2, <3>1, <1>14
      <4> QED
        BY <4>1, <4>2, <1>12 DEF Sorted
    <3> QED
      BY <2>2, <3>1, <1>13 DEF Sorted
  <2> QED
    BY <2>1, <2>2, <1>14
<1>17. ASSUME NEW r \in evicted' \ evicted
       PROVE  /\ Len(kept) = MaxReceipts
              /\ \A q \in Values(kept) : ~Older(q, r)
  <2>1. r \in Values(all) \ Values(kept)
    BY <1>17, <1>15
  <2>2. Len(all) > MaxReceipts
    BY <2>1, <1>13, <1>14
  <2>3. PICK i \in 1..Len(all) : r = all[i]
    BY <2>1 DEF Values
  <2>4. i <= drop
    <3> SUFFICES ASSUME i > drop PROVE FALSE
      BY <1>14
    <3>1. i - drop \in 1..MaxReceipts /\ drop + (i - drop) = i
      BY <2>2, <1>14
    <3>2. kept[i - drop] = all[i]
      BY <2>2, <3>1, <1>13
    <3>3. r \in Values(kept)
      BY <2>2, <2>3, <3>1, <3>2, <1>13 DEF Values
    <3> QED
      BY <2>1, <3>3
  <2>5. ASSUME NEW q \in Values(kept) PROVE ~Older(q, r)
    <3>1. PICK j \in 1..MaxReceipts : q = kept[j]
      BY <2>2, <1>13 DEF Values
    <3>2. drop + j \in 1..Len(all) /\ i < drop + j /\ q = all[drop + j]
      BY <2>2, <2>4, <3>1, <1>13, <1>14
    <3> QED
      BY <2>3, <3>2, <1>12 DEF Sorted
  <2> QED
    BY <2>2, <2>5, <1>13
<1>18. /\ Values(kept) \subseteq Values(ledger) \cup minted
       /\ Values(kept) \subseteq settled \cup minted
  BY <1>9, <1>13 DEF LedgerInv
<1> QED
  BY <1>3, <1>9, <1>11, <1>15, <1>16, <1>17, <1>18

\* An acknowledged row leaves the ledger; the rest keeps its order.
LEMMA AckBook ==
    ASSUME TypeOK, LedgerInv, NEW a \in Accounts, ServerTakesAck(a)
    PROVE  /\ disk' = ledger' /\ ledger' \in Seq(Receipts)
           /\ Values(ledger') \subseteq Values(ledger)
           /\ Values(ledger) \subseteq Values(ledger') \cup {Head(up[a])}
           /\ Head(up[a]).account = a /\ up[a] # <<>>
           /\ Sorted(ledger')
           /\ UNCHANGED <<boot, round, phase, settled, evicted>>
<1>1. PICK i \in 1..Len(ledger) :
         /\ ledger[i] = Head(up[a]) /\ ledger[i].account = a
         /\ disk' = Without(ledger, i) /\ ledger' = disk'
  BY DEF ServerTakesAck
<1>2. /\ Without(ledger, i) \in Seq(Receipts)
      /\ Len(Without(ledger, i)) = Len(ledger) - 1
      /\ Values(Without(ledger, i)) \subseteq Values(ledger)
      /\ Values(ledger) \subseteq Values(Without(ledger, i)) \cup {ledger[i]}
      /\ \A j \in 1..Len(ledger) - 1 :
           Without(ledger, i)[j] = IF j < i THEN ledger[j] ELSE ledger[j + 1]
  BY WithoutBook DEF TypeOK
<1>3. Sorted(ledger')
  <2>1. Len(ledger) \in Nat
    BY LenProperties DEF TypeOK
  <2>2. ASSUME NEW j \in 1..Len(ledger) - 1, NEW k \in 1..Len(ledger) - 1, j < k
        PROVE  ~Older(Without(ledger, i)[k], Without(ledger, i)[j])
    <3> DEFINE jj == IF j < i THEN j ELSE j + 1
               kk == IF k < i THEN k ELSE k + 1
    <3>1. /\ jj \in 1..Len(ledger) /\ kk \in 1..Len(ledger) /\ jj < kk
      BY <2>1, <2>2
    <3>2. /\ Without(ledger, i)[j] = ledger[jj]
          /\ Without(ledger, i)[k] = ledger[kk]
      BY <1>2
    <3> HIDE DEF jj, kk
    <3> QED
      BY <3>1, <3>2 DEF LedgerInv, Sorted
  <2>3. ledger' = Without(ledger, i) /\ Len(ledger') = Len(ledger) - 1
    BY <1>1, <1>2
  <2> QED
    BY <2>2, <2>3 DEF Sorted
<1> QED
  BY <1>1, <1>2, <1>3 DEF ServerTakesAck, roomVars

\* Every step preserves the invariant of the ledger.
LEMMA LedgerStep ==
    TypeOK /\ LedgerInv /\ [Next]_vars => LedgerInv'
<1> SUFFICES ASSUME TypeOK, LedgerInv, [Next]_vars PROVE LedgerInv'
  OBVIOUS
<1> USE DEF ledgerVars
<1>a. boot \in Int /\ round \in Int /\ settled \subseteq Receipts
      /\ \A r \in Receipts : r.boot \in Int /\ r.round \in Int
  BY DEF TypeOK, Receipts
<1>1. CASE StartBattle
  BY <1>1 DEF StartBattle, LedgerInv, Past, Sorted
<1>2. CASE FinishBattle
  <2>1. /\ settled' = settled \cup {Minted(a) : a \in participants}
        /\ Values(ledger') \subseteq settled' /\ disk' = ledger'
        /\ Sorted(ledger')
    BY <1>2, FinishBook
  <2>2. Past'
    <3>1. /\ boot' = boot /\ round' = round /\ phase' = "result"
          /\ phase = "battle"
      BY <1>2 DEF FinishBattle
    <3>2. \A r \in {Minted(a) : a \in participants} :
             r.boot = boot /\ r.round = round
      BY DEF Minted
    <3> QED
      BY <2>1, <3>1, <3>2 DEF LedgerInv, Past
  <2>3. Sorted(ledger)'
    BY <2>1 DEF Sorted, Older
  <2> QED
    BY <2>1, <2>2, <2>3 DEF LedgerInv, Values
<1>3. CASE FailBattle
  BY <1>3 DEF FailBattle, LedgerInv, Past, Sorted
<1>4. CASE ResetRound
  <2>1. Past'
    BY <1>4, <1>a DEF ResetRound, LedgerInv, Past
  <2> QED
    BY <1>4, <2>1 DEF ResetRound, LedgerInv, Sorted
<1>5. CASE RestartServer
  <2>1. Past'
    BY <1>5, <1>a DEF RestartServer, LedgerInv, Past
  <2> QED
    BY <1>5, <2>1 DEF RestartServer, LedgerInv, Sorted
<1>6. ASSUME NEW a \in Accounts, ServerTakesAck(a) PROVE LedgerInv'
  <2>1. /\ disk' = ledger' /\ Values(ledger') \subseteq Values(ledger)
        /\ Sorted(ledger') /\ UNCHANGED <<boot, round, phase, settled>>
    BY <1>6, AckBook
  <2> QED
    BY <2>1 DEF LedgerInv, Past
<1>7. CASE UNCHANGED <<boot, round, phase, ledgerVars>>
  BY <1>7 DEF LedgerInv, Past, Sorted
<1> QED
  BY <1>1, <1>2, <1>3, <1>4, <1>5, <1>6, <1>7, LedgerFrame

LEMMA LedgerInit ==
    Init => LedgerInv
<1> SUFFICES ASSUME Init PROVE LedgerInv
  OBVIOUS
<1>1. Len(<<>>) = 0
  OBVIOUS
<1>2. Values(<<>>) = {}
  BY <1>1 DEF Values
<1> QED
  BY <1>1, <1>2 DEF Init, LedgerInv, Past, Sorted

\* The ledger never takes a receipt back that has left it.
LEMMA RetiredStep ==
    TypeOK /\ LedgerInv /\ [Next]_vars =>
        \A r \in settled \ Values(ledger) : r \notin Values(ledger')
<1> SUFFICES ASSUME TypeOK, LedgerInv, [Next]_vars,
                    NEW r \in settled, r \in Values(ledger')
             PROVE  r \in Values(ledger)
  OBVIOUS
<1>1. CASE FinishBattle
  BY <1>1, FinishBook
<1>2. CASE RestartServer
  BY <1>2 DEF RestartServer, LedgerInv
<1>3. ASSUME NEW a \in Accounts, ServerTakesAck(a) PROVE r \in Values(ledger)
  BY <1>3, AckBook
<1>4. CASE \/ StartBattle \/ FailBattle \/ ResetRound
           \/ UNCHANGED <<boot, round, phase, ledgerVars>>
  BY <1>4 DEF StartBattle, FailBattle, ResetRound, ledgerVars
<1> QED
  BY <1>1, <1>2, <1>3, <1>4, LedgerFrame

\* Only a full ledger drops receipts, the oldest ones.
LEMMA EvictStep ==
    TypeOK /\ LedgerInv /\ [Next]_vars =>
        \A r \in evicted' \ evicted :
           /\ Len(ledger') = MaxReceipts
           /\ \A q \in Values(ledger') : ~Older(q, r)
<1> SUFFICES ASSUME TypeOK, LedgerInv, [Next]_vars, NEW r \in evicted' \ evicted
             PROVE  /\ Len(ledger') = MaxReceipts
                    /\ \A q \in Values(ledger') : ~Older(q, r)
  OBVIOUS
<1>1. CASE FinishBattle
  BY <1>1, FinishBook
<1>2. ASSUME NEW a \in Accounts, ServerTakesAck(a) PROVE FALSE
  BY <1>2, AckBook
<1>3. CASE \/ StartBattle \/ FailBattle \/ ResetRound \/ RestartServer
           \/ UNCHANGED <<boot, round, phase, ledgerVars>>
  BY <1>3 DEF StartBattle, FailBattle, ResetRound, RestartServer, ledgerVars
<1> QED
  BY <1>1, <1>2, <1>3, LedgerFrame

\* A receipt that was settled and has left the ledger never comes back into
\* it, restarts included.
THEOREM ReceiptsStayRetired == Spec => RetiredStaysRetired
<1>1. TypeOK /\ LedgerInv /\ [Next]_vars =>
        [\A r \in settled \ Values(ledger) : r \notin Values(ledger')]_vars
  BY RetiredStep
<1> QED
  BY <1>1, TypeInit, TypeStep, LedgerInit, LedgerStep, PTL
     DEF Spec, RetiredStaysRetired

\* Only a full ledger drops receipts, and it drops the oldest ones.
THEOREM ReceiptsEvictOldest == Spec => EvictsOldest
<1>1. TypeOK /\ LedgerInv /\ [Next]_vars =>
        [\A r \in evicted' \ evicted :
            /\ Len(ledger') = MaxReceipts
            /\ \A q \in Values(ledger') : ~Older(q, r)]_vars
  BY EvictStep
<1> QED
  BY <1>1, TypeInit, TypeStep, LedgerInit, LedgerStep, PTL
     DEF Spec, EvictsOldest

----------------------------------------------------------------------------
(* The client. *)

\* What the client holds of a receipt before it is stored: it is settled and
\* the account's own, and the award of one that is being accepted is banked
\* before its result is stored.
DownOk(a) == Values(down[a]) \subseteq settled
DeferredOk(a) ==
    \A e \in Values(deferred[a]) :
        e.receipt \in settled /\ e.receipt.account = a
AcceptingOk(a) ==
    accepting[a] # None =>
        LET r == accepting[a].receipt
        IN  r \in settled /\ r.account = a /\ r \notin Stored

\* Only what is stored, or cannot be read, is acknowledged.
UpOk(a) ==
    \A r \in Values(up[a]) : r.account = a => r \in Stored \cup Malformed

\* The career counts what its history keeps.
CareerInv == \A r \in Receipts : career[r] = IF r \in Stored THEN 1 ELSE 0

ClientInv ==
    /\ \A a \in Accounts : DownOk(a) /\ DeferredOk(a) /\ AcceptingOk(a) /\ UpOk(a)
    /\ CareerInv

\* An offer from the ledger is settled.
LEMMA DeliverOk ==
    ASSUME TypeOK, NEW book \in Seq(Receipts), NEW as, NEW offer,
           Values(book) \subseteq settled,
           \A a \in Accounts : offer[a] \in Values(book) \cup {None} /\ DownOk(a),
           Deliver(as, offer), settled' = settled
    PROVE  \A a \in Accounts : DownOk(a)'
<1> SUFFICES ASSUME NEW a \in Accounts PROVE DownOk(a)'
  OBVIOUS
<1>1. \/ down'[a] = down[a]
      \/ News(a, offer[a]) /\ down'[a] = Append(down[a], offer[a])
  BY DEF Deliver
<1>2. CASE down'[a] = down[a]
  BY <1>2 DEF DownOk
<1>3. CASE News(a, offer[a]) /\ down'[a] = Append(down[a], offer[a])
  <2>1. offer[a] \in settled /\ offer[a] \in Receipts /\ down[a] \in Seq(Receipts)
    BY <1>3 DEF News, TypeOK
  <2>2. Values(down'[a]) = Values(down[a]) \cup {offer[a]}
    BY <1>3, <2>1, AppendBook
  <2> QED
    BY <2>1, <2>2 DEF DownOk, Values
<1> QED
  BY <1>1, <1>2, <1>3

\* An acknowledgement of what is stored or cannot be read.
LEMMA AcknowledgeOk ==
    ASSUME TypeOK, NEW a \in Accounts, NEW e \in Entries, Acknowledge(a, e),
           \A b \in Accounts : UpOk(b),
           Stored \subseteq Stored',
           e.receipt.account = a => e.receipt \in Stored' \cup Malformed
    PROVE  \A b \in Accounts : UpOk(b)'
<1> SUFFICES ASSUME NEW b \in Accounts, NEW r \in Values(up'[b]), r.account = b
             PROVE  r \in Stored' \cup Malformed
  BY DEF UpOk, Values
<1>1. up[a] \in Seq(Receipts) /\ e.receipt \in Receipts
  BY DEF TypeOK, Entries
<1>2. CASE r \in Values(up[b])
  BY <1>2 DEF UpOk
<1>3. CASE r \notin Values(up[b])
  <2>1. a = b /\ up'[b] = Append(up[b], e.receipt)
    BY <1>3 DEF Acknowledge, TypeOK
  <2>2. r = e.receipt
    BY <1>1, <1>3, <2>1, AppendBook
  <2> QED
    BY <2>1, <2>2
<1> QED
  BY <1>2, <1>3

\* What the stores do with a settled receipt of the account.
LEMMA AcceptOk ==
    ASSUME TypeOK, ClientInv, NEW a \in Accounts, NEW e \in Entries, Accept(a, e),
           e.receipt \in settled, e.receipt.account = a,
           UNCHANGED <<settled, pending, archive, career>>
    PROVE  /\ \A b \in Accounts : AcceptingOk(b)' /\ UpOk(b)'
           /\ CareerInv'
<1>1. Stored' = Stored
  BY DEF Stored
<1>2. CareerInv'
  BY <1>1 DEF ClientInv, CareerInv
<1>3. CASE e.receipt \in Stored /\ Acknowledge(a, e) /\ UNCHANGED accepting
  <2>1. \A b \in Accounts : UpOk(b)'
    BY <1>1, <1>3, AcknowledgeOk DEF ClientInv
  <2> QED
    BY <1>1, <1>2, <1>3, <2>1 DEF ClientInv, AcceptingOk
<1>4. CASE /\ e.receipt \notin Stored /\ UNCHANGED up
           /\ accepting' = [accepting EXCEPT ![a] = e] \/ UNCHANGED accepting
  <2>1. \A b \in Accounts : AcceptingOk(b)'
    <3> SUFFICES ASSUME NEW b \in Accounts PROVE AcceptingOk(b)'
      OBVIOUS
    <3>1. accepting'[b] = accepting[b] \/ (a = b /\ accepting'[b] = e)
      BY <1>4 DEF TypeOK
    <3>2. CASE accepting'[b] = accepting[b]
      BY <1>1, <3>2 DEF ClientInv, AcceptingOk
    <3>3. CASE a = b /\ accepting'[b] = e
      BY <1>1, <1>4, <3>3 DEF AcceptingOk
    <3> QED
      BY <3>1, <3>2, <3>3
  <2> QED
    BY <1>1, <1>2, <1>4, <2>1 DEF ClientInv, UpOk, Values
<1> QED
  BY <1>3, <1>4 DEF Accept

\* A connection that dies takes its messages with it.
LEMMA CutOk ==
    ASSUME TypeOK, ClientInv, NEW as, Cut(as),
           UNCHANGED <<settled, pending, archive>>
    PROVE  \A a \in Accounts : DownOk(a)' /\ DeferredOk(a)' /\ AcceptingOk(a)'
<1> SUFFICES ASSUME NEW a \in Accounts
             PROVE  DownOk(a)' /\ DeferredOk(a)' /\ AcceptingOk(a)'
  OBVIOUS
<1>1. Len(<<>>) = 0 /\ Values(<<>>) = {}
  BY DEF Values
<1>2. DownOk(a)'
  <2>1. down'[a] = down[a] \/ down'[a] = <<>>
    BY DEF Cut
  <2> QED
    BY <1>1, <2>1 DEF ClientInv, DownOk, Values
<1>3. DeferredOk(a)'
  <2>1. deferred'[a] = deferred[a] \/ deferred'[a] = Dead(deferred[a])
    BY DEF Cut
  <2>2. deferred[a] \in Seq(Entries) /\ Len(deferred[a]) \in Nat
    BY LenProperties DEF TypeOK
  <2>3. /\ Len(Dead(deferred[a])) = Len(deferred[a])
        /\ \A i \in 1..Len(deferred[a]) :
             /\ Dead(deferred[a])[i] = [deferred[a][i] EXCEPT !.live = FALSE]
             /\ deferred[a][i] \in Entries
    BY <2>2, ElementOfSeq DEF Dead
  <2>4. \A x \in Entries : [x EXCEPT !.live = FALSE].receipt = x.receipt
    BY DEF Entries
  <2>5. CASE deferred'[a] = Dead(deferred[a])
    <3> SUFFICES ASSUME NEW i \in 1..Len(deferred'[a])
                 PROVE  /\ deferred'[a][i].receipt \in settled
                        /\ deferred'[a][i].receipt.account = a
      BY DEF DeferredOk, Values
    <3>1. i \in 1..Len(deferred[a])
      BY <2>3, <2>5
    <3>2. deferred'[a][i].receipt = deferred[a][i].receipt
      BY <2>3, <2>4, <2>5, <3>1
    <3> QED
      BY <3>1, <3>2 DEF ClientInv, DeferredOk, Values
  <2> QED
    BY <2>1, <2>5 DEF ClientInv, DeferredOk, Values
<1>4. AcceptingOk(a)'
  <2>1. \A x \in Entries : [x EXCEPT !.live = FALSE].receipt = x.receipt
    BY DEF Entries
  <2>2. \/ accepting'[a] = accepting[a]
        \/ accepting[a] # None /\ accepting'[a] = [accepting[a] EXCEPT !.live = FALSE]
    BY DEF Cut
  <2>3. Stored' = Stored
    BY DEF Stored
  <2>4. CASE accepting'[a] = accepting[a]
    BY <2>3, <2>4 DEF ClientInv, AcceptingOk
  <2>5. CASE /\ accepting[a] # None
             /\ accepting'[a] = [accepting[a] EXCEPT !.live = FALSE]
    <3>1. accepting'[a].receipt = accepting[a].receipt
      BY <2>1, <2>5 DEF TypeOK
    <3> QED
      BY <2>3, <2>5, <3>1 DEF ClientInv, AcceptingOk
  <2> QED
    BY <2>2, <2>4, <2>5
<1> QED
  BY <1>2, <1>3, <1>4

\* Steps of the server preserve what the client may rely on.
LEMMA ServerClientStep ==
    TypeOK /\ LedgerInv /\ ClientInv /\ ServerNext => ClientInv'
<1> SUFFICES ASSUME TypeOK, LedgerInv, ClientInv, ServerNext PROVE ClientInv'
  OBVIOUS
<1> USE DEF clientVars, saveVars
<1>a. Len(<<>>) = 0 /\ Values(<<>>) = {}
  BY DEF Values
<1>b. ASSUME UNCHANGED <<pending, archive, career>> PROVE CareerInv'
  BY <1>b DEF ClientInv, CareerInv, Stored
<1>c. ASSUME UNCHANGED <<deferred, accepting, pending, archive>>,
             settled \subseteq settled'
      PROVE  \A a \in Accounts : DeferredOk(a)' /\ AcceptingOk(a)'
  BY <1>c DEF ClientInv, DeferredOk, AcceptingOk, Stored, Values
<1>d. ASSUME UNCHANGED down, settled \subseteq settled'
      PROVE  \A a \in Accounts : DownOk(a)'
  BY <1>d DEF ClientInv, DownOk, Values
<1>e. ASSUME UNCHANGED <<up, pending, archive>> PROVE \A a \in Accounts : UpOk(a)'
  BY <1>e DEF ClientInv, UpOk, Stored, Values
<1>f. ASSUME NEW a \in Accounts, up[a] # <<>>, up' = [up EXCEPT ![a] = Tail(@)],
             UNCHANGED <<pending, archive>>
      PROVE  \A b \in Accounts : UpOk(b)'
  <2>1. up[a] \in Seq(Receipts)
    BY DEF TypeOK
  <2>2. \A b \in Accounts : Values(up'[b]) \subseteq Values(up[b])
    BY SMTT(30), <1>f, <2>1, TailBook DEF TypeOK
  <2> QED
    BY <1>f, <2>2 DEF ClientInv, UpOk, Stored, Values
<1>1. CASE StartBattle \/ FinishBattle \/ FailBattle \/ ResetRound
  <2>1. /\ UNCHANGED <<deferred, accepting, pending, archive, career, up, down>>
        /\ settled \subseteq settled'
    BY <1>1 DEF StartBattle, FinishBattle, FailBattle, ResetRound, wireVars,
                ledgerVars
  <2> QED
    BY <2>1, <1>b, <1>c, <1>d, <1>e DEF ClientInv
<1>2. CASE TerminalBarrier
  <2>1. /\ Deliver(Connected, [a \in Accounts |-> BarrierOffer(a)])
        /\ UNCHANGED <<deferred, accepting, pending, archive, career, up, settled>>
    BY <1>2 DEF TerminalBarrier, ledgerVars
  <2>2. \A a \in Accounts : BarrierOffer(a) \in Values(ledger) \cup {None}
    BY FirstOfBook DEF BarrierOffer, OfRound, TypeOK
  <2>3. \A a \in Accounts : DownOk(a)'
    <3> DEFINE offer == [a \in Accounts |-> BarrierOffer(a)]
    <3>1. \A a \in Accounts : offer[a] \in Values(ledger) \cup {None} /\ DownOk(a)
      BY <2>2 DEF ClientInv
    <3>2. Deliver(Connected, offer) /\ ledger \in Seq(Receipts) /\ settled' = settled
          /\ Values(ledger) \subseteq settled
      BY <2>1 DEF LedgerInv, TypeOK
    <3> HIDE DEF offer
    <3> QED
      BY <3>1, <3>2, DeliverOk
  <2> QED
    BY <2>1, <2>3, <1>b, <1>c, <1>e DEF ClientInv
<1>3. ASSUME NEW a \in Accounts, TickDelivers(a) PROVE ClientInv'
  <2>1. /\ Deliver({a}, [b \in Accounts |-> Oldest(ledger, b)])
        /\ UNCHANGED <<deferred, accepting, pending, archive, career, up, settled>>
    BY <1>3 DEF TickDelivers, ledgerVars
  <2>2. \A b \in Accounts : DownOk(b)'
    <3> DEFINE offer == [b \in Accounts |-> Oldest(ledger, b)]
    <3>1. \A b \in Accounts : offer[b] \in Values(ledger) \cup {None} /\ DownOk(b)
      BY FirstOfBook DEF ClientInv, Oldest, TypeOK
    <3>2. Deliver({a}, offer) /\ ledger \in Seq(Receipts) /\ settled' = settled
          /\ Values(ledger) \subseteq settled
      BY <2>1 DEF LedgerInv, TypeOK
    <3> HIDE DEF offer
    <3> QED
      BY <3>1, <3>2, DeliverOk
  <2> QED
    BY <2>1, <2>2, <1>b, <1>c, <1>e DEF ClientInv
<1>4. ASSUME NEW a \in Accounts, ServerTakesAck(a) PROVE ClientInv'
  <2>1. PICK i \in 1..Len(ledger) :
           Deliver({a}, [b \in Accounts |-> Oldest(Without(ledger, i), b)])
    BY <1>4 DEF ServerTakesAck
  <2>2. /\ up[a] # <<>> /\ up' = [up EXCEPT ![a] = Tail(@)]
        /\ UNCHANGED <<deferred, accepting, pending, archive, career, settled>>
    BY <1>4 DEF ServerTakesAck
  <2>3. /\ Without(ledger, i) \in Seq(Receipts)
        /\ Values(Without(ledger, i)) \subseteq settled
    BY WithoutBook DEF TypeOK, LedgerInv
  <2>4. \A b \in Accounts : DownOk(b)'
    <3> DEFINE book == Without(ledger, i)
               offer == [b \in Accounts |-> Oldest(book, b)]
    <3>1. book \in Seq(Receipts) /\ Values(book) \subseteq settled
      BY <2>3
    <3>2. Deliver({a}, offer) /\ settled' = settled
      BY <2>1, <2>2
    <3> HIDE DEF book
    <3>3. \A b \in Accounts : offer[b] \in Values(book) \cup {None} /\ DownOk(b)
      BY <3>1, FirstOfBook DEF ClientInv, Oldest
    <3> HIDE DEF offer
    <3> QED
      BY <3>1, <3>2, <3>3, DeliverOk
  <2> QED
    BY <2>2, <2>4, <1>b, <1>c, <1>f DEF ClientInv
<1>5. ASSUME NEW a \in Accounts, ServerIgnoresAck(a) PROVE ClientInv'
  <2>1. /\ up[a] # <<>> /\ up' = [up EXCEPT ![a] = Tail(@)]
        /\ UNCHANGED <<down, deferred, accepting, pending, archive, career, settled>>
    BY <1>5 DEF ServerIgnoresAck, ledgerVars
  <2> QED
    BY <2>1, <1>b, <1>c, <1>d, <1>f DEF ClientInv
<1>6. ASSUME NEW a \in Accounts, RemovePlayer(a) PROVE ClientInv'
  <2>1. /\ up' = [up EXCEPT ![a] = <<>>]
        /\ UNCHANGED <<down, deferred, accepting, pending, archive, career, settled>>
    BY <1>6 DEF RemovePlayer, ledgerVars
  <2>2. \A b \in Accounts : UpOk(b)'
    <3>1. \A b \in Accounts : up'[b] = up[b] \/ up'[b] = <<>>
      BY <2>1 DEF TypeOK
    <3> QED
      BY <2>1, <3>1, <1>a DEF ClientInv, UpOk, Stored, Values
  <2> QED
    BY <2>1, <2>2, <1>b, <1>c, <1>d DEF ClientInv
<1>7. CASE RestartServer
  <2>1. /\ Cut({a \in Accounts : conn[a] = "open"})
        /\ up' = [a \in Accounts |-> <<>>]
        /\ UNCHANGED <<pending, archive, career, settled>>
    BY <1>7 DEF RestartServer
  <2>2. \A b \in Accounts : UpOk(b)'
    BY <2>1, <1>a DEF UpOk, Values
  <2> QED
    BY <2>1, <2>2, <1>b, CutOk DEF ClientInv
<1> QED
  BY <1>1, <1>2, <1>3, <1>4, <1>5, <1>6, <1>7 DEF ServerNext

\* So do those of a session.
LEMMA SessionClientStep ==
    ASSUME TypeOK, LedgerInv, ClientInv, NEW a \in Accounts, SessionNext(a)
    PROVE  ClientInv'
<1> USE DEF saveVars, ledgerVars
<1>a. Len(<<>>) = 0 /\ Values(<<>>) = {}
  BY DEF Values
<1>b. /\ CareerInv' /\ UNCHANGED <<settled, pending, archive>>
      /\ \A b \in Accounts : UpOk(b)'
  <2>1. UNCHANGED <<settled, pending, archive, career, up>>
    BY DEF SessionNext, Connect, Lose, EnterBattle, LeaveBattle, Stop, Stopped,
           CrashClient, wireVars
  <2> QED
    BY <2>1 DEF ClientInv, CareerInv, UpOk, Stored, Values
<1>1. CASE EnterBattle(a) \/ LeaveBattle(a) \/ Stop(a)
  <2>1. UNCHANGED <<down, deferred, accepting>>
    BY <1>1 DEF EnterBattle, LeaveBattle, Stop, wireVars
  <2> QED
    BY <2>1, <1>b DEF ClientInv, DownOk, DeferredOk, AcceptingOk, Stored, Values
<1>2. CASE Connect(a)
  <2>1. UNCHANGED <<deferred, accepting>>
    BY <1>2 DEF Connect
  <2>2. \A b \in Accounts : DownOk(b)'
    <3> DEFINE r == Oldest(ledger, a)
    <3>1. down' = [down EXCEPT ![a] = IF r = None THEN <<>> ELSE <<r>>]
      BY <1>2 DEF Connect
    <3>2. r \in settled \/ r = None
      BY FirstOfBook DEF Oldest, TypeOK, LedgerInv
    <3> HIDE DEF r
    <3>3. Values(<<r>>) = {r}
      BY DEF Values
    <3>4. \A b \in Accounts : \/ down'[b] = down[b] \/ down'[b] = <<>>
                              \/ r # None /\ down'[b] = <<r>>
      BY <3>1 DEF TypeOK
    <3> SUFFICES ASSUME NEW b \in Accounts PROVE Values(down'[b]) \subseteq settled
      BY <1>b DEF DownOk, Values
    <3> QED
      BY <3>2, <3>3, <3>4, <1>a DEF ClientInv, DownOk
  <2> QED
    BY <2>1, <2>2, <1>b DEF ClientInv, DeferredOk, AcceptingOk, Stored, Values
<1>3. CASE Lose(a)
  <2>1. Cut({a})
    BY <1>3 DEF Lose
  <2> QED
    BY <2>1, <1>b, CutOk DEF ClientInv
<1>4. CASE Stopped(a) \/ CrashClient(a)
  <2>1. /\ down' = [down EXCEPT ![a] = <<>>]
        /\ deferred' = deferred \/ deferred' = [deferred EXCEPT ![a] = <<>>]
        /\ accepting' = accepting \/ accepting' = [accepting EXCEPT ![a] = None]
    BY <1>4 DEF Stopped, CrashClient
  <2>2. ASSUME NEW b \in Accounts
        PROVE  DownOk(b)' /\ DeferredOk(b)' /\ AcceptingOk(b)'
    <3>1. /\ down'[b] = down[b] \/ down'[b] = <<>>
          /\ deferred'[b] = deferred[b] \/ deferred'[b] = <<>>
          /\ accepting'[b] = accepting[b] \/ accepting'[b] = None
      BY <2>1 DEF TypeOK
    <3>2. DownOk(b)'
      BY <3>1, <1>a, <1>b DEF ClientInv, DownOk, Values
    <3>3. DeferredOk(b)'
      BY <3>1, <1>a, <1>b DEF ClientInv, DeferredOk, Values
    <3>4. AcceptingOk(b)'
      BY <3>1, <1>b DEF ClientInv, AcceptingOk, Stored
    <3> QED
      BY <3>2, <3>3, <3>4
  <2> QED
    BY <2>2, <1>b DEF ClientInv
<1> QED
  BY <1>1, <1>2, <1>3, <1>4 DEF SessionNext

\* The stores too: a receipt is acknowledged when it is stored, and stored once.
LEMMA ReceiptClientStep ==
    ASSUME TypeOK, ClientInv, NEW a \in Accounts, ReceiptNext(a)
    PROVE  ClientInv'
<1> USE DEF ledgerVars, saveVars
<1>a. settled' = settled
  BY DEF ReceiptNext, ReceiveMalformed, ReceiveInGarage, ReceiveInBattle,
         DrainDeferred, StoreResult, StoreFails
<1> DEFINE h == Head(down[a])
           e == [receipt |-> h, live |-> TRUE]
<1>b. ASSUME down[a] # <<>>, down' = [down EXCEPT ![a] = Tail(@)]
      PROVE  /\ h \in settled /\ e \in Entries /\ e.receipt = h
             /\ \A b \in Accounts : DownOk(b)'
  <2>1. down[a] \in Seq(Receipts)
    BY DEF TypeOK
  <2>2. h \in Receipts /\ h \in Values(down[a])
    BY <1>b, <2>1, TailBook
  <2>3. \A b \in Accounts : Values(down'[b]) \subseteq Values(down[b])
    BY SMTT(30), <1>b, <2>1, TailBook DEF TypeOK
  <2>4. \A b \in Accounts : DownOk(b)'
    BY <2>3, <1>a DEF ClientInv, DownOk, Values
  <2> QED
    BY <2>2, <2>4, EntryType DEF ClientInv, DownOk
<1> HIDE DEF e, h
<1>c. ASSUME UNCHANGED down PROVE \A b \in Accounts : DownOk(b)'
  BY <1>a, <1>c DEF ClientInv, DownOk, Values
<1>d. ASSUME UNCHANGED deferred PROVE \A b \in Accounts : DeferredOk(b)'
  BY <1>a, <1>d DEF ClientInv, DeferredOk, Values
<1>e. ASSUME UNCHANGED <<pending, archive, career>> PROVE CareerInv'
  BY <1>e DEF ClientInv, CareerInv, Stored
<1>f. ASSUME UNCHANGED <<accepting, pending, archive>>
      PROVE  \A b \in Accounts : AcceptingOk(b)'
  BY <1>a, <1>f DEF ClientInv, AcceptingOk, Stored
<1>g. ASSUME UNCHANGED <<up, pending, archive>> PROVE \A b \in Accounts : UpOk(b)'
  BY <1>g DEF ClientInv, UpOk, Stored, Values
<1>1. CASE ReceiveMalformed(a)
  <2>1. /\ down[a] # <<>> /\ down' = [down EXCEPT ![a] = Tail(@)]
        /\ ~Readable(a, h) /\ Acknowledge(a, e)
        /\ UNCHANGED <<deferred, accepting, pending, archive, career>>
    BY <1>1 DEF ReceiveMalformed, clientVars, e, h
  <2>2. \A b \in Accounts : UpOk(b)'
    BY <2>1, <1>b, AcknowledgeOk DEF ClientInv, Readable, Stored
  <2> QED
    BY <2>1, <2>2, <1>b, <1>d, <1>e, <1>f DEF ClientInv
<1>2. CASE ReceiveInGarage(a)
  <2>1. /\ down[a] # <<>> /\ down' = [down EXCEPT ![a] = Tail(@)]
        /\ Readable(a, h) /\ Accept(a, e)
        /\ UNCHANGED <<deferred, pending, archive, career>>
    BY <1>2 DEF ReceiveInGarage, e, h
  <2>2. /\ \A b \in Accounts : AcceptingOk(b)' /\ UpOk(b)'
        /\ CareerInv'
    BY <2>1, <1>a, <1>b, AcceptOk DEF Readable
  <2> QED
    BY <2>1, <2>2, <1>b, <1>d DEF ClientInv
<1>3. CASE ReceiveInBattle(a)
  <2>1. /\ down[a] # <<>> /\ down' = [down EXCEPT ![a] = Tail(@)]
        /\ Readable(a, h) /\ Defer(a, e)
        /\ UNCHANGED <<up, accepting, pending, archive, career>>
    BY <1>3 DEF ReceiveInBattle, e, h
  <2>2. e \in Entries /\ e.receipt \in settled /\ e.receipt.account = a
    BY <2>1, <1>b DEF Readable
  <2>3. \A b \in Accounts : DeferredOk(b)'
    <3> SUFFICES ASSUME NEW b \in Accounts PROVE DeferredOk(b)'
      OBVIOUS
    <3> DEFINE moved == [i \in 1..Len(deferred[a]) |->
                           IF i \in Known(a, e.receipt) THEN e ELSE deferred[a][i]]
    <3>1. deferred[a] \in Seq(Entries) /\ Len(deferred[a]) \in Nat
      BY LenProperties DEF TypeOK
    <3>2. Values(Append(deferred[a], e)) = Values(deferred[a]) \cup {e}
      BY <2>2, <3>1, AppendBook
    <3>3. Len(moved) = Len(deferred[a])
      BY <3>1
    <3>4. Values(moved) \subseteq Values(deferred[a]) \cup {e}
      BY <3>1, <3>3 DEF Values
    <3>5. \/ deferred'[b] = deferred[b]
          \/ b = a /\ deferred'[b] = Append(deferred[a], e)
          \/ b = a /\ deferred'[b] = moved
      BY <2>1 DEF Defer, TypeOK
    <3> HIDE DEF moved
    <3>6. \/ deferred'[b] = deferred[b]
          \/ b = a /\ Values(deferred'[b]) \subseteq Values(deferred[a]) \cup {e}
      BY <3>2, <3>4, <3>5
    <3>7. CASE deferred'[b] = deferred[b]
      BY <3>7, <1>a DEF ClientInv, DeferredOk, Values
    <3>8. CASE b = a /\ Values(deferred'[b]) \subseteq Values(deferred[a]) \cup {e}
      <4>1. \A x \in Values(deferred[a]) :
               x.receipt \in settled /\ x.receipt.account = a
        BY DEF ClientInv, DeferredOk
      <4>2. \A x \in Values(deferred'[b]) :
               x.receipt \in settled /\ x.receipt.account = b
        BY <2>2, <3>8, <4>1
      <4> QED
        BY <4>2, <1>a DEF DeferredOk, Values
    <3> QED
      BY <3>6, <3>7, <3>8
  <2> QED
    BY <2>1, <2>3, <1>b, <1>e, <1>f, <1>g DEF ClientInv
<1>4. CASE DrainDeferred(a)
  <2>1. /\ deferred[a] # <<>> /\ deferred' = [deferred EXCEPT ![a] = Tail(@)]
        /\ Accept(a, Head(deferred[a]))
        /\ UNCHANGED <<down, pending, archive, career>>
    BY <1>4 DEF DrainDeferred
  <2>2. deferred[a] \in Seq(Entries)
    BY DEF TypeOK
  <2>3. /\ Head(deferred[a]) \in Entries /\ Head(deferred[a]) \in Values(deferred[a])
        /\ Values(Tail(deferred[a])) \subseteq Values(deferred[a])
    BY <2>1, <2>2, TailBook
  <2>4. Head(deferred[a]).receipt \in settled
        /\ Head(deferred[a]).receipt.account = a
    BY <2>3 DEF ClientInv, DeferredOk
  <2>5. /\ \A b \in Accounts : AcceptingOk(b)' /\ UpOk(b)'
        /\ CareerInv'
    BY <2>1, <2>3, <2>4, <1>a, AcceptOk
  <2>6. \A b \in Accounts : Values(deferred'[b]) \subseteq Values(deferred[b])
    BY <2>1, <2>3 DEF TypeOK
  <2>7. \A b \in Accounts : DeferredOk(b)'
    BY <2>6, <1>a DEF ClientInv, DeferredOk, Values
  <2> QED
    BY <2>1, <2>5, <2>7, <1>c DEF ClientInv
<1>5. CASE StoreResult(a)
  <2> DEFINE r == accepting[a].receipt
  <2>1. /\ accepting[a] \in Entries /\ r \in Receipts
        /\ r \in settled /\ r.account = a /\ r \notin Stored
    BY <1>5 DEF StoreResult, ClientInv, AcceptingOk, TypeOK, Entries
  <2>2. /\ pending' = pending \cup {r} /\ archive' = archive
        /\ career' = [career EXCEPT ![r] = @ + 1]
        /\ Acknowledge(a, accepting[a])
        /\ accepting' = [accepting EXCEPT ![a] = None]
        /\ UNCHANGED <<down, deferred>>
    BY <1>5 DEF StoreResult
  <2>3. Stored' = Stored \cup {r}
    BY <2>2 DEF Stored
  <2>4. \A b \in Accounts : UpOk(b)'
    BY <2>1, <2>2, <2>3, AcknowledgeOk DEF ClientInv
  <2>5. CareerInv'
    BY <2>1, <2>2, <2>3 DEF ClientInv, CareerInv, TypeOK
  <2>6. \A b \in Accounts : AcceptingOk(b)'
    <3> SUFFICES ASSUME NEW b \in Accounts, accepting'[b] # None
                 PROVE  AcceptingOk(b)'
      BY DEF AcceptingOk
    <3>1. b # a /\ accepting'[b] = accepting[b]
      BY <2>2 DEF TypeOK
    <3>2. /\ accepting[b].receipt \in settled /\ accepting[b].receipt.account = b
          /\ accepting[b].receipt \notin Stored
      BY <3>1 DEF ClientInv, AcceptingOk
    <3> QED
      BY <2>1, <2>3, <3>1, <3>2, <1>a DEF AcceptingOk
  <2> QED
    BY <2>2, <2>4, <2>5, <2>6, <1>c, <1>d DEF ClientInv
<1>6. CASE StoreFails(a)
  <2>1. /\ accepting' = [accepting EXCEPT ![a] = None]
        /\ UNCHANGED <<down, deferred, up, pending, archive, career>>
    BY <1>6 DEF StoreFails, wireVars
  <2>2. \A b \in Accounts : AcceptingOk(b)'
    <3>1. \A b \in Accounts : accepting'[b] = accepting[b] \/ accepting'[b] = None
      BY <2>1 DEF TypeOK
    <3> QED
      BY <2>1, <3>1, <1>a DEF ClientInv, AcceptingOk, Stored
  <2> QED
    BY <2>1, <2>2, <1>c, <1>d, <1>e, <1>g DEF ClientInv
<1> QED
  BY <1>1, <1>2, <1>3, <1>4, <1>5, <1>6 DEF ReceiptNext

\* Every step preserves the invariant of the client.
LEMMA ClientStep ==
    TypeOK /\ LedgerInv /\ ClientInv /\ [Next]_vars => ClientInv'
<1> SUFFICES ASSUME TypeOK, LedgerInv, ClientInv, [Next]_vars PROVE ClientInv'
  OBVIOUS
<1>1. ASSUME NEW r \in Receipts, ClaimResult(r) PROVE ClientInv'
  <2>1. UNCHANGED <<settled, down, up, deferred, accepting, career>>
    BY <1>1 DEF ClaimResult, ledgerVars, wireVars, clientVars
  <2>2. Stored' = Stored
    BY <1>1 DEF ClaimResult, Stored
  <2> QED
    BY <2>1, <2>2 DEF ClientInv, CareerInv, DownOk, DeferredOk, AcceptingOk, UpOk,
                      Values
<1>2. CASE UNCHANGED vars
  BY <1>2 DEF vars, ledgerVars, wireVars, clientVars, saveVars, ClientInv,
              CareerInv, DownOk, DeferredOk, AcceptingOk, UpOk, Values, Stored
<1> QED
  BY <1>1, <1>2, ServerClientStep, SessionClientStep, ReceiptClientStep DEF Next

LEMMA ClientInit ==
    Init => ClientInv
<1> SUFFICES ASSUME Init PROVE ClientInv
  OBVIOUS
<1>1. Values(<<>>) = {}
  BY DEF Values
<1> QED
  BY <1>1 DEF Init, ClientInv, CareerInv, DownOk, DeferredOk, AcceptingOk, UpOk,
              Stored

----------------------------------------------------------------------------
(* What the two ends promise each other. *)

\* Nothing settled or stored is forgotten, and only the store counts a result.
LEMMA Monotone ==
    ASSUME [Next]_vars
    PROVE  /\ settled \subseteq settled' /\ Stored \subseteq Stored'
           /\ UNCHANGED career \/ \E a \in Accounts : StoreResult(a)
<1> USE DEF ledgerVars, saveVars
<1>1. CASE ServerNext
  BY <1>1 DEF ServerNext, StartBattle, FinishBattle, FailBattle, TerminalBarrier,
              ResetRound, RestartServer, TickDelivers, ServerTakesAck,
              ServerIgnoresAck, RemovePlayer, Stored
<1>2. ASSUME NEW a \in Accounts, SessionNext(a)
      PROVE  UNCHANGED <<settled, pending, archive, career>>
  BY <1>2 DEF SessionNext, Connect, Lose, EnterBattle, LeaveBattle, Stop,
              Stopped, CrashClient
<1>3. ASSUME NEW a \in Accounts, ReceiptNext(a)
      PROVE  /\ settled' = settled /\ Stored \subseteq Stored'
             /\ UNCHANGED career \/ StoreResult(a)
  BY <1>3 DEF ReceiptNext, ReceiveMalformed, ReceiveInGarage, ReceiveInBattle,
              DrainDeferred, StoreResult, StoreFails, Stored
<1>4. ASSUME NEW r \in Receipts, ClaimResult(r)
      PROVE  /\ UNCHANGED <<settled, career>> /\ Stored \subseteq Stored'
  BY <1>4 DEF ClaimResult, Stored
<1>5. CASE UNCHANGED vars
  BY <1>5 DEF vars, Stored
<1> QED
  BY <1>1, <1>2, <1>3, <1>4, <1>5 DEF Next, Stored

\* What leaves the ledger was acknowledged or dropped by the limit, and what
\* was acknowledged is stored.
LEMMA DurableStep ==
    TypeOK /\ LedgerInv /\ ClientInv /\ AckedIsDurable /\ [Next]_vars
        => AckedIsDurable'
<1> SUFFICES ASSUME TypeOK, LedgerInv, ClientInv, AckedIsDurable, [Next]_vars,
                    NEW r \in settled' \ (evicted' \cup Malformed),
                    r \notin Stored'
             PROVE  r \in Values(disk')
  BY DEF AckedIsDurable, Values
<1>1. r \notin Stored
  BY Monotone
<1>2. ASSUME r \in settled, r \notin evicted PROVE r \in Values(ledger)
  BY <1>1, <1>2 DEF AckedIsDurable, LedgerInv
<1>3. CASE FinishBattle
  BY <1>2, <1>3, FinishBook
<1>4. CASE RestartServer
  BY <1>2, <1>4 DEF RestartServer, LedgerInv
<1>5. ASSUME NEW a \in Accounts, ServerTakesAck(a) PROVE r \in Values(disk')
  <2>1. /\ r \in Values(ledger) /\ disk' = ledger'
        /\ Values(ledger) \subseteq Values(ledger') \cup {Head(up[a])}
        /\ Head(up[a]).account = a
    BY <1>2, <1>5, AckBook
  <2>2. Head(up[a]) \in Values(up[a])
    BY <1>5, AckBook, TailBook DEF TypeOK
  <2>3. r # Head(up[a])
    BY <1>1, <2>1, <2>2 DEF ClientInv, UpOk
  <2> QED
    BY <2>1, <2>3
<1>6. CASE \/ StartBattle \/ FailBattle \/ ResetRound
           \/ UNCHANGED <<boot, round, phase, ledgerVars>>
  BY <1>2, <1>6 DEF StartBattle, FailBattle, ResetRound, ledgerVars, LedgerInv
<1> QED
  BY <1>3, <1>4, <1>5, <1>6, LedgerFrame

\* "Remove one receipt only after its owning client durably accepted it",
\* whatever is lost, fails or stops.
THEOREM ReceiptsAckedIsDurable == Spec => []AckedIsDurable
<1>1. Init => AckedIsDurable
  BY DEF Init, AckedIsDurable
<1> QED
  BY <1>1, TypeInit, TypeStep, LedgerInit, LedgerStep, ClientInit, ClientStep,
     DurableStep, PTL DEF Spec

\* A step of the program settles battles, counts one settled result that was
\* not counted, or does neither.
LEMMA CareerStep ==
    TypeOK /\ TypeOK' /\ ClientInv /\ [Next]_vars =>
        [Career!Earn \/ \E r \in Receipts : Career!Pay(r)]_(Career!rewardVars)
<1> SUFFICES ASSUME TypeOK, TypeOK', ClientInv, [Next]_vars
             PROVE  Career!Earn \/ \E r \in Receipts : Career!Pay(r)
  OBVIOUS
<1>1. CASE UNCHANGED career
  BY <1>1, Monotone DEF Career!Earn, TypeOK
<1>2. ASSUME NEW a \in Accounts, StoreResult(a)
      PROVE  \E r \in Receipts : Career!Pay(r)
  <2> DEFINE r == accepting[a].receipt
  <2>1. r \in Receipts /\ r \in settled /\ r \notin Stored
    BY <1>2 DEF StoreResult, ClientInv, AcceptingOk, TypeOK, Entries
  <2>2. career[r] = 0
    BY <2>1 DEF ClientInv, CareerInv
  <2>3. career' = [career EXCEPT ![r] = career[r] + 1] /\ settled' = settled
    BY <1>2 DEF StoreResult, ledgerVars
  <2> HIDE DEF r
  <2>4. Career!Pay(r)
    BY <2>1, <2>2, <2>3 DEF Career!Pay
  <2> QED
    BY <2>1, <2>4
<1> QED
  BY <1>1, <1>2, Monotone

\* The career counts every settled result at most once.
THEOREM ReceiptsCountOnce == Spec => CountsOnce
<1>1. Init => Career!Init
  BY DEF Init, Career!Init
<1> QED
  BY <1>1, TypeInit, TypeStep, LedgerInit, LedgerStep, ClientInit, ClientStep,
     CareerStep, PTL DEF Spec, CountsOnce, Career!Spec

----------------------------------------------------------------------------
(* The garage. *)

\* No row of a journal is there twice.
Distinct(s) == \A i, j \in 1..Len(s) : s[i] = s[j] => i = j

\* An account has finitely many receipts, so it banked finitely many.
LEMMA BankedFinite ==
    ASSUME NEW a \in Accounts
    PROVE  IsFiniteSet(Banked(a))
<1> DEFINE own == {r \in Receipts : r.account = a}
           rows == (1..MaxBoot) \X (1..MaxRound)
           f == [p \in rows |-> [account |-> a, boot |-> p[1], round |-> p[2]]]
<1>1. IsFiniteSet(1..MaxBoot) /\ IsFiniteSet(1..MaxRound)
  BY ReceiptsAssumption, FS_Interval
<1>2. IsFiniteSet(rows)
  <2> DEFINE B == 1..MaxBoot
             R == 1..MaxRound
  <2>1. IsFiniteSet(B) /\ IsFiniteSet(R)
    BY <1>1
  <2> HIDE DEF B, R
  <2>2. IsFiniteSet(B \X R)
    BY <2>1, FS_Product
  <2>3. rows = B \X R
    BY DEF B, R
  <2> QED
    BY <2>2, <2>3
<1>3. f \in [rows -> own]
  BY DEF Receipts
<1>4. ASSUME NEW r \in own PROVE \E p \in rows : f[p] = r
  <2>1. /\ r = [account |-> a, boot |-> r.boot, round |-> r.round]
        /\ <<r.boot, r.round>> \in rows
    BY DEF Receipts
  <2> QED
    BY <2>1
<1>5. f \in Surjection(rows, own)
  <2> HIDE DEF f, own, rows
  <2> QED
    BY <1>3, <1>4, Fun_IsSurj
<1> HIDE DEF f, rows
<1>6. IsFiniteSet(own)
  <2> HIDE DEF own
  <2> QED
    BY <1>2, <1>5, FS_Surjection
<1>7. Banked(a) \in SUBSET own
  BY DEF Banked
<1> HIDE DEF own
<1> QED
  BY <1>6, <1>7, FS_Subset

\* The journal of an account: its newest awards, each banked and there once.
JournalOf(a) ==
    /\ Len(markers[a]) <= MaxMarkers
    /\ Distinct(markers[a])
    /\ \A r \in Values(markers[a]) : r.account = a
    /\ accepting[a] # None => wallet[accepting[a].receipt] > 0

\* An award that was banked is in the journal, or as many others were banked
\* as the journal has rows.  Only such an award is banked again.
Remembered(r) ==
    \/ r \in Values(markers[r.account])
    \/ MaxMarkers <= Cardinality(Banked(r.account) \ {r})
AwardOf(r) ==
    /\ r \in Values(markers[r.account]) => wallet[r] > 0
    /\ r \in Stored => wallet[r] > 0
    /\ wallet[r] > 0 => r \in settled /\ Remembered(r)
    /\ wallet[r] > 1 => MaxMarkers < Cardinality(Banked(r.account))

JournalInv ==
    /\ \A a \in Accounts : JournalOf(a)
    /\ \A r \in Receipts : AwardOf(r)

\* A new award is marked; when the full journal drops another, it is full of
\* others again.
LEMMA BankStep ==
    ASSUME NEW s \in Seq(Receipts), NEW r \in Receipts, NEW n \in Nat \ {0},
           Len(s) <= n, Distinct(s), r \notin Values(s)
    PROVE  LET new == Newest(Append(s, r), n)
           IN  /\ new \in Seq(Receipts) /\ Len(new) <= n /\ Distinct(new)
               /\ r \in Values(new) /\ Values(new) \subseteq Values(s) \cup {r}
               /\ Values(s) \subseteq Values(new) \/ Len(new) = n
<1> DEFINE t == Append(s, r)
           new == Newest(t, n)
<1>1. /\ t \in Seq(Receipts) /\ Values(t) = Values(s) \cup {r}
      /\ Len(t) = Len(s) + 1
  BY AppendBook
<1>2. /\ \A i \in 1..Len(s) : t[i] = s[i]
      /\ t[Len(s) + 1] = r
  BY AppendProperties
<1>3. Len(s) \in Nat
  BY LenProperties
<1>4. Distinct(t)
  <2> SUFFICES ASSUME NEW i \in 1..Len(t), NEW j \in 1..Len(t), t[i] = t[j]
               PROVE  i = j
    BY DEF Distinct
  <2>1. \A k \in 1..Len(s) : s[k] # r
    BY DEF Values
  <2> HIDE DEF t
  <2>2. /\ i \in 1..Len(s) \/ i = Len(s) + 1
        /\ j \in 1..Len(s) \/ j = Len(s) + 1
    BY <1>1, <1>3
  <2>3. CASE i \in 1..Len(s) /\ j \in 1..Len(s)
    BY <1>2, <2>3 DEF Distinct, t
  <2> QED
    BY <1>2, <2>1, <2>2, <2>3 DEF t
<1> HIDE DEF t
<1>5. CASE Len(t) <= n
  <2>1. new = t
    BY <1>1, <1>5, NewestBook
  <2> QED
    BY <1>1, <1>4, <1>5, <2>1 DEF t
<1>6. CASE Len(t) > n
  <2>1. /\ new \in Seq(Receipts) /\ Len(new) = n
        /\ Values(new) \subseteq Values(t)
        /\ \A i \in 1..n : new[i] = t[Len(t) - n + i]
    BY <1>1, <1>6, NewestBook
  <2>2. Len(t) \in Nat /\ \A i \in 1..n : Len(t) - n + i \in 1..Len(t)
    BY <1>1, <1>3, <1>6
  <2> HIDE DEF new
  <2>3. Distinct(new)
    <3> SUFFICES ASSUME NEW i \in 1..n, NEW j \in 1..n, new[i] = new[j]
                 PROVE  i = j
      BY <2>1 DEF Distinct
    <3>1. t[Len(t) - n + i] = t[Len(t) - n + j]
      BY <2>1
    <3>2. Len(t) - n + i = Len(t) - n + j
      BY <1>4, <2>2, <3>1 DEF Distinct
    <3> QED
      BY <2>2, <3>2
  <2>4. n \in 1..n /\ new[n] = r
    BY <1>1, <1>2, <1>3, <2>1
  <2>5. r \in Values(new)
    BY <2>1, <2>4 DEF Values
  <2> QED
    BY <1>1, <2>1, <2>3, <2>5 DEF new, t
<1> QED
  BY <1>1, <1>3, <1>5, <1>6

\* A finite set is no smaller than its subsets, and larger than what is left
\* without one of its elements.
LEMMA Larger ==
    ASSUME NEW B, IsFiniteSet(B), NEW A, A \subseteq B, NEW n \in Nat
    PROVE  /\ n <= Cardinality(A) => n <= Cardinality(B)
           /\ n < Cardinality(A) => n < Cardinality(B)
           /\ \A x \in B \ A : n <= Cardinality(A) => n < Cardinality(B)
<1>1. /\ IsFiniteSet(A) /\ Cardinality(A) <= Cardinality(B)
      /\ Cardinality(A) = Cardinality(B) => A = B
  BY FS_Subset
<1>2. Cardinality(A) \in Nat /\ Cardinality(B) \in Nat
  BY <1>1, FS_CardinalityType
<1> QED
  BY <1>1, <1>2

\* A journal full of others shows that as many others were banked.
LEMMA FullJournal ==
    ASSUME NEW B, IsFiniteSet(B), NEW s \in Seq(Receipts), Distinct(s),
           Values(s) \subseteq B
    PROVE  Len(s) <= Cardinality(B)
<1> DEFINE I == 1..Len(s)
           f == [i \in I |-> s[i]]
<1>1. ASSUME NEW n \in Nat PROVE IsFiniteSet(1..n) /\ Cardinality(1..n) = n
  BY FS_Interval
<1>2. IsFiniteSet(I) /\ Cardinality(I) = Len(s)
  BY <1>1, LenProperties
<1>3. f \in [I -> B] /\ \A i, j \in I : f[i] = f[j] => i = j
  BY DEF Distinct, Values
<1> HIDE DEF I, f
<1>4. f \in Injection(I, B)
  BY <1>3, Fun_IsInj
<1>5. Cardinality(I) <= Cardinality(B)
  BY <1>4, FS_Injection
<1> QED
  BY <1>2, <1>5

\* What can change the journal, the wallet or the history.
LEMMA JournalFrame ==
    ASSUME TypeOK, ClientInv, [Next]_vars
    PROVE  \/ /\ UNCHANGED <<markers, wallet>> /\ Stored' = Stored
              /\ \A b \in Accounts : accepting'[b] # None =>
                    /\ accepting[b] # None
                    /\ accepting'[b].receipt = accepting[b].receipt
           \/ \E a \in Accounts : StoreResult(a)
           \/ \E a \in Accounts, e \in Entries :
                 /\ Accept(a, e) /\ e.receipt \in settled
                 /\ e.receipt.account = a
                 /\ UNCHANGED <<settled, pending, archive, career>>
<1> USE DEF saveVars
<1> DEFINE Same == /\ UNCHANGED <<markers, wallet>> /\ Stored' = Stored
                   /\ \A b \in Accounts : accepting'[b] # None =>
                        /\ accepting[b] # None
                        /\ accepting'[b].receipt = accepting[b].receipt
<1>a. ASSUME NEW as, Cut(as), UNCHANGED <<markers, wallet, pending, archive>>
      PROVE  Same
  <2>1. \A x \in Entries : [x EXCEPT !.live = FALSE].receipt = x.receipt
    BY DEF Entries
  <2>2. \A b \in Accounts :
           \/ accepting'[b] = accepting[b]
           \/ /\ accepting[b] # None
              /\ accepting'[b] = [accepting[b] EXCEPT !.live = FALSE]
    BY <1>a DEF Cut
  <2>3. \A b \in Accounts : accepting[b] \in Entries \cup {None}
    BY DEF TypeOK
  <2> QED
    BY <1>a, <2>1, <2>2, <2>3 DEF Stored
<1>b. ASSUME NEW a \in Accounts, accepting' = [accepting EXCEPT ![a] = None],
             UNCHANGED <<markers, wallet, pending, archive>>
      PROVE  Same
  BY <1>b DEF TypeOK, Stored
<1>c. ASSUME UNCHANGED <<accepting, markers, wallet, pending, archive>> PROVE Same
  BY <1>c DEF Stored
<1> HIDE DEF Same
<1>1. CASE ServerNext
  <2>1. CASE RestartServer
    <3>1. /\ Cut({a \in Accounts : conn[a] = "open"})
          /\ UNCHANGED <<markers, wallet, pending, archive>>
      BY <2>1 DEF RestartServer
    <3> QED
      BY <1>a, <3>1 DEF Same
  <2>2. CASE StartBattle \/ FinishBattle \/ FailBattle \/ TerminalBarrier \/ ResetRound
    <3>1. UNCHANGED <<accepting, markers, wallet, pending, archive>>
      BY <2>2 DEF StartBattle, FinishBattle, FailBattle, TerminalBarrier,
                  ResetRound, clientVars
    <3> QED
      BY <1>c, <3>1 DEF Same
  <2>3. ASSUME NEW a \in Accounts,
               \/ TickDelivers(a) \/ ServerTakesAck(a) \/ ServerIgnoresAck(a)
               \/ RemovePlayer(a)
        PROVE  Same
    BY <1>c, <2>3 DEF TickDelivers, ServerTakesAck, ServerIgnoresAck,
                      RemovePlayer, clientVars
  <2> QED
    BY <1>1, <2>1, <2>2, <2>3 DEF ServerNext, Same
<1>2. ASSUME NEW a \in Accounts, SessionNext(a) PROVE Same
  <2>1. CASE Connect(a) \/ EnterBattle(a) \/ LeaveBattle(a) \/ Stop(a) \/ Stopped(a)
    BY <1>c, <2>1 DEF Connect, EnterBattle, LeaveBattle, Stop, Stopped
  <2>2. CASE Lose(a)
    BY <1>a, <2>2 DEF Lose
  <2>3. CASE CrashClient(a)
    BY <1>b, <2>3 DEF CrashClient
  <2> QED
    BY <1>2, <2>1, <2>2, <2>3 DEF SessionNext
<1>3. ASSUME NEW a \in Accounts, ReceiptNext(a), ~StoreResult(a)
      PROVE  \/ Same
             \/ \E e \in Entries :
                   /\ Accept(a, e) /\ e.receipt \in settled
                   /\ e.receipt.account = a
                   /\ UNCHANGED <<settled, pending, archive, career>>
  <2>1. CASE ReceiveMalformed(a)
    BY <1>c, <2>1 DEF ReceiveMalformed, clientVars
  <2>2. CASE ReceiveInBattle(a)
    BY <1>c, <2>2 DEF ReceiveInBattle
  <2>3. CASE StoreFails(a)
    BY <1>b, <2>3 DEF StoreFails
  <2>4. CASE ReceiveInGarage(a)
    <3> DEFINE h == Head(down[a])
               e == [receipt |-> h, live |-> TRUE]
    <3>1. /\ Accept(a, e) /\ Readable(a, h) /\ down[a] # <<>>
          /\ UNCHANGED <<settled, pending, archive, career>>
      BY <2>4 DEF ReceiveInGarage, ledgerVars
    <3>2. h \in Receipts /\ h \in settled
      BY <3>1, TailBook DEF TypeOK, ClientInv, DownOk
    <3>3. e \in Entries /\ e.receipt = h
      BY <3>2 DEF Entries
    <3> HIDE DEF e, h
    <3> QED
      BY <3>1, <3>2, <3>3 DEF Readable
  <2>5. CASE DrainDeferred(a)
    <3> DEFINE e == Head(deferred[a])
    <3>1. /\ Accept(a, e) /\ deferred[a] # <<>>
          /\ UNCHANGED <<settled, pending, archive, career>>
      BY <2>5 DEF DrainDeferred, ledgerVars
    <3>2. deferred[a] \in Seq(Entries)
      BY DEF TypeOK
    <3>3. e \in Entries /\ e \in Values(deferred[a])
      BY <3>1, <3>2, TailBook
    <3> HIDE DEF e
    <3> QED
      BY <3>1, <3>3 DEF ClientInv, DeferredOk
  <2> QED
    BY <1>3, <2>1, <2>2, <2>3, <2>4, <2>5 DEF ReceiptNext
<1>4. ASSUME NEW r \in Receipts, ClaimResult(r) PROVE Same
  BY <1>4 DEF ClaimResult, clientVars, Stored, Same
<1>5. CASE UNCHANGED vars
  <2>1. UNCHANGED <<accepting, markers, wallet, pending, archive>>
    BY <1>5 DEF vars, clientVars
  <2> QED
    BY <1>c, <2>1 DEF Same
<1> QED
  BY <1>1, <1>2, <1>3, <1>4, <1>5 DEF Next, Same

\* A step that banks nothing keeps what is marked, remembered and banked.
LEMMA JournalKept ==
    ASSUME JournalInv, UNCHANGED <<markers, wallet>>, settled \subseteq settled',
           \A b \in Accounts : accepting'[b] # None =>
              wallet[accepting'[b].receipt] > 0,
           \A q \in Stored' \ Stored : wallet[q] > 0
    PROVE  JournalInv'
<1>1. ASSUME NEW b \in Accounts PROVE JournalOf(b)'
  BY DEF JournalInv, JournalOf, Values, Distinct
<1>2. ASSUME NEW q \in Receipts PROVE AwardOf(q)'
  <2>1. AwardOf(q) /\ Remembered(q)' = Remembered(q)
    BY DEF JournalInv, Remembered, Banked, Values
  <2>2. /\ Values(markers[q.account])' = Values(markers[q.account])
        /\ Banked(q.account)' = Banked(q.account)
    BY DEF Values, Banked
  <2> QED
    BY <2>1, <2>2 DEF AwardOf
<1> QED
  BY <1>1, <1>2 DEF JournalInv

\* An award that is not in the journal is banked and marked.
LEMMA AwardBanked ==
    ASSUME TypeOK, JournalInv, NEW a \in Accounts, NEW r \in Receipts,
           r.account = a, r \in settled, r \notin Values(markers[a]),
           markers' = [markers EXCEPT ![a] = Newest(Append(@, r), MaxMarkers)],
           wallet' = [wallet EXCEPT ![r] = @ + 1],
           \A b \in Accounts : accepting'[b] # None =>
              \/ accepting[b] # None /\ accepting'[b].receipt = accepting[b].receipt
              \/ accepting'[b].receipt = r,
           accepting' \in [Accounts -> Entries \cup {None}],
           UNCHANGED <<settled, pending, archive>>
    PROVE  JournalInv'
<1>1. MaxMarkers \in Nat \ {0}
  BY ReceiptsAssumption
<1>2. markers[a] \in Seq(Receipts) /\ Len(markers[a]) <= MaxMarkers /\ Distinct(markers[a])
  BY DEF TypeOK, JournalInv, JournalOf
<1>3. /\ markers'[a] = Newest(Append(markers[a], r), MaxMarkers)
      /\ \A b \in Accounts : b # a => markers'[b] = markers[b]
  BY DEF TypeOK
<1>4. /\ markers'[a] \in Seq(Receipts) /\ Len(markers'[a]) <= MaxMarkers
      /\ Distinct(markers'[a]) /\ r \in Values(markers'[a])
      /\ Values(markers'[a]) \subseteq Values(markers[a]) \cup {r}
      /\ Values(markers[a]) \subseteq Values(markers'[a]) \/ Len(markers'[a]) = MaxMarkers
  BY <1>1, <1>2, <1>3, BankStep
<1>5. \A q \in Receipts : wallet[q] \in Nat
                          /\ wallet'[q] = IF q = r THEN wallet[r] + 1 ELSE wallet[q]
  BY DEF TypeOK
<1>6. /\ Banked(a)' = Banked(a) \cup {r}
      /\ \A b \in Accounts : b # a => Banked(b)' = Banked(b)
  BY <1>5 DEF Banked
<1>7. IsFiniteSet(Banked(a))
  BY BankedFinite
<1>8. Stored' = Stored
  BY DEF Stored
<1>9. ASSUME NEW b \in Accounts PROVE JournalOf(b)'
  <2>1. accepting'[b] # None => wallet'[accepting'[b].receipt] > 0
    <3> SUFFICES ASSUME accepting'[b] # None
                 PROVE  wallet'[accepting'[b].receipt] > 0
      OBVIOUS
    <3>1. accepting'[b].receipt \in Receipts
      BY DEF Entries
    <3>2. accepting'[b].receipt = r \/ wallet[accepting'[b].receipt] > 0
      BY DEF JournalInv, JournalOf
    <3> QED
      BY <1>5, <3>1, <3>2
  <2>2. CASE b = a
    <3>1. \A q \in Values(markers'[a]) : q.account = a
      BY <1>4 DEF JournalInv, JournalOf
    <3>2. Values(markers[a])' = Values(markers'[a])
      BY DEF Values
    <3>3. Distinct(markers[a])' = Distinct(markers'[a])
      BY DEF Distinct
    <3> QED
      BY <1>4, <2>1, <2>2, <3>1, <3>2, <3>3 DEF JournalOf
  <2>3. CASE b # a
    <3>1. markers'[b] = markers[b] /\ JournalOf(b)
      BY <1>3, <2>3 DEF JournalInv
    <3>2. /\ Values(markers[b])' = Values(markers[b])
          /\ Distinct(markers[b])' = Distinct(markers[b])
      BY <3>1 DEF Values, Distinct
    <3> QED
      BY <2>1, <3>1, <3>2 DEF JournalOf
  <2> QED
    BY <2>2, <2>3
<1>10. ASSUME NEW q \in Receipts, q.account = a PROVE AwardOf(q)'
  <2>1. AwardOf(q)
    BY DEF JournalInv
  <2>2. Values(markers[q.account])' = Values(markers'[a])
    BY <1>10 DEF Values
  <2>3. Values(markers'[a]) \subseteq Banked(a)'
    <3>1. \A x \in Values(markers[a]) : x \in Receipts /\ x.account = a
      BY <1>2, ValuesType DEF JournalInv, JournalOf
    <3>2. Values(markers[a]) \subseteq Banked(a)
      BY <3>1 DEF JournalInv, AwardOf, Banked
    <3> QED
      BY <1>4, <1>6, <3>2
  <2>4. \A D : IsFiniteSet((Banked(a) \cup {r}) \ D)
    BY <1>7, FS_AddElement, FS_Difference
  <2>5. ASSUME q # r, wallet[q] > 0 PROVE Remembered(q)'
    <3> SUFFICES ASSUME q \notin Values(markers'[a])
                 PROVE  MaxMarkers <= Cardinality(Banked(a)' \ {q})
      BY <1>10, <2>2 DEF Remembered
    <3> DEFINE B == (Banked(a) \cup {r}) \ {q}
    <3>1. IsFiniteSet(B) /\ Banked(a)' \ {q} = B
      BY <1>6, <2>4
    <3>2. CASE q \in Values(markers[a])
      <4>1. Len(markers'[a]) = MaxMarkers
        BY <1>4, <3>2
      <4>2. Values(markers'[a]) \subseteq B
        BY <1>6, <2>3
      <4> HIDE DEF B
      <4>3. Len(markers'[a]) <= Cardinality(B)
        BY <1>4, <3>1, <4>2, FullJournal
      <4> QED
        BY <3>1, <4>1, <4>3
    <3>3. CASE q \notin Values(markers[a])
      <4> DEFINE old == Banked(a) \ {q}
      <4>1. MaxMarkers <= Cardinality(old)
        BY <1>10, <2>1, <2>5, <3>3 DEF AwardOf, Remembered
      <4>2. old \subseteq B
        OBVIOUS
      <4> HIDE DEF B, old
      <4>3. MaxMarkers <= Cardinality(B)
        BY <1>1, <3>1, <4>1, <4>2, Larger
      <4> QED
        BY <3>1, <4>3
    <3> QED
      BY <3>2, <3>3
  <2>6. CASE q = r
    <3>1. Remembered(q)'
      BY <1>4, <2>2, <2>6 DEF Remembered
    <3>2. ASSUME wallet[r] > 0
          PROVE  MaxMarkers < Cardinality(Banked(a) \cup {r})
      <4> DEFINE old == Banked(a) \ {r}
                 B == Banked(a) \cup {r}
      <4>1. MaxMarkers <= Cardinality(old)
        BY <1>10, <2>1, <2>6, <3>2 DEF AwardOf, Remembered
      <4>2. IsFiniteSet(B) /\ old \subseteq B /\ r \in B \ old
        BY <1>7, FS_AddElement
      <4> HIDE DEF old, B
      <4>3. MaxMarkers < Cardinality(B)
        BY <1>1, <4>1, <4>2, Larger
      <4> QED
        BY <4>3 DEF B
    <3>3. wallet'[q] > 0 /\ (wallet'[q] > 1 => wallet[q] > 0)
      BY <1>5, <2>6
    <3>4. wallet'[q] > 1 => MaxMarkers < Cardinality(Banked(a)')
      BY <1>6, <2>6, <3>2, <3>3
    <3>5. Banked(q.account)' = Banked(a)'
      BY <1>10 DEF Banked
    <3> QED
      BY <1>8, <2>6, <3>1, <3>3, <3>4, <3>5 DEF AwardOf
  <2>7. CASE q # r
    <3>1. wallet'[q] = wallet[q]
      BY <1>5, <2>7
    <3>2. ASSUME MaxMarkers < Cardinality(Banked(a))
          PROVE  MaxMarkers < Cardinality(Banked(a)')
      <4> DEFINE B == Banked(a) \cup {r}
      <4>1. IsFiniteSet(B) /\ Banked(a) \subseteq B /\ Banked(a)' = B
        BY <1>6, <1>7, FS_AddElement
      <4> HIDE DEF B
      <4> QED
        BY <1>1, <3>2, <4>1, Larger
    <3>3. q \in Values(markers'[a]) => q \in Values(markers[a])
      BY <1>4, <2>7
    <3> QED
      BY <1>8, <1>10, <2>1, <2>2, <2>5, <2>7, <3>1, <3>2, <3>3 DEF AwardOf
  <2> QED
    BY <2>6, <2>7
<1>11. ASSUME NEW q \in Receipts, q.account # a PROVE AwardOf(q)'
  <2>1. q.account \in Accounts
    BY DEF Receipts
  <2>2. /\ markers'[q.account] = markers[q.account] /\ wallet'[q] = wallet[q]
        /\ Banked(q.account)' = Banked(q.account)
    BY <1>3, <1>5, <1>6, <1>11, <2>1
  <2>3. Values(markers[q.account])' = Values(markers[q.account])
    BY <2>2 DEF Values
  <2>4. AwardOf(q) /\ (Remembered(q)' <=> Remembered(q))
    BY <2>2, <2>3 DEF JournalInv, Remembered
  <2> QED
    BY <1>8, <2>2, <2>3, <2>4 DEF AwardOf
<1> QED
  BY <1>9, <1>10, <1>11 DEF JournalInv

\* Accepting a receipt preserves the invariant of the garage.
LEMMA AcceptBanks ==
    ASSUME TypeOK, TypeOK', JournalInv, NEW a \in Accounts, NEW e \in Entries,
           Accept(a, e), e.receipt \in settled, e.receipt.account = a,
           UNCHANGED <<settled, pending, archive>>
    PROVE  JournalInv'
<1> DEFINE r == e.receipt
<1>1. r \in Receipts /\ Stored' = Stored
  BY DEF Entries, Stored
<1>2. CASE UNCHANGED <<accepting, markers, wallet>>
  <2>1. \A b \in Accounts : accepting'[b] # None => wallet[accepting'[b].receipt] > 0
    BY <1>2 DEF JournalInv, JournalOf
  <2> QED
    BY <1>1, <1>2, <2>1, JournalKept
<1>3. CASE BankAward(a, r) /\ accepting' = [accepting EXCEPT ![a] = e]
  <2>1. \A b \in Accounts : accepting'[b] = IF b = a THEN e ELSE accepting[b]
    BY <1>3 DEF TypeOK
  <2>2. CASE r \in Values(markers[a])
    <3>1. UNCHANGED <<markers, wallet>>
      BY <1>3, <2>2 DEF BankAward
    <3>2. wallet[r] > 0
      BY <1>1, <2>2 DEF JournalInv, AwardOf
    <3>3. \A b \in Accounts : accepting'[b] # None => wallet[accepting'[b].receipt] > 0
      BY <2>1, <3>2 DEF JournalInv, JournalOf
    <3> QED
      BY <1>1, <3>1, <3>3, JournalKept
  <2>3. CASE r \notin Values(markers[a])
    <3>1. /\ markers' = [markers EXCEPT ![a] = Newest(Append(@, r), MaxMarkers)]
          /\ wallet' = [wallet EXCEPT ![r] = @ + 1]
      BY <1>3, <2>3 DEF BankAward
    <3>2. \A b \in Accounts : accepting'[b] # None =>
             \/ accepting[b] # None /\ accepting'[b].receipt = accepting[b].receipt
             \/ accepting'[b].receipt = r
      BY <2>1
    <3>3. accepting' \in [Accounts -> Entries \cup {None}]
      BY DEF TypeOK
    <3> HIDE DEF r
    <3> QED
      BY <1>1, <2>3, <3>1, <3>2, <3>3, AwardBanked DEF r
  <2> QED
    BY <2>2, <2>3
<1> QED
  BY <1>2, <1>3 DEF Accept

\* Every step preserves the invariant of the garage.
LEMMA JournalStep ==
    ASSUME TypeOK, TypeOK', ClientInv, JournalInv, [Next]_vars
    PROVE  JournalInv'
<1>0. settled \subseteq settled'
  BY Monotone
<1>1. CASE /\ UNCHANGED <<markers, wallet>> /\ Stored' = Stored
           /\ \A b \in Accounts : accepting'[b] # None =>
                 /\ accepting[b] # None
                 /\ accepting'[b].receipt = accepting[b].receipt
  <2>1. \A b \in Accounts : accepting'[b] # None => wallet[accepting'[b].receipt] > 0
    BY <1>1 DEF JournalInv, JournalOf
  <2> QED
    BY <1>0, <1>1, <2>1, JournalKept
<1>2. ASSUME NEW a \in Accounts, StoreResult(a) PROVE JournalInv'
  <2> DEFINE r == accepting[a].receipt
  <2>1. wallet[r] > 0
    BY <1>2 DEF StoreResult, JournalInv, JournalOf
  <2>2. /\ Stored' = Stored \cup {r} /\ UNCHANGED <<markers, wallet>>
        /\ accepting' = [accepting EXCEPT ![a] = None]
    BY <1>2 DEF StoreResult, Stored
  <2> HIDE DEF r
  <2>3. \A b \in Accounts : accepting'[b] = accepting[b] \/ accepting'[b] = None
    BY <2>2 DEF TypeOK
  <2>4. \A b \in Accounts : accepting'[b] # None => wallet[accepting'[b].receipt] > 0
    BY <2>3 DEF JournalInv, JournalOf
  <2> QED
    BY <1>0, <2>1, <2>2, <2>4, JournalKept
<1>3. ASSUME NEW a \in Accounts, NEW e \in Entries, Accept(a, e),
             e.receipt \in settled, e.receipt.account = a,
             UNCHANGED <<settled, pending, archive>>
      PROVE  JournalInv'
  BY <1>3, AcceptBanks
<1> QED
  BY <1>1, <1>2, <1>3, JournalFrame

LEMMA JournalInit ==
    Init => JournalInv
<1> SUFFICES ASSUME Init PROVE JournalInv
  OBVIOUS
<1>1. Len(<<>>) = 0 /\ Values(<<>>) = {} /\ Distinct(<<>>)
  BY DEF Values, Distinct
<1>2. ASSUME NEW a \in Accounts PROVE JournalOf(a)
  BY <1>1, ReceiptsAssumption DEF Init, JournalOf
<1>3. ASSUME NEW r \in Receipts PROVE AwardOf(r)
  BY <1>1 DEF Init, AwardOf, Stored, Receipts
<1> QED
  BY <1>2, <1>3 DEF JournalInv

\* The two saves agree, for a journal of any size: the career counts what its
\* history keeps, all of that was banked, and what is banked twice needs an
\* account that banked more awards than the journal has rows.
THEOREM ReceiptsSavesAgree == Spec => []SavesAgree
<1>1. TypeOK /\ ClientInv /\ JournalInv => SavesAgree
  <2> SUFFICES ASSUME TypeOK, ClientInv, JournalInv, NEW r \in Receipts
               PROVE  /\ career[r] = IF r \in Stored THEN 1 ELSE 0
                      /\ r \in Stored => wallet[r] > 0
                      /\ wallet[r] > 0 => r \in settled
                      /\ wallet[r] > 1 => Cardinality(Banked(r.account)) > MaxMarkers
    BY DEF SavesAgree
  <2>1. AwardOf(r) /\ CareerInv
    BY DEF JournalInv, ClientInv
  <2>2. /\ IsFiniteSet(Banked(r.account))
        /\ Cardinality(Banked(r.account)) \in Nat /\ MaxMarkers \in Nat
    BY BankedFinite, FS_CardinalityType, ReceiptsAssumption DEF Receipts
  <2> QED
    BY <2>1, <2>2 DEF AwardOf, CareerInv
<1>2. TypeOK /\ TypeOK' /\ ClientInv /\ JournalInv /\ [Next]_vars => JournalInv'
  BY JournalStep
<1> QED
  BY <1>1, <1>2, TypeInit, TypeStep, LedgerInit, LedgerStep, ClientInit,
     ClientStep, JournalInit, PTL DEF Spec
=============================================================================
