--------------------------- MODULE ResultReceipts ---------------------------
(***************************************************************************)
(* The settlement of battles.  The server mints one receipt per            *)
(* participant of a battle, keeps it on disk and offers it to its account  *)
(* until the account acknowledges it (lan_battle_server.py).  The client   *)
(* banks the award in the garage save and the result in the career save,   *)
(* two files, and only then acknowledges (lan_session.py,                  *)
(* account_rpc/postbattle_store.py and garage_store.py).  Both processes   *)
(* may stop between any two steps and any write may fail.                  *)
(*                                                                         *)
(* A receipt is identified by its account, the server process that minted  *)
(* it (receipt_namespace) and that process's round number.  What it pays,  *)
(* and how a battle is won, is left out.  A file is replaced atomically    *)
(* (write to a temporary file, then rename), so the memory of a store and  *)
(* its file differ only where they are separate variables here.            *)
(***************************************************************************)
EXTENDS Naturals, Sequences, FiniteSets

CONSTANTS
    Accounts,      \* account keys; one client each
    Malformed,     \* receipts the client cannot read
    None,          \* no receipt
    MaxReceipts,   \* MAX_RESULT_RECEIPTS, the server's ledger
    MaxMarkers,    \* MAX_BATTLE_RECEIPTS, the garage's journal
    MaxBoot,       \* bound: server processes
    MaxRound       \* bound: settled battles of the first server process, one
                   \* less in each later one; one more may start, which ends
                   \* without receipts or not at all

Receipts == [account : Accounts, boot : 1..MaxBoot, round : 1..MaxRound]

ASSUME ReceiptsAssumption ==
    /\ None \notin Receipts /\ Malformed \subseteq Receipts
    /\ IsFiniteSet(Accounts)
    /\ MaxReceipts \in Nat \ {0} /\ MaxMarkers \in Nat \ {0}
    /\ MaxBoot \in Nat \ {0} /\ MaxRound \in Nat \ {0}
    \* No battle has more participants than the ledger has rows.
    /\ Cardinality(Accounts) <= MaxReceipts

VARIABLES
    boot, round,     \* this server process and its round
    phase,           \* "waiting", "battle", or "result" (battle_result is set)
    participants,    \* round_participants
    ledger,          \* result_receipts, oldest first
    disk,            \* the file of the ledger
    delivered,       \* delivered_receipt_id of the account's Player
    conn,            \* "none", "open", or "closing": the server has not noticed
    down, up,        \* receipts and acknowledgements on the connection
    session,         \* the client: "up", "stopping", "off"
    inBattle,        \* _battle_started
    deferred,        \* _pending_battle_receipts
    accepting,       \* the receipt whose award is banked, its result not yet
    markers,         \* battleCrewReceipts of the garage save
    pending, archive,  \* the career save: unclaimed results and history
    wallet, career,  \* how often each receipt was banked in either save
    settled,         \* receipts minted
    evicted,         \* receipts the full ledger dropped
    sentNow          \* receipts sent on the account's current connection

roomVars   == <<boot, round, phase, participants>>
ledgerVars == <<ledger, disk, settled, evicted>>
wireVars   == <<delivered, conn, down, up, sentNow>>
clientVars == <<session, inBattle, deferred, accepting>>
saveVars   == <<markers, pending, archive, wallet, career>>
vars == <<roomVars, ledgerVars, wireVars, clientVars, saveVars>>

\* A deferred receipt and whether the transport that brought it still lives.
Entries == [receipt : Receipts, live : BOOLEAN]

Values(s) == {s[i] : i \in 1..Len(s)}

\* Mutant: a full book drops its newest rows.
Newest_Inverted(s, n) == IF Len(s) > n THEN SubSeq(s, 1, n) ELSE s

\* A book keeps its newest n rows.
Newest(s, n) == IF Len(s) > n THEN SubSeq(s, Len(s) - n + 1, Len(s)) ELSE s

\* The receipts whose identity the career save keeps.
Stored == pending \cup archive

----------------------------------------------------------------------------
(* Delivery *)

\* The oldest receipt of the book that is one of these.
FirstOf(book, rs) ==
    LET at == {i \in 1..Len(book) : book[i] \in rs}
    IN  IF at = {} THEN None ELSE book[CHOOSE i \in at : \A j \in at : i <= j]

\* _result_receipt_for_delivery without and with a round.
Oldest(book, a) == FirstOf(book, {r \in Receipts : r.account = a})
OfRound(book, a) ==
    FirstOf(book, {r \in Receipts : r.account = a /\ r.round = round})

\* The book without its i-th row.
Without(book, i) == SubSeq(book, 1, i - 1) \o SubSeq(book, i + 1, Len(book))

\* _deliver_result_receipt has something to send.
News(a, r) == r # None /\ r # delivered[a]

\* It sends offer[a] to every account of the set; a connection the client has
\* left takes it nowhere.
Deliver(as, offer) ==
    LET to == {a \in as : News(a, offer[a])} IN
    /\ delivered' = [a \in Accounts |->
                        IF a \in to THEN offer[a] ELSE delivered[a]]
    /\ down' = [a \in Accounts |->
                   IF a \in to /\ conn[a] = "open"
                   THEN Append(down[a], offer[a]) ELSE down[a]]
    /\ sentNow' = [a \in Accounts |->
                      IF a \in to THEN sentNow[a] \cup {offer[a]}
                      ELSE sentNow[a]]

\* What the terminal barrier owes an account.
BarrierOffer(a) == OfRound(ledger, a)

Connected == {a \in Accounts : conn[a] # "none"}

----------------------------------------------------------------------------
(* The server *)

\* request_start freezes the participants of the battle.
StartBattle ==
    /\ phase = "waiting" /\ Connected # {}
    /\ phase' = "battle" /\ participants' = Connected
    /\ UNCHANGED <<boot, round, ledgerVars, wireVars, clientVars, saveVars>>

Minted(a) == [account |-> a, boot |-> boot, round |-> round]

\* The participants in the order they joined.
JoinOrders(as) == {s \in [1..Cardinality(as) -> as] : Values(s) = as}

\* _finish_battle: the new rows reach the file before the result is
\* announced.  When the write fails nothing changes, and a later tick tries
\* again.
FinishBattle ==
    /\ phase = "battle" /\ boot + round <= MaxRound + 1
    /\ \E order \in JoinOrders(participants) :
          LET all == ledger \o [i \in 1..Len(order) |-> Minted(order[i])]
              kept == Newest(all, MaxReceipts)
          IN  /\ disk' = kept /\ ledger' = kept
              /\ evicted' = evicted \cup (Values(all) \ Values(kept))
    /\ settled' = settled \cup {Minted(a) : a \in participants}
    /\ phase' = "result"
    /\ UNCHANGED <<boot, round, participants, wireVars, clientVars, saveVars>>

\* The worker or the tick failed: the battle ends without receipts.
FailBattle ==
    /\ phase = "battle" /\ phase' = "result"
    /\ UNCHANGED <<boot, round, participants, ledgerVars, wireVars, clientVars,
                   saveVars>>

\* tick_once: every tick after the result offers the receipt of this round to
\* every player.
TerminalBarrier ==
    /\ phase = "result"
    /\ \E a \in Connected : News(a, BarrierOffer(a))
    /\ Deliver(Connected, [a \in Accounts |-> BarrierOffer(a)])
    /\ UNCHANGED <<conn, up, roomVars, ledgerVars, clientVars, saveVars>>

\* tick_once: a player without a receipt of this round gets its oldest one.
TickDelivers(a) ==
    /\ phase \in {"battle", "result"} /\ a \in Connected
    /\ phase = "result" => BarrierOffer(a) = None
    /\ News(a, Oldest(ledger, a))
    /\ Deliver({a}, [b \in Accounts |-> Oldest(ledger, b)])
    /\ UNCHANGED <<conn, up, roomVars, ledgerVars, clientVars, saveVars>>

\* tick_once, _reset_round: the result has been shown for RESULT_RESET_SECONDS,
\* many ticks.
ResetRound ==
    /\ phase = "result" /\ boot + round <= MaxRound + 1
    /\ \A a \in Connected : ~News(a, BarrierOffer(a))
    /\ phase' = "waiting" /\ round' = round + 1 /\ participants' = {}
    /\ UNCHANGED <<boot, ledgerVars, wireVars, clientVars, saveVars>>

\* Mutant: the removal is not persisted.
ServerTakesAck_Unsaved(a) ==
    /\ a \in Connected /\ up[a] # <<>>
    /\ \E i \in 1..Len(ledger) :
          /\ ledger[i] = Head(up[a]) /\ ledger[i].account = a
          /\ ledger' = Without(ledger, i)
          /\ Deliver({a}, [b \in Accounts |-> Oldest(Without(ledger, i), b)])
    /\ up' = [up EXCEPT ![a] = Tail(@)]
    /\ UNCHANGED <<disk, conn, settled, evicted, roomVars, clientVars, saveVars>>

\* acknowledge_result_receipt, an id the account owns: the removal is
\* persisted, then the next receipt is sent.
ServerTakesAck(a) ==
    /\ a \in Connected /\ up[a] # <<>>
    /\ \E i \in 1..Len(ledger) :
          /\ ledger[i] = Head(up[a]) /\ ledger[i].account = a
          /\ disk' = Without(ledger, i) /\ ledger' = disk'
          /\ Deliver({a}, [b \in Accounts |-> Oldest(Without(ledger, i), b)])
    /\ up' = [up EXCEPT ![a] = Tail(@)]
    /\ UNCHANGED <<conn, settled, evicted, roomVars, clientVars, saveVars>>

\* acknowledge_result_receipt: the id is not the account's, or the write fails.
ServerIgnoresAck(a) ==
    /\ a \in Connected /\ up[a] # <<>>
    /\ up' = [up EXCEPT ![a] = Tail(@)]
    /\ UNCHANGED <<delivered, conn, down, sentNow, roomVars, ledgerVars,
                   clientVars, saveVars>>

\* remove_player: the server notices that the connection is gone.
RemovePlayer(a) ==
    /\ conn[a] = "closing"
    /\ conn' = [conn EXCEPT ![a] = "none"]
    /\ up' = [up EXCEPT ![a] = <<>>]
    /\ delivered' = [delivered EXCEPT ![a] = None]
    /\ sentNow' = [sentNow EXCEPT ![a] = {}]
    /\ UNCHANGED <<down, roomVars, ledgerVars, clientVars, saveVars>>

Dead(entries) == [i \in 1..Len(entries) |-> [entries[i] EXCEPT !.live = FALSE]]

\* The transports of these accounts die under the client: a battle ends with
\* it and the session retires, a waiting room returns to the join screen.
Cut(as) ==
    /\ down' = [a \in Accounts |-> IF a \in as THEN <<>> ELSE down[a]]
    /\ deferred' = [a \in Accounts |->
                       IF a \in as THEN Dead(deferred[a]) ELSE deferred[a]]
    /\ accepting' = [a \in Accounts |->
                        IF a \in as /\ accepting[a] # None
                        THEN [accepting[a] EXCEPT !.live = FALSE]
                        ELSE accepting[a]]
    /\ session' = [a \in Accounts |->
                      IF a \in as /\ inBattle[a] THEN "stopping"
                      ELSE session[a]]
    /\ inBattle' = [a \in Accounts |-> inBattle[a] /\ a \notin as]

\* The server process stops at any point and another one recovers the file;
\* _load_result_receipts, and a new receipt_namespace.
RestartServer ==
    /\ boot < MaxBoot
    /\ boot' = boot + 1 /\ round' = 1 /\ phase' = "waiting"
    /\ participants' = {}
    /\ ledger' = disk
    /\ conn' = [a \in Accounts |-> "none"] /\ up' = [a \in Accounts |-> <<>>]
    /\ delivered' = [a \in Accounts |-> None]
    /\ sentNow' = [a \in Accounts |-> {}]
    /\ Cut({a \in Accounts : conn[a] = "open"})
    /\ UNCHANGED <<disk, settled, evicted, saveVars>>

----------------------------------------------------------------------------
(* The client: one thread runs the session and both stores *)

Idle(a) == session[a] = "up" /\ accepting[a] = None

\* The handshake ends with the oldest receipt of the account; a battle in
\* progress admits nobody, and an account joins once.
Connect(a) ==
    /\ session[a] \in {"up", "off"} /\ accepting[a] = None
    /\ conn[a] = "none" /\ phase = "waiting"
    /\ LET r == Oldest(ledger, a) IN
          /\ delivered' = [delivered EXCEPT ![a] = r]
          /\ down' = [down EXCEPT ![a] = IF r = None THEN <<>> ELSE <<r>>]
          /\ sentNow' = [sentNow EXCEPT ![a] = {r} \ {None}]
    /\ conn' = [conn EXCEPT ![a] = "open"]
    /\ session' = [session EXCEPT ![a] = "up"]
    /\ UNCHANGED <<up, inBattle, deferred, accepting, roomVars, ledgerVars,
                   saveVars>>

\* The connection breaks.
Lose(a) ==
    /\ conn[a] = "open"
    /\ conn' = [conn EXCEPT ![a] = "closing"]
    /\ Cut({a})
    /\ UNCHANGED <<delivered, up, sentNow, roomVars, ledgerVars, saveVars>>

\* _start_battle: the runtime of the round's battle has started.  That a round
\* the player left is not entered again (_departed_round_id) is left out.
EnterBattle(a) ==
    /\ Idle(a) /\ conn[a] = "open" /\ ~inBattle[a]
    /\ phase = "battle" /\ a \in participants
    /\ inBattle' = [inBattle EXCEPT ![a] = TRUE]
    /\ UNCHANGED <<session, deferred, accepting, roomVars, ledgerVars, wireVars,
                   saveVars>>

\* _stop_active_round: the client leaves the battle or the battle is over.
LeaveBattle(a) ==
    /\ Idle(a) /\ inBattle[a]
    /\ inBattle' = [inBattle EXCEPT ![a] = FALSE]
    /\ UNCHANGED <<session, deferred, accepting, roomVars, ledgerVars, wireVars,
                   saveVars>>

\* acknowledge_battle_receipt, through the transport that brought the receipt.
Acknowledge(a, e) ==
    up' = IF e.live /\ conn[a] = "open"
          THEN [up EXCEPT ![a] = Append(@, e.receipt)] ELSE up

\* Mutant: the journal is not consulted.
BankAward_Unmarked(a, r) ==
    /\ markers' = [markers EXCEPT ![a] = Newest(Append(@, r), MaxMarkers)]
    /\ wallet' = [wallet EXCEPT ![r] = @ + 1]

\* apply_battle_crew_xp: award and marker share one write of the garage save,
\* and a marker already there means the award is banked.
BankAward(a, r) ==
    IF r \in Values(markers[a]) THEN UNCHANGED <<markers, wallet>>
    ELSE /\ markers' = [markers EXCEPT ![a] = Newest(Append(@, r), MaxMarkers)]
         /\ wallet' = [wallet EXCEPT ![r] = @ + 1]

\* Mutant: the history is not consulted.
Accept_PendingOnly(a, e) ==
    \/ /\ e.receipt \in pending
       /\ Acknowledge(a, e)
       /\ UNCHANGED <<accepting, markers, wallet>>
    \/ /\ e.receipt \notin pending
       /\ BankAward(a, e.receipt)
       /\ accepting' = [accepting EXCEPT ![a] = e]
       /\ UNCHANGED up

\* Mutant: a duplicate is not acknowledged.
Accept_SilentDuplicate(a, e) ==
    \/ /\ e.receipt \in Stored
       /\ UNCHANGED <<up, accepting, markers, wallet>>
    \/ /\ e.receipt \notin Stored
       /\ BankAward(a, e.receipt)
       /\ accepting' = [accepting EXCEPT ![a] = e]
       /\ UNCHANGED up
    \/ /\ e.receipt \notin Stored
       /\ UNCHANGED <<up, accepting, markers, wallet>>

\* PostBattleStore.accept up to the garage: a known receipt is acknowledged
\* again, the award of a new one is banked, or the garage refuses it.
Accept(a, e) ==
    \/ /\ e.receipt \in Stored
       /\ Acknowledge(a, e)
       /\ UNCHANGED <<accepting, markers, wallet>>
    \/ /\ e.receipt \notin Stored
       /\ BankAward(a, e.receipt)
       /\ accepting' = [accepting EXCEPT ![a] = e]
       /\ UNCHANGED up
    \/ /\ e.receipt \notin Stored
       /\ UNCHANGED <<up, accepting, markers, wallet>>

Known(a, r) == {i \in 1..Len(deferred[a]) : deferred[a][i].receipt = r}

\* _defer_battle_receipt: a retry keeps the row and moves it to this transport.
Defer(a, e) ==
    deferred' = [deferred EXCEPT ![a] =
        IF Known(a, e.receipt) = {} THEN Append(@, e)
        ELSE [i \in 1..Len(@) |->
                 IF i \in Known(a, e.receipt) THEN e ELSE @[i]]]

Readable(a, r) == r \notin Malformed /\ r.account = a

\* _discard_battle_receipt: a receipt the client cannot read, or of another
\* account, is acknowledged and dropped.
ReceiveMalformed(a) ==
    /\ Idle(a) /\ conn[a] = "open" /\ down[a] # <<>>
    /\ ~Readable(a, Head(down[a]))
    /\ Acknowledge(a, [receipt |-> Head(down[a]), live |-> TRUE])
    /\ down' = [down EXCEPT ![a] = Tail(@)]
    /\ UNCHANGED <<delivered, conn, sentNow, clientVars, roomVars, ledgerVars,
                   saveVars>>

\* _on_event outside a battle.
ReceiveInGarage(a) ==
    /\ Idle(a) /\ conn[a] = "open" /\ down[a] # <<>>
    /\ Readable(a, Head(down[a])) /\ ~inBattle[a]
    /\ Accept(a, [receipt |-> Head(down[a]), live |-> TRUE])
    /\ down' = [down EXCEPT ![a] = Tail(@)]
    /\ UNCHANGED <<delivered, conn, sentNow, session, inBattle, deferred,
                   pending, archive, career, roomVars, ledgerVars>>

\* _on_event in a battle.
ReceiveInBattle(a) ==
    /\ Idle(a) /\ conn[a] = "open" /\ down[a] # <<>>
    /\ Readable(a, Head(down[a])) /\ inBattle[a]
    /\ Defer(a, [receipt |-> Head(down[a]), live |-> TRUE])
    /\ down' = [down EXCEPT ![a] = Tail(@)]
    /\ UNCHANGED <<delivered, conn, up, sentNow, session, inBattle, accepting,
                   roomVars, ledgerVars, saveVars>>

\* _drain_battle_receipts: the presentation of the last hits is over, the
\* battle is, or the session stops and forces it.
DrainDeferred(a) ==
    /\ session[a] # "off" /\ accepting[a] = None /\ deferred[a] # <<>>
    /\ Accept(a, Head(deferred[a]))
    /\ deferred' = [deferred EXCEPT ![a] = Tail(@)]
    /\ UNCHANGED <<delivered, conn, down, sentNow, session, inBattle, pending,
                   archive, career, roomVars, ledgerVars>>

\* PostBattleStore.accept after the garage: the result and the career are
\* saved, and only then acknowledged.
StoreResult(a) ==
    /\ accepting[a] # None
    /\ LET r == accepting[a].receipt IN
          /\ pending' = pending \cup {r}
          /\ career' = [career EXCEPT ![r] = @ + 1]
    /\ Acknowledge(a, accepting[a])
    /\ accepting' = [accepting EXCEPT ![a] = None]
    /\ UNCHANGED <<delivered, conn, down, sentNow, session, inBattle, deferred,
                   markers, archive, wallet, roomVars, ledgerVars>>

\* Mutant: the receipt is acknowledged all the same.
StoreFails_Acknowledged(a) ==
    /\ accepting[a] # None
    /\ Acknowledge(a, accepting[a])
    /\ accepting' = [accepting EXCEPT ![a] = None]
    /\ UNCHANGED <<delivered, conn, down, sentNow, session, inBattle, deferred,
                   roomVars, ledgerVars, saveVars>>

\* Mutant: the career totals are not restored.
StoreFails_NotRestored(a) ==
    /\ accepting[a] # None
    /\ career' = [career EXCEPT ![accepting[a].receipt] = @ + 1]
    /\ accepting' = [accepting EXCEPT ![a] = None]
    /\ UNCHANGED <<session, inBattle, deferred, markers, pending, archive,
                   wallet, roomVars, ledgerVars, wireVars>>

\* The write of the career save fails: its memory is restored, and nothing is
\* acknowledged.
StoreFails(a) ==
    /\ accepting[a] # None
    /\ accepting' = [accepting EXCEPT ![a] = None]
    /\ UNCHANGED <<session, inBattle, deferred, roomVars, ledgerVars, wireVars,
                   saveVars>>

\* PostBattleStore.acknowledge: the player claims a result; its identity stays
\* in the history for ever.
ClaimResult(r) ==
    /\ Idle(r.account) /\ r \in pending
    /\ pending' = pending \ {r} /\ archive' = archive \cup {r}
    /\ UNCHANGED <<markers, wallet, career, roomVars, ledgerVars, wireVars,
                   clientVars>>

\* stop: a deliberate exit takes no more messages and drains what it has.
Stop(a) ==
    /\ Idle(a)
    /\ session' = [session EXCEPT ![a] = "stopping"]
    /\ UNCHANGED <<inBattle, deferred, accepting, roomVars, ledgerVars,
                   wireVars, saveVars>>

\* The rest of stop: the transport closes.
Stopped(a) ==
    /\ session[a] = "stopping" /\ accepting[a] = None /\ deferred[a] = <<>>
    /\ session' = [session EXCEPT ![a] = "off"]
    /\ inBattle' = [inBattle EXCEPT ![a] = FALSE]
    /\ down' = [down EXCEPT ![a] = <<>>]
    /\ conn' = [conn EXCEPT ![a] = IF @ = "open" THEN "closing" ELSE @]
    /\ UNCHANGED <<delivered, up, sentNow, deferred, accepting, roomVars,
                   ledgerVars, saveVars>>

\* The client process stops at any point; only its two saves remain.
CrashClient(a) ==
    /\ session[a] # "off"
    /\ session' = [session EXCEPT ![a] = "off"]
    /\ inBattle' = [inBattle EXCEPT ![a] = FALSE]
    /\ deferred' = [deferred EXCEPT ![a] = <<>>]
    /\ accepting' = [accepting EXCEPT ![a] = None]
    /\ down' = [down EXCEPT ![a] = <<>>]
    /\ conn' = [conn EXCEPT ![a] = IF @ = "open" THEN "closing" ELSE @]
    /\ UNCHANGED <<delivered, up, sentNow, roomVars, ledgerVars, saveVars>>

----------------------------------------------------------------------------
Init ==
    /\ boot = 1 /\ round = 1 /\ phase = "waiting" /\ participants = {}
    /\ ledger = <<>> /\ disk = <<>> /\ settled = {} /\ evicted = {}
    /\ delivered = [a \in Accounts |-> None]
    /\ conn = [a \in Accounts |-> "none"]
    /\ down = [a \in Accounts |-> <<>>] /\ up = [a \in Accounts |-> <<>>]
    /\ sentNow = [a \in Accounts |-> {}]
    /\ session = [a \in Accounts |-> "off"]
    /\ inBattle = [a \in Accounts |-> FALSE]
    /\ deferred = [a \in Accounts |-> <<>>]
    /\ accepting = [a \in Accounts |-> None]
    /\ markers = [a \in Accounts |-> <<>>]
    /\ pending = {} /\ archive = {}
    /\ wallet = [r \in Receipts |-> 0] /\ career = [r \in Receipts |-> 0]

ServerNext ==
    \/ StartBattle \/ FinishBattle \/ FailBattle \/ TerminalBarrier
    \/ ResetRound \/ RestartServer
    \/ \E a \in Accounts :
          \/ TickDelivers(a) \/ ServerTakesAck(a) \/ ServerIgnoresAck(a)
          \/ RemovePlayer(a)

SessionNext(a) ==
    \/ Connect(a) \/ Lose(a) \/ EnterBattle(a) \/ LeaveBattle(a)
    \/ Stop(a) \/ Stopped(a) \/ CrashClient(a)

ReceiptNext(a) ==
    \/ ReceiveMalformed(a) \/ ReceiveInGarage(a) \/ ReceiveInBattle(a)
    \/ DrainDeferred(a) \/ StoreResult(a) \/ StoreFails(a)

Next ==
    \/ ServerNext
    \/ \E a \in Accounts : SessionNext(a) \/ ReceiptNext(a)
    \/ \E r \in Receipts : ClaimResult(r)

Spec == Init /\ [][Next]_vars

\* A session that connects again and again now and then keeps its connection
\* long enough to handle a message, a write that is tried again and again now
\* and then succeeds, and so does an acknowledgement.
FairSpec ==
    /\ Spec
    /\ \A a \in Accounts :
          /\ SF_vars(ReceiveMalformed(a)) /\ SF_vars(ReceiveInBattle(a))
          /\ SF_vars(ReceiveInGarage(a) /\ accepting'[a] # None)
          /\ SF_vars(ReceiveInGarage(a) /\ up' # up)
          /\ SF_vars(DrainDeferred(a) /\ accepting'[a] # None)
          /\ SF_vars(StoreResult(a))
          /\ SF_vars(ServerTakesAck(a))

----------------------------------------------------------------------------
(* Properties *)

\* Types of the variables; the ledger and the journal keep their limits.
TypeOK ==
    /\ boot \in 1..MaxBoot /\ round \in 1..(MaxRound + 1)
    /\ phase \in {"waiting", "battle", "result"}
    /\ participants \subseteq Accounts
    /\ ledger \in Seq(Receipts) /\ Len(ledger) <= MaxReceipts
    /\ disk \in Seq(Receipts) /\ Len(disk) <= MaxReceipts
    /\ settled \subseteq Receipts /\ evicted \subseteq Receipts
    /\ delivered \in [Accounts -> Receipts \cup {None}]
    /\ conn \in [Accounts -> {"none", "open", "closing"}]
    /\ down \in [Accounts -> Seq(Receipts)]
    /\ up \in [Accounts -> Seq(Receipts)]
    /\ sentNow \in [Accounts -> SUBSET Receipts]
    /\ session \in [Accounts -> {"up", "stopping", "off"}]
    /\ inBattle \in [Accounts -> BOOLEAN]
    /\ deferred \in [Accounts -> Seq(Entries)]
    /\ accepting \in [Accounts -> Entries \cup {None}]
    /\ markers \in [Accounts -> Seq(Receipts)]
    /\ pending \subseteq Receipts /\ archive \subseteq Receipts
    /\ wallet \in [Receipts -> Nat] /\ career \in [Receipts -> Nat]

\* "Remove one receipt only after its owning client durably accepted it": a
\* settled receipt that left the server's file is in the client's career save,
\* unless the full ledger dropped it or the client cannot read it.
AckedIsDurable ==
    \A r \in settled \ (evicted \cup Malformed) :
        r \in Values(disk) \/ r \in Stored

\* The awards of an account that were banked.
Banked(a) == {r \in Receipts : r.account = a /\ wallet[r] > 0}

\* The two saves of the client agree whatever write failed or process stopped:
\* the career counts exactly the receipts whose identity it keeps, each of them
\* was banked in the garage, and what was banked was settled.  The garage
\* remembers its newest MaxMarkers awards only, so an award is banked again at
\* most in an account that banked more different awards than that.
SavesAgree ==
    \A r \in Receipts :
        /\ career[r] = IF r \in Stored THEN 1 ELSE 0
        /\ r \in Stored => wallet[r] > 0
        /\ wallet[r] > 0 => r \in settled
        /\ wallet[r] > 1 => Cardinality(Banked(r.account)) > MaxMarkers

\* A reward is banked in the garage at most once, and only when its battle was
\* settled, across redelivery, failed writes and stopped processes, while the
\* journal keeps its marker.
Wallet == INSTANCE RewardLedger
             WITH Rewards <- Receipts, earned <- settled, paid <- wallet
PaysOnce == Wallet!Spec

\* The same of the career totals.
Career == INSTANCE RewardLedger
             WITH Rewards <- Receipts, earned <- settled, paid <- career
CountsOnce == Career!Spec

\* A receipt that was settled and has left the ledger never comes back into
\* it, restarts included.
RetiredStaysRetired ==
    [][\A r \in settled \ Values(ledger) : r \notin Values(ledger')]_vars

Older(q, r) ==
    q.boot < r.boot \/ (q.boot = r.boot /\ q.round < r.round)

\* Only a full ledger drops receipts, and it drops the oldest ones.
EvictsOldest ==
    [][\A r \in evicted' \ evicted :
          /\ Len(ledger') = MaxReceipts
          /\ \A q \in Values(ledger') : ~Older(q, r)]_vars

\* The terminal barrier: before the room is reset, every player still connected
\* was sent the receipt of this round, if it is still owed, whatever older
\* receipt the account also owns.
BarrierSendsThisRound ==
    [][ResetRound =>
          \A a \in Connected :
              Minted(a) \in Values(ledger) => Minted(a) \in sentNow[a]]_vars

\* An account that keeps coming back gets its whole backlog: again and again
\* the ledger holds none of its receipts.
BacklogDrains ==
    \A a \in Accounts :
        []<><<Connect(a)>>_vars => []<>(\A r \in Values(ledger) : r.account # a)
=============================================================================
