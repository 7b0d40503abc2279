# A formal model of the offline battle server

This directory models the multiplayer core of the offline/LAN battle mod: the
server `server/lan_battle_server.py`, and around it the game client's
modules under `src/res/scripts/client/gui/mods/offline_lan_0922/`. Paths and line
numbers below are those of the repository. TLA+ modules describe the program's
control, TLC checks them on small instances, and TLAPS proves the main results for
every value of the parameters.

## 1. The system

One server process keeps one *room*. Game clients connect over TCP and exchange
JSON lines with it. A hidden game client, the *simulation worker*, connects as
well: it owns the arena geometry and simulates the Bots, and is therefore the
*Bot authority*. The server is authoritative for membership, phases, vehicles'
health, outcomes and rewards. A launcher starts these processes and manages
save slots.

Threads of the server:

| thread | what it runs |
| --- | --- |
| one handler per connection | `ClientHandler.handle` (16872): reads lines, calls a method of `BattleState`, removes its endpoint at the end |
| one writer per endpoint | `_EndpointSendMixin._outbox_loop` (2221): drains the outbox into the socket |
| the tick thread | `_run_tick_loop` (17483): `tick_once` (15708) at `TICK_HZ`, `handle_tick_failure` (11794) when it raises |

`BattleState` has one re-entrant lock. Methods that change the room hold it; but
the writer threads clear `connected` without it, `tick_once` takes it several times
in one tick, and rosters are built under it and enqueued after it was released.
That is where the hard behaviours come from.

### Inventory

| component | state | operations | hard behaviours | what makes it correct |
| --- | --- | --- | --- | --- |
| Battle room (`BattleState`) | players and ids, host, phase, round, tick, ready rounds, worker, authority and epoch, manifest, queued barrier, result, receipts | add/remove player and worker, start, manifest, ready, leave, tick, finish, reset, tick failure | links that fail without the lock, two-part critical sections, ids that are reused, failing disk writes, failing ticks | unique ids, a host, a barrier that holds for the whole battle and reaches everybody, one outcome per round, receipts exactly for settled rounds, epochs that fence authorities, every battle ends |
| Connection outbox (`_EndpointSendMixin`) | reliable queue and its byte account, snapshot slot, writer thread, events of waiting senders | send, offer_reliable, offer_snapshot, fail, disconnect, writer loop | overflow, stalls, synchronous timeouts that race the writer, replaceable snapshots against ordered news | one ordered stream without gaps, limits, no sender forgotten, no stale snapshot |
| Snapshot stream | per-endpoint frontiers of the sparse sections, the delta baseline, repair flags; the client's baseline and view | compose, offer, encode, write, repair, resync, decode, apply | frontiers that run ahead of what was written, repair racing prepared pages, a resync asked for in the middle of a tick | no frontier hides rows the client lacks, a delta follows its baseline, a request for a repair is answered, the client's state catches up with the server's |
| Shells (`battle_runtime.py`, projectile ledger of `BattleState`) | the server's ledger and tombstones, journal of events, piercing series; the owner's meta, shells, settled shots | launch, progress, ricochet, resolve, retire; fire, publish, accept events, reconcile snapshots | a client that does not wait for answers, echoes and snapshots that come late, refused launches, deferred second segments | the owner is never disbelieved, no live shell is forgotten, the medal's series is exact |
| Result receipts | `result_receipts` on disk, last delivered id per connection; the client's post-battle store | persist, deliver, acknowledge, evict | crashes and failing writes between commit and delivery, reconnects, duplicate deliveries | a reward is credited once and never lost while the receipt is kept |
| Roster publication | lobby messages, the client's accepted revision | build, broadcast, accept or ignore | messages overtaking each other, disconnected hosts | a client ends with the newest roster and never stops on a legal one |
| Client transport and queue (`lan_client.py`) | socket generations, pending messages | connect, stop, queue, dispatch | callbacks of an old generation | no message of an old connection is dispatched |
| Client session (`lan_session.py`) | lobby/arena state machine | start, enter, leave, show result | asynchronous game callbacks | the arena is left exactly once per round |
| Battle simulation of the server | Bot rows with their revisions and bases; inputs, projectiles, capture points, team commands, equipment | `update_bot_states` and the combat helpers; `update_input`, `launch_projectile`, `resolve_projectile`, `_update_capture`, ... | publications that race external hits, rows that are never sent, repeated and reordered reports, reports of a former authority | an admitted hit stands, each loss is charged once, each shot resolves once |
| Simulation worker | Bots, `_combat_sync`, projectile manager | advance, publish states, take answers, resolve shots | snapshots that are replaced by newer ones, time already simulated that must be replayed on a new base | the worker and the server come to agree |
| Garage and account stores | vehicles, money, missions, journal of settled receipts, career and unclaimed results | RPC commands, settlement, claim | crash between two files, a write that fails after another succeeded | settlement is idempotent, the two saves agree |
| Launcher and save slots | slot directories with `save.json`, archives, recovery folders | create, rename, delete, back up, restore, initialize, replace an old default save | failures and stops between any two files, a client that writes during a backup | nothing the player has earned disappears, a failure leaves the slot as it was |
| Bot driving, native cores, presentation, generated data | continuous or visual | | | out of scope |

`PROJECT.json` repeats this list with files, and its `hazards` give the line where
each hard behaviour bites and the property that watches it.

## 2. The modules

### BattleRoom

`BattleRoom.tla` is `BattleState` under its lock. Every action is one critical
section with everything it does; a method with two critical sections is two actions.

| code | TLA+ |
| --- | --- |
| `players`, `player_id`, `next_id`, `host_player_id` | `members`, `pid`, `nextId`, `host` |
| `connected`, `participating`, `alive`, `battle_ready_round` | `link`, `part`, `alive`, `ready` |
| `phase`, `round_id`, `tick` | `phase`, `round`, `tick` |
| `simulation_worker`, `bot_authority_id`, `authority_epoch`, `bot_manifest_authority_id` | `worker`, `authority`, `epoch`, `manifest` |
| `pending_live_message` (with its recipients) | `live` |
| `battle_result`, `result_reset_tick`, its event in `pending_events`, `result_receipts` | `result`, `resetTick`, `resultEvent`, `receipts` |
| `round_participants` | `frozen` |
| program counters of a handler, the worker handler, the tick thread | `thread`, `wpc`, `tpc` |

`loaded`, `heardLive` and `announced` are history: which round a client process has
really loaded, who was offered this round's `battle_live`, whether the clients were
told the result. Actions carry the names of the methods: `AddPlayer`,
`HandlerExits`/`DropPlayer` (both `remove_player`), `LeaveBattle`, `AddWorker`,
`RemoveWorker`, `RequestStart`, `PreflightFails`, `BattleReady`, `UpdateManifest`,
`ActivateAfterManifest`, `PlayerDies`/`BotTeamDies` (any combat report), `TickBegin`
and `TickAdvance` (the two critical sections of `tick_once`), `TickRaises`,
`HandleTickFailure`, and `LinkFails` (a writer thread clearing `connected`). A ready
message may arrive in any later round, so `BattleReady` takes any round its sender
has loaded. Inside `RequestStart` the worker's link may fail between the test at the
top and the election at the end. A tick that raises may have settled the round before
(`TickRaises`).

A load opens when its last prerequisite is met, and that may be the departure or the
failed link of a participant who was not ready. `CompleteLoadIsNoticed` says that a
complete load which has not opened has a thread that is still to look at it: the worker
handler between its two critical sections, or the handler of a player whose link has
failed. The latter does end: whoever clears `connected` shuts the socket down
(`_shutdown_transport`, 2091, 2112, 2245), so the handler's read returns and its
`finally` removes the player, which evaluates the barrier (`Departure`).

Left out: map, vehicles, lineups, tiers, classes and slots of the waiting room (they
can refuse a start, never change the properties above), the combat itself (reduced
to who is alive), and messages other than the barrier and the result.

### OrderedStream and EndpointOutbox

`OrderedStream.tla` is the abstract promise of a connection: reliable messages are
delivered in the order they were accepted, none twice and none left out, until the
stream breaks, which loses only its end. `EndpointOutbox.tla` is
`_EndpointSendMixin`, and implements it.

| code | TLA+ |
| --- | --- |
| `_outbox_reliable`, `_outbox_reliable_bytes`, `_outbox_snapshot`, `connected` | `queue`, `bytes`, `slot`, `connected` |
| the writer thread and the item it writes | `writer`, `hand` |
| `done`/`result` of a waited item | `answer` |
| a thread between building a message and enqueueing it, and inside `send` | `held`, `sync`, `pc` |
| what reached the socket | `sent`, `shown` |
| round, tick, revision and epoch a message was built at | `now` and the stamp `at` of each message |

`Put` is the critical section of `_enqueue_reliable`, `Fences` is
`_reliable_fences_snapshot` arm by arm, `Fail` is `_fail_outbox`. `TimeOut` and
`GiveUp` are the two halves of a synchronous send that runs out of time: the writer may
finish the item between them. Messages built and enqueued under the state lock are
one action (`OfferReliable`, `OfferSnapshot`); `Build` and `Enqueue` are the two
halves of `broadcast(lobby_message())` and of an answer, which the room may overtake.

Left out: payload bytes (a kind has a size), the delta codec and the sparse
sections, the synchronous path used for objects that are not sockets, statistics. An
accepted snapshot offer is one step with its stamp, because `tick_once` looks at
round and revision again under the lock before it offers.

### RewardLedger and ResultReceipts

`RewardLedger.tla` is the abstract promise of a settled battle: a reward is earned
once its battle is settled, and paid at most once and never before.
`ResultReceipts.tla` is the way a receipt takes from the server's file to the
client's two saves, and implements the promise twice: for the garage (`wallet`), as long
as its journal keeps the marker, and for the career (`career`).

| code | TLA+ |
| --- | --- |
| `result_receipts` and its file, `receipt_namespace`, `round_id`, `round_participants` | `ledger`, `disk`, `boot`, `round`, `participants` |
| `Player.delivered_receipt_id` | `delivered` |
| the socket, as the server and the client see it | `conn`, `down`, `up` |
| `_stopped`, `_battle_started`, `_pending_battle_receipts` of the session | `session`, `inBattle`, `deferred` |
| `PostBattleStore.accept` between its two saves | `accepting` |
| `battleCrewReceipts` of the garage save | `markers` |
| `_pending` and `_history` of the career save | `pending`, `archive` |

`wallet` and `career` count how often a receipt was banked; `settled`, `evicted` and
`sentNow` are history. A receipt is its account, the server process that minted it
and that process's round number, because `_result_receipt_for_delivery` looks at
the round number alone. `FinishBattle`, `TerminalBarrier`, `TickDelivers`,
`ResetRound` and `FailBattle` are the parts of a battle's end; `ServerTakesAck`
persists a removal and sends the next receipt; `ServerIgnoresAck` covers an id the
account does not own and a failing write. A connection the client has left is
"closing" until the server notices (`RemovePlayer`): receipts sent meanwhile reach
nobody although `delivered` remembers them. On the client, `ReceiveInGarage` and
`DrainDeferred` bank the award in the garage and leave the receipt in `accepting`;
`StoreResult` or `StoreFails` follows, or `CrashClient` between the two. `Stop`,
`DrainDeferred` and `Stopped` are the loop of `stop`; `Cut` is what the loss of the
transport does to a battle.

Files are replaced by renaming a complete temporary file, so a save happens or does
not; after a crash the memory of a store is its file. What a receipt pays, the
garage's commands, offline replays and the presentation that delays
`_drain_battle_receipts` are left out: `DrainDeferred` may happen at any time.

### SnapshotStream

`SnapshotStream.tla` follows the snapshots of one connection from the room through
the outbox to the client's view. The outbox is that of `EndpointOutbox` without
limits and failures, which end the connection.

| code | TLA+ |
| --- | --- |
| `destructible_revision`, `bot_orders["revision"]`, authority epoch and manifest | `ledger`, `orders`, `lineage` |
| `*_revision_sent`, `bot_manifest_*_sent` | `sent` |
| the refresh cadence of a section (`*_REFRESH_TICKS`) | `aged` |
| `snapshot_resync_requested`, `_destructible_replay_required` | `resync`, `replay` |
| the snapshot `tick_once` has composed and not yet offered | `tick` |
| `_snapshot_baseline` and `_snapshot_sequence` of the writer | `base` |
| `_snapshot_wire_baseline`, `_snapshot_resync_pending` of the client | `known`, `asked` |
| what the frame callback has applied | `view` |

`Compose` and `Offer` are the two looks of `tick_once` at the room, between which the
writer and requests for a repair may run; `Write` and `WriteRefused` are
`_write_message`, `TakeResync` is `request_snapshot_resync`, `Receive` and
`ReceiveUndecodable` the client's decoding. The destruction with revision r is the
number r, so a page is an interval. A delta decodes iff it was made against the
snapshot decoded last. Left out are the actors' fields, the complete snapshot that
replaces a delta whose rows changed their order or which does not fit the wire, and the
client's coalescing while its frames are paused (a dropped snapshot is one of `Receive`'s
outcomes). A read of the
frontiers by the tick thread and the writer's move of them are one step each, as nothing
in between depends on the other.

### BotCombat

`BotCombat.tla` is the combat state of one Bot between its two writers: the server,
which admits shots and stuns, and the worker, which burns, treats and lands the Bot and
publishes rows.

| code | TLA+ |
| --- | --- |
| the row of `bot_states`: health, alive, fire, stun, medkit uses | `server.state`, `server.used` |
| `combat_revision`, `combat_base_revision`, `combat_ack_seq` | `server.rev`, `.base`, `.ack` |
| the Bot in `bot_runtime.py` | `worker` |
| its row of `_combat_sync`: published and known signatures, pending publications, slices of time, numbers | `sync` |
| rows in the worker's connection, snapshots in the other direction | `up`, `down` |

`Hit`, `Stun` and `ExpireStun` are the external changes, each with
`_commit_external_bot_combat`; `Slice` is `_poll_bot_equipments` with
`_advance_bot_critical`, `Land` the fall damage, `Publish` the marking of a publication
and its encoding, which may fail. `Receive` is what `update_bot_states` does with one
row: contained, answered, fenced or accepted. `Broadcast` offers a snapshot, which
replaces one that is waiting; `Deliver` is `_apply_server_combat_state`: refused,
acknowledged, or a new base on which unconsumed slices are replayed. A slice of burning
costs one unit of health; modules, crew, poses, shots and the handoff between two
authorities are left out.

Three behaviours of the code shaped the properties. A landing leaves no slice, so
one whose row is fenced costs nothing in the end. A fenced row already stores the
medkit's use (`equipment_states` is not in `_copy_bot_combat`); the replayed publication
then clears the stun without a new use and is contained, again and again, until the stun
expires. And containment lowers the health without a revision: the worker refuses the
snapshots in between and may replay a slice the containment has merged. Hence `merged`
and `falls` in `LossesAreExact`, which bounds the charge from above and below.

### SaveSlots

`SaveSlots.tla` is `launcher/save_slots.py`, one file at a time.

| code | TLA+ |
| --- | --- |
| slot directories, their state files, `save.json` with its `default_revision` | `exists`, `live`, `meta` |
| `pre-restore-...` and `pre-initialize-...` folders, the archive of a backup | `kept`, `archive` |
| the operation the launcher is in, with the local lists of its method | `op` |
| how the last one ended: return, exception, exception that reports damage | `result`: done, failed, damaged |
| the client that plays a slot and writes its files | `game`, `next` |

`fresh` is history: the default slot was made current and no reset was asked for. A
content is a number, new with every write of the client. `Fail` is an exception in the
body of a restore or an initialization and its immediate cleanup, `MoveBack`,
`MoveRecordBack` and `EndRollback` the rollback, in which any step may fail again; `Stop` is the end of the
machine or an exception without rollback. The launcher does one operation at a time and
refuses to restore, initialize or delete while the client runs; a backup may run
beside the client.

What a failure leaves is less than one would expect, and `FailureAccounted` says how
much less. `restore_slot` raises the same error whether or not its rollback succeeded
(714-725), so its outcome is always "failed". It ignores a file that it could not remove
(711-713), and never removes the one it was writing, because `written` gets a name only
after the write (707): a slot that lacked a file may have it afterwards, whole or in
part. `initialize_slot` moves back in the reverse order and names its recovery folder
when anything went wrong ("damaged"); without that it has left the slot as it was.

Left out: the earnings setting, the import of a legacy save, the
launcher's inboxes and its windows.

### PiercingSeries and Projectiles

`PiercingSeries.tla` is the server's count of a shooter's longest series of consecutive
piercing shots (`_record_projectile_piercing`). It keeps only the runs that a shell in
flight may still extend, and is compared with the definition of the longest series.
`Projectiles.tla` uses it: the shells of one player, between the client that flies them
and the server that keeps their ledger.

| code | TLA+ |
| --- | --- |
| `projectiles`, `projectile_tombstones` | `ledger` |
| `_piercing_series_runs`, `max_piercing_series` | `runs`, `longest`; `verdict` is history |
| `_projectile_meta` of the client | `meta` |
| the shells of the projectile manager, and the segments it knows | `shell` |
| `_projectile_visual_terminals`, `_projectile_resolution_acks` | `settled` |
| `pending_events` and the client's `_event_journal` | `journal` |
| messages of the client to the server | `up` |

`Receive` is one message in the server: `Launch`, `Progress`, `Ricochet` or `Resolve`,
each of which may be refused; `Expire` is the server's own retirement of a shell. On the
client, `Fire`, `Advance`, `Publish`, `Bounce`, `Due`, `Admit` and `Hit` are what a frame
does, `Present` is the handling of one event, `Snapshot` the reconciliation of a whole
ledger (`Reconcile`). Two behaviours of the code shape the properties. A launch that is
refused leaves later batches of progress naming a shell the server does not know, and
such a batch is refused whole: the shells beside it are then ahead of the ledger, and the
server disbelieves their next message. So `OwnerIsBelieved` exempts a round with a
refused launch. And a second segment that takes off after the frame may be restored by a
snapshot first: the manager then knows it, and the shot ends as expired. Targets,
trajectories, effects, the Bots' shells and the end of a battle are left out.

### Proof modules

`BattleRoomProofs`, `BattleRoomBarrierProofs`, `EndpointOutboxProofs`,
`ResultReceiptsProofs`, `SnapshotStreamProofs`, `SaveSlotsProofs`, `BotCombatProofs` and
`ProjectilesProofs` hold the theorems of section 4.

## 3. What TLC checks

| run | instance | properties | shows |
| --- | --- | --- | --- |
| `room_core` | 2 players, 1 worker, 3 rounds, 1 failing write | `TypeOK HostIsInTheRoom EveryoneHeardLive ReceiptsFollowSettlement IdsAreUnique LiveBattleIsLoaded CompleteLoadIsNoticed OnlyOwnExit` | two whole rounds and the start of a third, whatever leaves or fails in between; a complete load always has somebody to open it; ids that a reset frees, ready messages of an earlier round, handlers that outlive their player |
| `room_liveness` | 1 player at a time, 2 rounds, 1 failing write, 1 failing tick | `BattleEnds OneOutcome ResultShownBeforeReset` | every battle returns to the waiting room, and ticks that raise with the result in their hands neither lose nor change it |
| `outbox` | 2 senders, room for 3 bytes, 2 messages, 2 rounds, 1 tick, 1 revision | `WithinLimits TrueMeansWritten ImplementsStream NoStaleSnapshot SendReturns AcceptedIsWritten` | overflow, stall, timeout and disconnect from every thread; snapshots of every age against news of every age; nobody waits for ever, an accepted message is written or the connection given up |
| `receipts_core` | 1 account, 2 server processes, 3 battles of which the client cannot read one receipt, ledger of 2 | `AckedIsDurable SavesAgree PaysOnce CountsOnce RetiredStaysRetired EvictsOldest BacklogDrains` | whatever write fails and whoever stops: no receipt leaves the server before it is durable, none is banked twice while the garage's journal keeps its marker, and an account that keeps coming back gets its whole backlog |
| `snapshot_stream` | 1 destruction or revision of the orders a round, 1 new round, lineage or revision, 1 fault, 1 message on the wire | `DeltasFollow AskedIsAnswered ViewIsTrue ViewCatchesUp` | every delta follows the snapshot before it, a client that waits for a repair gets one and shows nothing its round has not had, and in a battle at rest it comes to show everything |
| `combat_core` | 2 units of health, 2 shots of any kind, 1 stun, 2 burning slices, 1 medkit, 1 landing, 1 row not encoded, 2 rows and 1 snapshot on their way | `LineageHolds LossesAreExact HitsStand Converges` | whatever is fenced, replayed, replaced or never sent: no hit is undone, every loss is charged once, and the two sides come to agree |
| `projectiles_core` | 2 shots, 2 units of flight, 2 messages on their way, 1 mishap | `LongestIsExact OwnerIsBelieved LiveIsTracked` | whatever comes late: the medal's series is exact, the server believes the owner, and the owner forgets no shell of the ledger |
| `saves_core` | the default slot and one more, 2 files each, 2 contents, 2 failures or stops | `NothingLost FailureAccounted DoneIsExact` | nothing the player has earned disappears in a restore or an initialization; a failure leaves every file back or in the recovery folder, and of a file the slot lacked at most what the restore was writing; a success leaves exactly what it promised |

Four runs are expected to be violated; each is a disagreement between a comment and
the code:

| run | property | the comment | what happens |
| --- | --- | --- | --- |
| `room_lost_worker` | `LostWorkerEndsRound` | 3497 "Fence a lost worker and terminate its active #1513 round." | the worker's link fails inside `request_start`, the load starts without an authority, and removing the worker does not end it |
| `receipts_barrier` | `BarrierSendsThisRound` | 15918 "Prioritize this round's durable receipt even when the account still owns an older unacknowledged row" | round numbers start at 1 in every server process, and an unacknowledged receipt of an earlier process with this number is taken for this round's |
| `snapshot_hole` | `FrontierHidesNoHole` | 1908 "This page may have been prepared before the repair barrier reset the frontier. Sending it now would hide the missing prefix behind its newer revision." | two pages composed before a repair are written after it: the first clears the flag the second would be recognised by (1896), the second hides the lost row |
| `saves_discarded` | `DiscardedOnce` | `save_slots.py` 227 "Discard the obsolete default once, without backups or legacy import." | the machine stops while a restore has moved the default slot's `save.json` away; the next start takes the slot for an old one and removes it with its recovery folder |

A further disagreement has no run: comment 4945 says of a load "If nobody remains in
this load, return those same sockets to a fresh waiting-room round", but `remove_player`
(3622) resets only when no player at all is left, so a load whose last participant
disconnects while another one is back in the lobby waits for nobody.

**Bounds.** Two connections are enough for a host change, for one participant leaving
while the other stays, and for an id that is reused while its former handler runs;
the team of the players against a team of Bots is enough for an elimination. One
worker suffices for the safety runs because a lost worker ends its round. `MaxRound`
is the first round in which no start is requested, resets go on: 3 is two battles
and the room after them, so a ready message of the first may be delayed into the second. `MaxTick` 8 exceeds the longest battle of the
instance (prebattle 1, battle 1, reset 3, plus failing writes). Two messages,
from any of the two senders and the tick thread, are enough for an overflow by bytes
(one kind has double size), for a message behind another, and for an answer that is
waited for while another thread fails the connection. The limit on the number of messages
would take a third; it is the other disjunct of the same test (`Overflows`), and
`OutboxWithinLimits` covers every limit. The room's clock moves at most one tick, one revision and one
round past its start, because `Fences` and `Older` compare two stamps.
Two receipts of the first server process, the second unreadable, and one of the next, against
a ledger of two rows, reach eviction, a backlog, a duplicate behind a newer receipt and a
receipt of an earlier process. The server may start one battle more than it settles, so that an
ordinary tick meets a backlog. `MaxMarkers` is 4, more than the receipts of the instance, so
no marker is dropped and `PaysOnce` holds. With fewer markers it does not: once the journal
has dropped the marker of a receipt that is still owed and whose result is not yet saved,
the award is banked again. The garage keeps 512 markers and an account may get any
number of receipts, so `SavesAgree` says what holds for every journal, and is proved for every one: an
award is banked again only in an account that banked more different awards than the
journal has rows.
`snapshot_stream` has one destruction or one revision of the orders in a round, one second
round, second lineage or revision of the orders, and one fault, which is any
refusal, failure to decode, stale composition or dropped snapshot, at any place; a
snapshot sequence counted modulo 2 still tells the snapshots on a wire of one message
apart. A lineage changes before the destruction there (which may happen at once, and may
be followed by a new round); the theorems cover every bound. `snapshot_hole` needs three destructions: the lost row, and one
for each of the two pages. Two shots, of two units of flight each, let a batch of progress
name two shells, a ricochet and a terminal meet on the way, and a series be joined from two
verdicts in either order; the mishap is a refused launch, an expiry or a deferred segment.
In `combat_core` two
units of health separate a hit from a death, two rows and a snapshot on their way let an
answer cross two publications of the old base, and two burning slices let a fire end by
itself and one slice be consumed while the other is replayed. Two contents let a
slot differ from its archive, two faults let a rollback fail, and two files let a move
or a copy stop half way.

**Fairness.** `room_liveness` assumes that the tick thread is scheduled while it
runs (a loop with a fixed interval) and that the worker's handler finishes the
message it dispatches; nothing is assumed of clients, loads or ready messages. It has
one player at a time: with two its liveness graph is too large, and what depends on the
second one is a safety property of `room_core`.
`outbox` assumes that the writer thread is scheduled and ends every write
-- `_write_payload` gives up a stalled socket after
`OUTBOUND_STALL_TIMEOUT_SECONDS` -- and that a sender goes on once its event is set or
its wait has ended. `TimeOut` itself needs no fairness.
`receipts_core` assumes strong fairness of the client handling a message, of a
garage or career write, and of the server taking an acknowledgement: these are tried
again on every connection, and a disk or a network that fails every time for ever is
not the program's to repair. That the account reconnects again and again is not assumed but
a hypothesis of `BacklogDrains`.
`snapshot_stream` assumes that the tick, writer and network threads are scheduled, and
that the tick at which a section is due again (every 5 or 10 s) comes again and again
while the previous steady snapshot has been written -- a writer without progress for 5 s
gives up the connection. Nothing is assumed of the reading of a request for a repair.
`combat_core` assumes that the worker goes on publishing and reading and the server
reading and broadcasting, and that a stun ends at its deadline.

**Deadlock** is not checked: a room may stop when its connections are used up and its
bounds reached, an outbox when its connection is gone, a settlement when every server
process has fought its battles, saves when the bound on faults and contents is reached,
a snapshot stream when the room is at rest and everything was shown, a player's shells
when all shots have ended.

## 4. What is proved

The theorems hold for any number of connections, workers, senders, accounts, slots,
files and shots, any teams, durations, sizes, limits and bounds that satisfy the assumptions at
the end of this section.

| theorem | property | argument |
| --- | --- | --- |
| `RoomTypeOK` | `TypeOK` | inductive; the shared blocks (`Settle`, `Elect`, `ResetRoom`, `Departure`) are typed by lemmas of their own |
| `RoomReceipts`, `RoomBarrierWithdrawn` | `ReceiptsFollowSettlement`, `FailedRoundIsNotLive` | `OutcomeInv`: a result or a queued barrier exists only in a battle, and a failed round has no queued barrier. Without the first part a reset could not be told from a settlement |
| `RoomOneOutcome` | `OneOutcome` | each settling block starts from `result = "none"`; the rest leaves both fields alone or resets the round |
| `RoomEpochFence` | `EpochFencesAuthority` | every change of `authority` is an `Elect` or a reset |
| `RoomIdsAreUnique`, `RoomHasHost` | `IdsAreUnique`, `HostIsInTheRoom` | `LobbyInv`: members have joined, their ids are distinct and below `nextId`, the host is the id of a member, and is None only when nobody is connected. Needed because a reset lowers `nextId` and because links fail without an election |
| `RoomOnlyOwnExit` | `OnlyOwnExit` | a step takes at most one connection out of the room (`MembersMove`), and then by its own handler or because its link has failed; `OwnPlayer` finds no other because the handler tests the object and not the id |
| `RoomResultShown` | `ResultShownBeforeReset` | `ShownInv`: while a decided battle has not told its result, the event is queued or comes back from the failed tick, and the tick number is at least two short of the reset, three before a first failure. A second failure in a row stops the server, so an untold result never meets its reset. Needs a result that is shown for more than two ticks |
| `RoomLoadIsNoticed` | `CompleteLoadIsNoticed` | `NoticeInv`: every member's handler runs, and the lineup belongs to a round that has started. Each handler that can complete a load evaluates the barrier in the same critical section, or leaves it to the worker handler's second one; a link that fails leaves it to the player's own handler |
| `RoomLiveBattleIsLoaded`, `RoomEveryoneHeardLive` | `LiveBattleIsLoaded`, `EveryoneHeardLive` | `BarrierInv`: a `ready` round is a loaded round, the barrier's conditions survive every step of an undecided battle, and each participant is among the recipients of the queued barrier or has been offered it |
| `OutboxTypeOK` | `TypeOK` | inductive |
| `OutboxForgetsNoSender`, `OutboxTrueMeansWritten` | `NoSenderForgotten`, `TrueMeansWritten` | `SenderInv`: an item that names a sender holds that sender's message, a sender owns at most one item, snapshots are awaited by nobody, and a dead writer leaves no connection |
| `OutboxWithinLimits` | `WithinLimits` | `LimitsHold` and `AccountHolds`: `_enqueue_reliable` gives the connection up before it passes a limit, and the three paths that touch the queue keep the byte account equal to the sum over it (`SumAppend`, `SumTail`, `SumEmpty`). The sum is a recursive function over the queue: that every queue has one (`AccountExists`), that it is unique (`AccountsAgree`) and a natural number (`AccountIsNat`) is shown by the least exception (`LeastNatural`, from the well-foundedness of the naturals) |
| `OutboxNoStaleSnapshot` | `NoStaleSnapshot` | `FreshInv`: no message is ahead of the room's clock (`ClockAdvances`), and every state in the queue, the hand or the slot may follow the rosters and events in front of it. A reliable state and events carry the clock of the moment they are enqueued; a roster may be late, but it withdraws the slot (`PutFresh`) |
| `OutboxImplementsStream` | `ImplementsStream` | refinement with pending = the message in the writer's hand followed by the queue: `Put` is `Accept`, a written message is `Deliver`, every failure is `Break`, taking from the queue is a stutter. Needs that the slot holds only snapshots |
| `ReceiptsTypeOK` | `TypeOK` | inductive, with lemmas for the ledger's limit and for delivery |
| `ReceiptsStayRetired`, `ReceiptsEvictOldest` | `RetiredStaysRetired`, `EvictsOldest` | `LedgerInv`: ledger and file agree, hold settled receipts only, nothing of a future round, in the order of minting. Needed because a restart reads the file again |
| `ReceiptsAckedIsDurable`, `ReceiptsCountOnce` | `AckedIsDurable`, `CountsOnce` | `ClientInv`: every receipt on a wire or deferred is settled, every acknowledged one is in the career save (or unreadable), and `career` is 1 exactly for what that save holds; refinement of `RewardLedger` |
| `ReceiptsSavesAgree` | `SavesAgree` | `JournalInv`, for a journal of any size: no row is there twice and each is banked; an award that is being accepted or is stored is banked; and an award that was banked is in the journal, or as many others of the account were banked as the journal has rows (`Remembered`). The last part survives a row that a full journal drops, because the journal is then full of others (`BankStep`, `FullJournal`). So an award is banked again only in an account that banked more awards than the journal has rows |
| `StreamTypeOK` | `TypeOK` | inductive |
| `StreamDeltasFollow` | `DeltasFollow` | `ChainInv`: the outbox holds no deltas yet, the writer's baseline is the last snapshot on the wire or, with an empty wire, what the client knows unless it has lost it, and each delta on the wire follows the snapshot before it. Only `_write_message` moves the baseline, and only with what it writes |
| `StreamAskedIsAnswered` | `AskedIsAnswered` | `Answered`: the request is on its way or noted, or a complete snapshot is queued, in the writer's hand or on the wire. The flag is cleared only by an offer that queues the repair as a reliable message, which no barrier withdraws, and is set again when that is refused |
| `StreamViewIsTrue` | `ViewIsTrue` | `OutboxSound` and `WireSound`: no message, composed, queued, in the hand or on the wire, tells more of its round than the round has had (`Told`), nor does the view; a reset makes both rounds of the past, which a message may still carry and the view still show |
| `SavesTypeOK` | `TypeOK` | inductive with `OpInv` |
| `SavesNothingLost`, `SavesFailureAccounted`, `SavesDoneIsExact` | `NothingLost`, `FailureAccounted`, `DoneIsExact` | `OpInv` (which operation can be at which stage) and `SlotInv`: at every stage each file the operation found is in its place, in the recovery folder, or both replaced and in the folder; so what a rollback puts back is what was there, and what it cannot put back (`stuck`) is in the folder it keeps |
| `CombatTypeOK` | `TypeOK` | inductive, with the finiteness of the recorded slices |
| `CombatHitsStand` | `HitsStand` | `CombatInv`: no base on its way is ahead of the server's, a base the worker has not taken stands as the server opened it, and of one base the dead stay dead from the worker back to the server. Without the last part a row of the current base could revive a Bot that a former row of it had killed |
| `CombatLineageHolds` | `LineageHolds` | `LineInv`, in three parts. `OrderInv`: the worker's numbers, the snapshots on their way and the server's follow each other, and a new base or acknowledgement has a new revision. `AckInv`: what the server has accepted and the worker not seen acknowledged is still pending, in the server's state as long as the base stands. `RowInv`: the rows of one base lose health only, and clear a stun only with one more use of the medkit, so the server never refuses the stun of a row that follows an accepted one. The last part is what keeps the state the server has accepted equal to the pending one |
| `CombatLossesAreExact` | `LossesAreExact` | `LossInv`: the worker, the server and every row on its way are three views of one fire. What a view has lost, with the slices above its number that a rebase will still charge it, is never more than what was done, and exactly that while its Bot lives (`OverInv`, `UnderInv`). Needs that slices are told apart by their numbers and times (`AtInv`, `SeqInv`) and that a fire's clock is carried by whoever may still burn with it (`LitInv`), or two slices of one moment would be charged as one |
| `SeriesIsExact`, `ShellsKeepSeries` | `LongestIsExact` | `SeriesInv`: a kept run is a maximal series that has been measured, and a piercing shot next to an open one or to the next launch is at the edge of a kept run, so what was dropped cannot grow; every step of `Projectiles` is a step of the series or leaves it alone |
| `ShellsTypeOK` | `TypeOK` | inductive, with `RecordInv`: a terminal names its own shot, and an unknown shot has an empty entry |
| `ShellsAreTracked` | `LiveIsTracked` | `PhaseInv`: the launch of a shot is the first message about it, a shot not fired is known to nobody, what is announced of a shot fits its life, and a settled shot is never a live one. `HandInv`: of a shell that is live or whose launch is on its way, the owner has a terminal exactly when one is on its way, its segment is that of its meta, and a second segment is known only after the owner's own ricochet, which is told once. So no row or event is newer than the owner's meta, and the lines of `_accept_projectile_event` and `_reconcile_projectile_snapshot` that drop a meta are not reached with a live shell |
| `OwnersAreBelieved` | `OwnerIsBelieved` | `CursorInv`, until a launch is refused: the ages told of a shot grow from the server's on, up to its terminal (`Grows`); the base of every ricochet and terminal has been told by then (`Based`); and a shell in flight is as old as anything told (`Ahead`). Ages may be told that the server does not have yet, so the invariant follows each of them through the messages that stand before it (`Reached`). A deferred second segment needs its own clause: a snapshot may restore the shell at the server's age, and it must not be younger than what the owner has told |

Only model-checked, liveness and ENABLED being out of the prover's reach: `BattleEnds`,
`SendReturns`, `AcceptedIsWritten`,
`BacklogDrains`, `ViewCatchesUp` and `Converges`. `PaysOnce` is only model-checked because
it holds as long as the journal keeps its markers; `ReceiptsSavesAgree` is what is true
of every journal.

Proved but left out of the runs, because a theorem about every room says more:
`FailedRoundIsNotLive` (`RoomBarrierWithdrawn`), `EpochFencesAuthority`
(`RoomEpochFence`), `NoSenderForgotten` (`OutboxForgetsNoSender`), and the type
invariants of the outbox, the receipts, the snapshot stream, the saves, the combat and the
shells (`OutboxTypeOK`, `ReceiptsTypeOK`, `StreamTypeOK`, `SavesTypeOK`, `CombatTypeOK`,
`ShellsTypeOK`).

Assumptions: `RoomAssumption`, `OutboxAssumption`, `ReceiptsAssumption`, `StreamAssumption`,
`SlotsAssumption`, `CombatAssumption` and `ShellAssumption` say what the constants are --
disjoint kinds of endpoints, natural numbers, a prebattle of at least one tick and a
result shown for more than two ticks (`RESULT_RESET_SECONDS * TICK_HZ` is far more), a
Bot and a fire that last. The `NoneAssumption` of the
saves, of the snapshot stream and of the shells say that "none" is none of the values it stands beside.

## 5. What is not modelled, and why

Geometry, physics, ballistics, Bot decisions and the native cores are numeric and
have no small instances. Presentation calls into a closed game client. Generated
tables, tools and tests carry no state of the running system. The other components
of the inventory are in the plan below; `PROJECT.json` gives each one its status.

Of the modelled components these parts are left out: vehicle, team and roster choices
of the waiting room; the client's coalescing of snapshots while its frames are paused;
what a receipt pays, and the garage's commands; of a battle everything but the combat
state of a Bot and a player's shells (player input, the Bots' shells, ramming, capture,
team commands, equipment and siege mode), and of that state the modules, the crew and the
handoff between two authorities; of the launcher the earnings setting, the import of a legacy save and the
inboxes. Rosters, the client's transport and its session are not modelled yet.

Hazards without a property are listed in `PROJECT.json` with a note that says why.

## 6. Plan

In this order, the most consequential behaviour first:

1. `RosterStream`: roster publication outside the lock against the client's guard on
   round, revision and epoch; composes `EndpointOutbox`'s ordered stream with two
   publishers.
2. `ClientTransport` and `ClientSession`: socket generations, the paused-frame queue with
   its coalescing, entering and leaving the arena.
3. `PlayerInput`, `TeamCommands`, `Equipment`, `Siege`, `Capture`, `WorkerPing`: the
   sequence-numbered protocols inside a battle.
4. The garage's commands and the settlement of missions.
5. Further theorems about what the earlier steps of the plan add. Of the runs of today
   every safety property is proved.
