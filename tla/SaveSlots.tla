----------------------------- MODULE SaveSlots -----------------------------
(***************************************************************************)
(* The launcher's saves (launcher/save_slots.py).  A slot is a directory   *)
(* of state files, which the client writes while it plays the slot, and of *)
(* the record save.json.  The launcher backs a slot up into an archive,    *)
(* restores an archive into a slot, initializes and deletes slots, and     *)
(* replaces a default slot of an older package, always one file at a time. *)
(* Any step may fail, and the machine may stop between any two.            *)
(*                                                                         *)
(* A content of a file is a number, new whenever the client writes it.     *)
(* The folders pre-restore-... and pre-initialize-... of a slot are one    *)
(* set of files with their contents.                                       *)
(***************************************************************************)
EXTENDS Integers, FiniteSets

CONSTANTS
    Slots,
    Default,      \* DEFAULT_SLOT_ID
    Files,        \* STATE_FILE_NAMES
    None,         \* no file, no operation
    Partial,      \* a file whose writing was interrupted
    MaxVersion,   \* bound: contents the client has written
    MaxFaults     \* bound: failed steps and stops

ASSUME SlotsAssumption ==
    /\ Default \in Slots
    /\ None # Partial /\ {None, Partial} \cap Nat = {}
    /\ MaxVersion \in Nat /\ MaxFaults \in Nat

VARIABLES
    exists,    \* slots that have a directory
    live,      \* the state files of each slot
    meta,      \* save.json: absent or unreadable, "plain", or "current" when
               \* it carries default_revision
    kept,      \* what the recovery folders of each slot hold
    archive,   \* the archive of the last backup
    op,        \* the operation the launcher is in
    result,    \* how the last one ended, None if the machine stopped
    fresh,     \* the default slot has been made current, and no reset asked for
    game,      \* the slot the client plays
    next,      \* the last content the client has written
    faults     \* faults so far

disk == <<exists, live, meta, kept>>
vars == <<disk, archive, op, result, fresh, game, next, faults>>

Versions == 1..MaxVersion
Contents == Versions \cup {None, Partial}
Empty == [f \in Files |-> None]

\* The complete contents of a set of files.
Complete(files) == {<<f, files[f]>> : f \in {g \in Files : files[g] \in Versions}}

Fault == faults < MaxFaults /\ faults' = faults + 1

\* The operation is at the given stage of the given kind.
At(type, stage) == op # None /\ op.type = type /\ op.stage = stage

\* The launcher is a dialog: it does one thing at a time, and the client is
\* started by it.
Idle == op = None /\ game = None

Begin(type, s, stage) ==
    /\ op' = [type |-> type, slot |-> s, stage |-> stage, before |-> live[s],
              label |-> meta[s], folder |-> Empty, moved |-> "none",
              stuck |-> {}, damage |-> FALSE]
    /\ result' = None

End(outcome) == op' = None /\ result' = outcome

----------------------------------------------------------------------------
(* The client *)

\* install_client_mod upgrades the default slot before the client is started.
StartGame(s) ==
    /\ Idle /\ s \in exists /\ meta[Default] = "current"
    /\ game' = s
    /\ UNCHANGED <<disk, archive, op, result, fresh, next, faults>>

\* The client writes a state file, by an atomic replacement.
Play(f) ==
    /\ game # None /\ next < MaxVersion
    /\ next' = next + 1
    /\ live' = [live EXCEPT ![game][f] = next + 1]
    /\ UNCHANGED <<exists, meta, kept, archive, op, result, fresh, game, faults>>

StopGame ==
    /\ game # None /\ game' = None
    /\ UNCHANGED <<disk, archive, op, result, fresh, next, faults>>

----------------------------------------------------------------------------
(* Creating, naming and deleting *)

\* create_slot.
Create(s) ==
    /\ op = None /\ s \notin exists
    /\ exists' = exists \cup {s}
    /\ meta' = [meta EXCEPT ![s] = "plain"]
    /\ UNCHANGED <<live, kept, archive, op, result, fresh, game, next, faults>>

\* rename_slot keeps what a readable record says and writes one otherwise.
Rename(s) ==
    /\ op = None /\ s \in exists
    /\ meta' = [meta EXCEPT ![s] = IF @ = "none" THEN "plain" ELSE @]
    /\ UNCHANGED <<exists, live, kept, archive, op, result, fresh, game, next,
                   faults>>

\* delete_slot.
BeginDelete(s) ==
    /\ Idle /\ s \in exists \ {Default}
    /\ Begin("delete", s, "remove")
    /\ UNCHANGED <<disk, archive, fresh, game, next, faults>>

\* rmtree removes one entry after the other.
Remove ==
    /\ op # None /\ op.stage = "remove"
    /\ \/ /\ \E f \in Files : /\ live[op.slot][f] # None
                              /\ live' = [live EXCEPT ![op.slot][f] = None]
          /\ UNCHANGED <<meta, kept>>
       \/ /\ meta[op.slot] # "none"
          /\ meta' = [meta EXCEPT ![op.slot] = "none"]
          /\ UNCHANGED <<live, kept>>
       \/ /\ kept[op.slot] # {}
          /\ kept' = [kept EXCEPT ![op.slot] = {}]
          /\ UNCHANGED <<live, meta>>
    /\ UNCHANGED <<exists, archive, op, result, fresh, game, next, faults>>

Removed == live[op.slot] = Empty /\ meta[op.slot] = "none" /\ kept[op.slot] = {}

EndDelete ==
    /\ At("delete", "remove") /\ Removed
    /\ exists' = exists \ {op.slot}
    /\ End("done")
    /\ UNCHANGED <<live, meta, kept, archive, fresh, game, next, faults>>

----------------------------------------------------------------------------
(* The default slot of an older package *)

\* _upgrade_default_save, and initialize_slot for the default slot.
BeginReplace(type) ==
    /\ Idle
    /\ type = "upgrade" => meta[Default] # "current"
    /\ Begin(type, Default, "remove")
    /\ fresh' = (fresh /\ type = "upgrade")
    /\ UNCHANGED <<disk, archive, game, next, faults>>

\* replace_default publishes the record when everything else is gone.
EndReplace ==
    /\ op # None /\ op.type \in {"upgrade", "reset"} /\ Removed
    /\ meta' = [meta EXCEPT ![Default] = "current"]
    /\ fresh' = TRUE
    /\ End("done")
    /\ UNCHANGED <<exists, live, kept, archive, game, next, faults>>

----------------------------------------------------------------------------
(* Backing up *)

\* backup_slot lists the files; the client may be writing them.
BeginBackup(s) ==
    /\ op = None /\ s \in exists
    /\ live[s] # Empty \/ meta[s] # "none"
    /\ Begin("backup", s, "copy")
    /\ UNCHANGED <<disk, archive, fresh, game, next, faults>>

CopyFile(f) ==
    /\ At("backup", "copy") /\ op.before[f] # None /\ op.folder[f] = None
    /\ op' = [op EXCEPT !.folder[f] = live[op.slot][f]]
    /\ UNCHANGED <<disk, archive, result, fresh, game, next, faults>>

\* The archive replaces one of the same name when it is complete.
EndBackup ==
    /\ At("backup", "copy")
    /\ \A f \in Files : op.before[f] # None => op.folder[f] # None
    /\ archive' = [files |-> op.folder, meta |-> meta[op.slot] # "none"]
    /\ End("done")
    /\ UNCHANGED <<disk, fresh, game, next, faults>>

----------------------------------------------------------------------------
(* Restoring and initializing *)

\* restore_slot.
BeginRestore(s) ==
    /\ Idle /\ s \in exists /\ archive # None
    /\ Begin("restore", s, "move")
    /\ UNCHANGED <<disk, archive, fresh, game, next, faults>>

\* initialize_slot first writes a backup into the recovery folder.
BeginInitialize(s) ==
    /\ Idle /\ s \in exists \ {Default}
    /\ Begin("initialize", s, "move")
    /\ kept' = [kept EXCEPT ![s] = @ \cup Complete(live[s])]
    /\ UNCHANGED <<exists, live, meta, archive, fresh, game, next, faults>>

\* The files go to the recovery folder in the order of their names, save.json
\* last.
MoveFile(f) ==
    /\ op # None /\ op.stage = "move" /\ live[op.slot][f] # None
    /\ op' = [op EXCEPT !.folder[f] = live[op.slot][f]]
    /\ live' = [live EXCEPT ![op.slot][f] = None]
    /\ UNCHANGED <<exists, meta, kept, archive, result, fresh, game, next,
                   faults>>

\* Mutant: only the files that the archive replaces are moved.
MoveRecord_Early ==
    /\ At("restore", "move")
    /\ \A f \in Files : live[op.slot][f] # None => archive.files[f] = None
    /\ op' = [op EXCEPT !.moved = meta[op.slot], !.stage = "record"]
    /\ meta' = [meta EXCEPT ![op.slot] = "none"]
    /\ UNCHANGED <<exists, live, kept, archive, result, fresh, game, next,
                   faults>>

MoveRecord ==
    /\ op # None /\ op.stage = "move" /\ live[op.slot] = Empty
    /\ op' = [op EXCEPT !.moved = meta[op.slot], !.stage = "record"]
    /\ meta' = [meta EXCEPT ![op.slot] = "none"]
    /\ UNCHANGED <<exists, live, kept, archive, result, fresh, game, next,
                   faults>>

\* restore_slot copies the record back, with keep_name as the launcher does.
CopyRecord ==
    /\ At("restore", "record")
    /\ meta' = [meta EXCEPT ![op.slot] = op.moved]
    /\ op' = [op EXCEPT !.stage = "write"]
    /\ UNCHANGED <<exists, live, kept, archive, result, fresh, game, next,
                   faults>>

\* It writes the files of the archive in place.
OpenFile(f) ==
    /\ At("restore", "write")
    /\ archive.files[f] # None /\ live[op.slot][f] = None
    /\ \A g \in Files : live[op.slot][g] \in {None, archive.files[g]}
    /\ live' = [live EXCEPT ![op.slot][f] = Partial]
    /\ UNCHANGED <<exists, meta, kept, archive, op, result, fresh, game, next,
                   faults>>

WriteFile(f) ==
    /\ At("restore", "write")
    /\ archive.files[f] # None /\ live[op.slot][f] = Partial
    /\ live' = [live EXCEPT ![op.slot][f] = archive.files[f]]
    /\ UNCHANGED <<exists, meta, kept, archive, op, result, fresh, game, next,
                   faults>>

Restored ==
    \A f \in Files : archive.files[f] # None => live[op.slot][f] = archive.files[f]

\* The record of the archive comes last and makes a default slot current.
EndRestore ==
    /\ At("restore", "write") /\ Restored
    /\ meta' = [meta EXCEPT ![op.slot] =
                    IF ~archive.meta THEN @
                    ELSE IF op.slot = Default THEN "current" ELSE "plain"]
    /\ kept' = [kept EXCEPT ![op.slot] = @ \cup Complete(op.folder)]
    /\ End("done")
    /\ UNCHANGED <<exists, live, archive, fresh, game, next, faults>>

EndInitialize ==
    /\ At("initialize", "record")
    /\ meta' = [meta EXCEPT ![op.slot] = "plain"]
    /\ kept' = [kept EXCEPT ![op.slot] = @ \cup Complete(op.folder)]
    /\ End("done")
    /\ UNCHANGED <<exists, live, archive, fresh, game, next, faults>>

----------------------------------------------------------------------------
(* Failing *)

\* A step of a restore or an initialization fails.  What a restore has written
\* is removed; a file that was being written is not, and one that cannot be
\* removed stays, which the restore does not count as damage.  An initialization
\* counts what is left of a record it could not remove.
Fail ==
    /\ op # None /\ op.stage \in {"move", "record", "write"} /\ Fault
    /\ \E left \in BOOLEAN :
          /\ left => op.type = "initialize" /\ op.stage = "record"
          /\ op' = [op EXCEPT !.stage = "rollback", !.damage = left]
    /\ IF op.stage = "write"
       THEN /\ \E locked \in SUBSET Files :
                 live' = [live EXCEPT ![op.slot] =
                            [f \in Files |->
                                IF f \in locked \/ @[f] # archive.files[f]
                                THEN @[f] ELSE None]]
            /\ meta' \in {meta, [meta EXCEPT ![op.slot] = "none"]}
       ELSE UNCHANGED <<live, meta>>
    /\ UNCHANGED <<exists, kept, archive, result, fresh, game, next>>

\* Every file that was moved away has been moved back or tried.
FilesTried == \A f \in Files : op.folder[f] # None => f \in op.stuck

\* A restore moves back what it has moved in the order in which it moved it,
\* the record last; an initialization in the reverse order, the record first.
RecordsTurn == op.type = "restore" => FilesTried
FilesTurn == op.type = "initialize" => op.moved = "none"

\* Mutant: a file that could not be removed is left alone.
MoveBack_Around(f) ==
    /\ op # None /\ op.stage = "rollback" /\ FilesTurn /\ op.folder[f] # None
    /\ live' = [live EXCEPT ![op.slot][f] = IF @ = None THEN op.folder[f] ELSE @]
    /\ op' = [op EXCEPT !.folder[f] = None]
    /\ UNCHANGED <<exists, meta, kept, archive, result, fresh, game, next,
                   faults>>

\* What was moved is moved back, over what is there.
MoveBack(f) ==
    /\ op # None /\ op.stage = "rollback" /\ FilesTurn
    /\ op.folder[f] # None /\ f \notin op.stuck
    /\ \/ /\ live' = [live EXCEPT ![op.slot][f] = op.folder[f]]
          /\ op' = [op EXCEPT !.folder[f] = None]
          /\ UNCHANGED faults
       \/ /\ Fault
          /\ op' = [op EXCEPT !.stuck = @ \cup {f}, !.damage = TRUE]
          /\ UNCHANGED live
    /\ UNCHANGED <<exists, meta, kept, archive, result, fresh, game, next>>

MoveRecordBack ==
    /\ op # None /\ op.stage = "rollback" /\ RecordsTurn /\ op.moved # "none"
    /\ \/ /\ meta' = [meta EXCEPT ![op.slot] = op.moved]
          /\ op' = [op EXCEPT !.moved = "none"]
          /\ UNCHANGED faults
       \/ /\ Fault
          /\ op' = [op EXCEPT !.moved = "none", !.damage = TRUE]
          /\ UNCHANGED meta
    /\ UNCHANGED <<exists, live, kept, archive, result, fresh, game, next>>

\* Mutant: the folder is removed whatever is stuck.
EndRollback_Removes ==
    /\ op # None /\ op.stage = "rollback" /\ FilesTried /\ op.moved = "none"
    /\ End(IF op.type = "initialize" /\ op.damage THEN "damaged" ELSE "failed")
    /\ UNCHANGED <<disk, archive, fresh, game, next, faults>>

\* A restore removes its folder if everything is back, and raises the same
\* error if it is not; an initialization keeps its folder, and names it in the
\* error if there is damage.
EndRollback ==
    /\ op # None /\ op.stage = "rollback" /\ FilesTried /\ op.moved = "none"
    /\ kept' = IF op.type = "restore" /\ ~op.damage THEN kept
               ELSE [kept EXCEPT ![op.slot] = @ \cup Complete(op.folder)]
    /\ End(IF op.type = "initialize" /\ op.damage THEN "damaged" ELSE "failed")
    /\ UNCHANGED <<exists, live, meta, archive, fresh, game, next, faults>>

\* The machine stops, or a removal or a backup fails: what has been done stays.
Stop ==
    /\ op # None /\ Fault
    /\ kept' = IF op.type = "backup" THEN kept
               ELSE [kept EXCEPT ![op.slot] = @ \cup Complete(op.folder)]
    /\ game' = None
    /\ End(None)
    /\ UNCHANGED <<exists, live, meta, archive, fresh, next>>

----------------------------------------------------------------------------

\* An installation with the default slot of an older package.
Init ==
    /\ exists = {Default}
    /\ live = [s \in Slots |-> Empty]
    /\ meta = [s \in Slots |-> IF s = Default THEN "plain" ELSE "none"]
    /\ kept = [s \in Slots |-> {}]
    /\ archive = None /\ op = None /\ result = None
    /\ fresh = FALSE /\ game = None /\ next = 0 /\ faults = 0

Next ==
    \/ \E s \in Slots : StartGame(s)
    \/ \E f \in Files : Play(f)
    \/ StopGame
    \/ \E s \in Slots : Create(s) \/ Rename(s)
    \/ \E s \in Slots : BeginDelete(s)
    \/ Remove \/ EndDelete
    \/ \E type \in {"upgrade", "reset"} : BeginReplace(type)
    \/ EndReplace
    \/ \E s \in Slots : BeginBackup(s)
    \/ \E f \in Files : CopyFile(f)
    \/ EndBackup
    \/ \E s \in Slots : BeginRestore(s) \/ BeginInitialize(s)
    \/ \E f \in Files : MoveFile(f)
    \/ MoveRecord \/ CopyRecord
    \/ \E f \in Files : OpenFile(f) \/ WriteFile(f)
    \/ EndRestore \/ EndInitialize
    \/ Fail
    \/ \E f \in Files : MoveBack(f)
    \/ MoveRecordBack \/ EndRollback
    \/ Stop

Spec == Init /\ [][Next]_vars

----------------------------------------------------------------------------
(* Properties *)

Directories == [Files -> Contents]
Records == {"none", "plain", "current"}
Operations ==
    [type : {"delete", "upgrade", "reset", "backup", "restore", "initialize"},
     slot : Slots,
     stage : {"remove", "copy", "move", "record", "write", "rollback"},
     before : Directories, label : Records, folder : Directories,
     moved : Records, stuck : SUBSET Files, damage : BOOLEAN]
Archives == [files : Directories, meta : BOOLEAN]

ASSUME NoneAssumption ==
    None \notin Operations /\ None \notin Archives
    /\ None \notin {"done", "failed", "damaged"}

\* Every variable has its type.
TypeOK ==
    /\ exists \subseteq Slots
    /\ live \in [Slots -> Directories]
    /\ meta \in [Slots -> Records]
    /\ kept \in [Slots -> SUBSET (Files \X Versions)]
    /\ archive \in Archives \cup {None}
    /\ op \in Operations \cup {None}
    /\ result \in {"done", "failed", "damaged", None}
    /\ fresh \in BOOLEAN
    /\ game \in Slots \cup {None}
    /\ next \in 0..MaxVersion /\ faults \in 0..MaxFaults

\* What can still be found of a slot: its files, its recovery folders, and
\* what the operation in hand has moved away.
Moved(s) ==
    IF op # None /\ op.type \in {"restore", "initialize"} /\ op.slot = s
    THEN Complete(op.folder) ELSE {}
Held(s) == Complete(live[s]) \cup kept[s] \cup Moved(s)
Archived == IF archive = None THEN {} ELSE Complete(archive.files)

\* Nothing the player has earned is lost to a restore or an initialization,
\* completed, failed, rolled back in part or interrupted anywhere: only
\* playing on, deleting the slot and replacing the default slot remove a
\* content, save for a copy of the archive.  "The files being replaced are
\* moved into the same slot under a pre-restore stamp rather than deleted"
\* (save_slots.py:636).
NothingLost ==
    [][\A s \in Slots :
          \/ Held(s) \subseteq Held(s)' \cup Archived
          \/ game = s
          \/ op # None /\ op.slot = s /\ op.stage = "remove"]_vars

\* What a failure leaves.  Every file that the slot had is back, or it could
\* not be moved and its content is in the recovery folder.  A file that it did
\* not have is there only if a restore was writing it or could not remove it.
\* The record is back unless something could not be moved.  A restore raises
\* the same error in all these cases (save_slots.py:710); an initialization that
\* names no recovery files (save_slots.py:826) has left the slot as it was.
FailureAccounted ==
    [][op # None /\ op' = None /\ result' \in {"failed", "damaged"} =>
          /\ \A f \in Files :
                \/ live'[op.slot][f] = op.before[f]
                \/ /\ op.before[f] # None /\ f \in op.stuck
                   /\ op.before[f] \in Versions =>
                         <<f, op.before[f]>> \in kept'[op.slot]
                \/ /\ op.before[f] = None /\ op.type = "restore"
                   /\ live'[op.slot][f] \in {Partial, archive.files[f]}
          /\ meta'[op.slot] = op.label \/ op.damage
          /\ op.type = "initialize" /\ result' = "failed" =>
                live'[op.slot] = op.before /\ meta'[op.slot] = op.label]_vars

\* A restored slot holds the files of the archive and no other, and an
\* initialized one none: a file "that left it behind would hand the player
\* vehicles a different save paid for" (save_slots.py:69).
DoneIsExact ==
    [][op # None /\ op' = None /\ result' = "done" =>
          /\ op.type = "restore" => live'[op.slot] = archive.files
          /\ op.type \in {"initialize", "upgrade", "reset"} =>
                live'[op.slot] = Empty /\ meta'[op.slot] # "none"]_vars

\* "Discard the obsolete default once" (save_slots.py:227): a default slot
\* that has been made current is not replaced again unless the player asks.
DiscardedOnce == fresh => op = None \/ op.type # "upgrade"

=============================================================================
