--------------------------- MODULE SaveSlotsProofs ---------------------------
(***************************************************************************)
(* Proofs about SaveSlots for any slots, files, contents and number of     *)
(* faults.                                                                 *)
(***************************************************************************)
EXTENDS SaveSlots, TLAPS

\* Which stages an operation goes through, and what it runs with.
OpInv ==
    /\ game # None => op = None \/ op.type = "backup"
    /\ op # None =>
          /\ op.type \in {"delete", "upgrade", "reset"} <=> op.stage = "remove"
          /\ op.type = "backup" <=> op.stage = "copy"
          /\ op.stage = "write" => op.type = "restore"
          /\ op.type \in {"upgrade", "reset"} => op.slot = Default
          /\ op.type = "restore" => archive # None

\* A file that an operation has not touched.
Stays(f) == op.folder[f] = None /\ live[op.slot][f] = op.before[f]

\* One that it has moved away, and what it may have written in its place.
Away(f) ==
    /\ op.folder[f] = op.before[f]
    /\ \/ live[op.slot][f] = None
       \/ /\ op.type = "restore" /\ archive.files[f] # None
          /\ live[op.slot][f] \in {Partial, archive.files[f]}

\* Where the files of the slot and its record are at every stage.
MoveInv ==
    op.stage = "move" =>
       /\ \A f \in Files : Stays(f) \/ (Away(f) /\ live[op.slot][f] = None)
       /\ op.moved = "none" /\ meta[op.slot] = op.label
RecordInv ==
    op.stage = "record" =>
       /\ \A f \in Files : Away(f) /\ live[op.slot][f] = None
       /\ op.moved = op.label /\ meta[op.slot] = "none"
WriteInv ==
    op.stage = "write" => /\ \A f \in Files : Away(f)
                          /\ op.moved = op.label /\ meta[op.slot] = op.label
RollbackInv ==
    op.stage = "rollback" =>
       /\ \A f \in Files : Stays(f) \/ Away(f)
       /\ \/ op.moved = "none" /\ (meta[op.slot] = op.label \/ op.damage)
          \/ op.moved = op.label /\ op.label # "none"
       /\ op.stuck # {} => op.damage
UntouchedInv == op.stage \in {"move", "record", "write"} => op.stuck = {}
SlotInv ==
    op # None => MoveInv /\ RecordInv /\ WriteInv /\ RollbackInv /\ UntouchedInv

----------------------------------------------------------------------------
(* Typing. *)

\* What an operation starts with.
LEMMA BeginType ==
    ASSUME TypeOK, NEW s \in Slots,
           NEW t \in {"delete", "upgrade", "reset", "backup", "restore", "initialize"},
           NEW g \in {"remove", "copy", "move", "record", "write", "rollback"},
           Begin(t, s, g)
    PROVE  /\ op' \in Operations /\ op' # None /\ result' = None
           /\ op'.type = t /\ op'.slot = s /\ op'.stage = g
           /\ op'.before = live[s] /\ op'.label = meta[s]
           /\ op'.folder = Empty /\ op'.moved = "none" /\ op'.stuck = {}
<1>1. Empty \in Directories
  BY DEF Empty, Directories, Contents
<1>2. live[s] \in Directories /\ meta[s] \in Records
  BY DEF TypeOK
<1>3. op' = [type |-> t, slot |-> s, stage |-> g, before |-> live[s],
             label |-> meta[s], folder |-> Empty, moved |-> "none", stuck |-> {},
             damage |-> FALSE]
  BY DEF Begin
<1>4. op' \in Operations
  BY <1>1, <1>2, <1>3 DEF Operations, Records
<1>5. op' # None
  BY <1>4, NoneAssumption
<1>6. /\ op'.type = t /\ op'.slot = s /\ op'.stage = g
      /\ op'.before = live[s] /\ op'.label = meta[s]
      /\ op'.folder = Empty /\ op'.moved = "none" /\ op'.stuck = {}
  BY <1>3
<1> QED
  BY <1>4, <1>5, <1>6 DEF Begin

\* An operation stays one when a file of its folder changes or gets stuck.
LEMMA OpUpdate ==
    ASSUME op \in Operations, NEW f \in Files,
           \/ op' = op
           \/ \E c \in Contents : op' = [op EXCEPT !.folder[f] = c]
           \/ op' = [op EXCEPT !.stuck = @ \cup {f}, !.damage = TRUE]
    PROVE  op' \in Operations
<1>1. ASSUME NEW c \in Contents, op' = [op EXCEPT !.folder[f] = c]
      PROVE  op' \in Operations
  <2>1. [op.folder EXCEPT ![f] = c] \in Directories
    BY DEF Operations, Directories
  <2> QED
    BY <1>1, <2>1 DEF Operations
<1>2. ASSUME op' = [op EXCEPT !.stuck = @ \cup {f}, !.damage = TRUE]
      PROVE  op' \in Operations
  BY <1>2 DEF Operations
<1> QED
  BY <1>1, <1>2

\* The stages that move the record, copy it back and fail give a new operation.
LEMMA OpAdvance ==
    ASSUME TypeOK, op \in Operations, MoveRecord \/ CopyRecord \/ Fail
    PROVE  op' \in Operations
<1>1. meta[op.slot] \in Records
  BY DEF TypeOK, Operations
<1>2. CASE MoveRecord
  <2>1. op' = [op EXCEPT !.moved = meta[op.slot], !.stage = "record"]
    BY <1>2 DEF MoveRecord
  <2> QED
    BY <1>1, <2>1 DEF Operations
<1>3. CASE CopyRecord
  <2>1. op' = [op EXCEPT !.stage = "write"]
    BY <1>3 DEF CopyRecord
  <2> QED
    BY <2>1 DEF Operations
<1>4. CASE Fail
  <2>1. \E left \in BOOLEAN : op' = [op EXCEPT !.stage = "rollback", !.damage = left]
    BY <1>4 DEF Fail
  <2> QED
    BY <2>1 DEF Operations
<1> QED
  BY <1>2, <1>3, <1>4

\* The contents of a slot's files are values.
LEMMA CompleteType ==
    ASSUME NEW d \in Directories
    PROVE  Complete(d) \subseteq Files \X Versions
  BY DEF Complete, Directories

\* Every step preserves the types.
LEMMA TypeStep ==
    TypeOK /\ OpInv /\ [Next]_vars => TypeOK'
<1> SUFFICES ASSUME TypeOK, OpInv, [Next]_vars PROVE TypeOK'
  OBVIOUS
<1> USE DEF disk
<1>a. /\ exists \subseteq Slots /\ live \in [Slots -> Directories]
      /\ meta \in [Slots -> Records]
      /\ kept \in [Slots -> SUBSET (Files \X Versions)]
      /\ archive \in Archives \cup {None} /\ op \in Operations \cup {None}
      /\ game \in Slots \cup {None} /\ next \in 0..MaxVersion
      /\ Default \in Slots /\ MaxVersion \in Nat /\ MaxFaults \in Nat
      /\ faults \in 0..MaxFaults
  BY SlotsAssumption DEF TypeOK
<1>b. /\ {None, Partial} \subseteq Contents /\ Versions \subseteq Contents
      /\ {"none", "plain", "current"} = Records
  BY DEF Contents, Records
<1>c. ASSUME op # None
      PROVE  /\ op.slot \in Slots /\ op.before \in Directories
             /\ op.folder \in Directories /\ op.label \in Records
             /\ op.moved \in Records /\ op.stuck \subseteq Files
             /\ op.damage \in BOOLEAN
  BY <1>a, <1>c DEF Operations
<1>d. ASSUME NEW s \in Slots, NEW f \in Files, NEW c \in Contents,
             live' = [live EXCEPT ![s][f] = c]
      PROVE  live' \in [Slots -> Directories]
  BY <1>a, <1>d DEF Directories
<1>e. ASSUME NEW f \in Files, NEW c \in Contents, op # None,
             op' = [op EXCEPT !.folder[f] = c]
      PROVE  op' \in Operations
  BY <1>a, <1>e DEF Operations, Directories
<1>f. ASSUME NEW d \in Directories, NEW s \in Slots,
             kept' = [kept EXCEPT ![s] = @ \cup Complete(d)]
      PROVE  kept' \in [Slots -> SUBSET (Files \X Versions)]
  BY <1>a, <1>f, CompleteType
<1>g. ASSUME Fault PROVE faults' \in 0..MaxFaults
  BY <1>a, <1>g DEF Fault
<1>1. ASSUME NEW s \in Slots, StartGame(s) \/ StopGame PROVE TypeOK'
  BY <1>1 DEF StartGame, StopGame, TypeOK
<1>2. ASSUME NEW f \in Files, Play(f) PROVE TypeOK'
  <2>1. next' \in Versions /\ game \in Slots /\ live' = [live EXCEPT ![game][f] = next']
    BY <1>2, <1>a DEF Play, Versions
  <2>2. live' \in [Slots -> Directories]
    BY <2>1, <1>b, <1>d
  <2> QED
    BY <1>2, <2>1, <2>2, <1>a DEF Play, TypeOK, Versions
<1>3. ASSUME NEW s \in Slots, Create(s) \/ Rename(s) PROVE TypeOK'
  BY <1>3, <1>b DEF Create, Rename, TypeOK
<1>4. ASSUME NEW s \in Slots, BeginDelete(s) PROVE TypeOK'
  BY <1>4, BeginType DEF BeginDelete, TypeOK
<1>5. CASE Remove
  <2>1. op # None /\ UNCHANGED <<exists, archive, op, result, fresh, game, next, faults>>
    BY <1>5 DEF Remove
  <2>2. /\ live' \in [Slots -> Directories] /\ meta' \in [Slots -> Records]
        /\ kept' \in [Slots -> SUBSET (Files \X Versions)]
    <3>1. op.slot \in Slots
      BY <2>1, <1>c
    <3>2. CASE \E f \in Files : live' = [live EXCEPT ![op.slot][f] = None]
               /\ UNCHANGED <<meta, kept>>
      BY <3>1, <3>2, <1>a, <1>b, <1>d
    <3>3. CASE meta' = [meta EXCEPT ![op.slot] = "none"] /\ UNCHANGED <<live, kept>>
      BY <3>1, <3>3, <1>a, <1>b
    <3>4. CASE kept' = [kept EXCEPT ![op.slot] = {}] /\ UNCHANGED <<live, meta>>
      BY <3>1, <3>4, <1>a
    <3> QED
      BY <1>5, <3>2, <3>3, <3>4 DEF Remove
  <2> QED
    BY <2>1, <2>2 DEF TypeOK
<1>6. CASE EndDelete \/ EndReplace
  BY <1>6, <1>a, <1>b DEF EndDelete, EndReplace, End, TypeOK
<1>7. ASSUME NEW type \in {"upgrade", "reset"}, BeginReplace(type) PROVE TypeOK'
  <2>1. Begin(type, Default, "remove") /\ fresh' \in BOOLEAN
    BY <1>7 DEF BeginReplace, TypeOK
  <2>2. op' \in Operations /\ result' = None
    BY <2>1, <1>a, BeginType
  <2> QED
    BY <1>7, <2>1, <2>2 DEF BeginReplace, TypeOK
<1>8. ASSUME NEW s \in Slots, BeginBackup(s) PROVE TypeOK'
  BY <1>8, BeginType DEF BeginBackup, TypeOK
<1>9. ASSUME NEW f \in Files, CopyFile(f) PROVE TypeOK'
  <2>1. /\ op # None /\ live[op.slot][f] \in Contents
        /\ op' = [op EXCEPT !.folder[f] = live[op.slot][f]]
    BY <1>9, <1>a, <1>c DEF CopyFile, At, Directories
  <2> QED
    BY <1>9, <2>1, <1>e DEF CopyFile, TypeOK
<1>10. CASE EndBackup
  <2>1. archive' \in Archives
    BY <1>10, <1>c DEF EndBackup, At, Archives
  <2> QED
    BY <1>10, <2>1 DEF EndBackup, End, TypeOK
<1>11. ASSUME NEW s \in Slots, BeginRestore(s) PROVE TypeOK'
  BY <1>11, BeginType DEF BeginRestore, TypeOK
<1>12. ASSUME NEW s \in Slots, BeginInitialize(s) PROVE TypeOK'
  <2>1. kept' \in [Slots -> SUBSET (Files \X Versions)]
    BY <1>12, <1>a, <1>f DEF BeginInitialize
  <2> QED
    BY <1>12, <2>1, BeginType DEF BeginInitialize, TypeOK
<1>13. ASSUME NEW f \in Files, MoveFile(f) PROVE TypeOK'
  <2>1. /\ op # None /\ op.slot \in Slots /\ live[op.slot][f] \in Contents
        /\ op' = [op EXCEPT !.folder[f] = live[op.slot][f]]
        /\ live' = [live EXCEPT ![op.slot][f] = None]
    BY <1>13, <1>a, <1>c DEF MoveFile, Directories
  <2>2. live' \in [Slots -> Directories]
    BY <2>1, <1>b, <1>d
  <2>3. op' \in Operations
    BY <2>1, <1>e
  <2> QED
    BY <1>13, <2>2, <2>3 DEF MoveFile, TypeOK
<1>14. CASE MoveRecord
  <2>1. op' \in Operations /\ meta' \in [Slots -> Records]
    BY <1>14, <1>a, <1>b, <1>c DEF MoveRecord, Operations
  <2> QED
    BY <1>14, <2>1 DEF MoveRecord, TypeOK
<1>15. CASE CopyRecord
  <2>1. op' \in Operations /\ meta' \in [Slots -> Records]
    BY <1>15, <1>a, <1>c DEF CopyRecord, At, Operations
  <2> QED
    BY <1>15, <2>1 DEF CopyRecord, TypeOK
<1>16. ASSUME NEW f \in Files, OpenFile(f) \/ WriteFile(f) PROVE TypeOK'
  <2>1. op # None /\ op.slot \in Slots /\ archive \in Archives
    BY <1>16, <1>a, <1>c DEF OpenFile, WriteFile, At, OpInv
  <2>2. archive.files[f] \in Contents
    BY <2>1 DEF Archives, Directories
  <2>3. live' \in [Slots -> Directories]
    BY <1>16, <2>1, <2>2, <1>b, <1>d DEF OpenFile, WriteFile
  <2> QED
    BY <1>16, <2>3 DEF OpenFile, WriteFile, TypeOK
<1>17. CASE EndRestore \/ EndInitialize
  <2>1. op # None /\ op.slot \in Slots
    BY <1>17, <1>c DEF EndRestore, EndInitialize, At
  <2>2. kept' \in [Slots -> SUBSET (Files \X Versions)]
    BY <1>17, <2>1, <1>c, <1>f DEF EndRestore, EndInitialize
  <2>3. meta' \in [Slots -> Records]
    BY <1>17, <2>1, <1>a, <1>b DEF EndRestore, EndInitialize
  <2> QED
    BY <1>17, <2>2, <2>3 DEF EndRestore, EndInitialize, End, TypeOK
<1>18. CASE Fail
  <2>1. /\ op # None /\ op.slot \in Slots /\ Fault
        /\ \E left \in BOOLEAN :
              op' = [op EXCEPT !.stage = "rollback", !.damage = left]
    BY <1>18, <1>c DEF Fail
  <2>2. op' \in Operations
    BY <2>1, <1>a DEF Operations
  <2>3. live' \in [Slots -> Directories] /\ meta' \in [Slots -> Records]
    <3>1. CASE UNCHANGED <<live, meta>>
      BY <3>1, <1>a
    <3>2. ASSUME NEW locked \in SUBSET Files,
                 live' = [live EXCEPT ![op.slot] =
                            [f \in Files |->
                               IF f \in locked \/ @[f] # archive.files[f]
                               THEN @[f] ELSE None]]
          PROVE  live' \in [Slots -> Directories]
      <4>1. live[op.slot] \in Directories
        BY <2>1, <1>a
      <4>2. [f \in Files |-> IF f \in locked \/ live[op.slot][f] # archive.files[f]
                             THEN live[op.slot][f] ELSE None] \in Directories
        BY <4>1, <1>b DEF Directories
      <4> QED
        BY <3>2, <4>2, <2>1, <1>a
    <3>3. ASSUME meta' \in {meta, [meta EXCEPT ![op.slot] = "none"]}
          PROVE  meta' \in [Slots -> Records]
      BY <3>3, <1>a, <1>b
    <3> QED
      BY <1>18, <3>1, <3>2, <3>3 DEF Fail
  <2> QED
    BY <1>18, <2>1, <2>2, <2>3, <1>g DEF Fail, TypeOK
<1>19. ASSUME NEW f \in Files, MoveBack(f) PROVE TypeOK'
  <2>1. op # None /\ op.slot \in Slots /\ op.folder[f] \in Contents
    BY <1>19, <1>c DEF MoveBack, Directories
  <2>2. CASE /\ live' = [live EXCEPT ![op.slot][f] = op.folder[f]]
             /\ op' = [op EXCEPT !.folder[f] = None] /\ UNCHANGED faults
    BY <1>19, <2>1, <2>2, <1>b, <1>d, <1>e DEF MoveBack, TypeOK
  <2>3. CASE /\ Fault /\ UNCHANGED live
             /\ op' = [op EXCEPT !.stuck = @ \cup {f}, !.damage = TRUE]
    <3>1. op' \in Operations
      BY <2>1, <2>3, <1>a, <1>c DEF Operations
    <3> QED
      BY <1>19, <2>3, <3>1, <1>g DEF MoveBack, TypeOK
  <2> QED
    BY <1>19, <2>2, <2>3 DEF MoveBack
<1>191. CASE MoveRecordBack
  <2>1. op # None /\ op.slot \in Slots /\ op.moved \in Records
    BY <1>191, <1>c DEF MoveRecordBack
  <2>2. CASE /\ meta' = [meta EXCEPT ![op.slot] = op.moved]
             /\ op' = [op EXCEPT !.moved = "none"] /\ UNCHANGED faults
    <3>1. op' \in Operations /\ meta' \in [Slots -> Records]
      BY <2>1, <2>2, <1>a, <1>b DEF Operations
    <3> QED
      BY <1>191, <2>2, <3>1 DEF MoveRecordBack, TypeOK
  <2>3. CASE /\ Fault /\ UNCHANGED meta
             /\ op' = [op EXCEPT !.moved = "none", !.damage = TRUE]
    <3>1. op' \in Operations
      BY <2>1, <2>3, <1>a, <1>b DEF Operations
    <3> QED
      BY <1>191, <2>3, <3>1, <1>g DEF MoveRecordBack, TypeOK
  <2> QED
    BY <1>191, <2>2, <2>3 DEF MoveRecordBack
<1>20. CASE EndRollback
  <2>1. op # None /\ op.slot \in Slots
    BY <1>20, <1>c DEF EndRollback
  <2>2. kept' \in [Slots -> SUBSET (Files \X Versions)]
    BY <1>20, <2>1, <1>a, <1>c, <1>f DEF EndRollback
  <2>3. op' = None /\ result' \in {"failed", "damaged"}
    BY <1>20 DEF EndRollback, End
  <2> QED
    BY <1>20, <2>2, <2>3 DEF EndRollback, TypeOK
<1>21. CASE Stop
  <2>1. op # None /\ op.slot \in Slots /\ Fault /\ op' = None /\ result' = None
    BY <1>21, <1>c DEF Stop, End
  <2>2. kept' \in [Slots -> SUBSET (Files \X Versions)]
    BY <1>21, <2>1, <1>a, <1>c, <1>f DEF Stop
  <2> QED
    BY <1>21, <2>1, <2>2, <1>g DEF Stop, TypeOK
<1>22. CASE UNCHANGED vars
  BY <1>22 DEF vars, TypeOK
<1> QED
  BY <1>1, <1>2, <1>3, <1>4, <1>5, <1>6, <1>7, <1>8, <1>9, <1>10, <1>11, <1>12,
     <1>13, <1>14, <1>15, <1>16, <1>17, <1>18, <1>19, <1>191, <1>20, <1>21, <1>22,
     SlotsAssumption
  DEF Next

----------------------------------------------------------------------------
(* The stages of an operation. *)

\* Every step preserves OpInv.
LEMMA OpStep ==
    TypeOK /\ OpInv /\ [Next]_vars => OpInv'
<1> SUFFICES ASSUME TypeOK, OpInv, [Next]_vars PROVE OpInv'
  OBVIOUS
<1> USE DEF disk
<1>a. op # None => op \in Operations
  BY DEF TypeOK
<1>b. Default \in Slots
  BY SlotsAssumption
<1>1. ASSUME NEW s \in Slots, StartGame(s) \/ StopGame \/ Create(s) \/ Rename(s)
      PROVE  OpInv'
  BY <1>1 DEF StartGame, StopGame, Create, Rename, Idle, OpInv
<1>2. ASSUME NEW f \in Files, Play(f) PROVE OpInv'
  BY <1>2 DEF Play, OpInv
<1>3. ASSUME NEW s \in Slots,
             \/ BeginDelete(s) \/ BeginBackup(s) \/ BeginRestore(s)
             \/ BeginInitialize(s)
      PROVE  OpInv'
  <2>1. CASE BeginDelete(s)
    <3>1. op' # None /\ op'.type = "delete" /\ op'.stage = "remove" /\ game' = None
      BY <2>1, BeginType DEF BeginDelete, Idle
    <3> QED
      BY <3>1 DEF OpInv
  <2>2. CASE BeginBackup(s)
    <3>1. op' # None /\ op'.type = "backup" /\ op'.stage = "copy"
      BY <2>2, BeginType DEF BeginBackup
    <3> QED
      BY <3>1 DEF OpInv
  <2>3. CASE BeginRestore(s)
    <3>1. /\ op' # None /\ op'.type = "restore" /\ op'.stage = "move"
          /\ game' = None /\ archive' # None
      BY <2>3, BeginType DEF BeginRestore, Idle
    <3> QED
      BY <3>1 DEF OpInv
  <2>4. CASE BeginInitialize(s)
    <3>1. op' # None /\ op'.type = "initialize" /\ op'.stage = "move" /\ game' = None
      BY <2>4, BeginType DEF BeginInitialize, Idle
    <3> QED
      BY <3>1 DEF OpInv
  <2> QED
    BY <1>3, <2>1, <2>2, <2>3, <2>4
<1>4. ASSUME NEW type \in {"upgrade", "reset"}, BeginReplace(type) PROVE OpInv'
  <2>1. /\ op' # None /\ op'.type = type /\ op'.stage = "remove"
        /\ op'.slot = Default /\ game' = None
    BY <1>4, <1>b, BeginType DEF BeginReplace, Idle
  <2> QED
    BY <2>1 DEF OpInv
<1>5. CASE Remove
  BY <1>5 DEF Remove, OpInv
<1>6. ASSUME op' = None PROVE OpInv'
  BY <1>6 DEF OpInv
<1>7. CASE \/ EndDelete \/ EndReplace \/ EndBackup \/ EndRestore \/ EndInitialize
           \/ EndRollback \/ Stop
  BY <1>6, <1>7 DEF EndDelete, EndReplace, EndBackup, EndRestore, EndInitialize,
                    EndRollback, Stop, End
<1>8. ASSUME op # None, op' \in Operations, UNCHANGED <<archive, game>>,
             op'.type = op.type, op'.slot = op.slot,
             \/ op'.stage = op.stage
             \/ /\ op.stage \in {"move", "record", "write"}
                /\ op'.stage \in {"record", "write", "rollback"}
                /\ op'.stage = "write" => op.type = "restore"
      PROVE  OpInv'
  BY <1>8 DEF OpInv
<1>9. ASSUME NEW f \in Files,
             CopyFile(f) \/ MoveFile(f) \/ OpenFile(f) \/ WriteFile(f) \/ MoveBack(f)
      PROVE  OpInv'
  <2>1. /\ op # None /\ op'.type = op.type /\ op'.slot = op.slot
        /\ op'.stage = op.stage /\ UNCHANGED <<archive, game>>
    BY <1>9, <1>a DEF CopyFile, MoveFile, OpenFile, WriteFile, MoveBack, At,
                      Operations
  <2>2. \/ op' = op
        \/ \E c \in Contents : op' = [op EXCEPT !.folder[f] = c]
        \/ op' = [op EXCEPT !.stuck = @ \cup {f}, !.damage = TRUE]
    <3>1. live[op.slot][f] \in Contents /\ None \in Contents
      BY <2>1, <1>a DEF TypeOK, Operations, Directories, Contents
    <3> QED
      BY <1>9, <3>1 DEF CopyFile, MoveFile, OpenFile, WriteFile, MoveBack
  <2>3. op' \in Operations
    BY <2>1, <2>2, <1>a, OpUpdate
  <2> QED
    BY <1>8, <2>1, <2>3
<1>10. CASE MoveRecord \/ CopyRecord \/ Fail
  <2>1. /\ op # None /\ op'.type = op.type /\ op'.slot = op.slot
        /\ op.stage \in {"move", "record", "write"}
        /\ op'.stage \in {"record", "write", "rollback"}
        /\ op'.stage = "write" => op.type = "restore"
        /\ UNCHANGED <<archive, game>>
    BY <1>10, <1>a DEF MoveRecord, CopyRecord, Fail, At, Operations
  <2>2. op' \in Operations
    BY <1>10, <2>1, <1>a, OpAdvance
  <2> QED
    BY <1>8, <2>1, <2>2
<1>101. CASE MoveRecordBack
  <2>1. /\ op # None /\ UNCHANGED <<archive, game>>
        /\ \/ op' = [op EXCEPT !.moved = "none"]
           \/ op' = [op EXCEPT !.moved = "none", !.damage = TRUE]
    BY <1>101 DEF MoveRecordBack
  <2>2. /\ op' \in Operations /\ op'.type = op.type /\ op'.slot = op.slot
        /\ op'.stage = op.stage
    BY <2>1, <1>a DEF Operations, Records
  <2> QED
    BY <1>8, <2>1, <2>2
<1>11. CASE UNCHANGED vars
  BY <1>11 DEF vars, OpInv
<1> QED
  BY <1>b, <1>1, <1>2, <1>3, <1>4, <1>5, <1>7, <1>9, <1>10, <1>101, <1>11 DEF Next

----------------------------------------------------------------------------
(* The files of the slot in hand. *)

\* What an operation is about, and what its files are.
LEMMA OpFacts ==
    ASSUME TypeOK, op # None
    PROVE  /\ op \in Operations /\ op.slot \in Slots
           /\ op.before \in Directories /\ op.folder \in Directories
           /\ live[op.slot] \in Directories /\ meta[op.slot] \in Records
  BY DEF TypeOK, Operations

\* An operation that starts has touched nothing.
LEMMA BeginSlot ==
    ASSUME TypeOK, NEW s \in Slots, UNCHANGED <<live, meta>>,
           NEW t \in {"delete", "upgrade", "reset", "backup", "restore", "initialize"},
           NEW g \in {"remove", "copy", "move"}, Begin(t, s, g)
    PROVE  SlotInv'
<1>1. /\ op' # None /\ op'.slot = s /\ op'.stage = g /\ op'.moved = "none"
      /\ op'.before = live[s] /\ op'.label = meta[s] /\ op'.folder = Empty
      /\ op'.stuck = {}
  BY BeginType
<1>2. \A f \in Files : Stays(f)'
  BY <1>1 DEF Stays, Empty
<1> QED
  BY <1>1, <1>2 DEF SlotInv, MoveInv, RecordInv, WriteInv, RollbackInv, UntouchedInv

\* Every step preserves SlotInv.
LEMMA SlotStep ==
    TypeOK /\ OpInv /\ SlotInv /\ [Next]_vars => SlotInv'
<1> SUFFICES ASSUME TypeOK, OpInv, SlotInv, [Next]_vars PROVE SlotInv'
  OBVIOUS
<1> USE DEF disk
<1>a. ASSUME op # None
      PROVE  /\ op \in Operations /\ op.slot \in Slots
             /\ op.before \in Directories /\ op.folder \in Directories
             /\ live[op.slot] \in Directories /\ meta[op.slot] \in Records
             /\ live \in [Slots -> Directories] /\ meta \in [Slots -> Records]
  BY <1>a, OpFacts DEF TypeOK
<1>b. Default \in Slots
  BY SlotsAssumption
<1>c. ASSUME op' = None PROVE SlotInv'
  BY <1>c DEF SlotInv
<1>d. ASSUME op' # None, op'.stage \in {"remove", "copy"} PROVE SlotInv'
  BY <1>d DEF SlotInv, MoveInv, RecordInv, WriteInv, RollbackInv, UntouchedInv
<1>e. ASSUME UNCHANGED <<live, meta, op, archive>> PROVE SlotInv'
  BY <1>e DEF SlotInv, MoveInv, RecordInv, WriteInv, RollbackInv, UntouchedInv, Stays, Away
<1>1. ASSUME NEW s \in Slots, StartGame(s) \/ StopGame \/ Create(s) \/ Rename(s)
      PROVE  SlotInv'
  BY <1>1, <1>c, <1>e DEF StartGame, StopGame, Create, Rename, Idle
<1>2. ASSUME NEW f \in Files, Play(f) PROVE SlotInv'
  <2>1. op' = op /\ (op = None \/ op.stage = "copy")
    BY <1>2 DEF Play, OpInv
  <2> QED
    BY <2>1, <1>c, <1>d
<1>3. ASSUME NEW s \in Slots, BeginDelete(s) PROVE SlotInv'
  BY <1>3, BeginSlot DEF BeginDelete
<1>4. ASSUME NEW s \in Slots, BeginBackup(s) PROVE SlotInv'
  BY <1>4, BeginSlot DEF BeginBackup
<1>5. ASSUME NEW s \in Slots, BeginRestore(s) PROVE SlotInv'
  BY <1>5, BeginSlot DEF BeginRestore
<1>6. ASSUME NEW s \in Slots, BeginInitialize(s) PROVE SlotInv'
  BY <1>6, BeginSlot DEF BeginInitialize
<1>7. ASSUME NEW type \in {"upgrade", "reset"}, BeginReplace(type) PROVE SlotInv'
  BY <1>7, <1>b, BeginSlot DEF BeginReplace
<1>8. CASE Remove
  BY <1>8, <1>d DEF Remove
<1>9. CASE \/ EndDelete \/ EndReplace \/ EndBackup \/ EndRestore \/ EndInitialize
           \/ EndRollback \/ Stop
  BY <1>9, <1>c DEF EndDelete, EndReplace, EndBackup, EndRestore, EndInitialize,
                    EndRollback, Stop, End
<1>10. ASSUME NEW f \in Files, CopyFile(f) PROVE SlotInv'
  <2>1. op # None /\ op'.stage = "copy"
    BY <1>10, <1>a DEF CopyFile, At, Operations
  <2> QED
    BY <2>1, <1>c, <1>d
<1>11. ASSUME NEW f \in Files, MoveFile(f) PROVE SlotInv'
  <2>1. /\ op # None /\ op.stage = "move" /\ live[op.slot][f] # None
        /\ op' = [op EXCEPT !.folder[f] = live[op.slot][f]]
        /\ live' = [live EXCEPT ![op.slot][f] = None] /\ UNCHANGED <<meta, archive>>
    BY <1>11 DEF MoveFile
  <2>2. /\ op'.slot = op.slot /\ op'.stage = "move" /\ op'.moved = op.moved
        /\ op'.label = op.label /\ op'.before = op.before /\ op'.type = op.type
        /\ op'.stuck = op.stuck
        /\ \A g \in Files :
             /\ op'.folder[g] = IF g = f THEN live[op.slot][f] ELSE op.folder[g]
             /\ live'[op.slot][g] = IF g = f THEN None ELSE live[op.slot][g]
    BY <2>1, <1>a DEF Operations, Directories
  <2>3. MoveInv
    BY <2>1 DEF SlotInv
  <2>4. ASSUME NEW g \in Files
        PROVE  Stays(g)' \/ (Away(g)' /\ live'[op'.slot][g] = None)
    BY <2>1, <2>2, <2>3 DEF MoveInv, Stays, Away
  <2> QED
    BY <2>1, <2>2, <2>3, <2>4 DEF SlotInv, MoveInv, RecordInv, WriteInv, RollbackInv, UntouchedInv
<1>12. CASE MoveRecord
  <2>1. /\ op # None /\ op.stage = "move" /\ live[op.slot] = Empty
        /\ op' = [op EXCEPT !.moved = meta[op.slot], !.stage = "record"]
        /\ meta' = [meta EXCEPT ![op.slot] = "none"] /\ UNCHANGED <<live, archive>>
    BY <1>12 DEF MoveRecord
  <2>2. /\ op'.slot = op.slot /\ op'.stage = "record" /\ op'.moved = meta[op.slot]
        /\ op'.label = op.label /\ op'.before = op.before /\ op'.type = op.type
        /\ op'.folder = op.folder /\ op'.stuck = op.stuck
        /\ meta'[op.slot] = "none"
    BY <2>1, <1>a DEF Operations
  <2>3. MoveInv
    BY <2>1 DEF SlotInv
  <2>4. \A g \in Files : live[op.slot][g] = None /\ Away(g)
    BY <2>1, <2>3 DEF MoveInv, Stays, Away, Empty
  <2>5. \A g \in Files : Away(g)' /\ live'[op'.slot][g] = None
    BY <2>1, <2>2, <2>4 DEF Away
  <2> QED
    BY <2>1, <2>2, <2>3, <2>5 DEF SlotInv, MoveInv, RecordInv, WriteInv, RollbackInv, UntouchedInv
<1>13. CASE CopyRecord
  <2>1. /\ op # None /\ op.stage = "record" /\ op' = [op EXCEPT !.stage = "write"]
        /\ meta' = [meta EXCEPT ![op.slot] = op.moved] /\ UNCHANGED <<live, archive>>
    BY <1>13 DEF CopyRecord, At
  <2>2. /\ op'.slot = op.slot /\ op'.stage = "write" /\ op'.moved = op.moved
        /\ op'.label = op.label /\ op'.before = op.before /\ op'.type = op.type
        /\ op'.folder = op.folder /\ op'.stuck = op.stuck
    BY <2>1, <1>a DEF Operations
  <2>3. RecordInv
    BY <2>1 DEF SlotInv
  <2>4. \A g \in Files : Away(g)'
    BY <2>1, <2>2, <2>3 DEF RecordInv, Away
  <2>5. meta'[op.slot] = op.label
    BY <2>1, <2>3, <1>a DEF RecordInv
  <2> QED
    BY <2>1, <2>2, <2>3, <2>4, <2>5 DEF SlotInv, MoveInv, RecordInv, WriteInv, RollbackInv, UntouchedInv
<1>14. ASSUME NEW f \in Files, OpenFile(f) \/ WriteFile(f) PROVE SlotInv'
  <2>1. /\ op # None /\ op.type = "restore" /\ op.stage = "write"
        /\ archive.files[f] # None /\ UNCHANGED <<meta, op, archive>>
    BY <1>14 DEF OpenFile, WriteFile, At
  <2>2. PICK c \in {Partial, archive.files[f]} : live' = [live EXCEPT ![op.slot][f] = c]
    BY <1>14 DEF OpenFile, WriteFile
  <2>3. \A g \in Files : live'[op.slot][g] = IF g = f THEN c ELSE live[op.slot][g]
    BY <2>1, <2>2, <1>a DEF Directories
  <2>4. WriteInv
    BY <2>1 DEF SlotInv
  <2>5. \A g \in Files : Away(g)'
    BY <2>1, <2>2, <2>3, <2>4 DEF WriteInv, Away
  <2> QED
    BY <2>1, <2>4, <2>5 DEF SlotInv, MoveInv, RecordInv, WriteInv, RollbackInv, UntouchedInv
<1>15. CASE Fail
  <2>1. /\ op # None /\ op.stage \in {"move", "record", "write"} /\ UNCHANGED archive
        /\ \E left \in BOOLEAN :
              op' = [op EXCEPT !.stage = "rollback", !.damage = left]
    BY <1>15 DEF Fail
  <2>2. /\ op'.slot = op.slot /\ op'.stage = "rollback" /\ op'.moved = op.moved
        /\ op'.label = op.label /\ op'.before = op.before /\ op'.type = op.type
        /\ op'.folder = op.folder /\ op'.stuck = op.stuck
    BY <2>1, <1>a DEF Operations
  <2>3. ASSUME op.stage # "write" PROVE UNCHANGED <<live, meta>>
    BY <1>15, <2>3 DEF Fail
  <2>4. ASSUME op.stage = "write"
        PROVE  \A g \in Files : live'[op.slot][g] \in {None, live[op.slot][g]}
    <3>1. PICK locked \in SUBSET Files :
             live' = [live EXCEPT ![op.slot] =
                        [g \in Files |->
                           IF g \in locked \/ @[g] # archive.files[g]
                           THEN @[g] ELSE None]]
      BY <1>15, <2>4 DEF Fail
    <3> QED
      BY <2>1, <3>1, <1>a
  <2>5. ASSUME op.stage = "write"
        PROVE  op.label = "none" => meta'[op.slot] = "none"
    <3>1. WriteInv
      BY <2>1 DEF SlotInv
    <3>2. meta' \in {meta, [meta EXCEPT ![op.slot] = "none"]}
      BY <1>15, <2>5 DEF Fail
    <3>3. meta'[op.slot] \in {meta[op.slot], "none"}
      BY <2>1, <3>2, <1>a
    <3> QED
      BY <2>5, <3>1, <3>3 DEF WriteInv
  <2>6. \A g \in Files : Stays(g)' \/ Away(g)'
    <3>1. CASE op.stage = "write"
      BY <2>1, <2>2, <2>4, <3>1 DEF SlotInv, WriteInv, Away
    <3>2. CASE op.stage # "write"
      BY <2>1, <2>2, <2>3, <3>2 DEF SlotInv, MoveInv, RecordInv, Stays, Away
    <3> QED
      BY <3>1, <3>2
  <2>7. \/ op'.moved = "none" /\ meta'[op'.slot] = op'.label
        \/ op'.moved = op'.label /\ op'.label # "none"
    <3>1. CASE op.stage = "write"
      BY <2>1, <2>2, <2>5, <3>1 DEF SlotInv, WriteInv
    <3>2. CASE op.stage # "write"
      BY <2>1, <2>2, <2>3, <3>2 DEF SlotInv, MoveInv, RecordInv
    <3> QED
      BY <3>1, <3>2
  <2>8. op'.stuck = {}
    BY <2>1, <2>2 DEF SlotInv, UntouchedInv
  <2> QED
    BY <2>2, <2>6, <2>7, <2>8
    DEF SlotInv, MoveInv, RecordInv, WriteInv, RollbackInv, UntouchedInv
<1>16. ASSUME NEW f \in Files, MoveBack(f) PROVE SlotInv'
  <2>1. /\ op # None /\ op.stage = "rollback" /\ op.folder[f] # None
        /\ UNCHANGED <<meta, archive>>
    BY <1>16 DEF MoveBack
  <2>2. RollbackInv
    BY <2>1 DEF SlotInv
  <2>3. CASE /\ live' = [live EXCEPT ![op.slot][f] = op.folder[f]]
             /\ op' = [op EXCEPT !.folder[f] = None]
    <3>1. /\ op'.slot = op.slot /\ op'.stage = "rollback" /\ op'.moved = op.moved
          /\ op'.label = op.label /\ op'.before = op.before /\ op'.type = op.type
          /\ op'.stuck = op.stuck /\ op'.damage = op.damage
          /\ \A g \in Files :
               /\ op'.folder[g] = IF g = f THEN None ELSE op.folder[g]
               /\ live'[op.slot][g] = IF g = f THEN op.folder[f] ELSE live[op.slot][g]
      BY <2>1, <2>3, <1>a DEF Operations, Directories
    <3>2. \A g \in Files : Stays(g)' \/ Away(g)'
      BY <2>1, <2>2, <3>1 DEF RollbackInv, Stays, Away
    <3> QED
      BY <2>1, <2>2, <3>1, <3>2
      DEF SlotInv, MoveInv, RecordInv, WriteInv, RollbackInv, UntouchedInv
  <2>4. CASE /\ UNCHANGED live
             /\ op' = [op EXCEPT !.stuck = @ \cup {f}, !.damage = TRUE]
    <3>1. /\ op'.slot = op.slot /\ op'.stage = "rollback" /\ op'.moved = op.moved
          /\ op'.label = op.label /\ op'.before = op.before /\ op'.type = op.type
          /\ op'.folder = op.folder /\ op'.damage
      BY <2>1, <2>4, <1>a DEF Operations
    <3>2. \A g \in Files : Stays(g)' \/ Away(g)'
      BY <2>1, <2>2, <2>4, <3>1 DEF RollbackInv, Stays, Away
    <3> QED
      BY <2>1, <2>2, <3>1, <3>2
      DEF SlotInv, MoveInv, RecordInv, WriteInv, RollbackInv, UntouchedInv
  <2> QED
    BY <1>16, <2>3, <2>4 DEF MoveBack
<1>161. CASE MoveRecordBack
  <2>1. /\ op # None /\ op.stage = "rollback" /\ op.moved # "none"
        /\ UNCHANGED <<live, archive>>
        /\ \/ /\ meta' = [meta EXCEPT ![op.slot] = op.moved]
              /\ op' = [op EXCEPT !.moved = "none"]
           \/ op' = [op EXCEPT !.moved = "none", !.damage = TRUE]
    BY <1>161 DEF MoveRecordBack
  <2>2. /\ op'.slot = op.slot /\ op'.stage = "rollback" /\ op'.moved = "none"
        /\ op'.label = op.label /\ op'.before = op.before /\ op'.type = op.type
        /\ op'.folder = op.folder /\ op'.stuck = op.stuck
        /\ op.damage => op'.damage
        /\ meta'[op.slot] = op.moved \/ op'.damage
    BY <2>1, <1>a DEF Operations
  <2>3. RollbackInv
    BY <2>1 DEF SlotInv
  <2>4. \A g \in Files : Stays(g)' \/ Away(g)'
    BY <2>1, <2>2, <2>3 DEF RollbackInv, Stays, Away
  <2> QED
    BY <2>1, <2>2, <2>3, <2>4
    DEF SlotInv, MoveInv, RecordInv, WriteInv, RollbackInv, UntouchedInv
<1>17. CASE UNCHANGED vars
  BY <1>17, <1>e DEF vars
<1> QED
  BY <1>b, <1>1, <1>2, <1>3, <1>4, <1>5, <1>6, <1>7, <1>8, <1>9, <1>10, <1>11,
     <1>12, <1>13, <1>14, <1>15, <1>16, <1>161, <1>17 DEF Next

----------------------------------------------------------------------------
(* The inductive invariant. *)

IInv == TypeOK /\ OpInv /\ SlotInv

LEMMA IInvInit ==
    Init => IInv
<1> SUFFICES ASSUME Init PROVE IInv
  OBVIOUS
<1>1. Empty \in Directories
  BY DEF Empty, Directories, Contents
<1>2. OpInv /\ SlotInv
  BY DEF Init, OpInv, SlotInv
<1>3. /\ live \in [Slots -> Directories] /\ meta \in [Slots -> Records]
      /\ kept \in [Slots -> SUBSET (Files \X Versions)]
  BY <1>1 DEF Init, Records
<1>4. next \in 0..MaxVersion /\ faults \in 0..MaxFaults /\ exists \subseteq Slots
  BY SlotsAssumption DEF Init
<1> QED
  BY <1>2, <1>3, <1>4 DEF Init, IInv, TypeOK

LEMMA IInvStep ==
    IInv /\ [Next]_vars => IInv'
  BY TypeStep, OpStep, SlotStep DEF IInv

\* Every variable keeps its type.
THEOREM SavesTypeOK == Spec => []TypeOK
  BY IInvInit, IInvStep, PTL DEF Spec, IInv

----------------------------------------------------------------------------
(* Nothing is lost. *)

\* The contents of files that change one by one.
LEMMA CompleteOf ==
    ASSUME NEW d, NEW f \in Files, NEW v \in Versions, d[f] = v
    PROVE  <<f, v>> \in Complete(d)
  BY DEF Complete

\* What a slot holds, taken apart.
LEMMA HeldParts ==
    ASSUME NEW s \in Slots, Complete(live[s]) \subseteq Held(s)' \cup Archived,
           kept[s] \subseteq Held(s)', Moved(s) \subseteq Held(s)'
    PROVE  Held(s) \subseteq Held(s)' \cup Archived
  BY DEF Held

\* A step that only adds.
LEMMA HeldGrows ==
    ASSUME NEW s \in Slots, live'[s] = live[s], kept[s] \subseteq kept'[s],
           Moved(s) \subseteq Moved(s)' \cup kept'[s]
    PROVE  Held(s) \subseteq Held(s)'
<1>1. Held(s)' = Complete(live'[s]) \cup kept'[s] \cup Moved(s)'
  BY DEF Held, Complete
<1> QED
  BY <1>1 DEF Held

\* Only the client, a deletion and a replacement remove a content.
LEMMA LossStep ==
    ASSUME IInv, [Next]_vars, NEW s \in Slots, game # s,
           ~(op # None /\ op.slot = s /\ op.stage = "remove")
    PROVE  Held(s) \subseteq Held(s)' \cup Archived
<1> USE DEF disk
<1>a. /\ live \in [Slots -> Directories] /\ kept \in [Slots -> SUBSET (Files \X Versions)]
      /\ OpInv /\ SlotInv /\ TypeOK
  BY DEF IInv, TypeOK
<1>b. ASSUME op # None
      PROVE  /\ op \in Operations /\ op.slot \in Slots
             /\ op.before \in Directories /\ op.folder \in Directories
             /\ live[op.slot] \in Directories
  BY <1>a, <1>b, OpFacts
<1>c. Held(s)' = Complete(live'[s]) \cup kept'[s] \cup Moved(s)'
  BY DEF Held, Complete
<1>d. Complete(Empty) = {}
  BY SlotsAssumption DEF Complete, Empty, Versions
<1>e. Moved(s)' = IF op' # None /\ op'.type \in {"restore", "initialize"} /\ op'.slot = s
                  THEN Complete(op'.folder) ELSE {}
  BY DEF Moved, Complete
<1>f. ASSUME UNCHANGED <<live, kept, op>> PROVE Held(s) \subseteq Held(s)'
  <2>1. Moved(s)' = Moved(s)
    BY <1>e, <1>f DEF Moved
  <2> QED
    BY <1>f, <2>1, HeldGrows
<1>g. ASSUME op = None, live' = live, kept[s] \subseteq kept'[s]
      PROVE  Held(s) \subseteq Held(s)'
  BY <1>g, HeldGrows DEF Moved
<1>h. ASSUME op # None, op.type \notin {"restore", "initialize"}, UNCHANGED <<live, kept>>
      PROVE  Held(s) \subseteq Held(s)'
  BY <1>h, HeldGrows DEF Moved
<1>1. ASSUME NEW q \in Slots, StartGame(q) \/ StopGame PROVE Held(s) \subseteq Held(s)'
  BY <1>1, <1>f DEF StartGame, StopGame
<1>2. ASSUME NEW f \in Files, Play(f) PROVE Held(s) \subseteq Held(s)'
  <2>1. live'[s] = live[s] /\ UNCHANGED <<kept, op>>
    BY <1>2, <1>a DEF Play
  <2>2. Moved(s)' = Moved(s)
    BY <1>e, <2>1 DEF Moved
  <2> QED
    BY <2>1, <2>2, HeldGrows
<1>3. ASSUME NEW q \in Slots,
             Create(q) \/ Rename(q) \/ BeginDelete(q) \/ BeginBackup(q) \/ BeginRestore(q)
      PROVE  Held(s) \subseteq Held(s)'
  BY <1>3, <1>g DEF Create, Rename, BeginDelete, BeginBackup, BeginRestore, Idle
<1>4. ASSUME NEW type \in {"upgrade", "reset"}, BeginReplace(type)
      PROVE  Held(s) \subseteq Held(s)'
  BY <1>4, <1>g DEF BeginReplace, Idle
<1>5. ASSUME NEW q \in Slots, BeginInitialize(q) PROVE Held(s) \subseteq Held(s)'
  <2>1. op = None /\ live' = live /\ kept[s] \subseteq kept'[s]
    BY <1>5, <1>a DEF BeginInitialize, Idle
  <2> QED
    BY <1>g, <2>1
<1>6. CASE Remove
  <2>1. op # None /\ op.slot \in Slots /\ op.slot # s /\ op' = op
    BY <1>6, <1>b DEF Remove
  <2>2. live'[s] = live[s] /\ kept'[s] = kept[s]
    BY <1>6, <2>1, <1>a DEF Remove
  <2>3. Moved(s) = {}
    BY <2>1 DEF Moved
  <2> QED
    BY <2>2, <2>3, HeldGrows
<1>7. CASE EndDelete \/ EndReplace \/ EndBackup
  <2>1. /\ op # None /\ op.type \notin {"restore", "initialize"}
        /\ UNCHANGED <<live, kept>>
    BY <1>7 DEF EndDelete, EndReplace, EndBackup, At
  <2> QED
    BY <1>h, <2>1
<1>8. ASSUME NEW f \in Files, CopyFile(f) PROVE Held(s) \subseteq Held(s)'
  <2>1. /\ op # None /\ op.type \notin {"restore", "initialize"}
        /\ UNCHANGED <<live, kept>>
    BY <1>8 DEF CopyFile, At
  <2> QED
    BY <1>h, <2>1
\* The steps of a restore or an initialization of another slot.
<1>9. ASSUME op # None, op.slot # s, live'[s] = live[s], kept'[s] = kept[s]
      PROVE  Held(s) \subseteq Held(s)'
  BY <1>9, HeldGrows DEF Moved
<1>10. ASSUME NEW f \in Files, MoveFile(f) PROVE Held(s) \subseteq Held(s)'
  <2>1. /\ op # None /\ op.stage = "move" /\ live[op.slot][f] # None
        /\ op' = [op EXCEPT !.folder[f] = live[op.slot][f]]
        /\ live' = [live EXCEPT ![op.slot][f] = None] /\ kept' = kept
    BY <1>10 DEF MoveFile
  <2>2. CASE op.slot # s
    BY <2>1, <2>2, <1>a, <1>9
  <2>3. CASE op.slot = s
    <3>1. /\ op' # None /\ op'.slot = s /\ op'.type = op.type
          /\ op.type \in {"restore", "initialize"}
          /\ \A g \in Files :
               /\ op'.folder[g] = IF g = f THEN live[s][f] ELSE op.folder[g]
               /\ live'[s][g] = IF g = f THEN None ELSE live[s][g]
      <4>1. op' \in Operations
        BY <2>1, <1>a, <1>b DEF Operations, Directories
      <4>2. op.type \in {"restore", "initialize"}
        BY <2>1, <1>a, <1>b DEF OpInv, Operations
      <4> QED
        BY <2>1, <2>3, <4>1, <4>2, <1>a, <1>b, NoneAssumption
        DEF Operations, Directories
    <3>2. Moved(s)' = Complete(op'.folder) /\ Moved(s) = Complete(op.folder)
      BY <2>1, <2>3, <3>1, <1>e DEF Moved
    <3>3. op.folder[f] = None
      BY <2>1, <2>3, <1>a DEF SlotInv, MoveInv, Stays, Away
    <3>4. None \notin Versions
      BY SlotsAssumption DEF Versions
    <3>5. Complete(op.folder) \subseteq Complete(op'.folder)
      BY <3>1, <3>3, <3>4 DEF Complete
    <3>6. Complete(live[s]) \subseteq Complete(live'[s]) \cup Complete(op'.folder)
      BY <3>1 DEF Complete
    <3> QED
      BY <2>1, <3>2, <3>5, <3>6, <1>c DEF Held
  <2> QED
    BY <2>2, <2>3
<1>11. CASE MoveRecord \/ CopyRecord
  <2>1. /\ op # None /\ op' # None /\ op'.slot = op.slot /\ op'.type = op.type
        /\ op'.folder = op.folder /\ UNCHANGED <<live, kept>>
    <3>0. /\ op \in Operations /\ meta[op.slot] \in Records
          /\ op' = [op EXCEPT !.moved = meta[op.slot], !.stage = "record"]
             \/ op' = [op EXCEPT !.stage = "write"]
      BY <1>11, <1>a, <1>b DEF MoveRecord, CopyRecord, At, Operations, TypeOK
    <3>1. op' \in Operations
      <4>1. CASE op' = [op EXCEPT !.moved = meta[op.slot], !.stage = "record"]
        BY <3>0, <4>1 DEF Operations
      <4>2. CASE op' = [op EXCEPT !.stage = "write"]
        BY <3>0, <4>2 DEF Operations
      <4> QED BY <3>0, <4>1, <4>2
    <3> QED
      BY <1>11, <3>1, <1>b, NoneAssumption DEF MoveRecord, CopyRecord, At, Operations
  <2>2. Moved(s)' = Moved(s)
    BY <2>1, <1>e DEF Moved
  <2> QED
    BY <2>1, <2>2, HeldGrows
<1>12. ASSUME NEW f \in Files, OpenFile(f) \/ WriteFile(f)
       PROVE  Held(s) \subseteq Held(s)'
  <2>1. /\ op # None /\ UNCHANGED <<kept, op>>
        /\ live[op.slot][f] \in {None, Partial}
        /\ \E c : live' = [live EXCEPT ![op.slot][f] = c]
    BY <1>12 DEF OpenFile, WriteFile, At
  <2>2. Moved(s)' = Moved(s)
    BY <2>1, <1>e DEF Moved
  <2>3. Complete(live[s]) \subseteq Complete(live'[s])
    <3>1. ASSUME NEW g \in Files, live[s][g] \in Versions PROVE live'[s][g] = live[s][g]
      <4>1. {None, Partial} \cap Versions = {}
        BY SlotsAssumption DEF Versions
      <4>2. op.slot # s \/ g # f
        BY <2>1, <3>1, <4>1
      <4> QED
        BY <2>1, <4>2, <1>a, <1>b DEF Directories
    <3> QED
      BY <3>1 DEF Complete
  <2> QED
    BY <2>1, <2>2, <2>3, <1>c DEF Held
<1>13. CASE EndRestore \/ EndInitialize
  <2>1. /\ op # None /\ op.slot \in Slots /\ UNCHANGED live
        /\ kept' = [kept EXCEPT ![op.slot] = @ \cup Complete(op.folder)]
    BY <1>13, <1>b DEF EndRestore, EndInitialize, At
  <2>2. kept[s] \subseteq kept'[s] /\ (op.slot = s => Complete(op.folder) \subseteq kept'[s])
    BY <2>1, <1>a
  <2> QED
    BY <2>1, <2>2, HeldGrows DEF Moved
<1>131. CASE EndRollback
  <2>1. /\ op # None /\ op.slot \in Slots /\ op.stage = "rollback" /\ FilesTried
        /\ UNCHANGED live
    BY <1>131, <1>b DEF EndRollback
  <2>2. CASE kept' = [kept EXCEPT ![op.slot] = @ \cup Complete(op.folder)]
    <3>1. kept[s] \subseteq kept'[s] /\ (op.slot = s => Complete(op.folder) \subseteq kept'[s])
      BY <2>1, <2>2, <1>a
    <3> QED
      BY <2>1, <3>1, HeldGrows DEF Moved
  <2>3. CASE kept' = kept /\ ~op.damage
    <3>1. op.stuck = {}
      BY <2>1, <2>3, <1>a DEF SlotInv, RollbackInv
    <3>2. \A f \in Files : op.folder[f] = None
      BY <2>1, <3>1 DEF FilesTried
    <3>3. Complete(op.folder) = {}
      BY <3>2, SlotsAssumption DEF Complete, Versions
    <3> QED
      BY <2>1, <2>3, <3>3, HeldGrows DEF Moved
  <2> QED
    BY <1>131, <2>2, <2>3 DEF EndRollback
<1>14. CASE Stop
  <2>1. op # None /\ op.slot \in Slots /\ UNCHANGED live
    BY <1>14, <1>b DEF Stop
  <2>2. CASE op.type = "backup"
    BY <1>14, <2>1, <2>2, HeldGrows DEF Stop, Moved
  <2>3. CASE op.type # "backup"
    <3>1. kept' = [kept EXCEPT ![op.slot] = @ \cup Complete(op.folder)]
      BY <1>14, <2>3 DEF Stop
    <3>2. kept[s] \subseteq kept'[s] /\ (op.slot = s => Complete(op.folder) \subseteq kept'[s])
      BY <2>1, <3>1, <1>a
    <3> QED
      BY <2>1, <3>2, HeldGrows DEF Moved
  <2> QED
    BY <2>2, <2>3
<1>15. CASE Fail
  <2>1. /\ op # None /\ kept' = kept
        /\ \E left \in BOOLEAN :
              op' = [op EXCEPT !.stage = "rollback", !.damage = left]
    BY <1>15 DEF Fail
  <2>2. /\ op' # None /\ op'.slot = op.slot /\ op'.type = op.type
        /\ op'.folder = op.folder
    <3>1. op' \in Operations
      BY <2>1, <1>b DEF Operations
    <3> QED
      BY <2>1, <3>1, <1>b, NoneAssumption DEF Operations
  <2>3. Moved(s)' = Moved(s)
    BY <2>1, <2>2, <1>e DEF Moved
  <2>4. Complete(live[s]) \subseteq Complete(live'[s]) \cup Archived
    <3>1. CASE op.stage # "write" \/ op.slot # s
      <4>1. live'[s] = live[s]
        BY <1>15, <3>1, <1>a, <1>b DEF Fail
      <4> QED
        BY <4>1
    <3>2. CASE op.stage = "write" /\ op.slot = s
      <4>1. PICK locked \in SUBSET Files :
               live' = [live EXCEPT ![op.slot] =
                          [g \in Files |->
                             IF g \in locked \/ @[g] # archive.files[g]
                             THEN @[g] ELSE None]]
        BY <1>15, <3>2 DEF Fail
      <4>2. \A g \in Files : live'[s][g] = live[s][g] \/ live[s][g] = archive.files[g]
        BY <3>2, <4>1, <1>a
      <4>3. Archived = Complete(archive.files)
        BY <2>1, <3>2, <1>a DEF OpInv, Archived
      <4> QED
        BY <4>2, <4>3 DEF Complete
    <3> QED
      BY <3>1, <3>2
  <2> QED
    BY <2>1, <2>3, <2>4, <1>c DEF Held
<1>16. ASSUME NEW f \in Files, MoveBack(f)
       PROVE  Held(s) \subseteq Held(s)' \cup Archived
  <2>1. /\ op # None /\ op.stage = "rollback" /\ op.folder[f] # None /\ kept' = kept
    BY <1>16 DEF MoveBack
  <2>2. op.type \in {"restore", "initialize"}
    BY <2>1, <1>a, <1>b DEF OpInv, Operations
  <2>3. CASE /\ UNCHANGED live
             /\ op' = [op EXCEPT !.stuck = @ \cup {f}, !.damage = TRUE]
    <3>1. /\ op' # None /\ op'.slot = op.slot /\ op'.type = op.type
          /\ op'.folder = op.folder
      <4>1. op' \in Operations
        BY <2>1, <2>3, <1>b DEF Operations
      <4> QED
        BY <2>1, <2>3, <4>1, <1>b, NoneAssumption DEF Operations
    <3>2. Moved(s)' = Moved(s)
      BY <2>1, <3>1, <1>e DEF Moved
    <3> QED
      BY <2>1, <2>3, <3>2, HeldGrows
  <2>4. CASE /\ live' = [live EXCEPT ![op.slot][f] = op.folder[f]]
             /\ op' = [op EXCEPT !.folder[f] = None]
    <3>1. CASE op.slot # s
      <4>1. live'[s] = live[s]
        BY <2>1, <2>4, <3>1, <1>a, <1>b
      <4> QED
        BY <2>1, <3>1, <4>1, <1>9
    <3>2. CASE op.slot = s
      <4>1. /\ op' # None /\ op'.slot = s /\ op'.type = op.type
            /\ \A g \in Files :
                 /\ op'.folder[g] = IF g = f THEN None ELSE op.folder[g]
                 /\ live'[s][g] = IF g = f THEN op.folder[f] ELSE live[s][g]
        <5>1. op' \in Operations
          BY <2>1, <2>4, <1>b DEF Operations, Directories, Contents
        <5> QED
          BY <2>1, <2>4, <3>2, <5>1, <1>a, <1>b, NoneAssumption
          DEF Operations, Directories
      <4>2. Moved(s)' = Complete(op'.folder) /\ Moved(s) = Complete(op.folder)
        BY <2>1, <2>2, <3>2, <4>1, <1>e DEF Moved
      <4>3. Complete(op.folder) \subseteq Complete(op'.folder) \cup Complete(live'[s])
        BY <4>1 DEF Complete
      <4>4. \/ live[s][f] \in {None, Partial}
            \/ archive # None /\ live[s][f] = archive.files[f]
        BY <2>1, <3>2, <1>a DEF SlotInv, RollbackInv, Stays, Away, OpInv
      <4>5. {None, Partial} \cap Versions = {}
        BY SlotsAssumption DEF Versions
      <4>6. Complete(live[s]) \subseteq Complete(live'[s]) \cup Archived
        BY <4>1, <4>4, <4>5 DEF Complete, Archived
      <4> QED
        BY <2>1, <4>2, <4>3, <4>6, <1>c DEF Held
    <3> QED
      BY <3>1, <3>2
  <2> QED
    BY <1>16, <2>3, <2>4 DEF MoveBack
<1>161. CASE MoveRecordBack
  <2>1. /\ op # None /\ UNCHANGED <<live, kept>>
        /\ \/ op' = [op EXCEPT !.moved = "none"]
           \/ op' = [op EXCEPT !.moved = "none", !.damage = TRUE]
    BY <1>161 DEF MoveRecordBack
  <2>2. /\ op' # None /\ op'.slot = op.slot /\ op'.type = op.type
        /\ op'.folder = op.folder
    <3>1. op' \in Operations
      BY <2>1, <1>b DEF Operations, Records
    <3> QED
      BY <2>1, <3>1, <1>b, NoneAssumption DEF Operations
  <2>3. Moved(s)' = Moved(s)
    BY <2>1, <2>2, <1>e DEF Moved
  <2> QED
    BY <2>1, <2>3, HeldGrows
<1>17. CASE UNCHANGED vars
  BY <1>17, <1>f DEF vars
<1> QED
  BY <1>1, <1>2, <1>3, <1>4, <1>5, <1>6, <1>7, <1>8, <1>10, <1>11, <1>12, <1>13,
     <1>131, <1>14, <1>15, <1>16, <1>161, <1>17 DEF Next

\* Nothing the player has earned is lost to a restore or an initialization,
\* whatever fails or stops, for any slots, files and number of faults.
THEOREM SavesNothingLost == Spec => NothingLost
<1>1. IInv /\ [Next]_vars =>
        [\A s \in Slots :
            \/ Held(s) \subseteq Held(s)' \cup Archived
            \/ game = s
            \/ op # None /\ op.slot = s /\ op.stage = "remove"]_vars
  BY LossStep
<1> QED
  BY <1>1, IInvInit, IInvStep, PTL DEF Spec, NothingLost

----------------------------------------------------------------------------
(* What the player is told. *)

\* An operation ends with "done" or "failed" in these steps only.
LEMMA EndFrame ==
    ASSUME TypeOK, [Next]_vars, op # None, op' = None
    PROVE  \/ EndDelete \/ EndReplace \/ EndBackup \/ EndRestore \/ EndInitialize
           \/ EndRollback \/ Stop
<1> USE DEF disk
<1>a. op \in Operations
  BY OpFacts
<1>1. ASSUME UNCHANGED op PROVE FALSE
  BY <1>1
<1>2. ASSUME op' \in Operations PROVE FALSE
  BY <1>2, NoneAssumption
<1>3. ASSUME NEW s \in Slots,
             \/ StartGame(s) \/ StopGame \/ Create(s) \/ Rename(s)
             \/ BeginDelete(s) \/ BeginBackup(s) \/ BeginRestore(s)
             \/ BeginInitialize(s)
      PROVE  FALSE
  BY <1>3 DEF StartGame, StopGame, Create, Rename, BeginDelete, BeginBackup,
              BeginRestore, BeginInitialize, Idle
<1>4. ASSUME NEW type \in {"upgrade", "reset"}, BeginReplace(type) PROVE FALSE
  BY <1>4 DEF BeginReplace, Idle
<1>5. ASSUME NEW f \in Files,
             \/ Play(f) \/ CopyFile(f) \/ MoveFile(f) \/ OpenFile(f) \/ WriteFile(f)
             \/ MoveBack(f)
      PROVE  FALSE
  <2>1. \/ op' = op
        \/ \E c \in Contents : op' = [op EXCEPT !.folder[f] = c]
        \/ op' = [op EXCEPT !.stuck = @ \cup {f}, !.damage = TRUE]
    <3>1. live[op.slot][f] \in Contents /\ None \in Contents
      BY OpFacts DEF Directories, Contents
    <3> QED
      BY <1>5, <3>1 DEF Play, CopyFile, MoveFile, OpenFile, WriteFile, MoveBack
  <2>2. op' \in Operations
    BY <2>1, <1>a, OpUpdate
  <2> QED
    BY <1>2, <2>2
<1>6. CASE MoveRecord \/ CopyRecord \/ Fail
  <2>1. op' \in Operations
    BY <1>6, <1>a, OpAdvance
  <2> QED
    BY <1>2, <2>1
<1>61. CASE MoveRecordBack
  <2>1. \/ op' = [op EXCEPT !.moved = "none"]
        \/ op' = [op EXCEPT !.moved = "none", !.damage = TRUE]
    BY <1>61 DEF MoveRecordBack
  <2>2. op' \in Operations
    BY <2>1, <1>a DEF Operations, Records
  <2> QED
    BY <1>2, <2>2
<1>7. CASE Remove \/ UNCHANGED vars
  BY <1>1, <1>7 DEF Remove, vars
<1> QED
  BY <1>3, <1>4, <1>5, <1>6, <1>61, <1>7, SlotsAssumption DEF Next

\* A failure accounts for every file and the record.
LEMMA FailureStep ==
    ASSUME IInv, [Next]_vars, op # None, op' = None,
           result' \in {"failed", "damaged"}
    PROVE  /\ \A f \in Files :
                 \/ live'[op.slot][f] = op.before[f]
                 \/ /\ op.before[f] # None /\ f \in op.stuck
                    /\ op.before[f] \in Versions =>
                          <<f, op.before[f]>> \in kept'[op.slot]
                 \/ /\ op.before[f] = None /\ op.type = "restore"
                    /\ live'[op.slot][f] \in {Partial, archive.files[f]}
           /\ meta'[op.slot] = op.label \/ op.damage
           /\ op.type = "initialize" /\ result' = "failed" =>
                 live'[op.slot] = op.before /\ meta'[op.slot] = op.label
<1>1. EndRollback
  <2>1. TypeOK
    BY DEF IInv
  <2>2. result' \in {"done", None} => FALSE
    BY NoneAssumption
  <2> QED
    BY <2>1, <2>2, EndFrame
    DEF EndDelete, EndReplace, EndBackup, EndRestore, EndInitialize, Stop, End
<1>2. /\ op.stage = "rollback" /\ UNCHANGED <<live, meta>> /\ op.moved = "none"
      /\ \A f \in Files : op.folder[f] # None => f \in op.stuck
      /\ result' = IF op.type = "initialize" /\ op.damage THEN "damaged" ELSE "failed"
  BY <1>1 DEF EndRollback, FilesTried, End
<1>3. /\ RollbackInv /\ op \in Operations /\ op.slot \in Slots
      /\ op.before \in Directories /\ op.folder \in Directories
      /\ live[op.slot] \in Directories
      /\ kept \in [Slots -> SUBSET (Files \X Versions)]
  BY <1>2, OpFacts DEF IInv, SlotInv, TypeOK
<1>4. meta'[op.slot] = op.label \/ op.damage
  BY <1>2, <1>3 DEF RollbackInv
<1>5. ASSUME NEW f \in Files, Stays(f) PROVE live'[op.slot][f] = op.before[f]
  BY <1>2, <1>5 DEF Stays
<1>6. ASSUME NEW f \in Files, Away(f), op.before[f] # None
      PROVE  /\ f \in op.stuck /\ op.damage
             /\ op.before[f] \in Versions => <<f, op.before[f]>> \in kept'[op.slot]
  <2>1. op.folder[f] = op.before[f] /\ f \in op.stuck
    BY <1>2, <1>6 DEF Away
  <2>2. op.damage
    BY <1>2, <1>3, <2>1 DEF RollbackInv
  <2>3. kept' = [kept EXCEPT ![op.slot] = @ \cup Complete(op.folder)]
    BY <1>1, <2>2 DEF EndRollback
  <2>4. Complete(op.folder) \subseteq kept'[op.slot]
    BY <1>3, <2>3
  <2>5. op.before[f] \in Versions => <<f, op.before[f]>> \in Complete(op.folder)
    BY <2>1, CompleteOf
  <2> QED
    BY <2>1, <2>2, <2>4, <2>5
<1>7. ASSUME NEW f \in Files, Away(f), op.before[f] = None
      PROVE  \/ live'[op.slot][f] = op.before[f]
             \/ /\ op.type = "restore"
                /\ live'[op.slot][f] \in {Partial, archive.files[f]}
  BY <1>2, <1>7 DEF Away
<1>8. \A f \in Files : Stays(f) \/ Away(f)
  BY <1>2, <1>3 DEF RollbackInv
<1>9. ASSUME op.type = "initialize", result' = "failed"
      PROVE  live'[op.slot] = op.before /\ meta'[op.slot] = op.label
  <2>1. ~op.damage
    BY <1>2, <1>9
  <2>2. \A f \in Files : live'[op.slot][f] = op.before[f]
    BY <1>5, <1>6, <1>7, <1>8, <1>9, <2>1
  <2>3. live'[op.slot] = op.before
    BY <1>2, <1>3, <2>2 DEF Directories
  <2> QED
    BY <1>4, <2>1, <2>3
<1> QED
  BY <1>4, <1>5, <1>6, <1>7, <1>8, <1>9

\* A failed restore or initialization accounts for every file and the record of
\* the slot, whatever could not be removed or moved back, and an initialization
\* that names no recovery files has left the slot as it was.
THEOREM SavesFailureAccounted == Spec => FailureAccounted
<1>1. IInv /\ [Next]_vars =>
        [op # None /\ op' = None /\ result' \in {"failed", "damaged"} =>
          /\ \A f \in Files :
                \/ live'[op.slot][f] = op.before[f]
                \/ /\ op.before[f] # None /\ f \in op.stuck
                   /\ op.before[f] \in Versions =>
                         <<f, op.before[f]>> \in kept'[op.slot]
                \/ /\ op.before[f] = None /\ op.type = "restore"
                   /\ live'[op.slot][f] \in {Partial, archive.files[f]}
          /\ meta'[op.slot] = op.label \/ op.damage
          /\ op.type = "initialize" /\ result' = "failed" =>
                live'[op.slot] = op.before /\ meta'[op.slot] = op.label]_vars
  BY FailureStep
<1> QED
  BY <1>1, IInvInit, IInvStep, PTL DEF Spec, FailureAccounted

\* A completed operation did what it promised.
LEMMA DoneStep ==
    ASSUME IInv, [Next]_vars, op # None, op' = None, result' = "done"
    PROVE  /\ op.type = "restore" => live'[op.slot] = archive.files
           /\ op.type \in {"initialize", "upgrade", "reset"} =>
                live'[op.slot] = Empty /\ meta'[op.slot] # "none"
<1>a. /\ op.slot \in Slots /\ live[op.slot] \in Directories
      /\ meta \in [Slots -> Records] /\ TypeOK /\ OpInv /\ SlotInv
  BY OpFacts DEF IInv, TypeOK
<1>1. EndDelete \/ EndReplace \/ EndBackup \/ EndRestore \/ EndInitialize
  <2>1. result' \in {"failed", "damaged", None} => FALSE
    BY NoneAssumption
  <2> QED
    BY <1>a, <2>1, EndFrame DEF EndRollback, Stop, End
<1>2. CASE EndDelete \/ EndBackup
  BY <1>2 DEF EndDelete, EndBackup, At
<1>3. CASE EndReplace
  <2>1. op.slot = Default /\ op.type # "restore"
    BY <1>3, <1>a DEF EndReplace, OpInv
  <2> QED
    BY <1>3, <2>1, <1>a DEF EndReplace, Removed
<1>4. CASE EndRestore
  <2>1. op.type = "restore" /\ op.stage = "write" /\ UNCHANGED live /\ Restored
    BY <1>4 DEF EndRestore, At
  <2>2. \A f \in Files : live[op.slot][f] = archive.files[f]
    BY <2>1, <1>a DEF SlotInv, WriteInv, Away, Restored
  <2>3. archive.files \in Directories
    BY <2>1, <1>a DEF OpInv, TypeOK, Archives
  <2>4. live[op.slot] = archive.files
    BY <2>2, <2>3, <1>a DEF Directories
  <2> QED
    BY <2>1, <2>4
<1>5. CASE EndInitialize
  <2>1. /\ op.type = "initialize" /\ op.stage = "record" /\ UNCHANGED live
        /\ meta' = [meta EXCEPT ![op.slot] = "plain"]
    BY <1>5 DEF EndInitialize, At
  <2>2. \A f \in Files : live[op.slot][f] = None
    BY <2>1, <1>a DEF SlotInv, RecordInv
  <2>3. live[op.slot] = Empty
    BY <2>2, <1>a DEF Directories, Empty
  <2> QED
    BY <2>1, <2>3, <1>a
<1> QED
  BY <1>1, <1>2, <1>3, <1>4, <1>5

\* A restored slot holds the files of the archive and no other, and an
\* initialized or replaced one none.
THEOREM SavesDoneIsExact == Spec => DoneIsExact
<1>1. IInv /\ [Next]_vars =>
        [op # None /\ op' = None /\ result' = "done" =>
            /\ op.type = "restore" => live'[op.slot] = archive.files
            /\ op.type \in {"initialize", "upgrade", "reset"} =>
                  live'[op.slot] = Empty /\ meta'[op.slot] # "none"]_vars
  BY DoneStep
<1> QED
  BY <1>1, IInvInit, IInvStep, PTL DEF Spec, DoneIsExact
=============================================================================
