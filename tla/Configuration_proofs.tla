-------------------------- MODULE Configuration_proofs --------------------------
(***************************************************************************)
(* Proofs about Configuration, for every set of clients, owners and values *)
(* and every value of the bounds. One lemma for each part of the inductive *)
(* invariant, one step for each action that could disturb it; then the     *)
(* properties, which follow from the invariant.                            *)
(***************************************************************************)
EXTENDS Configuration, TLAPS

\* The file is new, nothing runs, and nothing has been saved.
LEMMA InitOK == Init => IInv
<1> SUFFICES ASSUME Init PROVE IInv
  OBVIOUS
<1>1. file \in Content
  BY ConfigurationAssumption DEF Init, Content, Versions
<1>2. Blank \in Runtime /\ Blank.running = Blank.adopted.val /\ Blank.reload = "idle"
  <2>1. [rev |-> 0, val |-> Bad, ver |-> 1] \in Content
    BY ConfigurationAssumption DEF Content, Versions
  <2> QED
    BY <2>1 DEF Blank, Fresh, Runtime, Content
<1>3. Typed
  <2>1. view \in [Clients -> Content] /\ runtime \in [Owners -> Runtime]
        /\ stage \in [Owners -> {"down", "read", "gated", "up"}]
    BY <1>1, <1>2 DEF Init
  <2>2. edits \in 0 .. MaxEdits /\ crashes \in 0 .. MaxCrashes
    BY ConfigurationAssumption DEF Init
  <2>3. receipt = NoReceipt /\ op = NoOp /\ late = {} /\ backups = {} /\ landed = FALSE
    BY DEF Init
  <2> QED
    BY <1>1, <2>1, <2>2, <2>3 DEF Typed
<1>4. ReloadWaits
  BY <1>2 DEF Init, ReloadWaits, NoOp
<1>5. OperationOK /\ UpgradeAlone /\ ReadingsHold
  BY ConfigurationAssumption
  DEF Init, OperationOK, UpgradeAlone, ReadingsHold, NoOp, Idle
<1>6. ReceiptIsTrue /\ ReceiptFollows
  BY DEF Init, ReceiptIsTrue, ReceiptFollows, NoOp, NoReceipt
<1>7. RuntimeOK
  BY <1>2 DEF Init, RuntimeOK
<1> QED
  BY <1>3, <1>4, <1>5, <1>6, <1>7 DEF IInv, TypeOK

\* Each step keeps the types: an operation stores only contents within the
\* bounds, a reload only contents it has read.
LEMMA TypedStep == IInv /\ [Next]_vars => Typed'
<1> SUFFICES ASSUME IInv, [Next]_vars PROVE Typed'
  OBVIOUS
<1>1. CASE HandEdit
  <2>1. PICK r \in 0 .. file.rev, v \in Values \union {Bad} :
          file' = [file EXCEPT !.rev = r, !.val = v] /\ Lands(file')
    BY <1>1 DEF HandEdit
  <2>2. file \in Content /\ file'.rev \in 0 .. MaxRevision /\ landed' \in BOOLEAN
    BY <2>1, ConfigurationAssumption DEF IInv, TypeOK, Typed, Content, Lands
  <2>3. file' \in Content
    BY <2>1, <2>2 DEF Content
  <2>4. edits' \in 0 .. MaxEdits
    BY <1>1, ConfigurationAssumption DEF HandEdit, IInv, TypeOK, Typed
  <2>5. late' \subseteq {"check", "backup"}
    BY <1>1 DEF HandEdit
  <2> QED
    BY <1>1, <2>2, <2>3, <2>4, <2>5 DEF HandEdit, IInv, TypeOK, Typed
<1>2. ASSUME NEW c \in Clients, Read(c) PROVE Typed'
  BY <1>2 DEF Read, IInv, TypeOK, Typed, disk, history, bounds
<1>3. ASSUME NEW c \in Clients, Save(c) PROVE Typed'
  BY <1>3 DEF Save, Begin, IInv, TypeOK, Typed, Operation, disk, stores, bounds
<1>4. ASSUME NEW c \in Clients, Restore(c) PROVE Typed'
  BY <1>4 DEF Restore, Begin, IInv, TypeOK, Typed, Operation, disk, stores, bounds
<1>5. ASSUME NEW c \in Clients, Upgrade(c) PROVE Typed'
  BY <1>5 DEF Upgrade, Begin, IInv, TypeOK, Typed, Operation, disk, stores, bounds
<1>6. ASSUME NEW c \in Clients, Conclude(c) PROVE Typed'
  BY <1>6 DEF Conclude, IInv, TypeOK, Typed, history, bounds
<1>7. CASE Gate
  <2>1. op \in Operation
    BY <1>7 DEF Gate, At, IInv, TypeOK, Typed, NoOp
  <2>2. op' = [op EXCEPT !.step = "locks"] \/ op' = NoOp
    BY <1>7 DEF Gate, To, Abort
  <2>3. op' = NoOp \/ op' \in Operation
    BY <2>1, <2>2 DEF Operation
  <2>4. UNCHANGED <<disk, stores, history, bounds>>
    BY <1>7 DEF Gate, Abort, stores, history
  <2> QED
    BY <2>3, <2>4 DEF IInv, TypeOK, Typed, disk, stores, history, bounds
<1>8. CASE OwnerLocks
  BY <1>8, ConfigurationAssumption
  DEF OwnerLocks, At, To, Abort, IInv, TypeOK, OperationOK, Typed, Operation, NoOp,
      disk, history, bounds
<1>9. CASE Prepare
  <2>1. op \in Operation
    BY <1>9 DEF Prepare, At, IInv, TypeOK, Typed, NoOp
  <2>2. op' \in Operation
    BY <1>9, <2>1 DEF Prepare, To, Operation
  <2>3. receipt' \in [phase : {"prepared", "committed"}, to : Content]
    BY <1>9, <2>1 DEF Prepare, Operation
  <2> QED
    BY <1>9, <2>2, <2>3 DEF Prepare, IInv, TypeOK, Typed, bounds
<1>10. CASE Source
  BY <1>10 DEF Source, At, IInv, TypeOK, Typed, Operation, NoOp, disk, stores, bounds
<1>11. CASE Backup
  BY <1>11 DEF Backup, At, To, IInv, TypeOK, Typed, Operation, NoOp, history, bounds
<1>12. CASE Rename
  <2>1. op \in Operation
    BY <1>12 DEF Rename, At, IInv, TypeOK, Typed, NoOp
  <2>2. op' = NoOp \/ op' \in Operation
    BY <1>12, <2>1 DEF Rename, To, Operation
  <2>3. op.to \in Content
    BY <2>1 DEF Operation
  <2>4. view' \in [Clients -> Content]
    BY <1>12, <2>3 DEF Rename, IInv, TypeOK, Typed
  <2>5. runtime' \in [Owners -> Runtime]
    <3>1. CASE op.kind = "bump"
      <4>1. op.by \in Owners
        BY <3>1 DEF IInv, OperationOK
      <4>2. runtime' = [runtime EXCEPT ![op.by] =
              [@ EXCEPT !.candidate = op.to, !.observed = op.to, !.reload = "apply"]]
        BY <1>12, <3>1 DEF Rename
      <4>3. [runtime[op.by] EXCEPT !.candidate = op.to, !.observed = op.to, !.reload = "apply"]
              \in Runtime
        <5>1. runtime[op.by] \in Runtime
          BY <4>1 DEF IInv, TypeOK, Typed
        <5> QED
          BY <2>3, <5>1 DEF Runtime
      <4> QED
        BY <4>1, <4>2, <4>3 DEF IInv, TypeOK, Typed
    <3> QED
      BY <1>12, <3>1 DEF Rename, IInv, TypeOK, Typed
  <2>6. landed' \in BOOLEAN
    BY <1>12 DEF Rename, Lands
  <2> QED
    BY <1>12, <2>2, <2>3, <2>4, <2>5, <2>6 DEF Rename, IInv, TypeOK, Typed, bounds
<1>13. CASE Commit
  BY <1>13 DEF Commit, At, IInv, TypeOK, Typed, Operation, NoOp, history, bounds
<1>14. CASE ClientCrash
  BY <1>14, ConfigurationAssumption DEF ClientCrash, IInv, TypeOK, Typed, disk, history
<1>15. ASSUME NEW o \in Owners, OwnerReads(o) PROVE Typed'
  BY <1>15
  DEF OwnerReads, IInv, TypeOK, Typed, Content, Runtime, Fresh, disk, history, bounds
<1>16. ASSUME NEW o \in Owners, EnterGate(o) PROVE Typed'
  BY <1>16 DEF EnterGate, IInv, TypeOK, Typed, disk, history, bounds
<1>17. ASSUME NEW o \in Owners, TakeLock(o) PROVE Typed'
  BY <1>17 DEF TakeLock, IInv, TypeOK, Typed, disk, history, bounds
<1>18. ASSUME NEW o \in Owners, OwnerStops(o) PROVE Typed'
  BY <1>18, ConfigurationAssumption
  DEF OwnerStops, IInv, TypeOK, Typed, Content, Versions, Runtime, Fresh, Blank,
      disk, history, bounds
<1>19. ASSUME NEW o \in Owners, Reload(o) PROVE Typed'
  <2>1. runtime' = [runtime EXCEPT ![o] =
          [@ EXCEPT !.observed = file, !.candidate = file,
                    !.reload = IF Skipped(o) THEN "idle" ELSE "apply"]]
    BY <1>19 DEF Reload
  <2>2. [runtime[o] EXCEPT !.observed = file, !.candidate = file,
                           !.reload = IF Skipped(o) THEN "idle" ELSE "apply"] \in Runtime
    BY DEF IInv, TypeOK, Typed, Runtime
  <2> QED
    BY <1>19, <2>1, <2>2 DEF Reload, IInv, TypeOK, Typed, disk, history, bounds
<1>20. ASSUME NEW o \in Owners, ReloadBumps(o) PROVE Typed'
  <2>1. runtime' = [runtime EXCEPT ![o] = [@ EXCEPT !.reload = "bump"]]
    BY <1>20 DEF ReloadBumps
  <2>2. [runtime[o] EXCEPT !.reload = "bump"] \in Runtime
    BY DEF IInv, TypeOK, Typed, Runtime
  <2>3. op' \in Operation /\ late' = {}
    BY <1>20 DEF ReloadBumps, Begin, Operation, IInv, TypeOK, Typed
  <2> QED
    BY <1>20, <2>1, <2>2, <2>3 DEF ReloadBumps, IInv, TypeOK, Typed, disk, bounds
<1>21. ASSUME NEW o \in Owners, NEW ok \in BOOLEAN, Applies(o, ok) PROVE Typed'
  <2> DEFINE run == IF ok THEN runtime[o].candidate.val ELSE runtime[o].running
             adopt == IF ok THEN runtime[o].candidate ELSE runtime[o].adopted
             known == ok \/ runtime[o].applied
             failed == ~ok
  <2>1. runtime' = [runtime EXCEPT ![o] =
          [@ EXCEPT !.reload = "idle", !.running = run, !.adopted = adopt,
                    !.applied = known, !.error = failed]]
    BY <1>21 DEF Applies
  <2>2. /\ run \in Values \union {Bad} /\ adopt \in Content
        /\ known \in BOOLEAN /\ failed \in BOOLEAN
    BY DEF IInv, TypeOK, Typed, Runtime, Content
  <2>3. runtime[o] \in Runtime
    BY DEF IInv, TypeOK, Typed
  <2> HIDE DEF run, adopt, known, failed
  <2>4. [runtime[o] EXCEPT !.reload = "idle", !.running = run, !.adopted = adopt,
                           !.applied = known, !.error = failed] \in Runtime
    BY <2>2, <2>3 DEF Runtime
  <2>5. UNCHANGED <<disk, op, view, stage, history, bounds>>
    BY <1>21 DEF Applies
  <2>6. runtime' \in [Owners -> Runtime]
    BY <2>1, <2>4 DEF IInv, TypeOK, Typed
  <2> QED
    BY <2>5, <2>6 DEF IInv, TypeOK, Typed, disk, history, bounds
<1>22. CASE UNCHANGED vars
  <2>1. UNCHANGED <<vars>>
    BY <1>22 DEF vars, disk, stores, history, bounds
  <2> QED
    BY <2>1 DEF IInv, TypeOK, Typed, vars, disk, history, bounds
<1> QED
  BY <1>1, <1>2, <1>3, <1>4, <1>5, <1>6, <1>7, <1>8, <1>9, <1>10, <1>11, <1>12, <1>13, <1>14, <1>15, <1>16, <1>17, <1>18, <1>19, <1>20, <1>21, <1>22
  DEF Next, Storing

\* A reload waits for its own change of the file until the rename, or until
\* its process ends; no other operation makes it wait.
LEMMA WaitsStep == IInv /\ [Next]_vars => ReloadWaits'
<1> SUFFICES ASSUME IInv, [Next]_vars PROVE ReloadWaits'
  OBVIOUS
<1>1. ASSUME NEW c \in Clients, Save(c) PROVE ReloadWaits'
  BY <1>1 DEF Save, Begin, Idle, IInv, TypeOK, ReloadWaits, stores
<1>2. ASSUME NEW c \in Clients, Restore(c) PROVE ReloadWaits'
  BY <1>2 DEF Restore, Begin, Idle, IInv, TypeOK, ReloadWaits, stores
<1>3. ASSUME NEW c \in Clients, Upgrade(c) PROVE ReloadWaits'
  BY <1>3 DEF Upgrade, Begin, Idle, IInv, TypeOK, ReloadWaits, stores
<1>4. CASE Gate
  BY <1>4
  DEF Gate, At, To, Abort, IInv, TypeOK, OperationOK, Typed, ReloadWaits, Operation,
      NoOp
<1>5. CASE OwnerLocks
  BY <1>5
  DEF OwnerLocks, At, To, Abort, IInv, TypeOK, OperationOK, Typed, ReloadWaits,
      Operation, NoOp
<1>6. CASE Prepare
  BY <1>6 DEF Prepare, At, To, IInv, TypeOK, ReloadWaits
<1>7. CASE Source
  BY <1>7 DEF Source, At, IInv, TypeOK, ReloadWaits, stores
<1>8. CASE Backup
  BY <1>8 DEF Backup, At, To, IInv, TypeOK, ReloadWaits
<1>9. CASE Rename
  BY <1>9 DEF Rename, At, To, IInv, TypeOK, Typed, ReloadWaits, Operation, NoOp
<1>10. CASE Commit
  BY <1>10 DEF Commit, At, IInv, TypeOK, OperationOK, ReloadWaits, NoOp
<1>11. CASE ClientCrash
  BY <1>11, ConfigurationAssumption DEF ClientCrash, IInv, TypeOK, ReloadWaits, NoOp
<1>12. ASSUME NEW o \in Owners, OwnerReads(o) PROVE ReloadWaits'
  BY <1>12 DEF OwnerReads, IInv, TypeOK, ReloadWaits
<1>13. ASSUME NEW o \in Owners, EnterGate(o) PROVE ReloadWaits'
  BY <1>13 DEF EnterGate, IInv, TypeOK, ReloadWaits
<1>14. ASSUME NEW o \in Owners, TakeLock(o) PROVE ReloadWaits'
  BY <1>14 DEF TakeLock, IInv, TypeOK, ReloadWaits, RuntimeOK
<1>15. ASSUME NEW o \in Owners, OwnerStops(o) PROVE ReloadWaits'
  BY <1>15 DEF OwnerStops, IInv, TypeOK, Typed, ReloadWaits, NoOp
<1>16. ASSUME NEW o \in Owners, Reload(o) PROVE ReloadWaits'
  BY <1>16 DEF Reload, IInv, TypeOK, Typed, ReloadWaits
<1>17. ASSUME NEW o \in Owners, ReloadBumps(o) PROVE ReloadWaits'
  BY <1>17 DEF ReloadBumps, Begin, Idle, IInv, TypeOK, Typed, ReloadWaits
<1>18. ASSUME NEW o \in Owners, NEW ok \in BOOLEAN, Applies(o, ok) PROVE ReloadWaits'
  BY <1>18 DEF Applies, IInv, TypeOK, Typed, ReloadWaits
<1>19. CASE HandEdit \/ (\E c \in Clients : Read(c)) \/ (\E c \in Clients : Conclude(c))
         \/ UNCHANGED vars
  <2>1. UNCHANGED <<op, stage, runtime>>
    BY <1>19 DEF HandEdit, Read, Conclude, vars
  <2> QED
    BY <2>1 DEF IInv, TypeOK, ReloadWaits
<1> QED
  BY <1>1, <1>2, <1>3, <1>4, <1>5, <1>6, <1>7, <1>8, <1>9, <1>10, <1>11, <1>12, <1>13, <1>14, <1>15, <1>16, <1>17, <1>18, <1>19
  DEF Next, Storing

\* Each operation goes through its own steps, and only an owner bumps.
LEMMA OperationStep == IInv /\ [Next]_vars => OperationOK'
<1> SUFFICES ASSUME IInv, [Next]_vars PROVE OperationOK'
  OBVIOUS
<1>1. ASSUME NEW c \in Clients, Save(c) PROVE OperationOK'
  BY <1>1, ConfigurationAssumption DEF Save, Begin, OperationOK
<1>2. ASSUME NEW c \in Clients, Restore(c) PROVE OperationOK'
  BY <1>2, ConfigurationAssumption DEF Restore, Begin, OperationOK
<1>3. ASSUME NEW c \in Clients, Upgrade(c) PROVE OperationOK'
  BY <1>3, ConfigurationAssumption DEF Upgrade, Begin, OperationOK
<1>4. CASE Gate
  BY <1>4, ConfigurationAssumption
  DEF Gate, At, To, Abort, IInv, TypeOK, Typed, OperationOK, Operation, NoOp
<1>5. CASE OwnerLocks
  BY <1>5, ConfigurationAssumption
  DEF OwnerLocks, At, To, Abort, IInv, TypeOK, Typed, OperationOK, Operation, NoOp
<1>6. CASE Prepare
  BY <1>6 DEF Prepare, At, To, IInv, OperationOK
<1>7. CASE Source
  BY <1>7 DEF Source, At, IInv, OperationOK
<1>8. CASE Backup
  BY <1>8 DEF Backup, At, To, IInv, OperationOK
<1>9. CASE Rename
  BY <1>9, ConfigurationAssumption
  DEF Rename, At, To, IInv, TypeOK, Typed, OperationOK, Operation, NoOp
<1>10. CASE Commit
  BY <1>10, ConfigurationAssumption DEF Commit, At, OperationOK, NoOp
<1>11. CASE ClientCrash
  BY <1>11, ConfigurationAssumption DEF ClientCrash, OperationOK, NoOp
<1>12. ASSUME NEW o \in Owners, OwnerStops(o) PROVE OperationOK'
  BY <1>12, ConfigurationAssumption DEF OwnerStops, IInv, OperationOK, NoOp
<1>13. ASSUME NEW o \in Owners, ReloadBumps(o) PROVE OperationOK'
  BY <1>13 DEF ReloadBumps, Begin, OperationOK
<1>14. CASE HandEdit \/ (\E c \in Clients : Read(c)) \/ (\E c \in Clients : Conclude(c))
         \/ (\E o \in Owners : OwnerReads(o)) \/ (\E o \in Owners : EnterGate(o)) \/ (\E o \in Owners : TakeLock(o))
         \/ (\E o \in Owners : Reload(o)) \/ (\E o \in Owners, ok \in BOOLEAN : Applies(o, ok)) \/ UNCHANGED vars
  <2>1. UNCHANGED <<op>>
    BY <1>14
    DEF HandEdit, Read, Conclude, OwnerReads, EnterGate, TakeLock, Reload, Applies,
        vars
  <2> QED
    BY <2>1 DEF IInv, OperationOK
<1> QED
  BY <1>1, <1>2, <1>3, <1>4, <1>5, <1>6, <1>7, <1>8, <1>9, <1>10, <1>11, <1>12, <1>13, <1>14
  DEF Next, Storing

\* Once an upgrade holds the gate no process passes it; once it has tried
\* the owners' locks none can be running.
LEMMA UpgradeStep == IInv /\ [Next]_vars => UpgradeAlone'
<1> SUFFICES ASSUME IInv, [Next]_vars PROVE UpgradeAlone'
  OBVIOUS
<1>1. ASSUME NEW c \in Clients, Save(c) PROVE UpgradeAlone'
  BY <1>1 DEF Save, Begin, UpgradeAlone
<1>2. ASSUME NEW c \in Clients, Restore(c) PROVE UpgradeAlone'
  BY <1>2 DEF Restore, Begin, UpgradeAlone
<1>3. ASSUME NEW c \in Clients, Upgrade(c) PROVE UpgradeAlone'
  BY <1>3 DEF Upgrade, Begin, UpgradeAlone
<1>4. CASE Gate
  BY <1>4 DEF Gate, At, To, Abort, IInv, TypeOK, Typed, UpgradeAlone, Operation, NoOp
<1>5. CASE OwnerLocks
  BY <1>5
  DEF OwnerLocks, At, To, Abort, IInv, TypeOK, Typed, UpgradeAlone, Operation, NoOp
<1>6. CASE Prepare
  BY <1>6 DEF Prepare, At, To, IInv, UpgradeAlone
<1>7. CASE Source
  BY <1>7 DEF Source, At, IInv, UpgradeAlone, stores
<1>8. CASE Backup
  BY <1>8 DEF Backup, At, To, IInv, UpgradeAlone
<1>9. CASE Rename
  BY <1>9 DEF Rename, At, To, IInv, UpgradeAlone, NoOp
<1>10. CASE Commit
  BY <1>10 DEF Commit, At, UpgradeAlone, NoOp
<1>11. CASE ClientCrash
  BY <1>11 DEF ClientCrash, UpgradeAlone, NoOp
<1>12. ASSUME NEW o \in Owners, OwnerReads(o) PROVE UpgradeAlone'
  BY <1>12 DEF OwnerReads, IInv, UpgradeAlone
<1>13. ASSUME NEW o \in Owners, EnterGate(o) PROVE UpgradeAlone'
  BY <1>13 DEF EnterGate, Upgrading, IInv, UpgradeAlone
<1>14. ASSUME NEW o \in Owners, TakeLock(o) PROVE UpgradeAlone'
  BY <1>14 DEF TakeLock, IInv, UpgradeAlone
<1>15. ASSUME NEW o \in Owners, OwnerStops(o) PROVE UpgradeAlone'
  BY <1>15 DEF OwnerStops, IInv, UpgradeAlone, NoOp
<1>16. ASSUME NEW o \in Owners, ReloadBumps(o) PROVE UpgradeAlone'
  BY <1>16 DEF ReloadBumps, Begin, UpgradeAlone
<1>17. CASE HandEdit \/ (\E c \in Clients : Read(c)) \/ (\E c \in Clients : Conclude(c))
         \/ (\E o \in Owners : Reload(o)) \/ (\E o \in Owners, ok \in BOOLEAN : Applies(o, ok)) \/ UNCHANGED vars
  <2>1. UNCHANGED <<op, stage>>
    BY <1>17 DEF HandEdit, Read, Conclude, Reload, Applies, vars
  <2> QED
    BY <2>1 DEF IInv, UpgradeAlone
<1> QED
  BY <1>1, <1>2, <1>3, <1>4, <1>5, <1>6, <1>7, <1>8, <1>9, <1>10, <1>11, <1>12, <1>13, <1>14, <1>15, <1>16, <1>17
  DEF Next, Storing

\* What an operation has read stays true while it holds the lock, but for
\* the editor, and it renames only after the backup.
LEMMA ReadingsStep == IInv /\ [Next]_vars => ReadingsHold'
<1> SUFFICES ASSUME IInv, [Next]_vars PROVE ReadingsHold'
  OBVIOUS
<1>1. CASE HandEdit
  BY <1>1, ConfigurationAssumption
  DEF HandEdit, Idle, IInv, TypeOK, Typed, ReadingsHold, Operation, NoOp
<1>2. ASSUME NEW c \in Clients, Read(c) PROVE ReadingsHold'
  BY <1>2 DEF Read, IInv, ReadingsHold, Idle, disk, history
<1>3. ASSUME NEW c \in Clients, Save(c) PROVE ReadingsHold'
  BY <1>3 DEF Save, Begin, Expected, ReadingsHold, disk, stores
<1>4. ASSUME NEW c \in Clients, Restore(c) PROVE ReadingsHold'
  BY <1>4 DEF Restore, Begin, Expected, ReadingsHold, disk, stores
<1>5. ASSUME NEW c \in Clients, Upgrade(c) PROVE ReadingsHold'
  BY <1>5 DEF Upgrade, Begin, Expected, ReadingsHold, disk, stores
<1>6. CASE Gate
  BY <1>6, ConfigurationAssumption
  DEF Gate, At, To, Abort, IInv, TypeOK, Typed, ReadingsHold, Idle, Operation, NoOp,
      disk, history
<1>7. CASE OwnerLocks
  BY <1>7, ConfigurationAssumption
  DEF OwnerLocks, At, To, Abort, IInv, TypeOK, Typed, ReadingsHold, Idle, Operation,
      NoOp, disk, history
<1>8. CASE Prepare
  BY <1>8 DEF Prepare, At, To, IInv, ReadingsHold, Idle
<1>9. CASE Source
  BY <1>9 DEF Source, At, IInv, ReadingsHold, disk, stores
<1>10. CASE Backup
  BY <1>10 DEF Backup, At, To, IInv, ReadingsHold, Idle, history
<1>11. CASE Rename
  BY <1>11, ConfigurationAssumption
  DEF Rename, At, To, IInv, TypeOK, Typed, ReadingsHold, Idle, Operation, NoOp
<1>12. CASE Commit
  BY <1>12, ConfigurationAssumption DEF Commit, At, ReadingsHold, Idle, NoOp
<1>13. CASE ClientCrash
  BY <1>13, ConfigurationAssumption DEF ClientCrash, Idle, ReadingsHold, NoOp
<1>14. ASSUME NEW o \in Owners, OwnerStops(o) PROVE ReadingsHold'
  BY <1>14, ConfigurationAssumption
  DEF OwnerStops, IInv, ReadingsHold, Idle, NoOp, disk, history
<1>15. ASSUME NEW o \in Owners, ReloadBumps(o) PROVE ReadingsHold'
  BY <1>15, ConfigurationAssumption DEF ReloadBumps, Begin, ReadingsHold
<1>16. CASE (\E c \in Clients : Conclude(c)) \/ (\E o \in Owners : OwnerReads(o)) \/ (\E o \in Owners : EnterGate(o))
         \/ (\E o \in Owners : TakeLock(o)) \/ (\E o \in Owners : Reload(o)) \/ (\E o \in Owners, ok \in BOOLEAN : Applies(o, ok))
         \/ UNCHANGED vars
  <2>1. UNCHANGED <<op, file, backups, late, view>>
    BY <1>16
    DEF Conclude, OwnerReads, EnterGate, TakeLock, Reload, Applies, vars, disk,
        history
  <2> QED
    BY <2>1 DEF IInv, ReadingsHold, Idle
<1> QED
  BY <1>1, <1>2, <1>3, <1>4, <1>5, <1>6, <1>7, <1>8, <1>9, <1>10, <1>11, <1>12, <1>13, <1>14, <1>15, <1>16
  DEF Next, Storing

\* The receipt never runs ahead of the file: through crashes, restores and
\* hand edits, what is committed has been in place.
LEMMA ReceiptStep == IInv /\ [Next]_vars => (ReceiptIsTrue /\ ReceiptFollows)'
<1> SUFFICES ASSUME IInv, [Next]_vars PROVE (ReceiptIsTrue /\ ReceiptFollows)'
  OBVIOUS
<1>1. CASE HandEdit
  BY <1>1
  DEF HandEdit, Lands, IInv, TypeOK, Typed, ReceiptIsTrue, ReceiptFollows, Content
<1>2. ASSUME NEW c \in Clients, Save(c) PROVE (ReceiptIsTrue /\ ReceiptFollows)'
  BY <1>2 DEF Save, Begin, IInv, ReceiptIsTrue, ReceiptFollows, disk, stores
<1>3. ASSUME NEW c \in Clients, Restore(c) PROVE (ReceiptIsTrue /\ ReceiptFollows)'
  BY <1>3 DEF Restore, Begin, IInv, ReceiptIsTrue, ReceiptFollows, disk, stores
<1>4. ASSUME NEW c \in Clients, Upgrade(c) PROVE (ReceiptIsTrue /\ ReceiptFollows)'
  BY <1>4 DEF Upgrade, Begin, IInv, ReceiptIsTrue, ReceiptFollows, Content, disk, stores
<1>5. ASSUME NEW c \in Clients, Conclude(c) PROVE (ReceiptIsTrue /\ ReceiptFollows)'
  BY <1>5 DEF Conclude, Planned, IInv, ReceiptIsTrue, ReceiptFollows, NoReceipt, history
<1>6. CASE Gate
  BY <1>6
  DEF Gate, At, To, Abort, IInv, TypeOK, Typed, ReceiptIsTrue, ReceiptFollows,
      Operation, NoOp, disk, history
<1>7. CASE OwnerLocks
  BY <1>7
  DEF OwnerLocks, At, To, Abort, IInv, TypeOK, Typed, ReceiptIsTrue, ReceiptFollows,
      Operation, NoOp, disk, history
<1>8. CASE Prepare
  BY <1>8
  DEF Prepare, At, To, IInv, TypeOK, Typed, OperationOK, ReceiptIsTrue,
      ReceiptFollows, Operation, NoOp, NoReceipt
<1>9. CASE Source
  BY <1>9 DEF Source, At, IInv, OperationOK, ReceiptIsTrue, ReceiptFollows, disk, stores
<1>10. CASE Backup
  BY <1>10 DEF Backup, At, To, IInv, ReceiptIsTrue, ReceiptFollows, history
<1>11. CASE Rename
  <2>1. op \in Operation
    BY <1>11 DEF Rename, At, IInv, TypeOK, Typed, NoOp
  <2>2. file' = op.to /\ receipt' = receipt
        /\ landed' = (landed \/ (receipt # NoReceipt /\ receipt.to = op.to))
    BY <1>11 DEF Rename, Lands
  <2>3. ReceiptIsTrue' /\ (receipt' # NoReceipt /\ receipt'.to = file' => landed')
    BY <2>2 DEF IInv, ReceiptIsTrue, ReceiptFollows
  <2>4. CASE op.kind = "upgrade"
    <3>1. op.to.ver = 2 /\ receipt # NoReceipt /\ receipt.to = op.to
      BY <1>11, <2>4 DEF Rename, At, IInv, ReceiptFollows
    <3>2. op' = [op EXCEPT !.step = "commit"]
      BY <1>11, <2>4 DEF Rename, To
    <3>3. op'.to = op.to /\ op'.step = "commit"
      BY <2>1, <3>2 DEF Operation
    <3> QED
      BY <2>2, <2>3, <3>1, <3>3 DEF ReceiptFollows
  <2>5. CASE op.kind # "upgrade"
    <3>1. op' = NoOp
      BY <1>11, <2>5 DEF Rename
    <3> QED
      BY <2>3, <3>1 DEF ReceiptFollows, NoOp
  <2> QED
    BY <2>4, <2>5
<1>12. CASE Commit
  BY <1>12
  DEF Commit, At, IInv, TypeOK, Typed, OperationOK, ReceiptIsTrue, ReceiptFollows,
      Operation, NoOp, history
<1>13. CASE ClientCrash
  BY <1>13 DEF ClientCrash, IInv, ReceiptIsTrue, ReceiptFollows, NoOp, disk, history
<1>14. ASSUME NEW o \in Owners, OwnerStops(o) PROVE (ReceiptIsTrue /\ ReceiptFollows)'
  BY <1>14 DEF OwnerStops, IInv, ReceiptIsTrue, ReceiptFollows, NoOp, disk, history
<1>15. ASSUME NEW o \in Owners, ReloadBumps(o) PROVE (ReceiptIsTrue /\ ReceiptFollows)'
  BY <1>15 DEF ReloadBumps, Begin, IInv, ReceiptIsTrue, ReceiptFollows, disk
<1>16. CASE (\E c \in Clients : Read(c)) \/ (\E o \in Owners : OwnerReads(o)) \/ (\E o \in Owners : EnterGate(o))
         \/ (\E o \in Owners : TakeLock(o)) \/ (\E o \in Owners : Reload(o)) \/ (\E o \in Owners, ok \in BOOLEAN : Applies(o, ok))
         \/ UNCHANGED vars
  <2>1. UNCHANGED <<op, file, receipt, landed>>
    BY <1>16
    DEF Read, OwnerReads, EnterGate, TakeLock, Reload, Applies, vars, disk, history
  <2> QED
    BY <2>1 DEF IInv, ReceiptIsTrue, ReceiptFollows, NoReceipt
<1> QED
  BY <1>1, <1>2, <1>3, <1>4, <1>5, <1>6, <1>7, <1>8, <1>9, <1>10, <1>11, <1>12, <1>13, <1>14, <1>15, <1>16
  DEF Next, Storing

\* A runtime records a content as adopted exactly when its consumer took it.
LEMMA RuntimeStep == IInv /\ [Next]_vars => RuntimeOK'
<1> SUFFICES ASSUME IInv, [Next]_vars PROVE RuntimeOK'
  OBVIOUS
<1>1. CASE Rename
  BY <1>1 DEF Rename, At, To, IInv, TypeOK, Typed, RuntimeOK, Runtime
<1>2. ASSUME NEW o \in Owners, OwnerReads(o) PROVE RuntimeOK'
  BY <1>2 DEF OwnerReads, IInv, RuntimeOK, Fresh
<1>3. ASSUME NEW o \in Owners, EnterGate(o) PROVE RuntimeOK'
  BY <1>3 DEF EnterGate, IInv, RuntimeOK
<1>4. ASSUME NEW o \in Owners, TakeLock(o) PROVE RuntimeOK'
  BY <1>4 DEF TakeLock, IInv, RuntimeOK
<1>5. ASSUME NEW o \in Owners, OwnerStops(o) PROVE RuntimeOK'
  BY <1>5 DEF OwnerStops, IInv, TypeOK, Typed, RuntimeOK, Fresh, Blank
<1>6. ASSUME NEW o \in Owners, Reload(o) PROVE RuntimeOK'
  BY <1>6 DEF Reload, IInv, TypeOK, Typed, RuntimeOK
<1>7. ASSUME NEW o \in Owners, ReloadBumps(o) PROVE RuntimeOK'
  BY <1>7 DEF ReloadBumps, Begin, IInv, RuntimeOK
<1>8. ASSUME NEW o \in Owners, NEW ok \in BOOLEAN, Applies(o, ok) PROVE RuntimeOK'
  BY <1>8 DEF Applies, IInv, TypeOK, Typed, RuntimeOK
<1>9. CASE HandEdit \/ (\E c \in Clients : Read(c)) \/ (\E c \in Clients : Save(c))
         \/ (\E c \in Clients : Restore(c)) \/ (\E c \in Clients : Upgrade(c)) \/ (\E c \in Clients : Conclude(c))
         \/ Gate \/ OwnerLocks \/ Prepare
         \/ Source \/ Backup \/ Commit
         \/ ClientCrash \/ UNCHANGED vars
  <2>1. UNCHANGED <<stage, runtime>>
    BY <1>9
    DEF HandEdit, Read, Save, Restore, Upgrade, Conclude, Gate, OwnerLocks, Prepare,
        Source, Backup, Commit, ClientCrash, Begin, At, To, Abort, vars, stores
  <2> QED
    BY <2>1 DEF IInv, RuntimeOK
<1> QED
  BY <1>1, <1>2, <1>3, <1>4, <1>5, <1>6, <1>7, <1>8, <1>9 DEF Next, Storing

\* Every step keeps the inductive invariant.
LEMMA Step == IInv /\ [Next]_vars => IInv'
BY TypedStep, WaitsStep, OperationStep, UpgradeStep, ReadingsStep, ReceiptStep, RuntimeStep
DEF IInv, TypeOK

\* The inductive invariant holds of all behaviours: store, owners, reload and
\* editor together (store.ts, owner.ts, runtime.ts).
THEOREM ConfigurationSafety == Spec => []IInv
BY InitOK, Step, PTL DEF Spec

\* Types, and a reload that waits for nobody else's change.
THEOREM TypesHold == Spec => []TypeOK
<1>1. IInv => TypeOK
  BY DEF IInv
<1> QED
  BY <1>1, ConfigurationSafety, PTL

\* No process runs, or is between the gate and its lock, while an upgrade
\* prepares and publishes, for any number of owners (owner.ts).
THEOREM UpgradeRunsAlone == Spec => []UpgradeExcludesConsumers
<1>1. IInv => UpgradeExcludesConsumers
  BY DEF IInv, UpgradeAlone, UpgradeExcludesConsumers
<1> QED
  BY <1>1, ConfigurationSafety, PTL

\* A committed receipt tells of a content that has been in place, however
\* often upgrades were cut off and repeated (store.ts, upgrade()).
THEOREM CommittedIsTrue == Spec => []ReceiptIsTrue
<1>1. IInv => ReceiptIsTrue
  BY DEF IInv
<1> QED
  BY <1>1, ConfigurationSafety, PTL

\* What is reported as applied is in use (runtime.ts, status()).
THEOREM AppliedIsTrue == Spec => []StatusIsTrue
<1>1. IInv => StatusIsTrue
  BY DEF IInv, RuntimeOK, StatusIsTrue, Status
<1> QED
  BY <1>1, ConfigurationSafety, PTL

\* The file is replaced by the editor or by a rename, by nothing else.
LEMMA OnlyRename ==
  ASSUME IInv, [Next]_vars, Renames
  PROVE  Rename
<1>1. ASSUME HandEdit PROVE FALSE
  <2>1. edits \in Nat /\ edits' = edits + 1 /\ edits' = edits
    BY <1>1, ConfigurationAssumption DEF HandEdit, Renames, IInv, TypeOK, Typed
  <2> QED
    BY <2>1
<1>2. file' # file
  BY DEF Renames
<1>3. ASSUME NEW c \in Clients, Read(c) \/ Save(c) \/ Restore(c) \/ Upgrade(c) \/ Conclude(c)
      PROVE  FALSE
  BY <1>2, <1>3 DEF Read, Save, Restore, Upgrade, Conclude, disk
<1>4. ASSUME Gate \/ OwnerLocks \/ Prepare \/ Source \/ Backup \/ Commit \/ ClientCrash
      PROVE  FALSE
  BY <1>2, <1>4
  DEF Gate, OwnerLocks, Abort, Prepare, Source, Backup, Commit, ClientCrash, disk
<1>5. ASSUME NEW o \in Owners,
             \/ OwnerReads(o) \/ EnterGate(o) \/ TakeLock(o) \/ OwnerStops(o)
             \/ Reload(o) \/ ReloadBumps(o) \/ \E ok \in BOOLEAN : Applies(o, ok)
      PROVE  FALSE
  BY <1>2, <1>5
  DEF OwnerReads, EnterGate, TakeLock, OwnerStops, Reload, ReloadBumps, Applies, disk
<1> QED
  BY <1>1, <1>2, <1>3, <1>4, <1>5 DEF Next, Storing, vars, disk

\* Nothing is lost: what a rename replaces is in the backups, unless the
\* editor came after the reading (store.ts, publish()).
THEOREM NothingIsLost == Spec => NothingLost
<1>1. ASSUME IInv, [Next]_vars, Renames
      PROVE  file \in backups \/ "backup" \in late
  <2>1. Rename
    BY <1>1, OnlyRename
  <2> QED
    BY <1>1, <2>1 DEF Rename, At, IInv, ReadingsHold, Idle
<1> QED
  BY <1>1, ConfigurationSafety, PTL DEF Spec, NothingLost

\* Nothing unseen is replaced: a client's rename comes over what the client
\* had read, unless the editor came after the check (store.ts, patch()).
THEOREM NothingUnseenIsReplaced == Spec => UnseenNotReplaced
<1>1. ASSUME IInv, [Next]_vars, Renames /\ op.by \in Clients
      PROVE  file = view[op.by] \/ "check" \in late
  <2>1. Rename
    BY <1>1, OnlyRename
  <2> QED
    BY <1>1, <2>1 DEF Rename, At, IInv, ReadingsHold
<1> QED
  BY <1>1, ConfigurationSafety, PTL DEF Spec, UnseenNotReplaced
================================================================================
