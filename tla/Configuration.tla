----------------------------- MODULE Configuration -----------------------------
(***************************************************************************)
(* The settings file of an instance, and everybody who touches it: the     *)
(* store's locked operations (patch, migrate, restoreBackup, upgrade), the *)
(* user's editor, which knows no lock, and the processes that run with the *)
(* file: they own their role, read the file when they start, and adopt it  *)
(* again when they are asked to reload.                                    *)
(*                                                                         *)
(* A content of the file is its revision, its structure and the value of   *)
(* one domain; its digest is the content itself. The value may be one the  *)
(* validation refuses. An operation of the store holds settings.lock from  *)
(* its first step to its last; an operation that does not get the lock     *)
(* throws and changes nothing, so `op' is the only one there is.           *)
(***************************************************************************)
EXTENDS Integers, FiniteSets, FiniteSetsExt

CONSTANTS
  Clients,      \* programs that read, and later save: ConfigurationDomain, the CLI
  Owners,       \* the processes that own a role: backend, app-server, ...
  Values,       \* valid values of the domain
  MaxRevision,  \* bound: revisions
  MaxEdits,     \* bound: changes by the user's editor
  MaxCrashes    \* bound: processes killed, also within an operation

Bad == "bad"    \* a value the validation refuses

ASSUME ConfigurationAssumption ==
  /\ Clients \cap Owners = {} /\ "nobody" \notin Clients \union Owners
  /\ Bad \notin Values /\ Values # {}
  /\ MaxRevision \in Nat \ {0} /\ MaxEdits \in Nat /\ MaxCrashes \in Nat

VARIABLES
  file,       \* settings.yaml
  backups,    \* config-backups
  receipt,    \* config-upgrade.json
  op,         \* the operation that holds settings.lock
  view,       \* what each client has read
  stage,      \* "down", "read", "gated" or "up": how far each owner is
  runtime,    \* the ConfigurationRuntime of each owner
  landed,     \* history: the content the receipt names has been in place
  late,       \* history: the readings of the operation the editor came after
  edits, crashes

disk == <<file, backups, receipt>>
history == <<landed, late>>
bounds == <<edits, crashes>>
stores == <<view, stage, runtime, landed>>
vars == <<disk, op, view, stage, runtime, history, bounds>>

Versions == {1, 2}   \* structures before and after the upgrade
Content == [rev : 0 .. MaxRevision, val : Values \union {Bad}, ver : Versions]

NoOp == [kind |-> "none", by |-> "nobody"]
Idle == op.kind = "none"
NoReceipt == [phase |-> "none"]

\* What an owner holds when it starts with content x: register().
Fresh(x) == [snapshot |-> x, observed |-> x, adopted |-> x, applied |-> x.val # Bad,
             running |-> x.val, error |-> FALSE, reload |-> "idle", candidate |-> x]

Blank == Fresh([rev |-> 0, val |-> Bad, ver |-> 1])   \* of a process that is down

Init ==
  /\ \E v \in Values : file = [rev |-> 1, val |-> v, ver |-> 1]
  /\ backups = {} /\ receipt = NoReceipt /\ op = NoOp
  /\ view = [c \in Clients |-> file]
  /\ stage = [o \in Owners |-> "down"]
  /\ runtime = [o \in Owners |-> Blank]
  /\ landed = FALSE /\ late = {}
  /\ edits = 0 /\ crashes = 0

Lands(x) == landed' = (landed \/ (receipt # NoReceipt /\ receipt.to = x))

(***************************************************************************)
(* The user's editor. What it saves while an operation has already read    *)
(* what it will back up is replaced unseen: the operation cannot know.     *)
(***************************************************************************)
HandEdit ==
  /\ edits < MaxEdits /\ edits' = edits + 1
  /\ \E r \in 0 .. file.rev, v \in Values \union {Bad} :
       /\ file' = [file EXCEPT !.rev = r, !.val = v]
       /\ file' # file
  /\ late' = IF Idle THEN {} ELSE {"check", "backup"}
  /\ Lands(file')
  /\ UNCHANGED <<backups, receipt, op, view, stage, runtime, crashes>>

(***************************************************************************)
(* Operations of the store.                                                *)
(***************************************************************************)
Read(c) ==
  /\ view[c] # file /\ op.by # c
  /\ view' = [view EXCEPT ![c] = file]
  /\ UNCHANGED <<disk, op, stage, runtime, history, bounds>>

\* Mutant: the revision is compared, the digest is not.
ExpectedRevision(x) == x.rev = file.rev
\* expectedRevision and expectedDigest.
Expected(x) == x = file

Begin(kind, by, to, step) ==
  /\ Idle
  /\ to \in Content
  /\ op' = [kind |-> kind, by |-> by, prev |-> file, to |-> to, step |-> step]
  /\ late' = {}

\* patch() and migrate(): a valid value replaces the one of the domain.
Save(c) ==
  /\ Expected(view[c])
  /\ \E v \in Values : Begin("save", c, [file EXCEPT !.rev = @ + 1, !.val = v], "source")
  /\ UNCHANGED <<disk, stores, bounds>>

\* restoreBackup(), with the preview's digests.
Restore(c) ==
  /\ Expected(view[c])
  /\ \E b \in backups :
       /\ b.val # Bad
       /\ Begin("restore", c, [b EXCEPT !.rev = Max({file.rev, b.rev}) + 1], "backup")
  /\ UNCHANGED <<disk, stores, bounds>>

\* upgrade(): there is something to convert.
Upgrade(c) ==
  /\ Expected(view[c]) /\ file.ver = 1 /\ file.val # Bad
  /\ Begin("upgrade", c, [file EXCEPT !.rev = @ + 1, !.ver = 2], "gate")
  /\ UNCHANGED <<disk, stores, bounds>>

\* The receipt of an upgrade that was cut off after it had published.
Planned(x) == receipt.phase = "prepared" /\ receipt.to = x

\* upgrade(): nothing is left to convert.
Conclude(c) ==
  /\ Idle /\ Expected(view[c]) /\ file.ver = 2 /\ file.val # Bad
  /\ Planned(file)
  /\ receipt' = [phase |-> "committed", to |-> file]
  /\ UNCHANGED <<file, backups, op, view, stage, runtime, history, bounds>>

At(step) == op.kind # "none" /\ op.step = step
To(step) == op' = [op EXCEPT !.step = step]
Abort == op' = NoOp /\ UNCHANGED <<disk, view, stage, runtime, history, bounds>>

\* withUpgradeGate(), exclusively.
Gate ==
  /\ At("gate")
  /\ \/ /\ \A o \in Owners : stage[o] # "gated"
        /\ To("locks")
        /\ UNCHANGED <<disk, view, stage, runtime, history, bounds>>
     \/ (\E o \in Owners : stage[o] = "gated") /\ Abort

\* Mutant: the locks of the owners are not tried.
NoOwnerLocks ==
  /\ At("locks") /\ To("prepare")
  /\ UNCHANGED <<disk, view, stage, runtime, history, bounds>>
\* withConfigurationUpgradeOwnership(): the lock of every owner.
OwnerLocks ==
  /\ At("locks")
  /\ \/ /\ \A o \in Owners : stage[o] # "up"
        /\ To("prepare")
        /\ UNCHANGED <<disk, view, stage, runtime, history, bounds>>
     \/ (\E o \in Owners : stage[o] = "up") /\ Abort

\* Mutant: the receipt says from the start what it says in the end.
PrepareCommitted ==
  /\ At("prepare") /\ To("backup")
  /\ receipt' = [phase |-> "committed", to |-> op.to]
  /\ landed' = FALSE
  /\ UNCHANGED <<file, backups, view, stage, runtime, late, bounds>>
\* recordUpgrade(): what the upgrade is about to publish.
Prepare ==
  /\ At("prepare") /\ To("backup")
  /\ receipt' = [phase |-> "prepared", to |-> op.to]
  /\ landed' = FALSE
  /\ UNCHANGED <<file, backups, view, stage, runtime, late, bounds>>

\* Mutant: the content that was checked stands for the one that is there.
SourceAsChecked ==
  /\ At("source") /\ To("backup")
  /\ late' = late \ {"backup"}
  /\ UNCHANGED <<disk, stores, bounds>>
\* patch() reads the file once more, for the backup.
Source ==
  /\ At("source")
  /\ op' = [op EXCEPT !.prev = file, !.step = "backup"]
  /\ late' = late \ {"backup"}
  /\ UNCHANGED <<disk, stores, bounds>>

Backup ==
  /\ At("backup") /\ To("rename")
  /\ backups' = backups \union {op.prev}
  /\ UNCHANGED <<file, receipt, view, stage, runtime, history, bounds>>

\* The rename; a client holds the new stamp, a reload goes on with its bump.
Rename ==
  /\ At("rename")
  /\ file' = op.to
  /\ Lands(op.to)
  /\ IF op.kind = "upgrade" THEN To("commit") ELSE op' = NoOp
  /\ view' = IF op.by \in Clients THEN [view EXCEPT ![op.by] = op.to] ELSE view
  /\ runtime' = IF op.kind = "bump"
                THEN [runtime EXCEPT ![op.by].candidate = op.to, ![op.by].observed = op.to,
                                     ![op.by].reload = "apply"]
                ELSE runtime
  /\ UNCHANGED <<backups, receipt, stage, late, bounds>>

Commit ==
  /\ At("commit") /\ op' = NoOp
  /\ receipt' = [phase |-> "committed", to |-> op.to]
  /\ UNCHANGED <<file, backups, view, stage, runtime, history, bounds>>

\* The program is killed: its locks go with it, its files stay.
ClientCrash ==
  /\ ~Idle /\ op.by \in Clients
  /\ crashes < MaxCrashes /\ crashes' = crashes + 1
  /\ op' = NoOp
  /\ UNCHANGED <<disk, view, stage, runtime, history, edits>>

(***************************************************************************)
(* The owners.                                                             *)
(***************************************************************************)
Upgrading == op.kind = "upgrade" /\ op.step # "gate"

\* initializeConfiguration() reads the file before the process owns its role.
OwnerReads(o) ==
  /\ stage[o] = "down"
  /\ stage' = [stage EXCEPT ![o] = "read"]
  /\ runtime' = [runtime EXCEPT ![o] = Fresh(file)]
  /\ UNCHANGED <<disk, op, view, history, bounds>>

\* acquireConfigurationOwner(): the shared gate, ...
EnterGate(o) ==
  /\ stage[o] = "read"
  /\ stage' = [stage EXCEPT ![o] = IF Upgrading THEN "down" ELSE "gated"]
  /\ UNCHANGED <<disk, op, view, runtime, history, bounds>>

\* ... and its own lock.
TakeLock(o) ==
  /\ stage[o] = "gated"
  /\ stage' = [stage EXCEPT ![o] = "up"]
  /\ UNCHANGED <<disk, op, view, runtime, history, bounds>>

\* Mutant: the lock of the settings outlives the process that held it.
OwnerStopsHolding(o) ==
  /\ stage[o] # "down"
  /\ stage' = [stage EXCEPT ![o] = "down"]
  /\ runtime' = [runtime EXCEPT ![o] = Blank]
  /\ UNCHANGED <<disk, op, view, history, bounds>>
\* The process ends or is killed: its locks go with it.
OwnerStops(o) ==
  /\ stage[o] # "down"
  /\ stage' = [stage EXCEPT ![o] = "down"]
  /\ runtime' = [runtime EXCEPT ![o] = Blank]
  /\ op' = IF op.by = o THEN NoOp ELSE op
  /\ UNCHANGED <<disk, view, history, bounds>>

(***************************************************************************)
(* ConfigurationRuntime.reload(); requests queue up, one runs at a time.   *)
(***************************************************************************)
Known(o) == {runtime[o].observed, runtime[o].snapshot, runtime[o].adopted}
MaxKnown(o) == Max({x.rev : x \in Known(o)})

\* A content nobody of this process has seen, and no new revision.
NeedsBump(o) == file.val # Bad /\ file \notin Known(o) /\ file.rev <= MaxKnown(o)

\* A process reads the structure it was started with, and no other.
Readable(o) == file.ver = runtime[o].snapshot.ver

\* The consumer is not asked.
Skipped(o) == file.val = Bad \/ (runtime[o].adopted = file /\ ~runtime[o].error)

Reload(o) ==
  /\ stage[o] = "up" /\ runtime[o].reload = "idle"
  /\ Readable(o) /\ ~NeedsBump(o)
  /\ runtime' = [runtime EXCEPT ![o].observed = file, ![o].candidate = file,
                                ![o].reload = IF Skipped(o) THEN "idle" ELSE "apply"]
  /\ UNCHANGED <<disk, op, view, stage, history, bounds>>

\* The content gets a revision of its own first; the file is read anew under
\* the lock, and is still the one the reload has read.
ReloadBumps(o) ==
  /\ stage[o] = "up" /\ runtime[o].reload = "idle"
  /\ Readable(o) /\ NeedsBump(o)
  /\ Begin("bump", o, [file EXCEPT !.rev = MaxKnown(o) + 1], "source")
  /\ runtime' = [runtime EXCEPT ![o].reload = "bump"]
  /\ UNCHANGED <<disk, view, stage, landed, bounds>>

\* Mutant: the error of an earlier attempt is kept to itself.
AppliesQuietly(o, ok) ==
  /\ stage[o] = "up" /\ runtime[o].reload = "apply"
  /\ runtime' = [runtime EXCEPT
       ![o].reload = "idle",
       ![o].running = IF ok THEN runtime[o].candidate.val ELSE @,
       ![o].adopted = runtime[o].candidate,
       ![o].applied = TRUE]
  /\ UNCHANGED <<disk, op, view, stage, history, bounds>>
\* The consumer of the domain takes the candidate, or throws and keeps what it has.
Applies(o, ok) ==
  /\ stage[o] = "up" /\ runtime[o].reload = "apply"
  /\ runtime' = [runtime EXCEPT
       ![o].reload = "idle",
       ![o].running = IF ok THEN runtime[o].candidate.val ELSE @,
       ![o].adopted = IF ok THEN runtime[o].candidate ELSE @,
       ![o].applied = ok \/ @,
       ![o].error = ~ok]
  /\ UNCHANGED <<disk, op, view, stage, history, bounds>>

Storing == Gate \/ OwnerLocks \/ Prepare \/ Source \/ Backup \/ Rename \/ Commit

Next ==
  \/ HandEdit
  \/ \E c \in Clients : Read(c) \/ Save(c) \/ Restore(c) \/ Upgrade(c) \/ Conclude(c)
  \/ Storing \/ ClientCrash
  \/ \E o \in Owners : \/ OwnerReads(o) \/ EnterGate(o) \/ TakeLock(o) \/ OwnerStops(o)
                       \/ Reload(o) \/ ReloadBumps(o)
                       \/ \E ok \in BOOLEAN : Applies(o, ok)

(***************************************************************************)
(* Properties.                                                             *)
(***************************************************************************)
Runtime == [snapshot : Content, observed : Content, adopted : Content, candidate : Content,
            applied : BOOLEAN, error : BOOLEAN, running : Values \union {Bad},
            reload : {"idle", "bump", "apply"}]
Operation == [kind : {"save", "restore", "upgrade", "bump"}, by : Clients \union Owners,
              prev : Content, to : Content,
              step : {"gate", "locks", "prepare", "source", "backup", "rename", "commit"}]

\* The reload of an owner waits for its own change of the file, and for no other.
ReloadWaits ==
  \A o \in Owners : (stage[o] = "up" /\ runtime[o].reload = "bump")
                      <=> (op.kind = "bump" /\ op.by = o)

Typed ==
  /\ file \in Content /\ backups \subseteq Content /\ landed \in BOOLEAN
  /\ receipt = NoReceipt \/ receipt \in [phase : {"prepared", "committed"}, to : Content]
  /\ op = NoOp \/ op \in Operation
  /\ view \in [Clients -> Content]
  /\ stage \in [Owners -> {"down", "read", "gated", "up"}]
  /\ runtime \in [Owners -> Runtime]
  /\ late \subseteq {"check", "backup"}
  /\ edits \in 0 .. MaxEdits /\ crashes \in 0 .. MaxCrashes

\* Every variable has its type, and an owner that bumps the revision waits for it.
TypeOK == Typed /\ ReloadWaits

\* While an upgrade prepares, saves and publishes, no process runs with the
\* file or is about to: neither the gate nor the owners' locks alone would do
\* (docs/deployment/configuration-upgrades.md).
UpgradeExcludesConsumers ==
  op.kind = "upgrade" /\ op.step \in {"prepare", "backup", "rename", "commit"}
    => \A o \in Owners : stage[o] \notin {"gated", "up"}

\* A committed receipt names a content that has been in place, wherever an
\* earlier attempt was cut off (store.ts, upgrade()).
ReceiptIsTrue == receipt.phase = "committed" => landed

\* status(): the state of the domain, when the file can be read.
Status(o) ==
  IF file.val = Bad \/ runtime[o].error THEN "error"
  ELSE IF runtime[o].applied /\ runtime[o].adopted.val = file.val THEN "applied"
  ELSE "restartRequired"

\* What a process reports as applied is what its consumer runs with, through
\* failed reloads, bad contents, and saves in between (runtime.ts, status()).
StatusIsTrue ==
  \A o \in Owners : stage[o] = "up" /\ Readable(o) /\ Status(o) = "applied"
    => runtime[o].running = file.val

\* What an operation replaces is in the backups, unless the editor saved it
\* after the operation had read what it backs up (store.ts, publish()).
Renames == file' # file /\ edits' = edits
NothingLost == [][Renames => file \in backups \/ "backup" \in late]_vars

\* A client replaces a content it has read, and never a change it does not
\* know, even one under the same revision; again but for what the editor
\* saves after the check (store.ts, patch(): expectedDigest).
UnseenNotReplaced ==
  [][Renames /\ op.by \in Clients => file = view[op.by] \/ "check" \in late]_vars

(***************************************************************************)
(* The inductive invariant.                                                *)
(***************************************************************************)
\* The steps of each operation, and whose it can be.
OperationOK ==
  /\ op.kind \in {"save", "bump"} => op.step \in {"source", "backup", "rename"}
  /\ op.kind = "restore" => op.step \in {"backup", "rename"}
  /\ op.kind = "upgrade" =>
       op.step \in {"gate", "locks", "prepare", "backup", "rename", "commit"}
  /\ op.kind = "bump" <=> op.by \in Owners

\* From the gate on no process is between the gate and its lock; from the
\* locks on none has its lock.
UpgradeAlone ==
  op.kind = "upgrade" /\ op.step # "gate" =>
    \A o \in Owners : /\ stage[o] # "gated"
                      /\ op.step # "locks" => stage[o] # "up"

\* What the operation has read is what is there, but for the editor.
ReadingsHold ==
  /\ ~Idle /\ op.step \notin {"source", "commit"} =>
       file = op.prev \/ "backup" \in late
  /\ ~Idle /\ op.step = "rename" => op.prev \in backups
  /\ op.by \in Clients /\ op.step # "commit" => file = view[op.by] \/ "check" \in late

\* The receipt follows the file: what it announces has not been in place
\* before, and is in place before it is committed.
ReceiptFollows ==
  /\ receipt # NoReceipt /\ receipt.to = file => landed
  /\ op.kind = "upgrade" =>
       /\ op.to.ver = 2
       /\ op.step # "commit" => file.ver = 1
       /\ op.step \in {"backup", "rename", "commit"} =>
            receipt # NoReceipt /\ receipt.to = op.to
       /\ op.step = "commit" => landed

\* The consumer runs with what the runtime says it has adopted.
RuntimeOK ==
  \A o \in Owners :
    /\ runtime[o].running = runtime[o].adopted.val
    /\ stage[o] # "up" => runtime[o].reload = "idle"

\* Together, and preserved by each step: what the operations, the owners and
\* the editor leave to each other (store.ts, owner.ts, runtime.ts).
IInv ==
  /\ TypeOK /\ OperationOK /\ UpgradeAlone /\ ReadingsHold
  /\ ReceiptIsTrue /\ ReceiptFollows /\ RuntimeOK

Spec == Init /\ [][Next]_vars
=============================================================================
