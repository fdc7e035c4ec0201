--------------------------- MODULE TerminalTakeover ---------------------------
(***************************************************************************)
(* Opening the thread of a scheduled run in a terminal                     *)
(* (backend/src/scheduled-tasks/terminal-attachment.ts), composed with the *)
(* scheduler and its store of module ScheduledRuns.                        *)
(*                                                                         *)
(* openExclusive() works on a snapshot of the run, awaits the file system, *)
(* tmux and the provider's history, and only then stores the binding; the  *)
(* terminal agent it starts resumes the same provider thread.  The terminal*)
(* session is stored elsewhere (the terminal manager) and, like the agent  *)
(* in its tmux pane, outlives the backend.                                 *)
(***************************************************************************)
EXTENDS ScheduledRuns

CONSTANT MaxSessions  \* bound: terminal sessions ever created for one run

ASSUME SessionAssumption == MaxSessions \in Nat

VARIABLES
  opening,   \* phase of the open-terminal operation of each run
  snapshot,  \* the run as that operation read it
  binding,   \* terminalBinding.attachmentState of the stored row
  known,     \* the same in ScheduledTerminalAttachment.bindings
  resuming,  \* phase of the resume started for the run
  sessions,  \* terminal sessions created with the run as their source
  terminal,  \* an interactive agent is alive on the run's thread
  raced      \* history: runs that accepted a reply while one was being opened

takeover == <<opening, snapshot, binding, known, resuming, sessions, terminal>>
tvars    == <<vars, takeover, raced>>

Bindings == {"none", "starting", "ready", "failed"}

\* bindings.get(run.id) ?? run.terminalBinding
KnownBinding(r) == IF known[r] # "none" THEN known[r] ELSE binding[r]

StoreBinding(r, state) ==
  /\ PutBinding(r)
  /\ binding' = [binding EXCEPT ![r] = state]

TakeoverInit ==
  /\ Init
  /\ opening = [r \in Runs |-> "idle"]
  /\ snapshot = [r \in Runs |-> Absent]
  /\ binding = [r \in Runs |-> "none"]
  /\ known = [r \in Runs |-> "none"]
  /\ resuming = [r \in Runs |-> "idle"]
  /\ sessions = [r \in Runs |-> 0]
  /\ terminal = [r \in Runs |-> FALSE]
  /\ raced = {}

-----------------------------------------------------------------------------
(* The open-terminal operation.  A second request for the same run joins   *)
(* the first: there is one operation per run.                              *)

OpenTerminal(r) ==
  /\ Serving
  /\ opening[r] = "idle" /\ row[r].status # "absent"
  /\ opening' = [opening EXCEPT ![r] = "read"]
  /\ snapshot' = [snapshot EXCEPT ![r] = row[r]]
  /\ UNCHANGED <<vars, binding, known, resuming, sessions, terminal>>

\* What openExclusive() demands of the run before it touches a terminal.
Recoverable(x) ==
  /\ x.status \notin {"queued", "running", "stopping"} /\ ~Unresolved(x)
  /\ x.recoverable /\ x.thread

Checked(r, x) ==
  /\ opening' = [opening EXCEPT ![r] = IF Recoverable(x) THEN "checked" ELSE "idle"]
  /\ snapshot' = [snapshot EXCEPT ![r] = IF Recoverable(x) THEN x ELSE Absent]

\* Mutant: a pending continuation is left pending.
CheckSnapshotOnly(r) ==
  /\ opening[r] = "read"
  /\ Checked(r, snapshot[r])
  /\ UNCHANGED <<vars, binding, known, resuming, sessions, terminal>>

\* A snapshot with a pending continuation cancels it in the store first.
CheckSnapshot(r) ==
  LET x == snapshot[r]
      pending == x.nextAt # Never /\ x.status \in {"waiting", "queued"}
  IN
  /\ opening[r] = "read"
  /\ \/ /\ pending
        /\ Stoppable(row[r]) \/ row[r].status = "running"
        /\ RequestRunStop(r)
        /\ Checked(r, row'[r])
     \/ /\ pending
        /\ ~Stoppable(row[r]) /\ row[r].status # "running"
        /\ Checked(r, row[r])
        /\ UNCHANGED vars
     \/ /\ ~pending
        /\ Checked(r, x)
        /\ UNCHANGED vars
  /\ UNCHANGED <<binding, known, resuming, sessions, terminal>>

\* The directory, the conversation in the terminal or the thread's history
\* is not what it was.
OpenFails(r) ==
  /\ opening[r] = "checked"
  /\ opening' = [opening EXCEPT ![r] = "idle"]
  /\ snapshot' = [snapshot EXCEPT ![r] = Absent]
  /\ UNCHANGED <<vars, binding, known, resuming, sessions, terminal>>

\* No terminal has the run as its source: one is created, and the terminal
\* manager stores it with that source before the binding is stored.
CreateSession(r) ==
  /\ opening[r] = "checked" /\ sessions[r] = 0
  /\ sessions[r] < MaxSessions
  /\ sessions' = [sessions EXCEPT ![r] = @ + 1]
  /\ opening' = [opening EXCEPT ![r] = "bind"]
  /\ UNCHANGED <<vars, snapshot, binding, known, resuming, terminal>>

\* The terminal was repurposed and the user chose another one explicitly.
ReplaceSession(r) ==
  /\ opening[r] = "checked" /\ sessions[r] > 0 /\ ~terminal[r]
  /\ sessions[r] < MaxSessions
  /\ sessions' = [sessions EXCEPT ![r] = @ + 1]
  /\ opening' = [opening EXCEPT ![r] = "bind"]
  /\ UNCHANGED <<vars, snapshot, binding, known, resuming, terminal>>

\* The bound terminal still holds the conversation: its binding is renewed.
ReuseReady(r) ==
  /\ opening[r] = "checked" /\ sessions[r] > 0
  /\ KnownBinding(r) = "ready" /\ terminal[r]
  /\ StoreBinding(r, "ready")
  /\ known' = [known EXCEPT ![r] = "ready"]
  /\ opening' = [opening EXCEPT ![r] = "idle"]
  /\ snapshot' = [snapshot EXCEPT ![r] = Absent]
  /\ UNCHANGED <<resuming, sessions, terminal>>

\* startResume does nothing while a resume of the run is pending.
StartResume(r) ==
  resuming' = [resuming EXCEPT ![r] = IF @ = "idle" THEN "starting" ELSE @]

\* A binding that is starting already: only the resume is started again.
ResumeStarting(r) ==
  /\ opening[r] = "checked" /\ sessions[r] > 0
  /\ KnownBinding(r) = "starting"
  /\ StartResume(r)
  /\ opening' = [opening EXCEPT ![r] = "idle"]
  /\ snapshot' = [snapshot EXCEPT ![r] = Absent]
  /\ UNCHANGED <<vars, binding, known, sessions, terminal>>

\* A discovered terminal, a failed binding, or a ready one that cannot be
\* confirmed: its agent left, its directory changed.
BindExisting(r) ==
  /\ opening[r] = "checked" /\ sessions[r] > 0
  /\ KnownBinding(r) # "starting"
  /\ opening' = [opening EXCEPT ![r] = "bind"]
  /\ UNCHANGED <<vars, snapshot, binding, known, resuming, sessions, terminal>>

BindStarting(r) ==
  /\ opening[r] = "bind"
  /\ StoreBinding(r, "starting")
  /\ known' = [known EXCEPT ![r] = "starting"]
  /\ StartResume(r)
  /\ opening' = [opening EXCEPT ![r] = "idle"]
  /\ snapshot' = [snapshot EXCEPT ![r] = Absent]
  /\ UNCHANGED <<sessions, terminal>>

-----------------------------------------------------------------------------
(* The resume: it runs in the background of the process.                   *)

\* The agent is launched in the pane, or found there from an earlier resume.
LaunchAgent(r) ==
  /\ resuming[r] = "starting"
  /\ terminal' = [terminal EXCEPT ![r] = TRUE]
  /\ resuming' = [resuming EXCEPT ![r] = "launched"]
  /\ UNCHANGED <<vars, opening, snapshot, binding, known, sessions>>

ResumeReady(r) ==
  /\ resuming[r] = "launched" /\ terminal[r]
  /\ StoreBinding(r, "ready")
  /\ known' = [known EXCEPT ![r] = "ready"]
  /\ resuming' = [resuming EXCEPT ![r] = "idle"]
  /\ UNCHANGED <<opening, snapshot, sessions, terminal>>

\* No agent, no thread, or no confirmation in time: a timeout leaves the
\* agent running.
ResumeFails(r) ==
  /\ resuming[r] \in {"starting", "launched"}
  /\ StoreBinding(r, "failed")
  /\ known' = [known EXCEPT ![r] = "failed"]
  /\ resuming' = [resuming EXCEPT ![r] = "idle"]
  /\ UNCHANGED <<opening, snapshot, sessions, terminal>>

AgentExit(r) ==
  /\ terminal[r]
  /\ terminal' = [terminal EXCEPT ![r] = FALSE]
  /\ UNCHANGED <<vars, opening, snapshot, binding, known, resuming, sessions>>

\* The operations and the bindings map end with the process.
Forget ==
  /\ opening' = [r \in Runs |-> "idle"]
  /\ snapshot' = [r \in Runs |-> Absent]
  /\ known' = [r \in Runs |-> "none"]
  /\ resuming' = [r \in Runs |-> "idle"]
  /\ UNCHANGED <<binding, sessions, terminal>>

Attachment(r) ==
  \/ OpenTerminal(r) \/ CheckSnapshot(r) \/ OpenFails(r)
  \/ CreateSession(r) \/ ReplaceSession(r) \/ ReuseReady(r) \/ ResumeStarting(r)
  \/ BindExisting(r) \/ BindStarting(r)
  \/ LaunchAgent(r) \/ ResumeReady(r) \/ ResumeFails(r) \/ AgentExit(r)

TakeoverNext ==
  /\ \/ RunStep /\ (mode' = mode \/ mode' # "down") /\ UNCHANGED takeover
     \/ (Disposed \/ Crash) /\ Forget
     \/ \E r \in BindableRuns : Attachment(r)
  /\ raced' = raced \union {r \in Runs : replies'[r] > replies[r] /\ opening[r] # "idle"}

TakeoverSpec == TakeoverInit /\ [][TakeoverNext]_tvars
-----------------------------------------------------------------------------
(* Properties.                                                             *)

\* The type invariant of the takeover state.
TakeoverTypeOK ==
  /\ TypeOK
  /\ opening \in [Runs -> {"idle", "read", "checked", "bind"}]
  /\ snapshot \in [Runs -> Row]
  /\ binding \in [Runs -> Bindings] /\ known \in [Runs -> Bindings]
  /\ resuming \in [Runs -> {"idle", "starting", "launched"}]
  /\ sessions \in [Runs -> 0 .. MaxSessions]
  /\ terminal \in [Runs -> BOOLEAN]
  /\ raced \subseteq Runs

\* Continuing, taking over and stopping compete for one right to execute: a
\* terminal agent and a background process never write to the same thread.
OneExecutorPerThread == \A r \in Runs : terminal[r] => prompted[r] = {}

\* They do not, through continuations, stops, crashes, and replies accepted
\* before or after a takeover, except for a reply that is accepted while the
\* terminal is being opened (openExclusive(), the cancellation it begins with,
\* the checks of claimNextRun() and replyRun()).
OneExecutorUnlessRaced ==
  \A r \in Runs : terminal[r] /\ prompted[r] # {} => r \in raced

\* A run whose thread was handed to a terminal is not claimed again, whatever
\* was queued or waiting when the binding was stored.
BoundThreadNotClaimed ==
  [][\A r \in Runs :
       /\ row[r].bound /\ row[r].status \notin {"running", "stopping"}
       => row'[r].status # "running"]_tvars

=============================================================================
