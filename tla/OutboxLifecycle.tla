-------------------------- MODULE OutboxLifecycle ---------------------------
(***************************************************************************)
(* Who owns the desktop's outbox worker (src-tauri/src/lib.rs:             *)
(* OutboxWorkerState and the commands start_outbox_worker,                 *)
(* stop_outbox_worker and switch_vault; outbox/postgres.rs:                *)
(* OutboxWorkerHandle and spawn_postgres_worker).                          *)
(*                                                                         *)
(* The one handle lives in a mutex-protected slot.  Every command takes it *)
(* out under the lock, awaits the task's exit without the lock, and stores *)
(* a new handle under a lock of its own; the commands are async, so the    *)
(* runtime may interleave them at each await and each lock.  A handle that *)
(* is dropped neither cancels nor stops its task.                          *)
(***************************************************************************)
EXTENDS Naturals, FiniteSets

CONSTANTS
  Starts,        \* start_outbox_worker invocations that may be in flight
  Tasks,         \* worker tasks, one per spawn
  Configs,       \* database URL and tuning of a worker
  None,
  FromEnv,       \* the config DATABASE_URL gives at launch, or None
  Overlap,       \* may a command begin while another is in flight?
  MaxCommands    \* bound: commands issued

ASSUME LifecycleAssumption ==
  /\ None \notin Tasks /\ None \notin Configs
  /\ Tasks # {} /\ FromEnv \in Configs \cup {None}
  /\ Overlap \in BOOLEAN /\ MaxCommands \in Nat

Commands == Starts \cup {"stop", "switch"}

VARIABLES
  slot,          \* OutboxWorkerState: the registered task, or None
  task,          \* per task: state, cancel flag, config, file it has open
  cmd,           \* per command: program counter, handle it awaits, new task
  file,          \* generation of the file behind brain.db
  db,            \* the path behind DbState, "brain" or the "stub"
  issued,
  overlapped     \* (history) a command began while another was in flight

lifecycleVars == <<slot, task, cmd, file, db, issued, overlapped>>

Live(t) == task[t].st \in {"connecting", "polling"}
Quiet   == \A c \in Commands : cmd[c].pc = "idle"

LifecycleTypeOK ==
  /\ slot \in Tasks \cup {None}
  /\ task \in [Tasks -> [st : {"unborn", "connecting", "polling", "gone"},
                         stop : BOOLEAN, cfg : Configs \cup {None},
                         path : {"brain", "stub"}, file : Nat]]
  /\ cmd \in [Commands -> [pc : {"idle", "take", "await", "spawn", "store",
                                 "swap", "retake", "respawn"},
                           held : Tasks \cup {None}, new : Tasks \cup {None},
                           next : {"idle", "spawn", "store", "swap", "respawn"},
                           cfg : Configs \cup {None}, path : {"brain", "stub"}]]
  /\ \A c \in Commands : cmd[c].pc = "await" <=> cmd[c].held # None
  /\ file \in Nat /\ db \in {"brain", "stub"} /\ issued \in 0..MaxCommands
  /\ overlapped \in BOOLEAN

Worker(st, cfg, path) ==
  [st |-> st, stop |-> FALSE, cfg |-> cfg, path |-> path, file |-> 0]

(* The task identity the next spawn uses.                                  *)
Fresh == CHOOSE t \in Tasks : task[t].st = "unborn"
MaySpawn == \E t \in Tasks : task[t].st = "unborn"

(* The setup hook spawns a worker when DATABASE_URL is set.                *)
LifecycleInit ==
  /\ slot = IF FromEnv = None THEN None ELSE CHOOSE t \in Tasks : TRUE
  /\ task = [t \in Tasks |-> IF t = slot THEN Worker("connecting", FromEnv, "brain")
                             ELSE Worker("unborn", None, "brain")]
  /\ cmd = [c \in Commands |-> [pc |-> "idle", held |-> None, new |-> None,
                                next |-> "idle", cfg |-> None, path |-> "brain"]]
  /\ file = 1 /\ db = "brain" /\ issued = 0 /\ overlapped = FALSE

-----------------------------------------------------------------------------
(* A command is issued; start_outbox_worker reads the path behind DbState. *)
Begin(c) ==
  /\ cmd[c].pc = "idle" /\ issued < MaxCommands
  /\ Overlap \/ Quiet
  /\ \E g \in IF c \in Starts THEN Configs ELSE {None} :
       cmd' = [cmd EXCEPT ![c] = [@ EXCEPT !.pc = "take", !.cfg = g, !.path = db,
                                           !.new = None]]
  /\ issued' = issued + 1
  /\ overlapped' = (overlapped \/ ~Quiet)
  /\ UNCHANGED <<slot, task, file, db>>

(* Takes the registered handle out of the slot; with a handle the command  *)
(* raises its cancel flag (stop) and awaits the task, then goes on at      *)
(* `after`.                                                                *)
TakeThen(c, after) ==
  /\ slot' = None
  /\ task' = IF slot = None THEN task ELSE [task EXCEPT ![slot].stop = TRUE]
  /\ cmd' = [cmd EXCEPT ![c] =
               [@ EXCEPT !.held = slot, !.next = after,
                         !.pc = IF slot = None THEN after ELSE "await"]]

(* Mutant: the awaited handle is kept, as if it could be stopped again.     *)
AwaitKeeps(c) ==
  /\ cmd[c].pc = "await"
  /\ task[cmd[c].held].st = "gone"
  /\ cmd' = [cmd EXCEPT ![c].pc = cmd[c].next]
  /\ UNCHANGED <<slot, task, file, db, issued, overlapped>>

(* handle.stop().await returns once the task has exited.                   *)
Await(c) ==
  /\ cmd[c].pc = "await"
  /\ task[cmd[c].held].st = "gone"
  /\ cmd' = [cmd EXCEPT ![c] = [@ EXCEPT !.pc = cmd[c].next, !.held = None]]
  /\ UNCHANGED <<slot, task, file, db, issued, overlapped>>

(* The registered worker runs with the very config the command asks for.   *)
AlreadyRuns(c) ==
  /\ slot # None
  /\ Live(slot) /\ task[slot].cfg = cmd[c].cfg /\ task[slot].path = cmd[c].path

(* start: the same worker is already running, nothing to do.               *)
StartNoop(c) ==
  /\ c \in Starts /\ cmd[c].pc = "take"
  /\ AlreadyRuns(c)
  /\ cmd' = [cmd EXCEPT ![c].pc = "idle"]
  /\ UNCHANGED <<slot, task, file, db, issued, overlapped>>

StartTake(c) ==
  /\ c \in Starts /\ cmd[c].pc = "take"
  /\ ~AlreadyRuns(c)
  /\ TakeThen(c, "spawn")
  /\ UNCHANGED <<file, db, issued, overlapped>>

(* The new task runs from here on; replace_outbox_worker then takes        *)
(* whatever has been registered meanwhile.                                 *)
StartSpawn(c) ==
  /\ c \in Starts /\ cmd[c].pc = "spawn"
  /\ MaySpawn
  /\ slot' = None
  /\ task' = [t \in Tasks |->
                IF t = Fresh THEN Worker("connecting", cmd[c].cfg, cmd[c].path)
                ELSE IF t = slot THEN [task[t] EXCEPT !.stop = TRUE]
                ELSE task[t]]
  /\ cmd' = [cmd EXCEPT ![c] =
               [@ EXCEPT !.new = Fresh, !.held = slot, !.next = "store",
                         !.pc = IF slot = None THEN "store" ELSE "await"]]
  /\ UNCHANGED <<file, db, issued, overlapped>>

(* *state.0.lock() = Some(new_handle): a handle stored there meanwhile is  *)
(* dropped.                                                                *)
StartStore(c) ==
  /\ c \in Starts /\ cmd[c].pc = "store"
  /\ slot' = cmd[c].new
  /\ cmd' = [cmd EXCEPT ![c] = [@ EXCEPT !.pc = "idle", !.new = None]]
  /\ UNCHANGED <<task, file, db, issued, overlapped>>

StopWorker ==
  /\ cmd["stop"].pc = "take"
  /\ TakeThen("stop", "idle")
  /\ UNCHANGED <<file, db, issued, overlapped>>

(* Mutant: the file operations do not wait for the worker.                 *)
SwitchNoWait ==
  /\ cmd["switch"].pc = "take"
  /\ slot' = None
  /\ task' = IF slot = None THEN task ELSE [task EXCEPT ![slot].stop = TRUE]
  /\ cmd' = [cmd EXCEPT !["switch"] =
               [@ EXCEPT !.pc = "swap",
                         !.cfg = IF slot = None THEN FromEnv ELSE task[slot].cfg]]
  /\ db' = "stub"
  /\ UNCHANGED <<file, issued, overlapped>>

(* switch_vault takes and stops the worker, keeping its config for later.  *)
SwitchTake ==
  /\ cmd["switch"].pc = "take"
  /\ slot' = None
  /\ task' = IF slot = None THEN task ELSE [task EXCEPT ![slot].stop = TRUE]
  /\ cmd' = [cmd EXCEPT !["switch"] =
               [@ EXCEPT !.held = slot, !.next = "swap",
                         !.pc = IF slot = None THEN "swap" ELSE "await",
                         !.cfg = IF slot = None THEN FromEnv ELSE task[slot].cfg]]
  /\ UNCHANGED <<file, db, issued, overlapped>>

(* DbState moves to a stub while the files are worked on.                  *)
SwitchClose ==
  /\ cmd["switch"].pc = "swap" /\ db = "brain"
  /\ db' = "stub"
  /\ UNCHANGED <<slot, task, cmd, file, issued, overlapped>>

(* brain.db is replaced (a restore) or kept, and reopened.                 *)
SwitchReopen ==
  /\ cmd["switch"].pc = "swap" /\ db = "stub"
  /\ file' \in {file, file + 1}
  /\ db' = "brain"
  /\ cmd' = [cmd EXCEPT !["switch"].pc = "retake"]
  /\ UNCHANGED <<slot, task, issued, overlapped>>

(* The switch and its recovery both failed: the worker stays stopped.      *)
SwitchFails ==
  /\ cmd["switch"].pc = "swap" /\ db = "stub"
  /\ file' \in {file, file + 1}
  /\ cmd' = [cmd EXCEPT !["switch"].pc = "idle"]
  /\ UNCHANGED <<slot, task, db, issued, overlapped>>

(* spawn_outbox_worker_if_configured stops what it finds, then spawns and  *)
(* stores -- over whatever was stored meanwhile.                           *)
SwitchRetake ==
  /\ cmd["switch"].pc = "retake"
  /\ TakeThen("switch", "respawn")
  /\ UNCHANGED <<file, db, issued, overlapped>>

SwitchRespawn ==
  /\ cmd["switch"].pc = "respawn"
  /\ \/ /\ cmd["switch"].cfg = None
        /\ UNCHANGED <<slot, task>>
     \/ /\ cmd["switch"].cfg # None
        /\ MaySpawn
        /\ task' = [task EXCEPT ![Fresh] =
                      Worker("connecting", cmd["switch"].cfg, "brain")]
        /\ slot' = Fresh
  /\ cmd' = [cmd EXCEPT !["switch"].pc = "idle"]
  /\ UNCHANGED <<file, db, issued, overlapped>>

-----------------------------------------------------------------------------
(* The task reaches Postgres and opens the file now behind its path.       *)
Connect(t) ==
  /\ task[t].st = "connecting" /\ ~task[t].stop
  /\ task' = [task EXCEPT ![t].st = "polling", ![t].file = file]
  /\ UNCHANGED <<slot, cmd, file, db, issued, overlapped>>

(* Its SQLite file does not open: the task ends by itself.                 *)
OpenFails(t) ==
  /\ task[t].st = "connecting" /\ ~task[t].stop
  /\ task' = [task EXCEPT ![t] = Worker("gone", None, "brain")]
  /\ UNCHANGED <<slot, cmd, file, db, issued, overlapped>>

(* Mutant: the connect loop does not look at the flag.                     *)
ExitPolling(t) ==
  /\ task[t].st = "polling" /\ task[t].stop
  /\ task' = [task EXCEPT ![t] = Worker("gone", None, "brain")]
  /\ UNCHANGED <<slot, cmd, file, db, issued, overlapped>>

(* The connect loop and the poll loop both look at the cancel flag.        *)
TaskExits(t) ==
  /\ Live(t) /\ task[t].stop
  /\ task' = [task EXCEPT ![t] = Worker("gone", None, "brain")]
  /\ UNCHANGED <<slot, cmd, file, db, issued, overlapped>>

Step(c) ==
  \/ Await(c) \/ StartNoop(c) \/ StartTake(c) \/ StartSpawn(c) \/ StartStore(c)
  \/ c = "stop" /\ StopWorker
  \/ c = "switch" /\ (SwitchTake \/ SwitchClose \/ SwitchReopen \/ SwitchFails
                      \/ SwitchRetake \/ SwitchRespawn)

(* Nothing is in flight and no command is left to issue.                   *)
Done == Quiet /\ issued = MaxCommands /\ UNCHANGED lifecycleVars

LifecycleNext ==
  \/ \E c \in Commands : Begin(c) \/ Step(c)
  \/ \E t \in Tasks : Connect(t) \/ OpenFails(t) \/ TaskExits(t)
  \/ Done

LifecycleSpec == LifecycleInit /\ [][LifecycleNext]_lifecycleVars

(* The runtime polls every command and every task.                         *)
LifecycleFairSpec ==
  /\ LifecycleSpec
  /\ \A c \in Commands : WF_lifecycleVars(Step(c))
  /\ \A t \in Tasks : WF_lifecycleVars(TaskExits(t))

-----------------------------------------------------------------------------
(* A worker that no handle can stop any more.                              *)
Orphan(t) == Live(t) /\ ~task[t].stop /\ slot # t

(* A worker that polls a file which is no longer brain.db.                 *)
Stale(t) ==
  task[t].st = "polling" /\ task[t].path = "brain" /\ task[t].file # file

(* Commands that were never in flight together leave every worker that     *)
(* runs registered, so that the next stop reaches it, and none on a        *)
(* database file that a vault switch replaced, whichever of them failed    *)
(* half-way.                                                               *)
SerialCommandsAreSafe ==
  Quiet /\ ~overlapped => \A t \in Tasks : ~Orphan(t) /\ ~Stale(t)

(* Every command returns: whoever takes a handle out of the slot is the    *)
(* only one to await it, and the task sees the flag even while Postgres is *)
(* unreachable.                                                            *)
CommandsReturn == \A c \in Commands : cmd[c].pc # "idle" ~> cmd[c].pc = "idle"
=============================================================================
