--------------------------------- MODULE Daemon ---------------------------------
(***************************************************************************)
(* src/daemon.rs: one daemon per machine, found through daemon.pid.  The   *)
(* daemon flocks the file for its lifetime and writes its pid and, when    *)
(* its ports listen, a ready mark into it.  `start`, `stop` and `status`   *)
(* ask `state`: they try the same flock to learn whether a daemon holds    *)
(* it, and give it back at once if not.                                    *)
(***************************************************************************)
EXTENDS Integers

CONSTANTS
  Cmd,      \* command-line processes that may run at the same time
  NoOne,    \* the holder of the free flock
  MaxPid    \* bound: the daemons started in one behaviour; their pids are 1..MaxPid

Pid == 1..MaxPid

ASSUME DaemonAssumption ==
  /\ MaxPid \in Nat \ {0}
  /\ Cmd \cap Pid = {} /\ NoOne \notin Cmd \cup Pid

VARIABLES
  file,    \* content of daemon.pid
  flock,   \* holder of its flock: a daemon, or a command inside `state`
  daemon,  \* the stage of each daemon
  cmd      \* each command: where it is, why it asks `state`, what it knows

vars == <<file, flock, daemon, cmd>>

(* pid 0 stands for no parsable pid: parse_pid(..).unwrap_or(0). *)
File == [pid : 0..MaxPid, ready : BOOLEAN]
EmptyFile == [pid |-> 0, ready |-> FALSE]

(* A daemon's way to serving; "refused": the flock was taken, it gave up. *)
Starting == {"born", "locked", "empty", "bind", "reempty"}
Alive == Starting \cup {"serving"}

(* `why`: the call of `state` a command is in.  look: running() of start   *)
(* and status; target: running() of stop; term, kill: wait_gone after each *)
(* signal; ready: the poll of start.                                       *)
Why == {"look", "target", "term", "kill", "ready"}
At == {"idle", "probe", "unlock", "read", "signal", "poll", "spawn", "check",
       "stopped", "started", "failed"}
Command == [op : {"none", "start", "stop", "status"}, at : At, why : Why,
            pid : 0..MaxPid,    \* the pid to signal
            child : 0..MaxPid,  \* the daemon `start` has spawned
            saw : 0..MaxPid]    \* history: the daemon that held the flock at `target`

Idle == [op |-> "none", at |-> "idle", why |-> "look", pid |-> 0, child |-> 0,
         saw |-> 0]

TypeOK ==
  /\ file \in File
  /\ flock \in Pid \cup Cmd \cup {NoOne}
  /\ daemon \in [Pid -> Alive \cup {"unborn", "refused", "dead"}]
  /\ cmd \in [Cmd -> Command]

Init ==
  /\ file = EmptyFile
  /\ flock = NoOne
  /\ daemon = [p \in Pid |-> "unborn"]
  /\ cmd = [c \in Cmd |-> Idle]

--------------------------------------------------------------------------------
(* The daemon: main.rs `serve` with acquire and mark_ready. *)

Stage(p, from, to) == daemon[p] = from /\ daemon' = [daemon EXCEPT ![p] = to]

(* Mutant: the outcome of try_lock is not looked at. *)
AcquireBlind(p) ==
  /\ Stage(p, "born", "locked")
  /\ flock' = p
  /\ UNCHANGED <<file, cmd>>

Acquire(p) ==
  /\ Stage(p, "born", "locked")
  /\ flock = NoOne
  /\ flock' = p
  /\ UNCHANGED <<file, cmd>>

(* Mutant: the pid is written before the lock is tried. *)
RefusedWritten(p) ==
  /\ Stage(p, "born", "refused")
  /\ flock # NoOne
  /\ file' = [pid |-> p, ready |-> FALSE]
  /\ UNCHANGED <<flock, cmd>>

(* try_lock fails: 已在运行. *)
Refused(p) ==
  /\ Stage(p, "born", "refused")
  /\ flock # NoOne
  /\ UNCHANGED <<file, flock, cmd>>

(* write_state is a truncation, then a write. *)
Truncate(p) ==
  /\ \/ Stage(p, "locked", "empty")
     \/ Stage(p, "bind", "reempty")
  /\ file' = EmptyFile
  /\ UNCHANGED <<flock, cmd>>

(* Mutant: the ready mark is written before the ports are bound. *)
WriteReadyEarly(p) ==
  /\ \/ Stage(p, "empty", "bind") /\ file' = [pid |-> p, ready |-> TRUE]
     \/ Stage(p, "reempty", "serving") /\ file' = [pid |-> p, ready |-> TRUE]
  /\ UNCHANGED <<flock, cmd>>

Write(p) ==
  /\ \/ Stage(p, "empty", "bind") /\ file' = [pid |-> p, ready |-> FALSE]
     \/ Stage(p, "reempty", "serving") /\ file' = [pid |-> p, ready |-> TRUE]
  /\ UNCHANGED <<flock, cmd>>

(* The kernel drops the flock of a process that is gone. *)
Dies(p) ==
  /\ daemon' = [daemon EXCEPT ![p] = "dead"]
  /\ flock' = IF flock = p THEN NoOne ELSE flock

(* A port is taken, the process crashes, or its graceful shutdown is done. *)
Exit(p) ==
  /\ daemon[p] \in Alive
  /\ Dies(p)
  /\ UNCHANGED <<file, cmd>>

--------------------------------------------------------------------------------
(* The commands. *)

Now(c, fields) == cmd' = [cmd EXCEPT ![c] = fields]
Ask(c, why) == Now(c, [cmd[c] EXCEPT !.at = "probe", !.why = why])
To(c, at) == Now(c, [cmd[c] EXCEPT !.at = at])

Run(c, op) ==
  /\ cmd[c].at = "idle"
  /\ Now(c, [Idle EXCEPT !.op = op, !.at = "probe",
                         !.why = IF op = "stop" THEN "target" ELSE "look"])
  /\ UNCHANGED <<file, flock, daemon>>

(* `stop` is over: the command's end, or start goes on to spawn. *)
Stopped(c) == To(c, IF cmd[c].op = "start" THEN "spawn" ELSE "stopped")

(* `state` has returned: nobody runs. *)
NotRunning(c) ==
  IF cmd[c].op = "status" THEN To(c, "idle")
  ELSE CASE cmd[c].why = "look" -> To(c, "spawn")
         [] cmd[c].why \in {"target", "term", "kill"} -> Stopped(c)
         [] cmd[c].why = "ready" -> To(c, "poll")

(* Mutant: a file without a pid counts as no daemon. *)
RunningIfPid(c, f) ==
  IF f.pid = 0 THEN NotRunning(c)
  ELSE IF cmd[c].op = "status" THEN To(c, "idle")
  ELSE CASE cmd[c].why = "look" -> Ask(c, "target")
         [] cmd[c].why = "target" -> Now(c, [cmd[c] EXCEPT !.at = "signal", !.pid = f.pid])
         [] cmd[c].why \in {"term", "kill"} -> To(c, "poll")
         [] cmd[c].why = "ready" ->
              To(c, IF f = [pid |-> cmd[c].child, ready |-> TRUE] THEN "started" ELSE "poll")

(* `state` has returned the content f of the file. *)
Running(c, f) ==
  IF cmd[c].op = "status" THEN To(c, "idle")
  ELSE CASE cmd[c].why = "look" -> Ask(c, "target")
         [] cmd[c].why = "target" -> Now(c, [cmd[c] EXCEPT !.at = "signal", !.pid = f.pid])
         [] cmd[c].why \in {"term", "kill"} -> To(c, "poll")
         [] cmd[c].why = "ready" ->
              To(c, IF f = [pid |-> cmd[c].child, ready |-> TRUE] THEN "started" ELSE "poll")

TryLock(c) ==
  /\ cmd[c].at = "probe"
  /\ \/ /\ flock = NoOne
        /\ flock' = c
        /\ To(c, "unlock")
     \/ /\ flock # NoOne
        /\ Now(c, [cmd[c] EXCEPT !.at = "read",
                     !.saw = IF cmd[c].why = "target" /\ flock \in Pid THEN flock ELSE @])
        /\ UNCHANGED flock
  /\ UNCHANGED <<file, daemon>>

Unlock(c) ==
  /\ cmd[c].at = "unlock"
  /\ flock' = NoOne
  /\ NotRunning(c)
  /\ UNCHANGED <<file, daemon>>

Read(c) ==
  /\ cmd[c].at = "read"
  /\ Running(c, file)
  /\ UNCHANGED <<file, flock, daemon>>

(* kill(0, ..) reaches the command's own process group, the command first. *)
SignalGroup(c) ==
  /\ cmd[c].at = "signal" /\ cmd[c].pid = 0
  /\ Now(c, Idle)
  /\ UNCHANGED <<file, flock, daemon>>

(***************************************************************************)
(* SIGTERM kills before its handler is installed, which happens while the  *)
(* daemon goes on to serve; afterwards the daemon shuts down when it will. *)
(***************************************************************************)
Terminate(c) ==
  LET p == cmd[c].pid IN
  /\ cmd[c].at = "signal" /\ cmd[c].why = "target" /\ p # 0
  /\ \/ daemon[p] \in Alive /\ Dies(p)
     \/ daemon[p] \notin Starting \ {"bind", "reempty"} /\ UNCHANGED <<daemon, flock>>
  /\ Ask(c, "term")
  /\ UNCHANGED file

Kill(c) ==
  LET p == cmd[c].pid IN
  /\ cmd[c].at = "signal" /\ cmd[c].why = "term" /\ p # 0
  /\ IF daemon[p] \in Alive THEN Dies(p) ELSE UNCHANGED <<daemon, flock>>
  /\ Ask(c, "kill")
  /\ UNCHANGED file

(* Sleep 100 ms and ask again; `start` first looks whether its child lives. *)
Poll(c) ==
  /\ cmd[c].at = "poll"
  /\ IF cmd[c].why = "ready" THEN To(c, "check") ELSE Ask(c, cmd[c].why)
  /\ UNCHANGED <<file, flock, daemon>>

(* Mutant: SIGTERM is given all the time it wants. *)
DeadlineSkipped(c) ==
  /\ cmd[c].at = "poll" /\ cmd[c].why \in {"kill", "ready"}
  /\ To(c, "failed")
  /\ IF cmd[c].why = "ready" /\ daemon[cmd[c].child] \in Alive
     THEN Dies(cmd[c].child) ELSE UNCHANGED <<daemon, flock>>
  /\ UNCHANGED file

(* STOP_WAIT, KILL_WAIT or READY_WAIT is over. *)
Deadline(c) ==
  /\ cmd[c].at = "poll"
  /\ \/ /\ cmd[c].why = "term"
        /\ To(c, "signal")
        /\ UNCHANGED <<daemon, flock>>
     \/ /\ cmd[c].why = "kill"
        /\ To(c, "failed")
        /\ UNCHANGED <<daemon, flock>>
     \/ /\ cmd[c].why = "ready"
        /\ To(c, "failed")
        /\ IF daemon[cmd[c].child] \in Alive THEN Dies(cmd[c].child)
                                             ELSE UNCHANGED <<daemon, flock>>
  /\ UNCHANGED file

(* Pids are given out in order; none is used again. *)
Spawn(c) ==
  /\ cmd[c].at = "spawn"
  /\ \E p \in Pid :
       /\ daemon[p] = "unborn"
       /\ \A q \in Pid : q < p => daemon[q] # "unborn"
       /\ daemon' = [daemon EXCEPT ![p] = "born"]
       /\ Now(c, [cmd[c] EXCEPT !.at = "check", !.child = p])
  /\ UNCHANGED <<file, flock>>

(* Bound: no pid is left to spawn, and the command is given up. *)
OutOfPids(c) ==
  /\ cmd[c].at = "spawn"
  /\ \A p \in Pid : daemon[p] # "unborn"
  /\ To(c, "failed")
  /\ UNCHANGED <<file, flock, daemon>>

(* try_wait: the child has exited, or `state` is asked whether it is ready. *)
Check(c) ==
  /\ cmd[c].at = "check"
  /\ IF daemon[cmd[c].child] \in Alive THEN Ask(c, "ready") ELSE To(c, "failed")
  /\ UNCHANGED <<file, flock, daemon>>

Done(c) ==
  /\ cmd[c].at \in {"stopped", "started", "failed"}
  /\ Now(c, Idle)
  /\ UNCHANGED <<file, flock, daemon>>

CmdStep(c) ==
  \/ TryLock(c) \/ Unlock(c) \/ Read(c)
  \/ SignalGroup(c) \/ Terminate(c) \/ Kill(c)
  \/ Poll(c) \/ Spawn(c) \/ OutOfPids(c) \/ Check(c) \/ Done(c)

DaemonStep(p) == Acquire(p) \/ Refused(p) \/ Truncate(p) \/ Write(p)

Next ==
  \/ \E c \in Cmd, op \in {"start", "stop", "status"} : Run(c, op)
  \/ \E c \in Cmd : CmdStep(c) \/ Deadline(c)
  \/ \E p \in Pid : DaemonStep(p) \/ Exit(p)

Spec == Init /\ [][Next]_vars

(* Processes run; a deadline comes however often the command polls before it. *)
(* A daemon need not obey SIGTERM: an open stream may keep it for ever.       *)
FairSpec ==
  /\ Spec
  /\ \A c \in Cmd : WF_vars(CmdStep(c)) /\ SF_vars(Deadline(c))

--------------------------------------------------------------------------------

(* "独占 pid 锁": two daemons are never past `acquire` at the same time. *)
SingleInstance ==
  \A p, q \in Pid :
    {daemon[p], daemon[q]} \subseteq Alive \ {"born"} => p = q

(* `start` reports success only for a daemon that got all its ports. *)
StartedIsServing ==
  \A c \in Cmd :
    cmd[c].at = "started" => daemon[cmd[c].child] \in {"serving", "dead"}

(***************************************************************************)
(* When `stop` reports success, and when `start` goes on to its own child  *)
(* after it, the daemon that was found running is gone, whatever was read  *)
(* from the pid file meanwhile: the ports it held are free again.          *)
(***************************************************************************)
StoppedIsGone ==
  \A c \in Cmd :
    cmd[c].at \in {"stopped", "spawn"} /\ cmd[c].saw # 0 =>
      daemon[cmd[c].saw] = "dead"

(* Every command ends, however the daemon behaves. *)
EveryCommandEnds == \A c \in Cmd : cmd[c].at # "idle" ~> cmd[c].at = "idle"

(***************************************************************************)
(* daemon.rs "该进程正持有文件锁 = 本程序自身": a process that stop or     *)
(* start is about to signal is the daemon that holds the flock, or is gone *)
(* already, though the file is read, the flock tried and the signal sent   *)
(* at three moments.  It is not so of pid 0, which a file without a pid is *)
(* read as: the signal then goes to the command's own group (SignalGroup). *)
(***************************************************************************)
SignalsHolder ==
  \A c \in Cmd :
    cmd[c].at = "signal" /\ cmd[c].pid # 0 =>
      flock = cmd[c].pid \/ daemon[cmd[c].pid] = "dead"
================================================================================
