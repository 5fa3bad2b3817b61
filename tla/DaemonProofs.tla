------------------------------- MODULE DaemonProofs -------------------------------
(***************************************************************************)
(* What Daemon promises, for any number of commands and daemons.           *)
(***************************************************************************)
EXTENDS Daemon, TLAPS

(* The stages in which a daemon has the flock. *)
Holding == Alive \ {"born"}

(* The flock is with the daemon that took it, or with a command that has     *)
(* found it free and gives it back next.                                     *)
DaemonHolds == \A p \in Pid : daemon[p] \in Holding <=> flock = p
CommandHolds == \A c \in Cmd : cmd[c].at = "unlock" <=> flock = c

(* The pid in the file is that of a daemon that has had the flock, and the   *)
(* ready mark that of one that serves or has done so.                        *)
Written ==
  /\ file.pid # 0 => daemon[file.pid] \in Holding \cup {"dead"}
  /\ file.ready => file.pid # 0 /\ daemon[file.pid] \in {"serving", "dead"}

(***************************************************************************)
(* What a command r knows of the stages d: the daemon it found has had the *)
(* flock and never gets it again, which nobody looks for in the first call *)
(* of `state`; the pid it has read is that of such a daemon too; it waits  *)
(* for a child only if it has one.                                         *)
(***************************************************************************)
Sound(r, d) ==
  /\ r.saw # 0 => d[r.saw] \in Holding \cup {"dead"}
  /\ r.pid # 0 => d[r.pid] \in Holding \cup {"dead"}
  /\ r.why = "look" => r.saw = 0
  /\ r.why = "ready" \/ r.at = "check" => r.child # 0
  /\ r.at \in {"stopped", "spawn"} /\ r.saw # 0 => d[r.saw] = "dead"
  /\ r.at = "started" => r.why = "ready" /\ d[r.child] \in {"serving", "dead"}

DInv ==
  /\ TypeOK
  /\ DaemonHolds
  /\ CommandHolds
  /\ Written
  /\ \A c \in Cmd : Sound(cmd[c], daemon)

(* No step takes a daemon back: d is followed by e. *)
Aged(d, e) ==
  \A p \in Pid :
    /\ d[p] \in Holding => e[p] \in Holding \cup {"dead"}
    /\ d[p] \in {"serving", "dead"} => e[p] \in {d[p], "dead"}

Stages == Alive \cup {"unborn", "refused", "dead"}

--------------------------------------------------------------------------------
(* Lemmas: what all steps have in common. *)

(* What a command knows stays true while the daemons go on. *)
LEMMA Aging ==
  ASSUME NEW d, NEW e, Aged(d, e), NEW r \in Command, Sound(r, d)
  PROVE  Sound(r, e)
<1>1. r.saw # 0 => r.saw \in Pid
  BY DEF Command, Pid
<1>2. r.child # 0 => r.child \in Pid
  BY DEF Command, Pid
<1>3. r.pid # 0 => r.pid \in Pid
  BY DEF Command, Pid
<1>. QED
  BY <1>1, <1>2, <1>3 DEF Sound, Aged

(* A daemon that dies gives its flock back, and only its own. *)
LEMMA Death ==
  ASSUME DInv, NEW p \in Pid, daemon[p] \in Alive, Dies(p)
  PROVE  /\ daemon' \in [Pid -> Stages]
         /\ flock' \in Pid \cup Cmd \cup {NoOne}
         /\ DaemonHolds'
         /\ Aged(daemon, daemon')
         /\ \A c \in Cmd : flock' = c <=> flock = c
<1>. USE DaemonAssumption
<1>1. daemon \in [Pid -> Stages] /\ flock \in Pid \cup Cmd \cup {NoOne}
  BY DEF DInv, TypeOK, Stages
<1>2. daemon' = [daemon EXCEPT ![p] = "dead"] /\ flock' = IF flock = p THEN NoOne ELSE flock
  BY DEF Dies
<1>3. daemon' \in [Pid -> Stages] /\ flock' \in Pid \cup Cmd \cup {NoOne}
  BY <1>1, <1>2 DEF Stages
<1>4. DaemonHolds'
  BY <1>1, <1>2 DEF DInv, DaemonHolds, Holding, Alive, Starting
<1>5. Aged(daemon, daemon')
  BY <1>1, <1>2 DEF Aged
<1>6. \A c \in Cmd : flock' = c <=> flock = c
  BY <1>2
<1>. QED
  BY <1>3, <1>4, <1>5, <1>6

(* A step of a command: of the commands, only it changes what it knows. *)
LEMMA CommandStep ==
  ASSUME DInv, NEW c \in Cmd, NEW r \in Command, Now(c, r), file' = file,
         daemon' \in [Pid -> Stages], flock' \in Pid \cup Cmd \cup {NoOne},
         DaemonHolds', Aged(daemon, daemon'),
         \A o \in Cmd \ {c} : flock' = o <=> flock = o,
         r.at = "unlock" <=> flock' = c,
         Sound(r, daemon')
  PROVE  DInv'
<1>1. cmd' \in [Cmd -> Command] /\ cmd'[c] = r /\ \A o \in Cmd \ {c} : cmd'[o] = cmd[o]
  BY DEF Now, DInv, TypeOK
<1>2. TypeOK'
  BY <1>1 DEF DInv, TypeOK, Stages
<1>3. CommandHolds'
  BY <1>1 DEF DInv, CommandHolds
<1>4. Written'
  <2>1. file.pid # 0 => file.pid \in Pid
    BY DEF DInv, TypeOK, File, Pid
  <2>. QED
    BY <2>1 DEF DInv, Written, Aged
<1>5. ASSUME NEW o \in Cmd PROVE Sound(cmd'[o], daemon')
  BY <1>1, Aging DEF DInv, TypeOK
<1>. QED
  BY <1>2, <1>3, <1>4, <1>5 DEF DInv

(* A step of a command that touches nothing but its own place. *)
LEMMA QuietStep ==
  ASSUME DInv, NEW c \in Cmd, NEW r \in Command, Now(c, r),
         UNCHANGED <<file, flock, daemon>>,
         cmd[c].at # "unlock", r.at # "unlock", Sound(r, daemon)
  PROVE  DInv'
<1>1. DaemonHolds' /\ Aged(daemon, daemon') /\ daemon' \in [Pid -> Stages]
  BY DEF DInv, DaemonHolds, Aged, TypeOK, Stages
<1>2. r.at = "unlock" <=> flock' = c
  BY DEF DInv, CommandHolds
<1>. QED
  BY <1>1, <1>2, CommandStep DEF DInv, TypeOK

--------------------------------------------------------------------------------
(* The initial state, and one lemma for each action. *)

LEMMA InitDInv == Init => DInv
<1>. SUFFICES ASSUME Init PROVE DInv
  OBVIOUS
<1>. USE DaemonAssumption DEF Init, Idle, EmptyFile, Pid
<1>1. TypeOK
  BY DEF TypeOK, File, Command, At, Why
<1>2. DaemonHolds /\ CommandHolds
  BY DEF DaemonHolds, CommandHolds, Holding, Alive, Starting
<1>3. Written /\ \A c \in Cmd : Sound(cmd[c], daemon)
  BY DEF Written, Sound
<1>. QED
  BY <1>1, <1>2, <1>3 DEF DInv

(* A daemon's step on its way, by which it takes the flock or gives up. *)
LEMMA DaemonOnward ==
  ASSUME DInv, NEW p \in Pid, NEW from, NEW to \in Stages, Stage(p, from, to),
         flock' \in Pid \cup Cmd \cup {NoOne}, DaemonHolds',
         \A c \in Cmd : flock' = c <=> flock = c,
         from \in Holding => to \in Holding, from \notin {"serving", "dead"},
         file' \in File, Written', UNCHANGED cmd
  PROVE  DInv'
<1>1. daemon' = [daemon EXCEPT ![p] = to] /\ daemon \in [Pid -> Stages] /\ daemon[p] = from
  BY DEF Stage, DInv, TypeOK, Stages
<1>2. TypeOK'
  BY <1>1 DEF DInv, TypeOK, Stages
<1>3. Aged(daemon, daemon')
  BY <1>1 DEF Aged
<1>4. ASSUME NEW c \in Cmd PROVE Sound(cmd[c], daemon')
  BY <1>3, Aging DEF DInv, TypeOK
<1>. QED
  BY <1>2, <1>4 DEF DInv, CommandHolds

LEMMA AcquireDInv == ASSUME DInv, NEW p \in Pid, Acquire(p) PROVE DInv'
<1>. USE DaemonAssumption
<1>1. Stage(p, "born", "locked") /\ flock = NoOne /\ flock' = p /\ UNCHANGED <<file, cmd>>
  BY DEF Acquire
<1>2. daemon \in [Pid -> Stages] /\ file \in File /\ \A q \in Pid : daemon[q] \notin Holding
  BY <1>1 DEF DInv, TypeOK, Stages, DaemonHolds
<1>3. DaemonHolds'
  BY <1>1, <1>2 DEF Stage, DaemonHolds, Holding, Alive, Starting
<1>4. Written'
  BY <1>1, <1>2 DEF DInv, Written, Stage, File, Pid, Holding, Alive, Starting
<1>. QED
  BY <1>1, <1>2, <1>3, <1>4, DaemonOnward DEF Holding, Stages, Alive, Starting

LEMMA RefusedDInv == ASSUME DInv, NEW p \in Pid, Refused(p) PROVE DInv'
<1>1. Stage(p, "born", "refused") /\ UNCHANGED <<file, flock, cmd>>
  BY DEF Refused
<1>2. daemon \in [Pid -> Stages] /\ file \in File /\ flock \in Pid \cup Cmd \cup {NoOne}
  BY DEF DInv, TypeOK, Stages
<1>3. DaemonHolds'
  BY <1>1, <1>2 DEF DInv, Stage, DaemonHolds, Holding, Alive, Starting
<1>4. Written'
  BY <1>1, <1>2 DEF DInv, Written, Stage, File, Pid, Holding, Alive, Starting
<1>. QED
  BY <1>1, <1>2, <1>3, <1>4, DaemonOnward DEF Holding, Stages, Alive, Starting

LEMMA TruncateDInv == ASSUME DInv, NEW p \in Pid, Truncate(p) PROVE DInv'
<1>1. /\ Stage(p, "locked", "empty") \/ Stage(p, "bind", "reempty")
      /\ file' = EmptyFile /\ UNCHANGED <<flock, cmd>>
  BY DEF Truncate
<1>2. daemon \in [Pid -> Stages] /\ flock \in Pid \cup Cmd \cup {NoOne}
  BY DEF DInv, TypeOK, Stages
<1>3. DaemonHolds'
  BY <1>1, <1>2 DEF DInv, Stage, DaemonHolds, Holding, Alive, Starting
<1>4. Written' /\ file' \in File
  BY <1>1, DaemonAssumption DEF Written, EmptyFile, File
<1>. QED
  BY <1>1, <1>2, <1>3, <1>4, DaemonOnward DEF Holding, Stages, Alive, Starting

(* The ready mark is written by the step with which the daemon begins to serve. *)
LEMMA WriteDInv == ASSUME DInv, NEW p \in Pid, Write(p) PROVE DInv'
<1>1. /\ \/ Stage(p, "empty", "bind") /\ file' = [pid |-> p, ready |-> FALSE]
         \/ Stage(p, "reempty", "serving") /\ file' = [pid |-> p, ready |-> TRUE]
      /\ UNCHANGED <<flock, cmd>>
  BY DEF Write
<1>2. daemon \in [Pid -> Stages] /\ flock \in Pid \cup Cmd \cup {NoOne}
  BY DEF DInv, TypeOK, Stages
<1>3. DaemonHolds'
  BY <1>1, <1>2 DEF DInv, Stage, DaemonHolds, Holding, Alive, Starting
<1>4. p \in 1..MaxPid /\ p # 0 /\ p \in 0..MaxPid
  BY DaemonAssumption DEF Pid
<1>5. file' \in File
  <2>1. [pid |-> p, ready |-> FALSE] \in File /\ [pid |-> p, ready |-> TRUE] \in File
    BY <1>4 DEF File
  <2>. QED
    BY <1>1, <2>1, Zenon
<1>6. daemon'[p] \in Holding /\ (daemon'[p] = "serving" \/ ~file'.ready)
  BY <1>1, <1>2 DEF Stage, Holding, Alive, Starting
<1>7. file'.pid = p
  BY <1>1
<1>8. Written'
  BY <1>4, <1>6, <1>7 DEF Written
<1>. QED
  BY <1>1, <1>2, <1>3, <1>5, <1>8, DaemonOnward DEF Holding, Stages, Alive, Starting

LEMMA ExitDInv == ASSUME DInv, NEW p \in Pid, Exit(p) PROVE DInv'
<1>1. daemon[p] \in Alive /\ Dies(p) /\ UNCHANGED <<file, cmd>>
  BY DEF Exit
<1>2. /\ daemon' \in [Pid -> Stages] /\ flock' \in Pid \cup Cmd \cup {NoOne}
      /\ DaemonHolds' /\ Aged(daemon, daemon') /\ \A c \in Cmd : flock' = c <=> flock = c
  BY <1>1, Death
<1>3. Written'
  BY <1>1, <1>2 DEF DInv, TypeOK, File, Pid, Written, Aged
<1>4. ASSUME NEW c \in Cmd PROVE Sound(cmd[c], daemon')
  BY <1>2, Aging DEF DInv, TypeOK
<1>. QED
  BY <1>1, <1>2, <1>3, <1>4 DEF DInv, TypeOK, CommandHolds, Stages

(* A command that starts, or ends, knows nothing. *)
LEMMA RunDInv ==
  ASSUME DInv, NEW c \in Cmd, NEW op \in {"start", "stop", "status"}, Run(c, op)
  PROVE  DInv'
<1>. DEFINE why == IF op = "stop" THEN "target" ELSE "look"
            r == [Idle EXCEPT !.op = op, !.at = "probe", !.why = why]
<1>1. Idle \in Command /\ Idle.saw = 0 /\ Idle.pid = 0
  BY DaemonAssumption DEF Idle, Command, At, Why
<1>2. why \in {"target", "look"} /\ why \in Why
  BY DEF Why
<1>3. Now(c, r) /\ cmd[c].at = "idle" /\ UNCHANGED <<file, flock, daemon>>
  BY DEF Run
<1>. HIDE DEF why
<1>4. r \in Command /\ r.at = "probe" /\ r.saw = 0 /\ r.why = why /\ r.pid = 0
  BY <1>1, <1>2 DEF Command, At
<1>5. Sound(r, daemon)
  BY <1>2, <1>4 DEF Sound
<1>. QED
  BY <1>3, <1>4, <1>5, QuietStep

LEMMA IdleDInv ==
  ASSUME DInv, NEW c \in Cmd, SignalGroup(c) \/ Done(c)
  PROVE  DInv'
<1>1. Now(c, Idle) /\ UNCHANGED <<file, flock, daemon>> /\ cmd[c].at # "unlock"
  BY DEF SignalGroup, Done
<1>2. Idle \in Command /\ Idle.at # "unlock" /\ Sound(Idle, daemon)
  BY DaemonAssumption DEF Idle, Command, At, Why, Sound
<1>. QED
  BY <1>1, <1>2, QuietStep

(* A command that has found the flock taken. *)
Seen(r, s) == [r EXCEPT !.at = "read", !.saw = s]

LEMMA SeenTyped ==
  ASSUME NEW r \in Command, NEW s \in 0..MaxPid
  PROVE  /\ Seen(r, s) \in Command
         /\ Seen(r, s).at = "read" /\ Seen(r, s).saw = s
         /\ Seen(r, s).why = r.why /\ Seen(r, s).child = r.child
         /\ Seen(r, s).pid = r.pid
  BY DEF Seen, Command, At

(* `state` tries the flock: it is free, or some daemon or command has it. *)
LEMMA TryLockDInv == ASSUME DInv, NEW c \in Cmd, TryLock(c) PROVE DInv'
<1>. USE DaemonAssumption
<1>1. cmd[c] \in Command /\ Sound(cmd[c], daemon) /\ cmd[c].at = "probe"
      /\ daemon \in [Pid -> Stages]
  BY DEF DInv, TypeOK, TryLock, Stages
<1>2. CASE flock = NoOne /\ flock' = c /\ To(c, "unlock") /\ UNCHANGED <<file, daemon>>
  <2>. DEFINE r == [cmd[c] EXCEPT !.at = "unlock"]
  <2>1. r \in Command /\ r.at = "unlock" /\ Sound(r, daemon')
    BY <1>1, <1>2 DEF Command, At, Sound
  <2>2. DaemonHolds' /\ Aged(daemon, daemon') /\ c \notin Pid
    BY <1>1, <1>2 DEF DInv, DaemonHolds, Aged
  <2>. QED
    BY <1>1, <1>2, <2>1, <2>2, CommandStep DEF To
<1>3. CASE /\ flock # NoOne
           /\ Now(c, [cmd[c] EXCEPT !.at = "read",
                        !.saw = IF cmd[c].why = "target" /\ flock \in Pid THEN flock ELSE @])
           /\ UNCHANGED <<file, flock, daemon>>
  <2>. DEFINE h == flock \in Pid
              s == IF cmd[c].why = "target" /\ h THEN flock ELSE cmd[c].saw
              r == Seen(cmd[c], s)
  <2>1. s \in 0..MaxPid
    BY <1>1 DEF Command, Pid
  <2>3. /\ r \in Command /\ r.at = "read" /\ r.saw = s
        /\ r.why = cmd[c].why /\ r.child = cmd[c].child /\ r.pid = cmd[c].pid
    <3>1. cmd[c] \in Command
      BY <1>1
    <3>. HIDE DEF h, s
    <3>. QED
      BY <3>1, <2>1, SeenTyped
  <2>4. s # 0 => daemon[s] \in Holding \cup {"dead"}
    BY <1>1 DEF Sound, DInv, DaemonHolds
  <2>5. Sound(r, daemon)
    BY <1>1, <2>3, <2>4 DEF Sound
  <2>6. Now(c, r) /\ UNCHANGED <<file, flock, daemon>>
    BY <1>3 DEF Seen
  <2>. QED
    BY <1>1, <2>3, <2>5, <2>6, QuietStep, Zenon
<1>. QED
  BY <1>2, <1>3 DEF TryLock

(* The flock is given back: while the command had it no daemon held it, so the *)
(* daemon found before is dead.                                                 *)
LEMMA UnlockDInv == ASSUME DInv, NEW c \in Cmd, Unlock(c) PROVE DInv'
<1>. USE DaemonAssumption
<1>1. cmd[c] \in Command /\ Sound(cmd[c], daemon) /\ cmd[c].at = "unlock"
      /\ daemon \in [Pid -> Stages] /\ flock = c
  BY DEF DInv, TypeOK, CommandHolds, Unlock, Stages
<1>2. flock' = NoOne /\ UNCHANGED <<file, daemon>> /\ NotRunning(c)
  BY DEF Unlock
<1>3. \A p \in Pid : daemon[p] \notin Holding
  BY <1>1 DEF DInv, DaemonHolds
<1>4. DaemonHolds' /\ Aged(daemon, daemon')
  BY <1>2, <1>3 DEF DaemonHolds, Aged
<1>5. cmd[c].saw # 0 => daemon[cmd[c].saw] = "dead"
  BY <1>1, <1>3 DEF Sound, Command, Pid
<1>6. PICK at \in {"idle", "spawn", "stopped", "poll"} : To(c, at)
  BY <1>1, <1>2 DEF NotRunning, Stopped, Command, Why
<1>. DEFINE r == [cmd[c] EXCEPT !.at = at]
<1>7. r \in Command /\ r.at = at /\ Sound(r, daemon')
  BY <1>1, <1>2, <1>5 DEF Command, At, Sound
<1>. QED
  BY <1>1, <1>2, <1>4, <1>6, <1>7, CommandStep DEF To

(* The content of the file is believed only where the ready mark is looked for. *)
LEMMA ReadDInv == ASSUME DInv, NEW c \in Cmd, Read(c) PROVE DInv'
<1>1. cmd[c] \in Command /\ Sound(cmd[c], daemon) /\ cmd[c].at = "read" /\ file \in File
  BY DEF DInv, TypeOK, Read
<1>2. Running(c, file) /\ UNCHANGED <<file, flock, daemon>>
  BY DEF Read
<1>3. CASE cmd[c].op = "status" /\ To(c, "idle")
  <2>. DEFINE r == [cmd[c] EXCEPT !.at = "idle"]
  <2>1. r \in Command /\ r.at = "idle" /\ Sound(r, daemon)
    BY <1>1 DEF Command, At, Sound
  <2>. QED
    BY <1>1, <1>2, <1>3, <2>1, QuietStep DEF To
<1>4. CASE cmd[c].why = "look" /\ Ask(c, "target")
  <2>. DEFINE r == [cmd[c] EXCEPT !.at = "probe", !.why = "target"]
  <2>1. r \in Command /\ r.at = "probe" /\ Sound(r, daemon)
    BY <1>1 DEF Command, At, Why, Sound
  <2>. QED
    BY <1>1, <1>2, <1>4, <2>1, QuietStep DEF Ask
<1>5. CASE Now(c, [cmd[c] EXCEPT !.at = "signal", !.pid = file.pid])
  <2>. DEFINE r == [cmd[c] EXCEPT !.at = "signal", !.pid = file.pid]
  <2>1. file.pid \in 0..MaxPid
    BY <1>1 DEF File
  <2>2. r \in Command /\ r.at = "signal" /\ Sound(r, daemon)
    BY <1>1, <2>1 DEF Command, At, Sound, DInv, Written
  <2>. QED
    BY <1>1, <1>2, <1>5, <2>2, QuietStep
<1>6. CASE To(c, "poll")
  <2>. DEFINE r == [cmd[c] EXCEPT !.at = "poll"]
  <2>1. r \in Command /\ r.at = "poll" /\ Sound(r, daemon)
    BY <1>1 DEF Command, At, Sound
  <2>. QED
    BY <1>1, <1>2, <1>6, <2>1, QuietStep DEF To
<1>7. CASE cmd[c].why = "ready" /\ file = [pid |-> cmd[c].child, ready |-> TRUE]
           /\ To(c, "started")
  <2>. DEFINE r == [cmd[c] EXCEPT !.at = "started"]
  <2>1. daemon[cmd[c].child] \in {"serving", "dead"}
    BY <1>7 DEF DInv, Written
  <2>2. r \in Command /\ r.at = "started" /\ Sound(r, daemon)
    BY <1>1, <1>7, <2>1 DEF Command, At, Sound
  <2>. QED
    BY <1>1, <1>2, <1>7, <2>2, QuietStep DEF To
<1>8. cmd[c].why \in {"look", "target", "term", "kill", "ready"}
  BY <1>1 DEF Command, Why
<1>. QED
  BY <1>2, <1>3, <1>4, <1>5, <1>6, <1>7, <1>8 DEF Running

(* `state` is asked again. *)
LEMMA AskAgain ==
  ASSUME DInv, NEW c \in Cmd, NEW why \in Why, cmd[c].at # "unlock",
         why = "look" => cmd[c].saw = 0, why = "ready" => cmd[c].child # 0,
         file' = file, daemon' \in [Pid -> Stages], flock' \in Pid \cup Cmd \cup {NoOne},
         DaemonHolds', Aged(daemon, daemon'), \A o \in Cmd : flock' = o <=> flock = o,
         Ask(c, why)
  PROVE  DInv'
<1>. DEFINE r == [cmd[c] EXCEPT !.at = "probe", !.why = why]
<1>1. cmd[c] \in Command /\ Sound(cmd[c], daemon)
  BY DEF DInv, TypeOK
<1>2. Sound(cmd[c], daemon')
  BY <1>1, Aging
<1>3. r \in Command /\ r.at = "probe" /\ Sound(r, daemon')
  BY <1>1, <1>2 DEF Command, At, Sound
<1>4. r.at = "unlock" <=> flock' = c
  BY <1>3 DEF DInv, CommandHolds
<1>. QED
  BY <1>3, <1>4, CommandStep DEF Ask

(* Where a command stands that has asked and waits, or has given up. *)
LEMMA Turn ==
  ASSUME DInv, NEW c \in Cmd, NEW at \in {"idle", "signal", "check", "failed"},
         cmd[c].at # "unlock", at = "check" => cmd[c].child # 0,
         file' = file, daemon' \in [Pid -> Stages], flock' \in Pid \cup Cmd \cup {NoOne},
         DaemonHolds', Aged(daemon, daemon'), \A o \in Cmd : flock' = o <=> flock = o,
         To(c, at)
  PROVE  DInv'
<1>. DEFINE r == [cmd[c] EXCEPT !.at = at]
<1>1. cmd[c] \in Command /\ Sound(cmd[c], daemon)
  BY DEF DInv, TypeOK
<1>2. Sound(cmd[c], daemon')
  BY <1>1, Aging
<1>3. r \in Command /\ r.at = at /\ Sound(r, daemon')
  BY <1>1, <1>2 DEF Command, At, Sound
<1>4. r.at = "unlock" <=> flock' = c
  BY <1>3 DEF DInv, CommandHolds
<1>. QED
  BY <1>3, <1>4, CommandStep DEF To

(* Nothing happens to the daemons. *)
LEMMA Calm ==
  ASSUME DInv, UNCHANGED <<daemon, flock>>
  PROVE  /\ daemon' \in [Pid -> Stages] /\ flock' \in Pid \cup Cmd \cup {NoOne}
         /\ DaemonHolds' /\ Aged(daemon, daemon')
         /\ \A o \in Cmd : flock' = o <=> flock = o
  BY DEF DInv, TypeOK, Stages, DaemonHolds, Aged

LEMMA SignalDInv ==
  ASSUME DInv, NEW c \in Cmd, Terminate(c) \/ Kill(c)
  PROVE  DInv'
<1>1. /\ \/ daemon[cmd[c].pid] \in Alive /\ Dies(cmd[c].pid)
         \/ UNCHANGED <<daemon, flock>>
      /\ cmd[c].pid # 0 /\ cmd[c].at = "signal" /\ file' = file
      /\ Ask(c, "term") \/ Ask(c, "kill")
  BY DEF Terminate, Kill
<1>2. cmd[c].pid \in Pid
  BY <1>1 DEF DInv, TypeOK, Command, Pid
<1>. QED
  BY <1>1, <1>2, Death, Calm, AskAgain DEF Why

LEMMA PollDInv == ASSUME DInv, NEW c \in Cmd, Poll(c) PROVE DInv'
<1>1. cmd[c] \in Command /\ Sound(cmd[c], daemon) /\ UNCHANGED <<file, daemon, flock>>
      /\ cmd[c].at = "poll"
  BY DEF DInv, TypeOK, Poll
<1>2. CASE cmd[c].why = "ready"
  BY <1>1, <1>2, Calm, Turn DEF Poll, Sound
<1>3. CASE cmd[c].why # "ready"
  BY <1>1, <1>3, Calm, AskAgain DEF Poll, Sound, Command
<1>. QED
  BY <1>2, <1>3

LEMMA DeadlineDInv == ASSUME DInv, NEW c \in Cmd, Deadline(c) PROVE DInv'
<1>1. cmd[c] \in Command /\ Sound(cmd[c], daemon) /\ cmd[c].at = "poll" /\ file' = file
  BY DEF DInv, TypeOK, Deadline
<1>2. CASE UNCHANGED <<daemon, flock>> /\ (To(c, "signal") \/ To(c, "failed"))
  BY <1>1, <1>2, Calm, Turn
<1>3. CASE /\ cmd[c].why = "ready" /\ daemon[cmd[c].child] \in Alive
           /\ Dies(cmd[c].child) /\ To(c, "failed")
  <2>1. cmd[c].child \in Pid
    BY <1>1, <1>3 DEF Sound, Command, Pid
  <2>. QED
    BY <1>1, <1>3, <2>1, Death, Turn
<1>. QED
  BY <1>2, <1>3 DEF Deadline

(* A new daemon is nobody's, and none that was found before. *)
LEMMA SpawnDInv == ASSUME DInv, NEW c \in Cmd, Spawn(c) PROVE DInv'
<1>1. PICK p \in Pid : /\ daemon[p] = "unborn"
                       /\ daemon' = [daemon EXCEPT ![p] = "born"]
                       /\ Now(c, [cmd[c] EXCEPT !.at = "check", !.child = p])
  BY DEF Spawn
<1>2. cmd[c] \in Command /\ Sound(cmd[c], daemon) /\ daemon \in [Pid -> Stages]
      /\ flock \in Pid \cup Cmd \cup {NoOne} /\ cmd[c].at = "spawn"
      /\ UNCHANGED <<file, flock>>
  BY DEF DInv, TypeOK, Stages, Spawn
<1>3. /\ daemon' \in [Pid -> Stages] /\ Aged(daemon, daemon')
      /\ DaemonHolds'
  BY <1>1, <1>2 DEF DInv, DaemonHolds, Aged, Stages, Holding, Alive, Starting
<1>. DEFINE r == [cmd[c] EXCEPT !.at = "check", !.child = p]
<1>4. p # 0 /\ p \in 0..MaxPid
  BY DaemonAssumption DEF Pid
<1>5. Sound(cmd[c], daemon')
  BY <1>2, <1>3, Aging
<1>6. r \in Command /\ r.at = "check" /\ Sound(r, daemon')
  BY <1>2, <1>4, <1>5 DEF Command, At, Sound
<1>7. r.at = "unlock" <=> flock' = c
  BY <1>2, <1>6 DEF DInv, CommandHolds
<1>. QED
  BY <1>1, <1>2, <1>3, <1>6, <1>7, CommandStep

LEMMA CheckDInv == ASSUME DInv, NEW c \in Cmd, Check(c) PROVE DInv'
<1>1. cmd[c] \in Command /\ Sound(cmd[c], daemon) /\ cmd[c].at = "check"
      /\ UNCHANGED <<file, flock, daemon>>
  BY DEF DInv, TypeOK, Check
<1>2. cmd[c].child # 0
  BY <1>1 DEF Sound
<1>. QED
  BY <1>1, <1>2, Calm, AskAgain, Turn DEF Check, Why

LEMMA OutOfPidsDInv == ASSUME DInv, NEW c \in Cmd, OutOfPids(c) PROVE DInv'
<1>1. cmd[c].at = "spawn" /\ To(c, "failed") /\ UNCHANGED <<file, flock, daemon>>
  BY DEF OutOfPids
<1>. QED
  BY <1>1, Calm, Turn

--------------------------------------------------------------------------------
(* The theorems. *)

(* In every reachable state the flock is with whom the stages and places say, *)
(* the ready mark is that of a daemon that has served, and what the commands   *)
(* know is so.                                                                 *)
THEOREM Invariance == Spec => []DInv
<1>1. DInv /\ [Next]_vars => DInv'
  <2>. SUFFICES ASSUME DInv, [Next]_vars PROVE DInv'
    OBVIOUS
  <2>1. ASSUME NEW c \in Cmd, NEW op \in {"start", "stop", "status"}, Run(c, op)
        PROVE  DInv'
    BY <2>1, RunDInv
  <2>2. ASSUME NEW c \in Cmd, CmdStep(c) \/ Deadline(c) PROVE DInv'
    BY <2>2, TryLockDInv, UnlockDInv, ReadDInv, IdleDInv, SignalDInv, PollDInv,
       SpawnDInv, OutOfPidsDInv, CheckDInv, DeadlineDInv DEF CmdStep
  <2>3. ASSUME NEW p \in Pid, DaemonStep(p) \/ Exit(p) PROVE DInv'
    BY <2>3, AcquireDInv, RefusedDInv, TruncateDInv, WriteDInv, ExitDInv DEF DaemonStep
  <2>4. CASE UNCHANGED vars
    BY <2>4 DEF vars, DInv, TypeOK, DaemonHolds, CommandHolds, Written
  <2>. QED
    BY <2>1, <2>2, <2>3, <2>4 DEF Next
<1>. QED
  BY InitDInv, <1>1, PTL DEF Spec

(* Every variable of Daemon keeps its type. *)
THEOREM TypeCorrect == Spec => []TypeOK
<1>1. DInv => TypeOK
  BY DEF DInv
<1>. QED
  BY <1>1, Invariance, PTL

(* No two daemons are past `acquire`, however many start and whoever probes: *)
(* each of them is the holder of the flock.                                   *)
THEOREM OneDaemon == Spec => []SingleInstance
<1>1. DInv => SingleInstance
  BY DEF DInv, DaemonHolds, Holding, SingleInstance
<1>. QED
  BY <1>1, Invariance, PTL

(* "started" is said of a daemon that has bound its ports. *)
THEOREM StartIsTrue == Spec => []StartedIsServing
<1>1. DInv => StartedIsServing
  BY DEF DInv, Sound, StartedIsServing
<1>. QED
  BY <1>1, Invariance, PTL

(* "stopped" is said when the daemon that was found running is gone. *)
THEOREM StopIsTrue == Spec => []StoppedIsGone
<1>1. DInv => StoppedIsGone
  BY DEF DInv, Sound, StoppedIsGone
<1>. QED
  BY <1>1, Invariance, PTL

(* A process that a command is about to signal is the holder of the flock or *)
(* is dead, whenever the pid was read; a file without a pid is left out.     *)
THEOREM SignalIsMeant == Spec => []SignalsHolder
<1>1. ASSUME DInv, NEW c \in Cmd, cmd[c].pid # 0
      PROVE  flock = cmd[c].pid \/ daemon[cmd[c].pid] = "dead"
  <2>1. cmd[c].pid \in Pid /\ Sound(cmd[c], daemon)
    BY <1>1 DEF DInv, TypeOK, Command, Pid
  <2>. QED
    BY <1>1, <2>1 DEF DInv, DaemonHolds, Sound
<1>2. DInv => SignalsHolder
  BY <1>1 DEF SignalsHolder
<1>. QED
  BY <1>2, Invariance, PTL
================================================================================
