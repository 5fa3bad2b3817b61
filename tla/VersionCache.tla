------------------------------ MODULE VersionCache ------------------------------
(***************************************************************************)
(* The Codex version the daemon presents upstream: provider.rs             *)
(* `codex_cli_version` caches the newest of a floor, the installed CLI and *)
(* the release that main.rs's probe loop has learned from GitHub.  The     *)
(* cache and the learned release have a std Mutex each, taken in one order *)
(* by readers and in the other by the probe.  Versions are numbers.        *)
(***************************************************************************)
EXTENDS Integers, FiniteSetsExt

CONSTANTS
  Getter,      \* threads that build requests for Codex
  Probe,       \* the thread that runs the probe loop
  NoThread,    \* the holder of a free mutex
  Floor,       \* CODEX_CLI_VERSION_FLOOR
  MaxVersion,  \* bound: the newest version ever installed or released
  RetryMin,    \* PROBE_RETRY_MIN, in seconds
  Interval     \* PROBE_INTERVAL, in seconds

Thread == Getter \cup {Probe}

ASSUME VersionAssumption ==
  /\ Probe \notin Getter /\ NoThread \notin Thread
  /\ Floor \in 1..MaxVersion /\ MaxVersion \in Nat
  /\ RetryMin \in 1..Interval /\ Interval \in Nat

VARIABLES
  cacheLock,    \* holder of the mutex in CODEX_VERSION
  cache,        \* its content: a version, 0 when empty
  expired,      \* the content is older than VERSION_TTL
  learnedLock,  \* holder of LEARNED_CODEX_FLOOR
  learned,      \* its content, 0 for None
  installed,    \* the version the files of the local CLI name, 0 without one
  latest,       \* the latest release on GitHub
  pc,           \* where each thread is
  seen,         \* the learned release a reader has cloned
  tag,          \* the release the probe was told
  retry         \* the probe's backoff in seconds, 0 for None

locks == <<cacheLock, learnedLock>>
world == <<installed, latest>>
vars == <<locks, cache, expired, learned, world, pc, seen, tag, retry>>

Version == 0..MaxVersion
PC == {"idle", "get", "learned", "compute", "ask", "learn", "clear"}

TypeOK ==
  /\ cacheLock \in Thread \cup {NoThread}
  /\ learnedLock \in Thread \cup {NoThread}
  /\ cache \in Version /\ learned \in Version
  /\ installed \in Version /\ latest \in Version
  /\ expired \in BOOLEAN
  /\ pc \in [Thread -> PC]
  /\ seen \in [Thread -> Version]
  /\ tag \in Version
  /\ retry \in 0..Interval

Init ==
  /\ cacheLock = NoThread /\ learnedLock = NoThread
  /\ cache = 0 /\ expired = FALSE /\ learned = 0
  /\ installed \in {0, Floor} /\ latest = Floor
  /\ pc = [t \in Thread |-> IF t = Probe THEN "get" ELSE "idle"]
  /\ seen = [t \in Thread |-> 0]
  /\ tag = 0
  /\ retry = 0

Goto(t, to) == pc' = [pc EXCEPT ![t] = to]

(* The probe asks for the user agent first and goes on to GitHub with it. *)
AfterGet(t) == IF t = Probe THEN "ask" ELSE "idle"

--------------------------------------------------------------------------------
(* VersionCache::get with the closure of codex_cli_version. *)

Begin(t) ==
  /\ t \in Getter
  /\ pc[t] = "idle"
  /\ Goto(t, "get")
  /\ UNCHANGED <<locks, cache, expired, learned, world, seen, tag, retry>>

(* Mutant: the cache is unlocked while the version is computed. *)
LockCacheBriefly(t) ==
  /\ pc[t] = "get"
  /\ cacheLock = NoThread
  /\ \/ /\ cache # 0 /\ ~expired
        /\ Goto(t, AfterGet(t))
     \/ /\ cache = 0 \/ expired
        /\ Goto(t, "learned")
  /\ UNCHANGED <<locks, cache, expired, learned, world, seen, tag, retry>>

LockCache(t) ==
  /\ pc[t] = "get"
  /\ cacheLock = NoThread
  /\ \/ /\ cache # 0 /\ ~expired
        /\ Goto(t, AfterGet(t))
        /\ UNCHANGED cacheLock
     \/ /\ cache = 0 \/ expired
        /\ Goto(t, "learned")
        /\ cacheLock' = t
  /\ UNCHANGED <<cache, expired, learnedLock, learned, world, seen, tag, retry>>

CloneLearned(t) ==
  /\ pc[t] = "learned"
  /\ learnedLock = NoThread
  /\ seen' = [seen EXCEPT ![t] = learned]
  /\ Goto(t, "compute")
  /\ UNCHANGED <<locks, cache, expired, learned, world, tag, retry>>

Compute(t) ==
  /\ pc[t] = "compute"
  /\ cache' = Max({Floor, installed, seen[t]})
  /\ expired' = FALSE
  /\ cacheLock' = NoThread
  /\ seen' = [seen EXCEPT ![t] = 0]
  /\ Goto(t, AfterGet(t))
  /\ UNCHANGED <<learnedLock, learned, world, tag, retry>>

--------------------------------------------------------------------------------
(* server.rs learn_codex_latest, then provider.rs learn_codex_latest. *)

(* Sleep over: not logged in to Codex counts as a failure, see Failed. *)
Wake ==
  /\ pc[Probe] = "idle"
  /\ Goto(Probe, "get")
  /\ UNCHANGED <<locks, cache, expired, learned, world, seen, tag, retry>>

Told ==
  /\ pc[Probe] = "ask"
  /\ tag' = latest
  /\ Goto(Probe, "learn")
  /\ UNCHANGED <<locks, cache, expired, learned, world, seen, retry>>

(* Mutant: the cap is applied to the wait that is doubled, not to the result. *)
NextRetryUncapped(prev) == IF prev = 0 THEN RetryMin ELSE Min({prev, Interval}) * 2

NextRetry(prev) == IF prev = 0 THEN RetryMin ELSE Min({prev * 2, Interval})

(* Nobody logged in, GitHub out of reach, or a tag that is no X.Y.Z. *)
Failed ==
  /\ pc[Probe] \in {"get", "ask"}
  /\ retry' = NextRetry(retry)
  /\ Goto(Probe, "idle")
  /\ UNCHANGED <<locks, cache, expired, learned, world, seen, tag>>

LockLearned ==
  /\ pc[Probe] = "learn"
  /\ learnedLock = NoThread
  /\ \/ /\ learned = tag
        /\ Goto(Probe, "idle")
        /\ retry' = 0
        /\ UNCHANGED <<learned, learnedLock>>
     \/ /\ learned # tag
        /\ learned' = tag
        /\ learnedLock' = Probe
        /\ Goto(Probe, "clear")
        /\ UNCHANGED retry
  /\ tag' = 0
  /\ UNCHANGED <<cacheLock, cache, expired, world, seen>>

(* CODEX_VERSION.clear(), still holding LEARNED_CODEX_FLOOR. *)
Clear ==
  /\ pc[Probe] = "clear"
  /\ cacheLock = NoThread
  /\ cache' = 0
  /\ learnedLock' = NoThread
  /\ retry' = 0
  /\ Goto(Probe, "idle")
  /\ UNCHANGED <<cacheLock, expired, learned, world, seen, tag>>

--------------------------------------------------------------------------------
(* VERSION_TTL runs out; the local CLI is upgraded; Codex is released. *)

Expire ==
  /\ cache # 0 /\ ~expired
  /\ expired' = TRUE
  /\ UNCHANGED <<locks, cache, learned, world, pc, seen, tag, retry>>

Upgrade ==
  /\ installed < MaxVersion
  /\ installed' = installed + 1
  /\ UNCHANGED <<locks, cache, expired, learned, latest, pc, seen, tag, retry>>

Release ==
  /\ latest < MaxVersion
  /\ latest' = latest + 1
  /\ UNCHANGED <<locks, cache, expired, learned, installed, pc, seen, tag, retry>>

Get(t) == LockCache(t) \/ CloneLearned(t) \/ Compute(t)
Learn == Told \/ Failed \/ LockLearned \/ Clear

Next ==
  \/ \E t \in Thread : Begin(t) \/ Get(t)
  \/ Wake \/ Learn
  \/ Expire \/ Upgrade \/ Release

Spec == Init /\ [][Next]_vars

(* Every mutex is granted in turn, timers fire and GitHub answers or fails. *)
FairSpec ==
  /\ Spec
  /\ \A t \in Thread : SF_vars(LockCache(t)) /\ SF_vars(CloneLearned(t)) /\ WF_vars(Compute(t))
  /\ WF_vars(Wake) /\ WF_vars(Told \/ Failed) /\ SF_vars(LockLearned) /\ SF_vars(Clear)

--------------------------------------------------------------------------------

(***************************************************************************)
(* provider.rs "有变化才让缓存失效": once a release is learned no reader   *)
(* gets an older version, also when it was computing one at that moment.   *)
(***************************************************************************)
LearnedIsServed ==
  cache # 0 /\ learnedLock = NoThread => cache >= learned

(***************************************************************************)
(* main.rs "失败改为 30s 起翻倍重试": after a failure the probe waits      *)
(* longer than before, or exactly the hour it is capped at.                *)
(***************************************************************************)
ProbeBacksOff ==
  [][retry' # 0 /\ pc[Probe] # "idle" /\ pc'[Probe] = "idle" =>
       retry' \in RetryMin..Interval /\ (retry' > retry \/ retry' = Interval)]_vars

(***************************************************************************)
(* main.rs "启动即取一次最新发版号, 之后每小时一次": every probe comes to  *)
(* its end, and with it the next one.                                      *)
(***************************************************************************)
ProbeGoesOn == pc[Probe] # "idle" ~> pc[Probe] = "idle"
================================================================================
