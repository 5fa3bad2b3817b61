------------------------------ MODULE TokenRefresh ------------------------------
(***************************************************************************)
(* src/auth.rs and the loop of passthrough.rs `upstream`, for one provider *)
(* (each has its own slot, lock file and entry in auth.json).  A request   *)
(* asks `token` for a credential, sends it upstream and may come back with *)
(* the token that was rejected.  `token` holds the slot mutex of its       *)
(* process; when a refresh is needed the mutex moves into a task of its    *)
(* own, so that a client that hangs up cancels only its own waiting.  The  *)
(* task takes the refresh lock file, shared by all processes, and reads    *)
(* auth.json again before it talks to the token endpoint.                  *)
(*                                                                         *)
(* auth.json is the atomic map of CredentialStore, which AuthStore shows   *)
(* the code to implement.  Tokens are numbered in the order the provider   *)
(* mints them; access token n and refresh token n are minted together.     *)
(***************************************************************************)
EXTENDS Integers

CONSTANTS
  Caller,       \* requests that need a credential
  Lister,       \* those among them that list models
  Process,      \* the daemon and the command-line processes
  ProcessOf,    \* the process each request is served by
  Account,      \* the accounts a user may log in with
  NoProcess,    \* the holder of the refresh lock when it is free
  MaxAttempts,  \* MAX_ATTEMPTS
  MaxToken      \* bound: the tokens a provider mints in one behaviour

ASSUME RefreshAssumption ==
  /\ ProcessOf \in [Caller -> Process]
  /\ Lister \subseteq Caller
  /\ NoProcess \notin Process
  /\ MaxAttempts \in Nat \ {0}
  /\ MaxToken \in Nat \ {0}

VARIABLES
  disk,      \* the provider's entry in auth.json
  slot,      \* per process, whether its AuthManager has a credential in memory
  task,      \* per process, the refresh task, which owns the slot mutex
  flock,     \* the process that holds refresh-<provider>.lock
  pc,        \* where each request is
  attempt,   \* its `attempt`
  rejected,  \* its `rejected_token`, 0 for None
  using,     \* the access token it got from `token`, 0 before that
  age,       \* per access token: how much of its life is left
  minted,    \* how many tokens the provider has minted
  live,      \* the refresh tokens the provider still exchanges
  spoiled,   \* history: exchanged, but the successor never reached auth.json
  wanted,    \* history: the account of the last login, "nobody" after a logout
  raced      \* history: that login or logout met a refresh in flight

upstreamVars == <<minted, live, spoiled>>
requestVars == <<pc, attempt, rejected, using>>
userVars == <<wanted, raced>>
vars == <<disk, slot, task, flock, requestVars, age, upstreamVars, userVars>>

Token == 1..MaxToken
Credential == [access : Token, refresh : Token, account : Account]
NoCredential == [access |-> 0, refresh |-> 0, account |-> "nobody"]

NoTask == [stage |-> "none", caller |-> "none", rejected |-> 0,
           cred |-> NoCredential, fresh |-> NoCredential]

(* Stages of `refresh`: waiting for the lock file, exchanging, saving. *)
Task == [stage : {"lock", "exchange", "save"}, caller : Caller,
         rejected : 0..MaxToken,
         cred : Credential \cup {NoCredential},
         fresh : Credential \cup {NoCredential}]

TypeOK ==
  /\ disk \in Credential \cup {NoCredential}
  /\ slot \in [Process -> BOOLEAN]
  /\ task \in [Process -> Task \cup {NoTask}]
  /\ flock \in Process \cup {NoProcess}
  /\ pc \in [Caller -> {"idle", "list", "empty", "token", "await", "send"}]
  /\ attempt \in [Caller -> 0..MaxAttempts]
  /\ rejected \in [Caller -> 0..MaxToken]
  /\ using \in [Caller -> 0..MaxToken]
  /\ age \in [Token -> {"fresh", "margin", "expired"}]
  /\ minted \in 0..MaxToken
  /\ live \in SUBSET Token
  /\ spoiled \in SUBSET Token
  /\ wanted \in Account \cup {"nobody"}
  /\ raced \in BOOLEAN

(* Logged in, with a daemon that has loaded the credential. *)
Init ==
  /\ \E a \in Account :
       /\ disk = [access |-> 1, refresh |-> 1, account |-> a]
       /\ wanted = a
  /\ slot = [p \in Process |-> TRUE]
  /\ task = [p \in Process |-> NoTask]
  /\ flock = NoProcess
  /\ pc = [c \in Caller |-> "idle"]
  /\ attempt = [c \in Caller |-> 0]
  /\ rejected = [c \in Caller |-> 0]
  /\ using = [c \in Caller |-> 0]
  /\ age = [n \in Token |-> "fresh"]
  /\ minted = 1
  /\ live = {1}
  /\ spoiled = {}
  /\ raced = FALSE

--------------------------------------------------------------------------------
(* Requests: passthrough.rs `upstream` and server.rs `listed`. *)

(* REFRESH_MARGIN is crossed when the age is no longer "fresh". *)
RefreshNeeded(cred, rej) == age[cred.access] # "fresh" \/ rej = cred.access

SlotFree(p) == task[p] = NoTask

(* The request is over: answered, failed, or abandoned by its client. *)
Finished(c) ==
  /\ pc' = [pc EXCEPT ![c] = "idle"]
  /\ attempt' = [attempt EXCEPT ![c] = 0]
  /\ rejected' = [rejected EXCEPT ![c] = 0]
  /\ using' = [using EXCEPT ![c] = 0]

(* One more turn of the loop; `rej` is the rejected token it carries. *)
TryAgain(c, rej) ==
  /\ pc' = [pc EXCEPT ![c] = "token"]
  /\ attempt' = [attempt EXCEPT ![c] = @ + 1]
  /\ rejected' = [rejected EXCEPT ![c] = rej]
  /\ using' = [using EXCEPT ![c] = 0]

(* The request goes out on access token n. *)
Sending(c, n) ==
  /\ pc' = [pc EXCEPT ![c] = "send"]
  /\ using' = [using EXCEPT ![c] = n]
  /\ UNCHANGED <<attempt, rejected>>

Begin(c) ==
  /\ c \notin Lister
  /\ pc[c] = "idle"
  /\ TryAgain(c, 0)
  /\ UNCHANGED <<disk, slot, task, flock, age, upstreamVars, userVars>>

(* GET /v1/models, `models`: the in-memory slot decides whether to ask at all. *)
BeginList(c) ==
  /\ c \in Lister
  /\ pc[c] = "idle"
  /\ pc' = [pc EXCEPT ![c] = "list"]
  /\ UNCHANGED <<disk, slot, task, flock, attempt, rejected, using, age,
                 upstreamVars, userVars>>

Snapshot(c) ==
  /\ pc[c] = "list"
  /\ SlotFree(ProcessOf[c])
  /\ \/ /\ ~slot[ProcessOf[c]]
        /\ pc' = [pc EXCEPT ![c] = "empty"]
        /\ UNCHANGED <<attempt, rejected, using>>
     \/ /\ slot[ProcessOf[c]]
        /\ TryAgain(c, 0)
  /\ UNCHANGED <<disk, slot, task, flock, age, upstreamVars, userVars>>

AnswerEmpty(c) ==
  /\ pc[c] = "empty"
  /\ Finished(c)
  /\ UNCHANGED <<disk, slot, task, flock, age, upstreamVars, userVars>>

(* The task that is spawned to refresh for c. *)
Started(c) == [stage |-> "lock", caller |-> c, rejected |-> rejected[c],
               cred |-> NoCredential, fresh |-> NoCredential]

(***************************************************************************)
(* `token`: with the slot mutex, read auth.json; fail if not logged in,    *)
(* use the token if it is good, or hand the mutex to a refresh task.       *)
(***************************************************************************)
GetToken(c) ==
  LET p == ProcessOf[c] IN
  /\ pc[c] = "token"
  /\ SlotFree(p)
  /\ slot' = [slot EXCEPT ![p] = disk # NoCredential]
  /\ \/ /\ disk = NoCredential
        /\ Finished(c)
        /\ UNCHANGED task
     \/ /\ disk # NoCredential /\ ~RefreshNeeded(disk, rejected[c])
        /\ Sending(c, disk.access)
        /\ UNCHANGED task
     \/ /\ disk # NoCredential /\ RefreshNeeded(disk, rejected[c])
        /\ task' = [task EXCEPT ![p] = Started(c)]
        /\ pc' = [pc EXCEPT ![c] = "await"]
        /\ UNCHANGED <<attempt, rejected, using>>
  /\ UNCHANGED <<disk, flock, age, upstreamVars, userVars>>

RetryLeft(c) == attempt[c] < MaxAttempts

(* Mutant: a 401 on the last attempt is retried too. *)
UnauthorizedAlways(c) ==
  /\ pc[c] = "send"
  /\ IF rejected[c] = 0 THEN TryAgain(c, using[c]) ELSE Finished(c)
  /\ UNCHANGED <<disk, slot, task, flock, age, upstreamVars, userVars>>

(* Upstream rejects the token: force a refresh, once per request. *)
Unauthorized(c) ==
  /\ pc[c] = "send"
  /\ IF rejected[c] = 0 /\ RetryLeft(c) THEN TryAgain(c, using[c]) ELSE Finished(c)
  /\ UNCHANGED <<disk, slot, task, flock, age, upstreamVars, userVars>>

(* A retryable status or a failed connect; the sleep before it is not shown. *)
Transient(c) ==
  /\ pc[c] = "send"
  /\ IF RetryLeft(c) THEN TryAgain(c, rejected[c]) ELSE Finished(c)
  /\ UNCHANGED <<disk, slot, task, flock, age, upstreamVars, userVars>>

(* Any other answer or error is the client's. *)
Replied(c) ==
  /\ pc[c] = "send"
  /\ Finished(c)
  /\ UNCHANGED <<disk, slot, task, flock, age, upstreamVars, userVars>>

(* Mutant: the refresh runs inside the request, and dies with it. *)
HangUpInlined(c) ==
  /\ pc[c] # "idle"
  /\ Finished(c)
  /\ task' = [p \in Process |-> IF task[p].caller = c THEN NoTask ELSE task[p]]
  /\ flock' = IF flock = ProcessOf[c] /\ task[flock].caller = c THEN NoProcess ELSE flock
  /\ UNCHANGED <<disk, slot, age, upstreamVars, userVars>>

(* The client hangs up: its future is dropped, the refresh task is not. *)
HangUp(c) ==
  /\ pc[c] # "idle"
  /\ Finished(c)
  /\ UNCHANGED <<disk, slot, task, flock, age, upstreamVars, userVars>>

--------------------------------------------------------------------------------
(* The refresh task of process p. *)

(* Mutant: the refresh lock is kept when the refresh is over. *)
TaskEndsLocked(p) == task' = [task EXCEPT ![p] = NoTask] /\ UNCHANGED flock

(* Its guards are dropped; the caller gets the result if it still waits. *)
TaskEnds(p) ==
  /\ task' = [task EXCEPT ![p] = NoTask]
  /\ flock' = IF flock = p THEN NoProcess ELSE flock

Abandoned(p) == pc[task[p].caller] # "await"

Resolve(p, cred) ==
  /\ TaskEnds(p)
  /\ IF Abandoned(p) THEN UNCHANGED requestVars
                     ELSE Sending(task[p].caller, cred.access)

Reject(p) ==
  /\ TaskEnds(p)
  /\ IF Abandoned(p) THEN UNCHANGED requestVars ELSE Finished(task[p].caller)

(* The lock file or auth.json cannot be opened. *)
RefreshError(p) ==
  /\ task[p].stage = "lock"
  /\ Reject(p)
  /\ UNCHANGED <<disk, slot, age, upstreamVars, userVars>>

(* Mutant: `let _ = refresh_lock(..)` drops the lock as soon as it is taken. *)
LockDropped(p) ==
  /\ task[p].stage = "lock"
  /\ flock = NoProcess
  /\ slot' = [slot EXCEPT ![p] = disk # NoCredential]
  /\ \/ /\ disk = NoCredential
        /\ Reject(p)
     \/ /\ disk # NoCredential /\ ~RefreshNeeded(disk, task[p].rejected)
        /\ Resolve(p, disk)
     \/ /\ disk # NoCredential /\ RefreshNeeded(disk, task[p].rejected)
        /\ task' = [task EXCEPT ![p].stage = "exchange", ![p].cred = disk]
        /\ UNCHANGED <<flock, requestVars>>
  /\ UNCHANGED <<disk, age, upstreamVars, userVars>>

(* With the lock: another process may have refreshed while this one waited. *)
LockAndReload(p) ==
  /\ task[p].stage = "lock"
  /\ flock = NoProcess
  /\ slot' = [slot EXCEPT ![p] = disk # NoCredential]
  /\ \/ /\ disk = NoCredential
        /\ Reject(p)
     \/ /\ disk # NoCredential /\ ~RefreshNeeded(disk, task[p].rejected)
        /\ Resolve(p, disk)
     \/ /\ disk # NoCredential /\ RefreshNeeded(disk, task[p].rejected)
        /\ flock' = p
        /\ task' = [task EXCEPT ![p].stage = "exchange", ![p].cred = disk]
        /\ UNCHANGED requestVars
  /\ UNCHANGED <<disk, age, upstreamVars, userVars>>

(* Mutant: the old token is kept although upstream has rejected it. *)
FailedKeepsRejected(p) ==
  IF age[task[p].cred.access] # "expired" THEN Resolve(p, task[p].cred) ELSE Reject(p)

(* Mutant: the old token is kept although it has expired. *)
FailedKeepsExpired(p) ==
  IF task[p].rejected # task[p].cred.access THEN Resolve(p, task[p].cred) ELSE Reject(p)

(* A failed refresh keeps the old token in use while it is valid. *)
RefreshFailed(p) ==
  LET cred == task[p].cred
      afterUnauthorized == task[p].rejected = cred.access
  IN IF ~afterUnauthorized /\ age[cred.access] # "expired"
     THEN Resolve(p, cred) ELSE Reject(p)

(* The new token; a reply without a refresh token keeps the old one. *)
Fresh(cred, rotates) ==
  [cred EXCEPT !.access = minted + 1,
               !.refresh = IF rotates THEN minted + 1 ELSE cred.refresh]

(* The provider's side of an exchange: rotation retires the old refresh token. *)
Mint(cred, rotates) ==
  /\ cred.refresh \in live
  /\ minted < MaxToken
  /\ minted' = minted + 1
  /\ live' = IF rotates THEN (live \ {cred.refresh}) \cup {minted + 1} ELSE live

(* Mutant: the lock file covers the exchange but not the saving. *)
ExchangeUnlocks(p, rotates) ==
  /\ task[p].stage = "exchange"
  /\ Mint(task[p].cred, rotates)
  /\ task' = [task EXCEPT ![p].stage = "save",
                          ![p].fresh = Fresh(task[p].cred, rotates)]
  /\ flock' = NoProcess
  /\ UNCHANGED <<disk, slot, requestVars, age, spoiled, userVars>>

Exchange(p, rotates) ==
  /\ task[p].stage = "exchange"
  /\ Mint(task[p].cred, rotates)
  /\ task' = [task EXCEPT ![p].stage = "save",
                          ![p].fresh = Fresh(task[p].cred, rotates)]
  /\ UNCHANGED <<disk, slot, flock, requestVars, age, spoiled, userVars>>

(* The provider rotates and its reply is lost. *)
ExchangeLost(p) ==
  /\ task[p].stage = "exchange"
  /\ Mint(task[p].cred, TRUE)
  /\ spoiled' = spoiled \cup {task[p].cred.refresh}
  /\ RefreshFailed(p)
  /\ UNCHANGED <<disk, slot, age, userVars>>

(* Mutant: an entry whose refresh is refused is dropped from auth.json. *)
RefusedLogsOut(p) ==
  /\ task[p].stage = "exchange"
  /\ RefreshFailed(p)
  /\ disk' = NoCredential
  /\ UNCHANGED <<slot, age, upstreamVars, userVars>>

(* invalid_grant, an error status, or a request that never arrived. *)
ExchangeRefused(p) ==
  /\ task[p].stage = "exchange"
  /\ RefreshFailed(p)
  /\ UNCHANGED <<disk, slot, age, upstreamVars, userVars>>

Save(p) ==
  /\ task[p].stage = "save"
  /\ disk' = task[p].fresh
  /\ slot' = [slot EXCEPT ![p] = TRUE]
  /\ Resolve(p, task[p].fresh)
  /\ UNCHANGED <<age, upstreamVars, userVars>>

(* The refresh token that is lost when the task's new one is not saved. *)
Unsaved(p) ==
  IF task[p].stage = "save" /\ task[p].fresh.refresh # task[p].cred.refresh
  THEN {task[p].cred.refresh} ELSE {}

SaveError(p) ==
  /\ task[p].stage = "save"
  /\ spoiled' = spoiled \cup Unsaved(p)
  /\ Reject(p)
  /\ UNCHANGED <<disk, slot, age, minted, live, userVars>>

(* The process ends, with every task in it, and a new one loads auth.json. *)
Restart(p) ==
  LET dead == {c \in Caller : ProcessOf[c] = p} IN
  /\ TaskEnds(p)
  /\ spoiled' = spoiled \cup Unsaved(p)
  /\ slot' = [slot EXCEPT ![p] = disk # NoCredential]
  /\ pc' = [c \in Caller |-> IF c \in dead THEN "idle" ELSE pc[c]]
  /\ attempt' = [c \in Caller |-> IF c \in dead THEN 0 ELSE attempt[c]]
  /\ rejected' = [c \in Caller |-> IF c \in dead THEN 0 ELSE rejected[c]]
  /\ using' = [c \in Caller |-> IF c \in dead THEN 0 ELSE using[c]]
  /\ UNCHANGED <<disk, age, minted, live, userVars>>

--------------------------------------------------------------------------------
(* The user's command-line processes, and time. *)

InFlight(p) == task[p].stage \in {"exchange", "save"}

(* `login` stores what the provider granted; it takes no refresh lock. *)
Login(a) ==
  /\ minted < MaxToken
  /\ minted' = minted + 1
  /\ live' = live \cup {minted + 1}
  /\ disk' = [access |-> minted + 1, refresh |-> minted + 1, account |-> a]
  /\ wanted' = a
  /\ raced' = \E p \in Process : InFlight(p)
  /\ UNCHANGED <<slot, task, flock, requestVars, age, spoiled>>

Logout ==
  /\ disk' = NoCredential
  /\ wanted' = "nobody"
  /\ raced' = \E p \in Process : InFlight(p)
  /\ UNCHANGED <<slot, task, flock, requestVars, age, upstreamVars>>

(* Time passes for a credential that somebody may still look at; a token    *)
(* lives for hours, so it does not expire while the refresh is saving it.   *)
Tick(n) ==
  /\ \/ n = disk.access
     \/ \E p \in Process : n = task[p].cred.access
  /\ \/ age[n] = "fresh" /\ age' = [age EXCEPT ![n] = "margin"]
     \/ age[n] = "margin" /\ age' = [age EXCEPT ![n] = "expired"]
  /\ UNCHANGED <<disk, slot, task, flock, requestVars, upstreamVars, userVars>>

AnswerOf(c) == Unauthorized(c) \/ Transient(c) \/ Replied(c)

TaskStep(p) ==
  \/ LockAndReload(p)
  \/ \E rotates \in BOOLEAN : Exchange(p, rotates)
  \/ ExchangeLost(p) \/ ExchangeRefused(p)
  \/ Save(p) \/ SaveError(p)

Next ==
  \/ \E c \in Caller :
       \/ Begin(c) \/ BeginList(c) \/ Snapshot(c) \/ AnswerEmpty(c)
       \/ GetToken(c) \/ AnswerOf(c) \/ HangUp(c)
  \/ \E p \in Process : TaskStep(p) \/ RefreshError(p) \/ Restart(p)
  \/ \E a \in Account : Login(a)
  \/ Logout
  \/ \E n \in Token : Tick(n)

Spec == Init /\ [][Next]_vars

(***************************************************************************)
(* tokio's Mutex and the kernel's flock serve their waiters in order, so   *)
(* whoever waits for them is strongly fair.  The HTTP client bounds every  *)
(* answer by its connect and read timeouts, so answers, good or bad, come. *)
(***************************************************************************)
FairSpec ==
  /\ Spec
  /\ \A c \in Caller :
       /\ SF_vars(GetToken(c)) /\ SF_vars(Snapshot(c))
       /\ WF_vars(AnswerOf(c)) /\ WF_vars(AnswerEmpty(c))
  /\ \A p \in Process : SF_vars(LockAndReload(p)) /\ WF_vars(TaskStep(p))

--------------------------------------------------------------------------------

(***************************************************************************)
(* auth.rs "上游已轮换 refresh token, 新值却没来得及落盘": unless the      *)
(* exchange's reply was lost, saving it failed or the process ended before *)
(* it was saved, the refresh token in auth.json is one the provider still  *)
(* exchanges, or the one whose successor is being saved.  A client that    *)
(* hangs up never spoils it.                                               *)
(***************************************************************************)
RefreshTokenKept ==
  disk # NoCredential =>
    disk.refresh \in live \cup spoiled \cup UNION {Unsaved(p) : p \in Process}

(***************************************************************************)
(* No refresh token is exchanged twice: the daemon and a command-line      *)
(* process that both find the token stale do not both present it, whoever  *)
(* waited for whom (store.rs "上游轮换后后到的那份作废").                  *)
(***************************************************************************)
NeverReplayed ==
  \A p \in Process :
    task[p].stage = "exchange" => task[p].cred.refresh \in live \cup spoiled

(***************************************************************************)
(* A refresh spends the credential auth.json holds, not one that another   *)
(* process has already replaced; only a login or logout in the meantime    *)
(* may have changed it.                                                    *)
(***************************************************************************)
RefreshesCurrent ==
  \A p \in Process : InFlight(p) /\ ~raced => task[p].cred = disk

(***************************************************************************)
(* passthrough.rs "401 强制续期重试一次": the token that upstream rejected *)
(* never goes out again in the same request, whichever later attempt it is *)
(* and whoever refreshed meanwhile.                                        *)
(***************************************************************************)
RejectedNotResent ==
  \A c \in Caller : pc[c] = "send" /\ rejected[c] # 0 => using[c] # rejected[c]

(* No request is given a token that has expired by then. *)
NoExpiredToken ==
  [][\A c \in Caller :
       pc[c] # "send" /\ pc'[c] = "send" => age[using'[c]] # "expired"]_vars

(***************************************************************************)
(* The credential belongs to the account of the last login, and there is   *)
(* none after a logout, when neither met a refresh in flight.              *)
(***************************************************************************)
AccountFollowsLogin == ~raced => disk.account = wanted

(* Every request ends, through every refresh, retry and queue. *)
EveryRequestEnds == \A c \in Caller : pc[c] # "idle" ~> pc[c] = "idle"

(***************************************************************************)
(* auth.rs "保证切换账号立即生效", CHANGELOG "运行中 login/logout 或并发   *)
(* 写凭证立即安全生效": a login or logout is never undone.                 *)
(***************************************************************************)
LoginTakesEffect == disk.account = wanted
================================================================================
