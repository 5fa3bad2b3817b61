------------------------------- MODULE ModelList -------------------------------
(***************************************************************************)
(* GET /v1/models and GET /v1/models/{id} in the OpenAI dialect: server.rs *)
(* `openai_models` joins one `listed` per provider on the task of the      *)
(* request, each with a limit of 5 s around its `list`; `openai_model`     *)
(* awaits one `list` without a limit.  Both ask the upstream through       *)
(* passthrough.rs `upstream`, which leaves what it sent and what came back *)
(* in reqlog.rs LEG, a place the task has once for all its branches.       *)
(*                                                                         *)
(* One request at a time is followed; the slot mutex of a provider is also *)
(* taken by other requests and by refreshes this request has started and   *)
(* left (TokenRefresh has both in detail).  codex_cli_version runs on the  *)
(* thread of the task and may block it (VersionCache): no branch moves     *)
(* until it returns.  Time passes in ticks.                                *)
(***************************************************************************)
EXTENDS Integers

CONSTANTS
  Provider,     \* Provider::ALL
  Versioned,    \* those whose list and headers name the client version: Codex
  NoOne,        \* nobody
  MaxAttempts,  \* MAX_ATTEMPTS
  Limit,        \* the 5 s of `listed`, in ticks
  MaxHeld       \* bound: the ticks a request may lose to mutexes

ASSUME ListAssumption ==
  /\ Versioned \subseteq Provider
  /\ Provider \cap {NoOne, "none", "all"} = {}
  /\ MaxAttempts \in Nat \ {0} /\ Limit \in Nat \ {0} /\ MaxHeld \in Nat

VARIABLES
  mode,      \* "none", "all" for the list, or the provider of the model asked for
  at,        \* per provider, where its `list` is
  attempt,   \* its `attempt`
  rejected,  \* it has a `rejected_token`
  left,      \* what is left of its limit
  slot,      \* who holds the slot mutex: "free", this request's task, or others
  leg,       \* LEG: whose request it holds and whose answer
  asked,     \* history: the providers this request has been sent to
  age,       \* history: how long the request has been there
  held       \* history: for how much of it a mutex held up one of its branches

branchVars == <<at, attempt, rejected, left>>
legVars == <<leg, asked>>
timeVars == <<age, held>>
vars == <<mode, branchVars, slot, legVars, timeVars>>

Stage == {"off", "slot", "url", "token", "await", "ready", "agent", "version",
          "sent", "backoff", "body", "done"}

(* An attempt of a provider's `upstream`; attempt 0 is none. *)
Attempt == Provider \X (0..MaxAttempts)
None == <<NoOne, 0>>
Leg == [request : Attempt, answer : Attempt \cup {None}]
NoLeg == [request |-> None, answer |-> None]

TypeOK ==
  /\ mode \in {"none", "all"} \cup Provider
  /\ at \in [Provider -> Stage]
  /\ attempt \in [Provider -> 0..MaxAttempts]
  /\ rejected \in [Provider -> BOOLEAN]
  /\ left \in [Provider -> 0..Limit]
  /\ slot \in [Provider -> {"free", "ours", "others"}]
  /\ leg \in Leg \cup {NoLeg}
  /\ asked \in SUBSET Provider
  /\ age \in 0..Limit + MaxHeld
  /\ held \in 0..MaxHeld

Idle ==
  /\ mode' = "none"
  /\ at' = [p \in Provider |-> "off"]
  /\ attempt' = [p \in Provider |-> 0]
  /\ rejected' = [p \in Provider |-> FALSE]
  /\ left' = [p \in Provider |-> 0]
  /\ leg' = NoLeg /\ asked' = {}
  /\ age' = 0 /\ held' = 0

Init ==
  /\ mode = "none"
  /\ at = [p \in Provider |-> "off"]
  /\ attempt = [p \in Provider |-> 0]
  /\ rejected = [p \in Provider |-> FALSE]
  /\ left = [p \in Provider |-> 0]
  /\ slot = [p \in Provider |-> "free"]
  /\ leg = NoLeg /\ asked = {}
  /\ age = 0 /\ held = 0

(* codex_cli_version has the thread: the task is not polled. *)
Blocked == \E p \in Provider : at[p] \in {"url", "agent", "version"}

Moves(p, to) == at' = [at EXCEPT ![p] = to]
Timed(p) == mode = "all" /\ at[p] \notin {"off", "slot", "done"}

--------------------------------------------------------------------------------
(* Where `list` begins: the url of Codex names the client version. *)
First(p) == IF p \in Versioned THEN "url" ELSE "token"

(* openai_models and openai_model. *)
Begin ==
  /\ mode = "none"
  /\ \/ /\ mode' = "all"
        /\ at' = [p \in Provider |-> "slot"]
     \/ \E p \in Provider :
          /\ mode' = p
          /\ Moves(p, First(p))
  /\ UNCHANGED <<attempt, rejected, left, slot, legVars, timeVars>>

(* `snapshot` waits for the slot mutex; nobody logged in makes the list empty. *)
Snapshot(p) ==
  /\ at[p] = "slot" /\ slot[p] = "free" /\ ~Blocked
  /\ \/ Moves(p, "done") /\ UNCHANGED left
     \/ Moves(p, First(p)) /\ left' = [left EXCEPT ![p] = Limit]
  /\ UNCHANGED <<mode, attempt, rejected, slot, legVars, timeVars>>

(* Mutant: only the first request is noted. *)
SendsFirst(p, n) ==
  /\ Moves(p, "sent")
  /\ leg' = IF leg = NoLeg THEN [request |-> <<p, n>>, answer |-> None] ELSE leg
  /\ asked' = asked \cup {p}

(* note_upstream_request, then attempt n goes out. *)
Sends(p, n) ==
  /\ Moves(p, "sent")
  /\ leg' = [request |-> <<p, n>>, answer |-> None]
  /\ asked' = asked \cup {p}

(* With a credential: the headers of Codex name the version twice. *)
HasToken(p, n) ==
  IF p \in Versioned THEN Moves(p, "agent") /\ UNCHANGED legVars ELSE Sends(p, n)

(* codex_cli_version returns. *)
VersionRead(p) ==
  /\ \/ at[p] = "url" /\ Moves(p, "token") /\ UNCHANGED legVars
     \/ at[p] = "agent" /\ Moves(p, "version") /\ UNCHANGED legVars
     \/ at[p] = "version" /\ Sends(p, attempt[p])
  /\ UNCHANGED <<mode, attempt, rejected, left, slot, timeVars>>

(* The loop of `upstream` begins: AuthManager::token has a token, fails, or
   starts a refresh, which takes the slot mutex with it. *)
Token(p) ==
  /\ at[p] = "token" /\ slot[p] = "free" /\ ~Blocked
  /\ attempt' = [attempt EXCEPT ![p] = @ + 1]
  /\ \/ HasToken(p, attempt[p] + 1) /\ UNCHANGED slot
     \/ Moves(p, "done") /\ UNCHANGED <<slot, legVars>>
     \/ /\ slot' = [slot EXCEPT ![p] = "ours"]
        /\ Moves(p, "await")
        /\ UNCHANGED legVars
  /\ UNCHANGED <<mode, rejected, left, timeVars>>

(* The refresh ends, whether its request still waits for it or not. *)
RefreshEnds(p) ==
  /\ slot[p] = "ours"
  /\ slot' = [slot EXCEPT ![p] = "free"]
  /\ IF at[p] = "await" THEN Moves(p, "ready") ELSE UNCHANGED at
  /\ UNCHANGED <<mode, attempt, rejected, left, legVars, timeVars>>

Resume(p) ==
  /\ at[p] = "ready" /\ ~Blocked
  /\ \/ HasToken(p, attempt[p])
     \/ Moves(p, "done") /\ UNCHANGED legVars
  /\ UNCHANGED <<mode, attempt, rejected, left, slot, timeVars>>

(* Mutant: off by one. *)
RetryLeftOnce(p) == attempt[p] <= MaxAttempts

RetryLeft(p) == attempt[p] < MaxAttempts

(* note_upstream_response: into whatever request the task noted last. *)
Noted(p) == leg' = [leg EXCEPT !.answer = IF leg = NoLeg THEN None ELSE <<p, attempt[p]>>]

(* The upstream answers, and `upstream` goes on or gives the answer to `list`. *)
Reply(p) ==
  /\ at[p] = "sent" /\ ~Blocked
  /\ Noted(p)
  /\ \/ Moves(p, "body") /\ UNCHANGED rejected
     \/ Moves(p, "done") /\ UNCHANGED rejected
     \/ /\ RetryLeft(p) /\ ~rejected[p]
        /\ rejected' = [rejected EXCEPT ![p] = TRUE]
        /\ Moves(p, "token")
     \/ RetryLeft(p) /\ Moves(p, "backoff") /\ UNCHANGED rejected
  /\ UNCHANGED <<mode, attempt, left, slot, asked, timeVars>>

(* No connection, or none that lasts until the answer. *)
SendError(p) ==
  /\ at[p] = "sent" /\ ~Blocked
  /\ \/ RetryLeft(p) /\ Moves(p, "backoff")
     \/ Moves(p, "done")
  /\ UNCHANGED <<mode, attempt, rejected, left, slot, legVars, timeVars>>

(* Mutant: every attempt has the limit to itself. *)
AgainRestarts(p) ==
  /\ at[p] = "backoff" /\ ~Blocked
  /\ Moves(p, "token")
  /\ left' = [left EXCEPT ![p] = Limit]
  /\ UNCHANGED <<mode, attempt, rejected, slot, legVars, timeVars>>

(* The wait before the next attempt is over. *)
Again(p) ==
  /\ at[p] = "backoff" /\ ~Blocked
  /\ Moves(p, "token")
  /\ UNCHANGED <<mode, attempt, rejected, left, slot, legVars, timeVars>>

(* The body of the answer is there, or breaks off. *)
Body(p) ==
  /\ at[p] = "body" /\ ~Blocked
  /\ Moves(p, "done")
  /\ UNCHANGED <<mode, attempt, rejected, left, slot, legVars, timeVars>>

(* Mutant: the body is read outside the limit. *)
TimedOutUnread(p) ==
  /\ Timed(p) /\ at[p] # "body" /\ left[p] = 0 /\ ~Blocked
  /\ Moves(p, "done")
  /\ UNCHANGED <<mode, attempt, rejected, left, slot, legVars, timeVars>>

(* The limit of `listed` drops the `list` wherever it is. *)
TimedOut(p) ==
  /\ Timed(p) /\ left[p] = 0 /\ ~Blocked
  /\ Moves(p, "done")
  /\ UNCHANGED <<mode, attempt, rejected, left, slot, legVars, timeVars>>

Ended == mode # "none" /\ \A p \in Provider : at[p] \in {"off", "done"}

(* The response is made and `scoped` takes the leg out. *)
Answer == Ended /\ Idle /\ UNCHANGED slot

(* The client goes away: the future of the request is dropped, its leg too. *)
HangUp == mode # "none" /\ ~Blocked /\ Idle /\ UNCHANGED slot

--------------------------------------------------------------------------------
(* Other requests take the slot mutex, a refresh of theirs keeps it. *)
OthersTake(p) ==
  /\ slot[p] = "free"
  /\ slot' = [slot EXCEPT ![p] = "others"]
  /\ UNCHANGED <<mode, branchVars, legVars, timeVars>>

OthersGive(p) ==
  /\ slot[p] = "others"
  /\ slot' = [slot EXCEPT ![p] = "free"]
  /\ UNCHANGED <<mode, branchVars, legVars, timeVars>>

(* A mutex holds up the request: the slot before the limit runs, or the thread. *)
Held == Blocked \/ \E p \in Provider : at[p] = "slot"

(* A task that can be polled takes a free mutex and obeys a timer that is due
   before time goes on. *)
Due ==
  /\ ~Blocked
  /\ \E p \in Provider : \/ Timed(p) /\ left[p] = 0
                         \/ at[p] = "slot" /\ slot[p] = "free"

Tick ==
  /\ mode = "all" /\ ~Ended /\ ~Due
  /\ Held => held < MaxHeld
  /\ age' = age + 1
  /\ held' = IF Held THEN held + 1 ELSE held
  /\ left' = [p \in Provider |-> IF Timed(p) /\ left[p] > 0 THEN left[p] - 1 ELSE left[p]]
  /\ UNCHANGED <<mode, at, attempt, rejected, slot, legVars>>

Branch(p) ==
  \/ Snapshot(p) \/ VersionRead(p) \/ Token(p) \/ RefreshEnds(p) \/ Resume(p)
  \/ Reply(p) \/ SendError(p) \/ Again(p) \/ Body(p) \/ TimedOut(p)

Next ==
  \/ Begin \/ Answer \/ HangUp \/ Tick
  \/ \E p \in Provider : Branch(p) \/ OthersTake(p) \/ OthersGive(p)

Spec == Init /\ [][Next]_vars

(* A refresh ends, the version is read, the slot mutex is granted in turn, and
   time passes.  For a list the upstream need not answer; what is asked without
   a limit is answered, or the read timeout of the client makes an error of it. *)
FairSpec ==
  /\ Spec
  /\ WF_vars(Tick) /\ WF_vars(Answer)
  /\ \A p \in Provider :
       /\ SF_vars(Snapshot(p)) /\ WF_vars(VersionRead(p)) /\ WF_vars(TimedOut(p))
       /\ WF_vars(RefreshEnds(p)) /\ WF_vars(OthersGive(p))
       /\ SF_vars(mode = p /\ Token(p))
       /\ WF_vars(mode = p /\ (Resume(p) \/ Reply(p) \/ Again(p) \/ Body(p)))

--------------------------------------------------------------------------------

(***************************************************************************)
(* server.rs "上游卡住最多等 5s -> 一家故障 (重试 + 300s 读超时) 不拖住另  *)
(* 一家的列表": whatever a provider does, with its refreshes, retries and  *)
(* waits between them, the list is answered 5 s after it was asked for,    *)
(* and the time its task lost to a mutex: the limit begins behind the slot *)
(* and cannot stop a blocked thread.                                       *)
(***************************************************************************)
ListInTime == mode = "all" => age <= Limit + held

(***************************************************************************)
(* reqlog.rs `upstream` "没打到上游时缺席" and "记录的是最终真正生效的那次":*)
(* what is recorded of the upstream is there exactly if something was sent,*)
(* and the answer in it is that of the attempt in it, as long as only one  *)
(* provider was asked.  A list that has asked both may record the answer   *)
(* of one with the request of the other.                                   *)
(***************************************************************************)
LegTrue ==
  /\ Ended => (leg = NoLeg <=> asked = {})
  /\ \/ leg.answer \in {None, leg.request}
     \/ \E p, q \in asked : p # q

(***************************************************************************)
(* A list ends though an upstream never answers, and a model asked for by  *)
(* its id ends through all attempts.                                       *)
(***************************************************************************)
ListEnds == mode # "none" ~> mode = "none"
================================================================================
