--------------------------- MODULE TokenRefreshProofs ---------------------------
(***************************************************************************)
(* What TokenRefresh promises, for any requests, processes, accounts,      *)
(* attempts and number of tokens: first that the request variables and the *)
(* credentials in hand are what they should be, then what is known of the  *)
(* refresh token, then what a request is given.                            *)
(***************************************************************************)
EXTENDS TokenRefresh, TLAPS

(* Requests: one that is not in the loop has made no attempt, and no request *)
(* knows a token that was not minted.                                        *)
ReqOK ==
  /\ pc \in [Caller -> {"idle", "list", "empty", "token", "await", "send"}]
  /\ attempt \in [Caller -> 0..MaxAttempts]
  /\ rejected \in [Caller -> 0..MaxToken]
  /\ using \in [Caller -> 0..MaxToken]
  /\ \A c \in Caller :
       /\ pc[c] \in {"idle", "list"} => attempt[c] = 0
       /\ using[c] <= minted /\ rejected[c] <= minted

Numbered(cred, m) == cred.access <= m /\ cred.refresh <= m

(* What a task has in hand at each stage, when m tokens have been minted.    *)
TaskOK(t, m) ==
  /\ t \in Task \cup {NoTask}
  /\ t.rejected <= m /\ Numbered(t.cred, m) /\ Numbered(t.fresh, m)
  /\ t.stage \in {"none", "lock"} => t.cred = NoCredential
  /\ t.stage \in {"exchange", "save"} => t.cred \in Credential
  /\ t.stage = "save" => t.fresh \in Credential

(* Everything else: what is in a file or in hand was minted, and a token     *)
(* does not age before.                                                      *)
CoreOK ==
  /\ disk \in Credential \cup {NoCredential}
  /\ slot \in [Process -> BOOLEAN]
  /\ task \in [Process -> Task \cup {NoTask}]
  /\ flock \in Process \cup {NoProcess}
  /\ age \in [Token -> {"fresh", "margin", "expired"}]
  /\ minted \in 0..MaxToken
  /\ live \in SUBSET Token
  /\ spoiled \in SUBSET Token
  /\ wanted \in Account \cup {"nobody"}
  /\ raced \in BOOLEAN
  /\ Numbered(disk, minted)
  /\ \A p \in Process : TaskOK(task[p], minted)
  /\ \A n \in Token : n > minted => age[n] = "fresh"

CInv == ReqOK /\ CoreOK

LEMMA CInvType == CInv => TypeOK
BY DEF CInv, ReqOK, CoreOK, TypeOK

LEMMA Numbers ==
  /\ MaxToken \in Nat /\ MaxAttempts \in Nat /\ 1 <= MaxAttempts
  /\ Token \subseteq Nat /\ 0 \notin Token /\ Token \subseteq 0..MaxToken
  /\ NoCredential \notin Credential
  /\ NoTask \notin Task /\ NoTask.stage = "none"
  /\ NoCredential.access = 0 /\ NoCredential.refresh = 0 /\ NoCredential.account = "nobody"
<1>1. /\ MaxToken \in Nat /\ MaxAttempts \in Nat /\ 1 <= MaxAttempts
      /\ Token \subseteq Nat /\ 0 \notin Token /\ Token \subseteq 0..MaxToken
  BY RefreshAssumption DEF Token
<1>2. NoCredential \notin Credential
  BY <1>1 DEF NoCredential, Credential
<1>3. NoTask \notin Task /\ NoTask.stage = "none"
  BY DEF NoTask, Task
<1>. QED
  BY <1>1, <1>2, <1>3 DEF NoCredential

LEMMA CredNumbers ==
  ASSUME NEW cred \in Credential \cup {NoCredential}
  PROVE  cred.access \in 0..MaxToken /\ cred.refresh \in 0..MaxToken
<1>1. cred \in Credential => cred.access \in Token /\ cred.refresh \in Token
  BY DEF Credential
<1>2. 0 \in 0..MaxToken
  BY Numbers
<1>. QED
  BY <1>1, <1>2, Numbers

--------------------------------------------------------------------------------
(* Requests. *)

LEMMA FinishedReq ==
  ASSUME CInv, NEW c \in Caller, Finished(c), minted' = minted PROVE ReqOK'
BY Numbers DEF CInv, CoreOK, ReqOK, Finished

LEMMA TryAgainReq ==
  ASSUME CInv, NEW c \in Caller, NEW rej \in 0..MaxToken, rej <= minted,
         attempt[c] < MaxAttempts, TryAgain(c, rej), minted' = minted
  PROVE  ReqOK'
<1>1. attempt[c] + 1 \in 0..MaxAttempts /\ 0 <= minted
  BY Numbers DEF CInv, ReqOK, CoreOK
<1>. QED
  BY <1>1, Numbers DEF CInv, CoreOK, ReqOK, TryAgain

LEMMA SendingReq ==
  ASSUME CInv, NEW c \in Caller, NEW n \in Token, n <= minted, Sending(c, n), minted' = minted
  PROVE  ReqOK'
BY Numbers DEF CInv, CoreOK, ReqOK, Sending

LEMMA RequestsLeft ==
  ASSUME CInv, UNCHANGED requestVars, minted' \in 0..MaxToken, minted <= minted' PROVE ReqOK'
BY Numbers DEF CInv, CoreOK, ReqOK, requestVars

--------------------------------------------------------------------------------
(* Tasks. *)

LEMMA NoTaskOK == ASSUME NEW m \in Nat PROVE TaskOK(NoTask, m)
BY DEF TaskOK, NoTask, Numbered, NoCredential

LEMMA MoreMinted ==
  ASSUME NEW t, NEW m \in 0..MaxToken, NEW n \in 0..MaxToken, m <= n, TaskOK(t, m)
  PROVE  TaskOK(t, n)
<1>1. t.rejected \in 0..MaxToken
  BY Numbers DEF TaskOK, Task, NoTask
<1>2. t.cred \in Credential \cup {NoCredential} /\ t.fresh \in Credential \cup {NoCredential}
  BY DEF TaskOK, Task, NoTask
<1>3. \A cred \in Credential \cup {NoCredential} :
        cred.access \in 0..MaxToken /\ cred.refresh \in 0..MaxToken
  BY CredNumbers
<1>4. t.rejected <= n
  BY <1>1, Numbers DEF TaskOK
<1>5. ASSUME NEW cred \in Credential \cup {NoCredential}, Numbered(cred, m)
      PROVE  Numbered(cred, n)
  BY <1>3, <1>5, Numbers DEF Numbered
<1>. QED
  BY <1>2, <1>4, <1>5 DEF TaskOK

(* A task comes, goes or goes on; the rest of its process is left alone. *)
LEMMA TaskSet ==
  ASSUME CInv, NEW p \in Process, NEW t, TaskOK(t, minted'), task' = [task EXCEPT ![p] = t],
         minted' \in 0..MaxToken, minted <= minted'
  PROVE  /\ task' \in [Process -> Task \cup {NoTask}]
         /\ task'[p] = t /\ \A q \in Process \ {p} : task'[q] = task[q]
         /\ \A q \in Process : TaskOK(task'[q], minted')
<1>1. /\ task' \in [Process -> Task \cup {NoTask}]
      /\ task'[p] = t /\ \A q \in Process \ {p} : task'[q] = task[q]
  BY DEF CInv, CoreOK, TaskOK
<1>2. \A q \in Process : TaskOK(task[q], minted')
  BY MoreMinted DEF CInv, CoreOK
<1>. QED
  BY <1>1, <1>2

LEMMA TaskEndsCore ==
  ASSUME CInv, NEW p \in Process, TaskEnds(p), minted' = minted
  PROVE  /\ task' \in [Process -> Task \cup {NoTask}]
         /\ task'[p] = NoTask /\ \A q \in Process \ {p} : task'[q] = task[q]
         /\ \A q \in Process : TaskOK(task'[q], minted')
         /\ flock' \in Process \cup {NoProcess}
         /\ \A q \in Process \ {p} : flock = q => flock' = q
<1>1. minted' \in Nat /\ minted' \in 0..MaxToken /\ minted <= minted'
  BY Numbers DEF CInv, CoreOK
<1>2. task' = [task EXCEPT ![p] = NoTask] /\ flock' = IF flock = p THEN NoProcess ELSE flock
  BY DEF TaskEnds
<1>3. TaskOK(NoTask, minted')
  BY <1>1, NoTaskOK
<1>4. flock' \in Process \cup {NoProcess} /\ \A q \in Process \ {p} : flock = q => flock' = q
  BY <1>2 DEF CInv, CoreOK
<1>. QED
  BY <1>1, <1>2, <1>3, <1>4, TaskSet

(* The caller of a task. *)
LEMMA CallerOfTask ==
  ASSUME CInv, NEW p \in Process, task[p] # NoTask
  PROVE  task[p].caller \in Caller /\ task[p].rejected \in 0..MaxToken
BY DEF CInv, CoreOK, Task

LEMMA ResolveReq ==
  ASSUME CInv, NEW p \in Process, task[p] # NoTask, NEW cred \in Credential,
         cred.access <= minted, Resolve(p, cred), minted' = minted
  PROVE  ReqOK'
<1>1. task[p].caller \in Caller /\ cred.access \in Token
  BY CallerOfTask DEF Credential
<1>2. minted \in 0..MaxToken /\ minted <= minted'
  BY Numbers DEF CInv, CoreOK
<1>. QED
  BY <1>1, <1>2, SendingReq, RequestsLeft DEF Resolve

LEMMA RejectReq ==
  ASSUME CInv, NEW p \in Process, task[p] # NoTask, Reject(p), minted' = minted
  PROVE  ReqOK'
<1>1. task[p].caller \in Caller
  BY CallerOfTask
<1>2. minted \in 0..MaxToken /\ minted <= minted'
  BY Numbers DEF CInv, CoreOK
<1>. QED
  BY <1>1, <1>2, FinishedReq, RequestsLeft DEF Reject

--------------------------------------------------------------------------------
(* The types, action by action. *)

LEMMA InitCInv == Init => CInv
<1>. SUFFICES ASSUME Init PROVE CInv
  OBVIOUS
<1>. USE Numbers DEF Init
<1>1. 1 \in Token /\ 1 \in Nat /\ 1 \in 0..MaxToken /\ 0 \in 0..MaxToken /\ 0 \in 0..MaxAttempts
  BY RefreshAssumption DEF Token
<1>2. ReqOK
  BY <1>1 DEF ReqOK
<1>3. TaskOK(NoTask, 1)
  BY <1>1, NoTaskOK
<1>4. disk \in Credential /\ Numbered(disk, minted) /\ wanted \in Account
  BY <1>1 DEF Credential, Numbered
<1>5. CoreOK
  BY <1>1, <1>3, <1>4 DEF CoreOK
<1>. QED
  BY <1>2, <1>5 DEF CInv

(* A step of a request that leaves everything but it alone. *)
LEMMA RequestCInv ==
  ASSUME CInv, ReqOK', UNCHANGED <<disk, task, flock, age, upstreamVars, userVars>>,
         slot' \in [Process -> BOOLEAN]
  PROVE  CInv'
BY DEF CInv, CoreOK, upstreamVars, userVars

LEMMA CallerCInv ==
  ASSUME CInv, NEW c \in Caller,
         Begin(c) \/ BeginList(c) \/ Snapshot(c) \/ AnswerEmpty(c) \/ AnswerOf(c) \/ HangUp(c)
  PROVE  CInv'
<1>1. /\ UNCHANGED <<disk, task, flock, age, upstreamVars, userVars>>
      /\ slot' \in [Process -> BOOLEAN] /\ minted' = minted
  BY DEF Begin, BeginList, Snapshot, AnswerEmpty, AnswerOf, Unauthorized, Transient, Replied,
         HangUp, CInv, CoreOK, upstreamVars
<1>2. /\ 0 \in 0..MaxToken /\ 0 <= minted
      /\ rejected[c] \in 0..MaxToken /\ rejected[c] <= minted
      /\ using[c] \in 0..MaxToken /\ using[c] <= minted
      /\ pc[c] \in {"idle", "list"} => attempt[c] < MaxAttempts
  BY Numbers DEF CInv, ReqOK, CoreOK
<1>3. BeginList(c) => ReqOK'
  BY <1>1 DEF BeginList, CInv, ReqOK
<1>4. Finished(c) => ReqOK'
  BY <1>1, FinishedReq
<1>5. ASSUME NEW rej \in {0, rejected[c], using[c]}, TryAgain(c, rej), attempt[c] < MaxAttempts
      PROVE  ReqOK'
  BY <1>1, <1>2, <1>5, TryAgainReq
<1>6. pc' = [pc EXCEPT ![c] = "empty"] /\ UNCHANGED <<attempt, rejected, using>> => ReqOK'
  BY <1>1 DEF CInv, ReqOK
<1>7. \/ BeginList(c) \/ Finished(c)
      \/ pc' = [pc EXCEPT ![c] = "empty"] /\ UNCHANGED <<attempt, rejected, using>>
      \/ \E rej \in {0, rejected[c], using[c]} : TryAgain(c, rej) /\ attempt[c] < MaxAttempts
  BY <1>2 DEF Begin, Snapshot, AnswerEmpty, AnswerOf, Unauthorized, Transient, Replied,
              HangUp, RetryLeft
<1>8. ReqOK'
  BY <1>3, <1>4, <1>5, <1>6, <1>7
<1>. QED
  BY <1>1, <1>8, RequestCInv

LEMMA DiskToken ==
  ASSUME CInv, disk # NoCredential
  PROVE  disk \in Credential /\ disk.access \in Token /\ disk.access <= minted
BY DEF CInv, CoreOK, Credential, Numbered

LEMMA StartedOK ==
  ASSUME CInv, NEW c \in Caller
  PROVE  /\ TaskOK(Started(c), minted) /\ Started(c) # NoTask /\ Started(c).stage = "lock"
         /\ Started(c).caller = c /\ Started(c).rejected = rejected[c]
         /\ Started(c).cred = NoCredential
<1>1. Started(c) = [stage |-> "lock", caller |-> c, rejected |-> rejected[c],
                    cred |-> NoCredential, fresh |-> NoCredential]
  BY DEF Started
<1>2. rejected[c] \in 0..MaxToken /\ rejected[c] <= minted /\ 0 <= minted
  BY Numbers DEF CInv, ReqOK, CoreOK
<1>3. Started(c) \in Task
  BY <1>1, <1>2 DEF Task
<1>4. Numbered(NoCredential, minted)
  BY <1>2, Numbers DEF Numbered
<1>5. NoCredential \in Credential \cup {NoCredential} /\ Started(c) # NoTask
  BY <1>3, Numbers
<1>. QED
  BY <1>1, <1>2, <1>3, <1>4, <1>5 DEF TaskOK

LEMMA GetTokenCInv == ASSUME CInv, NEW c \in Caller, GetToken(c) PROVE CInv'
<1>. DEFINE p == ProcessOf[c]
<1>1. /\ p \in Process /\ UNCHANGED <<disk, flock, age, upstreamVars, userVars>>
      /\ slot' = [slot EXCEPT ![p] = disk # NoCredential] /\ minted' = minted
  BY RefreshAssumption DEF GetToken, upstreamVars
<1>2. slot' \in [Process -> BOOLEAN]
  BY <1>1 DEF CInv, CoreOK
<1>3. CASE Finished(c) /\ UNCHANGED task
  BY <1>1, <1>2, <1>3, FinishedReq, RequestCInv
<1>4. CASE disk # NoCredential /\ Sending(c, disk.access) /\ UNCHANGED task
  BY <1>1, <1>2, <1>4, DiskToken, SendingReq, RequestCInv
<1>5. CASE /\ task' = [task EXCEPT ![p] = Started(c)]
           /\ pc' = [pc EXCEPT ![c] = "await"]
           /\ UNCHANGED <<attempt, rejected, using>>
  <2>1. ReqOK'
    BY <1>1, <1>5 DEF CInv, ReqOK
  <2>2. minted' \in 0..MaxToken /\ minted <= minted'
    BY <1>1, Numbers DEF CInv, CoreOK
  <2>3. /\ task' \in [Process -> Task \cup {NoTask}]
        /\ \A q \in Process : TaskOK(task'[q], minted')
    BY <1>1, <1>5, <2>2, StartedOK, TaskSet
  <2>. QED
    BY <1>1, <1>2, <2>1, <2>3 DEF CInv, CoreOK, upstreamVars, userVars
<1>. QED
  BY <1>3, <1>4, <1>5 DEF GetToken

(* A task ends, and what is saved or kept of the credential was in hand. *)
LEMMA EndCInv ==
  ASSUME CInv, NEW p \in Process, TaskEnds(p), ReqOK', UNCHANGED <<age, minted, live, userVars>>,
         slot' \in [Process -> BOOLEAN], spoiled' \in SUBSET Token,
         disk' \in Credential \cup {NoCredential}, Numbered(disk', minted)
  PROVE  CInv'
<1>1. /\ task' \in [Process -> Task \cup {NoTask}]
      /\ \A q \in Process : TaskOK(task'[q], minted')
      /\ flock' \in Process \cup {NoProcess}
  BY TaskEndsCore
<1>. QED
  BY <1>1 DEF CInv, CoreOK, userVars

LEMMA RestLeft ==
  ASSUME CInv
  PROVE  /\ slot \in [Process -> BOOLEAN] /\ spoiled \in SUBSET Token /\ minted \in 0..MaxToken
         /\ disk \in Credential \cup {NoCredential} /\ Numbered(disk, minted)
         /\ \A p \in Process : [slot EXCEPT ![p] = disk # NoCredential] \in [Process -> BOOLEAN]
         /\ \A p \in Process : [slot EXCEPT ![p] = TRUE] \in [Process -> BOOLEAN]
BY DEF CInv, CoreOK

LEMMA Stages ==
  ASSUME CInv, NEW p \in Process
  PROVE  /\ TaskOK(task[p], minted)
         /\ task[p].stage \in {"none", "lock", "exchange", "save"}
         /\ task[p].stage # "none" => task[p] \in Task
         /\ task[p] # NoTask <=> task[p].stage # "none"
         /\ task[p].stage \in {"exchange", "save"} =>
              /\ task[p].cred \in Credential /\ task[p].cred.access <= minted
              /\ task[p].cred.refresh \in Token /\ task[p].cred.refresh <= minted
         /\ task[p].stage = "save" =>
              task[p].fresh \in Credential /\ Numbered(task[p].fresh, minted)
<1>1. TaskOK(task[p], minted) /\ task[p] \in Task \cup {NoTask}
  BY DEF CInv, CoreOK
<1>2. /\ task[p].stage \in {"none", "lock", "exchange", "save"}
      /\ task[p] # NoTask <=> task[p].stage # "none"
      /\ task[p].stage # "none" => task[p] \in Task
  BY <1>1 DEF NoTask, Task
<1>. QED
  BY <1>1, <1>2 DEF TaskOK, Numbered, Credential

LEMMA RefreshFailedCInv ==
  ASSUME CInv, NEW p \in Process, task[p].stage = "exchange", RefreshFailed(p), minted' = minted
  PROVE  ReqOK' /\ TaskEnds(p)
<1>1. task[p] # NoTask /\ task[p].cred \in Credential /\ task[p].cred.access <= minted
  BY Stages
<1>2. Resolve(p, task[p].cred) \/ Reject(p)
  BY DEF RefreshFailed
<1>3. ReqOK'
  BY <1>1, <1>2, ResolveReq, RejectReq
<1>. QED
  BY <1>2, <1>3 DEF Resolve, Reject

LEMMA LockAndReloadCInv == ASSUME CInv, NEW p \in Process, LockAndReload(p) PROVE CInv'
<1>1. /\ task[p].stage = "lock" /\ slot' = [slot EXCEPT ![p] = disk # NoCredential]
      /\ UNCHANGED <<disk, age, upstreamVars, userVars>> /\ minted' = minted
  BY DEF LockAndReload, upstreamVars
<1>2. task[p] # NoTask /\ task[p] \in Task /\ TaskOK(task[p], minted)
  BY <1>1, Stages
<1>3. CASE Reject(p) \/ (disk # NoCredential /\ Resolve(p, disk))
  <2>1. ReqOK'
    BY <1>1, <1>2, <1>3, DiskToken, ResolveReq, RejectReq
  <2>2. TaskEnds(p)
    BY <1>3 DEF Resolve, Reject
  <2>. QED
    BY <1>1, <2>1, <2>2, EndCInv, RestLeft DEF upstreamVars
<1>4. CASE /\ disk # NoCredential /\ flock' = p
           /\ task' = [task EXCEPT ![p].stage = "exchange", ![p].cred = disk]
           /\ UNCHANGED requestVars
  <2>. DEFINE t == [task[p] EXCEPT !.stage = "exchange", !.cred = disk]
  <2>1. disk \in Credential /\ Numbered(disk, minted)
    BY <1>4, DiskToken DEF CInv, CoreOK
  <2>2. t \in Task /\ t.stage = "exchange" /\ t.cred = disk
        /\ t.rejected = task[p].rejected /\ t.fresh = task[p].fresh
    BY <1>2, <2>1 DEF Task
  <2>3. TaskOK(t, minted)
    BY <1>2, <2>1, <2>2 DEF TaskOK
  <2>4. task' = [task EXCEPT ![p] = t]
    BY <1>4 DEF CInv, CoreOK
  <2>5. minted' \in 0..MaxToken /\ minted <= minted'
    BY <1>1, Numbers DEF CInv, CoreOK
  <2>6. /\ task' \in [Process -> Task \cup {NoTask}]
        /\ \A q \in Process : TaskOK(task'[q], minted')
    BY <1>1, <2>3, <2>4, <2>5, TaskSet
  <2>7. ReqOK'
    BY <1>4, <2>5, RequestsLeft
  <2>. QED
    BY <1>1, <1>4, <2>6, <2>7, RestLeft DEF CInv, CoreOK, upstreamVars, userVars
<1>. QED
  BY <1>3, <1>4 DEF LockAndReload

(* A token is minted: its number is the next one. *)
LEMMA MintNumbers ==
  ASSUME CInv, minted < MaxToken, minted' = minted + 1
  PROVE  /\ minted' \in 0..MaxToken /\ minted' \in Token /\ minted + 1 \in Token
         /\ minted <= minted' /\ minted \in Nat
         /\ \A n \in Token : n > minted' => n > minted
BY RefreshAssumption DEF CInv, CoreOK, Token

LEMMA FreshOK ==
  ASSUME CInv, minted < MaxToken, NEW cred \in Credential, Numbered(cred, minted),
         NEW rotates \in BOOLEAN
  PROVE  /\ Fresh(cred, rotates) \in Credential /\ Numbered(Fresh(cred, rotates), minted + 1)
         /\ Fresh(cred, rotates).access = minted + 1 /\ Fresh(cred, rotates).account = cred.account
         /\ Fresh(cred, rotates).refresh = IF rotates THEN minted + 1 ELSE cred.refresh
<1>1. minted + 1 \in Token /\ minted \in Nat
  BY RefreshAssumption DEF CInv, CoreOK, Token
<1>2. cred.refresh \in Token /\ cred.refresh \in Nat /\ cred.refresh <= minted
  BY Numbers DEF Credential, Numbered
<1>3. /\ Fresh(cred, rotates) \in Credential
      /\ Fresh(cred, rotates).access = minted + 1 /\ Fresh(cred, rotates).account = cred.account
      /\ Fresh(cred, rotates).refresh = IF rotates THEN minted + 1 ELSE cred.refresh
  BY <1>1, <1>2 DEF Fresh, Credential
<1>. QED
  BY <1>1, <1>2, <1>3 DEF Numbered

LEMMA ExchangeCInv ==
  ASSUME CInv, NEW p \in Process, NEW rotates \in BOOLEAN, Exchange(p, rotates) PROVE CInv'
<1>1. /\ task[p].stage = "exchange" /\ minted < MaxToken /\ minted' = minted + 1
      /\ task' = [task EXCEPT ![p].stage = "save", ![p].fresh = Fresh(task[p].cred, rotates)]
      /\ live' = IF rotates THEN (live \ {task[p].cred.refresh}) \cup {minted + 1} ELSE live
      /\ UNCHANGED <<disk, slot, flock, requestVars, age, spoiled, userVars>>
  BY DEF Exchange, Mint
<1>2. /\ task[p] \in Task /\ TaskOK(task[p], minted) /\ task[p].cred \in Credential
      /\ Numbered(task[p].cred, minted)
  BY <1>1, Stages DEF Numbered
<1>3. /\ minted' \in 0..MaxToken /\ minted + 1 \in Token /\ minted <= minted'
      /\ \A n \in Token : n > minted' => n > minted
  BY <1>1, MintNumbers
<1>4. /\ Fresh(task[p].cred, rotates) \in Credential
      /\ Numbered(Fresh(task[p].cred, rotates), minted')
  BY <1>1, <1>2, FreshOK
<1>. DEFINE t == [task[p] EXCEPT !.stage = "save", !.fresh = Fresh(task[p].cred, rotates)]
<1>5. t \in Task /\ t.stage = "save" /\ t.cred = task[p].cred
      /\ t.rejected = task[p].rejected /\ t.fresh = Fresh(task[p].cred, rotates)
  BY <1>2, <1>4 DEF Task
<1>6. TaskOK(task[p], minted')
  BY <1>2, <1>3, MoreMinted DEF CInv, CoreOK
<1>7. TaskOK(t, minted')
  BY <1>2, <1>4, <1>5, <1>6 DEF TaskOK
<1>8. task' = [task EXCEPT ![p] = t]
  BY <1>1 DEF CInv, CoreOK
<1>9. /\ task' \in [Process -> Task \cup {NoTask}]
      /\ \A q \in Process : TaskOK(task'[q], minted')
  BY <1>3, <1>7, <1>8, TaskSet
<1>10. Numbered(disk, minted')
  BY <1>1, <1>3, Numbers DEF CInv, CoreOK, Numbered, Credential
<1>11. ReqOK'
  BY <1>1, <1>3, RequestsLeft
<1>. QED
  BY <1>1, <1>3, <1>9, <1>10, <1>11 DEF CInv, CoreOK, userVars

(* A refresh token is rotated and the reply never arrives. *)
LEMMA ExchangeLostCInv == ASSUME CInv, NEW p \in Process, ExchangeLost(p) PROVE CInv'
<1>1. /\ task[p].stage = "exchange" /\ minted < MaxToken /\ minted' = minted + 1
      /\ live' = (live \ {task[p].cred.refresh}) \cup {minted + 1}
      /\ spoiled' = spoiled \cup {task[p].cred.refresh} /\ RefreshFailed(p)
      /\ UNCHANGED <<disk, slot, age, userVars>>
  BY DEF ExchangeLost, Mint
<1>2. /\ task[p] # NoTask /\ task[p].cred \in Credential /\ task[p].cred.access <= minted
      /\ task[p].cred.refresh \in Token /\ task[p].caller \in Caller
      /\ task[p].cred.access \in Token
  BY <1>1, Stages, CallerOfTask DEF Credential
<1>3. /\ minted' \in 0..MaxToken /\ minted + 1 \in Token /\ minted <= minted' /\ minted \in Nat
      /\ \A n \in Token : n > minted' => n > minted
  BY <1>1, MintNumbers
<1>4. TaskEnds(p) /\ (UNCHANGED requestVars \/ Finished(task[p].caller)
                      \/ Sending(task[p].caller, task[p].cred.access))
  BY <1>1 DEF RefreshFailed, Resolve, Reject
<1>5. \A c \in Caller : using[c] <= minted' /\ rejected[c] <= minted'
  BY <1>3, Numbers DEF CInv, ReqOK
<1>6. ReqOK'
  <2>1. task[p].cred.access \in 0..MaxToken /\ task[p].cred.access <= minted'
        /\ 0 <= minted' /\ 0 \in 0..MaxToken /\ 0 \in 0..MaxAttempts
    <3>1. task[p].cred.access \in 0..MaxToken /\ task[p].cred.access \in Nat
      BY <1>2, Numbers
    <3>. QED
      BY <1>1, <1>2, <1>3, <3>1, Numbers
  <2>2. CASE UNCHANGED requestVars
    BY <1>3, <2>2, RequestsLeft
  <2>3. CASE Finished(task[p].caller)
    BY <1>2, <1>5, <2>1, <2>3 DEF CInv, ReqOK, Finished
  <2>4. CASE Sending(task[p].caller, task[p].cred.access)
    BY <1>2, <1>5, <2>1, <2>4 DEF CInv, ReqOK, Sending
  <2>. QED
    BY <1>4, <2>2, <2>3, <2>4
<1>7. /\ task' = [task EXCEPT ![p] = NoTask]
      /\ flock' \in Process \cup {NoProcess}
  BY <1>4 DEF TaskEnds, CInv, CoreOK
<1>8. /\ task' \in [Process -> Task \cup {NoTask}]
      /\ \A q \in Process : TaskOK(task'[q], minted')
  <2>1. TaskOK(NoTask, minted')
    BY <1>3, NoTaskOK
  <2>. QED
    BY <1>3, <1>7, <2>1, TaskSet
<1>9. Numbered(disk, minted')
  <2>1. disk.access \in 0..MaxToken /\ disk.refresh \in 0..MaxToken
    BY CredNumbers DEF CInv, CoreOK
  <2>. QED
    BY <1>1, <1>3, <2>1, Numbers DEF CInv, CoreOK, Numbered
<1>. QED
  BY <1>1, <1>2, <1>3, <1>6, <1>7, <1>8, <1>9 DEF CInv, CoreOK, userVars

LEMMA TaskOverCInv ==
  ASSUME CInv, NEW p \in Process,
         RefreshError(p) \/ ExchangeRefused(p) \/ Save(p) \/ SaveError(p)
  PROVE  CInv'
<1>1. /\ task[p].stage \in {"lock", "exchange", "save"} /\ task[p] # NoTask
      /\ UNCHANGED <<age, minted, live, userVars>>
  BY Stages DEF RefreshError, ExchangeRefused, Save, SaveError, upstreamVars
<1>2. ReqOK' /\ TaskEnds(p)
  <2>1. CASE ExchangeRefused(p)
    BY <1>1, <2>1, RefreshFailedCInv DEF ExchangeRefused
  <2>2. CASE RefreshError(p) \/ SaveError(p)
    BY <1>1, <2>2, RejectReq DEF RefreshError, SaveError, Reject
  <2>3. CASE Save(p)
    <3>1. task[p].fresh \in Credential /\ task[p].fresh.access <= minted
      BY <2>3, Stages DEF Save, Numbered
    <3>. QED
      BY <1>1, <2>3, <3>1, ResolveReq DEF Save, Resolve
  <2>. QED
    BY <2>1, <2>2, <2>3
<1>3. /\ disk' \in Credential \cup {NoCredential} /\ Numbered(disk', minted)
      /\ slot' \in [Process -> BOOLEAN]
  <2>1. Save(p) => task[p].fresh \in Credential /\ Numbered(task[p].fresh, minted)
    BY Stages DEF Save
  <2>. QED
    BY <2>1, RestLeft DEF RefreshError, ExchangeRefused, Save, SaveError
<1>4. spoiled' \in SUBSET Token
  <2>1. Unsaved(p) \in SUBSET Token
    BY Stages DEF Unsaved
  <2>. QED
    BY <2>1, RestLeft DEF RefreshError, ExchangeRefused, Save, SaveError, upstreamVars
<1>. QED
  BY <1>1, <1>2, <1>3, <1>4, EndCInv

LEMMA RestartCInv == ASSUME CInv, NEW p \in Process, Restart(p) PROVE CInv'
<1>1. /\ TaskEnds(p) /\ spoiled' = spoiled \cup Unsaved(p)
      /\ slot' = [slot EXCEPT ![p] = disk # NoCredential]
      /\ UNCHANGED <<disk, age, minted, live, userVars>>
  BY DEF Restart
<1>2. ReqOK'
  <2>1. 0 \in 0..MaxToken /\ 0 \in 0..MaxAttempts /\ 0 <= minted /\ minted' = minted
    BY <1>1, Numbers DEF CInv, CoreOK
  <2>. QED
    BY <2>1 DEF Restart, CInv, ReqOK
<1>3. Unsaved(p) \in SUBSET Token
  BY Stages DEF Unsaved
<1>. QED
  BY <1>1, <1>2, <1>3, RestLeft, EndCInv

LEMMA UserCInv ==
  ASSUME CInv, (\E a \in Account : Login(a)) \/ Logout PROVE CInv'
<1>1. CASE Logout
  <2>1. /\ disk' = NoCredential /\ wanted' = "nobody" /\ raced' \in BOOLEAN
        /\ UNCHANGED <<slot, task, flock, requestVars, age, upstreamVars>>
    BY <1>1 DEF Logout
  <2>2. minted' \in 0..MaxToken /\ minted <= minted' /\ minted' = minted /\ 0 <= minted
    BY <2>1, Numbers DEF CInv, CoreOK, upstreamVars
  <2>3. ReqOK' /\ Numbered(disk', minted')
    BY <2>1, <2>2, Numbers, RequestsLeft DEF Numbered
  <2>. QED
    BY <2>1, <2>2, <2>3 DEF CInv, CoreOK, upstreamVars
<1>2. ASSUME NEW a \in Account, Login(a) PROVE CInv'
  <2>1. /\ minted < MaxToken /\ minted' = minted + 1 /\ live' = live \cup {minted + 1}
        /\ disk' = [access |-> minted + 1, refresh |-> minted + 1, account |-> a]
        /\ wanted' = a /\ raced' \in BOOLEAN
        /\ UNCHANGED <<slot, task, flock, requestVars, age, spoiled>>
    BY <1>2 DEF Login
  <2>2. /\ minted' \in 0..MaxToken /\ minted + 1 \in Token /\ minted <= minted' /\ minted \in Nat
        /\ \A n \in Token : n > minted' => n > minted
    BY <2>1, MintNumbers
  <2>3. ReqOK'
    BY <2>1, <2>2, RequestsLeft
  <2>4. disk' \in Credential /\ Numbered(disk', minted')
    BY <2>1, <2>2 DEF Credential, Numbered
  <2>5. \A q \in Process : TaskOK(task'[q], minted')
    BY <2>1, <2>2, MoreMinted DEF CInv, CoreOK
  <2>. QED
    BY <2>1, <2>2, <2>3, <2>4, <2>5 DEF CInv, CoreOK
<1>. QED
  BY <1>1, <1>2

LEMMA TickCInv == ASSUME CInv, NEW n \in Token, Tick(n) PROVE CInv'
<1>1. n <= minted
  <2>1. ASSUME NEW p \in Process, n = task[p].cred.access PROVE n <= minted
    BY <2>1 DEF CInv, CoreOK, TaskOK, Numbered
  <2>. QED
    BY <2>1 DEF Tick, CInv, CoreOK, Numbered
<1>2. /\ age' \in [Token -> {"fresh", "margin", "expired"}]
      /\ \A m \in Token \ {n} : age'[m] = age[m]
      /\ UNCHANGED <<disk, slot, task, flock, requestVars, upstreamVars, userVars>>
  BY DEF Tick, CInv, CoreOK
<1>3. minted' = minted /\ minted \in 0..MaxToken /\ minted <= minted'
  BY <1>2, Numbers DEF CInv, CoreOK, upstreamVars
<1>4. ReqOK'
  BY <1>2, <1>3, RequestsLeft
<1>5. \A m \in Token : m > minted => m # n
  BY <1>1, <1>3, Numbers
<1>. QED
  BY <1>2, <1>3, <1>4, <1>5 DEF CInv, CoreOK, upstreamVars, userVars

LEMMA NextCInv == CInv /\ [Next]_vars => CInv'
<1>. SUFFICES ASSUME CInv, [Next]_vars PROVE CInv'
  OBVIOUS
<1>1. ASSUME NEW c \in Caller,
             \/ Begin(c) \/ BeginList(c) \/ Snapshot(c) \/ AnswerEmpty(c)
             \/ GetToken(c) \/ AnswerOf(c) \/ HangUp(c)
      PROVE  CInv'
  BY <1>1, CallerCInv, GetTokenCInv
<1>2. ASSUME NEW p \in Process, TaskStep(p) \/ RefreshError(p) \/ Restart(p) PROVE CInv'
  BY <1>2, LockAndReloadCInv, ExchangeCInv, ExchangeLostCInv, TaskOverCInv, RestartCInv
     DEF TaskStep
<1>3. CASE (\E a \in Account : Login(a)) \/ Logout
  BY <1>3, UserCInv
<1>4. ASSUME NEW n \in Token, Tick(n) PROVE CInv'
  BY <1>4, TickCInv
<1>5. CASE UNCHANGED vars
  <2>1. minted' \in 0..MaxToken /\ minted <= minted' /\ minted' = minted
    BY <1>5, Numbers DEF vars, CInv, CoreOK, upstreamVars
  <2>2. ReqOK'
    BY <1>5, <2>1, RequestsLeft DEF vars
  <2>. QED
    BY <1>5, <2>2, RequestCInv DEF vars, CInv, CoreOK
<1>. QED
  BY <1>1, <1>2, <1>3, <1>4, <1>5 DEF Next

--------------------------------------------------------------------------------
(* The refresh token. *)

(* Whoever exchanges or saves holds the lock file. *)
Locked == \A p \in Process : InFlight(p) => flock = p

(* What was exchanged for is live, newer than all that is known, unused and  *)
(* of the same account.                                                      *)
Saving ==
  \A p \in Process : task[p].stage = "save" =>
    LET t == task[p] IN
    /\ t.fresh.refresh \in live
    /\ t.fresh.account = t.cred.account
    /\ t.fresh.access > t.rejected
    /\ age[t.fresh.access] = "fresh"
    /\ t.fresh.access # disk.access /\ t.fresh.access # t.cred.access

KInv ==
  /\ Locked
  /\ Saving
  /\ NeverReplayed
  /\ RefreshesCurrent
  /\ RefreshTokenKept
  /\ AccountFollowsLogin

LEMMA InitKInv == Init => KInv
<1>. SUFFICES ASSUME Init PROVE KInv
  OBVIOUS
<1>1. \A p \in Process : task[p].stage = "none"
  BY Numbers DEF Init
<1>. QED
  BY <1>1 DEF Init, KInv, Locked, Saving, NeverReplayed, RefreshesCurrent, RefreshTokenKept,
              AccountFollowsLogin, InFlight

(* There is one at a time in the lock file, none while it is free. *)
LEMMA Alone ==
  ASSUME KInv, NEW q \in Process, flock # q
  PROVE  ~InFlight(q) /\ Unsaved(q) = {}
BY DEF KInv, Locked, InFlight, Unsaved

LEMMA KInvLeft ==
  ASSUME KInv, UNCHANGED <<disk, task, flock, age, upstreamVars, userVars>> PROVE KInv'
BY DEF KInv, Locked, Saving, NeverReplayed, RefreshesCurrent, RefreshTokenKept,
       AccountFollowsLogin, InFlight, Unsaved, upstreamVars, userVars

(* A task begins with nothing in hand. *)
LEMMA StartKInv == ASSUME CInv, KInv, NEW c \in Caller, GetToken(c) PROVE KInv'
<1>. DEFINE p == ProcessOf[c]
<1>1. p \in Process /\ task[p] = NoTask
      /\ UNCHANGED <<disk, flock, age, upstreamVars, userVars>>
  BY RefreshAssumption DEF GetToken, SlotFree
<1>2. CASE UNCHANGED task
  BY <1>1, <1>2, KInvLeft
<1>3. CASE task' = [task EXCEPT ![p] = Started(c)]
  <2>1. /\ task'[p].stage = "lock" /\ task[p].stage = "none"
        /\ \A q \in Process \ {p} : task'[q] = task[q]
    BY <1>1, <1>3, StartedOK, Numbers DEF CInv, CoreOK
  <2>2. \A q \in Process : /\ InFlight(q)' <=> InFlight(q)
                           /\ Unsaved(q)' = Unsaved(q)
                           /\ InFlight(q) => task'[q] = task[q]
    BY <1>1, <2>1 DEF InFlight, Unsaved
  <2>. QED
    BY <1>1, <2>1, <2>2 DEF KInv, Locked, Saving, NeverReplayed, RefreshesCurrent,
       RefreshTokenKept, AccountFollowsLogin, InFlight, upstreamVars, userVars
<1>. QED
  BY <1>2, <1>3 DEF GetToken

(* A task ends; a token it has not saved counts as spoiled. *)
LEMMA EndKInv ==
  ASSUME CInv, KInv, NEW p \in Process, TaskEnds(p), spoiled \cup Unsaved(p) \subseteq spoiled',
         UNCHANGED <<disk, age, minted, live, userVars>>
  PROVE  KInv'
<1>1. /\ task'[p] = NoTask /\ \A q \in Process \ {p} : task'[q] = task[q]
      /\ \A q \in Process \ {p} : flock = q => flock' = q
  BY TaskEndsCore
<1>2. /\ ~InFlight(p)' /\ task'[p].stage = "none"
      /\ \A q \in Process \ {p} : (InFlight(q)' <=> InFlight(q)) /\ Unsaved(q)' = Unsaved(q)
  BY <1>1, Numbers DEF InFlight, Unsaved
<1>3. Locked' /\ Saving' /\ NeverReplayed'
  BY <1>1, <1>2 DEF KInv, Locked, Saving, NeverReplayed
<1>4. RefreshesCurrent' /\ AccountFollowsLogin'
  BY <1>1, <1>2 DEF KInv, RefreshesCurrent, AccountFollowsLogin, userVars
<1>5. RefreshTokenKept'
  <2>. SUFFICES ASSUME disk # NoCredential, disk.refresh \notin live, disk.refresh \notin spoiled'
                PROVE  \E q \in Process : disk.refresh \in Unsaved(q)'
    BY DEF RefreshTokenKept
  <2>1. PICK q \in Process : disk.refresh \in Unsaved(q)
    BY DEF KInv, RefreshTokenKept
  <2>. QED
    BY <1>2, <2>1
<1>. QED
  BY <1>3, <1>4, <1>5 DEF KInv

(***************************************************************************)
(* With the lock file taken, auth.json is read: its refresh token is live  *)
(* or spoiled, for nobody else is between exchanging and saving.           *)
(***************************************************************************)
LEMMA LockAndReloadKInv == ASSUME CInv, KInv, NEW p \in Process, LockAndReload(p) PROVE KInv'
<1>1. /\ task[p].stage = "lock" /\ flock = NoProcess
      /\ UNCHANGED <<disk, age, upstreamVars, userVars>>
  BY DEF LockAndReload
<1>2. CASE TaskEnds(p)
  <2>1. Unsaved(p) = {}
    BY <1>1 DEF Unsaved
  <2>. QED
    BY <1>1, <1>2, <2>1, EndKInv DEF upstreamVars
<1>3. CASE /\ disk # NoCredential /\ flock' = p
           /\ task' = [task EXCEPT ![p].stage = "exchange", ![p].cred = disk]
  <2>1. \A q \in Process : ~InFlight(q) /\ Unsaved(q) = {}
    BY <1>1, Alone, RefreshAssumption
  <2>2. task[p] \in Task
    BY <1>1, Stages
  <2>3. /\ task'[p].stage = "exchange" /\ task'[p].cred = disk
        /\ \A q \in Process \ {p} : task'[q] = task[q]
    BY <1>3, <2>2 DEF CInv, CoreOK, Task
  <2>4. \A q \in Process \ {p} : ~InFlight(q)'
    BY <2>1, <2>3 DEF InFlight
  <2>5. Locked' /\ Saving'
    BY <1>3, <2>3, <2>4 DEF Locked, Saving, InFlight
  <2>6. disk.refresh \in live \cup spoiled
    BY <1>3, <2>1 DEF KInv, RefreshTokenKept
  <2>7. NeverReplayed' /\ RefreshesCurrent' /\ RefreshTokenKept'
    BY <1>1, <2>3, <2>4, <2>6 DEF NeverReplayed, RefreshesCurrent, RefreshTokenKept, InFlight,
                                  upstreamVars
  <2>. QED
    BY <1>1, <2>5, <2>7 DEF KInv, AccountFollowsLogin, userVars
<1>. QED
  BY <1>2, <1>3 DEF LockAndReload, Reject, Resolve

(* The exchange retires the old token, which its task now owes to auth.json. *)
LEMMA ExchangeKInv ==
  ASSUME CInv, KInv, NEW p \in Process, NEW rotates \in BOOLEAN, Exchange(p, rotates) PROVE KInv'
<1>. DEFINE cred == task[p].cred
            fresh == Fresh(task[p].cred, rotates)
<1>1. /\ task[p].stage = "exchange" /\ minted < MaxToken /\ cred.refresh \in live
      /\ task' = [task EXCEPT ![p].stage = "save", ![p].fresh = fresh]
      /\ live' = IF rotates THEN (live \ {cred.refresh}) \cup {minted + 1} ELSE live
      /\ UNCHANGED <<disk, slot, flock, requestVars, age, spoiled, userVars>>
  BY DEF Exchange, Mint
<1>2. /\ task[p] \in Task /\ cred \in Credential /\ Numbered(cred, minted)
      /\ task[p].rejected <= minted /\ task[p].rejected \in 0..MaxToken
  BY <1>1, Stages DEF Numbered, TaskOK, Task
<1>3. /\ fresh \in Credential /\ fresh.access = minted + 1 /\ fresh.account = cred.account
      /\ fresh.refresh = IF rotates THEN minted + 1 ELSE cred.refresh
  BY <1>1, <1>2, FreshOK
<1>4. /\ task'[p].stage = "save" /\ task'[p].fresh = fresh /\ task'[p].cred = cred
      /\ task'[p].rejected = task[p].rejected
      /\ \A q \in Process \ {p} : task'[q] = task[q]
  BY <1>1, <1>2 DEF CInv, CoreOK, Task
<1>5. flock = p /\ \A q \in Process \ {p} : ~InFlight(q) /\ ~InFlight(q)' /\ Unsaved(q) = {}
  <2>1. flock = p
    BY <1>1 DEF KInv, Locked, InFlight
  <2>. QED
    BY <1>4, <2>1, Alone DEF InFlight
<1>6. /\ minted \in Nat /\ minted + 1 \in Token
      /\ disk.access \in 0..MaxToken /\ disk.access <= minted
      /\ cred.access \in 0..MaxToken /\ cred.refresh \in 0..MaxToken
      /\ cred.access <= minted /\ cred.refresh <= minted
      /\ age[minted + 1] = "fresh"
  <2>1. minted \in Nat /\ minted + 1 \in Token /\ minted + 1 > minted
    BY <1>1, RefreshAssumption DEF CInv, CoreOK, Token
  <2>. QED
    BY <1>2, <2>1, CredNumbers DEF CInv, CoreOK, Numbered
<1>7. Locked'
  BY <1>1, <1>5 DEF Locked
<1>8. Saving'
  <2>1. fresh.refresh \in live'
    BY <1>1, <1>3
  <2>2. fresh.access > task[p].rejected /\ fresh.access # disk.access /\ fresh.access # cred.access
    BY <1>2, <1>3, <1>6
  <2>. QED
    BY <1>1, <1>3, <1>4, <1>5, <1>6, <2>1, <2>2 DEF Saving, InFlight
<1>9. NeverReplayed' /\ RefreshesCurrent' /\ AccountFollowsLogin'
  BY <1>1, <1>4, <1>5 DEF KInv, NeverReplayed, RefreshesCurrent, AccountFollowsLogin, InFlight,
                          userVars
<1>10. RefreshTokenKept'
  <2>. SUFFICES ASSUME disk # NoCredential, disk.refresh \notin live', disk.refresh \notin spoiled
                PROVE  disk.refresh \in Unsaved(p)'
    BY <1>1 DEF RefreshTokenKept
  <2>1. Unsaved(p) = {}
    BY <1>1 DEF Unsaved
  <2>2. disk.refresh \in live
    BY <1>5, <2>1 DEF KInv, RefreshTokenKept
  <2>3. rotates /\ disk.refresh = cred.refresh
    BY <1>1, <2>2
  <2>4. fresh.refresh # cred.refresh
    BY <1>3, <1>6, <2>3
  <2>. QED
    BY <1>4, <2>3, <2>4 DEF Unsaved
<1>. QED
  BY <1>7, <1>8, <1>9, <1>10 DEF KInv

LEMMA ExchangeLostKInv == ASSUME CInv, KInv, NEW p \in Process, ExchangeLost(p) PROVE KInv'
<1>1. /\ task[p].stage = "exchange" /\ TaskEnds(p)
      /\ live \subseteq live' \cup {task[p].cred.refresh}
      /\ spoiled' = spoiled \cup {task[p].cred.refresh}
      /\ disk' = disk /\ wanted' = wanted /\ raced' = raced
  BY DEF ExchangeLost, Mint, RefreshFailed, Resolve, Reject, userVars
<1>2. task'[p] = NoTask /\ \A q \in Process \ {p} : task'[q] = task[q]
  BY <1>1 DEF TaskEnds, CInv, CoreOK
<1>3. flock = p /\ \A q \in Process : Unsaved(q) = {} /\ ~InFlight(q)'
  <2>1. flock = p /\ Unsaved(p) = {}
    BY <1>1 DEF KInv, Locked, InFlight, Unsaved
  <2>2. ~InFlight(p)'
    BY <1>2, Numbers DEF InFlight
  <2>. QED
    BY <1>2, <2>1, <2>2, Alone DEF InFlight
<1>4. Locked' /\ Saving' /\ NeverReplayed' /\ RefreshesCurrent'
  BY <1>3 DEF Locked, Saving, NeverReplayed, RefreshesCurrent, InFlight
<1>5. RefreshTokenKept'
  BY <1>1, <1>3 DEF KInv, RefreshTokenKept
<1>. QED
  BY <1>1, <1>4, <1>5 DEF KInv, AccountFollowsLogin

(* What was saved is live, and of the account that was refreshed. *)
LEMMA SaveKInv == ASSUME CInv, KInv, NEW p \in Process, Save(p) PROVE KInv'
<1>1. /\ task[p].stage = "save" /\ TaskEnds(p) /\ disk' = task[p].fresh
      /\ UNCHANGED <<age, live, spoiled, wanted, raced>>
  BY DEF Save, Resolve, upstreamVars, userVars
<1>2. task'[p] = NoTask /\ \A q \in Process \ {p} : task'[q] = task[q]
  BY <1>1 DEF TaskEnds, CInv, CoreOK
<1>3. \A q \in Process : ~InFlight(q)'
  <2>1. flock = p
    BY <1>1 DEF KInv, Locked, InFlight
  <2>2. ~InFlight(p)'
    BY <1>2, Numbers DEF InFlight
  <2>. QED
    BY <1>2, <2>1, <2>2, Alone DEF InFlight
<1>4. Locked' /\ Saving' /\ NeverReplayed' /\ RefreshesCurrent'
  BY <1>3 DEF Locked, Saving, NeverReplayed, RefreshesCurrent, InFlight
<1>5. RefreshTokenKept'
  BY <1>1 DEF KInv, Saving, RefreshTokenKept
<1>6. AccountFollowsLogin'
  BY <1>1 DEF KInv, Saving, RefreshesCurrent, AccountFollowsLogin, InFlight
<1>. QED
  BY <1>4, <1>5, <1>6 DEF KInv

LEMMA UserKInv ==
  ASSUME CInv, KInv, (\E a \in Account : Login(a)) \/ Logout PROVE KInv'
<1>1. /\ UNCHANGED <<task, flock, age, spoiled>> /\ live \subseteq live'
      /\ raced' = \E p \in Process : InFlight(p)
      /\ disk'.account = wanted'
      /\ disk' # NoCredential => disk'.refresh \in live'
      /\ disk'.access = 0 \/ disk'.access = minted + 1
  <2>1. CASE Logout
    BY <2>1, Numbers DEF Logout, upstreamVars
  <2>2. CASE \E a \in Account : Login(a)
    BY <2>2 DEF Login
  <2>. QED
    BY <2>1, <2>2
<1>2. ASSUME NEW p \in Process, task[p].stage = "save" PROVE task[p].fresh.access # disk'.access
  <2>1. /\ task[p].fresh.access \in Token /\ task[p].fresh.access <= minted
        /\ task[p].fresh.access \in Nat /\ minted \in 0..MaxToken
    <3>1. task[p].fresh \in Credential /\ Numbered(task[p].fresh, minted)
      BY <1>2, Stages
    <3>2. task[p].fresh.access \in Token /\ task[p].fresh.access <= minted
      BY <3>1 DEF Numbered, Credential
    <3>3. minted \in 0..MaxToken
      BY DEF CInv, CoreOK
    <3>. QED
      BY <3>2, <3>3, Numbers
  <2>. QED
    BY <1>1, <2>1, Numbers
<1>3. \A p \in Process : (InFlight(p)' <=> InFlight(p)) /\ Unsaved(p)' = Unsaved(p)
  BY <1>1 DEF InFlight, Unsaved
<1>4. Locked' /\ Saving' /\ NeverReplayed'
  BY <1>1, <1>2, <1>3 DEF KInv, Locked, Saving, NeverReplayed
<1>5. RefreshesCurrent' /\ RefreshTokenKept' /\ AccountFollowsLogin'
  BY <1>1, <1>3 DEF RefreshesCurrent, RefreshTokenKept, AccountFollowsLogin
<1>. QED
  BY <1>4, <1>5 DEF KInv

(* A token that is being saved does not age: nobody looks at it yet. *)
LEMMA TickKInv == ASSUME CInv, KInv, NEW n \in Token, Tick(n) PROVE KInv'
<1>1. /\ UNCHANGED <<disk, task, flock, upstreamVars, userVars>>
      /\ \A m \in Token \ {n} : age'[m] = age[m]
  BY DEF Tick, CInv, CoreOK
<1>2. ASSUME NEW p \in Process, task[p].stage = "save" PROVE age'[task[p].fresh.access] = "fresh"
  <2>1. task[p].fresh.access \in Token /\ InFlight(p) /\ flock = p
    BY <1>2, Stages DEF Credential, InFlight, KInv, Locked
  <2>2. ASSUME NEW q \in Process, n = task[q].cred.access PROVE q = p
    <3>1. InFlight(q)
      BY <2>2, Stages, Numbers DEF TaskOK, InFlight
    <3>. QED
      BY <2>1, <3>1, Alone
  <2>3. n # task[p].fresh.access
    BY <1>2, <2>2 DEF Tick, KInv, Saving
  <2>. QED
    BY <1>1, <1>2, <2>1, <2>3 DEF KInv, Saving
<1>3. Saving'
  BY <1>1, <1>2 DEF KInv, Saving, upstreamVars
<1>. QED
  BY <1>1, <1>3 DEF KInv, Locked, NeverReplayed, RefreshesCurrent, RefreshTokenKept,
     AccountFollowsLogin, InFlight, Unsaved, upstreamVars, userVars

LEMMA NextKInv == CInv /\ KInv /\ [Next]_vars => KInv'
<1>. SUFFICES ASSUME CInv, KInv, [Next]_vars PROVE KInv'
  OBVIOUS
<1>1. ASSUME NEW c \in Caller,
             \/ Begin(c) \/ BeginList(c) \/ Snapshot(c) \/ AnswerEmpty(c)
             \/ AnswerOf(c) \/ HangUp(c)
      PROVE  KInv'
  BY <1>1, KInvLeft DEF Begin, BeginList, Snapshot, AnswerEmpty, AnswerOf, Unauthorized,
     Transient, Replied, HangUp
<1>2. ASSUME NEW c \in Caller, GetToken(c) PROVE KInv'
  BY <1>2, StartKInv
<1>3. ASSUME NEW p \in Process, TaskStep(p) \/ RefreshError(p) \/ Restart(p) PROVE KInv'
  <2>1. CASE LockAndReload(p) \/ ExchangeLost(p) \/ Save(p)
    BY <2>1, LockAndReloadKInv, ExchangeLostKInv, SaveKInv
  <2>2. CASE \E rotates \in BOOLEAN : Exchange(p, rotates)
    BY <2>2, ExchangeKInv
  <2>3. CASE RefreshError(p) \/ ExchangeRefused(p)
    <3>1. TaskEnds(p) /\ Unsaved(p) = {}
          /\ UNCHANGED <<disk, age, minted, live, spoiled, userVars>>
      BY <2>3 DEF RefreshError, ExchangeRefused, RefreshFailed, Resolve, Reject, Unsaved,
                  upstreamVars
    <3>. QED
      BY <3>1, EndKInv
  <2>4. CASE SaveError(p) \/ Restart(p)
    BY <2>4, EndKInv DEF SaveError, Restart, Reject
  <2>. QED
    BY <1>3, <2>1, <2>2, <2>3, <2>4 DEF TaskStep
<1>4. CASE (\E a \in Account : Login(a)) \/ Logout
  BY <1>4, UserKInv
<1>5. ASSUME NEW n \in Token, Tick(n) PROVE KInv'
  BY <1>5, TickKInv
<1>6. CASE UNCHANGED vars
  BY <1>6, KInvLeft DEF vars
<1>. QED
  BY <1>1, <1>2, <1>3, <1>4, <1>5, <1>6 DEF Next

--------------------------------------------------------------------------------
(* What a request is given. *)

(* A request that waits is the one its process refreshes for, on account of  *)
(* the token it brought back.                                                *)
Awaited ==
  /\ \A p \in Process : task[p] # NoTask => ProcessOf[task[p].caller] = p
  /\ \A c \in Caller : pc[c] = "await" =>
       LET t == task[ProcessOf[c]] IN t # NoTask /\ t.caller = c /\ t.rejected = rejected[c]

WInv == Awaited /\ RejectedNotResent

(* No request of this step goes out on an expired token. *)
Unexpired == \A c \in Caller : pc[c] # "send" /\ pc'[c] = "send" => age[using'[c]] # "expired"

LEMMA WInvLeft ==
  ASSUME CInv, WInv, UNCHANGED requestVars,
         \A p \in Process : \/ task'[p] = task[p]
                            \/ /\ task[p] # NoTask /\ task'[p] # NoTask
                               /\ task'[p].caller = task[p].caller
                               /\ task'[p].rejected = task[p].rejected
  PROVE  WInv' /\ Unexpired
<1>1. \A c \in Caller : ProcessOf[c] \in Process
  BY RefreshAssumption
<1>. QED
  BY <1>1 DEF WInv, Awaited, RejectedNotResent, Unexpired, requestVars

(* A request that does not wait for a task changes nothing for the others. *)
LEMMA CallerWInv ==
  ASSUME CInv, WInv, NEW c \in Caller, UNCHANGED task,
         \A d \in Caller \ {c} : pc'[d] = pc[d] /\ rejected'[d] = rejected[d]
                                 /\ using'[d] = using[d],
         pc'[c] # "await",
         pc'[c] = "send" => /\ rejected'[c] # using'[c]
                            /\ age[using'[c]] # "expired"
  PROVE  WInv' /\ Unexpired
<1>1. \A d \in Caller : ProcessOf[d] \in Process
  BY RefreshAssumption
<1>2. Awaited'
  BY <1>1 DEF WInv, Awaited
<1>. QED
  BY <1>2 DEF WInv, RejectedNotResent, Unexpired

LEMMA FinishedWInv ==
  ASSUME CInv, WInv, NEW c \in Caller, UNCHANGED task,
         \/ Finished(c) \/ \E rej \in Nat : TryAgain(c, rej)
         \/ /\ \E to \in {"list", "empty"} : pc' = [pc EXCEPT ![c] = to]
            /\ UNCHANGED <<attempt, rejected, using>>
  PROVE  WInv' /\ Unexpired
<1>1. /\ \A d \in Caller \ {c} : pc'[d] = pc[d] /\ rejected'[d] = rejected[d]
                                 /\ using'[d] = using[d]
      /\ pc'[c] \in {"idle", "token", "list", "empty"}
  BY DEF Finished, TryAgain, CInv, ReqOK
<1>. QED
  BY <1>1, CallerWInv

LEMMA GetTokenWInv == ASSUME CInv, WInv, NEW c \in Caller, GetToken(c) PROVE WInv' /\ Unexpired
<1>. DEFINE p == ProcessOf[c]
<1>1. p \in Process /\ task[p] = NoTask /\ pc[c] = "token"
  BY RefreshAssumption DEF GetToken, SlotFree
<1>2. CASE Finished(c) /\ UNCHANGED task
  BY <1>2, FinishedWInv
<1>3. CASE /\ disk # NoCredential /\ ~RefreshNeeded(disk, rejected[c])
           /\ Sending(c, disk.access) /\ UNCHANGED task
  <2>1. /\ pc'[c] = "send" /\ using'[c] = disk.access /\ rejected' = rejected
        /\ \A d \in Caller \ {c} : pc'[d] = pc[d] /\ using'[d] = using[d]
    BY <1>3 DEF Sending, CInv, ReqOK
  <2>2. rejected[c] # disk.access /\ age[disk.access] = "fresh"
    BY <1>3 DEF RefreshNeeded
  <2>. QED
    BY <1>3, <2>1, <2>2, CallerWInv
<1>4. CASE /\ task' = [task EXCEPT ![p] = Started(c)]
           /\ pc' = [pc EXCEPT ![c] = "await"]
           /\ UNCHANGED <<attempt, rejected, using>>
  <2>1. /\ task'[p] = Started(c) /\ \A q \in Process \ {p} : task'[q] = task[q]
        /\ pc'[c] = "await" /\ \A d \in Caller \ {c} : pc'[d] = pc[d]
    BY <1>1, <1>4 DEF CInv, CoreOK, ReqOK
  <2>2. /\ Started(c) # NoTask /\ Started(c).caller = c /\ Started(c).rejected = rejected[c]
    BY StartedOK
  <2>3. \A d \in Caller : ProcessOf[d] \in Process /\ (pc[d] = "await" => ProcessOf[d] # p)
    BY <1>1, RefreshAssumption DEF WInv, Awaited
  <2>4. Awaited'
    BY <1>4, <2>1, <2>2, <2>3 DEF WInv, Awaited
  <2>. QED
    BY <1>4, <2>1, <2>4 DEF WInv, RejectedNotResent, Unexpired
<1>. QED
  BY <1>2, <1>3, <1>4 DEF GetToken

(***************************************************************************)
(* The task ends and its request, if it still waits, fails or goes out on  *)
(* a token that is neither rejected nor expired.                           *)
(***************************************************************************)
LEMMA EndWInv ==
  ASSUME CInv, WInv, NEW p \in Process, task[p] # NoTask,
         \/ Reject(p)
         \/ \E cred \in Credential : /\ Resolve(p, cred)
                                     /\ cred.access # task[p].rejected
                                     /\ age[cred.access] # "expired"
  PROVE  WInv' /\ Unexpired
<1>. DEFINE c == task[p].caller
<1>1. c \in Caller /\ ProcessOf[c] = p
  BY CallerOfTask DEF WInv, Awaited
<1>2. task'[p] = NoTask /\ \A q \in Process \ {p} : task'[q] = task[q]
  BY DEF Reject, Resolve, TaskEnds, CInv, CoreOK
<1>3. \A d \in Caller : /\ ProcessOf[d] \in Process
                        /\ pc[d] = "await" /\ ProcessOf[d] = p => d = c
  BY RefreshAssumption DEF WInv, Awaited
<1>. HIDE DEF c
<1>4. CASE pc[c] # "await" /\ UNCHANGED requestVars
  BY <1>2, <1>3, <1>4 DEF WInv, Awaited, RejectedNotResent, Unexpired, requestVars
<1>5. CASE /\ pc[c] = "await"
           /\ \/ Finished(c)
              \/ \E n \in Token : /\ Sending(c, n) /\ n # task[p].rejected
                                  /\ age[n] # "expired"
  <2>1. /\ pc'[c] # "await"
        /\ pc'[c] = "send" => rejected'[c] # using'[c] /\ age[using'[c]] # "expired"
        /\ \A d \in Caller \ {c} : pc'[d] = pc[d] /\ rejected'[d] = rejected[d]
                                   /\ using'[d] = using[d]
    BY <1>1, <1>5 DEF Finished, Sending, WInv, Awaited, CInv, ReqOK
  <2>2. Awaited'
    BY <1>1, <1>2, <1>3, <2>1 DEF WInv, Awaited
  <2>. QED
    BY <2>1, <2>2 DEF WInv, RejectedNotResent, Unexpired
<1>. QED
  BY <1>4, <1>5 DEF Reject, Resolve, Abandoned, Credential, c

LEMMA TaskWInv ==
  ASSUME CInv, KInv, WInv, NEW p \in Process, TaskStep(p) \/ RefreshError(p)
  PROVE  WInv' /\ Unexpired
<1>1. task[p] # NoTask /\ task[p] \in Task
  BY Stages DEF TaskStep, LockAndReload, Exchange, ExchangeLost, ExchangeRefused, Save, SaveError,
                RefreshError
<1>2. CASE RefreshError(p) \/ SaveError(p)
  BY <1>1, <1>2, EndWInv DEF RefreshError, SaveError
<1>3. CASE LockAndReload(p)
  <2>1. CASE Reject(p)
    BY <1>1, <2>1, EndWInv
  <2>2. CASE disk # NoCredential /\ ~RefreshNeeded(disk, task[p].rejected) /\ Resolve(p, disk)
    <3>1. disk \in Credential /\ disk.access # task[p].rejected /\ age[disk.access] # "expired"
      BY <2>2, DiskToken DEF RefreshNeeded
    <3>. QED
      BY <1>1, <2>2, <3>1, EndWInv
  <2>3. CASE /\ disk # NoCredential /\ UNCHANGED requestVars
             /\ task' = [task EXCEPT ![p].stage = "exchange", ![p].cred = disk]
    <3>1. disk \in Credential
      BY <2>3, DiskToken
    <3>2. /\ task'[p].stage = "exchange" /\ task'[p].caller = task[p].caller
          /\ task'[p].rejected = task[p].rejected
          /\ \A q \in Process \ {p} : task'[q] = task[q]
      BY <1>1, <2>3, <3>1 DEF CInv, CoreOK, Task
    <3>. QED
      BY <1>1, <2>3, <3>2, WInvLeft, Numbers
  <2>. QED
    BY <1>3, <2>1, <2>2, <2>3 DEF LockAndReload
<1>4. CASE \E rotates \in BOOLEAN : Exchange(p, rotates)
  <2>1. PICK rotates \in BOOLEAN : Exchange(p, rotates)
    BY <1>4
  <2>2. /\ task'[p].stage = "save" /\ task'[p].caller = task[p].caller
        /\ task'[p].rejected = task[p].rejected
        /\ \A q \in Process \ {p} : task'[q] = task[q]
    BY <1>1, <2>1 DEF Exchange, CInv, CoreOK, Task
  <2>. QED
    BY <1>1, <2>1, <2>2, WInvLeft, Numbers DEF Exchange
<1>5. CASE ExchangeLost(p) \/ ExchangeRefused(p)
  <2>1. task[p].cred \in Credential
    BY <1>5, Stages DEF ExchangeLost, ExchangeRefused
  <2>. QED
    BY <1>1, <1>5, <2>1, EndWInv DEF ExchangeLost, ExchangeRefused, RefreshFailed
<1>6. CASE Save(p)
  <2>1. /\ task[p].fresh \in Credential /\ task[p].fresh.access > task[p].rejected
        /\ age[task[p].fresh.access] = "fresh"
    BY <1>6, Stages DEF Save, KInv, Saving
  <2>2. task[p].fresh.access \in 0..MaxToken /\ task[p].rejected \in 0..MaxToken
    BY <1>1, <2>1, CredNumbers DEF Task
  <2>3. task[p].fresh.access # task[p].rejected
    BY <2>1, <2>2, Numbers
  <2>. QED
    BY <1>1, <1>6, <2>1, <2>3, EndWInv DEF Save
<1>. QED
  BY <1>2, <1>3, <1>4, <1>5, <1>6 DEF TaskStep

(* A process takes its requests and its task with it. *)
LEMMA RestartWInv == ASSUME CInv, WInv, NEW p \in Process, Restart(p) PROVE WInv' /\ Unexpired
<1>1. task'[p] = NoTask /\ \A q \in Process \ {p} : task'[q] = task[q]
  BY DEF Restart, TaskEnds, CInv, CoreOK
<1>2. \A c \in Caller :
        /\ ProcessOf[c] \in Process
        /\ ProcessOf[c] = p => pc'[c] = "idle"
        /\ ProcessOf[c] # p => pc'[c] = pc[c] /\ rejected'[c] = rejected[c]
                               /\ using'[c] = using[c]
  BY RefreshAssumption DEF Restart
<1>3. Awaited'
  BY <1>1, <1>2 DEF WInv, Awaited
<1>. QED
  BY <1>2, <1>3 DEF WInv, RejectedNotResent, Unexpired

LEMMA NextWInv == CInv /\ KInv /\ WInv /\ [Next]_vars => WInv' /\ Unexpired
<1>. SUFFICES ASSUME CInv, KInv, WInv, [Next]_vars PROVE WInv' /\ Unexpired
  OBVIOUS
<1>1. ASSUME NEW c \in Caller,
             \/ Begin(c) \/ BeginList(c) \/ Snapshot(c) \/ AnswerEmpty(c)
             \/ AnswerOf(c) \/ HangUp(c)
      PROVE  WInv' /\ Unexpired
  <2>1. rejected[c] \in Nat /\ using[c] \in Nat
    BY Numbers DEF CInv, ReqOK
  <2>. QED
    BY <1>1, <2>1, FinishedWInv DEF Begin, BeginList, Snapshot, AnswerEmpty, AnswerOf,
       Unauthorized, Transient, Replied, HangUp
<1>2. ASSUME NEW c \in Caller, GetToken(c) PROVE WInv' /\ Unexpired
  BY <1>2, GetTokenWInv
<1>3. ASSUME NEW p \in Process, TaskStep(p) \/ RefreshError(p) \/ Restart(p)
      PROVE  WInv' /\ Unexpired
  BY <1>3, TaskWInv, RestartWInv
<1>4. CASE \/ \E a \in Account : Login(a)
           \/ Logout
           \/ \E n \in Token : Tick(n)
           \/ UNCHANGED vars
  BY <1>4, WInvLeft DEF Login, Logout, Tick, vars
<1>. QED
  BY <1>1, <1>2, <1>3, <1>4 DEF Next

--------------------------------------------------------------------------------
(***************************************************************************)
(* auth.rs and the attempts of passthrough.rs `upstream`: who holds which  *)
(* credential, what became of the refresh token, and which token each      *)
(* request is given.                                                       *)
(***************************************************************************)
THEOREM Invariance == Spec => [](CInv /\ KInv /\ WInv)
<1>1. Init => WInv
  BY DEF Init, WInv, Awaited, RejectedNotResent
<1>. QED
  BY <1>1, InitCInv, InitKInv, NextCInv, NextKInv, NextWInv, PTL DEF Spec

(* `attempt` never passes MAX_ATTEMPTS, and what is in auth.json or with a   *)
(* task is a whole credential or none.                                       *)
THEOREM TypeCorrect == Spec => []TypeOK
BY Invariance, CInvType, PTL

(***************************************************************************)
(* auth.rs "上游已轮换 refresh token, 新值却没来得及落盘": the refresh     *)
(* token in auth.json is live, or its successor is being saved, unless a   *)
(* reply was lost, a save failed or a process died.                        *)
(***************************************************************************)
THEOREM TokenKept == Spec => []RefreshTokenKept
<1>1. KInv => RefreshTokenKept
  BY DEF KInv
<1>. QED
  BY <1>1, Invariance, PTL

(* The lock file and the second read of auth.json under it: no process       *)
(* presents a refresh token that another has exchanged and saved.            *)
THEOREM NothingReplayed == Spec => []NeverReplayed
<1>1. KInv => NeverReplayed
  BY DEF KInv
<1>. QED
  BY <1>1, Invariance, PTL

(* A refresh is of the credential in auth.json, unless a login or logout met *)
(* it in flight.                                                             *)
THEOREM SpendsCurrent == Spec => []RefreshesCurrent
<1>1. KInv => RefreshesCurrent
  BY DEF KInv
<1>. QED
  BY <1>1, Invariance, PTL

(* Without such a meeting auth.json has the account of the last login.       *)
THEOREM AccountKept == Spec => []AccountFollowsLogin
<1>1. KInv => AccountFollowsLogin
  BY DEF KInv
<1>. QED
  BY <1>1, Invariance, PTL

(* passthrough.rs "401 强制续期重试一次": whoever refreshes for a request,   *)
(* it does not go out again on the token that was rejected.                  *)
THEOREM NotResent == Spec => []RejectedNotResent
<1>1. WInv => RejectedNotResent
  BY DEF WInv
<1>. QED
  BY <1>1, Invariance, PTL

(* A token that a request goes out on has not expired by then, be it from    *)
(* auth.json, from a refresh or kept after a failed one.                     *)
THEOREM NotExpired == Spec => NoExpiredToken
<1>1. CInv /\ KInv /\ WInv /\ [Next]_vars => [Unexpired]_vars
  BY NextWInv
<1>2. [Unexpired]_vars <=>
        [\A c \in Caller :
           pc[c] # "send" /\ pc'[c] = "send" => age[using'[c]] # "expired"]_vars
  BY DEF Unexpired
<1>. QED
  BY <1>1, <1>2, Invariance, PTL DEF Spec, NoExpiredToken
================================================================================
