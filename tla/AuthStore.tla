------------------------------- MODULE AuthStore -------------------------------
(***************************************************************************)
(* src/store.rs: `update` reads auth.json, changes it and writes it back   *)
(* under RMW_LOCK (threads of one process) and a flock on auth.lock        *)
(* (processes); `save` writes a temporary file named after the pid, syncs  *)
(* it and renames it over auth.json.  `load`, called by everybody without  *)
(* a lock, reads whatever auth.json names at that moment.                  *)
(***************************************************************************)
CONSTANTS
  Provider,      \* the two subscriptions
  Credential,    \* every credential that can be stored
  NoCredential,  \* the entry of a provider that is not logged in
  Thread,        \* every thread that may call put or remove
  Process,       \* the daemon and the command-line processes
  ProcessOf,     \* the process each thread belongs to
  NoThread,      \* the holder of a free lock
  NoRequest,     \* the request of a thread that is not in `update`
  Torn           \* the text of an empty or cut-off file: serde_json rejects it

Store == [Provider -> Credential \cup {NoCredential}]
EmptyStore == [p \in Provider |-> NoCredential]

(* put(provider, entry), or remove(provider) when the entry is NoCredential. *)
Request == [provider : Provider, entry : Credential \cup {NoCredential}]
Answer == {"none", "done", "absent", "error"}

ASSUME ThreadAssumption ==
  /\ ProcessOf \in [Thread -> Process]
  /\ NoThread \notin Thread

ASSUME TextAssumption ==
  /\ Torn \notin Store
  /\ NoRequest \notin Request

VARIABLES
  auth,     \* what the name auth.json refers to
  durable,  \* what it would refer to after a power failure
  tmp,      \* per process, auth.json.tmp.<pid>
  rmw,      \* per process, the holder of RMW_LOCK
  flock,    \* the holder of the flock on auth.lock
  pc,       \* how far each thread has come in `update`
  local,    \* the map each thread has read and changed
  request,  \* the update each thread performs
  answer    \* what that update will return

vars == <<auth, durable, tmp, rmw, flock, pc, local, request, answer>>

(* A missing auth.json loads as an empty map, so the model starts with one. *)
File == [text : Store \cup {Torn}, synced : BOOLEAN]
EmptyFile == [text |-> EmptyStore, synced |-> TRUE]
TruncatedFile == [text |-> Torn, synced |-> FALSE]

(* Change is the closure given to `update`; Absent is its `changed = false`. *)
Change(s, r) == [s EXCEPT ![r.provider] = r.entry]
Absent(s, r) == r.entry = NoCredential /\ s[r.provider] = NoCredential

Saving == {"create", "write", "sync", "rename"}
PC == {"idle", "enter", "flock", "load", "unlock", "leave"} \cup Saving

TypeOK ==
  /\ auth \in File
  /\ durable \in File
  /\ tmp \in [Process -> File]
  /\ rmw \in [Process -> Thread \cup {NoThread}]
  /\ flock \in Thread \cup {NoThread}
  /\ pc \in [Thread -> PC]
  /\ local \in [Thread -> Store]
  /\ request \in [Thread -> Request \cup {NoRequest}]
  /\ answer \in [Thread -> Answer]

Init ==
  /\ auth = EmptyFile
  /\ durable = EmptyFile
  /\ tmp = [p \in Process |-> TruncatedFile]
  /\ rmw = [p \in Process |-> NoThread]
  /\ flock = NoThread
  /\ pc = [t \in Thread |-> "idle"]
  /\ local = [t \in Thread |-> EmptyStore]
  /\ request = [t \in Thread |-> NoRequest]
  /\ answer = [t \in Thread |-> "none"]

--------------------------------------------------------------------------------

Goto(t, from, to) == pc[t] = from /\ pc' = [pc EXCEPT ![t] = to]
Answered(t, a) == answer' = [answer EXCEPT ![t] = a]

(* put / remove: auth.rs calls them after an exchange, main.rs on login/logout. *)
Call(t, r) ==
  /\ Goto(t, "idle", "enter")
  /\ request' = [request EXCEPT ![t] = r]
  /\ UNCHANGED <<auth, durable, tmp, rmw, flock, local, answer>>

TakeRmw(t) ==
  /\ Goto(t, "enter", "flock")
  /\ rmw[ProcessOf[t]] = NoThread
  /\ rmw' = [rmw EXCEPT ![ProcessOf[t]] = t]
  /\ UNCHANGED <<auth, durable, tmp, flock, local, request, answer>>

(* create_dir_all, opening auth.lock or locking it may fail. *)
LockError(t) ==
  /\ Goto(t, "flock", "leave")
  /\ Answered(t, "error")
  /\ UNCHANGED <<auth, durable, tmp, rmw, flock, local, request>>

(* Mutant: auth.lock is opened but not locked. *)
TakeFlockUnguarded(t) ==
  /\ Goto(t, "flock", "load")
  /\ flock' = t
  /\ UNCHANGED <<auth, durable, tmp, rmw, local, request, answer>>

TakeFlock(t) ==
  /\ Goto(t, "flock", "load")
  /\ flock = NoThread
  /\ flock' = t
  /\ UNCHANGED <<auth, durable, tmp, rmw, local, request, answer>>

(* Reading auth.json or parsing it fails. *)
LoadError(t) ==
  /\ Goto(t, "load", "unlock")
  /\ Answered(t, "error")
  /\ UNCHANGED <<auth, durable, tmp, rmw, flock, local, request>>

Load(t) ==
  /\ auth.text # Torn
  /\ \/ /\ Goto(t, "load", "unlock")
        /\ Absent(auth.text, request[t])
        /\ Answered(t, "absent")
        /\ UNCHANGED local
     \/ /\ Goto(t, "load", "create")
        /\ ~Absent(auth.text, request[t])
        /\ local' = [local EXCEPT ![t] = Change(auth.text, request[t])]
        /\ UNCHANGED answer
  /\ UNCHANGED <<auth, durable, tmp, rmw, flock, request>>

CreateTmp(t) ==
  /\ Goto(t, "create", "write")
  /\ tmp' = [tmp EXCEPT ![ProcessOf[t]] = TruncatedFile]
  /\ UNCHANGED <<auth, durable, rmw, flock, local, request, answer>>

WriteTmp(t) ==
  /\ Goto(t, "write", "sync")
  /\ tmp' = [tmp EXCEPT ![ProcessOf[t]] = [text |-> local[t], synced |-> FALSE]]
  /\ UNCHANGED <<auth, durable, rmw, flock, local, request, answer>>

(* Mutant: no sync_all before the rename. *)
SyncTmpSkipped(t) ==
  /\ Goto(t, "sync", "rename")
  /\ UNCHANGED <<auth, durable, tmp, rmw, flock, local, request, answer>>

SyncTmp(t) ==
  /\ Goto(t, "sync", "rename")
  /\ tmp' = [tmp EXCEPT ![ProcessOf[t]].synced = TRUE]
  /\ UNCHANGED <<auth, durable, rmw, flock, local, request, answer>>

RenameTmp(t) ==
  /\ Goto(t, "rename", "unlock")
  /\ auth' = tmp[ProcessOf[t]]
  /\ tmp' = [tmp EXCEPT ![ProcessOf[t]] = TruncatedFile]
  /\ Answered(t, "done")
  /\ UNCHANGED <<durable, rmw, flock, local, request>>

(* Mutant: a failed save is ignored, `let _ = save(..)`. *)
SaveErrorIgnored(t) ==
  /\ pc[t] \in Saving
  /\ Goto(t, pc[t], "unlock")
  /\ Answered(t, "done")
  /\ UNCHANGED <<auth, durable, tmp, rmw, flock, local, request>>

(* Any of save's calls may fail; the temporary file stays where it is. *)
SaveError(t) ==
  /\ pc[t] \in Saving
  /\ Goto(t, pc[t], "unlock")
  /\ Answered(t, "error")
  /\ UNCHANGED <<auth, durable, tmp, rmw, flock, local, request>>

(* The guards of `update` are dropped in the reverse order of their taking. *)
Unlock(t) ==
  /\ Goto(t, "unlock", "leave")
  /\ flock' = NoThread
  /\ local' = [local EXCEPT ![t] = EmptyStore]
  /\ UNCHANGED <<auth, durable, tmp, rmw, request, answer>>

Leave(t) ==
  /\ Goto(t, "leave", "idle")
  /\ rmw' = [rmw EXCEPT ![ProcessOf[t]] = NoThread]
  /\ request' = [request EXCEPT ![t] = NoRequest]
  /\ Answered(t, "none")
  /\ UNCHANGED <<auth, durable, tmp, flock, local>>

(* The threads in D are gone: the kernel drops their flock, their mutex dies. *)
Gone(D) ==
  /\ pc' = [t \in Thread |-> IF t \in D THEN "idle" ELSE pc[t]]
  /\ request' = [t \in Thread |-> IF t \in D THEN NoRequest ELSE request[t]]
  /\ answer' = [t \in Thread |-> IF t \in D THEN "none" ELSE answer[t]]
  /\ rmw' = [p \in Process |-> IF rmw[p] \in D THEN NoThread ELSE rmw[p]]
  /\ flock' = IF flock \in D THEN NoThread ELSE flock
  /\ local' = [t \in Thread |-> IF t \in D THEN EmptyStore ELSE local[t]]

(* A process is killed anywhere; auth.json.tmp.<pid> stays as it is. *)
Crash(p) ==
  /\ Gone({t \in Thread : ProcessOf[t] = p})
  /\ UNCHANGED <<auth, durable, tmp>>

(* The file system writes the directory out some time after the rename. *)
WriteBack ==
  /\ durable' = auth
  /\ UNCHANGED <<auth, tmp, rmw, flock, pc, local, request, answer>>

(* Contents that were never synced are not there after the machine restarts. *)
Recovered(f) == IF f.synced THEN f ELSE TruncatedFile

PowerFailure ==
  /\ Gone(Thread)
  /\ auth' = Recovered(durable)
  /\ durable' = Recovered(durable)
  /\ tmp' = [p \in Process |-> Recovered(tmp[p])]

Step(t) ==
  \/ TakeRmw(t) \/ TakeFlock(t) \/ Load(t)
  \/ CreateTmp(t) \/ WriteTmp(t) \/ SyncTmp(t) \/ RenameTmp(t)
  \/ Unlock(t) \/ Leave(t)

Error(t) == LockError(t) \/ LoadError(t) \/ SaveError(t)

Next ==
  \/ \E t \in Thread : Step(t) \/ Error(t)
  \/ \E t \in Thread, r \in Request : Call(t, r)
  \/ \E p \in Process : Crash(p)
  \/ WriteBack
  \/ PowerFailure

Spec == Init /\ [][Next]_vars

--------------------------------------------------------------------------------

(* The threads between taking the flock and giving it back. *)
InFlock(t) == pc[t] \in {"load", "unlock"} \cup Saving
InRmw(t) == InFlock(t) \/ pc[t] \in {"flock", "leave"}

(* Each lock has the holder whose code says it holds it. *)
LocksHeld ==
  \A t \in Thread :
    /\ InFlock(t) <=> flock = t
    /\ InRmw(t) <=> rmw[ProcessOf[t]] = t

(* A pending update has its request, and an answer exactly once it is decided. *)
CallState ==
  \A t \in Thread :
    /\ request[t] \in IF pc[t] = "idle" THEN {NoRequest} ELSE Request
    /\ answer[t] = "none" <=> pc[t] \notin {"unlock", "leave"}

(***************************************************************************)
(* store.rs "防止两家 provider 同时刷新时互相覆盖": whoever is about to   *)
(* write has in hand the current auth.json with just its own change in it, *)
(* so a write-back never undoes another thread's or process's update.      *)
(***************************************************************************)
NoStaleWrite ==
  \A t \in Thread :
    pc[t] \in Saving =>
      local[t] = Change(auth.text, request[t]) /\ ~Absent(auth.text, request[t])

(* The temporary file holds what its writer is about to publish. *)
TmpReady ==
  \A t \in Thread :
    /\ pc[t] \in {"sync", "rename"} => tmp[ProcessOf[t]].text = local[t]
    /\ pc[t] = "rename" => tmp[ProcessOf[t]].synced

(***************************************************************************)
(* auth.json always parses, after a power failure too: the lock-free       *)
(* load() of every request, of status and of the refresh task never fails  *)
(* on a half-written file.                                                 *)
(***************************************************************************)
NeverTorn ==
  /\ auth.synced /\ auth.text # Torn
  /\ durable.synced /\ durable.text # Torn

IInv == TypeOK /\ LocksHeld /\ CallState /\ NoStaleWrite /\ TmpReady /\ NeverTorn

(* What the callers see: the atomic map of CredentialStore. *)
Map == INSTANCE CredentialStore
         WITH Client <- Thread, store <- auth.text, settled <- durable.text

(* put and remove, with all their locks and files, are CredentialStore's. *)
MapSpec == Map!Spec
================================================================================
