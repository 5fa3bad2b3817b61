--------------------------------- MODULE Login ---------------------------------
(***************************************************************************)
(* The first commands after an upgrade from v0.14: main.rs `main` moves    *)
(* the directory of the old name (store.rs `migrate_legacy`) and stops the *)
(* daemon that still runs from it, then does what it was asked for.  One   *)
(* process is `login`: it waits for the browser (Callback), exchanges the  *)
(* code and saves the credential; the others use the credential and may    *)
(* refresh it.  The old daemon keeps the paths it was started with, so     *)
(* what it saves after the move makes a directory of the old name again.   *)
(*                                                                         *)
(* The old version is not part of the source: it is taken to refresh as    *)
(* this one does, from the file (0.3.2 and later) or from its memory.  One *)
(* provider; a directory stands for the refresh token in its auth.json.    *)
(***************************************************************************)
EXTENDS Callback

CONSTANTS
  LoginProcess,  \* the process of the login command
  Other,         \* processes of other commands of the new version
  MaxToken       \* bound: the refresh tokens a provider mints

Process == {LoginProcess} \cup Other

ASSUME LoginAssumption == LoginProcess \notin Other /\ MaxToken \in Nat \ {0}

VARIABLES
  legacy,    \* the directory of the old name: NoDir, 0 without a token, or a token
  dir,       \* the directory of the new name, likewise
  old,       \* where the old daemon is
  memory,    \* it refreshes what it has in memory, not what the file says
  oldToken,  \* the token it has in hand
  oldLock,   \* the refresh lock it holds came along with the directory
  pc,        \* where each process of the new version is
  fresh,     \* the token it has got and not yet saved
  live,      \* the tokens the provider still exchanges
  minted,    \* how many it has minted
  excuse     \* history: why the token in the new directory may be spent

oldVars == <<old, memory, oldToken, oldLock>>
newVars == <<pc, fresh>>
tokenVars == <<live, minted>>
vars == <<callbackVars, legacy, dir, oldVars, newVars, tokenVars, excuse>>

NoDir == -1
Content == NoDir..MaxToken
Token == 1..MaxToken

TypeOK ==
  /\ CallbackTypeOK
  /\ legacy \in Content /\ dir \in Content
  /\ old \in {"dead", "idle", "exchange", "save"}
  /\ memory \in BOOLEAN /\ oldLock \in BOOLEAN
  /\ oldToken \in 0..MaxToken
  /\ pc \in [Process -> {"start", "move", "stop", "run", "wait", "save", "done"}]
  /\ fresh \in [Process -> 0..MaxToken]
  /\ live \subseteq Token
  /\ minted \in 0..MaxToken
  /\ excuse \subseteq {"move met exchange", "not stopped in time", "died before save"}

(* Logged in with the old version, whose daemon may be running. *)
Init ==
  /\ CallbackInit
  /\ legacy = 1 /\ dir = NoDir
  /\ old \in {"dead", "idle"} /\ memory \in BOOLEAN
  /\ oldToken = IF memory THEN 1 ELSE 0
  /\ oldLock = FALSE
  /\ pc = [p \in Process |-> "start"]
  /\ fresh = [p \in Process |-> 0]
  /\ live = {1} /\ minted = 1
  /\ excuse = {}

Goto(p, to) == pc' = [pc EXCEPT ![p] = to]
InFlight == old \in {"exchange", "save"}

--------------------------------------------------------------------------------
(* migrate_legacy_dir and the stop that follows it. *)

Look(p) ==
  /\ pc[p] = "start"
  /\ Goto(p, IF dir # NoDir \/ legacy = NoDir THEN "run" ELSE "move")
  /\ UNCHANGED <<callbackVars, legacy, dir, oldVars, fresh, tokenVars, excuse>>

(* Mutant: the old daemon is left running. *)
MoveOnly(p) ==
  /\ pc[p] = "move"
  /\ legacy # NoDir /\ dir = NoDir
  /\ dir' = legacy /\ legacy' = NoDir
  /\ Goto(p, "run")
  /\ oldLock' = InFlight
  /\ excuse' = IF InFlight THEN excuse \cup {"move met exchange"} ELSE excuse
  /\ UNCHANGED <<callbackVars, old, memory, oldToken, fresh, tokenVars>>

(* The rename; the locks the old daemon holds move with the files. *)
Move(p) ==
  /\ pc[p] = "move"
  /\ legacy # NoDir /\ dir = NoDir
  /\ dir' = legacy /\ legacy' = NoDir
  /\ Goto(p, IF old = "dead" THEN "run" ELSE "stop")
  /\ oldLock' = InFlight
  /\ excuse' = IF InFlight THEN excuse \cup {"move met exchange"} ELSE excuse
  /\ UNCHANGED <<callbackVars, old, memory, oldToken, fresh, tokenVars>>

(* Another process was first, or the rename fails for a reason of its own. *)
MoveError(p) ==
  /\ pc[p] = "move"
  /\ Goto(p, "run")
  /\ UNCHANGED <<callbackVars, legacy, dir, oldVars, fresh, tokenVars, excuse>>

(* `stop` returns once the daemon is gone (Daemon, StoppedIsGone), or fails. *)
Stop(p) ==
  /\ pc[p] = "stop"
  /\ old = "dead"
  /\ Goto(p, "run")
  /\ UNCHANGED <<callbackVars, legacy, dir, oldVars, fresh, tokenVars, excuse>>

StopError(p) ==
  /\ pc[p] = "stop"
  /\ Goto(p, "run")
  /\ excuse' = excuse \cup {"not stopped in time"}
  /\ UNCHANGED <<callbackVars, legacy, dir, oldVars, fresh, tokenVars>>

--------------------------------------------------------------------------------
(* The old daemon; a signal may end it anywhere, and so may anything else. *)

OldBegins ==
  /\ old = "idle"
  /\ old' = "exchange"
  /\ IF memory THEN UNCHANGED oldToken ELSE legacy > 0 /\ oldToken' = legacy
  /\ UNCHANGED <<callbackVars, legacy, dir, memory, oldLock, newVars, tokenVars, excuse>>

Rotate(token) ==
  /\ minted < MaxToken
  /\ minted' = minted + 1
  /\ live' = (live \ {token}) \cup {minted + 1}

OldExchanges ==
  /\ old = "exchange"
  /\ IF oldToken \in live
     THEN Rotate(oldToken) /\ old' = "save" /\ oldToken' = minted + 1
     ELSE old' = "idle" /\ UNCHANGED <<oldToken, tokenVars>>
  /\ oldLock' = (oldLock /\ oldToken \in live)
  /\ excuse' = IF \E p \in Process : pc[p] = "stop"
               THEN excuse \cup {"not stopped in time"} ELSE excuse
  /\ UNCHANGED <<callbackVars, legacy, dir, memory, newVars>>

OldSaves ==
  /\ old = "save"
  /\ old' = "idle" /\ oldLock' = FALSE
  /\ legacy' = oldToken
  /\ UNCHANGED <<callbackVars, dir, memory, oldToken, newVars, tokenVars, excuse>>

OldDies ==
  /\ old # "dead"
  /\ old' = "dead" /\ oldLock' = FALSE
  /\ excuse' = IF old = "save" THEN excuse \cup {"died before save"} ELSE excuse
  /\ UNCHANGED <<callbackVars, legacy, dir, memory, oldToken, newVars, tokenVars>>

--------------------------------------------------------------------------------
(* The commands of the new version. *)

(* A refresh, with the refresh lock in the new directory. *)
Refreshing == \E p \in Other : pc[p] = "save"

Refresh(p) ==
  /\ p \in Other /\ pc[p] = "run"
  /\ ~oldLock /\ ~Refreshing
  /\ dir > 0 /\ dir \in live
  /\ Rotate(dir)
  /\ fresh' = [fresh EXCEPT ![p] = minted + 1]
  /\ Goto(p, "save")
  /\ UNCHANGED <<callbackVars, legacy, dir, oldVars, excuse>>

(* `login` binds its ports and gives out the url. *)
BeginLogin ==
  /\ pc[LoginProcess] = "run"
  /\ Listen
  /\ Goto(LoginProcess, "wait")
  /\ UNCHANGED <<legacy, dir, oldVars, fresh, tokenVars, excuse>>

Browser ==
  /\ pc[LoginProcess] = "wait"
  /\ CallbackNext
  /\ UNCHANGED <<legacy, dir, oldVars, newVars, tokenVars, excuse>>

(* A code with the state of this login is exchanged; anything else ends it. *)
LoggedIn ==
  /\ pc[LoginProcess] = "wait" /\ outcome = "code"
  /\ minted < MaxToken
  /\ minted' = minted + 1 /\ live' = live \cup {minted + 1}
  /\ fresh' = [fresh EXCEPT ![LoginProcess] = minted + 1]
  /\ Goto(LoginProcess, "save")
  /\ Close
  /\ UNCHANGED <<legacy, dir, oldVars, excuse>>

LoginFails ==
  /\ pc[LoginProcess] = "wait" /\ outcome \notin {"closed", "waiting"}
  /\ Goto(LoginProcess, "done")
  /\ Close
  /\ UNCHANGED <<legacy, dir, oldVars, fresh, tokenVars, excuse>>

(* store::put, which makes the directory if there is none. *)
Save(p) ==
  /\ pc[p] = "save"
  /\ dir' = fresh[p]
  /\ fresh' = [fresh EXCEPT ![p] = 0]
  /\ Goto(p, "done")
  /\ UNCHANGED <<callbackVars, legacy, oldVars, tokenVars, excuse>>

Dies(p) ==
  /\ pc[p] # "done"
  /\ Goto(p, "done")
  /\ fresh' = [fresh EXCEPT ![p] = 0]
  /\ excuse' = CASE pc[p] = "save" -> excuse \cup {"died before save"}
                 [] pc[p] = "stop" -> excuse \cup {"not stopped in time"}
                 [] OTHER -> excuse
  /\ IF p = LoginProcess THEN Close ELSE UNCHANGED callbackVars
  /\ UNCHANGED <<legacy, dir, oldVars, tokenVars>>

Next ==
  \/ \E p \in Process :
       \/ Look(p) \/ Move(p) \/ MoveError(p) \/ Stop(p) \/ StopError(p)
       \/ Refresh(p) \/ Save(p) \/ Dies(p)
  \/ OldBegins \/ OldExchanges \/ OldSaves \/ OldDies
  \/ BeginLogin \/ Browser \/ LoggedIn \/ LoginFails

Spec == Init /\ [][Next]_vars

--------------------------------------------------------------------------------

(***************************************************************************)
(* main.rs "留着会在旧路径重建目录, 把轮换后的 refresh token 写回旧处 ->   *)
(* 新目录里那份作废": the token in the new directory is one the provider   *)
(* still exchanges or is being replaced, whichever process moves the       *)
(* directory and whatever the others do meanwhile.  The code does not      *)
(* prevent three cases: the old daemon was in an exchange when its         *)
(* directory moved, it began one from memory before it could be stopped,   *)
(* and a process that died before it saved what it had got.                *)
(***************************************************************************)
TokenUsable ==
  dir > 0 /\ dir \notin live => Refreshing \/ excuse # {}
================================================================================
