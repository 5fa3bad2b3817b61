---------------------------- MODULE CredentialStore ----------------------------
(***************************************************************************)
(* What src/store.rs promises its callers about auth.json: a map from      *)
(* provider to credential in which `put` and `remove` take effect          *)
(* atomically, once, at some moment between the call and its return, touch *)
(* one provider only, and change nothing when they report an error.  A     *)
(* caller that dies may leave its request performed or not performed,      *)
(* never half performed.  A power failure takes the whole map back to one  *)
(* earlier value.                                                          *)
(*                                                                         *)
(* AuthStore describes how the code keeps this promise with two locks, a   *)
(* temporary file and a rename.                                            *)
(***************************************************************************)
CONSTANTS
  Provider,      \* the two subscriptions
  Credential,    \* every credential that can be stored
  NoCredential,  \* the entry of a provider that is not logged in
  Client,        \* the threads that call the store
  NoRequest      \* the request of a client that asks for nothing

VARIABLES
  store,    \* the map as a reader sees it
  settled,  \* the value a power failure would leave
  request,  \* the update each client has asked for
  answer    \* the answer that update already has

vars == <<store, settled, request, answer>>

Store == [Provider -> Credential \cup {NoCredential}]
EmptyStore == [p \in Provider |-> NoCredential]

(* put(provider, credential) or remove(provider). *)
Request == [provider : Provider, entry : Credential \cup {NoCredential}]

Answer == {"none", "done", "absent", "error"}

(* The map after a request; `remove` writes NoCredential. *)
Change(s, r) == [s EXCEPT ![r.provider] = r.entry]

(* `remove` of a provider that is not there leaves the map alone. *)
Absent(s, r) == r.entry = NoCredential /\ s[r.provider] = NoCredential

TypeOK ==
  /\ store \in Store
  /\ settled \in Store
  /\ request \in [Client -> Request \cup {NoRequest}]
  /\ answer \in [Client -> Answer]

Init ==
  /\ store = EmptyStore
  /\ settled = EmptyStore
  /\ request = [c \in Client |-> NoRequest]
  /\ answer = [c \in Client |-> "none"]

Ask(c, r) ==
  /\ request[c] = NoRequest
  /\ request' = [request EXCEPT ![c] = r]
  /\ UNCHANGED <<store, settled, answer>>

Waiting(c) == request[c] # NoRequest /\ answer[c] = "none"

Perform(c) ==
  /\ Waiting(c)
  /\ \/ /\ Absent(store, request[c])
        /\ answer' = [answer EXCEPT ![c] = "absent"]
        /\ UNCHANGED store
     \/ /\ ~Absent(store, request[c])
        /\ answer' = [answer EXCEPT ![c] = "done"]
        /\ store' = Change(store, request[c])
  /\ UNCHANGED <<settled, request>>

Refuse(c) ==
  /\ Waiting(c)
  /\ answer' = [answer EXCEPT ![c] = "error"]
  /\ UNCHANGED <<store, settled, request>>

Return(c) ==
  /\ answer[c] # "none"
  /\ request' = [request EXCEPT ![c] = NoRequest]
  /\ answer' = [answer EXCEPT ![c] = "none"]
  /\ UNCHANGED <<store, settled>>

(* The clients in D die together: they are the threads of one process. *)
Forget(D) ==
  /\ request' = [c \in Client |-> IF c \in D THEN NoRequest ELSE request[c]]
  /\ answer' = [c \in Client |-> IF c \in D THEN "none" ELSE answer[c]]

Die(D) == Forget(D) /\ UNCHANGED <<store, settled>>

Settle ==
  /\ settled' = store
  /\ UNCHANGED <<store, request, answer>>

PowerFailure ==
  /\ store' = settled
  /\ Forget(Client)
  /\ UNCHANGED settled

Next ==
  \/ \E c \in Client : Perform(c) \/ Refuse(c) \/ Return(c)
  \/ \E c \in Client, r \in Request : Ask(c, r)
  \/ \E D \in SUBSET Client : Die(D)
  \/ Settle
  \/ PowerFailure

Spec == Init /\ [][Next]_vars
================================================================================
