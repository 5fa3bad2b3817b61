-------------------------------- MODULE TokenReply --------------------------------
(***************************************************************************)
(* src/oauth.rs: what becomes of a reply of a token endpoint, and of the   *)
(* credential it refreshes.  "none" stands for a field that is missing or  *)
(* null, and for a claim of a JWT of another type; a reply with a field of *)
(* another type does not parse, which is a refresh that failed.  Time and  *)
(* lifetimes are in seconds.                                               *)
(***************************************************************************)
EXTENDS Integers

CONSTANT MaxSeconds  \* of the code's u64

ASSUME MaxSecondsAssumption == MaxSeconds \in Nat

Plus(a, b) == IF a + b > MaxSeconds THEN MaxSeconds ELSE a + b  \* saturating_add

Or(val, other) == IF val = "none" THEN other ELSE val

Credential(reply, expires_at) ==
  [access_token |-> reply.access_token, refresh_token |-> Or(reply.refresh_token, ""),
   expires_at |-> expires_at, account |-> reply.account, account_id |-> reply.account_id,
   plan |-> reply.plan]

(* The Anthropic reply names no plan. *)
AnthropicCredential(reply, now) ==
  Credential([reply EXCEPT !.plan = "none"],
             Plus(now, IF reply.expires_in = -1 THEN 3600 ELSE reply.expires_in))

(* Mutant: the lifetime of a reply without one is guessed. *)
CodexCredentialGuessed(reply, now) ==
  Credential(reply, Plus(now, IF reply.expires_in = -1 THEN 3600 ELSE reply.expires_in))

(* The lifetime of a reply, then what the token says, then an hour. *)
CodexCredential(reply, now) ==
  Credential(reply, CASE reply.expires_in # -1 -> Plus(now, reply.expires_in)
                      [] reply.expires_in = -1 /\ reply.exp # -1 -> reply.exp
                      [] OTHER -> Plus(now, 3600))

(* refresh: a field the reply leaves out stays as it was. *)
Refreshed(provider, cred, reply, now) ==
  LET fresh == IF provider = "anthropic" THEN AnthropicCredential(reply, now)
               ELSE CodexCredential(reply, now)
  IN [fresh EXCEPT !.refresh_token = IF @ = "" THEN cred.refresh_token ELSE @,
                   !.account = Or(@, cred.account),
                   !.account_id = Or(@, cred.account_id),
                   !.plan = Or(@, cred.plan)]
================================================================================
