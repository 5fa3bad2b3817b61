----------------------------- MODULE MCTokenRefresh -----------------------------
(* Two requests of the daemon and one of `models`, a command-line process. *)
EXTENDS TokenRefresh, TLC

CONSTANTS r1, r2, m1, daemon, cli

MCProcess == {daemon, cli}
AllCallers == {r1, r2, m1}
OnePerProcess == {r1, m1}
ProcessOfAll == (r1 :> daemon) @@ (r2 :> daemon) @@ (m1 :> cli)
ProcessOfTwo == (r1 :> daemon) @@ (m1 :> cli)

(* The daemon's requests are interchangeable, and so are the accounts. *)
Symmetry == Permutations({r1, r2}) \cup Permutations(Account)
AccountSymmetry == Permutations(Account)
================================================================================
