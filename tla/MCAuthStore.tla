------------------------------ MODULE MCAuthStore ------------------------------
(* Two threads of the daemon and one command-line process share auth.json. *)
EXTENDS AuthStore, TLC

CONSTANTS d1, d2, c1, daemon, cli

MCThread == {d1, d2, c1}
MCProcess == {daemon, cli}
MCProcessOf == (d1 :> daemon) @@ (d2 :> daemon) @@ (c1 :> cli)

(* The daemon's threads are interchangeable, and so are the two providers. *)
Symmetry == Permutations({d1, d2}) \cup Permutations(Provider)
================================================================================
