------------------------------- MODULE TrafficLog -------------------------------
(***************************************************************************)
(* What src/reqlog.rs promises to whoever reads it: a list of what is in   *)
(* progress, and a book for every day.  An exchange that has ended is      *)
(* entered in the book of the day it ended on, at one moment, once, and    *)
(* only then leaves the list.  It stays out of the book only if something  *)
(* fails: then its text may be torn, and so hide the next entry of that    *)
(* day's book, but no more than that one.                                  *)
(*                                                                         *)
(* RequestLog describes how the code keeps this promise with a mutex, an   *)
(* open file and texts that grow by pieces.                                *)
(***************************************************************************)
EXTENDS Integers, Sequences

CONSTANTS
  Req,    \* exchanges
  MaxDay  \* bound: the days one behaviour lasts

Day == 1..MaxDay

VARIABLES
  today,   \* the date
  phase,   \* how far each exchange has come
  due,     \* the day each exchange ended on, 0 before that
  listed,  \* the list of what is in progress
  book,    \* what a reader finds in the book of each day
  torn,    \* the days whose book ends in a torn text
  faults   \* how many failures there were

vars == <<today, phase, due, listed, book, torn, faults>>

Phase == {"new", "open", "ended", "over"}

Init ==
  /\ today = 1
  /\ phase = [r \in Req |-> "new"]
  /\ due = [r \in Req |-> 0]
  /\ listed = {}
  /\ book = [d \in Day |-> <<>>]
  /\ torn = {}
  /\ faults = 0

Goes(r, from, to) == phase[r] = from /\ phase' = [phase EXCEPT ![r] = to]

Begin(r) ==
  /\ Goes(r, "new", "open")
  /\ listed' = listed \cup {r}
  /\ UNCHANGED <<today, due, book, torn, faults>>

(* Finished, broken or abandoned: from now on the day is fixed. *)
End(r) ==
  /\ Goes(r, "open", "ended")
  /\ due' = [due EXCEPT ![r] = today]
  /\ UNCHANGED <<today, listed, book, torn, faults>>

(* The entry can be read, unless it stands behind a torn text; what follows *)
(* it can be read again.                                                    *)
Enter(r) ==
  /\ Goes(r, "ended", "over")
  /\ IF due[r] \in torn THEN UNCHANGED book
                        ELSE book' = [book EXCEPT ![due[r]] = Append(@, r)]
  /\ torn' = torn \ {due[r]}
  /\ UNCHANGED <<today, due, listed, faults>>

(* The writing fails, with nothing written or with a part. *)
Omit(r) ==
  /\ faults' = faults + 1
  /\ Goes(r, "ended", "over")
  /\ torn' \in {torn, torn \cup {due[r]}}
  /\ UNCHANGED <<today, due, listed, book>>

Leave(r) ==
  /\ phase[r] = "over" /\ r \in listed
  /\ listed' = listed \ {r}
  /\ UNCHANGED <<today, phase, due, book, torn, faults>>

(* The daemon ends; it may have been writing one entry. *)
Stop ==
  /\ faults' = faults + 1
  /\ phase' = [r \in Req |-> IF phase[r] \in {"open", "ended"} THEN "over" ELSE phase[r]]
  /\ listed' = {}
  /\ \/ UNCHANGED torn
     \/ \E r \in Req : phase[r] = "ended" /\ torn' = torn \cup {due[r]}
  /\ UNCHANGED <<today, due, book>>

(* A failure of somebody else's. *)
Elsewhere ==
  /\ faults' = faults + 1
  /\ UNCHANGED <<today, phase, due, listed, book, torn>>

Midnight ==
  /\ today < MaxDay
  /\ today' = today + 1
  /\ UNCHANGED <<phase, due, listed, book, torn, faults>>

Next ==
  \/ \E r \in Req : Begin(r) \/ End(r) \/ Enter(r) \/ Omit(r) \/ Leave(r)
  \/ Stop \/ Elsewhere \/ Midnight

Spec == Init /\ [][Next]_vars
================================================================================
