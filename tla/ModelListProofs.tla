----------------------------- MODULE ModelListProofs -----------------------------
(***************************************************************************)
(* What ModelList promises, for any number of providers and attempts and   *)
(* any limit.                                                              *)
(***************************************************************************)
EXTENDS ModelList, TLAPS

(* A provider that still has an attempt before it has one left. *)
AttemptsLeft ==
  \A p \in Provider :
    at[p] \in {"off", "slot", "url", "token", "backoff"} => attempt[p] < MaxAttempts

(***************************************************************************)
(* What a provider has left of its limit was not spent on anything but its *)
(* `list` or a mutex; as long as one waits for its slot a mutex holds up   *)
(* the request.                                                            *)
(***************************************************************************)
Budget ==
  mode = "all" =>
    /\ \A p \in Provider : at[p] # "off"
    /\ \A p \in Provider : Timed(p) => age + left[p] <= Limit + held
    /\ (\E p \in Provider : at[p] = "slot") => age <= held
    /\ age <= Limit + held

(* No request, no time and no leg. *)
NoRequest ==
  mode = "none" =>
    age = 0 /\ held = 0 /\ leg = NoLeg /\ asked = {} /\ \A p \in Provider : at[p] = "off"

(* Of the providers that wait for an answer, the one whose request the leg   *)
(* holds waits for the answer to just that attempt.                          *)
LegHeld ==
  /\ leg = NoLeg <=> asked = {}
  /\ leg # NoLeg => leg.request[1] \in asked
  /\ \A p \in Provider : at[p] = "sent" =>
       p \in asked /\ (leg.request[1] = p => leg.request = <<p, attempt[p]>>)
  /\ \/ leg.answer \in {None, leg.request}
     \/ \E p, q \in asked : p # q

LInv ==
  /\ TypeOK
  /\ AttemptsLeft
  /\ Budget
  /\ NoRequest
  /\ LegHeld

(* Providers are no names of a mode, and None is no attempt. *)
LEMMA Names ==
  /\ \A p \in Provider : p # "none" /\ p # "all" /\ p # NoOne
  /\ None \notin Attempt
  /\ NoLeg \notin Leg
<1>1. \A p \in Provider : p # "none" /\ p # "all" /\ p # NoOne
  BY ListAssumption
<1>2. None \notin Attempt
  BY <1>1 DEF None, Attempt
<1>. QED
  BY <1>1, <1>2 DEF NoLeg, Leg

--------------------------------------------------------------------------------
(* Lemmas: what many steps have in common. *)

(* The stages of a `list` under way. *)
Listing == Stage \ {"off", "slot", "done"}

(* The list of p goes on, or ends, within its budget. *)
LEMMA BudgetKept ==
  ASSUME LInv, NEW p \in Provider, NEW to \in Stage \ {"off", "slot"}, at[p] \in Listing,
         Moves(p, to), UNCHANGED <<mode, left, age, held>>
  PROVE  Budget' /\ NoRequest' /\ at' \in [Provider -> Stage] /\ mode # "none"
<1>1. at' = [at EXCEPT ![p] = to] /\ at \in [Provider -> Stage]
  BY DEF Moves, LInv, TypeOK
<1>2. at' \in [Provider -> Stage] /\ at'[p] = to /\ \A q \in Provider \ {p} : at'[q] = at[q]
  BY <1>1
<1>3. mode # "none"
  BY DEF LInv, NoRequest, Listing
<1>4. Budget'
  <2>. SUFFICES ASSUME mode = "all" PROVE Budget'
    BY DEF Budget
  <2>1. \A q \in Provider : at'[q] # "off"
    BY <1>2 DEF LInv, Budget
  <2>2. ASSUME NEW q \in Provider, Timed(q)' PROVE Timed(q)
    BY <1>2, <2>2 DEF Timed, Listing
  <2>3. ASSUME NEW q \in Provider, at'[q] = "slot" PROVE at[q] = "slot"
    BY <1>2, <2>3
  <2>. QED
    BY <2>1, <2>2, <2>3 DEF LInv, Budget
<1>. QED
  BY <1>2, <1>3, <1>4 DEF NoRequest

(* It goes on without a word to the upstream. *)
LEMMA Onward ==
  ASSUME LInv, NEW p \in Provider, NEW to \in Stage \ {"off", "slot", "sent"},
         at[p] \in Listing, Moves(p, to), UNCHANGED <<mode, left, age, held, legVars>>,
         attempt' \in [Provider -> 0..MaxAttempts],
         \A q \in Provider \ {p} : attempt'[q] = attempt[q],
         to \in {"url", "token", "backoff"} => attempt'[p] < MaxAttempts,
         rejected' \in [Provider -> BOOLEAN], slot' \in [Provider -> {"free", "ours", "others"}]
  PROVE  LInv'
<1>1. Budget' /\ NoRequest' /\ at' \in [Provider -> Stage]
  BY BudgetKept
<1>2. at'[p] = to /\ \A q \in Provider \ {p} : at'[q] = at[q]
  BY DEF Moves, LInv, TypeOK
<1>3. TypeOK'
  BY <1>1 DEF LInv, TypeOK, legVars
<1>4. AttemptsLeft'
  BY <1>2 DEF LInv, AttemptsLeft
<1>5. LegHeld'
  BY <1>2 DEF LInv, LegHeld, legVars
<1>. QED
  BY <1>1, <1>3, <1>4, <1>5 DEF LInv

(* The request of attempt n is noted and goes out. *)
LEMMA Sending ==
  ASSUME LInv, NEW p \in Provider, NEW n \in 0..MaxAttempts, at[p] \in Listing,
         Sends(p, n), UNCHANGED <<mode, left, age, held, rejected, slot>>,
         attempt' \in [Provider -> 0..MaxAttempts], attempt'[p] = n,
         \A q \in Provider \ {p} : attempt'[q] = attempt[q]
  PROVE  LInv'
<1>1. /\ Moves(p, "sent") /\ asked' = asked \cup {p}
      /\ leg' = [request |-> <<p, n>>, answer |-> None]
  BY DEF Sends
<1>2. Budget' /\ at' \in [Provider -> Stage] /\ mode # "none"
  BY <1>1, BudgetKept DEF Stage
<1>3. at'[p] = "sent" /\ \A q \in Provider \ {p} : at'[q] = at[q]
  BY <1>1 DEF Moves, LInv, TypeOK
<1>4. leg' \in Leg /\ asked' \in SUBSET Provider
  <2>1. <<p, n>> \in Attempt
    BY DEF Attempt
  <2>. QED
    BY <1>1, <2>1 DEF Leg, LInv, TypeOK
<1>5. TypeOK'
  BY <1>2, <1>4 DEF LInv, TypeOK
<1>6. AttemptsLeft'
  BY <1>3 DEF LInv, AttemptsLeft
<1>7. LegHeld'
  <2>1. leg' # NoLeg /\ asked' # {}
    BY <1>1, <1>4, Names
  <2>2. leg'.request = <<p, n>> /\ leg'.request[1] = p /\ leg'.answer = None
    BY <1>1
  <2>3. ASSUME NEW q \in Provider, at'[q] = "sent"
        PROVE  q \in asked' /\ (leg'.request[1] = q => leg'.request = <<q, attempt'[q]>>)
    BY <1>1, <1>3, <2>2, <2>3 DEF LInv, LegHeld
  <2>. QED
    BY <1>1, <2>1, <2>2, <2>3 DEF LegHeld
<1>. QED
  BY <1>2, <1>5, <1>6, <1>7 DEF LInv, NoRequest

(* Nothing of the request changes but who holds a slot. *)
LEMMA SlotsOnly ==
  ASSUME LInv, UNCHANGED <<mode, branchVars, legVars, timeVars>>,
         slot' \in [Provider -> {"free", "ours", "others"}]
  PROVE  LInv'
<1>. USE DEF branchVars, legVars, timeVars
<1>1. TypeOK' /\ AttemptsLeft' /\ NoRequest' /\ LegHeld'
  BY DEF LInv, TypeOK, AttemptsLeft, NoRequest, LegHeld
<1>2. Budget'
  BY DEF LInv, Budget, Timed
<1>. QED
  BY <1>1, <1>2 DEF LInv

--------------------------------------------------------------------------------
(* The initial state, and one lemma for each kind of action. *)

LEMMA InitLInv == Init => LInv
<1>. SUFFICES ASSUME Init PROVE LInv
  OBVIOUS
<1>. USE ListAssumption DEF Init
<1>1. TypeOK
  BY DEF TypeOK, Stage
<1>2. AttemptsLeft /\ Budget /\ NoRequest
  BY DEF AttemptsLeft, Budget, NoRequest
<1>3. LegHeld
  BY DEF LegHeld, NoLeg
<1>. QED
  BY <1>1, <1>2, <1>3 DEF LInv

(* The request is answered or given up. *)
LEMMA IdleLInv == ASSUME LInv, Idle, slot' = slot PROVE LInv'
<1>. USE ListAssumption DEF Idle
<1>1. TypeOK'
  BY DEF LInv, TypeOK, Stage
<1>2. AttemptsLeft' /\ Budget' /\ NoRequest'
  BY DEF AttemptsLeft, Budget, NoRequest
<1>3. LegHeld'
  BY DEF LegHeld, NoLeg
<1>. QED
  BY <1>1, <1>2, <1>3 DEF LInv

LEMMA BeginLInv == ASSUME LInv, Begin PROVE LInv'
<1>1. /\ mode = "none" /\ UNCHANGED <<attempt, rejected, left, slot, leg, asked, age, held>>
      /\ age = 0 /\ held = 0 /\ leg = NoLeg /\ asked = {} /\ \A p \in Provider : at[p] = "off"
  BY DEF Begin, LInv, NoRequest, legVars, timeVars
<1>2. CASE mode' = "all" /\ at' = [p \in Provider |-> "slot"]
  <2>1. TypeOK'
    BY <1>1, <1>2 DEF LInv, TypeOK, Stage
  <2>2. AttemptsLeft' /\ NoRequest' /\ LegHeld'
    BY <1>1, <1>2 DEF LInv, AttemptsLeft, NoRequest, LegHeld
  <2>3. Budget'
    BY <1>1, <1>2, ListAssumption DEF Budget, Timed
  <2>. QED
    BY <2>1, <2>2, <2>3 DEF LInv
<1>3. CASE \E p \in Provider : mode' = p /\ Moves(p, First(p))
  <2>1. PICK p \in Provider : mode' = p /\ Moves(p, First(p))
    BY <1>3
  <2>2. at' = [at EXCEPT ![p] = First(p)] /\ First(p) \in {"url", "token"}
    BY <2>1 DEF Moves, First
  <2>3. TypeOK'
    BY <1>1, <2>1, <2>2 DEF LInv, TypeOK, Stage
  <2>4. AttemptsLeft' /\ LegHeld'
    BY <1>1, <2>2 DEF LInv, TypeOK, AttemptsLeft, LegHeld
  <2>5. NoRequest' /\ Budget'
    BY <2>1, Names DEF NoRequest, Budget
  <2>. QED
    BY <2>3, <2>4, <2>5 DEF LInv
<1>. QED
  BY <1>2, <1>3 DEF Begin

(* Behind the slot the limit begins; until then all time went to a mutex. *)
LEMMA SnapshotLInv == ASSUME LInv, NEW p \in Provider, Snapshot(p) PROVE LInv'
<1>1. /\ at[p] = "slot" /\ UNCHANGED <<mode, attempt, rejected, slot, leg, asked, age, held>>
      /\ \/ Moves(p, "done") /\ left' = left
         \/ Moves(p, First(p)) /\ left' = [left EXCEPT ![p] = Limit]
  BY DEF Snapshot, legVars, timeVars
<1>2. PICK to \in {"done", "url", "token"} :
        /\ at' = [at EXCEPT ![p] = to]
        /\ \/ to = "done" /\ left' = left
           \/ left' = [left EXCEPT ![p] = Limit]
  BY <1>1 DEF Moves, First
<1>3. at'[p] = to /\ \A q \in Provider \ {p} : at'[q] = at[q]
  BY <1>2 DEF LInv, TypeOK
<1>4. \/ to = "done" /\ left' = left
      \/ left'[p] = Limit /\ \A q \in Provider \ {p} : left'[q] = left[q]
  BY <1>2 DEF LInv, TypeOK
<1>5. TypeOK'
  BY <1>1, <1>2, ListAssumption DEF LInv, TypeOK, Stage
<1>6. AttemptsLeft' /\ LegHeld'
  BY <1>1, <1>3 DEF LInv, AttemptsLeft, LegHeld
<1>7. NoRequest'
  BY <1>1 DEF LInv, NoRequest
<1>8. Budget'
  <2>. SUFFICES ASSUME mode = "all" PROVE Budget'
    BY <1>1 DEF Budget
  <2>1. age <= held /\ age \in Nat /\ held \in Nat
    BY <1>1 DEF LInv, Budget, TypeOK
  <2>2. ASSUME NEW q \in Provider, Timed(q)' PROVE age + left'[q] <= Limit + held
    <3>1. CASE q = p
      BY <1>3, <1>4, <2>1, <2>2, <3>1, ListAssumption DEF Timed
    <3>2. CASE q # p
      BY <1>1, <1>3, <1>4, <2>2, <3>2 DEF Timed, LInv, Budget
    <3>. QED
      BY <3>1, <3>2
  <2>. QED
    BY <1>1, <1>3, <2>1, <2>2 DEF LInv, Budget
<1>. QED
  BY <1>5, <1>6, <1>7, <1>8 DEF LInv

(* With a credential the headers come first or the request goes out. *)
LEMMA HasTokenLInv ==
  ASSUME LInv, NEW p \in Provider, NEW n \in 0..MaxAttempts, at[p] \in Listing, HasToken(p, n),
         UNCHANGED <<mode, left, age, held, rejected, slot>>,
         attempt' \in [Provider -> 0..MaxAttempts], attempt'[p] = n,
         \A q \in Provider \ {p} : attempt'[q] = attempt[q]
  PROVE  LInv'
<1>1. rejected' \in [Provider -> BOOLEAN] /\ slot' \in [Provider -> {"free", "ours", "others"}]
  BY DEF LInv, TypeOK
<1>2. CASE Moves(p, "agent") /\ UNCHANGED legVars
  BY <1>1, <1>2, Onward DEF Stage
<1>3. CASE Sends(p, n)
  BY <1>3, Sending
<1>. QED
  BY <1>2, <1>3 DEF HasToken

LEMMA TokenLInv == ASSUME LInv, NEW p \in Provider, Token(p) PROVE LInv'
<1>1. /\ at[p] = "token" /\ attempt' = [attempt EXCEPT ![p] = attempt[p] + 1]
      /\ UNCHANGED <<mode, rejected, left, age, held>>
  BY DEF Token, timeVars
<1>2. attempt[p] < MaxAttempts /\ attempt \in [Provider -> 0..MaxAttempts] /\ MaxAttempts \in Nat
  BY <1>1, ListAssumption DEF LInv, TypeOK, AttemptsLeft
<1>3. attempt[p] + 1 \in 0..MaxAttempts
  BY <1>2
<1>4. /\ attempt' \in [Provider -> 0..MaxAttempts] /\ attempt'[p] = attempt[p] + 1
      /\ \A q \in Provider \ {p} : attempt'[q] = attempt[q]
  BY <1>1, <1>2, <1>3
<1>5. at[p] \in Listing /\ rejected' \in [Provider -> BOOLEAN]
  BY <1>1 DEF Listing, Stage, LInv, TypeOK
<1>6. CASE HasToken(p, attempt[p] + 1) /\ UNCHANGED slot
  BY <1>1, <1>3, <1>4, <1>5, <1>6, HasTokenLInv
<1>7. CASE /\ Moves(p, "done") \/ Moves(p, "await")
           /\ UNCHANGED legVars
           /\ slot' \in {slot, [slot EXCEPT ![p] = "ours"]}
  <2>1. slot' \in [Provider -> {"free", "ours", "others"}]
    BY <1>7 DEF LInv, TypeOK
  <2>. QED
    BY <1>1, <1>4, <1>5, <1>7, <2>1, Onward DEF Stage
<1>. QED
  BY <1>6, <1>7 DEF Token

LEMMA ResumeLInv == ASSUME LInv, NEW p \in Provider, Resume(p) PROVE LInv'
<1>1. /\ at[p] \in Listing /\ UNCHANGED <<mode, attempt, rejected, left, slot, age, held>>
      /\ \/ HasToken(p, attempt[p])
         \/ Moves(p, "done") /\ UNCHANGED legVars
  BY DEF Resume, timeVars, Listing, Stage
<1>2. /\ attempt' \in [Provider -> 0..MaxAttempts] /\ attempt[p] \in 0..MaxAttempts
      /\ rejected' \in [Provider -> BOOLEAN] /\ slot' \in [Provider -> {"free", "ours", "others"}]
  BY <1>1 DEF LInv, TypeOK
<1>. QED
  BY <1>1, <1>2, HasTokenLInv, Onward DEF Stage

LEMMA VersionReadLInv == ASSUME LInv, NEW p \in Provider, VersionRead(p) PROVE LInv'
<1>1. /\ at[p] \in Listing /\ UNCHANGED <<mode, attempt, rejected, left, slot, age, held>>
      /\ \/ at[p] = "url" /\ Moves(p, "token") /\ UNCHANGED legVars
         \/ Moves(p, "version") /\ UNCHANGED legVars
         \/ Sends(p, attempt[p])
  BY DEF VersionRead, timeVars, Listing, Stage
<1>2. /\ attempt' \in [Provider -> 0..MaxAttempts] /\ attempt[p] \in 0..MaxAttempts
      /\ rejected' \in [Provider -> BOOLEAN] /\ slot' \in [Provider -> {"free", "ours", "others"}]
      /\ at[p] = "url" => attempt[p] < MaxAttempts
  BY <1>1 DEF LInv, TypeOK, AttemptsLeft
<1>. QED
  BY <1>1, <1>2, Sending, Onward DEF Stage

LEMMA RefreshEndsLInv == ASSUME LInv, NEW p \in Provider, RefreshEnds(p) PROVE LInv'
<1>1. /\ slot' \in [Provider -> {"free", "ours", "others"}]
      /\ attempt \in [Provider -> 0..MaxAttempts] /\ rejected \in [Provider -> BOOLEAN]
  BY DEF RefreshEnds, LInv, TypeOK
<1>2. CASE at[p] = "await"
  BY <1>1, <1>2, Onward DEF RefreshEnds, timeVars, Listing, Stage
<1>3. CASE at[p] # "await"
  BY <1>1, <1>3, SlotsOnly DEF RefreshEnds, branchVars
<1>. QED
  BY <1>2, <1>3

(***************************************************************************)
(* The answer is noted into the leg, whoever's request that holds: another *)
(* one's only if a second provider has been asked.                         *)
(***************************************************************************)
LEMMA ReplyLInv == ASSUME LInv, NEW p \in Provider, Reply(p) PROVE LInv'
<1>1. /\ at[p] = "sent" /\ Noted(p)
      /\ UNCHANGED <<mode, attempt, left, slot, asked, age, held>>
  BY DEF Reply, timeVars
<1>2. PICK to \in {"body", "done", "token", "backoff"} :
        /\ Moves(p, to)
        /\ to \in {"token", "backoff"} => RetryLeft(p)
        /\ rejected' \in {rejected, [rejected EXCEPT ![p] = TRUE]}
  BY DEF Reply
<1>3. at[p] \in Listing /\ to \in Stage \ {"off", "slot", "sent"}
  BY <1>1 DEF Listing, Stage
<1>4. Budget' /\ NoRequest' /\ at' \in [Provider -> Stage]
  BY <1>1, <1>2, <1>3, BudgetKept
<1>5. at'[p] = to /\ \A q \in Provider \ {p} : at'[q] = at[q]
  BY <1>2 DEF Moves, LInv, TypeOK
<1>6. /\ p \in asked /\ leg # NoLeg /\ leg \in Leg /\ leg.request[1] \in asked
      /\ leg.request[1] = p => leg.request = <<p, attempt[p]>>
      /\ <<p, attempt[p]>> \in Attempt
  BY <1>1 DEF LInv, TypeOK, LegHeld, Attempt
<1>7. leg' = [request |-> leg.request, answer |-> <<p, attempt[p]>>]
  BY <1>1, <1>6 DEF Noted, Leg
<1>8. leg' \in Leg /\ leg' # NoLeg /\ leg'.request = leg.request /\ leg'.answer = <<p, attempt[p]>>
  BY <1>6, <1>7, Names DEF Leg
<1>9. TypeOK'
  BY <1>1, <1>2, <1>4, <1>8 DEF LInv, TypeOK
<1>10. AttemptsLeft'
  BY <1>1, <1>2, <1>5 DEF LInv, AttemptsLeft, RetryLeft
<1>11. LegHeld'
  <2>1. leg'.answer \in {None, leg'.request} \/ \E q, r \in asked' : q # r
    BY <1>1, <1>6, <1>8
  <2>2. ASSUME NEW q \in Provider, at'[q] = "sent"
        PROVE  q \in asked' /\ (leg'.request[1] = q => leg'.request = <<q, attempt'[q]>>)
    BY <1>1, <1>3, <1>5, <1>8, <2>2 DEF LInv, LegHeld
  <2>. QED
    BY <1>1, <1>6, <1>8, <2>1, <2>2 DEF LegHeld
<1>. QED
  BY <1>4, <1>9, <1>10, <1>11 DEF LInv

(* What else a branch does changes its stage only. *)
LEMMA StageLInv ==
  ASSUME LInv, NEW p \in Provider, SendError(p) \/ Again(p) \/ Body(p) \/ TimedOut(p)
  PROVE  LInv'
<1>1. /\ at[p] \in Listing
      /\ UNCHANGED <<mode, attempt, rejected, left, slot, legVars, age, held>>
      /\ \/ Moves(p, "done")
         \/ Moves(p, "backoff") /\ RetryLeft(p)
         \/ Moves(p, "token") /\ at[p] = "backoff"
  <2>1. TimedOut(p) => at[p] \in Listing
    BY DEF TimedOut, Timed, Listing, LInv, TypeOK
  <2>. QED
    BY <2>1 DEF SendError, Again, Body, TimedOut, timeVars, Listing, Stage
<1>2. /\ attempt' \in [Provider -> 0..MaxAttempts] /\ rejected' \in [Provider -> BOOLEAN]
      /\ slot' \in [Provider -> {"free", "ours", "others"}]
      /\ RetryLeft(p) \/ at[p] = "backoff" => attempt[p] < MaxAttempts
  BY <1>1 DEF LInv, TypeOK, AttemptsLeft, RetryLeft
<1>. QED
  BY <1>1, <1>2, Onward DEF Stage

LEMMA OthersLInv ==
  ASSUME LInv, NEW p \in Provider, OthersTake(p) \/ OthersGive(p) PROVE LInv'
<1>1. slot' \in [Provider -> {"free", "ours", "others"}]
  BY DEF OthersTake, OthersGive, LInv, TypeOK
<1>. QED
  BY <1>1, SlotsOnly DEF OthersTake, OthersGive

(***************************************************************************)
(* A tick is paid by the mutex that holds up the request, or by the limit  *)
(* of every provider still listing: no timer is due, so each has one left. *)
(***************************************************************************)
LEMMA TickLInv == ASSUME LInv, Tick PROVE LInv'
<1>1. /\ mode = "all" /\ ~Ended /\ ~Due /\ (Held => held < MaxHeld)
      /\ age' = age + 1 /\ held' = (IF Held THEN held + 1 ELSE held)
      /\ UNCHANGED <<mode, at, attempt, rejected, slot, leg, asked>>
  BY DEF Tick, legVars
<1>2. left' = [p \in Provider |-> IF Timed(p) /\ left[p] > 0 THEN left[p] - 1 ELSE left[p]]
  BY DEF Tick
<1>3. /\ age \in Nat /\ held \in Nat /\ held <= MaxHeld /\ Limit \in Nat /\ MaxHeld \in Nat
      /\ left \in [Provider -> 0..Limit]
  BY ListAssumption DEF LInv, TypeOK
<1>4. left' \in [Provider -> 0..Limit]
  <2>1. \A p \in Provider : (IF Timed(p) /\ left[p] > 0 THEN left[p] - 1 ELSE left[p]) \in 0..Limit
    BY <1>3
  <2>. QED
    BY <1>2, <2>1
<1>5. ASSUME NEW p \in Provider
      PROVE  left'[p] = IF Timed(p) /\ left[p] > 0 THEN left[p] - 1 ELSE left[p]
  BY <1>2
<1>6. held' \in 0..MaxHeld
  BY <1>1, <1>3
<1>7. Budget'
  <2>1. \A p \in Provider : Timed(p)' => Timed(p)
    BY <1>1 DEF Timed
  <2>2. CASE Held
    <3>1. age' = age + 1 /\ held' = held + 1
      BY <1>1, <2>2
    <3>2. ASSUME NEW p \in Provider, Timed(p)' PROVE age' + left'[p] <= Limit + held'
      <4>1. left'[p] <= left[p] /\ left'[p] \in Int /\ left[p] \in Int
        BY <1>3, <1>4, <1>5
      <4>2. age + left[p] <= Limit + held
        BY <1>1, <2>1, <3>2 DEF LInv, Budget
      <4>. QED
        BY <1>3, <3>1, <4>1, <4>2
    <3>3. (\E p \in Provider : at'[p] = "slot") => age' <= held'
      BY <1>1, <1>3, <3>1 DEF LInv, Budget
    <3>4. age' <= Limit + held' /\ \A p \in Provider : at'[p] # "off"
      BY <1>1, <1>3, <3>1 DEF LInv, Budget
    <3>. QED
      BY <3>2, <3>3, <3>4 DEF Budget
  <2>3. CASE ~Held
    <3>1. age' = age + 1 /\ held' = held /\ ~Blocked /\ \A p \in Provider : at[p] # "slot"
      BY <1>1, <2>3 DEF Held
    <3>2. ASSUME NEW p \in Provider, Timed(p) PROVE left[p] > 0 /\ left'[p] = left[p] - 1
      <4>1. left[p] # 0
        BY <1>1, <3>1, <3>2 DEF Due
      <4>. QED
        BY <1>3, <1>5, <3>2, <4>1
    <3>3. ASSUME NEW p \in Provider, Timed(p)
          PROVE  age' + left'[p] <= Limit + held' /\ age' <= Limit + held'
      <4>1. age + left[p] <= Limit + held /\ left[p] \in Int
        BY <1>1, <1>3, <3>3 DEF LInv, Budget
      <4>. QED
        BY <1>3, <3>1, <3>2, <3>3, <4>1
    <3>4. \E p \in Provider : Timed(p)
      BY <1>1, <3>1, Names DEF Ended, Timed, LInv, Budget
    <3>5. age' <= Limit + held' /\ \A p \in Provider : at'[p] # "off" /\ at'[p] # "slot"
      BY <1>1, <3>1, <3>3, <3>4 DEF LInv, Budget
    <3>. QED
      BY <2>1, <3>3, <3>5 DEF Budget
  <2>. QED
    BY <2>2, <2>3
<1>8. age' \in 0..Limit + MaxHeld
  BY <1>1, <1>3, <1>6, <1>7 DEF Budget
<1>9. TypeOK'
  BY <1>1, <1>4, <1>6, <1>8 DEF LInv, TypeOK
<1>10. AttemptsLeft' /\ NoRequest' /\ LegHeld'
  BY <1>1, Names DEF LInv, AttemptsLeft, NoRequest, LegHeld
<1>. QED
  BY <1>7, <1>9, <1>10 DEF LInv

LEMMA NextLInv == LInv /\ [Next]_vars => LInv'
<1>. SUFFICES ASSUME LInv, [Next]_vars PROVE LInv'
  OBVIOUS
<1>1. CASE Begin
  BY <1>1, BeginLInv
<1>2. CASE Answer \/ HangUp
  BY <1>2, IdleLInv DEF Answer, HangUp
<1>3. CASE Tick
  BY <1>3, TickLInv
<1>4. ASSUME NEW p \in Provider, Branch(p) PROVE LInv'
  <2>1. CASE Snapshot(p) \/ VersionRead(p) \/ Token(p) \/ RefreshEnds(p) \/ Resume(p)
    BY <2>1, SnapshotLInv, VersionReadLInv, TokenLInv, RefreshEndsLInv, ResumeLInv
  <2>2. CASE Reply(p) \/ SendError(p) \/ Again(p) \/ Body(p) \/ TimedOut(p)
    BY <2>2, ReplyLInv, StageLInv
  <2>. QED
    BY <1>4, <2>1, <2>2 DEF Branch
<1>5. ASSUME NEW p \in Provider, OthersTake(p) \/ OthersGive(p) PROVE LInv'
  BY <1>5, OthersLInv
<1>6. CASE UNCHANGED vars
  <2>1. slot' \in [Provider -> {"free", "ours", "others"}]
    BY <1>6 DEF vars, LInv, TypeOK
  <2>. QED
    BY <1>6, <2>1, SlotsOnly DEF vars
<1>. QED
  BY <1>1, <1>2, <1>3, <1>4, <1>5, <1>6 DEF Next

--------------------------------------------------------------------------------
(* Every state of server.rs `openai_models` and `openai_model` is accounted  *)
(* for: the time of a list by its limit and the mutexes, the leg by the      *)
(* requests that went out.                                                   *)
THEOREM Invariance == Spec => []LInv
<1>. QED
  BY InitLInv, NextLInv, PTL DEF Spec

(* `attempt` of passthrough.rs `upstream` never passes MAX_ATTEMPTS, and what  *)
(* is left of a limit is never negative.                                     *)
THEOREM TypeCorrect == Spec => []TypeOK
<1>1. LInv => TypeOK
  BY DEF LInv
<1>. QED
  BY <1>1, Invariance, PTL

(***************************************************************************)
(* server.rs `listed`: a list takes no longer than the limit of one        *)
(* provider and the time a mutex held it up, however many providers are    *)
(* asked and however often each of them is tried again.                    *)
(***************************************************************************)
THEOREM InTime == Spec => []ListInTime
<1>1. LInv => ListInTime
  BY DEF LInv, Budget, ListInTime
<1>. QED
  BY <1>1, Invariance, PTL

(***************************************************************************)
(* reqlog.rs LEG: something is recorded of the upstream exactly if it was  *)
(* asked, and unless two providers were, the answer recorded is that of    *)
(* the attempt recorded, through all retries.                              *)
(***************************************************************************)
THEOREM LegIsTrue == Spec => []LegTrue
<1>1. LInv => LegTrue
  BY DEF LInv, LegHeld, LegTrue
<1>. QED
  BY <1>1, Invariance, PTL
================================================================================
