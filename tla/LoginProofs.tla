------------------------------- MODULE LoginProofs -------------------------------
(***************************************************************************)
(* The move of the old directory spoils no token but in the cases Login    *)
(* names, for any number of commands and tokens.                           *)
(***************************************************************************)
EXTENDS Login, FiniteSetTheorems, SequenceTheorems, TLAPS

(* The variables of Login that are not the listener's; no token is known     *)
(* before it is minted.                                                      *)
Tokens ==
  /\ old \in {"dead", "idle", "exchange", "save"}
  /\ pc \in [Process -> {"start", "move", "stop", "run", "wait", "save", "done"}]
  /\ fresh \in [Process -> 0..MaxToken]
  /\ minted \in 0..MaxToken
  /\ legacy \in Content /\ legacy <= minted
  /\ dir \in Content /\ dir <= minted
  /\ oldToken \in 0..MaxToken /\ oldToken <= minted

(* What a command is about to save is its own alone, and live.               *)
Fresh ==
  \A p \in Process : pc[p] = "save" =>
    /\ fresh[p] \in live /\ fresh[p] > 0 /\ fresh[p] <= minted
    /\ fresh[p] # dir /\ fresh[p] # legacy /\ fresh[p] # oldToken
    /\ \A q \in Process : pc[q] = "save" /\ fresh[q] = fresh[p] => q = p

(* Before the move the old daemon keeps the old directory right. *)
NotMoved ==
  dir = NoDir =>
    /\ old = "save" => oldToken \in live
    /\ old # "save" /\ excuse = {} /\ legacy > 0 => legacy \in live

(* After it, an old daemon that could exchange the token in the new          *)
(* directory is being stopped.                                               *)
BeingStopped ==
  excuse = {} /\ dir > 0 /\ old # "dead" /\ dir \in {oldToken, legacy} =>
    \E p \in Process : pc[p] = "stop"

MInv == Tokens /\ Fresh /\ NotMoved /\ BeingStopped /\ TokenUsable

LEMMA Numbers ==
  /\ MaxToken \in Nat /\ NoDir \in Content /\ NoDir \notin Nat /\ NoDir < 0
  /\ 0..MaxToken \subseteq Content
  /\ LoginProcess \in Process /\ Other \subseteq Process
BY LoginAssumption DEF NoDir, Content, Process

LEMMA InitMInv == Init => MInv
<1>. SUFFICES ASSUME Init PROVE MInv
  OBVIOUS
<1>1. Tokens
  BY LoginAssumption DEF Init, Tokens, Content, NoDir
<1>2. Fresh /\ NotMoved /\ BeingStopped /\ TokenUsable
  BY DEF Init, Fresh, NotMoved, BeingStopped, TokenUsable, NoDir
<1>. QED
  BY <1>1, <1>2 DEF MInv

--------------------------------------------------------------------------------
(* Commands that move and stop. *)

(* A command goes from one stage to another with nothing in hand.            *)
LEMMA GoesOn ==
  ASSUME MInv, NEW p \in Process, NEW to \in {"move", "run", "wait", "done"}, Goto(p, to),
         pc[p] # "save", pc[p] = "stop" => old = "dead",
         UNCHANGED <<legacy, dir, old, oldToken, live, minted, excuse>>,
         fresh' = fresh
  PROVE  MInv'
<1>1. /\ pc'[p] = to /\ \A q \in Process \ {p} : pc'[q] = pc[q]
      /\ pc' \in [Process -> {"start", "move", "stop", "run", "wait", "save", "done"}]
  BY DEF Goto, MInv, Tokens
<1>2. \A q \in Process : pc'[q] = "save" <=> pc[q] = "save"
  BY <1>1
<1>3. Tokens' /\ NotMoved'
  BY <1>1 DEF MInv, Tokens, NotMoved
<1>4. Fresh'
  BY <1>2 DEF MInv, Fresh
<1>5. BeingStopped'
  BY <1>1 DEF MInv, BeingStopped
<1>6. TokenUsable'
  BY <1>2, Numbers DEF MInv, TokenUsable, Refreshing
<1>. QED
  BY <1>3, <1>4, <1>5, <1>6 DEF MInv

(* The directory moves: its token is live unless the old daemon is saving    *)
(* another, and if the old daemon may still exchange it, it is stopped.      *)
LEMMA MoveMInv == ASSUME MInv, NEW p \in Process, Move(p) PROVE MInv'
<1>1. /\ pc[p] = "move" /\ legacy # NoDir /\ dir = NoDir /\ dir' = legacy /\ legacy' = NoDir
      /\ Goto(p, IF old = "dead" THEN "run" ELSE "stop")
      /\ excuse' = IF InFlight THEN excuse \cup {"move met exchange"} ELSE excuse
      /\ UNCHANGED <<old, oldToken, fresh, live, minted>>
  BY DEF Move, tokenVars
<1>2. /\ pc'[p] = IF old = "dead" THEN "run" ELSE "stop"
      /\ \A q \in Process \ {p} : pc'[q] = pc[q]
      /\ pc' \in [Process -> {"start", "move", "stop", "run", "wait", "save", "done"}]
  BY <1>1 DEF Goto, MInv, Tokens
<1>3. Tokens'
  BY <1>1, <1>2, Numbers DEF MInv, Tokens
<1>4. Fresh'
  BY <1>1, <1>2, Numbers DEF MInv, Tokens, Fresh
<1>5. NotMoved' /\ BeingStopped'
  BY <1>1, <1>2 DEF NotMoved, BeingStopped
<1>6. TokenUsable'
  BY <1>1 DEF MInv, NotMoved, TokenUsable, InFlight
<1>. QED
  BY <1>3, <1>4, <1>5, <1>6 DEF MInv

(* The rest is excused. *)
LEMMA StopErrorMInv == ASSUME MInv, NEW p \in Process, StopError(p) PROVE MInv'
<1>1. /\ pc[p] = "stop" /\ Goto(p, "run") /\ excuse' # {}
      /\ UNCHANGED <<legacy, dir, old, oldToken, fresh, live, minted>>
  BY DEF StopError, oldVars, tokenVars
<1>2. /\ pc' \in [Process -> {"start", "move", "stop", "run", "wait", "save", "done"}]
      /\ \A q \in Process : pc'[q] = "save" <=> pc[q] = "save"
  BY <1>1 DEF Goto, MInv, Tokens
<1>3. Tokens' /\ Fresh'
  BY <1>1, <1>2 DEF MInv, Tokens, Fresh
<1>4. NotMoved' /\ BeingStopped' /\ TokenUsable'
  BY <1>1 DEF MInv, NotMoved, BeingStopped, TokenUsable
<1>. QED
  BY <1>3, <1>4 DEF MInv

LEMMA DiesMInv == ASSUME MInv, NEW p \in Process, Dies(p) PROVE MInv'
<1>1. /\ Goto(p, "done") /\ fresh' = [fresh EXCEPT ![p] = 0]
      /\ pc[p] \in {"save", "stop"} => excuse' # {}
      /\ pc[p] \notin {"save", "stop"} => excuse' = excuse
      /\ UNCHANGED <<legacy, dir, old, oldToken, live, minted>>
  BY DEF Dies, oldVars, tokenVars
<1>2. /\ pc'[p] = "done" /\ \A q \in Process \ {p} : pc'[q] = pc[q] /\ fresh'[q] = fresh[q]
      /\ pc' \in [Process -> {"start", "move", "stop", "run", "wait", "save", "done"}]
      /\ fresh' \in [Process -> 0..MaxToken]
  BY <1>1, Numbers DEF Goto, MInv, Tokens
<1>3. Tokens' /\ Fresh'
  BY <1>1, <1>2 DEF MInv, Tokens, Fresh
<1>4. excuse' = {} => excuse = {}
  BY <1>1
<1>5. NotMoved'
  BY <1>1, <1>4 DEF MInv, NotMoved
<1>6. BeingStopped' /\ TokenUsable'
  BY <1>1, <1>2, <1>4, Numbers DEF MInv, BeingStopped, TokenUsable, Refreshing
<1>. QED
  BY <1>3, <1>5, <1>6 DEF MInv

--------------------------------------------------------------------------------
(* The old daemon. *)

LEMMA OldBeginsMInv == ASSUME MInv, OldBegins PROVE MInv'
<1>1. /\ old = "idle" /\ old' = "exchange"
      /\ oldToken' = oldToken \/ (legacy > 0 /\ oldToken' = legacy)
      /\ UNCHANGED <<legacy, dir, pc, fresh, live, minted, excuse>>
  BY DEF OldBegins, newVars, tokenVars
<1>2. Tokens'
  BY <1>1, Numbers DEF MInv, Tokens, Content
<1>3. Fresh' /\ NotMoved' /\ BeingStopped' /\ TokenUsable'
  BY <1>1 DEF MInv, Fresh, NotMoved, BeingStopped, TokenUsable, Refreshing
<1>. QED
  BY <1>2, <1>3 DEF MInv

(* An exchange of the token in the new directory has its excuse: the command *)
(* that moved it has not come to stop the daemon.                            *)
LEMMA OldExchangesMInv == ASSUME MInv, OldExchanges PROVE MInv'
<1>1. /\ old = "exchange"
      /\ excuse' = IF \E p \in Process : pc[p] = "stop"
                   THEN excuse \cup {"not stopped in time"} ELSE excuse
      /\ UNCHANGED <<legacy, dir, pc, fresh>>
  BY DEF OldExchanges, newVars
<1>2. CASE old' = "idle" /\ UNCHANGED <<oldToken, live, minted>>
  BY <1>1, <1>2 DEF MInv, Tokens, Fresh, NotMoved, BeingStopped, TokenUsable, Refreshing
<1>3. CASE /\ old' = "save" /\ minted < MaxToken /\ minted' = minted + 1
           /\ live' = (live \ {oldToken}) \cup {minted + 1} /\ oldToken' = minted + 1
  <2>1. minted \in Nat /\ minted + 1 \in 0..MaxToken
    BY <1>3, Numbers DEF MInv, Tokens
  <2>2. Tokens'
    <3>1. legacy \in Int /\ dir \in Int /\ legacy <= minted + 1 /\ dir <= minted + 1
      BY <2>1, Numbers DEF MInv, Tokens, Content, NoDir
    <3>2. minted' \in 0..MaxToken /\ oldToken' \in 0..MaxToken /\ oldToken' = minted'
      BY <1>3, <2>1
    <3>3. legacy' <= minted' /\ dir' <= minted'
      BY <1>1, <1>3, <3>1
    <3>4. oldToken' <= minted'
      BY <1>3, <2>1
    <3>. QED
      BY <1>1, <1>3, <3>2, <3>3, <3>4 DEF MInv, Tokens
  <2>3. dir # minted + 1 /\ legacy # minted + 1
    BY <2>1, Numbers DEF MInv, Tokens, Content, NoDir
  <2>4. Fresh'
    <3>. SUFFICES ASSUME NEW p \in Process, pc[p] = "save"
                  PROVE  /\ fresh[p] \in live' /\ fresh[p] > 0 /\ fresh[p] <= minted'
                         /\ fresh[p] # dir /\ fresh[p] # legacy /\ fresh[p] # oldToken'
                         /\ \A q \in Process : pc[q] = "save" /\ fresh[q] = fresh[p] => q = p
      BY <1>1 DEF Fresh
    <3>1. /\ fresh[p] \in live /\ fresh[p] > 0 /\ fresh[p] <= minted /\ fresh[p] \in Nat
          /\ fresh[p] # dir /\ fresh[p] # legacy /\ fresh[p] # oldToken
          /\ \A q \in Process : pc[q] = "save" /\ fresh[q] = fresh[p] => q = p
      BY Numbers DEF MInv, Tokens, Fresh
    <3>2. fresh[p] <= minted + 1 /\ fresh[p] # minted + 1
      BY <2>1, <3>1
    <3>. QED
      BY <1>3, <3>1, <3>2
  <2>5. NotMoved' /\ BeingStopped'
    BY <1>1, <1>3, <2>3 DEF MInv, NotMoved, BeingStopped
  <2>6. TokenUsable'
    BY <1>1, <1>3 DEF MInv, BeingStopped, TokenUsable, Refreshing
  <2>. QED
    BY <2>2, <2>4, <2>5, <2>6 DEF MInv
<1>. QED
  BY <1>2, <1>3 DEF OldExchanges, Rotate, tokenVars

LEMMA OldSavesMInv == ASSUME MInv, OldSaves PROVE MInv'
<1>1. /\ old = "save" /\ old' = "idle" /\ legacy' = oldToken
      /\ UNCHANGED <<dir, oldToken, pc, fresh, live, minted, excuse>>
  BY DEF OldSaves, newVars, tokenVars
<1>2. Tokens'
  BY <1>1, Numbers DEF MInv, Tokens
<1>3. Fresh' /\ NotMoved' /\ BeingStopped' /\ TokenUsable'
  BY <1>1 DEF MInv, Fresh, NotMoved, BeingStopped, TokenUsable, Refreshing
<1>. QED
  BY <1>2, <1>3 DEF MInv

LEMMA OldDiesMInv == ASSUME MInv, OldDies PROVE MInv'
<1>1. /\ old' = "dead" /\ (old = "save" => excuse' # {}) /\ (old # "save" => excuse' = excuse)
      /\ UNCHANGED <<legacy, dir, oldToken, pc, fresh, live, minted>>
  BY DEF OldDies, newVars, tokenVars
<1>2. Tokens' /\ Fresh' /\ NotMoved' /\ BeingStopped' /\ TokenUsable'
  BY <1>1 DEF MInv, Tokens, Fresh, NotMoved, BeingStopped, TokenUsable, Refreshing
<1>. QED
  BY <1>2 DEF MInv

--------------------------------------------------------------------------------
(* New tokens. *)

(* A command gets the next token, for the one in the directory or by a login.*)
LEMMA GetsToken ==
  ASSUME MInv, NEW p \in Process, pc[p] \in {"run", "wait"}, Goto(p, "save"),
         minted < MaxToken, minted' = minted + 1, fresh' = [fresh EXCEPT ![p] = minted + 1],
         \/ live' = live \cup {minted + 1}
         \/ p \in Other /\ dir > 0 /\ live' = (live \ {dir}) \cup {minted + 1},
         UNCHANGED <<legacy, dir, old, oldToken, excuse>>
  PROVE  MInv'
<1>1. minted \in Nat /\ minted + 1 \in 0..MaxToken
  BY Numbers DEF MInv, Tokens
<1>2. /\ pc'[p] = "save" /\ fresh'[p] = minted + 1
      /\ \A q \in Process \ {p} : pc'[q] = pc[q] /\ fresh'[q] = fresh[q]
      /\ pc' \in [Process -> {"start", "move", "stop", "run", "wait", "save", "done"}]
      /\ fresh' \in [Process -> 0..MaxToken]
  BY <1>1 DEF Goto, MInv, Tokens
<1>3. Tokens'
  BY <1>1, <1>2, Numbers DEF MInv, Tokens, Content, NoDir
<1>4. /\ dir # minted + 1 /\ legacy # minted + 1 /\ oldToken # minted + 1
      /\ \A q \in Process : fresh[q] \in Int
  BY <1>1, Numbers DEF MInv, Tokens, Content, NoDir
<1>5. Fresh'
  BY <1>1, <1>2, <1>4 DEF MInv, Fresh
<1>6. NotMoved'
  <2>1. dir = NoDir => live \subseteq live'
    BY Numbers DEF NoDir
  <2>. QED
    BY <2>1 DEF MInv, NotMoved
<1>7. BeingStopped'
  BY <1>2 DEF MInv, BeingStopped
<1>8. TokenUsable'
  BY <1>2, Numbers DEF MInv, TokenUsable, Refreshing
<1>. QED
  BY <1>3, <1>5, <1>6, <1>7, <1>8 DEF MInv

LEMMA SaveMInv == ASSUME MInv, NEW p \in Process, Save(p) PROVE MInv'
<1>1. /\ pc[p] = "save" /\ dir' = fresh[p] /\ fresh' = [fresh EXCEPT ![p] = 0]
      /\ Goto(p, "done") /\ UNCHANGED <<legacy, old, oldToken, live, minted, excuse>>
  BY DEF Save, oldVars, tokenVars
<1>2. /\ pc'[p] = "done" /\ \A q \in Process \ {p} : pc'[q] = pc[q] /\ fresh'[q] = fresh[q]
      /\ pc' \in [Process -> {"start", "move", "stop", "run", "wait", "save", "done"}]
      /\ fresh' \in [Process -> 0..MaxToken]
  BY <1>1, Numbers DEF Goto, MInv, Tokens
<1>3. /\ fresh[p] \in live /\ fresh[p] > 0 /\ fresh[p] <= minted /\ fresh[p] \in 0..MaxToken
      /\ fresh[p] # legacy /\ fresh[p] # oldToken
  BY <1>1 DEF MInv, Tokens, Fresh
<1>4. Tokens'
  BY <1>1, <1>2, <1>3, Numbers DEF MInv, Tokens
<1>5. Fresh'
  BY <1>1, <1>2 DEF MInv, Fresh
<1>6. NotMoved' /\ BeingStopped' /\ TokenUsable'
  BY <1>1, <1>3, Numbers DEF NotMoved, BeingStopped, TokenUsable
<1>. QED
  BY <1>4, <1>5, <1>6 DEF MInv

LEMMA NextMInv == MInv /\ [Next]_vars => MInv'
<1>. SUFFICES ASSUME MInv, [Next]_vars PROVE MInv'
  OBVIOUS
<1>1. ASSUME NEW p \in Process,
             Look(p) \/ MoveError(p) \/ Stop(p) PROVE MInv'
  <2>1. CASE Look(p)
    <3>1. PICK to \in {"run", "move"} : Goto(p, to)
      BY <2>1 DEF Look
    <3>. QED
      BY <2>1, <3>1, GoesOn DEF Look, oldVars, tokenVars
  <2>2. CASE MoveError(p)
    BY <2>2, GoesOn DEF MoveError, oldVars, tokenVars
  <2>3. CASE Stop(p)
    BY <2>3, GoesOn DEF Stop, oldVars, tokenVars
  <2>. QED
    BY <1>1, <2>1, <2>2, <2>3
<1>2. ASSUME NEW p \in Process,
             Move(p) \/ StopError(p) \/ Save(p) \/ Dies(p) PROVE MInv'
  BY <1>2, MoveMInv, StopErrorMInv, SaveMInv, DiesMInv
<1>3. ASSUME NEW p \in Process, Refresh(p) PROVE MInv'
  BY <1>3, GetsToken DEF Refresh, Rotate, oldVars
<1>4. CASE OldBegins \/ OldExchanges \/ OldSaves \/ OldDies
  BY <1>4, OldBeginsMInv, OldExchangesMInv, OldSavesMInv, OldDiesMInv
<1>5. CASE BeginLogin \/ LoginFails
  <2>1. CASE BeginLogin
    BY <2>1, Numbers, GoesOn DEF BeginLogin, oldVars, tokenVars
  <2>2. CASE LoginFails
    BY <2>2, Numbers, GoesOn DEF LoginFails, oldVars, tokenVars
  <2>. QED
    BY <1>5, <2>1, <2>2
<1>6. CASE LoggedIn
  BY <1>6, Numbers, GetsToken DEF LoggedIn, oldVars
<1>7. CASE Browser \/ UNCHANGED vars
  BY <1>7 DEF Browser, vars, oldVars, newVars, tokenVars, MInv, Tokens, Fresh, NotMoved,
              BeingStopped, TokenUsable, Refreshing
<1>. QED
  BY <1>1, <1>2, <1>3, <1>4, <1>5, <1>6, <1>7 DEF Next

--------------------------------------------------------------------------------
(* main.rs `main` and store.rs `migrate_legacy_dir`: which tokens are live   *)
(* while the directory moves, commands save and the old daemon goes on.      *)
THEOREM Invariance == Spec => []MInv
BY InitMInv, NextMInv, PTL DEF Spec

(***************************************************************************)
(* main.rs stops the old daemon after the move: the token in the new       *)
(* directory can be exchanged or is being replaced, unless that daemon was *)
(* in an exchange, was not stopped in time, or a process died before it    *)
(* had saved.                                                              *)
(***************************************************************************)
THEOREM MoveKeepsToken == Spec => []TokenUsable
<1>1. MInv => TokenUsable
  BY DEF MInv
<1>. QED
  BY <1>1, Invariance, PTL

--------------------------------------------------------------------------------
(* The listener.  How many of the connections before the i-th are slow.      *)
Before(conns, i) == Cardinality({j \in 1..(i - 1) : conns[j].slow})

(* What reading the ones ahead of the i-th may still take.                   *)
Due(i) == Before(channel, i) * ReadLimit + IF reading.slow THEN readLeft ELSE 0

(* A read that runs over the deadline, or its last part, came before it.     *)
Overtime ==
  /\ left > 0 => over = 0
  /\ left = 0 => over + readLeft <= ReadLimit

(* Reading what is ahead and waiting leave a connection its slack.           *)
Slack == \A i \in DOMAIN channel : channel[i].slack <= left - Due(i)

ClosedIsEmpty ==
  outcome = "closed" => channel = <<>> /\ reading = NoConnection /\ left = 0 /\ over = 0

TimeIsOut == outcome = "timeout" => left = 0

CInv ==
  /\ CallbackTypeOK
  /\ Len(channel) <= made
  /\ Free => readLeft = 0
  /\ Overtime
  /\ Slack
  /\ ClosedIsEmpty /\ TimeIsOut

LEMMA BeforeIsNat ==
  ASSUME NEW conns, NEW i \in Int PROVE Before(conns, i) \in Nat
<1>1. IsFiniteSet(1..(i - 1))
  BY FS_Interval
<1>2. IsFiniteSet({j \in 1..(i - 1) : conns[j].slow})
  BY <1>1, FS_Subset
<1>. QED
  BY <1>2, FS_CardinalityType DEF Before

LEMMA SlowIsBefore ==
  ASSUME NEW conns \in Seq(Connection) PROVE SlowIn(conns) = Before(conns, Len(conns) + 1)
<1>1. DOMAIN conns = 1..((Len(conns) + 1) - 1)
  BY LenProperties
<1>. QED
  BY <1>1 DEF SlowIn, Before

LEMMA BeforeAppend ==
  ASSUME NEW conns \in Seq(Connection), NEW c \in Connection, NEW i \in 1..(Len(conns) + 1)
  PROVE  Before(Append(conns, c), i) = Before(conns, i)
<1>1. \A j \in 1..(i - 1) : Append(conns, c)[j] = conns[j]
  BY AppendProperties, LenProperties
<1>2. {j \in 1..(i - 1) : Append(conns, c)[j].slow} =
        {j \in 1..(i - 1) : conns[j].slow}
  BY <1>1
<1>. QED
  BY <1>2 DEF Before

LEMMA BeforeTail ==
  ASSUME NEW conns \in Seq(Connection), conns # <<>>, NEW i \in 1..Len(Tail(conns))
  PROVE  Before(conns, i + 1) =
           Before(Tail(conns), i) + IF Head(conns).slow THEN 1 ELSE 0
<1>. DEFINE S == {j \in 1..(i - 1) : Tail(conns)[j].slow}
            T == {j \in 2..i : conns[j].slow}
            f == [j \in S |-> j + 1]
<1>1. /\ Len(conns) \in Nat /\ Len(Tail(conns)) = Len(conns) - 1
      /\ \A j \in 1..Len(Tail(conns)) : Tail(conns)[j] = conns[j + 1]
      /\ Head(conns) = conns[1]
  BY HeadTailProperties, LenProperties
<1>2. IsFiniteSet(1..(i - 1)) /\ IsFiniteSet(2..i)
  BY FS_Interval
<1>3. IsFiniteSet(S) /\ IsFiniteSet(T)
  BY <1>2, FS_Subset
<1>4. Cardinality(T) = Cardinality(S)
  <2>1. \A j \in S : f[j] \in T
    BY <1>1
  <2>2. f \in [S -> T]
    BY <2>1
  <2>3. \A j, k \in S : f[j] = f[k] => j = k
    OBVIOUS
  <2>4. \A k \in T : k - 1 \in S /\ f[k - 1] = k
    BY <1>1
  <2>5. f \in Bijection(S, T)
    BY <2>2, <2>3, <2>4 DEF Bijection, Injection, Surjection, IsInjective
  <2>. HIDE DEF S, T, f
  <2>6. ExistsBijection(S, T)
    BY <2>5 DEF ExistsBijection
  <2>7. Cardinality(S) = Cardinality(T)
    BY <2>6, <1>3, FS_Bijection
  <2>. QED
    BY <2>7
<1>5. Before(Tail(conns), i) = Cardinality(S)
  BY DEF Before
<1>6. CASE Head(conns).slow
  <2>1. {j \in 1..((i + 1) - 1) : conns[j].slow} = T \cup {1}
    BY <1>1, <1>6
  <2>2. 1 \notin T
    OBVIOUS
  <2>. HIDE DEF S, T, f
  <2>3. Cardinality(T \cup {1}) = Cardinality(T) + 1
    BY <2>2, <1>3, FS_AddElement
  <2>. QED
    BY <2>1, <2>3, <1>4, <1>5, <1>6 DEF Before
<1>7. CASE ~Head(conns).slow
  <2>1. {j \in 1..((i + 1) - 1) : conns[j].slow} = T
    BY <1>1, <1>7
  <2>2. Cardinality(S) \in Nat
    BY <1>3, FS_CardinalityType
  <2>3. Before(conns, i + 1) = Cardinality(T)
    BY <2>1 DEF Before
  <2>. HIDE DEF S, T, f
  <2>. QED
    BY <2>2, <2>3, <1>4, <1>5, <1>7
<1>. QED
  BY <1>6, <1>7
--------------------------------------------------------------------------------
(* The listener's steps. *)

LEMMA Limits ==
  /\ Deadline \in Nat /\ Deadline > 0
  /\ ReadLimit \in Nat /\ ReadLimit > 0
  /\ MaxConn \in Nat /\ MaxParts \in Nat
  /\ Cardinality({}) = 0
BY CallbackAssumption, FS_EmptySet

LEMMA DueIsNat ==
  ASSUME ReadLimit \in Nat, readLeft \in Nat, NEW i \in Int PROVE Due(i) \in Nat
<1>1. Before(channel, i) * ReadLimit \in Nat
  BY BeforeIsNat
<1>. QED
  BY <1>1 DEF Due

LEMMA InChannel ==
  ASSUME channel \in Seq(Connection), NEW i \in DOMAIN channel
  PROVE  i \in Int /\ channel[i] \in Connection /\ channel[i].slack \in Int
<1>1. i \in 1..Len(channel) /\ Len(channel) \in Nat
  BY LenProperties
<1>2. channel[i] \in Connection
  BY <1>1, ElementOfSeq
<1>. QED
  BY <1>1, <1>2 DEF Connection

LEMMA InitCInv == CallbackInit => CInv
<1>. SUFFICES ASSUME CallbackInit PROVE CInv
  OBVIOUS
<1>1. channel \in Seq(Connection) /\ Len(channel) = 0 /\ DOMAIN channel = {}
  BY DEF CallbackInit
<1>. QED
  BY <1>1, Limits DEF CallbackInit, CInv, CallbackTypeOK, Overtime, Slack, ClosedIsEmpty, TimeIsOut

LEMMA ListenCInv == CInv /\ Listen => CInv'
<1>. SUFFICES ASSUME CInv, Listen PROVE CInv'
  OBVIOUS
<1>1. /\ channel = <<>> /\ DOMAIN channel = {} /\ over = 0
      /\ left' = Deadline /\ outcome' = "waiting"
      /\ UNCHANGED <<channel, made, parts, reading, readLeft, over>>
  BY DEF Listen, CInv, ClosedIsEmpty
<1>. QED
  BY <1>1, Limits DEF CInv, CallbackTypeOK, Free, Overtime, Slack, ClosedIsEmpty, TimeIsOut

LEMMA CloseCInv == Close => CInv'
<1>. SUFFICES ASSUME Close PROVE CInv'
  OBVIOUS
<1>1. channel' \in Seq(Connection) /\ Len(channel') = 0 /\ DOMAIN channel' = {}
  BY DEF Close
<1>. QED
  BY <1>1, Limits DEF Close, CInv, CallbackTypeOK, Free, Overtime, Slack, ClosedIsEmpty, TimeIsOut

(* A new connection is last in the channel: those ahead of it are all the    *)
(* slow ones Connect counts.                                                 *)
LEMMA ConnectCInv == ASSUME CInv, NEW kind \in Kind, NEW slow \in BOOLEAN, Connect(kind, slow)
                  PROVE CInv'
<1>. DEFINE c == [kind |-> kind, slow |-> slow, slack |-> left - Due(Len(channel) + 1)]
<1>1. /\ channel \in Seq(Connection) /\ Len(channel) \in Nat /\ Len(channel) <= made
      /\ made \in Nat /\ made < MaxConn /\ left \in Int /\ readLeft \in Nat
  BY Limits, LenProperties DEF CInv, CallbackTypeOK, Connect
<1>2. /\ channel' = Append(channel, c) /\ made' = made + 1
      /\ UNCHANGED <<parts, reading, readLeft, left, over, outcome>>
  BY <1>1, SlowIsBefore DEF Connect, Due
<1>3. c \in Connection
  BY <1>1, DueIsNat, Limits DEF Connection
<1>4. /\ channel' \in Seq(Connection) /\ Len(channel') = Len(channel) + 1
      /\ DOMAIN channel' = 1..(Len(channel) + 1)
      /\ channel'[Len(channel) + 1] = c
      /\ \A i \in 1..Len(channel) : channel'[i] = channel[i]
  BY <1>1, <1>2, <1>3, AppendProperties, LenProperties
<1>5. \A i \in 1..(Len(channel) + 1) : Due(i)' = Due(i)
  BY <1>1, <1>2, <1>3, BeforeAppend DEF Due
<1>6. Slack'
  <2>. SUFFICES ASSUME NEW i \in 1..(Len(channel) + 1) PROVE channel'[i].slack <= left - Due(i)
    BY <1>2, <1>4, <1>5 DEF Slack
  <2>1. CASE i = Len(channel) + 1
    BY <2>1, <1>1, <1>4, DueIsNat, Limits
  <2>2. CASE i \in 1..Len(channel)
    BY <2>2, <1>1, <1>4, LenProperties DEF CInv, Slack
  <2>. QED
    BY <2>1, <2>2, <1>1
<1>. HIDE DEF c
<1>7. outcome = "waiting"
  BY DEF Connect, Waiting
<1>8. CallbackTypeOK'
  BY <1>1, <1>2, <1>4, Limits DEF CInv, CallbackTypeOK
<1>9. Len(channel') <= made'
  BY <1>1, <1>2, <1>4
<1>. QED
  BY <1>2, <1>6, <1>7, <1>8, <1>9 DEF CInv, Free, Overtime, ClosedIsEmpty, TimeIsOut

(* The head of the channel is no longer ahead of the others, but read.       *)
LEMMA TakeCInv == CInv /\ Take => CInv'
<1>. SUFFICES ASSUME CInv, Take PROVE CInv'
  OBVIOUS
<1>1. /\ outcome = "waiting" /\ reading = NoConnection /\ left > 0 /\ channel # <<>>
      /\ reading' = Head(channel) /\ readLeft' = ReadLimit /\ channel' = Tail(channel)
      /\ UNCHANGED <<made, parts, left, over, outcome>>
  BY DEF Take, Waiting, Free
<1>2. channel \in Seq(Connection) /\ left \in Nat /\ made \in Nat /\ Len(channel) <= made
  BY Limits DEF CInv, CallbackTypeOK
<1>3. /\ Len(channel) \in Nat /\ Len(channel) > 0
      /\ channel' \in Seq(Connection) /\ Len(channel') = Len(channel) - 1
      /\ DOMAIN channel' = 1..(Len(channel) - 1)
      /\ \A i \in 1..(Len(channel) - 1) : channel'[i] = channel[i + 1]
      /\ reading' \in Connection
  BY <1>1, <1>2, HeadTailProperties, LenProperties
<1>4. Slack'
  <2>. SUFFICES ASSUME NEW i \in DOMAIN channel' PROVE channel'[i].slack <= left' - Due(i)'
    BY DEF Slack
  <2>1. i \in 1..Len(Tail(channel)) /\ i + 1 \in DOMAIN channel /\ channel'[i] = channel[i + 1]
    BY <1>1, <1>3, LenProperties
  <2>2. channel'[i].slack <= left - Due(i + 1)
    BY <2>1 DEF CInv, Slack
  <2>3. reading.slow = FALSE
    BY <1>1 DEF NoConnection
  <2>. DEFINE b == Before(Tail(channel), i)
              h == IF Head(channel).slow THEN 1 ELSE 0
  <2>4. b \in Nat /\ h \in {0, 1}
    BY <2>1, BeforeIsNat
  <2>5. Before(channel, i + 1) = b + h
    BY <1>1, <1>2, <2>1, BeforeTail
  <2>6. Due(i + 1) = (b + h) * ReadLimit
    BY <2>3, <2>4, <2>5, Limits DEF Due
  <2>7. Due(i)' = b * ReadLimit + h * ReadLimit
    BY <1>1, <2>4, Limits DEF Due
  <2>8. Due(i)' = Due(i + 1)
    BY <2>4, <2>6, <2>7, Limits
  <2>. QED
    BY <1>1, <2>2, <2>8
<1>5. reading' # NoConnection
  BY <1>3 DEF NoConnection, Connection, Kind
<1>6. CallbackTypeOK'
  BY <1>1, <1>2, <1>3, Limits DEF CInv, CallbackTypeOK
<1>7. Len(channel') <= made'
  BY <1>1, <1>2, <1>3
<1>. QED
  BY <1>1, <1>2, <1>4, <1>5, <1>6, <1>7 DEF CInv, Overtime, ClosedIsEmpty, TimeIsOut, Free

LEMMA TimeoutCInv == CInv /\ Timeout => CInv'
<1>. SUFFICES ASSUME CInv, Timeout PROVE CInv'
  OBVIOUS
<1>1. outcome' = "timeout" /\ left = 0 /\ UNCHANGED <<channel, made, parts, reading, readLeft, left, over>>
  BY DEF Timeout
<1>2. Due(1)' = Due(1) /\ \A i \in DOMAIN channel : Due(i)' = Due(i)
  BY <1>1 DEF Due
<1>. QED
  BY <1>1, <1>2 DEF CInv, CallbackTypeOK, Overtime, Slack, ClosedIsEmpty, TimeIsOut, Free

LEMMA HandleCInv == CInv /\ Handle => CInv'
<1>. SUFFICES ASSUME CInv, Handle PROVE CInv'
  OBVIOUS
<1>1. /\ outcome = "waiting" /\ outcome' \in {outcome} \cup Decides
      /\ reading' = NoConnection /\ readLeft' = 0
      /\ UNCHANGED <<channel, made, parts, left, over>>
  BY DEF Handle, Waiting
<1>2. readLeft \in Nat /\ left \in Nat /\ over \in Nat /\ channel \in Seq(Connection)
  BY Limits DEF CInv, CallbackTypeOK
<1>3. Slack'
  <2>. SUFFICES ASSUME NEW i \in DOMAIN channel PROVE channel[i].slack <= left - Due(i)'
    BY <1>1 DEF Slack
  <2>1. channel[i].slack <= left - Due(i) /\ channel[i].slack \in Int /\ i \in Int
    BY <1>2, InChannel DEF CInv, Slack
  <2>2. Before(channel, i) * ReadLimit \in Nat
    BY <2>1, BeforeIsNat, Limits
  <2>3. Due(i)' = Before(channel, i) * ReadLimit
    BY <1>1, <2>2 DEF Due, NoConnection
  <2>4. Due(i) >= Before(channel, i) * ReadLimit /\ Due(i) \in Nat
    BY <1>2, <2>2 DEF Due
  <2>. QED
    BY <1>2, <2>1, <2>2, <2>3, <2>4
<1>4. Overtime'
  BY <1>1, <1>2, Limits DEF CInv, Overtime
<1>. QED
  BY <1>1, <1>3, <1>4, Limits
     DEF CInv, CallbackTypeOK, ClosedIsEmpty, TimeIsOut, Free, NoConnection, Decides

(* What a part adds to the reading, all that wait have less of.              *)
LEMMA PartArrivesCInv == CInv /\ PartArrives => CInv'
<1>. SUFFICES ASSUME CInv, PartArrives PROVE CInv'
  OBVIOUS
<1>. DEFINE passed == ReadLimit - readLeft
<1>1. /\ outcome = "waiting" /\ reading.slow /\ readLeft \in 1..(ReadLimit - 1)
      /\ parts < MaxParts /\ parts' = parts + 1 /\ readLeft' = ReadLimit /\ over' = 0
      /\ channel' = [i \in DOMAIN channel |-> [channel[i] EXCEPT !.slack = @ - passed]]
      /\ UNCHANGED <<made, reading, left, outcome>>
  BY DEF PartArrives, Waiting
<1>2. channel \in Seq(Connection) /\ left \in Nat /\ made \in Nat /\ parts \in Nat
  BY Limits DEF CInv, CallbackTypeOK
<1>3. Len(channel) \in Nat /\ DOMAIN channel = 1..Len(channel)
  BY <1>2, LenProperties
<1>4. \A i \in DOMAIN channel :
        /\ channel'[i] \in Connection
        /\ channel'[i].slow = channel[i].slow
        /\ channel'[i].slack = channel[i].slack - passed
  <2>. SUFFICES ASSUME NEW i \in DOMAIN channel
                PROVE  /\ channel'[i] \in Connection
                       /\ channel'[i].slow = channel[i].slow
                       /\ channel'[i].slack = channel[i].slack - passed
    OBVIOUS
  <2>1. channel[i] \in Connection /\ passed \in Int
    BY <1>1, <1>2, InChannel, Limits
  <2>2. channel'[i] = [channel[i] EXCEPT !.slack = @ - passed]
    BY <1>1
  <2>. HIDE DEF passed
  <2>. QED
    BY <2>1, <2>2 DEF Connection
<1>5. channel' \in Seq(Connection) /\ Len(channel') = Len(channel) /\ DOMAIN channel' = DOMAIN channel
  <2>1. channel' = [i \in 1..Len(channel) |-> channel'[i]]
    BY <1>1, <1>3
  <2>2. \A i \in 1..Len(channel) : channel'[i] \in Connection
    BY <1>3, <1>4
  <2>. QED
    BY <1>3, <2>1, <2>2
<1>6. Slack'
  <2>. SUFFICES ASSUME NEW i \in DOMAIN channel PROVE channel'[i].slack <= left - Due(i)'
    BY <1>1, <1>5 DEF Slack
  <2>1. channel[i].slack <= left - Due(i) /\ channel[i].slack \in Int /\ i \in Int /\ i \in DOMAIN channel
    BY <1>2, InChannel DEF CInv, Slack
  <2>. DEFINE b == Before(channel, i) * ReadLimit
  <2>2. b \in Nat
    BY <2>1, BeforeIsNat, Limits
  <2>3. {j \in 1..(i - 1) : channel'[j].slow} = {j \in 1..(i - 1) : channel[j].slow}
    BY <1>3, <1>4, <2>1
  <2>4. Due(i)' = b + ReadLimit
    BY <1>1, <2>3 DEF Due, Before
  <2>5. Due(i) = b + readLeft
    BY <1>1 DEF Due
  <2>6. channel'[i].slack = channel[i].slack - (ReadLimit - readLeft)
    BY <1>4
  <2>. HIDE DEF b, Due
  <2>. QED
    BY <1>1, <1>2, <2>1, <2>2, <2>4, <2>5, <2>6, Limits
<1>7. CallbackTypeOK'
  BY <1>1, <1>2, <1>5, Limits DEF CInv, CallbackTypeOK
<1>8. Overtime' /\ Len(channel') <= made' /\ (Free' => readLeft' = 0)
  BY <1>1, <1>5, Limits DEF CInv, Overtime, Free, NoConnection
<1>. QED
  BY <1>1, <1>6, <1>7, <1>8 DEF CInv, ClosedIsEmpty, TimeIsOut

(* Nothing is left of the limit of a connection that is given up.            *)
LEMMA GiveUpCInv == CInv /\ GiveUp => CInv'
<1>. SUFFICES ASSUME CInv, GiveUp PROVE CInv'
  OBVIOUS
<1>1. /\ outcome = "waiting" /\ readLeft = 0 /\ reading' = NoConnection
      /\ UNCHANGED <<channel, made, parts, readLeft, left, over, outcome>>
  BY DEF GiveUp, Waiting
<1>2. channel \in Seq(Connection)
  BY DEF CInv, CallbackTypeOK
<1>3. Slack'
  <2>. SUFFICES ASSUME NEW i \in DOMAIN channel PROVE channel[i].slack <= left - Due(i)'
    BY <1>1 DEF Slack
  <2>1. channel[i].slack <= left - Due(i) /\ i \in Int
    BY <1>2, InChannel DEF CInv, Slack
  <2>2. Before(channel, i) * ReadLimit \in Nat
    BY <2>1, BeforeIsNat, Limits
  <2>3. Due(i)' = Due(i)
    BY <1>1, <2>2 DEF Due, NoConnection
  <2>. QED
    BY <2>1, <2>3
<1>. QED
  BY <1>1, <1>3 DEF CInv, CallbackTypeOK, Overtime, ClosedIsEmpty, TimeIsOut, Free

(* Time passes while a slow connection is read, or with nothing to read.     *)
LEMMA TickCInv == CInv /\ CallbackTick => CInv'
<1>. SUFFICES ASSUME CInv, CallbackTick PROVE CInv'
  OBVIOUS
<1>1. /\ outcome = "waiting"
      /\ left' = IF left > 0 THEN left - 1 ELSE 0
      /\ over' = IF left > 0 THEN over ELSE over + 1
      /\ readLeft' = IF Free THEN 0 ELSE readLeft - 1
      /\ UNCHANGED <<channel, made, parts, reading, outcome>>
      /\ IF Free THEN channel = <<>> /\ left # 0 ELSE reading.slow /\ readLeft # 0
  BY DEF CallbackTick, Waiting, Busy
<1>2. /\ readLeft \in 0..ReadLimit /\ left \in 0..Deadline /\ over \in Nat
      /\ channel \in Seq(Connection) /\ (Free => readLeft = 0)
  BY DEF CInv, CallbackTypeOK
<1>3. readLeft' \in 0..ReadLimit /\ left' \in 0..Deadline /\ over' \in Nat
  BY <1>1, <1>2, Limits
<1>4. Slack'
  <2>. SUFFICES ASSUME NEW i \in DOMAIN channel PROVE channel[i].slack <= left' - Due(i)'
    BY <1>1 DEF Slack
  <2>1. channel[i].slack <= left - Due(i) /\ channel[i].slack \in Int /\ i \in Int
    BY <1>2, InChannel DEF CInv, Slack
  <2>2. Before(channel, i) * ReadLimit \in Nat
    BY <2>1, BeforeIsNat, Limits
  <2>3. ~Free
    BY <1>1, <1>2
  <2>4. Due(i)' = Before(channel, i) * ReadLimit + readLeft - 1
    BY <1>1, <1>2, <2>2, <2>3, Limits DEF Due
  <2>5. Due(i) = Before(channel, i) * ReadLimit + readLeft
    BY <1>1, <2>3 DEF Due
  <2>. HIDE DEF Due
  <2>. QED
    BY <1>1, <1>2, <2>1, <2>2, <2>4, <2>5, Limits
<1>5. Overtime'
  BY <1>1, <1>2, Limits DEF CInv, Overtime
<1>. QED
  BY <1>1, <1>2, <1>3, <1>4, <1>5
     DEF CInv, CallbackTypeOK, ClosedIsEmpty, TimeIsOut, Free

LEMMA CallbackNextCInv == CInv /\ [CallbackNext]_callbackVars => CInv'
<1>1. CInv /\ UNCHANGED callbackVars => CInv'
  BY DEF callbackVars, CInv, CallbackTypeOK, Overtime, Slack, Due, Before, ClosedIsEmpty, TimeIsOut,
         Free
<1>. QED
  BY <1>1, ConnectCInv, TakeCInv, TimeoutCInv, PartArrivesCInv, HandleCInv, GiveUpCInv, TickCInv
     DEF CallbackNext

(* The other steps of the commands and of the old daemon leave the listener  *)
(* alone, begin or end it.                                                   *)
LEMMA NextCInv == CInv /\ [Next]_vars => CInv'
<1>. SUFFICES ASSUME CInv, [Next]_vars PROVE CInv'
  OBVIOUS
<1>1. CASE Listen \/ Close \/ CallbackNext \/ UNCHANGED callbackVars
  BY <1>1, ListenCInv, CloseCInv, CallbackNextCInv
<1>2. ASSUME NEW p \in Process,
             \/ Look(p) \/ Move(p) \/ MoveError(p) \/ Stop(p) \/ StopError(p)
             \/ Refresh(p) \/ Save(p) \/ Dies(p)
      PROVE  Close \/ UNCHANGED callbackVars
  BY <1>2 DEF Look, Move, MoveError, Stop, StopError, Refresh, Save, Dies
<1>3. OldBegins \/ OldExchanges \/ OldSaves \/ OldDies => UNCHANGED callbackVars
  BY DEF OldBegins, OldExchanges, OldSaves, OldDies
<1>4. BeginLogin \/ Browser \/ LoggedIn \/ LoginFails => Listen \/ Close \/ CallbackNext
  BY DEF BeginLogin, Browser, LoggedIn, LoginFails
<1>. QED
  BY <1>1, <1>2, <1>3, <1>4 DEF Next, vars

(* oauth.rs `wait_for_callback`: what has come in before the deadline keeps  *)
(* its slack, whatever the loop reads meanwhile, but for what the parts of a *)
(* line add to the reading.                                                  *)
THEOREM CallbackInvariance == Spec => []CInv
<1>1. Init => CInv
  BY InitCInv DEF Init
<1>. QED
  BY <1>1, NextCInv, PTL DEF Spec

(***************************************************************************)
(* oauth.rs `wait_for_callback`: a wait that is over the deadline ends a   *)
(* read limit after the last part of a line at the latest, and a callback  *)
(* that came in before the deadline is read, unless the slow connections   *)
(* ahead of it, which may bring their lines in any number of parts, can    *)
(* use up all of the time that was left: for every deadline and read limit *)
(* and any number of connections.                                          *)
(***************************************************************************)
THEOREM CallbackInTime == Spec => []CallbackTaken
<1>1. ASSUME CInv PROVE CallbackTaken
  <2>1. /\ readLeft \in Nat /\ left \in Nat /\ over \in Nat /\ channel \in Seq(Connection)
    BY <1>1, Limits DEF CInv, CallbackTypeOK
  <2>2. over <= ReadLimit
    BY <1>1, <2>1, Limits DEF CInv, Overtime
  <2>3. ASSUME outcome = "timeout", NEW i \in DOMAIN channel PROVE channel[i].slack <= 0
    <3>1. i \in Int /\ channel[i].slack \in Int
      BY <2>1, InChannel
    <3>2. Due(i) \in Nat
      BY <2>1, <3>1, DueIsNat, Limits
    <3>3. channel[i].slack <= 0 - Due(i)
      BY <1>1, <2>3 DEF CInv, Slack, TimeIsOut
    <3>. HIDE DEF Due
    <3>. QED
      BY <3>1, <3>2, <3>3
  <2>. QED
    BY <2>2, <2>3 DEF CallbackTaken
<1>. QED
  BY <1>1, CallbackInvariance, PTL
--------------------------------------------------------------------------------
(* What neither part says of the types. *)
Histories ==
  /\ memory \in BOOLEAN /\ oldLock \in BOOLEAN
  /\ live \subseteq Token
  /\ excuse \subseteq {"move met exchange", "not stopped in time", "died before save"}

LEMMA NextHistories == MInv /\ Histories /\ [Next]_vars => Histories'
<1>. SUFFICES ASSUME MInv, Histories, [Next]_vars PROVE Histories'
  OBVIOUS
<1>1. ASSUME minted < MaxToken PROVE minted + 1 \in Token
  BY <1>1, Numbers DEF MInv, Tokens, Token
<1>2. ASSUME NEW p \in Process, Look(p) \/ MoveError(p) \/ Stop(p) \/ Save(p) PROVE Histories'
  BY <1>2 DEF Look, MoveError, Stop, Save, oldVars, tokenVars, Histories
<1>3. ASSUME NEW p \in Process, Move(p) \/ StopError(p) PROVE Histories'
  <2>1. memory' \in BOOLEAN /\ oldLock' \in BOOLEAN
    <3>1. InFlight \in BOOLEAN
      BY DEF InFlight
    <3>2. memory' = memory /\ (oldLock' = InFlight \/ oldLock' = oldLock)
      BY <1>3 DEF Move, StopError, oldVars
    <3>. QED
      BY <3>1, <3>2, Zenon DEF Histories
  <2>2. live' \subseteq Token
    BY <1>3 DEF Move, StopError, tokenVars, Histories
  <2>3. excuse' \subseteq {"move met exchange", "not stopped in time", "died before save"}
    BY <1>3 DEF Move, StopError, Histories
  <2>. QED
    BY <2>1, <2>2, <2>3 DEF Histories
<1>4. ASSUME NEW p \in Process, Refresh(p) PROVE Histories'
  BY <1>4, <1>1 DEF Refresh, Rotate, oldVars, Histories
<1>5. ASSUME NEW p \in Process, Dies(p) PROVE Histories'
  BY <1>5 DEF Dies, oldVars, tokenVars, Histories
<1>6. CASE OldBegins \/ OldSaves \/ OldDies
  BY <1>6 DEF OldBegins, OldSaves, OldDies, tokenVars, Histories
<1>7. CASE OldExchanges
  <2>1. live' \subseteq Token
    BY <1>1, <1>7 DEF OldExchanges, Rotate, tokenVars, Histories
  <2>2. oldLock' \in BOOLEAN
    BY <1>7 DEF OldExchanges
  <2>. QED
    BY <1>7, <2>1, <2>2 DEF OldExchanges, Histories
<1>8. CASE BeginLogin \/ Browser \/ LoginFails
  BY <1>8 DEF BeginLogin, Browser, LoginFails, oldVars, tokenVars, Histories
<1>9. CASE LoggedIn
  BY <1>9, <1>1 DEF LoggedIn, oldVars, Histories
<1>10. CASE UNCHANGED vars
  BY <1>10 DEF vars, oldVars, tokenVars, Histories
<1>. QED
  BY <1>2, <1>3, <1>4, <1>5, <1>6, <1>7, <1>8, <1>9, <1>10 DEF Next

(* The variables of the commands, the old daemon, the provider and the       *)
(* listener keep their types.                                                *)
THEOREM TypeCorrect == Spec => []TypeOK
<1>1. Init => Histories
  <2>1. 1 \in Token
    BY Numbers, LoginAssumption DEF Token
  <2>2. Init => memory \in BOOLEAN /\ oldLock \in BOOLEAN
    BY DEF Init
  <2>3. Init => live = {1} /\ excuse = {}
    BY DEF Init
  <2>. QED
    BY <2>1, <2>2, <2>3 DEF Histories
<1>2. MInv /\ CInv /\ Histories => TypeOK
  BY DEF MInv, CInv, Tokens, Histories, TypeOK
<1>. QED
  BY <1>1, <1>2, NextHistories, Invariance, CallbackInvariance, PTL DEF Spec
================================================================================
