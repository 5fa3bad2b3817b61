---------------------------- MODULE ChatStreamProofs ----------------------------
(***************************************************************************)
(* The answer that reaches the client, for every number of events, of tool *)
(* calls and of pieces of a chunk: the invariant relates the events that   *)
(* have been handled to what has been made of them, whichever loop runs.   *)
(***************************************************************************)
EXTENDS ChatStream, FiniteSetTheorems, SequenceTheorems, WellFoundedInduction, TLAPS

--------------------------------------------------------------------------------
(* Induction over the places of a sequence, and the three recursions.        *)

LEMMA Least ==
  ASSUME NEW T, T \subseteq Nat, T # {}
  PROVE  \E n \in T : \A m \in T : n <= m
<1>. DEFINE R == OpToRel(<, Nat)
<1>1. IsWellFoundedOn(R, Nat)
  BY NatLessThanWellFounded
<1>2. PICK n \in T : \A m \in T : <<m, n>> \notin R
  <2>. HIDE DEF R
  <2>. QED
    BY <1>1, WFMin
<1>3. \A m \in T : ~(m < n)
  BY <1>2 DEF OpToRel
<1>4. n \in Nat /\ \A m \in T : m \in Nat
  OBVIOUS
<1>. HIDE DEF R
<1>5. \A m \in T : n <= m
  BY <1>3, <1>4
<1>. QED
  BY <1>5

LEMMA Induct ==
  ASSUME NEW b \in Nat, NEW T, 0 \in T,
         \A n \in 0..(b - 1) : n \in T => n + 1 \in T
  PROVE  0..b \subseteq T
<1>. SUFFICES ASSUME (0..b) \ T # {} PROVE FALSE
  OBVIOUS
<1>. DEFINE X == (0..b) \ T
<1>1. PICK n \in X : \A m \in X : n <= m
  <2>1. X \subseteq Nat /\ X # {}
    OBVIOUS
  <2>. HIDE DEF X
  <2>. QED
    BY <2>1, Least
<1>2. n # 0 /\ n - 1 \in 0..(b - 1)
  OBVIOUS
<1>3. n - 1 \in T
  BY <1>1, <1>2
<1>. QED
  BY <1>2, <1>3

(* A function is defined by what it is at 0 and by its steps.                *)
Recurs(f, S, base, step, n) ==
  f \in [0..n -> S] /\ f[0] = base /\ \A k \in 1..n : f[k] = step[k][f[k - 1]]

LEMMA Recursion ==
  ASSUME NEW n \in Nat, NEW S, NEW base \in S, NEW step \in [1..n -> [S -> S]]
  PROVE  \E f : Recurs(f, S, base, step, n)
<1>. DEFINE Is(f, m) == Recurs(f, S, base, step, m)
            T == {m \in 0..n : \E f : Is(f, m)}
<1>1. 0 \in T
  <2>1. Is([k \in 0..0 |-> base], 0)
    BY DEF Recurs
  <2>. HIDE DEF Is
  <2>. QED
    BY <2>1
<1>2. ASSUME NEW m \in 0..(n - 1), m \in T PROVE m + 1 \in T
  <2>1. PICK f : Is(f, m)
    BY <1>2
  <2>. DEFINE next == step[m + 1][f[m]]
              g == [k \in 0..(m + 1) |-> IF k = m + 1 THEN next ELSE f[k]]
  <2>2. next \in S
    BY <2>1 DEF Recurs
  <2>3. g \in [0..(m + 1) -> S] /\ g[m + 1] = next /\ \A k \in 0..m : g[k] = f[k]
    BY <2>1, <2>2 DEF Recurs
  <2>4. Is(g, m + 1)
    <3>. HIDE DEF g
    <3>1. g[0] = base /\ g[m] = f[m]
      BY <2>1, <2>3 DEF Recurs
    <3>2. ASSUME NEW k \in 1..(m + 1) PROVE g[k] = step[k][g[k - 1]]
      <4>1. CASE k = m + 1
        BY <2>3, <3>1, <4>1
      <4>2. CASE k \in 1..m
        BY <2>1, <2>3, <4>2 DEF Recurs
      <4>. QED
        BY <4>1, <4>2
    <3>. QED
      BY <2>3, <3>1, <3>2 DEF Recurs
  <2>. HIDE DEF Is, g
  <2>. QED
    BY <2>4
<1>3. 0..n \subseteq T
  <2>. HIDE DEF T
  <2>. QED
    BY <1>1, <1>2, Induct
<1>. QED
  BY <1>3

(* f[k] is what Joined makes of the first k parts.                           *)
Joins(f, E, parts, at, n) ==
  /\ f \in [0..n -> Seq(E)]
  /\ f[0] = <<>>
  /\ \A k \in 1..n : f[k] = IF k \in at THEN f[k - 1] \o parts[k] ELSE f[k - 1]

LEMMA JoinedUpTo ==
  ASSUME NEW E, NEW parts \in Seq(Seq(E)), NEW at, NEW n \in Nat, n = Len(parts)
  PROVE  \E f : Joins(f, E, parts, at, n) /\ Joined(parts, at) = f[n]
<1>. DEFINE Made1(f) == [k \in 0..n |-> IF k = 0 THEN <<>>
                                        ELSE IF k \in at THEN f[k - 1] \o parts[k]
                                        ELSE f[k - 1]]
            step == [k \in 1..n |-> [x \in Seq(E) |-> IF k \in at THEN x \o parts[k] ELSE x]]
            g == CHOOSE f : f = Made1(f)
<1>1. n \in Nat /\ <<>> \in Seq(E) /\ \A k \in 1..n : parts[k] \in Seq(E)
  BY LenProperties, ElementOfSeq, EmptySeq
<1>2. step \in [1..n -> [Seq(E) -> Seq(E)]]
  <2>1. \A k \in 1..n, x \in Seq(E) : x \o parts[k] \in Seq(E)
    BY <1>1, ConcatProperties
  <2>. QED
    BY <2>1
<1>3. PICK f : Recurs(f, Seq(E), <<>>, step, n)
  <2>. HIDE DEF step
  <2>. QED
    BY <1>1, <1>2, Recursion
<1>4. Joins(f, E, parts, at, n)
  <2>1. f \in [0..n -> Seq(E)] /\ f[0] = <<>> /\ \A k \in 1..n : f[k] = step[k][f[k - 1]]
    BY <1>3 DEF Recurs
  <2>2. \A k \in 1..n : f[k] = IF k \in at THEN f[k - 1] \o parts[k] ELSE f[k - 1]
    <3>. TAKE k \in 1..n
    <3>1. k - 1 \in 0..n
      OBVIOUS
    <3>2. f[k - 1] \in Seq(E)
      BY <2>1, <3>1
    <3>. QED
      BY <2>1, <3>2
  <2>. QED
    BY <2>1, <2>2 DEF Joins
<1>5. f = Made1(f)
  <2>1. f = [k \in 0..n |-> f[k]]
    BY <1>4 DEF Joins
  <2>2. \A k \in 0..n : f[k] = IF k = 0 THEN <<>>
                              ELSE IF k \in at THEN f[k - 1] \o parts[k] ELSE f[k - 1]
    <3>1. \A k \in 0..n : k # 0 => k \in 1..n
      OBVIOUS
    <3>. QED
      BY <1>4, <3>1 DEF Joins
  <2>. QED
    BY <2>1, <2>2
<1>6. g = Made1(g)
  <2>. HIDE DEF Made1
  <2>. QED
    BY <1>5
<1>7. \A k \in 0..n : g[k] = f[k]
  <2>. DEFINE T == {k \in 0..n : g[k] = f[k]}
  <2>1. 0 \in T
    <3>1. Made1(g)[0] = <<>>
      BY <1>1
    <3>. HIDE DEF g, Made1
    <3>. QED
      BY <1>1, <1>4, <1>6, <3>1 DEF Joins
  <2>2. ASSUME NEW k \in 0..(n - 1), k \in T PROVE k + 1 \in T
    <3>1. Made1(g)[k + 1] = IF k + 1 \in at THEN g[k] \o parts[k + 1] ELSE g[k]
      BY <1>1
    <3>. HIDE DEF g, Made1
    <3>2. g[k + 1] = f[k + 1]
      BY <1>1, <1>4, <1>6, <2>2, <3>1 DEF Joins
    <3>. QED
      BY <1>1, <3>2
  <2>3. 0..n \subseteq T
    <3>. HIDE DEF T
    <3>. QED
      BY <1>1, <2>1, <2>2, Induct
  <2>. QED
    BY <2>3
<1>8. Joined(parts, at) = g[n]
  BY DEF Joined
<1>. HIDE DEF g
<1>. QED
  BY <1>4, <1>7, <1>8

LEMMA JoinedType ==
  ASSUME NEW E, NEW parts \in Seq(Seq(E)), NEW at
  PROVE  Joined(parts, at) \in Seq(E)
<1>1. Len(parts) \in Nat
  BY LenProperties
<1>2. PICK f : Joins(f, E, parts, at, Len(parts)) /\ Joined(parts, at) = f[Len(parts)]
  BY <1>1, JoinedUpTo
<1>. QED
  BY <1>1, <1>2 DEF Joins

(* A part more is joined when its place is chosen.                           *)
LEMMA JoinedAppend ==
  ASSUME NEW E, NEW parts \in Seq(Seq(E)), NEW p \in Seq(E), NEW at, NEW more,
         \A k \in 1..Len(parts) : k \in more <=> k \in at
  PROVE  Joined(Append(parts, p), more) =
           IF Len(parts) + 1 \in more THEN Joined(parts, at) \o p ELSE Joined(parts, at)
<1>. DEFINE n == Len(parts)
            longer == Append(parts, p)
<1>1. /\ n \in Nat /\ n + 1 \in Nat /\ longer \in Seq(Seq(E)) /\ Len(longer) = n + 1
      /\ longer[n + 1] = p /\ \A k \in 1..n : longer[k] = parts[k]
  BY LenProperties, AppendProperties
<1>2. PICK f : Joins(f, E, parts, at, n) /\ Joined(parts, at) = f[n]
  BY <1>1, JoinedUpTo
<1>3. PICK g : Joins(g, E, longer, more, n + 1) /\ Joined(longer, more) = g[n + 1]
  <2>. HIDE DEF longer
  <2>. QED
    BY <1>1, JoinedUpTo
<1>. HIDE DEF longer
<1>4. \A k \in 0..n : g[k] = f[k]
  <2>. DEFINE T == {k \in 0..n : g[k] = f[k]}
  <2>1. 0 \in T
    BY <1>1, <1>2, <1>3 DEF Joins
  <2>2. ASSUME NEW k \in 0..(n - 1), k \in T PROVE k + 1 \in T
    <3>1. k + 1 \in 1..n /\ k + 1 \in 1..(n + 1) /\ (k + 1) - 1 = k /\ k + 1 \in 0..n
      BY <1>1
    <3>2. g[k + 1] = f[k + 1]
      BY <1>1, <1>2, <1>3, <2>2, <3>1 DEF Joins
    <3>. QED
      BY <3>1, <3>2
  <2>3. 0..n \subseteq T
    <3>. HIDE DEF T, n
    <3>. QED
      BY <1>1, <2>1, <2>2, Induct
  <2>. QED
    BY <2>3
<1>5. g[n + 1] = IF n + 1 \in more THEN g[n] \o longer[n + 1] ELSE g[n]
  <2>1. n + 1 \in 1..(n + 1) /\ (n + 1) - 1 = n
    BY <1>1
  <2>. QED
    BY <1>3, <2>1 DEF Joins
<1>6. g[n] = f[n]
  BY <1>1, <1>4
<1>. QED
  BY <1>1, <1>2, <1>3, <1>5, <1>6 DEF longer

LEMMA JoinedNone ==
  ASSUME NEW E, NEW parts \in Seq(Seq(E)), NEW at, \A k \in 1..Len(parts) : k \notin at
  PROVE  Joined(parts, at) = <<>>
<1>. DEFINE n == Len(parts)
<1>1. n \in Nat
  BY LenProperties
<1>2. PICK f : Joins(f, E, parts, at, n) /\ Joined(parts, at) = f[n]
  BY <1>1, JoinedUpTo
<1>. DEFINE T == {k \in 0..n : f[k] = <<>>}
<1>3. 0 \in T
  BY <1>1, <1>2 DEF Joins
<1>4. ASSUME NEW k \in 0..(n - 1), k \in T PROVE k + 1 \in T
  <2>1. k + 1 \in 1..n /\ (k + 1) - 1 = k /\ k + 1 \in 0..n
    BY <1>1
  <2>. QED
    BY <1>2, <1>4, <2>1 DEF Joins
<1>5. 0..n \subseteq T
  <2>. HIDE DEF T, n
  <2>. QED
    BY <1>1, <1>3, <1>4, Induct
<1>6. n \in 0..n
  BY <1>1
<1>. QED
  BY <1>2, <1>5, <1>6

--------------------------------------------------------------------------------
(* What is collected of the deltas, and of the frames that tell of them.     *)

Call == [item : 0..MaxItems, args : Texts]
Frames == {d \in Deltas : d.kind = "start" => d.val # <<>> /\ d.val[1] \in Item}

LEMMA UpToType ==
  ASSUME NEW tools \in Seq(Call), NEW at \in Nat
  PROVE  UpTo(tools, at) \in Seq(Call) /\ at + 1 \in 1..Len(UpTo(tools, at))
<1>. DEFINE n == Len(tools)
            grown == [i \in 1..(at + 1 - n) |-> NoCall]
<1>1. n \in Nat
  BY LenProperties
<1>2. CASE n > at
  BY <1>1, <1>2 DEF UpTo
<1>3. CASE ~(n > at)
  <2>1. at + 1 - n \in Nat
    BY <1>1, <1>3
  <2>2. NoCall \in Call
    BY EmptySeq, ChatAssumption DEF NoCall, Call, Texts
  <2>3. grown \in Seq(Call) /\ Len(grown) = at + 1 - n
    BY <2>1, <2>2
  <2>. HIDE DEF grown
  <2>4. tools \o grown \in Seq(Call) /\ Len(tools \o grown) = at + 1
    BY <1>1, <2>1, <2>3, ConcatProperties
  <2>5. UpTo(tools, at) = tools \o grown
    BY <1>3 DEF UpTo, grown
  <2>. QED
    BY <2>4, <2>5
<1>. QED
  BY <1>2, <1>3

LEMMA CollectType ==
  ASSUME NEW msg \in Messages, NEW d \in Frames
  PROVE  Collect(msg, d) \in Messages
<1>1. /\ msg = [text |-> msg.text, reasoning |-> msg.reasoning, tools |-> msg.tools,
                finish |-> msg.finish]
      /\ msg.text \in Seq(Nat) /\ msg.reasoning \in Seq(Nat)
      /\ msg.finish \in {"stop"} \cup Reasons /\ msg.tools \in Seq(Call)
  BY DEF Messages, Texts, Call
<1>2. d.at \in Nat /\ d.val \in Seq(Nat) /\ (d.kind = "start" => d.val[1] \in 0..MaxItems)
  BY ChatAssumption DEF Frames, Deltas, Texts, Item
<1>. DEFINE tools == UpTo(msg.tools, d.at)
<1>3. tools \in Seq(Call) /\ d.at + 1 \in 1..Len(tools) /\ tools[d.at + 1] \in Call
  <2>1. tools \in Seq(Call) /\ d.at + 1 \in 1..Len(tools)
    BY <1>1, <1>2, UpToType
  <2>. QED
    BY <2>1, ElementOfSeq
<1>. HIDE DEF tools
<1>4. ASSUME NEW call \in Call
      PROVE  [msg EXCEPT !.tools = [tools EXCEPT ![d.at + 1] = call]] \in Messages
  <2>1. [tools EXCEPT ![d.at + 1] = call] \in Seq(Call)
    BY <1>3, ExceptSeq
  <2>. QED
    BY <1>1, <2>1 DEF Messages, Texts, Call
<1>5. CASE d.kind = "start"
  <2>1. [tools[d.at + 1] EXCEPT !.item = d.val[1]] \in Call
    BY <1>2, <1>3, <1>5 DEF Call
  <2>2. Started(tools, d) = [tools EXCEPT ![d.at + 1] = [tools[d.at + 1] EXCEPT !.item = d.val[1]]]
    BY DEF Started
  <2>3. Collect(msg, d) = [msg EXCEPT !.tools = Started(tools, d)]
    BY <1>5 DEF Collect, Reasons, tools
  <2>. QED
    BY <1>4, <2>1, <2>2, <2>3
<1>6. CASE d.kind = "args"
  <2>. DEFINE args == tools[d.at + 1].args \o d.val
  <2>1. [tools[d.at + 1] EXCEPT !.args = args] \in Call
    <3>1. args \in Seq(Nat)
      BY <1>2, <1>3, ConcatProperties DEF Call, Texts
    <3>. HIDE DEF args
    <3>. QED
      BY <1>3, <3>1 DEF Call, Texts
  <2>2. Filled(tools, d) = [tools EXCEPT ![d.at + 1] = [tools[d.at + 1] EXCEPT !.args = args]]
    BY DEF Filled
  <2>3. Collect(msg, d) = [msg EXCEPT !.tools = Filled(tools, d)]
    BY <1>6 DEF Collect, Reasons, tools
  <2>. HIDE DEF args
  <2>. QED
    BY <1>4, <2>1, <2>2, <2>3
<1>7. CASE d.kind \in {"text", "reasoning"}
  <2>1. msg.text \o d.val \in Seq(Nat) /\ msg.reasoning \o d.val \in Seq(Nat)
    BY <1>1, <1>2, ConcatProperties
  <2>. QED
    BY <1>1, <1>7, <2>1 DEF Collect, Messages, Texts, Call
<1>8. CASE d.kind \notin {"start", "args", "text", "reasoning"}
  BY <1>1, <1>8 DEF Collect, Messages, Reasons
<1>. QED
  BY <1>5, <1>6, <1>7, <1>8

(* f[k] is what is collected of the first k frames.                          *)
Collects(f, frames, n) ==
  /\ f \in [0..n -> Messages]
  /\ f[0] = NoMsg
  /\ \A k \in 1..n : f[k] = Collect(f[k - 1], frames[k])

LEMMA NoMsgType == NoMsg \in Messages
  BY EmptySeq DEF NoMsg, Messages, Texts

LEMMA CollectedUpTo ==
  ASSUME NEW frames \in Seq(Frames), NEW n \in Nat, n = Len(frames)
  PROVE  \E f : Collects(f, frames, n) /\ Collected(frames) = f[n]
<1>. DEFINE Made1(f) == [k \in 0..n |-> IF k = 0 THEN NoMsg ELSE Collect(f[k - 1], frames[k])]
            step == [k \in 1..n |-> [x \in Messages |-> Collect(x, frames[k])]]
            g == CHOOSE f : f = Made1(f)
<1>1. \A k \in 1..n : frames[k] \in Frames
  BY ElementOfSeq
<1>2. step \in [1..n -> [Messages -> Messages]]
  <2>1. \A k \in 1..n, x \in Messages : Collect(x, frames[k]) \in Messages
    BY <1>1, CollectType
  <2>. QED
    BY <2>1
<1>3. PICK f : Recurs(f, Messages, NoMsg, step, n)
  <2>. HIDE DEF step
  <2>. QED
    BY <1>2, NoMsgType, Recursion
<1>4. Collects(f, frames, n)
  <2>1. f \in [0..n -> Messages] /\ f[0] = NoMsg /\ \A k \in 1..n : f[k] = step[k][f[k - 1]]
    BY <1>3 DEF Recurs
  <2>2. \A k \in 1..n : f[k] = Collect(f[k - 1], frames[k])
    <3>. TAKE k \in 1..n
    <3>1. k - 1 \in 0..n
      OBVIOUS
    <3>2. f[k - 1] \in Messages
      BY <2>1, <3>1
    <3>. QED
      BY <2>1, <3>2
  <2>. QED
    BY <2>1, <2>2 DEF Collects
<1>5. f = Made1(f)
  <2>1. f = [k \in 0..n |-> f[k]]
    BY <1>4 DEF Collects
  <2>2. \A k \in 0..n : f[k] = IF k = 0 THEN NoMsg ELSE Collect(f[k - 1], frames[k])
    <3>1. \A k \in 0..n : k # 0 => k \in 1..n
      OBVIOUS
    <3>. QED
      BY <1>4, <3>1 DEF Collects
  <2>. QED
    BY <2>1, <2>2
<1>6. g = Made1(g)
  <2>. HIDE DEF Made1
  <2>. QED
    BY <1>5
<1>7. \A k \in 0..n : g[k] = f[k]
  <2>. DEFINE T == {k \in 0..n : g[k] = f[k]}
  <2>1. 0 \in T
    <3>1. Made1(g)[0] = NoMsg
      OBVIOUS
    <3>. HIDE DEF g, Made1
    <3>. QED
      BY <1>4, <1>6, <3>1 DEF Collects
  <2>2. ASSUME NEW k \in 0..(n - 1), k \in T PROVE k + 1 \in T
    <3>1. Made1(g)[k + 1] = Collect(g[k], frames[k + 1])
      OBVIOUS
    <3>. HIDE DEF g, Made1
    <3>2. g[k + 1] = f[k + 1]
      BY <1>4, <1>6, <2>2, <3>1 DEF Collects
    <3>. QED
      BY <3>2
  <2>3. 0..n \subseteq T
    <3>. HIDE DEF T
    <3>. QED
      BY <2>1, <2>2, Induct
  <2>. QED
    BY <2>3
<1>8. Collected(frames) = g[n]
  BY DEF Collected
<1>. HIDE DEF g
<1>. QED
  BY <1>4, <1>7, <1>8

LEMMA CollectedAppend ==
  ASSUME NEW frames \in Seq(Frames), NEW d \in Frames
  PROVE  /\ Collected(frames) \in Messages
         /\ Collected(Append(frames, d)) = Collect(Collected(frames), d)
<1>. DEFINE n == Len(frames)
            longer == Append(frames, d)
<1>1. /\ n \in Nat /\ n + 1 \in Nat /\ longer \in Seq(Frames) /\ Len(longer) = n + 1
      /\ longer[n + 1] = d /\ \A k \in 1..n : longer[k] = frames[k]
  BY LenProperties, AppendProperties
<1>2. PICK f : Collects(f, frames, n) /\ Collected(frames) = f[n]
  BY <1>1, CollectedUpTo
<1>3. PICK g : Collects(g, longer, n + 1) /\ Collected(longer) = g[n + 1]
  <2>. HIDE DEF longer
  <2>. QED
    BY <1>1, CollectedUpTo
<1>. HIDE DEF longer
<1>4. \A k \in 0..n : g[k] = f[k]
  <2>. DEFINE T == {k \in 0..n : g[k] = f[k]}
  <2>1. 0 \in T
    BY <1>1, <1>2, <1>3 DEF Collects
  <2>2. ASSUME NEW k \in 0..(n - 1), k \in T PROVE k + 1 \in T
    <3>1. k + 1 \in 1..n /\ k + 1 \in 1..(n + 1) /\ (k + 1) - 1 = k /\ k + 1 \in 0..n
      BY <1>1
    <3>2. g[k + 1] = f[k + 1]
      BY <1>1, <1>2, <1>3, <2>2, <3>1 DEF Collects
    <3>. QED
      BY <3>1, <3>2
  <2>3. 0..n \subseteq T
    <3>. HIDE DEF T, n
    <3>. QED
      BY <1>1, <2>1, <2>2, Induct
  <2>. QED
    BY <2>3
<1>5. g[n + 1] = Collect(g[n], longer[n + 1])
  <2>1. n + 1 \in 1..(n + 1) /\ (n + 1) - 1 = n
    BY <1>1
  <2>. QED
    BY <1>3, <2>1 DEF Collects
<1>6. g[n] = f[n] /\ f[n] \in Messages
  BY <1>1, <1>2, <1>4 DEF Collects
<1>. QED
  BY <1>1, <1>2, <1>3, <1>5, <1>6 DEF longer

(* What is not said to be collected is passed over.                          *)
LEMMA CollectedNone == Collected(<<>>) = NoMsg /\ Collected(<<Role>>) = NoMsg
<1>1. Collected(<<>>) = NoMsg
  <2>1. PICK f : Collects(f, <<>>, 0) /\ Collected(<<>>) = f[0]
    BY EmptySeq, CollectedUpTo
  <2>. QED
    BY <2>1 DEF Collects
<1>2. Role \in Frames
  <2>1. Role \in Deltas
    BY EmptySeq DEF Role, Delta, Deltas, DeltaKinds, Texts
  <2>. QED
    BY <2>1 DEF Role, Delta, Frames
<1>3. Collected(Append(<<>>, Role)) = Collect(NoMsg, Role)
  BY <1>1, <1>2, EmptySeq, CollectedAppend
<1>4. Collect(NoMsg, Role) = NoMsg
  BY DEF Collect, Reasons, Role, Delta
<1>. QED
  BY <1>1, <1>3, <1>4

(* What is made of no delta, of one, and of two.                             *)
LEMMA ToldUpTo ==
  ASSUME NEW c, NEW s, NEW n \in 0..2, n = Len(s)
  PROVE  Tell(c, s) = IF n = 0 THEN c ELSE IF n = 1 THEN DeltaTo(c, s[1])
                      ELSE DeltaTo(DeltaTo(c, s[1]), s[2])
<1>. DEFINE Made1(f) == [k \in 0..n |-> IF k = 0 THEN c ELSE DeltaTo(f[k - 1], s[k])]
            g == CHOOSE f : f = Made1(f)
            h == [k \in 0..n |-> IF k = 0 THEN c ELSE IF k = 1 THEN DeltaTo(c, s[1])
                                 ELSE DeltaTo(DeltaTo(c, s[1]), s[2])]
<1>1. h = Made1(h)
  <2>1. \A k \in 0..n : h[k] = IF k = 0 THEN c ELSE DeltaTo(h[k - 1], s[k])
    <3>. TAKE k \in 0..n
    <3>1. k = 0 \/ k = 1 \/ k = 2
      OBVIOUS
    <3>. QED
      BY <3>1
  <2>2. h = [k \in 0..n |-> h[k]]
    OBVIOUS
  <2>. HIDE DEF h
  <2>. QED
    BY <2>1, <2>2
<1>2. g = Made1(g)
  <2>. HIDE DEF Made1, h
  <2>. QED
    BY <1>1
<1>3. \A k \in 0..n : Made1(g)[k] = IF k = 0 THEN c ELSE DeltaTo(g[k - 1], s[k])
  OBVIOUS
<1>4. Tell(c, s) = g[n]
  BY DEF Tell
<1>. HIDE DEF g, h, Made1
<1>5. \A k \in 0..n : g[k] = IF k = 0 THEN c ELSE DeltaTo(g[k - 1], s[k])
  BY <1>2, <1>3
<1>6. n = 0 \/ n = 1 \/ n = 2
  OBVIOUS
<1>7. CASE n = 0
  BY <1>4, <1>5, <1>7
<1>8. CASE n = 1
  BY <1>4, <1>5, <1>8
<1>9. CASE n = 2
  <2>1. g[2] = DeltaTo(g[1], s[2]) /\ g[1] = DeltaTo(g[0], s[1]) /\ g[0] = c
    BY <1>5, <1>9
  <2>. QED
    BY <1>4, <1>9, <2>1
<1>. QED
  BY <1>6, <1>7, <1>8, <1>9

LEMMA Told ==
  ASSUME NEW c, NEW d
  PROVE  Tell(c, <<>>) = c /\ Tell(c, <<d>>) = DeltaTo(c, d)
  BY ToldUpTo

LEMMA ToldTwice ==
  ASSUME NEW c, NEW d, NEW e
  PROVE  Tell(c, <<d, e>>) = DeltaTo(DeltaTo(c, d), e)
  BY ToldUpTo

--------------------------------------------------------------------------------
(* One event more.                                                           *)

LEMMA AppendPlaces ==
  ASSUME NEW S, NEW es \in Seq(S), NEW e \in S
  PROVE  /\ Append(es, e) \in Seq(S) /\ Len(es) \in Nat /\ Len(Append(es, e)) = Len(es) + 1
         /\ Append(es, e)[Len(es) + 1] = e /\ \A k \in 1..Len(es) : Append(es, e)[k] = es[k]
         /\ \A kinds : /\ OfKind(es, kinds) \subseteq 1..Len(es)
                       /\ OfKind(Append(es, e), kinds) =
                            OfKind(es, kinds) \cup IF e.kind \in kinds THEN {Len(es) + 1} ELSE {}
         /\ \A i : /\ OfItem(es, i) \subseteq 1..Len(es)
                   /\ OfItem(Append(es, e), i) =
                        OfItem(es, i) \cup IF e.item = i THEN {Len(es) + 1} ELSE {}
         /\ Calls(Append(es, e)) = Calls(es) \cup ({e.item} \ {0})
<1>. DEFINE n == Len(es)
            longer == Append(es, e)
<1>1. /\ n \in Nat /\ longer \in Seq(S) /\ Len(longer) = n + 1
      /\ longer[n + 1] = e /\ \A k \in 1..n : longer[k] = es[k]
      /\ DOMAIN es = 1..n /\ DOMAIN longer = 1..(n + 1)
  BY LenProperties, AppendProperties
<1>. HIDE DEF longer, n
<1>2. 1..(n + 1) = 1..n \cup {n + 1} /\ n + 1 \notin 1..n
  BY <1>1
<1>3. \A kinds : /\ OfKind(es, kinds) \subseteq 1..n
                 /\ OfKind(longer, kinds) =
                      OfKind(es, kinds) \cup IF e.kind \in kinds THEN {n + 1} ELSE {}
  BY <1>1, <1>2 DEF OfKind
<1>4. \A i : /\ OfItem(es, i) \subseteq 1..n
             /\ OfItem(longer, i) = OfItem(es, i) \cup IF e.item = i THEN {n + 1} ELSE {}
  BY <1>1, <1>2 DEF OfItem
<1>5. Calls(longer) = Calls(es) \cup ({e.item} \ {0})
  <2>1. Range(longer) = Range(es) \cup {e}
    BY <1>1, <1>2 DEF Range
  <2>. QED
    BY <2>1 DEF Calls
<1>. QED
  BY <1>1, <1>3, <1>4, <1>5 DEF longer, n

LEMMA EventType ==
  ASSUME NEW es \in Seq(Events), NEW k \in 1..Len(es)
  PROVE  es[k] \in Events /\ es[k].val \in Seq(Nat)
<1>1. es[k] \in Events
  BY ElementOfSeq
<1>. QED
  BY <1>1 DEF Events, Texts

LEMMA TextType ==
  ASSUME NEW es \in Seq(Events), NEW at
  PROVE  Text(es, at) \in Seq(Nat) /\ Text(es, {}) = <<>>
<1>. DEFINE vals == [k \in 1..Len(es) |-> es[k].val]
<1>1. vals \in Seq(Seq(Nat))
  BY EventType, LenProperties
<1>. HIDE DEF vals
<1>2. Joined(vals, at) \in Seq(Nat)
  BY <1>1, JoinedType
<1>3. Joined(vals, {}) = <<>>
  BY <1>1, JoinedNone
<1>. QED
  BY <1>2, <1>3 DEF Text, vals

LEMMA TextAppend ==
  ASSUME NEW es \in Seq(Events), NEW e \in Events, NEW at, NEW more,
         \A k \in 1..Len(es) : k \in more <=> k \in at
  PROVE  /\ Text(es, at) \in Texts
         /\ Text(Append(es, e), more) =
              IF Len(es) + 1 \in more THEN Text(es, at) \o e.val ELSE Text(es, at)
<1>. DEFINE n == Len(es)
            longer == Append(es, e)
            vals == [k \in 1..n |-> es[k].val]
            more1 == [k \in 1..Len(longer) |-> longer[k].val]
<1>1. /\ n \in Nat /\ longer \in Seq(Events) /\ Len(longer) = n + 1
      /\ longer[n + 1] = e /\ \A k \in 1..n : longer[k] = es[k]
  BY AppendPlaces
<1>2. vals \in Seq(Seq(Nat)) /\ Len(vals) = n /\ \A k \in 1..n : vals[k] = es[k].val
  BY <1>1, EventType
<1>3. e.val \in Seq(Nat)
  BY DEF Events, Texts
<1>4. more1 = Append(vals, e.val)
  <2>. DEFINE v == Append(vals, e.val)
  <2>1. /\ v \in Seq(Seq(Nat)) /\ Len(v) = n + 1 /\ v[n + 1] = e.val
        /\ \A k \in 1..n : v[k] = es[k].val
    <3>. HIDE DEF vals
    <3>. QED
      BY <1>2, <1>3, AppendProperties
  <2>2. more1 \in Seq(Seq(Nat)) /\ Len(more1) = n + 1 /\ \A k \in 1..(n + 1) : more1[k] = longer[k].val
    <3>. HIDE DEF longer
    <3>. QED
      BY <1>1, EventType
  <2>. HIDE DEF v, more1, longer
  <2>3. \A k \in 1..(n + 1) : more1[k] = v[k]
    <3>1. \A k \in 1..(n + 1) : k \in 1..n \/ k = n + 1
      BY <1>1
    <3>2. more1[n + 1] = v[n + 1]
      BY <1>1, <2>1, <2>2
    <3>3. ASSUME NEW k \in 1..n PROVE more1[k] = v[k]
      <4>1. k \in 1..(n + 1) /\ longer[k] = es[k]
        BY <1>1
      <4>. QED
        BY <2>1, <2>2, <4>1
    <3>. QED
      BY <3>1, <3>2, <3>3
  <2>4. more1 = v
    BY <2>1, <2>2, <2>3, SeqEqual
  <2>. QED
    BY <2>4 DEF v
<1>5. Joined(vals, at) \in Seq(Nat)
  <2>. HIDE DEF vals
  <2>. QED
    BY <1>2, JoinedType
<1>6. Joined(Append(vals, e.val), more) =
        IF n + 1 \in more THEN Joined(vals, at) \o e.val ELSE Joined(vals, at)
  <2>. HIDE DEF vals
  <2>1. \A k \in 1..Len(vals) : k \in more <=> k \in at
    BY <1>2
  <2>. DEFINE p == e.val
  <2>2. p \in Seq(Nat)
    BY <1>3
  <2>. HIDE DEF p
  <2>3. vals \in Seq(Seq(Nat))
    BY <1>2
  <2>4. Joined(Append(vals, p), more) =
          IF Len(vals) + 1 \in more THEN Joined(vals, at) \o p ELSE Joined(vals, at)
    BY <2>1, <2>2, <2>3, JoinedAppend
  <2>. QED
    BY <1>2, <2>4 DEF p
<1>7. Text(longer, more) = Joined(Append(vals, e.val), more) /\ Text(es, at) = Joined(vals, at)
  BY <1>4 DEF Text
<1>. HIDE DEF vals
<1>. QED
  BY <1>5, <1>6, <1>7 DEF Texts

LEMMA KeptAppend ==
  ASSUME NEW es \in Seq(Events), NEW e \in Events, NEW at, NEW more,
         \A k \in 1..Len(es) : k \in more <=> k \in at
  PROVE  /\ Kept(es, at) \in Seq(Events)
         /\ Kept(Append(es, e), more) =
              IF Len(es) + 1 \in more THEN Append(Kept(es, at), e) ELSE Kept(es, at)
<1>. DEFINE n == Len(es)
            longer == Append(es, e)
            vals == [k \in 1..n |-> <<es[k]>>]
            more1 == [k \in 1..Len(longer) |-> <<longer[k]>>]
<1>1. /\ n \in Nat /\ longer \in Seq(Events) /\ Len(longer) = n + 1
      /\ longer[n + 1] = e /\ \A k \in 1..n : longer[k] = es[k]
  BY AppendPlaces
<1>2. vals \in Seq(Seq(Events)) /\ Len(vals) = n /\ \A k \in 1..n : vals[k] = <<es[k]>>
  BY <1>1, EventType
<1>3. <<e>> \in Seq(Events)
  OBVIOUS
<1>4. more1 = Append(vals, <<e>>)
  <2>. DEFINE v == Append(vals, <<e>>)
  <2>1. /\ v \in Seq(Seq(Events)) /\ Len(v) = n + 1 /\ v[n + 1] = <<e>>
        /\ \A k \in 1..n : v[k] = <<es[k]>>
    <3>. HIDE DEF vals
    <3>. QED
      BY <1>2, <1>3, AppendProperties
  <2>2. more1 \in Seq(Seq(Events)) /\ Len(more1) = n + 1 /\ \A k \in 1..(n + 1) : more1[k] = <<longer[k]>>
    <3>. HIDE DEF longer
    <3>. QED
      BY <1>1, EventType
  <2>. HIDE DEF v, more1, longer
  <2>3. \A k \in 1..(n + 1) : more1[k] = v[k]
    <3>1. \A k \in 1..(n + 1) : k \in 1..n \/ k = n + 1
      BY <1>1
    <3>2. more1[n + 1] = v[n + 1]
      BY <1>1, <2>1, <2>2
    <3>3. ASSUME NEW k \in 1..n PROVE more1[k] = v[k]
      <4>1. k \in 1..(n + 1) /\ longer[k] = es[k]
        BY <1>1
      <4>. QED
        BY <2>1, <2>2, <4>1
    <3>. QED
      BY <3>1, <3>2, <3>3
  <2>4. more1 = v
    BY <2>1, <2>2, <2>3, SeqEqual
  <2>. QED
    BY <2>4 DEF v
<1>5. Joined(vals, at) \in Seq(Events)
  <2>. HIDE DEF vals
  <2>. QED
    BY <1>2, JoinedType
<1>6. Joined(Append(vals, <<e>>), more) =
        IF n + 1 \in more THEN Joined(vals, at) \o <<e>> ELSE Joined(vals, at)
  <2>. HIDE DEF vals
  <2>1. \A k \in 1..Len(vals) : k \in more <=> k \in at
    BY <1>2
  <2>. QED
    BY <1>2, <1>3, <2>1, JoinedAppend
<1>7. Kept(longer, more) = Joined(Append(vals, <<e>>), more) /\ Kept(es, at) = Joined(vals, at)
  BY <1>4 DEF Kept
<1>. HIDE DEF vals
<1>8. Joined(vals, at) \o <<e>> = Append(Joined(vals, at), e)
  BY <1>5
<1>. QED
  BY <1>5, <1>6, <1>7, <1>8

--------------------------------------------------------------------------------
(* The calls of an answer, numbered as they come.                            *)

NCalls(es) == Cardinality(Calls(es))
Numbered(es) == NCalls(es) \in Nat /\ Calls(es) = 1..NCalls(es)

LEMMA NumberedNone == Numbered(<<>>) /\ NCalls(<<>>) = 0
<1>1. Calls(<<>>) = {}
  BY DEF Calls, Range
<1>. QED
  BY <1>1, FS_EmptySet DEF Numbered, NCalls

LEMMA NumberedAppend ==
  ASSUME NEW es \in Seq(Events), NEW e \in Events, Numbered(es)
  PROVE  /\ e.item = 0 \/ e.item \in Calls(es) =>
              Calls(Append(es, e)) = Calls(es) /\ NCalls(Append(es, e)) = NCalls(es)
         /\ e.item # 0 /\ IsNext(es, e.item) =>
              /\ e.item = NCalls(es) + 1 /\ NCalls(Append(es, e)) = NCalls(es) + 1
              /\ Calls(Append(es, e)) = 1..(NCalls(es) + 1)
<1>. DEFINE n == NCalls(es)
<1>1. n \in Nat /\ Calls(es) = 1..n /\ Calls(Append(es, e)) = Calls(es) \cup ({e.item} \ {0})
  BY AppendPlaces DEF Numbered
<1>2. ASSUME e.item = 0 \/ e.item \in Calls(es)
      PROVE  Calls(Append(es, e)) = Calls(es) /\ NCalls(Append(es, e)) = NCalls(es)
  <2>1. Calls(Append(es, e)) = Calls(es)
    BY <1>1, <1>2
  <2>. QED
    BY <2>1 DEF NCalls
<1>3. ASSUME e.item # 0, IsNext(es, e.item)
      PROVE  /\ e.item = n + 1 /\ NCalls(Append(es, e)) = n + 1
             /\ Calls(Append(es, e)) = 1..(n + 1)
  <2>1. e.item = n + 1
    BY <1>1, <1>3 DEF IsNext, NCalls
  <2>. HIDE DEF n
  <2>2. Calls(Append(es, e)) = 1..(n + 1)
    BY <1>1, <1>3, <2>1
  <2>3. Cardinality(1..(n + 1)) = n + 1
    BY <1>1, FS_Interval
  <2>. QED
    BY <2>1, <2>2, <2>3 DEF NCalls
<1>. QED
  BY <1>2, <1>3

LEMMA ItemUnknown ==
  ASSUME NEW S, NEW es \in Seq(S), NEW i, i # 0
  PROVE  /\ i \notin Calls(es) <=> OfItem(es, i) = {}
         /\ IsAdded(es, i) \/ IsDone(es, i) => i \in Calls(es)
<1>1. i \in Calls(es) <=> OfItem(es, i) # {}
  BY DEF Calls, Range, OfItem
<1>. QED
  BY <1>1 DEF IsAdded, IsDone

(* What an event changes of what is known of a call.                         *)
LEMMA CallAppend ==
  ASSUME NEW es \in Seq(Events), NEW e \in Events, NEW i \in Nat, i # 0
  PROVE  /\ IsAdded(Append(es, e), i) <=> IsAdded(es, i) \/ (e.item = i /\ e.kind = "added")
         /\ IsDone(Append(es, e), i) <=> IsDone(es, i) \/ (e.item = i /\ e.kind = "done")
         /\ ArgsSent(Append(es, e), i) =
              IF e.item = i /\ e.kind = "args" THEN ArgsSent(es, i) \o e.val ELSE ArgsSent(es, i)
         /\ Text(Append(es, e), OfItem(Append(es, e), i)) =
              IF e.item = i THEN Text(es, OfItem(es, i)) \o e.val ELSE Text(es, OfItem(es, i))
         /\ ArgsSent(es, i) \in Texts /\ CallArgs(es, i) \in Texts
<1>. DEFINE n == Len(es)
            longer == Append(es, e)
<1>1. /\ n \in Nat /\ n + 1 \notin 1..n
      /\ \A kinds : /\ OfKind(es, kinds) \subseteq 1..n
                    /\ OfKind(longer, kinds) =
                         OfKind(es, kinds) \cup IF e.kind \in kinds THEN {n + 1} ELSE {}
      /\ OfItem(es, i) \subseteq 1..n
      /\ OfItem(longer, i) = OfItem(es, i) \cup IF e.item = i THEN {n + 1} ELSE {}
  BY AppendPlaces
<1>. HIDE DEF longer, n
<1>2. ASSUME NEW kind
      PROVE  /\ OfItem(longer, i) \cap OfKind(longer, {kind}) =
                  (OfItem(es, i) \cap OfKind(es, {kind})) \cup
                    IF e.item = i /\ e.kind = kind THEN {n + 1} ELSE {}
             /\ OfItem(es, i) \cap OfKind(es, {kind}) \subseteq 1..n
  <2>1. /\ OfKind(es, {kind}) \subseteq 1..n
        /\ OfKind(longer, {kind}) = OfKind(es, {kind}) \cup IF e.kind = kind THEN {n + 1} ELSE {}
    BY <1>1
  <2>. QED
    BY <1>1, <2>1
<1>3. IsAdded(longer, i) <=> IsAdded(es, i) \/ (e.item = i /\ e.kind = "added")
  BY <1>2 DEF IsAdded
<1>4. IsDone(longer, i) <=> IsDone(es, i) \/ (e.item = i /\ e.kind = "done")
  BY <1>2 DEF IsDone
<1>5. ArgsSent(es, i) \in Texts /\ CallArgs(es, i) \in Texts
  BY TextType DEF ArgsSent, CallArgs, Texts
<1>6. ArgsSent(longer, i) =
        IF e.item = i /\ e.kind = "args" THEN ArgsSent(es, i) \o e.val ELSE ArgsSent(es, i)
  <2>. DEFINE at == OfItem(es, i) \cap OfKind(es, {"args"})
              more == OfItem(longer, i) \cap OfKind(longer, {"args"})
  <2>1. /\ at \subseteq 1..n /\ more = at \cup IF e.item = i /\ e.kind = "args" THEN {n + 1} ELSE {}
    BY <1>2
  <2>. HIDE DEF at, more
  <2>2. Text(longer, more) = IF n + 1 \in more THEN Text(es, at) \o e.val ELSE Text(es, at)
    <3>1. \A k \in 1..n : k \in more <=> k \in at
      BY <1>1, <2>1
    <3>. QED
      BY <3>1, TextAppend DEF longer, n
  <2>3. n + 1 \in more <=> e.item = i /\ e.kind = "args"
    BY <1>1, <2>1
  <2>. QED
    BY <2>2, <2>3 DEF ArgsSent, at, more
<1>7. Text(longer, OfItem(longer, i)) =
        IF e.item = i THEN Text(es, OfItem(es, i)) \o e.val ELSE Text(es, OfItem(es, i))
  <2>1. \A k \in 1..n : k \in OfItem(longer, i) <=> k \in OfItem(es, i)
    BY <1>1
  <2>2. n + 1 \in OfItem(longer, i) <=> e.item = i
    BY <1>1
  <2>3. Text(longer, OfItem(longer, i)) =
          IF n + 1 \in OfItem(longer, i) THEN Text(es, OfItem(es, i)) \o e.val
          ELSE Text(es, OfItem(es, i))
    <3>. DEFINE more == OfItem(longer, i)
    <3>1. \A k \in 1..n : k \in more <=> k \in OfItem(es, i)
      BY <2>1
    <3>. HIDE DEF more
    <3>2. Text(longer, more) =
            IF n + 1 \in more THEN Text(es, OfItem(es, i)) \o e.val ELSE Text(es, OfItem(es, i))
      BY <3>1, TextAppend DEF longer, n
    <3>. QED
      BY <3>2 DEF more
  <2>. QED
    BY <2>2, <2>3
<1>. QED
  BY <1>3, <1>4, <1>5, <1>6, <1>7 DEF longer

LEMMA CallArgsAppend ==
  ASSUME NEW es \in Seq(Events), NEW e \in Events, NEW i \in Nat, i # 0
  PROVE  /\ e.item # i => CallArgs(Append(es, e), i) = CallArgs(es, i)
         /\ e.item = i /\ i \notin Calls(es) /\ e.kind = "added" => CallArgs(Append(es, e), i) = <<>>
         /\ e.item = i /\ i \notin Calls(es) /\ e.kind = "done" => CallArgs(Append(es, e), i) = e.val
         /\ e.item = i /\ IsAdded(es, i) /\ e.kind = "done" =>
              CallArgs(Append(es, e), i) = CallArgs(es, i) /\ CallArgs(es, i) = ArgsSent(es, i)
         /\ e.item = i /\ IsAdded(es, i) /\ e.kind = "args" =>
              CallArgs(Append(es, e), i) = CallArgs(es, i) \o e.val
<1>. DEFINE longer == Append(es, e)
<1>1. /\ IsAdded(longer, i) <=> IsAdded(es, i) \/ (e.item = i /\ e.kind = "added")
      /\ ArgsSent(longer, i) =
           IF e.item = i /\ e.kind = "args" THEN ArgsSent(es, i) \o e.val ELSE ArgsSent(es, i)
      /\ Text(longer, OfItem(longer, i)) =
           IF e.item = i THEN Text(es, OfItem(es, i)) \o e.val ELSE Text(es, OfItem(es, i))
  BY CallAppend
<1>. HIDE DEF longer
<1>2. ASSUME i \notin Calls(es)
      PROVE  ~IsAdded(es, i) /\ ArgsSent(es, i) = <<>> /\ Text(es, OfItem(es, i)) = <<>>
  <2>1. OfItem(es, i) = {} /\ ~IsAdded(es, i)
    BY <1>2, ItemUnknown
  <2>2. Text(es, {}) = <<>>
    BY TextType
  <2>3. OfItem(es, i) \cap OfKind(es, {"args"}) = {}
    BY <2>1
  <2>. QED
    BY <2>1, <2>2, <2>3 DEF ArgsSent
<1>3. e.val \in Seq(Nat) /\ <<>> \o e.val = e.val
  <2>1. e.val \in Seq(Nat)
    BY DEF Events, Texts
  <2>. QED
    BY <2>1, ConcatEmptySeq
<1>. QED
  BY <1>1, <1>2, <1>3 DEF CallArgs, longer

--------------------------------------------------------------------------------
(* What was said, event by event.                                            *)

Tools(es) == [i \in 1..NCalls(es) |-> [item |-> i, args |-> CallArgs(es, i)]]

LEMMA ToolsType ==
  ASSUME NEW es \in Seq(Events), Numbered(es)
  PROVE  /\ Tools(es) \in Seq(Call) /\ Len(Tools(es)) = NCalls(es) /\ NCalls(es) \in Nat
         /\ NCalls(es) <= MaxItems /\ 1..NCalls(es) \subseteq Item
<1>. DEFINE n == NCalls(es)
<1>1. n \in Nat /\ Calls(es) = 1..n
  BY DEF Numbered
<1>2. Calls(es) \subseteq Item
  <2>1. \A k \in 1..Len(es) : es[k].item \in 0..MaxItems
    BY EventType DEF Events
  <2>2. DOMAIN es = 1..Len(es)
    BY LenProperties
  <2>. QED
    BY <2>1, <2>2, ChatAssumption DEF Calls, Range, Item
<1>. HIDE DEF n
<1>3. n <= MaxItems
  <2>1. n = 0 \/ n \in 1..n
    BY <1>1
  <2>. QED
    BY <1>1, <1>2, <2>1, ChatAssumption DEF Item
<1>4. \A i \in 1..n : [item |-> i, args |-> CallArgs(es, i)] \in Call
  <2>1. \A i \in 1..n : CallArgs(es, i) \in Texts
    BY TextType DEF CallArgs, ArgsSent, Texts
  <2>. QED
    BY <1>1, <1>3, <2>1, ChatAssumption DEF Call
<1>. QED
  BY <1>1, <1>2, <1>3, <1>4 DEF Tools, n

LEMMA ToolsAppend ==
  ASSUME NEW es \in Seq(Events), NEW e \in Events, Numbered(es)
  PROVE  LET i == e.item
             longer == Append(es, e)
         IN /\ i = 0 \/ (IsAdded(es, i) /\ e.kind = "done") => Tools(longer) = Tools(es)
            /\ i # 0 /\ IsNext(es, i) /\ e.kind = "added" =>
                 Tools(longer) = Append(Tools(es), [item |-> i, args |-> <<>>])
            /\ i # 0 /\ IsNext(es, i) /\ e.kind = "done" =>
                 Tools(longer) = Append(Tools(es), [item |-> i, args |-> e.val])
            /\ i # 0 /\ IsAdded(es, i) /\ e.kind = "args" =>
                 Tools(longer) = [Tools(es) EXCEPT ![i] = [item |-> i, args |-> Tools(es)[i].args \o e.val]]
<1>. DEFINE i == e.item
            longer == Append(es, e)
            n == NCalls(es)
<1>1. n \in Nat /\ Calls(es) = 1..n /\ i \in Nat /\ i \in 0..MaxItems /\ e.val \in Seq(Nat)
  BY ChatAssumption DEF Numbered, Events, Texts
<1>2. \A k \in 1..n : k \in Nat /\ k # 0
  BY <1>1
<1>3. \A k \in 1..n : i # k => CallArgs(longer, k) = CallArgs(es, k)
  BY <1>2, CallArgsAppend
<1>4. i = 0 \/ i \in 1..n => NCalls(longer) = n
  BY <1>1, NumberedAppend
<1>5. i # 0 /\ IsNext(es, i) => i = n + 1 /\ NCalls(longer) = n + 1 /\ i \notin Calls(es)
  <2>1. n + 1 \notin 1..n
    BY <1>1
  <2>. QED
    BY <1>1, <2>1, NumberedAppend
<1>6. i # 0 /\ IsAdded(es, i) => i \in 1..n
  BY <1>1, ItemUnknown
<1>7. /\ i # 0 /\ i \notin Calls(es) /\ e.kind = "added" => CallArgs(longer, i) = <<>>
      /\ i # 0 /\ i \notin Calls(es) /\ e.kind = "done" => CallArgs(longer, i) = e.val
      /\ i # 0 /\ IsAdded(es, i) /\ e.kind = "done" => CallArgs(longer, i) = CallArgs(es, i)
      /\ i # 0 /\ IsAdded(es, i) /\ e.kind = "args" => CallArgs(longer, i) = CallArgs(es, i) \o e.val
  BY <1>1, CallArgsAppend
<1>. HIDE DEF longer, n, i
<1>8. ASSUME i = 0 \/ (IsAdded(es, i) /\ e.kind = "done") PROVE Tools(longer) = Tools(es)
  <2>1. NCalls(longer) = n /\ \A k \in 1..n : CallArgs(longer, k) = CallArgs(es, k)
    <3>1. CASE i = 0
      BY <1>2, <1>3, <1>4, <3>1
    <3>2. CASE i # 0
      BY <1>3, <1>4, <1>6, <1>7, <1>8, <3>2
    <3>. QED
      BY <3>1, <3>2
  <2>. QED
    BY <2>1 DEF Tools, n
<1>9. ASSUME NEW a \in Seq(Nat), i # 0, IsNext(es, i), CallArgs(longer, i) = a
      PROVE  Tools(longer) = Append(Tools(es), [item |-> i, args |-> a])
  <2>1. i = n + 1 /\ NCalls(longer) = n + 1
    BY <1>5, <1>9
  <2>2. /\ Tools(es) \in Seq(Call) /\ Len(Tools(es)) = n
        /\ \A k \in 1..n : Tools(es)[k] = [item |-> k, args |-> CallArgs(es, k)]
    BY ToolsType DEF Tools, n
  <2>3. [item |-> i, args |-> a] \in Call
    BY <1>1, <1>9 DEF Call, Texts
  <2>. DEFINE t == Append(Tools(es), [item |-> i, args |-> a])
  <2>4. /\ t \in Seq(Call) /\ Len(t) = n + 1
        /\ t[n + 1] = [item |-> i, args |-> a] /\ \A k \in 1..n : t[k] = Tools(es)[k]
    BY <2>2, <2>3, AppendProperties
  <2>5. t = [k \in 1..(n + 1) |-> t[k]]
    <3>. HIDE DEF t
    <3>. QED
      BY <1>1, <2>4
  <2>. HIDE DEF t
  <2>6. \A k \in 1..(n + 1) : t[k] = [item |-> k, args |-> CallArgs(longer, k)]
    <3>1. \A k \in 1..(n + 1) : k \in 1..n \/ k = n + 1
      BY <1>1
    <3>2. ASSUME NEW k \in 1..n PROVE t[k] = [item |-> k, args |-> CallArgs(longer, k)]
      <4>1. k # i
        BY <1>1, <2>1
      <4>. QED
        BY <1>3, <2>2, <2>4, <4>1
    <3>3. t[n + 1] = [item |-> n + 1, args |-> CallArgs(longer, n + 1)]
      BY <1>9, <2>1, <2>4
    <3>. QED
      BY <3>1, <3>2, <3>3
  <2>7. Tools(longer) = [k \in 1..(n + 1) |-> [item |-> k, args |-> CallArgs(longer, k)]]
    BY <2>1 DEF Tools
  <2>. QED
    BY <2>5, <2>6, <2>7 DEF t
<1>10. ASSUME i # 0, IsAdded(es, i), e.kind = "args"
       PROVE  Tools(longer) = [Tools(es) EXCEPT ![i] = [item |-> i, args |-> Tools(es)[i].args \o e.val]]
  <2>1. i \in 1..n /\ NCalls(longer) = n /\ CallArgs(longer, i) = CallArgs(es, i) \o e.val
    BY <1>4, <1>6, <1>7, <1>10
  <2>2. Tools(es)[i].args = CallArgs(es, i)
    BY <2>1 DEF Tools, n
  <2>3. \A k \in 1..n : CallArgs(longer, k) =
          IF k = i THEN CallArgs(es, i) \o e.val ELSE CallArgs(es, k)
    BY <1>3, <2>1
  <2>4. Tools(longer) = [k \in 1..n |-> [item |-> k, args |-> CallArgs(longer, k)]]
    BY <2>1 DEF Tools
  <2>5. Tools(es) = [k \in 1..n |-> [item |-> k, args |-> CallArgs(es, k)]]
    BY DEF Tools, n
  <2>. DEFINE call == [item |-> i, args |-> CallArgs(es, i) \o e.val]
  <2>6. [Tools(es) EXCEPT ![i] = call] = [k \in 1..n |-> IF k = i THEN call ELSE Tools(es)[k]]
    <3>. HIDE DEF call
    <3>. QED
      BY <2>5
  <2>7. \A k \in 1..n : [item |-> k, args |-> CallArgs(longer, k)] =
                          IF k = i THEN call ELSE Tools(es)[k]
    BY <2>3, <2>5
  <2>. HIDE DEF call
  <2>8. Tools(longer) = [Tools(es) EXCEPT ![i] = call]
    BY <2>4, <2>6, <2>7
  <2>. QED
    BY <2>2, <2>8 DEF call
<1>11. i # 0 /\ IsNext(es, i) /\ e.kind = "added" =>
                 Tools(longer) = Append(Tools(es), [item |-> i, args |-> <<>>])
  BY <1>5, <1>7, <1>9, EmptySeq
<1>12. i # 0 /\ IsNext(es, i) /\ e.kind = "done" =>
                 Tools(longer) = Append(Tools(es), [item |-> i, args |-> e.val])
  BY <1>1, <1>5, <1>7, <1>9
<1>. QED
  BY <1>8, <1>10, <1>11, <1>12 DEF longer, i

LEMMA FinishAppend ==
  ASSUME NEW es \in Seq(Events), NEW e \in Events
  PROVE  /\ ~HasKind(es, Good) => FinishOf(es) = "stop"
         /\ LastOf(Append(es, e)) = e
         /\ e.kind \notin Good => FinishOf(Append(es, e)) = "stop"
<1>1. LastOf(Append(es, e)) = e
  BY AppendPlaces DEF LastOf
<1>2. e.kind \notin Good => FinishOf(Append(es, e)) = "stop"
  BY <1>1 DEF FinishOf, Good, Stops
<1>3. ASSUME ~HasKind(es, Good) PROVE FinishOf(es) = "stop"
  <2>1. CASE es = <<>>
    BY <2>1 DEF FinishOf, LastOf, Event
  <2>2. CASE es # <<>>
    <3>1. Len(es) \in DOMAIN es
      BY <2>2, EmptySeq, LenProperties
    <3>2. LastOf(es).kind \notin Good
      BY <1>3, <2>2, <3>1 DEF HasKind, OfKind, LastOf
    <3>. QED
      BY <3>2 DEF FinishOf, Good, Stops
  <2>. QED
    BY <2>1, <2>2
<1>. QED
  BY <1>1, <1>2, <1>3

LEMMA SaidType ==
  ASSUME NEW es \in Seq(Events), Numbered(es)
  PROVE  Said(es) \in Messages /\ Said(es).tools = Tools(es)
<1>1. Tools(es) \in Seq(Call)
  BY ToolsType
<1>2. Text(es, OfKind(es, {"text"})) \in Texts /\ Text(es, OfKind(es, {"reasoning"})) \in Texts
  BY TextType DEF Texts
<1>3. FinishOf(es) \in {"stop"} \cup Reasons
  BY DEF FinishOf, Reasons
<1>4. Said(es) = [text |-> Text(es, OfKind(es, {"text"})),
                  reasoning |-> Text(es, OfKind(es, {"reasoning"})),
                  tools |-> Tools(es), finish |-> FinishOf(es)]
  BY DEF Said, Tools, NCalls
<1>. QED
  BY <1>1, <1>2, <1>3, <1>4 DEF Messages, Call

LEMMA SaidAppend ==
  ASSUME NEW es \in Seq(Events), NEW e \in Events
  PROVE  Said(Append(es, e)) =
           [text |-> IF e.kind = "text" THEN Said(es).text \o e.val ELSE Said(es).text,
            reasoning |-> IF e.kind = "reasoning" THEN Said(es).reasoning \o e.val
                          ELSE Said(es).reasoning,
            tools |-> Tools(Append(es, e)), finish |-> FinishOf(Append(es, e))]
<1>. DEFINE longer == Append(es, e)
<1>1. ASSUME NEW kind
      PROVE  Text(longer, OfKind(longer, {kind})) =
               IF e.kind = kind THEN Text(es, OfKind(es, {kind})) \o e.val
               ELSE Text(es, OfKind(es, {kind}))
  <2>. DEFINE at == OfKind(es, {kind})
              more == OfKind(longer, {kind})
  <2>1. /\ Len(es) \in Nat /\ at \subseteq 1..Len(es)
        /\ more = at \cup IF e.kind = kind THEN {Len(es) + 1} ELSE {}
    <3>1. more = at \cup IF e.kind \in {kind} THEN {Len(es) + 1} ELSE {}
      BY AppendPlaces
    <3>2. Len(es) \in Nat /\ at \subseteq 1..Len(es)
      BY AppendPlaces
    <3>. HIDE DEF at, more
    <3>. QED
      BY <3>1, <3>2
  <2>. HIDE DEF at, more
  <2>2. \A k \in 1..Len(es) : k \in more <=> k \in at
    BY <2>1
  <2>3. Len(es) + 1 \in more <=> e.kind = kind
    BY <2>1
  <2>4. Text(longer, more) = IF Len(es) + 1 \in more THEN Text(es, at) \o e.val ELSE Text(es, at)
    BY <2>2, TextAppend
  <2>. QED
    BY <2>3, <2>4 DEF at, more
<1>2. /\ Said(es).text = Text(es, OfKind(es, {"text"}))
      /\ Said(es).reasoning = Text(es, OfKind(es, {"reasoning"}))
  BY DEF Said
<1>3. Said(longer) = [text |-> Text(longer, OfKind(longer, {"text"})),
                      reasoning |-> Text(longer, OfKind(longer, {"reasoning"})),
                      tools |-> Tools(longer), finish |-> FinishOf(longer)]
  BY DEF Said, Tools, NCalls
<1>. HIDE DEF longer
<1>4. /\ Text(longer, OfKind(longer, {"text"})) =
           IF e.kind = "text" THEN Said(es).text \o e.val ELSE Said(es).text
      /\ Text(longer, OfKind(longer, {"reasoning"})) =
           IF e.kind = "reasoning" THEN Said(es).reasoning \o e.val ELSE Said(es).reasoning
  BY <1>1, <1>2
<1>. QED
  BY <1>3, <1>4 DEF longer

LEMMA CollectStart ==
  ASSUME NEW m \in Messages, NEW i \in 0..MaxItems
  PROVE  Collect(m, Delta("start", Len(m.tools), <<i>>)) =
           [m EXCEPT !.tools = Append(m.tools, [item |-> i, args |-> <<>>])]
<1>. DEFINE d == Delta("start", Len(m.tools), <<i>>)
            tools == m.tools
            n == Len(tools)
            grown == UpTo(tools, n)
            t == Append(tools, [item |-> i, args |-> <<>>])
<1>1. tools \in Seq(Call) /\ n \in Nat
  BY LenProperties DEF Messages, Call
<1>. HIDE DEF tools
<1>2. NoCall \in Call /\ [item |-> i, args |-> <<>>] \in Call
  BY EmptySeq, ChatAssumption DEF NoCall, Call, Texts
<1>3. grown \in Seq(Call) /\ Len(grown) = n + 1 /\ grown[n + 1] = NoCall /\ \A k \in 1..n : grown[k] = tools[k]
  <2>1. grown = tools \o [k \in 1..1 |-> NoCall]
    BY <1>1 DEF UpTo
  <2>. DEFINE one == [k \in 1..1 |-> NoCall]
  <2>2. one \in Seq(Call) /\ Len(one) = 1 /\ one[1] = NoCall
    BY <1>2
  <2>. HIDE DEF one
  <2>3. tools \o one \in Seq(Call) /\ Len(tools \o one) = n + 1
    <3>1. tools \o one \in Seq(Call)
      BY <1>1, <2>2, ConcatProperties
    <3>2. Len(tools \o one) = Len(tools) + Len(one)
      BY <1>1, <2>2, ConcatProperties
    <3>. QED
      BY <2>2, <3>1, <3>2
  <2>4. (tools \o one)[n + 1] = one[1]
    BY <1>1, <2>2, ConcatProperties
  <2>5. \A k \in 1..n : (tools \o one)[k] = tools[k]
    BY <1>1, <2>2, ConcatProperties
  <2>. QED
    BY <2>1, <2>2, <2>3, <2>4, <2>5 DEF one
<1>. HIDE DEF grown
<1>4. d.at = n /\ d.val[1] = i /\ d.kind = "start"
  BY DEF Delta, tools
<1>. HIDE DEF d, n
<1>5. Started(grown, d) = [grown EXCEPT ![n + 1] = [item |-> i, args |-> <<>>]]
  <2>1. [NoCall EXCEPT !.item = i] = [item |-> i, args |-> <<>>]
    BY DEF NoCall
  <2>2. Started(grown, d) = [grown EXCEPT ![n + 1] = [grown[n + 1] EXCEPT !.item = i]]
    BY <1>4 DEF Started
  <2>. QED
    BY <1>3, <2>1, <2>2
<1>6. [grown EXCEPT ![n + 1] = [item |-> i, args |-> <<>>]] = t
  <2>. DEFINE g == [grown EXCEPT ![n + 1] = [item |-> i, args |-> <<>>]]
  <2>1. n + 1 \in 1..Len(grown)
    BY <1>1, <1>3
  <2>2. /\ g \in Seq(Call) /\ Len(g) = n + 1
        /\ \A k \in 1..(n + 1) : g[k] = IF k = n + 1 THEN [item |-> i, args |-> <<>>] ELSE grown[k]
    BY <1>2, <1>3, <2>1, ExceptSeq
  <2>3. t \in Seq(Call) /\ Len(t) = n + 1 /\ t[n + 1] = [item |-> i, args |-> <<>>]
        /\ \A k \in 1..n : t[k] = tools[k]
    BY <1>1, <1>2, AppendProperties DEF n
  <2>. HIDE DEF g, t
  <2>4. \A k \in 1..(n + 1) : g[k] = t[k]
    <3>1. \A k \in 1..(n + 1) : k = n + 1 \/ k \in 1..n
      BY <1>1
    <3>2. g[n + 1] = t[n + 1]
      BY <1>1, <2>2, <2>3
    <3>3. ASSUME NEW k \in 1..n PROVE g[k] = t[k]
      <4>1. k \in 1..(n + 1) /\ k # n + 1
        BY <1>1
      <4>. QED
        BY <1>3, <2>2, <2>3, <4>1
    <3>. QED
      BY <3>1, <3>2, <3>3
  <2>5. g = t
    BY <2>2, <2>3, <2>4, SeqEqual
  <2>. QED
    BY <2>5 DEF g
<1>7. Collect(m, d) = [m EXCEPT !.tools = Started(grown, d)]
  BY <1>4 DEF Collect, Reasons, Messages, grown, tools, n
<1>. QED
  BY <1>5, <1>6, <1>7 DEF d, tools, n

LEMMA CollectArgs ==
  ASSUME NEW m \in Messages, NEW i \in 1..Len(m.tools), NEW val \in Seq(Nat)
  PROVE  Collect(m, Delta("args", i - 1, val)) =
           [m EXCEPT !.tools = [m.tools EXCEPT ![i] =
              [item |-> m.tools[i].item, args |-> m.tools[i].args \o val]]]
<1>. DEFINE d == Delta("args", i - 1, val)
            tools == m.tools
<1>1. tools \in Seq(Call) /\ Len(tools) \in Nat /\ tools[i] \in Call
  BY LenProperties, ElementOfSeq DEF Messages, Call
<1>2. d.at = i - 1 /\ d.at + 1 = i /\ d.val = val /\ d.kind = "args"
  BY <1>1 DEF Delta
<1>. HIDE DEF d
<1>3. UpTo(tools, d.at) = tools
  BY <1>1, <1>2 DEF UpTo
<1>4. Filled(tools, d) =
        [tools EXCEPT ![i] = [item |-> tools[i].item, args |-> tools[i].args \o val]]
  <2>. DEFINE args == tools[i].args \o val
  <2>1. Filled(tools, d) = [tools EXCEPT ![i] = [tools[i] EXCEPT !.args = args]]
    BY <1>2 DEF Filled
  <2>. HIDE DEF args, tools
  <2>2. [tools[i] EXCEPT !.args = args] = [item |-> tools[i].item, args |-> args]
    BY <1>1 DEF Call
  <2>. QED
    BY <2>1, <2>2 DEF args
<1>5. Collect(m, d) = [m EXCEPT !.tools = Filled(UpTo(tools, d.at), d)]
  BY <1>2 DEF Collect, Reasons
<1>. QED
  BY <1>3, <1>4, <1>5 DEF d

LEMMA SaidSteps ==
  ASSUME NEW es \in Seq(Events), NEW e \in Events, Numbered(es), ~HasKind(es, Good)
  PROVE  LET i == e.item
             longer == Append(es, e)
             start == Delta("start", i - 1, <<i>>)
             args == Delta("args", i - 1, e.val)
         IN /\ i = 0 /\ e.kind \in {"text", "reasoning"} =>
                 Said(longer) = Collect(Said(es), Delta(e.kind, 0, e.val))
            /\ i = 0 /\ e.kind \notin Good \cup {"text", "reasoning"} => Said(longer) = Said(es)
            /\ i = 0 /\ e.kind \in Good =>
                 Said(longer) = [Said(es) EXCEPT !.finish = FinishOf(longer)]
            /\ i # 0 /\ IsNext(es, i) /\ e.kind = "added" => Said(longer) = Collect(Said(es), start)
            /\ i # 0 /\ IsNext(es, i) /\ e.kind = "done" /\ e.val = <<>> =>
                 Said(longer) = Collect(Said(es), start)
            /\ i # 0 /\ IsNext(es, i) /\ e.kind = "done" =>
                 Said(longer) = Collect(Collect(Said(es), start), args)
            /\ i # 0 /\ IsAdded(es, i) /\ e.kind = "done" => Said(longer) = Said(es)
            /\ i # 0 /\ IsAdded(es, i) /\ e.kind = "args" =>
                 Said(longer) = Collect(Said(es), args)
<1>. DEFINE i == e.item
            longer == Append(es, e)
            m == Said(es)
            n == NCalls(es)
            start == Delta("start", i - 1, <<i>>)
            args == Delta("args", i - 1, e.val)
<1>1. /\ m \in Messages /\ m.tools = Tools(es) /\ Tools(es) \in Seq(Call) /\ Len(Tools(es)) = n
      /\ n \in Nat /\ n <= MaxItems
  BY SaidType, ToolsType
<1>2. /\ m = [text |-> m.text, reasoning |-> m.reasoning, tools |-> m.tools, finish |-> m.finish]
      /\ m.finish = "stop"
  <2>1. m.finish = FinishOf(es)
    BY DEF Said
  <2>. HIDE DEF m
  <2>. QED
    BY <1>1, <2>1, FinishAppend DEF Messages
<1>3. Said(longer) = [text |-> IF e.kind = "text" THEN m.text \o e.val ELSE m.text,
                      reasoning |-> IF e.kind = "reasoning" THEN m.reasoning \o e.val ELSE m.reasoning,
                      tools |-> Tools(longer), finish |-> FinishOf(longer)]
  BY SaidAppend
<1>4. e.kind \notin Good => FinishOf(longer) = "stop"
  BY FinishAppend
<1>5. i \in 0..MaxItems /\ e.val \in Seq(Nat)
  BY DEF Events, Texts
<1>6. /\ i = 0 \/ (IsAdded(es, i) /\ e.kind = "done") => Tools(longer) = Tools(es)
      /\ i # 0 /\ IsNext(es, i) /\ e.kind = "added" =>
           Tools(longer) = Append(Tools(es), [item |-> i, args |-> <<>>])
      /\ i # 0 /\ IsNext(es, i) /\ e.kind = "done" =>
           Tools(longer) = Append(Tools(es), [item |-> i, args |-> e.val])
      /\ i # 0 /\ IsAdded(es, i) /\ e.kind = "args" =>
           Tools(longer) = [Tools(es) EXCEPT ![i] = [item |-> i, args |-> Tools(es)[i].args \o e.val]]
  BY ToolsAppend
<1>7. /\ i # 0 /\ IsNext(es, i) => i = n + 1
      /\ i # 0 /\ IsAdded(es, i) => i \in 1..n /\ Tools(es)[i].item = i
  <2>1. i # 0 /\ IsNext(es, i) => i = n + 1
    BY NumberedAppend
  <2>2. i # 0 /\ IsAdded(es, i) => i \in 1..n
    BY ItemUnknown DEF Numbered
  <2>3. \A k \in 1..n : Tools(es)[k].item = k
    BY DEF Tools
  <2>. QED
    BY <2>1, <2>2, <2>3
<1>. HIDE DEF m, n, longer, i
<1>8. i # 0 /\ IsNext(es, i) =>
        Collect(m, start) = [m EXCEPT !.tools = Append(Tools(es), [item |-> i, args |-> <<>>])]
  <2>. SUFFICES ASSUME i = n + 1
                PROVE  Collect(m, start) = [m EXCEPT !.tools = Append(Tools(es), [item |-> i, args |-> <<>>])]
    BY <1>7
  <2>1. i - 1 = Len(m.tools)
    BY <1>1
  <2>. QED
    BY <1>1, <1>5, <2>1, CollectStart
<1>9. ASSUME NEW x \in Messages, i \in 1..Len(x.tools)
      PROVE  Collect(x, args) = [x EXCEPT !.tools = [x.tools EXCEPT ![i] =
               [item |-> x.tools[i].item, args |-> x.tools[i].args \o e.val]]]
  BY <1>5, <1>9, CollectArgs
<1>10. ASSUME i = 0, e.kind \in {"text", "reasoning"}
       PROVE  Said(longer) = Collect(m, Delta(e.kind, 0, e.val))
  <2>1. e.kind \notin Good
    BY <1>10 DEF Good, Stops
  <2>2. CASE e.kind = "text"
    <3>1. Collect(m, Delta(e.kind, 0, e.val)) = [m EXCEPT !.text = m.text \o e.val]
      BY <2>2 DEF Collect, Delta, Reasons
    <3>2. [m EXCEPT !.text = m.text \o e.val] =
            [text |-> m.text \o e.val, reasoning |-> m.reasoning, tools |-> m.tools, finish |-> m.finish]
      <4>. DEFINE grown == m.text \o e.val
      <4>. HIDE DEF grown
      <4>1. [m EXCEPT !.text = grown] =
              [text |-> grown, reasoning |-> m.reasoning, tools |-> m.tools, finish |-> m.finish]
        BY <1>2
      <4>. QED
        BY <4>1 DEF grown
    <3>. QED
      BY <1>1, <1>2, <1>3, <1>4, <1>6, <1>10, <2>1, <2>2, <3>1, <3>2
  <2>3. CASE e.kind = "reasoning"
    <3>1. Collect(m, Delta(e.kind, 0, e.val)) = [m EXCEPT !.reasoning = m.reasoning \o e.val]
      BY <2>3 DEF Collect, Delta, Reasons
    <3>2. [m EXCEPT !.reasoning = m.reasoning \o e.val] =
            [text |-> m.text, reasoning |-> m.reasoning \o e.val, tools |-> m.tools, finish |-> m.finish]
      <4>. DEFINE grown == m.reasoning \o e.val
      <4>. HIDE DEF grown
      <4>1. [m EXCEPT !.reasoning = grown] =
              [text |-> m.text, reasoning |-> grown, tools |-> m.tools, finish |-> m.finish]
        BY <1>2
      <4>. QED
        BY <4>1 DEF grown
    <3>. QED
      BY <1>1, <1>2, <1>3, <1>4, <1>6, <1>10, <2>1, <2>3, <3>1, <3>2
  <2>. QED
    BY <1>10, <2>2, <2>3
<1>11. ASSUME e.kind \notin Good \cup {"text", "reasoning"}
       PROVE  Said(longer) = [m EXCEPT !.tools = Tools(longer)]
  BY <1>2, <1>3, <1>4, <1>11
<1>12. m = [m EXCEPT !.tools = Tools(es)]
  BY <1>1, <1>2
<1>13. i = 0 /\ e.kind \in Good => Said(longer) = [m EXCEPT !.finish = FinishOf(longer)]
  BY <1>1, <1>2, <1>3, <1>6 DEF Good, Stops
<1>14. {"added", "done", "args"} \cap (Good \cup {"text", "reasoning"}) = {}
  BY DEF Good, Stops
<1>15. i = 0 /\ e.kind \notin Good \cup {"text", "reasoning"} => Said(longer) = m
  BY <1>6, <1>11, <1>12
<1>16. i # 0 /\ IsNext(es, i) /\ e.kind = "added" => Said(longer) = Collect(m, start)
  BY <1>6, <1>8, <1>11, <1>14
<1>17. i # 0 /\ IsAdded(es, i) /\ e.kind = "done" => Said(longer) = m
  BY <1>6, <1>11, <1>12, <1>14
<1>18. i # 0 /\ IsAdded(es, i) /\ e.kind = "args" => Said(longer) = Collect(m, args)
  <2>. SUFFICES ASSUME i # 0, IsAdded(es, i), e.kind = "args" PROVE Said(longer) = Collect(m, args)
    OBVIOUS
  <2>1. i \in 1..Len(m.tools) /\ m.tools[i].item = i
    BY <1>1, <1>7
  <2>2. Collect(m, args) = [m EXCEPT !.tools = [m.tools EXCEPT ![i] =
               [item |-> m.tools[i].item, args |-> m.tools[i].args \o e.val]]]
    BY <1>1, <1>9, <2>1
  <2>. DEFINE tools == [Tools(es) EXCEPT ![i] = [item |-> i, args |-> Tools(es)[i].args \o e.val]]
  <2>3. Collect(m, args) = [m EXCEPT !.tools = tools]
    BY <1>1, <2>1, <2>2
  <2>4. Tools(longer) = tools
    BY <1>6
  <2>. HIDE DEF tools
  <2>5. Said(longer) = [m EXCEPT !.tools = Tools(longer)]
    BY <1>11, <1>14
  <2>. QED
    BY <2>3, <2>4, <2>5
<1>19. i # 0 /\ IsNext(es, i) /\ e.kind = "done" /\ e.val = <<>> => Said(longer) = Collect(m, start)
  <2>. SUFFICES ASSUME i # 0, IsNext(es, i), e.kind = "done", e.val = <<>>
                PROVE  Said(longer) = Collect(m, start)
    OBVIOUS
  <2>. DEFINE tools == Append(Tools(es), [item |-> i, args |-> <<>>])
  <2>1. Tools(longer) = tools
    BY <1>6
  <2>2. Collect(m, start) = [m EXCEPT !.tools = tools]
    BY <1>8
  <2>. HIDE DEF tools
  <2>3. Said(longer) = [m EXCEPT !.tools = Tools(longer)]
    BY <1>11, <1>14
  <2>. QED
    BY <2>1, <2>2, <2>3
<1>20. i # 0 /\ IsNext(es, i) /\ e.kind = "done" => Said(longer) = Collect(Collect(m, start), args)
  <2>. SUFFICES ASSUME i # 0, IsNext(es, i), e.kind = "done"
                PROVE  Said(longer) = Collect(Collect(m, start), args)
    OBVIOUS
  <2>. DEFINE none == [item |-> i, args |-> <<>>]
              call == [item |-> i, args |-> e.val]
              s == Append(Tools(es), none)
              x == [m EXCEPT !.tools = s]
  <2>1. i = n + 1 /\ Collect(m, start) = x
    BY <1>7, <1>8
  <2>2. none \in Call /\ call \in Call
    BY <1>5, EmptySeq DEF Call, Texts
  <2>3. s \in Seq(Call) /\ Len(s) = n + 1 /\ s[n + 1] = none /\ \A k \in 1..n : s[k] = Tools(es)[k]
    <3>. HIDE DEF none
    <3>. QED
      BY <1>1, <2>2, AppendProperties
  <2>. HIDE DEF s
  <2>4. x \in Messages /\ x.tools = s
    BY <1>1, <1>2, <2>3 DEF Messages, Call
  <2>5. i \in 1..Len(x.tools)
    BY <1>1, <2>1, <2>3, <2>4
  <2>6. [item |-> x.tools[i].item, args |-> x.tools[i].args \o e.val] = call
    <3>1. <<>> \o e.val = e.val
      BY <1>5, ConcatEmptySeq
    <3>2. x.tools[i] = none
      BY <2>1, <2>3, <2>4
    <3>3. none.item = i /\ none.args = <<>>
      OBVIOUS
    <3>. HIDE DEF none, x
    <3>. QED
      BY <3>1, <3>2, <3>3
  <2>7. Collect(x, args) = [x EXCEPT !.tools = [s EXCEPT ![i] = call]]
    <3>. HIDE DEF x, call
    <3>. QED
      BY <1>9, <2>4, <2>5, <2>6
  <2>8. [s EXCEPT ![i] = call] = Append(Tools(es), call)
    <3>. DEFINE g == [s EXCEPT ![i] = call]
                t == Append(Tools(es), call)
    <3>1. g \in Seq(Call) /\ Len(g) = n + 1 /\ \A k \in 1..(n + 1) : g[k] = IF k = n + 1 THEN call ELSE s[k]
      <4>. HIDE DEF call
      <4>. QED
        BY <1>1, <2>1, <2>2, <2>3, ExceptSeq
    <3>2. t \in Seq(Call) /\ Len(t) = n + 1 /\ t[n + 1] = call /\ \A k \in 1..n : t[k] = Tools(es)[k]
      <4>. HIDE DEF call
      <4>. QED
        BY <1>1, <2>2, AppendProperties
    <3>. HIDE DEF g, t, call
    <3>3. \A k \in 1..(n + 1) : g[k] = t[k]
      <4>1. \A k \in 1..(n + 1) : k = n + 1 \/ k \in 1..n
        BY <1>1
      <4>2. g[n + 1] = t[n + 1]
        BY <1>1, <3>1, <3>2
      <4>3. ASSUME NEW k \in 1..n PROVE g[k] = t[k]
        <5>1. k \in 1..(n + 1) /\ k # n + 1
          BY <1>1
        <5>. QED
          BY <2>3, <3>1, <3>2, <5>1
      <4>. QED
        BY <4>1, <4>2, <4>3
    <3>. QED
      BY <3>1, <3>2, <3>3, SeqEqual DEF g, t
  <2>9. Said(longer) = [m EXCEPT !.tools = Append(Tools(es), call)]
    BY <1>6, <1>11, <1>14
  <2>10. [x EXCEPT !.tools = Append(Tools(es), call)] = [m EXCEPT !.tools = Append(Tools(es), call)]
    BY <1>2
  <2>. QED
    BY <2>1, <2>7, <2>8, <2>9, <2>10
<1>. QED
  BY <1>10, <1>13, <1>15, <1>16, <1>17, <1>18, <1>19, <1>20 DEF m, longer, i

--------------------------------------------------------------------------------
(* What the upstreams send, and what the translators make of it.             *)

Speaks(e) == e.item = 0 /\ e.kind \in {"text", "reasoning"}
Opens(es, e) == e.item \in Item /\ IsNext(es, e.item) /\ e.kind = "added"
Fills(es, e) ==
  /\ e.item \in Item /\ IsAdded(es, e.item) /\ e.kind = "args"
  /\ prov = "codex" => ~IsDone(es, e.item)
Closes(es, e) ==
  /\ e.item \in Item /\ IsAdded(es, e.item) /\ ~IsDone(es, e.item) /\ e.kind = "done"
  /\ e.val = ArgsSent(es, e.item) \/ PartsMissing(es, e.item)
  /\ prov = "codex"
Brings(es, e) == e.item \in Item /\ IsNext(es, e.item) /\ e.kind = "done" /\ prov = "codex"
Passes(es, e) ==
  /\ e.item = 0
  /\ e.kind \in IF prov = "codex" THEN {"said", "noise"}
                ELSE {"message_start", "noise", "message_delta"}
  /\ e.kind = "message_start" => es = <<>>
Concludes(es, e) ==
  /\ e.item = 0
  /\ e.kind \in IF prov = "codex" THEN {"completed", "length", "filtered"} ELSE Stops
  /\ e.kind = "completed" => \A i \in Item : IsAdded(es, i) => IsDone(es, i)
Fails(e) == e.item = 0 /\ e.kind \in IF prov = "codex" THEN Bad ELSE {"error"}

LEMMA SendsCases ==
  ASSUME NEW es \in Seq(Events), NEW e \in Sends(es), prov \in {"anthropic", "codex"}
  PROVE  /\ e \in Events
         /\ \/ Speaks(e) \/ Opens(es, e) \/ Fills(es, e) \/ Closes(es, e) \/ Brings(es, e)
            \/ Passes(es, e) \/ Concludes(es, e) \/ Fails(e)
         /\ prov = "anthropic" =>
              IF es = <<>> THEN e.kind \in {"message_start", "error"} ELSE e.kind # "message_start"
<1>1. Mark(es) \in Seq(Nat) /\ <<>> \in Seq(Nat)
  <2>1. Len(es) + 1 \in Nat
    BY LenProperties
  <2>. QED
    BY <2>1 DEF Mark
<1>2. \A i \in Item : ArgsSent(es, i) \in Seq(Nat)
  BY TextType DEF ArgsSent
<1>3. Item \subseteq 0..MaxItems /\ 0 \in 0..MaxItems /\ 0 \notin Item
  BY ChatAssumption DEF Item
<1>4. ASSUME NEW kind \in EventKinds, NEW i \in 0..MaxItems, NEW val \in Seq(Nat), e = Event(kind, i, val)
      PROVE  e \in Events /\ e.kind = kind /\ e.item = i /\ e.val = val
  BY <1>4 DEF Event, Events, Texts
<1>5. ASSUME prov = "codex"
      PROVE  /\ e \in Events
             /\ \/ Speaks(e) \/ Opens(es, e) \/ Fills(es, e) \/ Closes(es, e) \/ Brings(es, e)
                \/ Passes(es, e) \/ Concludes(es, e) \/ Fails(e)
  <2>1. e \in CodexSends(es)
    BY <1>5 DEF Sends
  <2>2. \/ \E kind \in {"text", "reasoning", "said", "noise", "failed", "error"} :
             e = Event(kind, 0, Mark(es))
        \/ \E i \in Item : IsNext(es, i) /\ e = Event("added", i, <<>>)
        \/ \E i \in Item : IsAdded(es, i) /\ ~IsDone(es, i) /\ e = Event("args", i, Mark(es))
        \/ \E i \in Item : IsAdded(es, i) /\ ~IsDone(es, i) /\ e = Event("done", i, ArgsSent(es, i))
        \/ \E i \in Item : /\ IsAdded(es, i) /\ ~IsDone(es, i) /\ ArgsSent(es, i) = <<>>
                          /\ e = Event("done", i, Mark(es))
        \/ \E i \in Item, val \in {<<>>, Mark(es)} : IsNext(es, i) /\ e = Event("done", i, val)
        \/ \E kind \in {"length", "filtered"}, val \in {<<>>, Mark(es)} : e = Event(kind, 0, val)
        \/ /\ \A i \in Item : IsAdded(es, i) => IsDone(es, i)
           /\ \E val \in {<<>>, Mark(es)} : e = Event("completed", 0, val)
    BY <2>1 DEF CodexSends
  <2>3. CASE \E kind \in {"text", "reasoning", "said", "noise", "failed", "error"} :
               e = Event(kind, 0, Mark(es))
    <3>1. PICK kind \in {"text", "reasoning", "said", "noise", "failed", "error"} :
               e = Event(kind, 0, Mark(es))
      BY <2>3
    <3>2. kind \in EventKinds
      BY DEF EventKinds, Bad
    <3>3. e \in Events /\ e.kind = kind /\ e.item = 0
      BY <1>1, <1>3, <1>4, <3>1, <3>2
    <3>. QED
      BY <1>5, <3>3 DEF Speaks, Passes, Fails, Bad
  <2>4. CASE \E i \in Item : IsNext(es, i) /\ e = Event("added", i, <<>>)
    <3>1. PICK i \in Item : IsNext(es, i) /\ e = Event("added", i, <<>>)
      BY <2>4
    <3>2. e \in Events /\ e.kind = "added" /\ e.item = i
      BY <1>1, <1>3, <1>4, <3>1 DEF EventKinds
    <3>. QED
      BY <3>1, <3>2 DEF Opens
  <2>5. CASE \E i \in Item : IsAdded(es, i) /\ ~IsDone(es, i) /\ e = Event("args", i, Mark(es))
    <3>1. PICK i \in Item : IsAdded(es, i) /\ ~IsDone(es, i) /\ e = Event("args", i, Mark(es))
      BY <2>5
    <3>2. e \in Events /\ e.kind = "args" /\ e.item = i
      BY <1>1, <1>3, <1>4, <3>1 DEF EventKinds
    <3>. QED
      BY <3>1, <3>2 DEF Fills
  <2>6. CASE \E i \in Item : IsAdded(es, i) /\ ~IsDone(es, i) /\ e = Event("done", i, ArgsSent(es, i))
    <3>1. PICK i \in Item : IsAdded(es, i) /\ ~IsDone(es, i) /\ e = Event("done", i, ArgsSent(es, i))
      BY <2>6
    <3>2. e \in Events /\ e.kind = "done" /\ e.item = i /\ e.val = ArgsSent(es, i)
      BY <1>2, <1>3, <1>4, <3>1 DEF EventKinds
    <3>. QED
      BY <1>5, <3>1, <3>2 DEF Closes
  <2>10. CASE \E i \in Item : /\ IsAdded(es, i) /\ ~IsDone(es, i) /\ ArgsSent(es, i) = <<>>
                             /\ e = Event("done", i, Mark(es))
    <3>1. PICK i \in Item : /\ IsAdded(es, i) /\ ~IsDone(es, i) /\ ArgsSent(es, i) = <<>>
                            /\ e = Event("done", i, Mark(es))
      BY <2>10
    <3>2. e \in Events /\ e.kind = "done" /\ e.item = i
      BY <1>1, <1>3, <1>4, <3>1 DEF EventKinds
    <3>. QED
      BY <1>5, <3>1, <3>2 DEF Closes, PartsMissing
  <2>7. CASE \E i \in Item, val \in {<<>>, Mark(es)} : IsNext(es, i) /\ e = Event("done", i, val)
    <3>1. PICK i \in Item, val \in {<<>>, Mark(es)} : IsNext(es, i) /\ e = Event("done", i, val)
      BY <2>7
    <3>2. e \in Events /\ e.kind = "done" /\ e.item = i
      BY <1>1, <1>3, <1>4, <3>1 DEF EventKinds
    <3>. QED
      BY <1>5, <3>1, <3>2 DEF Brings
  <2>8. CASE \E kind \in {"length", "filtered"}, val \in {<<>>, Mark(es)} : e = Event(kind, 0, val)
    <3>1. PICK kind \in {"length", "filtered"}, val \in {<<>>, Mark(es)} : e = Event(kind, 0, val)
      BY <2>8
    <3>2. kind \in EventKinds
      BY DEF EventKinds, Good
    <3>3. e \in Events /\ e.kind = kind /\ e.item = 0
      BY <1>1, <1>3, <1>4, <3>1, <3>2
    <3>. QED
      BY <1>5, <3>3 DEF Concludes
  <2>9. CASE /\ \A i \in Item : IsAdded(es, i) => IsDone(es, i)
             /\ \E val \in {<<>>, Mark(es)} : e = Event("completed", 0, val)
    <3>1. PICK val \in {<<>>, Mark(es)} : e = Event("completed", 0, val)
      BY <2>9
    <3>2. e \in Events /\ e.kind = "completed" /\ e.item = 0
      BY <1>1, <1>3, <1>4, <3>1 DEF EventKinds, Good
    <3>. QED
      BY <1>5, <2>9, <3>2 DEF Concludes
  <2>. QED
    BY <2>2, <2>3, <2>4, <2>5, <2>6, <2>7, <2>8, <2>9, <2>10
<1>6. ASSUME prov = "anthropic"
      PROVE  /\ e \in Events
             /\ \/ Speaks(e) \/ Opens(es, e) \/ Fills(es, e) \/ Passes(es, e) \/ Concludes(es, e)
                \/ Fails(e)
             /\ IF es = <<>> THEN e.kind \in {"message_start", "error"} ELSE e.kind # "message_start"
  <2>1. e \in AnthropicSends(es)
    BY <1>6 DEF Sends
  <2>2. CASE es = <<>>
    <3>1. PICK kind \in {"message_start", "error"} : e = Event(kind, 0, Mark(es))
      BY <2>1, <2>2 DEF AnthropicSends
    <3>2. kind \in EventKinds
      BY DEF EventKinds, Bad
    <3>3. e \in Events /\ e.kind = kind /\ e.item = 0
      BY <1>1, <1>3, <1>4, <3>1, <3>2
    <3>. QED
      BY <1>6, <2>2, <3>3 DEF Passes, Fails
  <2>3. CASE es # <<>>
    <3>1. \/ \E kind \in {"text", "reasoning", "noise", "message_delta", "error"} \cup Stops :
               e = Event(kind, 0, Mark(es))
          \/ \E i \in Item : IsNext(es, i) /\ e = Event("added", i, <<>>)
          \/ \E i \in Item : IsAdded(es, i) /\ e = Event("args", i, Mark(es))
      BY <2>1, <2>3 DEF AnthropicSends
    <3>2. CASE \E kind \in {"text", "reasoning", "noise", "message_delta", "error"} \cup Stops :
                 e = Event(kind, 0, Mark(es))
      <4>1. PICK kind \in {"text", "reasoning", "noise", "message_delta", "error"} \cup Stops :
                 e = Event(kind, 0, Mark(es))
        BY <3>2
      <4>2. kind \in EventKinds
        BY DEF EventKinds, Good, Bad
      <4>3. e \in Events /\ e.kind = kind /\ e.item = 0
        BY <1>1, <1>3, <1>4, <4>1, <4>2
      <4>4. kind # "message_start" /\ kind # "completed"
        BY DEF Stops
      <4>. QED
        BY <1>6, <2>3, <4>3, <4>4 DEF Speaks, Passes, Concludes, Fails
    <3>3. CASE \E i \in Item : IsNext(es, i) /\ e = Event("added", i, <<>>)
      <4>1. PICK i \in Item : IsNext(es, i) /\ e = Event("added", i, <<>>)
        BY <3>3
      <4>2. e \in Events /\ e.kind = "added" /\ e.item = i
        BY <1>1, <1>3, <1>4, <4>1 DEF EventKinds
      <4>. QED
        BY <2>3, <4>1, <4>2 DEF Opens
    <3>4. CASE \E i \in Item : IsAdded(es, i) /\ e = Event("args", i, Mark(es))
      <4>1. PICK i \in Item : IsAdded(es, i) /\ e = Event("args", i, Mark(es))
        BY <3>4
      <4>2. e \in Events /\ e.kind = "args" /\ e.item = i
        BY <1>1, <1>3, <1>4, <4>1 DEF EventKinds
      <4>. QED
        BY <1>6, <2>3, <4>1, <4>2 DEF Fills
    <3>. QED
      BY <3>1, <3>2, <3>3, <3>4
  <2>. QED
    BY <2>2, <2>3
<1>. QED
  BY <1>5, <1>6

(* The map of the translator: the calls in the order they were told of.      *)
Mapped(tr, es) ==
  /\ tr \in [slots : Seq(Item), prompt : Texts]
  /\ tr.slots = [k \in 1..NCalls(es) |-> k]

LEMMA SlotsRight ==
  ASSUME NEW tr \in [slots : Seq(Item), prompt : Texts], NEW n \in Nat, n + 1 <= MaxItems + 1,
         tr.slots = [k \in 1..n |-> k]
  PROVE  /\ \A i : Known(tr, i) <=> i \in 1..n
         /\ \A i \in 1..n : SlotOf(tr, i) = i - 1
         /\ Len(tr.slots) = n /\ (tr.slots = <<>> <=> n = 0)
         /\ n + 1 \in Item =>
              /\ WithSlot(tr, n + 1) \in [slots : Seq(Item), prompt : Texts]
              /\ WithSlot(tr, n + 1).slots = [k \in 1..(n + 1) |-> k]
              /\ WithSlot(tr, n + 1).prompt = tr.prompt
<1>1. tr.slots \in Seq(Item) /\ Len(tr.slots) = n /\ DOMAIN tr.slots = 1..n
      /\ \A k \in 1..n : tr.slots[k] = k
  BY LenProperties
<1>2. \A i : Known(tr, i) <=> i \in 1..n
  BY <1>1 DEF Known, Range
<1>3. \A i \in 1..n : SlotOf(tr, i) = i - 1
  <2>. TAKE i \in 1..n
  <2>. DEFINE P(k) == tr.slots[k] = i /\ \A j \in k + 1..Len(tr.slots) : tr.slots[j] # i
  <2>1. i \in DOMAIN tr.slots /\ P(i)
    BY <1>1
  <2>2. \A k \in DOMAIN tr.slots : P(k) => k = i
    BY <1>1
  <2>. HIDE DEF P
  <2>3. (CHOOSE k \in DOMAIN tr.slots : P(k)) = i
    BY <2>1, <2>2
  <2>. QED
    BY <2>3 DEF SlotOf, P
<1>4. tr.slots = <<>> <=> n = 0
  BY <1>1, EmptySeq
<1>5. ASSUME n + 1 \in Item
      PROVE  /\ WithSlot(tr, n + 1) \in [slots : Seq(Item), prompt : Texts]
             /\ WithSlot(tr, n + 1).slots = [k \in 1..(n + 1) |-> k]
             /\ WithSlot(tr, n + 1).prompt = tr.prompt
  <2>. DEFINE s == Append(tr.slots, n + 1)
  <2>1. s \in Seq(Item) /\ Len(s) = n + 1 /\ s[n + 1] = n + 1 /\ \A k \in 1..n : s[k] = k
    BY <1>1, <1>5, AppendProperties
  <2>2. WithSlot(tr, n + 1) = [tr EXCEPT !.slots = s]
    BY DEF WithSlot
  <2>. HIDE DEF s
  <2>3. s = [k \in 1..(n + 1) |-> k]
    <3>1. s = [k \in 1..(n + 1) |-> s[k]]
      BY <2>1
    <3>2. \A k \in 1..(n + 1) : s[k] = k
      BY <2>1
    <3>. QED
      BY <3>1, <3>2
  <2>. QED
    BY <2>1, <2>2, <2>3
<1>. QED
  BY <1>1, <1>2, <1>3, <1>4, <1>5

LEMMA CodexMakes ==
  ASSUME NEW tr, NEW e
  PROVE  LET i == e.item
             start == Delta("start", i - 1, <<i>>)
             args == Delta("args", i - 1, e.val)
             finish(reason) == IF e.val = <<>> THEN <<Delta(reason, 0, <<>>)>>
                               ELSE <<Delta("usage", 0, e.val), Delta(reason, 0, <<>>)>>
             new == ~Known(tr, i) /\ SlotOf(WithSlot(tr, i), i) = i - 1
             t == CodexOnEvent(tr, e)
         IN /\ e.kind \in {"text", "reasoning"} => t = Made(tr, <<Delta(e.kind, 0, e.val)>>)
            /\ e.kind = "added" /\ new => t = Made(WithSlot(tr, i), <<start>>)
            /\ e.kind = "args" /\ Known(tr, i) /\ SlotOf(tr, i) = i - 1 => t = Made(tr, <<args>>)
            /\ e.kind = "done" /\ Known(tr, i) => t = Made(tr, <<>>)
            /\ e.kind = "done" /\ new =>
                 t = Made(WithSlot(tr, i), IF e.val = <<>> THEN <<start>> ELSE <<start, args>>)
            /\ e.kind \in {"said", "noise"} => t = Made(tr, <<>>)
            /\ e.kind = "completed" =>
                 t = Made(tr, finish(IF tr.slots = <<>> THEN "stop" ELSE "tool_calls"))
            /\ e.kind = "length" => t = Made(tr, finish("length"))
            /\ e.kind = "filtered" => t = Made(tr, finish("content_filter"))
            /\ e.kind \in Bad => t = Made(tr, <<Delta("error", 0, e.val)>>)
<1>. DEFINE i == e.item
<1>1. ASSUME e.kind \in {"text", "reasoning"}
      PROVE  CodexOnEvent(tr, e) = Made(tr, <<Delta(e.kind, 0, e.val)>>)
  BY <1>1 DEF CodexOnEvent
<1>2. ASSUME e.kind = "added", ~Known(tr, i), SlotOf(WithSlot(tr, i), i) = i - 1
      PROVE  CodexOnEvent(tr, e) = Made(WithSlot(tr, i), <<Delta("start", i - 1, <<i>>)>>)
  BY <1>2 DEF CodexOnEvent
<1>3. ASSUME e.kind = "args", Known(tr, i), SlotOf(tr, i) = i - 1
      PROVE  CodexOnEvent(tr, e) = Made(tr, <<Delta("args", i - 1, e.val)>>)
  BY <1>3 DEF CodexOnEvent
<1>4. ASSUME e.kind = "done", Known(tr, i)
      PROVE  CodexOnEvent(tr, e) = Made(tr, <<>>)
  BY <1>4 DEF CodexOnEvent
<1>5. ASSUME e.kind = "done", ~Known(tr, i), SlotOf(WithSlot(tr, i), i) = i - 1
      PROVE  CodexOnEvent(tr, e) =
               Made(WithSlot(tr, i),
                    IF e.val = <<>> THEN <<Delta("start", i - 1, <<i>>)>>
                    ELSE <<Delta("start", i - 1, <<i>>), Delta("args", i - 1, e.val)>>)
  BY <1>5 DEF CodexOnEvent
<1>6. ASSUME e.kind \in {"said", "noise"}
      PROVE  CodexOnEvent(tr, e) = Made(tr, <<>>)
  BY <1>6 DEF CodexOnEvent
<1>7. ASSUME NEW reason, e.kind \in {"completed", "length", "filtered"},
             reason = IF e.kind = "completed" THEN IF tr.slots = <<>> THEN "stop" ELSE "tool_calls"
                      ELSE IF e.kind = "length" THEN "length" ELSE "content_filter"
      PROVE  CodexOnEvent(tr, e) =
               Made(tr, IF e.val = <<>> THEN <<Delta(reason, 0, <<>>)>>
                        ELSE <<Delta("usage", 0, e.val), Delta(reason, 0, <<>>)>>)
  BY <1>7 DEF CodexOnEvent
<1>8. ASSUME e.kind \in Bad
      PROVE  CodexOnEvent(tr, e) = Made(tr, <<Delta("error", 0, e.val)>>)
  BY <1>8 DEF CodexOnEvent, Bad
<1>. QED
  BY <1>1, <1>2, <1>3, <1>4, <1>5, <1>6, <1>7, <1>8

LEMMA AnthropicMakes ==
  ASSUME NEW tr, NEW e
  PROVE  LET i == e.item
             usage == Delta("usage", 0, tr.prompt \o e.val)
             t == AnthropicOnEvent(tr, e)
         IN /\ e.kind \in {"text", "reasoning"} => t = Made(tr, <<Delta(e.kind, 0, e.val)>>)
            /\ e.kind = "added" /\ Len(tr.slots) = i - 1 =>
                 t = Made(WithSlot(tr, i), <<Delta("start", i - 1, <<i>>)>>)
            /\ e.kind = "args" /\ Known(tr, i) /\ SlotOf(tr, i) = i - 1 =>
                 t = Made(tr, <<Delta("args", i - 1, e.val)>>)
            /\ e.kind = "noise" => t = Made(tr, <<>>)
            /\ e.kind = "message_start" => t = Made([tr EXCEPT !.prompt = e.val], <<>>)
            /\ e.kind = "message_delta" => t = Made(tr, <<usage>>)
            /\ e.kind \in Stops => t = Made(tr, <<usage, Delta(FinishReason(e.kind), 0, <<>>)>>)
            /\ e.kind = "error" => t = Made(tr, <<Delta("error", 0, e.val)>>)
<1>. DEFINE i == e.item
<1>1. ASSUME e.kind \in {"text", "reasoning"}
      PROVE  AnthropicOnEvent(tr, e) = Made(tr, <<Delta(e.kind, 0, e.val)>>)
  BY <1>1 DEF AnthropicOnEvent, Stops
<1>2. ASSUME e.kind = "added", Len(tr.slots) = i - 1
      PROVE  AnthropicOnEvent(tr, e) = Made(WithSlot(tr, i), <<Delta("start", i - 1, <<i>>)>>)
  BY <1>2 DEF AnthropicOnEvent, Stops
<1>3. ASSUME e.kind = "args", Known(tr, i), SlotOf(tr, i) = i - 1
      PROVE  AnthropicOnEvent(tr, e) = Made(tr, <<Delta("args", i - 1, e.val)>>)
  BY <1>3 DEF AnthropicOnEvent, Stops
<1>4. ASSUME e.kind = "noise"
      PROVE  AnthropicOnEvent(tr, e) = Made(tr, <<>>)
  BY <1>4 DEF AnthropicOnEvent, Stops
<1>5. ASSUME e.kind = "message_start"
      PROVE  AnthropicOnEvent(tr, e) = Made([tr EXCEPT !.prompt = e.val], <<>>)
  BY <1>5 DEF AnthropicOnEvent, Stops
<1>6. ASSUME e.kind = "message_delta"
      PROVE  AnthropicOnEvent(tr, e) = Made(tr, <<Delta("usage", 0, tr.prompt \o e.val)>>)
  BY <1>6 DEF AnthropicOnEvent, Stops
<1>7. ASSUME e.kind \in Stops
      PROVE  AnthropicOnEvent(tr, e) =
               Made(tr, <<Delta("usage", 0, tr.prompt \o e.val), Delta(FinishReason(e.kind), 0, <<>>)>>)
  BY <1>7 DEF AnthropicOnEvent, Stops
<1>8. ASSUME e.kind = "error"
      PROVE  AnthropicOnEvent(tr, e) = Made(tr, <<Delta("error", 0, e.val)>>)
  BY <1>8 DEF AnthropicOnEvent, Stops
<1>. QED
  BY <1>1, <1>2, <1>3, <1>4, <1>5, <1>6, <1>7, <1>8

(* The deltas of an event, and the map after it.                             *)
LEMMA Translated ==
  ASSUME NEW es \in Seq(Events), NEW e \in Sends(es), prov \in {"anthropic", "codex"},
         Numbered(es), NEW tr, Mapped(tr, es)
  PROVE  LET i == e.item
             t == OnEvent(tr, e)
             start == Delta("start", i - 1, <<i>>)
             args == Delta("args", i - 1, e.val)
             finish == Delta(FinishOf(Append(es, e)), 0, <<>>)
             usage == Delta("usage", 0, IF prov = "codex" THEN e.val ELSE tr.prompt \o e.val)
         IN /\ Mapped(t.tr, Append(es, e)) /\ Numbered(Append(es, e))
            /\ t.tr.prompt = IF e.kind = "message_start" THEN e.val ELSE tr.prompt
            /\ Speaks(e) => t.deltas = <<Delta(e.kind, 0, e.val)>>
            /\ Opens(es, e) => t.deltas = <<start>>
            /\ Fills(es, e) => t.deltas = <<args>>
            /\ Closes(es, e) => t.deltas = <<>>
            /\ Brings(es, e) => t.deltas = IF e.val = <<>> THEN <<start>> ELSE <<start, args>>
            /\ Passes(es, e) => t.deltas = IF e.kind = "message_delta" THEN <<usage>> ELSE <<>>
            /\ Concludes(es, e) =>
                 /\ FinishOf(Append(es, e)) \in Reasons
                 /\ t.deltas = IF prov = "codex" /\ e.val = <<>> THEN <<finish>> ELSE <<usage, finish>>
            /\ Fails(e) => t.deltas = <<Delta("error", 0, e.val)>>
<1>. DEFINE i == e.item
            n == NCalls(es)
            longer == Append(es, e)
            t == OnEvent(tr, e)
            start == Delta("start", i - 1, <<i>>)
            args == Delta("args", i - 1, e.val)
            finish == Delta(FinishOf(longer), 0, <<>>)
            usage == Delta("usage", 0, IF prov = "codex" THEN e.val ELSE tr.prompt \o e.val)
<1>1. /\ e \in Events
      /\ \/ Speaks(e) \/ Opens(es, e) \/ Fills(es, e) \/ Closes(es, e) \/ Brings(es, e)
         \/ Passes(es, e) \/ Concludes(es, e) \/ Fails(e)
  BY SendsCases
<1>2. /\ n \in Nat /\ Calls(es) = 1..n /\ n <= MaxItems /\ n + 1 <= MaxItems + 1
      /\ e.val \in Texts /\ 0 \notin Item
  <2>1. n \in Nat /\ Calls(es) = 1..n /\ n <= MaxItems
    BY ToolsType DEF Numbered
  <2>2. e.val \in Texts /\ 0 \notin Item
    BY <1>1, ChatAssumption DEF Events, Item
  <2>. HIDE DEF n
  <2>. QED
    BY <2>1, <2>2, ChatAssumption
<1>3. /\ \A j : Known(tr, j) <=> j \in 1..n
      /\ \A j \in 1..n : SlotOf(tr, j) = j - 1
      /\ Len(tr.slots) = n /\ (tr.slots = <<>> <=> n = 0)
  BY <1>2, SlotsRight DEF Mapped
<1>4. tr \in [slots : Seq(Item), prompt : Texts]
  BY DEF Mapped
<1>5. ASSUME i = 0 \/ (i \in Item /\ IsAdded(es, i))
      PROVE  NCalls(longer) = n /\ Numbered(longer) /\ Calls(longer) = Calls(es) /\ (i # 0 => i \in 1..n)
  <2>1. i = 0 \/ i \in Calls(es)
    BY <1>2, <1>5, ItemUnknown
  <2>2. Calls(longer) = Calls(es) /\ NCalls(longer) = n
    BY <1>1, <2>1, NumberedAppend
  <2>. QED
    BY <1>2, <2>1, <2>2 DEF Numbered
<1>6. ASSUME i \in Item, IsNext(es, i)
      PROVE  /\ i = n + 1 /\ NCalls(longer) = n + 1 /\ Numbered(longer) /\ ~Known(tr, i)
             /\ Mapped(WithSlot(tr, i), longer) /\ WithSlot(tr, i).prompt = tr.prompt
             /\ SlotOf(WithSlot(tr, i), i) = i - 1
  <2>1. i = n + 1 /\ NCalls(longer) = n + 1 /\ Calls(longer) = 1..(n + 1)
    BY <1>1, <1>2, <1>6, NumberedAppend
  <2>2. /\ WithSlot(tr, n + 1) \in [slots : Seq(Item), prompt : Texts]
        /\ WithSlot(tr, n + 1).slots = [k \in 1..(n + 1) |-> k]
        /\ WithSlot(tr, n + 1).prompt = tr.prompt
    BY <1>2, <1>6, <2>1, SlotsRight DEF Mapped
  <2>3. SlotOf(WithSlot(tr, n + 1), n + 1) = n
    <3>1. n + 1 \in Nat /\ (n + 1) + 1 <= MaxItems + 1 /\ n + 1 \in 1..(n + 1) /\ (n + 1) - 1 = n
      BY <1>2, <1>6, <2>1, ChatAssumption DEF Item
    <3>. DEFINE w == WithSlot(tr, n + 1)
    <3>2. w \in [slots : Seq(Item), prompt : Texts] /\ w.slots = [k \in 1..(n + 1) |-> k]
      BY <2>2
    <3>. HIDE DEF w, n
    <3>. QED
      BY <3>1, <3>2, SlotsRight DEF w
  <2>. HIDE DEF longer, n
  <2>. QED
    BY <1>2, <1>3, <2>1, <2>2, <2>3 DEF Mapped, Numbered
<1>7. i \in Item /\ IsAdded(es, i) => Known(tr, i) /\ SlotOf(tr, i) = i - 1
  BY <1>2, <1>3, <1>5
<1>8. i = 0 \/ (i \in Item /\ IsAdded(es, i)) => Mapped(tr, longer)
  BY <1>5 DEF Mapped
<1>. HIDE DEF longer
<1>9. t = IF prov = "codex" THEN CodexOnEvent(tr, e) ELSE AnthropicOnEvent(tr, e)
  BY DEF OnEvent
<1>10. \A x, ds : Made(x, ds).tr = x /\ Made(x, ds).deltas = ds
  BY DEF Made
<1>. HIDE DEF i, n, t
<1>11. ASSUME Speaks(e) PROVE t = Made(tr, <<Delta(e.kind, 0, e.val)>>)
  <2>1. CASE prov = "codex"
    BY <1>9, <1>11, <2>1, CodexMakes DEF Speaks
  <2>2. CASE prov # "codex"
    BY <1>9, <1>11, <2>2, AnthropicMakes DEF Speaks
  <2>. QED
    BY <2>1, <2>2
<1>12. ASSUME Fails(e) PROVE t = Made(tr, <<Delta("error", 0, e.val)>>)
  <2>1. CASE prov = "codex"
    BY <1>9, <1>12, <2>1, CodexMakes DEF Fails
  <2>2. CASE prov # "codex"
    BY <1>9, <1>12, <2>2, AnthropicMakes DEF Fails
  <2>. QED
    BY <2>1, <2>2
<1>13. ASSUME Opens(es, e) PROVE t = Made(WithSlot(tr, i), <<start>>)
  <2>1. i \in Item /\ IsNext(es, i) /\ e.kind = "added" /\ e.item = i
    BY <1>13 DEF Opens, i
  <2>2. Len(tr.slots) = i - 1 /\ ~Known(tr, i) /\ SlotOf(WithSlot(tr, i), i) = i - 1
    BY <1>2, <1>3, <1>6, <2>1
  <2>3. CASE prov = "codex"
    BY <1>9, <2>1, <2>2, <2>3, CodexMakes
  <2>4. CASE prov # "codex"
    BY <1>9, <2>1, <2>2, <2>4, AnthropicMakes
  <2>. QED
    BY <2>3, <2>4
<1>14. ASSUME Fills(es, e) PROVE t = Made(tr, <<args>>)
  <2>1. Known(tr, i) /\ SlotOf(tr, i) = i - 1 /\ e.kind = "args" /\ e.item = i
    BY <1>7, <1>14 DEF Fills, i
  <2>3. CASE prov = "codex"
    BY <1>9, <2>1, <2>3, CodexMakes
  <2>4. CASE prov # "codex"
    BY <1>9, <2>1, <2>4, AnthropicMakes
  <2>. QED
    BY <2>3, <2>4
<1>15. ASSUME Closes(es, e) PROVE t = Made(tr, <<>>)
  <2>1. Known(tr, i) /\ e.kind = "done" /\ e.item = i /\ prov = "codex"
    BY <1>7, <1>15 DEF Closes, i
  <2>. QED
    BY <1>9, <2>1, CodexMakes
<1>16. ASSUME Brings(es, e)
       PROVE  t = Made(WithSlot(tr, i), IF e.val = <<>> THEN <<start>> ELSE <<start, args>>)
  <2>1. i \in Item /\ IsNext(es, i) /\ e.kind = "done" /\ e.item = i /\ prov = "codex"
    BY <1>16 DEF Brings, i
  <2>2. ~Known(tr, i) /\ SlotOf(WithSlot(tr, i), i) = i - 1
    BY <1>6, <2>1
  <2>. QED
    BY <1>9, <2>1, <2>2, CodexMakes
<1>17. ASSUME Passes(es, e)
       PROVE  t = Made(IF e.kind = "message_start" THEN [tr EXCEPT !.prompt = e.val] ELSE tr,
                       IF e.kind = "message_delta" THEN <<usage>> ELSE <<>>)
  <2>1. CASE prov = "codex"
    BY <1>9, <1>17, <2>1, CodexMakes DEF Passes
  <2>2. CASE prov # "codex"
    BY <1>9, <1>17, <2>2, AnthropicMakes DEF Passes
  <2>. QED
    BY <2>1, <2>2
<1>18. ASSUME Concludes(es, e)
       PROVE  /\ FinishOf(longer) \in Reasons
              /\ t = Made(tr, IF prov = "codex" /\ e.val = <<>> THEN <<finish>> ELSE <<usage, finish>>)
  <2>1. LastOf(longer) = e /\ Calls(longer) = 1..n
    BY <1>1, <1>2, <1>5, <1>18, FinishAppend DEF Concludes, longer, i
  <2>2. CASE prov = "codex"
    <3>1. FinishOf(longer) = IF e.kind = "completed" THEN IF tr.slots = <<>> THEN "stop" ELSE "tool_calls"
                             ELSE IF e.kind = "length" THEN "length" ELSE "content_filter"
      <4>1. Calls(longer) = {} <=> tr.slots = <<>>
        BY <1>2, <1>3, <2>1
      <4>. QED
        BY <1>18, <2>1, <2>2, <4>1 DEF FinishOf, Concludes
    <3>2. FinishOf(longer) \in Reasons
      BY <3>1 DEF Reasons
    <3>3. ASSUME NEW r, r = IF e.kind = "completed" THEN IF tr.slots = <<>> THEN "stop" ELSE "tool_calls"
                            ELSE IF e.kind = "length" THEN "length" ELSE "content_filter"
          PROVE  t = Made(tr, IF e.val = <<>> THEN <<Delta(r, 0, <<>>)>>
                              ELSE <<Delta("usage", 0, e.val), Delta(r, 0, <<>>)>>)
      <4>1. e.kind \in {"completed", "length", "filtered"} /\ t = CodexOnEvent(tr, e)
        BY <1>9, <1>18, <2>2 DEF Concludes
      <4>2. CASE e.kind = "completed"
        BY <3>3, <4>1, <4>2, CodexMakes
      <4>3. CASE e.kind = "length"
        BY <3>3, <4>1, <4>3, CodexMakes
      <4>4. CASE e.kind = "filtered"
        BY <3>3, <4>1, <4>4, CodexMakes
      <4>. QED
        BY <4>1, <4>2, <4>3, <4>4
    <3>4. t = Made(tr, IF e.val = <<>> THEN <<finish>> ELSE <<Delta("usage", 0, e.val), finish>>)
      BY <3>1, <3>3
    <3>. QED
      BY <2>2, <3>2, <3>4
  <2>3. CASE prov # "codex"
    <3>1. e.kind \in Stops
      BY <1>18, <2>3 DEF Concludes
    <3>2. FinishOf(longer) = FinishReason(e.kind)
      BY <2>1, <3>1 DEF FinishOf, FinishReason, Stops
    <3>3. FinishReason(e.kind) \in Reasons
      BY <3>1 DEF FinishReason, Reasons, Stops
    <3>. QED
      BY <1>9, <2>3, <3>1, <3>2, <3>3, AnthropicMakes
  <2>. QED
    BY <2>2, <2>3
<1>19. /\ Mapped(t.tr, longer) /\ Numbered(longer)
       /\ t.tr.prompt = IF e.kind = "message_start" THEN e.val ELSE tr.prompt
  <2>1. CASE Speaks(e) \/ Concludes(es, e) \/ Fails(e)
    <3>1. t.tr = tr
      BY <1>10, <1>11, <1>12, <1>18, <2>1
    <3>2. i = 0 /\ e.kind # "message_start"
      BY <2>1 DEF Speaks, Concludes, Fails, Stops, Bad, i
    <3>. QED
      BY <1>5, <1>8, <3>1, <3>2
  <2>2. CASE Fills(es, e) \/ Closes(es, e)
    <3>1. t.tr = tr
      BY <1>10, <1>14, <1>15, <2>2
    <3>2. i \in Item /\ IsAdded(es, i) /\ e.kind # "message_start"
      BY <2>2 DEF Fills, Closes, i
    <3>. QED
      BY <1>5, <1>8, <3>1, <3>2
  <2>3. CASE Opens(es, e) \/ Brings(es, e)
    <3>1. t.tr = WithSlot(tr, i)
      BY <1>10, <1>13, <1>16, <2>3
    <3>2. i \in Item /\ IsNext(es, i) /\ e.kind # "message_start"
      BY <2>3 DEF Opens, Brings, i
    <3>. QED
      BY <1>6, <3>1, <3>2
  <2>4. CASE Passes(es, e)
    <3>1. t.tr = IF e.kind = "message_start" THEN [tr EXCEPT !.prompt = e.val] ELSE tr
      BY <1>10, <1>17, <2>4
    <3>2. i = 0
      BY <2>4 DEF Passes, i
    <3>3. Mapped(tr, longer) /\ Numbered(longer)
      BY <1>5, <1>8, <3>2
    <3>4. Mapped([tr EXCEPT !.prompt = e.val], longer) /\ [tr EXCEPT !.prompt = e.val].prompt = e.val
      BY <1>2, <3>3 DEF Mapped
    <3>. QED
      BY <3>1, <3>3, <3>4
  <2>. QED
    BY <1>1, <2>1, <2>2, <2>3, <2>4
<1>. HIDE DEF usage, start, args, finish
<1>20. /\ Speaks(e) => t.deltas = <<Delta(e.kind, 0, e.val)>>
       /\ Opens(es, e) => t.deltas = <<start>>
       /\ Fills(es, e) => t.deltas = <<args>>
       /\ Closes(es, e) => t.deltas = <<>>
       /\ Brings(es, e) => t.deltas = IF e.val = <<>> THEN <<start>> ELSE <<start, args>>
       /\ Passes(es, e) => t.deltas = IF e.kind = "message_delta" THEN <<usage>> ELSE <<>>
       /\ Fails(e) => t.deltas = <<Delta("error", 0, e.val)>>
  BY <1>10, <1>11, <1>12, <1>13, <1>14, <1>15, <1>16, <1>17
<1>21. Concludes(es, e) =>
         /\ FinishOf(longer) \in Reasons
         /\ t.deltas = IF prov = "codex" /\ e.val = <<>> THEN <<finish>> ELSE <<usage, finish>>
  BY <1>10, <1>18
<1>. QED
  BY <1>19, <1>20, <1>21 DEF t, usage, start, args, finish, i, longer

--------------------------------------------------------------------------------
(* What a delta does to a conversation.                                      *)

Starts(out) == Cardinality(OfKind(out, {"start"}))
Ordered(out, d) ==
  /\ d.kind = "start" => d.at = Starts(out)
  /\ d.kind = "args" => d.at < Starts(out)
Announced(out) ==
  \A k \in DOMAIN out :
    LET before == Cardinality(OfKind(out, {"start"}) \cap 1..k - 1)
    IN /\ out[k].kind = "start" => out[k].at = before
       /\ out[k].kind = "args" => out[k].at < before

LEMMA OutAppend ==
  ASSUME NEW out \in Seq(Frames), NEW d \in Frames, Announced(out), Ordered(out, d)
  PROVE  /\ Append(out, d) \in Seq(Frames) /\ Announced(Append(out, d))
         /\ Starts(out) \in Nat
         /\ Starts(Append(out, d)) = IF d.kind = "start" THEN Starts(out) + 1 ELSE Starts(out)
         /\ Len(out) \in Nat /\ Len(Append(out, d)) = Len(out) + 1
         /\ \A kinds : OfKind(Append(out, d), kinds) =
                         OfKind(out, kinds) \cup IF d.kind \in kinds THEN {Len(out) + 1} ELSE {}
<1>. DEFINE n == Len(out)
            more == Append(out, d)
            S(x) == OfKind(x, {"start"})
<1>1. /\ n \in Nat /\ more \in Seq(Frames) /\ Len(more) = n + 1 /\ more[n + 1] = d
      /\ \A k \in 1..n : more[k] = out[k]
      /\ \A kinds : /\ OfKind(out, kinds) \subseteq 1..n
                    /\ OfKind(more, kinds) =
                         OfKind(out, kinds) \cup IF d.kind \in kinds THEN {n + 1} ELSE {}
  BY AppendPlaces
<1>2. DOMAIN out = 1..n /\ DOMAIN more = 1..(n + 1)
  <2>. HIDE DEF more
  <2>. QED
    BY <1>1, LenProperties
<1>3. /\ S(out) \subseteq 1..n /\ IsFiniteSet(S(out))
      /\ S(more) = S(out) \cup IF d.kind = "start" THEN {n + 1} ELSE {}
  <2>1. S(out) \subseteq 1..n /\ S(more) = S(out) \cup IF d.kind = "start" THEN {n + 1} ELSE {}
    BY <1>1
  <2>2. IsFiniteSet(1..n)
    BY <1>1, FS_Interval
  <2>. QED
    BY <2>1, <2>2, FS_Subset
<1>. HIDE DEF n, more, S
<1>4. Cardinality(S(out)) \in Nat
  BY <1>3, FS_CardinalityType
<1>5. Cardinality(S(more)) = IF d.kind = "start" THEN Cardinality(S(out)) + 1 ELSE Cardinality(S(out))
  <2>1. n + 1 \notin S(out)
    BY <1>1, <1>3
  <2>2. CASE d.kind = "start"
    <3>1. S(more) = S(out) \cup {n + 1}
      BY <1>3, <2>2
    <3>. QED
      BY <1>3, <2>1, <2>2, <3>1, FS_AddElement
  <2>3. CASE d.kind # "start"
    BY <1>3, <2>3
  <2>. QED
    BY <2>2, <2>3
<1>6. Announced(more)
  <2>. SUFFICES ASSUME NEW k \in 1..(n + 1)
                PROVE  /\ more[k].kind = "start" => more[k].at = Cardinality(S(more) \cap 1..k - 1)
                       /\ more[k].kind = "args" => more[k].at < Cardinality(S(more) \cap 1..k - 1)
    BY <1>2 DEF Announced, S
  <2>1. CASE k = n + 1
    <3>1. S(more) \cap 1..k - 1 = S(out)
      BY <1>1, <1>3, <2>1
    <3>. QED
      BY <1>1, <2>1, <3>1 DEF Ordered, Starts, S
  <2>2. CASE k # n + 1
    <3>1. k \in 1..n /\ S(more) \cap 1..k - 1 = S(out) \cap 1..k - 1
      BY <1>1, <1>3, <2>2
    <3>2. /\ out[k].kind = "start" => out[k].at = Cardinality(S(out) \cap 1..k - 1)
          /\ out[k].kind = "args" => out[k].at < Cardinality(S(out) \cap 1..k - 1)
      BY <1>2, <3>1 DEF Announced, S
    <3>. QED
      BY <1>1, <3>1, <3>2
  <2>. QED
    BY <2>1, <2>2
<1>. QED
  BY <1>1, <1>4, <1>5, <1>6 DEF Starts, S, n, more

LEMMA OutNone ==
  /\ <<>> \in Seq(Frames) /\ Announced(<<>>) /\ Starts(<<>>) = 0
  /\ <<Role>> \in Seq(Frames) /\ Announced(<<Role>>) /\ Starts(<<Role>>) = 0
  /\ OfKind(<<>>, {"error"}) = {} /\ OfKind(<<Role>>, {"error"}) = {}
<1>1. Role \in Frames /\ Role.kind = "role"
  BY DEF Role, Delta, Frames, Deltas, DeltaKinds, Texts
<1>2. \A kinds : OfKind(<<>>, kinds) = {}
  BY DEF OfKind
<1>3. <<>> \in Seq(Frames) /\ Announced(<<>>) /\ Starts(<<>>) = 0
  BY <1>2, FS_EmptySet DEF Announced, Starts
<1>4. Ordered(<<>>, Role) /\ Append(<<>>, Role) = <<Role>> /\ Len(<<>>) = 0
  BY <1>1 DEF Ordered
<1>5. /\ <<Role>> \in Seq(Frames) /\ Announced(<<Role>>) /\ Starts(<<Role>>) = 0
      /\ OfKind(<<Role>>, {"error"}) = OfKind(<<>>, {"error"})
  <2>. DEFINE r == Role
  <2>. HIDE DEF r
  <2>1. r \in Frames /\ r.kind = "role" /\ Ordered(<<>>, r) /\ Append(<<>>, r) = <<r>>
    BY <1>1, <1>4 DEF r
  <2>2. /\ Append(<<>>, r) \in Seq(Frames) /\ Announced(Append(<<>>, r))
        /\ Starts(Append(<<>>, r)) = 0
        /\ \A kinds : OfKind(Append(<<>>, r), kinds) =
                         OfKind(<<>>, kinds) \cup IF r.kind \in kinds THEN {Len(<<>>) + 1} ELSE {}
    BY <1>3, <2>1, OutAppend
  <2>. QED
    BY <2>1, <2>2 DEF r
<1>. QED
  BY <1>2, <1>3, <1>5

(* A conversation, and the answer that its client has so far.                *)
Typed(c) ==
  /\ c \in Convs /\ c.out \in Seq(Frames) /\ Len(c.tr.slots) <= MaxItems
  /\ mode = "stream" => c.msg = NoMsg
  /\ mode = "aggregate" => c.out = <<>>
  /\ Announced(c.out)
Now(c) == IF mode = "stream" THEN Collected(c.out) ELSE c.msg
Errors(c) == OfKind(c.out, {"error"})

LEMMA ConvFields ==
  ASSUME NEW c \in Convs
  PROVE  /\ c.tr \in [slots : Seq(Item), prompt : Texts] /\ c.usage \in Texts
         /\ c.out \in Seq(Deltas) /\ c.msg \in Messages /\ c.items \in Seq(Events)
         /\ c.finished \in BOOLEAN /\ c.failed \in BOOLEAN
         /\ c.buf \in Seq([event : Events, last : BOOLEAN])
         /\ \A x \in Seq(Deltas) : [c EXCEPT !.out = x] \in Convs
         /\ \A x \in Texts : [c EXCEPT !.usage = x] \in Convs
         /\ \A x \in [slots : Seq(Item), prompt : Texts] : [c EXCEPT !.tr = x] \in Convs
         /\ \A x \in Seq([event : Events, last : BOOLEAN]) : [c EXCEPT !.buf = x] \in Convs
         /\ [c EXCEPT !.finished = TRUE] \in Convs /\ [c EXCEPT !.failed = TRUE] \in Convs
         /\ \A x \in Messages, u \in Texts, f \in BOOLEAN, g \in BOOLEAN :
              [c EXCEPT !.msg = x, !.usage = u, !.finished = f, !.failed = g] \in Convs
         /\ \A x \in Seq(Events), f \in BOOLEAN, g \in BOOLEAN :
              [c EXCEPT !.items = x, !.finished = f, !.failed = g] \in Convs
  BY DEF Convs

(* The frame of a delta is sent to the client of a stream.                   *)
LEMMA YieldTyped ==
  ASSUME NEW c, Typed(c), NEW d \in Frames, Ordered(c.out, d), mode # "aggregate"
  PROVE  /\ Typed(Yield(c, d)) /\ Yield(c, d).out = Append(c.out, d)
         /\ Yield(c, d).buf = c.buf /\ Yield(c, d).tr = c.tr /\ Yield(c, d).items = c.items
         /\ Yield(c, d).usage = c.usage /\ Yield(c, d).msg = c.msg
         /\ Yield(c, d).finished = c.finished /\ Yield(c, d).failed = c.failed
<1>. DEFINE x == Append(c.out, d)
<1>1. c \in Convs /\ c.out \in Seq(Frames) /\ Announced(c.out)
  BY DEF Typed
<1>2. x \in Seq(Frames) /\ Announced(x)
  BY <1>1, OutAppend
<1>3. Frames \subseteq Deltas
  BY DEF Frames
<1>. HIDE DEF x
<1>4. x \in Seq(Deltas)
  BY <1>2, <1>3
<1>5. [c EXCEPT !.out = x] \in Convs
  BY <1>1, <1>4, ConvFields
<1>6. Yield(c, d) = [c EXCEPT !.out = x]
  BY DEF Yield, x
<1>7. /\ [c EXCEPT !.out = x].out = x /\ [c EXCEPT !.out = x].buf = c.buf
      /\ [c EXCEPT !.out = x].tr = c.tr /\ [c EXCEPT !.out = x].items = c.items
      /\ [c EXCEPT !.out = x].usage = c.usage /\ [c EXCEPT !.out = x].msg = c.msg
      /\ [c EXCEPT !.out = x].finished = c.finished /\ [c EXCEPT !.out = x].failed = c.failed
  BY <1>1 DEF Convs
<1>. QED
  BY <1>2, <1>5, <1>6, <1>7 DEF Typed, x

(* The marks of the end of a conversation change nothing else in it.         *)
LEMMA FinishedTyped ==
  ASSUME NEW c, Typed(c), NEW a, a = [c EXCEPT !.finished = TRUE]
  PROVE  /\ Typed(a) /\ a.finished /\ a.failed = c.failed /\ a.out = c.out /\ a.buf = c.buf /\ a.tr = c.tr
         /\ a.items = c.items /\ a.usage = c.usage /\ a.msg = c.msg
<1>1. c \in Convs
  BY DEF Typed
<1>2. a \in Convs
  BY <1>1, ConvFields
<1>3. /\ a.finished = TRUE /\ a.failed = c.failed /\ a.out = c.out /\ a.buf = c.buf /\ a.tr = c.tr
      /\ a.items = c.items /\ a.usage = c.usage /\ a.msg = c.msg
  BY <1>1 DEF Convs
<1>4. Typed(a)
  BY <1>2, <1>3 DEF Typed
<1>. QED
  BY <1>3, <1>4

LEMMA FailedTyped ==
  ASSUME NEW c, Typed(c), NEW a, a = [c EXCEPT !.failed = TRUE]
  PROVE  /\ Typed(a) /\ a.failed /\ a.finished = c.finished /\ a.out = c.out /\ a.buf = c.buf /\ a.tr = c.tr
         /\ a.items = c.items /\ a.usage = c.usage /\ a.msg = c.msg
<1>1. c \in Convs
  BY DEF Typed
<1>2. a \in Convs
  BY <1>1, ConvFields
<1>3. /\ a.failed = TRUE /\ a.finished = c.finished /\ a.out = c.out /\ a.buf = c.buf /\ a.tr = c.tr
      /\ a.items = c.items /\ a.usage = c.usage /\ a.msg = c.msg
  BY <1>1 DEF Convs
<1>4. Typed(a)
  BY <1>2, <1>3 DEF Typed
<1>. QED
  BY <1>3, <1>4

(* Nor does another value of one of these.                                  *)
LEMMA ChangedTyped ==
  ASSUME NEW c, Typed(c)
  PROVE  /\ \A u \in Texts : LET a == [c EXCEPT !.usage = u]
            IN /\ Typed(a) /\ a.usage = u /\ a.finished = c.finished /\ a.failed = c.failed
               /\ a.buf = c.buf /\ a.tr = c.tr /\ a.items = c.items /\ a.out = c.out
               /\ a.msg = c.msg
         /\ \A tr \in [slots : Seq(Item), prompt : Texts] : LET a == [c EXCEPT !.tr = tr]
            IN Len(tr.slots) <= MaxItems =>
               /\ Typed(a) /\ a.tr = tr /\ a.finished = c.finished /\ a.failed = c.failed
               /\ a.buf = c.buf /\ a.usage = c.usage /\ a.items = c.items /\ a.out = c.out
               /\ a.msg = c.msg
         /\ \A b \in Seq([event : Events, last : BOOLEAN]) : LET a == [c EXCEPT !.buf = b]
            IN /\ Typed(a) /\ a.buf = b /\ a.finished = c.finished /\ a.failed = c.failed
               /\ a.tr = c.tr /\ a.usage = c.usage /\ a.items = c.items /\ a.out = c.out
               /\ a.msg = c.msg
<1>1. c \in Convs
  BY DEF Typed
<1>2. /\ \A u \in Texts : [c EXCEPT !.usage = u] \in Convs
      /\ \A tr \in [slots : Seq(Item), prompt : Texts] : [c EXCEPT !.tr = tr] \in Convs
      /\ \A b \in Seq([event : Events, last : BOOLEAN]) : [c EXCEPT !.buf = b] \in Convs
  BY <1>1, ConvFields
<1>5. ASSUME NEW u \in Texts
      PROVE  LET a == [c EXCEPT !.usage = u]
      IN /\ a.usage = u /\ a.finished = c.finished /\ a.failed = c.failed
         /\ a.buf = c.buf /\ a.tr = c.tr /\ a.items = c.items /\ a.out = c.out
         /\ a.msg = c.msg
  BY <1>1 DEF Convs
<1>6. ASSUME NEW tr \in [slots : Seq(Item), prompt : Texts]
      PROVE  LET a == [c EXCEPT !.tr = tr]
      IN /\ a.tr = tr /\ a.finished = c.finished /\ a.failed = c.failed
         /\ a.buf = c.buf /\ a.usage = c.usage /\ a.items = c.items /\ a.out = c.out
         /\ a.msg = c.msg
  BY <1>1 DEF Convs
<1>7. ASSUME NEW b \in Seq([event : Events, last : BOOLEAN])
      PROVE  LET a == [c EXCEPT !.buf = b]
      IN /\ a.buf = b /\ a.finished = c.finished /\ a.failed = c.failed
         /\ a.tr = c.tr /\ a.usage = c.usage /\ a.items = c.items /\ a.out = c.out
         /\ a.msg = c.msg
  BY <1>1 DEF Convs
<1>8. ASSUME NEW a \in Convs, a.out = c.out, a.msg = c.msg, Len(a.tr.slots) <= MaxItems
      PROVE  Typed(a)
  BY <1>8 DEF Typed
<1>9. Len(c.tr.slots) <= MaxItems
  BY DEF Typed
<1>11. \A u \in Texts : Typed([c EXCEPT !.usage = u])
  BY <1>2, <1>5, <1>8, <1>9
<1>12. \A b \in Seq([event : Events, last : BOOLEAN]) : Typed([c EXCEPT !.buf = b])
  BY <1>2, <1>7, <1>8, <1>9
<1>13. ASSUME NEW tr \in [slots : Seq(Item), prompt : Texts], Len(tr.slots) <= MaxItems
       PROVE  Typed([c EXCEPT !.tr = tr])
  BY <1>2, <1>6, <1>8, <1>13
<1>. QED
  BY <1>5, <1>6, <1>7, <1>11, <1>12, <1>13

(* What one delta does, in either loop that takes deltas.                    *)
DeltaDone(c, d, a) ==
  /\ Typed(a) /\ a.buf = c.buf /\ a.tr = c.tr /\ a.items = c.items
  /\ Now(a) = Collect(Now(c), d)
  /\ a.usage = IF d.kind = "usage" THEN d.val ELSE c.usage
  /\ a.finished <=> d.kind \in Reasons
  /\ a.failed <=> d.kind = "error"
  /\ mode = "stream" =>
       /\ Starts(c.out) \in Nat
       /\ Starts(a.out) = IF d.kind = "start" THEN Starts(c.out) + 1 ELSE Starts(c.out)
       /\ Errors(a) = Errors(c) \cup IF d.kind = "error" THEN {Len(a.out)} ELSE {}

LEMMA StreamStep ==
  ASSUME NEW c, Typed(c), ~c.finished, ~c.failed, mode = "stream",
         NEW d \in Frames, Ordered(c.out, d)
  PROVE  DeltaDone(c, d, StreamDelta(c, d))
<1>. DEFINE a == StreamDelta(c, d)
            y == Yield(c, d)
<1>1. c \in Convs /\ c.out \in Seq(Frames) /\ Announced(c.out) /\ c.finished = FALSE /\ c.failed = FALSE
  BY ConvFields DEF Typed
<1>2. d.kind \in DeltaKinds /\ d.val \in Texts
  BY DEF Frames, Deltas
<1>3. /\ Typed(y) /\ y.out = Append(c.out, d) /\ y.buf = c.buf /\ y.tr = c.tr
      /\ y.items = c.items /\ y.usage = c.usage /\ y.msg = c.msg
      /\ y.finished = FALSE /\ y.failed = FALSE
  BY <1>1, YieldTyped
<1>4. /\ Starts(c.out) \in Nat /\ Len(c.out) \in Nat
      /\ Starts(y.out) = IF d.kind = "start" THEN Starts(c.out) + 1 ELSE Starts(c.out)
      /\ Len(y.out) = Len(c.out) + 1
      /\ Errors(y) = Errors(c) \cup IF d.kind = "error" THEN {Len(y.out)} ELSE {}
  <2>1. /\ Starts(c.out) \in Nat /\ Len(c.out) \in Nat
        /\ Starts(y.out) = IF d.kind = "start" THEN Starts(c.out) + 1 ELSE Starts(c.out)
        /\ Len(y.out) = Len(c.out) + 1
        /\ \A kinds : OfKind(y.out, kinds) =
                        OfKind(c.out, kinds) \cup IF d.kind \in kinds THEN {Len(c.out) + 1} ELSE {}
    BY <1>1, <1>3, OutAppend
  <2>2. Errors(y) = Errors(c) \cup IF d.kind \in {"error"} THEN {Len(y.out)} ELSE {}
    BY <2>1 DEF Errors
  <2>. QED
    BY <2>1, <2>2
<1>5. Now(y) = Collect(Now(c), d)
  BY <1>1, <1>3, CollectedAppend DEF Now
<1>. HIDE DEF y
<1>6. CASE d.kind = "usage"
  <2>1. a = [c EXCEPT !.usage = d.val]
    BY <1>6 DEF StreamDelta, Reasons
  <2>. HIDE DEF a
  <2>2. /\ Typed(a) /\ a.usage = d.val /\ ~a.finished /\ ~a.failed
        /\ a.buf = c.buf /\ a.tr = c.tr /\ a.items = c.items /\ a.out = c.out
    BY <1>1, <1>2, <2>1, ChangedTyped
  <2>3. Collect(Now(c), d) = Now(c)
    BY <1>6 DEF Collect, Reasons
  <2>4. "usage" \notin Reasons
    BY DEF Reasons
  <2>5. Now(a) = Now(c) /\ Errors(a) = Errors(c) /\ Starts(a.out) = Starts(c.out)
    BY <2>2 DEF Now, Errors
  <2>6. DeltaDone(c, d, a)
    BY <1>4, <1>6, <2>2, <2>3, <2>4, <2>5 DEF DeltaDone
  <2>. QED
    BY <2>6 DEF a
<1>7. CASE d.kind \in Reasons
  <2>0. d.kind \notin {"usage", "start", "error"}
    BY <1>7 DEF Reasons
  <2>1. a = [y EXCEPT !.finished = TRUE]
    BY <1>1, <1>7, <2>0 DEF StreamDelta, y
  <2>. HIDE DEF a
  <2>2. /\ Typed(a) /\ a.usage = c.usage /\ a.finished /\ ~a.failed
        /\ a.buf = c.buf /\ a.tr = c.tr /\ a.items = c.items /\ a.out = y.out
    BY <1>3, <2>1, FinishedTyped
  <2>5. Now(a) = Now(y) /\ Errors(a) = Errors(y) /\ Starts(a.out) = Starts(y.out)
    BY <2>2 DEF Now, Errors
  <2>6. DeltaDone(c, d, a)
    BY <1>4, <1>5, <1>7, <2>0, <2>2, <2>5 DEF DeltaDone
  <2>. QED
    BY <2>6 DEF a
<1>8. CASE d.kind = "error"
  <2>0. d.kind \notin Reasons
    BY <1>8 DEF Reasons
  <2>1. a = [y EXCEPT !.failed = TRUE]
    BY <1>8, <2>0 DEF StreamDelta, y
  <2>. HIDE DEF a
  <2>2. /\ Typed(a) /\ a.usage = c.usage /\ ~a.finished /\ a.failed
        /\ a.buf = c.buf /\ a.tr = c.tr /\ a.items = c.items /\ a.out = y.out
    BY <1>3, <2>1, FailedTyped
  <2>5. Now(a) = Now(y) /\ Errors(a) = Errors(c) \cup {Len(a.out)} /\ Starts(a.out) = Starts(y.out)
    BY <1>4, <1>8, <2>2 DEF Now, Errors
  <2>6. DeltaDone(c, d, a)
    BY <1>4, <1>5, <1>8, <2>0, <2>2, <2>5 DEF DeltaDone
  <2>. QED
    BY <2>6 DEF a
<1>9. CASE d.kind \notin Reasons \cup {"usage", "error"}
  <2>1. a = y
    BY <1>9 DEF StreamDelta, y, Reasons
  <2>. HIDE DEF a
  <2>6. DeltaDone(c, d, y)
    BY <1>3, <1>4, <1>5, <1>9 DEF DeltaDone
  <2>7. DeltaDone(c, d, a)
    BY <2>1, <2>6
  <2>. QED
    BY <2>7 DEF a
<1>. QED
  BY <1>6, <1>7, <1>8, <1>9

LEMMA AggregateStep ==
  ASSUME NEW c, Typed(c), ~c.finished, ~c.failed, mode = "aggregate", NEW d \in Frames
  PROVE  DeltaDone(c, d, AggregateDelta(c, d))
<1>. DEFINE a == AggregateDelta(c, d)
            m == Collect(c.msg, d)
            u == IF d.kind = "usage" THEN d.val ELSE c.usage
            f == c.finished \/ d.kind \in Reasons
            g == d.kind = "error"
<1>1. /\ c \in Convs /\ c.finished = FALSE /\ c.failed = FALSE /\ c.msg \in Messages
      /\ c.usage \in Texts /\ c.out = <<>> /\ Announced(c.out) /\ Len(c.tr.slots) <= MaxItems
      /\ c.out \in Seq(Frames)
  BY ConvFields DEF Typed
<1>2. m \in Messages
  BY <1>1, CollectType
<1>3. d.val \in Texts
  BY DEF Frames, Deltas
<1>4. u \in Texts /\ f \in BOOLEAN /\ g \in BOOLEAN
  BY <1>1, <1>3
<1>5. a = [c EXCEPT !.msg = m, !.usage = u, !.finished = f, !.failed = g]
  BY <1>1 DEF AggregateDelta
<1>. HIDE DEF a, m, u, f, g
<1>6. a \in Convs
  BY <1>1, <1>2, <1>4, <1>5, ConvFields
<1>7. /\ a.msg = m /\ a.usage = u /\ a.finished = f /\ a.failed = g /\ a.out = c.out
      /\ a.buf = c.buf /\ a.tr = c.tr /\ a.items = c.items
  BY <1>1, <1>5 DEF Convs
<1>8. Typed(a)
  BY <1>1, <1>6, <1>7 DEF Typed
<1>9. Now(a) = Collect(Now(c), d)
  BY <1>7 DEF Now, m
<1>10. (a.finished <=> d.kind \in Reasons) /\ (a.failed <=> d.kind = "error")
  BY <1>1, <1>7 DEF f, g
<1>11. a.usage = IF d.kind = "usage" THEN d.val ELSE c.usage
  BY <1>7 DEF u
<1>12. DeltaDone(c, d, a)
  BY <1>7, <1>8, <1>9, <1>10, <1>11 DEF DeltaDone
<1>. QED
  BY <1>12 DEF a

LEMMA DeltaStep ==
  ASSUME NEW c, Typed(c), ~c.finished, ~c.failed, mode \in {"stream", "aggregate"},
         NEW d \in Frames, mode = "stream" => Ordered(c.out, d)
  PROVE  DeltaDone(c, d, DeltaTo(c, d))
  BY StreamStep, AggregateStep DEF DeltaTo

LEMMA DeltaFrames ==
  /\ \A i \in Item : Delta("start", i - 1, <<i>>) \in Frames
  /\ \A i \in Item, val \in Texts : Delta("args", i - 1, val) \in Frames
  /\ \A kind \in {"text", "reasoning", "usage", "error"} \cup Reasons, val \in Texts :
       Delta(kind, 0, val) \in Frames
<1>1. \A i \in Item : i \in Nat /\ i - 1 \in 0..MaxItems - 1 /\ <<i>> \in Texts /\ <<i>>[1] = i /\ <<i>> # <<>>
  BY ChatAssumption DEF Item, Texts
<1>2. ASSUME NEW i \in Item PROVE Delta("start", i - 1, <<i>>) \in Frames
  BY <1>1 DEF Delta, Frames, Deltas, DeltaKinds
<1>3. ASSUME NEW i \in Item, NEW val \in Texts PROVE Delta("args", i - 1, val) \in Frames
  BY <1>1 DEF Delta, Frames, Deltas, DeltaKinds
<1>4. ASSUME NEW kind \in {"text", "reasoning", "usage", "error"} \cup Reasons, NEW val \in Texts
      PROVE  Delta(kind, 0, val) \in Frames
  <2>1. kind \in DeltaKinds /\ kind # "start"
    BY DEF DeltaKinds, Reasons
  <2>. QED
    BY <2>1 DEF Delta, Frames, Deltas
<1>. QED
  BY <1>2, <1>3, <1>4

(* A loop that takes deltas has told all that these events say.              *)
Tracks(c, es) ==
  /\ Typed(c) /\ ~c.finished /\ ~c.failed
  /\ Mapped(c.tr, es)
  /\ Now(c) = Said(es)
  /\ prov = "codex" => c.usage = <<>>
  /\ prov = "anthropic" /\ es # <<>> => c.tr.prompt = es[1].val
  /\ mode = "stream" => Errors(c) = {} /\ Starts(c.out) = NCalls(es)

(* The next event is the last but for an error, or the answer goes on.       *)
Ended(a, es, e) ==
  /\ a.finished /\ ~a.failed
  /\ Now(a) = Said(Append(es, e))
  /\ a.usage = IF prov = "codex" THEN e.val ELSE Append(es, e)[1].val \o e.val
  /\ mode = "stream" => Errors(a) = {}
Refused(a) ==
  /\ ~a.finished /\ a.failed
  /\ mode = "stream" => Errors(a) = {Len(a.out)}

LEMMA Tracked ==
  ASSUME NEW es \in Seq(Events), NEW e \in Sends(es), prov \in {"anthropic", "codex"},
         mode \in {"stream", "aggregate"}, Numbered(es), ~HasKind(es, Good),
         NEW c, Tracks(c, es)
  PROVE  LET a == Apply(c, e)
         IN /\ Typed(a) /\ a.buf = c.buf
            /\ e.kind \in Good => Ended(a, es, e)
            /\ e.kind \in Bad => Refused(a)
            /\ e.kind \notin Good \cup Bad => Tracks(a, Append(es, e))
<1>. DEFINE i == e.item
            n == NCalls(es)
            longer == Append(es, e)
            t == OnEvent(c.tr, e)
            c0 == [c EXCEPT !.tr = t.tr]
            a == Apply(c, e)
            start == Delta("start", i - 1, <<i>>)
            args == Delta("args", i - 1, e.val)
            finish == Delta(FinishOf(longer), 0, <<>>)
            usage == Delta("usage", 0, IF prov = "codex" THEN e.val ELSE c.tr.prompt \o e.val)
<1>1. /\ e \in Events
      /\ \/ Speaks(e) \/ Opens(es, e) \/ Fills(es, e) \/ Closes(es, e) \/ Brings(es, e)
         \/ Passes(es, e) \/ Concludes(es, e) \/ Fails(e)
      /\ prov = "anthropic" =>
           IF es = <<>> THEN e.kind \in {"message_start", "error"} ELSE e.kind # "message_start"
  BY SendsCases
<1>2. /\ Typed(c) /\ ~c.finished /\ ~c.failed /\ Mapped(c.tr, es) /\ Now(c) = Said(es)
      /\ prov = "codex" => c.usage = <<>>
      /\ mode = "stream" => Errors(c) = {} /\ Starts(c.out) = n
  BY DEF Tracks
<1>3. /\ Mapped(t.tr, longer) /\ Numbered(longer)
      /\ t.tr.prompt = IF e.kind = "message_start" THEN e.val ELSE c.tr.prompt
  BY <1>2, Translated
<1>4. /\ Speaks(e) => t.deltas = <<Delta(e.kind, 0, e.val)>>
      /\ Opens(es, e) => t.deltas = <<start>>
      /\ Fills(es, e) => t.deltas = <<args>>
      /\ Closes(es, e) => t.deltas = <<>>
      /\ Brings(es, e) => t.deltas = IF e.val = <<>> THEN <<start>> ELSE <<start, args>>
      /\ Passes(es, e) => t.deltas = IF e.kind = "message_delta" THEN <<usage>> ELSE <<>>
      /\ Concludes(es, e) =>
           /\ FinishOf(longer) \in Reasons
           /\ t.deltas = IF prov = "codex" /\ e.val = <<>> THEN <<finish>> ELSE <<usage, finish>>
      /\ Fails(e) => t.deltas = <<Delta("error", 0, e.val)>>
  BY <1>2, Translated
<1>5. /\ e.val \in Texts /\ c.tr.prompt \in Texts /\ 0 \notin Item
      /\ (IF prov = "codex" THEN e.val ELSE c.tr.prompt \o e.val) \in Texts
  <2>1. e.val \in Texts /\ c.tr.prompt \in Texts /\ 0 \notin Item
    BY <1>1, <1>2, ChatAssumption DEF Events, Mapped, Item
  <2>. QED
    BY <2>1, ConcatProperties DEF Texts
<1>6. n \in Nat /\ n <= MaxItems /\ NCalls(longer) \in Nat /\ NCalls(longer) <= MaxItems
      /\ Calls(es) = 1..n
  <2>1. longer \in Seq(Events)
    BY <1>1, AppendProperties
  <2>. QED
    BY <1>3, <2>1, ToolsType DEF Numbered
<1>7. /\ Typed(c0) /\ c0.tr = t.tr /\ ~c0.finished /\ ~c0.failed /\ c0.buf = c.buf
      /\ c0.usage = c.usage /\ c0.out = c.out /\ Now(c0) = Said(es) /\ Errors(c0) = Errors(c)
  <2>1. t.tr \in [slots : Seq(Item), prompt : Texts] /\ Len(t.tr.slots) <= MaxItems
    <3>. DEFINE k == NCalls(longer)
    <3>1. k \in Nat /\ k <= MaxItems
      BY <1>6
    <3>. HIDE DEF k
    <3>2. Len([j \in 1..k |-> j]) = k
      BY <3>1, LenProperties
    <3>. QED
      BY <1>3, <3>1, <3>2 DEF Mapped, k
  <2>. HIDE DEF t, longer
  <2>2. /\ Typed(c0) /\ c0.tr = t.tr /\ c0.finished = c.finished /\ c0.failed = c.failed
        /\ c0.buf = c.buf /\ c0.usage = c.usage /\ c0.out = c.out /\ c0.msg = c.msg
    BY <1>2, <2>1, ChangedTyped
  <2>. QED
    BY <1>2, <2>2 DEF Now, Errors
<1>8. a = Tell(c0, t.deltas)
  BY DEF Apply
<1>. HIDE DEF t, c0, a, n, longer
<1>9. ASSUME NEW d \in Frames, mode = "stream" => Ordered(c.out, d),
             t.deltas = <<d>>
      PROVE  DeltaDone(c0, d, a)
  <2>1. a = DeltaTo(c0, d)
    BY <1>8, <1>9, Told
  <2>. QED
    BY <1>7, <1>9, <2>1, DeltaStep
<1>10. \A x : DeltaDone(c0, x, a) => Typed(a) /\ a.buf = c.buf
  BY <1>7 DEF DeltaDone
<1>11. ASSUME i = 0 \/ (i \in Item /\ IsAdded(es, i)) PROVE NCalls(longer) = n
  <2>1. i = 0 \/ i \in Calls(es)
    BY <1>5, <1>11, ItemUnknown
  <2>. QED
    BY <1>1, <2>1, NumberedAppend DEF longer, n, i
<1>12. ASSUME i \in Item, IsNext(es, i) PROVE i = n + 1 /\ NCalls(longer) = n + 1
  BY <1>1, <1>5, <1>12, NumberedAppend DEF longer, n, i
<1>13. ASSUME e.kind # "error" \/ prov = "codex"
       PROVE  prov = "anthropic" /\ longer # <<>> => t.tr.prompt = longer[1].val
  <2>. SUFFICES ASSUME prov = "anthropic" PROVE t.tr.prompt = longer[1].val
    OBVIOUS
  <2>1. CASE es = <<>>
    BY <1>1, <1>3, <1>13, <2>1 DEF longer
  <2>2. CASE es # <<>>
    <3>1. t.tr.prompt = es[1].val
      BY <1>1, <1>3, <2>2 DEF Tracks
    <3>2. longer[1] = es[1]
      BY <1>1, <2>2, AppendProperties, EmptySeq, LenProperties DEF longer
    <3>. QED
      BY <3>1, <3>2
  <2>. QED
    BY <2>1, <2>2
<1>14. ASSUME NEW x, Typed(x), x.tr = t.tr, ~x.finished, ~x.failed, Now(x) = Said(longer),
              prov = "codex" => x.usage = <<>>,
              mode = "stream" => Errors(x) = {} /\ Starts(x.out) = NCalls(longer),
              e.kind # "error"
       PROVE  Tracks(x, longer)
  BY <1>3, <1>13, <1>14 DEF Tracks
<1>15. \A kind, at, val : /\ Delta(kind, at, val).kind = kind /\ Delta(kind, at, val).at = at
                          /\ Delta(kind, at, val).val = val
  BY DEF Delta
<1>16. ASSUME i \in Item
       PROVE  /\ start \in Frames /\ start.kind = "start" /\ start.at = i - 1
              /\ args \in Frames /\ args.kind = "args" /\ args.at = i - 1
  BY <1>5, <1>15, <1>16, DeltaFrames
<1>17. usage \in Frames /\ usage.kind = "usage"
       /\ usage.val = IF prov = "codex" THEN e.val ELSE c.tr.prompt \o e.val
  BY <1>5, <1>15, DeltaFrames
<1>18. ASSUME FinishOf(longer) \in Reasons
       PROVE  finish \in Frames /\ finish.kind \in Reasons /\ finish.kind = FinishOf(longer)
  <2>1. <<>> \in Texts
    BY DEF Texts
  <2>. QED
    BY <1>15, <1>18, <2>1, DeltaFrames
<1>19. \A m : /\ Collect(m, usage) = m
              /\ FinishOf(longer) \in Reasons =>
                   Collect(m, finish) = [m EXCEPT !.finish = FinishOf(longer)]
  <2>1. \A m : Collect(m, usage) = m
    BY <1>17 DEF Collect, Reasons
  <2>2. ASSUME FinishOf(longer) \in Reasons, NEW m
        PROVE  Collect(m, finish) = [m EXCEPT !.finish = FinishOf(longer)]
    BY <1>18, <2>2 DEF Collect, Reasons
  <2>. QED
    BY <2>1, <2>2
<1>20. /\ i = 0 /\ e.kind \in {"text", "reasoning"} =>
            Said(longer) = Collect(Said(es), Delta(e.kind, 0, e.val))
       /\ i = 0 /\ e.kind \notin Good \cup {"text", "reasoning"} => Said(longer) = Said(es)
       /\ i = 0 /\ e.kind \in Good => Said(longer) = [Said(es) EXCEPT !.finish = FinishOf(longer)]
       /\ i # 0 /\ IsNext(es, i) /\ e.kind = "added" => Said(longer) = Collect(Said(es), start)
       /\ i # 0 /\ IsNext(es, i) /\ e.kind = "done" /\ e.val = <<>> =>
            Said(longer) = Collect(Said(es), start)
       /\ i # 0 /\ IsNext(es, i) /\ e.kind = "done" =>
            Said(longer) = Collect(Collect(Said(es), start), args)
       /\ i # 0 /\ IsAdded(es, i) /\ e.kind = "done" => Said(longer) = Said(es)
       /\ i # 0 /\ IsAdded(es, i) /\ e.kind = "args" => Said(longer) = Collect(Said(es), args)
  BY <1>1, SaidSteps DEF longer, start, args
<1>. HIDE DEF start, args, finish, usage, i
<1>21. ASSUME Speaks(e)
       PROVE  e.kind \notin Good \cup Bad /\ Tracks(a, longer) /\ Typed(a) /\ a.buf = c.buf
  <2>. DEFINE d == Delta(e.kind, 0, e.val)
  <2>1. /\ i = 0 /\ e.kind \in {"text", "reasoning"}
        /\ e.kind \notin Good \cup Bad \cup Reasons \cup {"error", "usage", "start", "args"}
    BY <1>21 DEF Speaks, i, Good, Bad, Stops, Reasons
  <2>2. d \in Frames /\ d.kind = e.kind
    BY <1>5, <1>15, <2>1, DeltaFrames
  <2>3. t.deltas = <<d>>
    BY <1>4, <1>21
  <2>4. Said(longer) = Collect(Said(es), d)
    BY <1>20, <2>1
  <2>. HIDE DEF d
  <2>5. DeltaDone(c0, d, a)
    BY <1>9, <2>1, <2>2, <2>3 DEF Ordered
  <2>6. /\ ~a.finished /\ ~a.failed /\ Now(a) = Said(longer) /\ a.tr = t.tr /\ a.usage = c.usage
        /\ mode = "stream" => Errors(a) = {} /\ Starts(a.out) = n
    BY <1>2, <1>7, <2>1, <2>2, <2>4, <2>5 DEF DeltaDone
  <2>7. NCalls(longer) = n
    BY <1>11, <2>1
  <2>. QED
    BY <1>2, <1>10, <1>14, <2>1, <2>5, <2>6, <2>7
<1>22. ASSUME Opens(es, e)
       PROVE  e.kind \notin Good \cup Bad /\ Tracks(a, longer) /\ Typed(a) /\ a.buf = c.buf
  <2>1. /\ i \in Item /\ IsNext(es, i) /\ e.kind = "added" /\ e.kind \notin Good \cup Bad
        /\ i # 0 /\ "start" \notin Reasons
    BY <1>5, <1>22 DEF Opens, i, Good, Bad, Stops, Reasons
  <2>2. i = n + 1 /\ NCalls(longer) = n + 1 /\ i - 1 = n
    BY <1>6, <1>12, <2>1
  <2>3. t.deltas = <<start>> /\ Said(longer) = Collect(Said(es), start)
    BY <1>4, <1>20, <1>22, <2>1
  <2>4. DeltaDone(c0, start, a)
    BY <1>2, <1>9, <1>16, <2>1, <2>2, <2>3 DEF Ordered
  <2>5. /\ ~a.finished /\ ~a.failed /\ Now(a) = Said(longer) /\ a.tr = t.tr /\ a.usage = c.usage
        /\ mode = "stream" => Errors(a) = {} /\ Starts(a.out) = n + 1
    BY <1>2, <1>7, <1>16, <2>1, <2>3, <2>4 DEF DeltaDone
  <2>. QED
    BY <1>2, <1>10, <1>14, <2>1, <2>2, <2>4, <2>5
<1>23. ASSUME Fills(es, e)
       PROVE  e.kind \notin Good \cup Bad /\ Tracks(a, longer) /\ Typed(a) /\ a.buf = c.buf
  <2>1. /\ i \in Item /\ IsAdded(es, i) /\ e.kind = "args" /\ e.kind \notin Good \cup Bad
        /\ i # 0 /\ "args" \notin Reasons
    BY <1>5, <1>23 DEF Fills, i, Good, Bad, Stops, Reasons
  <2>2. NCalls(longer) = n /\ i - 1 < n
    <3>1. i \in Calls(es)
      BY <2>1, ItemUnknown
    <3>. QED
      BY <1>6, <1>11, <2>1, <3>1
  <2>3. t.deltas = <<args>> /\ Said(longer) = Collect(Said(es), args)
    BY <1>4, <1>20, <1>23, <2>1
  <2>4. DeltaDone(c0, args, a)
    BY <1>2, <1>9, <1>16, <2>1, <2>2, <2>3 DEF Ordered
  <2>5. /\ ~a.finished /\ ~a.failed /\ Now(a) = Said(longer) /\ a.tr = t.tr /\ a.usage = c.usage
        /\ mode = "stream" => Errors(a) = {} /\ Starts(a.out) = n
    BY <1>2, <1>7, <1>16, <2>1, <2>3, <2>4 DEF DeltaDone
  <2>. QED
    BY <1>2, <1>10, <1>14, <2>1, <2>2, <2>4, <2>5
<1>24. ASSUME t.deltas = <<>> PROVE a = c0
  BY <1>8, <1>24, Told
<1>25. ASSUME Closes(es, e)
       PROVE  e.kind \notin Good \cup Bad /\ Tracks(a, longer) /\ Typed(a) /\ a.buf = c.buf
  <2>1. i \in Item /\ IsAdded(es, i) /\ e.kind = "done" /\ e.kind \notin Good \cup Bad /\ i # 0
    BY <1>5, <1>25 DEF Closes, i, Good, Bad, Stops
  <2>2. NCalls(longer) = n /\ Said(longer) = Said(es) /\ a = c0
    BY <1>4, <1>11, <1>20, <1>24, <1>25, <2>1
  <2>. QED
    BY <1>2, <1>7, <1>14, <2>1, <2>2
<1>26. ASSUME Brings(es, e)
       PROVE  e.kind \notin Good \cup Bad /\ Tracks(a, longer) /\ Typed(a) /\ a.buf = c.buf
  <2>1. /\ i \in Item /\ IsNext(es, i) /\ e.kind = "done" /\ e.kind \notin Good \cup Bad
        /\ i # 0 /\ "start" \notin Reasons /\ "args" \notin Reasons
    BY <1>5, <1>26 DEF Brings, i, Good, Bad, Stops, Reasons
  <2>2. i = n + 1 /\ NCalls(longer) = n + 1 /\ i - 1 = n
    BY <1>6, <1>12, <2>1
  <2>3. CASE e.val = <<>>
    <3>1. t.deltas = <<start>> /\ Said(longer) = Collect(Said(es), start)
      BY <1>4, <1>20, <1>26, <2>1, <2>3
    <3>2. DeltaDone(c0, start, a)
      BY <1>2, <1>9, <1>16, <2>1, <2>2, <3>1 DEF Ordered
    <3>3. /\ ~a.finished /\ ~a.failed /\ Now(a) = Said(longer) /\ a.tr = t.tr /\ a.usage = c.usage
          /\ mode = "stream" => Errors(a) = {} /\ Starts(a.out) = n + 1
      BY <1>2, <1>7, <1>16, <2>1, <3>1, <3>2 DEF DeltaDone
    <3>. QED
      BY <1>2, <1>10, <1>14, <2>1, <2>2, <3>2, <3>3
  <2>4. CASE e.val # <<>>
    <3>. DEFINE b == DeltaTo(c0, start)
    <3>1. t.deltas = <<start, args>> /\ Said(longer) = Collect(Collect(Said(es), start), args)
      BY <1>4, <1>20, <1>26, <2>1, <2>4
    <3>2. a = DeltaTo(b, args)
      <4>1. Tell(c0, <<start, args>>) = DeltaTo(DeltaTo(c0, start), args)
        BY ToldTwice
      <4>. QED
        BY <1>8, <3>1, <4>1
    <3>3. DeltaDone(c0, start, b)
      BY <1>2, <1>7, <1>16, <2>1, <2>2, DeltaStep DEF Ordered
    <3>. HIDE DEF b
    <3>4. /\ Typed(b) /\ ~b.finished /\ ~b.failed /\ b.tr = t.tr /\ b.usage = c.usage /\ b.buf = c.buf
          /\ Now(b) = Collect(Said(es), start)
          /\ mode = "stream" => Errors(b) = {} /\ Starts(b.out) = n + 1
      BY <1>2, <1>7, <1>16, <2>1, <3>3 DEF DeltaDone
    <3>5. DeltaDone(b, args, a)
      BY <1>6, <1>16, <2>1, <2>2, <3>2, <3>4, DeltaStep DEF Ordered
    <3>6. /\ ~a.finished /\ ~a.failed /\ Now(a) = Said(longer) /\ a.tr = t.tr /\ a.usage = c.usage
          /\ Typed(a) /\ a.buf = c.buf
          /\ mode = "stream" => Errors(a) = {} /\ Starts(a.out) = n + 1
      BY <1>16, <2>1, <3>1, <3>4, <3>5 DEF DeltaDone
    <3>. QED
      BY <1>2, <1>14, <2>1, <2>2, <3>6
  <2>. QED
    BY <2>3, <2>4
<1>27. ASSUME Passes(es, e)
       PROVE  e.kind \notin Good \cup Bad /\ Tracks(a, longer) /\ Typed(a) /\ a.buf = c.buf
  <2>1. /\ i = 0 /\ e.kind \in {"said", "noise", "message_start", "message_delta"}
        /\ e.kind = "message_delta" => prov # "codex"
        /\ e.kind \notin Good \cup Bad \cup {"text", "reasoning", "error"}
        /\ "usage" \notin Reasons
    BY <1>27 DEF Passes, i, Good, Bad, Stops, Reasons
  <2>2. NCalls(longer) = n /\ Said(longer) = Said(es)
    BY <1>11, <1>20, <2>1
  <2>3. CASE e.kind = "message_delta"
    <3>1. t.deltas = <<usage>> /\ prov # "codex"
      BY <1>4, <1>27, <2>1, <2>3
    <3>2. DeltaDone(c0, usage, a)
      BY <1>9, <1>17, <3>1 DEF Ordered
    <3>3. /\ ~a.finished /\ ~a.failed /\ Now(a) = Said(longer) /\ a.tr = t.tr
          /\ mode = "stream" => Errors(a) = {} /\ Starts(a.out) = n
      BY <1>2, <1>7, <1>17, <1>19, <2>1, <2>2, <3>2 DEF DeltaDone
    <3>. QED
      BY <1>10, <1>14, <2>1, <2>2, <3>1, <3>2, <3>3
  <2>4. CASE e.kind # "message_delta"
    <3>1. a = c0
      BY <1>4, <1>24, <1>27, <2>4
    <3>. QED
      BY <1>2, <1>7, <1>14, <2>1, <2>2, <3>1
  <2>. QED
    BY <2>3, <2>4
<1>28. ASSUME Concludes(es, e)
       PROVE  e.kind \in Good /\ e.kind \notin Bad /\ Ended(a, es, e) /\ Typed(a) /\ a.buf = c.buf
  <2>1. /\ i = 0 /\ e.kind \in Good /\ e.kind \notin Bad /\ e.kind # "error"
        /\ e.kind # "message_start" /\ "usage" \notin Reasons /\ "error" \notin Reasons
        /\ "start" \notin Reasons /\ "args" \notin Reasons
    BY <1>28 DEF Concludes, i, Good, Bad, Stops, Reasons
  <2>2. /\ FinishOf(longer) \in Reasons
        /\ t.deltas = IF prov = "codex" /\ e.val = <<>> THEN <<finish>> ELSE <<usage, finish>>
        /\ Said(longer) = [Said(es) EXCEPT !.finish = FinishOf(longer)]
    BY <1>4, <1>20, <1>28, <2>1
  <2>3. /\ finish \in Frames /\ finish.kind \in Reasons
        /\ finish.kind # "usage" /\ finish.kind # "error" /\ Collect(Said(es), finish) = Said(longer)
        /\ \A out : Ordered(out, finish)
    BY <1>18, <1>19, <2>1, <2>2 DEF Ordered
  <2>4. CASE prov = "codex" /\ e.val = <<>>
    <3>1. DeltaDone(c0, finish, a)
      BY <1>9, <2>2, <2>3, <2>4
    <3>2. /\ a.finished /\ ~a.failed /\ Now(a) = Said(longer) /\ a.usage = e.val
          /\ mode = "stream" => Errors(a) = {}
      BY <1>2, <1>7, <2>3, <2>4, <3>1 DEF DeltaDone
    <3>. QED
      BY <1>10, <2>1, <2>4, <3>1, <3>2 DEF Ended, longer
  <2>5. CASE ~(prov = "codex" /\ e.val = <<>>)
    <3>. DEFINE b == DeltaTo(c0, usage)
    <3>1. a = DeltaTo(b, finish)
      <4>1. Tell(c0, <<usage, finish>>) = DeltaTo(DeltaTo(c0, usage), finish)
        BY ToldTwice
      <4>2. t.deltas = <<usage, finish>>
        BY <2>2, <2>5
      <4>. QED
        BY <1>8, <4>1, <4>2
    <3>2. DeltaDone(c0, usage, b)
      BY <1>7, <1>17, DeltaStep DEF Ordered
    <3>. HIDE DEF b
    <3>3. /\ Typed(b) /\ ~b.finished /\ ~b.failed /\ b.buf = c.buf
          /\ Now(b) = Said(es) /\ b.usage = usage.val
          /\ mode = "stream" => Errors(b) = {}
      BY <1>2, <1>7, <1>17, <1>19, <2>1, <3>2 DEF DeltaDone
    <3>4. DeltaDone(b, finish, a)
      BY <2>3, <3>1, <3>3, DeltaStep
    <3>5. /\ a.finished /\ ~a.failed /\ Now(a) = Said(longer) /\ a.usage = usage.val
          /\ Typed(a) /\ a.buf = c.buf
          /\ mode = "stream" => Errors(a) = {}
      BY <2>3, <3>3, <3>4 DEF DeltaDone
    <3>6. prov = "anthropic" => c.tr.prompt = longer[1].val
      <4>1. longer # <<>>
        BY <1>1, AppendProperties, EmptySeq DEF longer
      <4>. QED
        BY <1>3, <1>13, <2>1, <4>1
    <3>. QED
      BY <1>17, <2>1, <3>5, <3>6 DEF Ended, longer
  <2>. QED
    BY <2>4, <2>5
<1>29. ASSUME Fails(e)
       PROVE  e.kind \notin Good /\ e.kind \in Bad /\ Refused(a) /\ Typed(a) /\ a.buf = c.buf
  <2>. DEFINE d == Delta("error", 0, e.val)
  <2>1. i = 0 /\ e.kind \notin Good /\ e.kind \in Bad /\ "error" \notin Reasons
    BY <1>29 DEF Fails, i, Good, Bad, Stops, Reasons
  <2>2. d \in Frames /\ d.kind = "error" /\ t.deltas = <<d>>
    BY <1>4, <1>5, <1>15, <1>29, DeltaFrames
  <2>. HIDE DEF d
  <2>3. DeltaDone(c0, d, a)
    BY <1>9, <2>2 DEF Ordered
  <2>4. /\ ~a.finished /\ a.failed
        /\ mode = "stream" => Errors(a) = {Len(a.out)}
    BY <1>2, <1>7, <2>1, <2>2, <2>3 DEF DeltaDone
  <2>. QED
    BY <1>10, <2>1, <2>3, <2>4 DEF Refused
<1>. QED
  BY <1>1, <1>21, <1>22, <1>23, <1>25, <1>26, <1>27, <1>28, <1>29 DEF a, longer

--------------------------------------------------------------------------------
(* The loop that rebuilds the items.                                         *)

KeptOnce(items, es, i) ==
  \E k \in DOMAIN items :
    /\ OfItem(items, i) = {k}
    /\ items[k] = Event("done", i, CallArgs(es, i)) \/ PartsMissing(es, i)
Rebuilt(items, es) ==
  /\ items \in Seq(Events)
  /\ items = Kept(es, OfKind(es, {"done", "said"}))
  /\ \A i \in Calls(es) : IsAdded(es, i) \/ IsDone(es, i)
  /\ \A i \in Item : IF IsDone(es, i) THEN KeptOnce(items, es, i) ELSE OfItem(items, i) = {}

LEMMA RebuiltNone == Rebuilt(<<>>, <<>>)
<1>1. \A kinds : OfKind(<<>>, kinds) = {}
  BY DEF OfKind
<1>2. \A i : OfItem(<<>>, i) = {}
  BY DEF OfItem
<1>3. Calls(<<>>) = {}
  BY DEF Calls, Range
<1>4. Kept(<<>>, {}) = <<>>
  <2>1. [k \in 1..Len(<<>>) |-> <<(<<>>)[k]>>] = <<>>
    OBVIOUS
  <2>2. <<>> \in Seq(Seq(Events)) /\ \A k \in 1..Len(<<>>) : k \notin {}
    OBVIOUS
  <2>3. Joined(<<>>, {}) = <<>>
    BY <2>2, JoinedNone
  <2>. QED
    BY <2>1, <2>3 DEF Kept
<1>5. \A i : ~IsDone(<<>>, i)
  BY <1>2 DEF IsDone
<1>6. <<>> \in Seq(Events)
  OBVIOUS
<1>. QED
  BY <1>1, <1>2, <1>3, <1>4, <1>5, <1>6 DEF Rebuilt

(* What is to be kept of a call is the same after an event of another.       *)
SameCall(es, longer, i) ==
  /\ CallArgs(longer, i) = CallArgs(es, i)
  /\ PartsMissing(longer, i) <=> PartsMissing(es, i)

(* Of another event than the last one's item nothing changes.                *)
LEMMA KeptOnceAppend ==
  ASSUME NEW items \in Seq(Events), NEW e \in Events, NEW i, e.item # i
  PROVE  /\ OfItem(Append(items, e), i) = OfItem(items, i)
         /\ \A es, longer : SameCall(es, longer, i) /\ KeptOnce(items, es, i) =>
              KeptOnce(Append(items, e), longer, i)
<1>. DEFINE more == Append(items, e)
<1>1. /\ more \in Seq(Events) /\ Len(items) \in Nat /\ Len(more) = Len(items) + 1
      /\ \A k \in 1..Len(items) : more[k] = items[k]
      /\ OfItem(more, i) = OfItem(items, i)
  <2>1. /\ more \in Seq(Events) /\ Len(items) \in Nat /\ Len(more) = Len(items) + 1
        /\ \A k \in 1..Len(items) : more[k] = items[k]
        /\ OfItem(more, i) = OfItem(items, i) \cup IF e.item = i THEN {Len(items) + 1} ELSE {}
    BY AppendPlaces
  <2>. HIDE DEF more
  <2>. QED
    BY <2>1
<1>2. DOMAIN items = 1..Len(items) /\ DOMAIN more = 1..Len(more)
  <2>. HIDE DEF more
  <2>. QED
    BY <1>1, LenProperties
<1>. HIDE DEF more
<1>3. ASSUME NEW es, NEW longer, SameCall(es, longer, i), KeptOnce(items, es, i)
      PROVE  KeptOnce(more, longer, i)
  <2>1. PICK k \in DOMAIN items :
               /\ OfItem(items, i) = {k}
               /\ items[k] = Event("done", i, CallArgs(es, i)) \/ PartsMissing(es, i)
    BY <1>3 DEF KeptOnce
  <2>2. k \in DOMAIN more /\ more[k] = items[k]
    BY <1>1, <1>2, <2>1
  <2>. QED
    BY <1>1, <1>3, <2>1, <2>2 DEF KeptOnce, SameCall
<1>. QED
  BY <1>1, <1>3 DEF more

(* The call that is done is the last of the items.                           *)
LEMMA KeptLast ==
  ASSUME NEW items \in Seq(Events), NEW e \in Events, NEW i, NEW es,
         e.kind = "done", e.item = i, OfItem(items, i) = {},
         CallArgs(es, i) = e.val \/ PartsMissing(es, i)
  PROVE  KeptOnce(Append(items, e), es, i)
<1>. DEFINE more == Append(items, e)
            k == Len(items) + 1
<1>1. /\ more \in Seq(Events) /\ Len(items) \in Nat /\ Len(more) = k /\ more[k] = e
      /\ OfItem(more, i) = OfItem(items, i) \cup {k}
  BY AppendPlaces
<1>2. k \in DOMAIN more /\ OfItem(more, i) = {k}
  <2>. HIDE DEF more
  <2>. QED
    BY <1>1, LenProperties
<1>3. e = Event("done", i, CallArgs(es, i)) \/ PartsMissing(es, i)
  BY DEF Event, Events
<1>. HIDE DEF more, k
<1>4. KeptOnce(more, es, i)
  BY <1>1, <1>2, <1>3 DEF KeptOnce
<1>. QED
  BY <1>4 DEF more

LEMMA RebuiltAppend ==
  ASSUME NEW es \in Seq(Events), NEW e \in Sends(es), prov = "codex", Numbered(es),
         NEW items, Rebuilt(items, es)
  PROVE  /\ e \in Events /\ Numbered(Append(es, e))
         /\ Rebuilt(IF e.kind \in {"done", "said"} THEN Append(items, e) ELSE items, Append(es, e))
         /\ e.kind \in Good => e.kind \in {"completed", "length", "filtered"}
         /\ e.kind = "completed" => \A i \in Calls(Append(es, e)) : IsDone(Append(es, e), i)
<1>. DEFINE longer == Append(es, e)
            more == IF e.kind \in {"done", "said"} THEN Append(items, e) ELSE items
            n == NCalls(es)
<1>1. /\ e \in Events
      /\ \/ Speaks(e) \/ Opens(es, e) \/ Fills(es, e) \/ Closes(es, e) \/ Brings(es, e)
         \/ Passes(es, e) \/ Concludes(es, e) \/ Fails(e)
  BY SendsCases
<1>2. /\ n \in Nat /\ Calls(es) = 1..n /\ Calls(es) \subseteq Item /\ 0 \notin Item /\ Item \subseteq Nat
      /\ n <= MaxItems
  <2>1. n \in Nat /\ Calls(es) = 1..n /\ n <= MaxItems /\ 1..n \subseteq Item
    BY ToolsType DEF Numbered
  <2>. HIDE DEF n
  <2>. QED
    BY <2>1, ChatAssumption DEF Item
<1>3. \/ e.item = 0 /\ e.kind \notin {"added", "args", "done"}
      \/ Opens(es, e) \/ Fills(es, e) \/ Closes(es, e) \/ Brings(es, e)
  BY <1>1 DEF Speaks, Passes, Concludes, Fails, Bad, Stops
<1>4. \A i \in Item : i \notin Calls(es) => ~IsDone(es, i) /\ ~IsAdded(es, i)
  BY <1>2, ItemUnknown
<1>5. /\ Numbered(longer) /\ Calls(longer) \subseteq Calls(es) \cup {e.item}
      /\ e.item = 0 => Calls(longer) = Calls(es)
      /\ Calls(longer) \subseteq Item
  <2>1. CASE e.item = 0 \/ e.item \in Calls(es)
    <3>1. Calls(longer) = Calls(es) /\ NCalls(longer) = n
      BY <1>1, <2>1, NumberedAppend
    <3>. QED
      BY <1>2, <3>1 DEF Numbered
  <2>2. CASE ~(e.item = 0 \/ e.item \in Calls(es))
    <3>1. e.item \in Item /\ IsNext(es, e.item)
      BY <1>2, <1>3, <1>4, <2>2 DEF Opens, Brings, Fills, Closes
    <3>2. e.item = n + 1 /\ NCalls(longer) = n + 1 /\ Calls(longer) = 1..(n + 1)
      BY <1>1, <1>2, <3>1, NumberedAppend
    <3>. HIDE DEF n, longer
    <3>3. 1..(n + 1) = 1..n \cup {n + 1}
      BY <1>2
    <3>. QED
      BY <1>2, <3>1, <3>2, <3>3 DEF Numbered
  <2>. QED
    BY <2>1, <2>2
<1>6. \A i \in Item :
        /\ IsAdded(longer, i) <=> IsAdded(es, i) \/ (e.item = i /\ e.kind = "added")
        /\ IsDone(longer, i) <=> IsDone(es, i) \/ (e.item = i /\ e.kind = "done")
        /\ e.item # i => SameCall(es, longer, i)
        /\ e.item = i /\ i \notin Calls(es) /\ e.kind = "done" => CallArgs(longer, i) = e.val
        /\ e.item = i /\ IsAdded(es, i) /\ e.kind = "done" =>
             /\ CallArgs(longer, i) = ArgsSent(es, i)
             /\ PartsMissing(es, i) => PartsMissing(longer, i)
  BY <1>1, <1>2, CallAppend, CallArgsAppend DEF SameCall, PartsMissing
<1>7. /\ items \in Seq(Events) /\ items = Kept(es, OfKind(es, {"done", "said"}))
      /\ \A i \in Calls(es) : IsAdded(es, i) \/ IsDone(es, i)
      /\ \A i \in Item : IF IsDone(es, i) THEN KeptOnce(items, es, i) ELSE OfItem(items, i) = {}
  BY DEF Rebuilt
<1>8. more = Kept(longer, OfKind(longer, {"done", "said"})) /\ more \in Seq(Events)
  <2>. DEFINE at == OfKind(es, {"done", "said"})
              after == OfKind(longer, {"done", "said"})
  <2>1. /\ at \subseteq 1..Len(es) /\ Len(es) \in Nat
        /\ after = at \cup IF e.kind \in {"done", "said"} THEN {Len(es) + 1} ELSE {}
    BY <1>1, AppendPlaces
  <2>. HIDE DEF at, after
  <2>2. /\ \A k \in 1..Len(es) : k \in after <=> k \in at
        /\ Len(es) + 1 \in after <=> e.kind \in {"done", "said"}
    BY <2>1
  <2>3. /\ Kept(es, at) \in Seq(Events)
        /\ Kept(longer, after) = IF Len(es) + 1 \in after THEN Append(Kept(es, at), e) ELSE Kept(es, at)
    BY <1>1, <2>2, KeptAppend
  <2>4. more \in Seq(Events)
    BY <1>1, <1>7, AppendProperties
  <2>. QED
    BY <1>7, <2>2, <2>3, <2>4 DEF at, after
<1>. HIDE DEF longer, n
<1>9. \A i \in Calls(longer) : IsAdded(longer, i) \/ IsDone(longer, i)
  <2>. TAKE i \in Calls(longer)
  <2>1. i \in Item
    BY <1>5
  <2>2. CASE i \in Calls(es)
    BY <1>6, <1>7, <2>1, <2>2
  <2>3. CASE i \notin Calls(es)
    <3>1. e.item = i /\ ~IsAdded(es, i)
      BY <1>4, <1>5, <2>1, <2>3
    <3>2. e.kind \in {"added", "done"}
      BY <1>2, <1>3, <2>1, <3>1 DEF Opens, Fills, Closes, Brings
    <3>. QED
      BY <1>6, <2>1, <3>1, <3>2
  <2>. QED
    BY <2>2, <2>3
<1>10. ASSUME NEW i \in Item, e.item # i
       PROVE  IF IsDone(longer, i) THEN KeptOnce(more, longer, i) ELSE OfItem(more, i) = {}
  <2>0. SameCall(es, longer, i) /\ (IsDone(longer, i) <=> IsDone(es, i))
    BY <1>6, <1>10
  <2>1. /\ OfItem(Append(items, e), i) = OfItem(items, i)
        /\ KeptOnce(items, es, i) => KeptOnce(Append(items, e), longer, i)
    BY <1>1, <1>7, <1>10, <2>0, KeptOnceAppend
  <2>2. KeptOnce(items, es, i) => KeptOnce(items, longer, i)
    BY <2>0 DEF KeptOnce, SameCall
  <2>3. OfItem(more, i) = OfItem(items, i) /\ (KeptOnce(items, es, i) => KeptOnce(more, longer, i))
    BY <2>1, <2>2
  <2>. HIDE DEF more
  <2>. QED
    BY <1>7, <2>0, <2>3
<1>11. ASSUME NEW i \in Item, e.item = i
       PROVE  IF IsDone(longer, i) THEN KeptOnce(more, longer, i) ELSE OfItem(more, i) = {}
  <2>1. CASE Opens(es, e) \/ Fills(es, e)
    <3>1. e.kind \in {"added", "args"} /\ ~IsDone(es, i)
      <4>1. CASE Opens(es, e)
        <5>1. i \notin Calls(es)
          <6>1. IsNext(es, i)
            BY <1>11, <4>1 DEF Opens
          <6>2. i = n + 1
            BY <1>1, <1>2, <1>11, <6>1, NumberedAppend DEF n
          <6>. QED
            BY <1>2, <6>2
        <5>. QED
          BY <1>4, <4>1, <5>1 DEF Opens
      <4>2. CASE Fills(es, e)
        BY <1>11, <4>2 DEF Fills
      <4>. QED
        BY <2>1, <4>1, <4>2
    <3>2. more = items /\ ~IsDone(longer, i)
      BY <1>6, <1>11, <3>1
    <3>. HIDE DEF more
    <3>. QED
      BY <1>7, <3>1, <3>2
  <2>2. CASE Closes(es, e) \/ Brings(es, e)
    <3>1. /\ e.kind = "done" /\ ~IsDone(es, i)
          /\ CallArgs(longer, i) = e.val \/ PartsMissing(longer, i)
      <4>1. CASE Closes(es, e)
        BY <1>6, <1>11, <4>1 DEF Closes
      <4>2. CASE Brings(es, e)
        <5>1. i \notin Calls(es) /\ e.kind = "done"
          <6>1. IsNext(es, i) /\ e.kind = "done"
            BY <1>11, <4>2 DEF Brings
          <6>2. i = n + 1
            BY <1>1, <1>2, <1>11, <6>1, NumberedAppend DEF n
          <6>. QED
            BY <1>2, <6>1, <6>2
        <5>. QED
          BY <1>4, <1>6, <1>11, <5>1
      <4>. QED
        BY <2>2, <4>1, <4>2
    <3>2. more = Append(items, e) /\ IsDone(longer, i) /\ OfItem(items, i) = {}
      BY <1>6, <1>7, <1>11, <3>1
    <3>. HIDE DEF more
    <3>3. KeptOnce(Append(items, e), longer, i)
      BY <1>1, <1>7, <1>11, <3>1, <3>2, KeptLast
    <3>. QED
      BY <3>2, <3>3
  <2>. QED
    BY <1>2, <1>3, <1>11, <2>1, <2>2
<1>. HIDE DEF more
<1>12. Rebuilt(more, longer)
  BY <1>8, <1>9, <1>10, <1>11 DEF Rebuilt
<1>13. e.kind \in Good => e.kind \in {"completed", "length", "filtered"}
  <2>1. e.kind \in Good => Concludes(es, e)
    BY <1>1 DEF Speaks, Opens, Fills, Closes, Brings, Passes, Fails, Good, Bad, Stops
  <2>. QED
    BY <2>1 DEF Concludes
<1>14. ASSUME e.kind = "completed", NEW i \in Calls(longer) PROVE IsDone(longer, i)
  <2>1. Concludes(es, e)
    BY <1>1, <1>14 DEF Speaks, Opens, Fills, Closes, Brings, Passes, Fails, Bad, Stops
  <2>2. e.item = 0 /\ \A j \in Item : IsAdded(es, j) => IsDone(es, j)
    BY <1>14, <2>1 DEF Concludes
  <2>3. i \in Calls(es) /\ i \in Item
    BY <1>5, <1>14, <2>2
  <2>. QED
    BY <1>6, <1>7, <2>2, <2>3
<1>. QED
  BY <1>1, <1>5, <1>12, <1>13, <1>14 DEF more, longer

LEMMA RebuildStep ==
  ASSUME NEW es \in Seq(Events), NEW e \in Sends(es), prov = "codex", mode = "responses",
         Numbered(es), NEW c, Typed(c), Rebuilt(c.items, es)
  PROVE  LET a == Apply(c, e)
         IN /\ Typed(a) /\ a.buf = c.buf /\ Rebuilt(a.items, Append(es, e))
            /\ a.finished <=> e.kind \in Good
            /\ a.failed <=> e.kind \in Bad
<1>. DEFINE a == Apply(c, e)
            items == IF e.kind \in {"done", "said"} THEN Append(c.items, e) ELSE c.items
            f == e.kind \in {"completed", "length", "filtered"}
            g == e.kind \in {"failed", "error"}
<1>1. /\ e \in Events /\ Rebuilt(items, Append(es, e))
      /\ e.kind \in Good => e.kind \in {"completed", "length", "filtered"}
  BY RebuiltAppend
<1>2. items \in Seq(Events) /\ f \in BOOLEAN /\ g \in BOOLEAN
  BY <1>1 DEF Rebuilt
<1>3. a = [c EXCEPT !.items = items, !.finished = f, !.failed = g]
  BY DEF Apply, ResponsesEvent
<1>4. c \in Convs /\ c.out \in Seq(Frames) /\ Announced(c.out) /\ Len(c.tr.slots) <= MaxItems
  BY DEF Typed
<1>. HIDE DEF a, items, f, g
<1>5. a \in Convs
  BY <1>2, <1>3, <1>4, ConvFields
<1>6. /\ a.items = items /\ a.finished = f /\ a.failed = g /\ a.buf = c.buf /\ a.out = c.out
      /\ a.tr = c.tr
  BY <1>3, <1>4 DEF Convs
<1>7. Typed(a)
  BY <1>4, <1>5, <1>6 DEF Typed
<1>8. (a.finished <=> e.kind \in Good) /\ (a.failed <=> e.kind \in Bad)
  BY <1>1, <1>6 DEF f, g, Good, Bad
<1>. QED
  BY <1>1, <1>6, <1>7, <1>8 DEF a

(* The loop has seen these events and goes on.                               *)
Follows(c, es) ==
  IF mode = "responses"
  THEN Typed(c) /\ ~c.finished /\ ~c.failed /\ Rebuilt(c.items, es)
  ELSE Tracks(c, es)

LEMMA SaidNone == Said(<<>>) = NoMsg
<1>1. \A kinds : OfKind(<<>>, kinds) = {}
  BY DEF OfKind
<1>2. Text(<<>>, {}) = <<>>
  <2>1. <<>> \in Seq(Events)
    OBVIOUS
  <2>. QED
    BY <2>1, TextType
<1>3. [i \in 1..Cardinality(Calls(<<>>)) |-> [item |-> i, args |-> CallArgs(<<>>, i)]] = <<>>
  BY NumberedNone DEF NCalls
<1>4. FinishOf(<<>>) = "stop"
  BY DEF FinishOf, LastOf, Event
<1>. QED
  BY <1>1, <1>2, <1>3, <1>4 DEF Said, NoMsg

LEMMA NewFollows ==
  ASSUME mode \in {"stream", "aggregate", "responses"}
  PROVE  Follows(NewConv, <<>>) /\ Typed(NewConv) /\ NewConv.buf = <<>>
<1>. DEFINE c == NewConv
            out == IF mode = "stream" THEN <<Role>> ELSE <<>>
<1>1. out \in Seq(Frames) /\ Announced(out) /\ Starts(out) = 0 /\ OfKind(out, {"error"}) = {}
  BY OutNone
<1>2. out \in Seq(Deltas)
  <2>1. Frames \subseteq Deltas
    BY DEF Frames
  <2>. HIDE DEF out
  <2>. QED
    BY <1>1, <2>1
<1>3. /\ c.buf = <<>> /\ c.tr = NewTranslator /\ ~c.finished /\ ~c.failed /\ c.usage = <<>>
      /\ c.out = out /\ c.msg = NoMsg /\ c.items = <<>>
  BY DEF NewConv
<1>4. /\ NewTranslator \in [slots : Seq(Item), prompt : Texts] /\ NewTranslator.slots = <<>>
      /\ Len(NewTranslator.slots) = 0
  BY DEF NewTranslator, Texts
<1>5. c \in Convs
  <2>1. /\ <<>> \in Seq([event : Events, last : BOOLEAN]) /\ <<>> \in Texts /\ <<>> \in Seq(Events)
        /\ NoMsg \in Messages
    BY NoMsgType DEF Texts
  <2>. HIDE DEF out
  <2>2. c = [buf |-> <<>>, tr |-> NewTranslator, finished |-> FALSE, failed |-> FALSE,
             usage |-> <<>>, out |-> out, msg |-> NoMsg, items |-> <<>>]
    BY DEF NewConv, out
  <2>. HIDE DEF c
  <2>. QED
    BY <1>2, <1>4, <2>1, <2>2 DEF Convs
<1>. HIDE DEF c
<1>6. Typed(c)
  BY <1>1, <1>3, <1>4, <1>5, ChatAssumption DEF Typed
<1>7. CASE mode = "responses"
  BY <1>3, <1>6, <1>7, RebuiltNone DEF Follows, c
<1>8. CASE mode # "responses"
  <2>1. Mapped(c.tr, <<>>)
    <3>1. NewTranslator.slots = [k \in 1..0 |-> k]
      BY <1>4
    <3>. QED
      BY <1>3, <1>4, <3>1, NumberedNone DEF Mapped
  <2>2. Now(c) = Said(<<>>)
    BY <1>3, SaidNone, CollectedNone DEF Now
  <2>3. mode = "stream" => Errors(c) = {} /\ Starts(c.out) = NCalls(<<>>)
    BY <1>1, <1>3, NumberedNone DEF Errors
  <2>4. Tracks(c, <<>>)
    BY <1>3, <1>6, <2>1, <2>2, <2>3 DEF Tracks
  <2>. QED
    BY <1>3, <1>6, <1>8, <2>4 DEF Follows, c
<1>. QED
  BY <1>7, <1>8

--------------------------------------------------------------------------------
(* The buffer.                                                               *)

Pieced == [event : Events, last : BOOLEAN]

LEMMA PieceFacts ==
  ASSUME NEW s \in Seq(Events)
  PROVE  /\ Pieces(s) \in Seq(Pieced) /\ Len(Pieces(s)) = 2 * Len(s) /\ Len(s) \in Nat
         /\ \A n \in Nat : n + 1 <= Len(s) =>
              /\ Pieces(s)[2 * n + 1] = [event |-> s[n + 1], last |-> FALSE]
              /\ Pieces(s)[2 * n + 2] = [event |-> s[n + 1], last |-> TRUE]
         /\ \A i \in 1..2 * Len(s) : Pieces(s)[i] = [event |-> s[(i + 1) \div 2], last |-> i % 2 = 0]
<1>. DEFINE m == Len(s)
            p == Pieces(s)
<1>1. m \in Nat /\ 2 * m \in Nat /\ \A k \in 1..m : s[k] \in Events
  BY LenProperties, ElementOfSeq
<1>2. p = [i \in 1..2 * m |-> [event |-> s[(i + 1) \div 2], last |-> i % 2 = 0]]
  BY DEF Pieces
<1>. HIDE DEF m, p
<1>3. \A i \in 1..2 * m : (i + 1) \div 2 \in 1..m /\ (i % 2 = 0) \in BOOLEAN
  BY <1>1
<1>4. \A i \in 1..2 * m : p[i] = [event |-> s[(i + 1) \div 2], last |-> i % 2 = 0]
  BY <1>2
<1>5. p \in [1..2 * m -> Pieced]
  BY <1>1, <1>2, <1>3 DEF Pieced
<1>6. p \in Seq(Pieced) /\ Len(p) = 2 * m
  BY <1>1, <1>5, LenProperties
<1>7. ASSUME NEW n \in Nat, n + 1 <= m
      PROVE  p[2 * n + 1] = [event |-> s[n + 1], last |-> FALSE]
             /\ p[2 * n + 2] = [event |-> s[n + 1], last |-> TRUE]
  <2>1. 2 * n + 1 \in 1..2 * m /\ ((2 * n + 1) + 1) \div 2 = n + 1 /\ (2 * n + 1) % 2 = 1
    BY <1>1, <1>7
  <2>2. 2 * n + 2 \in 1..2 * m /\ ((2 * n + 2) + 1) \div 2 = n + 1 /\ (2 * n + 2) % 2 = 0
    BY <1>1, <1>7
  <2>3. ((2 * n + 1) % 2 = 0) = FALSE /\ ((2 * n + 2) % 2 = 0) = TRUE
    BY <2>1, <2>2
  <2>4. p[2 * n + 1] = [event |-> s[((2 * n + 1) + 1) \div 2], last |-> (2 * n + 1) % 2 = 0]
    BY <1>4, <2>1
  <2>5. p[2 * n + 2] = [event |-> s[((2 * n + 2) + 1) \div 2], last |-> (2 * n + 2) % 2 = 0]
    BY <1>4, <2>2
  <2>6. p[2 * n + 1] = [event |-> s[n + 1], last |-> FALSE]
    BY <2>1, <2>3, <2>4
  <2>7. p[2 * n + 2] = [event |-> s[n + 1], last |-> TRUE]
    BY <2>2, <2>3, <2>5
  <2>. QED
    BY <2>6, <2>7
<1>. QED
  BY <1>1, <1>4, <1>6, <1>7 DEF m, p

(* The pieces from the n-th event on wait in the buffer.                     *)
Waits(buf, s, n) ==
  /\ buf \in Seq(Pieced) /\ n \in 0..Len(s) /\ 2 * n + Len(buf) <= 2 * Len(s)
  /\ \A i \in 1..Len(buf) : buf[i] = Pieces(s)[2 * n + i]

LEMMA WaitsWhole ==
  ASSUME NEW s \in Seq(Events), NEW buf, NEW n, Waits(buf, s, n)
  PROVE  /\ Len(buf) \in Nat /\ (Ends(buf) = {} <=> Len(buf) <= 1)
         /\ Ends(buf) # {} =>
              /\ n + 1 \in 1..Len(s) /\ Len(buf) >= 2
              /\ BlockAt(buf, Boundary(buf)) = s[n + 1]
              /\ Waits(Rest(buf), s, n + 1) /\ Len(Rest(buf)) = Len(buf) - 2
<1>. DEFINE m == Len(s)
            b == Len(buf)
            p == Pieces(s)
<1>1. /\ m \in Nat /\ b \in Nat /\ n \in Nat /\ n <= m /\ 2 * n + b <= 2 * m /\ buf \in Seq(Pieced)
      /\ \A i \in 1..b : buf[i] = p[2 * n + i]
  BY LenProperties DEF Waits
<1>2. n + 1 <= m => /\ p[2 * n + 1] = [event |-> s[n + 1], last |-> FALSE]
                    /\ p[2 * n + 2] = [event |-> s[n + 1], last |-> TRUE]
  BY <1>1, PieceFacts
<1>. HIDE DEF m, b, p
<1>3. b >= 1 => ~buf[1].last
  <2>. HAVE b >= 1
  <2>1. n + 1 <= m /\ 1 \in 1..b
    BY <1>1
  <2>. QED
    BY <1>1, <1>2, <2>1
<1>4. b >= 2 => buf[2].last /\ buf[2].event = s[n + 1] /\ n + 1 <= m
  <2>. HAVE b >= 2
  <2>1. n + 1 <= m /\ 2 \in 1..b
    BY <1>1
  <2>. QED
    BY <1>1, <1>2, <2>1
<1>5. Ends(buf) = {i \in 1..b : buf[i].last}
  BY DEF Ends, b
<1>6. Ends(buf) = {} <=> b <= 1
  <2>1. ASSUME b >= 2 PROVE 2 \in Ends(buf)
    BY <1>1, <1>4, <1>5, <2>1
  <2>2. ASSUME b <= 1, NEW i \in Ends(buf) PROVE FALSE
    <3>1. i \in 1..b /\ buf[i].last
      BY <1>5
    <3>2. i = 1 /\ b >= 1
      BY <1>1, <2>2, <3>1
    <3>. QED
      BY <1>3, <3>1, <3>2
  <2>. QED
    BY <1>1, <2>1, <2>2
<1>7. ASSUME b >= 2
      PROVE  /\ n + 1 \in 1..m /\ BlockAt(buf, Boundary(buf)) = s[n + 1]
             /\ Waits(Rest(buf), s, n + 1) /\ Len(Rest(buf)) = b - 2
  <2>1. 2 \in Ends(buf) /\ \A i \in Ends(buf) : 2 <= i /\ i \in Nat
    BY <1>1, <1>3, <1>4, <1>5, <1>7
  <2>2. Boundary(buf) = 2
    <3>. DEFINE E == Ends(buf)
    <3>. HIDE DEF E
    <3>1. 2 \in E /\ \A i \in E : 2 <= i /\ i \in Nat
      BY <2>1 DEF E
    <3>2. \A x \in E : (\A j \in E : x <= j) => x = 2
      BY <3>1
    <3>3. (CHOOSE i \in E : \A j \in E : i <= j) = 2
      BY <3>1, <3>2
    <3>. QED
      BY <3>3 DEF Boundary, E
  <2>3. BlockAt(buf, 2) = s[n + 1]
    <3>1. BlockAt(buf, 2) = IF ~buf[1].last THEN buf[2].event ELSE Event("broken", 0, <<>>)
      BY DEF BlockAt
    <3>. QED
      BY <1>1, <1>3, <1>4, <1>7, <3>1
  <2>4. Rest(buf) = SubSeq(buf, 3, b)
    BY <2>2 DEF Rest, b
  <2>. DEFINE r == SubSeq(buf, 3, b)
  <2>5. r \in Seq(Pieced) /\ Len(r) = b - 2 /\ \A i \in 1..(b - 2) : r[i] = buf[i + 2]
    <3>1. 3 \in Int /\ b \in Int /\ \A i \in 3..b : buf[i] \in Pieced
      BY <1>1, <1>7, ElementOfSeq DEF b
    <3>2. /\ SubSeq(buf, 3, b) \in Seq(Pieced)
          /\ Len(SubSeq(buf, 3, b)) = IF 3 <= b THEN b - 3 + 1 ELSE 0
          /\ \A i \in 1..b - 3 + 1 : SubSeq(buf, 3, b)[i] = buf[3 + i - 1]
      BY <3>1, SubSeqProperties
    <3>3. (IF 3 <= b THEN b - 3 + 1 ELSE 0) = b - 2 /\ b - 3 + 1 = b - 2
      BY <1>1, <1>7
    <3>4. \A i \in 1..(b - 2) : 3 + i - 1 = i + 2
      OBVIOUS
    <3>. QED
      BY <3>2, <3>3, <3>4
  <2>. HIDE DEF r
  <2>6. n + 1 \in 0..m /\ 2 * (n + 1) + (b - 2) <= 2 * m /\ n + 1 \in 1..m
    BY <1>1, <1>4, <1>7
  <2>7. \A i \in 1..(b - 2) : r[i] = p[2 * (n + 1) + i]
    <3>. TAKE i \in 1..(b - 2)
    <3>1. i + 2 \in 1..b /\ 2 * n + (i + 2) = 2 * (n + 1) + i
      BY <1>1, <1>7
    <3>. QED
      BY <1>1, <2>5, <3>1
  <2>8. Waits(r, s, n + 1)
    BY <2>5, <2>6, <2>7 DEF Waits, m, p
  <2>. QED
    BY <2>2, <2>3, <2>4, <2>5, <2>6, <2>8 DEF r
<1>. QED
  BY <1>1, <1>6, <1>7 DEF m, b

LEMMA WaitsReceive ==
  ASSUME NEW s \in Seq(Events), NEW buf, NEW n, Waits(buf, s, n),
         NEW t \in Nat, NEW k \in Nat, 2 * n + Len(buf) = t, t + k <= 2 * Len(s)
  PROVE  LET more == Push(buf, SubSeq(Pieces(s), t + 1, t + k))
         IN Waits(more, s, n) /\ 2 * n + Len(more) = t + k
<1>. DEFINE p == Pieces(s)
            chunk == SubSeq(p, t + 1, t + k)
            b == Len(buf)
            more == buf \o chunk
<1>1. /\ p \in Seq(Pieced) /\ Len(p) = 2 * Len(s) /\ Len(s) \in Nat
  BY PieceFacts
<1>2. /\ b \in Nat /\ n \in Nat /\ n <= Len(s) /\ buf \in Seq(Pieced)
      /\ \A i \in 1..b : buf[i] = p[2 * n + i]
  BY <1>1, LenProperties DEF Waits
<1>3. t = 2 * n + b
  OBVIOUS
<1>. HIDE DEF p, b
<1>4. chunk \in Seq(Pieced) /\ Len(chunk) = k /\ \A i \in 1..k : chunk[i] = p[t + i]
  <2>1. \A i \in (t + 1)..(t + k) : p[i] \in Pieced
    BY <1>1, ElementOfSeq
  <2>2. /\ chunk \in Seq(Pieced)
        /\ Len(chunk) = IF t + 1 <= t + k THEN (t + k) - (t + 1) + 1 ELSE 0
        /\ \A i \in 1..(t + k) - (t + 1) + 1 : chunk[i] = p[(t + 1) + i - 1]
    BY <2>1, SubSeqProperties
  <2>3. (IF t + 1 <= t + k THEN (t + k) - (t + 1) + 1 ELSE 0) = k /\ (t + k) - (t + 1) + 1 = k
    OBVIOUS
  <2>4. \A i \in 1..k : (t + 1) + i - 1 = t + i
    OBVIOUS
  <2>. QED
    BY <2>2, <2>3, <2>4
<1>. HIDE DEF chunk
<1>5. /\ more \in Seq(Pieced) /\ Len(more) = b + k
      /\ \A i \in 1..b : more[i] = buf[i]
      /\ \A i \in (b + 1)..(b + k) : more[i] = chunk[i - b]
  <2>1. /\ buf \o chunk \in Seq(Pieced) /\ Len(buf \o chunk) = Len(buf) + Len(chunk)
        /\ \A i \in 1..Len(buf) + Len(chunk) :
             (buf \o chunk)[i] = IF i <= Len(buf) THEN buf[i] ELSE chunk[i - Len(buf)]
    BY <1>2, <1>4, ConcatProperties
  <2>2. /\ \A i \in 1..b : i \in 1..b + k /\ i <= b
        /\ \A i \in (b + 1)..(b + k) : i \in 1..b + k /\ ~(i <= b)
    BY <1>2
  <2>. QED
    BY <1>4, <2>1, <2>2 DEF b
<1>. HIDE DEF more
<1>6. ASSUME NEW i \in 1..(b + k) PROVE more[i] = p[2 * n + i]
  <2>1. CASE i <= b
    BY <1>2, <1>5, <2>1
  <2>2. CASE i > b
    <3>1. i \in (b + 1)..(b + k) /\ i - b \in 1..k /\ t + (i - b) = 2 * n + i
      BY <1>2, <1>3, <2>2
    <3>. QED
      BY <1>4, <1>5, <3>1
  <2>. QED
    BY <1>2, <2>1, <2>2
<1>7. Waits(more, s, n)
  <2>1. n \in 0..Len(s) /\ 2 * n + (b + k) <= 2 * Len(s)
    BY <1>1, <1>2, <1>3
  <2>. QED
    BY <1>5, <1>6, <2>1 DEF Waits, p
<1>8. 2 * n + Len(more) = t + k
  BY <1>2, <1>3, <1>5
<1>. QED
  BY <1>7, <1>8 DEF more, Push, chunk, p

LEMMA WaitsSend ==
  ASSUME NEW s \in Seq(Events), NEW e \in Events, NEW buf, NEW n, Waits(buf, s, n)
  PROVE  Waits(buf, Append(s, e), n)
<1>. DEFINE longer == Append(s, e)
<1>1. /\ longer \in Seq(Events) /\ Len(s) \in Nat /\ Len(longer) = Len(s) + 1
      /\ \A k \in 1..Len(s) : longer[k] = s[k]
  BY AppendPlaces
<1>. HIDE DEF longer
<1>2. /\ Len(buf) \in Nat /\ n \in Nat /\ n <= Len(s) /\ buf \in Seq(Pieced)
      /\ 2 * n + Len(buf) <= 2 * Len(s) /\ \A i \in 1..Len(buf) : buf[i] = Pieces(s)[2 * n + i]
  BY <1>1, LenProperties DEF Waits
<1>3. ASSUME NEW i \in 1..2 * Len(s) PROVE Pieces(longer)[i] = Pieces(s)[i]
  <2>1. i \in 1..2 * Len(longer) /\ (i + 1) \div 2 \in 1..Len(s)
    BY <1>1
  <2>2. /\ Pieces(s)[i] = [event |-> s[(i + 1) \div 2], last |-> i % 2 = 0]
        /\ Pieces(longer)[i] = [event |-> longer[(i + 1) \div 2], last |-> i % 2 = 0]
    BY <1>1, <2>1, PieceFacts
  <2>. QED
    BY <1>1, <2>1, <2>2
<1>4. ASSUME NEW i \in 1..Len(buf) PROVE buf[i] = Pieces(longer)[2 * n + i]
  <2>1. 2 * n + i \in 1..2 * Len(s)
    BY <1>1, <1>2
  <2>. QED
    BY <1>2, <1>3, <2>1
<1>5. n \in 0..Len(longer) /\ 2 * n + Len(buf) <= 2 * Len(longer)
  BY <1>1, <1>2
<1>6. Waits(buf, longer, n)
  BY <1>2, <1>4, <1>5 DEF Waits
<1>. QED
  BY <1>6 DEF longer

(* What has been handled of what was sent.                                   *)
First(s, n) == SubSeq(s, 1, n)

LEMMA FirstFacts ==
  ASSUME NEW s \in Seq(Events), NEW n \in 0..Len(s)
  PROVE  /\ First(s, n) \in Seq(Events) /\ Len(First(s, n)) = n /\ Len(s) \in Nat
         /\ \A k \in 1..n : First(s, n)[k] = s[k]
<1>1. Len(s) \in Nat /\ n \in Nat /\ \A i \in 1..n : s[i] \in Events
  BY LenProperties, ElementOfSeq
<1>2. /\ SubSeq(s, 1, n) \in Seq(Events)
      /\ Len(SubSeq(s, 1, n)) = IF 1 <= n THEN n - 1 + 1 ELSE 0
      /\ \A i \in 1..n - 1 + 1 : SubSeq(s, 1, n)[i] = s[1 + i - 1]
  BY <1>1, SubSeqProperties
<1>3. (IF 1 <= n THEN n - 1 + 1 ELSE 0) = n /\ n - 1 + 1 = n /\ \A i \in 1..n : 1 + i - 1 = i
  BY <1>1
<1>. QED
  BY <1>1, <1>2, <1>3 DEF First

LEMMA SameSeq ==
  ASSUME NEW S, NEW a \in Seq(S), NEW b \in Seq(S), Len(a) = Len(b), \A k \in 1..Len(a) : a[k] = b[k]
  PROVE  a = b
<1>1. /\ a = [k \in 1..Len(a) |-> a[k]] /\ b = [k \in 1..Len(a) |-> b[k]]
  BY LenProperties
<1>. QED
  BY <1>1

LEMMA FirstSteps ==
  ASSUME NEW s \in Seq(Events), NEW n \in 0..Len(s)
  PROVE  /\ \A e \in Events : First(Append(s, e), n) = First(s, n)
         /\ n + 1 <= Len(s) => First(s, n + 1) = Append(First(s, n), s[n + 1])
         /\ First(s, 0) = <<>>
         /\ n = Len(s) => First(s, n) = s
<1>1. /\ First(s, n) \in Seq(Events) /\ Len(First(s, n)) = n /\ Len(s) \in Nat
      /\ n \in Nat /\ \A k \in 1..n : First(s, n)[k] = s[k]
  BY FirstFacts
<1>2. ASSUME NEW e \in Events PROVE First(Append(s, e), n) = First(s, n)
  <2>. DEFINE longer == Append(s, e)
              f == First(longer, n)
              g == First(s, n)
  <2>1. /\ longer \in Seq(Events) /\ Len(longer) = Len(s) + 1
        /\ \A k \in 1..Len(s) : longer[k] = s[k]
    BY AppendPlaces
  <2>. HIDE DEF longer
  <2>2. n \in 0..Len(longer)
    BY <1>1, <2>1
  <2>3. f \in Seq(Events) /\ Len(f) = n /\ \A k \in 1..n : f[k] = longer[k]
    BY <2>1, <2>2, FirstFacts
  <2>4. g \in Seq(Events) /\ Len(g) = n /\ \A k \in 1..n : f[k] = g[k]
    BY <1>1, <2>1, <2>3
  <2>. HIDE DEF f, g
  <2>5. f = g
    BY <2>3, <2>4, SameSeq
  <2>. QED
    BY <2>5 DEF f, g, longer
<1>3. ASSUME n + 1 <= Len(s) PROVE First(s, n + 1) = Append(First(s, n), s[n + 1])
  <2>. DEFINE f == First(s, n + 1)
              g == First(s, n)
              h == Append(g, s[n + 1])
  <2>1. n + 1 \in 0..Len(s) /\ s[n + 1] \in Events
    BY <1>1, <1>3, ElementOfSeq
  <2>2. f \in Seq(Events) /\ Len(f) = n + 1 /\ \A k \in 1..(n + 1) : f[k] = s[k]
    BY <2>1, FirstFacts
  <2>3. g \in Seq(Events) /\ Len(g) = n /\ \A k \in 1..n : g[k] = s[k]
    BY <1>1
  <2>. HIDE DEF f, g
  <2>4. h \in Seq(Events) /\ Len(h) = n + 1 /\ h[n + 1] = s[n + 1] /\ \A k \in 1..n : h[k] = g[k]
    BY <2>1, <2>3, AppendPlaces
  <2>. HIDE DEF h
  <2>5. \A k \in 1..(n + 1) : f[k] = h[k]
    BY <1>1, <2>2, <2>3, <2>4
  <2>6. f = h
    BY <2>2, <2>4, <2>5, SameSeq
  <2>. QED
    BY <2>6 DEF f, g, h
<1>4. First(s, 0) = <<>>
  <2>1. 0 \in 0..Len(s)
    BY <1>1
  <2>2. First(s, 0) \in Seq(Events) /\ Len(First(s, 0)) = 0
    BY <2>1, FirstFacts
  <2>. QED
    BY <2>2, EmptySeq
<1>5. n = Len(s) => First(s, n) = s
  BY <1>1, SameSeq
<1>. QED
  BY <1>2, <1>3, <1>4, <1>5

LEMMA KindAppend ==
  ASSUME NEW es \in Seq(Events), NEW e \in Events, NEW kinds
  PROVE  HasKind(Append(es, e), kinds) <=> HasKind(es, kinds) \/ e.kind \in kinds
<1>1. OfKind(Append(es, e), kinds) = OfKind(es, kinds) \cup IF e.kind \in kinds THEN {Len(es) + 1} ELSE {}
  BY AppendPlaces
<1>. QED
  BY <1>1 DEF HasKind

--------------------------------------------------------------------------------
(* The ends of a conversation.                                               *)

LEMMA YieldEnd ==
  ASSUME NEW c, Typed(c), mode = "stream", NEW d \in Frames, d.kind \in {"usage", "error", "[DONE]"}
  PROVE  LET y == Yield(c, d)
         IN /\ Typed(y) /\ Now(y) = Now(c) /\ LastOf(y.out) = d /\ y.usage = c.usage
            /\ y.finished = c.finished /\ y.failed = c.failed /\ y.buf = c.buf
            /\ Errors(y) = Errors(c) \cup IF d.kind = "error" THEN {Len(y.out)} ELSE {}
<1>. DEFINE y == Yield(c, d)
<1>1. c.out \in Seq(Frames) /\ Announced(c.out) /\ Ordered(c.out, d)
  BY DEF Typed, Ordered
<1>2. /\ Typed(y) /\ y.out = Append(c.out, d) /\ y.buf = c.buf /\ y.usage = c.usage
      /\ y.finished = c.finished /\ y.failed = c.failed
  BY <1>1, YieldTyped
<1>. HIDE DEF y
<1>3. /\ Len(c.out) \in Nat /\ Len(y.out) = Len(c.out) + 1
      /\ \A kinds : OfKind(y.out, kinds) =
                      OfKind(c.out, kinds) \cup IF d.kind \in kinds THEN {Len(c.out) + 1} ELSE {}
  BY <1>1, <1>2, OutAppend
<1>4. Errors(y) = Errors(c) \cup IF d.kind = "error" THEN {Len(y.out)} ELSE {}
  BY <1>3 DEF Errors
<1>5. y.out[Len(y.out)] = d /\ y.out # <<>>
  <2>1. Append(c.out, d)[Len(c.out) + 1] = d
    BY <1>1, AppendProperties
  <2>. QED
    BY <1>2, <1>3, <2>1, EmptySeq
<1>6. LastOf(y.out) = d
  BY <1>5 DEF LastOf
<1>7. Now(y) = Now(c)
  <2>1. Now(y) = Collect(Now(c), d)
    BY <1>1, <1>2, CollectedAppend DEF Now
  <2>2. Collect(Now(c), d) = Now(c)
    BY DEF Collect, Reasons
  <2>. QED
    BY <2>1, <2>2
<1>. QED
  BY <1>2, <1>4, <1>6, <1>7 DEF y

LEMMA EndFrames ==
  /\ Failure \in Frames /\ Failure.kind = "error"
  /\ \A val \in Texts : LET d == Delta("usage", 0, val) IN d \in Frames /\ d.kind = "usage"
  /\ LET d == Delta("[DONE]", 0, <<>>) IN d \in Frames /\ d.kind = "[DONE]"
  BY DEF Failure, Delta, Frames, Deltas, DeltaKinds, Texts

(* A stream is left: finished, failed, or at the end of a body too short.    *)
LEMMA LeftStream ==
  ASSUME NEW c, Typed(c), mode = "stream", NEW usage \in BOOLEAN, ~c.finished \/ ~c.failed
  PROVE  LET a == AfterLoop(c, usage)
         IN /\ Typed(a) /\ Now(a) = Now(c) /\ a.usage = c.usage
            /\ a.finished = c.finished /\ a.buf = c.buf
            /\ c.finished /\ ~c.failed /\ Errors(c) = {} =>
                 LastOf(a.out).kind = "[DONE]" /\ Errors(a) = {}
            /\ ~c.finished /\ c.failed /\ Errors(c) = {Len(c.out)} => Errors(a) = {Len(a.out)}
            /\ ~c.finished /\ ~c.failed /\ Errors(c) = {} => Errors(a) = {Len(a.out)}
<1>. DEFINE a == AfterLoop(c, usage)
            done == Delta("[DONE]", 0, <<>>)
            tokens == Delta("usage", 0, c.usage)
<1>1. c \in Convs /\ c.usage \in Texts /\ c.finished \in BOOLEAN /\ c.failed \in BOOLEAN
  BY ConvFields DEF Typed
<1>2. /\ Failure \in Frames /\ Failure.kind = "error" /\ tokens \in Frames /\ tokens.kind = "usage"
      /\ done \in Frames /\ done.kind = "[DONE]"
  BY <1>1, EndFrames
<1>3. CASE c.finished /\ ~c.failed
  <2>. DEFINE b == IF usage /\ c.usage # <<>> THEN Yield(c, tokens) ELSE c
  <2>1. a = Yield(b, done)
    BY <1>3 DEF AfterLoop, Over
  <2>. HIDE DEF done, tokens, a
  <2>2. /\ Typed(b) /\ Now(b) = Now(c) /\ b.usage = c.usage /\ b.finished = c.finished
        /\ b.buf = c.buf /\ Errors(b) = Errors(c)
    <3>1. LET y == Yield(c, tokens)
          IN /\ Typed(y) /\ Now(y) = Now(c) /\ y.usage = c.usage /\ y.finished = c.finished
             /\ y.buf = c.buf /\ Errors(y) = Errors(c)
      BY <1>2, YieldEnd
    <3>. QED
      BY <3>1
  <2>. HIDE DEF b
  <2>3. /\ Typed(a) /\ Now(a) = Now(b) /\ LastOf(a.out) = done /\ a.usage = b.usage
        /\ a.finished = b.finished /\ a.buf = b.buf /\ Errors(a) = Errors(b)
    BY <1>2, <2>1, <2>2, YieldEnd
  <2>. QED
    BY <1>2, <1>3, <2>2, <2>3 DEF a
<1>4. CASE ~c.finished /\ c.failed
  <2>1. a = c
    BY <1>4 DEF AfterLoop, Over
  <2>. QED
    BY <1>4, <2>1
<1>5. CASE ~c.finished /\ ~c.failed
  <2>1. a = Yield(c, Failure)
    BY <1>5 DEF AfterLoop, Over
  <2>. HIDE DEF a
  <2>2. /\ Typed(a) /\ Now(a) = Now(c) /\ a.usage = c.usage /\ a.finished = c.finished
        /\ a.buf = c.buf /\ Errors(a) = Errors(c) \cup {Len(a.out)}
    BY <1>2, <2>1, YieldEnd
  <2>. QED
    BY <1>5, <2>2 DEF a
<1>. QED
  BY <1>1, <1>3, <1>4, <1>5

(* What a conversation that has ended after these events owes its client.    *)
Owes(c, es) ==
  /\ Typed(c)
  /\ mode = "stream" =>
       IF HasKind(es, Good) THEN LastOf(c.out).kind = "[DONE]" /\ Errors(c) = {}
       ELSE Errors(c) = {Len(c.out)}
  /\ mode # "responses" /\ c.finished =>
       /\ Now(c) = Said(es)
       /\ c.usage = IF prov = "codex" THEN LastOf(es).val ELSE es[1].val \o LastOf(es).val
  /\ mode = "responses" =>
       /\ c.finished <=> HasKind(es, Good)
       /\ c.items = Kept(es, OfKind(es, {"done", "said"}))
       /\ HasKind(es, {"completed"}) => \A i \in Calls(es) : KeptOnce(c.items, es, i)

LEMMA FollowsTyped ==
  ASSUME NEW c, NEW es, Follows(c, es), mode \in {"stream", "aggregate", "responses"}
  PROVE  /\ Typed(c) /\ ~c.finished /\ ~c.failed /\ c.buf \in Seq(Pieced)
         /\ mode = "responses" => Rebuilt(c.items, es)
         /\ mode # "responses" => Now(c) = Said(es)
         /\ mode = "stream" => Errors(c) = {}
  BY ConvFields DEF Follows, Tracks, Typed, Pieced

(* The body ends, or the connection breaks, before the answer has.           *)
Cut(c) == [IF mode = "stream" THEN Yield(c, Failure) ELSE c EXCEPT !.failed = TRUE]

LEMMA CutOwes ==
  ASSUME NEW c, NEW es, Follows(c, es), mode \in {"stream", "aggregate", "responses"},
         ~HasKind(es, Good), NEW usage \in BOOLEAN, NEW x \in {c, Cut(c)}
  PROVE  /\ mode # "stream" => x.buf = c.buf /\ Owes(x, es)
         /\ mode = "stream" => AfterLoop(x, usage).buf = c.buf /\ Owes(AfterLoop(x, usage), es)
<1>1. /\ Typed(c) /\ ~c.finished /\ ~c.failed
      /\ mode = "responses" => Rebuilt(c.items, es)
      /\ mode = "stream" => Errors(c) = {}
  BY FollowsTyped
<1>2. CASE mode = "stream"
  <2>1. /\ Typed(x) /\ ~x.finished /\ x.buf = c.buf
        /\ \/ ~x.failed /\ Errors(x) = {}
           \/ x.failed /\ Errors(x) = {Len(x.out)}
    <3>1. CASE x = c
      BY <1>1, <1>2, <3>1
    <3>2. CASE x = Cut(c)
      <4>. DEFINE y == Yield(c, Failure)
      <4>1. /\ Typed(y) /\ y.finished = c.finished /\ y.buf = c.buf /\ Errors(y) = {Len(y.out)}
        BY <1>1, <1>2, EndFrames, YieldEnd
      <4>2. x = [y EXCEPT !.failed = TRUE]
        BY <1>2, <3>2 DEF Cut
      <4>. HIDE DEF y
      <4>3. /\ Typed(x) /\ x.failed /\ x.finished = y.finished /\ x.out = y.out /\ x.buf = y.buf
        BY <4>1, <4>2, FailedTyped
      <4>. QED
        BY <1>1, <4>1, <4>3 DEF Errors
    <3>. QED
      BY <3>1, <3>2
  <2>. DEFINE a == AfterLoop(x, usage)
  <2>2. Typed(a) /\ a.finished = x.finished /\ a.buf = x.buf /\ Errors(a) = {Len(a.out)}
    BY <1>2, <2>1, LeftStream
  <2>. HIDE DEF a
  <2>3. Owes(a, es) /\ a.buf = c.buf
    BY <1>2, <2>1, <2>2 DEF Owes
  <2>. QED
    BY <1>2, <2>3 DEF a
<1>3. CASE mode # "stream"
  <2>1. Typed(x) /\ ~x.finished /\ x.buf = c.buf /\ x.items = c.items
    <3>1. CASE x = c
      BY <1>1, <3>1
    <3>2. CASE x = Cut(c)
      <4>1. x = [c EXCEPT !.failed = TRUE]
        BY <1>3, <3>2 DEF Cut
      <4>. QED
        BY <1>1, <4>1, FailedTyped
    <3>. QED
      BY <3>1, <3>2
  <2>2. ~HasKind(es, {"completed"})
    BY DEF HasKind, OfKind, Good
  <2>3. Owes(x, es)
    BY <1>1, <1>3, <2>1, <2>2 DEF Owes, Rebuilt
  <2>. QED
    BY <1>3, <2>1, <2>3
<1>. QED
  BY <1>2, <1>3

Reads == prov \in {"anthropic", "codex"} /\ mode \in {"stream", "aggregate", "responses"}
         /\ (mode = "responses" => prov = "codex")

(* The last event of an answer settles what its client is owed.              *)
LEMMA EventStep ==
  ASSUME NEW es \in Seq(Events), NEW e \in Sends(es), Reads, Numbered(es),
         ~HasKind(es, Good \cup Bad), NEW c, Follows(c, es)
  PROVE  LET a == Apply(c, e)
             longer == Append(es, e)
         IN /\ e \in Events /\ Typed(a) /\ a.buf = c.buf /\ Numbered(longer)
            /\ e.kind \notin Good \cup Bad =>
                 ~Over(a) /\ Follows(a, longer) /\ ~HasKind(longer, Good \cup Bad)
            /\ e.kind \in Good \cup Bad =>
                 /\ Over(a)
                 /\ mode # "stream" => Owes(a, longer)
                 /\ mode = "stream" => \A usage \in BOOLEAN :
                      Owes(AfterLoop(a, usage), longer) /\ AfterLoop(a, usage).buf = c.buf
<1>. DEFINE a == Apply(c, e)
            longer == Append(es, e)
<1>1. prov \in {"anthropic", "codex"} /\ mode \in {"stream", "aggregate", "responses"} /\ e \in Events
  BY SendsCases DEF Reads
<1>2. ~HasKind(es, Good) /\ ~HasKind(es, {"completed"})
  BY DEF HasKind, OfKind, Good
<1>3. /\ longer \in Seq(Events) /\ LastOf(longer) = e
      /\ HasKind(longer, Good) <=> e.kind \in Good
      /\ HasKind(longer, {"completed"}) => e.kind = "completed"
      /\ e.kind \notin Good \cup Bad => ~HasKind(longer, Good \cup Bad)
  <2>1. longer \in Seq(Events) /\ LastOf(longer) = e
    BY <1>1, AppendProperties, FinishAppend
  <2>2. \A kinds : HasKind(longer, kinds) <=> HasKind(es, kinds) \/ e.kind \in kinds
    BY <1>1, KindAppend
  <2>. QED
    BY <1>2, <2>1, <2>2
<1>4. Good \cap Bad = {}
  BY DEF Good, Bad, Stops
<1>5. CASE mode = "responses"
  <2>1. Typed(c) /\ Rebuilt(c.items, es) /\ prov = "codex"
    BY <1>5 DEF Follows, Reads
  <2>2. /\ Typed(a) /\ a.buf = c.buf /\ Rebuilt(a.items, longer)
        /\ a.finished <=> e.kind \in Good
        /\ a.failed <=> e.kind \in Bad
    BY <1>5, <2>1, RebuildStep
  <2>3. Numbered(longer) /\ (e.kind = "completed" => \A i \in Calls(longer) : IsDone(longer, i))
    BY <2>1, RebuiltAppend
  <2>4. Calls(longer) \subseteq Item
    BY <1>3, <2>3, ToolsType DEF Numbered
  <2>. HIDE DEF a, longer
  <2>5. ASSUME HasKind(longer, {"completed"}), NEW i \in Calls(longer)
        PROVE  KeptOnce(a.items, longer, i)
    BY <1>3, <2>2, <2>3, <2>4, <2>5 DEF Rebuilt
  <2>6. Owes(a, longer)
    BY <1>3, <1>5, <2>2, <2>5 DEF Owes, Rebuilt
  <2>7. e.kind \notin Good \cup Bad => ~Over(a) /\ Follows(a, longer)
    BY <1>5, <2>2 DEF Over, Follows
  <2>8. e.kind \in Good \cup Bad => Over(a)
    BY <2>2 DEF Over
  <2>. QED
    BY <1>1, <1>3, <1>5, <2>2, <2>3, <2>6, <2>7, <2>8 DEF a, longer
<1>6. CASE mode # "responses"
  <2>1. Tracks(c, es) /\ mode \in {"stream", "aggregate"}
    BY <1>1, <1>6 DEF Follows
  <2>2. /\ Typed(a) /\ a.buf = c.buf
        /\ e.kind \in Good => Ended(a, es, e)
        /\ e.kind \in Bad => Refused(a)
        /\ e.kind \notin Good \cup Bad => Tracks(a, longer)
    BY <1>1, <1>2, <2>1, Tracked
  <2>3. Numbered(longer)
    <3>1. Mapped(c.tr, es)
      BY <2>1 DEF Tracks
    <3>. QED
      BY <1>1, <3>1, Translated
  <2>. HIDE DEF a, longer
  <2>4. e.kind \notin Good \cup Bad => ~Over(a) /\ Follows(a, longer)
    BY <1>6, <2>2 DEF Over, Follows, Tracks
  <2>5. e.kind \in Good \cup Bad => Over(a)
    BY <2>2 DEF Over, Ended, Refused
  <2>6. ASSUME NEW x, Typed(x), x.finished = a.finished, Now(x) = Now(a), x.usage = a.usage,
               mode = "stream" =>
                 /\ e.kind \in Good => LastOf(x.out).kind = "[DONE]" /\ Errors(x) = {}
                 /\ e.kind \in Bad => Errors(x) = {Len(x.out)},
               e.kind \in Good \cup Bad
        PROVE  Owes(x, longer)
    <3>1. ASSUME x.finished
          PROVE  /\ Now(x) = Said(longer)
                 /\ x.usage = IF prov = "codex" THEN LastOf(longer).val
                              ELSE longer[1].val \o LastOf(longer).val
      <4>1. e.kind \in Good
        BY <2>2, <2>6, <3>1 DEF Refused
      <4>2. Ended(a, es, e)
        BY <2>2, <4>1
      <4>. QED
        BY <1>3, <2>6, <4>2 DEF Ended, longer
    <3>. QED
      BY <1>3, <1>4, <1>6, <2>6, <3>1 DEF Owes
  <2>7. ASSUME e.kind \in Good \cup Bad, mode # "stream" PROVE Owes(a, longer)
    BY <2>2, <2>6, <2>7
  <2>8. ASSUME e.kind \in Good \cup Bad, mode = "stream", NEW usage \in BOOLEAN
        PROVE  Owes(AfterLoop(a, usage), longer) /\ AfterLoop(a, usage).buf = c.buf
    <3>. DEFINE x == AfterLoop(a, usage)
    <3>1. /\ ~a.finished \/ ~a.failed
          /\ e.kind \in Good => a.finished /\ ~a.failed /\ Errors(a) = {}
          /\ e.kind \in Bad => ~a.finished /\ a.failed /\ Errors(a) = {Len(a.out)}
      BY <1>4, <2>2, <2>8 DEF Ended, Refused
    <3>2. /\ Typed(x) /\ Now(x) = Now(a) /\ x.usage = a.usage /\ x.finished = a.finished /\ x.buf = a.buf
          /\ e.kind \in Good => LastOf(x.out).kind = "[DONE]" /\ Errors(x) = {}
          /\ e.kind \in Bad => Errors(x) = {Len(x.out)}
      BY <2>2, <2>8, <3>1, LeftStream
    <3>. HIDE DEF x
    <3>3. Owes(x, longer)
      BY <2>6, <2>8, <3>2
    <3>. QED
      BY <2>2, <3>2, <3>3 DEF x
  <2>. QED
    BY <1>1, <1>3, <2>2, <2>3, <2>4, <2>5, <2>7, <2>8 DEF a, longer
<1>. QED
  BY <1>5, <1>6

(* A buffer more or less does not matter to what was read.                   *)
LEMMA FollowsBuffer ==
  ASSUME NEW c, NEW es, Follows(c, es), Reads, NEW buf \in Seq(Pieced)
  PROVE  LET a == [c EXCEPT !.buf = buf] IN Follows(a, es) /\ a.buf = buf /\ Typed(a)
<1>. DEFINE a == [c EXCEPT !.buf = buf]
<1>1. Typed(c) /\ ~c.finished /\ ~c.failed
  BY FollowsTyped DEF Reads
<1>2. /\ Typed(a) /\ a.buf = buf /\ a.finished = c.finished /\ a.failed = c.failed
      /\ a.tr = c.tr /\ a.usage = c.usage /\ a.items = c.items /\ a.out = c.out /\ a.msg = c.msg
  BY <1>1, ChangedTyped DEF Pieced
<1>. HIDE DEF a
<1>3. Now(a) = Now(c) /\ Errors(a) = Errors(c)
  BY <1>2 DEF Now, Errors
<1>4. Follows(a, es)
  BY <1>1, <1>2, <1>3 DEF Follows, Tracks
<1>. QED
  BY <1>2, <1>4 DEF a

--------------------------------------------------------------------------------
(* The invariant.  Everything sent was lawful; while the conversation goes   *)
(* on the first n events have been read, the loop says what they say, and    *)
(* the pieces that follow them wait; at its end its client has what it is    *)
(* owed for the events that arrived.                                         *)

Lawful ==
  \A k \in 1..Len(sent) :
    sent[k] \in Sends(First(sent, k - 1)) /\ ~HasKind(First(sent, k - 1), Good \cup Bad)
Held(n) ==
  /\ Waits(conv.buf, sent, n) /\ 2 * n + Len(conv.buf) = taken
  /\ Numbered(First(sent, n)) /\ ~HasKind(First(sent, n), Good \cup Bad)
  /\ Follows(conv, First(sent, n))
CInv ==
  /\ Reads
  /\ sent \in Seq(Events) /\ Len(sent) <= MaxEvents
  /\ taken \in 0..2 * Len(sent) /\ open \in BOOLEAN
  /\ Typed(conv)
  /\ Lawful
  /\ open => \E n \in 0..Len(sent) : Held(n)
  /\ ~open => Owes(conv, Arrived)

LEMMA Stay ==
  ASSUME prov' = prov, mode' = mode, NEW c, NEW es
  PROVE  /\ Reads' <=> Reads
         /\ Typed(c)' <=> Typed(c)
         /\ Follows(c, es)' <=> Follows(c, es)
         /\ Owes(c, es)' <=> Owes(c, es)
         /\ Sends(es)' = Sends(es)
<1>1. Typed(c)' <=> Typed(c)
  BY DEF Typed
<1>2. Now(c)' = Now(c)
  BY DEF Now
<1>3. Reads' <=> Reads
  BY DEF Reads
<1>4. Tracks(c, es)' <=> Tracks(c, es)
  BY <1>1, <1>2 DEF Tracks
<1>5. Follows(c, es)' <=> Follows(c, es)
  BY <1>1, <1>4 DEF Follows
<1>6. Owes(c, es)' <=> Owes(c, es)
  BY <1>1, <1>2 DEF Owes
<1>7. Sends(es)' = Sends(es)
  BY DEF Sends
<1>. QED
  BY <1>1, <1>3, <1>5, <1>6, <1>7

(* What of the answer has arrived, by what has been read.                    *)
LEMMA ArrivedFirst ==
  ASSUME sent \in Seq(Events), NEW n \in 0..Len(sent), taken = 2 * n \/ taken = 2 * n + 1
  PROVE  Arrived = First(sent, n) /\ taken % 2 = taken - 2 * n
<1>1. n \in Nat
  BY LenProperties
<1>2. taken \div 2 = n /\ taken % 2 = taken - 2 * n
  BY <1>1
<1>. QED
  BY <1>2 DEF Arrived, First

LEMMA InitInv == Init => CInv
<1>. SUFFICES ASSUME Init PROVE CInv
  OBVIOUS
<1>1. Reads /\ sent = <<>> /\ taken = 0 /\ conv = NewConv /\ open = TRUE
  BY DEF Init, Reads
<1>2. sent \in Seq(Events) /\ Len(sent) = 0 /\ taken \in 0..2 * Len(sent) /\ Len(sent) <= MaxEvents
  BY <1>1, ChatAssumption
<1>3. Follows(conv, <<>>) /\ Typed(conv) /\ conv.buf = <<>>
  BY <1>1, NewFollows DEF Reads
<1>4. First(sent, 0) = <<>>
  <2>1. 0 \in 0..Len(sent)
    BY <1>2
  <2>. QED
    BY <1>2, <2>1, FirstSteps
<1>5. Numbered(<<>>) /\ ~HasKind(<<>>, Good \cup Bad)
  BY NumberedNone DEF HasKind, OfKind
<1>6. Waits(conv.buf, sent, 0)
  BY <1>2, <1>3 DEF Waits
<1>7. Held(0)
  BY <1>1, <1>2, <1>3, <1>4, <1>5, <1>6 DEF Held
<1>. QED
  BY <1>1, <1>2, <1>3, <1>7 DEF CInv, Lawful

LEMMA SendInv == CInv /\ Send => CInv'
<1>. SUFFICES ASSUME CInv, Send PROVE CInv'
  OBVIOUS
<1>1. /\ Reads /\ sent \in Seq(Events) /\ Len(sent) <= MaxEvents /\ taken \in 0..2 * Len(sent)
      /\ Typed(conv) /\ Lawful /\ Len(sent) \in Nat
  BY LenProperties DEF CInv
<1>2. /\ open /\ Len(sent) < MaxEvents /\ ~HasKind(sent, Good \cup Bad)
      /\ prov' = prov /\ mode' = mode /\ taken' = taken /\ conv' = conv /\ open' = open
  BY DEF Send, HasKind, OfKind
<1>3. PICK e \in Sends(sent) : sent' = Append(sent, e)
  BY DEF Send
<1>4. e \in Events
  BY <1>1, SendsCases DEF Reads
<1>5. PICK n \in 0..Len(sent) : Held(n)
  BY <1>2 DEF CInv
<1>6. /\ sent' \in Seq(Events) /\ Len(sent') = Len(sent) + 1 /\ sent'[Len(sent) + 1] = e
      /\ \A k \in 1..Len(sent) : sent'[k] = sent[k]
  BY <1>1, <1>3, <1>4, AppendPlaces
<1>7. \A k \in 0..Len(sent) : First(sent', k) = First(sent, k)
  BY <1>1, <1>3, <1>4, FirstSteps
<1>8. Lawful'
  <2>1. \A k \in 1..Len(sent') : sent'[k] \in Sends(First(sent', k - 1))
                                 /\ ~HasKind(First(sent', k - 1), Good \cup Bad)
    <3>. TAKE k \in 1..Len(sent')
    <3>1. CASE k \in 1..Len(sent)
      <4>1. k - 1 \in 0..Len(sent)
        BY <1>1, <3>1
      <4>. QED
        BY <1>1, <1>6, <1>7, <3>1, <4>1 DEF Lawful
    <3>2. CASE k = Len(sent) + 1
      <4>1. k - 1 = Len(sent) /\ Len(sent) \in 0..Len(sent)
        BY <1>1, <3>2
      <4>2. First(sent', k - 1) = sent
        BY <1>1, <1>7, <4>1, FirstSteps
      <4>. QED
        BY <1>2, <1>3, <1>6, <3>2, <4>2
    <3>. QED
      BY <1>1, <1>6, <3>1, <3>2
  <2>2. \A es : Sends(es)' = Sends(es)
    BY <1>2, Stay
  <2>. QED
    BY <2>1, <2>2 DEF Lawful
<1>9. Held(n)'
  <2>1. /\ Waits(conv.buf, sent, n) /\ 2 * n + Len(conv.buf) = taken
        /\ Numbered(First(sent, n)) /\ ~HasKind(First(sent, n), Good \cup Bad)
        /\ Follows(conv, First(sent, n))
    BY <1>5 DEF Held
  <2>2. Waits(conv.buf, sent', n)
    BY <1>1, <1>3, <1>4, <2>1, WaitsSend
  <2>3. Follows(conv, First(sent, n))'
    <3>1. First(sent, n)' = First(sent, n)
      BY <1>7
    <3>. QED
      BY <1>2, <2>1, <3>1, Stay
  <2>. QED
    BY <1>2, <1>7, <2>1, <2>2, <2>3 DEF Held
<1>10. Reads' /\ Typed(conv)'
  BY <1>1, <1>2, Stay
<1>11. taken' \in 0..2 * Len(sent') /\ Len(sent') <= MaxEvents /\ n \in 0..Len(sent')
  BY <1>1, <1>2, <1>6, ChatAssumption
<1>. QED
  BY <1>2, <1>6, <1>8, <1>9, <1>10, <1>11 DEF CInv

LEMMA ReceiveInv == CInv /\ (\E n \in 1..MaxChunk : Receive(n)) => CInv'
<1>. SUFFICES ASSUME CInv, NEW k \in 1..MaxChunk, Receive(k) PROVE CInv'
  OBVIOUS
<1>1. /\ Reads /\ sent \in Seq(Events) /\ Len(sent) <= MaxEvents /\ taken \in 0..2 * Len(sent)
      /\ Typed(conv) /\ Lawful /\ Len(sent) \in Nat
  BY LenProperties DEF CInv
<1>. DEFINE buf == Push(conv.buf, SubSeq(Pieces(sent), taken + 1, taken + k))
<1>2. /\ open /\ taken + k <= 2 * Len(sent) /\ taken' = taken + k
      /\ conv' = [conv EXCEPT !.buf = buf]
      /\ prov' = prov /\ mode' = mode /\ sent' = sent /\ open' = open
  BY DEF Receive
<1>3. PICK n \in 0..Len(sent) : Held(n)
  BY <1>2 DEF CInv
<1>4. /\ Waits(conv.buf, sent, n) /\ 2 * n + Len(conv.buf) = taken
      /\ Numbered(First(sent, n)) /\ ~HasKind(First(sent, n), Good \cup Bad)
      /\ Follows(conv, First(sent, n))
  BY <1>3 DEF Held
<1>5. k \in Nat /\ taken \in Nat /\ taken + k \in 0..2 * Len(sent)
  BY <1>1, <1>2, ChatAssumption
<1>6. Waits(buf, sent, n) /\ 2 * n + Len(buf) = taken + k
  BY <1>1, <1>2, <1>4, <1>5, WaitsReceive
<1>. HIDE DEF buf
<1>7. buf \in Seq(Pieced)
  BY <1>6 DEF Waits
<1>8. Follows(conv', First(sent, n)) /\ conv'.buf = buf /\ Typed(conv')
  BY <1>1, <1>2, <1>4, <1>7, FollowsBuffer
<1>9. Reads' /\ Typed(conv)' /\ Follows(conv, First(sent, n))' /\ \A es : Sends(es)' = Sends(es)
  <2>1. First(sent, n)' = First(sent, n)
    BY <1>2
  <2>. QED
    BY <1>1, <1>2, <1>8, <2>1, Stay
<1>10. Lawful'
  BY <1>1, <1>2, <1>9 DEF Lawful
<1>11. Held(n)'
  BY <1>2, <1>4, <1>6, <1>8, <1>9 DEF Held
<1>. QED
  BY <1>1, <1>2, <1>5, <1>9, <1>10, <1>11 DEF CInv

(* How a conversation that is left stands.                                   *)
LEMMA LeaveInv ==
  ASSUME CInv, NEW c, Leave(c), NEW n \in 0..Len(sent), UNCHANGED <<prov, mode, sent, taken>>,
         taken = 2 * n \/ taken = 2 * n + 1,
         mode # "stream" => Owes(c, First(sent, n)),
         mode = "stream" => \A usage \in BOOLEAN : Owes(AfterLoop(c, usage), First(sent, n))
  PROVE  CInv'
<1>1. /\ Reads /\ sent \in Seq(Events) /\ Len(sent) <= MaxEvents /\ taken \in 0..2 * Len(sent)
      /\ Lawful /\ Len(sent) \in Nat
  BY LenProperties DEF CInv
<1>2. Arrived = First(sent, n)
  BY <1>1, ArrivedFirst
<1>3. open' = FALSE /\ Owes(conv', Arrived)
  <2>1. CASE mode = "stream"
    BY <1>2, <2>1 DEF Leave
  <2>2. CASE mode # "stream"
    BY <1>2, <2>2 DEF Leave
  <2>. QED
    BY <2>1, <2>2
<1>4. Owes(conv, Arrived)'
  <2>1. Arrived' = Arrived
    BY DEF Arrived
  <2>. QED
    BY <1>3, <2>1, Stay
<1>5. Reads' /\ Typed(conv)' /\ \A es : Sends(es)' = Sends(es)
  <2>1. Typed(conv')
    BY <1>3 DEF Owes
  <2>. QED
    BY <1>1, <2>1, Stay
<1>6. Lawful'
  BY <1>1, <1>5 DEF Lawful
<1>. QED
  BY <1>1, <1>3, <1>4, <1>5, <1>6 DEF CInv

LEMMA NextEventInv == CInv /\ NextEvent => CInv'
<1>. SUFFICES ASSUME CInv, NextEvent PROVE CInv'
  OBVIOUS
<1>1. /\ Reads /\ sent \in Seq(Events) /\ Len(sent) <= MaxEvents /\ taken \in 0..2 * Len(sent)
      /\ Typed(conv) /\ Lawful /\ Len(sent) \in Nat /\ taken \in Nat
  BY LenProperties DEF CInv
<1>. DEFINE c0 == [conv EXCEPT !.buf = Rest(conv.buf)]
            e == BlockAt(conv.buf, Boundary(conv.buf))
            a == Apply(c0, e)
<1>2. /\ open /\ Ends(conv.buf) # {}
      /\ IF Over(a) THEN Leave(a) ELSE conv' = a /\ open' = open
      /\ prov' = prov /\ mode' = mode /\ sent' = sent /\ taken' = taken
  BY DEF NextEvent
<1>3. PICK n \in 0..Len(sent) : Held(n)
  BY <1>2 DEF CInv
<1>. DEFINE es == First(sent, n)
            longer == Append(es, e)
<1>4. /\ Waits(conv.buf, sent, n) /\ 2 * n + Len(conv.buf) = taken
      /\ Numbered(es) /\ ~HasKind(es, Good \cup Bad) /\ Follows(conv, es)
  BY <1>3 DEF Held
<1>5. /\ n + 1 \in 1..Len(sent) /\ Len(conv.buf) >= 2 /\ Len(conv.buf) \in Nat /\ e = sent[n + 1]
      /\ Waits(Rest(conv.buf), sent, n + 1) /\ Len(Rest(conv.buf)) = Len(conv.buf) - 2
  BY <1>1, <1>2, <1>4, WaitsWhole
<1>6. e \in Sends(es) /\ es \in Seq(Events) /\ longer = First(sent, n + 1)
  <2>1. (n + 1) - 1 = n /\ n + 1 <= Len(sent)
    BY <1>1, <1>5
  <2>2. sent[n + 1] \in Sends(First(sent, n))
    BY <1>1, <1>5, <2>1 DEF Lawful
  <2>. QED
    BY <1>1, <1>5, <2>1, <2>2, FirstFacts, FirstSteps
<1>7. Follows(c0, es) /\ c0.buf = Rest(conv.buf) /\ Typed(c0)
  <2>1. Rest(conv.buf) \in Seq(Pieced)
    BY <1>5 DEF Waits
  <2>. QED
    BY <1>1, <1>4, <2>1, FollowsBuffer
<1>. HIDE DEF e, c0, es
<1>8. /\ e \in Events /\ Typed(a) /\ a.buf = c0.buf /\ Numbered(longer)
      /\ e.kind \notin Good \cup Bad =>
           ~Over(a) /\ Follows(a, longer) /\ ~HasKind(longer, Good \cup Bad)
      /\ e.kind \in Good \cup Bad =>
           /\ Over(a)
           /\ mode # "stream" => Owes(a, longer)
           /\ mode = "stream" => \A usage \in BOOLEAN :
                Owes(AfterLoop(a, usage), longer) /\ AfterLoop(a, usage).buf = c0.buf
  BY <1>1, <1>4, <1>6, <1>7, EventStep
<1>. HIDE DEF a
<1>9. n + 1 \in 0..Len(sent)
  BY <1>1, <1>5
<1>10. CASE e.kind \in Good \cup Bad
  <2>1. HasKind(longer, Good \cup Bad)
    BY <1>6, <1>8, <1>10, KindAppend
  <2>2. Len(sent) = n + 1
    <3>. SUFFICES ASSUME Len(sent) # n + 1 PROVE FALSE
      OBVIOUS
    <3>1. n + 2 \in 1..Len(sent) /\ (n + 2) - 1 = n + 1
      BY <1>1, <1>5
    <3>2. ~HasKind(First(sent, n + 1), Good \cup Bad)
      BY <1>1, <3>1 DEF Lawful
    <3>. QED
      BY <1>6, <2>1, <3>2
  <2>3. taken = 2 * (n + 1)
    <3>. DEFINE b == Len(conv.buf)
                m == Len(sent)
    <3>1. b \in Nat /\ b >= 2 /\ 2 * n + b = taken /\ taken \in 0..2 * m /\ m = n + 1
      BY <1>1, <1>4, <1>5, <2>2
    <3>2. n \in Nat
      OBVIOUS
    <3>. HIDE DEF b, m
    <3>. QED
      BY <3>1, <3>2
  <2>4. Leave(a)
    BY <1>2, <1>8, <1>10
  <2>5. /\ mode # "stream" => Owes(a, First(sent, n + 1))
        /\ mode = "stream" => \A usage \in BOOLEAN : Owes(AfterLoop(a, usage), First(sent, n + 1))
    BY <1>6, <1>8, <1>10
  <2>. QED
    BY <1>2, <1>9, <2>3, <2>4, <2>5, LeaveInv
<1>11. CASE e.kind \notin Good \cup Bad
  <2>1. conv' = a /\ open' = open
    BY <1>2, <1>8, <1>11
  <2>2. Reads' /\ Typed(conv)' /\ Follows(conv, First(sent, n + 1))' /\ \A s : Sends(s)' = Sends(s)
    <3>1. First(sent, n + 1)' = First(sent, n + 1)
      BY <1>2
    <3>2. Typed(a) /\ Follows(a, First(sent, n + 1))
      BY <1>6, <1>8, <1>11
    <3>. QED
      BY <1>1, <1>2, <2>1, <3>1, <3>2, Stay
  <2>3. Lawful'
    BY <1>1, <1>2, <2>2 DEF Lawful
  <2>4. Waits(conv'.buf, sent, n + 1) /\ 2 * (n + 1) + Len(conv'.buf) = taken
    <3>1. conv'.buf = Rest(conv.buf)
      BY <1>7, <1>8, <2>1
    <3>. DEFINE b == Len(conv.buf)
                r == Len(Rest(conv.buf))
    <3>2. b \in Nat /\ r = b - 2 /\ 2 * n + b = taken
      BY <1>4, <1>5
    <3>3. n \in Nat
      OBVIOUS
    <3>. HIDE DEF b, r
    <3>4. 2 * (n + 1) + r = taken
      BY <3>2, <3>3
    <3>. QED
      BY <1>5, <3>1, <3>4 DEF r
  <2>5. Numbered(First(sent, n + 1)) /\ ~HasKind(First(sent, n + 1), Good \cup Bad)
    BY <1>6, <1>8, <1>11
  <2>6. Held(n + 1)'
    BY <1>2, <2>2, <2>4, <2>5 DEF Held
  <2>. QED
    BY <1>1, <1>2, <1>9, <2>1, <2>2, <2>3, <2>6 DEF CInv
<1>. QED
  BY <1>10, <1>11

LEMMA CutInv == CInv /\ (Broken \/ EndOfBody) => CInv'
<1>. SUFFICES ASSUME CInv, Broken \/ EndOfBody PROVE CInv'
  OBVIOUS
<1>1. /\ Reads /\ sent \in Seq(Events) /\ Len(sent) \in Nat /\ taken \in Nat
      /\ mode \in {"stream", "aggregate", "responses"}
  BY LenProperties DEF CInv, Reads
<1>2. PICK x \in {conv, Cut(conv)} : Leave(x)
  BY DEF Broken, EndOfBody, Cut
<1>3. open /\ Ends(conv.buf) = {} /\ UNCHANGED <<prov, mode, sent, taken>>
  BY DEF Broken, EndOfBody
<1>4. PICK n \in 0..Len(sent) : Held(n)
  BY <1>3 DEF CInv
<1>5. /\ Waits(conv.buf, sent, n) /\ 2 * n + Len(conv.buf) = taken
      /\ ~HasKind(First(sent, n), Good \cup Bad) /\ Follows(conv, First(sent, n))
  BY <1>4 DEF Held
<1>6. Len(conv.buf) \in Nat /\ Len(conv.buf) <= 1
  BY <1>1, <1>3, <1>5, WaitsWhole
<1>7. taken = 2 * n \/ taken = 2 * n + 1
  <2>. DEFINE b == Len(conv.buf)
  <2>1. b \in Nat /\ b <= 1 /\ 2 * n + b = taken
    BY <1>5, <1>6
  <2>2. n \in Nat
    OBVIOUS
  <2>. HIDE DEF b
  <2>. QED
    BY <2>1, <2>2
<1>8. ~HasKind(First(sent, n), Good)
  BY <1>5 DEF HasKind, OfKind
<1>9. /\ mode # "stream" => Owes(x, First(sent, n))
      /\ mode = "stream" => \A usage \in BOOLEAN : Owes(AfterLoop(x, usage), First(sent, n))
  <2>1. \A usage \in BOOLEAN :
          /\ mode # "stream" => Owes(x, First(sent, n))
          /\ mode = "stream" => Owes(AfterLoop(x, usage), First(sent, n))
    BY <1>1, <1>2, <1>5, <1>8, CutOwes
  <2>. QED
    BY <2>1
<1>. QED
  BY <1>2, <1>3, <1>7, <1>9, LeaveInv

LEMMA StutterInv == CInv /\ UNCHANGED vars => CInv'
<1>. SUFFICES ASSUME CInv, UNCHANGED vars PROVE CInv'
  OBVIOUS
<1>1. UNCHANGED <<prov, mode, sent, taken, conv, open>>
  BY DEF vars
<1>2. Arrived' = Arrived /\ \A n : First(sent, n)' = First(sent, n)
  BY <1>1 DEF Arrived
<1>3. /\ Reads' /\ Typed(conv)' /\ \A es : Sends(es)' = Sends(es)
      /\ \A es : Follows(conv, es)' <=> Follows(conv, es)
      /\ ~open => Owes(conv, Arrived)'
  BY <1>1, <1>2, Stay DEF CInv
<1>4. Lawful'
  BY <1>1, <1>3 DEF CInv, Lawful
<1>5. \A n : Held(n) => Held(n)'
  BY <1>1, <1>2, <1>3 DEF Held
<1>. QED
  BY <1>1, <1>3, <1>4, <1>5 DEF CInv

--------------------------------------------------------------------------------
(***************************************************************************)
(* For every bound: what was sent follows the upstreams' protocols, what   *)
(* was read has been told, and at the end of a conversation, whichever of  *)
(* the three loops it was and wherever the bytes were cut, the client has  *)
(* what it is owed.                                                        *)
(***************************************************************************)
THEOREM Invariance == Spec => []CInv
<1>1. CInv /\ [Next]_vars => CInv'
  BY SendInv, ReceiveInv, NextEventInv, CutInv, StutterInv DEF Next
<1>. QED
  BY <1>1, InitInv, PTL DEF Spec

(* The translators, the loops and the collector keep their variables typed:  *)
(* no event makes a delta for a tool call that has no place.                 *)
THEOREM TypeCorrect == Spec => []TypeOK
<1>1. CInv => TypeOK
  BY DEF CInv, Reads, Typed, TypeOK
<1>. QED
  BY <1>1, Invariance, PTL

(* "[DONE]" is told exactly when the upstream's answer arrived to its end,   *)
(* and every other stream ends with its only error (stream_response).        *)
THEOREM DoneRight == Spec => []DoneMeansWhole
<1>1. CInv => DoneMeansWhole
  <2>. SUFFICES ASSUME CInv, ~open, mode = "stream" PROVE DoneMeansWhole
    BY DEF DoneMeansWhole
  <2>1. IF HasKind(Arrived, Good) THEN LastOf(conv.out).kind = "[DONE]" /\ Errors(conv) = {}
        ELSE Errors(conv) = {Len(conv.out)}
    BY DEF CInv, Owes
  <2>2. Errors(conv) = {k \in DOMAIN conv.out : conv.out[k].kind = "error"}
    BY DEF Errors, OfKind
  <2>. QED
    BY <2>1, <2>2 DEF DoneMeansWhole
<1>. QED
  BY <1>1, Invariance, PTL

(* Streamed, collected or rebuilt, the client has each text, each call and   *)
(* its arguments once and in order, the usage and the finish_reason, but for *)
(* what CallArgs leaves out (stream_response, aggregate_response,            *)
(* aggregate_responses).                                                     *)
THEOREM AnswerRight == Spec => []ClientHasAnswer
<1>1. CInv => AnswerIsWhole
  BY DEF CInv, Owes, AnswerIsWhole, Answer, Now
<1>2. CInv => ResponsesWhole
  BY DEF CInv, Owes, ResponsesWhole, KeptOnce
<1>3. CInv => ToolsAnnounced
  BY DEF CInv, Typed, Announced, ToolsAnnounced
<1>4. CInv => ClientHasAnswer
  BY <1>1, <1>2, <1>3 DEF ClientHasAnswer
<1>. QED
  BY <1>4, Invariance, PTL

(* Between chunks all that has arrived whole has been told to the client,    *)
(* and no more than half an event waits (SseDecoder::next_event).            *)
THEOREM NothingWaits == Spec => []NothingHeld
<1>1. CInv => NothingHeld
  <2>. SUFFICES ASSUME CInv, open, Ends(conv.buf) = {}
                PROVE  Len(conv.buf) = taken % 2 /\ (mode # "responses" => Answer = Said(Arrived))
    BY DEF NothingHeld
  <2>1. /\ sent \in Seq(Events) /\ mode \in {"stream", "aggregate", "responses"}
    BY DEF CInv, Reads
  <2>2. PICK n \in 0..Len(sent) : Held(n)
    BY DEF CInv
  <2>3. /\ Waits(conv.buf, sent, n) /\ 2 * n + Len(conv.buf) = taken /\ Follows(conv, First(sent, n))
    BY <2>2 DEF Held
  <2>4. Len(conv.buf) \in Nat /\ Len(conv.buf) <= 1
    BY <2>1, <2>3, WaitsWhole
  <2>. DEFINE b == Len(conv.buf)
  <2>5. b \in Nat /\ b <= 1 /\ 2 * n + b = taken
    BY <2>3, <2>4
  <2>6. n \in Nat
    OBVIOUS
  <2>. HIDE DEF b
  <2>7. (taken = 2 * n \/ taken = 2 * n + 1) /\ taken - 2 * n = b
    BY <2>5, <2>6
  <2>8. Arrived = First(sent, n) /\ taken % 2 = taken - 2 * n
    BY <2>1, <2>7, ArrivedFirst
  <2>9. mode # "responses" => Answer = Said(First(sent, n))
    BY <2>1, <2>3, FollowsTyped DEF Answer, Now
  <2>. QED
    BY <2>7, <2>8, <2>9 DEF b
<1>. QED
  BY <1>1, Invariance, PTL
================================================================================
