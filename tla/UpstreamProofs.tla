------------------------------ MODULE UpstreamProofs ------------------------------
(***************************************************************************)
(* What goes to the upstreams and what comes of it: the version the proxy  *)
(* says it has, for any number of readers and any versions; where a        *)
(* request goes and with which body and headers; which answer is the       *)
(* client's; what a credential is after any refreshes; what the options of *)
(* a chat request mean to either API; what is counted of an answer; and    *)
(* what becomes of a conversation.                                         *)
(***************************************************************************)
EXTENDS VersionCache, MCFunctions, SequenceTheorems, FiniteSetTheorems,
        WellFoundedInduction, TLAPS

(* Whoever is between taking a mutex and giving it back is its holder. *)
LocksHeld ==
  /\ \A t \in Thread : pc[t] \in {"learned", "compute"} <=> cacheLock = t
  /\ learnedLock \in {Probe, NoThread}
  /\ pc[Probe] = "clear" <=> learnedLock = Probe

(* A reader computes from the learned release, unless the probe has just     *)
(* replaced it and is about to clear the cache.                              *)
SeenIsLearned ==
  \A t \in Thread : pc[t] = "compute" /\ learnedLock = NoThread => seen[t] = learned

Backoff == retry = 0 \/ retry \in RetryMin..Interval

VInv == TypeOK /\ LocksHeld /\ SeenIsLearned /\ Backoff /\ LearnedIsServed

--------------------------------------------------------------------------------

(* Max of versions is one of them and not below any. *)
LEMMA MaxOfThree ==
  ASSUME NEW a \in Version, NEW b \in Version, NEW c \in Version
  PROVE  /\ Max({a, b, c}) \in Version
         /\ Max({a, b, c}) >= a /\ Max({a, b, c}) >= b /\ Max({a, b, c}) >= c
<1>. USE VersionAssumption DEF Version
<1>1. PICK m \in {a, b, c} : \A y \in {a, b, c} : m >= y
  <2>1. CASE a >= b /\ a >= c
    BY <2>1
  <2>2. CASE b >= a /\ b >= c
    BY <2>2
  <2>3. CASE c >= a /\ c >= b
    BY <2>3
  <2>. QED
    BY <2>1, <2>2, <2>3
<1>2. Max({a, b, c}) \in {a, b, c} /\ \A y \in {a, b, c} : Max({a, b, c}) >= y
  BY <1>1 DEF Max
<1>. QED
  BY <1>2

(* The wait after a failure is longer than the one before, or the cap. *)
LEMMA NextRetryGrows ==
  ASSUME NEW prev \in Nat, prev = 0 \/ prev \in RetryMin..Interval
  PROVE  /\ NextRetry(prev) \in RetryMin..Interval
         /\ NextRetry(prev) > prev \/ NextRetry(prev) = Interval
<1>. USE VersionAssumption
<1>1. CASE prev = 0
  BY <1>1 DEF NextRetry
<1>2. CASE prev \in RetryMin..Interval
  <2>1. PICK m \in {prev * 2, Interval} : \A y \in {prev * 2, Interval} : m <= y
    <3>1. CASE prev * 2 <= Interval
      BY <1>2, <3>1
    <3>2. CASE Interval <= prev * 2
      BY <1>2, <3>2
    <3>. QED
      BY <1>2, <3>1, <3>2
  <2>2. Min({prev * 2, Interval}) \in {prev * 2, Interval}
          /\ \A y \in {prev * 2, Interval} : Min({prev * 2, Interval}) <= y
    BY <2>1 DEF Min
  <2>3. NextRetry(prev) \in {prev * 2, Interval} /\ NextRetry(prev) <= prev * 2
          /\ NextRetry(prev) <= Interval
    BY <1>2, <2>2 DEF NextRetry
  <2>. QED
    BY <1>2, <2>3
<1>. QED
  BY <1>1, <1>2

--------------------------------------------------------------------------------

LEMMA InitVInv == Init => VInv
<1>. SUFFICES ASSUME Init PROVE VInv
  OBVIOUS
<1>. USE VersionAssumption DEF Init, Thread, Version
<1>1. TypeOK
  <2>1. Floor \in Version /\ 0 \in Version /\ 0 \in 0..Interval
    OBVIOUS
  <2>2. pc \in [Thread -> PC] /\ seen \in [Thread -> Version]
    BY <2>1 DEF PC
  <2>. QED
    BY <2>1, <2>2 DEF TypeOK
<1>2. LocksHeld
  BY DEF LocksHeld
<1>3. SeenIsLearned /\ Backoff /\ LearnedIsServed
  BY DEF SeenIsLearned, Backoff, LearnedIsServed
<1>. QED
  BY <1>1, <1>2, <1>3 DEF VInv

LEMMA NextVInv == VInv /\ [Next]_vars => VInv'
<1>. SUFFICES ASSUME VInv, [Next]_vars PROVE VInv'
  OBVIOUS
<1>. USE VersionAssumption
     DEF VInv, TypeOK, PC, LocksHeld, SeenIsLearned, Backoff, LearnedIsServed, Goto, AfterGet,
         locks, world, Thread, Version
<1>1. ASSUME NEW t \in Thread, Begin(t) PROVE VInv'
  BY <1>1 DEF Begin
<1>2. ASSUME NEW t \in Thread, LockCache(t) PROVE VInv'
  <2>1. CASE cache # 0 /\ ~expired /\ Goto(t, AfterGet(t)) /\ UNCHANGED cacheLock
    BY <1>2, <2>1 DEF LockCache
  <2>2. CASE Goto(t, "learned") /\ cacheLock' = t
    BY <1>2, <2>2 DEF LockCache
  <2>. QED
    BY <1>2, <2>1, <2>2 DEF LockCache
<1>3. ASSUME NEW t \in Thread, CloneLearned(t) PROVE VInv'
  BY <1>3 DEF CloneLearned
<1>4. ASSUME NEW t \in Thread, Compute(t) PROVE VInv'
  <2>1. cache' \in Version /\ cache' >= seen[t]
    BY <1>4, MaxOfThree DEF Compute
  <2>2. TypeOK' /\ Backoff'
    <3>1. pc' \in [Thread -> PC] /\ seen' \in [Thread -> Version]
      <4>1. AfterGet(t) \in PC /\ 0 \in Version
        OBVIOUS
      <4>. QED
        BY <1>4, <4>1 DEF Compute
    <3>2. cacheLock' = NoThread /\ expired' = FALSE
            /\ UNCHANGED <<learnedLock, learned, installed, latest, tag, retry>>
      BY <1>4 DEF Compute
    <3>. QED
      BY <2>1, <3>1, <3>2
  <2>3. LocksHeld'
    <3>1. cacheLock = t /\ cacheLock' = NoThread /\ learnedLock' = learnedLock
      BY <1>4 DEF Compute
    <3>2. \A u \in Thread : pc'[u] = IF u = t THEN AfterGet(t) ELSE pc[u]
      BY <1>4 DEF Compute
    <3>3. \A u \in Thread : pc'[u] \notin {"learned", "compute"} /\ cacheLock' # u
      BY <3>1, <3>2
    <3>4. pc'[Probe] = "clear" <=> pc[Probe] = "clear"
      BY <1>4, <3>2 DEF Compute
    <3>. QED
      BY <3>1, <3>3, <3>4
  <2>4. SeenIsLearned'
    BY <1>4 DEF Compute
  <2>5. LearnedIsServed'
    BY <1>4, <2>1 DEF Compute
  <2>. QED
    BY <2>2, <2>3, <2>4, <2>5
<1>5. CASE Wake
  BY <1>5 DEF Wake
<1>6. CASE Told
  BY <1>6 DEF Told
<1>7. CASE Failed
  <2>1. retry' \in RetryMin..Interval
    BY <1>7, NextRetryGrows DEF Failed
  <2>. QED
    BY <1>7, <2>1 DEF Failed
<1>8. CASE LockLearned
  <2>1. CASE learned = tag
    BY <1>8, <2>1 DEF LockLearned
  <2>2. CASE learned # tag
    BY <1>8, <2>2 DEF LockLearned
  <2>. QED
    BY <2>1, <2>2
<1>9. CASE Clear
  BY <1>9 DEF Clear
<1>10. CASE Expire
  BY <1>10 DEF Expire
<1>11. CASE Upgrade
  BY <1>11 DEF Upgrade
<1>12. CASE Release
  BY <1>12 DEF Release
<1>13. CASE UNCHANGED vars
  BY <1>13 DEF vars
<1>. QED
  BY <1>1, <1>2, <1>3, <1>4, <1>5, <1>6, <1>7, <1>8, <1>9, <1>10, <1>11, <1>12, <1>13
     DEF Next, Get, Learn

--------------------------------------------------------------------------------

(* provider.rs:166-241: who holds which mutex and from what a version is     *)
(* computed, the invariant the following theorems rest on.                   *)
THEOREM Invariance == Spec => []VInv
BY InitVInv, NextVInv, PTL DEF Spec

(* Every variable keeps its type; in particular the backoff never exceeds    *)
(* the hour between two probes.                                              *)
THEOREM TypeCorrect == Spec => []TypeOK
<1>1. VInv => TypeOK
  BY DEF VInv
<1>. QED
  BY <1>1, Invariance, PTL

(* provider.rs:193: a learned release is never hidden by an older version in *)
(* the cache, whatever readers were computing when it was learned.           *)
THEOREM NothingOlder == Spec => []LearnedIsServed
<1>1. VInv => LearnedIsServed
  BY DEF VInv
<1>. QED
  BY <1>1, Invariance, PTL

(* main.rs:164: each failure of the probe makes it wait longer, up to the    *)
(* hour.                                                                     *)
THEOREM BacksOff == Spec => ProbeBacksOff
<1>. DEFINE Longer ==
       retry' # 0 /\ pc[Probe] # "idle" /\ pc'[Probe] = "idle" =>
         retry' \in RetryMin..Interval /\ (retry' > retry \/ retry' = Interval)
<1>1. VInv /\ [Next]_vars => [Longer]_vars
  <2>. SUFFICES ASSUME VInv, Next PROVE Longer
    BY DEF vars
  <2>. USE VersionAssumption DEF VInv, TypeOK, PC, Backoff, Goto, AfterGet, Thread
  <2>1. CASE Failed
    BY <2>1, NextRetryGrows DEF Failed
  <2>2. CASE Wake \/ Told \/ LockLearned \/ Clear
    BY <2>2 DEF Wake, Told, LockLearned, Clear
  <2>3. ASSUME NEW t \in Thread, Begin(t) \/ Get(t) PROVE Longer
    BY <2>3 DEF Begin, Get, LockCache, CloneLearned, Compute
  <2>4. CASE Expire \/ Upgrade \/ Release
    BY <2>4 DEF Expire, Upgrade, Release
  <2>. QED
    BY <2>1, <2>2, <2>3, <2>4 DEF Next, Learn
<1>. QED
  BY <1>1, Invariance, PTL DEF Spec, ProbeBacksOff

--------------------------------------------------------------------------------
(* Where a request goes, for any path. *)

(* A path with n times /v1 before it. *)
Under(n, path) == [k \in 1..n |-> "v1"] \o path

(* strip_v1 takes them all away, and nothing else. *)
LEMMA Stripped ==
  ASSUME NEW n \in Nat, NEW Names, NEW p \in Seq(Names), p # <<>>, p[1] # "v1"
  PROVE  StripV1(Under(n, p)) = p
<1>. DEFINE pre == [k \in 1..n |-> "v1"]
            path == pre \o p
            other == {i \in DOMAIN path : path[i] # "v1"}
            m == Len(p)
<1>1. pre \in Seq(Names \cup {"v1"}) /\ p \in Seq(Names \cup {"v1"}) /\ Len(pre) = n
  OBVIOUS
<1>2. m \in Nat /\ m >= 1 
  BY EmptySeq, LenProperties
<1>3. /\ path \in Seq(Names \cup {"v1"}) /\ Len(path) = n + m
      /\ \A i \in 1..(n + m) : path[i] = IF i <= n THEN pre[i] ELSE p[i - n]
  BY <1>1, ConcatProperties
<1>4. DOMAIN path = 1..(n + m)
  BY <1>3, LenProperties
<1>. HIDE DEF path, m
<1>5. n + 1 \in other /\ \A j \in other : n + 1 <= j
  <2>1. path[n + 1] = p[1] /\ n + 1 \in 1..(n + m)
    BY <1>2, <1>3
  <2>2. \A j \in 1..n : path[j] = "v1"
    BY <1>2, <1>3
  <2>. QED
    BY <1>2, <1>4, <2>1, <2>2
<1>. HIDE DEF other
<1>6. (CHOOSE i \in other : \A j \in other : i <= j) = n + 1
  <2>1. other \subseteq Nat
    BY <1>2, <1>4 DEF other
  <2>2. \A i \in other : (\A j \in other : i <= j) => i = n + 1
    BY <1>5, <2>1
  <2>. QED
    BY <1>5, <2>2
<1>7. SubSeq(path, n + 1, n + m) = p
  <2>1. SubSeq(path, n + 1, n + m) \in Seq(Names \cup {"v1"})
        /\ Len(SubSeq(path, n + 1, n + m)) = m
        /\ \A i \in 1..m : SubSeq(path, n + 1, n + m)[i] = path[n + i]
    <3>. DEFINE tail == SubSeq(path, n + 1, n + m)
    <3>1. /\ tail \in Seq(Names \cup {"v1"}) /\ Len(tail) = (n + m) - (n + 1) + 1
          /\ \A i \in 1..((n + m) - (n + 1) + 1) : tail[i] = path[(n + 1) + i - 1]
      <4>. DEFINE a == n + 1
                  z == n + m
      <4>1. a \in Int /\ z \in Int /\ a <= z
        BY <1>2
      <4>2. \A i \in a..z : path[i] \in Names \cup {"v1"}
        <5>1. \A i \in 1..(n + m) : path[i] \in Names \cup {"v1"}
          BY <1>3, ElementOfSeq
        <5>. QED
          BY <1>2, <5>1
      <4>. HIDE DEF a, z
      <4>3. /\ SubSeq(path, a, z) \in Seq(Names \cup {"v1"})
            /\ Len(SubSeq(path, a, z)) = z - a + 1
            /\ \A i \in 1..(z - a + 1) : SubSeq(path, a, z)[i] = path[a + i - 1]
        BY <4>1, <4>2, SubSeqProperties
      <4>. QED
        BY <4>3 DEF a, z
    <3>2. (n + m) - (n + 1) + 1 = m /\ \A i \in 1..m : (n + 1) + i - 1 = n + i
      BY <1>2
    <3>. HIDE DEF tail
    <3>3. Len(tail) = m /\ \A i \in 1..m : tail[i] = path[n + i]
      BY <3>1, <3>2
    <3>. QED
      BY <3>1, <3>3 DEF tail
  <2>2. \A i \in 1..m : path[n + i] = p[i]
    BY <1>2, <1>3
  <2>. QED
    BY <1>1, <2>1, <2>2, SeqEqual DEF m
<1>8. StripV1(path) = SubSeq(path, n + 1, n + m)
  BY <1>3, <1>5, <1>6 DEF StripV1, other
<1>. QED
  BY <1>7, <1>8 DEF path, Under

(* What it is to be under a path of one or of two segments. *)
LEMMA SubPaths ==
  ASSUME NEW Names, NEW p \in Seq(Names), p # <<>>, NEW a, NEW b
  PROVE  /\ SubPath(p, <<a>>) <=> p[1] = a
         /\ SubPath(p, <<a, b>>) <=> Len(p) >= 2 /\ p[1] = a /\ p[2] = b
<1>. DEFINE S == Names \cup {a, b}
            m == Len(p)
<1>1. p \in Seq(S) /\ <<a>> \in Seq(S) /\ <<a, b>> \in Seq(S) /\ Len(<<a>>) = 1 /\ Len(<<a, b>>) = 2
  OBVIOUS
<1>2. m \in Nat /\ m >= 1
  BY EmptySeq, LenProperties
<1>. HIDE DEF S
<1>3. \A s \in Seq(S) : \A k \in 0..Len(s) :
        /\ SubSeq(s, 1, k) \in Seq(S) /\ Len(SubSeq(s, 1, k)) = k
        /\ \A i \in 1..k : SubSeq(s, 1, k)[i] = s[i]
  BY SubSeqProperties
<1>4. \A s, t \in Seq(S) :
        IsPrefix(s, t) <=> Len(s) <= Len(t) /\ \A i \in 1..Len(s) : s[i] = t[i]
  <2>. SUFFICES ASSUME NEW s \in Seq(S), NEW t \in Seq(S)
                PROVE  IsPrefix(s, t) <=> Len(s) <= Len(t) /\ \A i \in 1..Len(s) : s[i] = t[i]
    OBVIOUS
  <2>1. SubSeq(s, 1, Len(s)) = s
    BY <1>3, SeqEqual, LenProperties
  <2>2. CASE Len(s) <= Len(t)
    <3>. DEFINE h == SubSeq(t, 1, Len(s))
    <3>1. h \in Seq(S) /\ Len(h) = Len(s) /\ \A i \in 1..Len(s) : h[i] = t[i]
      BY <1>3, <2>2, LenProperties
    <3>. HIDE DEF h
    <3>2. s = h <=> \A i \in 1..Len(s) : s[i] = h[i]
      BY <3>1, SeqEqual
    <3>3. IsPrefix(s, t) <=> s = h
      BY <2>1, <2>2 DEF IsPrefix, h
    <3>. QED
      BY <2>2, <3>1, <3>2, <3>3
  <2>3. CASE ~(Len(s) <= Len(t))
    BY <2>3 DEF IsPrefix
  <2>. QED
    BY <2>2, <2>3
<1>5. SubPath(p, <<a>>) <=> Len(p) >= 1 /\ p[1] = a
  <2>1. <<a>>[1] = a
    OBVIOUS
  <2>2. PICK s \in Seq(S) : s = <<a>>
    BY <1>1
  <2>3. IsPrefix(s, p) <=> Len(s) <= Len(p) /\ \A i \in 1..Len(s) : s[i] = p[i]
    BY <1>1, <1>4
  <2>4. Len(s) = 1 /\ s[1] = a
    BY <1>1, <2>1, <2>2
  <2>5. SubPath(p, <<a>>) <=> IsPrefix(s, p)
    BY <2>2 DEF SubPath
  <2>. QED
    BY <1>2, <2>3, <2>4, <2>5
<1>6. SubPath(p, <<a, b>>) <=> Len(p) >= 2 /\ p[1] = a /\ p[2] = b
  <2>1. <<a, b>>[1] = a /\ <<a, b>>[2] = b
    OBVIOUS
  <2>2. PICK s \in Seq(S) : s = <<a, b>>
    BY <1>1
  <2>3. IsPrefix(s, p) <=> Len(s) <= Len(p) /\ \A i \in 1..Len(s) : s[i] = p[i]
    BY <1>1, <1>4
  <2>4. Len(s) = 2 /\ s[1] = a /\ s[2] = b
    BY <1>1, <2>1, <2>2
  <2>5. SubPath(p, <<a, b>>) <=> IsPrefix(s, p)
    BY <2>2 DEF SubPath
  <2>. QED
    BY <1>2, <2>3, <2>4, <2>5
<1>. QED
  BY <1>2, <1>5, <1>6

(* So a request goes where it would go without them. *)
LEMMA AnyVersion ==
  ASSUME NEW n \in Nat, NEW Names, NEW p \in Seq(Names), p # <<>>, p[1] # "v1",
         NEW method, NEW upgrade, NEW headers, NEW model
  PROVE  /\ StripV1(Under(n, p)) = p /\ StripV1(p) = p
         /\ Route(method, Under(n, p), upgrade, headers, model)
              = Route(method, p, upgrade, headers, model)
<1>1. StripV1(Under(n, p)) = p
  BY Stripped
<1>2. StripV1(p) = p
  <2>1. StripV1(Under(0, p)) = p
    BY Stripped
  <2>2. Under(0, p) = p
    BY DEF Under
  <2>. QED
    BY <2>1, <2>2
<1>3. \A m : SurfaceFor(Under(n, p), headers, m) = SurfaceFor(p, headers, m)
  BY <1>1, <1>2 DEF SurfaceFor
<1>4. \A s : Resolve(s, Under(n, p)) = Resolve(s, p)
  BY <1>1, <1>2 DEF Resolve
<1>. QED
  BY <1>1, <1>2, <1>3, <1>4 DEF Route

(* Where an endpoint goes by its path, its headers and its model. *)
Served(to, method, p, headers, model) ==
  LET chosen == IF model # NoModel THEN ModelProvider(model)
                ELSE IF headers THEN "anthropic" ELSE "codex"
  IN /\ p[1] = "messages" => to = [at |-> "anthropic", path |-> <<"v1">> \o p]
     /\ p[1] = "responses" => to = [at |-> "codex", path |-> p]
     /\ Len(p) >= 2 /\ p[1] = "backend-api" /\ p[2] = "codex" =>
          to = [at |-> "codex", path |-> SubSeq(p, 3, Len(p))]
     /\ p = <<"chat", "completions">> /\ method = "POST" =>
          to = [at |-> "chat", path |-> <<chosen>>]
     /\ p = <<"health">> => to = Here("health")
     /\ p = <<"models">> /\ method = "GET" =>
          to = IF headers THEN [at |-> "anthropic", path |-> <<"v1">> \o p]
               ELSE Here("list")

(***************************************************************************)
(* passthrough.rs ENDPOINTS: every endpoint is served with any number of   *)
(* /v1 before it, by the provider whose path or model it is, and reaches   *)
(* it under its official path.  The other way round, a credential of       *)
(* Anthropic's goes to no path but those three and one of Codex's to no    *)
(* path but those two, whatever the client asks for.                       *)
(***************************************************************************)
THEOREM EndpointServed ==
  ASSUME NEW n \in Nat, NEW Names, NEW p \in Seq(Names), p # <<>>, p[1] # "v1",
         NEW method, NEW headers \in BOOLEAN, NEW model
  PROVE  LET to == Route(method, Under(n, p), FALSE, headers, model)
         IN /\ Served(to, method, p, headers, model)
            /\ to.at = "anthropic" =>
                 p[1] \in {"messages", "complete", "models"} /\ to.path = <<"v1">> \o p
            /\ to.at = "codex" =>
                 \/ p[1] = "responses" /\ to.path = p
                 \/ p[1] = "backend-api" /\ to.path = SubSeq(p, 3, Len(p))
<1>. DEFINE to == Route(method, p, FALSE, headers, model)
            chat == <<"chat", "completions">>
            asked == IF p = chat THEN model ELSE NoModel
            surface == SurfaceFor(p, headers, asked)
            list == method = "GET" /\ Dialect(surface, headers) = "openai"
<1>1. Route(method, Under(n, p), FALSE, headers, model) = to /\ StripV1(p) = p
  <2>1. ASSUME NEW m, NEW u, NEW h, NEW d
        PROVE  /\ StripV1(p) = p
               /\ Route(m, Under(n, p), u, h, d) = Route(m, p, u, h, d)
    BY AnyVersion
  <2>. QED
    BY <2>1
<1>2. \A a : SubPath(p, <<a>>) <=> p[1] = a
  BY SubPaths
<1>3. \A a, b : SubPath(p, <<a, b>>) <=> Len(p) >= 2 /\ p[1] = a /\ p[2] = b
  BY SubPaths
<1>4. /\ p = chat => p[1] = "chat"
      /\ p = <<"health">> => p[1] = "health"
      /\ p = <<"models">> => p[1] = "models" /\ Len(p) = 1
  OBVIOUS
<1>5. surface = CASE p[1] = "messages" \/ p[1] = "complete" -> "anthropic"
                  [] p[1] = "responses" -> "codex"
                  [] Len(p) >= 2 /\ p[1] = "backend-api" /\ p[2] = "codex" -> "codex"
                  [] p = chat /\ asked # NoModel -> ModelProvider(asked)
                  [] OTHER -> IF headers THEN "anthropic" ELSE "codex"
  BY <1>1, <1>2, <1>3 DEF SurfaceFor
<1>6. Resolve(surface, p) =
        CASE surface = "anthropic" /\ p[1] \in {"messages", "models", "complete"} ->
               [at |-> "anthropic", path |-> <<"v1">> \o p]
          [] surface = "codex" /\ p[1] = "responses" -> [at |-> "codex", path |-> p]
          [] surface = "codex" /\ Len(p) >= 2 /\ p[1] = "backend-api" /\ p[2] = "codex" ->
               [at |-> "codex", path |-> SubSeq(p, 3, Len(p))]
          [] OTHER -> NotFound
  <2>1. (\E pre \in {"messages", "models", "complete"} : SubPath(p, <<pre>>))
          <=> p[1] \in {"messages", "models", "complete"}
    BY <1>2
  <2>. QED
    BY <1>1, <1>2, <1>3, <2>1 DEF Resolve
<1>7. to = CASE p = <<"health">> -> Here("health")
             [] p = chat /\ method = "POST" -> [at |-> "chat", path |-> <<surface>>]
             [] p = <<"models">> /\ list -> Here("list")
             [] Len(p) > 1 /\ p[1] = "models" /\ list -> Here("model")
             [] OTHER -> Resolve(surface, p)
  BY <1>1, <1>2 DEF Route
<1>. HIDE DEF to, surface
<1>8. Dialect(surface, headers) = "openai" <=> ~(surface = "anthropic" /\ headers)
  BY DEF Dialect
<1>9. p[1] = "messages" => to = [at |-> "anthropic", path |-> <<"v1">> \o p]
  BY <1>4, <1>5, <1>6, <1>7
<1>10. p[1] = "responses" => to = [at |-> "codex", path |-> p]
  BY <1>4, <1>5, <1>6, <1>7
<1>11. Len(p) >= 2 /\ p[1] = "backend-api" /\ p[2] = "codex" =>
         to = [at |-> "codex", path |-> SubSeq(p, 3, Len(p))]
  BY <1>4, <1>5, <1>6, <1>7
<1>12. p = chat /\ method = "POST" =>
         to = [at |-> "chat",
               path |-> <<IF model # NoModel THEN ModelProvider(model)
                          ELSE IF headers THEN "anthropic" ELSE "codex">>]
  BY <1>4, <1>5, <1>7
<1>13. p = <<"health">> => to = Here("health")
  BY <1>7
<1>14. p = <<"models">> /\ method = "GET" =>
         to = IF headers THEN [at |-> "anthropic", path |-> <<"v1">> \o p] ELSE Here("list")
  BY <1>4, <1>5, <1>6, <1>7, <1>8
<1>15. \/ \E what \in {"health", "list", "model"} : to = Here(what)
       \/ to = [at |-> "chat", path |-> <<surface>>]
       \/ to = Resolve(surface, p)
  BY <1>7
<1>16. LET found == Resolve(surface, p)
       IN \/ found = NotFound
          \/ /\ p[1] \in {"messages", "complete", "models"}
             /\ found = [at |-> "anthropic", path |-> <<"v1">> \o p]
          \/ p[1] = "responses" /\ found = [at |-> "codex", path |-> p]
          \/ p[1] = "backend-api" /\ found = [at |-> "codex", path |-> SubSeq(p, 3, Len(p))]
  BY <1>6
<1>17. to.at = "anthropic" =>
         p[1] \in {"messages", "complete", "models"} /\ to.path = <<"v1">> \o p
  BY <1>15, <1>16 DEF Here, NotFound
<1>18. to.at = "codex" => \/ p[1] = "responses" /\ to.path = p
                          \/ p[1] = "backend-api" /\ to.path = SubSeq(p, 3, Len(p))
  BY <1>15, <1>16 DEF Here, NotFound
<1>. QED
  <2>1. Served(to, method, p, headers, model)
    BY <1>9, <1>10, <1>11, <1>12, <1>13, <1>14 DEF Served
  <2>. QED
    BY <1>1, <1>17, <1>18, <2>1

--------------------------------------------------------------------------------
(* What is changed in a body, for any body. *)

(* A JSON object: any keys, and a `system`, a `stream` and an `input` of the *)
(* shapes the code tells apart.                                              *)
Body(b, Text) ==
  /\ b = [k \in DOMAIN b |-> b[k]]
  /\ "system" \in DOMAIN b =>
       b["system"] \in [kind : {"string", "blocks", "odd"}, blocks : Seq(Text)]
  /\ "stream" \in DOMAIN b => b["stream"] \in BOOLEAN
  /\ "input" \in DOMAIN b => b["input"] \in [kind : {"string", "list"}, text : Text]

(***************************************************************************)
(* passthrough.rs `prepare_body` for the Messages API: the prefix of the   *)
(* official client stands first and the client's own blocks follow, once;  *)
(* no sampling parameter is left, the rest is as the client wrote it and   *)
(* to prepare the body again changes nothing.                              *)
(***************************************************************************)
THEOREM MessagesBody ==
  ASSUME NEW Text, Prefix \in Text, NEW b, Body(b, Text)
  PROVE  LET target == [at |-> "anthropic", path |-> <<"v1", "messages">>]
             prepared(x) == Prepare(target, x).body
             body == prepared(b)
             own == System(b).blocks
         IN /\ System(b).kind # "odd" =>
                 /\ body.system.kind = "blocks"
                 /\ Head(body.system.blocks) = Prefix
                 /\ body.system.blocks \in {own, <<Prefix>> \o own}
            /\ DOMAIN body \cap SamplingKeys = {}
            /\ SameBut(body, b, SamplingKeys \cup {"system"})
            /\ prepared(body) = body
<1>. DEFINE target == [at |-> "anthropic", path |-> <<"v1", "messages">>]
            own == System(b).blocks
            blocks == IF own # <<>> /\ own[1] = Prefix THEN own ELSE <<Prefix>> \o own
            inside == InjectPrefix(b)
            body == Without(inside, SamplingKeys)
<1>1. SubPath(target.path, <<"v1", "messages">>)
  BY DEF SubPath, IsPrefix
<1>2. \A x : Prepare(target, x).body = Without(InjectPrefix(x), SamplingKeys)
  BY <1>1 DEF Prepare
<1>3. own \in Seq(Text) /\ System(b).kind \in {"string", "blocks", "odd"}
  BY DEF Body, System, NoSystem
<1>4. /\ blocks \in Seq(Text) /\ blocks # <<>> /\ blocks[1] = Prefix
      /\ Head(blocks) = Prefix
      /\ blocks \in {own, <<Prefix>> \o own}
  BY <1>3
<1>5. "system" \notin SamplingKeys
  BY DEF SamplingKeys
<1>6. CASE System(b).kind = "odd"
  <2>1. inside = b
    BY <1>6 DEF InjectPrefix
  <2>2. "system" \in DOMAIN b
    BY <1>6 DEF System, NoSystem
  <2>3. /\ DOMAIN body = DOMAIN b \ SamplingKeys
        /\ \A k \in DOMAIN body : body[k] = b[k]
        /\ body = [k \in DOMAIN b \ SamplingKeys |-> b[k]]
    BY <2>1 DEF Without, Restrict
  <2>4. System(body).kind = "odd"
    BY <1>5, <1>6, <2>2, <2>3 DEF System
  <2>5. InjectPrefix(body) = body
    BY <2>4 DEF InjectPrefix
  <2>6. Without(body, SamplingKeys) = body
    BY <2>3 DEF Without, Restrict
  <2>7. SameBut(body, b, SamplingKeys \cup {"system"})
    BY <2>3 DEF SameBut, Without, Restrict
  <2>. QED
    BY <1>2, <1>6, <2>1, <2>3, <2>5, <2>6, <2>7
<1>7. CASE System(b).kind # "odd"
  <2>. DEFINE system == [kind |-> "blocks", blocks |-> blocks]
  <2>1. inside = With(b, "system", system)
    BY <1>7 DEF InjectPrefix
  <2>. HIDE DEF blocks, inside, own
  <2>2. /\ DOMAIN inside = DOMAIN b \cup {"system"} /\ inside["system"] = system
        /\ \A k \in DOMAIN b \ {"system"} : inside[k] = b[k]
    BY <2>1 DEF With
  <2>3. /\ DOMAIN body = (DOMAIN b \cup {"system"}) \ SamplingKeys
        /\ \A k \in DOMAIN body : body[k] = inside[k]
        /\ body = [k \in (DOMAIN b \cup {"system"}) \ SamplingKeys |-> inside[k]]
    <3>. HIDE DEF system
    <3>. QED
      BY <2>2 DEF Without, Restrict
  <2>4. "system" \in DOMAIN body /\ body["system"] = system
    BY <1>5, <2>2, <2>3
  <2>5. System(body) = system
    BY <2>4 DEF System
  <2>6. InjectPrefix(body) = With(body, "system", system)
    BY <1>4, <2>5 DEF InjectPrefix
  <2>7. With(body, "system", system) = body
    <3>1. With(body, "system", system) = [k \in DOMAIN body |-> body[k]]
      BY <2>4 DEF With
    <3>. QED
      BY <2>3, <3>1
  <2>8. Without(body, SamplingKeys) = body
    BY <2>3 DEF Without, Restrict
  <2>9. SameBut(body, b, SamplingKeys \cup {"system"})
    BY <2>2, <2>3 DEF SameBut, Without, Restrict
  <2>10. body.system = system
    BY <2>4
  <2>11. /\ body.system.kind = "blocks"
         /\ Head(body.system.blocks) = Prefix
         /\ body.system.blocks \in {own, <<Prefix>> \o own}
    <3>1. system.kind = "blocks" /\ system.blocks = blocks
      OBVIOUS
    <3>. HIDE DEF body, system
    <3>. QED
      BY <1>4, <2>10, <3>1
  <2>12. DOMAIN body \cap SamplingKeys = {}
    BY <2>3
  <2>13. Prepare(target, b).body = body
    BY <1>2 DEF inside
  <2>14. Prepare(target, body).body = body
    BY <1>2, <2>6, <2>7, <2>8
  <2>. HIDE DEF body
  <2>. QED
    BY <2>9, <2>11, <2>12, <2>13, <2>14 DEF own
<1>. QED
  BY <1>6, <1>7

(* What normalize_codex makes of a body b.                                   *)
Normal(b, c) ==
  LET told == {"stream", "store", "instructions"}
  IN /\ c = [k \in DOMAIN c |-> c[k]]
     /\ DOMAIN c = (DOMAIN b \ CodexDropKeys) \cup told
     /\ c["stream"] = TRUE /\ c["store"] = FALSE
     /\ "instructions" \in DOMAIN b => c["instructions"] = b["instructions"]
     /\ "input" \in DOMAIN b => c["input"] = [kind |-> "list", text |-> b["input"].text]
     /\ \A k \in DOMAIN b \ (CodexDropKeys \cup told \cup {"input"}) : c[k] = b[k]

(* And it does. *)
LEMMA Normalized ==
  ASSUME NEW Text, NEW b, Body(b, Text)
  PROVE  Normal(b, NormalizeCodex(b))
<1>. DEFINE drop == CodexDropKeys
            kept == Without(b, drop)
            streamed == With(kept, "stream", TRUE)
            always == With(streamed, "store", FALSE)
            told == IF "instructions" \in DOMAIN b THEN always
                    ELSE With(always, "instructions", "")
            item == [kind |-> "list", text |-> b["input"].text]
            codex == NormalizeCodex(b)
            list == "input" \in DOMAIN b /\ b["input"].kind = "string"
<1>1. codex = IF list THEN With(told, "input", item) ELSE told
  BY DEF NormalizeCodex
<1>2. {"stream", "store", "instructions", "input"} \cap drop = {}
  BY DEF CodexDropKeys
<1>. HIDE DEF drop
<1>3. DOMAIN kept = DOMAIN b \ drop /\ \A k \in DOMAIN kept : kept[k] = b[k]
  BY DEF Without, Restrict
<1>. HIDE DEF kept
<1>4. /\ DOMAIN streamed = DOMAIN kept \cup {"stream"} /\ streamed["stream"] = TRUE
      /\ \A k \in DOMAIN kept \ {"stream"} : streamed[k] = kept[k]
  BY DEF With
<1>. HIDE DEF streamed
<1>5. /\ DOMAIN always = DOMAIN kept \cup {"stream", "store"}
      /\ always["stream"] = TRUE /\ always["store"] = FALSE
      /\ \A k \in DOMAIN kept \ {"stream", "store"} : always[k] = kept[k]
      /\ always = [k \in DOMAIN always |-> always[k]]
  BY <1>4 DEF With
<1>. HIDE DEF always
<1>6. /\ DOMAIN told = DOMAIN kept \cup {"stream", "store", "instructions"}
      /\ told["stream"] = TRUE /\ told["store"] = FALSE
      /\ \A k \in DOMAIN kept \ {"stream", "store"} : told[k] = kept[k]
      /\ told = [k \in DOMAIN told |-> told[k]]
  <2>1. CASE "instructions" \in DOMAIN b
    BY <1>2, <1>3, <1>5, <2>1
  <2>2. CASE "instructions" \notin DOMAIN b
    <3>1. told = With(always, "instructions", "")
      BY <2>2
    <3>. QED
      BY <1>2, <1>3, <1>5, <2>2, <3>1 DEF With
  <2>. QED
    BY <2>1, <2>2
<1>. HIDE DEF told
<1>7. CASE list
  <2>. HIDE DEF item, list
  <2>1. codex = With(told, "input", item)
    BY <1>1, <1>7
  <2>. HIDE DEF codex
  <2>2. "input" \in DOMAIN b /\ "input" \in DOMAIN kept
    BY <1>2, <1>3, <1>7 DEF list
  <2>3. /\ DOMAIN codex = DOMAIN told /\ codex["input"] = item
        /\ \A k \in DOMAIN told \ {"input"} : codex[k] = told[k]
        /\ codex = [k \in DOMAIN codex |-> codex[k]]
    BY <1>6, <2>1, <2>2 DEF With
  <2>. QED
    BY <1>2, <1>3, <1>6, <2>3 DEF Normal, item, codex, drop
<1>8. CASE ~list
  <2>1. codex = told
    BY <1>1, <1>8
  <2>2. "input" \in DOMAIN b => b["input"] = item
    BY <1>8 DEF Body
  <2>. HIDE DEF item, codex, list
  <2>. QED
    BY <1>2, <1>3, <1>6, <2>1, <2>2 DEF Normal, item, codex, drop
<1>. QED
  BY <1>7, <1>8

(***************************************************************************)
(* passthrough.rs `prepare_body` for the Responses API: the body asks for  *)
(* a stream, is not stored, has instructions and a list of items and none  *)
(* of the keys Codex refuses; the rest is as the client wrote it, to       *)
(* prepare it again changes nothing, and a client that wants no stream is  *)
(* given one object.                                                       *)
(***************************************************************************)
THEOREM ResponsesBody ==
  ASSUME NEW Text, NEW b, Body(b, Text)
  PROVE  LET target == [at |-> "codex", path |-> <<"responses">>]
             responses(x) == Prepare(target, x)
             codex == responses(b).body
         IN /\ codex.stream /\ ~codex.store /\ "instructions" \in DOMAIN codex
            /\ "input" \in DOMAIN b => codex.input = [kind |-> "list", text |-> b.input.text]
            /\ DOMAIN codex \cap CodexDropKeys = {}
            /\ SameBut(codex, b, CodexDropKeys
                                  \cup {"stream", "store", "instructions", "input"})
            /\ responses(codex).body = codex
            /\ responses(b).aggregate_responses = ~("stream" \in DOMAIN b /\ b.stream)
<1>. DEFINE target == [at |-> "codex", path |-> <<"responses">>]
            codex == NormalizeCodex(b)
            told == {"stream", "store", "instructions"}
            drop == CodexDropKeys
<1>1. \A x : /\ Prepare(target, x).body = NormalizeCodex(x)
             /\ Prepare(target, x).aggregate_responses
                  = ~("stream" \in DOMAIN x /\ x["stream"])
  BY DEF Prepare
<1>2. Normal(b, codex)
  BY Normalized
<1>3. {"stream", "store", "instructions", "input"} \cap drop = {}
  BY DEF CodexDropKeys
<1>. HIDE DEF codex, drop
<1>4. /\ codex = [k \in DOMAIN codex |-> codex[k]]
      /\ DOMAIN codex = (DOMAIN b \ drop) \cup told
      /\ codex["stream"] = TRUE /\ codex["store"] = FALSE
      /\ "input" \in DOMAIN b => codex["input"] = [kind |-> "list", text |-> b["input"].text]
      /\ \A k \in DOMAIN b \ (drop \cup told \cup {"input"}) : codex[k] = b[k]
  BY <1>2 DEF Normal, drop
<1>5. SameBut(codex, b, drop \cup {"stream", "store", "instructions", "input"})
  BY <1>4 DEF SameBut, Without, Restrict
<1>6. Body(codex, Text)
  <2>1. "system" \in DOMAIN codex => "system" \in DOMAIN b /\ codex["system"] = b["system"]
    BY <1>4
  <2>2. "input" \in DOMAIN codex => codex["input"] \in [kind : {"string", "list"}, text : Text]
    BY <1>4 DEF Body
  <2>. QED
    BY <1>4, <2>1, <2>2 DEF Body
<1>7. NormalizeCodex(codex) = codex
  <2>. DEFINE again == NormalizeCodex(codex)
  <2>1. Normal(codex, again)
    BY <1>6, Normalized
  <2>. HIDE DEF again
  <2>2. /\ again = [k \in DOMAIN again |-> again[k]]
        /\ DOMAIN again = (DOMAIN codex \ drop) \cup told
        /\ again["stream"] = TRUE /\ again["store"] = FALSE
        /\ "instructions" \in DOMAIN codex => again["instructions"] = codex["instructions"]
        /\ "input" \in DOMAIN codex =>
             again["input"] = [kind |-> "list", text |-> codex["input"].text]
        /\ \A k \in DOMAIN codex \ (drop \cup told \cup {"input"}) : again[k] = codex[k]
    BY <2>1 DEF Normal, drop
  <2>3. DOMAIN again = DOMAIN codex
    BY <1>3, <1>4, <2>2
  <2>4. "input" \in DOMAIN codex => again["input"] = codex["input"]
    BY <1>4, <2>2
  <2>5. \A k \in DOMAIN codex : again[k] = codex[k]
    BY <1>3, <1>4, <2>2, <2>4
  <2>. QED
    BY <1>4, <2>2, <2>3, <2>5 DEF again
<1>. QED
  BY <1>1, <1>3, <1>4, <1>5, <1>7 DEF codex, drop

--------------------------------------------------------------------------------
(* How often a request goes out, for any answers. *)

(* Induction over the turns of the loop. *)
LEMMA Smallest ==
  ASSUME NEW T, T \subseteq Nat, T # {}
  PROVE  \E n \in T : \A m \in T : n <= m
<1>. DEFINE R == OpToRel(<, Nat)
<1>1. IsWellFoundedOn(R, Nat)
  BY NatLessThanWellFounded
<1>2. PICK n \in T : \A m \in T : <<m, n>> \notin R
  <2>. HIDE DEF R
  <2>. QED
    BY <1>1, WFMin
<1>3. \A m \in T : ~(m < n)
  BY <1>2 DEF OpToRel
<1>4. n \in Nat /\ \A m \in T : m \in Nat
  OBVIOUS
<1>. HIDE DEF R
<1>5. \A m \in T : n <= m
  BY <1>3, <1>4
<1>. QED
  BY <1>5

LEMMA Induct ==
  ASSUME NEW b \in Nat, NEW T, 0 \in T,
         \A n \in 0..(b - 1) : n \in T => n + 1 \in T
  PROVE  0..b \subseteq T
<1>. SUFFICES ASSUME (0..b) \ T # {} PROVE FALSE
  OBVIOUS
<1>. DEFINE X == (0..b) \ T
<1>1. PICK n \in X : \A m \in X : n <= m
  <2>1. X \subseteq Nat /\ X # {}
    OBVIOUS
  <2>. HIDE DEF X
  <2>. QED
    BY <2>1, Smallest
<1>2. n # 0 /\ n - 1 \in 0..(b - 1)
  OBVIOUS
<1>3. n - 1 \in T
  BY <1>1, <1>2
<1>. QED
  BY <1>2, <1>3

(* What an attempt may come to: a status, and headers if there is an answer. *)
AnyReply(r) ==
  /\ r.status \in Nat
  /\ "retry-after" \in DOMAIN r.headers => r.headers["retry-after"][1] \in Nat \cup {NoSeconds}
  /\ r.shape = "unreachable" => r.status = 0 /\ "retry-after" \notin DOMAIN r.headers

(* A reply after which the request may go out again. *)
Passing(r) ==
  \/ r.shape = "unreachable" \/ r.status = 401
  \/ /\ r.status \in RetryStatuses
     /\ "retry-after" \in DOMAIN r.headers => r.headers["retry-after"][1] <= 8

(* Where the loop of `upstream` may be after the first k replies: it has     *)
(* tried as often, or has stopped at one of them; what it went on after were *)
(* failures that pass, one 401 among them at most.                           *)
Loop(t, replies, k) ==
  /\ t \in [n : 0..3, rejected : BOOLEAN, waited : Nat, over : BOOLEAN,
            resp : {replies[i] : i \in Nat} \cup {NotFound}]
  /\ t.n <= k
  /\ ~t.over => t.n = k /\ t.n < 3 /\ t.waited <= 8 * t.n
  /\ t.over => t.n >= 1 /\ t.resp = replies[t.n] /\ t.waited <= 8 * (t.n - 1)
  /\ \A i \in 1..t.n : i < t.n \/ ~t.over =>
       Passing(replies[i]) /\ (replies[i].status = 401 => t.rejected)
  /\ \A i, j \in 1..t.n :
       (j < t.n \/ ~t.over) /\ i < j => ~(replies[i].status = 401 /\ replies[j].status = 401)

(* A wait is of eight seconds at most. *)
LEMMA Waits ==
  ASSUME NEW n \in 1..2, NEW r, AnyReply(r), RetryWait(n, r) >= 0
  PROVE  /\ RetryWait(n, r) \in 0..8
         /\ "retry-after" \in DOMAIN r.headers => r.headers["retry-after"][1] <= 8
<1>1. <<1, 2, 4, 8>>[n] \in 0..8
  BY SMT
<1>. QED
  BY <1>1, SMT DEF RetryWait, AnyReply, NoSeconds

(* One turn of the loop keeps that. *)
LEMMA OneTurn ==
  ASSUME NEW replies, NEW k \in Nat, NEW t, Loop(t, replies, k), AnyReply(replies[k + 1])
  PROVE  Loop(Attempt(t, replies[k + 1]), replies, k + 1)
<1>. DEFINE r == replies[k + 1]
            turn == [t EXCEPT !.n = @ + 1]
            next == Attempt(t, r)
            Resp == {replies[i] : i \in Nat} \cup {NotFound}
            Turns == [n : 0..3, rejected : BOOLEAN, waited : Nat, over : BOOLEAN, resp : Resp]
<1>1. CASE t.over
  <2>1. next = t
    BY <1>1 DEF Attempt
  <2>. QED
    BY <1>1, <2>1 DEF Loop
<1>2. CASE ~t.over
  <2>1. /\ t \in Turns /\ t.n = k /\ t.n \in 0..2 /\ t.waited <= 8 * t.n
    BY <1>2 DEF Loop
  <2>2. /\ \A i \in 1..k : Passing(replies[i]) /\ (replies[i].status = 401 => t.rejected)
        /\ \A i, j \in 1..k : i < j => ~(replies[i].status = 401 /\ replies[j].status = 401)
    BY <1>2 DEF Loop
  <2>3. r \in Resp
    BY DEF Resp
  <2>. HIDE DEF Resp, r
  <2>4. /\ turn \in Turns /\ turn.n = k + 1 /\ turn.rejected = t.rejected
        /\ turn.waited = t.waited /\ turn.over = t.over /\ turn.resp = t.resp
    BY <2>1
  <2>. HIDE DEF turn
  <2>5. CASE Again(turn, r)
    <3>1. k + 1 \in 1..2
      BY <2>1, <2>4, <2>5 DEF Again, AttemptLimit
    <3>2. r.status = 401 => ~t.rejected
      BY <2>4, <2>5, <3>1 DEF Again, RetryStatuses, AnyReply, r
    <3>3. r.status # 401 => RetryWait(k + 1, r) \in 0..8 /\ Passing(r)
      <4>1. CASE r.shape = "unreachable"
        <5>1. RetryWait(k + 1, r) = <<1, 2, 4, 8>>[k + 1]
          BY <3>1, <4>1 DEF RetryWait, AnyReply, NoSeconds, r
        <5>2. <<1, 2, 4, 8>>[k + 1] \in 0..8
          BY <3>1, SMT
        <5>. QED
          BY <4>1, <5>1, <5>2 DEF Passing
      <4>2. CASE r.status \in RetryStatuses /\ RetryWait(k + 1, r) >= 0
        BY <3>1, <4>2, Waits DEF Passing, r
      <4>. QED
        BY <2>4, <2>5, <3>1, <4>1, <4>2 DEF Again
    <3>4. next = [turn EXCEPT !.rejected = @ \/ r.status = 401,
                              !.waited = IF r.status = 401 THEN @ ELSE @ + RetryWait(k + 1, r)]
      BY <1>2, <2>4, <2>5 DEF Attempt, turn
    <3>. DEFINE b == turn.rejected \/ r.status = 401
                w == IF r.status = 401 THEN turn.waited ELSE turn.waited + RetryWait(k + 1, r)
    <3>5. /\ b \in BOOLEAN /\ w \in Nat /\ w <= 8 * (k + 1)
          /\ b <=> t.rejected \/ r.status = 401
      BY <2>1, <2>4, <3>1, <3>3
    <3>6. next = [turn EXCEPT !.rejected = b, !.waited = w]
      BY <3>4
    <3>. HIDE DEF b, w, next
    <3>7. /\ next \in Turns /\ next.n = k + 1 /\ next.over = turn.over /\ next.resp = t.resp
          /\ next.rejected = b /\ next.waited = w
      <4>1. turn \in Turns /\ b \in BOOLEAN /\ w \in Nat
        BY <2>4, <3>5
      <4>2. next.n = turn.n /\ next.over = turn.over /\ next.resp = turn.resp
        BY <3>6, <4>1
      <4>3. next.rejected = b /\ next.waited = w
        BY <3>6, <4>1
      <4>4. next \in Turns
        BY ONLY <3>6, <4>1
      <4>. QED
        BY <2>4, <4>2, <4>3, <4>4
    <3>8. Passing(r)
      BY <3>3 DEF Passing
    <3>9. \A i \in 1..(k + 1) : Passing(replies[i]) /\ (replies[i].status = 401 => next.rejected)
      BY <2>2, <3>5, <3>7, <3>8 DEF r
    <3>10. \A i, j \in 1..(k + 1) : i < j => ~(replies[i].status = 401 /\ replies[j].status = 401)
      BY <2>2, <3>2 DEF r
    <3>11. Loop(next, replies, k + 1)
      <4>1. ~next.over /\ next.n < 3 /\ next.waited <= 8 * next.n /\ next.n <= k + 1
        BY <1>2, <2>4, <3>1, <3>5, <3>7
      <4>. QED
        BY <3>7, <3>9, <3>10, <4>1 DEF Loop, Turns, Resp
    <3>. QED
      BY <3>11 DEF next, r
  <2>6. CASE ~Again(turn, r)
    <3>1. next = [turn EXCEPT !.over = TRUE, !.resp = r]
      BY <1>2, <2>6 DEF Attempt, turn
    <3>2. /\ next \in Turns /\ next.n = k + 1 /\ next.over /\ next.resp = r
          /\ next.rejected = t.rejected /\ next.waited = t.waited
      BY <2>3, <2>4, <3>1
    <3>. HIDE DEF next
    <3>3. Loop(next, replies, k + 1)
      BY <2>1, <2>2, <3>2 DEF Loop, Resp, r
    <3>. QED
      BY <3>3 DEF next, r
  <2>. QED
    BY <2>5, <2>6
<1>. QED
  BY <1>1, <1>2 DEF Loop

(* Tried is what it is meant to be: each turn is an Attempt. *)
LEMMA TriedEach ==
  ASSUME NEW replies, NEW n \in Nat, n = Len(replies)
  PROVE  /\ Tried(replies)[0] = Asked
         /\ \A k \in 1..n :
              Tried(replies)[k] = Attempt(Tried(replies)[k - 1], replies[k])
<1>. DEFINE Made(f, m) ==
              f = [k \in 0..m |-> IF k = 0 THEN Asked ELSE Attempt(f[k - 1], replies[k])]
            T == {m \in 0..n : \E f : Made(f, m)}
<1>1. 0 \in T
  <2>. DEFINE g == [k \in 0..0 |-> Asked]
  <2>1. Made(g, 0)
    OBVIOUS
  <2>. HIDE DEF Made, g
  <2>. QED
    BY <2>1
<1>2. ASSUME NEW m \in 0..(n - 1), m \in T PROVE m + 1 \in T
  <2>1. PICK f : Made(f, m)
    BY <1>2
  <2>. DEFINE next == Attempt(f[m], replies[m + 1])
              g == [k \in 0..(m + 1) |-> IF k = m + 1 THEN next ELSE f[k]]
              h == [k \in 0..(m + 1) |->
                      IF k = 0 THEN Asked ELSE Attempt(g[k - 1], replies[k])]
  <2>2. ASSUME NEW k \in 0..(m + 1) PROVE g[k] = h[k]
    <3>1. CASE k = m + 1
      BY <3>1
    <3>2. CASE k \in 0..m
      <4>1. g[k] = f[k] /\ k # m + 1 /\ (k # 0 => k - 1 \in 0..m /\ k - 1 # m + 1)
        BY <3>2
      <4>2. f[k] = IF k = 0 THEN Asked ELSE Attempt(f[k - 1], replies[k])
        BY <2>1, <3>2
      <4>3. k # 0 => g[k - 1] = f[k - 1]
        BY <4>1
      <4>. QED
        BY <4>1, <4>2, <4>3
    <3>. QED
      BY <3>1, <3>2
  <2>3. g = h
    BY <2>2
  <2>4. Made(g, m + 1)
    BY <2>3
  <2>. HIDE DEF Made, g
  <2>. QED
    BY <2>4
<1>3. \E f : Made(f, n)
  <2>1. 0..n \subseteq T
    <3>. HIDE DEF T
    <3>. QED
      BY <1>1, <1>2, Induct
  <2>. HIDE DEF Made
  <2>. QED
    BY <2>1
<1>. DEFINE f == CHOOSE f : Made(f, n)
<1>4. Made(f, n)
  <2>. HIDE DEF Made
  <2>. QED
    BY <1>3
<1>5. Tried(replies) = f
  BY DEF Tried
<1>. HIDE DEF f
<1>6. /\ f[0] = Asked
      /\ \A k \in 1..n : f[k] = Attempt(f[k - 1], replies[k])
  BY <1>4
<1>. QED
  BY <1>5, <1>6

(* So it is after each of the replies. *)
LEMMA LoopKept ==
  ASSUME NEW S, NEW replies \in Seq(S), \A i \in 1..Len(replies) : AnyReply(replies[i])
  PROVE  \A k \in 0..Len(replies) : Loop(Tried(replies)[k], replies, k)
<1>. DEFINE n == Len(replies)
            tried == Tried(replies)
            T == {k \in 0..n : Loop(tried[k], replies, k)}
<1>1. n \in Nat
  BY LenProperties
<1>2. /\ tried[0] = Asked
      /\ \A k \in 1..n : tried[k] = Attempt(tried[k - 1], replies[k])
  BY <1>1, TriedEach
<1>. HIDE DEF tried
<1>3. 0 \in T
  <2>. DEFINE t == Asked
              Resp == {replies[i] : i \in Nat} \cup {NotFound}
  <2>1. t.n = 0 /\ t.over = FALSE /\ t.waited = 0 /\ t.rejected = FALSE
    BY DEF Asked
  <2>2. NotFound \in Resp
    OBVIOUS
  <2>. HIDE DEF Resp
  <2>3. t \in [n : 0..3, rejected : BOOLEAN, waited : Nat, over : BOOLEAN, resp : Resp]
    BY <2>2 DEF Asked
  <2>. HIDE DEF t
  <2>4. Loop(t, replies, 0)
    BY <2>1, <2>3 DEF Loop, Resp
  <2>. QED
    BY <1>1, <1>2, <2>4 DEF t
<1>4. ASSUME NEW k \in 0..(n - 1), k \in T PROVE k + 1 \in T
  <2>1. AnyReply(replies[k + 1]) /\ k \in Nat /\ k + 1 \in 1..n /\ (k + 1) - 1 = k
    BY <1>1
  <2>2. Loop(tried[k], replies, k)
    BY <1>4
  <2>3. Loop(Attempt(tried[k], replies[k + 1]), replies, k + 1)
    BY <2>1, <2>2, OneTurn
  <2>4. tried[k + 1] = Attempt(tried[k], replies[k + 1])
    BY <1>2, <2>1
  <2>. QED
    BY <1>1, <2>1, <2>3, <2>4
<1>5. 0..n \subseteq T
  <2>. HIDE DEF T, n
  <2>. QED
    BY <1>1, <1>3, <1>4, Induct
<1>. QED
  BY <1>5 DEF tried

(***************************************************************************)
(* passthrough.rs `upstream`: whatever the upstream answers, a request is  *)
(* sent three times at most and waits sixteen seconds at most; it goes out *)
(* again only after a failure that passes, once after a 401, and the       *)
(* client gets the answer to the last attempt.                             *)
(***************************************************************************)
THEOREM RetriesBounded ==
  ASSUME NEW S, NEW replies \in Seq(S), \A i \in 1..Len(replies) : AnyReply(replies[i])
  PROVE  LET end == Upstream(replies)
         IN /\ end.n <= AttemptLimit /\ end.n <= Len(replies) /\ end.waited \in 0..16
            /\ \A k \in 1..(end.n - 1) : Passing(replies[k])
            /\ \A j, k \in 1..(end.n - 1) :
                 replies[j].status = 401 /\ replies[k].status = 401 => j = k
            /\ end.over => end.n >= 1 /\ end.resp = replies[end.n]
            /\ ~end.over => end.n = Len(replies) /\ Len(replies) < AttemptLimit
<1>. DEFINE n == Len(replies)
<1>1. n \in Nat
  BY LenProperties
<1>. DEFINE end == Upstream(replies)
<1>6. Loop(end, replies, n)
  BY <1>1, LoopKept DEF Upstream
<1>. HIDE DEF end, n
<1>7. /\ end.n \in 0..3 /\ end.n <= n /\ end.waited \in 0..16
      /\ end.over => end.n >= 1 /\ end.resp = replies[end.n]
      /\ ~end.over => end.n = n /\ n < 3
  <2>1. /\ end.n \in 0..3 /\ end.waited \in Nat /\ end.over \in BOOLEAN
    BY <1>6 DEF Loop
  <2>2. /\ end.n <= n
        /\ ~end.over => end.n = n /\ end.n < 3 /\ end.waited <= 8 * end.n
        /\ end.over => end.n >= 1 /\ end.resp = replies[end.n] /\ end.waited <= 8 * (end.n - 1)
    BY <1>6 DEF Loop
  <2>3. \A a \in 0..3, w \in Nat : (a < 3 /\ w <= 8 * a) \/ w <= 8 * (a - 1) => w \in 0..16
    OBVIOUS
  <2>4. end.waited \in 0..16
    <3>1. CASE end.over
      BY <2>1, <2>2, <2>3, <3>1
    <3>2. CASE ~end.over
      BY <2>1, <2>2, <2>3, <3>2
    <3>. QED
      BY <3>1, <3>2
  <2>5. ~end.over => n < 3
    BY <2>2
  <2>. QED
    BY <2>1, <2>2, <2>4, <2>5
<1>8. \A k \in 1..(end.n - 1) : Passing(replies[k])
  BY <1>6, <1>7 DEF Loop
<1>9. \A j, k \in 1..(end.n - 1) :
        replies[j].status = 401 /\ replies[k].status = 401 => j = k
  <2>1. \A i, j \in 1..end.n :
          j < end.n /\ i < j => ~(replies[i].status = 401 /\ replies[j].status = 401)
    BY <1>6 DEF Loop
  <2>. QED
    BY <1>7, <2>1
<1>. QED
  BY <1>7, <1>8, <1>9 DEF AttemptLimit, end, n

Frames == Starts \/ Counts \/ Creates \/ Speaks \/ Completes \/ Fails


--------------------------------------------------------------------------------
(* Inputs of one sort do not become those of another. *)
LEMMA Sorts ==
  ASSUME [CaseNext]_<<about, input>>
  PROVE  /\ about' = about
         /\ \/ UNCHANGED input
            \/ about = "credential" /\ RefreshOnce
            \/ about = "body" /\ SetKey
            \/ about = "headers" /\ AddLine
            \/ about = "replies" /\ Reply
            \/ about = "options" /\ SetOption
            \/ about = "stream" /\ Frames
            \/ about = "chat" /\ (Say \/ Answer \/ Return)
            \/ about \in {"path", "date", "tail"}
<1>1. ASSUME Say \/ Answer \/ Return PROVE about = "chat" /\ about' = about
  BY <1>1 DEF Say, Answer, Return
<1>2. ASSUME SetKey PROVE about = "body" /\ about' = about
  BY <1>2 DEF SetKey
<1>3. ASSUME ExtendPath PROVE about = "path" /\ about' = about
  BY <1>3 DEF ExtendPath
<1>4. ASSUME SetOption PROVE about = "options" /\ about' = about
  BY <1>4 DEF SetOption
<1>5. ASSUME AddLine PROVE about = "headers" /\ about' = about
  BY <1>5 DEF AddLine
<1>6. ASSUME Reply PROVE about = "replies" /\ about' = about
  BY <1>6 DEF Reply
<1>7. ASSUME RefreshOnce PROVE about = "credential" /\ about' = about
  BY <1>7 DEF RefreshOnce
<1>8. ASSUME NextDay \/ Write \/ NewFile
      PROVE  about \in {"date", "tail"} /\ about' = about
  BY <1>8 DEF NextDay, Write, NewFile
<1>9. ASSUME Frames PROVE about = "stream" /\ about' = about
  BY <1>9 DEF Frames, Starts, Counts, Creates, Speaks, Completes,
     Fails, Sent
<1>. QED
  BY <1>1, <1>2, <1>3, <1>4, <1>5, <1>6, <1>7, <1>8, <1>9 DEF CaseNext, RecordNext, Frames

(***************************************************************************)
(* passthrough.rs: every endpoint goes to the provider whose path or model *)
(* it is, under any number of /v1, and a body is made what that provider   *)
(* accepts, for every body of JSON that has the keys the proxy looks at.   *)
(***************************************************************************)

(* A body that has been written key by key. *)
BodyInv == about = "body" => Body(input, Seq(Int))

LEMMA SetKeyBodyInv == ASSUME BodyInv, about = "body", SetKey PROVE BodyInv'
<1>0. PICK key \in Keys \ DOMAIN input :
        \E val \in Values(key) : input' = With(input, key, val)
  BY DEF SetKey
<1>1. PICK val \in Values(key) : input' = With(input, key, val)
  BY <1>0
<1>2. /\ input' = [k \in DOMAIN input \cup {key} |-> IF k = key THEN val ELSE input[k]]
      /\ DOMAIN input' = DOMAIN input \cup {key}
  BY <1>1 DEF With
<1>3. /\ <<>> \in Seq(Seq(Int)) /\ <<1>> \in Seq(Int) /\ <<0, 1>> \in Seq(Int)
      /\ Prefix \in Seq(Int)
  BY EmptySeq DEF Prefix
<1>4. key = "system" => val \in [kind : {"string", "blocks", "odd"}, blocks : Seq(Seq(Int))]
  <2>. SUFFICES ASSUME key = "system"
                PROVE  val \in [kind : {"string", "blocks", "odd"}, blocks : Seq(Seq(Int))]
    OBVIOUS
  <2>1. val \in Systems
    BY <1>1 DEF Values
  <2>. DEFINE Three == {Prefix, <<1>>, <<0, 1>>}
  <2>1a. Three \subseteq Seq(Int)
    BY <1>3
  <2>. HIDE DEF Three
  <2>2. \A text \in Three : <<text>> \in Seq(Seq(Int))
    BY <2>1a
  <2>3. \A bs \in SeqOf(Three, 2) : bs \in Seq(Seq(Int))
    <3>1. SUFFICES ASSUME NEW m \in 0..2, NEW bs \in [1..m -> Three]
                  PROVE  bs \in Seq(Seq(Int))
      BY DEF SeqOf
    <3>2. m \in Nat /\ bs \in [1..m -> Seq(Int)]
      BY <2>1a
    <3>. QED
      BY <3>2, SeqDef
  <2>4. \/ val = [kind |-> "odd", blocks |-> <<>>]
        \/ \E text \in Three : val = [kind |-> "string", blocks |-> <<text>>]
        \/ \E bs \in SeqOf(Three, 2) : val = [kind |-> "blocks", blocks |-> bs]
    BY <2>1 DEF Systems, Three
  <2>5. <<>> \in Seq(Seq(Int))
    BY <1>3
  <2>. QED
    <3>1. \A kind \in {"string", "blocks", "odd"}, blocks \in Seq(Seq(Int)) :
            [kind |-> kind, blocks |-> blocks]
              \in [kind : {"string", "blocks", "odd"}, blocks : Seq(Seq(Int))]
      OBVIOUS
    <3>2. PICK kind \in {"string", "blocks", "odd"}, blocks \in Seq(Seq(Int)) :
            val = [kind |-> kind, blocks |-> blocks]
      BY <2>2, <2>3, <2>4, <2>5
    <3>. QED
      BY <3>1, <3>2
<1>5. key = "input" => val \in [kind : {"string", "list"}, text : Seq(Int)]
  <2>. DEFINE text == <<1>>
  <2>1. key = "input" => val \in {[kind |-> "string", text |-> text], [kind |-> "list", text |-> text]}
    BY <1>1 DEF Values
  <2>2. text \in Seq(Int)
    BY <1>3
  <2>. HIDE DEF text
  <2>. QED
    BY <2>1, <2>2
<1>6. key = "stream" => val \in BOOLEAN
  BY <1>1 DEF Values
<1>. QED
  BY <1>2, <1>4, <1>5, <1>6 DEF BodyInv, Body

LEMMA BodiesRight == ASSUME BodyInv PROVE BodyAccepted
<1>. SUFFICES ASSUME about = "body" PROVE BodyAccepted
  BY DEF BodyAccepted
<1>1. Body(input, Seq(Int)) /\ Prefix \in Seq(Int)
  BY DEF BodyInv, Prefix
<1>. QED
  BY <1>1, MessagesBody, ResponsesBody DEF BodyAccepted, SameBut

LEMMA PathsRight == EndpointsServed
<1>. USE MaxPrefixAssumption
<1>. SUFFICES ASSUME NEW e \in Endpoints, NEW headers \in BOOLEAN, NEW model \in Models,
                     NEW n \in 0..MaxPrefix, input = [k \in 1..n |-> "v1"] \o e.path
              PROVE  LET to == Route(e.method, input, FALSE, headers, model)
                         chosen == IF model # NoModel THEN ModelProvider(model)
                                   ELSE IF headers THEN "anthropic" ELSE "codex"
                         anthropic == [at |-> "anthropic", path |-> <<"v1">> \o e.path]
                     IN to = CASE e.path[1] = "messages" -> anthropic
                               [] e.path[1] = "responses" -> [at |-> "codex", path |-> e.path]
                               [] e.path[1] = "backend-api" ->
                                    [at |-> "codex", path |-> <<"responses">>]
                               [] e.path[1] = "chat" -> [at |-> "chat", path |-> <<chosen>>]
                               [] e.path[1] = "health" -> Here("health")
                               [] e.path[1] = "models" ->
                                    IF headers THEN anthropic ELSE Here("list")
  BY DEF EndpointsServed
<1>. DEFINE Names == {"chat", "completions", "messages", "count_tokens", "responses", "compact",
                      "backend-api", "codex", "models", "health"}
<1>1. PICK method, p : /\ e.path = p /\ e.method = method
                       /\ \/ method = "GET" /\ p \in {<<"models">>, <<"health">>}
                          \/ /\ method = "POST"
                             /\ p \in {<<"chat", "completions">>, <<"messages">>,
                                      <<"messages", "count_tokens">>, <<"responses">>,
                                      <<"responses", "compact">>,
                                      <<"backend-api", "codex", "responses">>}
  <2>1. e \in {[method |-> "POST", path |-> q] :
                 q \in {<<"chat", "completions">>, <<"messages">>, <<"messages", "count_tokens">>,
                        <<"responses">>, <<"responses", "compact">>,
                        <<"backend-api", "codex", "responses">>}}
          \cup {[method |-> "GET", path |-> q] : q \in {<<"models">>, <<"health">>}}
    BY DEF Endpoints
  <2>. QED
    BY <2>1
<1>2. input = Under(n, p) /\ n \in Nat
  BY <1>1 DEF Under
<1>3. p \in Seq(Names) /\ p # <<>> /\ p[1] # "v1"
  <2>1. \A x, y, z \in Names : /\ <<x>> \in Seq(Names) /\ <<x, y>> \in Seq(Names)
                               /\ <<x, y, z>> \in Seq(Names)
                               /\ <<x>> # <<>> /\ <<x, y>> # <<>> /\ <<x, y, z>> # <<>>
    <3>. HIDE DEF Names
    <3>. QED
      OBVIOUS
  <2>2. p \in Seq(Names)
    BY <1>1, <2>1
  <2>3. p[1] # "v1"
    BY <1>1
  <2>4. p # <<>>
    BY <1>1, <2>1
  <2>. QED
    BY <2>2, <2>3, <2>4
<1>. DEFINE to == Route(method, Under(n, p), FALSE, headers, model)
            chosen == IF model # NoModel THEN ModelProvider(model)
                      ELSE IF headers THEN "anthropic" ELSE "codex"
            anthropic == [at |-> "anthropic", path |-> <<"v1">> \o p]
<1>4. Served(to, method, p, headers, model)
  <2>. HIDE DEF Names
  <2>. QED
    BY <1>2, <1>3, EndpointServed
<1>. SUFFICES to = CASE p[1] = "messages" -> anthropic
                     [] p[1] = "responses" -> [at |-> "codex", path |-> p]
                     [] p[1] = "backend-api" -> [at |-> "codex", path |-> <<"responses">>]
                     [] p[1] = "chat" -> [at |-> "chat", path |-> <<chosen>>]
                     [] p[1] = "health" -> Here("health")
                     [] p[1] = "models" -> IF headers THEN anthropic ELSE Here("list")
  BY <1>1, <1>2
<1>. HIDE DEF to, chosen, anthropic, Names
<1>5. CASE p \in {<<"messages">>, <<"messages", "count_tokens">>}
  <2>1. p[1] = "messages"
    BY <1>5
  <2>. QED
    BY <2>1, <1>4 DEF Served, anthropic
<1>6. CASE p \in {<<"responses">>, <<"responses", "compact">>}
  <2>1. p[1] = "responses"
    BY <1>6
  <2>. QED
    BY <2>1, <1>4 DEF Served
<1>7. CASE p = <<"backend-api", "codex", "responses">>
  <2>1. p[1] = "backend-api" /\ p[2] = "codex" /\ p[3] = "responses" /\ Len(p) = 3
    BY <1>7
  <2>2. SubSeq(p, 3, 3) = <<"responses">>
    <3>1. p[3] \in {"responses"}
      BY <2>1
    <3>2. /\ SubSeq(p, 3, 3) \in Seq({"responses"}) /\ Len(SubSeq(p, 3, 3)) = 1
          /\ \A i \in 1..1 : SubSeq(p, 3, 3)[i] = p[3 + i - 1]
      BY <3>1, SubSeqProperties
    <3>3. SubSeq(p, 3, 3)[1] = "responses"
      BY <3>2, <2>1
    <3>4. <<"responses">> \in Seq({"responses"}) /\ Len(<<"responses">>) = 1
      OBVIOUS
    <3>5. \A i \in 1..1 : SubSeq(p, 3, 3)[i] = <<"responses">>[i]
      BY <3>3
    <3>. QED
      BY <3>2, <3>4, <3>5, SeqEqual
  <2>. QED
    BY <2>1, <2>2, <1>4 DEF Served
<1>8. CASE p = <<"chat", "completions">> /\ method = "POST"
  <2>1. p[1] = "chat"
    BY <1>8
  <2>. QED
    BY <2>1, <1>4, <1>8 DEF Served, chosen
<1>9. CASE p = <<"health">>
  <2>1. p[1] = "health"
    BY <1>9
  <2>. QED
    BY <2>1, <1>4, <1>9 DEF Served
<1>10. CASE p = <<"models">> /\ method = "GET"
  <2>1. p[1] = "models"
    BY <1>10
  <2>. QED
    BY <2>1, <1>4, <1>10 DEF Served, anthropic
<1>. QED
  BY <1>1, <1>5, <1>6, <1>7, <1>8, <1>9, <1>10

THEOREM Forwarded == CaseSpec => []RequestForwarded
<1>1. CaseInit => BodyInv
  BY DEF CaseInit, RecordInit, BodyInv, Body
<1>2. BodyInv /\ [CaseNext]_<<about, input>> => BodyInv'
  <2>. SUFFICES ASSUME BodyInv, [CaseNext]_<<about, input>> PROVE BodyInv'
    OBVIOUS
  <2>1. CASE UNCHANGED input \/ about # "body"
    BY <2>1, Sorts DEF BodyInv
  <2>2. CASE about = "body" /\ SetKey
    BY <2>2, SetKeyBodyInv
  <2>. QED
    BY <2>1, <2>2, Sorts
<1>3. BodyInv => RequestForwarded
  BY BodiesRight, PathsRight DEF RequestForwarded
<1>. QED
  BY <1>1, <1>2, <1>3, PTL DEF CaseSpec

--------------------------------------------------------------------------------
(* What becomes of a credential, for any replies. *)

Fields == {"access_token", "refresh_token", "expires_at", "account", "account_id", "plan"}

LEMMA NoneMissing == Missing("none") /\ \A val : ~Missing(val) => val # "none"
<1>1. Missing("none")
  BY DEF Missing
<1>. QED
  BY <1>1

(* A credential with all its fields, and a refresh token among them. *)
IsCredential(cred) ==
  /\ cred = [f \in Fields |-> cred[f]]
  /\ ~Missing(cred.refresh_token)

(* When a credential ends by its reply. *)
EndOf(provider, reply, now) ==
  CASE reply.expires_in # -1 -> Plus(now, reply.expires_in)
    [] reply.expires_in = -1 /\ provider = "codex" /\ reply.exp # -1 -> reply.exp
    [] OTHER -> Plus(now, 3600)

(* A field the reply has is taken from it, and one it leaves out is kept. *)
LEMMA RefreshedFields ==
  ASSUME NEW provider \in {"anthropic", "codex"}, NEW cred, IsCredential(cred), NEW now,
         NEW access_token, NEW refresh_token, NEW account, NEW account_id, NEW plan,
         NEW expires_in, NEW exp, NEW reply,
         reply = [access_token |-> access_token, refresh_token |-> refresh_token,
                  account |-> account, account_id |-> account_id, plan |-> plan,
                  expires_in |-> expires_in, exp |-> exp],
         provider = "anthropic" => plan = "none"
  PROVE  Refreshed(provider, cred, reply, now) =
           [access_token |-> access_token,
            refresh_token |-> IF Missing(refresh_token) THEN cred.refresh_token ELSE refresh_token,
            expires_at |-> EndOf(provider, reply, now),
            account |-> IF account = "none" THEN cred.account ELSE account,
            account_id |-> IF account_id = "none" THEN cred.account_id ELSE account_id,
            plan |-> IF plan = "none" THEN cred.plan ELSE plan]
<1>. DEFINE fresh == IF provider = "anthropic" THEN AnthropicCredential(reply, now)
                     ELSE CodexCredential(reply, now)
            end == EndOf(provider, reply, now)
<1>1. fresh = [access_token |-> access_token, refresh_token |-> Or(refresh_token, ""),
               expires_at |-> end, account |-> account, account_id |-> account_id, plan |-> plan]
  <2>1. CASE provider = "anthropic"
    <3>1. [reply EXCEPT !.plan = "none"] = reply
      BY <2>1
    <3>2. end = Plus(now, IF expires_in = -1 THEN 3600 ELSE expires_in)
      BY <2>1 DEF EndOf
    <3>. HIDE DEF end
    <3>. QED
      BY <2>1, <3>1, <3>2 DEF AnthropicCredential, Credential
  <2>2. CASE provider = "codex"
    <3>1. end = CASE expires_in # -1 -> Plus(now, expires_in)
                  [] expires_in = -1 /\ exp # -1 -> exp
                  [] OTHER -> Plus(now, 3600)
      BY <2>2 DEF EndOf
    <3>. HIDE DEF end
    <3>. QED
      BY <2>2, <3>1 DEF CodexCredential, Credential
  <2>. QED
    BY <2>1, <2>2
<1>. HIDE DEF end, fresh
<1>2. Refreshed(provider, cred, reply, now) =
        [fresh EXCEPT !.refresh_token = IF @ = "" THEN cred.refresh_token ELSE @,
                      !.account = Or(@, cred.account),
                      !.account_id = Or(@, cred.account_id),
                      !.plan = Or(@, cred.plan)]
  BY DEF Refreshed, fresh
<1>3. (IF Or(refresh_token, "") = "" THEN cred.refresh_token ELSE Or(refresh_token, ""))
        = IF Missing(refresh_token) THEN cred.refresh_token ELSE refresh_token
  BY DEF Or, Missing
<1>4. Refreshed(provider, cred, reply, now) =
        [access_token |-> access_token,
         refresh_token |-> IF Or(refresh_token, "") = "" THEN cred.refresh_token
                           ELSE Or(refresh_token, ""),
         expires_at |-> end, account |-> Or(account, cred.account),
         account_id |-> Or(account_id, cred.account_id),
         plan |-> Or(plan, cred.plan)]
  BY <1>1, <1>2
<1>5. /\ Or(account, cred.account) = IF account = "none" THEN cred.account ELSE account
      /\ Or(account_id, cred.account_id) = IF account_id = "none" THEN cred.account_id ELSE account_id
      /\ Or(plan, cred.plan) = IF plan = "none" THEN cred.plan ELSE plan
  BY DEF Or
<1>. QED
  BY <1>3, <1>4, <1>5 DEF end

CredInv ==
  about = "credential" =>
    /\ DOMAIN input = {"provider", "now", "told", "cred", "given"}
    /\ input.provider \in {"anthropic", "codex"} /\ input.now \in Nat /\ input.told \subseteq Value
    /\ IsCredential(input.cred) /\ input.given = input.cred

(* A reply of the token endpoint, and what the credential has if it has the  *)
(* last value told of each field.                                            *)
ReplyOf(now, value, fields, told, signed, life) ==
  LET field(f) == IF f \in fields THEN value ELSE "none"
  IN [access_token |-> value, refresh_token |-> field("refresh_token"),
      account |-> field("account"), account_id |-> field("account_id"), plan |-> field("plan"),
      expires_in |-> IF told THEN life ELSE -1,
      exp |-> IF signed THEN Least(now + life) ELSE -1]

EndTold(provider, now, told, signed, life) ==
  Least(IF told \/ (signed /\ provider = "codex") THEN now + life ELSE now + 3600)

Given(cred, value, fields, end) ==
  [f \in DOMAIN cred |-> CASE f = "expires_at" -> end
                           [] f = "access_token" \/ f \in fields -> value
                           [] OTHER -> cred[f]]

LEMMA OneRefresh ==
  ASSUME MaxSeconds \in Nat, NEW provider \in {"anthropic", "codex"},
         NEW cred, IsCredential(cred), NEW now \in Nat,
         NEW value, ~Missing(value),
         NEW fields \in SUBSET {"refresh_token", "account", "account_id", "plan"},
         NEW told \in BOOLEAN, NEW signed \in BOOLEAN,
         NEW life \in {100, 4900}, provider = "anthropic" => "plan" \notin fields
  PROVE  LET given == Given(cred, value, fields, EndTold(provider, now, told, signed, life))
         IN /\ IsCredential(given)
            /\ Refreshed(provider, cred, ReplyOf(now, value, fields, told, signed, life), now)
                 = given
<1>. DEFINE field(f) == IF f \in fields THEN value ELSE "none"
            reply == ReplyOf(now, value, fields, told, signed, life)
            end == EndTold(provider, now, told, signed, life)
            given == Given(cred, value, fields, end)
            new == [access_token |-> value,
                    refresh_token |-> IF "refresh_token" \in fields THEN value ELSE cred.refresh_token,
                    expires_at |-> end,
                    account |-> IF "account" \in fields THEN value ELSE cred.account,
                    account_id |-> IF "account_id" \in fields THEN value ELSE cred.account_id,
                    plan |-> IF "plan" \in fields THEN value ELSE cred.plan]
<1>1. EndOf(provider, reply, now) = end
  <2>1. /\ reply.expires_in = (IF told THEN life ELSE -1)
        /\ reply.exp = (IF signed THEN Least(now + life) ELSE -1)
    BY DEF ReplyOf
  <2>. HIDE DEF reply
  <2>2. Least(now + life) # -1 /\ life # -1
    BY DEF Least
  <2>3. \A n : Plus(now, n) = Least(now + n)
    BY DEF Plus, Least
  <2>4. CASE told
    BY <2>1, <2>2, <2>3, <2>4 DEF EndOf, EndTold
  <2>5. CASE ~told /\ signed /\ provider = "codex"
    BY <2>1, <2>2, <2>3, <2>5 DEF EndOf, EndTold
  <2>6. CASE ~told /\ ~(signed /\ provider = "codex")
    BY <2>1, <2>2, <2>3, <2>6 DEF EndOf, EndTold
  <2>. QED
    BY <2>4, <2>5, <2>6
<1>2. /\ Missing(field("refresh_token")) <=> "refresh_token" \notin fields
      /\ \A f \in Fields : field(f) = "none" <=> f \notin fields
      /\ provider = "anthropic" => field("plan") = "none"
  BY NoneMissing
<1>. HIDE DEF end
<1>3. Refreshed(provider, cred, reply, now) =
        [access_token |-> value,
         refresh_token |-> IF Missing(field("refresh_token")) THEN cred.refresh_token ELSE field("refresh_token"),
         expires_at |-> end,
         account |-> IF field("account") = "none" THEN cred.account ELSE field("account"),
         account_id |-> IF field("account_id") = "none" THEN cred.account_id ELSE field("account_id"),
         plan |-> IF field("plan") = "none" THEN cred.plan ELSE field("plan")]
  <2>. DEFINE expires_in == IF told THEN life ELSE -1
              exp == IF signed THEN Least(now + life) ELSE -1
  <2>1. reply = [access_token |-> value, refresh_token |-> field("refresh_token"),
                 account |-> field("account"), account_id |-> field("account_id"),
                 plan |-> field("plan"), expires_in |-> expires_in, exp |-> exp]
    BY DEF ReplyOf
  <2>. HIDE DEF field, reply, expires_in, exp
  <2>. QED
    BY <1>1, <1>2, <2>1, RefreshedFields
<1>. HIDE DEF reply
<1>4. Refreshed(provider, cred, reply, now) = new
  <2>1. /\ "refresh_token" \in Fields /\ "account" \in Fields
        /\ "account_id" \in Fields /\ "plan" \in Fields
    BY DEF Fields
  <2>2. /\ (IF Missing(field("refresh_token")) THEN cred.refresh_token ELSE field("refresh_token"))
             = new.refresh_token
        /\ \A f \in {"account", "account_id", "plan"} :
             (IF field(f) = "none" THEN cred[f] ELSE field(f)) = new[f]
    BY <1>2, <2>1
  <2>. QED
    BY <1>3, <2>2
<1>5. given = new
  <2>1. DOMAIN cred = Fields
    BY DEF IsCredential
  <2>2. ASSUME NEW f \in Fields PROVE given[f] = new[f]
    <3>1. given[f] = CASE f = "expires_at" -> end
                       [] f = "access_token" \/ f \in fields -> value
                       [] OTHER -> cred[f]
      BY <2>1 DEF Given
    <3>. HIDE DEF given
    <3>2. CASE f = "expires_at" \/ f = "access_token"
      BY <3>1, <3>2
    <3>3. CASE f \in {"refresh_token", "account", "account_id", "plan"}
      BY <3>1, <3>3
    <3>. QED
      BY <3>2, <3>3 DEF Fields
  <2>3. given = [f \in Fields |-> given[f]] /\ new = [f \in Fields |-> new[f]]
    BY <2>1 DEF Fields, Given
  <2>. HIDE DEF given, new
  <2>. QED
    BY <2>2, <2>3
<1>6. IsCredential(new)
  <2>1. new = [f \in Fields |-> new[f]]
    BY DEF Fields
  <2>2. ~Missing(new.refresh_token)
    BY DEF IsCredential
  <2>. HIDE DEF new
  <2>. QED
    BY <2>1, <2>2 DEF IsCredential
<1>. QED
  <2>. HIDE DEF given, new
  <2>1. Refreshed(provider, cred, reply, now) = given /\ IsCredential(given)
    BY <1>4, <1>5, <1>6
  <2>. QED
    BY <2>1 DEF given, reply, end

LEMMA RefreshCredInv ==
  ASSUME CredInv, about = "credential", RefreshOnce
  PROVE  CredInv'
<1>. USE ValueAssumption, MaxSecondsAssumption
<1>. DEFINE value == CHOOSE val \in Value : val \notin input.told
            cred == input.cred
<1>1. /\ DOMAIN input = {"provider", "now", "told", "cred", "given"} /\ input.given = cred
      /\ input.provider \in {"anthropic", "codex"} /\ input.now \in Nat /\ input.told \subseteq Value
      /\ IsCredential(cred)
  BY DEF CredInv
<1>2. value \in Value /\ ~Missing(value)
  <2>1. input.told # Value
    BY DEF RefreshOnce
  <2>2. \E val \in Value : val \notin input.told
    BY <1>1, <2>1
  <2>. HIDE DEF cred
  <2>3. value \in Value
    BY <2>2
  <2>. QED
    BY <2>3
<1>3. PICK fields \in SUBSET {"refresh_token", "account", "account_id", "plan"},
           told \in BOOLEAN, signed \in BOOLEAN, life \in {100, 4900}, later \in {0, 1000} :
        LET now == input.now + later
        IN /\ input.provider = "anthropic" => "plan" \notin fields
           /\ input' = [input EXCEPT
                !.now = now,
                !.told = @ \cup {value},
                !.cred = Refreshed(input.provider, @,
                                         ReplyOf(now, value, fields, told, signed, life), now),
                !.given = Given(@, value, fields, EndTold(input.provider, now, told, signed, life))]
  BY <1>1 DEF RefreshOnce, ReplyOf, Given, EndTold
<1>. HIDE DEF value
<1>4. input.now + later \in Nat
  BY <1>1
<1>. DEFINE now == input.now + later
            new == Given(cred, value, fields, EndTold(input.provider, now, told, signed, life))
            fresh == Refreshed(input.provider, cred,
                                     ReplyOf(now, value, fields, told, signed, life), now)
<1>5. fresh = new /\ IsCredential(new)
  <2>. HIDE DEF cred
  <2>. QED
    BY <1>1, <1>2, <1>3, <1>4, OneRefresh
<1>6. input' = [input EXCEPT !.now = now, !.told = input.told \cup {value}, !.cred = fresh,
                             !.given = new]
  BY <1>1, <1>3
<1>. HIDE DEF now, new, fresh, cred
<1>7. /\ input'.provider = input.provider /\ input'.now = now
      /\ input'.told = input.told \cup {value}
      /\ input'.cred = new /\ input'.given = new
      /\ DOMAIN input' = DOMAIN input
  BY <1>1, <1>5, <1>6
<1>. QED
  BY <1>1, <1>2, <1>4, <1>5, <1>7 DEF CredInv, now

(***************************************************************************)
(* oauth.rs `refresh`: whatever the replies leave out, the credential has  *)
(* after any number of refreshes the last value that was told of each      *)
(* field, and lasts as long as was said.                                   *)
(***************************************************************************)
THEOREM CredentialLasts == CaseSpec => []CredentialKept
<1>1. CaseInit => CredInv
  <2>. SUFFICES ASSUME CaseInit, about = "credential" PROVE CredInv
    BY DEF CredInv
  <2>1. PICK provider \in {"anthropic", "codex"} :
          input = [provider |-> provider, now |-> 0, told |-> {}, cred |-> LoggedIn,
                   given |-> LoggedIn]
    BY DEF CaseInit, RecordInit
  <2>2. ~Missing("login")
    BY DEF Missing
  <2>3. IsCredential(LoggedIn)
    BY <2>2 DEF IsCredential, LoggedIn, Fields
  <2>. QED
    BY <2>1, <2>3 DEF CredInv
<1>2. CredInv /\ [CaseNext]_<<about, input>> => CredInv'
  <2>. SUFFICES ASSUME CredInv, [CaseNext]_<<about, input>> PROVE CredInv'
    OBVIOUS
  <2>1. CASE UNCHANGED input
    BY <2>1, Sorts DEF CredInv
  <2>2. CASE about # "credential"
    BY <2>2, Sorts DEF CredInv
  <2>3. CASE about = "credential" /\ RefreshOnce
    BY <2>3, RefreshCredInv
  <2>. QED
    BY <2>1, <2>2, <2>3, Sorts
<1>3. CredInv => CredentialKept
  BY DEF CredInv, CredentialKept
<1>. QED
  BY <1>1, <1>2, <1>3, PTL DEF CaseSpec

--------------------------------------------------------------------------------
(* The headers that go up, for a client of any headers. *)

(* Listed is what was there first and then the others, each once. *)
LEMMA ListedEach ==
  ASSUME NEW first, NEW current, NEW n \in Nat, n = Len(current)
  PROVE  /\ Listed(first, current)[0] = first
         /\ \A k \in 1..n :
              Listed(first, current)[k] = Unseen(Listed(first, current)[k - 1], current[k])
<1>. DEFINE Made(f, m) ==
              f = [k \in 0..m |-> IF k = 0 THEN first ELSE Unseen(f[k - 1], current[k])]
            T == {m \in 0..n : \E f : Made(f, m)}
<1>1. 0 \in T
  <2>. DEFINE g == [k \in 0..0 |-> first]
  <2>1. Made(g, 0)
    OBVIOUS
  <2>. HIDE DEF Made, g
  <2>. QED
    BY <2>1
<1>2. ASSUME NEW m \in 0..(n - 1), m \in T PROVE m + 1 \in T
  <2>1. PICK f : Made(f, m)
    BY <1>2
  <2>. DEFINE next == Unseen(f[m], current[m + 1])
              g == [k \in 0..(m + 1) |-> IF k = m + 1 THEN next ELSE f[k]]
              h == [k \in 0..(m + 1) |->
                      IF k = 0 THEN first ELSE Unseen(g[k - 1], current[k])]
  <2>2. ASSUME NEW k \in 0..(m + 1) PROVE g[k] = h[k]
    <3>1. CASE k = m + 1
      BY <3>1
    <3>2. CASE k \in 0..m
      <4>1. g[k] = f[k] /\ k # m + 1 /\ (k # 0 => k - 1 \in 0..m /\ k - 1 # m + 1)
        BY <3>2
      <4>2. f[k] = IF k = 0 THEN first ELSE Unseen(f[k - 1], current[k])
        BY <2>1, <3>2
      <4>3. k # 0 => g[k - 1] = f[k - 1]
        BY <4>1
      <4>. QED
        BY <4>1, <4>2, <4>3
    <3>. QED
      BY <3>1, <3>2
  <2>3. g = h
    BY <2>2
  <2>4. Made(g, m + 1)
    BY <2>3
  <2>. HIDE DEF Made, g
  <2>. QED
    BY <2>4
<1>3. \E f : Made(f, n)
  <2>1. 0..n \subseteq T
    <3>. HIDE DEF T
    <3>. QED
      BY <1>1, <1>2, Induct
  <2>. QED
    BY <2>1
<1>. DEFINE listed == CHOOSE f : Made(f, n)
<1>4. Made(listed, n)
  <2>. HIDE DEF Made
  <2>. QED
    BY <1>3
<1>5. Listed(first, current) = listed
  BY DEF Listed
<1>. HIDE DEF listed
<1>6. /\ listed[0] = first
      /\ \A k \in 1..n : listed[k] = Unseen(listed[k - 1], current[k])
  BY <1>4
<1>. QED
  BY <1>5, <1>6

LEMMA UnseenOnce ==
  ASSUME NEW S, NEW betas \in Seq(S), IsInjective(betas), NEW b \in S
  PROVE  /\ Unseen(betas, b) \in Seq(S) /\ IsInjective(Unseen(betas, b))
         /\ Range(Unseen(betas, b)) = Range(betas) \cup {b}
<1>. DEFINE m == Len(betas)
            more == Append(betas, b)
<1>1. /\ m \in Nat /\ DOMAIN betas = 1..m /\ more \in Seq(S) /\ DOMAIN more = 1..(m + 1)
      /\ \A k \in 1..m : more[k] = betas[k]
      /\ more[m + 1] = b
  BY LenProperties, AppendProperties
<1>2. Range(betas) = {betas[k] : k \in 1..m}
  BY <1>1 DEF Range
<1>3. CASE b \in Range(betas)
  BY <1>3 DEF Unseen
<1>4. CASE b \notin Range(betas)
  <2>1. Unseen(betas, b) = more
    BY <1>4 DEF Unseen
  <2>. HIDE DEF m, more
  <2>2. Range(more) = Range(betas) \cup {b}
    <3>1. Range(more) = {more[k] : k \in 1..(m + 1)}
      BY <1>1 DEF Range
    <3>2. \A k \in 1..(m + 1) : more[k] \in Range(betas) \cup {b}
      BY <1>1, <1>2
    <3>3. \A k \in 1..m : betas[k] = more[k] /\ k \in 1..(m + 1)
      BY <1>1
    <3>4. m + 1 \in 1..(m + 1)
      BY <1>1
    <3>. QED
      BY <1>1, <1>2, <3>1, <3>2, <3>3, <3>4
  <2>3. IsInjective(more)
    <3>1. SUFFICES ASSUME NEW j \in 1..(m + 1), NEW k \in 1..(m + 1), more[j] = more[k]
                   PROVE  j = k
      BY <1>1 DEF IsInjective
    <3>2. \A i \in 1..m : more[i] # b
      BY <1>1, <1>2, <1>4
    <3>3. j = m + 1 <=> k = m + 1
      BY <1>1, <3>1, <3>2
    <3>4. j \in 1..m /\ k \in 1..m => j = k
      BY <1>1, <3>1 DEF IsInjective
    <3>. QED
      BY <1>1, <3>3, <3>4
  <2>. QED
    BY <1>1, <2>1, <2>2, <2>3
<1>. QED
  BY <1>3, <1>4

LEMMA ListedOnce ==
  ASSUME NEW S, NEW first \in Seq(S), IsInjective(first), NEW current \in Seq(S)
  PROVE  LET betas == Listed(first, current)[Len(current)]
         IN IsInjective(betas) /\ Range(betas) = Range(first) \cup Range(current)
<1>. DEFINE n == Len(current)
            listed == Listed(first, current)
            Until(k) == {current[i] : i \in 1..k}
            T == {k \in 0..n : /\ listed[k] \in Seq(S) /\ IsInjective(listed[k])
                               /\ Range(listed[k]) = Range(first) \cup Until(k)}
<1>1. n \in Nat /\ DOMAIN current = 1..n /\ \A k \in 1..n : current[k] \in S
  BY LenProperties
<1>2. listed[0] = first /\ \A k \in 1..n : listed[k] = Unseen(listed[k - 1], current[k])
  BY <1>1, ListedEach
<1>. HIDE DEF n, listed
<1>3. 0 \in T
  BY <1>1, <1>2
<1>4. ASSUME NEW k \in 0..(n - 1), k \in T PROVE k + 1 \in T
  <2>1. k \in Nat /\ k + 1 \in 1..n /\ k + 1 \in 0..n /\ (k + 1) - 1 = k
    BY <1>1
  <2>2. listed[k + 1] = Unseen(listed[k], current[k + 1]) /\ current[k + 1] \in S
    BY <1>1, <1>2, <2>1
  <2>3. listed[k] \in Seq(S) /\ IsInjective(listed[k]) /\ Range(listed[k]) = Range(first) \cup Until(k)
    BY <1>4
  <2>. DEFINE now == listed[k]
              b == current[k + 1]
              next == listed[k + 1]
  <2>4. next \in Seq(S) /\ IsInjective(next) /\ Range(next) = Range(now) \cup {b}
    <3>1. next = Unseen(now, b) /\ b \in S /\ now \in Seq(S) /\ IsInjective(now)
      BY <2>2, <2>3
    <3>. HIDE DEF now, b, next
    <3>2. /\ Unseen(now, b) \in Seq(S) /\ IsInjective(Unseen(now, b))
          /\ Range(Unseen(now, b)) = Range(now) \cup {b}
      BY <3>1, UnseenOnce
    <3>. QED
      BY <3>1, <3>2
  <2>5. Until(k + 1) = Until(k) \cup {current[k + 1]}
    <3>1. 1..(k + 1) = 1..k \cup {k + 1}
      BY <2>1
    <3>. QED
      BY <3>1
  <2>. HIDE DEF Until
  <2>. QED
    BY <2>1, <2>3, <2>4, <2>5
<1>5. n \in T
  <2>1. 0..n \subseteq T
    <3>. HIDE DEF T
    <3>. QED
      BY <1>1, <1>3, <1>4, Induct
  <2>2. n \in 0..n
    BY <1>1
  <2>. HIDE DEF T
  <2>. QED
    BY <2>1, <2>2
<1>6. Range(current) = Until(n)
  BY <1>1 DEF Range
<1>. QED
  BY <1>5, <1>6 DEF n, listed

(* Headers of any client: the proxy looks for nothing but these in them. *)
AnyClient(client, Betas) ==
  /\ "anthropic-beta" \in DOMAIN client => client["anthropic-beta"] \in Seq(Seq(Betas)) \ {<<>>}
  /\ \A n \in {"anthropic-version", "anthropic-direct", "session_id"} \cap DOMAIN client :
       client[n] = Line(client[n][1])

OneLine(lines) == \E val : lines = <<val>>

(* What goes to each of the two upstreams whatever the client sent. *)
OwnKept(h) ==
  /\ h.authorization = <<"ours">> /\ h.user_agent \in {<<"claude-cli">>, <<"codex-cli">>}
  /\ {"authorization", "user_agent"} \subseteq DOMAIN h /\ "x-api-key" \notin DOMAIN h
  /\ \A n \in DOMAIN h : OneLine(h[n])

LEMMA OwnHeaders ==
  ASSUME NEW stream, NEW agent \in {"claude-cli", "codex-cli"}
  PROVE  /\ OwnKept(Own("ours", agent, stream))
         /\ DOMAIN Own("ours", agent, stream) =
              {"authorization", "user_agent", "content_type", "accept"}
BY DEF OwnKept, OneLine, Own, Line

LEMMA OverOwn ==
  ASSUME NEW h, OwnKept(h), NEW more, \A n \in DOMAIN more : OneLine(more[n]),
         DOMAIN more \cap {"authorization", "user_agent", "x-api-key"} = {}
  PROVE  OwnKept(Over(more, h)) /\ DOMAIN Over(more, h) = DOMAIN more \cup DOMAIN h
BY DEF OwnKept, Over

LEMMA WithOwn ==
  ASSUME NEW h, OwnKept(h), NEW name, name \notin {"authorization", "user_agent", "x-api-key"},
         NEW val
  PROVE  OwnKept(With(h, name, Line(val))) /\ DOMAIN With(h, name, Line(val)) = DOMAIN h \cup {name}
BY DEF OwnKept, OneLine, With, Line


LEMMA OfAnthropic ==
  ASSUME NEW client, NEW Betas, AnyClient(client, Betas), Oauth \in Betas,
         NEW account, NEW stream
  PROVE  LET h == UpstreamHeaders("anthropic", [token |-> "ours", account_id |-> account],
                                  client, stream)
             listed == IF "anthropic-beta" \in DOMAIN client
                       THEN Range(Last(client["anthropic-beta"])) ELSE {}
             betas == h["anthropic-beta"][1]
         IN /\ OwnKept(h)
            /\ IsInjective(betas)
            /\ Range(betas) = IF listed \cap ContainsOauth = {} THEN listed \cup {Oauth} ELSE listed
            /\ \A n \in {"anthropic-version", "anthropic-direct"} :
                 n \in DOMAIN client => h[n] = client[n]
<1>. DEFINE cred == [token |-> "ours", account_id |-> account]
            own == Own("ours", "claude-cli", stream)
            cli == Over([x_app |-> Line("cli")], own)
            dated == With(cli, "anthropic-version", Line("2023-06-01"))
            set == With(dated, "anthropic-direct", Line("true"))
            theirs == [n \in DOMAIN client \cap Semantic |-> Line(Last(client[n]))]
            all == Over(theirs, set)
            current == IF "anthropic-beta" \in DOMAIN all THEN all["anthropic-beta"][1] ELSE <<>>
            first == IF Range(current) \cap ContainsOauth = {} THEN <<Oauth>> ELSE <<>>
            betas == Listed(first, current)[Len(current)]
            h == With(all, "anthropic-beta", Line(betas))
            listed == IF "anthropic-beta" \in DOMAIN client
                      THEN Range(Last(client["anthropic-beta"])) ELSE {}
<1>1. UpstreamHeaders("anthropic", cred, client, stream) = h
  BY DEF UpstreamHeaders, AnthropicHeaders, EnsureOauthBeta
<1>2. OwnKept(own) /\ DOMAIN own = {"authorization", "user_agent", "content_type", "accept"}
  BY OwnHeaders
<1>. HIDE DEF own
<1>3. OwnKept(cli) /\ DOMAIN cli = DOMAIN own \cup {"x_app"}
  <2>. DEFINE more == [x_app |-> Line("cli")]
  <2>1. DOMAIN more = {"x_app"} /\ \A n \in DOMAIN more : OneLine(more[n])
    BY DEF Line, OneLine
  <2>. HIDE DEF more
  <2>2. DOMAIN more \cap {"authorization", "user_agent", "x-api-key"} = {}
    BY <2>1
  <2>3. OwnKept(Over(more, own)) /\ DOMAIN Over(more, own) = DOMAIN more \cup DOMAIN own
    BY <1>2, <2>1, <2>2, OverOwn
  <2>. QED
    BY <2>1, <2>3 DEF more
<1>. HIDE DEF cli
<1>4. OwnKept(dated) /\ DOMAIN dated = DOMAIN cli \cup {"anthropic-version"}
  BY <1>3, WithOwn
<1>. HIDE DEF dated
<1>4a. OwnKept(set) /\ DOMAIN set = DOMAIN dated \cup {"anthropic-direct"}
  BY <1>4, WithOwn
<1>. HIDE DEF set
<1>5. "anthropic-beta" \notin DOMAIN set
  BY <1>2, <1>3, <1>4, <1>4a
<1>6. /\ DOMAIN theirs =
           DOMAIN client \cap {"anthropic-version", "anthropic-direct", "anthropic-beta"}
      /\ \A n \in DOMAIN theirs : theirs[n] = <<Last(client[n])>>
  BY DEF Semantic, Line
<1>. HIDE DEF theirs
<1>7. /\ OwnKept(all) /\ DOMAIN all = DOMAIN theirs \cup DOMAIN set
      /\ \A n \in DOMAIN theirs : all[n] = theirs[n]
  <2>1. /\ \A n \in DOMAIN theirs : OneLine(theirs[n])
        /\ DOMAIN theirs \cap {"authorization", "user_agent", "x-api-key"} = {}
    BY <1>6 DEF OneLine
  <2>2. OwnKept(all) /\ DOMAIN all = DOMAIN theirs \cup DOMAIN set
    BY <1>4a, <2>1, OverOwn
  <2>. QED
    BY <2>2 DEF Over
<1>. HIDE DEF all
<1>8. "anthropic-beta" \in DOMAIN all <=> "anthropic-beta" \in DOMAIN client
  BY <1>5, <1>6, <1>7
<1>9. ASSUME "anthropic-beta" \in DOMAIN client
      PROVE  Last(client["anthropic-beta"]) \in Seq(Betas)
  <2>. DEFINE lines == client["anthropic-beta"]
  <2>1. lines \in Seq(Seq(Betas)) /\ lines # <<>>
    BY <1>9 DEF AnyClient
  <2>. HIDE DEF lines
  <2>2. Len(lines) \in Nat /\ Len(lines) # 0 /\ \A k \in 1..Len(lines) : lines[k] \in Seq(Betas)
    BY <2>1, EmptySeq, LenProperties
  <2>3. Last(lines) \in Seq(Betas)
    BY <2>2 DEF Last
  <2>. QED
    BY <2>3 DEF lines
<1>10. current \in Seq(Betas) /\ Range(current) = listed
  <2>1. CASE "anthropic-beta" \in DOMAIN client
    <3>1. current = Last(client["anthropic-beta"])
      BY <1>6, <1>7, <1>8, <2>1
    <3>. QED
      BY <1>9, <2>1, <3>1
  <2>2. CASE "anthropic-beta" \notin DOMAIN client
    <3>1. current = <<>> /\ listed = {}
      BY <1>8, <2>2
    <3>2. Range(<<>>) = {}
      BY DEF Range
    <3>. HIDE DEF current, listed
    <3>. QED
      BY <3>1, <3>2
  <2>. QED
    BY <2>1, <2>2
<1>. HIDE DEF current
<1>11. /\ first \in Seq(Betas) /\ IsInjective(first)
       /\ Range(first) = IF Range(current) \cap ContainsOauth = {} THEN {Oauth} ELSE {}
  <2>. DEFINE one == <<Oauth>>
              none == <<>>
  <2>1. one \in Seq(Betas) /\ IsInjective(one) /\ Range(one) = {Oauth}
    BY DEF IsInjective, Range
  <2>2. none \in Seq(Betas) /\ IsInjective(none) /\ Range(none) = {}
    BY DEF IsInjective, Range
  <2>3. first = IF Range(current) \cap ContainsOauth = {} THEN one ELSE none
    OBVIOUS
  <2>. HIDE DEF one, none, first
  <2>. QED
    BY <2>1, <2>2, <2>3
<1>. HIDE DEF first
<1>12. IsInjective(betas) /\ Range(betas) = Range(first) \cup Range(current)
  <2>1. first \in Seq(Betas) /\ IsInjective(first) /\ current \in Seq(Betas)
    BY <1>10, <1>11
  <2>. QED
    BY <2>1, ListedOnce
<1>. HIDE DEF betas
<1>13. /\ OwnKept(h) /\ h["anthropic-beta"] = <<betas>>
       /\ \A n \in DOMAIN all \ {"anthropic-beta"} : h[n] = all[n]
  <2>1. OwnKept(h)
    BY <1>7, WithOwn
  <2>. QED
    BY <2>1 DEF With, Line
<1>. HIDE DEF h, listed
<1>14. Range(betas) = IF listed \cap ContainsOauth = {} THEN listed \cup {Oauth} ELSE listed
  BY <1>10, <1>11, <1>12
<1>15. ASSUME NEW n \in {"anthropic-version", "anthropic-direct"}, n \in DOMAIN client
       PROVE  h[n] = client[n]
  <2>1. h[n] = <<Last(client[n])>>
    BY <1>6, <1>7, <1>13, <1>15
  <2>2. PICK val : client[n] = <<val>>
    BY <1>15 DEF AnyClient, Line
  <2>. QED
    BY <2>1, <2>2 DEF Last
<1>. QED
  BY <1>1, <1>12, <1>13, <1>14, <1>15 DEF listed

LEMMA OfCodex ==
  ASSUME NEW client, NEW Betas, AnyClient(client, Betas), NEW account, NEW stream
  PROVE  LET h == UpstreamHeaders("codex", [token |-> "ours", account_id |-> account],
                                  client, stream)
         IN /\ OwnKept(h)
            /\ h["session_id"] = IF "session_id" \in DOMAIN client THEN client["session_id"]
                                 ELSE <<"proxy">>
            /\ ("chatgpt-account-id" \in DOMAIN h) = (account # "none")
<1>. DEFINE cred == [token |-> "ours", account_id |-> account]
            own == Own("ours", "codex-cli", stream)
            more == [originator |-> Line("codex"), version |-> Line("codex"),
                     session_id |-> Line("proxy")]
            cli == Over(more, own)
            known == IF account = "none" THEN cli
                     ELSE With(cli, "chatgpt-account-id", Line(account))
            kept == [n \in DOMAIN client \cap {"session_id", "conversation_id", "openai-beta"} |->
                       Line(client[n][1])]
            h == Over(kept, known)
<1>1. UpstreamHeaders("codex", cred, client, stream) = h
  BY DEF UpstreamHeaders, CodexHeaders
<1>2. OwnKept(own) /\ DOMAIN own = {"authorization", "user_agent", "content_type", "accept"}
  BY OwnHeaders
<1>. HIDE DEF own
<1>3. /\ DOMAIN more = {"originator", "version", "session_id"}
      /\ more["session_id"] = <<"proxy">>
      /\ \A n \in DOMAIN more : OneLine(more[n])
  BY DEF Line, OneLine
<1>. HIDE DEF more
<1>4. /\ OwnKept(cli) /\ DOMAIN cli = DOMAIN more \cup DOMAIN own
      /\ cli["session_id"] = <<"proxy">>
  <2>1. DOMAIN more \cap {"authorization", "user_agent", "x-api-key"} = {}
    BY <1>3
  <2>2. OwnKept(cli) /\ DOMAIN cli = DOMAIN more \cup DOMAIN own
    BY <1>2, <1>3, <2>1, OverOwn
  <2>. QED
    BY <1>3, <2>2 DEF Over
<1>. HIDE DEF cli
<1>5. /\ OwnKept(known) /\ known["session_id"] = <<"proxy">>
      /\ DOMAIN known = DOMAIN cli \cup IF account = "none" THEN {} ELSE {"chatgpt-account-id"}
  <2>1. CASE account = "none"
    BY <1>4, <2>1
  <2>2. CASE account # "none"
    <3>1. OwnKept(known) /\ DOMAIN known = DOMAIN cli \cup {"chatgpt-account-id"}
      BY <1>4, <2>2, WithOwn
    <3>2. known["session_id"] = cli["session_id"]
      BY <1>3, <1>4, <2>2 DEF With
    <3>. QED
      BY <1>4, <2>2, <3>1, <3>2
  <2>. QED
    BY <2>1, <2>2
<1>. HIDE DEF known
<1>6. /\ DOMAIN kept = DOMAIN client \cap {"session_id", "conversation_id", "openai-beta"}
      /\ \A n \in DOMAIN kept : kept[n] = <<client[n][1]>>
  BY DEF Line
<1>. HIDE DEF kept
<1>7. /\ OwnKept(h) /\ DOMAIN h = DOMAIN kept \cup DOMAIN known
      /\ \A n \in DOMAIN kept : h[n] = kept[n]
      /\ \A n \in DOMAIN known \ DOMAIN kept : h[n] = known[n]
  <2>1. /\ \A n \in DOMAIN kept : OneLine(kept[n])
        /\ DOMAIN kept \cap {"authorization", "user_agent", "x-api-key"} = {}
    BY <1>6 DEF OneLine
  <2>2. OwnKept(h) /\ DOMAIN h = DOMAIN kept \cup DOMAIN known
    BY <1>5, <2>1, OverOwn
  <2>. QED
    BY <2>2 DEF Over
<1>. HIDE DEF h
<1>8. h["session_id"] = IF "session_id" \in DOMAIN client THEN client["session_id"]
                        ELSE <<"proxy">>
  <2>1. "session_id" \in DOMAIN known
    BY <1>3, <1>4, <1>5
  <2>2. "session_id" \in DOMAIN client => client["session_id"] = <<client["session_id"][1]>>
    BY DEF AnyClient, Line
  <2>. QED
    BY <1>5, <1>6, <1>7, <2>1, <2>2
<1>9. ("chatgpt-account-id" \in DOMAIN h) = (account # "none")
  BY <1>2, <1>3, <1>4, <1>5, <1>6, <1>7
<1>. QED
  BY <1>1, <1>7, <1>8, <1>9

THEOREM HeadersSent ==
  ASSUME NEW client, NEW Betas, AnyClient(client, Betas), Oauth \in Betas,
         NEW account, NEW stream
  PROVE  SentRight(client, account, stream)
<1>. DEFINE cred == [token |-> "ours", account_id |-> account]
            a == UpstreamHeaders("anthropic", cred, client, stream)
            c == UpstreamHeaders("codex", cred, client, stream)
            listed == IF "anthropic-beta" \in DOMAIN client
                      THEN Range(Last(client["anthropic-beta"])) ELSE {}
            betas == a["anthropic-beta"][1]
<1>1. /\ OwnKept(a) /\ IsInjective(betas)
      /\ Range(betas) = IF listed \cap ContainsOauth = {} THEN listed \cup {Oauth} ELSE listed
      /\ \A n \in {"anthropic-version", "anthropic-direct"} : n \in DOMAIN client => a[n] = client[n]
  BY OfAnthropic
<1>2. /\ OwnKept(c)
      /\ c["session_id"] = IF "session_id" \in DOMAIN client THEN client["session_id"]
                           ELSE <<"proxy">>
      /\ ("chatgpt-account-id" \in DOMAIN c) = (account # "none")
  BY OfCodex
<1>3. ASSUME NEW h \in {a, c}
      PROVE  /\ h.authorization = <<"ours">> /\ "x-api-key" \notin DOMAIN h
             /\ h.user_agent # <<"theirs">>
             /\ \A n \in DOMAIN h : Len(h[n]) = 1
  <2>1. OwnKept(h)
    BY <1>1, <1>2
  <2>. HIDE DEF a, c
  <2>2. /\ h.authorization = <<"ours">> /\ "x-api-key" \notin DOMAIN h
        /\ h.user_agent \in {<<"claude-cli">>, <<"codex-cli">>}
    BY <2>1 DEF OwnKept
  <2>3. ASSUME NEW n \in DOMAIN h PROVE Len(h[n]) = 1
    <3>1. PICK val : h[n] = <<val>>
      BY <2>1 DEF OwnKept, OneLine
    <3>. QED
      BY <3>1
  <2>. QED
    BY <2>2, <2>3
<1>. HIDE DEF a, c
<1>. QED
  BY <1>1, <1>2, <1>3 DEF SentRight, a, c

(* Headers that have been sent line by line. *)
BetaNames == {Oauth, "oauth-like", "b1", "b2"}

HeadersInv == about = "headers" => AnyClient(input, BetaNames)

LEMMA AddLineHeadersInv == ASSUME HeadersInv, about = "headers", AddLine PROVE HeadersInv'
<1>. DEFINE before(name) == IF name \in DOMAIN input THEN input[name] ELSE <<>>
<1>0. PICK name \in ClientNames :
        /\ Len(before(name)) < IF name = "anthropic-beta" THEN 2 ELSE 1
        /\ \E val \in HeaderValues(name) :
             input' = With(input, name, Append(before(name), val))
  BY DEF AddLine
<1>1. PICK val \in HeaderValues(name) : input' = With(input, name, Append(before(name), val))
  BY <1>0
<1>. DEFINE lines == before(name)
            more == Append(lines, val)
<1>2. /\ DOMAIN input' = DOMAIN input \cup {name} /\ input'[name] = more
      /\ \A n \in DOMAIN input \ {name} : input'[n] = input[n]
  BY <1>1 DEF With
<1>3. AnyClient(input, BetaNames)
  BY DEF HeadersInv
<1>4. CASE name = "anthropic-beta"
  <2>1. lines \in Seq(Seq(BetaNames))
    <3>1. CASE name \in DOMAIN input
      BY <1>3, <1>4, <3>1 DEF AnyClient
    <3>2. CASE name \notin DOMAIN input
      <4>1. lines = <<>>
        BY <3>2
      <4>. QED
        BY <4>1, EmptySeq
    <3>. QED
      BY <3>1, <3>2
  <2>2. val \in Seq(BetaNames)
    <3>1. PICK m \in 0..2 : val \in [1..m -> BetaNames]
      BY <1>1, <1>4 DEF HeaderValues, SeqOf, BetaNames
    <3>. QED
      BY <3>1, SeqDef
  <2>. HIDE DEF lines
  <2>3. more \in Seq(Seq(BetaNames)) /\ more # <<>>
    BY <2>1, <2>2, AppendProperties
  <2>. HIDE DEF more
  <2>4. \A n \in {"anthropic-version", "anthropic-direct", "session_id"} : n # name
    BY <1>4
  <2>. QED
    BY <1>2, <1>3, <1>4, <2>3, <2>4 DEF AnyClient, HeadersInv
<1>5. CASE name # "anthropic-beta"
  <2>1. name \in {"anthropic-version", "anthropic-direct", "session_id"} => more = Line(more[1])
    <3>1. SUFFICES ASSUME name \in {"anthropic-version", "anthropic-direct", "session_id"}
                   PROVE  more = Line(more[1])
      OBVIOUS
    <3>2. name \notin DOMAIN input
      <4>1. name \in DOMAIN input => input[name] = Line(input[name][1]) /\ Len(input[name]) < 1
        BY <1>0, <1>3, <1>5, <3>1 DEF AnyClient
      <4>2. \A v : Len(Line(v)) = 1
        BY DEF Line
      <4>. QED
        BY <4>1, <4>2
    <3>3. more = <<val>>
      BY <3>2
    <3>. QED
      BY <3>3 DEF Line
  <2>. HIDE DEF more
  <2>. QED
    BY <1>2, <1>3, <1>5, <2>1 DEF AnyClient, HeadersInv
<1>. QED
  BY <1>4, <1>5

LEMMA SentHeadersRight == ASSUME HeadersInv PROVE HeadersRight
<1>1. Oauth \in BetaNames
  BY DEF BetaNames
<1>2. about = "headers" =>
        \A stream \in BOOLEAN, account \in {"none", "id"} : SentRight(input, account, stream)
  BY <1>1, HeadersSent DEF HeadersInv
<1>. QED
  BY <1>2 DEF HeadersRight

--------------------------------------------------------------------------------
(* The answer that comes down, for any replies. *)

(* What comes of an attempt, and what the client is told of it. *)
LEMMA AnyOfReplies ==
  ASSUME NEW r \in Replies
  PROVE  /\ AnyReply(r)
         /\ \/ r.status = 0 /\ r.headers = <<>> /\ r.text = "why"
               /\ r.shape \in {"no_token", "unreachable", "lost"}
            \/ /\ r.headers \in ReplyHeaders
               /\ \/ r.status = 200 /\ r.shape = "success" /\ r.text = "none"
                  \/ /\ r.status \in {400, 401, 404, 429, 503}
                     /\ r.shape \in {"anthropic", "detail", "other"}
                     /\ r.text = IF r.shape = "other" THEN "none" ELSE "why"
         /\ r = [status |-> r.status, shape |-> r.shape, text |-> r.text, headers |-> r.headers]
<1>1. \/ \E h \in ReplyHeaders : r = Shaped(200, "success", "none", h)
      \/ \E shape \in {"no_token", "unreachable", "lost"} : r = Shaped(0, shape, "why", <<>>)
      \/ \E status \in {400, 401, 404, 429, 503}, h \in ReplyHeaders,
            shape \in {"anthropic", "detail", "other"} :
           r = Shaped(status, shape, IF shape = "other" THEN "none" ELSE "why", h)
  BY DEF Replies
<1>2. \A h \in ReplyHeaders :
        "retry-after" \in DOMAIN h => h["retry-after"][1] \in Nat \cup {NoSeconds}
  BY DEF ReplyHeaders, With, Line
<1>3. "retry-after" \notin DOMAIN <<>>
  OBVIOUS
<1>4. CASE \E h \in ReplyHeaders : r = Shaped(200, "success", "none", h)
  BY <1>2, <1>4 DEF Shaped, AnyReply
<1>5. CASE \E shape \in {"no_token", "unreachable", "lost"} : r = Shaped(0, shape, "why", <<>>)
  BY <1>3, <1>5 DEF Shaped, AnyReply
<1>6. CASE \E status \in {400, 401, 404, 429, 503}, h \in ReplyHeaders,
              shape \in {"anthropic", "detail", "other"} :
             r = Shaped(status, shape, IF shape = "other" THEN "none" ELSE "why", h)
  BY <1>2, <1>6 DEF Shaped, AnyReply
<1>. QED
  BY <1>1, <1>4, <1>5, <1>6

(* No header of the connection goes on to the client, and one line stays one. *)
LEMMA HeadersOnward ==
  ASSUME NEW h \in ReplyHeaders \cup {<<>>}
  PROVE  LET kept == {"retry-after", "request-id", "x-request-id"} \cap DOMAIN h
             out == EndToEnd(h)
             new == Over([n \in kept |-> Line(h[n][1])], [content_type |-> Line("json")])
         IN /\ kept \subseteq DOMAIN out /\ \A n \in kept : out[n] = h[n]
            /\ DOMAIN out \cap HopByHop = {}
            /\ kept \subseteq DOMAIN new /\ \A n \in kept : new[n] = h[n]
            /\ DOMAIN new \cap HopByHop = {}
<1>. DEFINE kept == {"retry-after", "request-id", "x-request-id"} \cap DOMAIN h
            out == EndToEnd(h)
            new == Over([n \in kept |-> Line(h[n][1])], [content_type |-> Line("json")])
<1>1. \A n \in kept : h[n] = Line(h[n][1])
  BY DEF ReplyHeaders, With, Line
<1>2. out = [n \in DOMAIN h \ HopByHop |-> h[n]]
  BY DEF EndToEnd, Without, Restrict
<1>3. kept \cap HopByHop = {} /\ "content_type" \notin HopByHop /\ "content_type" \notin kept
  BY DEF HopByHop
<1>4. new = [n \in kept \cup {"content_type"} |->
               IF n \in kept THEN Line(h[n][1]) ELSE Line("json")]
  BY DEF Over
<1>. HIDE DEF kept, out, new
<1>5. kept \subseteq DOMAIN h
  BY DEF kept
<1>. QED
  BY <1>1, <1>2, <1>3, <1>4, <1>5 DEF kept, out, new

LEMMA ResponsesFound == Resolve("codex", <<"responses">>) # NotFound
<1>. DEFINE p == <<"responses">>
            Names == {"responses"}
<1>1. p \in Seq(Names) /\ p # <<>> /\ p[1] = "responses"
  OBVIOUS
<1>. HIDE DEF p, Names
<1>2. StripV1(p) = p /\ SubPath(p, <<"responses">>)
  <2>1. \A m, u, h, d : StripV1(p) = p
    BY <1>1, AnyVersion
  <2>2. \A a, b : SubPath(p, <<a>>) <=> p[1] = a
    BY <1>1, SubPaths
  <2>. QED
    BY <1>1, <2>1, <2>2
<1>3. \A a, b : SubPath(p, <<a, b>>) <=> Len(p) >= 2 /\ p[1] = a /\ p[2] = b
  BY <1>1, SubPaths
<1>4. Resolve("codex", p) = [at |-> "codex", path |-> p]
  BY <1>1, <1>2, <1>3 DEF Resolve
<1>. QED
  BY <1>4 DEF NotFound, p

LEMMA Answered ==
  ASSUME NEW replies, NEW dialect \in {"anthropic", "openai"}, Upstream(replies).resp \in Replies
  PROVE  AnsweredRight(replies, Upstream(replies).resp, dialect)
<1>. DEFINE r == Upstream(replies).resp
            out == Handle(Resolve("codex", <<"responses">>),
                          DecodeRequestBody("zstd", "zstd", TRUE), replies, dialect)
            kept == {"retry-after", "request-id", "x-request-id"} \cap DOMAIN r.headers
            lines == [n \in kept |-> Line(r.headers[n][1])]
            json == [content_type |-> Line("json")]
<1>. SUFFICES /\ kept \subseteq DOMAIN out.headers
              /\ \A n \in kept : out.headers[n] = r.headers[n]
              /\ DOMAIN out.headers \cap HopByHop = {}
              /\ r.status = 200 => out.shape = "success" /\ out.headers = EndToEnd(r.headers)
              /\ r.status # 200 => out.shape \in {"anthropic", dialect} /\ out.status >= 400
              /\ r.status # 0 => out.status = r.status
              /\ r.text # "none" => out.text = r.text
  BY DEF AnsweredRight
<1>1. out = IF r.shape = "no_token" THEN DialectError(dialect, 401, "authentication", r.text)
            ELSE IF r.shape \in {"unreachable", "lost"}
            THEN DialectError(dialect, 502, "upstream", r.text)
            ELSE IF r.status \in 200..299 THEN Relay(r) ELSE NormalizeError(r, dialect)
  BY ResponsesFound DEF Handle, DecodeRequestBody
<1>2. r \in Replies
  OBVIOUS
<1>. HIDE DEF r, out
<1>3. /\ \/ r.status = 0 /\ r.headers = <<>> /\ r.text = "why"
            /\ r.shape \in {"no_token", "unreachable", "lost"}
         \/ /\ r.headers \in ReplyHeaders
            /\ \/ r.status = 200 /\ r.shape = "success" /\ r.text = "none"
               \/ /\ r.status \in {400, 401, 404, 429, 503}
                  /\ r.shape \in {"anthropic", "detail", "other"}
                  /\ r.text = IF r.shape = "other" THEN "none" ELSE "why"
      /\ r = [status |-> r.status, shape |-> r.shape, text |-> r.text, headers |-> r.headers]
  BY <1>2, AnyOfReplies
<1>4. /\ kept \subseteq DOMAIN EndToEnd(r.headers)
      /\ \A n \in kept : EndToEnd(r.headers)[n] = r.headers[n]
      /\ DOMAIN EndToEnd(r.headers) \cap HopByHop = {}
      /\ kept \subseteq DOMAIN Over(lines, json) /\ \A n \in kept : Over(lines, json)[n] = r.headers[n]
      /\ DOMAIN Over(lines, json) \cap HopByHop = {}
  <2>1. r.headers \in ReplyHeaders \cup {<<>>}
    BY <1>3
  <2>. QED
    BY <2>1, HeadersOnward
<1>5. /\ Relay(r).headers = EndToEnd(r.headers) /\ Relay(r).status = r.status
      /\ Relay(r).shape = r.shape /\ Relay(r).text = r.text
  BY <1>3 DEF Relay
<1>6. \A status, kind, text :
        /\ DialectError(dialect, status, kind, text).headers = json
        /\ DialectError(dialect, status, kind, text).status = status
        /\ DialectError(dialect, status, kind, text).shape = dialect
        /\ DialectError(dialect, status, kind, text).text = text
  BY DEF DialectError
<1>7. "content_type" \notin HopByHop /\ DOMAIN json = {"content_type"}
  BY DEF HopByHop
<1>8. CASE r.status = 0
  <2>1. r.headers = <<>> /\ r.text = "why" /\ r.shape \in {"no_token", "unreachable", "lost"}
    BY <1>3, <1>8
  <2>2. kept = {}
    BY <2>1
  <2>3. \/ out = DialectError(dialect, 401, "authentication", r.text)
        \/ out = DialectError(dialect, 502, "upstream", r.text)
    BY <1>1, <2>1
  <2>. HIDE DEF kept, json, lines
  <2>4. /\ out.headers = json /\ out.status \in {401, 502} /\ out.shape = dialect
        /\ out.text = r.text
    BY <1>6, <2>3
  <2>. QED
    BY <1>7, <1>8, <2>2, <2>4
<1>9. CASE r.status = 200
  <2>1. out = Relay(r) /\ r.shape = "success" /\ r.text = "none"
    BY <1>1, <1>3, <1>9
  <2>. HIDE DEF kept, json, lines
  <2>. QED
    BY <1>4, <1>5, <1>9, <2>1
<1>10. CASE r.status \in {400, 401, 404, 429, 503}
  <2>1. /\ r.shape \in {"anthropic", "detail", "other"}
        /\ r.text = IF r.shape = "other" THEN "none" ELSE "why"
    BY <1>3, <1>10
  <2>2. r.status \notin 200..299 /\ r.status >= 400 /\ r.status # 200
    BY <1>10
  <2>3. out = NormalizeError(r, dialect)
    BY <1>1, <2>1, <2>2
  <2>4. CASE r.shape = "anthropic"
    <3>1. out = Relay(r)
      BY <2>3, <2>4 DEF NormalizeError, Official
    <3>. HIDE DEF kept, json, lines
    <3>2. out.status = r.status /\ out.shape = "anthropic" /\ out.text = r.text
      BY <1>5, <2>4, <3>1
    <3>. QED
      BY <1>4, <1>5, <2>2, <3>1, <3>2
  <2>5. CASE r.shape # "anthropic"
    <3>. DEFINE new == DialectError(dialect, r.status, ErrorKind(r.status), TextOf(r))
    <3>1. out = [new EXCEPT !.headers = Over(lines, @)]
      BY <2>1, <2>3, <2>5 DEF NormalizeError, Official
    <3>2. /\ DOMAIN new = {"status", "headers", "shape", "type", "text"} /\ new.headers = json
          /\ new.status = r.status /\ new.shape = dialect /\ new.text = TextOf(r)
      BY DEF DialectError
    <3>. HIDE DEF new, json, lines
    <3>3. /\ out.headers = Over(lines, json) /\ out.status = r.status /\ out.shape = dialect
          /\ out.text = TextOf(r)
      BY <3>1, <3>2
    <3>4. r.text # "none" => TextOf(r) = r.text
      BY <2>1, <2>5 DEF TextOf
    <3>. HIDE DEF kept
    <3>. QED
      BY <1>4, <2>2, <3>3, <3>4
  <2>. QED
    BY <2>4, <2>5
<1>. QED
  BY <1>3, <1>8, <1>9, <1>10

(* What was tried does not depend on what is answered later. *)
LEMMA Earlier ==
  ASSUME NEW S, NEW replies \in Seq(S), NEW r \in S
  PROVE  \A k \in 0..Len(replies) : Tried(Append(replies, r))[k] = Tried(replies)[k]
<1>. DEFINE n == Len(replies)
            more == Append(replies, r)
            T == {k \in 0..n : Tried(more)[k] = Tried(replies)[k]}
<1>1. /\ n \in Nat /\ Len(more) = n + 1
      /\ \A k \in 1..n : more[k] = replies[k]
  BY LenProperties, AppendProperties
<1>. HIDE DEF more, n
<1>2. /\ Tried(replies)[0] = Asked
      /\ \A k \in 1..n : Tried(replies)[k] = Attempt(Tried(replies)[k - 1], replies[k])
  BY <1>1, TriedEach DEF n
<1>3. /\ Tried(more)[0] = Asked
      /\ \A k \in 1..(n + 1) : Tried(more)[k] = Attempt(Tried(more)[k - 1], more[k])
  <2>. DEFINE m == n + 1
  <2>1. m \in Nat /\ m = Len(more)
    BY <1>1
  <2>. HIDE DEF m
  <2>2. /\ Tried(more)[0] = Asked
        /\ \A k \in 1..m : Tried(more)[k] = Attempt(Tried(more)[k - 1], more[k])
    BY <2>1, TriedEach
  <2>. QED
    BY <2>2 DEF m
<1>4. 0 \in T
  BY <1>1, <1>2, <1>3
<1>5. ASSUME NEW k \in 0..(n - 1), k \in T PROVE k + 1 \in T
  <2>1. k + 1 \in 1..n /\ k + 1 \in 0..n /\ k + 1 \in 1..(n + 1) /\ (k + 1) - 1 = k
    BY <1>1
  <2>2. Tried(more)[k + 1] = Attempt(Tried(more)[k], more[k + 1])
    BY <1>3, <2>1
  <2>3. Tried(replies)[k + 1] = Attempt(Tried(replies)[k], replies[k + 1])
    BY <1>2, <2>1
  <2>4. Tried(more)[k] = Tried(replies)[k] /\ more[k + 1] = replies[k + 1]
    BY <1>1, <1>5, <2>1
  <2>. QED
    BY <2>1, <2>2, <2>3, <2>4
<1>6. 0..n \subseteq T
  <2>. HIDE DEF T
  <2>. QED
    BY <1>1, <1>4, <1>5, Induct
<1>. QED
  BY <1>6 DEF n, more

(* The client does not ask again once it has an answer. *)
RepliesInv ==
  about = "replies" =>
    /\ input \in Seq(Replies)
    /\ \A k \in 0..(Len(input) - 1) : ~Tried(input)[k].over

LEMMA ReplyRepliesInv == ASSUME RepliesInv, about = "replies", Reply PROVE RepliesInv'
<1>1. PICK r \in Replies : input' = Append(input, r)
  BY DEF Reply
<1>2. ~Tried(input)[Len(input)].over
  BY DEF Reply, Upstream
<1>. DEFINE n == Len(input)
<1>3. input \in Seq(Replies) /\ n \in Nat
  BY LenProperties DEF RepliesInv
<1>4. input' \in Seq(Replies) /\ Len(input') = n + 1
  BY <1>1, <1>3, AppendProperties
<1>5. \A k \in 0..n : Tried(input')[k] = Tried(input)[k]
  BY <1>1, <1>3, Earlier
<1>. HIDE DEF n
<1>6. ASSUME NEW k \in 0..(Len(input') - 1) PROVE ~Tried(input')[k].over
  <2>1. k \in 0..n /\ Tried(input')[k] = Tried(input)[k]
    BY <1>3, <1>4, <1>5
  <2>2. CASE k = n
    BY <1>2, <2>1, <2>2 DEF n
  <2>3. CASE k # n
    <3>1. k \in 0..(n - 1)
      BY <1>3, <2>1, <2>3
    <3>. QED
      BY <2>1, <3>1 DEF RepliesInv, n
  <2>. QED
    BY <2>2, <2>3
<1>. QED
  BY <1>4, <1>6 DEF RepliesInv

LEMMA AnswersRight == ASSUME RepliesInv PROVE AnswerRight
<1>. SUFFICES ASSUME about = "replies", Upstream(input).over
              PROVE  /\ TriedRight(input)
                     /\ \A dialect \in {"anthropic", "openai"} :
                          AnsweredRight(input, Last(input), dialect)
  BY DEF AnswerRight
<1>. DEFINE n == Len(input)
            end == Upstream(input)
<1>1. /\ input \in Seq(Replies) /\ n \in Nat /\ DOMAIN input = 1..n
      /\ \A i \in 1..n : input[i] \in Replies /\ AnyReply(input[i])
  BY AnyOfReplies, LenProperties DEF RepliesInv
<1>2. Loop(end, input, n) /\ \A k \in 0..n : Loop(Tried(input)[k], input, k)
  BY <1>1, LoopKept DEF Upstream
<1>3. /\ end.n <= AttemptLimit /\ end.n <= n /\ end.waited \in 0..16
      /\ \A k \in 1..(end.n - 1) : Passing(input[k])
      /\ \A j, k \in 1..(end.n - 1) : input[j].status = 401 /\ input[k].status = 401 => j = k
      /\ end.n >= 1 /\ end.resp = input[end.n]
  BY <1>1, RetriesBounded
<1>. HIDE DEF n
<1>4. end.n = n
  <2>. DEFINE before == Tried(input)[n - 1]
  <2>1. n - 1 \in Nat /\ n - 1 \in 0..n /\ n \in 1..n /\ end.n \in Nat
    BY <1>1, <1>2, <1>3 DEF Loop
  <2>2. ~before.over /\ before.n = n - 1 /\ before \in [n : 0..3, rejected : BOOLEAN, waited : Nat,
          over : BOOLEAN, resp : {input[i] : i \in Nat} \cup {NotFound}]
    <3>1. ~before.over
      BY <2>1 DEF RepliesInv, n
    <3>2. Loop(before, input, n - 1)
      BY <1>2, <2>1
    <3>. QED
      BY <3>1, <3>2 DEF Loop
  <2>3. end = Attempt(before, input[n])
    <3>1. \A k \in 1..n : Tried(input)[k] = Attempt(Tried(input)[k - 1], input[k])
      BY <1>1, TriedEach DEF n
    <3>. QED
      BY <2>1, <3>1 DEF Upstream, n
  <2>. HIDE DEF before, end
  <2>. QED
    BY <1>1, <2>1, <2>2, <2>3 DEF Attempt
<1>5. end.resp = input[n] /\ Last(input) = input[n] /\ input[n] \in Replies
  BY <1>1, <1>3, <1>4 DEF Last, n
<1>. DEFINE early == {k \in DOMAIN input : k < Len(input)}
            refused == {k \in early : input[k].status = 401}
<1>6. early = 1..(n - 1)
  BY <1>1 DEF n
<1>. HIDE DEF end, early
<1>7. Cardinality(refused) <= 1
  <2>1. \A j, k \in refused : j = k
    BY <1>3, <1>4, <1>6
  <2>. HIDE DEF refused
  <2>2. refused = {} \/ \E k \in refused : refused = {k}
    BY <2>1
  <2>3. CASE refused = {}
    BY <2>3, FS_EmptySet
  <2>4. ASSUME NEW k \in refused, refused = {k} PROVE Cardinality(refused) <= 1
    <3>1. Cardinality(refused) = 1
      BY <2>4, FS_Singleton
    <3>. QED
      BY <3>1
  <2>. QED
    BY <2>2, <2>3, <2>4
<1>8. ASSUME NEW k \in early
      PROVE  /\ input[k].status \notin {200, 400, 404, 429}
             /\ \/ input[k].status = 401
                \/ ~("retry-after" \in DOMAIN input[k].headers
                     /\ input[k].headers["retry-after"][1] > 8)
  <2>1. Passing(input[k]) /\ AnyReply(input[k])
    BY <1>1, <1>3, <1>4, <1>6
  <2>. DEFINE r == input[k]
  <2>. HIDE DEF r
  <2>. QED
    BY <2>1 DEF Passing, AnyReply, RetryStatuses, NoSeconds, r
<1>9. n <= AttemptLimit /\ end.waited <= 16
  BY <1>3, <1>4
<1>10. TriedRight(input)
  BY <1>7, <1>8, <1>9 DEF TriedRight, early, end, refused, n
<1>11. ASSUME NEW dialect \in {"anthropic", "openai"}
       PROVE  AnsweredRight(input, Last(input), dialect)
  BY <1>5, Answered DEF end
<1>. QED
  BY <1>10, <1>11

(***************************************************************************)
(* passthrough.rs: whatever headers a client sends line by line, and       *)
(* whatever comes of the attempts, what goes up is the proxy's own and what*)
(* comes down is the upstream's.                                           *)
(***************************************************************************)
THEOREM Exchanged == CaseSpec => []ExchangeRight
<1>. DEFINE Inv == HeadersInv /\ RepliesInv
<1>1. CaseInit => Inv
  <2>1. CaseInit => HeadersInv
    BY DEF CaseInit, RecordInit, HeadersInv, AnyClient
  <2>2. ASSUME CaseInit, about = "replies" PROVE RepliesInv
    <3>1. input = <<>>
      BY <2>2 DEF CaseInit, RecordInit
    <3>2. Len(input) = 0 /\ input \in Seq(Replies)
      <4>1. <<>> \in Seq(Replies) /\ Len(<<>>) = 0
        OBVIOUS
      <4>. QED
        BY <3>1, <4>1
    <3>. QED
      BY <3>2 DEF RepliesInv
  <2>. QED
    BY <2>1, <2>2 DEF RepliesInv
<1>2. Inv /\ [CaseNext]_<<about, input>> => Inv'
  <2>. SUFFICES ASSUME HeadersInv, RepliesInv, [CaseNext]_<<about, input>>
                PROVE  HeadersInv' /\ RepliesInv'
    OBVIOUS
  <2>1. CASE UNCHANGED input
    BY <2>1, Sorts DEF HeadersInv, RepliesInv
  <2>2. CASE about \notin {"headers", "replies"}
    BY <2>2, Sorts DEF HeadersInv, RepliesInv
  <2>3. CASE about = "headers" /\ AddLine
    <3>1. HeadersInv'
      BY <2>3, AddLineHeadersInv
    <3>. QED
      BY <2>3, <3>1, Sorts DEF RepliesInv
  <2>4. CASE about = "replies" /\ Reply
    <3>1. RepliesInv'
      BY <2>4, ReplyRepliesInv
    <3>. QED
      BY <2>4, <3>1, Sorts DEF HeadersInv
  <2>. QED
    BY <2>1, <2>2, <2>3, <2>4, Sorts
<1>3. Inv => ExchangeRight
  BY SentHeadersRight, AnswersRight DEF ExchangeRight
<1>. QED
  BY <1>1, <1>2, <1>3, PTL DEF CaseSpec

--------------------------------------------------------------------------------
(* The options of a chat request, in the words of both APIs. *)

(* What a client may write for the options the proxy looks at. *)
AnyOptions(req) ==
  /\ \A key \in {"max_tokens", "max_completion_tokens"} \cap DOMAIN req : req[key] \in Nat
  /\ "parallel_tool_calls" \in DOMAIN req => req["parallel_tool_calls"] \in BOOLEAN
  /\ "tool_choice" \in DOMAIN req =>
       /\ req["tool_choice"].type \in {"auto", "required", "none", "odd", "other", "object"}
       /\ req["tool_choice"].type # "object" => req["tool_choice"].name = "none"
  /\ "response_format" \in DOMAIN req =>
       (req["response_format"].schema # "none" => req["response_format"].type = "json_schema")

Chosen(body) == IF "tool_choice" \in DOMAIN body THEN May(body["tool_choice"]) ELSE "auto"

Single(req) == "parallel_tool_calls" \in DOMAIN req /\ ~req["parallel_tool_calls"]

(* Which of the choices the Messages API is told of, and how many calls.     *)
LEMMA AnthropicChosen ==
  ASSUME NEW req, AnyOptions(req)
  PROVE  LET choice == Alone(req, AnthropicChoice(req))
             told == choice # <<>>
         IN /\ Chosen(req) = IF told THEN May(choice[1]) ELSE "auto"
            /\ (told /\ choice[1].alone)
                 = (Single(req) /\ NamedTools(req) # <<>> /\ Chosen(req) # "none")
<1>. DEFINE given == req["tool_choice"]
            asked == AnthropicChoice(req)
            made == IF asked = <<>> THEN Choice("auto", "none") ELSE asked[1]
            alone == [made EXCEPT !.alone = made.type # "none"]
            one == Single(req) /\ NamedTools(req) # <<>>
            choice == Alone(req, asked)
<1>1. choice = IF one THEN <<alone>> ELSE asked
  BY DEF Alone, Single, Has
<1>2. \A type, name : /\ Choice(type, name).type = type /\ Choice(type, name).name = name
                      /\ Choice(type, name).alone = FALSE
                      /\ DOMAIN Choice(type, name) = {"type", "name", "alone"}
  BY DEF Choice
<1>3. \/ asked = <<>> /\ Chosen(req) = "auto"
      \/ \E type \in {"auto", "none", "any", "tool"} : \E name :
           /\ asked = <<Choice(type, name)>>
           /\ Chosen(req) = May(Choice(type, name))
           /\ type = "none" <=> Chosen(req) = "none"
  <2>1. CASE "tool_choice" \notin DOMAIN req
    BY <2>1 DEF AnthropicChoice, Has, Chosen
  <2>2. CASE "tool_choice" \in DOMAIN req
    <3>1. Chosen(req) = May(given)
      BY <2>2 DEF Chosen
    <3>2. /\ given.type \in {"auto", "required", "none", "odd", "other", "object"}
          /\ given.type # "object" => given.name = "none"
      BY <2>2 DEF AnyOptions
    <3>3. CASE given.type \in {"auto", "none"}
      <4>1. asked = <<Choice(given.type, "none")>>
        BY <2>2, <3>3 DEF AnthropicChoice, Has
      <4>2. May(given) = given.type /\ May(Choice(given.type, "none")) = given.type
        BY <3>2, <3>3 DEF May, Choice
      <4>. QED
        BY <3>1, <3>3, <4>1, <4>2
    <3>4. CASE given.type = "required"
      <4>1. asked = <<Choice("any", "none")>>
        BY <2>2, <3>4 DEF AnthropicChoice, Has
      <4>2. May(given) = "must" /\ May(Choice("any", "none")) = "must"
        BY <3>2, <3>4 DEF May, Choice
      <4>. QED
        BY <3>1, <4>1, <4>2
    <3>5. CASE given.type = "object" /\ given.name # "none"
      <4>1. asked = <<Choice("tool", given.name)>>
        BY <2>2, <3>5 DEF AnthropicChoice, Has
      <4>2. May(given) = given.name /\ May(Choice("tool", given.name)) = given.name
        BY <3>5 DEF May, Choice
      <4>. QED
        BY <3>1, <3>5, <4>1, <4>2
    <3>6. CASE given.type \in {"odd", "other"} \/ (given.type = "object" /\ given.name = "none")
      <4>1. asked = <<>>
        BY <2>2, <3>6 DEF AnthropicChoice, Has
      <4>2. May(given) = "auto"
        BY <3>6 DEF May
      <4>. QED
        BY <3>1, <4>1, <4>2
    <3>. QED
      BY <3>2, <3>3, <3>4, <3>5, <3>6
  <2>. QED
    BY <2>1, <2>2
<1>. HIDE DEF asked, one
<1>4. May(Choice("auto", "none")) = "auto"
  BY DEF May, Choice
<1>5. PICK type \in {"auto", "none", "any", "tool"} : \E name :
        /\ made = Choice(type, name) /\ Chosen(req) = May(made)
        /\ type = "none" <=> Chosen(req) = "none"
        /\ asked = <<>> \/ asked = <<made>>
  <2>1. CASE asked = <<>>
    BY <1>3, <1>4, <2>1
  <2>2. CASE asked # <<>>
    BY <1>3, <2>2
  <2>. QED
    BY <2>1, <2>2
<1>6. made.type = type /\ made.alone = FALSE /\ DOMAIN made = {"type", "name", "alone"}
  BY <1>2, <1>5
<1>7. asked = <<>> => Chosen(req) = "auto"
  BY <1>4, <1>5
<1>. HIDE DEF made, choice
<1>8. CASE one
  <2>1. alone.type = made.type /\ alone.name = made.name /\ alone.alone = (type # "none")
    BY <1>6
  <2>2. choice = <<alone>>
    BY <1>1, <1>8
  <2>. HIDE DEF alone
  <2>3. May(alone) = May(made)
    BY <2>1 DEF May
  <2>4. choice # <<>> /\ choice[1] = alone
    BY <2>2
  <2>. QED
    BY <1>5, <1>8, <2>1, <2>3, <2>4 DEF one, choice, asked
<1>9. CASE ~one
  <2>1. choice = asked
    BY <1>1, <1>9
  <2>2. asked # <<>> => asked[1] = made
    BY <1>5
  <2>. QED
    BY <1>5, <1>6, <1>7, <1>9, <2>1, <2>2 DEF one, choice, asked
<1>. QED
  BY <1>8, <1>9

LEMMA CodexChosen ==
  ASSUME NEW req, AnyOptions(req)
  PROVE  Chosen(req) = IF CodexChoice(req) # <<>> THEN May(CodexChoice(req)[1]) ELSE "auto"
<1>. DEFINE given == req["tool_choice"]
            asked == CodexChoice(req)
<1>1. CASE "tool_choice" \notin DOMAIN req
  BY <1>1 DEF CodexChoice, Has, Chosen
<1>2. CASE "tool_choice" \in DOMAIN req
  <2>1. Chosen(req) = May(given)
    BY <1>2 DEF Chosen
  <2>2. /\ given.type \in {"auto", "required", "none", "odd", "other", "object"}
        /\ given.type # "object" => given.name = "none"
    BY <1>2 DEF AnyOptions
  <2>3. CASE given.type = "other" \/ (given.type = "object" /\ given.name = "none")
    <3>1. asked = <<>>
      BY <1>2, <2>3 DEF CodexChoice, Has
    <3>2. May(given) = "auto"
      BY <2>3 DEF May
    <3>. QED
      BY <2>1, <3>1, <3>2
  <2>4. CASE given.type \in {"auto", "required", "none", "odd"}
    <3>1. asked = <<Choice(given.type, "none")>>
      BY <1>2, <2>4 DEF CodexChoice, Has
    <3>2. May(given) = May(Choice(given.type, "none"))
      BY <2>2, <2>4 DEF May, Choice
    <3>. QED
      BY <2>1, <3>1, <3>2
  <2>5. CASE given.type = "object" /\ given.name # "none"
    <3>1. asked = <<Choice("function", given.name)>>
      BY <1>2, <2>5 DEF CodexChoice, Has
    <3>2. May(given) = May(Choice("function", given.name))
      BY <2>5 DEF May, Choice
    <3>. QED
      BY <2>1, <3>1, <3>2
  <2>. QED
    BY <2>2, <2>3, <2>4, <2>5
<1>. QED
  BY <1>1, <1>2

LEMMA AnthropicKeys ==
  ASSUME NEW req
  PROVE  LET a == AnthropicOptions(req)
             effort == ReasoningEffort(req)
             asked == IF MaxTokens(req) = -1 THEN DefaultMaxTokens ELSE MaxTokens(req)
             choice == Alone(req, AnthropicChoice(req))
         IN /\ "thinking" \in DOMAIN a <=> effort # "none"
            /\ "effort" \in DOMAIN a <=> effort # "none"
            /\ "format" \in DOMAIN a <=> Schema(req) # "none"
            /\ "format" \in DOMAIN a => a["format"] = Schema(req)
            /\ "tools" \in DOMAIN a <=> NamedTools(req) # <<>>
            /\ "tools" \in DOMAIN a => a["tools"] = NamedTools(req)
            /\ "tool_choice" \in DOMAIN a <=> choice # <<>>
            /\ "tool_choice" \in DOMAIN a => a["tool_choice"] = choice[1]
            /\ a["max_tokens"] = IF effort # "none" /\ asked < ThinkingMinOutput
                                 THEN ThinkingMinOutput ELSE asked
BY DEF AnthropicOptions, When

LEMMA CodexKeys ==
  ASSUME NEW req
  PROVE  LET c == CodexOptions(req)
         IN /\ "format" \in DOMAIN c <=> TextFormat(req) # "none"
            /\ "format" \in DOMAIN c => c["format"] = TextFormat(req)
            /\ "tools" \in DOMAIN c <=> NamedTools(req) # <<>>
            /\ "tools" \in DOMAIN c => c["tools"] = NamedTools(req)
            /\ "tool_choice" \in DOMAIN c <=> CodexChoice(req) # <<>>
            /\ "tool_choice" \in DOMAIN c => c["tool_choice"] = CodexChoice(req)[1]
            /\ Has(req, "parallel_tool_calls") =>
                 c["parallel_tool_calls"] = req["parallel_tool_calls"]
            /\ Has(req, "reasoning_effort") => "reasoning" \in DOMAIN c
            /\ {"max_tokens", "max_completion_tokens", "stop"} \cap DOMAIN c = {}
BY DEF CodexOptions, When

(***************************************************************************)
(* convert: the options of a chat request mean the same to both APIs, for  *)
(* any tools, limits, schemas and names.                                   *)
(***************************************************************************)
THEOREM OptionsTold == ASSUME NEW req, AnyOptions(req) PROVE OptionsRight(req)
<1>. DEFINE a == AnthropicOptions(req)
            c == CodexOptions(req)
            choice == Alone(req, AnthropicChoice(req))
            effort == Has(req, "reasoning_effort")
                      /\ req["reasoning_effort"] \notin {"none", "minimal"}
            limit == IF MaxTokens(req) = -1 THEN DefaultMaxTokens ELSE MaxTokens(req)
            schema == Has(req, "response_format") /\ req["response_format"].schema # "none"
<1>1. effort <=> ReasoningEffort(req) # "none"
  BY DEF ReasoningEffort
<1>2. MaxTokens(req) \in Nat \cup {-1}
  BY DEF MaxTokens, Has, AnyOptions
<1>3. schema => Schema(req) = req["response_format"].schema /\ TextFormat(req) = Schema(req)
                /\ Schema(req) # "none"
  BY DEF Schema, TextFormat, Has, AnyOptions
<1>4. /\ "thinking" \in DOMAIN a <=> effort
      /\ "effort" \in DOMAIN a <=> effort
      /\ "format" \in DOMAIN a <=> Schema(req) # "none"
      /\ "format" \in DOMAIN a => a["format"] = Schema(req)
      /\ "tools" \in DOMAIN a <=> NamedTools(req) # <<>>
      /\ "tools" \in DOMAIN a => a["tools"] = NamedTools(req)
      /\ "tool_choice" \in DOMAIN a <=> choice # <<>>
      /\ "tool_choice" \in DOMAIN a => a["tool_choice"] = choice[1]
      /\ a["max_tokens"] = IF effort /\ limit < ThinkingMinOutput THEN ThinkingMinOutput ELSE limit
  <2>. HIDE DEF effort
  <2>. QED
    BY <1>1, AnthropicKeys
<1>5. /\ "format" \in DOMAIN c <=> TextFormat(req) # "none"
      /\ "format" \in DOMAIN c => c["format"] = TextFormat(req)
      /\ "tools" \in DOMAIN c <=> NamedTools(req) # <<>>
      /\ "tools" \in DOMAIN c => c["tools"] = NamedTools(req)
      /\ "tool_choice" \in DOMAIN c <=> CodexChoice(req) # <<>>
      /\ "tool_choice" \in DOMAIN c => c["tool_choice"] = CodexChoice(req)[1]
      /\ Has(req, "parallel_tool_calls") => c["parallel_tool_calls"] = req["parallel_tool_calls"]
      /\ Has(req, "reasoning_effort") => "reasoning" \in DOMAIN c
      /\ {"max_tokens", "max_completion_tokens", "stop"} \cap DOMAIN c = {}
  BY CodexKeys
<1>6. /\ Chosen(req) = IF choice # <<>> THEN May(choice[1]) ELSE "auto"
      /\ (choice # <<>> /\ choice[1].alone)
           = (Single(req) /\ NamedTools(req) # <<>> /\ Chosen(req) # "none")
  BY AnthropicChosen
<1>7. Chosen(req) = IF CodexChoice(req) # <<>> THEN May(CodexChoice(req)[1]) ELSE "auto"
  BY CodexChosen
<1>. HIDE DEF a, c, choice
<1>8. Chosen(a) = Chosen(req) /\ Chosen(c) = Chosen(req)
  BY <1>4, <1>5, <1>6, <1>7 DEF Chosen
<1>9. ASSUME NEW body \in {a, c}
      PROVE  /\ Chosen(body) = Chosen(req)
             /\ NamedTools(req) = IF "tools" \in DOMAIN body THEN body["tools"] ELSE <<>>
             /\ schema => body["format"] = req["response_format"].schema
  <2>. HIDE DEF schema
  <2>. QED
    BY <1>3, <1>4, <1>5, <1>8
<1>10. ("tool_choice" \in DOMAIN a /\ a["tool_choice"].alone)
         = (Single(req) /\ "tools" \in DOMAIN a /\ Chosen(req) # "none")
  BY <1>4, <1>6
<1>11. /\ a["max_tokens"] >= MaxTokens(req)
       /\ MaxTokens(req) >= 0 /\ a["max_tokens"] # MaxTokens(req) =>
            effort /\ a["max_tokens"] = ThinkingMinOutput
  <2>. HIDE DEF effort
  <2>. QED
    BY <1>2, <1>4 DEF DefaultMaxTokens, ThinkingMinOutput
<1>12. effort = ("thinking" \in DOMAIN a) /\ effort = ("effort" \in DOMAIN a)
  BY <1>4
<1>. QED
  BY <1>5, <1>9, <1>10, <1>11, <1>12 DEF OptionsRight, Chosen, Single, Has, a, c

(* Options that have been written one by one. *)
OptionsInv == about = "options" => AnyOptions(input)

LEMMA SetOptionOptionsInv ==
  ASSUME OptionsInv, about = "options", SetOption
  PROVE  OptionsInv'
<1>0. PICK key \in Options \ DOMAIN input :
        \E val \in OptionValues(key) : input' = With(input, key, val)
  BY DEF SetOption
<1>1. PICK val \in OptionValues(key) : input' = With(input, key, val)
  BY <1>0
<1>2. /\ DOMAIN input' = DOMAIN input \cup {key} /\ input'[key] = val
      /\ \A k \in DOMAIN input : input'[k] = input[k]
  BY <1>1 DEF With
<1>3. AnyOptions(input)
  BY DEF OptionsInv
<1>4. key \in {"max_tokens", "max_completion_tokens"} => val \in Nat
  BY <1>1 DEF OptionValues
<1>5. key = "parallel_tool_calls" => val \in BOOLEAN
  BY <1>1 DEF OptionValues
<1>6. key = "tool_choice" =>
        /\ val.type \in {"auto", "required", "none", "odd", "other", "object"}
        /\ val.type # "object" => val.name = "none"
  BY <1>1 DEF OptionValues
<1>7. key = "response_format" => (val.schema # "none" => val.type = "json_schema")
  BY <1>1 DEF OptionValues
<1>. QED
  BY <1>2, <1>3, <1>4, <1>5, <1>6, <1>7 DEF AnyOptions, OptionsInv

THEOREM OptionsKept == CaseSpec => []OptionsMeant
<1>1. CaseInit => OptionsInv
  BY DEF CaseInit, RecordInit, OptionsInv, AnyOptions
<1>2. OptionsInv /\ [CaseNext]_<<about, input>> => OptionsInv'
  <2>. SUFFICES ASSUME OptionsInv, [CaseNext]_<<about, input>> PROVE OptionsInv'
    OBVIOUS
  <2>1. CASE UNCHANGED input \/ about # "options"
    BY <2>1, Sorts DEF OptionsInv
  <2>2. CASE about = "options" /\ SetOption
    BY <2>2, SetOptionOptionsInv
  <2>. QED
    BY <2>1, <2>2, Sorts
<1>3. OptionsInv => OptionsMeant
  BY OptionsTold DEF OptionsInv, OptionsMeant
<1>. QED
  BY <1>1, <1>2, <1>3, PTL DEF CaseSpec

--------------------------------------------------------------------------------
(* What is counted of an answer, in the log and for the chat client. *)

AnyTokens == [input : Nat, output : Nat, cached : Nat, cache_write : Nat]

LEMMA TokensEqual ==
  ASSUME NEW t \in AnyTokens, NEW f, DOMAIN f = {"input", "output", "cached", "cache_write"},
         f = [field \in DOMAIN f |-> f[field]],
         f["input"] = t.input, f["output"] = t.output, f["cached"] = t.cached,
         f["cache_write"] = t.cache_write
  PROVE  f = t
BY DEF AnyTokens

LEMMA Larger ==
  ASSUME NEW m \in Nat, NEW n \in Nat
  PROVE  Max({m} \cup {n}) = IF m < n THEN n ELSE m
<1>. DEFINE S == {m} \cup {n}
            top == IF m < n THEN n ELSE m
<1>1. top \in S /\ \A x \in S : top >= x
  OBVIOUS
<1>2. \A y \in S : (\A x \in S : y >= x) => y = top
  OBVIOUS
<1>. HIDE DEF S, top
<1>3. Max(S) = top
  BY <1>1, <1>2 DEF Max
<1>. QED
  BY <1>3 DEF S, top

(* No count falls, and one usage is merged field by field. *)
LEMMA MergeNone == ASSUME NEW t \in AnyTokens PROVE Merge(t, <<>>) = t
<1>. DEFINE f == Merge(t, <<>>)
<1>1. \A m \in Nat : Max({m} \cup {}) = m
  BY DEF Max
<1>2. f = [field \in DOMAIN t |-> Max({t[field]} \cup {})]
  BY DEF Merge
<1>3. DOMAIN t = {"input", "output", "cached", "cache_write"}
      /\ \A field \in DOMAIN t : t[field] \in Nat
  BY DEF AnyTokens
<1>. HIDE DEF f
<1>4. \A field \in DOMAIN t : f[field] = t[field]
  BY <1>1, <1>2, <1>3
<1>5. DOMAIN f = DOMAIN t /\ f = [field \in DOMAIN f |-> f[field]]
  BY <1>2
<1>6. f = t
  BY <1>3, <1>4, <1>5, TokensEqual
<1>. QED
  BY <1>6 DEF f

LEMMA MergeOne ==
  ASSUME NEW t \in AnyTokens, NEW u, TokensOf(u) \in AnyTokens, NEW new \in AnyTokens,
         \A field \in {"input", "output", "cached", "cache_write"} :
           new[field] = IF t[field] < TokensOf(u)[field] THEN TokensOf(u)[field] ELSE t[field]
  PROVE  Merge(t, <<u>>) = new
<1>. DEFINE f == Merge(t, <<u>>)
            told == TokensOf(u)
<1>1. f = [field \in DOMAIN t |-> Max({t[field]} \cup {told[field]})]
  <2>1. \A field : {TokensOf(<<u>>[k])[field] : k \in DOMAIN <<u>>} = {told[field]}
    OBVIOUS
  <2>. QED
    BY <2>1 DEF Merge
<1>2. /\ DOMAIN t = {"input", "output", "cached", "cache_write"}
      /\ \A field \in DOMAIN t : t[field] \in Nat /\ told[field] \in Nat
  BY DEF AnyTokens
<1>. HIDE DEF f, told
<1>3. \A field \in DOMAIN t : f[field] = IF t[field] < told[field] THEN told[field] ELSE t[field]
  BY <1>1, <1>2, Larger
<1>4. \A field \in DOMAIN t : f[field] = new[field]
  BY <1>2, <1>3 DEF told
<1>5. DOMAIN f = DOMAIN t /\ f = [field \in DOMAIN f |-> f[field]]
  BY <1>1
<1>6. f = new
  BY <1>2, <1>4, <1>5, TokensEqual
<1>. QED
  BY <1>6 DEF f

LEMMA ErrorTexts ==
  ErrorText(<<>>) = "none" /\ ErrorText(<<"null">>) = "none"
    /\ ErrorText(<<"overloaded">>) = "overloaded"
<1>. DEFINE told(errors) == {k \in DOMAIN errors : errors[k] # "null"}
<1>1. told(<<>>) = {} /\ told(<<"null">>) = {} /\ told(<<"overloaded">>) = {1}
  OBVIOUS
<1>2. Min({1}) = 1
  BY DEF Min
<1>. QED
  BY <1>1, <1>2 DEF ErrorText

(* What the proxy makes of what a provider has counted. *)
LEMMA CountedTokens ==
  ASSUME NEW t \in AnyTokens, t.input >= t.cached + t.cache_write, NEW told \in SUBSET Cached,
         t.cached > 0 => "cache_read" \in told, t.cache_write > 0 => "cache_creation" \in told
  PROVE  LET u == Counted(t, told \cup {"input_tokens", "output_tokens"})
         IN /\ TokensOf(u) = t
            /\ At(u, "cache_read") = t.cached
            /\ At(u, "input_tokens") + At(u, "cache_read") + At(u, "cache_creation") = t.input
            /\ At(u, "output_tokens") = t.output
<1>. DEFINE u == Counted(t, told \cup {"input_tokens", "output_tokens"})
<1>0. /\ t.input \in Nat /\ t.output \in Nat /\ t.cached \in Nat /\ t.cache_write \in Nat
      /\ t = Tokens(t.input, t.output, t.cached, t.cache_write)
  BY DEF AnyTokens, Tokens
<1>1. /\ At(u, "input_tokens") = t.input - t.cached - t.cache_write
      /\ At(u, "output_tokens") = t.output
      /\ At(u, "cache_read") = IF "cache_read" \in told THEN t.cached ELSE 0
      /\ At(u, "cache_creation") = IF "cache_creation" \in told THEN t.cache_write ELSE 0
      /\ At(u, "cached_tokens") = 0 /\ At(u, "cache_write_tokens") = 0
      /\ "prompt_tokens" \notin DOMAIN u
      /\ DOMAIN u \cap {"cache_read", "cache_creation"} = told
  BY DEF Counted, At, Cached
<1>. HIDE DEF u
<1>2. At(u, "cache_read") = t.cached /\ At(u, "cache_creation") = t.cache_write
  BY <1>0, <1>1
<1>3. At(u, "input_tokens") + At(u, "cache_read") + At(u, "cache_creation") = t.input
  BY <1>0, <1>1, <1>2
<1>4. told = {} => t.cached = 0 /\ t.cache_write = 0 /\ At(u, "input_tokens") = t.input
  BY <1>0, <1>1
<1>5. TokensOf(u) = Tokens(t.input, t.output, t.cached, t.cache_write)
  <2>1. CASE told = {}
    BY <1>1, <1>4, <2>1 DEF TokensOf
  <2>2. CASE told # {}
    BY <1>1, <1>2, <1>3, <2>2 DEF TokensOf
  <2>. QED
    BY <2>1, <2>2
<1>. QED
  BY <1>0, <1>1, <1>2, <1>3, <1>5 DEF u

LEMMA OutputTokens ==
  ASSUME NEW t
  PROVE  LET u == Counted(t, {"output_tokens"})
         IN TokensOf(u) = Tokens(0, t.output, 0, 0) /\ At(u, "output_tokens") = t.output
<1>. DEFINE u == Counted(t, {"output_tokens"})
<1>1. /\ DOMAIN u = {"output_tokens"} /\ u["output_tokens"] = t.output
  BY DEF Counted
<1>. HIDE DEF u
<1>2. \A key : key # "output_tokens" => key \notin DOMAIN u /\ At(u, key) = 0
  BY <1>1 DEF At
<1>3. At(u, "output_tokens") = t.output
  BY <1>1 DEF At
<1>4. TokensOf(u) = Tokens(0, t.output, 0, 0)
  BY <1>1, <1>2, <1>3 DEF TokensOf
<1>. QED
  BY <1>3, <1>4 DEF u

LEMMA SummedTokens ==
  ASSUME NEW t \in AnyTokens, NEW told \in SUBSET {"cached_tokens", "cache_write_tokens"},
         t.cached > 0 => "cached_tokens" \in told, t.cache_write > 0 => "cache_write_tokens" \in told
  PROVE  LET u == Summed(t, told \cup {"input_tokens", "output_tokens"})
         IN /\ TokensOf(u) = t /\ At(u, "input_tokens") = t.input
            /\ At(u, "output_tokens") = t.output /\ At(u, "cached_tokens") = t.cached
<1>. DEFINE u == Summed(t, told \cup {"input_tokens", "output_tokens"})
<1>0. /\ t.input \in Nat /\ t.output \in Nat /\ t.cached \in Nat /\ t.cache_write \in Nat
      /\ t = Tokens(t.input, t.output, t.cached, t.cache_write)
  BY DEF AnyTokens, Tokens
<1>1. /\ At(u, "input_tokens") = t.input
      /\ At(u, "output_tokens") = t.output
      /\ At(u, "cached_tokens") = IF "cached_tokens" \in told THEN t.cached ELSE 0
      /\ At(u, "cache_write_tokens") = IF "cache_write_tokens" \in told THEN t.cache_write ELSE 0
      /\ "prompt_tokens" \notin DOMAIN u
      /\ DOMAIN u \cap {"cache_read", "cache_creation"} = {}
  BY DEF Summed, At
<1>. HIDE DEF u
<1>2. At(u, "cached_tokens") = t.cached /\ At(u, "cache_write_tokens") = t.cache_write
  BY <1>0, <1>1
<1>3. TokensOf(u) = Tokens(t.input, t.output, t.cached, t.cache_write)
  BY <1>1, <1>2 DEF TokensOf
<1>. QED
  BY <1>0, <1>1, <1>2, <1>3 DEF u

(* The usage of a chat client, as the log reads it. *)
LEMMA ChatTokens ==
  ASSUME NEW prompt, NEW completion, NEW cached
  PROVE  TokensOf(ChatObject(prompt, completion, cached)) = Tokens(prompt, completion, cached, 0)
BY DEF TokensOf, ChatObject, At

NothingFound == [tokens |-> NoTokens, error |-> "none"]
NothingHeard == [prompt |-> 0, cached |-> 0, told |-> <<>>]

(* Found and Heard are what they are meant to be: each frame is taken in turn. *)
LEMMA FoundEach ==
  ASSUME NEW frames, NEW n \in Nat, n = Len(frames)
  PROVE  /\ Found(frames)[0] = NothingFound
         /\ \A k \in 1..n : Found(frames)[k] = Absorb(Found(frames)[k - 1], frames[k])
<1>. DEFINE Made(f, m) ==
              f = [k \in 0..m |-> IF k = 0 THEN NothingFound
                                 ELSE Absorb(f[k - 1], frames[k])]
            T == {m \in 0..n : \E f : Made(f, m)}
<1>1. 0 \in T
  <2>. DEFINE g == [k \in 0..0 |-> NothingFound]
  <2>1. Made(g, 0)
    OBVIOUS
  <2>. HIDE DEF Made, g
  <2>. QED
    BY <2>1
<1>2. ASSUME NEW m \in 0..(n - 1), m \in T PROVE m + 1 \in T
  <2>1. PICK f : Made(f, m)
    BY <1>2
  <2>. DEFINE next == Absorb(f[m], frames[m + 1])
              g == [k \in 0..(m + 1) |-> IF k = m + 1 THEN next ELSE f[k]]
              h == [k \in 0..(m + 1) |-> IF k = 0 THEN NothingFound
                                        ELSE Absorb(g[k - 1], frames[k])]
  <2>2. ASSUME NEW k \in 0..(m + 1) PROVE g[k] = h[k]
    <3>1. CASE k = m + 1
      BY <3>1
    <3>2. CASE k \in 0..m
      <4>1. g[k] = f[k] /\ k # m + 1 /\ (k # 0 => k - 1 \in 0..m /\ k - 1 # m + 1)
        BY <3>2
      <4>2. f[k] = IF k = 0 THEN NothingFound ELSE Absorb(f[k - 1], frames[k])
        BY <2>1, <3>2
      <4>3. k # 0 => g[k - 1] = f[k - 1]
        BY <4>1
      <4>. QED
        BY <4>1, <4>2, <4>3
    <3>. QED
      BY <3>1, <3>2
  <2>3. g = h
    BY <2>2
  <2>4. Made(g, m + 1)
    BY <2>3
  <2>. HIDE DEF Made, g
  <2>. QED
    BY <2>4
<1>3. \E f : Made(f, n)
  <2>1. 0..n \subseteq T
    <3>. HIDE DEF T
    <3>. QED
      BY <1>1, <1>2, Induct
  <2>. HIDE DEF Made
  <2>. QED
    BY <2>1
<1>. DEFINE f == CHOOSE f : Made(f, n)
<1>4. Made(f, n)
  <2>. HIDE DEF Made
  <2>. QED
    BY <1>3
<1>5. Found(frames) = f
  BY DEF Found, NothingFound
<1>. HIDE DEF f
<1>6. /\ f[0] = NothingFound
      /\ \A k \in 1..n : f[k] = Absorb(f[k - 1], frames[k])
  BY <1>4
<1>. QED
  BY <1>5, <1>6

LEMMA FoundLast ==
  ASSUME NEW S, NEW frames \in Seq(S), NEW frame \in S
  PROVE  Found(Append(frames, frame))[Len(frames) + 1]
           = Absorb(Found(frames)[Len(frames)], frame)
<1>. DEFINE n == Len(frames)
            longer == Append(frames, frame)
            T == {k \in 0..n : Found(longer)[k] = Found(frames)[k]}
<1>1. /\ n \in Nat /\ Len(longer) = n + 1 /\ longer[n + 1] = frame
      /\ \A k \in 1..n : longer[k] = frames[k]
  BY LenProperties, AppendProperties
<1>. HIDE DEF longer, n
<1>2. /\ Found(frames)[0] = NothingFound
      /\ \A k \in 1..n : Found(frames)[k] = Absorb(Found(frames)[k - 1], frames[k])
  BY <1>1, FoundEach DEF n
<1>3. /\ Found(longer)[0] = NothingFound
      /\ \A k \in 1..(n + 1) :
           Found(longer)[k] = Absorb(Found(longer)[k - 1], longer[k])
  <2>. DEFINE m == n + 1
  <2>1. m \in Nat /\ m = Len(longer)
    BY <1>1
  <2>. HIDE DEF m
  <2>2. /\ Found(longer)[0] = NothingFound
        /\ \A k \in 1..m : Found(longer)[k] = Absorb(Found(longer)[k - 1], longer[k])
    BY <2>1, FoundEach
  <2>. QED
    BY <2>2 DEF m
<1>4. 0 \in T
  BY <1>1, <1>2, <1>3
<1>5. ASSUME NEW k \in 0..(n - 1), k \in T PROVE k + 1 \in T
  <2>1. k + 1 \in 1..n /\ k + 1 \in 0..n /\ k + 1 \in 1..(n + 1) /\ (k + 1) - 1 = k
    BY <1>1
  <2>2. Found(longer)[k + 1] = Absorb(Found(longer)[k], longer[k + 1])
    BY <1>3, <2>1
  <2>3. Found(frames)[k + 1] = Absorb(Found(frames)[k], frames[k + 1])
    BY <1>2, <2>1
  <2>4. Found(longer)[k] = Found(frames)[k] /\ longer[k + 1] = frames[k + 1]
    BY <1>1, <1>5, <2>1
  <2>. QED
    BY <2>1, <2>2, <2>3, <2>4
<1>6. n \in T
  <2>1. 0..n \subseteq T
    <3>. HIDE DEF T
    <3>. QED
      BY <1>1, <1>4, <1>5, Induct
  <2>2. n \in 0..n
    BY <1>1
  <2>. HIDE DEF T
  <2>. QED
    BY <2>1, <2>2
<1>7. n + 1 \in 1..(n + 1) /\ (n + 1) - 1 = n
  BY <1>1
<1>8. Found(longer)[n + 1] = Absorb(Found(longer)[n], longer[n + 1])
  BY <1>3, <1>7
<1>. QED
  BY <1>1, <1>6, <1>8 DEF longer, n

LEMMA HeardEach ==
  ASSUME NEW provider, NEW frames, NEW n \in Nat, n = Len(frames)
  PROVE  /\ Heard(provider, frames)[0] = NothingHeard
         /\ \A k \in 1..n : Heard(provider, frames)[k] = Hear(provider, Heard(provider, frames)[k - 1], frames[k])
<1>. DEFINE Made(f, m) ==
              f = [k \in 0..m |-> IF k = 0 THEN NothingHeard
                                 ELSE Hear(provider, f[k - 1], frames[k])]
            T == {m \in 0..n : \E f : Made(f, m)}
<1>1. 0 \in T
  <2>. DEFINE g == [k \in 0..0 |-> NothingHeard]
  <2>1. Made(g, 0)
    OBVIOUS
  <2>. HIDE DEF Made, g
  <2>. QED
    BY <2>1
<1>2. ASSUME NEW m \in 0..(n - 1), m \in T PROVE m + 1 \in T
  <2>1. PICK f : Made(f, m)
    BY <1>2
  <2>. DEFINE next == Hear(provider, f[m], frames[m + 1])
              g == [k \in 0..(m + 1) |-> IF k = m + 1 THEN next ELSE f[k]]
              h == [k \in 0..(m + 1) |-> IF k = 0 THEN NothingHeard
                                        ELSE Hear(provider, g[k - 1], frames[k])]
  <2>2. ASSUME NEW k \in 0..(m + 1) PROVE g[k] = h[k]
    <3>1. CASE k = m + 1
      BY <3>1
    <3>2. CASE k \in 0..m
      <4>1. g[k] = f[k] /\ k # m + 1 /\ (k # 0 => k - 1 \in 0..m /\ k - 1 # m + 1)
        BY <3>2
      <4>2. f[k] = IF k = 0 THEN NothingHeard ELSE Hear(provider, f[k - 1], frames[k])
        BY <2>1, <3>2
      <4>3. k # 0 => g[k - 1] = f[k - 1]
        BY <4>1
      <4>. QED
        BY <4>1, <4>2, <4>3
    <3>. QED
      BY <3>1, <3>2
  <2>3. g = h
    BY <2>2
  <2>4. Made(g, m + 1)
    BY <2>3
  <2>. HIDE DEF Made, g
  <2>. QED
    BY <2>4
<1>3. \E f : Made(f, n)
  <2>1. 0..n \subseteq T
    <3>. HIDE DEF T
    <3>. QED
      BY <1>1, <1>2, Induct
  <2>. HIDE DEF Made
  <2>. QED
    BY <2>1
<1>. DEFINE f == CHOOSE f : Made(f, n)
<1>4. Made(f, n)
  <2>. HIDE DEF Made
  <2>. QED
    BY <1>3
<1>5. Heard(provider, frames) = f
  BY DEF Heard, NothingHeard
<1>. HIDE DEF f
<1>6. /\ f[0] = NothingHeard
      /\ \A k \in 1..n : f[k] = Hear(provider, f[k - 1], frames[k])
  BY <1>4
<1>. QED
  BY <1>5, <1>6

LEMMA HeardLast ==
  ASSUME NEW provider, NEW S, NEW frames \in Seq(S), NEW frame \in S
  PROVE  Heard(provider, Append(frames, frame))[Len(frames) + 1]
           = Hear(provider, Heard(provider, frames)[Len(frames)], frame)
<1>. DEFINE n == Len(frames)
            longer == Append(frames, frame)
            T == {k \in 0..n : Heard(provider, longer)[k] = Heard(provider, frames)[k]}
<1>1. /\ n \in Nat /\ Len(longer) = n + 1 /\ longer[n + 1] = frame
      /\ \A k \in 1..n : longer[k] = frames[k]
  BY LenProperties, AppendProperties
<1>. HIDE DEF longer, n
<1>2. /\ Heard(provider, frames)[0] = NothingHeard
      /\ \A k \in 1..n : Heard(provider, frames)[k] = Hear(provider, Heard(provider, frames)[k - 1], frames[k])
  BY <1>1, HeardEach DEF n
<1>3. /\ Heard(provider, longer)[0] = NothingHeard
      /\ \A k \in 1..(n + 1) :
           Heard(provider, longer)[k] = Hear(provider, Heard(provider, longer)[k - 1], longer[k])
  <2>. DEFINE m == n + 1
  <2>1. m \in Nat /\ m = Len(longer)
    BY <1>1
  <2>. HIDE DEF m
  <2>2. /\ Heard(provider, longer)[0] = NothingHeard
        /\ \A k \in 1..m : Heard(provider, longer)[k] = Hear(provider, Heard(provider, longer)[k - 1], longer[k])
    BY <2>1, HeardEach
  <2>. QED
    BY <2>2 DEF m
<1>4. 0 \in T
  BY <1>1, <1>2, <1>3
<1>5. ASSUME NEW k \in 0..(n - 1), k \in T PROVE k + 1 \in T
  <2>1. k + 1 \in 1..n /\ k + 1 \in 0..n /\ k + 1 \in 1..(n + 1) /\ (k + 1) - 1 = k
    BY <1>1
  <2>2. Heard(provider, longer)[k + 1] = Hear(provider, Heard(provider, longer)[k], longer[k + 1])
    BY <1>3, <2>1
  <2>3. Heard(provider, frames)[k + 1] = Hear(provider, Heard(provider, frames)[k], frames[k + 1])
    BY <1>2, <2>1
  <2>4. Heard(provider, longer)[k] = Heard(provider, frames)[k] /\ longer[k + 1] = frames[k + 1]
    BY <1>1, <1>5, <2>1
  <2>. QED
    BY <2>1, <2>2, <2>3, <2>4
<1>6. n \in T
  <2>1. 0..n \subseteq T
    <3>. HIDE DEF T
    <3>. QED
      BY <1>1, <1>4, <1>5, Induct
  <2>2. n \in 0..n
    BY <1>1
  <2>. HIDE DEF T
  <2>. QED
    BY <2>1, <2>2
<1>7. n + 1 \in 1..(n + 1) /\ (n + 1) - 1 = n
  BY <1>1
<1>8. Heard(provider, longer)[n + 1] = Hear(provider, Heard(provider, longer)[n], longer[n + 1])
  BY <1>3, <1>7
<1>. QED
  BY <1>1, <1>6, <1>8 DEF longer, n

Sum(t) == t.cached + t.cache_write

(* What has been heard of a stream that goes on is what the provider counted. *)
Streamed(provider, frames, truth, over) ==
  /\ provider \in {"anthropic", "codex"} /\ over \in BOOLEAN
  /\ truth \in AnyTokens /\ truth.input >= Sum(truth)
  /\ \E S : frames \in Seq(S)
  /\ (frames = <<>> \/ (provider = "codex" /\ ~over)) => truth = NoTokens
  /\ ~over => Found(frames)[Len(frames)] = [tokens |-> truth, error |-> "none"]
  /\ ~over => \E told : Heard(provider, frames)[Len(frames)]
                          = [prompt |-> truth.input, cached |-> truth.cached, told |-> told]
  /\ over => CountedRight(provider, frames, truth)

(* What one more frame adds to it. *)
Continued(provider, truth, longer, frame) ==
  LET n == Len(longer)
  IN /\ \E S : longer \in Seq(S)
     /\ longer # <<>> /\ longer[n] = frame
     /\ Found(longer)[n] = Absorb([tokens |-> truth, error |-> "none"], frame)
     /\ \E told : Heard(provider, longer)[n]
          = Hear(provider, [prompt |-> truth.input, cached |-> truth.cached, told |-> told], frame)

LEMMA Longer ==
  ASSUME NEW provider, NEW frames, NEW truth, Streamed(provider, frames, truth, FALSE), NEW frame
  PROVE  Continued(provider, truth, Append(frames, frame), frame)
<1>1. PICK S : frames \in Seq(S)
  BY DEF Streamed
<1>. DEFINE T == S \cup {frame}
            longer == Append(frames, frame)
            n == Len(longer)
<1>2. frames \in Seq(T) /\ frame \in T
  BY <1>1
<1>3. longer \in Seq(T) /\ n = Len(frames) + 1 /\ longer[n] = frame /\ longer # <<>>
  <2>. HIDE DEF T
  <2>1. /\ longer \in Seq(T) /\ Len(longer) = Len(frames) + 1 /\ longer[Len(frames) + 1] = frame
        /\ longer # <<>>
    BY <1>2, AppendProperties
  <2>. QED
    BY <2>1
<1>. HIDE DEF T
<1>4. Found(longer)[n] = Absorb(Found(frames)[Len(frames)], frame)
  BY <1>2, <1>3, FoundLast
<1>5. Heard(provider, longer)[n] = Hear(provider, Heard(provider, frames)[Len(frames)], frame)
  BY <1>2, <1>3, HeardLast
<1>6. Found(frames)[Len(frames)] = [tokens |-> truth, error |-> "none"]
  BY DEF Streamed
<1>7. PICK told : Heard(provider, frames)[Len(frames)]
                    = [prompt |-> truth.input, cached |-> truth.cached, told |-> told]
  BY DEF Streamed
<1>. HIDE DEF longer, n
<1>. QED
  BY <1>3, <1>4, <1>5, <1>6, <1>7 DEF longer, n, Continued

(* What the log says of an answer that is one object. *)
LEMMA OneFrame ==
  ASSUME NEW status \in Nat, NEW frame, frame.kind # "garbled"
  PROVE  LET error == ErrorText(frame.errors)
         IN DigestOf(status, <<frame>>) =
              [tokens |-> Merge(NoTokens, frame.usages),
               error |-> IF status >= 400 /\ error = "none" THEN "body" ELSE error]
<1>. DEFINE frames == <<frame>>
            n == 1
<1>1. n \in Nat /\ n = Len(frames) /\ frames[1] = frame
  OBVIOUS
<1>. HIDE DEF frames
<1>2. Found(frames)[0] = NothingFound /\ Found(frames)[1] = Absorb(Found(frames)[0], frame)
  <2>1. /\ Found(frames)[0] = NothingFound
        /\ \A k \in 1..n : Found(frames)[k] = Absorb(Found(frames)[k - 1], frames[k])
    BY <1>1, FoundEach
  <2>2. 1 \in 1..n /\ 1 - 1 = 0
    OBVIOUS
  <2>. QED
    BY <1>1, <2>1, <2>2
<1>3. Found(frames)[1] = [tokens |-> Merge(NoTokens, frame.usages),
                          error |-> ErrorText(frame.errors)]
  BY <1>2 DEF Absorb, NothingFound
<1>4. DigestOf(status, frames) =
        [tokens |-> Merge(NoTokens, frame.usages),
         error |-> IF status >= 400 /\ ErrorText(frame.errors) = "none" THEN "body"
                   ELSE ErrorText(frame.errors)]
  <2>. DEFINE found == [tokens |-> Merge(NoTokens, frame.usages), error |-> ErrorText(frame.errors)]
  <2>1. Found(frames)[Len(frames)] = found
    BY <1>1, <1>3
  <2>2. DigestOf(status, frames) =
          [found EXCEPT !.error = IF status >= 400 /\ @ = "none" THEN "body" ELSE @]
    BY <2>1 DEF DigestOf
  <2>. QED
    BY <2>2
<1>. QED
  BY <1>4 DEF frames

LEMMA NoneFound == NoTokens \in AnyTokens /\ Sum(NoTokens) = 0 /\ NoTokens.input = 0
BY DEF NoTokens, Tokens, AnyTokens, Sum

(* Each frame keeps what is heard with what is counted. *)
LEMMA StartedStream ==
  ASSUME NEW truth, Streamed("anthropic", <<>>, truth, FALSE),
         NEW new \in AnyTokens, new.input >= Sum(new),
         NEW told \in SUBSET Cached, new.cached > 0 => "cache_read" \in told,
         new.cache_write > 0 => "cache_creation" \in told
  PROVE  LET u == Counted(new, told \cup {"input_tokens", "output_tokens"})
         IN Streamed("anthropic", Append(<<>>, Frame("message_start", <<u>>, <<>>, "none")), new, FALSE)
<1>. DEFINE u == Counted(new, told \cup {"input_tokens", "output_tokens"})
            frame == Frame("message_start", <<u>>, <<>>, "none")
            none == <<>>
            longer == Append(none, frame)
            n == Len(longer)
<1>1. truth = NoTokens
  BY DEF Streamed
<1>2. /\ TokensOf(u) = new /\ At(u, "cache_read") = new.cached
      /\ At(u, "input_tokens") + At(u, "cache_read") + At(u, "cache_creation") = new.input
  BY CountedTokens DEF Sum
<1>. HIDE DEF u
<1>3. Merge(NoTokens, <<u>>) = new
  <2>1. \A field \in {"input", "output", "cached", "cache_write"} :
          new[field] = IF NoTokens[field] < TokensOf(u)[field] THEN TokensOf(u)[field]
                       ELSE NoTokens[field]
    BY <1>2 DEF NoTokens, Tokens, AnyTokens
  <2>. QED
    BY <1>2, <2>1, MergeOne, NoneFound
<1>4. /\ frame.kind = "message_start" /\ frame.usages = <<u>> /\ frame.errors = <<>>
  BY DEF Frame
<1>. HIDE DEF frame
<1>5. /\ \E S : longer \in Seq(S)
      /\ longer # <<>>
      /\ Found(longer)[n] = Absorb([tokens |-> truth, error |-> "none"], frame)
      /\ \E t : Heard("anthropic", longer)[n]
           = Hear("anthropic", [prompt |-> truth.input, cached |-> truth.cached, told |-> t], frame)
  <2>. HIDE DEF none
  <2>1. Continued("anthropic", truth, longer, frame)
    BY Longer DEF none
  <2>. HIDE DEF longer
  <2>. QED
    BY <2>1 DEF Continued
<1>. HIDE DEF longer, n
<1>6. Found(longer)[n] = [tokens |-> new, error |-> "none"]
  BY <1>1, <1>3, <1>4, <1>5, ErrorTexts DEF Absorb
<1>7. \E t : Heard("anthropic", longer)[n] = [prompt |-> new.input, cached |-> new.cached, told |-> t]
  <2>1. PICK t : Heard("anthropic", longer)[n]
           = Hear("anthropic", [prompt |-> truth.input, cached |-> truth.cached, told |-> t], frame)
    BY <1>5
  <2>2. Heard("anthropic", longer)[n] = [prompt |-> new.input, cached |-> new.cached, told |-> t]
    <3>. DEFINE tr == [prompt |-> truth.input, cached |-> truth.cached, told |-> t]
    <3>1. frame.usages[1] = u
      BY <1>4
    <3>2. Hear("anthropic", tr, frame) =
            [tr EXCEPT !.cached = At(u, "cache_read"),
                       !.prompt = At(u, "input_tokens") + At(u, "cache_read")
                                    + At(u, "cache_creation")]
      BY <1>4, <3>1 DEF Hear, AnthropicUsage
    <3>. QED
      BY <1>2, <2>1, <3>2
  <2>. QED
    BY <2>2
<1>8. Streamed("anthropic", longer, new, FALSE)
  BY <1>5, <1>6, <1>7 DEF Streamed, n
<1>. QED
  BY <1>8 DEF longer, frame, u, none

LEMMA SpokenStream ==
  ASSUME NEW provider, NEW frames, NEW truth, Streamed(provider, frames, truth, FALSE),
         NEW kind \in {"created", "text", "garbled"}, NEW errors \in {<<>>, <<"null">>},
         frames = <<>> => provider = "codex"
  PROVE  Streamed(provider, Append(frames, Frame(kind, <<>>, errors, "none")), truth, FALSE)
<1>. DEFINE frame == Frame(kind, <<>>, errors, "none")
            longer == Append(frames, frame)
            n == Len(longer)
<1>1. frame.kind = kind /\ frame.usages = <<>> /\ frame.errors = errors
  BY DEF Frame
<1>. HIDE DEF frame
<1>2. /\ \E S : longer \in Seq(S)
      /\ longer # <<>>
      /\ Found(longer)[n] = Absorb([tokens |-> truth, error |-> "none"], frame)
      /\ \E t : Heard(provider, longer)[n]
           = Hear(provider, [prompt |-> truth.input, cached |-> truth.cached, told |-> t], frame)
  <2>1. Continued(provider, truth, longer, frame)
    BY Longer
  <2>. HIDE DEF longer
  <2>. QED
    BY <2>1 DEF Continued
<1>. HIDE DEF longer, n
<1>3. truth \in AnyTokens /\ ErrorText(errors) = "none"
  BY ErrorTexts DEF Streamed
<1>4. Found(longer)[n] = [tokens |-> truth, error |-> "none"]
  BY <1>1, <1>2, <1>3, MergeNone DEF Absorb
<1>5. \E t : Heard(provider, longer)[n] = [prompt |-> truth.input, cached |-> truth.cached, told |-> t]
  BY <1>1, <1>2 DEF Hear, AnthropicUsage, CodexUsage
<1>6. Streamed(provider, longer, truth, FALSE)
  BY <1>2, <1>4, <1>5 DEF Streamed, n
<1>. QED
  BY <1>6 DEF longer, frame

(* The usage that a chat client is told of is in the log but for one count. *)
LEMMA ChatCounted ==
  ASSUME NEW t \in AnyTokens
  PROVE  LET frame == Frame("usage", <<ChatObject(t.input, t.output, t.cached)>>, <<>>, "none")
         IN DigestOf(200, <<frame>>)
              = [tokens |-> [t EXCEPT !.cache_write = 0], error |-> "none"]
<1>. DEFINE u == ChatObject(t.input, t.output, t.cached)
            frame == Frame("usage", <<u>>, <<>>, "none")
            new == [t EXCEPT !.cache_write = 0]
<1>1. TokensOf(u) = Tokens(t.input, t.output, t.cached, 0)
  BY ChatTokens
<1>2. new \in AnyTokens /\ new = Tokens(t.input, t.output, t.cached, 0)
  BY DEF AnyTokens, Tokens
<1>3. TokensOf(u) = new
  BY <1>1, <1>2
<1>4. frame.kind = "usage" /\ frame.usages = <<u>> /\ frame.errors = <<>>
  BY DEF Frame
<1>. HIDE DEF u, frame, new
<1>5. Merge(NoTokens, <<u>>) = new
  <2>1. \A field \in {"input", "output", "cached", "cache_write"} :
          new[field] = IF NoTokens[field] < TokensOf(u)[field] THEN TokensOf(u)[field]
                       ELSE NoTokens[field]
    BY <1>2, <1>3 DEF NoTokens, Tokens, AnyTokens
  <2>. QED
    BY <1>2, <1>3, <2>1, MergeOne, NoneFound
<1>6. DigestOf(200, <<frame>>) = [tokens |-> new, error |-> "none"]
  <2>1. /\ frame.kind # "garbled" /\ Merge(NoTokens, frame.usages) = new
        /\ ErrorText(frame.errors) = "none"
    BY <1>4, <1>5, ErrorTexts
  <2>2. DigestOf(200, <<frame>>) =
          [tokens |-> Merge(NoTokens, frame.usages),
           error |-> IF 200 >= 400 /\ ErrorText(frame.errors) = "none" THEN "body"
                     ELSE ErrorText(frame.errors)]
    BY <2>1, OneFrame
  <2>. QED
    BY <2>1, <2>2
<1>. QED
  BY <1>6 DEF u, frame, new

(* A stream's own digest. *)
LEMMA NativeDigest ==
  ASSUME NEW frames, NEW tokens, NEW error,
         Found(frames)[Len(frames)] = [tokens |-> tokens, error |-> error]
  PROVE  DigestOf(200, frames) = [tokens |-> tokens, error |-> error]
<1>1. DigestOf(200, frames) = [[tokens |-> tokens, error |-> error] EXCEPT
        !.error = IF 200 >= 400 /\ @ = "none" THEN "body" ELSE @]
  BY DEF DigestOf
<1>. QED
  BY <1>1

(* One more frame in which the output is counted anew. *)
Recounted(frames, truth, more, over, again) ==
  LET new == [truth EXCEPT !.output = @ + more]
      rest == IF again THEN Cached \cup {"input_tokens"} ELSE {}
      u == Counted(new, rest \cup {"output_tokens"})
      frame == Frame("message_delta", <<u>>, <<>>, "none")
  IN Streamed("anthropic", Append(frames, frame), new, over)

LEMMA CountedStream ==
  ASSUME NEW frames, frames # <<>>, NEW truth, Streamed("anthropic", frames, truth, FALSE),
         NEW more \in Nat, NEW over \in BOOLEAN, NEW again \in BOOLEAN
  PROVE  Recounted(frames, truth, more, over, again)
<1>. DEFINE new == [truth EXCEPT !.output = @ + more]
            rest == IF again THEN Cached \cup {"input_tokens"} ELSE {}
            u == Counted(new, rest \cup {"output_tokens"})
            frame == Frame("message_delta", <<u>>, <<>>, "none")
            longer == Append(frames, frame)
            n == Len(longer)
<1>1. truth \in AnyTokens /\ truth.input >= Sum(truth)
  BY DEF Streamed
<1>2. /\ new \in AnyTokens /\ new.input >= Sum(new)
      /\ new.input = truth.input /\ new.cached = truth.cached
      /\ new.cache_write = truth.cache_write /\ new.output >= truth.output
  BY <1>1 DEF AnyTokens, Sum
<1>. HIDE DEF new
<1>3. At(u, "output_tokens") = new.output
      /\ TokensOf(u) = IF again THEN new ELSE Tokens(0, new.output, 0, 0)
  <2>1. CASE again
    <3>1. u = Counted(new, Cached \cup {"input_tokens", "output_tokens"})
      <4>1. rest \cup {"output_tokens"} = Cached \cup {"input_tokens", "output_tokens"}
        BY <2>1
      <4>. QED
        BY <4>1
    <3>2. "cache_read" \in Cached /\ "cache_creation" \in Cached /\ Cached \in SUBSET Cached
      BY DEF Cached
    <3>. DEFINE v == Counted(new, Cached \cup {"input_tokens", "output_tokens"})
    <3>3. TokensOf(v) = new /\ At(v, "output_tokens") = new.output
      BY <1>2, <3>2, CountedTokens DEF Sum
    <3>. HIDE DEF u, v
    <3>. QED
      BY <2>1, <3>1, <3>3 DEF v
  <2>2. CASE ~again
    <3>1. u = Counted(new, {"output_tokens"})
      <4>1. rest \cup {"output_tokens"} = {"output_tokens"}
        BY <2>2
      <4>. QED
        BY <4>1
    <3>. DEFINE v == Counted(new, {"output_tokens"})
    <3>2. TokensOf(v) = Tokens(0, new.output, 0, 0) /\ At(v, "output_tokens") = new.output
      BY OutputTokens
    <3>. HIDE DEF u, v
    <3>. QED
      BY <2>2, <3>1, <3>2 DEF v
  <2>. QED
    BY <2>1, <2>2
<1>. HIDE DEF u
<1>4. Merge(truth, <<u>>) = new
  <2>1. TokensOf(u) \in AnyTokens
    BY <1>2, <1>3 DEF Tokens, AnyTokens
  <2>2. \A field \in {"input", "output", "cached", "cache_write"} :
          new[field] = IF truth[field] < TokensOf(u)[field] THEN TokensOf(u)[field]
                       ELSE truth[field]
    BY <1>1, <1>2, <1>3 DEF Tokens, AnyTokens
  <2>. QED
    BY <1>1, <1>2, <2>1, <2>2, MergeOne
<1>5. /\ frame.kind = "message_delta" /\ frame.usages = <<u>> /\ frame.errors = <<>>
  BY DEF Frame
<1>. HIDE DEF frame
<1>6. /\ \E S : longer \in Seq(S)
      /\ longer # <<>> /\ longer[n] = frame
      /\ Found(longer)[n] = Absorb([tokens |-> truth, error |-> "none"], frame)
      /\ \E t : Heard("anthropic", longer)[n]
           = Hear("anthropic", [prompt |-> truth.input, cached |-> truth.cached, told |-> t], frame)
  <2>1. Continued("anthropic", truth, longer, frame)
    BY Longer
  <2>. HIDE DEF longer
  <2>. QED
    BY <2>1 DEF Continued
<1>. HIDE DEF longer, n
<1>7. Found(longer)[n] = [tokens |-> new, error |-> "none"]
  BY <1>4, <1>5, <1>6, ErrorTexts DEF Absorb
<1>8. Heard("anthropic", longer)[n] =
        [prompt |-> new.input, cached |-> new.cached,
         told |-> <<ChatObject(new.input, new.output, new.cached)>>]
  <2>1. PICK t : Heard("anthropic", longer)[n]
           = Hear("anthropic", [prompt |-> truth.input, cached |-> truth.cached, told |-> t], frame)
    BY <1>6
  <2>. DEFINE tr == [prompt |-> truth.input, cached |-> truth.cached, told |-> t]
  <2>2. frame.usages[1] = u
    BY <1>5
  <2>3. Hear("anthropic", tr, frame) =
          [tr EXCEPT !.told = <<ChatObject(tr.prompt, At(u, "output_tokens"), tr.cached)>>]
    BY <1>5, <2>2 DEF Hear, AnthropicUsage
  <2>. QED
    BY <1>2, <1>3, <2>1, <2>3
<1>9. CountedRight("anthropic", longer, new)
  <2>1. DigestOf(200, longer) = [tokens |-> new, error |-> "none"]
    BY <1>7, NativeDigest DEF n
  <2>2. longer[Len(longer)].kind # "error"
    BY <1>5, <1>6 DEF n
  <2>3. ChatFrames("anthropic", longer) =
          <<Frame("usage", <<ChatObject(new.input, new.output, new.cached)>>, <<>>, "none")>>
    BY <1>8, <2>2 DEF ChatFrames, n
  <2>4. DigestOf(200, ChatFrames("anthropic", longer))
          = [tokens |-> [new EXCEPT !.cache_write = 0], error |-> "none"]
    BY <1>2, <2>3, ChatCounted
  <2>. QED
    BY <2>1, <2>2, <2>4 DEF CountedRight
<1>10. Streamed("anthropic", longer, new, over)
  BY <1>2, <1>6, <1>7, <1>8, <1>9 DEF Streamed, n
<1>. QED
  BY <1>10 DEF longer, frame, u, new, Recounted

LEMMA CompletedStream ==
  ASSUME NEW frames, NEW truth, Streamed("codex", frames, truth, FALSE),
         NEW new \in AnyTokens, new.input >= Sum(new),
         NEW told \in SUBSET {"cached_tokens", "cache_write_tokens"},
         new.cached > 0 => "cached_tokens" \in told,
         new.cache_write > 0 => "cache_write_tokens" \in told
  PROVE  LET u == Summed(new, told \cup {"input_tokens", "output_tokens"})
             frame == Frame("completed", <<u>>, <<"null">>, "none")
         IN Streamed("codex", Append(frames, frame), new, TRUE)
<1>. DEFINE u == Summed(new, told \cup {"input_tokens", "output_tokens"})
            frame == Frame("completed", <<u>>, <<"null">>, "none")
            longer == Append(frames, frame)
            n == Len(longer)
<1>1. truth = NoTokens
  BY DEF Streamed
<1>2. /\ TokensOf(u) = new /\ At(u, "input_tokens") = new.input
      /\ At(u, "output_tokens") = new.output /\ At(u, "cached_tokens") = new.cached
  BY SummedTokens
<1>. HIDE DEF u
<1>3. Merge(NoTokens, <<u>>) = new
  <2>1. \A field \in {"input", "output", "cached", "cache_write"} :
          new[field] = IF NoTokens[field] < TokensOf(u)[field] THEN TokensOf(u)[field]
                       ELSE NoTokens[field]
    BY <1>2 DEF NoTokens, Tokens, AnyTokens
  <2>. QED
    BY <1>2, <2>1, MergeOne, NoneFound
<1>4. frame.kind = "completed" /\ frame.usages = <<u>> /\ frame.errors = <<"null">>
  BY DEF Frame
<1>. HIDE DEF frame
<1>5. /\ \E S : longer \in Seq(S)
      /\ longer # <<>> /\ longer[n] = frame
      /\ Found(longer)[n] = Absorb([tokens |-> truth, error |-> "none"], frame)
      /\ \E t : Heard("codex", longer)[n]
           = Hear("codex", [prompt |-> truth.input, cached |-> truth.cached, told |-> t], frame)
  <2>1. Continued("codex", truth, longer, frame)
    BY Longer
  <2>. HIDE DEF longer
  <2>. QED
    BY <2>1 DEF Continued
<1>. HIDE DEF longer, n
<1>6. Found(longer)[n] = [tokens |-> new, error |-> "none"]
  BY <1>1, <1>3, <1>4, <1>5, ErrorTexts DEF Absorb
<1>7. Heard("codex", longer)[n].told = <<ChatObject(new.input, new.output, new.cached)>>
  <2>1. PICK t : Heard("codex", longer)[n]
           = Hear("codex", [prompt |-> truth.input, cached |-> truth.cached, told |-> t], frame)
    BY <1>5
  <2>. DEFINE tr == [prompt |-> truth.input, cached |-> truth.cached, told |-> t]
  <2>2. frame.usages[1] = u
    BY <1>4
  <2>3. Hear("codex", tr, frame) =
          [tr EXCEPT !.told = <<ChatObject(At(u, "input_tokens"), At(u, "output_tokens"),
                                           At(u, "cached_tokens"))>>]
    BY <1>4, <2>2 DEF Hear, CodexUsage
  <2>. QED
    BY <1>2, <2>1, <2>3
<1>8. CountedRight("codex", longer, new)
  <2>1. DigestOf(200, longer) = [tokens |-> new, error |-> "none"]
    BY <1>6, NativeDigest DEF n
  <2>2. longer[Len(longer)] = frame /\ longer[Len(longer)].kind # "error"
    BY <1>4, <1>5 DEF n
  <2>3. ChatFrames("codex", longer) =
          <<Frame("usage", <<ChatObject(new.input, new.output, new.cached)>>, <<>>, "none")>>
    BY <1>7, <2>2 DEF ChatFrames, n
  <2>4. DigestOf(200, ChatFrames("codex", longer))
          = [tokens |-> [new EXCEPT !.cache_write = 0], error |-> "none"]
    BY <2>3, ChatCounted
  <2>. DEFINE object == Frame("object", <<u>>, <<"null">>, "none")
  <2>5. ResponsesFrames(longer) = <<object>>
    BY <1>4, <2>2 DEF ResponsesFrames
  <2>6. object.kind = "object" /\ object.usages = <<u>> /\ object.errors = <<"null">>
    BY DEF Frame
  <2>. HIDE DEF object
  <2>7. DigestOf(200, <<object>>) = [tokens |-> new, error |-> "none"]
    <3>1. /\ object.kind # "garbled" /\ Merge(NoTokens, object.usages) = new
          /\ ErrorText(object.errors) = "none"
      BY <1>3, <2>6, ErrorTexts
    <3>2. DigestOf(200, <<object>>) =
            [tokens |-> Merge(NoTokens, object.usages),
             error |-> IF 200 >= 400 /\ ErrorText(object.errors) = "none" THEN "body"
                       ELSE ErrorText(object.errors)]
      BY <3>1, OneFrame
    <3>. QED
      BY <3>1, <3>2
  <2>. QED
    BY <2>1, <2>2, <2>4, <2>5, <2>7 DEF CountedRight
<1>9. Streamed("codex", longer, new, TRUE)
  BY <1>5, <1>8 DEF Streamed
<1>. QED
  BY <1>9 DEF longer, frame, u

LEMMA FailedStream ==
  ASSUME NEW provider, NEW frames, NEW truth, Streamed(provider, frames, truth, FALSE),
         NEW errors \in {<<>>, <<"overloaded">>}
  PROVE  Streamed(provider, Append(frames, Frame("error", <<>>, errors, "overloaded")), truth, TRUE)
<1>. DEFINE frame == Frame("error", <<>>, errors, "overloaded")
            longer == Append(frames, frame)
            n == Len(longer)
            error == ErrorText(errors)
<1>1. /\ frame.kind = "error" /\ frame.usages = <<>> /\ frame.errors = errors
      /\ frame.text = "overloaded"
  BY DEF Frame
<1>. HIDE DEF frame
<1>2. /\ \E S : longer \in Seq(S)
      /\ longer # <<>> /\ longer[n] = frame
      /\ Found(longer)[n] = Absorb([tokens |-> truth, error |-> "none"], frame)
  <2>1. Continued(provider, truth, longer, frame)
    BY Longer
  <2>. HIDE DEF longer
  <2>. QED
    BY <2>1 DEF Continued
<1>. HIDE DEF longer, n
<1>3. truth \in AnyTokens /\ error = IF errors = <<>> THEN "none" ELSE "overloaded"
  <2>1. <<"overloaded">> # <<>>
    OBVIOUS
  <2>. QED
    BY <2>1, ErrorTexts DEF Streamed
<1>4. Found(longer)[n] = [tokens |-> truth, error |-> error]
  BY <1>1, <1>2, <1>3, MergeNone DEF Absorb
<1>5. CountedRight(provider, longer, truth)
  <2>1. DigestOf(200, longer) = [tokens |-> truth, error |-> error]
    BY <1>4, NativeDigest DEF n
  <2>2. longer[Len(longer)] = frame
    BY <1>2 DEF n
  <2>. DEFINE one == Frame("error", <<>>, <<"overloaded">>, "overloaded")
  <2>3. ChatFrames(provider, longer) = <<one>> /\ ResponsesFrames(longer) = <<one>>
    BY <1>1, <2>2 DEF ChatFrames, ResponsesFrames
  <2>4. one.kind = "error" /\ one.usages = <<>> /\ one.errors = <<"overloaded">>
    BY DEF Frame
  <2>. HIDE DEF one
  <2>5. DigestOf(502, <<one>>).error = "overloaded"
    <3>1. one.kind # "garbled" /\ ErrorText(one.errors) = "overloaded"
      BY <2>4, ErrorTexts
    <3>2. DigestOf(502, <<one>>) =
            [tokens |-> Merge(NoTokens, one.usages),
             error |-> IF 502 >= 400 /\ ErrorText(one.errors) = "none" THEN "body"
                       ELSE ErrorText(one.errors)]
      BY <3>1, OneFrame
    <3>. QED
      BY <3>1, <3>2
  <2>. QED
    BY <1>1, <1>3, <2>1, <2>2, <2>3, <2>5 DEF CountedRight
<1>6. Streamed(provider, longer, truth, TRUE)
  <2>1. provider \in {"anthropic", "codex"} /\ truth.input >= Sum(truth)
    BY DEF Streamed
  <2>. QED
    BY <1>2, <1>3, <1>5, <2>1 DEF Streamed
<1>7. longer = Append(frames, Frame("error", <<>>, errors, "overloaded"))
  BY DEF longer, frame
<1>. QED
  BY <1>6, <1>7

(* A stream that has been read frame by frame. *)
StreamInv ==
  about = "stream" =>
    /\ DOMAIN input = {"provider", "frames", "truth", "over"}
    /\ Streamed(input.provider, input.frames, input.truth, input.over)

LEMMA SentStreamInv ==
  ASSUME StreamInv, NEW provider, NEW frame, NEW truth, NEW over, Sent(provider, frame, truth, over),
         Streamed(provider, Append(input.frames, frame), truth, over)
  PROVE  StreamInv'
<1>1. DOMAIN input = {"provider", "frames", "truth", "over"} /\ input.provider = provider
  BY DEF StreamInv, Sent
<1>2. input' = [input EXCEPT !.frames = Append(@, frame), !.truth = truth, !.over = over]
  BY DEF Sent
<1>3. /\ DOMAIN input' = DOMAIN input /\ input'.provider = provider
      /\ input'.frames = Append(input.frames, frame) /\ input'.truth = truth /\ input'.over = over
  BY <1>1, <1>2
<1>. QED
  BY <1>1, <1>3 DEF StreamInv

LEMMA SentGoesOn ==
  ASSUME StreamInv, NEW provider, NEW frame, NEW truth, NEW over, Sent(provider, frame, truth, over)
  PROVE  /\ Streamed(provider, input.frames, input.truth, FALSE)
         /\ about = "stream" /\ input.provider = provider
<1>1. about = "stream" /\ input.provider = provider /\ ~input.over
  BY DEF Sent
<1>2. input.over \in BOOLEAN /\ Streamed(provider, input.frames, input.truth, input.over)
  BY <1>1 DEF StreamInv, Streamed
<1>3. input.over = FALSE
  BY <1>1, <1>2
<1>. QED
  BY <1>1, <1>2, <1>3

LEMMA FramesStreamInv == ASSUME StreamInv, Frames PROVE StreamInv'
<1>1. CASE Starts
  <2>1. PICK new \in 0..2, read \in 0..2, write \in 0..2, output \in 0..2, told \in SUBSET Cached :
          LET truth == Tokens(new + read + write, output, read, write)
              u == Counted(truth, told \cup {"input_tokens", "output_tokens"})
          IN /\ ~Begun
             /\ read > 0 => "cache_read" \in told
             /\ write > 0 => "cache_creation" \in told
             /\ Sent("anthropic", Frame("message_start", <<u>>, <<>>, "none"), truth, FALSE)
    BY <1>1 DEF Starts
  <2>. DEFINE truth == Tokens(new + read + write, output, read, write)
              u == Counted(truth, told \cup {"input_tokens", "output_tokens"})
              frame == Frame("message_start", <<u>>, <<>>, "none")
  <2>2. /\ Sent("anthropic", frame, truth, FALSE) /\ ~Begun
        /\ read > 0 => "cache_read" \in told
        /\ write > 0 => "cache_creation" \in told
    BY <2>1
  <2>3. /\ truth \in AnyTokens /\ truth.cached = read /\ truth.cache_write = write
        /\ truth.input >= Sum(truth)
    BY DEF Tokens, AnyTokens, Sum
  <2>. HIDE DEF truth
  <2>4. about = "stream" /\ Streamed("anthropic", input.frames, input.truth, FALSE)
    <3>. HIDE DEF frame
    <3>. QED
      BY <2>2, SentGoesOn
  <2>5. input.frames = <<>>
    BY <2>2, <2>4 DEF Begun
  <2>6. Streamed("anthropic", Append(input.frames, frame), truth, FALSE)
    <3>1. Streamed("anthropic", <<>>, input.truth, FALSE)
      BY <2>4, <2>5
    <3>2. Streamed("anthropic", Append(<<>>, frame), truth, FALSE)
      BY <2>2, <2>3, <3>1, StartedStream
    <3>. QED
      BY <2>5, <3>2
  <2>. HIDE DEF frame
  <2>. QED
    BY <2>2, <2>6, SentStreamInv
<1>2. CASE Counts
  <2>1. PICK more \in 0..1, last \in BOOLEAN, again \in BOOLEAN :
          LET truth == [input.truth EXCEPT !.output = @ + more]
              rest == IF again THEN Cached \cup {"input_tokens"} ELSE {}
              u == Counted(truth, rest \cup {"output_tokens"})
          IN Sent("anthropic", Frame("message_delta", <<u>>, <<>>, "none"), truth, last)
    BY <1>2 DEF Counts
  <2>. DEFINE truth == [input.truth EXCEPT !.output = @ + more]
              rest == IF again THEN Cached \cup {"input_tokens"} ELSE {}
              u == Counted(truth, rest \cup {"output_tokens"})
              frame == Frame("message_delta", <<u>>, <<>>, "none")
  <2>2. Sent("anthropic", frame, truth, last) /\ input.frames # <<>>
    BY <1>2, <2>1 DEF Counts, Begun
  <2>3. Streamed("anthropic", input.frames, input.truth, FALSE)
    <3>. HIDE DEF frame, truth
    <3>. QED
      BY <2>2, SentGoesOn
  <2>4. Streamed("anthropic", Append(input.frames, frame), truth, last)
    <3>1. Recounted(input.frames, input.truth, more, last, again)
      <4>. DEFINE before == input.frames
                  t == input.truth
      <4>1. before # <<>> /\ Streamed("anthropic", before, t, FALSE)
        BY <2>2, <2>3
      <4>2. more \in Nat
        OBVIOUS
      <4>. HIDE DEF before, t
      <4>3. Recounted(before, t, more, last, again)
        BY <4>1, <4>2, CountedStream
      <4>. QED
        BY <4>3 DEF before, t
    <3>. QED
      BY <3>1 DEF Recounted
  <2>. HIDE DEF frame, truth
  <2>. QED
    BY <2>2, <2>4, SentStreamInv
<1>3. CASE Creates
  <2>. DEFINE frame == Frame("created", <<>>, <<"null">>, "none")
  <2>1. Sent("codex", frame, NoTokens, FALSE) /\ input.frames = <<>>
    BY <1>3 DEF Creates, Begun
  <2>2. Streamed("codex", input.frames, input.truth, FALSE)
    <3>. HIDE DEF frame
    <3>. QED
      BY <2>1, SentGoesOn
  <2>3. input.truth = NoTokens
    BY <2>2 DEF Streamed
  <2>4. Streamed("codex", Append(input.frames, frame), NoTokens, FALSE)
    BY <2>2, <2>3, SpokenStream
  <2>. HIDE DEF frame
  <2>. QED
    BY <2>1, <2>4, SentStreamInv
<1>4. CASE Speaks
  <2>1. PICK kind \in {"text", "garbled"} :
          Sent(input.provider, Frame(kind, <<>>, <<>>, "none"), input.truth, FALSE)
    BY <1>4 DEF Speaks
  <2>. DEFINE provider == input.provider
              truth == input.truth
              frame == Frame(kind, <<>>, <<>>, "none")
  <2>2. Sent(provider, frame, truth, FALSE) /\ input.frames # <<>>
    BY <1>4, <2>1 DEF Speaks, Begun
  <2>. HIDE DEF provider, truth
  <2>3. Streamed(provider, input.frames, truth, FALSE)
    <3>. HIDE DEF frame
    <3>. QED
      BY <2>2, SentGoesOn DEF truth
  <2>4. Streamed(provider, Append(input.frames, frame), truth, FALSE)
    BY <2>2, <2>3, SpokenStream
  <2>. HIDE DEF frame
  <2>. QED
    BY <2>2, <2>4, SentStreamInv
<1>5. CASE Completes
  <2>1. PICK new \in 0..2, read \in 0..2, write \in 0..2, output \in 0..2,
             told \in SUBSET {"cached_tokens", "cache_write_tokens"} :
          LET truth == Tokens(new + read + write, output, read, write)
              u == Summed(truth, told \cup {"input_tokens", "output_tokens"})
          IN /\ read > 0 => "cached_tokens" \in told
             /\ write > 0 => "cache_write_tokens" \in told
             /\ Sent("codex", Frame("completed", <<u>>, <<"null">>, "none"), truth, TRUE)
    BY <1>5 DEF Completes
  <2>. DEFINE truth == Tokens(new + read + write, output, read, write)
              u == Summed(truth, told \cup {"input_tokens", "output_tokens"})
              frame == Frame("completed", <<u>>, <<"null">>, "none")
  <2>2. /\ Sent("codex", frame, truth, TRUE)
        /\ read > 0 => "cached_tokens" \in told
        /\ write > 0 => "cache_write_tokens" \in told
    BY <2>1
  <2>3. /\ truth \in AnyTokens /\ truth.cached = read /\ truth.cache_write = write
        /\ truth.input >= Sum(truth)
    BY DEF Tokens, AnyTokens, Sum
  <2>. HIDE DEF truth
  <2>4. Streamed("codex", input.frames, input.truth, FALSE)
    <3>. HIDE DEF frame
    <3>. QED
      BY <2>2, SentGoesOn
  <2>5. Streamed("codex", Append(input.frames, frame), truth, TRUE)
    BY <2>2, <2>3, <2>4, CompletedStream
  <2>. HIDE DEF frame
  <2>. QED
    BY <2>2, <2>5, SentStreamInv
<1>6. CASE Fails
  <2>1. PICK bare \in BOOLEAN :
          Sent(input.provider, Frame("error", <<>>, IF bare THEN <<>> ELSE <<"overloaded">>,
                                     "overloaded"), input.truth, TRUE)
    BY <1>6 DEF Fails
  <2>. DEFINE provider == input.provider
              truth == input.truth
              errors == IF bare THEN <<>> ELSE <<"overloaded">>
              frame == Frame("error", <<>>, errors, "overloaded")
  <2>2. Sent(provider, frame, truth, TRUE) /\ errors \in {<<>>, <<"overloaded">>}
    BY <2>1
  <2>. HIDE DEF provider, truth, errors
  <2>3. Streamed(provider, input.frames, truth, FALSE)
    <3>. HIDE DEF frame
    <3>. QED
      BY <2>2, SentGoesOn DEF truth
  <2>4. Streamed(provider, Append(input.frames, frame), truth, TRUE)
    BY <2>2, <2>3, FailedStream
  <2>. HIDE DEF frame
  <2>. QED
    BY <2>2, <2>4, SentStreamInv
<1>. QED
  BY <1>1, <1>2, <1>3, <1>4, <1>5, <1>6 DEF Frames

(***************************************************************************)
(* reqlog.rs `digest`, with the translators of the two providers: however  *)
(* many frames an answer has and whatever they count, the log and the chat *)
(* client are told what the provider has counted.                          *)
(***************************************************************************)
THEOREM TokensCounted == CaseSpec => []UsageCounted
<1>1. CaseInit => StreamInv
  <2>. SUFFICES ASSUME CaseInit, about = "stream" PROVE StreamInv
    BY DEF StreamInv
  <2>1. PICK provider \in {"anthropic", "codex"} :
          input = [provider |-> provider, frames |-> <<>>, truth |-> NoTokens, over |-> FALSE]
    BY DEF CaseInit, RecordInit
  <2>. DEFINE none == <<>>
              n == Len(none)
  <2>2. n \in Nat /\ n = 0 /\ \E S : none \in Seq(S)
    <3>1. none \in Seq({})
      OBVIOUS
    <3>. QED
      BY <3>1
  <2>3. DOMAIN input = {"provider", "frames", "truth", "over"} /\ input.provider = provider
        /\ input.frames = none /\ input.truth = NoTokens /\ input.over = FALSE
    BY <2>1
  <2>. HIDE DEF none
  <2>4. Found(none)[Len(none)] = NothingFound /\ Heard(provider, none)[Len(none)] = NothingHeard
    <3>1. n \in Nat /\ n = Len(none)
      BY <2>2
    <3>. HIDE DEF n
    <3>2. Found(none)[0] = NothingFound /\ Heard(provider, none)[0] = NothingHeard
      BY <3>1, FoundEach, HeardEach
    <3>. QED
      BY <2>2, <3>2 DEF n
  <2>5. /\ NoTokens.input = 0 /\ NoTokens.cached = 0 /\ NoTokens \in AnyTokens
        /\ NoTokens.input >= Sum(NoTokens)
    BY DEF NoTokens, Tokens, AnyTokens, Sum
  <2>6. /\ Found(none)[Len(none)] = [tokens |-> NoTokens, error |-> "none"]
        /\ \E told : Heard(provider, none)[Len(none)]
                      = [prompt |-> NoTokens.input, cached |-> NoTokens.cached, told |-> told]
    BY <2>4, <2>5 DEF NothingHeard, NothingFound
  <2>7. Streamed(provider, none, NoTokens, FALSE)
    <3>1. \E S : none \in Seq(S)
      BY <2>2
    <3>2. FALSE \in BOOLEAN /\ provider \in {"anthropic", "codex"}
      OBVIOUS
    <3>. DEFINE t == NoTokens
    <3>. HIDE DEF n
    <3>. QED
      BY <2>5, <2>6, <3>1, <3>2 DEF Streamed
  <2>. QED
    BY <2>3, <2>7 DEF StreamInv
<1>2. StreamInv /\ [CaseNext]_<<about, input>> => StreamInv'
  <2>. SUFFICES ASSUME StreamInv, [CaseNext]_<<about, input>> PROVE StreamInv'
    OBVIOUS
  <2>1. CASE UNCHANGED input \/ about # "stream"
    BY <2>1, Sorts DEF StreamInv
  <2>2. CASE about = "stream" /\ Frames
    BY <2>2, FramesStreamInv
  <2>. QED
    BY <2>1, <2>2, Sorts
<1>3. StreamInv => UsageCounted
  BY DEF StreamInv, Streamed, UsageCounted
<1>. QED
  BY <1>1, <1>2, <1>3, PTL DEF CaseSpec

--------------------------------------------------------------------------------
(***************************************************************************)
(* convert/anthropic.rs and codex.rs: what is made of a conversation, for  *)
(* any number of messages and of calls.  A conversation is followed as it  *)
(* grows: each API is told of the messages so far, and the calls that wait *)
(* for a result are known to both, as the new ids of the Responses API and *)
(* as the calls of the last assistant's turn of the Messages API.          *)
(***************************************************************************)

(* What is made of a conversation is made message by message. *)
NothingSaid == [system |-> <<>>, msgs |-> <<>>]
NothingAsked == [instructions |-> <<>>, input |-> <<>>, minted |-> 0, unpaired |-> <<>>]

LEMMA AnthropicEach ==
  ASSUME NEW messages, NEW n \in Nat, n = Len(messages)
  PROVE  /\ AnthropicMade(messages)[0] = NothingSaid
         /\ \A k \in 1..n : AnthropicMade(messages)[k] = AnthropicMessage(AnthropicMade(messages)[k - 1], messages[k])
<1>. DEFINE Made(f, m) ==
              f = [k \in 0..m |-> IF k = 0 THEN NothingSaid
                                 ELSE AnthropicMessage(f[k - 1], messages[k])]
            T == {m \in 0..n : \E f : Made(f, m)}
<1>1. 0 \in T
  <2>. DEFINE g == [k \in 0..0 |-> NothingSaid]
  <2>1. Made(g, 0)
    OBVIOUS
  <2>. HIDE DEF Made, g
  <2>. QED
    BY <2>1
<1>2. ASSUME NEW m \in 0..(n - 1), m \in T PROVE m + 1 \in T
  <2>1. PICK f : Made(f, m)
    BY <1>2
  <2>. DEFINE next == AnthropicMessage(f[m], messages[m + 1])
              g == [k \in 0..(m + 1) |-> IF k = m + 1 THEN next ELSE f[k]]
              h == [k \in 0..(m + 1) |-> IF k = 0 THEN NothingSaid
                                        ELSE AnthropicMessage(g[k - 1], messages[k])]
  <2>2. ASSUME NEW k \in 0..(m + 1) PROVE g[k] = h[k]
    <3>1. CASE k = m + 1
      BY <3>1
    <3>2. CASE k \in 0..m
      <4>1. g[k] = f[k] /\ k # m + 1 /\ (k # 0 => k - 1 \in 0..m /\ k - 1 # m + 1)
        BY <3>2
      <4>2. f[k] = IF k = 0 THEN NothingSaid ELSE AnthropicMessage(f[k - 1], messages[k])
        BY <2>1, <3>2
      <4>3. k # 0 => g[k - 1] = f[k - 1]
        BY <4>1
      <4>. QED
        BY <4>1, <4>2, <4>3
    <3>. QED
      BY <3>1, <3>2
  <2>3. g = h
    BY <2>2
  <2>4. Made(g, m + 1)
    BY <2>3
  <2>. HIDE DEF Made, g
  <2>. QED
    BY <2>4
<1>3. \E f : Made(f, n)
  <2>1. 0..n \subseteq T
    <3>. HIDE DEF T
    <3>. QED
      BY <1>1, <1>2, Induct
  <2>. HIDE DEF Made
  <2>. QED
    BY <2>1
<1>. DEFINE f == CHOOSE f : Made(f, n)
<1>4. Made(f, n)
  <2>. HIDE DEF Made
  <2>. QED
    BY <1>3
<1>5. AnthropicMade(messages) = f
  BY DEF AnthropicMade, NothingSaid
<1>. HIDE DEF f
<1>6. /\ f[0] = NothingSaid
      /\ \A k \in 1..n : f[k] = AnthropicMessage(f[k - 1], messages[k])
  BY <1>4
<1>. QED
  BY <1>5, <1>6

LEMMA AnthropicLast ==
  ASSUME NEW S, NEW messages \in Seq(S), NEW message \in S
  PROVE  AnthropicMade(Append(messages, message))[Len(messages) + 1]
           = AnthropicMessage(AnthropicMade(messages)[Len(messages)], message)
<1>. DEFINE n == Len(messages)
            longer == Append(messages, message)
            T == {k \in 0..n : AnthropicMade(longer)[k] = AnthropicMade(messages)[k]}
<1>1. /\ n \in Nat /\ Len(longer) = n + 1 /\ longer[n + 1] = message
      /\ \A k \in 1..n : longer[k] = messages[k]
  BY LenProperties, AppendProperties
<1>. HIDE DEF longer, n
<1>2. /\ AnthropicMade(messages)[0] = NothingSaid
      /\ \A k \in 1..n : AnthropicMade(messages)[k] = AnthropicMessage(AnthropicMade(messages)[k - 1], messages[k])
  BY <1>1, AnthropicEach DEF n
<1>3. /\ AnthropicMade(longer)[0] = NothingSaid
      /\ \A k \in 1..(n + 1) :
           AnthropicMade(longer)[k] = AnthropicMessage(AnthropicMade(longer)[k - 1], longer[k])
  <2>. DEFINE m == n + 1
  <2>1. m \in Nat /\ m = Len(longer)
    BY <1>1
  <2>. HIDE DEF m
  <2>2. /\ AnthropicMade(longer)[0] = NothingSaid
        /\ \A k \in 1..m : AnthropicMade(longer)[k] = AnthropicMessage(AnthropicMade(longer)[k - 1], longer[k])
    BY <2>1, AnthropicEach
  <2>. QED
    BY <2>2 DEF m
<1>4. 0 \in T
  BY <1>1, <1>2, <1>3
<1>5. ASSUME NEW k \in 0..(n - 1), k \in T PROVE k + 1 \in T
  <2>1. k + 1 \in 1..n /\ k + 1 \in 0..n /\ k + 1 \in 1..(n + 1) /\ (k + 1) - 1 = k
    BY <1>1
  <2>2. AnthropicMade(longer)[k + 1] = AnthropicMessage(AnthropicMade(longer)[k], longer[k + 1])
    BY <1>3, <2>1
  <2>3. AnthropicMade(messages)[k + 1] = AnthropicMessage(AnthropicMade(messages)[k], messages[k + 1])
    BY <1>2, <2>1
  <2>4. AnthropicMade(longer)[k] = AnthropicMade(messages)[k] /\ longer[k + 1] = messages[k + 1]
    BY <1>1, <1>5, <2>1
  <2>. QED
    BY <2>1, <2>2, <2>3, <2>4
<1>6. n \in T
  <2>1. 0..n \subseteq T
    <3>. HIDE DEF T
    <3>. QED
      BY <1>1, <1>4, <1>5, Induct
  <2>2. n \in 0..n
    BY <1>1
  <2>. HIDE DEF T
  <2>. QED
    BY <2>1, <2>2
<1>7. n + 1 \in 1..(n + 1) /\ (n + 1) - 1 = n
  BY <1>1
<1>8. AnthropicMade(longer)[n + 1] = AnthropicMessage(AnthropicMade(longer)[n], longer[n + 1])
  BY <1>3, <1>7
<1>. QED
  BY <1>1, <1>6, <1>8 DEF longer, n

LEMMA CodexEach ==
  ASSUME NEW messages, NEW n \in Nat, n = Len(messages)
  PROVE  /\ CodexMade(messages)[0] = NothingAsked
         /\ \A k \in 1..n : CodexMade(messages)[k] = CodexMessage(CodexMade(messages)[k - 1], messages[k])
<1>. DEFINE Made(f, m) ==
              f = [k \in 0..m |-> IF k = 0 THEN NothingAsked
                                 ELSE CodexMessage(f[k - 1], messages[k])]
            T == {m \in 0..n : \E f : Made(f, m)}
<1>1. 0 \in T
  <2>. DEFINE g == [k \in 0..0 |-> NothingAsked]
  <2>1. Made(g, 0)
    OBVIOUS
  <2>. HIDE DEF Made, g
  <2>. QED
    BY <2>1
<1>2. ASSUME NEW m \in 0..(n - 1), m \in T PROVE m + 1 \in T
  <2>1. PICK f : Made(f, m)
    BY <1>2
  <2>. DEFINE next == CodexMessage(f[m], messages[m + 1])
              g == [k \in 0..(m + 1) |-> IF k = m + 1 THEN next ELSE f[k]]
              h == [k \in 0..(m + 1) |-> IF k = 0 THEN NothingAsked
                                        ELSE CodexMessage(g[k - 1], messages[k])]
  <2>2. ASSUME NEW k \in 0..(m + 1) PROVE g[k] = h[k]
    <3>1. CASE k = m + 1
      BY <3>1
    <3>2. CASE k \in 0..m
      <4>1. g[k] = f[k] /\ k # m + 1 /\ (k # 0 => k - 1 \in 0..m /\ k - 1 # m + 1)
        BY <3>2
      <4>2. f[k] = IF k = 0 THEN NothingAsked ELSE CodexMessage(f[k - 1], messages[k])
        BY <2>1, <3>2
      <4>3. k # 0 => g[k - 1] = f[k - 1]
        BY <4>1
      <4>. QED
        BY <4>1, <4>2, <4>3
    <3>. QED
      BY <3>1, <3>2
  <2>3. g = h
    BY <2>2
  <2>4. Made(g, m + 1)
    BY <2>3
  <2>. HIDE DEF Made, g
  <2>. QED
    BY <2>4
<1>3. \E f : Made(f, n)
  <2>1. 0..n \subseteq T
    <3>. HIDE DEF T
    <3>. QED
      BY <1>1, <1>2, Induct
  <2>. HIDE DEF Made
  <2>. QED
    BY <2>1
<1>. DEFINE f == CHOOSE f : Made(f, n)
<1>4. Made(f, n)
  <2>. HIDE DEF Made
  <2>. QED
    BY <1>3
<1>5. CodexMade(messages) = f
  BY DEF CodexMade, NothingAsked
<1>. HIDE DEF f
<1>6. /\ f[0] = NothingAsked
      /\ \A k \in 1..n : f[k] = CodexMessage(f[k - 1], messages[k])
  BY <1>4
<1>. QED
  BY <1>5, <1>6

LEMMA CodexLast ==
  ASSUME NEW S, NEW messages \in Seq(S), NEW message \in S
  PROVE  CodexMade(Append(messages, message))[Len(messages) + 1]
           = CodexMessage(CodexMade(messages)[Len(messages)], message)
<1>. DEFINE n == Len(messages)
            longer == Append(messages, message)
            T == {k \in 0..n : CodexMade(longer)[k] = CodexMade(messages)[k]}
<1>1. /\ n \in Nat /\ Len(longer) = n + 1 /\ longer[n + 1] = message
      /\ \A k \in 1..n : longer[k] = messages[k]
  BY LenProperties, AppendProperties
<1>. HIDE DEF longer, n
<1>2. /\ CodexMade(messages)[0] = NothingAsked
      /\ \A k \in 1..n : CodexMade(messages)[k] = CodexMessage(CodexMade(messages)[k - 1], messages[k])
  BY <1>1, CodexEach DEF n
<1>3. /\ CodexMade(longer)[0] = NothingAsked
      /\ \A k \in 1..(n + 1) :
           CodexMade(longer)[k] = CodexMessage(CodexMade(longer)[k - 1], longer[k])
  <2>. DEFINE m == n + 1
  <2>1. m \in Nat /\ m = Len(longer)
    BY <1>1
  <2>. HIDE DEF m
  <2>2. /\ CodexMade(longer)[0] = NothingAsked
        /\ \A k \in 1..m : CodexMade(longer)[k] = CodexMessage(CodexMade(longer)[k - 1], longer[k])
    BY <2>1, CodexEach
  <2>. QED
    BY <2>2 DEF m
<1>4. 0 \in T
  BY <1>1, <1>2, <1>3
<1>5. ASSUME NEW k \in 0..(n - 1), k \in T PROVE k + 1 \in T
  <2>1. k + 1 \in 1..n /\ k + 1 \in 0..n /\ k + 1 \in 1..(n + 1) /\ (k + 1) - 1 = k
    BY <1>1
  <2>2. CodexMade(longer)[k + 1] = CodexMessage(CodexMade(longer)[k], longer[k + 1])
    BY <1>3, <2>1
  <2>3. CodexMade(messages)[k + 1] = CodexMessage(CodexMade(messages)[k], messages[k + 1])
    BY <1>2, <2>1
  <2>4. CodexMade(longer)[k] = CodexMade(messages)[k] /\ longer[k + 1] = messages[k + 1]
    BY <1>1, <1>5, <2>1
  <2>. QED
    BY <2>1, <2>2, <2>3, <2>4
<1>6. n \in T
  <2>1. 0..n \subseteq T
    <3>. HIDE DEF T
    <3>. QED
      BY <1>1, <1>4, <1>5, Induct
  <2>2. n \in 0..n
    BY <1>1
  <2>. HIDE DEF T
  <2>. QED
    BY <2>1, <2>2
<1>7. n + 1 \in 1..(n + 1) /\ (n + 1) - 1 = n
  BY <1>1
<1>8. CodexMade(longer)[n + 1] = CodexMessage(CodexMade(longer)[n], longer[n + 1])
  BY <1>3, <1>7
<1>. QED
  BY <1>1, <1>6, <1>8 DEF longer, n

LEMMA CallsEach ==
  ASSUME NEW out, NEW calls, NEW n \in Nat, n = Len(calls)
  PROVE  /\ CodexCalls(out, calls)[0] = out
         /\ \A k \in 1..n : CodexCalls(out, calls)[k] = CodexCall(CodexCalls(out, calls)[k - 1], calls[k])
<1>. DEFINE Made(f, m) ==
              f = [k \in 0..m |-> IF k = 0 THEN out
                                 ELSE CodexCall(f[k - 1], calls[k])]
            T == {m \in 0..n : \E f : Made(f, m)}
<1>1. 0 \in T
  <2>. DEFINE g == [k \in 0..0 |-> out]
  <2>1. Made(g, 0)
    OBVIOUS
  <2>. HIDE DEF Made, g
  <2>. QED
    BY <2>1
<1>2. ASSUME NEW m \in 0..(n - 1), m \in T PROVE m + 1 \in T
  <2>1. PICK f : Made(f, m)
    BY <1>2
  <2>. DEFINE next == CodexCall(f[m], calls[m + 1])
              g == [k \in 0..(m + 1) |-> IF k = m + 1 THEN next ELSE f[k]]
              h == [k \in 0..(m + 1) |-> IF k = 0 THEN out
                                        ELSE CodexCall(g[k - 1], calls[k])]
  <2>2. ASSUME NEW k \in 0..(m + 1) PROVE g[k] = h[k]
    <3>1. CASE k = m + 1
      BY <3>1
    <3>2. CASE k \in 0..m
      <4>1. g[k] = f[k] /\ k # m + 1 /\ (k # 0 => k - 1 \in 0..m /\ k - 1 # m + 1)
        BY <3>2
      <4>2. f[k] = IF k = 0 THEN out ELSE CodexCall(f[k - 1], calls[k])
        BY <2>1, <3>2
      <4>3. k # 0 => g[k - 1] = f[k - 1]
        BY <4>1
      <4>. QED
        BY <4>1, <4>2, <4>3
    <3>. QED
      BY <3>1, <3>2
  <2>3. g = h
    BY <2>2
  <2>4. Made(g, m + 1)
    BY <2>3
  <2>. HIDE DEF Made, g
  <2>. QED
    BY <2>4
<1>3. \E f : Made(f, n)
  <2>1. 0..n \subseteq T
    <3>. HIDE DEF T
    <3>. QED
      BY <1>1, <1>2, Induct
  <2>. HIDE DEF Made
  <2>. QED
    BY <2>1
<1>. DEFINE f == CHOOSE f : Made(f, n)
<1>4. Made(f, n)
  <2>. HIDE DEF Made
  <2>. QED
    BY <1>3
<1>5. CodexCalls(out, calls) = f
  BY DEF CodexCalls
<1>. HIDE DEF f
<1>6. /\ f[0] = out
      /\ \A k \in 1..n : f[k] = CodexCall(f[k - 1], calls[k])
  BY <1>4
<1>. QED
  BY <1>5, <1>6

(* What is flattened is joined part by part. *)
Flattens(f, parts, n) ==
  /\ f[1] = parts[1]
  /\ \A k \in 2..n : f[k] = f[k - 1] \o parts[k]

LEMMA FlattenEach ==
  ASSUME NEW parts, NEW n \in Nat, n = Len(parts), n > 0
  PROVE  \E f : Flattens(f, parts, n) /\ FlattenSeq(parts) = f[n]
<1>. DEFINE Made(f, m) ==
              f = [k \in 1..m |-> IF k = 1 THEN parts[k] ELSE f[k - 1] \o parts[k]]
            T == {m \in 0..n : \E f : Made(f, m)}
<1>1. 0 \in T
  <2>. DEFINE g == [k \in 1..0 |-> parts[1]]
  <2>1. Made(g, 0)
    OBVIOUS
  <2>. HIDE DEF Made, g
  <2>. QED
    BY <2>1
<1>2. ASSUME NEW m \in 0..(n - 1), m \in T PROVE m + 1 \in T
  <2>1. PICK f : Made(f, m)
    BY <1>2
  <2>. DEFINE next == IF m = 0 THEN parts[1] ELSE f[m] \o parts[m + 1]
              g == [k \in 1..(m + 1) |-> IF k = m + 1 THEN next ELSE f[k]]
              h == [k \in 1..(m + 1) |-> IF k = 1 THEN parts[k] ELSE g[k - 1] \o parts[k]]
  <2>2. ASSUME NEW k \in 1..(m + 1) PROVE g[k] = h[k]
    <3>1. CASE k = m + 1
      BY <3>1
    <3>2. CASE k \in 1..m
      <4>1. g[k] = f[k] /\ k # m + 1 /\ (k # 1 => k - 1 \in 1..m /\ k - 1 # m + 1)
        BY <3>2
      <4>2. f[k] = IF k = 1 THEN parts[k] ELSE f[k - 1] \o parts[k]
        BY <2>1, <3>2
      <4>3. k # 1 => g[k - 1] = f[k - 1]
        BY <4>1
      <4>. QED
        BY <4>1, <4>2, <4>3
    <3>. QED
      BY <3>1, <3>2
  <2>3. g = h
    BY <2>2
  <2>4. Made(g, m + 1)
    BY <2>3
  <2>. HIDE DEF Made, g
  <2>. QED
    BY <2>4
<1>3. \E f : Made(f, n)
  <2>1. 0..n \subseteq T
    <3>. HIDE DEF T
    <3>. QED
      BY <1>1, <1>2, Induct
  <2>. HIDE DEF Made
  <2>. QED
    BY <2>1
<1>. DEFINE f == CHOOSE f : Made(f, n)
<1>4. Made(f, n)
  <2>. HIDE DEF Made
  <2>. QED
    BY <1>3
<1>5. FlattenSeq(parts) = f[n]
  BY DEF FlattenSeq
<1>. HIDE DEF f
<1>6. Flattens(f, parts, n)
  <2>1. ASSUME NEW k \in 1..n PROVE f[k] = IF k = 1 THEN parts[k] ELSE f[k - 1] \o parts[k]
    BY <1>4
  <2>2. 1 \in 1..n /\ \A k \in 2..n : k \in 1..n /\ k # 1
    OBVIOUS
  <2>. QED
    BY <2>1, <2>2 DEF Flattens
<1>. QED
  BY <1>5, <1>6

LEMMA FlattenNone == FlattenSeq(<<>>) = <<>>
BY DEF FlattenSeq

LEMMA FlattenAppend ==
  ASSUME NEW T, NEW parts \in Seq(Seq(T)), NEW part \in Seq(T)
  PROVE  /\ FlattenSeq(Append(parts, part)) = FlattenSeq(parts) \o part
         /\ FlattenSeq(parts) \in Seq(T)
<1>. DEFINE n == Len(parts)
            longer == Append(parts, part)
<1>1. /\ n \in Nat /\ Len(longer) = n + 1 /\ longer[n + 1] = part
      /\ \A k \in 1..n : longer[k] = parts[k] /\ parts[k] \in Seq(T)
      /\ n = 0 => parts = <<>>
  BY LenProperties, AppendProperties, ElementOfSeq, EmptySeq
<1>. HIDE DEF longer, n
<1>2. PICK g : Flattens(g, longer, n + 1) /\ FlattenSeq(longer) = g[n + 1]
  <2>. DEFINE m == n + 1
  <2>1. m \in Nat /\ m = Len(longer) /\ m > 0
    BY <1>1
  <2>. HIDE DEF m
  <2>2. \E g : Flattens(g, longer, m) /\ FlattenSeq(longer) = g[m]
    BY <2>1, FlattenEach
  <2>. QED
    BY <2>2 DEF m
<1>3. CASE n = 0
  <2>1. FlattenSeq(longer) = part
    BY <1>1, <1>2, <1>3 DEF Flattens
  <2>2. FlattenSeq(parts) = <<>>
    BY <1>1, <1>3, FlattenNone
  <2>3. <<>> \o part = part /\ <<>> \in Seq(T)
    BY ConcatEmptySeq, EmptySeq
  <2>. QED
    BY <2>1, <2>2, <2>3 DEF longer
<1>4. CASE n > 0
  <2>1. PICK f : Flattens(f, parts, n) /\ FlattenSeq(parts) = f[n]
    BY <1>1, <1>4, FlattenEach DEF n
  <2>. DEFINE S == {k \in 0..(n - 1) : f[k + 1] = g[k + 1] /\ f[k + 1] \in Seq(T)}
  <2>2. 0 \in S
    BY <1>1, <1>2, <1>4, <2>1 DEF Flattens
  <2>3. ASSUME NEW k \in 0..((n - 1) - 1), k \in S PROVE k + 1 \in S
    <3>1. k + 2 \in 2..n /\ k + 2 \in 2..(n + 1) /\ k + 2 \in 1..n /\ (k + 2) - 1 = k + 1
          /\ (k + 1) + 1 = k + 2 /\ k + 1 \in 0..(n - 1)
      BY <1>1, <1>4
    <3>2. f[k + 2] = f[k + 1] \o parts[k + 2] /\ g[k + 2] = g[k + 1] \o longer[k + 2]
      BY <1>2, <2>1, <3>1 DEF Flattens
    <3>3. longer[k + 2] = parts[k + 2] /\ parts[k + 2] \in Seq(T)
      BY <1>1, <3>1
    <3>4. f[k + 1] = g[k + 1] /\ f[k + 1] \in Seq(T)
      BY <2>3
    <3>5. f[k + 1] \o parts[k + 2] \in Seq(T)
      BY <3>3, <3>4, ConcatProperties
    <3>. QED
      BY <3>1, <3>2, <3>3, <3>4, <3>5
  <2>4. n - 1 \in S
    <3>. DEFINE b == n - 1
    <3>1. b \in Nat /\ b \in 0..b
      BY <1>1, <1>4
    <3>2. 0 \in S /\ \A k \in 0..(b - 1) : k \in S => k + 1 \in S
      BY <2>2, <2>3
    <3>. HIDE DEF b, S
    <3>3. 0..b \subseteq S
      BY <3>1, <3>2, Induct
    <3>. QED
      BY <3>1, <3>3 DEF b
  <2>5. f[n] = g[n] /\ f[n] \in Seq(T)
    <3>1. (n - 1) + 1 = n
      BY <1>1
    <3>. QED
      BY <2>4, <3>1
  <2>6. n + 1 \in 2..(n + 1) /\ (n + 1) - 1 = n
    BY <1>1, <1>4
  <2>7. g[n + 1] = g[n] \o longer[n + 1]
    BY <1>2, <2>6 DEF Flattens
  <2>. QED
    BY <1>1, <1>2, <2>1, <2>5, <2>7 DEF longer
<1>. QED
  BY <1>1, <1>3, <1>4

LEMMA Associative == \A T : \A a, b, c \in Seq(T) : (a \o b) \o c = a \o (b \o c)
BY ConcatAssociative, Zenon

(* The last part may grow. *)
LEMMA FlattenGrown ==
  ASSUME NEW T, NEW parts \in Seq(Seq(T)), parts # <<>>, NEW more \in Seq(T)
  PROVE  FlattenSeq([parts EXCEPT ![Len(parts)] = @ \o more]) = FlattenSeq(parts) \o more
<1>1. PICK front \in Seq(Seq(T)), end \in Seq(T) : parts = Append(front, end)
  BY SequenceEmptyOrAppend
<1>. DEFINE n == Len(front)
            grown == [parts EXCEPT ![Len(parts)] = @ \o more]
<1>2. /\ n \in Nat /\ Len(parts) = n + 1 /\ parts[n + 1] = end
      /\ \A k \in 1..n : parts[k] = front[k]
  BY <1>1, LenProperties, AppendProperties
<1>3. end \o more \in Seq(T)
  BY ConcatProperties
<1>4. grown = Append(front, end \o more)
  <2>. DEFINE other == Append(front, end \o more)
  <2>1. /\ other \in Seq(Seq(T)) /\ Len(other) = n + 1 /\ other[n + 1] = end \o more
        /\ \A k \in 1..n : other[k] = front[k]
    BY <1>3, AppendProperties
  <2>2. /\ grown \in Seq(Seq(T)) /\ Len(grown) = n + 1
        /\ \A k \in 1..(n + 1) : grown[k] = IF k = n + 1 THEN end \o more ELSE parts[k]
    <3>1. n + 1 \in 1..Len(parts)
      BY <1>2
    <3>2. grown = [parts EXCEPT ![n + 1] = end \o more]
      BY <1>2, <3>1
    <3>. HIDE DEF grown, n
    <3>. QED
      BY <1>2, <1>3, <3>1, <3>2, ExceptSeq
  <2>3. \A k \in 1..(n + 1) : grown[k] = other[k]
    <3>. HIDE DEF grown, other, n
    <3>1. \A k \in 1..(n + 1) : k = n + 1 \/ k \in 1..n
      BY <1>2
    <3>2. \A k \in 1..n : k # n + 1 /\ k \in 1..(n + 1)
      BY <1>2
    <3>3. \A k \in 1..n : grown[k] = other[k]
      BY <1>2, <2>1, <2>2, <3>2
    <3>4. n + 1 \in 1..(n + 1)
      BY <1>2
    <3>. QED
      BY <2>1, <2>2, <3>1, <3>3, <3>4
  <2>. HIDE DEF grown, other, n
  <2>4. Len(grown) = Len(other) /\ \A k \in 1..Len(grown) : grown[k] = other[k]
    BY <2>1, <2>2, <2>3
  <2>5. grown = other
    BY <2>1, <2>2, <2>4, SeqEqual
  <2>. QED
    BY <2>5 DEF other
<1>. HIDE DEF grown
<1>5. /\ FlattenSeq(grown) = FlattenSeq(front) \o (end \o more)
      /\ FlattenSeq(parts) = FlattenSeq(front) \o end /\ FlattenSeq(front) \in Seq(T)
  BY <1>1, <1>3, <1>4, FlattenAppend
<1>6. FlattenSeq(front) \o (end \o more) = (FlattenSeq(front) \o end) \o more
  <2>. DEFINE first == FlattenSeq(front)
  <2>1. first \in Seq(T) /\ end \in Seq(T) /\ more \in Seq(T)
    BY <1>1, <1>5
  <2>. HIDE DEF first
  <2>2. (first \o end) \o more = first \o (end \o more)
    BY ONLY <2>1, Associative, SMTT(30)
  <2>. QED
    BY <2>2 DEF first
<1>. QED
  BY <1>5, <1>6 DEF grown

Falls(s) == \A i, j \in 1..Len(s) : i < j => s[i] > s[j]

(* What the Responses API is told of the calls: the client's own ids, and where *)
(* it left one out a new one, below those before it.                            *)
CallsTold(ids, calls, minted) ==
  /\ ids \in Seq(Nat) /\ calls \in Seq(Int) /\ Len(calls) = Len(ids) /\ minted \in Nat
  /\ \A k \in 1..Len(ids) : /\ ids[k] \in {0, k}
                            /\ ids[k] # 0 => calls[k] = k
                            /\ ids[k] = 0 => calls[k] < 0 /\ calls[k] >= -minted
  /\ \A i, j \in 1..Len(ids) : i < j /\ ids[i] = 0 /\ ids[j] = 0 => calls[i] > calls[j]

(* The new ids that wait for a result are those of the calls that do. *)
Waiting(ids, calls, unpaired, open) ==
  /\ unpaired \in Seq(Int) /\ Falls(unpaired)
  /\ open \in Seq(Nat) /\ \A k \in 1..Len(open) : open[k] \in 1..Len(ids)
  /\ \A i, j \in 1..Len(open) : i < j => open[i] < open[j]
  /\ \A i \in 1..Len(unpaired) :
       \E j \in 1..Len(open) : ids[open[j]] = 0 /\ unpaired[i] = calls[open[j]]
  /\ \A j \in 1..Len(open) :
       ids[open[j]] = 0 => \E i \in 1..Len(unpaired) : unpaired[i] = calls[open[j]]

ResultsTold(calls, outputs, links) ==
  /\ outputs \in Seq(Int) /\ links \in Seq(Nat) /\ Len(outputs) = Len(links)
  /\ \A k \in 1..Len(links) : links[k] \in 1..Len(calls) /\ outputs[k] = calls[links[k]]

LEMMA CallAdded ==
  ASSUME NEW ids, NEW calls, NEW minted, NEW unpaired, NEW open, NEW outputs, NEW links,
         CallsTold(ids, calls, minted), Waiting(ids, calls, unpaired, open),
         ResultsTold(calls, outputs, links),
         NEW id \in {0, Len(ids) + 1}, NEW call, call = IF id = 0 THEN -(minted + 1) ELSE id,
         \A k \in 1..Len(open) : open[k] <= Len(ids)
  PROVE  /\ CallsTold(Append(ids, id), Append(calls, call), IF id = 0 THEN minted + 1 ELSE minted)
         /\ Waiting(Append(ids, id), Append(calls, call),
                    IF id = 0 THEN Append(unpaired, call) ELSE unpaired, Append(open, Len(ids) + 1))
         /\ ResultsTold(Append(calls, call), outputs, links)
<1>. DEFINE n == Len(ids)
            p == Len(unpaired)
            w == Len(open)
            ids1 == Append(ids, id)
            calls1 == Append(calls, call)
            minted1 == IF id = 0 THEN minted + 1 ELSE minted
            unpaired1 == IF id = 0 THEN Append(unpaired, call) ELSE unpaired
            open1 == Append(open, n + 1)
<1>1. /\ ids \in Seq(Nat) /\ calls \in Seq(Int) /\ unpaired \in Seq(Int) /\ open \in Seq(Nat)
      /\ n \in Nat /\ p \in Nat /\ w \in Nat /\ Len(calls) = n /\ minted \in Nat
  BY LenProperties DEF CallsTold, Waiting
<1>2. id \in Nat /\ call \in Int /\ minted1 \in Nat /\ (id # 0 => call = n + 1 /\ id = n + 1)
      /\ (id = 0 => call = -(minted + 1))
  BY <1>1
<1>3. /\ ids1 \in Seq(Nat) /\ Len(ids1) = n + 1 /\ ids1[n + 1] = id
      /\ \A k \in 1..n : ids1[k] = ids[k]
  BY <1>1, <1>2, AppendProperties
<1>4. /\ calls1 \in Seq(Int) /\ Len(calls1) = n + 1 /\ calls1[n + 1] = call
      /\ \A k \in 1..n : calls1[k] = calls[k]
  BY <1>1, <1>2, AppendProperties
<1>5. /\ open1 \in Seq(Nat) /\ Len(open1) = w + 1 /\ open1[w + 1] = n + 1
      /\ \A k \in 1..w : open1[k] = open[k]
  BY <1>1, AppendProperties
<1>6. /\ unpaired1 \in Seq(Int)
      /\ Len(unpaired1) = IF id = 0 THEN p + 1 ELSE p
      /\ \A k \in 1..p : unpaired1[k] = unpaired[k]
      /\ id = 0 => unpaired1[p + 1] = call
  BY <1>1, <1>2, AppendProperties
<1>7. /\ \A k \in 1..n : /\ ids[k] \in {0, k}
                         /\ ids[k] # 0 => calls[k] = k
                         /\ ids[k] = 0 => calls[k] < 0 /\ calls[k] >= -minted
      /\ \A i, j \in 1..n : i < j /\ ids[i] = 0 /\ ids[j] = 0 => calls[i] > calls[j]
      /\ \A k \in 1..n : calls[k] \in Int
  BY <1>1, ElementOfSeq DEF CallsTold
<1>8. /\ Falls(unpaired) /\ \A k \in 1..w : open[k] \in 1..n
      /\ \A i, j \in 1..w : i < j => open[i] < open[j]
      /\ \A i \in 1..p : \E j \in 1..w : ids[open[j]] = 0 /\ unpaired[i] = calls[open[j]]
      /\ \A j \in 1..w : ids[open[j]] = 0 => \E i \in 1..p : unpaired[i] = calls[open[j]]
  BY DEF Waiting
<1>9. /\ outputs \in Seq(Int) /\ links \in Seq(Nat) /\ Len(outputs) = Len(links)
      /\ \A k \in 1..Len(links) : links[k] \in 1..n /\ outputs[k] = calls[links[k]]
  BY <1>1 DEF ResultsTold
<1>. HIDE DEF n, p, w, ids1, calls1, minted1, unpaired1, open1
<1>10. \A k \in 1..(n + 1) : k \in 1..n \/ k = n + 1
  BY <1>1
<1>11. CallsTold(ids1, calls1, minted1)
  <2>1. ASSUME NEW k \in 1..(n + 1)
        PROVE  /\ ids1[k] \in {0, k}
               /\ ids1[k] # 0 => calls1[k] = k
               /\ ids1[k] = 0 => calls1[k] < 0 /\ calls1[k] >= -minted1
    <3>1. CASE k \in 1..n
      <4>1. ids1[k] = ids[k] /\ calls1[k] = calls[k] /\ calls[k] \in Int
        BY <1>3, <1>4, <1>7, <3>1
      <4>2. -minted >= -minted1
        BY <1>1 DEF minted1
      <4>3. /\ ids[k] \in {0, k}
            /\ ids[k] # 0 => calls[k] = k
            /\ ids[k] = 0 => calls[k] < 0 /\ calls[k] >= -minted
        BY <1>7, <3>1
      <4>. QED
        BY <1>1, <1>2, <4>1, <4>2, <4>3
    <3>2. CASE k = n + 1
      BY <1>1, <1>2, <1>3, <1>4, <3>2 DEF minted1
    <3>. QED
      BY <1>10, <3>1, <3>2
  <2>2. ASSUME NEW i \in 1..(n + 1), NEW j \in 1..(n + 1), i < j, ids1[i] = 0, ids1[j] = 0
        PROVE  calls1[i] > calls1[j]
    <3>1. i \in 1..n
      BY <1>1, <2>2
    <3>2. CASE j \in 1..n
      BY <1>3, <1>4, <1>7, <2>2, <3>1, <3>2
    <3>3. CASE j = n + 1
      <4>1. ids1[i] = ids[i] /\ calls1[i] = calls[i] /\ ids1[j] = id /\ calls1[j] = call
        BY <1>3, <1>4, <3>1, <3>3
      <4>2. calls[i] \in Int /\ calls[i] >= -minted /\ call = -(minted + 1)
        BY <1>2, <1>7, <2>2, <3>1, <4>1
      <4>. QED
        BY <1>1, <4>1, <4>2
    <3>. QED
      BY <1>10, <3>2, <3>3
  <2>. QED
    BY <1>2, <1>3, <1>4, <2>1, <2>2 DEF CallsTold
<1>12. Waiting(ids1, calls1, unpaired1, open1)
  <2>0. \A k \in 1..(w + 1) : k \in 1..w \/ k = w + 1
    BY <1>1
  <2>1. ASSUME NEW k \in 1..(w + 1) PROVE open1[k] \in 1..(n + 1)
    <3>1. CASE k \in 1..w
      <4>1. open1[k] = open[k] /\ open[k] \in 1..n
        BY <1>5, <1>8, <3>1
      <4>. QED
        BY <1>1, <4>1
    <3>2. CASE k = w + 1
      BY <1>1, <1>5, <3>2
    <3>. QED
      BY <2>0, <3>1, <3>2
  <2>2. ASSUME NEW i \in 1..(w + 1), NEW j \in 1..(w + 1), i < j PROVE open1[i] < open1[j]
    <3>1. i \in 1..w /\ open1[i] = open[i] /\ open[i] \in 1..n
      BY <1>1, <1>5, <1>8, <2>2
    <3>2. CASE j \in 1..w
      BY <1>5, <1>8, <2>2, <3>1, <3>2
    <3>3. CASE j = w + 1
      BY <1>1, <1>5, <3>1, <3>3
    <3>. QED
      BY <2>0, <3>2, <3>3
  <2>3. \A k \in 1..w : ids1[open1[k]] = ids[open[k]] /\ calls1[open1[k]] = calls[open[k]]
    BY <1>3, <1>4, <1>5, <1>8
  <2>4. ids1[open1[w + 1]] = id /\ calls1[open1[w + 1]] = call
    BY <1>3, <1>4, <1>5
  <2>5. ASSUME NEW i \in 1..Len(unpaired1)
        PROVE  \E j \in 1..(w + 1) : ids1[open1[j]] = 0 /\ unpaired1[i] = calls1[open1[j]]
    <3>1. CASE i \in 1..p
      <4>1. PICK j \in 1..w : ids[open[j]] = 0 /\ unpaired[i] = calls[open[j]]
        BY <1>8, <3>1
      <4>2. j \in 1..(w + 1)
        BY <1>1
      <4>. QED
        BY <1>6, <2>3, <3>1, <4>1, <4>2
    <3>2. CASE i \notin 1..p
      <4>1. id = 0 /\ i = p + 1 /\ w + 1 \in 1..(w + 1)
        BY <1>1, <1>6, <3>2
      <4>. QED
        BY <1>6, <2>4, <4>1
    <3>. QED
      BY <3>1, <3>2
  <2>6. ASSUME NEW j \in 1..(w + 1), ids1[open1[j]] = 0
        PROVE  \E i \in 1..Len(unpaired1) : unpaired1[i] = calls1[open1[j]]
    <3>1. CASE j \in 1..w
      <4>1. PICK i \in 1..p : unpaired[i] = calls[open[j]]
        BY <1>8, <2>3, <2>6, <3>1
      <4>2. i \in 1..Len(unpaired1)
        BY <1>1, <1>6
      <4>. QED
        BY <1>6, <2>3, <3>1, <4>1, <4>2
    <3>2. CASE j = w + 1
      <4>1. id = 0 /\ p + 1 \in 1..Len(unpaired1)
        BY <1>1, <1>6, <2>4, <2>6, <3>2
      <4>. QED
        BY <1>6, <2>4, <3>2, <4>1
    <3>. QED
      BY <2>0, <3>1, <3>2
  <2>7. Falls(unpaired1)
    <3>1. \A k \in 1..p : unpaired[k] \in Int /\ unpaired[k] >= -minted
      <4>1. ASSUME NEW k \in 1..p PROVE unpaired[k] \in Int /\ unpaired[k] >= -minted
        <5>1. PICK j \in 1..w : ids[open[j]] = 0 /\ unpaired[k] = calls[open[j]]
          BY <1>8
        <5>2. open[j] \in 1..n
          BY <1>8
        <5>. QED
          BY <1>7, <5>1, <5>2
      <4>. QED
        BY <4>1
    <3>2. ASSUME NEW i \in 1..Len(unpaired1), NEW j \in 1..Len(unpaired1), i < j
          PROVE  unpaired1[i] > unpaired1[j]
      <4>1. i \in 1..p /\ (j \in 1..p \/ (id = 0 /\ j = p + 1))
        BY <1>1, <1>6, <3>2
      <4>2. CASE j \in 1..p
        BY <1>6, <1>8, <3>2, <4>1, <4>2 DEF Falls, p
      <4>3. CASE id = 0 /\ j = p + 1
        <5>1. unpaired1[i] = unpaired[i] /\ unpaired1[j] = -(minted + 1)
          BY <1>2, <1>6, <4>1, <4>3
        <5>. QED
          BY <1>1, <3>1, <4>1, <5>1
      <4>. QED
        BY <4>1, <4>2, <4>3
    <3>. QED
      BY <3>2 DEF Falls
  <2>. QED
    BY <1>3, <1>5, <1>6, <2>1, <2>2, <2>5, <2>6, <2>7 DEF Waiting
<1>13. ResultsTold(calls1, outputs, links)
  <2>1. \A k \in 1..Len(links) : links[k] \in 1..(n + 1) /\ outputs[k] = calls1[links[k]]
    BY <1>1, <1>4, <1>9
  <2>. QED
    BY <1>4, <1>9, <2>1 DEF ResultsTold
<1>. QED
  BY <1>11, <1>12, <1>13 DEF ids1, calls1, minted1, unpaired1, open1, n

LEMMA Removed ==
  ASSUME NEW T, NEW s \in Seq(T), NEW k \in 1..Len(s)
  PROVE  /\ RemoveAt(s, k) \in Seq(T) /\ Len(RemoveAt(s, k)) = Len(s) - 1
         /\ \A j \in 1..(Len(s) - 1) : RemoveAt(s, k)[j] = IF j < k THEN s[j] ELSE s[j + 1]
<1>. DEFINE n == Len(s)
            a == SubSeq(s, 1, k - 1)
            b == SubSeq(s, k + 1, n)
<1>1. n \in Nat /\ k \in 1..n /\ \A i \in 1..n : s[i] \in T
  BY LenProperties, ElementOfSeq
<1>. HIDE DEF n
<1>2. a \in Seq(T) /\ Len(a) = k - 1 /\ \A i \in 1..(k - 1) : a[i] = s[i]
  <2>1. 1 \in Int /\ k - 1 \in Int /\ \A i \in 1..(k - 1) : s[i] \in T
    BY <1>1
  <2>2. /\ a \in Seq(T)
        /\ Len(a) = IF 1 <= k - 1 THEN (k - 1) - 1 + 1 ELSE 0
        /\ \A i \in 1..((k - 1) - 1 + 1) : a[i] = s[1 + i - 1]
    BY <2>1, SubSeqProperties
  <2>. HIDE DEF a
  <2>. QED
    BY <1>1, <2>2
<1>3. b \in Seq(T) /\ Len(b) = n - k /\ \A i \in 1..(n - k) : b[i] = s[k + i]
  <2>1. k + 1 \in Int /\ n \in Int /\ \A i \in (k + 1)..n : s[i] \in T
    BY <1>1
  <2>2. /\ b \in Seq(T)
        /\ Len(b) = IF k + 1 <= n THEN n - (k + 1) + 1 ELSE 0
        /\ \A i \in 1..(n - (k + 1) + 1) : b[i] = s[(k + 1) + i - 1]
    BY <2>1, SubSeqProperties
  <2>. HIDE DEF b
  <2>3. n - (k + 1) + 1 = n - k /\ \A i \in 1..(n - k) : (k + 1) + i - 1 = k + i
    BY <1>1
  <2>4. \A i \in 1..(n - k) : b[i] = s[k + i]
    BY <2>2, <2>3
  <2>5. Len(b) = n - k
    BY <1>1, <2>2
  <2>. QED
    BY <2>2, <2>4, <2>5
<1>4. RemoveAt(s, k) = a \o b
  BY DEF RemoveAt, n
<1>. HIDE DEF a, b
<1>5. /\ a \o b \in Seq(T) /\ Len(a \o b) = Len(a) + Len(b)
      /\ \A j \in 1..(Len(a) + Len(b)) : (a \o b)[j] = IF j <= Len(a) THEN a[j] ELSE b[j - Len(a)]
  BY <1>2, <1>3, ConcatProperties
<1>6. ASSUME NEW j \in 1..(n - 1) PROVE (a \o b)[j] = IF j < k THEN s[j] ELSE s[j + 1]
  <2>1. (a \o b)[j] = IF j <= k - 1 THEN a[j] ELSE b[j - (k - 1)]
    BY <1>1, <1>2, <1>3, <1>5
  <2>2. CASE j < k
    <3>1. j \in 1..(k - 1)
      BY <1>1, <2>2
    <3>. QED
      BY <1>1, <1>2, <2>1, <2>2, <3>1
  <2>3. CASE j >= k
    <3>1. j - (k - 1) \in 1..(n - k) /\ k + (j - (k - 1)) = j + 1 /\ ~(j <= k - 1)
      BY <1>1, <2>3
    <3>2. b[j - (k - 1)] = s[k + (j - (k - 1))]
      BY <1>3, <3>1
    <3>. QED
      BY <1>1, <2>1, <2>3, <3>1, <3>2
  <2>4. j < k \/ j >= k
    BY <1>1
  <2>. QED
    BY <2>2, <2>3, <2>4
<1>7. Len(a) + Len(b) = n - 1
  BY <1>1, <1>2, <1>3
<1>. QED
  BY <1>4, <1>5, <1>6, <1>7 DEF n

LEMMA ResultAdded ==
  ASSUME NEW calls, NEW outputs, NEW links, ResultsTold(calls, outputs, links),
         NEW link \in 1..Len(calls), Len(calls) \in Nat, NEW output \in Int, output = calls[link]
  PROVE  ResultsTold(calls, Append(outputs, output), Append(links, link))
<1>. DEFINE n == Len(links)
            outputs1 == Append(outputs, output)
            links1 == Append(links, link)
<1>1. /\ outputs \in Seq(Int) /\ links \in Seq(Nat) /\ Len(outputs) = n /\ n \in Nat
      /\ \A k \in 1..n : links[k] \in 1..Len(calls) /\ outputs[k] = calls[links[k]]
  BY LenProperties DEF ResultsTold
<1>2. /\ outputs1 \in Seq(Int) /\ Len(outputs1) = n + 1 /\ outputs1[n + 1] = output
      /\ \A k \in 1..n : outputs1[k] = outputs[k]
  BY <1>1, AppendProperties
<1>3. /\ links1 \in Seq(Nat) /\ Len(links1) = n + 1 /\ links1[n + 1] = link
      /\ \A k \in 1..n : links1[k] = links[k]
  BY <1>1, AppendProperties
<1>. HIDE DEF outputs1, links1, n
<1>4. \A k \in 1..(n + 1) : links1[k] \in 1..Len(calls) /\ outputs1[k] = calls[links1[k]]
  <2>1. \A k \in 1..(n + 1) : k \in 1..n \/ k = n + 1
    BY <1>1
  <2>. QED
    BY <1>1, <1>2, <1>3, <2>1
<1>5. ResultsTold(calls, outputs1, links1)
  BY <1>2, <1>3, <1>4 DEF ResultsTold
<1>. QED
  BY <1>5 DEF outputs1, links1

LEMMA CallAnswered ==
  ASSUME NEW ids, NEW calls, NEW minted, NEW unpaired, NEW open, NEW outputs, NEW links,
         CallsTold(ids, calls, minted), Waiting(ids, calls, unpaired, open),
         ResultsTold(calls, outputs, links),
         NEW k \in 1..Len(open), NEW id, id = ids[open[k]],
         id = 0 => \A j \in 1..(k - 1) : ids[open[j]] # 0
  PROVE  /\ id = 0 => unpaired # <<>>
         /\ Waiting(ids, calls, IF id = 0 THEN Tail(unpaired) ELSE unpaired, RemoveAt(open, k))
         /\ ResultsTold(calls, Append(outputs, IF id = 0 THEN Head(unpaired) ELSE id),
                        Append(links, open[k]))
<1>. DEFINE n == Len(ids)
            p == Len(unpaired)
            w == Len(open)
            open1 == RemoveAt(open, k)
            unpaired1 == IF id = 0 THEN Tail(unpaired) ELSE unpaired
            call == calls[open[k]]
<1>1. /\ ids \in Seq(Nat) /\ calls \in Seq(Int) /\ unpaired \in Seq(Int) /\ open \in Seq(Nat)
      /\ n \in Nat /\ p \in Nat /\ w \in Nat /\ Len(calls) = n /\ k \in 1..w
  BY LenProperties DEF CallsTold, Waiting
<1>2. /\ open1 \in Seq(Nat) /\ Len(open1) = w - 1
      /\ \A j \in 1..(w - 1) : open1[j] = IF j < k THEN open[j] ELSE open[j + 1]
  BY <1>1, Removed
<1>3. /\ \A j \in 1..n : /\ ids[j] \in {0, j}
                         /\ ids[j] # 0 => calls[j] = j
                         /\ ids[j] = 0 => calls[j] < 0
      /\ \A i, j \in 1..n : i < j /\ ids[i] = 0 /\ ids[j] = 0 => calls[i] > calls[j]
      /\ \A j \in 1..n : calls[j] \in Int
  BY <1>1, ElementOfSeq DEF CallsTold
<1>4. /\ Falls(unpaired) /\ \A j \in 1..w : open[j] \in 1..n
      /\ \A i, j \in 1..w : i < j => open[i] < open[j]
      /\ \A i \in 1..p : \E j \in 1..w : ids[open[j]] = 0 /\ unpaired[i] = calls[open[j]]
      /\ \A j \in 1..w : ids[open[j]] = 0 => \E i \in 1..p : unpaired[i] = calls[open[j]]
  BY DEF Waiting
<1>5. /\ outputs \in Seq(Int) /\ links \in Seq(Nat) /\ Len(outputs) = Len(links)
      /\ \A j \in 1..Len(links) : links[j] \in 1..n /\ outputs[j] = calls[links[j]]
  BY <1>1 DEF ResultsTold
<1>6. open[k] \in 1..n /\ call \in Int
  BY <1>1, <1>3, <1>4
<1>. HIDE DEF n, p, w, open1, unpaired1, call
(* A place of what is left is one of before, and the other way round. *)
<1>7. ASSUME NEW j \in 1..(w - 1)
      PROVE  \E i \in 1..w : i # k /\ open1[j] = open[i] /\ i = (IF j < k THEN j ELSE j + 1)
  <2>1. CASE j < k
    <3>1. j \in 1..w /\ j # k
      BY <1>1, <2>1
    <3>. QED
      BY <1>2, <2>1, <3>1
  <2>2. CASE ~(j < k)
    <3>1. j + 1 \in 1..w /\ j + 1 # k
      BY <1>1, <2>2
    <3>. QED
      BY <1>2, <2>2, <3>1
  <2>. QED
    BY <2>1, <2>2
<1>8. ASSUME NEW i \in 1..w, i # k PROVE \E j \in 1..(w - 1) : open1[j] = open[i]
  <2>1. CASE i < k
    <3>1. i \in 1..(w - 1)
      BY <1>1, <2>1
    <3>. QED
      BY <1>2, <2>1, <3>1
  <2>2. CASE i > k
    <3>1. i - 1 \in 1..(w - 1) /\ ~(i - 1 < k) /\ (i - 1) + 1 = i
      BY <1>1, <2>2
    <3>. QED
      BY <1>2, <3>1
  <2>. QED
    BY <1>1, <1>8, <2>1, <2>2
<1>9. ASSUME NEW i \in 1..(w - 1), NEW j \in 1..(w - 1), i < j PROVE open1[i] < open1[j]
  <2>1. PICK a \in 1..w : open1[i] = open[a] /\ a = (IF i < k THEN i ELSE i + 1)
    BY <1>7
  <2>2. PICK b \in 1..w : open1[j] = open[b] /\ b = (IF j < k THEN j ELSE j + 1)
    BY <1>7
  <2>3. a < b
    BY <1>1, <1>9, <2>1, <2>2
  <2>. QED
    BY <1>4, <2>1, <2>2, <2>3
<1>10. \A j \in 1..(w - 1) : open1[j] \in 1..n
  BY <1>4, <1>7
<1>11. CASE id # 0
  <2>1. call = id /\ id \in Int /\ unpaired1 = unpaired
    BY <1>3, <1>6, <1>11 DEF call, unpaired1
  <2>2. \A i \in 1..p : \E j \in 1..(w - 1) : ids[open1[j]] = 0 /\ unpaired[i] = calls[open1[j]]
    <3>1. ASSUME NEW i \in 1..p
          PROVE  \E j \in 1..(w - 1) : ids[open1[j]] = 0 /\ unpaired[i] = calls[open1[j]]
      <4>1. PICK a \in 1..w : ids[open[a]] = 0 /\ unpaired[i] = calls[open[a]]
        BY <1>4
      <4>2. a # k
        BY <1>11, <4>1
      <4>3. PICK j \in 1..(w - 1) : open1[j] = open[a]
        BY <1>8, <4>2
      <4>. QED
        BY <4>1, <4>3
    <3>. QED
      BY <3>1
  <2>3. \A j \in 1..(w - 1) : ids[open1[j]] = 0 => \E i \in 1..p : unpaired[i] = calls[open1[j]]
    <3>1. ASSUME NEW j \in 1..(w - 1), ids[open1[j]] = 0
          PROVE  \E i \in 1..p : unpaired[i] = calls[open1[j]]
      <4>1. PICK a \in 1..w : open1[j] = open[a]
        BY <1>7
      <4>. QED
        BY <1>4, <3>1, <4>1
    <3>. QED
      BY <3>1
  <2>4. Waiting(ids, calls, unpaired1, open1)
    BY <1>1, <1>2, <1>4, <1>9, <1>10, <2>1, <2>2, <2>3 DEF Waiting, p, n
  <2>. QED
    BY <1>1, <1>5, <1>6, <1>11, <2>1, <2>4, ResultAdded DEF open1, unpaired1, call
<1>12. CASE id = 0
  <2>1. PICK top \in 1..p : unpaired[top] = call
    BY <1>1, <1>4, <1>12 DEF call
  <2>2. unpaired # <<>> /\ 1 \in 1..p
    BY <1>1, <2>1 DEF p
  <2>3. /\ unpaired1 \in Seq(Int) /\ Len(unpaired1) = p - 1
        /\ \A i \in 1..(p - 1) : unpaired1[i] = unpaired[i + 1]
        /\ Head(unpaired) = unpaired[1]
    BY <1>1, <1>12, <2>2, HeadTailProperties DEF unpaired1, p
  <2>4. \A i \in 1..p : unpaired[i] \in Int
    BY <1>1, ElementOfSeq DEF p
  (* The first that waits is the first of those without an id. *)
  <2>5. unpaired[1] = call
    <3>1. PICK a \in 1..w : ids[open[a]] = 0 /\ unpaired[1] = calls[open[a]]
      BY <1>4, <2>2
    <3>2. ~(a < k)
      BY <1>1, <1>12, <3>1
    <3>3. CASE a = k
      BY <3>1, <3>3 DEF call
    <3>4. CASE a > k
      <4>1. open[k] < open[a] /\ open[a] \in 1..n
        BY <1>1, <1>4, <3>4
      <4>2. call > unpaired[1]
        BY <1>3, <1>6, <1>12, <3>1, <4>1 DEF call
      <4>3. ASSUME top # 1 PROVE unpaired[1] > call
        <5>1. 1 < top /\ 1 \in 1..Len(unpaired) /\ top \in 1..Len(unpaired)
          BY <1>1, <2>1, <2>2, <4>3 DEF p
        <5>. QED
          BY <1>4, <2>1, <5>1 DEF Falls
      <4>. QED
        BY <1>6, <2>1, <2>2, <2>4, <4>2, <4>3
    <3>. QED
      BY <1>1, <3>2, <3>3, <3>4
  <2>6. \A i \in 1..(p - 1) : \E j \in 1..(w - 1) :
          ids[open1[j]] = 0 /\ unpaired1[i] = calls[open1[j]]
    <3>1. ASSUME NEW i \in 1..(p - 1)
          PROVE  \E j \in 1..(w - 1) : ids[open1[j]] = 0 /\ unpaired1[i] = calls[open1[j]]
      <4>1. i + 1 \in 1..p /\ 1 < i + 1
        BY <1>1
      <4>2. PICK a \in 1..w : ids[open[a]] = 0 /\ unpaired[i + 1] = calls[open[a]]
        BY <1>4, <4>1
      <4>3. unpaired[1] > unpaired[i + 1]
        BY <1>4, <2>2, <4>1 DEF Falls, p
      <4>4. a # k
        BY <1>6, <2>5, <4>2, <4>3 DEF call
      <4>5. PICK j \in 1..(w - 1) : open1[j] = open[a]
        BY <1>8, <4>4
      <4>. QED
        BY <2>3, <4>2, <4>5
    <3>. QED
      BY <3>1
  <2>7. \A j \in 1..(w - 1) :
          ids[open1[j]] = 0 => \E i \in 1..(p - 1) : unpaired1[i] = calls[open1[j]]
    <3>1. ASSUME NEW j \in 1..(w - 1), ids[open1[j]] = 0
          PROVE  \E i \in 1..(p - 1) : unpaired1[i] = calls[open1[j]]
      <4>1. PICK a \in 1..w : a # k /\ open1[j] = open[a]
        BY <1>7
      <4>2. PICK b \in 1..p : unpaired[b] = calls[open[a]]
        BY <1>4, <3>1, <4>1
      <4>3. calls[open[a]] # call
        <5>1. open[a] \in 1..n /\ ids[open[a]] = 0 /\ calls[open[a]] \in Int
          BY <1>3, <1>4, <3>1, <4>1
        <5>2. open[a] < open[k] \/ open[k] < open[a]
          BY <1>1, <1>4, <4>1
        <5>3. calls[open[a]] > call \/ call > calls[open[a]]
          BY <1>3, <1>6, <1>12, <5>1, <5>2 DEF call
        <5>. QED
          BY <1>6, <5>1, <5>3
      <4>4. b # 1
        BY <2>5, <4>2, <4>3
      <4>5. b - 1 \in 1..(p - 1) /\ (b - 1) + 1 = b
        BY <1>1, <4>4
      <4>6. unpaired1[b - 1] = unpaired[b]
        BY <2>3, <4>5
      <4>. QED
        BY <4>1, <4>2, <4>5, <4>6
    <3>. QED
      BY <3>1
  <2>8. Falls(unpaired1)
    <3>1. ASSUME NEW i \in 1..(p - 1), NEW j \in 1..(p - 1), i < j
          PROVE  unpaired1[i] > unpaired1[j]
      <4>1. i + 1 \in 1..p /\ j + 1 \in 1..p /\ i + 1 < j + 1
        BY <1>1, <3>1
      <4>. QED
        BY <1>4, <2>3, <4>1 DEF Falls, p
    <3>. QED
      BY <2>3, <3>1 DEF Falls
  <2>9. Waiting(ids, calls, unpaired1, open1)
    BY <1>2, <1>9, <1>10, <2>3, <2>6, <2>7, <2>8 DEF Waiting, n
  <2>. QED
    BY <1>1, <1>5, <1>6, <1>12, <2>2, <2>3, <2>5, <2>9, ResultAdded DEF open1, unpaired1, call
<1>. QED
  BY <1>11, <1>12

(* A list of parts that is one longer. *)
LEMMA FlattenLonger ==
  ASSUME NEW T, NEW n \in Nat, NEW f \in [1..n -> Seq(T)], NEW g \in [1..(n + 1) -> Seq(T)],
         \A k \in 1..n : g[k] = f[k]
  PROVE  /\ FlattenSeq(g) = FlattenSeq(f) \o g[n + 1]
         /\ FlattenSeq(f) \in Seq(T) /\ FlattenSeq(g) \in Seq(T)
<1>. DEFINE h == Append(f, g[n + 1])
<1>1. f \in Seq(Seq(T)) /\ Len(f) = n /\ g \in Seq(Seq(T)) /\ Len(g) = n + 1
      /\ g[n + 1] \in Seq(T)
  OBVIOUS
<1>2. /\ h \in Seq(Seq(T)) /\ Len(h) = n + 1 /\ h[n + 1] = g[n + 1]
      /\ \A k \in 1..n : h[k] = f[k]
  BY <1>1, AppendProperties
<1>3. \A k \in 1..(n + 1) : k \in 1..n \/ k = n + 1
  OBVIOUS
<1>. HIDE DEF h
<1>4. \A k \in 1..(n + 1) : g[k] = h[k]
  BY <1>2, <1>3
<1>5. g = h
  <2>1. Len(g) = Len(h) /\ \A k \in 1..Len(g) : g[k] = h[k]
    BY <1>1, <1>2, <1>4
  <2>. QED
    BY <1>1, <1>2, <2>1, SeqEqual
<1>6. FlattenSeq(h) = FlattenSeq(f) \o g[n + 1] /\ FlattenSeq(f) \in Seq(T)
  BY <1>1, FlattenAppend DEF h
<1>7. FlattenSeq(f) \o g[n + 1] \in Seq(T)
  <2>. DEFINE a == FlattenSeq(f)
              b == g[n + 1]
  <2>1. a \in Seq(T) /\ b \in Seq(T)
    BY <1>1, <1>6
  <2>. HIDE DEF a, b
  <2>2. a \o b \in Seq(T)
    BY <2>1, ConcatProperties
  <2>. QED
    BY <2>2 DEF a, b
<1>. QED
  BY <1>5, <1>6, <1>7

Item == [type : {"user", "assistant", "function_call", "function_call_output"},
         val : Seq(Int)]

LEMMA ItemAdded ==
  ASSUME NEW made \in Seq(Item), NEW item \in Item, NEW type
  PROVE  /\ IdsOf(Append(made, item), type)
              = IF item.type = type THEN IdsOf(made, type) \o item.val ELSE IdsOf(made, type)
         /\ IdsOf(made, type) \in Seq(Int)
<1>. DEFINE n == Len(made)
            longer == Append(made, item)
            f == [k \in DOMAIN made |-> IF made[k].type = type THEN made[k].val ELSE <<>>]
            g == [k \in DOMAIN longer |-> IF longer[k].type = type THEN longer[k].val ELSE <<>>]
<1>1. /\ n \in Nat /\ Len(longer) = n + 1 /\ longer[n + 1] = item /\ longer \in Seq(Item)
      /\ \A k \in 1..n : longer[k] = made[k]
  BY LenProperties, AppendProperties
<1>2. DOMAIN made = 1..n /\ DOMAIN longer = 1..(n + 1)
  BY <1>1, LenProperties
<1>3. /\ \A k \in 1..n : made[k] \in Item
      /\ \A k \in 1..(n + 1) : longer[k] \in Item
  BY <1>1, ElementOfSeq
<1>. HIDE DEF longer, n
<1>4. \A it \in Item : it.val \in Seq(Int)
  BY DEF Item
<1>5. <<>> \in Seq(Int)
  BY EmptySeq
<1>6. f \in [1..n -> Seq(Int)] /\ g \in [1..(n + 1) -> Seq(Int)]
  BY <1>2, <1>3, <1>4, <1>5
<1>7. /\ \A k \in 1..n : g[k] = f[k]
      /\ g[n + 1] = IF item.type = type THEN item.val ELSE <<>>
  BY <1>1, <1>2
<1>8. IdsOf(made, type) = FlattenSeq(f) /\ IdsOf(longer, type) = FlattenSeq(g)
  BY DEF IdsOf
<1>. HIDE DEF f, g
<1>9. /\ FlattenSeq(g) = FlattenSeq(f) \o g[n + 1]
      /\ FlattenSeq(f) \in Seq(Int)
  BY <1>1, <1>6, <1>7, FlattenLonger
<1>10. FlattenSeq(f) \o <<>> = FlattenSeq(f)
  <2>. DEFINE a == FlattenSeq(f)
  <2>1. a \in Seq(Int)
    BY <1>9
  <2>. HIDE DEF a
  <2>2. a \o <<>> = a
    BY <2>1, ConcatEmptySeq
  <2>. QED
    BY <2>2 DEF a
<1>. QED
  BY <1>7, <1>8, <1>9, <1>10 DEF longer

LEMMA NoItem == ASSUME NEW type PROVE IdsOf(<<>>, type) = <<>>
<1>1. [k \in DOMAIN <<>> |-> IF <<>>[k].type = type THEN <<>>[k].val ELSE <<>>] = <<>>
  OBVIOUS
<1>. QED
  BY <1>1, FlattenNone DEF IdsOf

(* A message of a client: its own ids are numbers from 1, 0 is none. *)
Spoken == [role : Role, text : Seq(Int), calls : Seq(Nat), id : Nat]

LEMMA MessageAdded ==
  ASSUME NEW ms \in Seq(Spoken), NEW m \in Spoken
  PROVE  Ids(Append(ms, m)) = Ids(ms) \o m.calls /\ Ids(ms) \in Seq(Nat)
<1>. DEFINE n == Len(ms)
            longer == Append(ms, m)
            f == [k \in DOMAIN ms |-> ms[k].calls]
            g == [k \in DOMAIN longer |-> longer[k].calls]
<1>1. /\ n \in Nat /\ Len(longer) = n + 1 /\ longer[n + 1] = m /\ longer \in Seq(Spoken)
      /\ \A k \in 1..n : longer[k] = ms[k]
  BY LenProperties, AppendProperties
<1>2. DOMAIN ms = 1..n /\ DOMAIN longer = 1..(n + 1)
  BY <1>1, LenProperties
<1>3. /\ \A k \in 1..n : ms[k] \in Spoken
      /\ \A k \in 1..(n + 1) : longer[k] \in Spoken
  BY <1>1, ElementOfSeq
<1>. HIDE DEF longer, n
<1>4. \A it \in Spoken : it.calls \in Seq(Nat)
  BY DEF Spoken
<1>6. f \in [1..n -> Seq(Nat)] /\ g \in [1..(n + 1) -> Seq(Nat)]
  BY <1>2, <1>3, <1>4
<1>7. /\ \A k \in 1..n : g[k] = f[k]
      /\ g[n + 1] = m.calls
  BY <1>1, <1>2
<1>8. Ids(ms) = FlattenSeq(f) /\ Ids(longer) = FlattenSeq(g)
  BY DEF Ids
<1>. HIDE DEF f, g
<1>9. /\ FlattenSeq(g) = FlattenSeq(f) \o g[n + 1]
      /\ FlattenSeq(f) \in Seq(Nat)
  BY <1>1, <1>6, <1>7, FlattenLonger
<1>. QED
  BY <1>7, <1>8, <1>9 DEF longer

LEMMA NoMessage == Ids(<<>>) = <<>>
<1>1. [k \in DOMAIN <<>> |-> <<>>[k].calls] = <<>>
  OBVIOUS
<1>. QED
  BY <1>1, FlattenNone DEF Ids

--------------------------------------------------------------------------------
(* What the Responses API is told of a conversation. *)
OutSoFar == [instructions : Seq(Int), input : Seq(Item), minted : Nat, unpaired : Seq(Int)]

Paired(out, ids, open, links) ==
  /\ out \in OutSoFar
  /\ CallsTold(ids, IdsOf(out.input, "function_call"), out.minted)
  /\ Waiting(ids, IdsOf(out.input, "function_call"), out.unpaired, open)
  /\ ResultsTold(IdsOf(out.input, "function_call"), IdsOf(out.input, "function_call_output"), links)

LEMMA TextPaired ==
  ASSUME NEW out, NEW ids, NEW open, NEW links, Paired(out, ids, open, links), NEW text \in Seq(Int)
  PROVE  /\ \A role \in {"user", "assistant"} :
              Paired([out EXCEPT !.input = Append(@, InputItem(role, text))], ids, open, links)
         /\ Paired([out EXCEPT !.instructions = @ \o text], ids, open, links)
<1>1. ASSUME NEW role \in {"user", "assistant"}
      PROVE  Paired([out EXCEPT !.input = Append(@, InputItem(role, text))], ids, open, links)
  <2>. DEFINE item == InputItem(role, text)
              next == [out EXCEPT !.input = Append(@, item)]
  <2>1. /\ item \in Item /\ item.type = role /\ out.input \in Seq(Item) /\ out \in OutSoFar
    <3>1. out \in OutSoFar
      BY DEF Paired
    <3>2. item \in Item /\ item.type = role
      BY DEF InputItem, Item
    <3>3. out.input \in Seq(Item)
      BY <3>1 DEF OutSoFar
    <3>. QED
      BY <3>1, <3>2, <3>3
  <2>2. Append(out.input, item) \in Seq(Item)
    BY <2>1, AppendProperties
  <2>3. /\ next \in OutSoFar /\ next.input = Append(out.input, item)
        /\ next.minted = out.minted /\ next.unpaired = out.unpaired
    BY <2>1, <2>2 DEF OutSoFar
  <2>. HIDE DEF next, item
  <2>4. \A type \in {"function_call", "function_call_output"} :
          IdsOf(next.input, type) = IdsOf(out.input, type)
    BY <2>1, <2>3, ItemAdded
  <2>5. Paired(next, ids, open, links)
    BY <2>3, <2>4 DEF Paired
  <2>. QED
    BY <2>5 DEF next, item
<1>2. Paired([out EXCEPT !.instructions = @ \o text], ids, open, links)
  <2>. DEFINE next == [out EXCEPT !.instructions = @ \o text]
  <2>1. out \in OutSoFar /\ out.instructions \in Seq(Int)
    BY DEF Paired, OutSoFar
  <2>2. out.instructions \o text \in Seq(Int)
    BY <2>1, ConcatProperties
  <2>3. /\ next \in OutSoFar /\ next.input = out.input
        /\ next.minted = out.minted /\ next.unpaired = out.unpaired
    BY <2>1, <2>2 DEF OutSoFar
  <2>. HIDE DEF next
  <2>4. Paired(next, ids, open, links)
    BY <2>3 DEF Paired
  <2>. QED
    BY <2>4 DEF next
<1>. QED
  BY <1>1, <1>2

LEMMA CallPaired ==
  ASSUME NEW out, NEW ids, NEW open, NEW links, Paired(out, ids, open, links),
         NEW id \in {0, Len(ids) + 1}
  PROVE  Paired(CodexCall(out, id), Append(ids, id), Append(open, Len(ids) + 1), links)
<1>. DEFINE call == IF id = 0 THEN Mint(out) ELSE id
            item == InputItem("function_call", <<call>>)
            next == CodexCall(out, id)
            calls == IdsOf(out.input, "function_call")
            outputs == IdsOf(out.input, "function_call_output")
<1>1. /\ CallsTold(ids, calls, out.minted) /\ Waiting(ids, calls, out.unpaired, open)
      /\ ResultsTold(calls, outputs, links) /\ out \in OutSoFar
  BY DEF Paired
<1>2. /\ out.input \in Seq(Item) /\ out.minted \in Nat /\ out.unpaired \in Seq(Int)
  BY <1>1 DEF OutSoFar
<1>3. ids \in Seq(Nat) /\ Len(ids) \in Nat
  BY <1>1, LenProperties DEF CallsTold
<1>4. id \in Nat /\ call \in Int /\ call = IF id = 0 THEN -(out.minted + 1) ELSE id
  BY <1>2, <1>3 DEF Mint
<1>5. <<call>> \in Seq(Int)
  BY <1>4
<1>6. item \in Item /\ item.type = "function_call" /\ item.val = <<call>>
  BY <1>5 DEF InputItem, Item
<1>. HIDE DEF call
<1>7. Append(out.input, item) \in Seq(Item) /\ Append(out.unpaired, call) \in Seq(Int)
  BY <1>2, <1>4, <1>6, AppendProperties
<1>8. /\ next.input = Append(out.input, item)
      /\ next.minted = IF id = 0 THEN out.minted + 1 ELSE out.minted
      /\ next.unpaired = IF id = 0 THEN Append(out.unpaired, call) ELSE out.unpaired
      /\ next \in OutSoFar
  <2>1. CASE id = 0
    <3>1. call = Mint(out)
      BY <2>1 DEF call
    <3>2. next = [out EXCEPT !.input = Append(@, item), !.minted = @ + 1,
                             !.unpaired = Append(@, call)]
      BY <2>1, <3>1 DEF CodexCall
    <3>. HIDE DEF next, item
    <3>3. next = [instructions |-> out.instructions, input |-> Append(out.input, item),
                  minted |-> out.minted + 1, unpaired |-> Append(out.unpaired, call)]
      BY <1>1, <3>2 DEF OutSoFar
    <3>4. out.instructions \in Seq(Int) /\ out.minted + 1 \in Nat
      BY <1>1, <1>2 DEF OutSoFar
    <3>5. next \in OutSoFar
      BY <1>7, <3>3, <3>4 DEF OutSoFar
    <3>. QED
      BY <2>1, <3>3, <3>5
  <2>2. CASE id # 0
    <3>1. call = id
      BY <2>2 DEF call
    <3>2. next = [out EXCEPT !.input = Append(@, item)]
      BY <2>2, <3>1 DEF CodexCall
    <3>. HIDE DEF next, item
    <3>. QED
      BY <1>1, <1>2, <1>7, <2>2, <3>2 DEF OutSoFar
  <2>. QED
    BY <2>1, <2>2
<1>. HIDE DEF next, item, calls, outputs
<1>9. /\ IdsOf(next.input, "function_call") = calls \o <<call>>
      /\ IdsOf(next.input, "function_call_output") = outputs
  <2>1. IdsOf(Append(out.input, item), "function_call") = calls \o <<call>>
    BY <1>2, <1>6, ItemAdded DEF calls
  <2>2. IdsOf(Append(out.input, item), "function_call_output") = outputs
    BY <1>2, <1>6, ItemAdded DEF outputs
  <2>. QED
    BY <1>8, <2>1, <2>2
<1>10. calls \o <<call>> = Append(calls, call)
  <2>1. calls \in Seq(Int)
    BY <1>1 DEF CallsTold
  <2>2. \A s \in Seq(Int) : s \o <<call>> = Append(s, call)
    BY <1>4
  <2>. QED
    BY <2>1, <2>2
<1>11. \A k \in 1..Len(open) : open[k] <= Len(ids)
  <2>1. \A k \in 1..Len(open) : open[k] \in 1..Len(ids)
    BY <1>1 DEF Waiting
  <2>. QED
    BY <1>3, <2>1
<1>12. /\ CallsTold(Append(ids, id), Append(calls, call), next.minted)
       /\ Waiting(Append(ids, id), Append(calls, call), next.unpaired, Append(open, Len(ids) + 1))
       /\ ResultsTold(Append(calls, call), outputs, links)
  <2>1. /\ CallsTold(Append(ids, id), Append(calls, call),
                     IF id = 0 THEN out.minted + 1 ELSE out.minted)
        /\ Waiting(Append(ids, id), Append(calls, call),
                   IF id = 0 THEN Append(out.unpaired, call) ELSE out.unpaired,
                   Append(open, Len(ids) + 1))
        /\ ResultsTold(Append(calls, call), outputs, links)
    <3>. DEFINE minted == out.minted
                unpaired == out.unpaired
    <3>1. /\ CallsTold(ids, calls, minted) /\ Waiting(ids, calls, unpaired, open)
          /\ call = IF id = 0 THEN -(minted + 1) ELSE id
      BY <1>1, <1>4
    <3>. HIDE DEF minted, unpaired
    <3>2. /\ CallsTold(Append(ids, id), Append(calls, call), IF id = 0 THEN minted + 1 ELSE minted)
          /\ Waiting(Append(ids, id), Append(calls, call),
                     IF id = 0 THEN Append(unpaired, call) ELSE unpaired,
                     Append(open, Len(ids) + 1))
          /\ ResultsTold(Append(calls, call), outputs, links)
      BY <1>1, <1>11, <3>1, CallAdded
    <3>. QED
      BY <3>2 DEF minted, unpaired
  <2>. QED
    BY <1>8, <2>1
<1>13. Paired(next, Append(ids, id), Append(open, Len(ids) + 1), links)
  BY <1>8, <1>9, <1>10, <1>12 DEF Paired
<1>. QED
  BY <1>13 DEF next

LEMMA CallsPairedAll ==
  ASSUME NEW out, NEW ids, NEW links, Paired(out, ids, <<>>, links),
         NEW calls \in Seq(Nat), \A k \in 1..Len(calls) : calls[k] \in {0, Len(ids) + k}
  PROVE  Paired(CodexCalls(out, calls)[Len(calls)], ids \o calls,
                [k \in 1..Len(calls) |-> Len(ids) + k], links)
<1>. DEFINE n == Len(calls)
            before == Len(ids)
            F(k) == [j \in 1..(before + k) |-> IF j <= before THEN ids[j] ELSE calls[j - before]]
            O(k) == [j \in 1..k |-> before + j]
            T == {k \in 0..n : Paired(CodexCalls(out, calls)[k], F(k), O(k), links)}
<1>1. /\ n \in Nat /\ \A k \in 1..n : calls[k] \in Nat
      /\ ids \in Seq(Nat) /\ before \in Nat /\ \A k \in 1..before : ids[k] \in Nat
  BY LenProperties, ElementOfSeq DEF Paired, CallsTold
<1>2. /\ CodexCalls(out, calls)[0] = out
      /\ \A k \in 1..n : CodexCalls(out, calls)[k] = CodexCall(CodexCalls(out, calls)[k - 1], calls[k])
  BY <1>1, CallsEach
<1>3. \A k \in 1..n : calls[k] \in {0, before + k}
  OBVIOUS
<1>. HIDE DEF n, before
<1>4. ASSUME NEW k \in 0..n
      PROVE  /\ F(k) \in Seq(Nat) /\ Len(F(k)) = before + k
             /\ \A j \in 1..(before + k) : F(k)[j] = IF j <= before THEN ids[j] ELSE calls[j - before]
  <2>1. \A j \in 1..(before + k) : ~(j <= before) => j - before \in 1..n
    BY <1>1
  <2>2. \A j \in 1..(before + k) : j <= before => j \in 1..before
    BY <1>1
  <2>3. F(k) \in [1..(before + k) -> Nat]
    BY <1>1, <2>1, <2>2
  <2>4. before + k \in Nat
    BY <1>1
  <2>. QED
    BY <2>3, <2>4
<1>5. ASSUME NEW k \in 0..n
      PROVE  O(k) \in Seq(Nat) /\ Len(O(k)) = k /\ \A j \in 1..k : O(k)[j] = before + j
  BY <1>1
<1>6. F(0) = ids
  <2>1. 0 \in 0..n /\ before + 0 = before /\ \A j \in 1..before : j <= before
    BY <1>1
  <2>2. Len(F(0)) = Len(ids) /\ \A j \in 1..Len(F(0)) : F(0)[j] = ids[j]
    BY <1>4, <2>1 DEF before
  <2>3. F(0) \in Seq(Nat)
    BY <1>4, <2>1
  <2>. HIDE DEF F
  <2>. QED
    BY <1>1, <2>2, <2>3, SeqEqual
<1>7. O(0) = <<>>
  OBVIOUS
<1>8. F(n) = ids \o calls
  <2>1. n \in 0..n
    BY <1>1
  <2>2. /\ ids \o calls \in Seq(Nat) /\ Len(ids \o calls) = before + n
        /\ \A j \in 1..(before + n) : (ids \o calls)[j] = IF j <= before THEN ids[j] ELSE calls[j - before]
    BY <1>1, ConcatProperties DEF before, n
  <2>3. /\ F(n) \in Seq(Nat) /\ Len(F(n)) = before + n
        /\ \A j \in 1..(before + n) : F(n)[j] = IF j <= before THEN ids[j] ELSE calls[j - before]
    BY <1>4, <2>1
  <2>. HIDE DEF F
  <2>4. \A j \in 1..Len(F(n)) : F(n)[j] = (ids \o calls)[j]
    BY <2>2, <2>3
  <2>. QED
    BY <2>2, <2>3, <2>4, SeqEqual
<1>9. ASSUME NEW k \in 0..(n - 1)
      PROVE  F(k + 1) = Append(F(k), calls[k + 1]) /\ O(k + 1) = Append(O(k), before + k + 1)
  <2>1. k \in 0..n /\ k + 1 \in 0..n /\ k + 1 \in 1..n /\ k \in Nat
    BY <1>1
  <2>2. /\ F(k) \in Seq(Nat) /\ Len(F(k)) = before + k
        /\ \A j \in 1..(before + k) : F(k)[j] = IF j <= before THEN ids[j] ELSE calls[j - before]
    BY <1>4, <2>1
  <2>3. /\ F(k + 1) \in Seq(Nat) /\ Len(F(k + 1)) = before + (k + 1)
        /\ \A j \in 1..(before + (k + 1)) :
             F(k + 1)[j] = IF j <= before THEN ids[j] ELSE calls[j - before]
    BY <1>4, <2>1
  <2>4. /\ O(k) \in Seq(Nat) /\ Len(O(k)) = k /\ \A j \in 1..k : O(k)[j] = before + j
        /\ O(k + 1) \in Seq(Nat) /\ Len(O(k + 1)) = k + 1
        /\ \A j \in 1..(k + 1) : O(k + 1)[j] = before + j
    BY <1>5, <2>1
  <2>. HIDE DEF F, O
  <2>5. calls[k + 1] \in Nat /\ before + k + 1 \in Nat /\ before + k \in Nat
    BY <1>1, <2>1
  <2>6. F(k + 1) = Append(F(k), calls[k + 1])
    <3>. DEFINE g == Append(F(k), calls[k + 1])
    <3>1. /\ g \in Seq(Nat) /\ Len(g) = (before + k) + 1 /\ g[(before + k) + 1] = calls[k + 1]
          /\ \A j \in 1..(before + k) : g[j] = F(k)[j]
      BY <2>2, <2>5, AppendProperties
    <3>. HIDE DEF g
    <3>2. ASSUME NEW j \in 1..(before + (k + 1)) PROVE F(k + 1)[j] = g[j]
      <4>1. CASE j \in 1..(before + k)
        BY <2>2, <2>3, <3>1, <4>1
      <4>2. CASE j = (before + k) + 1
        <5>1. ~(j <= before) /\ j - before = k + 1
          BY <1>1, <2>1, <4>2
        <5>. QED
          BY <2>3, <3>1, <4>2, <5>1
      <4>3. j \in 1..(before + k) \/ j = (before + k) + 1
        BY <1>1, <2>1
      <4>. QED
        BY <4>1, <4>2, <4>3
    <3>3. Len(g) = Len(F(k + 1)) /\ \A j \in 1..Len(F(k + 1)) : F(k + 1)[j] = g[j]
      <4>1. (before + k) + 1 = before + (k + 1)
        BY <1>1, <2>1
      <4>. QED
        BY <2>3, <3>1, <3>2, <4>1
    <3>4. F(k + 1) = g
      BY <2>3, <3>1, <3>3, SeqEqual
    <3>. QED
      BY <3>4 DEF g
  <2>7. O(k + 1) = Append(O(k), before + k + 1)
    <3>. DEFINE g == Append(O(k), before + k + 1)
    <3>1. /\ g \in Seq(Nat) /\ Len(g) = k + 1 /\ g[k + 1] = before + k + 1
          /\ \A j \in 1..k : g[j] = O(k)[j]
      BY <2>4, <2>5, AppendProperties
    <3>. HIDE DEF g
    <3>2. ASSUME NEW j \in 1..(k + 1) PROVE O(k + 1)[j] = g[j]
      <4>1. CASE j \in 1..k
        BY <2>4, <3>1, <4>1
      <4>2. CASE j = k + 1
        BY <1>1, <2>1, <2>4, <3>1, <4>2
      <4>3. j \in 1..k \/ j = k + 1
        BY <2>1
      <4>. QED
        BY <4>1, <4>2, <4>3
    <3>3. Len(g) = Len(O(k + 1)) /\ \A j \in 1..Len(O(k + 1)) : O(k + 1)[j] = g[j]
      BY <2>4, <3>1, <3>2
    <3>4. O(k + 1) = g
      BY <2>4, <3>1, <3>3, SeqEqual
    <3>. QED
      BY <3>4 DEF g
  <2>. QED
    BY <2>6, <2>7
<1>10. 0 \in T
  <2>1. Paired(CodexCalls(out, calls)[0], F(0), O(0), links)
    BY <1>2, <1>6, <1>7
  <2>2. 0 \in 0..n
    BY <1>1
  <2>. QED
    BY <2>1, <2>2
<1>11. ASSUME NEW k \in 0..(n - 1), k \in T PROVE k + 1 \in T
  <2>1. k + 1 \in 0..n /\ k + 1 \in 1..n /\ k \in 0..n /\ (k + 1) - 1 = k
    BY <1>1
  <2>2. Len(F(k)) = before + k
    BY <1>4, <2>1
  <2>3. Paired(CodexCalls(out, calls)[k], F(k), O(k), links)
    BY <1>11
  <2>4. F(k + 1) = Append(F(k), calls[k + 1]) /\ O(k + 1) = Append(O(k), before + k + 1)
    BY <1>9
  <2>. HIDE DEF F, O
  <2>5. CodexCalls(out, calls)[k + 1] = CodexCall(CodexCalls(out, calls)[k], calls[k + 1])
    BY <1>2, <2>1
  <2>6. calls[k + 1] \in {0, Len(F(k)) + 1} /\ Len(F(k)) + 1 = before + k + 1
    BY <1>1, <1>3, <2>1, <2>2
  <2>7. Paired(CodexCall(CodexCalls(out, calls)[k], calls[k + 1]), Append(F(k), calls[k + 1]),
               Append(O(k), Len(F(k)) + 1), links)
    BY <2>3, <2>6, CallPaired
  <2>. QED
    BY <2>1, <2>4, <2>5, <2>6, <2>7
<1>12. 0..n \subseteq T
  <2>. HIDE DEF T
  <2>. QED
    BY <1>1, <1>10, <1>11, Induct
<1>13. n \in T
  <2>1. n \in 0..n
    BY <1>1
  <2>. HIDE DEF T
  <2>. QED
    BY <1>12, <2>1
<1>14. Paired(CodexCalls(out, calls)[n], F(n), O(n), links)
  BY <1>13
<1>. QED
  BY <1>8, <1>14 DEF n, before

LEMMA ResultPaired ==
  ASSUME NEW out, NEW ids, NEW open, NEW links, Paired(out, ids, open, links),
         NEW k \in 1..Len(open), NEW id, id = ids[open[k]],
         id = 0 => \A j \in 1..(k - 1) : ids[open[j]] # 0
  PROVE  Paired(CodexResult(out, id), ids, RemoveAt(open, k), Append(links, open[k]))
<1>. DEFINE answer == IF id = 0 THEN Head(out.unpaired) ELSE id
            item == InputItem("function_call_output", <<answer>>)
            next == CodexResult(out, id)
            calls == IdsOf(out.input, "function_call")
            outputs == IdsOf(out.input, "function_call_output")
<1>1. /\ CallsTold(ids, calls, out.minted) /\ Waiting(ids, calls, out.unpaired, open)
      /\ ResultsTold(calls, outputs, links) /\ out \in OutSoFar
  BY DEF Paired
<1>2. /\ out.input \in Seq(Item) /\ out.minted \in Nat /\ out.unpaired \in Seq(Int)
  BY <1>1 DEF OutSoFar
<1>3. /\ id = 0 => out.unpaired # <<>>
      /\ Waiting(ids, calls, IF id = 0 THEN Tail(out.unpaired) ELSE out.unpaired, RemoveAt(open, k))
      /\ ResultsTold(calls, Append(outputs, answer), Append(links, open[k]))
  BY <1>1, CallAnswered
<1>4. id \in Nat
  <2>1. ids \in Seq(Nat) /\ open[k] \in 1..Len(ids)
    BY <1>1 DEF CallsTold, Waiting
  <2>. QED
    BY <2>1, ElementOfSeq
<1>5. answer \in Int /\ (id = 0 => Tail(out.unpaired) \in Seq(Int))
  BY <1>2, <1>3, <1>4, HeadTailProperties
<1>6. <<answer>> \in Seq(Int)
  BY <1>5
<1>7. item \in Item /\ item.type = "function_call_output" /\ item.val = <<answer>>
  BY <1>6 DEF InputItem, Item
<1>8. Append(out.input, item) \in Seq(Item)
  BY <1>2, <1>7, AppendProperties
<1>9. /\ next.input = Append(out.input, item)
      /\ next.minted = out.minted
      /\ next.unpaired = IF id = 0 THEN Tail(out.unpaired) ELSE out.unpaired
      /\ next \in OutSoFar
  <2>1. CASE id = 0
    <3>1. next = [[out EXCEPT !.input = Append(@, item)] EXCEPT !.unpaired = Tail(@)]
      BY <1>3, <2>1 DEF CodexResult
    <3>. HIDE DEF next, item, answer
    <3>. QED
      BY <1>1, <1>2, <1>5, <1>8, <2>1, <3>1 DEF OutSoFar
  <2>2. CASE id # 0
    <3>2. next = [out EXCEPT !.input = Append(@, item)]
      BY <2>2 DEF CodexResult
    <3>. HIDE DEF next, item, answer
    <3>. QED
      BY <1>1, <1>2, <1>8, <2>2, <3>2 DEF OutSoFar
  <2>. QED
    BY <2>1, <2>2
<1>. HIDE DEF next, item, calls, outputs, answer
<1>10. /\ IdsOf(next.input, "function_call") = calls
       /\ IdsOf(next.input, "function_call_output") = outputs \o <<answer>>
  <2>1. IdsOf(Append(out.input, item), "function_call") = calls
    BY <1>2, <1>7, ItemAdded DEF calls
  <2>2. IdsOf(Append(out.input, item), "function_call_output") = outputs \o <<answer>>
    BY <1>2, <1>7, ItemAdded DEF outputs
  <2>. QED
    BY <1>9, <2>1, <2>2
<1>11. outputs \o <<answer>> = Append(outputs, answer)
  <2>1. outputs \in Seq(Int)
    BY <1>1 DEF ResultsTold
  <2>2. \A s \in Seq(Int) : s \o <<answer>> = Append(s, answer)
    BY <1>5
  <2>. QED
    BY <2>1, <2>2
<1>12. Paired(next, ids, RemoveAt(open, k), Append(links, open[k]))
  BY <1>1, <1>3, <1>9, <1>10, <1>11 DEF Paired
<1>. QED
  BY <1>12 DEF next

LEMMA CodexGoesOn ==
  ASSUME NEW ms \in Seq(Spoken), NEW m \in Spoken
  PROVE  CodexRequest(Append(ms, m)) = CodexMessage(CodexRequest(ms), m)
<1>1. Len(Append(ms, m)) = Len(ms) + 1
  BY LenProperties, AppendProperties
<1>. QED
  BY <1>1, CodexLast DEF CodexRequest

Conversation == [messages : Seq(Spoken), links : Seq(Nat), open : Seq(Nat)]

PairsInv ==
  Paired(CodexRequest(input.messages), Ids(input.messages), input.open, input.links)

LEMMA StartPaired == ASSUME input = Opening PROVE PairsInv /\ input \in Conversation
<1>1. input.messages = <<>> /\ input.links = <<>> /\ input.open = <<>>
  BY DEF Opening
<1>2. CodexRequest(<<>>) = NothingAsked
  <2>1. Len(<<>>) = 0 /\ 0 \in Nat
    OBVIOUS
  <2>2. CodexMade(<<>>)[0] = NothingAsked
    BY <2>1, CodexEach
  <2>. QED
    BY <2>1, <2>2 DEF CodexRequest
<1>3. Paired(NothingAsked, <<>>, <<>>, <<>>)
  <2>1. NothingAsked \in OutSoFar /\ NothingAsked.input = <<>> /\ NothingAsked.minted = 0
        /\ NothingAsked.unpaired = <<>>
    BY EmptySeq DEF NothingAsked, OutSoFar
  <2>2. CallsTold(<<>>, <<>>, 0)
    BY EmptySeq DEF CallsTold
  <2>3. Waiting(<<>>, <<>>, <<>>, <<>>)
    BY EmptySeq DEF Waiting, Falls
  <2>4. ResultsTold(<<>>, <<>>, <<>>)
    BY EmptySeq DEF ResultsTold
  <2>. QED
    BY <2>1, <2>2, <2>3, <2>4, NoItem DEF Paired
<1>4. input \in Conversation
  <2>1. <<>> \in Seq(Spoken) /\ <<>> \in Seq(Nat)
    BY EmptySeq
  <2>. QED
    BY <2>1 DEF Conversation, Opening
<1>. QED
  BY <1>1, <1>2, <1>3, <1>4, NoMessage DEF PairsInv

(* What a client says. *)
LEMMA SaidTexts == ASSUME input \in Conversation, NEW text \in Texts \cup {Prefix}
                   PROVE  text \in Seq(Int)
<1>1. input.messages \in Seq(Spoken)
  BY DEF Conversation
<1>2. Len(input.messages) \in Nat
  BY <1>1, LenProperties
<1>3. <<>> \in Seq(Int) /\ <<0>> \in Seq(Int) /\ <<Len(input.messages) + 1>> \in Seq(Int)
  BY <1>2, EmptySeq
<1>. QED
  BY <1>3 DEF Texts, Prefix

LEMMA IsSpoken ==
  ASSUME NEW role \in Role, NEW text \in Seq(Int), NEW calls \in Seq(Nat), NEW id \in Nat
  PROVE  /\ Message(role, text, calls, id) \in Spoken
         /\ Message(role, text, calls, id).role = role /\ Message(role, text, calls, id).text = text
         /\ Message(role, text, calls, id).calls = calls /\ Message(role, text, calls, id).id = id
BY DEF Message, Spoken

LEMMA SayPairsInv ==
  ASSUME PairsInv, input \in Conversation, Say
  PROVE  PairsInv' /\ input' \in Conversation
<1>1. PICK role \in {"system", "user"}, text \in Texts \cup {Prefix} :
        input' = [input EXCEPT !.messages = Append(@, Message(role, text, <<>>, 0))]
  BY DEF Say
<1>. DEFINE m == Message(role, text, <<>>, 0)
<1>2. text \in Seq(Int) /\ role \in Role /\ <<>> \in Seq(Nat)
  BY SaidTexts, EmptySeq DEF Role
<1>3. m \in Spoken /\ m.role = role /\ m.text = text /\ m.calls = <<>>
  BY <1>2 DEF Message, Spoken
<1>4. input.messages \in Seq(Spoken)
  BY DEF Conversation
<1>5. Append(input.messages, m) \in Seq(Spoken)
  BY <1>3, <1>4, AppendProperties
<1>6. /\ input'.messages = Append(input.messages, m) /\ input'.open = input.open
      /\ input'.links = input.links /\ input' \in Conversation
  BY <1>1, <1>5 DEF Conversation
<1>7. Ids(input'.messages) = Ids(input.messages)
  <2>1. Ids(Append(input.messages, m)) = Ids(input.messages) \o <<>> /\ Ids(input.messages) \in Seq(Nat)
    BY <1>3, <1>4, MessageAdded
  <2>2. \A s \in Seq(Nat) : s \o <<>> = s
    BY ConcatEmptySeq
  <2>. QED
    BY <1>6, <2>1, <2>2
<1>. DEFINE out == CodexRequest(input.messages)
<1>8. CodexRequest(input'.messages) = CodexMessage(out, m)
  BY <1>3, <1>4, <1>6, CodexGoesOn
<1>9. Paired(out, Ids(input.messages), input.open, input.links)
  BY DEF PairsInv
<1>. HIDE DEF out, m
<1>10. Paired(CodexMessage(out, m), Ids(input.messages), input.open, input.links)
  <2>. DEFINE ids == Ids(input.messages)
              open == input.open
              links == input.links
  <2>0. Paired(out, ids, open, links)
    BY <1>9
  <2>. HIDE DEF ids, open, links
  <2>1. CASE role = "system"
    <3>1. CodexMessage(out, m) = [out EXCEPT !.instructions = @ \o text]
      BY <1>3, <2>1 DEF CodexMessage
    <3>2. Paired([out EXCEPT !.instructions = @ \o text], ids, open, links)
      BY <1>2, <2>0, TextPaired
    <3>. QED
      BY <3>1, <3>2 DEF ids, open, links
  <2>2. CASE role = "user"
    <3>1. CodexMessage(out, m) = [out EXCEPT !.input = Append(@, InputItem("user", text))]
      BY <1>3, <2>2 DEF CodexMessage
    <3>2. Paired([out EXCEPT !.input = Append(@, InputItem("user", text))], ids, open, links)
      BY <1>2, <2>0, TextPaired
    <3>. QED
      BY <3>1, <3>2 DEF ids, open, links
  <2>. QED
    BY <2>1, <2>2
<1>. QED
  BY <1>6, <1>7, <1>8, <1>10 DEF PairsInv

LEMMA AnswerPairsInv ==
  ASSUME PairsInv, input \in Conversation, Answer
  PROVE  PairsInv' /\ input' \in Conversation
<1>. DEFINE before == Len(Ids(input.messages))
<1>0. PICK text \in Texts, n \in 0..MaxCalls :
       \E given \in SUBSET (1..n) :
         input' = [input EXCEPT
          !.messages = Append(@, Message("assistant", text,
                                         [k \in 1..n |-> IF k \in given THEN before + k ELSE 0], 0)),
          !.open = [k \in 1..n |-> before + k]]
  BY DEF Answer
<1>1. PICK given \in SUBSET (1..n) :
        input' = [input EXCEPT
          !.messages = Append(@, Message("assistant", text,
                                         [k \in 1..n |-> IF k \in given THEN before + k ELSE 0], 0)),
          !.open = [k \in 1..n |-> before + k]]
  BY <1>0
<1>. DEFINE calls == [k \in 1..n |-> IF k \in given THEN before + k ELSE 0]
            open == [k \in 1..n |-> before + k]
            m == Message("assistant", text, calls, 0)
            out == CodexRequest(input.messages)
            ids == Ids(input.messages)
<1>2. input.messages \in Seq(Spoken) /\ input.open = <<>> /\ n \in Nat
  BY DEF Conversation, Answer
<1>3. ids \in Seq(Nat) /\ before \in Nat
  <2>1. text \in Seq(Int)
    BY SaidTexts
  <2>2. Message("assistant", text, <<>>, 0) \in Spoken
    BY <2>1, EmptySeq, IsSpoken DEF Role
  <2>3. ids \in Seq(Nat)
    BY <1>2, <2>2, MessageAdded
  <2>. HIDE DEF ids
  <2>4. Len(ids) \in Nat
    BY <2>3, LenProperties
  <2>. QED
    BY <2>3, <2>4 DEF ids
<1>. HIDE DEF before
<1>4. /\ calls \in Seq(Nat) /\ Len(calls) = n
      /\ \A k \in 1..n : calls[k] \in {0, before + k}
  BY <1>2, <1>3
<1>5. open \in Seq(Nat)
  BY <1>2, <1>3
<1>. HIDE DEF calls
<1>6. text \in Seq(Int)
  BY SaidTexts
<1>7. m \in Spoken /\ m.role = "assistant" /\ m.text = text /\ m.calls = calls
  BY <1>4, <1>6, IsSpoken DEF Role
<1>8. Append(input.messages, m) \in Seq(Spoken)
  BY <1>2, <1>7, AppendProperties
<1>9. input' = [input EXCEPT !.messages = Append(@, m), !.open = open]
  BY <1>1 DEF calls
<1>. HIDE DEF m, open
<1>10. /\ input'.messages = Append(input.messages, m) /\ input'.open = open
       /\ input'.links = input.links /\ input' \in Conversation
  BY <1>5, <1>8, <1>9 DEF Conversation
<1>11. Ids(input'.messages) = ids \o calls
  BY <1>2, <1>7, <1>10, MessageAdded
<1>12. CodexRequest(input'.messages) = CodexMessage(out, m)
  BY <1>2, <1>7, <1>10, CodexGoesOn
<1>13. Paired(out, ids, <<>>, input.links)
  BY <1>2 DEF PairsInv
<1>14. before = Len(ids)
  BY DEF before
<1>. HIDE DEF out, ids
<1>. DEFINE said == IF text = <<>> THEN out
                    ELSE [out EXCEPT !.input = Append(@, InputItem("assistant", text))]
<1>15. CodexMessage(out, m) = CodexCalls(said, calls)[Len(calls)]
  BY <1>7 DEF CodexMessage
<1>16. Paired(said, ids, <<>>, input.links)
  BY <1>6, <1>13, TextPaired
<1>. HIDE DEF said
<1>17. Paired(CodexCalls(said, calls)[Len(calls)], ids \o calls,
              [k \in 1..Len(calls) |-> Len(ids) + k], input.links)
  BY <1>4, <1>14, <1>16, CallsPairedAll
<1>18. [k \in 1..Len(calls) |-> Len(ids) + k] = open
  BY <1>4, <1>14 DEF open
<1>. QED
  BY <1>10, <1>11, <1>12, <1>15, <1>17, <1>18 DEF PairsInv

LEMMA ReturnPairsInv ==
  ASSUME PairsInv, input \in Conversation, Return
  PROVE  PairsInv' /\ input' \in Conversation
<1>. DEFINE ids == Ids(input.messages)
            out == CodexRequest(input.messages)
<1>1. PICK k \in DOMAIN input.open :
        /\ ids[input.open[k]] = 0 => \A j \in 1..(k - 1) : ids[input.open[j]] # 0
        /\ input' = [messages |-> Append(input.messages,
                                         Message("tool", <<>>, <<>>, ids[input.open[k]])),
                     links |-> Append(input.links, input.open[k]),
                     open |-> RemoveAt(input.open, k)]
  BY DEF Return
<1>. DEFINE id == ids[input.open[k]]
            m == Message("tool", <<>>, <<>>, id)
<1>2. input.messages \in Seq(Spoken) /\ input.open \in Seq(Nat) /\ input.links \in Seq(Nat)
  BY DEF Conversation
<1>3. k \in 1..Len(input.open)
  BY <1>1, <1>2, LenProperties
<1>4. Paired(out, ids, input.open, input.links)
  BY DEF PairsInv
<1>5. id \in Nat /\ input.open[k] \in Nat
  <2>1. ids \in Seq(Nat) /\ input.open[k] \in 1..Len(ids)
    BY <1>3, <1>4 DEF Paired, CallsTold, Waiting
  <2>. HIDE DEF ids
  <2>2. ids[input.open[k]] \in Nat /\ input.open[k] \in Nat
    BY <2>1, ElementOfSeq
  <2>. QED
    BY <2>2
<1>. HIDE DEF id, ids
<1>6. m \in Spoken /\ m.role = "tool" /\ m.calls = <<>> /\ m.id = id
  <2>1. <<>> \in Seq(Nat) /\ <<>> \in Seq(Int) /\ "tool" \in Role
    BY EmptySeq DEF Role
  <2>. QED
    BY <1>5, <2>1 DEF Message, Spoken
<1>7. /\ Append(input.messages, m) \in Seq(Spoken) /\ Append(input.links, input.open[k]) \in Seq(Nat)
      /\ RemoveAt(input.open, k) \in Seq(Nat)
  BY <1>2, <1>3, <1>5, <1>6, AppendProperties, Removed
<1>8. /\ input'.messages = Append(input.messages, m) /\ input'.open = RemoveAt(input.open, k)
      /\ input'.links = Append(input.links, input.open[k]) /\ input' \in Conversation
  BY <1>1, <1>7 DEF Conversation, id
<1>. HIDE DEF m
<1>9. Ids(input'.messages) = ids
  <2>1. Ids(Append(input.messages, m)) = ids \o <<>> /\ ids \in Seq(Nat)
    BY <1>2, <1>6, MessageAdded DEF ids
  <2>2. \A s \in Seq(Nat) : s \o <<>> = s
    BY ConcatEmptySeq
  <2>. QED
    BY <1>8, <2>1, <2>2
<1>10. CodexRequest(input'.messages) = CodexMessage(out, m)
  BY <1>2, <1>6, <1>8, CodexGoesOn
<1>. HIDE DEF out
<1>11. CodexMessage(out, m) = CodexResult(out, id)
  BY <1>6 DEF CodexMessage
<1>12. Paired(CodexResult(out, id), ids, RemoveAt(input.open, k), Append(input.links, input.open[k]))
  <2>. DEFINE open == input.open
              links == input.links
  <2>1. Paired(out, ids, open, links) /\ k \in 1..Len(open) /\ id = ids[open[k]]
        /\ (id = 0 => \A j \in 1..(k - 1) : ids[open[j]] # 0)
    BY <1>1, <1>3, <1>4 DEF id
  <2>. HIDE DEF open, links
  <2>2. Paired(CodexResult(out, id), ids, RemoveAt(open, k), Append(links, open[k]))
    BY <2>1, ResultPaired
  <2>. QED
    BY <2>2 DEF open, links
<1>. QED
  BY <1>8, <1>9, <1>10, <1>11, <1>12 DEF PairsInv

LEMMA PairsRight == ASSUME PairsInv PROVE CallsPaired
<1>. DEFINE out == CodexRequest(input.messages)
            calls == IdsOf(out.input, "function_call")
            outputs == IdsOf(out.input, "function_call_output")
            ids == Ids(input.messages)
            links == input.links
<1>1. /\ CallsTold(ids, calls, out.minted) /\ ResultsTold(calls, outputs, links)
      /\ out \in OutSoFar
  BY DEF PairsInv, Paired
<1>. HIDE DEF calls, outputs, ids, links
<1>2. /\ ids \in Seq(Nat) /\ calls \in Seq(Int) /\ Len(calls) = Len(ids)
      /\ \A k \in 1..Len(ids) : /\ ids[k] \in {0, k}
                                /\ ids[k] # 0 => calls[k] = k
                                /\ ids[k] = 0 => calls[k] < 0
      /\ \A i, j \in 1..Len(ids) : i < j /\ ids[i] = 0 /\ ids[j] = 0 => calls[i] > calls[j]
  BY <1>1 DEF CallsTold
<1>3. /\ Len(ids) \in Nat /\ DOMAIN calls = 1..Len(ids)
      /\ \A k \in 1..Len(ids) : calls[k] \in Int
  BY <1>2, LenProperties, ElementOfSeq
<1>4. ASSUME NEW i \in 1..Len(ids), NEW j \in 1..Len(ids), i < j PROVE calls[i] # calls[j]
  <2>1. ids[i] = 0 \/ calls[i] = i
    BY <1>2
  <2>2. ids[j] = 0 \/ calls[j] = j
    BY <1>2
  <2>3. CASE ids[i] = 0 /\ ids[j] = 0
    <3>1. calls[i] > calls[j]
      BY <1>2, <1>4, <2>3
    <3>. QED
      BY <1>3, <3>1
  <2>4. CASE ids[i] # 0 \/ ids[j] # 0
    BY <1>2, <1>3, <1>4, <2>1, <2>2, <2>4
  <2>. QED
    BY <2>3, <2>4
<1>5. IsInjective(calls)
  <2>1. ASSUME NEW i \in DOMAIN calls, NEW j \in DOMAIN calls, calls[i] = calls[j] PROVE i = j
    <3>1. i \in 1..Len(ids) /\ j \in 1..Len(ids)
      BY <1>3
    <3>2. ~(i < j) /\ ~(j < i)
      BY <1>4, <2>1, <3>1
    <3>. QED
      BY <1>3, <3>1, <3>2
  <2>. QED
    BY <2>1 DEF IsInjective
<1>6. \A k \in DOMAIN calls : calls[k] # 0
  <2>1. ASSUME NEW k \in 1..Len(ids) PROVE calls[k] # 0
    BY <1>2, <1>3
  <2>. QED
    BY <1>3, <2>1
<1>7. /\ Len(outputs) = Len(links) /\ DOMAIN outputs = 1..Len(links)
      /\ \A k \in 1..Len(links) : outputs[k] = calls[links[k]]
  BY <1>1, LenProperties DEF ResultsTold
<1>. QED
  BY <1>2, <1>5, <1>6, <1>7 DEF CallsPaired, calls, outputs, ids, links

BlockSet == [type : {"text", "tool_use", "tool_result"}, val : Seq(Int)]
Turn == [role : {"user", "assistant"}, content : Seq(BlockSet)]

Contents(turns) == [k \in DOMAIN turns |-> turns[k].content]

LEMMA IsBlock ==
  ASSUME NEW type \in {"text", "tool_use", "tool_result"}, NEW val \in Seq(Int)
  PROVE  Block(type, val) \in BlockSet /\ Block(type, val).type = type
BY DEF Block, BlockSet

LEMMA TextIsBlocks ==
  ASSUME NEW text \in Seq(Int)
  PROVE  /\ TextBlocks(text) \in Seq(BlockSet)
         /\ \A i \in 1..Len(TextBlocks(text)) : TextBlocks(text)[i].type = "text"
<1>. DEFINE block == Block("text", text)
<1>1. block \in BlockSet /\ block.type = "text"
  BY IsBlock
<1>2. TextBlocks(text) = IF text = <<>> THEN <<>> ELSE <<block>>
  BY DEF TextBlocks
<1>. HIDE DEF block
<1>3. <<block>> \in Seq(BlockSet) /\ Len(<<block>>) = 1 /\ <<block>>[1] = block
  BY <1>1
<1>4. <<>> \in Seq(BlockSet) /\ Len(<<>>) = 0
  BY EmptySeq
<1>5. CASE text = <<>>
  BY <1>2, <1>4, <1>5
<1>6. CASE text # <<>>
  BY <1>1, <1>2, <1>3, <1>6
<1>. QED
  BY <1>5, <1>6

LEMMA CallsAreBlocks ==
  ASSUME NEW calls \in Seq(Nat)
  PROVE  /\ CallBlocks(calls) \in Seq(BlockSet) /\ Len(CallBlocks(calls)) = Len(calls)
         /\ \A i \in 1..Len(calls) : CallBlocks(calls)[i].type = "tool_use"
<1>. DEFINE n == Len(calls)
<1>1. n \in Nat /\ \A k \in 1..n : calls[k] \in Nat
  BY LenProperties, ElementOfSeq
<1>. HIDE DEF n
<1>2. \A k \in 1..n : Block("tool_use", <<calls[k]>>) \in BlockSet
                      /\ Block("tool_use", <<calls[k]>>).type = "tool_use"
  <2>1. ASSUME NEW k \in 1..n
        PROVE  Block("tool_use", <<calls[k]>>) \in BlockSet
               /\ Block("tool_use", <<calls[k]>>).type = "tool_use"
    <3>1. <<calls[k]>> \in Seq(Int)
      BY <1>1
    <3>. QED
      BY <3>1, IsBlock
  <2>. QED
    BY <2>1
<1>3. CallBlocks(calls) = [k \in 1..n |-> Block("tool_use", <<calls[k]>>)]
  BY DEF CallBlocks, n
<1>. QED
  BY <1>1, <1>2, <1>3 DEF n

LEMMA SpokenBlocks ==
  ASSUME NEW m \in Spoken
  PROVE  SaidBy(m) \in Seq(BlockSet)
<1>1. m.role \in Role /\ m.text \in Seq(Int) /\ m.calls \in Seq(Nat) /\ m.id \in Nat
  BY DEF Spoken
<1>2. TextBlocks(m.text) \in Seq(BlockSet) /\ CallBlocks(m.calls) \in Seq(BlockSet)
  BY <1>1, TextIsBlocks, CallsAreBlocks
<1>3. TextBlocks(m.text) \o CallBlocks(m.calls) \in Seq(BlockSet)
  <2>1. \A a, b \in Seq(BlockSet) : a \o b \in Seq(BlockSet)
    BY ConcatProperties
  <2>. QED
    BY <1>2, <2>1
<1>4. <<Block("tool_result", <<m.id>>)>> \in Seq(BlockSet)
  <2>1. <<m.id>> \in Seq(Int)
    BY <1>1
  <2>2. Block("tool_result", <<m.id>>) \in BlockSet
    BY <2>1, IsBlock
  <2>. QED
    BY <2>2
<1>5. <<>> \in Seq(BlockSet)
  BY EmptySeq
<1>6. CASE m.role = "system"
  BY <1>5, <1>6 DEF SaidBy
<1>7. CASE m.role = "tool"
  BY <1>4, <1>7 DEF SaidBy
<1>8. CASE m.role = "assistant"
  BY <1>3, <1>8 DEF SaidBy
<1>9. CASE m.role = "user"
  BY <1>2, <1>9 DEF SaidBy
<1>. QED
  BY <1>1, <1>6, <1>7, <1>8, <1>9 DEF Role

Said(ms) == FlattenSeq([k \in DOMAIN ms |-> SaidBy(ms[k])])
SystemText(m) == IF m.role = "system" THEN m.text ELSE <<>>
SystemTexts(ms) ==
  FlattenSeq([k \in DOMAIN ms |-> IF ms[k].role = "system" THEN ms[k].text ELSE <<>>])

LEMMA SpokenAdded ==
  ASSUME NEW ms \in Seq(Spoken), NEW m \in Spoken
  PROVE  /\ Said(Append(ms, m)) = Said(ms) \o SaidBy(m) /\ Said(ms) \in Seq(BlockSet)
         /\ SystemTexts(Append(ms, m)) = SystemTexts(ms) \o SystemText(m)
         /\ SystemTexts(ms) \in Seq(Int)
<1>. DEFINE n == Len(ms)
            longer == Append(ms, m)
            f == [k \in DOMAIN ms |-> SaidBy(ms[k])]
            g == [k \in DOMAIN longer |-> SaidBy(longer[k])]
            t == [k \in DOMAIN ms |-> IF ms[k].role = "system" THEN ms[k].text ELSE <<>>]
            u == [k \in DOMAIN longer |-> IF longer[k].role = "system" THEN longer[k].text ELSE <<>>]
<1>1. /\ n \in Nat /\ Len(longer) = n + 1 /\ longer[n + 1] = m /\ longer \in Seq(Spoken)
      /\ \A k \in 1..n : longer[k] = ms[k]
  BY LenProperties, AppendProperties
<1>2. DOMAIN ms = 1..n /\ DOMAIN longer = 1..(n + 1)
  BY <1>1, LenProperties
<1>3. /\ \A k \in 1..n : ms[k] \in Spoken
      /\ \A k \in 1..(n + 1) : longer[k] \in Spoken
  BY <1>1, ElementOfSeq
<1>. HIDE DEF longer, n
<1>4. \A it \in Spoken : SaidBy(it) \in Seq(BlockSet)
  BY SpokenBlocks
<1>5. \A it \in Spoken : it.text \in Seq(Int)
  BY DEF Spoken
<1>6. <<>> \in Seq(Int)
  BY EmptySeq
<1>7. f \in [1..n -> Seq(BlockSet)] /\ g \in [1..(n + 1) -> Seq(BlockSet)]
  BY <1>2, <1>3, <1>4
<1>8. t \in [1..n -> Seq(Int)] /\ u \in [1..(n + 1) -> Seq(Int)]
  BY <1>2, <1>3, <1>5, <1>6
<1>9. /\ \A k \in 1..n : g[k] = f[k]
      /\ g[n + 1] = SaidBy(m)
  BY <1>1, <1>2
<1>10. /\ \A k \in 1..n : u[k] = t[k]
       /\ u[n + 1] = SystemText(m)
  BY <1>1, <1>2 DEF SystemText
<1>11. Said(ms) = FlattenSeq(f) /\ Said(longer) = FlattenSeq(g)
  BY DEF Said
<1>12. SystemTexts(ms) = FlattenSeq(t) /\ SystemTexts(longer) = FlattenSeq(u)
  BY DEF SystemTexts
<1>. HIDE DEF f, g, t, u
<1>13. /\ FlattenSeq(g) = FlattenSeq(f) \o g[n + 1]
       /\ FlattenSeq(f) \in Seq(BlockSet)
  BY <1>1, <1>7, <1>9, FlattenLonger
<1>14. /\ FlattenSeq(u) = FlattenSeq(t) \o u[n + 1]
       /\ FlattenSeq(t) \in Seq(Int)
  BY <1>1, <1>8, <1>10, FlattenLonger
<1>. QED
  BY <1>9, <1>10, <1>11, <1>12, <1>13, <1>14 DEF longer

LEMMA NothingSpoken == Said(<<>>) = <<>> /\ SystemTexts(<<>>) = <<>>
<1>1. [k \in DOMAIN <<>> |-> SaidBy(<<>>[k])] = <<>>
  OBVIOUS
<1>2. [k \in DOMAIN <<>> |-> IF <<>>[k].role = "system" THEN <<>>[k].text ELSE <<>>] = <<>>
  OBVIOUS
<1>. QED
  BY <1>1, <1>2, FlattenNone DEF Said, SystemTexts

(* Blocks are put at the end of the last turn, or make a turn of their own. *)
TurnGrown(turns, role, blocks, p) ==
  /\ blocks # <<>> /\ turns # <<>> /\ turns[Len(turns)].role = role
  /\ p \in Seq(Turn) /\ Len(p) = Len(turns)
  /\ \A k \in 1..(Len(turns) - 1) : p[k] = turns[k]
  /\ p[Len(turns)].role = role
  /\ p[Len(turns)].content = turns[Len(turns)].content \o blocks

TurnBegun(turns, role, blocks, p) ==
  /\ blocks # <<>> /\ (turns # <<>> => turns[Len(turns)].role # role)
  /\ p \in Seq(Turn) /\ Len(p) = Len(turns) + 1
  /\ \A k \in 1..Len(turns) : p[k] = turns[k]
  /\ p[Len(turns) + 1] = [role |-> role, content |-> blocks]

LEMMA Pushed ==
  ASSUME NEW turns \in Seq(Turn), NEW role \in {"user", "assistant"},
         NEW blocks \in Seq(BlockSet), NEW p, p = Push(turns, role, blocks)
  PROVE  /\ \/ blocks = <<>> /\ p = turns
            \/ TurnGrown(turns, role, blocks, p)
            \/ TurnBegun(turns, role, blocks, p)
         /\ FlattenSeq(Contents(p)) = FlattenSeq(Contents(turns)) \o blocks
         /\ FlattenSeq(Contents(turns)) \in Seq(BlockSet)
<1>. DEFINE n == Len(turns)
<1>1. /\ n \in Nat /\ DOMAIN turns = 1..n /\ \A k \in 1..n : turns[k] \in Turn
      /\ turns # <<>> => n > 0
  BY LenProperties, ElementOfSeq, EmptySeq
<1>2. \A t \in Turn : t.content \in Seq(BlockSet) /\ t.role \in {"user", "assistant"}
  BY DEF Turn
<1>3. /\ Contents(turns) \in [1..n -> Seq(BlockSet)] /\ Contents(turns) \in Seq(Seq(BlockSet))
      /\ Len(Contents(turns)) = n
      /\ \A k \in 1..n : Contents(turns)[k] = turns[k].content
  <2>1. Contents(turns) = [k \in 1..n |-> turns[k].content]
    BY <1>1 DEF Contents
  <2>. HIDE DEF n
  <2>2. Contents(turns) \in [1..n -> Seq(BlockSet)]
    BY <1>1, <1>2, <2>1
  <2>. QED
    BY <1>1, <2>1, <2>2
<1>20. FlattenSeq(Contents(turns)) \in Seq(BlockSet)
  <2>. DEFINE c == Contents(turns)
  <2>1. c \in Seq(Seq(BlockSet)) /\ <<>> \in Seq(BlockSet)
    BY <1>3, EmptySeq
  <2>. HIDE DEF c
  <2>2. FlattenSeq(c) \in Seq(BlockSet)
    BY <2>1, FlattenAppend
  <2>. QED
    BY <2>2 DEF c
<1>4. CASE blocks = <<>>
  <2>1. p = turns
    BY <1>4 DEF Push
  <2>. DEFINE all == FlattenSeq(Contents(turns))
  <2>2. all \in Seq(BlockSet)
    BY <1>20
  <2>. HIDE DEF all
  <2>3. all \o blocks = all
    BY <1>4, <2>2, ConcatEmptySeq
  <2>. QED
    BY <1>4, <1>20, <2>1, <2>3 DEF all
<1>5. CASE blocks # <<>> /\ turns # <<>> /\ turns[n].role = role
  <2>. DEFINE last == [turns[n] EXCEPT !.content = @ \o blocks]
  <2>1. n \in 1..n /\ turns[n] \in Turn /\ turns[n].content \in Seq(BlockSet)
    BY <1>1, <1>2, <1>5
  <2>2. turns[n].content \o blocks \in Seq(BlockSet)
    BY <2>1, ConcatProperties
  <2>3. last \in Turn /\ last.content = turns[n].content \o blocks /\ last.role = role
    BY <1>5, <2>1, <2>2 DEF Turn
  <2>4. p = [turns EXCEPT ![n] = last]
    BY <1>5 DEF Push
  <2>. HIDE DEF last, n
  <2>5. /\ p \in Seq(Turn) /\ Len(p) = n
        /\ \A k \in 1..n : p[k] = IF k = n THEN last ELSE turns[k]
    BY <1>1, <2>1, <2>3, <2>4, ExceptSeq DEF n
  <2>6. p[n] = last /\ \A k \in 1..(n - 1) : p[k] = turns[k]
    BY <1>1, <2>1, <2>5
  <2>7. Contents(p) = [Contents(turns) EXCEPT ![n] = @ \o blocks]
    <3>. DEFINE c == Contents(turns)
                d == [c EXCEPT ![n] = @ \o blocks]
    <3>1. DOMAIN p = 1..n
      BY <2>5, LenProperties
    <3>2. Contents(p) = [k \in 1..n |-> p[k].content]
      BY <3>1 DEF Contents
    <3>3. DOMAIN c = 1..n /\ c = [k \in 1..n |-> c[k]]
      BY <1>3
    <3>4. d = [k \in 1..n |-> IF k = n THEN c[n] \o blocks ELSE c[k]]
      BY <3>3
    <3>5. \A k \in 1..n : p[k].content = IF k = n THEN c[n] \o blocks ELSE c[k]
      BY <1>3, <2>1, <2>3, <2>5
    <3>. HIDE DEF c, d
    <3>6. Contents(p) = d
      BY <3>2, <3>4, <3>5
    <3>. QED
      BY <3>6 DEF c, d
  <2>8. Contents(turns) # <<>>
    BY <1>3, <2>1
  <2>9. FlattenSeq(Contents(p)) = FlattenSeq(Contents(turns)) \o blocks
    <3>. DEFINE c == Contents(turns)
    <3>1. c \in Seq(Seq(BlockSet)) /\ c # <<>> /\ Len(c) = n
      BY <1>3, <2>8
    <3>2. Contents(p) = [c EXCEPT ![Len(c)] = @ \o blocks]
      BY <2>7, <3>1
    <3>. HIDE DEF c
    <3>3. FlattenSeq([c EXCEPT ![Len(c)] = @ \o blocks]) = FlattenSeq(c) \o blocks
      BY <3>1, FlattenGrown
    <3>. QED
      BY <3>2, <3>3 DEF c
  <2>. QED
    BY <1>5, <1>20, <2>3, <2>5, <2>6, <2>9 DEF n, TurnGrown
<1>6. CASE blocks # <<>> /\ (turns # <<>> => turns[n].role # role)
  <2>. DEFINE last == [role |-> role, content |-> blocks]
  <2>1. last \in Turn /\ last.content = blocks
    BY DEF Turn
  <2>2. p = Append(turns, last)
    BY <1>6 DEF Push
  <2>. HIDE DEF last, n
  <2>3. /\ p \in Seq(Turn) /\ Len(p) = n + 1 /\ p[n + 1] = last
        /\ \A k \in 1..n : p[k] = turns[k]
    BY <2>1, <2>2, AppendProperties DEF n
  <2>4. DOMAIN p = 1..(n + 1) /\ \A k \in 1..(n + 1) : p[k] \in Turn
    BY <2>3, LenProperties, ElementOfSeq
  <2>5. /\ Contents(p) \in [1..(n + 1) -> Seq(BlockSet)]
        /\ \A k \in 1..n : Contents(p)[k] = Contents(turns)[k]
        /\ Contents(p)[n + 1] = blocks
    <3>1. Contents(p) = [k \in 1..(n + 1) |-> p[k].content]
      BY <2>4 DEF Contents
    <3>2. \A k \in 1..n : k \in 1..(n + 1)
      BY <1>1
    <3>3. n + 1 \in 1..(n + 1)
      BY <1>1
    <3>. QED
      BY <1>2, <1>3, <2>1, <2>3, <2>4, <3>1, <3>2, <3>3
  <2>6. FlattenSeq(Contents(p)) = FlattenSeq(Contents(turns)) \o blocks
    <3>. DEFINE c == Contents(turns)
                d == Contents(p)
    <3>1. c \in [1..n -> Seq(BlockSet)] /\ d \in [1..(n + 1) -> Seq(BlockSet)]
          /\ (\A k \in 1..n : d[k] = c[k]) /\ d[n + 1] = blocks
      BY <1>3, <2>5
    <3>. HIDE DEF c, d
    <3>2. FlattenSeq(d) = FlattenSeq(c) \o d[n + 1]
      BY <1>1, <3>1, FlattenLonger
    <3>. QED
      BY <3>1, <3>2 DEF c, d
  <2>. QED
    BY <1>6, <1>20, <2>3, <2>6 DEF n, last, TurnBegun
<1>. QED
  BY <1>4, <1>5, <1>6

UsesOf(turn) == {i \in DOMAIN turn.content : turn.content[i].type = "tool_use"}

(* The first r blocks of a turn, and no others, are results. *)
Led(turn, r) ==
  /\ r \in 0..Len(turn.content)
  /\ \A i \in 1..Len(turn.content) : turn.content[i].type = "tool_result" <=> i <= r

(* The results of turn k stand first and follow at least as many calls. *)
Follows(turns, k, r) ==
  /\ Led(turns[k], r)
  /\ r > 0 => k > 1 /\ r <= Cardinality(UsesOf(turns[k - 1]))

Alternating(turns) ==
  /\ turns \in Seq(Turn)
  /\ \A k \in 1..Len(turns) : /\ turns[k].content # <<>>
                              /\ k > 1 => turns[k].role # turns[k - 1].role
                              /\ \E r \in Nat : Follows(turns, k, r)

(* w calls wait for their results. *)
Awaited(turns, w) ==
  w > 0 => LET n == Len(turns) IN
           \/ n > 0 /\ turns[n].role = "assistant" /\ w <= Cardinality(UsesOf(turns[n]))
           \/ /\ n > 1 /\ turns[n].role = "user" /\ Led(turns[n], Len(turns[n].content))
              /\ Len(turns[n].content) + w <= Cardinality(UsesOf(turns[n - 1]))

LEMMA UsesFinite ==
  ASSUME NEW turn \in Turn
  PROVE  /\ DOMAIN turn.content = 1..Len(turn.content) /\ Len(turn.content) \in Nat
         /\ IsFiniteSet(UsesOf(turn)) /\ Cardinality(UsesOf(turn)) \in Nat
<1>1. turn.content \in Seq(BlockSet)
  BY DEF Turn
<1>2. DOMAIN turn.content = 1..Len(turn.content) /\ Len(turn.content) \in Nat
  BY <1>1, LenProperties
<1>3. IsFiniteSet(1..Len(turn.content))
  BY <1>2, FS_Interval
<1>4. UsesOf(turn) \subseteq 1..Len(turn.content)
  BY <1>2 DEF UsesOf
<1>5. IsFiniteSet(UsesOf(turn))
  BY <1>3, <1>4, FS_Subset
<1>. QED
  BY <1>2, <1>5, FS_CardinalityType

(* What is no result keeps the turns as they should be. *)
LEMMA OthersPushed ==
  ASSUME NEW turns, Alternating(turns), NEW role \in {"user", "assistant"},
         NEW blocks \in Seq(BlockSet),
         \A i \in 1..Len(blocks) : blocks[i].type # "tool_result"
  PROVE  Alternating(Push(turns, role, blocks))
<1>. DEFINE n == Len(turns)
            p == Push(turns, role, blocks)
<1>1. /\ turns \in Seq(Turn) /\ n \in Nat /\ \A k \in 1..n : turns[k] \in Turn
      /\ \A k \in 1..n : /\ turns[k].content # <<>>
                         /\ k > 1 => turns[k].role # turns[k - 1].role
                         /\ \E r \in Nat : Follows(turns, k, r)
      /\ turns # <<>> => n > 0
      /\ Len(blocks) \in Nat
  BY LenProperties, ElementOfSeq, EmptySeq DEF Alternating
<1>2. PICK q : q = p
  OBVIOUS
<1>3. (blocks = <<>> /\ q = turns) \/ TurnGrown(turns, role, blocks, q) \/ TurnBegun(turns, role, blocks, q)
  BY <1>1, <1>2, Pushed
<1>. HIDE DEF n, p
<1>4. CASE blocks = <<>> /\ q = turns
  BY <1>2, <1>4 DEF p
<1>5. CASE /\ blocks # <<>> /\ turns # <<>> /\ turns[n].role = role
           /\ q \in Seq(Turn) /\ Len(q) = n
           /\ \A k \in 1..(n - 1) : q[k] = turns[k]
           /\ q[n].role = role
           /\ q[n].content = turns[n].content \o blocks
  <2>1. n \in 1..n /\ n > 0 /\ turns[n] \in Turn
    BY <1>1, <1>5
  <2>. DEFINE c == turns[n].content
              d == q[n].content
  <2>2. /\ c \in Seq(BlockSet) /\ Len(c) \in Nat /\ d = c \o blocks
    BY <1>5, <2>1, LenProperties DEF Turn
  <2>3. /\ Len(d) = Len(c) + Len(blocks)
        /\ \A i \in 1..(Len(c) + Len(blocks)) : d[i] = IF i <= Len(c) THEN c[i] ELSE blocks[i - Len(c)]
    BY <2>2, ConcatProperties
  <2>. HIDE DEF c, d
  <2>4. \A r : Led(turns[n], r) => Led(q[n], r)
    <3>1. ASSUME NEW r, Led(turns[n], r) PROVE Led(q[n], r)
      <4>1. /\ r \in 0..Len(c)
            /\ \A i \in 1..Len(c) : c[i].type = "tool_result" <=> i <= r
        BY <3>1 DEF Led, c
      <4>2. r \in 0..Len(d)
        BY <1>1, <2>2, <2>3, <4>1
      <4>3. ASSUME NEW i \in 1..Len(d) PROVE d[i].type = "tool_result" <=> i <= r
        <5>1. CASE i <= Len(c)
          <6>1. i \in 1..Len(c) /\ d[i] = c[i]
            BY <2>2, <2>3, <5>1
          <6>. QED
            BY <4>1, <6>1
        <5>2. CASE ~(i <= Len(c))
          <6>1. i - Len(c) \in 1..Len(blocks) /\ d[i] = blocks[i - Len(c)] /\ ~(i <= r)
            BY <1>1, <2>2, <2>3, <4>1, <5>2
          <6>. QED
            BY <6>1
        <5>. QED
          BY <5>1, <5>2
      <4>. QED
        BY <4>2, <4>3 DEF Led, d
    <3>. QED
      BY <3>1
  <2>5. d # <<>>
    <3>1. Len(blocks) > 0
      BY <1>1, <1>5, EmptySeq
    <3>2. Len(d) # 0
      BY <1>1, <2>2, <2>3, <3>1
    <3>. QED
      BY <3>2, EmptySeq
  <2>6. ASSUME NEW k \in 1..n
        PROVE  /\ q[k].content # <<>>
               /\ k > 1 => q[k].role # q[k - 1].role
               /\ \E r \in Nat : Follows(q, k, r)
    <3>1. PICK r \in Nat : Follows(turns, k, r)
      BY <1>1
    <3>2. k > 1 => q[k - 1] = turns[k - 1] /\ turns[k].role # turns[k - 1].role
      <4>1. k > 1 => k - 1 \in 1..(n - 1)
        BY <1>1
      <4>. QED
        BY <1>1, <1>5, <4>1
    <3>3. q[k].role = turns[k].role /\ (Led(turns[k], r) => Led(q[k], r)) /\ q[k].content # <<>>
      <4>1. CASE k = n
        BY <1>5, <2>4, <2>5, <4>1 DEF d
      <4>2. CASE k # n
        <5>1. k \in 1..(n - 1)
          BY <1>1, <4>2
        <5>. QED
          BY <1>1, <1>5, <5>1
      <4>. QED
        BY <4>1, <4>2
    <3>4. Follows(q, k, r)
      BY <3>1, <3>2, <3>3 DEF Follows
    <3>. QED
      BY <3>2, <3>3, <3>4
  <2>. QED
    BY <1>2, <1>5, <2>6 DEF Alternating, p
<1>6. CASE /\ blocks # <<>> /\ (turns # <<>> => turns[n].role # role)
           /\ q \in Seq(Turn) /\ Len(q) = n + 1
           /\ \A k \in 1..n : q[k] = turns[k]
           /\ q[n + 1] = [role |-> role, content |-> blocks]
  <2>1. ASSUME NEW k \in 1..n
        PROVE  /\ q[k].content # <<>>
               /\ k > 1 => q[k].role # q[k - 1].role
               /\ \E r \in Nat : Follows(q, k, r)
    <3>1. PICK r \in Nat : Follows(turns, k, r)
      BY <1>1
    <3>2. q[k] = turns[k] /\ (k > 1 => q[k - 1] = turns[k - 1])
      <4>1. k > 1 => k - 1 \in 1..n
        BY <1>1
      <4>. QED
        BY <1>6, <4>1
    <3>3. Follows(q, k, r)
      BY <3>1, <3>2 DEF Follows
    <3>. QED
      BY <1>1, <3>2, <3>3
  <2>2. /\ q[n + 1].content # <<>>
        /\ n + 1 > 1 => q[n + 1].role # q[(n + 1) - 1].role
        /\ \E r \in Nat : Follows(q, n + 1, r)
    <3>1. q[n + 1].content = blocks /\ q[n + 1].role = role
      BY <1>6
    <3>2. Led(q[n + 1], 0)
      <4>1. \A i \in 1..Len(blocks) : blocks[i].type = "tool_result" <=> i <= 0
        BY <1>1
      <4>2. 0 \in 0..Len(blocks)
        BY <1>1
      <4>. QED
        BY <3>1, <4>1, <4>2 DEF Led
    <3>3. Follows(q, n + 1, 0)
      BY <3>2 DEF Follows
    <3>4. n + 1 > 1 => n \in 1..n /\ (n + 1) - 1 = n /\ turns # <<>>
      <4>1. n > 0 => turns # <<>>
        BY EmptySeq DEF n
      <4>. QED
        BY <1>1, <4>1
    <3>5. n + 1 > 1 => q[n + 1].role # q[(n + 1) - 1].role
      BY <1>6, <3>1, <3>4
    <3>6. 0 \in Nat
      OBVIOUS
    <3>. QED
      BY <1>6, <3>1, <3>3, <3>5, <3>6
  <2>3. \A k \in 1..(n + 1) : k \in 1..n \/ k = n + 1
    BY <1>1
  <2>. QED
    BY <1>2, <1>6, <2>1, <2>2, <2>3 DEF Alternating, p
<1>. QED
  BY <1>3, <1>4, <1>5, <1>6 DEF n, TurnGrown, TurnBegun

(* The calls of an assistant's message wait at the end of its turn. *)
LEMMA CallsPushed ==
  ASSUME NEW turns \in Seq(Turn), NEW blocks \in Seq(BlockSet), NEW w \in Nat,
         w <= Len(blocks),
         \A i \in (Len(blocks) - w + 1)..Len(blocks) : blocks[i].type = "tool_use"
  PROVE  Awaited(Push(turns, "assistant", blocks), w)
<1>. DEFINE p == Push(turns, "assistant", blocks)
            b == Len(blocks)
<1>1. Len(turns) \in Nat /\ b \in Nat /\ (turns # <<>> => Len(turns) > 0)
      /\ (blocks = <<>> => b = 0)
  BY LenProperties, EmptySeq
<1>2. PICK q : q = p
  OBVIOUS
<1>3. "assistant" \in {"user", "assistant"}
  OBVIOUS
<1>4. SUFFICES ASSUME w > 0 PROVE Awaited(q, w)
  BY <1>2 DEF Awaited
<1>5. blocks # <<>>
  BY <1>1, <1>4
<1>6. \/ /\ turns # <<>> /\ turns[Len(turns)].role = "assistant"
         /\ q \in Seq(Turn) /\ Len(q) = Len(turns)
         /\ q[Len(turns)].role = "assistant"
         /\ q[Len(turns)].content = turns[Len(turns)].content \o blocks
      \/ /\ q \in Seq(Turn) /\ Len(q) = Len(turns) + 1
         /\ q[Len(turns) + 1] = [role |-> "assistant", content |-> blocks]
  <2>1. TurnGrown(turns, "assistant", blocks, q) \/ TurnBegun(turns, "assistant", blocks, q)
    BY <1>2, <1>3, <1>5, Pushed
  <2>. QED
    BY <2>1 DEF TurnGrown, TurnBegun
<1>. HIDE DEF p, b
<1>7. PICK n \in Nat, c \in Seq(BlockSet) :
        /\ n > 0 /\ Len(q) = n /\ q[n] \in Turn /\ q[n].role = "assistant"
        /\ q[n].content = c \o blocks
  <2>1. CASE /\ turns # <<>> /\ turns[Len(turns)].role = "assistant"
             /\ q \in Seq(Turn) /\ Len(q) = Len(turns)
             /\ q[Len(turns)].role = "assistant"
             /\ q[Len(turns)].content = turns[Len(turns)].content \o blocks
    <3>1. Len(turns) > 0 /\ Len(turns) \in 1..Len(turns)
      BY <1>1, <2>1
    <3>2. turns[Len(turns)] \in Turn /\ q[Len(turns)] \in Turn
      BY <2>1, <3>1, ElementOfSeq
    <3>3. turns[Len(turns)].content \in Seq(BlockSet)
      BY <3>2 DEF Turn
    <3>. QED
      BY <1>1, <2>1, <3>1, <3>2, <3>3
  <2>2. CASE /\ q \in Seq(Turn) /\ Len(q) = Len(turns) + 1
             /\ q[Len(turns) + 1] = [role |-> "assistant", content |-> blocks]
    <3>1. /\ <<>> \in Seq(BlockSet) /\ <<>> \o blocks = blocks
      BY EmptySeq, ConcatEmptySeq
    <3>2. Len(turns) + 1 \in 1..(Len(turns) + 1) /\ Len(turns) + 1 \in Nat /\ Len(turns) + 1 > 0
      BY <1>1
    <3>3. q[Len(turns) + 1] \in Turn
      BY <2>2, <3>2, ElementOfSeq
    <3>4. q[Len(turns) + 1].role = "assistant" /\ q[Len(turns) + 1].content = <<>> \o blocks
      BY <2>2, <3>1
    <3>. QED
      BY <2>2, <3>1, <3>2, <3>3, <3>4
  <2>. QED
    BY <1>6, <2>1, <2>2
<1>8. /\ Len(c) \in Nat /\ Len(c \o blocks) = Len(c) + b
      /\ \A i \in 1..(Len(c) + b) : (c \o blocks)[i] = IF i <= Len(c) THEN c[i] ELSE blocks[i - Len(c)]
  BY ConcatProperties, LenProperties DEF b
<1>. DEFINE tail == (Len(c) + b - w + 1)..(Len(c) + b)
<1>9. tail \subseteq UsesOf(q[n])
  <2>1. ASSUME NEW i \in tail PROVE i \in UsesOf(q[n])
    <3>1. /\ i \in 1..(Len(c) + b) /\ ~(i <= Len(c)) /\ i - Len(c) \in (b - w + 1)..b
      BY <1>1, <1>4, <1>8 DEF b
    <3>2. blocks[i - Len(c)].type = "tool_use"
      BY <3>1 DEF b
    <3>3. (c \o blocks)[i].type = "tool_use"
      BY <1>8, <3>1, <3>2
    <3>4. DOMAIN q[n].content = 1..Len(q[n].content)
      BY <1>7, UsesFinite
    <3>5. i \in DOMAIN q[n].content
      BY <1>7, <1>8, <3>1, <3>4
    <3>. QED
      BY <1>7, <3>3, <3>5 DEF UsesOf
  <2>. QED
    BY <2>1
<1>10. Cardinality(tail) = w
  <2>. DEFINE low == Len(c) + b - w + 1
              high == Len(c) + b
  <2>1. low \in Int /\ high \in Int /\ ~(low > high) /\ high - low + 1 = w
    BY <1>1, <1>4, <1>8 DEF b
  <2>2. tail = low..high
    OBVIOUS
  <2>. HIDE DEF low, high, tail
  <2>3. Cardinality(low..high) = IF low > high THEN 0 ELSE high - low + 1
    BY <2>1, FS_Interval
  <2>. QED
    BY <2>1, <2>2, <2>3
<1>. HIDE DEF tail
<1>11. IsFiniteSet(UsesOf(q[n])) /\ Cardinality(UsesOf(q[n])) \in Nat
  BY <1>7, UsesFinite
<1>12. w <= Cardinality(UsesOf(q[n]))
  <2>1. Cardinality(tail) <= Cardinality(UsesOf(q[n]))
    BY <1>9, <1>11, FS_Subset
  <2>. QED
    BY <1>10, <2>1
<1>. QED
  BY <1>7, <1>12 DEF Awaited

(* A result that is awaited goes to the start of the turn after its call's. *)
LEMMA ResultPushed ==
  ASSUME NEW turns, Alternating(turns), NEW w \in Nat, w > 0, Awaited(turns, w),
         NEW block \in BlockSet, block.type = "tool_result"
  PROVE  /\ Alternating(Push(turns, "user", <<block>>))
         /\ Awaited(Push(turns, "user", <<block>>), w - 1)
<1>. DEFINE n == Len(turns)
            role == "user"
            blocks == <<block>>
            p == Push(turns, role, blocks)
<1>1. /\ turns \in Seq(Turn) /\ n \in Nat /\ \A k \in 1..n : turns[k] \in Turn
      /\ \A k \in 1..n : /\ turns[k].content # <<>>
                         /\ k > 1 => turns[k].role # turns[k - 1].role
                         /\ \E r \in Nat : Follows(turns, k, r)
  BY LenProperties, ElementOfSeq DEF Alternating
<1>2. blocks \in Seq(BlockSet) /\ blocks # <<>> /\ Len(blocks) = 1 /\ blocks[1] = block
  OBVIOUS
<1>3. \/ n > 0 /\ turns[n].role = "assistant" /\ w <= Cardinality(UsesOf(turns[n]))
      \/ /\ n > 1 /\ turns[n].role = "user" /\ Led(turns[n], Len(turns[n].content))
         /\ Len(turns[n].content) + w <= Cardinality(UsesOf(turns[n - 1]))
  BY DEF Awaited
<1>4. role \in {"user", "assistant"} /\ role = "user"
  OBVIOUS
<1>. HIDE DEF blocks, role
<1>5. PICK q : q = p
  OBVIOUS
<1>6. TurnGrown(turns, role, blocks, q) \/ TurnBegun(turns, role, blocks, q)
  BY <1>1, <1>2, <1>4, <1>5, Pushed
<1>. HIDE DEF p, n
(* The turns before are as they were. *)
<1>7. ASSUME NEW m \in 0..n, q \in Seq(Turn), Len(q) \in {m, m + 1}, \A k \in 1..m : q[k] = turns[k],
             NEW k \in 1..m
      PROVE  /\ q[k].content # <<>>
             /\ k > 1 => q[k].role # q[k - 1].role
             /\ \E r \in Nat : Follows(q, k, r)
  <2>1. k \in 1..n /\ (k > 1 => k - 1 \in 1..m)
    BY <1>1
  <2>2. q[k] = turns[k] /\ (k > 1 => q[k - 1] = turns[k - 1])
    BY <1>7, <2>1
  <2>3. PICK r \in Nat : Follows(turns, k, r)
    BY <1>1, <2>1
  <2>4. Follows(q, k, r)
    BY <2>2, <2>3 DEF Follows
  <2>. QED
    BY <1>1, <2>1, <2>2, <2>4
<1>8. CASE TurnGrown(turns, role, blocks, q)
  <2>1. /\ q \in Seq(Turn) /\ Len(q) = n /\ \A k \in 1..(n - 1) : q[k] = turns[k]
        /\ q[n].role = "user" /\ turns[n].role = "user"
        /\ q[n].content = turns[n].content \o blocks
    BY <1>4, <1>8 DEF TurnGrown, n
  <2>2. /\ n > 1 /\ Led(turns[n], Len(turns[n].content))
        /\ Len(turns[n].content) + w <= Cardinality(UsesOf(turns[n - 1]))
    BY <1>3, <2>1
  <2>. DEFINE c == turns[n].content
              d == q[n].content
  <2>3. turns[n] \in Turn /\ n - 1 \in 1..(n - 1) /\ n \in 1..n /\ n - 1 \in 0..n /\ n - 1 \in 1..n
    BY <1>1, <2>2
  <2>4. c \in Seq(BlockSet) /\ Len(c) \in Nat
    BY <2>3, LenProperties DEF Turn
  <2>5. /\ Len(d) = Len(c) + 1
        /\ \A i \in 1..(Len(c) + 1) : d[i] = IF i <= Len(c) THEN c[i] ELSE blocks[i - Len(c)]
    <3>1. d = c \o blocks /\ c \in Seq(BlockSet)
      BY <2>1, <2>4
    <3>. HIDE DEF c, d
    <3>2. /\ Len(c \o blocks) = Len(c) + Len(blocks)
          /\ \A i \in 1..(Len(c) + Len(blocks)) :
               (c \o blocks)[i] = IF i <= Len(c) THEN c[i] ELSE blocks[i - Len(c)]
      BY <1>2, <3>1, ConcatProperties
    <3>. QED
      BY <1>2, <3>1, <3>2
  <2>6. Led(turns[n], Len(c)) /\ Len(c) + w <= Cardinality(UsesOf(turns[n - 1]))
    BY <2>2
  <2>. HIDE DEF c, d
  <2>7. Led(q[n], Len(d))
    <3>1. ASSUME NEW i \in 1..Len(d) PROVE d[i].type = "tool_result" /\ i <= Len(d)
      <4>1. CASE i <= Len(c)
        <5>1. i \in 1..Len(c) /\ d[i] = c[i]
          BY <2>4, <2>5, <4>1
        <5>. QED
          BY <2>4, <2>5, <2>6, <4>1, <5>1 DEF Led, c
      <4>2. CASE ~(i <= Len(c))
        <5>1. i - Len(c) = 1 /\ d[i] = blocks[i - Len(c)]
          BY <2>4, <2>5, <4>2
        <5>. QED
          BY <1>2, <5>1
      <4>. QED
        BY <4>1, <4>2
    <3>2. Len(d) \in 0..Len(d)
      BY <2>4, <2>5
    <3>. QED
      BY <3>1, <3>2 DEF Led, d
  <2>8. q[n - 1] = turns[n - 1] /\ q[n].role # q[n - 1].role
    BY <1>1, <2>1, <2>2, <2>3
  <2>9. UsesOf(q[n - 1]) = UsesOf(turns[n - 1]) /\ Cardinality(UsesOf(q[n - 1])) \in Nat
    BY <1>1, <2>3, <2>8, UsesFinite
  <2>10. Len(d) + (w - 1) <= Cardinality(UsesOf(q[n - 1])) /\ Len(d) <= Cardinality(UsesOf(q[n - 1]))
    BY <2>4, <2>5, <2>6, <2>9
  <2>11. Follows(q, n, Len(d)) /\ Len(d) \in Nat /\ q[n].content # <<>>
    <3>1. Len(d) \in Nat /\ Len(d) # 0
      BY <2>4, <2>5
    <3>2. d # <<>>
      BY <3>1, EmptySeq
    <3>. QED
      BY <2>2, <2>7, <2>10, <3>1, <3>2 DEF Follows, d
  <2>12. ASSUME NEW k \in 1..n
         PROVE  /\ q[k].content # <<>>
                /\ k > 1 => q[k].role # q[k - 1].role
                /\ \E r \in Nat : Follows(q, k, r)
    <3>1. CASE k = n
      BY <2>8, <2>11, <3>1
    <3>2. CASE k # n
      <4>1. k \in 1..(n - 1) /\ Len(q) \in {n - 1, (n - 1) + 1}
        BY <1>1, <2>1, <3>2
      <4>. QED
        BY <1>7, <2>1, <2>3, <4>1
    <3>. QED
      BY <3>1, <3>2
  <2>13. Alternating(q)
    BY <2>1, <2>12 DEF Alternating
  <2>14. Awaited(q, w - 1)
    BY <2>1, <2>2, <2>7, <2>10 DEF Awaited, d
  <2>. QED
    BY <1>5, <2>13, <2>14 DEF p, blocks, role
<1>9. CASE TurnBegun(turns, role, blocks, q)
  <2>1. /\ q \in Seq(Turn) /\ Len(q) = n + 1 /\ \A k \in 1..n : q[k] = turns[k]
        /\ q[n + 1] = [role |-> role, content |-> blocks]
        /\ turns # <<>> => turns[n].role # role
    BY <1>9 DEF TurnBegun, n
  <2>2. n > 0 /\ turns # <<>>
    BY <1>1, <1>3, EmptySeq DEF n
  <2>3. turns[n].role = "assistant" /\ w <= Cardinality(UsesOf(turns[n]))
    BY <1>3, <1>4, <2>1, <2>2
  <2>4. n \in 1..n /\ n \in 0..n /\ (n + 1) - 1 = n /\ n + 1 > 1 /\ Len(q) \in {n, n + 1}
    BY <1>1, <2>1, <2>2
  <2>5. q[n] = turns[n] /\ q[n + 1].role = "user" /\ q[n + 1].content = blocks
    BY <1>4, <2>1, <2>4
  <2>6. Led(q[n + 1], 1)
    <3>1. \A i \in 1..1 : blocks[i].type = "tool_result" /\ i <= 1
      BY <1>2
    <3>2. 1 \in 0..1
      OBVIOUS
    <3>. QED
      BY <1>2, <2>5, <3>1, <3>2 DEF Led
  <2>7. Cardinality(UsesOf(turns[n])) \in Nat
    BY <1>1, <2>4, UsesFinite
  <2>8. Follows(q, n + 1, 1)
    BY <2>3, <2>4, <2>5, <2>6, <2>7 DEF Follows
  <2>9. ASSUME NEW k \in 1..(n + 1)
        PROVE  /\ q[k].content # <<>>
               /\ k > 1 => q[k].role # q[k - 1].role
               /\ \E r \in Nat : Follows(q, k, r)
    <3>1. CASE k = n + 1
      <4>1. 1 \in Nat /\ q[k - 1] = turns[n]
        BY <2>4, <2>5, <3>1
      <4>. QED
        BY <1>2, <2>3, <2>5, <2>8, <3>1, <4>1
    <3>2. CASE k # n + 1
      <4>1. k \in 1..n
        BY <1>1, <3>2
      <4>. QED
        BY <1>7, <2>1, <2>4, <4>1
    <3>. QED
      BY <3>1, <3>2
  <2>10. Alternating(q)
    BY <2>1, <2>9 DEF Alternating
  <2>11. Awaited(q, w - 1)
    <3>1. Len(q[n + 1].content) = 1
      BY <1>2, <2>5
    <3>2. 1 + (w - 1) <= Cardinality(UsesOf(q[n]))
      BY <2>3, <2>5, <2>7
    <3>. QED
      BY <2>1, <2>4, <2>5, <2>6, <3>1, <3>2 DEF Awaited
  <2>. QED
    BY <1>5, <2>10, <2>11 DEF p, blocks, role
<1>. QED
  BY <1>6, <1>8, <1>9

TurnsSoFar == [system : Seq(Int), msgs : Seq(Turn)]

(* What the Messages API is told of a conversation in which w calls wait. *)
TurnsTold(out, ms, w) ==
  /\ out \in TurnsSoFar
  /\ out.system = SystemTexts(ms)
  /\ FlattenSeq(Contents(out.msgs)) = Said(ms)
  /\ Alternating(out.msgs)
  /\ Awaited(out.msgs, w)

TurnsInv ==
  TurnsTold(AnthropicMade(input.messages)[Len(input.messages)], input.messages, Len(input.open))

SideOf(m) == IF m.role = "assistant" THEN "assistant" ELSE "user"

LEMMA MessageTold ==
  ASSUME NEW ms \in Seq(Spoken), NEW m \in Spoken, NEW out, NEW w, TurnsTold(out, ms, w),
         NEW next, next = AnthropicMessage(out, m)
  PROVE  /\ next \in TurnsSoFar
         /\ next.system = SystemTexts(Append(ms, m))
         /\ FlattenSeq(Contents(next.msgs)) = Said(Append(ms, m))
         /\ next.msgs = IF m.role = "system" THEN out.msgs
                        ELSE Push(out.msgs, SideOf(m), SaidBy(m))
<1>1. /\ out \in TurnsSoFar /\ out.system = SystemTexts(ms) /\ out.msgs \in Seq(Turn)
      /\ FlattenSeq(Contents(out.msgs)) = Said(ms) /\ out.system \in Seq(Int)
  BY DEF TurnsTold, TurnsSoFar
<1>2. m.role \in Role /\ m.text \in Seq(Int)
  BY DEF Spoken
<1>3. /\ Said(Append(ms, m)) = Said(ms) \o SaidBy(m) /\ Said(ms) \in Seq(BlockSet)
      /\ SystemTexts(Append(ms, m)) = SystemTexts(ms) \o SystemText(m)
      /\ SystemTexts(ms) \in Seq(Int)
  BY SpokenAdded
<1>4. CASE m.role = "system"
  <2>1. next = [out EXCEPT !.system = @ \o m.text]
    BY <1>4 DEF AnthropicMessage
  <2>2. out.system \o m.text \in Seq(Int)
    BY <1>1, <1>2, ConcatProperties
  <2>3. next \in TurnsSoFar /\ next.system = out.system \o m.text /\ next.msgs = out.msgs
    BY <1>1, <2>1, <2>2 DEF TurnsSoFar
  <2>4. SaidBy(m) = <<>> /\ SystemText(m) = m.text
    BY <1>4 DEF SaidBy, SystemText
  <2>5. Said(ms) \o <<>> = Said(ms)
    BY <1>3, ConcatEmptySeq
  <2>. QED
    BY <1>1, <1>3, <1>4, <2>3, <2>4, <2>5
<1>5. CASE m.role # "system"
  <2>. DEFINE p == Push(out.msgs, SideOf(m), SaidBy(m))
  <2>1. next = [out EXCEPT !.msgs = p]
    <3>1. CASE m.role = "tool"
      BY <3>1 DEF AnthropicMessage, SaidBy, SideOf
    <3>2. CASE m.role = "assistant"
      BY <3>2 DEF AnthropicMessage, SaidBy, SideOf
    <3>3. CASE m.role = "user"
      BY <3>3 DEF AnthropicMessage, SaidBy, SideOf
    <3>. QED
      BY <1>2, <1>5, <3>1, <3>2, <3>3 DEF Role
  <2>2. /\ SideOf(m) \in {"user", "assistant"} /\ SaidBy(m) \in Seq(BlockSet)
    BY SpokenBlocks DEF SideOf
  <2>3. p \in Seq(Turn) /\ FlattenSeq(Contents(p)) = Said(ms) \o SaidBy(m)
    <3>. DEFINE turns == out.msgs
                role == SideOf(m)
                blocks == SaidBy(m)
    <3>0. turns \in Seq(Turn) /\ role \in {"user", "assistant"} /\ blocks \in Seq(BlockSet)
          /\ p = Push(turns, role, blocks)
      BY <1>1, <2>2
    <3>. HIDE DEF turns, role, blocks, p
    <3>1. /\ \/ blocks = <<>> /\ p = turns
             \/ TurnGrown(turns, role, blocks, p)
             \/ TurnBegun(turns, role, blocks, p)
          /\ FlattenSeq(Contents(p)) = FlattenSeq(Contents(turns)) \o blocks
      BY <3>0, Pushed
    <3>2. p \in Seq(Turn)
      BY <3>0, <3>1 DEF TurnGrown, TurnBegun
    <3>. QED
      BY <1>1, <3>1, <3>2 DEF turns, blocks
  <2>. HIDE DEF p
  <2>4. next \in TurnsSoFar /\ next.system = out.system /\ next.msgs = p
    BY <1>1, <2>1, <2>3 DEF TurnsSoFar
  <2>5. SystemText(m) = <<>>
    BY <1>5 DEF SystemText
  <2>6. SystemTexts(ms) \o <<>> = SystemTexts(ms)
    BY <1>3, ConcatEmptySeq
  <2>. QED
    BY <1>1, <1>3, <1>5, <2>3, <2>4, <2>5, <2>6 DEF p
<1>. QED
  BY <1>4, <1>5

LEMMA TurnsGoOn ==
  ASSUME NEW ms \in Seq(Spoken), NEW m \in Spoken
  PROVE  AnthropicMade(Append(ms, m))[Len(Append(ms, m))]
           = AnthropicMessage(AnthropicMade(ms)[Len(ms)], m)
<1>1. Len(Append(ms, m)) = Len(ms) + 1
  BY LenProperties, AppendProperties
<1>. QED
  BY <1>1, AnthropicLast

LEMMA StartTurnsInv == ASSUME input = Opening PROVE TurnsInv
<1>1. input.messages = <<>> /\ input.open = <<>>
  BY DEF Opening
<1>2. Len(<<>>) = 0 /\ 0 \in Nat
  OBVIOUS
<1>3. AnthropicMade(<<>>)[0] = NothingSaid
  BY <1>2, AnthropicEach
<1>4. NothingSaid \in TurnsSoFar /\ NothingSaid.system = <<>> /\ NothingSaid.msgs = <<>>
  BY EmptySeq DEF NothingSaid, TurnsSoFar
<1>5. Contents(<<>>) = <<>>
  BY DEF Contents
<1>6. Alternating(<<>>)
  BY EmptySeq DEF Alternating
<1>7. Awaited(<<>>, 0)
  BY DEF Awaited
<1>8. TurnsTold(NothingSaid, <<>>, 0)
  BY <1>4, <1>5, <1>6, <1>7, FlattenNone, NothingSpoken DEF TurnsTold
<1>. QED
  BY <1>1, <1>2, <1>3, <1>8 DEF TurnsInv

LEMMA SayTurnsInv == ASSUME TurnsInv, input \in Conversation, Say PROVE TurnsInv'
<1>1. PICK role \in {"system", "user"}, text \in Texts \cup {Prefix} :
        input' = [input EXCEPT !.messages = Append(@, Message(role, text, <<>>, 0))]
  BY DEF Say
<1>. DEFINE m == Message(role, text, <<>>, 0)
            ms == input.messages
            out == AnthropicMade(ms)[Len(ms)]
            next == AnthropicMessage(out, m)
<1>2. text \in Seq(Int) /\ role \in Role /\ <<>> \in Seq(Nat) /\ input.open = <<>>
  BY SaidTexts, EmptySeq DEF Role, Say
<1>3. m \in Spoken /\ m.role = role /\ m.text = text
  BY <1>2 DEF Message, Spoken
<1>4. ms \in Seq(Spoken)
  BY DEF Conversation
<1>5. input'.messages = Append(ms, m) /\ input'.open = <<>> /\ Len(<<>>) = 0
  BY <1>1, <1>2 DEF Conversation
<1>6. TurnsTold(out, ms, 0)
  BY <1>2, <1>5 DEF TurnsInv
<1>. HIDE DEF m, ms
<1>7. AnthropicMade(Append(ms, m))[Len(Append(ms, m))] = next
  BY <1>3, <1>4, TurnsGoOn
<1>. HIDE DEF out
<1>8. PICK n : n = next
  OBVIOUS
<1>9. n = AnthropicMessage(out, m)
  BY <1>8
<1>. HIDE DEF next
<1>10. /\ n \in TurnsSoFar
       /\ n.system = SystemTexts(Append(ms, m))
       /\ FlattenSeq(Contents(n.msgs)) = Said(Append(ms, m))
       /\ n.msgs = IF m.role = "system" THEN out.msgs ELSE Push(out.msgs, SideOf(m), SaidBy(m))
  BY <1>3, <1>4, <1>6, <1>9, MessageTold
<1>11. Alternating(n.msgs)
  <2>1. CASE role = "system"
    BY <1>3, <1>6, <1>10, <2>1 DEF TurnsTold
  <2>2. CASE role = "user"
    <3>1. SideOf(m) = "user" /\ SaidBy(m) = TextBlocks(text)
      BY <1>3, <2>2 DEF SideOf, SaidBy
    <3>2. /\ TextBlocks(text) \in Seq(BlockSet)
          /\ \A i \in 1..Len(TextBlocks(text)) : TextBlocks(text)[i].type # "tool_result"
      BY <1>2, TextIsBlocks
    <3>. DEFINE turns == out.msgs
                side == "user"
                blocks == TextBlocks(text)
    <3>3. Alternating(turns) /\ n.msgs = Push(turns, side, blocks) /\ blocks \in Seq(BlockSet)
          /\ \A i \in 1..Len(blocks) : blocks[i].type # "tool_result"
      BY <1>3, <1>6, <1>10, <2>2, <3>1, <3>2 DEF TurnsTold
    <3>4. side \in {"user", "assistant"}
      OBVIOUS
    <3>. HIDE DEF turns, side, blocks
    <3>. QED
      BY <3>3, <3>4, OthersPushed
  <2>. QED
    BY <2>1, <2>2
<1>12. Awaited(n.msgs, 0)
  BY DEF Awaited
<1>13. TurnsTold(n, Append(ms, m), 0)
  BY <1>10, <1>11, <1>12 DEF TurnsTold
<1>. QED
  BY <1>5, <1>7, <1>8, <1>13 DEF TurnsInv

LEMMA AnswerTurnsInv == ASSUME TurnsInv, input \in Conversation, PairsInv, Answer PROVE TurnsInv'
<1>. DEFINE before == Len(Ids(input.messages))
            ms == input.messages
            out == AnthropicMade(ms)[Len(ms)]
<1>0. PICK text \in Texts, w \in 0..MaxCalls :
       \E given \in SUBSET (1..w) :
         input' = [input EXCEPT
          !.messages = Append(@, Message("assistant", text,
                                         [k \in 1..w |-> IF k \in given THEN before + k ELSE 0], 0)),
          !.open = [k \in 1..w |-> before + k]]
  BY DEF Answer
<1>1. PICK given \in SUBSET (1..w) :
        input' = [input EXCEPT
          !.messages = Append(@, Message("assistant", text,
                                         [k \in 1..w |-> IF k \in given THEN before + k ELSE 0], 0)),
          !.open = [k \in 1..w |-> before + k]]
  BY <1>0
<1>. DEFINE calls == [k \in 1..w |-> IF k \in given THEN before + k ELSE 0]
            open == [k \in 1..w |-> before + k]
            m == Message("assistant", text, calls, 0)
            next == AnthropicMessage(out, m)
<1>2. ms \in Seq(Spoken) /\ input.open = <<>> /\ w \in Nat
  BY DEF Conversation, Answer
<1>3. before \in Nat
  <2>1. Ids(input.messages) \in Seq(Nat)
    BY DEF PairsInv, Paired, CallsTold
  <2>. QED
    BY <2>1, LenProperties
<1>. HIDE DEF before
<1>4. calls \in Seq(Nat) /\ Len(calls) = w /\ Len(open) = w
  BY <1>2, <1>3
<1>. HIDE DEF calls
<1>5. text \in Seq(Int)
  BY SaidTexts
<1>6. m \in Spoken /\ m.role = "assistant" /\ m.text = text /\ m.calls = calls
  BY <1>4, <1>5, IsSpoken DEF Role
<1>7. input' = [input EXCEPT !.messages = Append(@, m), !.open = open]
  BY <1>1 DEF calls
<1>. HIDE DEF m, open
<1>8. /\ input'.messages = Append(ms, m) /\ input'.open = open
  BY <1>7 DEF Conversation
<1>9. TurnsTold(out, ms, 0)
  <2>1. Len(<<>>) = 0
    OBVIOUS
  <2>. QED
    BY <1>2, <2>1 DEF TurnsInv
<1>. HIDE DEF ms
<1>10. AnthropicMade(Append(ms, m))[Len(Append(ms, m))] = next
  BY <1>2, <1>6, TurnsGoOn
<1>. HIDE DEF out
<1>11. PICK n : n = next
  OBVIOUS
<1>12. n = AnthropicMessage(out, m)
  BY <1>11
<1>. HIDE DEF next
<1>13. /\ n \in TurnsSoFar
       /\ n.system = SystemTexts(Append(ms, m))
       /\ FlattenSeq(Contents(n.msgs)) = Said(Append(ms, m))
       /\ n.msgs = IF m.role = "system" THEN out.msgs ELSE Push(out.msgs, SideOf(m), SaidBy(m))
  BY <1>2, <1>6, <1>9, <1>12, MessageTold
<1>. DEFINE a == TextBlocks(text)
            b == CallBlocks(calls)
            blocks == a \o b
            turns == out.msgs
<1>14. n.msgs = Push(turns, "assistant", blocks)
  <2>1. SideOf(m) = "assistant" /\ SaidBy(m) = TextBlocks(text) \o CallBlocks(calls)
    BY <1>6 DEF SideOf, SaidBy
  <2>. QED
    BY <1>6, <1>13, <2>1
<1>15. /\ a \in Seq(BlockSet) /\ Len(a) \in Nat /\ \A i \in 1..Len(a) : a[i].type = "text"
  BY <1>5, TextIsBlocks, LenProperties
<1>16. /\ b \in Seq(BlockSet) /\ Len(b) = w /\ \A i \in 1..w : b[i].type = "tool_use"
  BY <1>4, CallsAreBlocks
<1>17. Alternating(turns) /\ turns \in Seq(Turn)
  BY <1>9 DEF TurnsTold, TurnsSoFar
<1>. HIDE DEF a, b, turns
<1>18. /\ blocks \in Seq(BlockSet) /\ Len(blocks) = Len(a) + w
       /\ \A i \in 1..(Len(a) + w) : blocks[i] = IF i <= Len(a) THEN a[i] ELSE b[i - Len(a)]
  BY <1>15, <1>16, ConcatProperties
<1>. HIDE DEF blocks
<1>19. \A i \in 1..Len(blocks) : blocks[i].type # "tool_result"
  <2>1. ASSUME NEW i \in 1..Len(blocks) PROVE blocks[i].type # "tool_result"
    <3>1. CASE i <= Len(a)
      <4>1. i \in 1..Len(a) /\ blocks[i] = a[i]
        BY <1>15, <1>18, <3>1
      <4>. QED
        BY <1>15, <4>1
    <3>2. CASE ~(i <= Len(a))
      <4>1. i - Len(a) \in 1..w /\ blocks[i] = b[i - Len(a)]
        BY <1>2, <1>15, <1>18, <3>2
      <4>. QED
        BY <1>16, <4>1
    <3>. QED
      BY <3>1, <3>2
  <2>. QED
    BY <2>1
<1>20. \A i \in (Len(blocks) - w + 1)..Len(blocks) : blocks[i].type = "tool_use"
  <2>1. ASSUME NEW i \in (Len(blocks) - w + 1)..Len(blocks) PROVE blocks[i].type = "tool_use"
    <3>1. i \in 1..(Len(a) + w) /\ ~(i <= Len(a)) /\ i - Len(a) \in 1..w
      BY <1>2, <1>15, <1>18
    <3>2. blocks[i] = b[i - Len(a)]
      BY <1>18, <3>1
    <3>. QED
      BY <1>16, <3>1, <3>2
  <2>. QED
    BY <2>1
<1>21. Alternating(n.msgs)
  <2>1. "assistant" \in {"user", "assistant"}
    OBVIOUS
  <2>. QED
    BY <1>14, <1>17, <1>18, <1>19, <2>1, OthersPushed
<1>22. Awaited(n.msgs, w)
  <2>1. w <= Len(blocks)
    BY <1>2, <1>15, <1>18
  <2>. QED
    BY <1>2, <1>14, <1>17, <1>18, <1>20, <2>1, CallsPushed
<1>23. TurnsTold(n, Append(ms, m), w)
  BY <1>13, <1>21, <1>22 DEF TurnsTold
<1>. QED
  BY <1>4, <1>8, <1>10, <1>11, <1>23 DEF TurnsInv, open

LEMMA ReturnTurnsInv == ASSUME TurnsInv, input \in Conversation, PairsInv, Return PROVE TurnsInv'
<1>. DEFINE ids == Ids(input.messages)
            ms == input.messages
            out == AnthropicMade(ms)[Len(ms)]
<1>1. PICK k \in DOMAIN input.open :
        input' = [messages |-> Append(input.messages,
                                      Message("tool", <<>>, <<>>, ids[input.open[k]])),
                  links |-> Append(input.links, input.open[k]),
                  open |-> RemoveAt(input.open, k)]
  BY DEF Return
<1>. DEFINE id == ids[input.open[k]]
            m == Message("tool", <<>>, <<>>, id)
            w == Len(input.open)
            next == AnthropicMessage(out, m)
<1>2. ms \in Seq(Spoken) /\ input.open \in Seq(Nat)
  BY DEF Conversation
<1>3. k \in 1..w /\ w \in Nat /\ w > 0
  BY <1>1, <1>2, LenProperties
<1>4. id \in Nat
  <2>1. ids \in Seq(Nat) /\ input.open[k] \in 1..Len(ids)
    BY <1>3 DEF PairsInv, Paired, CallsTold, Waiting
  <2>. HIDE DEF ids
  <2>2. ids[input.open[k]] \in Nat
    BY <2>1, ElementOfSeq
  <2>. QED
    BY <2>2
<1>. HIDE DEF id, ids
<1>5. m \in Spoken /\ m.role = "tool" /\ m.id = id
  <2>1. <<>> \in Seq(Nat) /\ <<>> \in Seq(Int) /\ "tool" \in Role
    BY EmptySeq DEF Role
  <2>. QED
    BY <1>4, <2>1 DEF Message, Spoken
<1>6. Len(RemoveAt(input.open, k)) = w - 1
  BY <1>2, <1>3, Removed
<1>7. input'.messages = Append(ms, m) /\ Len(input'.open) = w - 1
  BY <1>1, <1>6 DEF id
<1>8. TurnsTold(out, ms, w)
  BY DEF TurnsInv
<1>. HIDE DEF m, ms, w
<1>9. AnthropicMade(Append(ms, m))[Len(Append(ms, m))] = next
  BY <1>2, <1>5, TurnsGoOn
<1>. HIDE DEF out
<1>10. PICK n : n = next
  OBVIOUS
<1>11. n = AnthropicMessage(out, m)
  BY <1>10
<1>. HIDE DEF next
<1>12. /\ n \in TurnsSoFar
       /\ n.system = SystemTexts(Append(ms, m))
       /\ FlattenSeq(Contents(n.msgs)) = Said(Append(ms, m))
       /\ n.msgs = IF m.role = "system" THEN out.msgs ELSE Push(out.msgs, SideOf(m), SaidBy(m))
  BY <1>2, <1>5, <1>8, <1>11, MessageTold
<1>. DEFINE block == Block("tool_result", <<id>>)
            turns == out.msgs
<1>13. n.msgs = Push(turns, "user", <<block>>)
  <2>1. SideOf(m) = "user" /\ SaidBy(m) = <<Block("tool_result", <<id>>)>>
    BY <1>5 DEF SideOf, SaidBy
  <2>. QED
    BY <1>5, <1>12, <2>1
<1>14. block \in BlockSet /\ block.type = "tool_result"
  <2>1. <<id>> \in Seq(Int)
    BY <1>4
  <2>. QED
    BY <2>1, IsBlock
<1>15. Alternating(turns) /\ Awaited(turns, w)
  BY <1>8 DEF TurnsTold
<1>. HIDE DEF block, turns
<1>16. Alternating(n.msgs) /\ Awaited(n.msgs, w - 1)
  BY <1>3, <1>13, <1>14, <1>15, ResultPushed
<1>17. TurnsTold(n, Append(ms, m), w - 1)
  BY <1>12, <1>16 DEF TurnsTold
<1>. QED
  BY <1>7, <1>9, <1>10, <1>17 DEF TurnsInv

(* Sequences of one and of two. *)
LEMMA OneAndTwo ==
  ASSUME NEW T, NEW a \in T, NEW b \in T
  PROVE  /\ Head(<<a>>) = a /\ Head(<<a, b>>) = a
         /\ Append(<<>>, a) = <<a>> /\ Append(<<a>>, b) = <<a, b>> /\ <<a>> \o <<b>> = <<a, b>>
         /\ <<a>> \in Seq(T) /\ <<a, b>> \in Seq(T)
<1>1. <<a>> \in Seq(T) /\ <<a, b>> \in Seq(T)
  OBVIOUS
<1>2. Append(<<a>>, b) = <<a, b>>
  <2>. DEFINE s == Append(<<a>>, b)
              t == <<a, b>>
  <2>1. s \in Seq(T) /\ Len(s) = 2 /\ s[1] = a /\ s[2] = b
    BY <1>1
  <2>2. t \in Seq(T) /\ Len(t) = 2 /\ t[1] = a /\ t[2] = b
    OBVIOUS
  <2>. HIDE DEF s, t
  <2>3. \A i \in 1..2 : i = 1 \/ i = 2
    OBVIOUS
  <2>4. Len(s) = Len(t) /\ \A i \in 1..Len(s) : s[i] = t[i]
    BY <2>1, <2>2, <2>3
  <2>5. s = t
    BY <2>1, <2>2, <2>4, SeqEqual
  <2>. QED
    BY <2>5 DEF s, t
<1>3. <<a>> \o <<b>> = Append(<<a>>, b)
  BY <1>1
<1>4. Head(<<a>>) = a /\ Head(<<a, b>>) = a /\ Append(<<>>, a) = <<a>>
  OBVIOUS
<1>. QED
  BY <1>1, <1>2, <1>3, <1>4

LEMMA TurnsOfRequest ==
  ASSUME NEW ms, NEW made, made = AnthropicMade(ms)[Len(ms)], made \in TurnsSoFar
  PROVE  /\ AnthropicRequest(ms).messages = made.msgs
         /\ Head(AnthropicRequest(ms).system.blocks) = Prefix
         /\ FlattenSeq(AnthropicRequest(ms).system.blocks) \in {made.system, Prefix \o made.system}
<1>. DEFINE body == [messages |-> made.msgs, stream |-> TRUE]
            own == [kind |-> "string", blocks |-> <<made.system>>]
            b == IF made.system = <<>> THEN body ELSE With(body, "system", own)
            blocks == System(b).blocks
            gated == blocks # <<>> /\ blocks[1] = Prefix
            whole == IF gated THEN blocks ELSE <<Prefix>> \o blocks
            system == [kind |-> "blocks", blocks |-> whole]
<1>1. made.system \in Seq(Int) /\ Prefix \in Seq(Int)
  BY DEF TurnsSoFar, Prefix
<1>2. AnthropicRequest(ms) = InjectPrefix(b)
  BY DEF AnthropicRequest
<1>3. DOMAIN body = {"messages", "stream"} /\ body["messages"] = made.msgs
  OBVIOUS
<1>. HIDE DEF body
<1>4. /\ "messages" \in DOMAIN b /\ b["messages"] = made.msgs
      /\ System(b).kind # "odd"
      /\ blocks = IF made.system = <<>> THEN <<>> ELSE <<made.system>>
  <2>1. CASE made.system = <<>>
    <3>1. b = body /\ "system" \notin DOMAIN body
      BY <1>3, <2>1
    <3>. HIDE DEF b
    <3>2. System(b) = NoSystem
      BY <3>1 DEF System
    <3>. QED
      BY <1>3, <2>1, <3>1, <3>2 DEF NoSystem
  <2>2. CASE made.system # <<>>
    <3>1. b = With(body, "system", own)
      BY <2>2
    <3>. HIDE DEF b, own
    <3>2. /\ DOMAIN b = DOMAIN body \cup {"system"} /\ b["system"] = own
          /\ b["messages"] = body["messages"]
      BY <1>3, <3>1 DEF With
    <3>3. System(b) = own
      BY <3>2 DEF System
    <3>. QED
      BY <1>3, <2>2, <3>2, <3>3 DEF own
  <2>. QED
    BY <2>1, <2>2
<1>5. AnthropicRequest(ms) = With(b, "system", system)
  BY <1>2, <1>4 DEF InjectPrefix
<1>. HIDE DEF b
<1>6. /\ AnthropicRequest(ms).messages = made.msgs
      /\ AnthropicRequest(ms).system = system
  <2>. HIDE DEF system
  <2>1. With(b, "system", system).messages = b["messages"] /\ With(b, "system", system).system = system
    BY <1>4 DEF With
  <2>. QED
    BY <1>4, <1>5, <2>1
<1>7. AnthropicRequest(ms).system.blocks = whole
  BY <1>6
<1>8. ASSUME NEW text \in Seq(Int)
      PROVE  /\ FlattenSeq(<<text>>) = text
             /\ FlattenSeq(<<Prefix, text>>) = Prefix \o text
  <2>1. /\ <<>> \in Seq(Seq(Int)) /\ Append(<<>>, text) = <<text>>
        /\ Append(<<>>, Prefix) = <<Prefix>>
        /\ <<Prefix>> \in Seq(Seq(Int)) /\ Append(<<Prefix>>, text) = <<Prefix, text>>
    BY <1>1, EmptySeq, OneAndTwo
  <2>5. <<>> \o text = text /\ <<>> \o Prefix = Prefix
    BY <1>1, ConcatEmptySeq
  <2>2. FlattenSeq(Append(<<>>, text)) = FlattenSeq(<<>>) \o text
    BY <2>1, FlattenAppend
  <2>3. FlattenSeq(Append(<<>>, Prefix)) = FlattenSeq(<<>>) \o Prefix
    BY <1>1, <2>1, FlattenAppend
  <2>4. FlattenSeq(Append(<<Prefix>>, text)) = FlattenSeq(<<Prefix>>) \o text
    BY <2>1, FlattenAppend
  <2>. QED
    BY <2>1, <2>2, <2>3, <2>4, <2>5, FlattenNone
<1>9. CASE made.system = <<>>
  <2>1. whole = <<Prefix>>
    <3>1. blocks = <<>>
      BY <1>4, <1>9
    <3>. HIDE DEF blocks
    <3>2. whole = <<Prefix>> \o <<>>
      BY <3>1
    <3>. QED
      BY <3>2
  <2>2. FlattenSeq(<<Prefix>>) = Prefix /\ Prefix \o <<>> = Prefix
    BY <1>1, <1>8, ConcatEmptySeq
  <2>3. Head(<<Prefix>>) = Prefix
    OBVIOUS
  <2>. QED
    BY <1>6, <1>7, <1>9, <2>1, <2>2, <2>3
<1>10. CASE made.system # <<>>
  <2>1. blocks = <<made.system>>
    BY <1>4, <1>10
  <2>2. CASE made.system = Prefix
    <3>1. whole = <<made.system>>
      <4>. HIDE DEF blocks
      <4>1. blocks # <<>> /\ blocks[1] = Prefix
        BY <2>1, <2>2
      <4>. QED
        BY <2>1, <4>1
    <3>2. FlattenSeq(<<made.system>>) = made.system /\ Head(<<made.system>>) = Prefix
      BY <1>1, <1>8, <2>2, OneAndTwo
    <3>. QED
      BY <1>6, <1>7, <3>1, <3>2
  <2>3. CASE made.system # Prefix
    <3>1. whole = <<Prefix, made.system>>
      <4>. HIDE DEF blocks
      <4>1. ~gated
        BY <2>1, <2>3
      <4>2. whole = <<Prefix>> \o <<made.system>>
        BY <2>1, <4>1
      <4>. QED
        BY <1>1, <4>2, OneAndTwo
    <3>2. /\ FlattenSeq(<<Prefix, made.system>>) = Prefix \o made.system
          /\ Head(<<Prefix, made.system>>) = Prefix
      BY <1>1, <1>8, OneAndTwo
    <3>. QED
      BY <1>6, <1>7, <3>1, <3>2
  <2>. QED
    BY <2>2, <2>3
<1>. QED
  BY <1>9, <1>10

LEMMA TurnsRight == ASSUME TurnsInv PROVE TurnsAlternate
<1>. DEFINE ms == input.messages
            turns == AnthropicRequest(ms).messages
<1>1. /\ Alternating(turns) /\ FlattenSeq(Contents(turns)) = Said(ms)
      /\ Head(AnthropicRequest(ms).system.blocks) = Prefix
      /\ FlattenSeq(AnthropicRequest(ms).system.blocks) \in {SystemTexts(ms), Prefix \o SystemTexts(ms)}
  <2>1. PICK made : made = AnthropicMade(ms)[Len(ms)]
    OBVIOUS
  <2>2. /\ made \in TurnsSoFar /\ made.system = SystemTexts(ms) /\ Alternating(made.msgs)
        /\ FlattenSeq(Contents(made.msgs)) = Said(ms)
    BY <2>1 DEF TurnsInv, TurnsTold
  <2>. HIDE DEF ms
  <2>3. /\ AnthropicRequest(ms).messages = made.msgs
        /\ Head(AnthropicRequest(ms).system.blocks) = Prefix
        /\ FlattenSeq(AnthropicRequest(ms).system.blocks) \in {made.system, Prefix \o made.system}
    BY <2>1, <2>2, TurnsOfRequest
  <2>. QED
    BY <2>2, <2>3
<1>. HIDE DEF turns
<1>3. /\ turns \in Seq(Turn) /\ DOMAIN turns = 1..Len(turns) /\ Len(turns) \in Nat
      /\ \A k \in 1..Len(turns) : turns[k] \in Turn
  BY <1>1, LenProperties, ElementOfSeq DEF Alternating
<1>4. \A k \in DOMAIN turns : /\ turns[k].content # <<>>
                              /\ k > 1 => turns[k].role # turns[k - 1].role
  BY <1>1, <1>3 DEF Alternating
<1>5. ASSUME NEW k \in DOMAIN turns, NEW results,
             results = {i \in DOMAIN turns[k].content : turns[k].content[i].type = "tool_result"}
      PROVE  /\ results = 1..Cardinality(results)
             /\ results # {} => /\ k > 1
                                /\ Cardinality(results) <= Cardinality(UsesOf(turns[k - 1]))
  <2>1. PICK r \in Nat : Follows(turns, k, r)
    BY <1>1, <1>3 DEF Alternating
  <2>2. DOMAIN turns[k].content = 1..Len(turns[k].content) /\ Len(turns[k].content) \in Nat
    BY <1>3, UsesFinite
  <2>3. results = 1..r
    <3>1. /\ r \in 0..Len(turns[k].content)
          /\ \A i \in 1..Len(turns[k].content) : turns[k].content[i].type = "tool_result" <=> i <= r
      BY <2>1 DEF Follows, Led
    <3>2. ASSUME NEW i PROVE i \in results <=> i \in 1..r
      <4>1. i \in results <=> i \in 1..Len(turns[k].content) /\ i <= r
        BY <1>5, <2>2, <3>1
      <4>. QED
        BY <2>2, <3>1, <4>1
    <3>. QED
      BY <3>2
  <2>4. Cardinality(1..r) = r
    <3>1. Cardinality(1..r) = IF 1 > r THEN 0 ELSE r - 1 + 1
      BY FS_Interval
    <3>. QED
      BY <3>1
  <2>5. results # {} => r > 0
    BY <2>3
  <2>. QED
    BY <2>1, <2>3, <2>4, <2>5 DEF Follows
<1>6. \A k \in DOMAIN turns :
        LET results == {i \in DOMAIN turns[k].content : turns[k].content[i].type = "tool_result"}
        IN /\ results = 1..Cardinality(results)
           /\ results # {} => /\ k > 1
                              /\ Cardinality(results)
                                   <= Cardinality({i \in DOMAIN turns[k - 1].content :
                                                     turns[k - 1].content[i].type = "tool_use"})
  BY <1>5 DEF UsesOf
<1>7. FlattenSeq([k \in DOMAIN turns |-> turns[k].content])
        = FlattenSeq([k \in DOMAIN ms |-> SaidBy(ms[k])])
  BY <1>1 DEF Contents, Said
<1>8. FlattenSeq(AnthropicRequest(ms).system.blocks)
        \in {FlattenSeq([k \in DOMAIN ms |-> IF ms[k].role = "system" THEN ms[k].text ELSE <<>>]),
             Prefix \o FlattenSeq([k \in DOMAIN ms |-> IF ms[k].role = "system" THEN ms[k].text
                                                      ELSE <<>>])}
  BY <1>1 DEF SystemTexts
<1>. QED
  BY <1>1, <1>4, <1>6, <1>7, <1>8 DEF TurnsAlternate, turns

ChatInv == about = "chat" => input \in Conversation /\ PairsInv /\ TurnsInv

LEMMA InitChatInv == CaseInit => ChatInv
<1>1. CASE about = "chat" /\ input = Opening
  BY <1>1, StartPaired, StartTurnsInv DEF ChatInv
<1>2. CASE about \in {"options", "body", "path", "headers", "replies"} /\ input = <<>>
  BY <1>2 DEF ChatInv
<1>3. CASE RecordInit
  BY <1>3 DEF ChatInv, RecordInit
<1>. QED
  BY <1>1, <1>2, <1>3 DEF CaseInit

(* Both APIs are told of a conversation in its order, with its roles and its pairs *)
(* of calls and results, whoever left ids out (convert/codex.rs and anthropic.rs). *)
THEOREM ConversationRight == CaseSpec => []ConversationKept
<1>1. CaseInit => ChatInv
  BY InitChatInv
<1>2. ChatInv /\ [CaseNext]_<<about, input>> => ChatInv'
  <2>. SUFFICES ASSUME ChatInv, [CaseNext]_<<about, input>> PROVE ChatInv'
    OBVIOUS
  <2>1. CASE UNCHANGED input \/ about # "chat"
    <3>1. about' = about
      BY Sorts
    <3>2. CASE about # "chat"
      BY <3>1, <3>2 DEF ChatInv
    <3>3. CASE about = "chat" /\ UNCHANGED input
      BY <3>1, <3>3 DEF ChatInv, PairsInv, TurnsInv
    <3>. QED
      BY <2>1, <3>2, <3>3
  <2>2. CASE about = "chat" /\ (Say \/ Answer \/ Return)
    <3>1. input \in Conversation /\ PairsInv /\ TurnsInv
      BY <2>2 DEF ChatInv
    <3>2. CASE Say
      BY <3>1, <3>2, SayPairsInv, SayTurnsInv DEF ChatInv
    <3>3. CASE Answer
      BY <3>1, <3>3, AnswerPairsInv, AnswerTurnsInv DEF ChatInv
    <3>4. CASE Return
      BY <3>1, <3>4, ReturnPairsInv, ReturnTurnsInv DEF ChatInv
    <3>. QED
      BY <2>2, <3>2, <3>3, <3>4
  <2>. QED
    BY <2>1, <2>2, Sorts
<1>3. ChatInv => ConversationKept
  <2>1. CASE about = "chat"
    BY <2>1, PairsRight, TurnsRight DEF ChatInv, ConversationKept
  <2>2. CASE about # "chat"
    BY <2>2 DEF ConversationKept, CallsPaired, TurnsAlternate
  <2>. QED
    BY <2>1, <2>2
<1>. QED
  BY <1>1, <1>2, <1>3, PTL DEF CaseSpec

====================================================================================
