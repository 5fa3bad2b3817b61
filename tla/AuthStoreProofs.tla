---------------------------- MODULE AuthStoreProofs ----------------------------
(***************************************************************************)
(* Theorems about AuthStore for any number of threads, processes,          *)
(* providers and credentials.                                              *)
(***************************************************************************)
EXTENDS AuthStore, TLAPS

(* Changing a map gives a map, and a map is never an unreadable text. *)
LEMMA ChangeIsStore ==
  ASSUME NEW s \in Store, NEW r \in Request
  PROVE  Change(s, r) \in Store /\ Change(s, r) # Torn
<1>1. Change(s, r) \in Store
  BY DEF Store, Request, Change
<1>. QED
  BY <1>1, TextAssumption

LEMMA EmptyIsStore == EmptyStore \in Store /\ EmptyStore # Torn
<1>1. EmptyStore \in Store
  BY DEF EmptyStore, Store
<1>. QED
  BY <1>1, TextAssumption

LEMMA InitIInv == Init => IInv
<1>. SUFFICES ASSUME Init PROVE IInv
  OBVIOUS
<1>. USE EmptyIsStore, ThreadAssumption DEF Init
<1>1. TypeOK
  BY DEF TypeOK, File, EmptyFile, TruncatedFile, PC, Saving, Answer
<1>2. LocksHeld
  BY DEF LocksHeld, InFlock, InRmw, Saving
<1>3. CallState /\ NoStaleWrite /\ TmpReady
  BY DEF CallState, NoStaleWrite, TmpReady, Saving
<1>4. NeverTorn
  BY DEF NeverTorn, EmptyFile
<1>. QED
  BY <1>1, <1>2, <1>3, <1>4 DEF IInv

(***************************************************************************)
(* IInv is inductive: one step per action, and under it the conjuncts.     *)
(***************************************************************************)
LEMMA NextIInv == IInv /\ [Next]_vars => IInv'
<1>. SUFFICES ASSUME IInv, [Next]_vars PROVE IInv'
  OBVIOUS
<1>. USE ThreadAssumption, TextAssumption DEF IInv, Goto, Answered, Saving
<1>1. ASSUME NEW t \in Thread, NEW r \in Request, Call(t, r) PROVE IInv'
  <2>1. TypeOK'
    BY <1>1 DEF Call, TypeOK, File, PC, Answer, TruncatedFile
  <2>2. LocksHeld' /\ CallState'
    BY <1>1 DEF Call, TypeOK, LocksHeld, InFlock, InRmw, CallState
  <2>3. NoStaleWrite' /\ TmpReady' /\ NeverTorn'
    BY <1>1 DEF Call, TypeOK, LocksHeld, InFlock, InRmw, NoStaleWrite, TmpReady, NeverTorn
  <2>. QED
    BY <2>1, <2>2, <2>3
<1>2. ASSUME NEW t \in Thread, TakeRmw(t) PROVE IInv'
  <2>1. TypeOK'
    BY <1>2 DEF TakeRmw, TypeOK, File, PC, Answer, TruncatedFile
  <2>2. LocksHeld' /\ CallState'
    BY <1>2 DEF TakeRmw, TypeOK, LocksHeld, InFlock, InRmw, CallState
  <2>3. NoStaleWrite' /\ TmpReady' /\ NeverTorn'
    BY <1>2 DEF TakeRmw, TypeOK, LocksHeld, InFlock, InRmw, NoStaleWrite, TmpReady, NeverTorn
  <2>. QED
    BY <2>1, <2>2, <2>3
<1>3. ASSUME NEW t \in Thread, LockError(t) PROVE IInv'
  <2>1. TypeOK'
    BY <1>3 DEF LockError, TypeOK, File, PC, Answer, TruncatedFile
  <2>2. LocksHeld' /\ CallState'
    BY <1>3 DEF LockError, TypeOK, LocksHeld, InFlock, InRmw, CallState
  <2>3. NoStaleWrite' /\ TmpReady' /\ NeverTorn'
    BY <1>3 DEF LockError, TypeOK, LocksHeld, InFlock, InRmw, NoStaleWrite, TmpReady, NeverTorn
  <2>. QED
    BY <2>1, <2>2, <2>3
<1>4. ASSUME NEW t \in Thread, TakeFlock(t) PROVE IInv'
  <2>1. TypeOK'
    BY <1>4 DEF TakeFlock, TypeOK, File, PC, Answer, TruncatedFile
  <2>2. LocksHeld' /\ CallState'
    BY <1>4 DEF TakeFlock, TypeOK, LocksHeld, InFlock, InRmw, CallState
  <2>3. NoStaleWrite' /\ TmpReady' /\ NeverTorn'
    BY <1>4 DEF TakeFlock, TypeOK, LocksHeld, InFlock, InRmw, NoStaleWrite, TmpReady, NeverTorn
  <2>. QED
    BY <2>1, <2>2, <2>3
<1>5. ASSUME NEW t \in Thread, LoadError(t) PROVE IInv'
  <2>1. TypeOK'
    BY <1>5 DEF LoadError, TypeOK, File, PC, Answer, TruncatedFile
  <2>2. LocksHeld' /\ CallState'
    BY <1>5 DEF LoadError, TypeOK, LocksHeld, InFlock, InRmw, CallState
  <2>3. NoStaleWrite' /\ TmpReady' /\ NeverTorn'
    BY <1>5 DEF LoadError, TypeOK, LocksHeld, InFlock, InRmw, NoStaleWrite, TmpReady, NeverTorn
  <2>. QED
    BY <2>1, <2>2, <2>3
<1>6. ASSUME NEW t \in Thread, Load(t) PROVE IInv'
  <2>1. auth.text \in Store /\ request[t] \in Request
    BY <1>6 DEF Load, TypeOK, File, NeverTorn, CallState
  <2>2. local' \in [Thread -> Store]
    BY <1>6, <2>1, ChangeIsStore DEF Load, TypeOK
  <2>3. TypeOK'
    BY <1>6, <2>2 DEF Load, TypeOK, File, PC, Answer, TruncatedFile, TypeOK
  <2>4. LocksHeld' /\ CallState'
    BY <1>6 DEF Load, TypeOK, LocksHeld, InFlock, InRmw, CallState
  <2>5. NoStaleWrite'
    BY <1>6 DEF Load, TypeOK, LocksHeld, InFlock, NoStaleWrite
  <2>6. TmpReady'
    BY <1>6 DEF Load, TypeOK, File, LocksHeld, InFlock, InRmw, TmpReady
  <2>7. NeverTorn'
    BY <1>6 DEF Load, NeverTorn
  <2>. QED
    BY <2>1, <2>2, <2>3, <2>4, <2>5, <2>6, <2>7
<1>7. ASSUME NEW t \in Thread, CreateTmp(t) PROVE IInv'
  <2>1. TypeOK'
    BY <1>7 DEF CreateTmp, TypeOK, File, PC, Answer, TruncatedFile
  <2>2. LocksHeld' /\ CallState'
    BY <1>7 DEF CreateTmp, TypeOK, LocksHeld, InFlock, InRmw, CallState
  <2>3. NoStaleWrite'
    BY <1>7 DEF CreateTmp, TypeOK, LocksHeld, InFlock, NoStaleWrite
  <2>4. TmpReady'
    BY <1>7 DEF CreateTmp, TypeOK, File, LocksHeld, InFlock, InRmw, TmpReady
  <2>5. NeverTorn'
    BY <1>7 DEF CreateTmp, NeverTorn
  <2>. QED
    BY <2>1, <2>2, <2>3, <2>4, <2>5
<1>8. ASSUME NEW t \in Thread, WriteTmp(t) PROVE IInv'
  <2>1. TypeOK'
    BY <1>8 DEF WriteTmp, TypeOK, File, PC, Answer, TruncatedFile
  <2>2. LocksHeld' /\ CallState'
    BY <1>8 DEF WriteTmp, TypeOK, LocksHeld, InFlock, InRmw, CallState
  <2>3. NoStaleWrite'
    BY <1>8 DEF WriteTmp, TypeOK, LocksHeld, InFlock, NoStaleWrite
  <2>4. TmpReady'
    BY <1>8 DEF WriteTmp, TypeOK, File, LocksHeld, InFlock, InRmw, TmpReady
  <2>5. NeverTorn'
    BY <1>8 DEF WriteTmp, NeverTorn
  <2>. QED
    BY <2>1, <2>2, <2>3, <2>4, <2>5
<1>9. ASSUME NEW t \in Thread, SyncTmp(t) PROVE IInv'
  <2>1. TypeOK'
    BY <1>9 DEF SyncTmp, TypeOK, File, PC, Answer, TruncatedFile
  <2>2. LocksHeld' /\ CallState'
    BY <1>9 DEF SyncTmp, TypeOK, LocksHeld, InFlock, InRmw, CallState
  <2>3. NoStaleWrite'
    BY <1>9 DEF SyncTmp, TypeOK, LocksHeld, InFlock, NoStaleWrite
  <2>4. TmpReady'
    BY <1>9 DEF SyncTmp, TypeOK, File, LocksHeld, InFlock, InRmw, TmpReady
  <2>5. NeverTorn'
    BY <1>9 DEF SyncTmp, NeverTorn
  <2>. QED
    BY <2>1, <2>2, <2>3, <2>4, <2>5
<1>10. ASSUME NEW t \in Thread, RenameTmp(t) PROVE IInv'
  <2>1. TypeOK'
    BY <1>10 DEF RenameTmp, TypeOK, File, PC, Answer, TruncatedFile
  <2>2. LocksHeld' /\ CallState'
    BY <1>10 DEF RenameTmp, TypeOK, LocksHeld, InFlock, InRmw, CallState
  <2>3. NoStaleWrite'
    BY <1>10 DEF RenameTmp, TypeOK, LocksHeld, InFlock, NoStaleWrite
  <2>4. TmpReady'
    BY <1>10 DEF RenameTmp, TypeOK, File, LocksHeld, InFlock, InRmw, TmpReady
  <2>5. auth'.text # Torn /\ auth'.synced
    BY <1>10, ChangeIsStore DEF RenameTmp, TypeOK, CallState, NoStaleWrite, TmpReady, NeverTorn, File
  <2>6. NeverTorn'
    BY <1>10, <2>5 DEF RenameTmp, NeverTorn
  <2>. QED
    BY <2>1, <2>2, <2>3, <2>4, <2>5, <2>6
<1>11. ASSUME NEW t \in Thread, SaveError(t) PROVE IInv'
  <2>1. TypeOK'
    BY <1>11 DEF SaveError, TypeOK, File, PC, Answer, TruncatedFile
  <2>2. LocksHeld' /\ CallState'
    BY <1>11 DEF SaveError, TypeOK, LocksHeld, InFlock, InRmw, CallState
  <2>3. NoStaleWrite' /\ TmpReady' /\ NeverTorn'
    BY <1>11 DEF SaveError, TypeOK, LocksHeld, InFlock, InRmw, NoStaleWrite, TmpReady, NeverTorn
  <2>. QED
    BY <2>1, <2>2, <2>3
<1>12. ASSUME NEW t \in Thread, Unlock(t) PROVE IInv'
  <2>1. TypeOK'
    BY <1>12, EmptyIsStore DEF Unlock, TypeOK, File, PC, Answer, TruncatedFile, TypeOK
  <2>2. LocksHeld' /\ CallState'
    BY <1>12 DEF Unlock, TypeOK, LocksHeld, InFlock, InRmw, CallState
  <2>3. NoStaleWrite' /\ TmpReady' /\ NeverTorn'
    BY <1>12 DEF Unlock, TypeOK, LocksHeld, InFlock, InRmw, NoStaleWrite, TmpReady, NeverTorn
  <2>. QED
    BY <2>1, <2>2, <2>3
<1>13. ASSUME NEW t \in Thread, Leave(t) PROVE IInv'
  <2>1. TypeOK'
    BY <1>13 DEF Leave, TypeOK, File, PC, Answer, TruncatedFile
  <2>2. LocksHeld' /\ CallState'
    BY <1>13 DEF Leave, TypeOK, LocksHeld, InFlock, InRmw, CallState
  <2>3. NoStaleWrite' /\ TmpReady' /\ NeverTorn'
    BY <1>13 DEF Leave, TypeOK, LocksHeld, InFlock, InRmw, NoStaleWrite, TmpReady, NeverTorn
  <2>. QED
    BY <2>1, <2>2, <2>3
<1>14. ASSUME NEW p \in Process, Crash(p) PROVE IInv'
  <2>1. TypeOK'
    BY <1>14, EmptyIsStore DEF Crash, Gone, TypeOK, PC, Answer
  <2>2. LocksHeld' /\ CallState'
    BY <1>14 DEF Crash, Gone, TypeOK, LocksHeld, InFlock, InRmw, CallState
  <2>3. NoStaleWrite' /\ TmpReady' /\ NeverTorn'
    BY <1>14 DEF Crash, Gone, TypeOK, NoStaleWrite, TmpReady, NeverTorn
  <2>. QED
    BY <2>1, <2>2, <2>3
<1>15. CASE WriteBack
  <2>1. TypeOK' /\ LocksHeld' /\ CallState'
    BY <1>15 DEF WriteBack, TypeOK, LocksHeld, InFlock, InRmw, CallState
  <2>2. NoStaleWrite' /\ TmpReady' /\ NeverTorn'
    BY <1>15 DEF WriteBack, NoStaleWrite, TmpReady, NeverTorn
  <2>. QED
    BY <2>1, <2>2
<1>16. CASE PowerFailure
  <2>1. Recovered(durable) = durable
    BY DEF Recovered, NeverTorn
  <2>2. \A f \in File : Recovered(f) \in File
    BY DEF Recovered, File, TruncatedFile
  <2>3. TypeOK'
    BY <1>16, <2>1, <2>2, EmptyIsStore DEF PowerFailure, Gone, TypeOK, PC, Answer
  <2>4. LocksHeld' /\ CallState'
    BY <1>16 DEF PowerFailure, Gone, TypeOK, LocksHeld, InFlock, InRmw, CallState
  <2>5. NoStaleWrite' /\ TmpReady' /\ NeverTorn'
    BY <1>16, <2>1 DEF PowerFailure, Gone, NoStaleWrite, TmpReady, NeverTorn
  <2>. QED
    BY <2>3, <2>4, <2>5
<1>17. CASE UNCHANGED vars
  BY <1>17 DEF vars, TypeOK, LocksHeld, InFlock, InRmw, CallState, NoStaleWrite,
               TmpReady, NeverTorn
<1>. QED
  BY <1>1, <1>2, <1>3, <1>4, <1>5, <1>6, <1>7, <1>8, <1>9, <1>10, <1>11, <1>12,
     <1>13, <1>14, <1>15, <1>16, <1>17 DEF Next, Step, Error

(* The five invariants of the inductive one hold in every reachable state. *)
THEOREM Invariance == Spec => []IInv
BY InitIInv, NextIInv, PTL DEF Spec

(* Every variable keeps its type: auth.json is a map or an unreadable text. *)
THEOREM TypeCorrect == Spec => []TypeOK
<1>1. IInv => TypeOK
  BY DEF IInv
<1>. QED
  BY <1>1, Invariance, PTL

(***************************************************************************)
(* No write-back undoes another update: what a thread is about to publish  *)
(* is the current auth.json with only its own entry changed.               *)
(***************************************************************************)
THEOREM NoLostUpdate == Spec => []NoStaleWrite
<1>1. IInv => NoStaleWrite
  BY DEF IInv
<1>. QED
  BY <1>1, Invariance, PTL

(* auth.json parses in every state, and after a power failure. *)
THEOREM AlwaysReadable == Spec => []NeverTorn
<1>1. IInv => NeverTorn
  BY DEF IInv
<1>. QED
  BY <1>1, Invariance, PTL

(* At most one thread of all processes is between TakeFlock and Unlock. *)
THEOREM MutualExclusion ==
  Spec => [](\A t, u \in Thread : InFlock(t) /\ InFlock(u) => t = u)
<1>1. IInv => \A t, u \in Thread : InFlock(t) /\ InFlock(u) => t = u
  BY DEF IInv, LocksHeld
<1>. QED
  BY <1>1, Invariance, PTL


(***************************************************************************)
(* `put` and `remove` implement CredentialStore: the rename is where an    *)
(* update takes effect, and every other step but the answers is invisible. *)
(***************************************************************************)
LEMMA StepRefines == IInv /\ [Next]_vars => [Map!Next]_(Map!vars)
<1>. SUFFICES ASSUME IInv, [Next]_vars PROVE [Map!Next]_(Map!vars)
  OBVIOUS
<1>. USE TextAssumption DEF IInv, Goto, Answered, Saving, Map!Next, Map!vars
<1>1. ASSUME NEW t \in Thread, NEW r \in Request, Call(t, r)
      PROVE  [Map!Next]_(Map!vars)
  <2>1. Map!Ask(t, r)
    BY <1>1 DEF Call, CallState, Map!Ask
  <2>. QED
    BY <2>1 DEF Request, Map!Request
<1>2. ASSUME NEW t \in Thread, LockError(t) \/ LoadError(t) \/ SaveError(t)
      PROVE  [Map!Next]_(Map!vars)
  <2>1. Map!Refuse(t)
    BY <1>2 DEF LockError, LoadError, SaveError, CallState, Map!Refuse, Map!Waiting
  <2>. QED
    BY <2>1
<1>3. ASSUME NEW t \in Thread, Load(t) PROVE [Map!Next]_(Map!vars)
  <2>1. CASE UNCHANGED answer
    BY <1>3, <2>1 DEF Load
  <2>2. CASE answer' # answer
    <3>1. Map!Perform(t)
      BY <1>3, <2>2 DEF Load, CallState, Absent, Map!Perform, Map!Waiting, Map!Absent
    <3>. QED
      BY <3>1
  <2>. QED
    BY <2>1, <2>2
<1>4. ASSUME NEW t \in Thread, RenameTmp(t) PROVE [Map!Next]_(Map!vars)
  <2>1. /\ auth'.text = Change(auth.text, request[t])
        /\ ~Absent(auth.text, request[t])
    BY <1>4 DEF RenameTmp, NoStaleWrite, TmpReady
  <2>2. Map!Perform(t)
    BY <1>4, <2>1 DEF RenameTmp, CallState, Change, Absent,
                      Map!Perform, Map!Waiting, Map!Change, Map!Absent
  <2>. QED
    BY <2>2
<1>5. ASSUME NEW t \in Thread, Leave(t) PROVE [Map!Next]_(Map!vars)
  <2>1. Map!Return(t)
    BY <1>5 DEF Leave, CallState, Map!Return
  <2>. QED
    BY <2>1
<1>6. ASSUME NEW t \in Thread,
             \/ TakeRmw(t) \/ TakeFlock(t) \/ Unlock(t)
             \/ CreateTmp(t) \/ WriteTmp(t) \/ SyncTmp(t)
      PROVE  UNCHANGED Map!vars
  BY <1>6 DEF TakeRmw, TakeFlock, Unlock, CreateTmp, WriteTmp, SyncTmp
<1>7. ASSUME NEW p \in Process, Crash(p) PROVE [Map!Next]_(Map!vars)
  <2>. DEFINE D == {t \in Thread : ProcessOf[t] = p}
  <2>1. Map!Die(D)
    BY <1>7 DEF Crash, Gone, Map!Die, Map!Forget
  <2>2. D \in SUBSET Thread
    OBVIOUS
  <2>. QED
    BY <2>1, <2>2
<1>8. CASE WriteBack
  BY <1>8 DEF WriteBack, Map!Settle
<1>9. CASE PowerFailure
  <2>1. Map!PowerFailure
    BY <1>9 DEF PowerFailure, Gone, Recovered, NeverTorn, Map!PowerFailure, Map!Forget
  <2>. QED
    BY <2>1
<1>10. CASE UNCHANGED vars
  BY <1>10 DEF vars
<1>. QED
  BY <1>1, <1>2, <1>3, <1>4, <1>5, <1>6, <1>7, <1>8, <1>9, <1>10
     DEF Next, Step, Error

(* Every behaviour of the code is one of the atomic credential map. *)
THEOREM Implementation == Spec => MapSpec
<1>1. Init => Map!Init
  BY DEF Init, EmptyFile, EmptyStore, Map!Init, Map!EmptyStore
<1>. QED
  BY <1>1, StepRefines, Invariance, PTL DEF Spec, MapSpec, Map!Spec

================================================================================
