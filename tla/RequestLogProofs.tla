---------------------------- MODULE RequestLogProofs ----------------------------
(***************************************************************************)
(* What RequestLog promises to the viewer that reads it, and what the      *)
(* viewer shows of it, for any number of exchanges, days, failures and     *)
(* clicks: first the log (LogInv), then the reading of a file as a         *)
(* function of the positions read, then the viewer (VInv); at the end, how *)
(* a day file is named and what `logs` reads of it from its end.           *)
(***************************************************************************)
EXTENDS TrafficViewer, MCFunctions, SequenceTheorems, FiniteSetTheorems,
        WellFoundedInduction, TLAPS

(***************************************************************************)
(* What each stage of an exchange says of the rest: it is recorded with    *)
(* the end it had, is in the list until it is written, and the one whose   *)
(* line is cut has WRITER.                                                 *)
(***************************************************************************)
Stages ==
  \A r \in Req :
    /\ stage[r] \in {"new", "open"} => ~done[r]
    /\ stage[r] \in {"flush", "cut", "written", "drop", "gone"} =>
         done[r] /\ end[r].day \in Day /\ end[r].why = outcome[r]
    /\ stage[r] \in {"open", "flush", "cut", "written"} => r \in inflight
    /\ stage[r] \in {"written", "drop", "gone"} => r \in failed \/ Recorded(r)
    /\ stage[r] = "cut" <=> writing = r

(* An exchange that has not begun to write has no piece in any file. *)
Unwritten == {"new", "open", "flush"}

(* A piece is of an exchange that has begun to write, on its day; the end of *)
(* a line is of one that has finished.                                       *)
Pieces ==
  \A d \in Day : \A i \in DOMAIN file[d] :
    LET p == file[d][i] IN
    /\ p.why = outcome[p.req] /\ end[p.req].day = d
    /\ stage[p.req] \notin Unwritten
    /\ p.last => stage[p.req] # "cut"

Once ==
  \A d \in Day : \A i, j \in DOMAIN file[d] :
    file[d][i].req = file[d][j].req /\ file[d][i].last = file[d][j].last => i = j

(* Beginnings and ends of lines alternate, and a file that ends with a       *)
(* beginning is the one WRITER's holder is writing to.                       *)
Lines ==
  faults = 0 =>
    \A d \in Day :
      /\ \A i \in DOMAIN file[d] :
           file[d][i].last <=> i > 1 /\ ~file[d][i - 1].last
      /\ Len(file[d]) > 0 /\ ~file[d][Len(file[d])].last <=>
           \E r \in Req : writing = r /\ end[r].day = d

LogInv ==
  /\ LogTypeOK
  /\ Stages
  /\ Pieces
  /\ Once
  /\ Lines

--------------------------------------------------------------------------------
(* Lemmas: steps that leave the files alone, and steps that append to one. *)

(* No exchange is reopened and none gets another end. *)
LEMMA FilesLeft ==
  ASSUME LogInv, file' = file,
         \A r \in Req : stage[r] \notin Unwritten =>
           /\ outcome'[r] = outcome[r] /\ end'[r].day = end[r].day
           /\ stage'[r] \notin Unwritten
           /\ stage[r] # "cut" => stage'[r] # "cut"
  PROVE  Pieces' /\ Once'
<1>1. \A d \in Day : \A i \in DOMAIN file[d] : file[d][i] \in Piece
  BY ElementOfSeq DEF LogInv, LogTypeOK
<1>2. \A d \in Day : \A i \in DOMAIN file[d] : file[d][i].req \in Req
  BY <1>1 DEF Piece
<1>3. Pieces'
  BY <1>2 DEF LogInv, Pieces
<1>4. Once'
  BY DEF LogInv, Once
<1>. QED
  BY <1>3, <1>4

(* What appending a piece does to a file. *)
LEMMA Grown ==
  ASSUME LogTypeOK, NEW d \in Day, NEW p \in Piece, file' = [file EXCEPT ![d] = Append(@, p)]
  PROVE  /\ file' \in [Day -> Seq(Piece)]
         /\ \A e \in Day \ {d} : file'[e] = file[e]
         /\ Len(file[d]) \in Nat /\ Len(file'[d]) = Len(file[d]) + 1
         /\ DOMAIN file[d] = 1..Len(file[d]) /\ DOMAIN file'[d] = 1..(Len(file[d]) + 1)
         /\ \A i \in DOMAIN file[d] : file'[d][i] = file[d][i] /\ file[d][i] \in Piece
         /\ file'[d][Len(file[d]) + 1] = p
<1>1. file \in [Day -> Seq(Piece)] /\ file[d] \in Seq(Piece)
  BY DEF LogTypeOK
<1>2. file'[d] = Append(file[d], p) /\ \A e \in Day \ {d} : file'[e] = file[e]
  BY <1>1
<1>3. Append(file[d], p) \in Seq(Piece)
  BY <1>1, AppendProperties
<1>4. file' \in [Day -> Seq(Piece)]
  BY <1>1, <1>3
<1>5. /\ Len(file'[d]) = Len(file[d]) + 1
      /\ \A i \in 1..Len(file[d]) : file'[d][i] = file[d][i]
      /\ file'[d][Len(file[d]) + 1] = p
  BY <1>1, <1>2, AppendProperties
<1>6. Len(file[d]) \in Nat /\ DOMAIN file[d] = 1..Len(file[d])
  BY <1>1, LenProperties
<1>7. DOMAIN file'[d] = 1..Len(file'[d])
  BY <1>2, <1>3, LenProperties
<1>8. \A i \in DOMAIN file[d] : file[d][i] \in Piece
  BY <1>1, <1>6, ElementOfSeq
<1>. QED
  BY <1>2, <1>4, <1>5, <1>6, <1>7, <1>8

(* A record that is in a file stays there. *)
LEMMA StaysRecorded ==
  ASSUME LogTypeOK, NEW d \in Day, NEW p \in Piece, file' = [file EXCEPT ![d] = Append(@, p)],
         NEW r \in Req, Recorded(r)
  PROVE  Recorded(r)'
<1>1. PICK e \in Day : \E i \in DOMAIN file[e] : file[e][i].req = r /\ file[e][i].last
  BY DEF Recorded
<1>2. PICK i \in DOMAIN file[e] : file[e][i].req = r /\ file[e][i].last
  BY <1>1
<1>3. i \in DOMAIN file'[e] /\ file'[e][i] = file[e][i]
  <2>1. CASE e = d
    BY <2>1, Grown
  <2>2. CASE e # d
    BY <2>2, Grown
  <2>. QED
    BY <2>1, <2>2
<1>. QED
  BY <1>2, <1>3 DEF Recorded

(* The next piece of an exchange's line is appended to the file of its day:  *)
(* the first by one that has written nothing, the last by one whose line is  *)
(* cut.                                                                      *)
LEMMA FileGrows ==
  ASSUME LogInv, NEW r \in Req, NEW last \in BOOLEAN,
         Wrote(r, last), end[r].day \in Day, end[r].why = outcome[r],
         IF last THEN stage[r] = "cut" ELSE stage[r] = "flush",
         stage'[r] = IF last THEN "written" ELSE "cut",
         \A q \in Req \ {r} : stage'[q] = stage[q],
         UNCHANGED <<end, outcome>>
  PROVE  Pieces' /\ Once'
<1>. DEFINE d == end[r].day
            p == Text(r, last)
<1>1. d \in Day /\ p \in Piece /\ p.req = r /\ p.last = last /\ p.why = outcome[r]
      /\ file' = [file EXCEPT ![d] = Append(@, p)]
  BY DEF LogInv, LogTypeOK, Text, Piece, Wrote
<1>2. LogTypeOK
  BY DEF LogInv
<1>. HIDE DEF d, p
<1>3. ASSUME NEW i \in DOMAIN file[d]
      PROVE  file[d][i].req \in Req /\ (file[d][i].req = r => file[d][i].last # last)
  <2>1. file[d][i] \in Piece
    BY <1>1, <1>2, Grown
  <2>. QED
    BY <1>1, <2>1 DEF Piece, LogInv, Pieces, Unwritten
<1>4. Pieces'
  <2>. SUFFICES ASSUME NEW e \in Day, NEW i \in DOMAIN file'[e]
                PROVE  /\ file'[e][i].why = outcome'[file'[e][i].req]
                       /\ end'[file'[e][i].req].day = e
                       /\ stage'[file'[e][i].req] \notin Unwritten
                       /\ file'[e][i].last => stage'[file'[e][i].req] # "cut"
    BY DEF Pieces
  <2>1. CASE e # d
    <3>1. file'[e] = file[e] /\ file[e][i] \in Piece
      BY <1>1, <1>2, <2>1, Grown, ElementOfSeq DEF LogTypeOK
    <3>2. file[e][i].req \in Req /\ file[e][i].req # r
      BY <3>1, <2>1 DEF Piece, LogInv, Pieces, d
    <3>. QED
      BY <3>1, <3>2 DEF LogInv, Pieces
  <2>2. CASE e = d /\ i \in DOMAIN file[d]
    <3>1. file'[d][i] = file[d][i] /\ file[d][i].req \in Req
      BY <1>1, <1>2, <1>3, <2>2, Grown
    <3>. QED
      BY <1>1, <1>3, <2>2, <3>1 DEF LogInv, Pieces, Unwritten
  <2>3. CASE e = d /\ i \notin DOMAIN file[d]
    <3>1. file'[d][i] = p
      BY <1>1, <1>2, <2>3, Grown
    <3>. QED
      BY <1>1, <2>3, <3>1 DEF Unwritten, d
  <2>. QED
    BY <2>1, <2>2, <2>3
<1>5. Once'
  <2>. SUFFICES ASSUME NEW e \in Day, NEW i \in DOMAIN file'[e], NEW j \in DOMAIN file'[e],
                       file'[e][i].req = file'[e][j].req, file'[e][i].last = file'[e][j].last
                PROVE  i = j
    BY DEF Once
  <2>1. CASE e # d
    BY <1>1, <1>2, <2>1, Grown DEF LogInv, Once
  <2>2. CASE e = d
    <3>1. ASSUME NEW k \in DOMAIN file'[d], k \notin DOMAIN file[d]
          PROVE  k = Len(file[d]) + 1 /\ file'[d][k] = p
      BY <1>1, <1>2, <3>1, Grown
    <3>2. ASSUME NEW k \in DOMAIN file[d] PROVE file'[d][k] = file[d][k]
      BY <1>1, <1>2, <3>2, Grown
    <3>3. CASE i \in DOMAIN file[d] /\ j \in DOMAIN file[d]
      BY <1>1, <2>2, <3>2, <3>3 DEF LogInv, Once
    <3>4. CASE i \in DOMAIN file[d] /\ j \notin DOMAIN file[d]
      BY <1>1, <1>3, <2>2, <3>1, <3>2, <3>4
    <3>5. CASE i \notin DOMAIN file[d] /\ j \in DOMAIN file[d]
      BY <1>1, <1>3, <2>2, <3>1, <3>2, <3>5
    <3>6. CASE i \notin DOMAIN file[d] /\ j \notin DOMAIN file[d]
      BY <2>2, <3>1, <3>6
    <3>. QED
      BY <3>3, <3>4, <3>5, <3>6
  <2>. QED
    BY <2>1, <2>2
<1>. QED
  BY <1>4, <1>5

(* Nothing is written and WRITER changes hands only with a failure. *)
LEMMA LinesLeft ==
  ASSUME LogInv, file' = file, faults' # 0 \/ (faults' = faults /\ writing' = writing),
         \A r \in Req : writing = r => end'[r].day = end[r].day
  PROVE  Lines'
BY DEF LogInv, Lines

(* A beginning follows an end, an end its own beginning. *)
LEMMA LinesGrow ==
  ASSUME LogInv, NEW r \in Req, NEW last \in BOOLEAN, Wrote(r, last), end[r].day \in Day,
         IF last THEN writing = r /\ writing' = NoReq ELSE writing = NoReq /\ writing' = r,
         UNCHANGED <<end, faults>>
  PROVE  Lines'
<1>. DEFINE d == end[r].day
            p == Text(r, last)
<1>1. d \in Day /\ p \in Piece /\ p.last = last /\ file' = [file EXCEPT ![d] = Append(@, p)]
  BY DEF LogInv, LogTypeOK, Text, Piece, Wrote
<1>2. LogTypeOK /\ NoReq \notin Req
  BY LogAssumption DEF LogInv
<1>3. \A q \in Req : (writing = q <=> last /\ q = r) /\ (writing' = q <=> ~last /\ q = r)
  BY <1>2
<1>. SUFFICES ASSUME faults = 0, NEW e \in Day
              PROVE  /\ \A i \in DOMAIN file'[e] :
                          file'[e][i].last <=> i > 1 /\ ~file'[e][i - 1].last
                     /\ Len(file'[e]) > 0 /\ ~file'[e][Len(file'[e])].last <=>
                          \E q \in Req : writing' = q /\ end[q].day = e
  BY DEF Lines
<1>. HIDE DEF p
<1>4. /\ \A i \in DOMAIN file[e] : file[e][i].last <=> i > 1 /\ ~file[e][i - 1].last
      /\ Len(file[e]) > 0 /\ ~file[e][Len(file[e])].last <=> last /\ d = e
  BY <1>3 DEF LogInv, Lines
<1>5. CASE e # d
  BY <1>1, <1>2, <1>3, <1>4, <1>5, Grown
<1>6. CASE e = d
  <2>. DEFINE n == Len(file[d])
  <2>. HIDE DEF n, d
  <2>1. /\ n \in Nat /\ Len(file'[d]) = n + 1
        /\ DOMAIN file[d] = 1..n /\ DOMAIN file'[d] = 1..(n + 1)
        /\ \A i \in 1..n : file'[d][i] = file[d][i]
        /\ file'[d][n + 1].last = last
    <3>1. /\ Len(file[d]) \in Nat /\ Len(file'[d]) = Len(file[d]) + 1
          /\ DOMAIN file[d] = 1..Len(file[d]) /\ DOMAIN file'[d] = 1..(Len(file[d]) + 1)
          /\ \A i \in DOMAIN file[d] : file'[d][i] = file[d][i]
          /\ file'[d][Len(file[d]) + 1] = p
      BY <1>1, <1>2, Grown
    <3>. QED
      BY <1>1, <3>1 DEF n
  <2>2. last <=> n > 0 /\ ~file[d][n].last
    BY <1>4, <1>6 DEF n
  <2>3. ASSUME NEW i \in 1..n
        PROVE  file'[d][i].last <=> i > 1 /\ ~file'[d][i - 1].last
    <3>1. i > 1 => i - 1 \in 1..n
      BY <2>1
    <3>. QED
      BY <1>4, <1>6, <2>1, <3>1
  <2>4. file'[d][n + 1].last <=> n + 1 > 1 /\ ~file'[d][(n + 1) - 1].last
    <3>1. (n + 1) - 1 = n /\ (n > 0 => n \in 1..n) /\ (n + 1 > 1 <=> n > 0)
      BY <2>1
    <3>. QED
      BY <2>1, <2>2, <3>1
  <2>5. \A i \in DOMAIN file'[d] : file'[d][i].last <=> i > 1 /\ ~file'[d][i - 1].last
    <3>1. \A i \in DOMAIN file'[d] : i \in 1..n \/ i = n + 1
      BY <2>1
    <3>. QED
      BY <2>3, <2>4, <3>1
  <2>6. Len(file'[d]) > 0 /\ ~file'[d][Len(file'[d])].last <=>
          \E q \in Req : writing' = q /\ end[q].day = d
    BY <1>3, <2>1 DEF d
  <2>. QED
    BY <1>6, <2>5, <2>6
<1>. QED
  BY <1>5, <1>6

--------------------------------------------------------------------------------
(* The initial state and the actions. *)

LEMMA InitLogInv == LogInit => LogInv
<1>. SUFFICES ASSUME LogInit PROVE LogInv
  OBVIOUS
<1>. USE LogAssumption DEF LogInit
<1>1. LogTypeOK
  BY EmptySeq DEF LogTypeOK, Stage, Outcome, NoEnd, Day
<1>2. Stages
  BY DEF Stages
<1>3. \A d \in Day : DOMAIN file[d] = {} /\ Len(file[d]) = 0
  BY EmptySeq
<1>4. Pieces /\ Once
  BY <1>3 DEF Pieces, Once
<1>5. Lines
  BY <1>3 DEF Lines
<1>. QED
  BY <1>1, <1>2, <1>4, <1>5 DEF LogInv

LEMMA StartLogInv == ASSUME LogInv, NEW r \in Req, Start(r) PROVE LogInv'
<1>. USE DEF Start, Become, LogInv
<1>1. LogTypeOK'
  BY DEF LogTypeOK, Stage
<1>2. Stages'
  BY DEF LogTypeOK, Stages, Recorded
<1>3. Pieces' /\ Once'
  BY FilesLeft DEF LogTypeOK, Unwritten
<1>4. Lines'
  BY LinesLeft
<1>. QED
  BY <1>1, <1>2, <1>3, <1>4

(* The first flush of an exchange fixes its end; a second one finds `done`. *)
LEMMA EndsLogInv ==
  ASSUME LogInv, NEW r \in Req, NEW why \in Outcome, stage[r] = "open", Ends(r, why)
  PROVE  LogInv'
<1>1. ~done[r]
  BY DEF LogInv, Stages
<1>2. /\ stage' = [stage EXCEPT ![r] = "flush"] /\ done' = [done EXCEPT ![r] = TRUE]
      /\ end' = [end EXCEPT ![r] = [why |-> why, day |-> today]]
      /\ outcome' = [outcome EXCEPT ![r] = why]
      /\ UNCHANGED <<today, inflight, made, file, writer, writing, failed, faults>>
  BY <1>1 DEF Ends, Flush
<1>3. today \in Day /\ today \in 0..MaxDay
  BY LogAssumption DEF LogInv, LogTypeOK, Day
<1>4. LogTypeOK'
  BY <1>2, <1>3 DEF LogInv, LogTypeOK, Stage
<1>5. Stages'
  BY <1>2, <1>3 DEF LogInv, LogTypeOK, Stages, Recorded
<1>6. Pieces' /\ Once'
  BY <1>2, FilesLeft DEF LogInv, LogTypeOK, Unwritten
<1>7. Lines'
  BY <1>2, LinesLeft DEF LogInv, LogTypeOK, Stages
<1>. QED
  BY <1>4, <1>5, <1>6, <1>7 DEF LogInv

LEMMA DropLogInv == ASSUME LogInv, NEW r \in Req, Drop(r) PROVE LogInv'
<1>1. /\ stage[r] = "drop" /\ stage' = [stage EXCEPT ![r] = "gone"]
      /\ UNCHANGED <<done, end, today, inflight, made, file, writer, writing,
                     outcome, failed, faults>>
  BY DEF Drop, Flush, LogInv, Stages
<1>2. LogTypeOK'
  BY <1>1 DEF LogInv, LogTypeOK, Stage
<1>3. Stages'
  BY <1>1 DEF LogInv, LogTypeOK, Stages, Recorded
<1>4. Pieces' /\ Once'
  BY <1>1, FilesLeft DEF LogInv, LogTypeOK, Unwritten
<1>5. Lines'
  BY <1>1, LinesLeft
<1>. QED
  BY <1>2, <1>3, <1>4, <1>5 DEF LogInv

LEMMA DeregisterLogInv == ASSUME LogInv, NEW r \in Req, Deregister(r) PROVE LogInv'
<1>1. /\ stage[r] = "written" /\ stage' = [stage EXCEPT ![r] = "drop"]
      /\ inflight' = inflight \ {r}
      /\ UNCHANGED <<today, end, done, made, file, writer, writing, outcome, failed, faults>>
  BY DEF Deregister, Become
<1>2. LogTypeOK'
  BY <1>1 DEF LogInv, LogTypeOK, Stage
<1>3. Stages'
  BY <1>1 DEF LogInv, LogTypeOK, Stages, Recorded
<1>4. Pieces' /\ Once'
  BY <1>1, FilesLeft DEF LogInv, LogTypeOK, Unwritten
<1>5. Lines'
  BY <1>1, LinesLeft
<1>. QED
  BY <1>2, <1>3, <1>4, <1>5 DEF LogInv

(* A line that cannot be written, or not to its end, is given up. *)
LEMMA ErrorLogInv ==
  ASSUME LogInv, NEW r \in Req, OpenError(r) \/ WriteError(r) PROVE LogInv'
<1>1. /\ faults' = faults + 1 /\ faults < MaxFaults
      /\ stage' = [stage EXCEPT ![r] = "written"] /\ failed' = failed \cup {r}
      /\ \/ stage[r] = "flush" /\ writing = NoReq
         \/ stage[r] = "cut"
      /\ UNCHANGED <<today, end, done, inflight, file, outcome>>
      /\ writing' = NoReq
  BY DEF OpenError, WriteError, Fault, Become
<1>2. made' \in SUBSET Day /\ writer' \in 0..MaxDay
  <2>1. WriteError(r) => end[r].day \in Day
    BY <1>1 DEF LogInv, Stages
  <2>. QED
    BY <2>1, LogAssumption DEF OpenError, WriteError, LogInv, LogTypeOK
<1>3. faults \in Nat /\ faults' # 0 /\ faults' \in 0..MaxFaults
  BY <1>1, LogAssumption DEF LogInv, LogTypeOK
<1>4. LogTypeOK'
  BY <1>1, <1>2, <1>3 DEF LogInv, LogTypeOK, Stage
<1>5. Stages'
  <2>1. \A q \in Req \ {r} : stage[q] # "cut" \/ writing = NoReq
    BY <1>1 DEF LogInv, Stages
  <2>2. \A q \in Req : writing' # q
    BY <1>1, LogAssumption
  <2>3. \A q \in Req \ {r} : stage[q] # "cut"
    BY <2>1, LogAssumption DEF LogInv, Stages
  <2>. QED
    BY <1>1, <2>2, <2>3 DEF LogInv, LogTypeOK, Stages, Recorded
<1>6. Pieces' /\ Once'
  <2>1. \A q \in Req : stage[q] \notin Unwritten => stage'[q] \notin Unwritten
    BY <1>1 DEF LogInv, LogTypeOK, Unwritten
  <2>2. \A q \in Req : stage[q] # "cut" => stage'[q] # "cut"
    BY <1>1 DEF LogInv, LogTypeOK
  <2>. QED
    BY <1>1, <2>1, <2>2, FilesLeft
<1>7. Lines'
  BY <1>3 DEF Lines
<1>. QED
  BY <1>4, <1>5, <1>6, <1>7 DEF LogInv

LEMMA WriteSomeLogInv == ASSUME LogInv, NEW r \in Req, WriteSome(r) PROVE LogInv'
<1>1. /\ stage[r] = "flush" /\ stage' = [stage EXCEPT ![r] = "cut"]
      /\ writing = NoReq /\ writing' = r /\ writer' = end[r].day
      /\ made' = made \cup {end[r].day} /\ Wrote(r, FALSE)
      /\ UNCHANGED <<today, end, done, inflight, outcome, failed, faults>>
  BY DEF WriteSome, Become
<1>2. /\ end[r].day \in Day /\ end[r].why = outcome[r] /\ end[r].day \in 0..MaxDay
      /\ \A q \in Req \ {r} : stage'[q] = stage[q]
      /\ stage'[r] = "cut" /\ stage' \in [Req -> Stage]
  BY <1>1 DEF LogInv, LogTypeOK, Stages, Stage
<1>3. /\ file' = [file EXCEPT ![end[r].day] = Append(@, Text(r, FALSE))]
      /\ Text(r, FALSE) \in Piece
  BY <1>1 DEF Wrote, Text, Piece, LogInv, LogTypeOK
<1>4. LogTypeOK'
  BY <1>1, <1>2, <1>3, Grown DEF LogInv, LogTypeOK
<1>5. Stages'
  <2>1. \A q \in Req : Recorded(q) => Recorded(q)'
    BY <1>2, <1>3, StaysRecorded DEF LogInv
  <2>2. \A q \in Req : stage'[q] = "cut" <=> writing' = q
    BY <1>1, <1>2, LogAssumption DEF LogInv, Stages
  <2>. QED
    BY <1>1, <1>2, <2>1, <2>2 DEF LogInv, Stages
<1>6. Pieces' /\ Once'
  BY <1>1, <1>2, FileGrows
<1>7. Lines'
  BY <1>1, <1>2, LinesGrow
<1>. QED
  BY <1>4, <1>5, <1>6, <1>7 DEF LogInv

LEMMA WriteRestLogInv == ASSUME LogInv, NEW r \in Req, WriteRest(r) PROVE LogInv'
<1>1. /\ stage[r] = "cut" /\ stage' = [stage EXCEPT ![r] = "written"]
      /\ writing' = NoReq /\ Wrote(r, TRUE)
      /\ UNCHANGED <<today, end, done, inflight, made, writer, outcome, failed, faults>>
  BY DEF WriteRest, Become
<1>2. /\ end[r].day \in Day /\ end[r].why = outcome[r] /\ writing = r
      /\ \A q \in Req \ {r} : stage'[q] = stage[q]
      /\ stage'[r] = "written" /\ stage' \in [Req -> Stage]
  BY <1>1 DEF LogInv, LogTypeOK, Stages, Stage
<1>3. /\ file' = [file EXCEPT ![end[r].day] = Append(@, Text(r, TRUE))]
      /\ Text(r, TRUE) \in Piece /\ Text(r, TRUE).req = r /\ Text(r, TRUE).last
  BY <1>1 DEF Wrote, Text, Piece, LogInv, LogTypeOK
<1>4. LogTypeOK'
  BY <1>1, <1>2, <1>3, Grown DEF LogInv, LogTypeOK
<1>5. Stages'
  <2>1. \A q \in Req : Recorded(q) => Recorded(q)'
    BY <1>2, <1>3, StaysRecorded DEF LogInv
  <2>2. Recorded(r)'
    <3>1. PICK d \in Day : d = end[r].day
      BY <1>2
    <3>2. PICK p \in Piece : p = Text(r, TRUE)
      BY <1>3
    <3>3. file' = [file EXCEPT ![d] = Append(@, p)] /\ LogTypeOK
      BY <1>3, <3>1, <3>2 DEF LogInv
    <3>4. Len(file[d]) \in Nat /\ DOMAIN file'[d] = 1..(Len(file[d]) + 1)
      BY <3>3, Grown
    <3>5. file'[d][Len(file[d]) + 1] = p
      BY <3>3, Grown
    <3>6. Len(file[d]) + 1 \in DOMAIN file'[d]
      BY <3>4
    <3>. QED
      BY <1>3, <3>2, <3>5, <3>6 DEF Recorded
  <2>3. \A q \in Req : stage'[q] # "cut" /\ writing' # q
    BY <1>1, <1>2, LogAssumption DEF LogInv, Stages
  <2>. QED
    BY <1>1, <1>2, <2>1, <2>2, <2>3 DEF LogInv, Stages
<1>6. Pieces' /\ Once'
  BY <1>1, <1>2, FileGrows
<1>7. Lines'
  BY <1>1, <1>2, LinesGrow
<1>. QED
  BY <1>4, <1>5, <1>6, <1>7 DEF LogInv

(* The process ends: nothing in memory outlives it, and nothing in a file    *)
(* changes.                                                                  *)
LEMMA ExitLogInv == ASSUME LogInv, DaemonExit PROVE LogInv'
<1>1. /\ faults' = faults + 1 /\ faults < MaxFaults
      /\ stage' = [r \in Req |-> IF stage[r] \in {"new", "drop", "gone"}
                                 THEN stage[r] ELSE "lost"]
      /\ inflight' = {} /\ writer' = 0 /\ writing' = NoReq
      /\ today' = today /\ end' = end /\ done' = done /\ made' = made /\ file' = file
      /\ outcome' = outcome /\ failed' = failed
  BY DEF DaemonExit, Fault
<1>2. faults' # 0 /\ faults' \in 0..MaxFaults
  BY <1>1, LogAssumption DEF LogInv, LogTypeOK
<1>3. \A r \in Req : /\ stage'[r] = "lost" \/ stage'[r] = stage[r]
                     /\ stage'[r] \in {"new", "drop", "gone", "lost"}
                     /\ stage'[r] \in Unwritten => stage[r] \in Unwritten
  BY <1>1 DEF Unwritten
<1>4. LogTypeOK'
  BY <1>1, <1>2, LogAssumption DEF LogInv, LogTypeOK, Stage
<1>5. Stages'
  BY <1>1, <1>3, LogAssumption DEF LogInv, Stages, Recorded
<1>6. Pieces' /\ Once'
  BY <1>1, <1>3, FilesLeft
<1>7. Lines'
  BY <1>2 DEF Lines
<1>. QED
  BY <1>4, <1>5, <1>6, <1>7 DEF LogInv

(* Neither the date nor a count of failures is part of what is recorded. *)
LEMMA OutsideLogInv ==
  ASSUME LogInv, today' \in Day, faults' \in 0..MaxFaults, faults' = 0 => faults = 0,
         UNCHANGED <<stage, end, done, inflight, made, file, writer, writing, outcome, failed>>
  PROVE  LogInv'
<1>1. LogTypeOK'
  BY DEF LogInv, LogTypeOK
<1>2. Stages'
  BY DEF LogInv, Stages, Recorded
<1>3. Pieces' /\ Once'
  BY DEF LogInv, Pieces, Once
<1>4. Lines'
  BY DEF LogInv, Lines
<1>. QED
  BY <1>1, <1>2, <1>3, <1>4 DEF LogInv

LEMMA NextLogInv == LogInv /\ [Next]_vars => LogInv'
<1>. SUFFICES ASSUME LogInv, [Next]_vars PROVE LogInv'
  OBVIOUS
<1>0. today \in Day /\ faults \in 0..MaxFaults
  BY DEF LogInv, LogTypeOK
<1>1. CASE LogNext
  <2>1. ASSUME NEW r \in Req,
               \/ Start(r) \/ Finish(r) \/ HangUp(r) \/ Drop(r)
               \/ OpenError(r) \/ WriteSome(r) \/ WriteRest(r) \/ WriteError(r) \/ Deregister(r)
        PROVE  LogInv'
    <3>1. CASE Finish(r) \/ HangUp(r)
      BY <3>1, EndsLogInv DEF Finish, HangUp, Outcome
    <3>2. CASE Start(r) \/ Drop(r) \/ Deregister(r)
      BY <3>2, StartLogInv, DropLogInv, DeregisterLogInv
    <3>3. CASE OpenError(r) \/ WriteError(r) \/ WriteSome(r) \/ WriteRest(r)
      BY <3>3, ErrorLogInv, WriteSomeLogInv, WriteRestLogInv
    <3>. QED
      BY <2>1, <3>1, <3>2, <3>3
  <2>2. CASE DaemonExit
    BY <2>2, ExitLogInv
  <2>3. CASE Midnight
    <3>1. today' \in Day
      BY <1>0, <2>3, LogAssumption DEF Midnight, Day
    <3>. QED
      BY <1>0, <2>3, <3>1, OutsideLogInv DEF Midnight
  <2>. QED
    BY <1>1, <2>1, <2>2, <2>3 DEF LogNext
<1>2. CASE UNCHANGED logVars
  BY <1>0, <1>2, OutsideLogInv DEF logVars
<1>3. CASE FeedSilent
  <2>1. faults' = faults + 1 /\ faults < MaxFaults
    BY <1>3 DEF FeedSilent, Fault
  <2>2. faults' \in 0..MaxFaults /\ faults' # 0
    BY <1>0, <2>1, LogAssumption
  <2>. QED
    BY <1>0, <1>3, <2>2, OutsideLogInv DEF FeedSilent
<1>. QED
  BY <1>1, <1>2, <1>3 DEF Next, vars

--------------------------------------------------------------------------------
(* What the invariant says of the files. *)

LEMMA OnceEach == LogInv => OneLineEach
<1>. SUFFICES ASSUME LogInv, NEW d \in Day, NEW e \in Day,
                     NEW i \in DOMAIN file[d], NEW j \in DOMAIN file[e]
              PROVE  LET p == file[d][i] IN
                     /\ p.why = outcome[p.req] /\ end[p.req].day = d
                     /\ file[e][j].req = p.req /\ file[e][j].last = p.last => d = e /\ i = j
  BY DEF OneLineEach
<1>1. file[d][i].why = outcome[file[d][i].req] /\ end[file[d][i].req].day = d
  BY DEF LogInv, Pieces
<1>2. end[file[e][j].req].day = e
  BY DEF LogInv, Pieces
<1>. QED
  BY <1>1, <1>2 DEF LogInv, Once

LEMMA WholeLines == LogInv => LinesWhole
<1>. SUFFICES ASSUME LogInv, faults = 0, NEW d \in Day, NEW i \in DOMAIN file[d], file[d][i].last
              PROVE  ReadableAt(file[d], 0, i)
  BY DEF LinesWhole
<1>1. Len(file[d]) \in Nat /\ DOMAIN file[d] = 1..Len(file[d])
  BY LenProperties DEF LogInv, LogTypeOK
<1>2. \A k \in DOMAIN file[d] : file[d][k].last <=> k > 1 /\ ~file[d][k - 1].last
  BY DEF LogInv, Lines
<1>3. i \in 2..Len(file[d]) /\ ~file[d][i - 1].last
  BY <1>1, <1>2
<1>4. i - 2 > 0 => file[d][i - 2].last
  <2>. SUFFICES ASSUME i - 2 > 0 PROVE file[d][i - 2].last
    OBVIOUS
  <2>1. i - 1 \in DOMAIN file[d] /\ i - 1 > 1 /\ (i - 1) - 1 = i - 2
    BY <1>1, <1>3
  <2>. QED
    BY <1>2, <1>3, <2>1
<1>. QED
  BY <1>3, <1>4 DEF ReadableAt

--------------------------------------------------------------------------------
(* reqlog.rs `Record`, `flush` and `append`: whatever exchanges end          *)
(* together, and whatever the viewer does meanwhile, each stage of a record  *)
(* agrees with the list, the writer and the files.                           *)
THEOREM Invariance == Spec => []LogInv
<1>1. Init => LogInv
  BY InitLogInv DEF Init
<1>. QED
  BY <1>1, NextLogInv, PTL DEF Spec

(***************************************************************************)
(* An exchange has one line, in the file of its day, which says how it     *)
(* ended; while nothing fails every line is read back as one record, for   *)
(* `append` has WRITER from the first byte to the last.                    *)
(***************************************************************************)
THEOREM RecordsRight == Spec => []RecordedRight
<1>1. LogInv => RecordedRight
  BY OnceEach, WholeLines DEF RecordedRight
<1>. QED
  BY <1>1, Invariance, PTL

(***************************************************************************)
(* reqlog.rs `flush` appends before it deregisters: an exchange that has   *)
(* begun is listed or recorded, unless the process ended or the writing    *)
(* failed.                                                                 *)
(***************************************************************************)
THEOREM NeverNowhere == Spec => []ListedOrRecorded
<1>1. LogInv => ListedOrRecorded
  BY DEF LogInv, LogTypeOK, Stage, Stages, ListedOrRecorded
<1>. QED
  BY <1>1, Invariance, PTL
--------------------------------------------------------------------------------
(* Induction over the positions of a file. *)

LEMMA Smallest ==
  ASSUME NEW T, T \subseteq Nat, T # {}
  PROVE  \E n \in T : \A m \in T : n <= m
<1>. DEFINE R == OpToRel(<, Nat)
<1>1. IsWellFoundedOn(R, Nat)
  BY NatLessThanWellFounded
<1>2. PICK n \in T : \A m \in T : <<m, n>> \notin R
  <2>. HIDE DEF R
  <2>. QED
    BY <1>1, WFMin
<1>3. \A m \in T : ~(m < n)
  BY <1>2 DEF OpToRel
<1>4. n \in Nat /\ \A m \in T : m \in Nat
  OBVIOUS
<1>. HIDE DEF R
<1>5. \A m \in T : n <= m
  BY <1>3, <1>4
<1>. QED
  BY <1>5

LEMMA Greatest ==
  ASSUME NEW T, T \subseteq Nat, T # {}, NEW b \in Nat, \A n \in T : n <= b
  PROVE  \E n \in T : \A m \in T : m <= n
<1>. DEFINE U == {k \in Nat : \A m \in T : m <= k}
<1>1. PICK n \in U : \A k \in U : n <= k
  <2>1. U \subseteq Nat /\ b \in U
    OBVIOUS
  <2>. HIDE DEF U
  <2>. QED
    BY <2>1, Smallest
<1>2. ASSUME n \notin T PROVE FALSE
  <2>1. \A m \in T : m < n
    BY <1>1, <1>2
  <2>2. n > 0 /\ n \in Nat
    <3>1. PICK m \in T : m \in Nat
      OBVIOUS
    <3>. QED
      BY <2>1, <3>1
  <2>3. n - 1 \in Nat /\ \A m \in T : m <= n - 1
    <3>1. \A m \in T : m \in Nat
      OBVIOUS
    <3>. QED
      BY <2>1, <2>2, <3>1
  <2>. QED
    BY <1>1, <2>2, <2>3
<1>. QED
  BY <1>1, <1>2

LEMMA Induct ==
  ASSUME NEW a \in Nat, NEW b \in Nat, NEW T, a \in T,
         \A n \in a..(b - 1) : n \in T => n + 1 \in T
  PROVE  a..b \subseteq T
<1>. SUFFICES ASSUME (a..b) \ T # {} PROVE FALSE
  OBVIOUS
<1>. DEFINE X == (a..b) \ T
<1>1. PICK n \in X : \A m \in X : n <= m
  <2>1. X \subseteq Nat /\ X # {}
    OBVIOUS
  <2>. HIDE DEF X
  <2>. QED
    BY <2>1, Smallest
<1>2. n # a /\ n - 1 \in a..(b - 1)
  OBVIOUS
<1>3. n - 1 \in T
  BY <1>1, <1>2
<1>. QED
  BY <1>2, <1>3

--------------------------------------------------------------------------------
(* What a scan finds.  Index is Records read from position `from` of a file  *)
(* whose first `upto` pieces are there.                                      *)

Index(text, from, upto) == Records(SubSeq(text, 1, upto), from)

(* The function Records is defined with, as far as position n.               *)
IsUpTo(f, text, from, n) ==
  /\ f \in [0..n -> Seq(Req)]
  /\ f[0] = <<>>
  /\ \A i \in 1..n : f[i] = IF ReadableAt(text, from, i) THEN Append(f[i - 1], text[i].req)
                            ELSE f[i - 1]

LEMMA ReqOfPiece ==
  ASSUME NEW text \in Seq(Piece), NEW i \in 1..Len(text)
  PROVE  text[i] \in Piece /\ text[i].req \in Req
<1>1. text[i] \in Piece
  BY ElementOfSeq
<1>. QED
  BY <1>1 DEF Piece

LEMMA UpToExists ==
  ASSUME NEW text \in Seq(Piece), NEW from \in Nat
  PROVE  \E f : IsUpTo(f, text, from, Len(text))
<1>. DEFINE T == {n \in 0..Len(text) : \E f : IsUpTo(f, text, from, n)}
<1>1. Len(text) \in Nat /\ \A i \in 1..Len(text) : text[i].req \in Req
  BY LenProperties, ReqOfPiece
<1>2. 0 \in T
  <2>1. IsUpTo([i \in 0..0 |-> <<>>], text, from, 0)
    BY EmptySeq DEF IsUpTo
  <2>. QED
    BY <1>1, <2>1
<1>3. ASSUME NEW n \in 0..(Len(text) - 1), n \in T PROVE n + 1 \in T
  <2>1. PICK f : IsUpTo(f, text, from, n)
    BY <1>3
  <2>. DEFINE last == IF ReadableAt(text, from, n + 1) THEN Append(f[n], text[n + 1].req) ELSE f[n]
              g == [i \in 0..(n + 1) |-> IF i = n + 1 THEN last ELSE f[i]]
  <2>2. f \in [0..n -> Seq(Req)] /\ n \in 0..n /\ n + 1 \in 1..Len(text) /\ n \in Nat
    BY <1>1, <2>1 DEF IsUpTo
  <2>3. last \in Seq(Req)
    BY <1>1, <2>2, AppendProperties
  <2>4. g \in [0..(n + 1) -> Seq(Req)]
    <3>. HIDE DEF last
    <3>. QED
      BY <2>2, <2>3
  <2>5. g[n + 1] = last /\ \A i \in 0..n : g[i] = f[i]
    BY <2>2
  <2>6. IsUpTo(g, text, from, n + 1)
    <3>. HIDE DEF g
    <3>1. g[0] = <<>> /\ g[n] = f[n]
      BY <2>1, <2>2, <2>5 DEF IsUpTo
    <3>2. ASSUME NEW i \in 1..(n + 1)
          PROVE  g[i] = IF ReadableAt(text, from, i) THEN Append(g[i - 1], text[i].req)
                        ELSE g[i - 1]
      <4>1. CASE i = n + 1
        BY <2>2, <2>5, <3>1, <4>1
      <4>2. CASE i \in 1..n
        BY <2>1, <2>2, <2>5, <4>2 DEF IsUpTo
      <4>. QED
        BY <2>2, <4>1, <4>2
    <3>. QED
      BY <2>4, <3>1, <3>2 DEF IsUpTo
  <2>. QED
    BY <1>1, <2>2, <2>6
<1>4. 0..Len(text) \subseteq T
  <2>. HIDE DEF T
  <2>. QED
    BY <1>1, <1>2, <1>3, Induct
<1>. QED
  BY <1>1, <1>4

LEMMA RecordsUpTo ==
  ASSUME NEW text \in Seq(Piece), NEW from \in Nat
  PROVE  \E f : IsUpTo(f, text, from, Len(text)) /\ Records(text, from) = f[Len(text)]
<1>. DEFINE S(f) == [i \in 0..Len(text) |->
                       IF i = 0 THEN <<>>
                       ELSE IF ReadableAt(text, from, i) THEN Append(f[i - 1], text[i].req)
                       ELSE f[i - 1]]
            g == CHOOSE f : f = S(f)
<1>0. Len(text) \in Nat
  BY LenProperties
<1>1. Records(text, from) = g[Len(text)]
  BY DEF Records
<1>2. PICK f : IsUpTo(f, text, from, Len(text))
  BY UpToExists
<1>3. f = S(f)
  <2>1. f = [i \in 0..Len(text) |-> f[i]]
    BY <1>2 DEF IsUpTo
  <2>2. \A i \in 0..Len(text) : f[i] = IF i = 0 THEN <<>>
          ELSE IF ReadableAt(text, from, i) THEN Append(f[i - 1], text[i].req) ELSE f[i - 1]
    <3>. TAKE i \in 0..Len(text)
    <3>1. CASE i = 0
      BY <1>2, <3>1 DEF IsUpTo
    <3>2. CASE i \in 1..Len(text)
      BY <1>2, <3>2 DEF IsUpTo
    <3>. QED
      BY <1>0, <3>1, <3>2
  <2>. QED
    BY <2>1, <2>2
<1>4. g = S(g)
  <2>. HIDE DEF S
  <2>. QED
    BY <1>3
<1>5. /\ g = [i \in 0..Len(text) |-> g[i]] /\ g[0] = <<>>
      /\ \A i \in 1..Len(text) :
           g[i] = IF ReadableAt(text, from, i) THEN Append(g[i - 1], text[i].req) ELSE g[i - 1]
  <2>. DEFINE h == S(g)
  <2>1. h = [i \in 0..Len(text) |-> h[i]] /\ h[0] = <<>>
    BY <1>0
  <2>2. \A i \in 1..Len(text) :
          h[i] = IF ReadableAt(text, from, i) THEN Append(g[i - 1], text[i].req) ELSE g[i - 1]
    BY <1>0
  <2>. HIDE DEF g, S
  <2>. QED
    BY <1>4, <2>1, <2>2
<1>. HIDE DEF g, S
<1>6. \A i \in 0..Len(text) : g[i] \in Seq(Req)
  <2>. DEFINE T == {i \in 0..Len(text) : g[i] \in Seq(Req)}
  <2>1. 0 \in T
    BY <1>0, <1>5, EmptySeq
  <2>2. ASSUME NEW n \in 0..(Len(text) - 1), n \in T PROVE n + 1 \in T
    <3>1. n + 1 \in 1..Len(text) /\ (n + 1) - 1 = n /\ text[n + 1].req \in Req
      <4>1. n + 1 \in 1..Len(text) /\ (n + 1) - 1 = n
        BY <1>0
      <4>. QED
        BY <4>1, ReqOfPiece
    <3>2. g[n] \in Seq(Req)
      BY <2>2
    <3>3. g[n + 1] = Append(g[n], text[n + 1].req) \/ g[n + 1] = g[n]
      BY <1>5, <3>1
    <3>4. Append(g[n], text[n + 1].req) \in Seq(Req)
      BY <3>1, <3>2, AppendProperties
    <3>5. g[n + 1] \in Seq(Req)
      BY <3>2, <3>3, <3>4
    <3>6. n + 1 \in 0..Len(text)
      BY <1>0, <3>1
    <3>. QED
      BY <3>5, <3>6
  <2>3. 0..Len(text) \subseteq T
    <3>. HIDE DEF T
    <3>. QED
      BY <1>0, <2>1, <2>2, Induct
  <2>. QED
    BY <2>3
<1>. QED
  BY <1>1, <1>5, <1>6 DEF IsUpTo

(* Whether a line is one record is settled when its newline is there.        *)
LEMMA ReadablePrefix ==
  ASSUME NEW s \in Seq(Piece), NEW t \in Seq(Piece), NEW from \in Nat,
         NEW m \in Nat, m <= Len(s), m <= Len(t), \A i \in 1..m : s[i] = t[i],
         NEW i \in 1..m
  PROVE  ReadableAt(s, from, i) <=> ReadableAt(t, from, i)
<1>1. Len(s) \in Nat /\ Len(t) \in Nat
  BY LenProperties
<1>2. i \in (from + 2)..Len(s) <=> i \in (from + 2)..Len(t)
  BY <1>1
<1>3. i >= from + 2 => i - 1 \in 1..m /\ (i - 2 > from => i - 2 \in 1..m)
  OBVIOUS
<1>. QED
  BY <1>1, <1>2, <1>3 DEF ReadableAt

LEMMA SamePrefix ==
  ASSUME NEW s \in Seq(Piece), NEW t \in Seq(Piece), NEW from \in Nat,
         NEW m \in Nat, m <= Len(s), m <= Len(t), \A i \in 1..m : s[i] = t[i],
         NEW f, IsUpTo(f, s, from, Len(s)), NEW g, IsUpTo(g, t, from, Len(t))
  PROVE  f[m] = g[m]
<1>. DEFINE T == {n \in 0..m : f[n] = g[n]}
<1>1. Len(s) \in Nat /\ Len(t) \in Nat
  BY LenProperties
<1>2. 0 \in T
  BY DEF IsUpTo
<1>3. ASSUME NEW n \in 0..(m - 1), n \in T PROVE n + 1 \in T
  <2>1. n + 1 \in 1..m /\ n + 1 \in 1..Len(s) /\ n + 1 \in 1..Len(t) /\ (n + 1) - 1 = n
    BY <1>1
  <2>2. ReadableAt(s, from, n + 1) <=> ReadableAt(t, from, n + 1)
    BY <2>1, ReadablePrefix
  <2>3. f[n + 1] = IF ReadableAt(s, from, n + 1) THEN Append(f[n], s[n + 1].req) ELSE f[n]
    BY <2>1 DEF IsUpTo
  <2>4. g[n + 1] = IF ReadableAt(t, from, n + 1) THEN Append(g[n], t[n + 1].req) ELSE g[n]
    BY <2>1 DEF IsUpTo
  <2>5. f[n] = g[n] /\ s[n + 1] = t[n + 1]
    BY <1>3, <2>1
  <2>6. f[n + 1] = g[n + 1]
    BY <2>2, <2>3, <2>4, <2>5
  <2>. QED
    BY <2>1, <2>6
<1>4. 0..m \subseteq T
  <2>. HIDE DEF T
  <2>. QED
    BY <1>2, <1>3, Induct
<1>5. m \in 0..m
  OBVIOUS
<1>. QED
  BY <1>4, <1>5

LEMMA PrefixIs ==
  ASSUME NEW text \in Seq(Piece), NEW n \in 0..Len(text)
  PROVE  /\ SubSeq(text, 1, n) \in Seq(Piece) /\ Len(SubSeq(text, 1, n)) = n
         /\ \A i \in 1..n : SubSeq(text, 1, n)[i] = text[i]
<1>1. Len(text) \in Nat /\ n \in Nat
  BY LenProperties
<1>2. \A i \in 1..n : text[i] \in Piece
  BY <1>1, ElementOfSeq
<1>3. /\ SubSeq(text, 1, n) \in Seq(Piece)
      /\ Len(SubSeq(text, 1, n)) = IF 1 <= n THEN n - 1 + 1 ELSE 0
      /\ \A i \in 1..n - 1 + 1 : SubSeq(text, 1, n)[i] = text[1 + i - 1]
  BY <1>1, <1>2, SubSeqProperties
<1>4. n - 1 + 1 = n /\ \A i \in 1..n : 1 + i - 1 = i
  BY <1>1
<1>. QED
  BY <1>1, <1>3, <1>4

LEMMA IndexIsUpTo ==
  ASSUME NEW text \in Seq(Piece), NEW from \in Nat, NEW f, IsUpTo(f, text, from, Len(text)),
         NEW n \in 0..Len(text)
  PROVE  Index(text, from, n) = f[n]
<1>. DEFINE s == SubSeq(text, 1, n)
<1>1. s \in Seq(Piece) /\ Len(s) = n /\ n \in Nat /\ n <= Len(text) /\ \A i \in 1..n : s[i] = text[i]
  BY PrefixIs, LenProperties
<1>. HIDE DEF s
<1>2. PICK g : IsUpTo(g, s, from, Len(s)) /\ Records(s, from) = g[Len(s)]
  BY <1>1, RecordsUpTo
<1>3. g[n] = f[n]
  BY <1>1, <1>2, SamePrefix
<1>. QED
  BY <1>1, <1>2, <1>3 DEF Index, s

(* The records of a file, position by position. *)
LEMMA IndexSteps ==
  ASSUME NEW text \in Seq(Piece), NEW from \in Nat
  PROVE  /\ Index(text, from, 0) = <<>>
         /\ \A n \in 0..Len(text) : Index(text, from, n) \in Seq(Req)
         /\ \A n \in 1..Len(text) :
              Index(text, from, n) =
                IF ReadableAt(text, from, n) THEN Append(Index(text, from, n - 1), text[n].req)
                ELSE Index(text, from, n - 1)
         /\ Index(text, from, Len(text)) = Records(text, from)
<1>0. Len(text) \in Nat
  BY LenProperties
<1>1. PICK f : IsUpTo(f, text, from, Len(text)) /\ Records(text, from) = f[Len(text)]
  BY RecordsUpTo
<1>2. \A n \in 0..Len(text) : Index(text, from, n) = f[n]
  BY <1>1, IndexIsUpTo
<1>3. /\ Len(text) \in 0..Len(text) /\ 0 \in 0..Len(text)
      /\ \A n \in 1..Len(text) : n \in 0..Len(text) /\ n - 1 \in 0..Len(text)
  BY <1>0
<1>. QED
  BY <1>1, <1>2, <1>3 DEF IsUpTo

(* Nothing is a record that ends at or before the position it is read from.  *)
LEMMA IndexFrom ==
  ASSUME NEW text \in Seq(Piece), NEW from \in 0..Len(text), NEW n \in 0..from
  PROVE  Index(text, from, n) = <<>>
<1>. DEFINE T == {i \in 0..from : Index(text, from, i) = <<>>}
<1>0. Len(text) \in Nat /\ from \in Nat
  BY LenProperties
<1>1. 0 \in T
  BY <1>0, IndexSteps
<1>2. ASSUME NEW i \in 0..(from - 1), i \in T PROVE i + 1 \in T
  <2>1. i + 1 \in 1..Len(text) /\ (i + 1) - 1 = i /\ i + 1 \in 0..from
    BY <1>0
  <2>2. ~ReadableAt(text, from, i + 1)
    BY <1>0, <2>1 DEF ReadableAt
  <2>. QED
    BY <1>0, <1>2, <2>1, <2>2, IndexSteps
<1>3. 0..from \subseteq T
  <2>. HIDE DEF T
  <2>. QED
    BY <1>0, <1>1, <1>2, Induct
<1>. QED
  BY <1>3

(* A position a scan may stop at and the next one start from. *)
Boundary(text, i) == i = 0 \/ (i \in DOMAIN text /\ text[i].last)

LEMMA IndexAgrees ==
  ASSUME NEW s \in Seq(Piece), NEW t \in Seq(Piece), NEW from,
         NEW n \in 0..Len(s), n <= Len(t), \A i \in 1..n : s[i] = t[i]
  PROVE  Index(s, from, n) = Index(t, from, n)
<1>1. Len(s) \in Nat /\ Len(t) \in Nat /\ n \in 0..Len(t)
  BY LenProperties
<1>2. SubSeq(s, 1, n) = SubSeq(t, 1, n)
  BY <1>1, PrefixIs, SeqEqual
<1>. QED
  BY <1>2 DEF Index

LEMMA AppendConcat ==
  ASSUME NEW a \in Seq(Req), NEW b \in Seq(Req), NEW r \in Req
  PROVE  Append(a \o b, r) = a \o Append(b, r)
<1>1. a \o b \in Seq(Req) /\ <<r>> \in Seq(Req)
  BY ConcatProperties
<1>2. Append(a \o b, r) = (a \o b) \o <<r>> /\ Append(b, r) = b \o <<r>>
  BY <1>1, AppendIsConcat
<1>. QED
  BY <1>1, <1>2, ConcatAssociative

(* A scan that goes on where another stopped finds what one scan would.      *)
LEMMA IndexJoins ==
  ASSUME NEW text \in Seq(Piece), NEW mid \in 0..Len(text), Boundary(text, mid),
         NEW from \in 0..mid, NEW n \in mid..Len(text)
  PROVE  Index(text, from, n) = Index(text, from, mid) \o Index(text, mid, n)
<1>. DEFINE a == Index(text, from, mid)
            T == {i \in mid..Len(text) : Index(text, from, i) = a \o Index(text, mid, i)}
<1>0. Len(text) \in Nat /\ mid \in Nat /\ from \in Nat /\ a \in Seq(Req)
  BY LenProperties, IndexSteps
<1>1. mid \in T
  <2>1. Index(text, mid, mid) = <<>>
    BY <1>0, IndexFrom
  <2>2. a \o <<>> = a
    BY <1>0, ConcatEmptySeq
  <2>. QED
    BY <1>0, <2>1, <2>2
<1>2. ASSUME NEW i \in mid..(Len(text) - 1), i \in T PROVE i + 1 \in T
  <2>1. i + 1 \in 1..Len(text) /\ (i + 1) - 1 = i /\ i + 1 \in mid..Len(text) /\ i \in 0..Len(text)
    BY <1>0
  <2>2. ReadableAt(text, from, i + 1) <=> ReadableAt(text, mid, i + 1)
    <3>1. mid # 0 => text[mid].last
      BY DEF Boundary
    <3>2. ReadableAt(text, from, i + 1) => i + 1 >= mid + 2
      BY <1>0, <2>1, <3>1 DEF ReadableAt
    <3>3. ((i + 1) - 2 = mid) /\ (mid > from) => text[(i + 1) - 2].last
      BY <1>0, <3>1
    <3>. QED
      BY <1>0, <2>1, <3>2, <3>3 DEF ReadableAt
  <2>3. text[i + 1].req \in Req /\ Index(text, mid, i) \in Seq(Req)
    BY <1>0, <2>1, ReqOfPiece, IndexSteps
  <2>4. /\ Index(text, from, i + 1) = IF ReadableAt(text, from, i + 1)
                                       THEN Append(Index(text, from, i), text[i + 1].req)
                                       ELSE Index(text, from, i)
        /\ Index(text, mid, i + 1) = IF ReadableAt(text, mid, i + 1)
                                      THEN Append(Index(text, mid, i), text[i + 1].req)
                                      ELSE Index(text, mid, i)
    BY <1>0, <2>1, IndexSteps
  <2>5. Index(text, from, i) = a \o Index(text, mid, i)
    BY <1>2
  <2>6. Append(a \o Index(text, mid, i), text[i + 1].req) =
          a \o Append(Index(text, mid, i), text[i + 1].req)
    BY <1>0, <2>3, AppendConcat
  <2>. HIDE DEF a
  <2>7. Index(text, from, i + 1) = a \o Index(text, mid, i + 1)
    BY <2>2, <2>4, <2>5, <2>6
  <2>. QED
    BY <2>1, <2>7
<1>3. mid..Len(text) \subseteq T
  <2>. HIDE DEF T
  <2>. QED
    BY <1>0, <1>1, <1>2, Induct
<1>. QED
  BY <1>3

(* What follows the last newline is not read. *)
LEMMA IndexStops ==
  ASSUME NEW text \in Seq(Piece), NEW from \in Nat, NEW m \in 0..Len(text),
         \A i \in DOMAIN text : i > m => ~text[i].last
  PROVE  Index(text, from, m) = Records(text, from)
<1>. DEFINE T == {i \in m..Len(text) : Index(text, from, i) = Index(text, from, m)}
<1>0. Len(text) \in Nat /\ m \in Nat /\ DOMAIN text = 1..Len(text)
  BY LenProperties
<1>1. m \in T
  BY <1>0
<1>2. ASSUME NEW i \in m..(Len(text) - 1), i \in T PROVE i + 1 \in T
  <2>1. i + 1 \in 1..Len(text) /\ (i + 1) - 1 = i /\ i + 1 \in m..Len(text) /\ i + 1 > m
    BY <1>0
  <2>2. ~ReadableAt(text, from, i + 1)
    BY <1>0, <2>1 DEF ReadableAt
  <2>. QED
    BY <1>2, <2>1, <2>2, IndexSteps
<1>3. m..Len(text) \subseteq T
  <2>. HIDE DEF T
  <2>. QED
    BY <1>0, <1>1, <1>2, Induct
<1>4. Len(text) \in m..Len(text)
  BY <1>0
<1>. QED
  BY <1>3, <1>4, IndexSteps

(* Each record is of a line, and no two of the same exchange if no two lines *)
(* are.                                                                      *)
IndexOf(text, s, n) == \A k \in 1..Len(s) : \E i \in 1..n : text[i].last /\ text[i].req = s[k]

LEMMA IndexOnce ==
  ASSUME NEW text \in Seq(Piece), NEW from \in Nat, NEW n \in 0..Len(text),
         \A i, j \in DOMAIN text :
           text[i].req = text[j].req /\ text[i].last = text[j].last => i = j
  PROVE  IsInjective(Index(text, from, n))
<1>. DEFINE T == {i \in 0..Len(text) : /\ IndexOf(text, Index(text, from, i), i)
                                       /\ IsInjective(Index(text, from, i))}
<1>0. Len(text) \in Nat /\ DOMAIN text = 1..Len(text)
  BY LenProperties
<1>1. 0 \in T
  <2>1. Index(text, from, 0) = <<>> /\ Len(<<>>) = 0 /\ DOMAIN <<>> = {}
    BY IndexSteps
  <2>. QED
    BY <1>0, <2>1 DEF IndexOf, IsInjective
<1>2. ASSUME NEW i \in 0..(Len(text) - 1), i \in T PROVE i + 1 \in T
  <2>. DEFINE s == Index(text, from, i)
              r == text[i + 1].req
  <2>1. i + 1 \in 1..Len(text) /\ (i + 1) - 1 = i /\ i + 1 \in 0..Len(text) /\ i \in 0..Len(text)
    BY <1>0
  <2>2. s \in Seq(Req) /\ r \in Req /\ Len(s) \in Nat /\ DOMAIN s = 1..Len(s)
    BY <2>1, ReqOfPiece, IndexSteps, LenProperties
  <2>3. IndexOf(text, s, i) /\ IsInjective(s)
    BY <1>2
  <2>4. CASE ~ReadableAt(text, from, i + 1)
    <3>1. Index(text, from, i + 1) = s
      BY <2>1, <2>4, IndexSteps
    <3>2. IndexOf(text, s, i + 1)
      BY <2>1, <2>3 DEF IndexOf
    <3>. QED
      BY <2>1, <2>3, <3>1, <3>2
  <2>5. CASE ReadableAt(text, from, i + 1)
    <3>1. Index(text, from, i + 1) = Append(s, r) /\ text[i + 1].last
      BY <2>1, <2>5, IndexSteps DEF ReadableAt
    <3>. DEFINE t == Append(s, r)
    <3>2. /\ Len(t) = Len(s) + 1 /\ DOMAIN t = 1..(Len(s) + 1) /\ t[Len(s) + 1] = r
          /\ \A k \in 1..Len(s) : t[k] = s[k]
      BY <2>2, AppendProperties, LenProperties
    <3>. HIDE DEF s, t
    <3>3. IndexOf(text, t, i + 1)
      <4>. SUFFICES ASSUME NEW k \in 1..(Len(s) + 1)
                    PROVE  \E j \in 1..(i + 1) : text[j].last /\ text[j].req = t[k]
        BY <3>2 DEF IndexOf
      <4>1. CASE k = Len(s) + 1
        BY <2>1, <3>1, <3>2, <4>1
      <4>2. CASE k \in 1..Len(s)
        <5>1. PICK j \in 1..i : text[j].last /\ text[j].req = s[k]
          BY <2>3, <4>2 DEF IndexOf
        <5>2. j \in 1..(i + 1) /\ t[k] = s[k]
          BY <3>2, <4>2
        <5>. QED
          BY <5>1, <5>2
      <4>. QED
        BY <2>2, <4>1, <4>2
    <3>4. \A k \in 1..Len(s) : s[k] # r
      <4>. SUFFICES ASSUME NEW k \in 1..Len(s), s[k] = r PROVE FALSE
        OBVIOUS
      <4>1. PICK j \in 1..i : text[j].last /\ text[j].req = r
        BY <2>3 DEF IndexOf
      <4>2. j \in DOMAIN text /\ i + 1 \in DOMAIN text /\ j # i + 1
        BY <1>0, <2>1
      <4>. QED
        BY <3>1, <4>1, <4>2
    <3>5. IsInjective(t)
      <4>. SUFFICES ASSUME NEW k \in 1..(Len(s) + 1), NEW l \in 1..(Len(s) + 1), t[k] = t[l]
                    PROVE  k = l
        BY <3>2 DEF IsInjective
      <4>1. (k = Len(s) + 1 \/ k \in 1..Len(s)) /\ (l = Len(s) + 1 \/ l \in 1..Len(s))
        BY <2>2
      <4>. QED
        BY <2>2, <2>3, <3>2, <3>4, <4>1 DEF IsInjective
    <3>. QED
      BY <2>1, <3>1, <3>3, <3>5 DEF t
  <2>. QED
    BY <2>4, <2>5
<1>3. 0..Len(text) \subseteq T
  <2>. HIDE DEF T
  <2>. QED
    BY <1>0, <1>1, <1>2, Induct
<1>. QED
  BY <1>3

--------------------------------------------------------------------------------
(***************************************************************************)
(* What the viewer keeps: its index is one stretch of the day's file, from *)
(* the beginning unless the user has changed days while a scan was under   *)
(* way, and a scan that is under way goes on where the index ends or was   *)
(* overtaken by such a change.                                             *)
(***************************************************************************)
Days ==
  /\ day \in made \cup {0}
  /\ day = 0 => all = <<>> /\ consumed = 0

Indexed ==
  day # 0 =>
    /\ Boundary(file[day], consumed)
    /\ \E b \in 0..consumed : /\ Boundary(file[day], b)
                              /\ all = Index(file[day], b, consumed)
                              /\ clicks = 0 => b = 0

Scanned ==
  scan # NoScan =>
    /\ Boundary(file[scan.day], scan.from)
    /\ scan.reset => scan.from = 0
    /\ scan.day = day /\ ~scan.reset =>
         consumed = scan.from \/ (consumed = 0 /\ all = <<>> /\ clicks # 0)
    /\ clicks = 0 => scan.day <= day
    /\ scan.at = "read" =>
         /\ scan.from <= scan.upto /\ Boundary(file[scan.day], scan.upto)
         /\ scan.got = Index(file[scan.day], scan.from, scan.upto)

Table == rows.pending \cap Range(rows.recorded) = {} /\ IsInjective(rows.recorded)

VInv == TypeOK /\ Table /\ Days /\ Indexed /\ Scanned

LEMMA Dates ==
  /\ MaxDay \in Nat /\ 0 \in 0..MaxDay /\ 0 \notin Day /\ Day \subseteq Nat
  /\ \A d \in Day : d \in 0..MaxDay /\ d <= MaxDay
  /\ MaxClicks \in Nat
BY LogAssumption, ClickAssumption DEF Day

LEMMA Files ==
  ASSUME LogInv, NEW d \in Day
  PROVE  /\ file[d] \in Seq(Piece) /\ Len(file[d]) \in Nat /\ DOMAIN file[d] = 1..Len(file[d])
         /\ \A i : Boundary(file[d], i) => i \in 0..Len(file[d])
<1>1. file[d] \in Seq(Piece)
  BY DEF LogInv, LogTypeOK
<1>. QED
  BY <1>1, LenProperties DEF Boundary

(* A file is only appended to, and a day that has a file keeps it.           *)
LEMMA FilesGrow ==
  ASSUME LogInv, LogNext \/ UNCHANGED logVars
  PROVE  /\ made \subseteq made'
         /\ \A d \in Day : /\ Len(file'[d]) \in Nat /\ Len(file[d]) <= Len(file'[d])
                           /\ \A i \in DOMAIN file[d] : file'[d][i] = file[d][i]
<1>. DEFINE Left == /\ made \subseteq made'
                    /\ \A d \in Day : /\ Len(file'[d]) \in Nat /\ Len(file[d]) <= Len(file'[d])
                                      /\ \A i \in DOMAIN file[d] : file'[d][i] = file[d][i]
<1>1. ASSUME made \subseteq made', file' = file PROVE Left
  BY <1>1, Files
<1>2. ASSUME NEW r \in Req, NEW last \in BOOLEAN, made \subseteq made', Wrote(r, last),
             stage[r] \in {"flush", "cut"}
      PROVE  Left
  <2>. DEFINE e == end[r].day
              p == Text(r, last)
  <2>1. e \in Day /\ p \in Piece /\ file' = [file EXCEPT ![e] = Append(@, p)] /\ LogTypeOK
    BY <1>2 DEF LogInv, LogTypeOK, Stages, Wrote, Text, Piece
  <2>. HIDE DEF e, p
  <2>2. ASSUME NEW d \in Day
        PROVE  /\ Len(file'[d]) \in Nat /\ Len(file[d]) <= Len(file'[d])
               /\ \A i \in DOMAIN file[d] : file'[d][i] = file[d][i]
    <3>1. CASE d = e
      BY <2>1, <3>1, Grown
    <3>2. CASE d # e
      <4>1. file'[d] = file[d]
        BY <2>1, <3>2, Grown
      <4>. QED
        BY <4>1, Files
    <3>. QED
      BY <3>1, <3>2
  <2>. QED
    BY <1>2, <2>2
<1>. HIDE DEF Left
<1>3. ASSUME NEW r \in Req, WriteSome(r) \/ WriteRest(r) PROVE Left
  <2>1. CASE WriteSome(r)
    BY <1>2, <2>1 DEF WriteSome, Become
  <2>2. CASE WriteRest(r)
    BY <1>2, <2>2 DEF WriteRest, Become
  <2>. QED
    BY <1>3, <2>1, <2>2
<1>4. ASSUME NEW r \in Req,
             \/ Start(r) \/ Finish(r) \/ HangUp(r) \/ Drop(r)
             \/ OpenError(r) \/ WriteError(r) \/ Deregister(r)
      PROVE  Left
  <2>1. file' = file /\ made \subseteq made'
    BY <1>4 DEF Start, Finish, HangUp, Ends, Drop, OpenError, WriteError, Deregister
  <2>. QED
    BY <1>1, <2>1
<1>5. ASSUME DaemonExit \/ Midnight \/ UNCHANGED logVars PROVE Left
  BY <1>1, <1>5 DEF DaemonExit, Midnight, logVars
<1>6. Left
  BY <1>3, <1>4, <1>5 DEF LogNext
<1>. QED
  BY <1>6 DEF Left

LEMMA AllOnce == ASSUME LogInv, VInv PROVE IsInjective(all)
<1>1. CASE day = 0
  BY <1>1 DEF VInv, Days, IsInjective
<1>2. CASE day # 0
  <2>1. day \in Day
    BY <1>2 DEF VInv, Days, LogInv, LogTypeOK
  <2>2. PICK b \in 0..consumed : all = Index(file[day], b, consumed)
    BY <1>2 DEF VInv, Indexed
  <2>3. consumed \in 0..Len(file[day]) /\ b \in Nat
    BY <1>2, <2>1, Files DEF VInv, Indexed
  <2>4. \A i, j \in DOMAIN file[day] :
          file[day][i].req = file[day][j].req /\ file[day][i].last = file[day][j].last => i = j
    BY <2>1 DEF LogInv, Once
  <2>. QED
    BY <2>1, <2>2, <2>3, <2>4, Files, IndexOnce
<1>. QED
  BY <1>1, <1>2

--------------------------------------------------------------------------------
(* Steps of the daemon. *)

LEMMA BoundaryStays ==
  ASSUME NEW s \in Seq(Piece), NEW t \in Seq(Piece), Len(s) <= Len(t),
         \A i \in DOMAIN s : t[i] = s[i], NEW n, Boundary(s, n)
  PROVE  /\ Boundary(t, n) /\ n \in 0..Len(s)
         /\ \A from : Index(t, from, n) = Index(s, from, n)
<1>1. /\ Len(s) \in Nat /\ DOMAIN s = 1..Len(s)
      /\ Len(t) \in Nat /\ DOMAIN t = 1..Len(t)
  BY LenProperties
<1>2. Boundary(t, n) /\ n \in 0..Len(s)
  BY <1>1 DEF Boundary
<1>. QED
  BY <1>1, <1>2, IndexAgrees

LEMMA LogNextVInv ==
  ASSUME LogInv, LogInv', VInv, LogNext \/ UNCHANGED logVars, UNCHANGED viewVars PROVE VInv'
<1>1. /\ UNCHANGED <<day, latest, all, consumed, live, rows, scan, fetch, follow, clicks>>
      /\ made \subseteq made'
  BY FilesGrow DEF viewVars
<1>2. \A d \in Day : \A n : Boundary(file[d], n) =>
        /\ Boundary(file'[d], n)
        /\ \A from : Index(file'[d], from, n) = Index(file[d], from, n)
  <2>. TAKE d \in Day
  <2>1. file[d] \in Seq(Piece) /\ file'[d] \in Seq(Piece)
    BY DEF LogInv, LogTypeOK
  <2>. QED
    BY <2>1, FilesGrow, BoundaryStays
<1>3. TypeOK' /\ Table' /\ Days'
  BY <1>1 DEF VInv, TypeOK, Table, Days, LogInv
<1>4. Indexed'
  <2>. SUFFICES ASSUME day # 0
                PROVE  /\ Boundary(file'[day], consumed)
                       /\ \E b \in 0..consumed : /\ Boundary(file'[day], b)
                                                 /\ all = Index(file'[day], b, consumed)
                                                 /\ clicks = 0 => b = 0
    BY <1>1 DEF Indexed, Index, Boundary
  <2>1. day \in Day
    BY DEF VInv, Days, LogInv, LogTypeOK
  <2>2. Boundary(file[day], consumed)
    BY DEF VInv, Indexed
  <2>3. PICK b \in 0..consumed : /\ Boundary(file[day], b)
                                 /\ all = Index(file[day], b, consumed)
                                 /\ clicks = 0 => b = 0
    BY DEF VInv, Indexed
  <2>. QED
    BY <1>2, <2>1, <2>2, <2>3
<1>5. Scanned'
  <2>. SUFFICES ASSUME scan # NoScan
                PROVE  /\ Boundary(file'[scan.day], scan.from)
                       /\ scan.at = "read" =>
                            /\ Boundary(file'[scan.day], scan.upto)
                            /\ scan.got = Index(file'[scan.day], scan.from, scan.upto)
    BY <1>1 DEF VInv, Scanned, Index, Boundary
  <2>1. scan.day \in Day
    BY DEF VInv, TypeOK, Scan
  <2>. QED
    BY <1>2, <2>1 DEF VInv, Scanned
<1>. QED
  BY <1>3, <1>4, <1>5 DEF VInv

--------------------------------------------------------------------------------
(* The viewer's own steps. *)

(* What starting a scan does: one is started, or nothing but the table       *)
(* changes.                                                                  *)
NewScan(d, from, reset, relist) ==
  [at |-> "asked", day |-> d, from |-> from, reset |-> reset, relist |-> relist,
   got |-> <<>>, upto |-> 0]

LEMMA Filtered ==
  ASSUME NEW d, NEW last, NEW index \in Seq(Req), IsInjective(index), NEW pending \in SUBSET Req,
         ApplyFilter(d, last, index, pending)
  PROVE  rows' \in [pending : SUBSET Req, recorded : Seq(Req)] /\ Table'
<1>. DEFINE p == IF d = 0 \/ d = last THEN pending \ Range(index) ELSE {}
<1>1. rows' = [pending |-> p, recorded |-> index]
  BY DEF ApplyFilter
<1>2. p \in SUBSET Req /\ p \cap Range(index) = {}
  OBVIOUS
<1>. HIDE DEF p
<1>. QED
  BY <1>1, <1>2 DEF Table

LEMMA ScanStarted ==
  ASSUME VInv, NEW d \in 0..MaxDay, NEW last, NEW index \in Seq(Req), IsInjective(index),
         NEW pending \in SUBSET Req, NEW from \in Nat, NEW reset \in BOOLEAN, NEW relist \in BOOLEAN,
         StartScan(d, last, index, pending, from, reset, relist)
  PROVE  /\ rows' \in [pending : SUBSET Req, recorded : Seq(Req)] /\ Table'
         /\ scan' = NoScan \/ scan' \in Scan
         /\ \/ scan' = scan
            \/ d \in Day /\ scan' # NoScan /\ scan' = NewScan(d, from, reset, relist)
<1>1. CASE scan # NoScan \/ d = 0
  <2>1. scan' = scan
    BY <1>1 DEF StartScan
  <2>2. ApplyFilter(d, last, index, pending) \/ rows' = rows
    BY <1>1 DEF StartScan
  <2>3. CASE ApplyFilter(d, last, index, pending)
    BY <2>1, <2>3, Filtered DEF VInv, TypeOK
  <2>4. CASE rows' = rows
    BY <2>1, <2>4 DEF VInv, TypeOK, Table
  <2>. QED
    BY <2>1, <2>2, <2>3, <2>4
<1>2. CASE scan = NoScan /\ d # 0
  <2>1. rows' = rows
    BY <1>2 DEF StartScan
  <2>2. scan' = NewScan(d, from, reset, relist)
    BY <1>2 DEF StartScan, NoScan, NewScan
  <2>3. d \in Day
    BY <1>2, Dates DEF Day
  <2>4. NewScan(d, from, reset, relist) \in Scan
    BY <2>3, EmptySeq DEF NewScan, Scan
  <2>5. scan'.at = "asked" /\ NoScan.at = "none"
    BY <2>2 DEF NewScan, NoScan
  <2>. QED
    BY <2>1, <2>2, <2>3, <2>4, <2>5 DEF VInv, TypeOK, Table
<1>. QED
  BY <1>1, <1>2

LEMMA MaxOfMade ==
  ASSUME LogInv, made # {}
  PROVE  LET last == CHOOSE d \in made : \A e \in made : e <= d
         IN  last \in made /\ \A e \in made : e <= last
<1>1. made \subseteq Day
  BY DEF LogInv, LogTypeOK
<1>2. made \subseteq Nat /\ \A e \in made : e <= MaxDay
  BY <1>1, Dates
<1>3. \E d \in made : \A e \in made : e <= d
  BY <1>2, Dates, Greatest
<1>. QED
  BY <1>3

(* Another day empties the index, the same one is scanned anew.  Without a   *)
(* click the day on display is never followed by an earlier one.             *)
LEMMA Reloaded ==
  ASSUME LogInv, VInv, UNCHANGED <<made, file>>, NEW wanted \in made \cup {0},
         NEW pending \in SUBSET Req, ReloadDays(wanted, pending),
         clicks' \in 0..MaxClicks, clicks' = clicks \/ clicks' > 0,
         clicks' = 0 => wanted = 0 \/ \A e \in made : e <= wanted
  PROVE  /\ day' \in 0..MaxDay /\ latest' \in 0..MaxDay
         /\ all' \in Seq(Req) /\ consumed' \in Nat
         /\ rows' \in [pending : SUBSET Req, recorded : Seq(Req)] /\ Table'
         /\ scan' = NoScan \/ scan' \in Scan
         /\ Days' /\ Indexed' /\ Scanned'
<1>. DEFINE last == IF made = {} THEN 0 ELSE CHOOSE d \in made : \A e \in made : e <= d
            target == IF wanted # 0 THEN wanted ELSE IF day \in made THEN day ELSE last
<1>1. last \in made \cup {0} /\ (last = 0 => made = {}) /\ \A e \in made : e <= last
  <2>1. made \subseteq Day
    BY DEF LogInv, LogTypeOK
  <2>. QED
    BY <2>1, MaxOfMade, Dates
<1>2. /\ latest' = last
      /\ day' = IF target \in made THEN target ELSE 0
      /\ all' = IF target \in made /\ target = day THEN all ELSE <<>>
      /\ consumed' = IF target \in made /\ target # day THEN 0 ELSE consumed
      /\ IF target \in made
         THEN StartScan(target, last, all', pending, 0, TRUE, FALSE)
         ELSE ApplyFilter(0, last, <<>>, pending) /\ UNCHANGED scan
  BY DEF ReloadDays
<1>3. /\ made \subseteq Day /\ day \in made \cup {0} /\ clicks \in Nat
      /\ all \in Seq(Req) /\ consumed \in Nat /\ <<>> \in Seq(Req)
      /\ made \cup {0} \subseteq 0..MaxDay
  BY Dates, EmptySeq DEF LogInv, LogTypeOK, VInv, TypeOK, Days
<1>4. /\ target \in made \cup {0}
      /\ target \notin made => day = 0
      /\ clicks' = 0 => day <= target
  <2>1. target \in made \cup {0}
    BY <1>1
  <2>2. target \notin made => day = 0
    BY <1>1, <1>3, Dates
  <2>. HIDE DEF target
  <2>3. /\ day \in Nat /\ day <= day /\ target \in Nat
        /\ day \in made => day <= last
        /\ day \notin made => day <= target
    <3>1. made \cup {0} \subseteq Nat
      BY <1>3, Dates
    <3>2. day \in Nat /\ target \in Nat
      BY <1>3, <2>1, <3>1
    <3>3. day \notin made => day = 0
      BY <1>3
    <3>4. day \in made => day <= last
      BY <1>1
    <3>. QED
      BY <3>2, <3>3, <3>4
  <2>. USE DEF target
  <2>4. ASSUME clicks' = 0 PROVE day <= target
    <3>1. CASE wanted = 0
      BY <2>3, <3>1
    <3>2. CASE wanted # 0 /\ \A e \in made : e <= wanted
      BY <1>3, <2>3, <3>2
    <3>. QED
      BY <2>4, <3>1, <3>2
  <2>. QED
    BY <2>1, <2>2, <2>4
<1>. HIDE DEF last, target
<1>5. all' \in Seq(Req) /\ IsInjective(all')
  BY <1>2, <1>3, AllOnce DEF IsInjective
<1>6. /\ rows' \in [pending : SUBSET Req, recorded : Seq(Req)] /\ Table'
      /\ scan' = NoScan \/ scan' \in Scan
      /\ \/ scan' = scan
         \/ target \in made /\ scan' # NoScan /\ scan' = NewScan(target, 0, TRUE, FALSE)
  <2>1. CASE target \in made
    <3>1. target \in 0..MaxDay /\ StartScan(target, last, all', pending, 0, TRUE, FALSE)
      BY <1>2, <1>3, <2>1
    <3>. QED
      BY <1>5, <2>1, <3>1, ScanStarted
  <2>2. CASE target \notin made
    <3>1. <<>> \in Seq(Req) /\ IsInjective(<<>>) /\ scan' = scan
      BY <1>2, <1>3, <2>2 DEF IsInjective
    <3>. QED
      BY <1>2, <2>2, <3>1, Filtered DEF VInv, TypeOK
  <2>. QED
    BY <2>1, <2>2
<1>7. Days'
  BY <1>2, <1>3, <1>4 DEF VInv, Days
<1>8. Indexed'
  <2>. SUFFICES ASSUME day' # 0
                PROVE  /\ Boundary(file[day'], consumed')
                       /\ \E b \in 0..consumed' : /\ Boundary(file[day'], b)
                                                  /\ all' = Index(file[day'], b, consumed')
                                                  /\ clicks' = 0 => b = 0
    BY DEF Indexed, Index, Boundary
  <2>1. target \in made /\ day' = target /\ target \in Day
    BY <1>2, <1>3
  <2>2. CASE target = day
    <3>1. all' = all /\ consumed' = consumed /\ day # 0
      BY <1>2, <2>1, <2>2, Dates
    <3>2. clicks' = 0 => clicks = 0
      BY <1>3
    <3>. QED
      BY <2>1, <2>2, <3>1, <3>2 DEF VInv, Indexed
  <2>3. CASE target # day
    <3>1. all' = <<>> /\ consumed' = 0
      BY <1>2, <2>1, <2>3
    <3>2. Index(file[target], 0, 0) = <<>>
      BY <2>1, Files, IndexSteps
    <3>. QED
      BY <2>1, <3>1, <3>2 DEF Boundary
  <2>. QED
    BY <2>2, <2>3
<1>9. Scanned'
  <2>. SUFFICES ASSUME scan' # NoScan
                PROVE  /\ Boundary(file[scan'.day], scan'.from)
                       /\ scan'.reset => scan'.from = 0
                       /\ scan'.day = day' /\ ~scan'.reset =>
                            \/ consumed' = scan'.from
                            \/ consumed' = 0 /\ all' = <<>> /\ clicks' # 0
                       /\ clicks' = 0 => scan'.day <= day'
                       /\ scan'.at = "read" =>
                            /\ scan'.from <= scan'.upto /\ Boundary(file[scan'.day], scan'.upto)
                            /\ scan'.got = Index(file[scan'.day], scan'.from, scan'.upto)
    BY DEF Scanned, Index, Boundary, NoScan
  <2>1. CASE target \in made /\ scan' = NewScan(target, 0, TRUE, FALSE)
    <3>1. day' = target /\ target \in Nat
      BY <1>2, <1>3, <2>1, Dates
    <3>. QED
      BY <2>1, <3>1 DEF NewScan, Boundary
  <2>2. CASE scan' = scan
    <3>1. scan \in Scan /\ scan.day \in Day
      BY <2>2 DEF VInv, TypeOK, Scan
    <3>2. /\ Boundary(file[scan.day], scan.from)
          /\ scan.reset => scan.from = 0
          /\ scan.day = day /\ ~scan.reset =>
               consumed = scan.from \/ (consumed = 0 /\ all = <<>> /\ clicks # 0)
          /\ clicks = 0 => scan.day <= day
          /\ scan.at = "read" =>
               /\ scan.from <= scan.upto /\ Boundary(file[scan.day], scan.upto)
               /\ scan.got = Index(file[scan.day], scan.from, scan.upto)
      BY <2>2 DEF VInv, Scanned
    <3>3. /\ clicks' = 0 => clicks = 0
          /\ day \in Nat /\ target \in Nat /\ scan.day \in Nat /\ scan.day # 0
      <4>1. clicks' = 0 => clicks = 0
        BY <1>3
      <4>2. made \cup {0} \subseteq Nat
        BY <1>3, Dates
      <4>3. scan.day \in Nat /\ scan.day # 0
        BY <3>1, Dates
      <4>. QED
        BY <1>3, <1>4, <4>1, <4>2, <4>3
    <3>4. clicks' = 0 => scan.day <= day'
      <4>1. target \notin made => ~(clicks' = 0)
        BY <1>4, <3>2, <3>3
      <4>. QED
        BY <1>2, <1>4, <3>2, <3>3, <4>1
    <3>5. ASSUME scan.day = day', ~scan.reset
          PROVE  consumed' = scan.from \/ (consumed' = 0 /\ all' = <<>> /\ clicks' # 0)
      <4>1. target \in made /\ target = scan.day
        BY <1>2, <3>3, <3>5
      <4>2. CASE target = day
        BY <1>2, <1>3, <3>2, <3>3, <3>5, <4>1, <4>2
      <4>3. CASE target # day
        <5>1. clicks' # 0
          BY <1>4, <3>2, <3>3, <4>1, <4>3
        <5>. QED
          BY <1>2, <4>1, <4>3, <5>1
      <4>. QED
        BY <4>2, <4>3
    <3>. QED
      BY <2>2, <3>2, <3>4, <3>5
  <2>. QED
    BY <1>6, <2>1, <2>2
<1>. QED
  BY <1>1, <1>2, <1>3, <1>4, <1>5, <1>6, <1>7, <1>8, <1>9

LEMMA TickVInv == ASSUME LogInv, LogInv', VInv, UNCHANGED logVars, Tick PROVE VInv'
<1>1. /\ UNCHANGED <<made, file, live, follow, clicks>> /\ clicks \in 0..MaxClicks
      /\ live \in SUBSET Req /\ follow \in BOOLEAN
  BY DEF Tick, logVars, VInv, TypeOK
<1>2. CASE made # {} /\ day \notin {d \in made : \A e \in made : e <= d}
  <2>. DEFINE last == CHOOSE d \in made : \A e \in made : e <= d
  <2>1. ReloadDays(last, live) /\ UNCHANGED fetch
    BY <1>2 DEF Tick
  <2>2. last \in made /\ \A e \in made : e <= last
    BY <1>2, MaxOfMade
  <2>. HIDE DEF last
  <2>3. /\ day' \in 0..MaxDay /\ latest' \in 0..MaxDay
        /\ all' \in Seq(Req) /\ consumed' \in Nat
        /\ rows' \in [pending : SUBSET Req, recorded : Seq(Req)] /\ Table'
        /\ scan' = NoScan \/ scan' \in Scan
        /\ Days' /\ Indexed' /\ Scanned'
    BY <1>1, <2>1, <2>2, Reloaded
  <2>. QED
    BY <1>1, <2>1, <2>3 DEF VInv, TypeOK, LogInv
<1>3. CASE ~(made # {} /\ day \notin {d \in made : \A e \in made : e <= d})
  <2>1. /\ fetch' = [NoFetch EXCEPT !.at = "asked"]
        /\ UNCHANGED <<day, latest, all, consumed, rows, scan>>
    BY <1>3 DEF Tick
  <2>2. fetch' \in Fetch
    BY <2>1 DEF NoFetch, Fetch
  <2>3. Table' /\ Days' /\ Indexed' /\ Scanned'
    BY <1>1, <2>1 DEF VInv, Table, Days, Indexed, Scanned, Index, Boundary
  <2>. QED
    BY <1>1, <2>1, <2>2, <2>3 DEF VInv, TypeOK, LogInv
<1>. QED
  BY <1>2, <1>3

LEMMA FetchDoneVInv == ASSUME LogInv, LogInv', VInv, UNCHANGED logVars, FetchDone PROVE VInv'
<1>1. /\ UNCHANGED <<made, file, follow, clicks>> /\ clicks \in 0..MaxClicks
      /\ follow \in BOOLEAN /\ live' = fetch.got /\ fetch' = NoFetch
  BY DEF FetchDone, logVars, VInv, TypeOK
<1>2. fetch.got \in SUBSET Req
  BY DEF VInv, TypeOK, NoFetch, Fetch
<1>3. CASE fetch.first
  <2>1. ReloadDays(0, fetch.got)
    BY <1>3 DEF FetchDone
  <2>2. /\ day' \in 0..MaxDay /\ latest' \in 0..MaxDay
        /\ all' \in Seq(Req) /\ consumed' \in Nat
        /\ rows' \in [pending : SUBSET Req, recorded : Seq(Req)] /\ Table'
        /\ scan' = NoScan \/ scan' \in Scan
        /\ Days' /\ Indexed' /\ Scanned'
    BY <1>1, <1>2, <2>1, Reloaded
  <2>. QED
    BY <1>1, <1>2, <2>2 DEF VInv, TypeOK, LogInv
<1>4. CASE ~fetch.first
  <2>. DEFINE relist == live # {} \/ fetch.got # {}
  <2>1. /\ StartScan(day, latest, all, fetch.got, consumed, FALSE, relist)
        /\ UNCHANGED <<day, latest, all, consumed>>
    BY <1>4 DEF FetchDone
  <2>2. relist \in BOOLEAN /\ day \in 0..MaxDay /\ all \in Seq(Req) /\ consumed \in Nat
    BY DEF VInv, TypeOK
  <2>. HIDE DEF relist
  <2>3. /\ rows' \in [pending : SUBSET Req, recorded : Seq(Req)] /\ Table'
        /\ scan' = NoScan \/ scan' \in Scan
        /\ \/ scan' = scan
           \/ day \in Day /\ scan' # NoScan /\ scan' = NewScan(day, consumed, FALSE, relist)
    BY <1>2, <2>1, <2>2, AllOnce, ScanStarted
  <2>4. Days' /\ Indexed'
    BY <1>1, <2>1 DEF VInv, Days, Indexed, Index, Boundary
  <2>5. Scanned'
    <3>1. CASE scan' = scan
      BY <1>1, <2>1, <3>1 DEF VInv, Scanned, Index, Boundary
    <3>2. CASE day \in Day /\ scan' = NewScan(day, consumed, FALSE, relist)
      <4>1. day # 0 /\ day <= day
        BY <3>2, Dates
      <4>2. Boundary(file[day], consumed)
        BY <4>1 DEF VInv, Indexed
      <4>. QED
        BY <1>1, <2>1, <3>2, <4>1, <4>2 DEF Scanned, NewScan, Boundary
    <3>. QED
      BY <2>3, <3>1, <3>2
  <2>. QED
    BY <1>1, <1>2, <2>1, <2>3, <2>4, <2>5 DEF VInv, TypeOK, LogInv
<1>. QED
  BY <1>3, <1>4

(* A scan that went on where the index ends extends it; one that was         *)
(* overtaken by a change of day and back begins another stretch.             *)
LEMMA ScanDoneVInv == ASSUME LogInv, LogInv', VInv, UNCHANGED logVars, ScanDone PROVE VInv'
<1>1. /\ scan.at = "read" /\ scan' = NoScan /\ UNCHANGED <<made, file>>
      /\ UNCHANGED <<day, latest, live, fetch, follow, clicks>>
  BY DEF ScanDone, logVars
<1>2. /\ scan # NoScan /\ scan \in Scan /\ scan.day \in Day /\ scan.got \in Seq(Req)
      /\ scan.from \in Nat /\ scan.upto \in Nat
  BY <1>1 DEF VInv, TypeOK, Scan, NoScan
<1>3. Scanned'
  BY <1>1 DEF Scanned
<1>4. CASE scan.day # day
  <2>1. UNCHANGED <<all, consumed, rows>>
    BY <1>4 DEF ScanDone
  <2>2. Table' /\ Days' /\ Indexed'
    BY <1>1, <2>1 DEF VInv, Table, Days, Indexed, Index, Boundary
  <2>. QED
    BY <1>1, <1>3, <2>1, <2>2 DEF VInv, TypeOK, LogInv
<1>5. CASE scan.day = day
  <2>1. /\ all' = IF scan.reset THEN scan.got ELSE all \o scan.got
        /\ consumed' = scan.upto
        /\ ApplyFilter(day, latest, all', live) \/ rows' = rows
    BY <1>5 DEF ScanDone
  <2>. DEFINE text == file[day]
  <2>2. /\ day # 0 /\ day \in Day
        /\ text \in Seq(Piece) /\ Len(text) \in Nat
        /\ \A i : Boundary(text, i) => i \in 0..Len(text)
    BY <1>2, <1>5, Dates, Files
  <2>3. /\ scan.from <= scan.upto /\ Boundary(text, scan.upto) /\ Boundary(text, scan.from)
        /\ scan.got = Index(text, scan.from, scan.upto)
        /\ scan.reset => scan.from = 0
        /\ ~scan.reset => consumed = scan.from \/ (consumed = 0 /\ all = <<>> /\ clicks # 0)
    BY <1>1, <1>2, <1>5 DEF VInv, Scanned
  <2>4. scan.upto \in 0..Len(text) /\ scan.from \in 0..scan.upto
    BY <1>2, <2>2, <2>3
  <2>. HIDE DEF text
  <2>5. \E b \in 0..scan.upto : /\ Boundary(text, b)
                                /\ all' = Index(text, b, scan.upto)
                                /\ clicks = 0 => b = 0
    <3>1. CASE scan.reset
      BY <2>1, <2>3, <2>4, <3>1
    <3>2. CASE ~scan.reset /\ consumed = scan.from
      <4>1. PICK b \in 0..consumed : /\ Boundary(text, b)
                                     /\ all = Index(text, b, consumed)
                                     /\ clicks = 0 => b = 0
        BY <2>2 DEF VInv, Indexed, text
      <4>2. consumed \in 0..Len(text) /\ scan.upto \in consumed..Len(text) /\ b \in 0..scan.upto
        BY <1>2, <2>2, <2>3, <2>4, <3>2
      <4>3. Index(text, b, scan.upto) = Index(text, b, consumed) \o Index(text, consumed, scan.upto)
        BY <2>2, <2>3, <3>2, <4>2, IndexJoins
      <4>. QED
        BY <2>1, <2>3, <3>2, <4>1, <4>2, <4>3
    <3>3. CASE ~scan.reset /\ all = <<>> /\ clicks # 0
      <4>1. all' = scan.got
        BY <1>2, <2>1, <3>3, ConcatEmptySeq
      <4>. QED
        BY <2>3, <2>4, <3>3, <4>1
    <3>. QED
      BY <2>3, <3>1, <3>2, <3>3
  <2>6. Indexed'
    BY <1>1, <2>1, <2>3, <2>5 DEF Indexed, Index, Boundary, text
  <2>7. all' \in Seq(Req) /\ IsInjective(all')
    <3>1. PICK b \in 0..scan.upto : all' = Index(text, b, scan.upto)
      BY <2>5
    <3>2. b \in Nat
      BY <2>4
    <3>3. \A i, j \in DOMAIN text :
            text[i].req = text[j].req /\ text[i].last = text[j].last => i = j
      BY <2>2 DEF LogInv, Once, text
    <3>. QED
      BY <2>2, <2>4, <3>1, <3>2, <3>3, IndexOnce, IndexSteps
  <2>8. live \in SUBSET Req
    BY DEF VInv, TypeOK
  <2>9. rows' \in [pending : SUBSET Req, recorded : Seq(Req)] /\ Table'
    <3>1. CASE ApplyFilter(day, latest, all', live)
      BY <2>7, <2>8, <3>1, Filtered
    <3>2. CASE rows' = rows
      BY <3>2 DEF VInv, TypeOK, Table
    <3>. QED
      BY <2>1, <3>1, <3>2
  <2>10. Days'
    BY <1>1, <2>2 DEF VInv, Days
  <2>. QED
    BY <1>1, <1>2, <1>3, <2>1, <2>6, <2>7, <2>9, <2>10 DEF VInv, TypeOK, LogInv
<1>. QED
  BY <1>4, <1>5

LEMMA ClicksVInv ==
  ASSUME LogInv, LogInv', VInv, UNCHANGED logVars,
         (\E d \in Day : PickDay(d)) \/ Refresh \/ ToggleFollow
  PROVE  VInv'
<1>1. UNCHANGED <<made, file, live, fetch>> /\ follow' \in BOOLEAN /\ live \in SUBSET Req
  BY DEF PickDay, Refresh, ToggleFollow, logVars, VInv, TypeOK
<1>2. clicks' \in 0..MaxClicks /\ clicks' > 0
  <2>1. clicks < MaxClicks /\ clicks' = clicks + 1
    BY DEF PickDay, Refresh, ToggleFollow, Click
  <2>. QED
    BY <2>1, Dates DEF VInv, TypeOK
<1>3. CASE ToggleFollow
  <2>1. UNCHANGED <<day, latest, all, consumed, rows, scan>>
    BY <1>3 DEF ToggleFollow
  <2>2. Table' /\ Days' /\ Indexed'
    BY <1>1, <1>2, <2>1 DEF VInv, Table, Days, Indexed, Index, Boundary
  <2>3. Scanned'
    BY <1>1, <1>2, <2>1 DEF VInv, Scanned, Index, Boundary
  <2>. QED
    BY <1>1, <1>2, <2>1, <2>2, <2>3 DEF VInv, TypeOK, LogInv
<1>4. ASSUME NEW wanted \in made \cup {0}, ReloadDays(wanted, live) PROVE VInv'
  <2>1. /\ day' \in 0..MaxDay /\ latest' \in 0..MaxDay
        /\ all' \in Seq(Req) /\ consumed' \in Nat
        /\ rows' \in [pending : SUBSET Req, recorded : Seq(Req)] /\ Table'
        /\ scan' = NoScan \/ scan' \in Scan
        /\ Days' /\ Indexed' /\ Scanned'
    BY <1>1, <1>2, <1>4, Reloaded
  <2>. QED
    BY <1>1, <1>2, <2>1 DEF VInv, TypeOK, LogInv
<1>5. CASE \E d \in Day : PickDay(d)
  BY <1>4, <1>5 DEF PickDay
<1>6. CASE Refresh
  <2>1. day \in made \cup {0} /\ ReloadDays(day, live)
    BY <1>6 DEF Refresh, VInv, Days
  <2>. QED
    BY <1>4, <2>1
<1>. QED
  BY <1>3, <1>5, <1>6

(* An answer of the feed or none. *)
LEMMA FeedVInv ==
  ASSUME LogInv, LogInv', VInv, UNCHANGED <<made, file>>, FeedAnswers \/ FeedSilent PROVE VInv'
<1>1. UNCHANGED <<day, latest, all, consumed, live, rows, scan, follow, clicks>>
  BY DEF FeedAnswers, FeedSilent
<1>2. fetch' = NoFetch \/ fetch' \in Fetch
  <2>1. fetch.at = "asked" /\ \E got \in SUBSET Req :
          fetch' = [fetch EXCEPT !.at = "answered", !.got = got]
    BY DEF FeedAnswers, FeedSilent, LogInv, LogTypeOK
  <2>2. fetch \in Fetch
    BY <2>1 DEF VInv, TypeOK, NoFetch
  <2>. QED
    BY <2>1, <2>2 DEF Fetch
<1>3. Table' /\ Days' /\ Indexed' /\ Scanned'
  BY <1>1 DEF VInv, Table, Days, Indexed, Scanned, Index, Boundary
<1>. QED
  BY <1>1, <1>2, <1>3 DEF VInv, TypeOK, LogInv

(* A scan stops at the last newline.                                         *)
LEMMA LastLineRight ==
  ASSUME NEW text \in Seq(Piece), NEW from, Boundary(text, from)
  PROVE  /\ LastLine(text, from) \in 0..Len(text) /\ from <= LastLine(text, from)
         /\ Boundary(text, LastLine(text, from))
         /\ \A i \in DOMAIN text : i > LastLine(text, from) => ~text[i].last
<1>. DEFINE ends == {i \in DOMAIN text : i > from /\ text[i].last}
<1>1. Len(text) \in Nat /\ DOMAIN text = 1..Len(text) /\ from \in 0..Len(text)
  BY LenProperties DEF Boundary
<1>2. CASE ends = {}
  <2>1. LastLine(text, from) = from
    BY <1>2 DEF LastLine
  <2>. QED
    BY <1>1, <1>2, <2>1
<1>3. CASE ends # {}
  <2>1. ends \subseteq Nat /\ \A i \in ends : i <= Len(text)
    BY <1>1
  <2>. DEFINE m == CHOOSE i \in ends : \A j \in ends : j <= i
  <2>2. m \in ends /\ \A j \in ends : j <= m
    <3>. HIDE DEF ends
    <3>1. \E i \in ends : \A j \in ends : j <= i
      BY <1>1, <1>3, <2>1, Greatest
    <3>. QED
      BY <3>1
  <2>3. LastLine(text, from) = m
    BY <1>3 DEF LastLine
  <2>. HIDE DEF m
  <2>4. m \in DOMAIN text /\ m > from /\ text[m].last
    BY <2>2
  <2>5. \A i \in DOMAIN text : i > m => ~text[i].last
    <3>. SUFFICES ASSUME NEW i \in DOMAIN text, i > m, text[i].last PROVE FALSE
      OBVIOUS
    <3>1. i \in ends
      BY <1>1, <2>4
    <3>. HIDE DEF ends
    <3>2. i <= m
      BY <2>2, <3>1
    <3>. QED
      BY <1>1, <2>4, <3>2
  <2>. QED
    BY <1>1, <2>3, <2>4, <2>5 DEF Boundary
<1>. QED
  BY <1>2, <1>3

LEMMA ScanReadsVInv == ASSUME LogInv, LogInv', VInv, UNCHANGED logVars, ScanReads PROVE VInv'
<1>. DEFINE text == file[scan.day]
            upto == LastLine(text, scan.from)
            got == Records(text, scan.from)
<1>1. /\ scan.at = "asked"
      /\ scan' = [scan EXCEPT !.at = "read", !.got = got, !.upto = upto]
      /\ UNCHANGED <<made, file>>
      /\ UNCHANGED <<day, latest, all, consumed, live, rows, fetch, follow, clicks>>
  BY DEF ScanReads, logVars
<1>2. scan # NoScan /\ scan \in Scan /\ scan.day \in Day /\ scan.from \in Nat
  BY <1>1 DEF VInv, TypeOK, Scan, NoScan
<1>3. text \in Seq(Piece) /\ Len(text) \in Nat /\ Boundary(text, scan.from)
  BY <1>2, Files DEF VInv, Scanned
<1>. HIDE DEF text
<1>4. /\ upto \in 0..Len(text) /\ scan.from <= upto /\ Boundary(text, upto)
      /\ \A i \in DOMAIN text : i > upto => ~text[i].last
  BY <1>3, LastLineRight
<1>. HIDE DEF upto
<1>5. got = Index(text, scan.from, upto) /\ got \in Seq(Req)
  BY <1>2, <1>3, <1>4, IndexStops, IndexSteps
<1>. HIDE DEF got
<1>6. /\ scan' \in Scan /\ scan'.at = "read" /\ scan'.got = got /\ scan'.upto = upto
      /\ scan'.day = scan.day /\ scan'.from = scan.from /\ scan'.reset = scan.reset
  <2>1. upto \in Nat
    BY <1>3, <1>4
  <2>2. scan' = [at |-> "read", day |-> scan.day, from |-> scan.from, reset |-> scan.reset,
                 relist |-> scan.relist, got |-> got, upto |-> upto]
    BY <1>1, <1>2 DEF Scan
  <2>3. scan.reset \in BOOLEAN /\ scan.relist \in BOOLEAN
    BY <1>2 DEF Scan
  <2>4. scan' \in Scan
    BY <1>2, <1>5, <2>1, <2>2, <2>3 DEF Scan
  <2>. QED
    BY <2>2, <2>4
<1>7. Table' /\ Days' /\ Indexed'
  BY <1>1 DEF VInv, Table, Days, Indexed, Index, Boundary
<1>8. Scanned'
  BY <1>1, <1>2, <1>3, <1>4, <1>5, <1>6 DEF VInv, Scanned, Index, Boundary, text
<1>. QED
  BY <1>1, <1>6, <1>7, <1>8 DEF VInv, TypeOK, LogInv

LEMMA InitVInv == Init => VInv
<1>. SUFFICES ASSUME Init PROVE VInv
  OBVIOUS
<1>1. LogTypeOK
  BY InitLogInv DEF Init, LogInv
<1>2. fetch \in Fetch
  BY DEF Init, Fetch, NoFetch
<1>3. /\ <<>> \in Seq(Req) /\ DOMAIN <<>> = {}
      /\ 0 \in 0..MaxDay /\ 0 \in 0..MaxClicks
  BY Dates, EmptySeq
<1>4. rows \in [pending : SUBSET Req, recorded : Seq(Req)] /\ Table
  BY <1>3 DEF Init, Table, IsInjective
<1>5. TypeOK
  BY <1>1, <1>2, <1>3, <1>4 DEF Init, TypeOK
<1>. QED
  BY <1>4, <1>5 DEF Init, VInv, Days, Indexed, Scanned

LEMMA NextVInv == LogInv /\ LogInv' /\ VInv /\ [Next]_vars => VInv'
<1>. SUFFICES ASSUME LogInv, LogInv', VInv, [Next]_vars PROVE VInv'
  OBVIOUS
<1>1. CASE (LogNext \/ UNCHANGED logVars) /\ UNCHANGED viewVars
  BY <1>1, LogNextVInv
<1>2. CASE ViewNext /\ UNCHANGED logVars
  <2>1. CASE Tick \/ FetchDone \/ ScanDone \/ ScanReads
    BY <1>2, <2>1, TickVInv, FetchDoneVInv, ScanDoneVInv, ScanReadsVInv
  <2>2. CASE (\E d \in Day : PickDay(d)) \/ Refresh \/ ToggleFollow
    BY <1>2, <2>2, ClicksVInv
  <2>3. CASE FeedAnswers
    BY <1>2, <2>3, FeedVInv DEF logVars
  <2>. QED
    BY <1>2, <2>1, <2>2, <2>3 DEF ViewNext
<1>3. CASE FeedSilent
  <2>1. UNCHANGED <<made, file>>
    BY <1>3 DEF FeedSilent
  <2>. QED
    BY <1>3, <2>1, FeedVInv
<1>. QED
  BY <1>1, <1>2, <1>3 DEF Next, vars

--------------------------------------------------------------------------------
(* What the invariant says of the table and the index. *)

LEMMA TableOnce == ASSUME LogInv, VInv PROVE ShownOnce
BY AllOnce DEF VInv, Table, ShownOnce

LEMMA IndexOfDayRight == ASSUME LogInv, VInv PROVE IndexRight
<1>1. CASE day = 0
  BY <1>1 DEF VInv, Days, IndexRight, IndexOfDay, IndexFollows
<1>2. CASE day # 0
  <2>. DEFINE text == file[day]
  <2>1. /\ day \in Day /\ text \in Seq(Piece) /\ Len(text) \in Nat
        /\ \A i : Boundary(text, i) => i \in 0..Len(text)
    BY <1>2, Files DEF VInv, Days, LogInv, LogTypeOK
  <2>2. PICK b \in 0..consumed : /\ Boundary(text, b)
                                 /\ all = Index(text, b, consumed)
                                 /\ clicks = 0 => b = 0
    BY <1>2 DEF VInv, Indexed
  <2>3. Boundary(text, consumed)
    BY <1>2 DEF VInv, Indexed
  <2>. HIDE DEF text
  <2>4. consumed \in 0..Len(text) /\ b \in 0..Len(text) /\ consumed \in b..Len(text) /\ 0 \in 0..b
    BY <2>1, <2>2, <2>3
  <2>5. ReadSoFar = Index(text, 0, consumed)
    BY DEF ReadSoFar, Index, text
  <2>6. Index(text, 0, consumed) = Index(text, 0, b) \o all
    BY <2>1, <2>2, <2>4, IndexJoins
  <2>7. Index(text, 0, b) \in Seq(Req) /\ all \in Seq(Req)
    BY <2>1, <2>4, IndexSteps DEF VInv, TypeOK
  <2>8. Range(all) \subseteq Range(ReadSoFar)
    <3>1. Range(Index(text, 0, b) \o all) = Range(Index(text, 0, b)) \cup Range(all)
      BY <2>7, RangeConcatenation
    <3>. QED
      BY <2>5, <2>6, <3>1
  <2>9. clicks = 0 => all = ReadSoFar
    BY <2>2, <2>5
  <2>10. consumed <= Len(file[day])
    BY <2>1, <2>4 DEF text
  <2>. QED
    BY <1>2, <2>8, <2>9, <2>10 DEF IndexRight, IndexOfDay, IndexFollows
<1>. QED
  BY <1>1, <1>2

(* MainViewController.swift: whatever fetches, scans, clicks and midnights   *)
(* overlap, the index stays one stretch of the file of the day on display.   *)
THEOREM ViewInvariance == Spec => []VInv
<1>1. Init => VInv
  BY InitVInv
<1>. QED
  BY <1>1, NextVInv, Invariance, PTL DEF Spec

(* The variables of the viewer and of the log keep their types.              *)
THEOREM TypeCorrect == Spec => []TypeOK
<1>1. VInv => TypeOK
  BY DEF VInv
<1>. QED
  BY <1>1, ViewInvariance, PTL

(***************************************************************************)
(* MainViewController.swift `applyFilter` and `apply`: no exchange is      *)
(* shown twice, be it in progress and recorded or found by two scans: a    *)
(* scan that is appended begins where the index ends.                      *)
(***************************************************************************)
THEOREM NeverTwice == Spec => []ShownOnce
BY Invariance, ViewInvariance, TableOnce, PTL

(***************************************************************************)
(* `apply` and TrafficReader.scan: the index holds records of the selected *)
(* day only, none beyond the position the next scan starts from, and all   *)
(* of them in the file's order while the user leaves the day alone,        *)
(* however the writing of lines, midnight and scans interleave.            *)
(***************************************************************************)
THEOREM IndexTrue == Spec => []IndexRight
BY Invariance, ViewInvariance, IndexOfDayRight, PTL

--------------------------------------------------------------------------------
(* The log implements TrafficLog. *)

(* The file WRITER's holder is writing to ends with the beginning of its line. *)
Cut ==
  \A r \in Req : writing = r =>
    Len(file[end[r].day]) > 0 /\ ~file[end[r].day][Len(file[end[r].day])].last

(* Nothing is written, and whoever writes goes on with the same line. *)
LEMMA CutLeft ==
  ASSUME Cut, file' = file, writing' \in {writing, NoReq},
         \A r \in Req : writing = r => end'[r].day = end[r].day
  PROVE  Cut'
BY LogAssumption DEF Cut

LEMMA NextCut == ASSUME LogInv, Cut, [Next]_vars PROVE Cut'
<1>0. \A r \in Req : writing = r => stage[r] = "cut"
  BY DEF LogInv, Stages
<1>1. ASSUME NEW r \in Req, WriteSome(r) PROVE Cut'
  <2>. DEFINE d == end[r].day
              p == Text(r, FALSE)
  <2>1. /\ d \in Day /\ p \in Piece /\ ~p.last /\ file' = [file EXCEPT ![d] = Append(@, p)]
        /\ writing' = r /\ end' = end
    BY <1>1 DEF WriteSome, Become, LogInv, LogTypeOK, Stages, Text, Piece, Wrote
  <2>. HIDE DEF p
  <2>2. /\ Len(file[d]) \in Nat /\ Len(file'[d]) = Len(file[d]) + 1
        /\ file'[d][Len(file[d]) + 1] = p
    BY <2>1, Grown DEF LogInv
  <2>. QED
    BY <2>1, <2>2 DEF Cut
<1>2. ASSUME NEW r \in Req, WriteRest(r) PROVE Cut'
  BY <1>2, LogAssumption DEF WriteRest, Cut
<1>3. ASSUME NEW r \in Req, NEW why \in Outcome, stage[r] = "open", Ends(r, why) PROVE Cut'
  <2>1. ~done[r]
    BY <1>3 DEF LogInv, Stages
  <2>2. end' = [end EXCEPT ![r] = [why |-> why, day |-> today]] /\ file' = file /\ writing' = writing
    BY <1>3, <2>1 DEF Ends, Flush
  <2>3. \A q \in Req : writing = q => q # r
    BY <1>0, <1>3
  <2>4. \A q \in Req : writing = q => end'[q].day = end[q].day
    BY <2>2, <2>3 DEF LogInv, LogTypeOK
  <2>. QED
    BY <2>2, <2>4, CutLeft
<1>4. ASSUME NEW r \in Req, Drop(r) PROVE Cut'
  <2>1. UNCHANGED <<end, file, writing>>
    BY <1>4 DEF Drop, Flush, LogInv, Stages
  <2>. QED
    BY <2>1, CutLeft
<1>5. ASSUME NEW r \in Req, Start(r) \/ OpenError(r) \/ WriteError(r) \/ Deregister(r) PROVE Cut'
  BY <1>5, CutLeft DEF Start, OpenError, WriteError, Deregister
<1>6. CASE DaemonExit \/ Midnight \/ FeedSilent \/ UNCHANGED logVars
  BY <1>6, CutLeft DEF DaemonExit, Midnight, FeedSilent, logVars
<1>7. ASSUME NEW r \in Req, Finish(r) \/ HangUp(r) PROVE Cut'
  BY <1>3, <1>7 DEF Finish, HangUp, Outcome
<1>. QED
  BY <1>1, <1>2, <1>4, <1>5, <1>6, <1>7 DEF Next, LogNext, vars

(* A piece that is added makes a record if it ends a readable line. *)
LEMMA OneMore ==
  ASSUME NEW text \in Seq(Piece), NEW p \in Piece, NEW t, t = Append(text, p)
  PROVE  Records(t, 0) = IF ReadableAt(t, 0, Len(text) + 1)
                         THEN Append(Records(text, 0), p.req) ELSE Records(text, 0)
<1>. DEFINE n == Len(text)
<1>1. /\ n \in Nat /\ t \in Seq(Piece) /\ Len(t) = n + 1 /\ t[n + 1] = p
      /\ \A i \in 1..n : text[i] = t[i]
  BY AppendProperties, LenProperties
<1>2. n \in 0..n /\ n <= Len(t) /\ n + 1 \in 1..Len(t) /\ (n + 1) - 1 = n /\ 0 \in Nat
  BY <1>1
<1>3. Index(text, 0, n) = Index(t, 0, n)
  BY <1>1, <1>2, IndexAgrees
<1>4. Index(text, 0, n) = Records(text, 0) /\ Index(t, 0, n + 1) = Records(t, 0)
  BY <1>1, <1>2, IndexSteps
<1>5. Index(t, 0, n + 1) = IF ReadableAt(t, 0, n + 1) THEN Append(Index(t, 0, (n + 1) - 1), t[n + 1].req)
                           ELSE Index(t, 0, (n + 1) - 1)
  BY <1>1, <1>2, IndexSteps
<1>. QED
  BY <1>1, <1>2, <1>3, <1>4, <1>5

(* The parts of the mapping, where a step does not touch them. *)
LEMMA BooksLeft ==
  ASSUME file' = file
  PROVE  [d \in Day |-> Records(file[d], 0)]' = [d \in Day |-> Records(file[d], 0)]
OBVIOUS

LEMMA TornLeft ==
  ASSUME file' = file, writing' = writing,
         \A r \in Req : writing = r => end'[r].day = end[r].day
  PROVE  {d \in Day : Torn(d)}' = {d \in Day : Torn(d)}
<1>1. \A d \in Day : Settled(d)' = Settled(d)
  BY DEF Settled
<1>2. \A d \in Day : Torn(d)' <=> Torn(d)
  BY <1>1 DEF Torn
<1>. QED
  BY <1>2

LEMMA PhasesLeft ==
  ASSUME \A r \in Req : PhaseOf(r)' = PhaseOf(r)
  PROVE  [r \in Req |-> PhaseOf(r)]' = [r \in Req |-> PhaseOf(r)]
OBVIOUS

(* One exchange comes to another phase. *)
LEMMA PhaseGoes ==
  ASSUME NEW r \in Req, NEW from, NEW to, PhaseOf(r) = from, PhaseOf(r)' = to,
         \A q \in Req \ {r} : PhaseOf(q)' = PhaseOf(q)
  PROVE  Log!Goes(r, from, to)
BY DEF Log!Goes

LEMMA StageMoves ==
  ASSUME LogTypeOK, NEW r \in Req, NEW to, stage' = [stage EXCEPT ![r] = to]
  PROVE  /\ \A q \in Req \ {r} : PhaseOf(q)' = PhaseOf(q)
         /\ stage'[r] = to
BY DEF LogTypeOK, PhaseOf

(* What an exchange's steps leave alone of the mapping. *)
LEMMA SameLog ==
  ASSUME LogInv, NEW r \in Req, file' = file, writing' = writing,
         \A q \in Req \ {r} : end'[q] = end[q],
         stage[r] # "cut" \/ end' = end
  PROVE  /\ [d \in Day |-> Records(file[d], 0)]' = [d \in Day |-> Records(file[d], 0)]
         /\ {d \in Day : Torn(d)}' = {d \in Day : Torn(d)}
<1>1. \A q \in Req : writing = q => end'[q].day = end[q].day
  BY DEF LogInv, Stages
<1>. QED
  BY <1>1, BooksLeft, TornLeft

(* One exchange begins, ends, or leaves the list. *)
LEMMA BeginMapped == ASSUME LogInv, NEW r \in Req, Start(r) PROVE Log!Begin(r)
<1>1. /\ stage[r] = "new" /\ stage' = [stage EXCEPT ![r] = "open"]
      /\ inflight' = inflight \cup {r}
      /\ UNCHANGED <<today, end, file, writing, faults>>
  BY DEF Start, Become
<1>2. /\ \A q \in Req \ {r} : PhaseOf(q)' = PhaseOf(q)
      /\ stage'[r] = "open"
  BY <1>1, StageMoves DEF LogInv
<1>3. PhaseOf(r) = "new" /\ PhaseOf(r)' = "open"
  BY <1>1, <1>2 DEF PhaseOf
<1>4. Log!Goes(r, "new", "open")
  BY <1>2, <1>3, PhaseGoes
<1>5. /\ [d \in Day |-> Records(file[d], 0)]' = [d \in Day |-> Records(file[d], 0)]
      /\ {d \in Day : Torn(d)}' = {d \in Day : Torn(d)}
  BY <1>1, SameLog
<1>6. [q \in Req |-> end[q].day]' = [q \in Req |-> end[q].day]
  BY <1>1
<1>. QED
  BY <1>1, <1>4, <1>5, <1>6 DEF Log!Begin

LEMMA EndMapped ==
  ASSUME LogInv, NEW r \in Req, NEW why \in Outcome, stage[r] = "open", Ends(r, why)
  PROVE  Log!End(r)
<1>1. ~done[r]
  BY DEF LogInv, Stages
<1>2. /\ stage' = [stage EXCEPT ![r] = "flush"]
      /\ end' = [end EXCEPT ![r] = [why |-> why, day |-> today]]
      /\ UNCHANGED <<today, inflight, file, writing, faults>>
  BY <1>1 DEF Ends, Flush
<1>3. /\ \A q \in Req \ {r} : PhaseOf(q)' = PhaseOf(q)
      /\ stage'[r] = "flush"
  BY <1>2, StageMoves DEF LogInv
<1>4. PhaseOf(r) = "open" /\ PhaseOf(r)' = "ended"
  BY <1>3 DEF PhaseOf
<1>5. Log!Goes(r, "open", "ended")
  BY <1>3, <1>4, PhaseGoes
<1>6. end'[r].day = today /\ \A q \in Req \ {r} : end'[q] = end[q]
  BY <1>2 DEF LogInv, LogTypeOK
<1>7. [q \in Req |-> end[q].day]' = [[q \in Req |-> end[q].day] EXCEPT ![r] = today]
  BY <1>6
<1>8. /\ [d \in Day |-> Records(file[d], 0)]' = [d \in Day |-> Records(file[d], 0)]
      /\ {d \in Day : Torn(d)}' = {d \in Day : Torn(d)}
  BY <1>2, <1>6, SameLog
<1>. QED
  BY <1>2, <1>5, <1>7, <1>8 DEF Log!End

LEMMA LeaveMapped == ASSUME LogInv, NEW r \in Req, Deregister(r) PROVE Log!Leave(r)
<1>1. /\ stage[r] = "written" /\ stage' = [stage EXCEPT ![r] = "drop"]
      /\ inflight' = inflight \ {r} /\ r \in inflight
      /\ UNCHANGED <<today, end, file, writing, faults>>
  BY DEF Deregister, Become, LogInv, Stages
<1>2. /\ \A q \in Req \ {r} : PhaseOf(q)' = PhaseOf(q)
      /\ stage'[r] = "drop"
  BY <1>1, StageMoves DEF LogInv
<1>3. PhaseOf(r) = "over" /\ PhaseOf(r)' = "over"
  BY <1>1, <1>2 DEF PhaseOf
<1>4. [q \in Req |-> PhaseOf(q)]' = [q \in Req |-> PhaseOf(q)]
  BY <1>2, <1>3, PhasesLeft
<1>5. /\ [d \in Day |-> Records(file[d], 0)]' = [d \in Day |-> Records(file[d], 0)]
      /\ {d \in Day : Torn(d)}' = {d \in Day : Torn(d)}
  BY <1>1, SameLog
<1>6. [q \in Req |-> end[q].day]' = [q \in Req |-> end[q].day]
  BY <1>1
<1>. QED
  BY <1>1, <1>3, <1>4, <1>5, <1>6 DEF Log!Leave

(* The record is dropped after it was flushed: nothing of it is seen. *)
LEMMA DropMapped == ASSUME LogInv, NEW r \in Req, Drop(r) PROVE UNCHANGED Log!vars
<1>1. stage[r] = "drop"
  BY DEF Drop
<1>2. /\ stage' = [stage EXCEPT ![r] = "gone"]
      /\ UNCHANGED <<end, today, inflight, file, writing, faults>>
  BY DEF Drop, Flush, LogInv, Stages
<1>3. /\ \A q \in Req \ {r} : PhaseOf(q)' = PhaseOf(q)
      /\ stage'[r] = "gone"
  BY <1>2, StageMoves DEF LogInv
<1>4. PhaseOf(r) = "over" /\ PhaseOf(r)' = "over"
  BY <1>1, <1>3 DEF PhaseOf
<1>5. [q \in Req |-> PhaseOf(q)]' = [q \in Req |-> PhaseOf(q)]
  BY <1>3, <1>4, PhasesLeft
<1>6. /\ [d \in Day |-> Records(file[d], 0)]' = [d \in Day |-> Records(file[d], 0)]
      /\ {d \in Day : Torn(d)}' = {d \in Day : Torn(d)}
  BY <1>2, SameLog
<1>7. [q \in Req |-> end[q].day]' = [q \in Req |-> end[q].day]
  BY <1>2
<1>. QED
  BY <1>2, <1>5, <1>6, <1>7 DEF Log!vars

(* The writing of an exchange fails before it has written anything. *)
LEMMA NothingMapped ==
  ASSUME LogInv, NEW r \in Req, stage[r] = "flush", stage' = [stage EXCEPT ![r] = "written"],
         faults' = faults + 1, writing' = writing, UNCHANGED <<today, end, inflight, file>>
  PROVE  Log!Omit(r)
<1>1. /\ \A q \in Req \ {r} : PhaseOf(q)' = PhaseOf(q)
      /\ stage'[r] = "written"
  BY StageMoves DEF LogInv
<1>2. PhaseOf(r) = "ended" /\ PhaseOf(r)' = "over"
  BY <1>1 DEF PhaseOf
<1>3. Log!Goes(r, "ended", "over")
  BY <1>1, <1>2, PhaseGoes
<1>4. /\ [d \in Day |-> Records(file[d], 0)]' = [d \in Day |-> Records(file[d], 0)]
      /\ {d \in Day : Torn(d)}' = {d \in Day : Torn(d)}
  BY SameLog
<1>5. [q \in Req |-> end[q].day]' = [q \in Req |-> end[q].day]
  OBVIOUS
<1>. QED
  BY <1>3, <1>4, <1>5 DEF Log!Omit

(* The holder of WRITER stops in the middle: its text is what is torn. *)
LEMMA LeftTorn ==
  ASSUME LogInv, Cut, NEW r \in Req, writing = r, writing' = NoReq, UNCHANGED <<end, file>>
  PROVE  {d \in Day : Torn(d)}' = {d \in Day : Torn(d)} \cup {end[r].day}
<1>0. end[r].day \in Day /\ NoReq \notin Req
  BY LogAssumption DEF LogInv, Stages
<1>1. PICK day0 \in Day : day0 = end[r].day
  BY <1>0
<1>2. \A d \in Day : Len(file[d]) \in Nat
  BY LenProperties DEF LogInv, LogTypeOK
<1>3. \A d \in Day : Settled(d)' = Len(file[d])
  BY <1>0, <1>2 DEF Settled
<1>4. \A d \in Day \ {day0} : Settled(d) = Len(file[d])
  <2>. TAKE d \in Day \ {day0}
  <2>1. ~(writing \in Req /\ end[writing].day = d) /\ Len(file[d]) \in Nat
    BY <1>1, <1>2
  <2>2. Settled(d) = Len(file[d]) - 0
    BY <2>1 DEF Settled
  <2>. QED
    BY <2>1, <2>2
<1>5. \A d \in Day \ {day0} : Torn(d)' <=> Torn(d)
  BY <1>3, <1>4 DEF Torn
<1>6. Torn(day0)'
  BY <1>1, <1>3 DEF Torn, Cut
<1>. QED
  BY <1>1, <1>5, <1>6

(* It fails when a part of the line is in the file. *)
LEMMA PartMapped ==
  ASSUME LogInv, Cut, NEW r \in Req, stage[r] = "cut",
         stage' = [stage EXCEPT ![r] = "written"],
         faults' = faults + 1, writing' = NoReq, UNCHANGED <<today, end, inflight, file>>
  PROVE  Log!Omit(r)
<1>1. /\ \A q \in Req \ {r} : PhaseOf(q)' = PhaseOf(q)
      /\ stage'[r] = "written"
  BY StageMoves DEF LogInv
<1>2. PhaseOf(r) = "ended" /\ PhaseOf(r)' = "over"
  BY <1>1 DEF PhaseOf
<1>3. Log!Goes(r, "ended", "over")
  BY <1>1, <1>2, PhaseGoes
<1>4. writing = r
  BY DEF LogInv, Stages
<1>5. {d \in Day : Torn(d)}' = {d \in Day : Torn(d)} \cup {end[r].day}
  BY <1>4, LeftTorn
<1>6. [d \in Day |-> Records(file[d], 0)]' = [d \in Day |-> Records(file[d], 0)]
  BY BooksLeft
<1>7. [q \in Req |-> end[q].day]' = [q \in Req |-> end[q].day]
  OBVIOUS
<1>8. [q \in Req |-> end[q].day][r] = end[r].day
  OBVIOUS
<1>. QED
  BY <1>3, <1>5, <1>6, <1>7, <1>8 DEF Log!Omit

LEMMA OmitMapped ==
  ASSUME LogInv, Cut, NEW r \in Req, OpenError(r) \/ WriteError(r)
  PROVE  Log!Omit(r)
<1>1. UNCHANGED <<today, end, inflight, file>> /\ faults' = faults + 1
  BY DEF OpenError, WriteError, Fault
<1>2. CASE stage[r] = "flush"
  <2>1. writing = NoReq /\ writing' = NoReq /\ stage' = [stage EXCEPT ![r] = "written"]
    BY <1>2 DEF OpenError, WriteError, Become
  <2>. QED
    BY <1>1, <1>2, <2>1, NothingMapped
<1>3. CASE stage[r] # "flush"
  <2>1. writing' = NoReq /\ stage[r] = "cut" /\ stage' = [stage EXCEPT ![r] = "written"]
    BY <1>3 DEF OpenError, WriteError, Become
  <2>. QED
    BY <1>1, <2>1, PartMapped
<1>. QED
  BY <1>2, <1>3

(* The beginning of a line is not seen: it is no record, and not yet torn. *)
LEMMA SomeMapped == ASSUME LogInv, NEW r \in Req, WriteSome(r) PROVE UNCHANGED Log!vars
<1>. DEFINE p == Text(r, FALSE)
<1>0. end[r].day \in Day
  BY DEF WriteSome, Become, LogInv, Stages
<1>. PICK day0 \in Day : day0 = end[r].day
  BY <1>0
<1>. DEFINE n == Len(file[day0])
<1>1. /\ p \in Piece /\ ~p.last /\ file' = [file EXCEPT ![day0] = Append(@, p)]
      /\ stage[r] = "flush" /\ stage' = [stage EXCEPT ![r] = "cut"]
      /\ writing = NoReq /\ writing' = r /\ NoReq \notin Req
      /\ UNCHANGED <<today, end, inflight, faults>>
  BY <1>0, LogAssumption DEF WriteSome, Become, LogInv, LogTypeOK, Stages, Text, Piece, Wrote
<1>. HIDE DEF p
<1>2. /\ \A e \in Day \ {day0} : file'[e] = file[e]
      /\ n \in Nat /\ Len(file'[day0]) = n + 1 /\ file'[day0][n + 1] = p
      /\ \A i \in 1..n : file'[day0][i] = file[day0][i]
      /\ file[day0] \in Seq(Piece) /\ file'[day0] = Append(file[day0], p)
  <2>1. LogTypeOK /\ file \in [Day -> Seq(Piece)]
    BY DEF LogInv, LogTypeOK
  <2>. QED
    BY <1>1, <2>1, Grown
<1>3. /\ \A q \in Req \ {r} : PhaseOf(q)' = PhaseOf(q)
      /\ stage'[r] = "cut"
  BY <1>1, StageMoves DEF LogInv
<1>4. [q \in Req |-> PhaseOf(q)]' = [q \in Req |-> PhaseOf(q)]
  <2>1. PhaseOf(r) = "ended" /\ PhaseOf(r)' = "ended"
    BY <1>1, <1>3 DEF PhaseOf
  <2>. QED
    BY <1>3, <2>1, PhasesLeft
<1>5. [d \in Day |-> Records(file[d], 0)]' = [d \in Day |-> Records(file[d], 0)]
  <2>1. ~ReadableAt(file'[day0], 0, n + 1)
    BY <1>1, <1>2 DEF ReadableAt
  <2>2. file[day0] \in Seq(Piece) /\ p \in Piece /\ file'[day0] = Append(file[day0], p)
    BY <1>1, <1>2
  <2>3. Records(file'[day0], 0) = IF ReadableAt(file'[day0], 0, n + 1)
                                  THEN Append(Records(file[day0], 0), p.req)
                                  ELSE Records(file[day0], 0)
    BY ONLY <2>2, OneMore
  <2>. QED
    BY <1>2, <2>1, <2>3
<1>6. {d \in Day : Torn(d)}' = {d \in Day : Torn(d)}
  <2>1. \A d \in Day : Settled(d) = Len(file[d])
    BY <1>1, LenProperties DEF Settled, LogInv, LogTypeOK
  <2>2. Settled(day0)' = n
    BY <1>1, <1>2 DEF Settled
  <2>3. \A d \in Day \ {day0} : Settled(d)' = Len(file[d])
    BY <1>1, <1>2, LenProperties DEF Settled, LogInv, LogTypeOK
  <2>4. \A d \in Day \ {day0} : Torn(d)' <=> Torn(d)
    BY <1>2, <2>1, <2>3 DEF Torn
  <2>5. Torn(day0)' <=> Torn(day0)
    BY <1>1, <1>2, <2>1, <2>2 DEF Torn
  <2>. QED
    BY <2>4, <2>5
<1>7. [q \in Req |-> end[q].day]' = [q \in Req |-> end[q].day]
  BY <1>1
<1>. QED
  BY <1>1, <1>4, <1>5, <1>6, <1>7 DEF Log!vars

(* The end of a line enters its exchange: it is a record unless the text     *)
(* before its line is torn, and nothing is torn after it.                    *)
LEMMA RestMapped == ASSUME LogInv, Cut, NEW r \in Req, WriteRest(r) PROVE Log!Enter(r)
<1>. DEFINE p == Text(r, TRUE)
            book == [d \in Day |-> Records(file[d], 0)]
            torn == {d \in Day : Torn(d)}
<1>0. end[r].day \in Day
  BY DEF WriteRest, Become, LogInv, Stages
<1>. PICK day0 \in Day : day0 = end[r].day
  BY <1>0
<1>. DEFINE n == Len(file[day0])
<1>1. /\ p \in Piece /\ p.last /\ p.req = r
      /\ file' = [file EXCEPT ![day0] = Append(@, p)]
      /\ stage[r] = "cut" /\ stage' = [stage EXCEPT ![r] = "written"]
      /\ writing = r /\ writing' = NoReq /\ NoReq \notin Req
      /\ UNCHANGED <<today, end, inflight, faults>>
  BY <1>0, LogAssumption DEF WriteRest, Become, LogInv, LogTypeOK, Stages, Text, Piece, Wrote
<1>. HIDE DEF p
<1>2. /\ \A e \in Day \ {day0} : file'[e] = file[e]
      /\ n \in Nat /\ Len(file'[day0]) = n + 1 /\ file'[day0][n + 1] = p
      /\ \A i \in 1..n : file'[day0][i] = file[day0][i]
      /\ file[day0] \in Seq(Piece) /\ file'[day0] = Append(file[day0], p)
  <2>1. LogTypeOK /\ file \in [Day -> Seq(Piece)]
    BY DEF LogInv, LogTypeOK
  <2>. QED
    BY <1>1, <2>1, Grown
<1>3. n > 0 /\ ~file[day0][n].last
  BY <1>1 DEF Cut
<1>4. Log!Goes(r, "ended", "over")
  <2>1. /\ \A q \in Req \ {r} : PhaseOf(q)' = PhaseOf(q)
        /\ stage'[r] = "written"
    BY <1>1, StageMoves DEF LogInv
  <2>2. PhaseOf(r) = "ended" /\ PhaseOf(r)' = "over"
    BY <1>1, <2>1 DEF PhaseOf
  <2>. QED
    BY <2>1, <2>2, PhaseGoes
<1>5. Settled(day0) = n - 1 /\ Settled(day0)' = n + 1
  BY <1>1, <1>2 DEF Settled
<1>6. ReadableAt(file'[day0], 0, n + 1) <=> ~Torn(day0)
  <2>1. /\ n + 1 \in (0 + 2)..Len(file'[day0]) /\ (n + 1) - 1 = n /\ (n + 1) - 2 = n - 1
        /\ file'[day0][n + 1].last /\ ~file'[day0][n].last
    BY <1>1, <1>2, <1>3
  <2>2. n - 1 > 0 => file'[day0][n - 1] = file[day0][n - 1]
    BY <1>2, <1>3
  <2>3. ReadableAt(file'[day0], 0, n + 1) <=> (n - 1 > 0 => file[day0][n - 1].last)
    BY <2>1, <2>2 DEF ReadableAt
  <2>4. Torn(day0) <=> n - 1 > 0 /\ ~file[day0][n - 1].last
    BY <1>5 DEF Torn
  <2>. QED
    BY <2>3, <2>4
<1>7. Records(file'[day0], 0) = IF Torn(day0) THEN Records(file[day0], 0)
                                              ELSE Append(Records(file[day0], 0), r)
  <2>1. file[day0] \in Seq(Piece) /\ p \in Piece /\ file'[day0] = Append(file[day0], p)
    BY <1>1, <1>2
  <2>2. Records(file'[day0], 0) = IF ReadableAt(file'[day0], 0, n + 1)
                                  THEN Append(Records(file[day0], 0), p.req)
                                  ELSE Records(file[day0], 0)
    BY ONLY <2>1, OneMore
  <2>. QED
    BY <1>1, <1>6, <2>2
<1>8. IF day0 \in torn THEN book' = book ELSE book' = [book EXCEPT ![day0] = Append(@, r)]
  <2>1. \A d \in Day \ {day0} : Records(file'[d], 0) = Records(file[d], 0)
    BY <1>2
  <2>. QED
    BY <1>1, <1>7, <2>1
<1>9. torn' = torn \ {day0}
  <2>1. \A d \in Day \ {day0} : Settled(d) = Len(file[d]) /\ Settled(d)' = Len(file[d])
    BY <1>1, <1>2, LenProperties DEF Settled, LogInv, LogTypeOK
  <2>2. \A d \in Day \ {day0} : Torn(d)' <=> Torn(d)
    BY <1>2, <2>1 DEF Torn
  <2>3. ~Torn(day0)'
    BY <1>1, <1>2, <1>5 DEF Torn
  <2>. QED
    BY <2>2, <2>3
<1>10. [q \in Req |-> end[q].day]' = [q \in Req |-> end[q].day]
  BY <1>1
<1>11. [q \in Req |-> end[q].day][r] = day0
  OBVIOUS
<1>. QED
  BY <1>1, <1>4, <1>8, <1>9, <1>10, <1>11 DEF Log!Enter

(* The daemon ends, and the line it was writing is torn. *)
LEMMA ExitMapped == ASSUME LogInv, Cut, DaemonExit PROVE Log!Stop
<1>1. /\ stage' = [r \in Req |-> IF stage[r] \in {"new", "drop", "gone"} THEN stage[r] ELSE "lost"]
      /\ inflight' = {} /\ writing' = NoReq /\ faults' = faults + 1
      /\ UNCHANGED <<today, end, file>>
  BY DEF DaemonExit, Fault
<1>2. \A r \in Req : PhaseOf(r)' = IF PhaseOf(r) \in {"open", "ended"} THEN "over" ELSE PhaseOf(r)
  BY <1>1 DEF PhaseOf, LogInv, LogTypeOK, Stage
<1>3. [r \in Req |-> PhaseOf(r)]' =
        [r \in Req |-> IF [q \in Req |-> PhaseOf(q)][r] \in {"open", "ended"}
                       THEN "over" ELSE [q \in Req |-> PhaseOf(q)][r]]
  BY <1>2
<1>4. [d \in Day |-> Records(file[d], 0)]' = [d \in Day |-> Records(file[d], 0)]
  BY <1>1, BooksLeft
<1>5. [r \in Req |-> end[r].day]' = [r \in Req |-> end[r].day]
  BY <1>1
<1>6. CASE writing \in Req
  <2>1. {d \in Day : Torn(d)}' = {d \in Day : Torn(d)} \cup {end[writing].day}
    BY <1>1, <1>6, LeftTorn
  <2>2. [q \in Req |-> PhaseOf(q)][writing] = "ended"
    BY <1>6 DEF PhaseOf, LogInv, Stages
  <2>3. [r \in Req |-> end[r].day][writing] = end[writing].day
    BY <1>6
  <2>. QED
    BY <1>1, <1>3, <1>4, <1>5, <1>6, <2>1, <2>2, <2>3 DEF Log!Stop
<1>7. CASE writing \notin Req
  <2>1. writing = NoReq
    BY <1>7 DEF LogInv, LogTypeOK
  <2>2. {d \in Day : Torn(d)}' = {d \in Day : Torn(d)}
    BY <1>1, <1>7, <2>1, TornLeft
  <2>. QED
    BY <1>1, <1>3, <1>4, <1>5, <2>2 DEF Log!Stop
<1>. QED
  BY <1>6, <1>7

(* What is none of the log's doing. *)
LEMMA OutsideMapped ==
  ASSUME UNCHANGED <<stage, end, inflight, file, writing>>
  PROVE  /\ [r \in Req |-> PhaseOf(r)]' = [r \in Req |-> PhaseOf(r)]
         /\ [r \in Req |-> end[r].day]' = [r \in Req |-> end[r].day]
         /\ [d \in Day |-> Records(file[d], 0)]' = [d \in Day |-> Records(file[d], 0)]
         /\ {d \in Day : Torn(d)}' = {d \in Day : Torn(d)}
<1>1. \A r \in Req : PhaseOf(r)' = PhaseOf(r)
  BY DEF PhaseOf
<1>. QED
  BY <1>1, PhasesLeft, BooksLeft, TornLeft

(* Every step of the daemon and of the viewer is a step of TrafficLog. *)
LEMMA NextMapped ==
  ASSUME LogInv, Cut, [Next]_vars
  PROVE  UNCHANGED logVars \/ Log!Next \/ UNCHANGED Log!vars
<1>1. ASSUME NEW r \in Req,
             \/ Start(r) \/ Finish(r) \/ HangUp(r) \/ Drop(r)
             \/ OpenError(r) \/ WriteSome(r) \/ WriteRest(r) \/ WriteError(r) \/ Deregister(r)
      PROVE  Log!Next \/ UNCHANGED Log!vars
  <2>1. CASE Start(r)
    BY <2>1, BeginMapped DEF Log!Next
  <2>2. CASE Finish(r) \/ HangUp(r)
    <3>1. Log!End(r)
      BY <2>2, EndMapped DEF Finish, HangUp, Outcome
    <3>. QED
      BY <3>1 DEF Log!Next
  <2>3. CASE Drop(r) \/ WriteSome(r)
    BY <2>3, DropMapped, SomeMapped
  <2>4. CASE OpenError(r) \/ WriteError(r)
    BY <2>4, OmitMapped DEF Log!Next
  <2>5. CASE WriteRest(r)
    BY <2>5, RestMapped DEF Log!Next
  <2>6. CASE Deregister(r)
    BY <2>6, LeaveMapped DEF Log!Next
  <2>. QED
    BY <1>1, <2>1, <2>2, <2>3, <2>4, <2>5, <2>6
<1>2. CASE DaemonExit
  BY <1>2, ExitMapped DEF Log!Next
<1>3. CASE Midnight
  <2>1. Log!Midnight
    BY <1>3, OutsideMapped DEF Midnight, Log!Midnight
  <2>. QED
    BY <2>1 DEF Log!Next
<1>4. CASE FeedSilent
  <2>1. Log!Elsewhere
    BY <1>4, OutsideMapped DEF FeedSilent, Fault, Log!Elsewhere
  <2>. QED
    BY <2>1 DEF Log!Next
<1>. QED
  BY <1>1, <1>2, <1>3, <1>4 DEF Next, LogNext, vars

LEMMA InitMapped == Init => Log!Init /\ Cut
<1>. SUFFICES ASSUME Init PROVE Log!Init /\ Cut
  OBVIOUS
<1>1. /\ today = 1 /\ stage = [r \in Req |-> "new"] /\ end = [r \in Req |-> NoEnd]
      /\ inflight = {} /\ file = [d \in Day |-> <<>>] /\ writing = NoReq /\ faults = 0
  BY DEF Init, LogInit
<1>2. [r \in Req |-> PhaseOf(r)] = [r \in Req |-> "new"]
  BY <1>1 DEF PhaseOf
<1>3. [r \in Req |-> end[r].day] = [r \in Req |-> 0]
  BY <1>1 DEF NoEnd
<1>4. [d \in Day |-> Records(file[d], 0)] = [d \in Day |-> <<>>]
  <2>1. PICK text \in Seq(Piece) : text = <<>>
    BY EmptySeq
  <2>2. Index(text, 0, 0) = <<>> /\ Index(text, 0, Len(text)) = Records(text, 0)
    BY IndexSteps
  <2>3. Len(text) = 0
    BY <2>1
  <2>. QED
    BY <1>1, <2>1, <2>2, <2>3
<1>5. {d \in Day : Torn(d)} = {}
  BY <1>1, LogAssumption DEF Torn, Settled
<1>6. Cut
  BY <1>1, LogAssumption DEF Cut
<1>. QED
  BY <1>1, <1>2, <1>3, <1>4, <1>5, <1>6 DEF Log!Init, Log!Day, Day

(***************************************************************************)
(* reqlog.rs with its viewer implements TrafficLog: under whatever order   *)
(* of ends, writes, failures, midnights and restarts, an exchange becomes  *)
(* readable at one moment, once, in the file of the day it ended on, only  *)
(* then leaves the list, and a torn text hides one record at most.         *)
(***************************************************************************)
THEOREM Implementation == Spec => LogSpec
<1>1. Init => Log!Init /\ Cut
  BY InitMapped
<1>2. LogInv /\ Cut /\ [Next]_vars => Cut'
  BY NextCut
<1>3. LogInv /\ Cut /\ [Next]_vars => [UNCHANGED logVars \/ Log!Next]_(Log!vars)
  BY NextMapped
<1>. QED
  BY <1>1, <1>2, <1>3, Invariance, PTL DEF Spec, LogSpec

(* The steps LogSpec names apart from Log!Next are stutterings of it.        *)
THEOREM LogPromise == Spec => Log!Spec
<1>1. [UNCHANGED logVars \/ Log!Next]_(Log!vars) => [Log!Next]_(Log!vars)
  <2>1. UNCHANGED logVars => UNCHANGED Log!vars
    BY OutsideMapped DEF logVars, Log!vars
  <2>. QED
    BY <2>1
<1>. QED
  BY <1>1, Implementation, PTL DEF LogSpec, Log!Spec

--------------------------------------------------------------------------------
(***************************************************************************)

Flattens(f, parts, n) ==
  /\ f[1] = parts[1]
  /\ \A k \in 2..n : f[k] = f[k - 1] \o parts[k]

LEMMA FlattenEach ==
  ASSUME NEW parts, NEW n \in Nat, n = Len(parts), n > 0
  PROVE  \E f : Flattens(f, parts, n) /\ FlattenSeq(parts) = f[n]
<1>. DEFINE Made(f, m) ==
              f = [k \in 1..m |-> IF k = 1 THEN parts[k] ELSE f[k - 1] \o parts[k]]
            T == {m \in 0..n : \E f : Made(f, m)}
<1>1. 0 \in T
  <2>. DEFINE g == [k \in 1..0 |-> parts[1]]
  <2>1. Made(g, 0)
    OBVIOUS
  <2>. HIDE DEF Made, g
  <2>. QED
    BY <2>1
<1>2. ASSUME NEW m \in 0..(n - 1), m \in T PROVE m + 1 \in T
  <2>1. PICK f : Made(f, m)
    BY <1>2
  <2>. DEFINE next == IF m = 0 THEN parts[1] ELSE f[m] \o parts[m + 1]
              g == [k \in 1..(m + 1) |-> IF k = m + 1 THEN next ELSE f[k]]
              h == [k \in 1..(m + 1) |-> IF k = 1 THEN parts[k] ELSE g[k - 1] \o parts[k]]
  <2>2. ASSUME NEW k \in 1..(m + 1) PROVE g[k] = h[k]
    <3>1. CASE k = m + 1
      BY <3>1
    <3>2. CASE k \in 1..m
      <4>1. g[k] = f[k] /\ k # m + 1 /\ (k # 1 => k - 1 \in 1..m /\ k - 1 # m + 1)
        BY <3>2
      <4>2. f[k] = IF k = 1 THEN parts[k] ELSE f[k - 1] \o parts[k]
        BY <2>1, <3>2
      <4>3. k # 1 => g[k - 1] = f[k - 1]
        BY <4>1
      <4>. QED
        BY <4>1, <4>2, <4>3
    <3>. QED
      BY <3>1, <3>2
  <2>3. g = h
    BY <2>2
  <2>4. Made(g, m + 1)
    BY <2>3
  <2>. HIDE DEF Made, g
  <2>. QED
    BY <2>4
<1>3. \E f : Made(f, n)
  <2>1. 0..n \subseteq T
    <3>. HIDE DEF T
    <3>. QED
      BY <1>1, <1>2, Induct
  <2>. HIDE DEF Made
  <2>. QED
    BY <2>1
<1>. DEFINE f == CHOOSE f : Made(f, n)
<1>4. Made(f, n)
  <2>. HIDE DEF Made
  <2>. QED
    BY <1>3
<1>5. FlattenSeq(parts) = f[n]
  BY DEF FlattenSeq
<1>. HIDE DEF f
<1>6. Flattens(f, parts, n)
  <2>1. ASSUME NEW k \in 1..n PROVE f[k] = IF k = 1 THEN parts[k] ELSE f[k - 1] \o parts[k]
    BY <1>4
  <2>2. 1 \in 1..n /\ \A k \in 2..n : k \in 1..n /\ k # 1
    OBVIOUS
  <2>. QED
    BY <2>1, <2>2 DEF Flattens
<1>. QED
  BY <1>5, <1>6

LEMMA FlattenNone == FlattenSeq(<<>>) = <<>>
BY DEF FlattenSeq

LEMMA FlattenAppend ==
  ASSUME NEW T, NEW parts \in Seq(Seq(T)), NEW part \in Seq(T)
  PROVE  /\ FlattenSeq(Append(parts, part)) = FlattenSeq(parts) \o part
         /\ FlattenSeq(parts) \in Seq(T)
<1>. DEFINE n == Len(parts)
            longer == Append(parts, part)
<1>1. /\ n \in Nat /\ Len(longer) = n + 1 /\ longer[n + 1] = part
      /\ \A k \in 1..n : longer[k] = parts[k] /\ parts[k] \in Seq(T)
      /\ n = 0 => parts = <<>>
  BY LenProperties, AppendProperties, ElementOfSeq, EmptySeq
<1>. HIDE DEF longer, n
<1>2. PICK g : Flattens(g, longer, n + 1) /\ FlattenSeq(longer) = g[n + 1]
  <2>. DEFINE m == n + 1
  <2>1. m \in Nat /\ m = Len(longer) /\ m > 0
    BY <1>1
  <2>. HIDE DEF m
  <2>2. \E g : Flattens(g, longer, m) /\ FlattenSeq(longer) = g[m]
    BY <2>1, FlattenEach
  <2>. QED
    BY <2>2 DEF m
<1>3. CASE n = 0
  <2>1. FlattenSeq(longer) = part
    BY <1>1, <1>2, <1>3 DEF Flattens
  <2>2. FlattenSeq(parts) = <<>>
    BY <1>1, <1>3, FlattenNone
  <2>3. <<>> \o part = part /\ <<>> \in Seq(T)
    BY ConcatEmptySeq, EmptySeq
  <2>. QED
    BY <2>1, <2>2, <2>3 DEF longer
<1>4. CASE n > 0
  <2>1. PICK f : Flattens(f, parts, n) /\ FlattenSeq(parts) = f[n]
    BY <1>1, <1>4, FlattenEach DEF n
  <2>. DEFINE S == {k \in 0..(n - 1) : f[k + 1] = g[k + 1] /\ f[k + 1] \in Seq(T)}
  <2>2. 0 \in S
    BY <1>1, <1>2, <1>4, <2>1 DEF Flattens
  <2>3. ASSUME NEW k \in 0..((n - 1) - 1), k \in S PROVE k + 1 \in S
    <3>1. k + 2 \in 2..n /\ k + 2 \in 2..(n + 1) /\ k + 2 \in 1..n /\ (k + 2) - 1 = k + 1
          /\ (k + 1) + 1 = k + 2 /\ k + 1 \in 0..(n - 1)
      BY <1>1, <1>4
    <3>2. f[k + 2] = f[k + 1] \o parts[k + 2] /\ g[k + 2] = g[k + 1] \o longer[k + 2]
      BY <1>2, <2>1, <3>1 DEF Flattens
    <3>3. longer[k + 2] = parts[k + 2] /\ parts[k + 2] \in Seq(T)
      BY <1>1, <3>1
    <3>4. f[k + 1] = g[k + 1] /\ f[k + 1] \in Seq(T)
      BY <2>3
    <3>5. f[k + 1] \o parts[k + 2] \in Seq(T)
      BY <3>3, <3>4, ConcatProperties
    <3>. QED
      BY <3>1, <3>2, <3>3, <3>4, <3>5
  <2>4. n - 1 \in S
    <3>. DEFINE b == n - 1
    <3>1. b \in Nat /\ b \in 0..b
      BY <1>1, <1>4
    <3>2. 0 \in S /\ \A k \in 0..(b - 1) : k \in S => k + 1 \in S
      BY <2>2, <2>3
    <3>. HIDE DEF b, S
    <3>3. 0..b \subseteq S
      BY <3>1, <3>2, Induct
    <3>. QED
      BY <3>1, <3>3 DEF b
  <2>5. f[n] = g[n] /\ f[n] \in Seq(T)
    <3>1. (n - 1) + 1 = n
      BY <1>1
    <3>. QED
      BY <2>4, <3>1
  <2>6. n + 1 \in 2..(n + 1) /\ (n + 1) - 1 = n
    BY <1>1, <1>4
  <2>7. g[n + 1] = g[n] \o longer[n + 1]
    BY <1>2, <2>6 DEF Flattens
  <2>. QED
    BY <1>1, <1>2, <2>1, <2>5, <2>7 DEF longer
<1>. QED
  BY <1>1, <1>3, <1>4

LEMMA Associative == \A T : \A a, b, c \in Seq(T) : (a \o b) \o c = a \o (b \o c)
BY ConcatAssociative, Zenon

--------------------------------------------------------------------------------

(* What an empty sequence has and any mark behind it keeps, all have. *)
LEMMA SeqInduct ==
  ASSUME NEW T, NEW P, <<>> \in P, \A s \in Seq(T), x \in T : s \in P => Append(s, x) \in P
  PROVE  Seq(T) \subseteq P
<1>. SUFFICES ASSUME NEW s \in Seq(T) PROVE s \in P
  OBVIOUS
<1>. DEFINE n == Len(s)
            Pre(k) == SubSeq(s, 1, k)
            K == {k \in 0..n : Pre(k) \in P}
<1>1. n \in Nat /\ \A k \in 1..n : s[k] \in T
  BY LenProperties, ElementOfSeq
<1>2. Pre(0) = <<>>
  BY SubSeqEmpty
<1>. HIDE DEF n
<1>3. ASSUME NEW k \in 0..(n - 1), k \in K PROVE k + 1 \in K
  <2>1. k + 1 \in 1..n /\ k \in Nat
    BY <1>1
  <2>. DEFINE a == Pre(k)
              b == Pre(k + 1)
  <2>2. a \in Seq(T) /\ Len(a) = k /\ \A i \in 1..k : a[i] = s[i]
    <3>1. \A i \in 1..k : s[i] \in T
      BY <1>1, <2>1
    <3>2. /\ SubSeq(s, 1, k) \in Seq(T) /\ Len(SubSeq(s, 1, k)) = IF 1 <= k THEN k - 1 + 1 ELSE 0
          /\ \A i \in 1..(k - 1 + 1) : SubSeq(s, 1, k)[i] = s[1 + i - 1]
      BY <2>1, <3>1, SubSeqProperties
    <3>. QED
      BY <2>1, <3>2
  <2>3. b \in Seq(T) /\ Len(b) = k + 1 /\ \A i \in 1..(k + 1) : b[i] = s[i]
    <3>. DEFINE m == k + 1
    <3>0. m \in Nat /\ m >= 1
      BY <2>1
    <3>1. \A i \in 1..m : s[i] \in T
      BY <1>1, <2>1
    <3>. HIDE DEF m
    <3>2. /\ SubSeq(s, 1, m) \in Seq(T) /\ Len(SubSeq(s, 1, m)) = IF 1 <= m THEN m - 1 + 1 ELSE 0
          /\ \A i \in 1..(m - 1 + 1) : SubSeq(s, 1, m)[i] = s[1 + i - 1]
      BY <3>0, <3>1, SubSeqProperties
    <3>3. Len(SubSeq(s, 1, m)) = m /\ \A i \in 1..m : SubSeq(s, 1, m)[i] = s[i]
      BY <3>0, <3>2
    <3>. QED
      BY <3>2, <3>3 DEF m
  <2>. HIDE DEF a, b
  <2>4. s[k + 1] \in T
    BY <1>1, <2>1
  <2>. DEFINE c == Append(a, s[k + 1])
  <2>5. c \in Seq(T) /\ Len(c) = k + 1 /\ \A i \in 1..(k + 1) : c[i] = s[i]
    BY <2>1, <2>2, <2>4, AppendProperties
  <2>. HIDE DEF c
  <2>6. b = c
    BY <2>3, <2>5, SeqEqual
  <2>. HIDE DEF Pre
  <2>7. a \in P
    BY <1>3 DEF a
  <2>8. c \in P
    BY <2>2, <2>4, <2>7 DEF c
  <2>. QED
    BY <2>1, <2>6, <2>8 DEF b
<1>. HIDE DEF Pre
<1>4. n \in K
  <2>1. 0 \in K
    BY <1>1, <1>2
  <2>2. 0..n \subseteq K
    <3>. HIDE DEF K
    <3>. QED
      BY <1>1, <1>3, <2>1, Induct
  <2>. HIDE DEF K
  <2>. QED
    BY <1>1, <2>2
<1>5. Pre(n) = s
  BY SubSeqFull DEF n, Pre
<1>. QED
  BY <1>4, <1>5

LEMMA ConcatAppend ==
  ASSUME NEW T, NEW a \in Seq(T), NEW b \in Seq(T), NEW x \in T
  PROVE  a \o Append(b, x) = Append(a \o b, x)
<1>. DEFINE l == a \o Append(b, x)
            r == Append(a \o b, x)
            m == Len(a)
            n == Len(b)
            ab == a \o b
            bx == Append(b, x)
<1>1. m \in Nat /\ n \in Nat
  BY LenProperties
<1>2. /\ ab \in Seq(T) /\ Len(ab) = m + n
      /\ \A i \in 1..(m + n) : ab[i] = IF i <= m THEN a[i] ELSE b[i - m]
  BY ConcatProperties
<1>3. bx \in Seq(T) /\ Len(bx) = n + 1 /\ bx[n + 1] = x /\ \A i \in 1..n : bx[i] = b[i]
  BY AppendProperties
<1>. HIDE DEF ab, bx
<1>4. /\ r \in Seq(T) /\ Len(r) = m + n + 1 /\ r[m + n + 1] = x
      /\ \A i \in 1..(m + n) : r[i] = ab[i]
  BY <1>2, AppendProperties DEF ab
<1>5. /\ l \in Seq(T) /\ Len(l) = m + (n + 1)
      /\ \A i \in 1..(m + (n + 1)) : l[i] = IF i <= m THEN a[i] ELSE bx[i - m]
  BY <1>3, ConcatProperties DEF bx
<1>. HIDE DEF l, r, m, n
<1>6. ASSUME NEW i \in 1..(m + n + 1) PROVE l[i] = r[i]
  <2>1. CASE i = m + n + 1
    <3>1. i \in 1..(m + (n + 1)) /\ ~(i <= m) /\ i - m = n + 1
      BY <1>1, <2>1
    <3>. QED
      BY <1>3, <1>4, <1>5, <2>1, <3>1
  <2>2. CASE i <= m
    <3>1. i \in 1..(m + (n + 1)) /\ i \in 1..(m + n)
      BY <1>1, <2>2
    <3>. QED
      BY <1>2, <1>4, <1>5, <2>2, <3>1
  <2>3. CASE i > m /\ i <= m + n
    <3>1. i \in 1..(m + (n + 1)) /\ i \in 1..(m + n) /\ ~(i <= m) /\ i - m \in 1..n
      BY <1>1, <2>3
    <3>. QED
      BY <1>2, <1>3, <1>4, <1>5, <3>1
  <2>. QED
    BY <1>1, <2>1, <2>2, <2>3
<1>7. Len(l) = Len(r)
  BY <1>1, <1>4, <1>5
<1>8. \A i \in 1..Len(l) : l[i] = r[i]
  BY <1>1, <1>5, <1>6
<1>9. l = r
  BY <1>4, <1>5, <1>7, <1>8, SeqEqual
<1>. QED
  BY <1>9 DEF l, r

LEMMA FlattenPrepend ==
  ASSUME NEW T, NEW part \in Seq(T), NEW parts \in Seq(Seq(T))
  PROVE  FlattenSeq(<<part>> \o parts) = part \o FlattenSeq(parts)
<1>. DEFINE P == {s \in Seq(Seq(T)) : FlattenSeq(<<part>> \o s) = part \o FlattenSeq(s)}
<1>1. <<>> \in P
  <2>1. <<part>> \in Seq(Seq(T)) /\ <<part>> \o <<>> = <<part>> /\ Append(<<>>, part) = <<part>>
        /\ <<>> \in Seq(Seq(T))
    OBVIOUS
  <2>2. FlattenSeq(Append(<<>>, part)) = FlattenSeq(<<>>) \o part
    BY <2>1, FlattenAppend
  <2>3. <<>> \o part = part /\ part \o <<>> = part
    BY ConcatEmptySeq
  <2>. QED
    BY <2>1, <2>2, <2>3, FlattenNone
<1>2. ASSUME NEW s \in Seq(Seq(T)), NEW x \in Seq(T), s \in P PROVE Append(s, x) \in P
  <2>. DEFINE one == <<part>>
              f == FlattenSeq(s)
  <2>1. one \in Seq(Seq(T)) /\ Append(s, x) \in Seq(Seq(T))
    BY AppendProperties
  <2>. HIDE DEF one
  <2>2. one \o s \in Seq(Seq(T))
    BY <2>1, ConcatProperties
  <2>3. one \o Append(s, x) = Append(one \o s, x)
    BY <2>1, ConcatAppend
  <2>4. FlattenSeq(Append(one \o s, x)) = FlattenSeq(one \o s) \o x
    BY <2>2, FlattenAppend
  <2>5. FlattenSeq(one \o s) = part \o f
    BY <1>2 DEF one
  <2>6. FlattenSeq(Append(s, x)) = f \o x /\ f \in Seq(T)
    BY FlattenAppend
  <2>. HIDE DEF f
  <2>7. (part \o f) \o x = part \o (f \o x)
    <3>1. part \in Seq(T) /\ f \in Seq(T) /\ x \in Seq(T)
      BY <2>6
    <3>. QED
      BY ONLY <3>1, Associative, SMTT(30)
  <2>8. FlattenSeq(one \o Append(s, x)) = part \o FlattenSeq(Append(s, x))
    BY <2>3, <2>4, <2>5, <2>6, <2>7
  <2>. QED
    BY <2>1, <2>8 DEF one
<1>3. Seq(Seq(T)) \subseteq P
  <2>. HIDE DEF P
  <2>. QED
    BY <1>1, <1>2, SeqInduct
<1>. QED
  BY <1>3

(* The mark behind a text is split off last. *)
LEMMA SplitEach ==
  ASSUME NEW text, NEW n \in Nat, n = Len(text)
  PROVE  /\ SplitUpTo(text)[0] = <<<<>>>>
         /\ \A k \in 1..n : SplitUpTo(text)[k] = Split(SplitUpTo(text)[k - 1], text[k])
<1>. DEFINE none == <<<<>>>>
            Made(f, m) == f = [k \in 0..m |-> IF k = 0 THEN none ELSE Split(f[k - 1], text[k])]
            T == {m \in 0..n : \E f : Made(f, m)}
<1>. HIDE DEF none
<1>1. 0 \in T
  <2>. DEFINE g == [k \in 0..0 |-> none]
  <2>1. Made(g, 0)
    OBVIOUS
  <2>. HIDE DEF Made, g
  <2>. QED
    BY <2>1
<1>2. ASSUME NEW m \in 0..(n - 1), m \in T PROVE m + 1 \in T
  <2>1. PICK f : Made(f, m)
    BY <1>2
  <2>. DEFINE next == Split(f[m], text[m + 1])
              g == [k \in 0..(m + 1) |-> IF k = m + 1 THEN next ELSE f[k]]
              h == [k \in 0..(m + 1) |-> IF k = 0 THEN none ELSE Split(g[k - 1], text[k])]
  <2>2. ASSUME NEW k \in 0..(m + 1) PROVE g[k] = h[k]
    <3>1. CASE k = m + 1
      BY <3>1
    <3>2. CASE k \in 0..m
      <4>1. g[k] = f[k] /\ k # m + 1 /\ (k # 0 => k - 1 \in 0..m /\ k - 1 # m + 1)
        BY <3>2
      <4>2. f[k] = IF k = 0 THEN none ELSE Split(f[k - 1], text[k])
        BY <2>1, <3>2
      <4>3. k # 0 => g[k - 1] = f[k - 1]
        BY <4>1
      <4>. QED
        BY <4>1, <4>2, <4>3
    <3>. QED
      BY <3>1, <3>2
  <2>3. g = h
    BY <2>2
  <2>4. Made(g, m + 1)
    BY <2>3
  <2>. HIDE DEF Made, g
  <2>. QED
    BY <2>4
<1>3. \E f : Made(f, n)
  <2>1. 0..n \subseteq T
    <3>. HIDE DEF T
    <3>. QED
      BY <1>1, <1>2, Induct
  <2>. HIDE DEF Made
  <2>. QED
    BY <2>1
<1>. DEFINE f == CHOOSE f : Made(f, n)
<1>4. Made(f, n)
  <2>. HIDE DEF Made
  <2>. QED
    BY <1>3
<1>5. SplitUpTo(text) = f
  BY DEF SplitUpTo, none
<1>. HIDE DEF f
<1>6. f[0] = none /\ \A k \in 1..n : f[k] = Split(f[k - 1], text[k])
  BY <1>4
<1>. QED
  BY <1>5, <1>6 DEF none

LEMMA SegmentsNone == Segments(<<>>) = <<<<>>>>
<1>1. Len(<<>>) = 0
  OBVIOUS
<1>. DEFINE none == <<>>
<1>2. 0 \in Nat /\ 0 = Len(none)
  BY <1>1
<1>. HIDE DEF none
<1>3. SplitUpTo(none)[0] = <<<<>>>>
  BY <1>2, SplitEach
<1>. QED
  BY <1>2, <1>3 DEF Segments, none

LEMMA SegmentsAppend ==
  ASSUME NEW T, NEW text \in Seq(T), NEW c \in T
  PROVE  Segments(Append(text, c)) = Split(Segments(text), c)
<1>. DEFINE n == Len(text)
            longer == Append(text, c)
            K == {k \in 0..n : SplitUpTo(longer)[k] = SplitUpTo(text)[k]}
<1>1. /\ n \in Nat /\ Len(longer) = n + 1 /\ longer[n + 1] = c
      /\ \A k \in 1..n : longer[k] = text[k]
  BY LenProperties, AppendProperties
<1>. HIDE DEF longer, n
<1>2. /\ SplitUpTo(text)[0] = <<<<>>>>
      /\ \A k \in 1..n : SplitUpTo(text)[k] = Split(SplitUpTo(text)[k - 1], text[k])
  BY <1>1, SplitEach DEF n
<1>3. /\ SplitUpTo(longer)[0] = <<<<>>>>
      /\ \A k \in 1..(n + 1) : SplitUpTo(longer)[k] = Split(SplitUpTo(longer)[k - 1], longer[k])
  <2>. DEFINE m == n + 1
  <2>1. m \in Nat /\ m = Len(longer)
    BY <1>1
  <2>. HIDE DEF m
  <2>2. /\ SplitUpTo(longer)[0] = <<<<>>>>
        /\ \A k \in 1..m : SplitUpTo(longer)[k] = Split(SplitUpTo(longer)[k - 1], longer[k])
    BY <2>1, SplitEach
  <2>. QED
    BY <2>2 DEF m
<1>4. 0 \in K
  BY <1>1, <1>2, <1>3
<1>5. ASSUME NEW k \in 0..(n - 1), k \in K PROVE k + 1 \in K
  <2>1. k + 1 \in 1..n /\ k + 1 \in 0..n /\ k + 1 \in 1..(n + 1) /\ (k + 1) - 1 = k
    BY <1>1
  <2>2. SplitUpTo(longer)[k + 1] = Split(SplitUpTo(longer)[k], longer[k + 1])
    BY <1>3, <2>1
  <2>3. SplitUpTo(text)[k + 1] = Split(SplitUpTo(text)[k], text[k + 1])
    BY <1>2, <2>1
  <2>4. SplitUpTo(longer)[k] = SplitUpTo(text)[k] /\ longer[k + 1] = text[k + 1]
    BY <1>1, <1>5, <2>1
  <2>. QED
    BY <2>1, <2>2, <2>3, <2>4
<1>6. n \in K
  <2>1. 0..n \subseteq K
    <3>. HIDE DEF K
    <3>. QED
      BY <1>1, <1>4, <1>5, Induct
  <2>2. n \in 0..n
    BY <1>1
  <2>. HIDE DEF K
  <2>. QED
    BY <2>1, <2>2
<1>7. n + 1 \in 1..(n + 1) /\ (n + 1) - 1 = n
  BY <1>1
<1>8. SplitUpTo(longer)[n + 1] = Split(SplitUpTo(longer)[n], longer[n + 1])
  BY <1>3, <1>7
<1>. QED
  BY <1>1, <1>6, <1>8 DEF Segments, longer, n

(* Marks are numbers, a text is a sequence of them. *)
LogText == Seq(Nat)

(* It ends the last piece, or belongs to it. *)
LEMMA SplitLast ==
  ASSUME NEW front \in Seq(LogText), NEW stop \in LogText, NEW c \in Nat
  PROVE  /\ c = 0 => Split(Append(front, stop), c) = Append(Append(front, stop), <<>>)
         /\ c # 0 => Split(Append(front, stop), c) = Append(front, Append(stop, c))
<1>. DEFINE segs == Append(front, stop)
            n == Len(front)
            l == [segs EXCEPT ![n + 1] = Append(stop, c)]
            r == Append(front, Append(stop, c))
<1>1. Append(stop, c) \in LogText /\ n \in Nat
  BY LenProperties, AppendProperties DEF LogText
<1>2. /\ segs \in Seq(LogText) /\ Len(segs) = n + 1 /\ segs[n + 1] = stop
      /\ \A k \in 1..n : segs[k] = front[k]
  BY AppendProperties
<1>3. /\ r \in Seq(LogText) /\ Len(r) = n + 1 /\ r[n + 1] = Append(stop, c)
      /\ \A k \in 1..n : r[k] = front[k]
  BY <1>1, AppendProperties
<1>. HIDE DEF segs, n
<1>4. /\ l \in Seq(LogText) /\ Len(l) = n + 1
      /\ \A k \in 1..(n + 1) : l[k] = IF k = n + 1 THEN Append(stop, c) ELSE segs[k]
  <2>1. n + 1 \in 1..Len(segs)
    BY <1>1, <1>2
  <2>. QED
    BY <1>1, <1>2, <2>1, ExceptSeq
<1>5. Split(segs, c) = IF c = 0 THEN Append(segs, <<>>) ELSE l
  BY <1>2 DEF Split
<1>. HIDE DEF l, r
<1>6. l = r
  <2>1. \A k \in 1..(n + 1) : k = n + 1 \/ k \in 1..n
    BY <1>1
  <2>2. \A k \in 1..n : k # n + 1 /\ k \in 1..(n + 1)
    BY <1>1
  <2>3. \A k \in 1..n : l[k] = r[k]
    BY <1>2, <1>3, <1>4, <2>2
  <2>4. n + 1 \in 1..(n + 1)
    BY <1>1
  <2>5. \A k \in 1..Len(l) : l[k] = r[k]
    BY <1>3, <1>4, <2>1, <2>3, <2>4
  <2>. QED
    BY <1>3, <1>4, <2>5, SeqEqual
<1>. QED
  BY <1>5, <1>6 DEF segs, r

(* There is a last piece, without line ends. *)
LEMMA SegmentsType ==
  ASSUME NEW text \in LogText
  PROVE  \E front \in Seq(LogText), stop \in LogText : Segments(text) = Append(front, stop)
<1>. DEFINE P == {s \in LogText : \E front \in Seq(LogText), stop \in LogText : Segments(s) = Append(front, stop)}
<1>0. <<>> \in LogText /\ <<>> \in Seq(LogText)
  BY EmptySeq DEF LogText
<1>1. <<>> \in P
  <2>1. Append(<<>>, <<>>) = <<<<>>>>
    OBVIOUS
  <2>. QED
    BY <1>0, <2>1, SegmentsNone
<1>2. ASSUME NEW s \in Seq(Nat), NEW x \in Nat, s \in P PROVE Append(s, x) \in P
  <2>1. PICK front \in Seq(LogText), stop \in LogText : Segments(s) = Append(front, stop)
    BY <1>2
  <2>2. Append(front, stop) \in Seq(LogText) /\ Append(stop, x) \in LogText /\ Append(s, x) \in LogText
    BY AppendProperties DEF LogText
  <2>3. Segments(Append(s, x))
          = IF x = 0 THEN Append(Append(front, stop), <<>>) ELSE Append(front, Append(stop, x))
    <3>1. Segments(Append(s, x)) = Split(Segments(s), x)
      BY SegmentsAppend
    <3>. QED
      BY <2>1, <3>1, SplitLast
  <2>. QED
    BY <1>0, <2>2, <2>3
<1>3. Seq(Nat) \subseteq P
  <2>. HIDE DEF P
  <2>. QED
    BY <1>1, <1>2, SeqInduct
<1>. QED
  BY <1>3 DEF LogText

(* Only the first piece of a text depends on what stands before it. *)
LEMMA SegmentsJoin ==
  ASSUME NEW before \in LogText, NEW text \in LogText
  PROVE  \E h \in LogText, r \in Seq(LogText) :
           /\ Segments(text) = <<h>> \o r
           /\ Segments(before \o text) = Segments(before \o h) \o r
           /\ r = <<>> => h = text
<1>. DEFINE Joins(s, h, r) == /\ Segments(s) = <<h>> \o r
                              /\ Segments(before \o s) = Segments(before \o h) \o r
                              /\ r = <<>> => h = s
            P == {s \in LogText : \E h \in LogText, r \in Seq(LogText) : Joins(s, h, r)}
<1>0. <<>> \in LogText /\ <<>> \in Seq(LogText)
  BY EmptySeq DEF LogText
<1>1. ASSUME NEW h \in LogText PROVE Segments(before \o h) \in Seq(LogText)
  <2>1. before \o h \in LogText
    BY ConcatProperties DEF LogText
  <2>2. PICK front \in Seq(LogText), stop \in LogText : Segments(before \o h) = Append(front, stop)
    BY <2>1, SegmentsType
  <2>. QED
    BY <2>2, AppendProperties
<1>2. ASSUME NEW h \in LogText PROVE Segments(before \o h) \o <<>> = Segments(before \o h)
  BY <1>1, ConcatEmptySeq
<1>3. <<>> \in P
  <2>1. <<<<>>>> \o <<>> = <<<<>>>>
    OBVIOUS
  <2>2. Joins(<<>>, <<>>, <<>>)
    BY <1>0, <1>2, <2>1, SegmentsNone
  <2>. HIDE DEF Joins
  <2>. QED
    BY <1>0, <2>2
<1>4. ASSUME NEW s \in Seq(Nat), NEW x \in Nat, s \in P PROVE Append(s, x) \in P
  <2>0. s \in LogText /\ Append(s, x) \in LogText
    BY AppendProperties DEF LogText
  <2>1. PICK h \in LogText, r \in Seq(LogText) : Joins(s, h, r)
    BY <1>4
  <2>. DEFINE one == <<h>>
              texts == Segments(before \o h)
              longer == Append(s, x)
  <2>2. one \in Seq(LogText) /\ one \o <<>> = one /\ one = Append(<<>>, h)
    OBVIOUS
  <2>3. texts \in Seq(LogText)
    BY <1>1
  <2>4. Segments(s) = one \o r /\ Segments(before \o s) = texts \o r /\ (r = <<>> => h = s)
    BY <2>1
  <2>5. Segments(longer) = Split(one \o r, x)
    <3>1. Segments(Append(s, x)) = Split(Segments(s), x)
      BY SegmentsAppend
    <3>. QED
      BY <2>4, <3>1
  <2>6. Segments(before \o longer) = Split(texts \o r, x)
    <3>1. before \o Append(s, x) = Append(before \o s, x) /\ before \o s \in Seq(Nat)
      BY ConcatAppend, ConcatProperties DEF LogText
    <3>2. Segments(Append(before \o s, x)) = Split(Segments(before \o s), x)
      BY <3>1, SegmentsAppend
    <3>. QED
      BY <2>4, <3>1, <3>2
  <2>. HIDE DEF one, texts, longer, Joins
  <2>7. CASE r = <<>>
    <3>1. h = s
      BY <2>4, <2>7
    <3>2. Segments(longer) = IF x = 0 THEN Append(one, <<>>) ELSE Append(<<>>, longer)
      <4>. DEFINE none == <<>>
      <4>1. none \in Seq(LogText)
        BY <1>0
      <4>. HIDE DEF none
      <4>2. /\ x = 0 => Split(Append(none, h), x) = Append(Append(none, h), <<>>)
            /\ x # 0 => Split(Append(none, h), x) = Append(none, Append(h, x))
        BY <4>1, SplitLast
      <4>. QED
        BY <2>2, <2>5, <2>7, <3>1, <4>2 DEF longer, none
    <3>3. CASE x = 0
      <4>1. Append(one, <<>>) = one \o <<<<>>>> /\ <<<<>>>> \in Seq(LogText) /\ <<<<>>>> # <<>>
        BY <1>0, <2>2
      <4>2. Split(texts, x) = Append(texts, <<>>)
        BY <3>3 DEF Split
      <4>3. Append(texts, <<>>) = texts \o <<<<>>>>
        BY <1>0, <2>3
      <4>4. texts \o r = texts
        BY <2>3, <2>7, ConcatEmptySeq
      <4>5. Joins(longer, h, <<<<>>>>)
        BY <2>6, <3>2, <3>3, <4>1, <4>2, <4>3, <4>4 DEF Joins, one, texts
      <4>. QED
        BY <2>0, <4>1, <4>5 DEF longer
    <3>4. CASE x # 0
      <4>1. Append(<<>>, longer) = <<longer>> \o <<>>
        OBVIOUS
      <4>2. longer \in LogText
        BY <2>0 DEF longer
      <4>3. Joins(longer, longer, <<>>)
        BY <1>2, <3>2, <3>4, <4>1, <4>2 DEF Joins
      <4>. QED
        BY <1>0, <2>0, <4>2, <4>3 DEF longer
    <3>. QED
      BY <3>3, <3>4
  <2>8. CASE r # <<>>
    <3>1. PICK g \in Seq(LogText), l \in LogText : r = Append(g, l)
      BY <2>8, SequenceEmptyOrAppend
    <3>. DEFINE more == IF x = 0 THEN Append(r, <<>>) ELSE Append(g, Append(l, x))
    <3>2. Append(l, x) \in LogText
      BY AppendProperties DEF LogText
    <3>3. more \in Seq(LogText) /\ more # <<>>
      <4>1. ASSUME NEW a \in Seq(LogText), NEW b \in LogText
            PROVE  Append(a, b) \in Seq(LogText) /\ Append(a, b) # <<>>
        BY AppendProperties, EmptySeq
      <4>. QED
        BY <1>0, <3>2, <4>1
    <3>4. ASSUME NEW a \in Seq(LogText) PROVE Split(a \o r, x) = a \o more
      <4>1. a \o r = Append(a \o g, l) /\ a \o g \in Seq(LogText) /\ a \o r \in Seq(LogText)
        BY <3>1, ConcatAppend, ConcatProperties
      <4>2. a \o Append(r, <<>>) = Append(a \o r, <<>>)
        BY <1>0, ConcatAppend
      <4>3. a \o Append(g, Append(l, x)) = Append(a \o g, Append(l, x))
        BY <3>2, ConcatAppend
      <4>4. Split(Append(a \o g, l), x)
              = IF x = 0 THEN Append(Append(a \o g, l), <<>>) ELSE Append(a \o g, Append(l, x))
        BY <4>1, SplitLast
      <4>. QED
        BY <4>1, <4>2, <4>3, <4>4
    <3>. HIDE DEF more
    <3>5. Joins(longer, h, more)
      BY <2>2, <2>3, <2>5, <2>6, <3>3, <3>4 DEF Joins, one, texts
    <3>. QED
      BY <2>0, <3>3, <3>5 DEF longer
  <2>. QED
    BY <2>7, <2>8
<1>5. Seq(Nat) \subseteq P
  <2>. HIDE DEF P
  <2>. QED
    BY <1>3, <1>4, SeqInduct
<1>. QED
  BY <1>5 DEF LogText

(* What stands before the first line end, what lines follow it, and all lines. *)
First(text) == Head(Segments(text))
Rest(text) == Whole(Tail(Segments(text)))
All(text) == Whole(Segments(text))

PieceOf(piece) == IF piece = <<>> THEN <<>> ELSE <<piece>>

LEMMA WholeNone == Whole(<<>>) = <<>>
<1>1. [k \in DOMAIN <<>> |-> IF <<>>[k] = <<>> THEN <<>> ELSE <<<<>>[k]>>] = <<>>
  OBVIOUS
<1>. QED
  BY <1>1, FlattenNone DEF Whole

LEMMA WholeAppend ==
  ASSUME NEW segs \in Seq(LogText), NEW piece \in LogText
  PROVE  /\ Whole(Append(segs, piece)) = Whole(segs) \o PieceOf(piece)
         /\ Whole(segs) \in Seq(LogText) /\ PieceOf(piece) \in Seq(LogText)
<1>. DEFINE n == Len(segs)
            longer == Append(segs, piece)
            W(s) == [k \in DOMAIN s |-> PieceOf(s[k])]
            old == W(segs)
            new == W(longer)
            last == PieceOf(piece)
            grown == Append(old, last)
<1>1. ASSUME NEW p \in LogText PROVE PieceOf(p) \in Seq(LogText)
  BY EmptySeq DEF PieceOf
<1>2. /\ n \in Nat /\ DOMAIN segs = 1..n /\ \A k \in 1..n : segs[k] \in LogText
  BY LenProperties, ElementOfSeq
<1>3. /\ longer \in Seq(LogText) /\ Len(longer) = n + 1 /\ longer[n + 1] = piece
      /\ \A k \in 1..n : longer[k] = segs[k]
  BY AppendProperties
<1>4. DOMAIN longer = 1..(n + 1)
  BY <1>3, LenProperties
<1>. HIDE DEF n, longer
<1>5. /\ old \in Seq(Seq(LogText)) /\ Len(old) = n /\ \A k \in 1..n : old[k] = PieceOf(segs[k])
  BY <1>1, <1>2
<1>6. ASSUME NEW k \in 1..(n + 1) PROVE longer[k] \in LogText
  BY <1>3, ElementOfSeq
<1>7. /\ new \in Seq(Seq(LogText)) /\ Len(new) = n + 1
      /\ \A k \in 1..(n + 1) : new[k] = PieceOf(longer[k])
  <2>1. new = [k \in 1..(n + 1) |-> PieceOf(longer[k])]
    BY <1>4
  <2>. DEFINE p(k) == PieceOf(longer[k])
  <2>2. n + 1 \in Nat /\ \A k \in 1..(n + 1) : p(k) \in Seq(LogText)
    BY <1>1, <1>2, <1>6
  <2>. HIDE DEF p, new
  <2>3. new = [k \in 1..(n + 1) |-> p(k)]
    BY <2>1 DEF p
  <2>4. /\ new \in Seq(Seq(LogText)) /\ Len(new) = n + 1
        /\ \A k \in 1..(n + 1) : new[k] = p(k)
    BY <2>2, <2>3
  <2>. QED
    BY <2>4 DEF p
<1>8. last \in Seq(LogText)
  BY <1>1
<1>9. /\ Whole(segs) = FlattenSeq(old) /\ Whole(longer) = FlattenSeq(new)
  BY DEF Whole, PieceOf
<1>. HIDE DEF old, new, last
<1>10. grown \in Seq(Seq(LogText)) /\ Len(grown) = n + 1 /\ grown[n + 1] = last
       /\ \A k \in 1..n : grown[k] = old[k]
  BY <1>5, <1>8, AppendProperties
<1>. HIDE DEF grown
<1>11. \A k \in 1..(n + 1) : new[k] = grown[k]
  <2>1. n + 1 \in 1..(n + 1) /\ \A k \in 1..(n + 1) : k = n + 1 \/ k \in 1..n
    BY <1>2
  <2>2. new[n + 1] = grown[n + 1]
    BY <1>3, <1>7, <1>10, <2>1 DEF last
  <2>3. \A k \in 1..n : k \in 1..(n + 1)
    BY <1>2
  <2>4. \A k \in 1..n : new[k] = grown[k]
    BY <1>3, <1>5, <1>7, <1>10, <2>3
  <2>. QED
    BY <2>1, <2>2, <2>4
<1>12. new = grown
  BY <1>7, <1>10, <1>11, SeqEqual
<1>13. FlattenSeq(grown) = FlattenSeq(old) \o last /\ FlattenSeq(old) \in Seq(LogText)
  BY <1>5, <1>8, FlattenAppend DEF grown
<1>. QED
  BY <1>8, <1>9, <1>12, <1>13 DEF last, longer

LEMMA WholeConcat ==
  ASSUME NEW a \in Seq(LogText), NEW b \in Seq(LogText)
  PROVE  Whole(a \o b) = Whole(a) \o Whole(b)
<1>. DEFINE P == {s \in Seq(LogText) : Whole(a \o s) = Whole(a) \o Whole(s)}
<1>0. <<>> \in LogText /\ Whole(a) \in Seq(LogText)
  BY EmptySeq, WholeAppend DEF LogText
<1>1. <<>> \in P
  BY <1>0, WholeNone, ConcatEmptySeq, EmptySeq
<1>2. ASSUME NEW s \in Seq(LogText), NEW x \in LogText, s \in P PROVE Append(s, x) \in P
  <2>1. Append(s, x) \in Seq(LogText) /\ a \o s \in Seq(LogText) /\ a \o Append(s, x) = Append(a \o s, x)
    BY AppendProperties, ConcatProperties, ConcatAppend
  <2>2. Whole(Append(a \o s, x)) = Whole(a \o s) \o PieceOf(x)
    BY <2>1, WholeAppend
  <2>3. Whole(Append(s, x)) = Whole(s) \o PieceOf(x)
    BY WholeAppend
  <2>4. Whole(a \o s) = Whole(a) \o Whole(s)
    BY <1>2
  <2>5. (Whole(a) \o Whole(s)) \o PieceOf(x) = Whole(a) \o (Whole(s) \o PieceOf(x))
    <3>1. Whole(a) \in Seq(LogText) /\ Whole(s) \in Seq(LogText) /\ PieceOf(x) \in Seq(LogText)
      BY <1>0, WholeAppend
    <3>. QED
      BY ONLY <3>1, Associative, SMTT(30)
  <2>. QED
    BY <2>1, <2>2, <2>3, <2>4, <2>5
<1>3. Seq(LogText) \subseteq P
  <2>. HIDE DEF P
  <2>. QED
    BY <1>1, <1>2, SeqInduct
<1>. QED
  BY <1>3

(* A text is read from its end: first what follows a cut, then what precedes it *)
(* together with the piece that was cut.                                        *)
LEMMA Reads ==
  ASSUME NEW before \in LogText, NEW text \in LogText
  PROVE  /\ First(text) \in LogText /\ Rest(text) \in Seq(LogText)
         /\ All(text) = PieceOf(First(text)) \o Rest(text)
         /\ First(before \o text) = First(before \o First(text))
         /\ Rest(before \o text) = Rest(before \o First(text)) \o Rest(text)
         /\ All(before \o text) = All(before \o First(text)) \o Rest(text)
         /\ All(before \o First(text)) \in Seq(LogText)
<1>1. PICK h \in LogText, r \in Seq(LogText) :
        /\ Segments(text) = <<h>> \o r
        /\ Segments(before \o text) = Segments(before \o h) \o r
  BY SegmentsJoin
<1>. DEFINE one == <<h>>
            cut == Segments(before \o h)
<1>2. one \in Seq(LogText) /\ Len(one) = 1 /\ one = Append(<<>>, h) /\ <<>> \in Seq(LogText)
  OBVIOUS
<1>3. cut \in Seq(LogText) /\ cut # <<>>
  <2>1. before \o h \in LogText
    BY ConcatProperties DEF LogText
  <2>2. PICK front \in Seq(LogText), stop \in LogText : Segments(before \o h) = Append(front, stop)
    BY <2>1, SegmentsType
  <2>. QED
    BY <2>2, AppendProperties, EmptySeq
<1>4. \A a, b \in Seq(LogText) : a # <<>> => Head(a \o b) = Head(a) /\ Tail(a \o b) = Tail(a) \o b
  OBVIOUS
<1>5. Head(one) = h /\ Tail(one) = <<>> /\ one # <<>> /\ <<>> \o r = r
  OBVIOUS
<1>6. Head(one \o r) = h /\ Tail(one \o r) = r
  BY <1>2, <1>4, <1>5
<1>7. First(text) = h /\ Rest(text) = Whole(r)
  BY <1>1, <1>6 DEF First, Rest
<1>8. Head(cut \o r) = Head(cut) /\ Tail(cut \o r) = Tail(cut) \o r /\ Tail(cut) \in Seq(LogText)
  BY <1>3, <1>4
<1>. HIDE DEF one, cut
<1>9. Whole(one \o r) = PieceOf(h) \o Whole(r)
  <2>1. Whole(one \o r) = Whole(one) \o Whole(r)
    BY <1>2, WholeConcat
  <2>2. Whole(one) = Whole(<<>>) \o PieceOf(h) /\ PieceOf(h) \in Seq(LogText)
    BY <1>2, WholeAppend
  <2>. QED
    BY <2>1, <2>2, WholeNone, ConcatEmptySeq
<1>10. Whole(Tail(cut) \o r) = Whole(Tail(cut)) \o Whole(r) /\ Whole(cut \o r) = Whole(cut) \o Whole(r)
  BY <1>3, <1>8, WholeConcat
<1>11. Whole(r) \in Seq(LogText) /\ Whole(cut) \in Seq(LogText)
  BY <1>3, WholeAppend
<1>12. /\ First(before \o text) = Head(cut) /\ Rest(before \o text) = Whole(Tail(cut)) \o Whole(r)
       /\ All(before \o text) = Whole(cut) \o Whole(r) /\ All(text) = PieceOf(h) \o Whole(r)
  BY <1>1, <1>8, <1>9, <1>10 DEF First, Rest, All, one, cut
<1>13. First(before \o h) = Head(cut) /\ Rest(before \o h) = Whole(Tail(cut)) /\ All(before \o h) = Whole(cut)
  BY DEF First, Rest, All, cut
<1>. QED
  BY <1>7, <1>11, <1>12, <1>13

(* The last lines of a file. *)
LEMMA LastAre ==
  ASSUME NEW S, NEW lines \in Seq(S), NEW n \in Nat
  PROVE  /\ LastLines(lines, n) \in Seq(S)
         /\ Len(LastLines(lines, n)) = IF Len(lines) > n THEN n ELSE Len(lines)
         /\ \A i \in 1..Len(LastLines(lines, n)) :
              LastLines(lines, n)[i] = lines[Len(lines) - Len(LastLines(lines, n)) + i]
<1>. DEFINE m == Len(lines)
            from == IF m > n THEN m - n + 1 ELSE 1
            last == SubSeq(lines, from, m)
<1>1. m \in Nat /\ \A i \in 1..m : lines[i] \in S
  BY LenProperties, ElementOfSeq
<1>2. LastLines(lines, n) = last
  BY DEF LastLines
<1>. HIDE DEF m
<1>3. from \in Int /\ from >= 1 /\ from <= m + 1 /\ m - from + 1 = IF m > n THEN n ELSE m
  BY <1>1
<1>. HIDE DEF from
<1>4. /\ last \in Seq(S) /\ Len(last) = IF from <= m THEN m - from + 1 ELSE 0
      /\ \A i \in 1..(m - from + 1) : last[i] = lines[from + i - 1]
  <2>1. \A i \in from..m : lines[i] \in S
    BY <1>1, <1>3
  <2>. QED
    BY <1>1, <1>3, <2>1, SubSeqProperties
<1>5. Len(last) = m - from + 1
  BY <1>1, <1>3, <1>4
<1>6. \A i \in 1..Len(last) : from + i - 1 = m - Len(last) + i
  BY <1>1, <1>3, <1>5
<1>. HIDE DEF last
<1>7. \A i \in 1..Len(last) : last[i] = lines[m - Len(last) + i]
  BY <1>4, <1>5, <1>6
<1>8. /\ last \in Seq(S) /\ Len(last) = IF m > n THEN n ELSE m
  BY <1>3, <1>4, <1>5
<1>. QED
  BY <1>2, <1>7, <1>8 DEF m

LEMMA LastOfFew ==
  ASSUME NEW S, NEW lines \in Seq(S), NEW n \in Nat, Len(lines) <= n
  PROVE  LastLines(lines, n) = lines
<1>1. Len(lines) \in Nat
  BY LenProperties
<1>2. /\ LastLines(lines, n) \in Seq(S) /\ Len(LastLines(lines, n)) = Len(lines)
      /\ \A i \in 1..Len(LastLines(lines, n)) :
           LastLines(lines, n)[i] = lines[Len(lines) - Len(LastLines(lines, n)) + i]
  BY <1>1, LastAre
<1>3. \A i \in 1..Len(LastLines(lines, n)) : LastLines(lines, n)[i] = lines[i]
  BY <1>1, <1>2
<1>. QED
  BY <1>2, <1>3, SeqEqual

(* They are those of its end, and if these are too few, of what precedes it. *)
LEMMA LastOfEnd ==
  ASSUME NEW S, NEW v \in Seq(S), NEW w \in Seq(S), NEW n \in Nat
  PROVE  /\ Len(w) >= n => LastLines(v \o w, n) = LastLines(w, n)
         /\ Len(w) <= n => LastLines(v \o w, n) = LastLines(v, n - Len(w)) \o w
<1>. DEFINE a == Len(v)
            b == Len(w)
            vw == v \o w
            texts == LastLines(vw, n)
<1>1. a \in Nat /\ b \in Nat
  BY LenProperties
<1>2. /\ vw \in Seq(S) /\ Len(vw) = a + b
      /\ \A i \in 1..(a + b) : vw[i] = IF i <= a THEN v[i] ELSE w[i - a]
  BY ConcatProperties
<1>. HIDE DEF vw, a, b
<1>3. /\ texts \in Seq(S) /\ Len(texts) = IF a + b > n THEN n ELSE a + b
      /\ \A i \in 1..Len(texts) : texts[i] = vw[a + b - Len(texts) + i]
  <2>1. /\ texts \in Seq(S) /\ Len(texts) = IF Len(vw) > n THEN n ELSE Len(vw)
        /\ \A i \in 1..Len(texts) : texts[i] = vw[Len(vw) - Len(texts) + i]
    BY <1>2, LastAre
  <2>. HIDE DEF texts
  <2>2. Len(vw) = a + b
    BY <1>2
  <2>. QED
    BY <1>1, <2>1, <2>2
<1>. HIDE DEF texts
<1>4. ASSUME b >= n PROVE texts = LastLines(w, n)
  <2>. DEFINE r == LastLines(w, n)
  <2>1. /\ r \in Seq(S) /\ Len(r) = IF b > n THEN n ELSE b
        /\ \A i \in 1..Len(r) : r[i] = w[b - Len(r) + i]
    BY LastAre DEF b
  <2>. HIDE DEF r
  <2>2. Len(r) = n /\ Len(texts) = n
    BY <1>1, <1>3, <1>4, <2>1
  <2>3. ASSUME NEW i \in 1..n PROVE texts[i] = r[i]
    <3>1. /\ a + b - n + i \in 1..(a + b) /\ ~(a + b - n + i <= a)
          /\ (a + b - n + i) - a = b - n + i
      BY <1>1, <1>4
    <3>2. texts[i] = vw[a + b - n + i] /\ r[i] = w[b - n + i]
      BY <1>3, <2>1, <2>2
    <3>3. vw[a + b - n + i] = w[(a + b - n + i) - a]
      BY <1>2, <3>1
    <3>. QED
      BY <3>1, <3>2, <3>3
  <2>4. texts = r
    BY <1>3, <2>1, <2>2, <2>3, SeqEqual
  <2>. QED
    BY <2>4 DEF r
<1>5. ASSUME b <= n PROVE texts = LastLines(v, n - b) \o w
  <2>. DEFINE k == n - b
              p == LastLines(v, k)
              r == p \o w
  <2>0. k \in Nat
    BY <1>1, <1>5
  <2>. HIDE DEF k
  <2>1. /\ p \in Seq(S) /\ Len(p) = IF a > k THEN k ELSE a
        /\ \A i \in 1..Len(p) : p[i] = v[a - Len(p) + i]
    BY <2>0, LastAre DEF a
  <2>. HIDE DEF p
  <2>2. /\ r \in Seq(S) /\ Len(r) = Len(p) + b
        /\ \A i \in 1..(Len(p) + b) : r[i] = IF i <= Len(p) THEN p[i] ELSE w[i - Len(p)]
    BY <2>1, ConcatProperties DEF b
  <2>. HIDE DEF r
  <2>. DEFINE m == Len(p)
  <2>3. m \in Nat /\ m <= a /\ Len(texts) = m + b
    BY <1>1, <1>3, <1>5, <2>0, <2>1 DEF k
  <2>. HIDE DEF m
  <2>4. ASSUME NEW i \in 1..(m + b) PROVE texts[i] = r[i]
    <3>1. texts[i] = vw[a + b - (m + b) + i] /\ a + b - (m + b) + i = a - m + i
          /\ a - m + i \in 1..(a + b)
      BY <1>1, <1>3, <2>3
    <3>2. CASE i <= m
      <4>1. a - m + i <= a /\ i \in 1..m
        BY <1>1, <2>3, <3>2
      <4>2. vw[a - m + i] = v[a - m + i]
        BY <1>2, <3>1, <4>1
      <4>3. r[i] = p[i] /\ p[i] = v[a - m + i]
        BY <2>1, <2>2, <3>2, <4>1 DEF m
      <4>. QED
        BY <3>1, <4>2, <4>3
    <3>3. CASE i > m
      <4>1. ~(a - m + i <= a) /\ (a - m + i) - a = i - m /\ ~(i <= m)
        BY <1>1, <2>3, <3>3
      <4>2. vw[a - m + i] = w[i - m]
        BY <1>2, <3>1, <4>1
      <4>3. r[i] = w[i - m]
        BY <2>2, <4>1 DEF m
      <4>. QED
        BY <3>1, <4>2, <4>3
    <3>. QED
      BY <2>3, <3>2, <3>3
  <2>5. Len(texts) = Len(r) /\ \A i \in 1..Len(texts) : texts[i] = r[i]
    BY <2>2, <2>3, <2>4 DEF m
  <2>6. texts = r
    BY <1>3, <2>2, <2>5, SeqEqual
  <2>. QED
    BY <2>6 DEF r, p, k
<1>. QED
  BY <1>4, <1>5 DEF texts, vw, b

LEMMA ReadEach ==
  ASSUME NEW text, NEW want, NEW size, NEW n \in Nat, n = Len(text)
  PROVE  /\ ReadBack(text, want, size)[0] = [pos |-> n, head |-> <<>>, lines |-> <<>>]
         /\ \A k \in 1..n : ReadBack(text, want, size)[k] = ReadTurn(ReadBack(text, want, size)[k - 1], text, want, size)
<1>. DEFINE none == [pos |-> n, head |-> <<>>, lines |-> <<>>]
            Made(f, m) == f = [k \in 0..m |-> IF k = 0 THEN none ELSE ReadTurn(f[k - 1], text, want, size)]
            T == {m \in 0..n : \E f : Made(f, m)}
<1>. HIDE DEF none
<1>1. 0 \in T
  <2>. DEFINE g == [k \in 0..0 |-> none]
  <2>1. Made(g, 0)
    OBVIOUS
  <2>. HIDE DEF Made, g
  <2>. QED
    BY <2>1
<1>2. ASSUME NEW m \in 0..(n - 1), m \in T PROVE m + 1 \in T
  <2>1. PICK f : Made(f, m)
    BY <1>2
  <2>. DEFINE next == ReadTurn(f[m], text, want, size)
              g == [k \in 0..(m + 1) |-> IF k = m + 1 THEN next ELSE f[k]]
              h == [k \in 0..(m + 1) |-> IF k = 0 THEN none ELSE ReadTurn(g[k - 1], text, want, size)]
  <2>2. ASSUME NEW k \in 0..(m + 1) PROVE g[k] = h[k]
    <3>1. CASE k = m + 1
      BY <3>1
    <3>2. CASE k \in 0..m
      <4>1. g[k] = f[k] /\ k # m + 1 /\ (k # 0 => k - 1 \in 0..m /\ k - 1 # m + 1)
        BY <3>2
      <4>2. f[k] = IF k = 0 THEN none ELSE ReadTurn(f[k - 1], text, want, size)
        BY <2>1, <3>2
      <4>3. k # 0 => g[k - 1] = f[k - 1]
        BY <4>1
      <4>. QED
        BY <4>1, <4>2, <4>3
    <3>. QED
      BY <3>1, <3>2
  <2>3. g = h
    BY <2>2
  <2>4. Made(g, m + 1)
    BY <2>3
  <2>. HIDE DEF Made, g
  <2>. QED
    BY <2>4
<1>3. \E f : Made(f, n)
  <2>1. 0..n \subseteq T
    <3>. HIDE DEF T
    <3>. QED
      BY <1>1, <1>2, Induct
  <2>. HIDE DEF Made
  <2>. QED
    BY <2>1
<1>. DEFINE f == CHOOSE f : Made(f, n)
<1>4. Made(f, n)
  <2>. HIDE DEF Made
  <2>. QED
    BY <1>3
<1>5. ReadBack(text, want, size) = f
  BY DEF ReadBack, none
<1>. HIDE DEF f
<1>6. f[0] = none /\ \A k \in 1..n : f[k] = ReadTurn(f[k - 1], text, want, size)
  BY <1>4
<1>. QED
  BY <1>5, <1>6 DEF none

LEMMA TextCut ==
  \A text \in Seq(Nat) : \A i, j \in Nat : i <= j /\ j <= Len(text) =>
    /\ SubSeq(text, i + 1, Len(text)) = SubSeq(text, i + 1, j) \o SubSeq(text, j + 1, Len(text))
    /\ SubSeq(text, i + 1, j) \in Seq(Nat) /\ Len(SubSeq(text, i + 1, j)) = j - i
    /\ SubSeq(text, i + 1, Len(text)) \in Seq(Nat)
    /\ Len(SubSeq(text, i + 1, Len(text))) = Len(text) - i
<1>. SUFFICES ASSUME NEW text \in Seq(Nat), NEW i \in Nat, NEW j \in Nat, i <= j, j <= Len(text)
             PROVE  /\ SubSeq(text, i + 1, Len(text)) = SubSeq(text, i + 1, j) \o SubSeq(text, j + 1, Len(text))
                    /\ SubSeq(text, i + 1, j) \in Seq(Nat) /\ Len(SubSeq(text, i + 1, j)) = j - i
                    /\ SubSeq(text, i + 1, Len(text)) \in Seq(Nat)
                    /\ Len(SubSeq(text, i + 1, Len(text))) = Len(text) - i
  OBVIOUS
<1>. DEFINE n == Len(text)
<1>1. n \in Nat /\ \A k \in 1..n : text[k] \in Nat
  BY LenProperties, ElementOfSeq
<1>2. j <= n
  OBVIOUS
<1>. HIDE DEF n
<1>3. ASSUME NEW a \in Nat, NEW b \in Nat, a <= b, b <= n
      PROVE  /\ SubSeq(text, a + 1, b) \in Seq(Nat) /\ Len(SubSeq(text, a + 1, b)) = b - a
             /\ \A k \in 1..(b - a) : SubSeq(text, a + 1, b)[k] = text[a + k]
  <2>. DEFINE c == a + 1
  <2>1. c \in Int /\ c >= 1 /\ \A k \in c..b : text[k] \in Nat
    BY <1>1, <1>3
  <2>2. c = a + 1
    OBVIOUS
  <2>. HIDE DEF c
  <2>3. /\ SubSeq(text, c, b) \in Seq(Nat) /\ Len(SubSeq(text, c, b)) = IF c <= b THEN b - c + 1 ELSE 0
        /\ \A k \in 1..(b - c + 1) : SubSeq(text, c, b)[k] = text[c + k - 1]
    BY <2>1, SubSeqProperties
  <2>4. /\ (IF c <= b THEN b - c + 1 ELSE 0) = b - a /\ b - c + 1 = b - a
        /\ \A k \in 1..(b - a) : c + k - 1 = a + k
    BY <1>3, <2>2
  <2>5. Len(SubSeq(text, c, b)) = b - a /\ \A k \in 1..(b - a) : SubSeq(text, c, b)[k] = text[a + k]
    BY <2>3, <2>4
  <2>. QED
    BY <2>3, <2>5 DEF c
<1>. DEFINE texts == SubSeq(text, i + 1, n)
            p == SubSeq(text, i + 1, j)
            q == SubSeq(text, j + 1, n)
            pq == p \o q
<1>4. /\ texts \in Seq(Nat) /\ Len(texts) = n - i /\ \A k \in 1..(n - i) : texts[k] = text[i + k]
      /\ p \in Seq(Nat) /\ Len(p) = j - i /\ \A k \in 1..(j - i) : p[k] = text[i + k]
      /\ q \in Seq(Nat) /\ Len(q) = n - j /\ \A k \in 1..(n - j) : q[k] = text[j + k]
  BY <1>1, <1>2, <1>3
<1>. HIDE DEF texts, p, q
<1>5. /\ pq \in Seq(Nat) /\ Len(pq) = Len(p) + Len(q)
      /\ \A k \in 1..(Len(p) + Len(q)) : pq[k] = IF k <= Len(p) THEN p[k] ELSE q[k - Len(p)]
  <2>1. p \in Seq(Nat) /\ q \in Seq(Nat)
    BY <1>4
  <2>. QED
    BY ONLY <2>1, ConcatProperties, Zenon DEF pq
<1>. HIDE DEF pq
<1>6. Len(pq) = n - i /\ \A k \in 1..(n - i) : pq[k] = IF k <= j - i THEN p[k] ELSE q[k - (j - i)]
  <2>1. Len(p) + Len(q) = n - i
    BY <1>1, <1>2, <1>4
  <2>. QED
    BY <1>4, <1>5, <2>1
<1>7. ASSUME NEW k \in 1..(n - i) PROVE texts[k] = pq[k]
  <2>1. CASE k <= j - i
    <3>1. k \in 1..(j - i)
      BY <1>1, <1>2, <2>1
    <3>2. pq[k] = p[k]
      BY <1>6, <2>1
    <3>. QED
      BY <1>4, <3>1, <3>2
  <2>2. CASE k > j - i
    <3>1. k - (j - i) \in 1..(n - j) /\ ~(k <= j - i) /\ j + (k - (j - i)) = i + k
      BY <1>1, <1>2, <2>2
    <3>2. q[k - (j - i)] = text[j + (k - (j - i))] /\ pq[k] = q[k - (j - i)] /\ texts[k] = text[i + k]
      BY <1>4, <1>6, <3>1
    <3>. QED
      BY <3>1, <3>2
  <2>. QED
    BY <1>1, <2>1, <2>2
<1>8. texts = pq
  BY <1>4, <1>5, <1>6, <1>7, SeqEqual
<1>. QED
  BY <1>4, <1>8 DEF texts, p, q, pq, n

(* Where the reading is: all lines after a cut are there and what precedes them *)
(* waits, or there are enough.                                                  *)
ReadBackSoFar(got, text, want) ==
  /\ got \in [pos : Nat, head : LogText, lines : Seq(LogText)]
  /\ got.pos <= Len(text)
  /\ LET read == SubSeq(text, got.pos + 1, Len(text))
     IN \/ Len(got.lines) < want /\ got.head = First(read) /\ got.lines = Rest(read)
        \/ Len(got.lines) >= want /\ got.lines = LastLines(All(text), want)

LEMMA ReadStarts ==
  ASSUME NEW text \in LogText, NEW want \in Nat, want > 0
  PROVE  ReadBackSoFar([pos |-> Len(text), head |-> <<>>, lines |-> <<>>], text, want)
<1>. DEFINE n == Len(text)
<1>1. n \in Nat
  BY LenProperties DEF LogText
<1>. HIDE DEF n
<1>2. SubSeq(text, n + 1, n) = <<>>
  BY <1>1, SubSeqEmpty
<1>3. Head(<<<<>>>>) = <<>> /\ Tail(<<<<>>>>) = <<>> /\ Len(<<>>) = 0
  OBVIOUS
<1>4. First(<<>>) = <<>> /\ Rest(<<>>) = <<>>
  BY <1>3, SegmentsNone, WholeNone DEF First, Rest
<1>5. <<>> \in LogText /\ <<>> \in Seq(LogText)
  BY EmptySeq DEF LogText
<1>. DEFINE got == [pos |-> n, head |-> <<>>, lines |-> <<>>]
<1>6. got \in [pos : Nat, head : LogText, lines : Seq(LogText)] /\ got.pos = n /\ got.head = <<>> /\ got.lines = <<>>
  BY <1>1, <1>5
<1>. HIDE DEF got
<1>7. ReadBackSoFar(got, text, want)
  <2>1. Len(got.lines) < want
    BY <1>3, <1>6
  <2>2. SubSeq(text, got.pos + 1, Len(text)) = <<>> /\ got.pos <= Len(text)
    BY <1>1, <1>2, <1>6 DEF n
  <2>3. got.head = First(<<>>) /\ got.lines = Rest(<<>>)
    BY <1>4, <1>6
  <2>. QED
    BY <1>6, <2>1, <2>2, <2>3 DEF ReadBackSoFar
<1>. QED
  BY <1>7 DEF got, n

LEMMA ReadsOn ==
  ASSUME NEW text \in LogText, NEW want \in Nat, NEW size \in Nat, size > 0,
         NEW got, ReadBackSoFar(got, text, want), got.pos # 0, Len(got.lines) < want
  PROVE  /\ ReadBackSoFar(ReadTurn(got, text, want, size), text, want)
         /\ ReadTurn(got, text, want, size).pos < got.pos
<1>. DEFINE n == Len(text)
            pos == got.pos
            from == IF pos > size THEN pos - size ELSE 0
            chunk == SubSeq(text, from + 1, pos)
            read == SubSeq(text, pos + 1, n)
            longer == SubSeq(text, from + 1, n)
            cut == chunk \o First(read)
            next == ReadChunk(got, chunk, want)
<1>1. /\ n \in Nat /\ pos \in Nat /\ pos # 0 /\ pos <= n /\ got.head \in LogText /\ got.lines \in Seq(LogText)
      /\ got = [pos |-> pos, head |-> got.head, lines |-> got.lines]
  BY LenProperties DEF ReadBackSoFar, LogText
<1>2. from \in Nat /\ from < pos
  BY <1>1
<1>3. got.head = First(read) /\ got.lines = Rest(read)
  <2>1. Len(got.lines) \in Nat /\ ~(Len(got.lines) >= want)
    BY <1>1, LenProperties
  <2>. QED
    BY <2>1 DEF ReadBackSoFar
<1>4. ReadTurn(got, text, want, size) = next
  <2>1. Len(got.lines) \in Nat /\ ~(Len(got.lines) >= want)
    BY <1>1, LenProperties
  <2>. QED
    BY <1>1, <2>1 DEF ReadTurn
<1>. HIDE DEF from, pos
<1>5. chunk \in LogText /\ Len(chunk) = pos - from /\ longer = chunk \o read /\ longer \in LogText
  <2>1. text \in Seq(Nat) /\ from <= pos /\ pos <= Len(text)
    BY <1>1, <1>2 DEF LogText, n
  <2>. HIDE DEF n
  <2>2. /\ SubSeq(text, from + 1, Len(text)) = SubSeq(text, from + 1, pos) \o SubSeq(text, pos + 1, Len(text))
        /\ SubSeq(text, from + 1, pos) \in Seq(Nat) /\ Len(SubSeq(text, from + 1, pos)) = pos - from
        /\ SubSeq(text, from + 1, Len(text)) \in Seq(Nat)
    <3>1. pos \in Nat /\ from \in Nat
      BY <1>1, <1>2
    <3>. QED
      BY ONLY <2>1, <3>1, TextCut
  <2>. QED
    BY <2>2 DEF LogText, n
<1>6. read \in LogText
  <2>1. text \in Seq(Nat) /\ n = Len(text) /\ n <= n
    BY <1>1 DEF LogText, n
  <2>. HIDE DEF n
  <2>2. SubSeq(text, pos + 1, Len(text)) \in Seq(Nat)
    BY <1>1, <2>1, TextCut
  <2>. QED
    BY <2>1, <2>2 DEF LogText
<1>7. /\ next.pos = pos - Len(chunk) /\ next.head = First(cut)
      /\ next.lines = LastLines(Rest(cut), want - Len(got.lines)) \o got.lines
      /\ next = [pos |-> next.pos, head |-> next.head, lines |-> next.lines]
  <2>. DEFINE h == got.head
              l == got.lines
              len == pos - Len(chunk)
              fst == Head(Segments(chunk \o h))
              more == LastLines(Whole(Tail(Segments(chunk \o h))), want - Len(l)) \o l
  <2>1. next = [got EXCEPT !.pos = len, !.head = fst, !.lines = more]
    BY DEF ReadChunk, pos
  <2>. HIDE DEF len, fst, more, next
  <2>2. next = [pos |-> len, head |-> fst, lines |-> more]
    BY <1>1, <2>1
  <2>3. next.pos = len /\ next.head = fst /\ next.lines = more
        /\ next = [pos |-> next.pos, head |-> next.head, lines |-> next.lines]
    BY <2>2
  <2>. QED
    BY <1>3, <2>3 DEF len, fst, more, First, Rest
<1>. HIDE DEF next, chunk, read, longer
<1>8. next.pos = from
  BY <1>1, <1>2, <1>5, <1>7
<1>9. /\ First(read) \in LogText /\ Rest(read) \in Seq(LogText)
      /\ First(longer) = First(cut) /\ Rest(longer) = Rest(cut) \o Rest(read)
  BY <1>5, <1>6, Reads
<1>10. First(cut) \in LogText /\ Rest(cut) \in Seq(LogText)
  <2>1. cut \in LogText
    BY <1>5, <1>9, ConcatProperties DEF LogText
  <2>2. <<>> \in LogText
    BY EmptySeq DEF LogText
  <2>. HIDE DEF cut
  <2>. QED
    BY <2>1, <2>2, Reads
<1>. HIDE DEF cut
<1>11. next.lines = LastLines(Rest(longer), want)
  <2>. DEFINE v == Rest(cut)
              w == Rest(read)
  <2>1. v \in Seq(LogText) /\ w \in Seq(LogText) /\ Len(w) <= want
    BY <1>3, <1>9, <1>10, LenProperties
  <2>. HIDE DEF v, w
  <2>2. LastLines(v \o w, want) = LastLines(v, want - Len(w)) \o w
    BY <2>1, LastOfEnd
  <2>. QED
    BY <1>3, <1>7, <1>9, <2>2 DEF v, w
<1>12. Rest(longer) \in Seq(LogText) /\ Len(Rest(longer)) \in Nat
  BY <1>9, <1>10, ConcatProperties, LenProperties
<1>13. next.lines \in Seq(LogText) /\ Len(next.lines) = IF Len(Rest(longer)) > want THEN want ELSE Len(Rest(longer))
  BY <1>11, <1>12, LastAre
<1>14. next \in [pos : Nat, head : LogText, lines : Seq(LogText)] /\ next.pos <= n
  <2>1. next.pos \in Nat /\ next.pos <= n
    BY <1>1, <1>2, <1>8
  <2>2. next.head \in LogText /\ next.lines \in Seq(LogText)
    BY <1>7, <1>10, <1>13
  <2>3. next = [pos |-> next.pos, head |-> next.head, lines |-> next.lines]
    BY <1>7
  <2>. QED
    BY ONLY <2>1, <2>2, <2>3
<1>15. longer = SubSeq(text, next.pos + 1, n)
  BY <1>8 DEF longer
<1>16. CASE Len(Rest(longer)) < want
  <2>1. next.lines = Rest(longer)
    BY <1>11, <1>12, <1>16, LastOfFew
  <2>. QED
    BY <1>2, <1>4, <1>7, <1>8, <1>9, <1>14, <1>15, <1>16, <2>1 DEF ReadBackSoFar, n, pos
<1>17. CASE Len(Rest(longer)) >= want
  <2>. DEFINE before == SubSeq(text, 1, from)
              v == All(before \o First(longer))
              w == Rest(longer)
  <2>1. before \in LogText /\ text = before \o longer
    <3>1. text \in Seq(Nat) /\ from <= Len(text) /\ 0 <= from /\ 0 \in Nat /\ 0 + 1 = 1
      BY <1>1, <1>2 DEF LogText, n
    <3>2. /\ SubSeq(text, 0 + 1, Len(text)) = SubSeq(text, 0 + 1, from) \o SubSeq(text, from + 1, Len(text))
          /\ SubSeq(text, 0 + 1, from) \in Seq(Nat)
      BY <1>2, <3>1, TextCut
    <3>3. SubSeq(text, 1, Len(text)) = text
      BY <3>1, SubSeqFull
    <3>. QED
      BY <3>1, <3>2, <3>3 DEF longer, n, LogText
  <2>. HIDE DEF before
  <2>2. All(text) = v \o w /\ v \in Seq(LogText)
    BY <1>5, <2>1, Reads
  <2>3. w \in Seq(LogText) /\ Len(w) >= want
    BY <1>12, <1>17
  <2>. HIDE DEF v, w
  <2>4. LastLines(v \o w, want) = LastLines(w, want)
    BY <2>2, <2>3, LastOfEnd
  <2>5. next.lines = LastLines(All(text), want)
    BY <1>11, <2>2, <2>4 DEF w
  <2>6. Len(next.lines) >= want
    BY <1>12, <1>13, <1>17
  <2>. QED
    BY <1>2, <1>4, <1>8, <1>14, <2>5, <2>6 DEF ReadBackSoFar, n, pos
<1>. QED
  BY <1>12, <1>16, <1>17

LEMMA TailRead ==
  ASSUME NEW text \in LogText, NEW want \in Nat, want > 0, NEW size \in Nat, size > 0
  PROVE  TailLines(text, want, size) = LastLines(All(text), want)
<1>. DEFINE n == Len(text)
            got(k) == ReadBack(text, want, size)[k]
            K == {k \in 0..n : /\ ReadBackSoFar(got(k), text, want)
                               /\ got(k).pos = 0 \/ Len(got(k).lines) >= want \/ got(k).pos <= n - k}
<1>1. n \in Nat
  BY LenProperties DEF LogText
<1>. HIDE DEF n
<1>2. /\ got(0) = [pos |-> n, head |-> <<>>, lines |-> <<>>]
      /\ \A k \in 1..n : got(k) = ReadTurn(got(k - 1), text, want, size)
  <2>1. n = Len(text)
    BY DEF n
  <2>. QED
    BY <1>1, <2>1, ReadEach
<1>. HIDE DEF got
<1>3. 0 \in K
  <2>1. ReadBackSoFar(got(0), text, want)
    BY <1>2, ReadStarts DEF n
  <2>2. got(0).pos <= n - 0
    BY <1>1, <1>2
  <2>. QED
    BY <1>1, <2>1, <2>2
<1>4. ASSUME NEW k \in 0..(n - 1), k \in K PROVE k + 1 \in K
  <2>1. k + 1 \in 1..n /\ k + 1 \in 0..n /\ (k + 1) - 1 = k
    BY <1>1
  <2>2. got(k + 1) = ReadTurn(got(k), text, want, size)
    BY <1>2, <2>1
  <2>3. ReadBackSoFar(got(k), text, want)
    BY <1>4
  <2>4. got(k).pos \in Nat /\ Len(got(k).lines) \in Nat
    BY <2>3, LenProperties DEF ReadBackSoFar
  <2>5. CASE got(k).pos = 0 \/ Len(got(k).lines) >= want
    <3>1. got(k + 1) = got(k)
      BY <2>2, <2>5 DEF ReadTurn
    <3>. QED
      BY <2>1, <2>3, <2>5, <3>1
  <2>6. CASE got(k).pos # 0 /\ Len(got(k).lines) < want
    <3>1. ReadBackSoFar(got(k + 1), text, want) /\ got(k + 1).pos < got(k).pos
      BY <2>2, <2>3, <2>6, ReadsOn
    <3>2. got(k).pos <= n - k
      BY <1>4, <2>4, <2>6
    <3>3. got(k + 1).pos \in Nat
      BY <3>1 DEF ReadBackSoFar
    <3>4. got(k + 1).pos <= n - (k + 1)
      BY <1>1, <2>4, <3>1, <3>2, <3>3
    <3>. QED
      BY <2>1, <3>1, <3>4
  <2>. QED
    BY <2>4, <2>5, <2>6
<1>5. n \in K
  <2>1. 0..n \subseteq K
    <3>. HIDE DEF K
    <3>. QED
      BY <1>1, <1>3, <1>4, Induct
  <2>. HIDE DEF K
  <2>. QED
    BY <1>1, <2>1
<1>. DEFINE stop == got(n)
<1>6. /\ stop \in [pos : Nat, head : LogText, lines : Seq(LogText)]
      /\ \/ /\ Len(stop.lines) < want /\ stop.head = First(SubSeq(text, stop.pos + 1, n))
            /\ stop.lines = Rest(SubSeq(text, stop.pos + 1, n))
         \/ Len(stop.lines) >= want /\ stop.lines = LastLines(All(text), want)
  BY <1>5 DEF ReadBackSoFar, n
<1>7. stop.pos = 0 \/ Len(stop.lines) >= want
  <2>1. stop.pos = 0 \/ Len(stop.lines) >= want \/ stop.pos <= n - n
    BY <1>5
  <2>. HIDE DEF stop
  <2>2. stop.pos \in Nat
    BY <1>6
  <2>. QED
    BY <1>1, <2>1, <2>2
<1>8. TailLines(text, want, size)
        = IF stop.pos = 0 /\ Len(stop.lines) < want /\ stop.head # <<>> THEN <<stop.head>> \o stop.lines
          ELSE stop.lines
  BY DEF TailLines, got, n
<1>. HIDE DEF stop
<1>9. Len(stop.lines) \in Nat
  BY <1>6, LenProperties
<1>10. CASE Len(stop.lines) >= want
  BY <1>6, <1>8, <1>9, <1>10
<1>11. CASE Len(stop.lines) < want
  <2>1. stop.pos = 0
    BY <1>7, <1>9, <1>11
  <2>2. SubSeq(text, 0 + 1, n) = text
    BY SubSeqFull DEF LogText, n
  <2>3. stop.head = First(text) /\ stop.lines = Rest(text)
    <3>1. ~(Len(stop.lines) >= want)
      BY <1>9, <1>11
    <3>2. SubSeq(text, stop.pos + 1, n) = text
      BY <2>1, <2>2
    <3>. QED
      BY <1>6, <3>1, <3>2
  <2>4. <<>> \in LogText
    BY EmptySeq DEF LogText
  <2>5. /\ First(text) \in LogText /\ Rest(text) \in Seq(LogText)
        /\ All(text) = PieceOf(First(text)) \o Rest(text)
    BY <2>4, Reads
  <2>6. TailLines(text, want, size) = PieceOf(First(text)) \o Rest(text)
    <3>1. <<>> \o Rest(text) = Rest(text)
      BY <2>5, ConcatEmptySeq
    <3>. QED
      BY <1>8, <1>11, <2>1, <2>3, <3>1 DEF PieceOf
  <2>7. PieceOf(First(text)) \in Seq(LogText) /\ Len(PieceOf(First(text))) \in {0, 1}
    BY <2>5 DEF PieceOf
  <2>8. All(text) \in Seq(LogText) /\ Len(All(text)) <= want
    <3>. DEFINE v == PieceOf(First(text))
                w == Rest(text)
    <3>. DEFINE a == Len(v)
    <3>1. v \in Seq(LogText) /\ w \in Seq(LogText) /\ a \in {0, 1} /\ Len(w) \in Nat /\ Len(w) < want
      BY <1>9, <1>11, <2>3, <2>5, <2>7
    <3>. HIDE DEF v, w, a
    <3>2. v \o w \in Seq(LogText) /\ Len(v \o w) = Len(v) + Len(w)
      BY <3>1, ConcatProperties
    <3>4. a + Len(w) <= want
      BY <3>1
    <3>5. Len(v \o w) <= want
      BY ONLY <3>2, <3>4 DEF a
    <3>. QED
      BY <2>5, <3>2, <3>5 DEF v, w
  <2>9. LastLines(All(text), want) = All(text)
    BY <2>8, LastOfFew
  <2>. QED
    BY <2>5, <2>6, <2>9
<1>. QED
  BY <1>9, <1>10, <1>11

LEMMA PrintEach ==
  ASSUME NEW files, NEW unreadable, NEW want, NEW size, NEW n \in Nat, n = Len(files)
  PROVE  /\ PrintBack(files, unreadable, want, size)[0] = <<>>
         /\ \A k \in 1..n : PrintBack(files, unreadable, want, size)[k] = PrintDay(PrintBack(files, unreadable, want, size)[k - 1], files, n - k + 1, unreadable, want, size)
<1>. DEFINE none == <<>>
            Made(f, m) == f = [k \in 0..m |-> IF k = 0 THEN none ELSE PrintDay(f[k - 1], files, n - k + 1, unreadable, want, size)]
            T == {m \in 0..n : \E f : Made(f, m)}
<1>. HIDE DEF none
<1>1. 0 \in T
  <2>. DEFINE g == [k \in 0..0 |-> none]
  <2>1. Made(g, 0)
    OBVIOUS
  <2>. HIDE DEF Made, g
  <2>. QED
    BY <2>1
<1>2. ASSUME NEW m \in 0..(n - 1), m \in T PROVE m + 1 \in T
  <2>1. PICK f : Made(f, m)
    BY <1>2
  <2>. DEFINE next == PrintDay(f[m], files, n - (m + 1) + 1, unreadable, want, size)
              g == [k \in 0..(m + 1) |-> IF k = m + 1 THEN next ELSE f[k]]
              h == [k \in 0..(m + 1) |-> IF k = 0 THEN none ELSE PrintDay(g[k - 1], files, n - k + 1, unreadable, want, size)]
  <2>2. ASSUME NEW k \in 0..(m + 1) PROVE g[k] = h[k]
    <3>1. CASE k = m + 1
      BY <3>1
    <3>2. CASE k \in 0..m
      <4>1. g[k] = f[k] /\ k # m + 1 /\ (k # 0 => k - 1 \in 0..m /\ k - 1 # m + 1)
        BY <3>2
      <4>2. f[k] = IF k = 0 THEN none ELSE PrintDay(f[k - 1], files, n - k + 1, unreadable, want, size)
        BY <2>1, <3>2
      <4>3. k # 0 => g[k - 1] = f[k - 1]
        BY <4>1
      <4>. QED
        BY <4>1, <4>2, <4>3
    <3>. QED
      BY <3>1, <3>2
  <2>3. g = h
    BY <2>2
  <2>4. Made(g, m + 1)
    BY <2>3
  <2>. HIDE DEF Made, g
  <2>. QED
    BY <2>4
<1>3. \E f : Made(f, n)
  <2>1. 0..n \subseteq T
    <3>. HIDE DEF T
    <3>. QED
      BY <1>1, <1>2, Induct
  <2>. HIDE DEF Made
  <2>. QED
    BY <2>1
<1>. DEFINE f == CHOOSE f : Made(f, n)
<1>4. Made(f, n)
  <2>. HIDE DEF Made
  <2>. QED
    BY <1>3
<1>5. PrintBack(files, unreadable, want, size) = f
  BY DEF PrintBack, none
<1>. HIDE DEF f
<1>6. f[0] = none /\ \A k \in 1..n : f[k] = PrintDay(f[k - 1], files, n - k + 1, unreadable, want, size)
  BY <1>4
<1>. QED
  BY <1>5, <1>6 DEF none

LEMMA AllType == \A text \in LogText : All(text) \in Seq(LogText)
<1>. SUFFICES ASSUME NEW text \in LogText PROVE All(text) \in Seq(LogText)
  OBVIOUS
<1>1. <<>> \in LogText
  BY EmptySeq DEF LogText
<1>2. PICK front \in Seq(LogText), stop \in LogText : Segments(text) = Append(front, stop)
  BY SegmentsType
<1>. DEFINE segs == Append(front, stop)
<1>3. segs \in Seq(LogText)
  BY AppendProperties
<1>. HIDE DEF segs
<1>4. Whole(segs) \in Seq(LogText)
  BY <1>1, <1>3, WholeAppend
<1>. QED
  BY <1>2, <1>4 DEF All, segs

(* What `logs -n` prints: the last lines of all days that can be read. *)
LEMMA PrintLast ==
  ASSUME NEW files \in Seq(LogText), NEW unreadable, NEW want \in Nat, want > 0, NEW size \in Nat, size > 0
  PROVE  LET parts == [i \in DOMAIN files |-> IF i \in unreadable THEN <<>> ELSE All(files[i])]
         IN /\ FlattenSeq(parts) \in Seq(LogText)
            /\ PrintTail(files, unreadable, want, size) = LastLines(FlattenSeq(parts), want)
<1>. DEFINE n == Len(files)
            part(i) == IF i \in unreadable THEN <<>> ELSE All(files[i])
            parts == [i \in DOMAIN files |-> part(i)]
            stop(k) == [i \in 1..k |-> part(n - k + i)]
            printed(k) == PrintBack(files, unreadable, want, size)[k]
            K == {k \in 0..n : printed(k) = LastLines(FlattenSeq(stop(k)), want)}
<1>1. n \in Nat /\ DOMAIN files = 1..n /\ \A i \in 1..n : files[i] \in LogText
  BY LenProperties, ElementOfSeq
<1>2. \A i \in 1..n : part(i) \in Seq(LogText)
  <2>1. <<>> \in Seq(LogText)
    BY EmptySeq
  <2>. QED
    BY <1>1, <2>1, AllType
<1>3. PrintTail(files, unreadable, want, size) = printed(n)
  BY DEF PrintTail
<1>4. /\ printed(0) = <<>>
      /\ \A k \in 1..n : printed(k) = PrintDay(printed(k - 1), files, n - k + 1, unreadable, want, size)
  <2>1. n = Len(files)
    OBVIOUS
  <2>. HIDE DEF n
  <2>. QED
    BY <1>1, <2>1, PrintEach
<1>5. \A i \in 1..n : i \in unreadable => part(i) = <<>>
  OBVIOUS
<1>6. \A i \in 1..n : i \notin unreadable => part(i) = All(files[i])
  OBVIOUS
<1>. HIDE DEF n, part, printed
<1>7. ASSUME NEW k \in 0..n
      PROVE  /\ stop(k) \in Seq(Seq(LogText)) /\ Len(stop(k)) = k
             /\ \A i \in 1..k : stop(k)[i] = part(n - k + i)
             /\ FlattenSeq(stop(k)) \in Seq(LogText)
  <2>1. k \in Nat /\ \A i \in 1..k : n - k + i \in 1..n
    BY <1>1
  <2>2. \A i \in 1..k : part(n - k + i) \in Seq(LogText)
    BY <1>2, <2>1
  <2>3. stop(k) \in Seq(Seq(LogText)) /\ Len(stop(k)) = k
    BY <2>1, <2>2
  <2>4. \A i \in 1..k : stop(k)[i] = part(n - k + i)
    OBVIOUS
  <2>. HIDE DEF stop
  <2>5. <<>> \in Seq(LogText)
    BY EmptySeq
  <2>6. FlattenSeq(stop(k)) \in Seq(LogText)
    BY <2>3, <2>5, FlattenAppend
  <2>. QED
    BY <2>3, <2>4, <2>6
<1>8. stop(0) = <<>>
  OBVIOUS
<1>9. ASSUME NEW k \in 0..(n - 1)
      PROVE  stop(k + 1) = <<part(n - k)>> \o stop(k)
  <2>. DEFINE one == <<part(n - k)>>
              l == stop(k + 1)
              r == one \o stop(k)
  <2>1. k \in 0..n /\ k + 1 \in 0..n /\ n - k \in 1..n /\ k \in Nat
    BY <1>1
  <2>2. one \in Seq(Seq(LogText)) /\ Len(one) = 1 /\ one[1] = part(n - k)
    BY <1>2, <2>1
  <2>. HIDE DEF stop, one
  <2>3. l \in Seq(Seq(LogText)) /\ Len(l) = k + 1 /\ \A i \in 1..(k + 1) : l[i] = part(n - (k + 1) + i)
    BY <1>7, <2>1
  <2>4. stop(k) \in Seq(Seq(LogText)) /\ Len(stop(k)) = k /\ \A i \in 1..k : stop(k)[i] = part(n - k + i)
    BY <1>7, <2>1
  <2>5. /\ r \in Seq(Seq(LogText)) /\ Len(r) = 1 + k
        /\ \A i \in 1..(1 + k) : r[i] = IF i <= 1 THEN one[i] ELSE stop(k)[i - 1]
    <3>. DEFINE e == stop(k)
    <3>1. e \in Seq(Seq(LogText)) /\ Len(e) = k
      BY <2>4
    <3>. HIDE DEF e
    <3>2. /\ one \o e \in Seq(Seq(LogText)) /\ Len(one \o e) = Len(one) + Len(e)
          /\ \A i \in 1..(Len(one) + Len(e)) : (one \o e)[i] = IF i <= Len(one) THEN one[i] ELSE e[i - Len(one)]
      BY ONLY <2>2, <3>1, ConcatProperties
    <3>. QED
      BY <2>2, <3>1, <3>2 DEF e
  <2>. HIDE DEF l, r
  <2>6. ASSUME NEW i \in 1..(k + 1) PROVE l[i] = r[i]
    <3>1. CASE i = 1
      <4>1. n - (k + 1) + i = n - k /\ i <= 1 /\ i \in 1..(1 + k)
        BY <1>1, <2>1, <3>1
      <4>. QED
        BY <2>2, <2>3, <2>5, <3>1, <4>1
    <3>2. CASE i # 1
      <4>1. n - (k + 1) + i = n - k + (i - 1) /\ ~(i <= 1) /\ i \in 1..(1 + k) /\ i - 1 \in 1..k
        BY <1>1, <2>1, <3>2
      <4>. QED
        BY <2>3, <2>4, <2>5, <4>1
    <3>. QED
      BY <3>1, <3>2
  <2>7. Len(l) = Len(r)
    BY <2>1, <2>3, <2>5
  <2>8. l = r
    BY <2>3, <2>5, <2>6, <2>7, SeqEqual
  <2>. QED
    BY <2>8 DEF l, r, one
<1>10. stop(n) = parts
  <2>1. \A i \in 1..n : n - n + i = i
    BY <1>1
  <2>. QED
    BY <1>1, <2>1
<1>. HIDE DEF stop, parts
<1>11. 0 \in K
  <2>1. FlattenSeq(stop(0)) = <<>>
    BY <1>8, FlattenNone
  <2>2. LastLines(<<>>, want) = <<>>
    <3>1. <<>> \in Seq(LogText) /\ Len(<<>>) = 0 /\ 0 <= want
      BY EmptySeq
    <3>. QED
      BY <3>1, LastOfFew
  <2>. QED
    BY <1>1, <1>4, <2>1, <2>2
<1>12. ASSUME NEW k \in 0..(n - 1), k \in K PROVE k + 1 \in K
  <2>. DEFINE w == FlattenSeq(stop(k))
              v == part(n - k)
              lines == printed(k)
              len == Len(w)
  <2>1. k \in 0..n /\ k + 1 \in 1..n /\ k + 1 \in 0..n /\ (k + 1) - 1 = k /\ n - (k + 1) + 1 = n - k
        /\ n - k \in 1..n
    BY <1>1
  <2>2. w \in Seq(LogText) /\ v \in Seq(LogText) /\ stop(k) \in Seq(Seq(LogText))
    BY <1>2, <1>7, <2>1
  <2>3. FlattenSeq(stop(k + 1)) = v \o w
    <3>1. FlattenSeq(<<v>> \o stop(k)) = v \o FlattenSeq(stop(k))
      BY <2>2, FlattenPrepend
    <3>. QED
      BY <1>9, <3>1
  <2>4. printed(k + 1) = PrintDay(lines, files, n - k, unreadable, want, size)
    BY <1>4, <2>1
  <2>5. lines = LastLines(w, want)
    BY <1>12
  <2>. HIDE DEF w, v, lines
  <2>6. len \in Nat /\ Len(lines) = IF len > want THEN want ELSE len
    BY <2>2, <2>5, LastAre, LenProperties
  <2>. HIDE DEF len
  <2>7. printed(k + 1) = LastLines(v \o w, want)
    <3>1. CASE Len(lines) >= want
      <4>1. len >= want
        BY <2>6, <3>1
      <4>2. LastLines(v \o w, want) = LastLines(w, want)
        BY <2>2, <4>1, LastOfEnd DEF len
      <4>. QED
        BY <2>4, <2>5, <3>1, <4>2 DEF PrintDay
    <3>2. CASE ~(Len(lines) >= want) /\ n - k \in unreadable
      <4>1. v = <<>>
        BY <1>5, <2>1, <3>2 DEF v
      <4>2. v \o w = w
        BY <2>2, <4>1, ConcatEmptySeq
      <4>. QED
        BY <2>4, <2>5, <3>2, <4>2 DEF PrintDay
    <3>3. CASE ~(Len(lines) >= want) /\ n - k \notin unreadable
      <4>1. len < want /\ len <= want /\ Len(lines) = len
        BY <2>6, <3>3
      <4>2. lines = w
        BY <2>2, <2>5, <4>1, LastOfFew DEF len
      <4>3. v = All(files[n - k]) /\ files[n - k] \in LogText
        BY <1>1, <1>6, <2>1, <3>3 DEF v
      <4>4. want - len \in Nat /\ want - len > 0
        BY <2>6, <4>1
      <4>5. TailLines(files[n - k], want - len, size) = LastLines(v, want - len)
        BY <4>3, <4>4, TailRead
      <4>6. LastLines(v \o w, want) = LastLines(v, want - len) \o w
        BY <2>2, <4>1, LastOfEnd DEF len
      <4>7. printed(k + 1) = TailLines(files[n - k], want - len, size) \o w
        BY <2>4, <3>3, <4>1, <4>2 DEF PrintDay
      <4>. QED
        BY <4>5, <4>6, <4>7
    <3>. QED
      BY <3>1, <3>2, <3>3
  <2>. QED
    BY <2>1, <2>3, <2>7
<1>13. n \in K
  <2>1. 0..n \subseteq K
    <3>. HIDE DEF K
    <3>. QED
      BY <1>1, <1>11, <1>12, Induct
  <2>. HIDE DEF K
  <2>. QED
    BY <1>1, <2>1
<1>14. n \in 0..n
  BY <1>1
<1>15. PrintTail(files, unreadable, want, size) = LastLines(FlattenSeq(parts), want)
  BY <1>3, <1>10, <1>13
<1>16. FlattenSeq(parts) \in Seq(LogText)
  BY <1>7, <1>10, <1>14
<1>. QED
  BY <1>15, <1>16 DEF parts, part

--------------------------------------------------------------------------------
(* The lines by their line ends are those that are split off.                   *)

LEMMA Stretch ==
  \A text \in LogText : \A b, i \in Nat : b >= 1 /\ b <= i + 1 /\ i <= Len(text) =>
    /\ SubSeq(text, b, i) \in LogText /\ Len(SubSeq(text, b, i)) = i - b + 1
    /\ \A k \in 1..(i - b + 1) : SubSeq(text, b, i)[k] = text[b + k - 1]
<1>. SUFFICES ASSUME NEW text \in LogText, NEW b \in Nat, NEW i \in Nat, b >= 1, b <= i + 1, i <= Len(text)
             PROVE  /\ SubSeq(text, b, i) \in LogText /\ Len(SubSeq(text, b, i)) = i - b + 1
                    /\ \A k \in 1..(i - b + 1) : SubSeq(text, b, i)[k] = text[b + k - 1]
  OBVIOUS
<1>1. text \in Seq(Nat) /\ Len(text) \in Nat /\ \A k \in 1..Len(text) : text[k] \in Nat
  BY LenProperties, ElementOfSeq DEF LogText
<1>2. b \in Int /\ b >= 1 /\ \A k \in b..i : text[k] \in Nat
  BY <1>1
<1>3. /\ SubSeq(text, b, i) \in Seq(Nat) /\ Len(SubSeq(text, b, i)) = IF b <= i THEN i - b + 1 ELSE 0
      /\ \A k \in 1..(i - b + 1) : SubSeq(text, b, i)[k] = text[b + k - 1]
  BY <1>2, SubSeqProperties
<1>4. (IF b <= i THEN i - b + 1 ELSE 0) = i - b + 1
  OBVIOUS
<1>. QED
  BY <1>3, <1>4 DEF LogText

LEMMA LineIs ==
  ASSUME NEW text, NEW i \in Nat, NEW b \in 1..i, BeginsAt(text, b, i)
  PROVE  LineTo(text, i) = SubSeq(text, b, i)
<1>. DEFINE c == CHOOSE a \in 1..i : BeginsAt(text, a, i)
<1>1. c \in 1..i /\ BeginsAt(text, c, i)
  OBVIOUS
<1>2. LineTo(text, i) = SubSeq(text, c, i)
  BY DEF LineTo
<1>. HIDE DEF c
<1>3. ~(c < b)
  <2>1. c < b => b > 1 /\ b - 1 \in c..i
    BY <1>1
  <2>. QED
    BY <1>1, <2>1 DEF BeginsAt
<1>4. ~(b < c)
  <2>1. b < c => c > 1 /\ c - 1 \in b..i
    BY <1>1
  <2>. QED
    BY <1>1, <2>1 DEF BeginsAt
<1>5. b = c
  BY <1>1, <1>3, <1>4
<1>. QED
  BY <1>2, <1>5

LEMMA LineHasBegin ==
  ASSUME NEW text \in LogText, NEW i \in 1..Len(text), text[i] # 0
  PROVE  \E b \in 1..i : BeginsAt(text, b, i)
<1>. DEFINE B == {b \in 1..i : \A k \in b..i : text[k] # 0}
<1>1. i \in Nat /\ i >= 1
  BY LenProperties DEF LogText
<1>2. i \in B
  BY <1>1
<1>3. PICK b \in B : \A a \in B : b <= a
  <2>1. B \subseteq Nat /\ B # {}
    BY <1>1, <1>2
  <2>. HIDE DEF B
  <2>. QED
    BY <2>1, Smallest
<1>4. ASSUME b > 1, text[b - 1] # 0 PROVE FALSE
  <2>1. b - 1 \in 1..i /\ \A k \in (b - 1)..i : k = b - 1 \/ k \in b..i
    BY <1>1, <1>4
  <2>2. b - 1 \in B
    BY <1>4, <2>1
  <2>3. b <= b - 1
    BY <1>3, <2>2
  <2>. QED
    BY <1>1, <2>3
<1>. QED
  BY <1>4 DEF BeginsAt

LEMMA LineStays ==
  ASSUME NEW text \in LogText, NEW x \in Nat, NEW i \in 1..Len(text), text[i] # 0
  PROVE  LineTo(Append(text, x), i) = LineTo(text, i) /\ LineTo(text, i) \in LogText
<1>. DEFINE n == Len(text)
            longer == Append(text, x)
<1>1. n \in Nat /\ i \in Nat /\ i >= 1 /\ i <= n
  BY LenProperties DEF LogText
<1>2. longer \in LogText /\ Len(longer) = n + 1 /\ \A k \in 1..n : longer[k] = text[k]
  BY AppendProperties DEF LogText
<1>3. PICK b \in 1..i : BeginsAt(text, b, i)
  BY LineHasBegin
<1>. HIDE DEF n, longer
<1>4. b \in Nat /\ b >= 1 /\ b <= i + 1 /\ i <= n + 1 /\ (\A k \in b..i : k \in 1..n) /\ (b > 1 => b - 1 \in 1..n)
  BY <1>1
<1>5. BeginsAt(longer, b, i)
  BY <1>2, <1>3, <1>4 DEF BeginsAt
<1>6. LineTo(text, i) = SubSeq(text, b, i) /\ LineTo(longer, i) = SubSeq(longer, b, i)
  BY <1>1, <1>3, <1>5, LineIs
<1>. DEFINE l == SubSeq(text, b, i)
            r == SubSeq(longer, b, i)
            m == i - b + 1
<1>7. l \in LogText /\ Len(l) = m /\ \A k \in 1..m : l[k] = text[b + k - 1]
  <2>1. i <= Len(text)
    BY <1>1 DEF n
  <2>. QED
    BY <1>1, <1>4, <2>1, Stretch
<1>8. r \in LogText /\ Len(r) = m /\ \A k \in 1..m : r[k] = longer[b + k - 1]
  <2>1. i <= Len(longer)
    BY <1>2, <1>4
  <2>. QED
    BY <1>1, <1>2, <1>4, <2>1, Stretch
<1>9. \A k \in 1..m : b + k - 1 \in 1..n
  BY <1>1, <1>4
<1>. HIDE DEF l, r, m
<1>10. \A k \in 1..m : l[k] = r[k]
  BY <1>2, <1>7, <1>8, <1>9
<1>11. l = r
  BY <1>7, <1>8, <1>10, SeqEqual DEF LogText
<1>. QED
  BY <1>6, <1>7, <1>11 DEF l, r, longer

(* What stands behind the last line end, and the lines before. *)
LinesBefore(text) == [i \in 1..(Len(text) - 1) |-> LinesAt(text, i)]
Pending(text, front, stop) ==
  /\ front \in Seq(LogText) /\ stop \in LogText
  /\ Segments(text) = Append(front, stop)
  /\ Len(stop) <= Len(text)
  /\ \A i \in 1..Len(stop) : stop[i] # 0 /\ stop[i] = text[Len(text) - Len(stop) + i]
  /\ Len(stop) < Len(text) => text[Len(text) - Len(stop)] = 0
  /\ Whole(front) = FlattenSeq(LinesBefore(text))

LEMMA LineAtEnd ==
  ASSUME NEW text \in LogText, NEW front, NEW stop, Pending(text, front, stop), Len(text) # 0
  PROVE  LinesAt(text, Len(text)) = PieceOf(stop)
<1>. DEFINE n == Len(text)
            m == Len(stop)
            b == n - m + 1
<1>1. /\ n \in Nat /\ n # 0 /\ m \in Nat /\ m <= n /\ stop \in LogText
      /\ \A i \in 1..m : stop[i] # 0 /\ stop[i] = text[n - m + i]
      /\ m < n => text[n - m] = 0
  BY LenProperties DEF Pending, LogText
<1>2. CASE m = 0
  <2>1. text[n] = 0
    BY <1>1, <1>2
  <2>2. stop = <<>>
    BY <1>1, <1>2, EmptySeq DEF LogText
  <2>. QED
    BY <2>1, <2>2 DEF LinesAt, EndsLine, PieceOf
<1>3. CASE m # 0
  <2>. HIDE DEF n, m
  <2>1. b \in 1..n /\ b \in Nat /\ b >= 1 /\ b <= n + 1 /\ n - b + 1 = m
        /\ \A k \in b..n : k - (n - m) \in 1..m /\ n - m + (k - (n - m)) = k
    BY <1>1, <1>3
  <2>2. \A k \in b..n : text[k] # 0
    BY <1>1, <2>1
  <2>3. b > 1 => text[b - 1] = 0
    <3>1. b > 1 => m < n /\ b - 1 = n - m
      BY <1>1
    <3>. QED
      BY <1>1, <3>1
  <2>4. n \in b..n
    BY <1>1, <2>1
  <2>. HIDE DEF b
  <2>5. BeginsAt(text, b, n)
    BY <2>2, <2>3 DEF BeginsAt
  <2>6. LineTo(text, n) = SubSeq(text, b, n)
    BY <1>1, <2>1, <2>5, LineIs
  <2>. DEFINE l == SubSeq(text, b, n)
  <2>7. l \in LogText /\ Len(l) = m /\ \A k \in 1..m : l[k] = text[b + k - 1]
    <3>1. n <= Len(text)
      BY <1>1 DEF n
    <3>. QED
      BY <1>1, <2>1, <3>1, Stretch
  <2>. HIDE DEF l
  <2>8. \A k \in 1..m : b + k - 1 = n - m + k
    BY <1>1, <2>1
  <2>9. l = stop
    <3>1. \A k \in 1..m : l[k] = stop[k]
      BY <1>1, <2>7, <2>8
    <3>. QED
      BY <1>1, <2>7, <3>1, SeqEqual DEF LogText, m
  <2>10. EndsLine(text, n)
    BY <1>1, <2>2, <2>4 DEF EndsLine, n
  <2>11. stop # <<>>
    BY <1>3 DEF m
  <2>. QED
    BY <2>6, <2>9, <2>10, <2>11 DEF LinesAt, PieceOf, l, n
<1>. QED
  BY <1>2, <1>3

(* Where no further mark can change it, a line stays what it is. *)
LEMMA LinesStay ==
  ASSUME NEW text \in LogText, NEW x \in Nat
  PROVE  /\ \A i \in 1..(Len(text) - 1) : LinesAt(Append(text, x), i) = LinesAt(text, i)
         /\ Len(text) # 0 => LinesAt(Append(text, x), Len(text)) = IF x = 0 THEN LinesAt(text, Len(text)) ELSE <<>>
         /\ \A i \in 1..Len(text) : LinesAt(text, i) \in Seq(LogText)
<1>. DEFINE n == Len(text)
            longer == Append(text, x)
<1>1. n \in Nat
  BY LenProperties DEF LogText
<1>2. Len(longer) = n + 1 /\ longer[n + 1] = x /\ \A k \in 1..n : longer[k] = text[k]
  BY AppendProperties DEF LogText
<1>3. \A i \in 1..n : text[i] # 0 => LineTo(longer, i) = LineTo(text, i) /\ LineTo(text, i) \in LogText
  BY LineStays
<1>4. <<>> \in Seq(LogText) /\ \A line \in LogText : <<line>> \in Seq(LogText)
  OBVIOUS
<1>5. n = Len(text)
  OBVIOUS
<1>. HIDE DEF n, longer
<1>6. ASSUME NEW i \in 1..(n - 1) PROVE LinesAt(longer, i) = LinesAt(text, i)
  <2>1. i \in 1..n /\ i + 1 \in 1..n /\ i < n /\ i < n + 1
    BY <1>1
  <2>2. EndsLine(longer, i) <=> EndsLine(text, i)
    BY <1>2, <1>5, <2>1 DEF EndsLine
  <2>3. EndsLine(text, i) => LineTo(longer, i) = LineTo(text, i)
    BY <1>3, <2>1 DEF EndsLine
  <2>. QED
    BY <2>2, <2>3 DEF LinesAt
<1>7. n # 0 => LinesAt(longer, n) = IF x = 0 THEN LinesAt(text, n) ELSE <<>>
  <2>. SUFFICES ASSUME n # 0 PROVE LinesAt(longer, n) = IF x = 0 THEN LinesAt(text, n) ELSE <<>>
    OBVIOUS
  <2>1. n \in 1..n /\ n < n + 1 /\ ~(n < n)
    BY <1>1
  <2>2. EndsLine(longer, n) <=> EndsLine(text, n) /\ x = 0
    BY <1>2, <1>5, <2>1 DEF EndsLine
  <2>3. EndsLine(text, n) => LineTo(longer, n) = LineTo(text, n)
    BY <1>3, <2>1 DEF EndsLine
  <2>. QED
    BY <2>2, <2>3 DEF LinesAt
<1>8. \A i \in 1..n : LinesAt(text, i) \in Seq(LogText)
  BY <1>3, <1>4 DEF LinesAt, EndsLine
<1>. QED
  BY <1>6, <1>7, <1>8 DEF n, longer

(* So they are followed by those that end at the last mark. *)
LEMMA LinesLonger ==
  ASSUME NEW text \in LogText, Len(text) # 0
  PROVE  /\ FlattenSeq(LinesBefore(text)) \in Seq(LogText)
         /\ TextLines(text) = FlattenSeq(LinesBefore(text)) \o LinesAt(text, Len(text))
         /\ \A x \in Nat : FlattenSeq(LinesBefore(Append(text, x)))
              = FlattenSeq(LinesBefore(text)) \o LinesAt(Append(text, x), Len(text))
<1>. DEFINE n == Len(text)
            before == LinesBefore(text)
<1>1. n \in Nat /\ n # 0 /\ DOMAIN text = 1..n
  BY LenProperties DEF LogText
<1>2. \A i \in 1..n : LinesAt(text, i) \in Seq(LogText)
  <2>1. 0 \in Nat
    OBVIOUS
  <2>. QED
    BY <2>1, LinesStay
<1>3. before = [i \in 1..(n - 1) |-> LinesAt(text, i)]
  BY DEF LinesBefore
<1>. HIDE DEF n, before
<1>4. before \in Seq(Seq(LogText)) /\ Len(before) = n - 1
  <2>1. n - 1 \in Nat /\ \A i \in 1..(n - 1) : i \in 1..n
    BY <1>1
  <2>. QED
    BY <1>2, <1>3, <2>1
<1>5. ASSUME NEW at \in Seq(Seq(LogText)), Len(at) = n, \A i \in 1..(n - 1) : at[i] = before[i]
      PROVE  FlattenSeq(at) = FlattenSeq(before) \o at[n] /\ FlattenSeq(before) \in Seq(LogText)
  <2>. DEFINE l == Append(before, at[n])
  <2>1. n \in 1..n /\ Len(before) + 1 = n /\ \A i \in 1..n : i = n \/ i \in 1..(n - 1)
    BY <1>1, <1>4
  <2>2. at[n] \in Seq(LogText)
    BY <1>5, <2>1, ElementOfSeq
  <2>3. /\ l \in Seq(Seq(LogText)) /\ Len(l) = Len(before) + 1 /\ l[Len(before) + 1] = at[n]
        /\ \A i \in 1..Len(before) : l[i] = before[i]
    BY <1>4, <2>2, AppendProperties
  <2>. HIDE DEF l
  <2>4. Len(l) = n /\ l[n] = at[n] /\ \A i \in 1..(n - 1) : l[i] = at[i]
    BY <1>4, <1>5, <2>1, <2>3
  <2>5. \A i \in 1..n : l[i] = at[i]
    BY <2>1, <2>4
  <2>6. l = at
    BY <1>5, <2>3, <2>4, <2>5, SeqEqual
  <2>7. FlattenSeq(Append(before, at[n])) = FlattenSeq(before) \o at[n] /\ FlattenSeq(before) \in Seq(LogText)
    BY <1>4, <2>2, FlattenAppend
  <2>. QED
    BY <2>6, <2>7 DEF l
<1>6. TextLines(text) = FlattenSeq(before) \o LinesAt(text, n) /\ FlattenSeq(before) \in Seq(LogText)
  <2>. DEFINE at == [i \in 1..n |-> LinesAt(text, i)]
  <2>1. at \in Seq(Seq(LogText)) /\ Len(at) = n
    BY <1>1, <1>2
  <2>2. at[n] = LinesAt(text, n) /\ \A i \in 1..(n - 1) : at[i] = before[i]
    <3>1. n \in 1..n /\ \A i \in 1..(n - 1) : i \in 1..n
      BY <1>1
    <3>. QED
      BY <1>3, <3>1
  <2>3. TextLines(text) = FlattenSeq(at)
    BY <1>1 DEF TextLines
  <2>. HIDE DEF at
  <2>4. FlattenSeq(at) = FlattenSeq(before) \o at[n] /\ FlattenSeq(before) \in Seq(LogText)
    BY <1>5, <2>1, <2>2
  <2>. QED
    BY <2>2, <2>3, <2>4
<1>7. ASSUME NEW x \in Nat
      PROVE  FlattenSeq(LinesBefore(Append(text, x))) = FlattenSeq(before) \o LinesAt(Append(text, x), n)
  <2>. DEFINE longer == Append(text, x)
              at == [i \in 1..n |-> LinesAt(longer, i)]
  <2>1. LinesBefore(longer) = at
    <3>1. Len(longer) = n + 1 /\ (n + 1) - 1 = n
      BY <1>1, AppendProperties DEF LogText, n
    <3>. QED
      BY <3>1 DEF LinesBefore
  <2>2. /\ \A i \in 1..(n - 1) : LinesAt(longer, i) = LinesAt(text, i)
        /\ LinesAt(longer, n) = IF x = 0 THEN LinesAt(text, n) ELSE <<>>
    BY <1>1, LinesStay DEF n
  <2>. HIDE DEF longer
  <2>3. n \in 1..n /\ (\A i \in 1..n : i = n \/ i \in 1..(n - 1)) /\ <<>> \in Seq(LogText)
    BY <1>1, EmptySeq
  <2>4. \A i \in 1..n : LinesAt(longer, i) \in Seq(LogText)
    BY <1>2, <2>2, <2>3
  <2>5. at \in Seq(Seq(LogText)) /\ Len(at) = n
    BY <1>1, <2>4
  <2>6. at[n] = LinesAt(longer, n) /\ \A i \in 1..(n - 1) : at[i] = before[i]
    BY <1>3, <2>2, <2>3
  <2>. HIDE DEF at
  <2>7. FlattenSeq(at) = FlattenSeq(before) \o at[n]
    BY <1>5, <2>5, <2>6
  <2>. QED
    BY <2>1, <2>6, <2>7 DEF longer
<1>. QED
  BY <1>6, <1>7 DEF n, before

LEMMA PendingStarts == Pending(<<>>, <<>>, <<>>)
<1>1. <<>> \in Seq(LogText) /\ <<>> \in LogText /\ Len(<<>>) = 0
  BY EmptySeq DEF LogText
<1>2. Segments(<<>>) = Append(<<>>, <<>>)
  BY SegmentsNone
<1>3. LinesBefore(<<>>) = <<>>
  BY <1>1 DEF LinesBefore
<1>4. Whole(<<>>) = FlattenSeq(LinesBefore(<<>>))
  BY <1>3, WholeNone, FlattenNone
<1>. QED
  BY <1>1, <1>2, <1>4 DEF Pending

LEMMA PendingStays ==
  ASSUME NEW text \in LogText, NEW x \in Nat, NEW front, NEW stop, Pending(text, front, stop)
  PROVE  \E f, e : Pending(Append(text, x), f, e)
<1>. DEFINE n == Len(text)
            m == Len(stop)
            longer == Append(text, x)
            segs == Append(front, stop)
<1>1. /\ n \in Nat /\ m \in Nat /\ m <= n /\ stop \in LogText /\ front \in Seq(LogText) /\ Segments(text) = segs
      /\ \A i \in 1..m : stop[i] # 0 /\ stop[i] = text[n - m + i]
      /\ m < n => text[n - m] = 0
      /\ Whole(front) = FlattenSeq(LinesBefore(text))
  BY LenProperties DEF Pending, LogText
<1>2. longer \in LogText /\ Len(longer) = n + 1 /\ longer[n + 1] = x /\ \A k \in 1..n : longer[k] = text[k]
  BY AppendProperties DEF LogText
<1>3. Segments(longer) = Split(segs, x)
  BY <1>1, SegmentsAppend DEF LogText
<1>4. segs \in Seq(LogText) /\ <<>> \in LogText /\ Len(<<>>) = 0 /\ <<>> \in Seq(LogText)
  BY <1>1, AppendProperties, EmptySeq DEF LogText
<1>5. /\ x = 0 => Split(segs, x) = Append(segs, <<>>)
      /\ x # 0 => Split(segs, x) = Append(front, Append(stop, x))
  BY <1>1, SplitLast
<1>6. Whole(segs) = Whole(front) \o PieceOf(stop) /\ Whole(front) \in Seq(LogText)
  BY <1>1, WholeAppend
<1>7. CASE x = 0
  <2>1. Whole(segs) = FlattenSeq(LinesBefore(longer))
    <3>1. CASE n = 0
      <4>1. text = <<>> /\ stop = <<>>
        BY <1>1, <3>1, EmptySeq DEF LogText
      <4>2. LinesBefore(longer) = <<>> /\ LinesBefore(text) = <<>>
        BY <1>2, <3>1 DEF LinesBefore
      <4>3. PieceOf(stop) = <<>> /\ Whole(front) \o <<>> = Whole(front)
        BY <1>6, <4>1, ConcatEmptySeq DEF PieceOf
      <4>. QED
        BY <1>1, <1>6, <4>2, <4>3
    <3>2. CASE n # 0
      <4>1. LinesAt(longer, n) = LinesAt(text, n)
        BY <1>7, <3>2, LinesStay
      <4>2. LinesAt(text, n) = PieceOf(stop)
        BY <3>2, LineAtEnd
      <4>3. FlattenSeq(LinesBefore(longer)) = FlattenSeq(LinesBefore(text)) \o LinesAt(longer, n)
        BY <3>2, LinesLonger
      <4>. QED
        BY <1>1, <1>6, <4>1, <4>2, <4>3
    <3>. QED
      BY <3>1, <3>2
  <2>2. longer[(n + 1) - 0] = 0
    BY <1>1, <1>2, <1>7
  <2>. HIDE DEF n, longer, segs
  <2>3. 0 <= n + 1 /\ ~(\E i \in Nat : i \in 1..0)
    BY <1>1
  <2>4. Pending(longer, segs, <<>>)
    BY <1>2, <1>3, <1>4, <1>5, <1>7, <2>1, <2>2, <2>3 DEF Pending
  <2>. QED
    BY <2>4 DEF longer
<1>8. CASE x # 0
  <2>. DEFINE e == Append(stop, x)
  <2>1. Whole(front) = FlattenSeq(LinesBefore(longer))
    <3>1. CASE n = 0
      <4>1. LinesBefore(longer) = <<>> /\ LinesBefore(text) = <<>>
        BY <1>2, <3>1 DEF LinesBefore
      <4>. QED
        BY <1>1, <4>1
    <3>2. CASE n # 0
      <4>1. LinesAt(longer, n) = <<>>
        BY <1>8, <3>2, LinesStay
      <4>2. FlattenSeq(LinesBefore(longer)) = FlattenSeq(LinesBefore(text)) \o LinesAt(longer, n)
        BY <3>2, LinesLonger
      <4>3. Whole(front) \o <<>> = Whole(front)
        BY <1>6, ConcatEmptySeq
      <4>. QED
        BY <1>1, <4>1, <4>2, <4>3
    <3>. QED
      BY <3>1, <3>2
  <2>2. e \in LogText /\ Len(e) = m + 1 /\ e[m + 1] = x /\ \A i \in 1..m : e[i] = stop[i]
    BY <1>1, AppendProperties DEF LogText
  <2>. HIDE DEF n, m, longer, segs, e
  <2>3. Segments(longer) = Append(front, e)
    BY <1>3, <1>5, <1>8 DEF e
  <2>4. m + 1 <= n + 1 /\ (n + 1) - (m + 1) = n - m /\ (m + 1 < n + 1 => m < n /\ n - m \in 1..n)
    BY <1>1
  <2>5. m + 1 < n + 1 => longer[(n + 1) - (m + 1)] = 0
    BY <1>1, <1>2, <2>4
  <2>6. ASSUME NEW i \in 1..(m + 1) PROVE e[i] # 0 /\ e[i] = longer[(n + 1) - (m + 1) + i]
    <3>1. CASE i = m + 1
      <4>1. (n + 1) - (m + 1) + i = n + 1
        BY <1>1, <3>1
      <4>. QED
        BY <1>2, <1>8, <2>2, <3>1, <4>1
    <3>2. CASE i # m + 1
      <4>1. i \in 1..m /\ (n + 1) - (m + 1) + i = n - m + i /\ n - m + i \in 1..n
        BY <1>1, <3>2
      <4>. QED
        BY <1>1, <1>2, <2>2, <4>1
    <3>. QED
      BY <3>1, <3>2
  <2>7. Pending(longer, front, e)
    BY <1>1, <1>2, <2>1, <2>2, <2>3, <2>4, <2>5, <2>6 DEF Pending
  <2>. QED
    BY <2>7 DEF longer
<1>. QED
  BY <1>7, <1>8

LEMMA LinesAreSplit == \A text \in LogText : TextLines(text) = All(text)
<1>. DEFINE P == {s \in LogText : \E front, stop : Pending(s, front, stop)}
<1>1. <<>> \in P
  <2>1. <<>> \in LogText
    BY EmptySeq DEF LogText
  <2>. QED
    BY <2>1, PendingStarts
<1>2. ASSUME NEW s \in Seq(Nat), NEW x \in Nat, s \in P PROVE Append(s, x) \in P
  <2>1. s \in LogText /\ Append(s, x) \in LogText
    BY AppendProperties DEF LogText
  <2>2. PICK front, stop : Pending(s, front, stop)
    BY <1>2
  <2>3. \E f, e : Pending(Append(s, x), f, e)
    BY <2>1, <2>2, PendingStays
  <2>. QED
    BY <2>1, <2>3
<1>3. Seq(Nat) \subseteq P
  <2>. HIDE DEF P
  <2>. QED
    BY <1>1, <1>2, SeqInduct
<1>. SUFFICES ASSUME NEW text \in LogText PROVE TextLines(text) = All(text)
  OBVIOUS
<1>4. PICK front, stop : Pending(text, front, stop)
  BY <1>3 DEF LogText
<1>5. front \in Seq(LogText) /\ stop \in LogText /\ All(text) = Whole(Append(front, stop))
      /\ Whole(front) = FlattenSeq(LinesBefore(text))
  BY <1>4 DEF Pending, All
<1>6. All(text) = FlattenSeq(LinesBefore(text)) \o PieceOf(stop) /\ Whole(front) \in Seq(LogText)
  BY <1>5, WholeAppend
<1>7. CASE Len(text) = 0
  <2>1. text = <<>>
    BY <1>7, EmptySeq DEF LogText
  <2>2. TextLines(text) = <<>>
    <3>1. [i \in DOMAIN text |-> LinesAt(text, i)] = <<>>
      BY <2>1
    <3>. QED
      BY <3>1, FlattenNone DEF TextLines
  <2>3. LinesBefore(text) = <<>>
    BY <1>7 DEF LinesBefore
  <2>4. PieceOf(stop) = <<>>
    <3>1. Len(stop) \in Nat /\ Len(stop) <= 0
      BY <1>4, <1>5, <1>7, LenProperties DEF Pending, LogText
    <3>2. stop = <<>>
      BY <1>5, <3>1, EmptySeq DEF LogText
    <3>. QED
      BY <3>2 DEF PieceOf
  <2>. QED
    BY <1>6, <2>2, <2>3, <2>4, FlattenNone
<1>8. CASE Len(text) # 0
  <2>1. LinesAt(text, Len(text)) = PieceOf(stop)
    BY <1>4, <1>8, LineAtEnd
  <2>2. TextLines(text) = FlattenSeq(LinesBefore(text)) \o LinesAt(text, Len(text))
    BY <1>8, LinesLonger
  <2>. QED
    BY <1>6, <2>1, <2>2
<1>. QED
  BY <1>7, <1>8

--------------------------------------------------------------------------------
(* The names of the files: the date of a day, for every day.                 *)

(* The days before the year y of an era: years begin in March here, so that *)
(* the leap day is their last.                                              *)
Begins(y) == 365 * y + y \div 4 - y \div 100

(* A day n of an era stands c centuries, q times four years, t years and u   *)
(* days after its beginning; only the last of each may be a day longer.      *)
CountedDay(n, c, q, t, u) ==
  /\ c <= 3 /\ q <= 24 /\ t <= 3 /\ u <= 365
  /\ n = 36524 * c + 1461 * q + 365 * t + u
  /\ u = 365 => t = 3
  /\ q = 24 /\ t = 3 /\ u = 365 => c = 3

(* Every day of an era is counted so. *)
LEMMA DaySplit ==
  ASSUME NEW n \in Nat, n <= 146096
  PROVE  \E c, q, t, u \in Nat : CountedDay(n, c, q, t, u)
<1>1. PICK c \in Nat : c <= 3 /\ 36524 * c <= n /\ n <= 36524 * c + 36524 /\ (n = 36524 * c + 36524 => c = 3)
  <2>1. CASE n < 36524
    BY <2>1, SMT
  <2>2. CASE 36524 <= n /\ n < 73048
    BY <2>2, SMT
  <2>3. CASE 73048 <= n /\ n < 109572
    BY <2>3, SMT
  <2>4. CASE 109572 <= n
    BY <2>4, SMT
  <2>. QED
    BY <2>1, <2>2, <2>3, <2>4, SMT
<1>2. PICK r \in Nat : n = 36524 * c + r /\ r <= 36524 /\ (r = 36524 => c = 3)
  BY <1>1, SMT
<1>3. PICK q \in Nat : q <= 24 /\ 1461 * q <= r /\ r <= 1461 * q + 1460
  <2>1. r \div 1461 \in Nat /\ r \div 1461 <= 24
    BY <1>2, SMT
  <2>2. 1461 * (r \div 1461) <= r /\ r <= 1461 * (r \div 1461) + 1460
    BY SMT
  <2>. QED
    BY <2>1, <2>2, SMT
<1>4. PICK s \in Nat : r = 1461 * q + s /\ s <= 1460
  BY <1>3, SMT
<1>5. PICK t \in Nat : t <= 3 /\ 365 * t <= s /\ s <= 365 * t + 365 /\ (s = 365 * t + 365 => t = 3)
  <2>1. CASE s < 365
    BY <2>1, SMT
  <2>2. CASE 365 <= s /\ s < 730
    BY <2>2, SMT
  <2>3. CASE 730 <= s /\ s < 1095
    BY <2>3, SMT
  <2>4. CASE 1095 <= s
    BY <1>4, <2>4, SMT
  <2>. QED
    BY <2>1, <2>2, <2>3, <2>4, SMT
<1>6. PICK u \in Nat : s = 365 * t + u /\ u <= 365 /\ (u = 365 => t = 3)
  BY <1>5, SMT
<1>7. n = 36524 * c + 1461 * q + 365 * t + u
  BY <1>2, <1>4, <1>6, SMT
<1>8. ASSUME q = 24, t = 3, u = 365 PROVE c = 3
  <2>1. s = 1460
    BY <1>6, <1>8, SMT
  <2>2. r = 36524
    BY <1>4, <1>8, <2>1, SMT
  <2>3. r = 36524 => c = 3
    BY <1>2
  <2>. QED
    BY <2>2, <2>3
<1>9. CountedDay(n, c, q, t, u)
  BY <1>1, <1>3, <1>5, <1>6, <1>7, <1>8 DEF CountedDay
<1>. QED
  BY <1>9

(* The year y of an era, counted the same way.                               *)
InEra(y, c, q, t) == c <= 3 /\ q <= 24 /\ t <= 3 /\ y = 100 * c + 4 * q + t

(* When such a year begins, and that its last day is there in leap years.    *)
LEMMA Century ==
  ASSUME NEW c \in Nat, NEW q \in Nat, NEW t \in Nat, NEW y \in Nat, InEra(y, c, q, t)
  PROVE  /\ Begins(y) = 36524 * c + 1461 * q + 365 * t
         /\ \A e \in Int : Leap(400 * e + y + 1) <=> t = 3 /\ (q = 24 => c = 3)
<1>1. c <= 3 /\ q <= 24 /\ t <= 3 /\ y = 100 * c + 4 * q + t
  BY SMT DEF InEra
<1>2. y \div 4 = 25 * c + q /\ y \div 100 = c
  <2>1. y \div 4 = 25 * c + q
    BY <1>1, SMT
  <2>2. y \div 100 = c
    BY <1>1, SMT
  <2>. QED
    BY <2>1, <2>2
<1>3. Begins(y) = 36524 * c + 1461 * q + 365 * t
  BY <1>1, <1>2, SMT DEF Begins
<1>4. ASSUME NEW e \in Int PROVE Leap(400 * e + y + 1) <=> t = 3 /\ (q = 24 => c = 3)
  <2>. DEFINE x == 400 * e + y + 1
  <2>1. x \in Int /\ x = 400 * e + 100 * c + 4 * q + t + 1
    BY <1>1, SMT
  <2>. HIDE DEF x
  <2>2. x % 4 = 0 <=> t = 3
    BY <1>1, <2>1, SMT
  <2>3. ASSUME t = 3 PROVE x % 100 = 0 <=> q = 24
    <3>1. x = 100 * (4 * e + c) + 4 * (q + 1)
      BY <2>1, <2>3, SMT
    <3>. QED
      BY <1>1, <3>1, SMT
  <2>4. ASSUME t = 3, q = 24 PROVE x % 400 = 0 <=> c = 3
    <3>1. x = 400 * e + 100 * (c + 1)
      BY <2>1, <2>4, SMT
    <3>. QED
      BY <1>1, <3>1, SMT
  <2>5. Leap(x) <=> t = 3 /\ (q = 24 => c = 3)
    BY <2>2, <2>3, <2>4 DEF Leap
  <2>. QED
    BY <2>5 DEF x
<1>. QED
  BY <1>3, <1>4

(* YearOfEra finds the year of the day, its corrections at the last days of  *)
(* four years, of a century and of the era included.                         *)
LEMMA Year ==
  ASSUME NEW n \in Nat, n <= 146096,
         NEW c \in Nat, NEW q \in Nat, NEW t \in Nat, NEW u \in Nat,
         CountedDay(n, c, q, t, u)
  PROVE  YearOfEra(n) = 100 * c + 4 * q + t
<1>1. /\ c <= 3 /\ q <= 24 /\ t <= 3 /\ u <= 365
      /\ n = 36524 * c + 1461 * q + 365 * t + u
      /\ u = 365 => t = 3
      /\ q = 24 /\ t = 3 /\ u = 365 => c = 3
  BY SMT DEF CountedDay
<1>2. PICK w \in Nat : w = IF 24 * c + q + 365 * t + u >= 1460 THEN 1 ELSE 0
  BY SMT
<1>3. n = 1460 * (25 * c + q) + 24 * c + q + 365 * t + u
  BY <1>1, SMT
<1>4. n \div 1460 = 25 * c + q + w
  <2>. DEFINE k == 25 * c + q
              e == 24 * c + q + 365 * t + u
  <2>1. k \in Nat /\ e \in Nat /\ e < 2920 /\ n = 1460 * k + e
    BY <1>1, <1>3, SMT
  <2>2. w = IF e >= 1460 THEN 1 ELSE 0
    BY <1>2
  <2>. HIDE DEF k, e
  <2>3. n \div 1460 = k + w
    BY <2>1, <2>2, SMT
  <2>. QED
    BY <2>3 DEF k
<1>5. n \div 36524 - n \div 146096 = c
  <2>1. CASE n = 146096
    <3>1. n \div 146096 = 1 /\ n \div 36524 = 4
      BY <2>1, SMT
    <3>2. c = 3
      BY <1>1, <2>1, SMT
    <3>. QED
      BY <3>1, <3>2, SMT
  <2>2. CASE n < 146096
    <3>1. n \div 146096 = 0
      BY <2>2, SMT
    <3>2. 1461 * q + 365 * t + u < 36524
      BY <1>1, <2>2, SMT
    <3>3. n \div 36524 = c
      BY <1>1, <3>2, SMT
    <3>. QED
      BY <3>1, <3>3, SMT
  <2>. QED
    BY <2>1, <2>2, SMT
<1>6. PICK v \in Nat : u = v + w /\ v <= 364
  BY <1>1, <1>2, SMT
<1>7. PICK y \in Nat : y = 100 * c + 4 * q + t
  BY SMT
<1>8. n - n \div 1460 + n \div 36524 - n \div 146096 = 365 * y + v
  <2>1. n \div 1460 \in Int /\ n \div 36524 \in Int /\ n \div 146096 \in Int
    BY SMT
  <2>. QED
    BY <1>1, <1>4, <1>5, <1>6, <1>7, <2>1, SMT
<1>9. (365 * y + v) \div 365 = y
  BY <1>6, SMT
<1>. QED
  BY <1>7, <1>8, <1>9, SMT DEF YearOfEra

(* The calendar, as anyone knows it.                                         *)
DayAfter(date) ==
  IF date.d < LastOf(date.y, date.m) THEN [y |-> date.y, m |-> date.m, d |-> date.d + 1]
  ELSE IF date.m < 12 THEN [y |-> date.y, m |-> date.m + 1, d |-> 1]
  ELSE [y |-> date.y + 1, m |-> 1, d |-> 1]

(* The month, the day and the date CivilFromDays makes of the u-th day of a  *)
(* year that begins in March.                                                *)
MonthOf(u) == LET mp == (5 * u + 2) \div 153 IN IF mp < 10 THEN mp + 3 ELSE mp - 9
DayOf(u) == u - (153 * ((5 * u + 2) \div 153) + 2) \div 5 + 1
Dated(y, u) ==
  [y |-> y + (IF MonthOf(u) <= 2 THEN 1 ELSE 0), m |-> MonthOf(u), d |-> DayOf(u)]

(* Its arithmetic with 153 finds the months.                                 *)
LEMMA Months ==
  ASSUME NEW u \in Nat, u <= 365
  PROVE
    \/ 0 <= u /\ u < 31 /\ MonthOf(u) = 3 /\ DayOf(u) = u + 1
    \/ 31 <= u /\ u < 61 /\ MonthOf(u) = 4 /\ DayOf(u) = u - 30
    \/ 61 <= u /\ u < 92 /\ MonthOf(u) = 5 /\ DayOf(u) = u - 60
    \/ 92 <= u /\ u < 122 /\ MonthOf(u) = 6 /\ DayOf(u) = u - 91
    \/ 122 <= u /\ u < 153 /\ MonthOf(u) = 7 /\ DayOf(u) = u - 121
    \/ 153 <= u /\ u < 184 /\ MonthOf(u) = 8 /\ DayOf(u) = u - 152
    \/ 184 <= u /\ u < 214 /\ MonthOf(u) = 9 /\ DayOf(u) = u - 183
    \/ 214 <= u /\ u < 245 /\ MonthOf(u) = 10 /\ DayOf(u) = u - 213
    \/ 245 <= u /\ u < 275 /\ MonthOf(u) = 11 /\ DayOf(u) = u - 244
    \/ 275 <= u /\ u < 306 /\ MonthOf(u) = 12 /\ DayOf(u) = u - 274
    \/ 306 <= u /\ u < 337 /\ MonthOf(u) = 1 /\ DayOf(u) = u - 305
    \/ 337 <= u /\ u < 366 /\ MonthOf(u) = 2 /\ DayOf(u) = u - 336
<1>1. CASE 0 <= u /\ u < 31
  <2>1. (5 * u + 2) \div 153 = 0
    BY <1>1, SMT
  <2>. QED
    BY <1>1, <2>1, SMT DEF MonthOf, DayOf
<1>2. CASE 31 <= u /\ u < 61
  <2>1. (5 * u + 2) \div 153 = 1
    BY <1>2, SMT
  <2>. QED
    BY <1>2, <2>1, SMT DEF MonthOf, DayOf
<1>3. CASE 61 <= u /\ u < 92
  <2>1. (5 * u + 2) \div 153 = 2
    BY <1>3, SMT
  <2>. QED
    BY <1>3, <2>1, SMT DEF MonthOf, DayOf
<1>4. CASE 92 <= u /\ u < 122
  <2>1. (5 * u + 2) \div 153 = 3
    BY <1>4, SMT
  <2>. QED
    BY <1>4, <2>1, SMT DEF MonthOf, DayOf
<1>5. CASE 122 <= u /\ u < 153
  <2>1. (5 * u + 2) \div 153 = 4
    BY <1>5, SMT
  <2>. QED
    BY <1>5, <2>1, SMT DEF MonthOf, DayOf
<1>6. CASE 153 <= u /\ u < 184
  <2>1. (5 * u + 2) \div 153 = 5
    BY <1>6, SMT
  <2>. QED
    BY <1>6, <2>1, SMT DEF MonthOf, DayOf
<1>7. CASE 184 <= u /\ u < 214
  <2>1. (5 * u + 2) \div 153 = 6
    BY <1>7, SMT
  <2>. QED
    BY <1>7, <2>1, SMT DEF MonthOf, DayOf
<1>8. CASE 214 <= u /\ u < 245
  <2>1. (5 * u + 2) \div 153 = 7
    BY <1>8, SMT
  <2>. QED
    BY <1>8, <2>1, SMT DEF MonthOf, DayOf
<1>9. CASE 245 <= u /\ u < 275
  <2>1. (5 * u + 2) \div 153 = 8
    BY <1>9, SMT
  <2>. QED
    BY <1>9, <2>1, SMT DEF MonthOf, DayOf
<1>10. CASE 275 <= u /\ u < 306
  <2>1. (5 * u + 2) \div 153 = 9
    BY <1>10, SMT
  <2>. QED
    BY <1>10, <2>1, SMT DEF MonthOf, DayOf
<1>11. CASE 306 <= u /\ u < 337
  <2>1. (5 * u + 2) \div 153 = 10
    BY <1>11, SMT
  <2>. QED
    BY <1>11, <2>1, SMT DEF MonthOf, DayOf
<1>12. CASE 337 <= u /\ u < 366
  <2>1. (5 * u + 2) \div 153 = 11
    BY <1>12, SMT
  <2>. QED
    BY <1>12, <2>1, SMT DEF MonthOf, DayOf
<1>. QED
  BY <1>1, <1>2, <1>3, <1>4, <1>5, <1>6, <1>7, <1>8, <1>9, <1>10, <1>11, <1>12, SMT

(* The day after one that is not the last of its year.                       *)
LEMMA SameYear ==
  ASSUME NEW y \in Int, NEW u \in Nat, u < 364 \/ (u = 364 /\ Leap(y + 1))
  PROVE  Dated(y, u + 1) = DayAfter(Dated(y, u))
<1>1. u + 1 \in Nat /\ u + 1 <= 365 /\ u <= 365
  BY SMT
<1>. DEFINE v == u + 1
<1>2. v \in Nat /\ v <= 365 /\ v = u + 1
  BY <1>1
<1>. HIDE DEF v
<1>. DEFINE year == y + (IF MonthOf(u) <= 2 THEN 1 ELSE 0)
            length == LastOf(year, MonthOf(u))
<1>3. /\ MonthOf(u) \in Int /\ DayOf(u) \in Int /\ MonthOf(v) \in Int /\ DayOf(v) \in Int
      /\ MonthOf(u) = 2 => u >= 337 /\ DayOf(u) = u - 336
  BY <1>1, Months, <1>2, SMT
<1>4. length = CASE MonthOf(u) = 2 -> IF Leap(y + 1) THEN 29 ELSE 28
                 [] MonthOf(u) \in {4, 6, 9, 11} -> 30
                 [] OTHER -> 31
  BY <1>3, SMT DEF LastOf
<1>5. \/ MonthOf(v) = MonthOf(u) /\ DayOf(v) = DayOf(u) + 1 /\ DayOf(u) < length
      \/ MonthOf(v) = MonthOf(u) + 1 /\ DayOf(v) = 1 /\ DayOf(u) = length /\ MonthOf(u) < 12 /\ MonthOf(u) # 2
      \/ MonthOf(v) = 1 /\ DayOf(v) = 1 /\ DayOf(u) = length /\ MonthOf(u) = 12
  <2>. HIDE DEF length
  <2>. QED
    BY <1>1, <1>2, <1>3, <1>4, Months, SMTT(60)
<1>6. /\ Dated(y, u) = [y |-> year, m |-> MonthOf(u), d |-> DayOf(u)]
      /\ Dated(y, v) = [y |-> y + (IF MonthOf(v) <= 2 THEN 1 ELSE 0), m |-> MonthOf(v), d |-> DayOf(v)]
      /\ year \in Int /\ length \in Int
      /\ year = IF MonthOf(u) <= 2 THEN y + 1 ELSE y
  BY <1>3, <1>4, SMT DEF Dated
<1>7. length = LastOf(year, MonthOf(u))
  OBVIOUS
<1>. HIDE DEF year, length
<1>8. DayAfter(Dated(y, u)) =
        IF DayOf(u) < length THEN [y |-> year, m |-> MonthOf(u), d |-> DayOf(u) + 1]
        ELSE IF MonthOf(u) < 12 THEN [y |-> year, m |-> MonthOf(u) + 1, d |-> 1]
        ELSE [y |-> year + 1, m |-> 1, d |-> 1]
  BY <1>6, <1>7 DEF DayAfter
<1>9. CASE DayOf(u) < length
  BY <1>3, <1>5, <1>6, <1>8, <1>9, SMT DEF v
<1>10. CASE DayOf(u) = length /\ MonthOf(u) < 12
  BY <1>3, <1>5, <1>6, <1>8, <1>10, SMT DEF v
<1>11. CASE DayOf(u) = length /\ MonthOf(u) = 12
  BY <1>3, <1>5, <1>6, <1>8, <1>11, SMT DEF v
<1>. QED
  BY <1>5, <1>9, <1>10, <1>11

(* The day after the last of a year.                                         *)
LEMMA NewYear ==
  ASSUME NEW y \in Int, NEW u \in Nat, (u = 365 /\ Leap(y + 1)) \/ (u = 364 /\ ~Leap(y + 1))
  PROVE  Dated(y + 1, 0) = DayAfter(Dated(y, u))
<1>1. /\ MonthOf(0) = 3 /\ DayOf(0) = 1
      /\ u <= 365 /\ u >= 337
  BY Months, SMT
<1>2. MonthOf(u) = 2 /\ DayOf(u) = u - 336
  BY <1>1, Months, SMT
<1>3. Dated(y + 1, 0) = [y |-> y + 1, m |-> 3, d |-> 1] /\ Dated(y, u) = [y |-> y + 1, m |-> 2, d |-> u - 336]
  BY <1>1, <1>2, SMT DEF Dated
<1>4. LastOf(y + 1, 2) = u - 336
  BY SMT DEF LastOf
<1>. QED
  BY <1>3, <1>4, SMT DEF DayAfter

(* The day is the u-th of the year y of the era e, the year x of the         *)
(* calendar, that begins in March.                                           *)
Placed(z, e, x, y, c, q, t, u) ==
  /\ z \in Int /\ e \in Int /\ x \in Int
  /\ y \in Nat /\ c \in Nat /\ q \in Nat /\ t \in Nat /\ u \in Nat
  /\ InEra(y, c, q, t)
  /\ x = 400 * e + y
  /\ u <= 365
  /\ z + 719468 = 146097 * e + 36524 * c + 1461 * q + 365 * t + u
  /\ u = 365 => t = 3
  /\ q = 24 /\ t = 3 /\ u = 365 => c = 3

(* CivilFromDays of a day so placed.                                         *)
LEMMA Civil ==
  ASSUME NEW z, NEW e, NEW x, NEW y, NEW c, NEW q, NEW t, NEW u,
         Placed(z, e, x, y, c, q, t, u)
  PROVE  CivilFromDays(z) = Dated(x, u)
<1>. /\ z \in Int /\ e \in Int /\ x \in Int
     /\ y \in Nat /\ c \in Nat /\ q \in Nat /\ t \in Nat /\ u \in Nat
  BY DEF Placed
<1>1. /\ c <= 3 /\ q <= 24 /\ t <= 3 /\ u <= 365 /\ y = 100 * c + 4 * q + t
      /\ x = 400 * e + y
      /\ z + 719468 = 146097 * e + 36524 * c + 1461 * q + 365 * t + u
      /\ u = 365 => t = 3
      /\ q = 24 /\ t = 3 /\ u = 365 => c = 3
  BY SMT DEF Placed, InEra
<1>2. PICK n \in Nat : n = 36524 * c + 1461 * q + 365 * t + u
  BY SMT
<1>3. n <= 146096 /\ CountedDay(n, c, q, t, u) /\ z + 719468 = 146097 * e + n
  BY <1>1, <1>2, SMT DEF CountedDay
<1>4. (z + 719468) \div 146097 = e /\ z + 719468 - e * 146097 = n
  BY <1>3, SMT
<1>5. YearOfEra(n) = y
  BY <1>1, <1>3, Year, SMT
<1>6. n - (365 * y + y \div 4 - y \div 100) = u
  <2>1. Begins(y) = 36524 * c + 1461 * q + 365 * t
    BY Century, SMT DEF Placed
  <2>2. 365 * y + y \div 4 - y \div 100 = 36524 * c + 1461 * q + 365 * t
    BY <2>1, SMT DEF Begins
  <2>. QED
    BY <1>2, <2>2, SMT
<1>7. MonthOf(u) \in Int /\ DayOf(u) \in Int
  BY <1>1, Months, SMT
<1>8. CivilFromDays(z) =
        [y |-> y + e * 400 + (IF MonthOf(u) <= 2 THEN 1 ELSE 0), m |-> MonthOf(u), d |-> DayOf(u)]
  <2>1. CivilFromDays(z) =
          LET doy == n - (365 * YearOfEra(n) + YearOfEra(n) \div 4 - YearOfEra(n) \div 100)
              mp == (5 * doy + 2) \div 153
              m == IF mp < 10 THEN mp + 3 ELSE mp - 9
          IN  [y |-> YearOfEra(n) + e * 400 + (IF m <= 2 THEN 1 ELSE 0), m |-> m,
               d |-> doy - (153 * mp + 2) \div 5 + 1]
    BY <1>4, SMT DEF CivilFromDays
  <2>2. @ = LET mp == (5 * u + 2) \div 153
                m == IF mp < 10 THEN mp + 3 ELSE mp - 9
            IN  [y |-> y + e * 400 + (IF m <= 2 THEN 1 ELSE 0), m |-> m,
                 d |-> u - (153 * mp + 2) \div 5 + 1]
    BY <1>5, <1>6, SMT
  <2>. QED
    BY <2>1, <2>2, SMT DEF MonthOf, DayOf
<1>9. y + e * 400 + (IF MonthOf(u) <= 2 THEN 1 ELSE 0) = x + (IF MonthOf(u) <= 2 THEN 1 ELSE 0)
  BY <1>1, <1>7, SMT
<1>. QED
  BY <1>8, <1>9, SMT DEF Dated

(* The last day of the year is there when the next is a leap year.           *)
LEMMA LeapDay ==
  ASSUME NEW z, NEW e, NEW x, NEW y, NEW c, NEW q, NEW t, NEW u,
         Placed(z, e, x, y, c, q, t, u)
  PROVE  Leap(x + 1) <=> t = 3 /\ (q = 24 => c = 3)
<1>. /\ e \in Int /\ x \in Int
     /\ y \in Nat /\ c \in Nat /\ q \in Nat /\ t \in Nat /\ u \in Nat
  BY DEF Placed
<1>1. InEra(y, c, q, t) /\ x = 400 * e + y
  BY SMT DEF Placed
<1>2. \A f \in Int : Leap(400 * f + y + 1) <=> t = 3 /\ (q = 24 => c = 3)
  BY <1>1, Century
<1>3. Leap(400 * e + y + 1) <=> t = 3 /\ (q = 24 => c = 3)
  BY <1>2
<1>. QED
  BY <1>1, <1>3

(* Every day, before the epoch or after it, has a place.                     *)
LEMMA Place ==
  ASSUME NEW z \in Int
  PROVE  \E e, x, y, c, q, t, u : Placed(z, e, x, y, c, q, t, u)
<1>1. PICK e \in Int : 146097 * e <= z + 719468 /\ z + 719468 < 146097 * e + 146097
  <2>. DEFINE f == (z + 719468) \div 146097
  <2>1. f \in Int
    BY SMT
  <2>2. 146097 * f <= z + 719468 /\ z + 719468 < 146097 * f + 146097
    BY SMT
  <2>. HIDE DEF f
  <2>. QED
    BY <2>1, <2>2, SMT
<1>2. PICK n \in Nat : z + 719468 = 146097 * e + n /\ n <= 146096
  BY <1>1, SMT
<1>3. PICK c, q, t, u \in Nat : CountedDay(n, c, q, t, u)
  BY <1>2, DaySplit, SMT
<1>4. PICK y \in Nat : y = 100 * c + 4 * q + t
  BY SMT
<1>5. PICK x \in Int : x = 400 * e + y
  BY SMT
<1>6. Placed(z, e, x, y, c, q, t, u)
  BY <1>2, <1>3, <1>4, <1>5, SMT DEF Placed, InEra, CountedDay
<1>. QED
  BY <1>6

(* One day further is one date further, with the end of a year, of four      *)
(* years, of a century and of the era told apart.                            *)
LEMMA Tomorrow ==
  ASSUME NEW z \in Int
  PROVE  CivilFromDays(z + 1) = DayAfter(CivilFromDays(z))
<1>1. PICK e, x, y, c, q, t, u : Placed(z, e, x, y, c, q, t, u)
  BY Place
<1>. /\ e \in Int /\ x \in Int
     /\ y \in Nat /\ c \in Nat /\ q \in Nat /\ t \in Nat /\ u \in Nat
  BY <1>1 DEF Placed
<1>2. /\ c <= 3 /\ q <= 24 /\ t <= 3 /\ u <= 365 /\ y = 100 * c + 4 * q + t
      /\ z + 719468 = 146097 * e + 36524 * c + 1461 * q + 365 * t + u
      /\ u = 365 => t = 3 /\ (q = 24 => c = 3)
      /\ x = 400 * e + y
  BY <1>1, SMT DEF Placed, InEra
<1>3. CivilFromDays(z) = Dated(x, u)
  BY <1>1, Civil
<1>4. Leap(x + 1) <=> t = 3 /\ (q = 24 => c = 3)
  BY <1>1, LeapDay
<1>5. z + 1 \in Int /\ x + 1 \in Int
  BY SMT
<1>6. CASE u < 364 \/ (u = 364 /\ Leap(x + 1))
  <2>1. Placed(z + 1, e, x, y, c, q, t, u + 1)
    BY <1>2, <1>4, <1>6, SMT DEF Placed, InEra
  <2>2. CivilFromDays(z + 1) = Dated(x, u + 1)
    BY <2>1, Civil
  <2>. QED
    BY <1>3, <1>6, <2>2, SameYear, SMT
<1>7. CASE (u = 365 /\ Leap(x + 1)) \/ (u = 364 /\ ~Leap(x + 1))
  <2>1. DayAfter(CivilFromDays(z)) = Dated(x + 1, 0)
    BY <1>3, <1>7, NewYear, SMT
  <2>2. \E d, v, h, i, j : Placed(z + 1, d, x + 1, v, h, i, j, 0)
    <3>1. CASE t < 3
      <4>1. Placed(z + 1, e, x + 1, y + 1, c, q, t + 1, 0)
        BY <1>2, <1>4, <1>7, <3>1, SMT DEF Placed, InEra
      <4>. QED
        BY <4>1, Zenon
    <3>2. CASE t = 3 /\ q < 24
      <4>1. Placed(z + 1, e, x + 1, y + 1, c, q + 1, 0, 0)
        BY <1>2, <1>4, <1>7, <3>2, SMT DEF Placed, InEra
      <4>. QED
        BY <4>1, Zenon
    <3>3. CASE t = 3 /\ q = 24 /\ c < 3
      <4>1. Placed(z + 1, e, x + 1, y + 1, c + 1, 0, 0, 0)
        BY <1>2, <1>4, <1>7, <3>3, SMT DEF Placed, InEra
      <4>. QED
        BY <4>1, Zenon
    <3>4. CASE t = 3 /\ q = 24 /\ c = 3
      <4>1. Placed(z + 1, e + 1, x + 1, 0, 0, 0, 0, 0)
        BY <1>2, <1>4, <1>7, <3>4, SMT DEF Placed, InEra
      <4>. QED
        BY <4>1, Zenon
    <3>. QED
      BY <1>2, <3>1, <3>2, <3>3, <3>4, SMT
  <2>3. CivilFromDays(z + 1) = Dated(x + 1, 0)
    BY <2>2, Civil
  <2>. QED
    BY <2>1, <2>3
<1>. QED
  BY <1>2, <1>4, <1>6, <1>7, SMT

(* The epoch.                                                                *)
LEMMA Epoch == CivilFromDays(0) = [y |-> 1970, m |-> 1, d |-> 1]
<1>1. PICK z, e, x, y, c, q, t, u :
        z = 0 /\ e = 4 /\ x = 1969 /\ y = 369 /\ c = 3 /\ q = 17 /\ t = 1 /\ u = 306
  BY SMT
<1>2. Placed(z, e, x, y, c, q, t, u)
  BY <1>1, SMT DEF Placed, InEra
<1>3. CivilFromDays(z) = Dated(x, u)
  BY <1>2, Civil
<1>4. CivilFromDays(0) = Dated(1969, 306)
  BY <1>1, <1>3, SMT
<1>5. MonthOf(306) = 1 /\ DayOf(306) = 1
  BY Months, SMT
<1>6. Dated(1969, 306) = [y |-> 1970, m |-> 1, d |-> 1]
  BY <1>5, SMT DEF Dated
<1>. QED
  BY <1>4, <1>6, SMT

(* No day gets a date that is in no calendar.                                *)
LEMMA DateIsValid ==
  ASSUME NEW z \in Int
  PROVE  LET date == CivilFromDays(z)
         IN date.y \in Int /\ date.m \in 1..12 /\ date.d \in 1..LastOf(date.y, date.m)
<1>1. PICK e, x, y, c, q, t, u : Placed(z, e, x, y, c, q, t, u)
  BY Place
<1>. /\ e \in Int /\ x \in Int
     /\ y \in Nat /\ c \in Nat /\ q \in Nat /\ t \in Nat /\ u \in Nat
  BY <1>1 DEF Placed
<1>2. u <= 365 /\ (u = 365 => t = 3 /\ (q = 24 => c = 3))
  BY <1>1, SMT DEF Placed
<1>3. CivilFromDays(z) = Dated(x, u)
  BY <1>1, Civil
<1>4. u = 365 => Leap(x + 1)
  <2>1. Leap(x + 1) <=> t = 3 /\ (q = 24 => c = 3)
    BY <1>1, LeapDay
  <2>. QED
    BY <1>2, <2>1
<1>5. /\ MonthOf(u) \in 1..12 /\ DayOf(u) >= 1 /\ DayOf(u) \in Int
      /\ MonthOf(u) = 2 => DayOf(u) = u - 336 /\ u - 336 >= 1
      /\ MonthOf(u) \in {4, 6, 9, 11} => DayOf(u) <= 30
      /\ DayOf(u) <= 31
  BY <1>2, Months, SMT
<1>. DEFINE year == x + (IF MonthOf(u) <= 2 THEN 1 ELSE 0)
<1>6. year \in Int /\ (MonthOf(u) = 2 => year = x + 1)
  BY <1>5, SMT
<1>. HIDE DEF year
<1>7. DayOf(u) \in 1..LastOf(year, MonthOf(u))
  BY <1>2, <1>4, <1>5, <1>6, SMT DEF LastOf
<1>8. Dated(x, u) = [y |-> year, m |-> MonthOf(u), d |-> DayOf(u)]
  BY DEF Dated, year
<1>. QED
  BY <1>3, <1>5, <1>6, <1>7, <1>8

(***************************************************************************)
(* src/reqlog.rs `civil_from_days` and `parts`: every day there is has its *)
(* date.  The epoch is right, each date is valid and is followed by the    *)
(* next one of the calendar, and a minute is filed under the day whose     *)
(* local midnight was the last before it.                                  *)
(***************************************************************************)
THEOREM DateOfEveryDay ==
  ASSUME NEW z \in Int
  PROVE  LET date(n) == CivilFromDays(n)
         IN /\ date(0) = [y |-> 1970, m |-> 1, d |-> 1]
            /\ date(z).m \in 1..12 /\ date(z).d \in 1..LastOf(date(z).y, date(z).m)
            /\ date(z + 1) = DayAfter(date(z))
            /\ \A k \in 0..(DAY - 1) :
                 Parts(z * DAY - TZ_OFFSET + k)
                   = [day |-> date(z), hour |-> k \div 60, minute |-> k % 60]
<1>1. ASSUME NEW k \in 0..(DAY - 1)
      PROVE  Parts(z * DAY - TZ_OFFSET + k)
               = [day |-> CivilFromDays(z), hour |-> k \div 60, minute |-> k % 60]
  <2>1. k \in Nat /\ k < 1440 /\ DAY = 1440 /\ TZ_OFFSET = 540
    BY SMT DEF DAY, TZ_OFFSET
  <2>2. z * 1440 - 540 + k + 540 = 1440 * z + k
    BY <2>1, SMT
  <2>3. (1440 * z + k) \div 1440 = z /\ (1440 * z + k) % 1440 = k
    BY <2>1, SMT
  <2>. QED
    BY <2>1, <2>2, <2>3, SMT DEF Parts
<1>. QED
  BY <1>1, Epoch, Tomorrow, DateIsValid

(* The days and the files are inputs of their own. *)
LEMMA FilesOnly ==
  ASSUME [CaseNext]_<<about, input>>
  PROVE  /\ about' = about
         /\ \/ UNCHANGED input
            \/ about = "date" /\ NextDay
            \/ about = "tail" /\ (Write \/ NewFile)
            \/ about \notin {"date", "tail"}
<1>1. ASSUME NextDay PROVE about = "date" /\ about' = about
  BY <1>1 DEF NextDay
<1>2. ASSUME Write \/ NewFile PROVE about = "tail" /\ about' = about
  BY <1>2 DEF Write, NewFile
<1>3. ASSUME Starts \/ Counts \/ Creates \/ Speaks \/ Completes \/ Fails
      PROVE  about = "stream" /\ about' = about
  BY <1>3 DEF Starts, Counts, Creates, Speaks, Completes, Fails, Sent
<1>4. ASSUME Say \/ Answer \/ Return PROVE about = "chat" /\ about' = about
  BY <1>4 DEF Say, Answer, Return
<1>5. ASSUME SetKey \/ ExtendPath PROVE about \in {"body", "path"} /\ about' = about
  BY <1>5 DEF SetKey, ExtendPath
<1>6. ASSUME SetOption PROVE about = "options" /\ about' = about
  BY <1>6 DEF SetOption
<1>7. ASSUME AddLine \/ Reply PROVE about \in {"headers", "replies"} /\ about' = about
  BY <1>7 DEF AddLine, Reply
<1>8. ASSUME RefreshOnce PROVE about = "credential" /\ about' = about
  BY <1>8 DEF RefreshOnce
<1>. QED
  BY <1>1, <1>2, <1>3, <1>4, <1>5, <1>6, <1>7, <1>8 DEF CaseNext, RecordNext

--------------------------------------------------------------------------------
(* The first days of the runs have their dates. *)
LEMMA FirstDates == \A known \in FirstDays : known.first \in Nat /\ CivilFromDays(known.first) = known.date
<1>1. CivilFromDays(10592) = [y |-> 1999, m |-> 1, d |-> 1]
  <2>1. PICK z, e, x, y, c, q, t, u :
          z = 10592 /\ e = 4 /\ x = 1998 /\ y = 398 /\ c = 3 /\ q = 24 /\ t = 2 /\ u = 306
    BY SMT
  <2>2. Placed(z, e, x, y, c, q, t, u)
    BY <2>1, SMT DEF Placed, InEra
  <2>3. CivilFromDays(z) = Dated(x, u)
    BY <2>2, Civil
  <2>4. MonthOf(306) = 1 /\ DayOf(306) = 1
    BY Months, SMT
  <2>5. Dated(1998, 306) = [y |-> 1999, m |-> 1, d |-> 1]
    BY <2>4, SMT DEF Dated
  <2>. QED
    BY <2>1, <2>3, <2>5, SMT
<1>2. CivilFromDays(47117) = [y |-> 2099, m |-> 1, d |-> 1]
  <2>1. PICK z, e, x, y, c, q, t, u :
          z = 47117 /\ e = 5 /\ x = 2098 /\ y = 98 /\ c = 0 /\ q = 24 /\ t = 2 /\ u = 306
    BY SMT
  <2>2. Placed(z, e, x, y, c, q, t, u)
    BY <2>1, SMT DEF Placed, InEra
  <2>3. CivilFromDays(z) = Dated(x, u)
    BY <2>2, Civil
  <2>4. MonthOf(306) = 1 /\ DayOf(306) = 1
    BY Months, SMT
  <2>5. Dated(2098, 306) = [y |-> 2099, m |-> 1, d |-> 1]
    BY <2>4, SMT DEF Dated
  <2>. QED
    BY <2>1, <2>3, <2>5, SMT
<1>3. CivilFromDays(156680) = [y |-> 2398, m |-> 12, d |-> 23]
  <2>1. PICK z, e, x, y, c, q, t, u :
          z = 156680 /\ e = 5 /\ x = 2398 /\ y = 398 /\ c = 3 /\ q = 24 /\ t = 2 /\ u = 297
    BY SMT
  <2>2. Placed(z, e, x, y, c, q, t, u)
    BY <2>1, SMT DEF Placed, InEra
  <2>3. CivilFromDays(z) = Dated(x, u)
    BY <2>2, Civil
  <2>4. MonthOf(297) = 12 /\ DayOf(297) = 23
    BY Months, SMT
  <2>5. Dated(2398, 297) = [y |-> 2398, m |-> 12, d |-> 23]
    BY <2>4, SMT DEF Dated
  <2>. QED
    BY <2>1, <2>3, <2>5, SMT
<1>. QED
  BY <1>1, <1>2, <1>3, Epoch DEF FirstDays

(* The calendar's date is the one the day is named by. *)
DateInv ==
  about = "date" =>
    /\ input = [first |-> input.first, walked |-> input.walked, date |-> input.date]
    /\ input.first \in Nat /\ input.walked \in Nat
    /\ input.date = CivilFromDays(input.first + input.walked)

LEMMA NextDayDateInv ==
  ASSUME DateInv, NextDay
  PROVE  DateInv'
<1>. DEFINE f == input.first
            w == input.walked
            date == input.date
            next == IF date.d < LastOf(date.y, date.m) THEN [date EXCEPT !.d = @ + 1]
                    ELSE IF date.m < 12 THEN [date EXCEPT !.m = @ + 1, !.d = 1]
                    ELSE [y |-> date.y + 1, m |-> 1, d |-> 1]
<1>1. /\ about = "date" /\ about' = about
      /\ input = [first |-> f, walked |-> w, date |-> date]
      /\ f \in Nat /\ w \in Nat /\ date = CivilFromDays(f + w)
  BY DEF DateInv, NextDay
<1>2. input' = [input EXCEPT !.walked = @ + 1, !.date = next]
  BY DEF NextDay
<1>3. next = DayAfter(date)
  <2>1. date = [y |-> date.y, m |-> date.m, d |-> date.d]
    BY <1>1 DEF CivilFromDays
  <2>. HIDE DEF date
  <2>2. [date EXCEPT !.d = @ + 1] = [y |-> date.y, m |-> date.m, d |-> date.d + 1]
    BY <2>1
  <2>3. [date EXCEPT !.m = @ + 1, !.d = 1] = [y |-> date.y, m |-> date.m + 1, d |-> 1]
    <3>. DEFINE m == date.m + 1
    <3>1. [date EXCEPT !.m = @ + 1, !.d = 1] = [date EXCEPT !.m = m, !.d = 1]
      OBVIOUS
    <3>. HIDE DEF m
    <3>2. PICK a, b, c : date = [y |-> a, m |-> b, d |-> c]
      BY <2>1
    <3>3. [date EXCEPT !.m = m, !.d = 1]
            = [x \in {"y", "m", "d"} |-> IF x = "d" THEN 1 ELSE IF x = "m" THEN m ELSE date[x]]
      BY <3>2
    <3>4. [date EXCEPT !.m = m, !.d = 1] = [y |-> date.y, m |-> m, d |-> 1]
      BY <3>2, <3>3
    <3>. QED
      BY <3>1, <3>4 DEF m
  <2>. QED
    BY <2>2, <2>3 DEF DayAfter
<1>. HIDE DEF f, w, date, next
<1>4. input' = [first |-> f, walked |-> w + 1, date |-> next]
  <2>1. input.walked = w
    BY DEF w
  <2>. QED
    BY <1>1, <1>2, <2>1
<1>5. next = CivilFromDays(f + (w + 1))
  <2>1. f + w \in Int /\ (f + w) + 1 = f + (w + 1)
    BY <1>1
  <2>. QED
    BY <1>1, <1>3, <2>1, Tomorrow
<1>6. w + 1 \in Nat
  BY <1>1
<1>. QED
  BY <1>1, <1>4, <1>5, <1>6 DEF DateInv

LEMMA DatesFollow == DateInv => DateFollows
<1>. SUFFICES ASSUME DateInv, about = "date" PROVE DateFollows
  BY DEF DateFollows
<1>. DEFINE z == input.first + input.walked
            begin == z * DAY - TZ_OFFSET
<1>1. z \in Int /\ input.date = CivilFromDays(z)
  BY DEF DateInv
<1>. HIDE DEF z
<1>2. DAY = 1440 /\ TZ_OFFSET = 540
  BY SMT DEF DAY, TZ_OFFSET
<1>3. \A k \in 0..(DAY - 1) : Parts(begin + k) = [day |-> CivilFromDays(z), hour |-> k \div 60, minute |-> k % 60]
  BY <1>1, DateOfEveryDay
<1>4. /\ 0 \in 0..(DAY - 1) /\ 1439 \in 0..(DAY - 1) /\ begin \in Int
      /\ begin + 0 = begin /\ begin + DAY - 1 = begin + 1439
      /\ 0 \div 60 = 0 /\ 0 % 60 = 0 /\ 1439 \div 60 = 23 /\ 1439 % 60 = 59
  BY <1>1, <1>2, SMT
<1>. HIDE DEF begin
<1>. DEFINE P(k) == Parts(begin + k) = [day |-> CivilFromDays(z), hour |-> k \div 60, minute |-> k % 60]
<1>5. P(0) /\ P(1439)
  <2>1. \A k \in 0..(DAY - 1) : P(k)
    BY <1>3
  <2>. HIDE DEF P
  <2>. QED
    BY <1>4, <2>1
<1>6. Parts(begin) = [day |-> input.date, hour |-> 0, minute |-> 0]
  BY <1>1, <1>4, <1>5
<1>7. Parts(begin + DAY - 1) = [day |-> input.date, hour |-> 23, minute |-> 59]
  BY <1>1, <1>4, <1>5
<1>. QED
  BY <1>6, <1>7 DEF DateFollows, begin, z

(***************************************************************************)
(* reqlog.rs `print_tail`: of any days, those that cannot be read left     *)
(* out, `logs -n` prints the last n lines, whole and in their order,       *)
(* however many bytes it reads at once and wherever the chunks break.      *)
(***************************************************************************)
THEOREM LastOfDays ==
  ASSUME NEW files \in Seq(LogText), NEW unreadable,
         NEW n \in Nat, n > 0, NEW size \in Nat, size > 0
  PROVE  LET texts == FlattenSeq([k \in DOMAIN files |->
                      IF k \in unreadable THEN <<>> ELSE TextLines(files[k])])
         IN PrintTail(files, unreadable, n, size) = LastLines(texts, n) /\ texts \in Seq(LogText)
<1>1. \A k \in DOMAIN files : TextLines(files[k]) = All(files[k])
  BY LinesAreSplit, LenProperties, ElementOfSeq
<1>2. [k \in DOMAIN files |-> IF k \in unreadable THEN <<>> ELSE TextLines(files[k])]
        = [k \in DOMAIN files |-> IF k \in unreadable THEN <<>> ELSE All(files[k])]
  BY <1>1
<1>. DEFINE parts == [k \in DOMAIN files |-> IF k \in unreadable THEN <<>> ELSE All(files[k])]
<1>3. PrintTail(files, unreadable, n, size) = LastLines(FlattenSeq(parts), n)
      /\ FlattenSeq(parts) \in Seq(LogText)
  BY PrintLast
<1>. QED
  BY <1>2, <1>3

TailInv == about = "tail" => input \in Seq(LogText) /\ Len(input) # 0

LEMMA WriteTailInv ==
  ASSUME TailInv, Write \/ NewFile
  PROVE  TailInv'
<1>1. about = "tail" /\ about' = about /\ input \in Seq(LogText) /\ Len(input) # 0 /\ Len(input) \in Nat
  BY LenProperties DEF TailInv, Write, NewFile
<1>2. CASE Write
  <2>1. PICK c \in {0, Marks + 1} : input' = [input EXCEPT ![Len(input)] = Append(@, c)]
    BY <1>2 DEF Write
  <2>2. Marks \in Nat
    <3>1. <<>> \in Seq(Nat)
      BY EmptySeq
    <3>2. FlattenSeq(input) \in Seq(Nat)
      BY <1>1, <3>1, FlattenAppend DEF LogText
    <3>. QED
      BY <3>2, LenProperties DEF Marks
  <2>3. c \in Nat
    BY <2>1, <2>2
  <2>. DEFINE n == Len(input)
              text == Append(input[n], c)
  <2>4. n \in 1..n /\ text \in LogText
    <3>1. n \in 1..n
      BY <1>1
    <3>2. input[n] \in LogText
      BY <1>1, <3>1, ElementOfSeq
    <3>. QED
      BY <2>3, <3>1, <3>2, AppendProperties DEF LogText
  <2>5. input' = [input EXCEPT ![n] = text]
    BY <2>1
  <2>. HIDE DEF text
  <2>6. input' \in Seq(LogText) /\ Len(input') = n
    BY <1>1, <2>4, <2>5, ExceptSeq
  <2>. QED
    BY <1>1, <2>6 DEF TailInv
<1>3. CASE NewFile
  <2>1. input' = Append(input, <<>>) /\ <<>> \in LogText
    BY <1>3, EmptySeq DEF NewFile, LogText
  <2>2. input' \in Seq(LogText) /\ Len(input') = Len(input) + 1
    BY <1>1, <2>1, AppendProperties
  <2>. QED
    BY <1>1, <2>2 DEF TailInv
<1>. QED
  BY <1>2, <1>3

LEMMA TailsAreLast == TailInv => TailIsLast
<1>. SUFFICES ASSUME TailInv, about = "tail",
                     NEW n \in 1..3, NEW chunk \in 1..3, NEW unreadable \in SUBSET DOMAIN input
              PROVE  LET texts == FlattenSeq([k \in DOMAIN input |->
                                  IF k \in unreadable THEN <<>> ELSE TextLines(input[k])])
                         last == IF Len(texts) > n THEN n ELSE Len(texts)
                     IN PrintTail(input, unreadable, n, chunk)
                          = SubSeq(texts, Len(texts) - last + 1, Len(texts))
  BY DEF TailIsLast
<1>. DEFINE texts == FlattenSeq([k \in DOMAIN input |->
                     IF k \in unreadable THEN <<>> ELSE TextLines(input[k])])
            m == Len(texts)
            last == IF m > n THEN n ELSE m
<1>1. input \in Seq(LogText) /\ n \in Nat /\ n > 0 /\ chunk \in Nat /\ chunk > 0
  BY DEF TailInv
<1>2. PrintTail(input, unreadable, n, chunk) = LastLines(texts, n) /\ texts \in Seq(LogText)
  BY <1>1, LastOfDays
<1>. HIDE DEF texts
<1>3. m \in Nat
  BY <1>2, LenProperties
<1>4. LastLines(texts, n) = SubSeq(texts, IF m > n THEN m - n + 1 ELSE 1, m)
  BY DEF LastLines
<1>. HIDE DEF m
<1>5. (IF m > n THEN m - n + 1 ELSE 1) = m - last + 1
  BY <1>1, <1>3
<1>. QED
  BY <1>2, <1>4, <1>5 DEF m, texts

(* A day file has the calendar's date and is read right from its end, as far *)
(* as the days and the files go (reqlog.rs `civil_from_days`, `print_tail`). *)
THEOREM FilesRight == CaseSpec => []LogFilesRight
<1>1. CaseInit => DateInv /\ TailInv
  <2>. SUFFICES ASSUME CaseInit PROVE DateInv /\ TailInv
    OBVIOUS
  <2>1. CASE about = "date"
    <3>1. PICK known \in FirstDays : input = [first |-> known.first, walked |-> 0, date |-> known.date]
      BY <2>1 DEF CaseInit, RecordInit
    <3>2. known.first \in Nat /\ CivilFromDays(known.first) = known.date /\ known.first + 0 = known.first
      BY FirstDates
    <3>. QED
      BY <2>1, <3>1, <3>2 DEF DateInv, TailInv
  <2>2. CASE about = "tail"
    <3>1. input = <<<<>>>>
      BY <2>2 DEF CaseInit, RecordInit
    <3>2. <<>> \in LogText
      BY EmptySeq DEF LogText
    <3>3. input \in Seq(LogText) /\ Len(input) = 1
      BY <3>1, <3>2
    <3>. QED
      BY <2>2, <3>3 DEF DateInv, TailInv
  <2>3. CASE about \notin {"date", "tail"}
    BY <2>3 DEF DateInv, TailInv
  <2>. QED
    BY <2>1, <2>2, <2>3
<1>2. DateInv /\ TailInv /\ [CaseNext]_<<about, input>> => DateInv' /\ TailInv'
  <2>. SUFFICES ASSUME DateInv, TailInv, [CaseNext]_<<about, input>> PROVE DateInv' /\ TailInv'
    OBVIOUS
  <2>1. CASE UNCHANGED input
    BY <2>1, FilesOnly DEF DateInv, TailInv
  <2>2. CASE about \notin {"date", "tail"}
    BY <2>2, FilesOnly DEF DateInv, TailInv
  <2>3. CASE about = "date" /\ NextDay
    <3>1. about' = about
      BY FilesOnly
    <3>. QED
      BY <2>3, <3>1, NextDayDateInv DEF TailInv
  <2>4. CASE about = "tail" /\ (Write \/ NewFile)
    <3>1. about' = about
      BY FilesOnly
    <3>. QED
      BY <2>4, <3>1, WriteTailInv DEF DateInv
  <2>. QED
    BY <2>1, <2>2, <2>3, <2>4, FilesOnly
<1>3. DateInv /\ TailInv => LogFilesRight
  BY DatesFollow, TailsAreLast DEF LogFilesRight
<1>. QED
  BY <1>1, <1>2, <1>3, PTL DEF CaseSpec
================================================================================
