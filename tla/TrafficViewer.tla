------------------------------ MODULE TrafficViewer ------------------------------
(***************************************************************************)
(* The macOS app beside the request log: MainViewController.swift keeps an *)
(* index of one day's file, which detached tasks extend, and the list of   *)
(* exchanges in progress, which it fetches from feed.rs; a timer, `tick`,  *)
(* asks for the list first and scans the file after it.  Everything but    *)
(* the fetch and the scan runs on the main actor.                          *)
(*                                                                         *)
(* Not shown: the search field and the anomaly box, which hide rows, and   *)
(* a file that has become shorter, for files only grow here.               *)
(***************************************************************************)
EXTENDS RequestLog, Functions

CONSTANT MaxClicks  \* bound: what the user does in one behaviour

ASSUME ClickAssumption == MaxClicks \in Nat

VARIABLES
  day,       \* the day on display, 0 for ""
  latest,    \* latestDay
  all,       \* the index: the records read from that day's file
  consumed,  \* the position in the file up to which it was read
  live,      \* the exchanges in progress, as of the last fetch
  rows,      \* what the table shows
  scan,      \* the scan under way
  fetch,     \* the fetch under way
  follow,    \* followCheck
  clicks     \* history: how often the user did something

viewVars == <<day, latest, all, consumed, live, rows, scan, fetch, follow, clicks>>
vars == <<logVars, viewVars>>

NoScan == [at |-> "none", day |-> 0, from |-> 0, reset |-> FALSE, relist |-> FALSE,
           got |-> <<>>, upto |-> 0]
NoFetch == [at |-> "none", first |-> FALSE, got |-> {}]

Scan == [at : {"asked", "read"}, day : Day, from : Nat, reset : BOOLEAN,
         relist : BOOLEAN, got : Seq(Req), upto : Nat]
Fetch == [at : {"asked", "answered"}, first : BOOLEAN, got : SUBSET Req]

TypeOK ==
  /\ LogTypeOK
  /\ day \in 0..MaxDay /\ latest \in 0..MaxDay
  /\ all \in Seq(Req)
  /\ consumed \in Nat
  /\ live \in SUBSET Req
  /\ rows \in [pending : SUBSET Req, recorded : Seq(Req)]
  /\ scan = NoScan \/ scan \in Scan
  /\ fetch = NoFetch \/ fetch \in Fetch
  /\ follow \in BOOLEAN
  /\ clicks \in 0..MaxClicks

(* viewDidAppear has asked for the list. *)
Init ==
  /\ LogInit
  /\ day = 0 /\ latest = 0
  /\ all = <<>> /\ consumed = 0
  /\ live = {}
  /\ rows = [pending |-> {}, recorded |-> <<>>]
  /\ scan = NoScan
  /\ fetch = [NoFetch EXCEPT !.at = "asked", !.first = TRUE]
  /\ follow = TRUE
  /\ clicks = 0

--------------------------------------------------------------------------------
(* Main-actor code.  The operators take the values it has just assigned. *)

(* Mutant: what is in the file already is not taken off the list. *)
ApplyFilterAll(d, last, index, pending) ==
  rows' = [pending |-> IF d = 0 \/ d = last THEN pending ELSE {}, recorded |-> index]

(* `ids` holds the records of `all`. *)
ApplyFilter(d, last, index, pending) ==
  rows' = [pending |-> IF d = 0 \/ d = last THEN pending \ Range(index) ELSE {},
           recorded |-> index]

(* One scan at a time; what is asked for meanwhile is dropped. *)
StartScan(d, last, index, pending, from, reset, relist) ==
  IF scan # NoScan \/ d = 0
  THEN /\ UNCHANGED scan
       /\ IF relist THEN ApplyFilter(d, last, index, pending) ELSE UNCHANGED rows
  ELSE /\ scan' = [NoScan EXCEPT !.at = "asked", !.day = d, !.from = from,
                                 !.reset = reset, !.relist = relist]
       /\ UNCHANGED rows

(* `reloadDays(selecting: wanted)`, 0 for nil, with a list just fetched. *)
ReloadDays(wanted, pending) ==
  LET last == IF made = {} THEN 0 ELSE CHOOSE d \in made : \A e \in made : e <= d
      target == IF wanted # 0 THEN wanted ELSE IF day \in made THEN day ELSE last
  IN /\ latest' = last
     /\ day' = IF target \in made THEN target ELSE 0
     /\ all' = IF target \in made /\ target = day THEN all ELSE <<>>
     /\ consumed' = IF target \in made /\ target # day THEN 0 ELSE consumed
     /\ IF target \in made
        THEN StartScan(target, last, all', pending, 0, TRUE, FALSE)
        ELSE ApplyFilter(0, last, <<>>, pending) /\ UNCHANGED scan

(* The timer, or the follow box being ticked. *)
Tick ==
  /\ follow /\ fetch = NoFetch
  /\ IF made # {} /\ day \notin {d \in made : \A e \in made : e <= d}
     THEN /\ ReloadDays(CHOOSE d \in made : \A e \in made : e <= d, live)
          /\ UNCHANGED fetch
     ELSE /\ fetch' = [NoFetch EXCEPT !.at = "asked"]
          /\ UNCHANGED <<day, latest, all, consumed, rows, scan>>
  /\ UNCHANGED <<live, follow, clicks>>

(* The fetch is back on the main actor. *)
FetchDone ==
  /\ fetch.at = "answered"
  /\ live' = fetch.got
  /\ fetch' = NoFetch
  /\ IF fetch.first
     THEN ReloadDays(0, fetch.got)
     ELSE /\ StartScan(day, latest, all, fetch.got, consumed, FALSE,
                       live # {} \/ fetch.got # {})
          /\ UNCHANGED <<day, latest, all, consumed>>
  /\ UNCHANGED <<follow, clicks>>

(* Mutant: a scan of the day before is taken for one of this day. *)
ScanDoneAnyDay ==
  /\ scan.at = "read"
  /\ scan' = NoScan
  /\ all' = IF scan.reset THEN scan.got ELSE all \o scan.got
  /\ consumed' = scan.upto
  /\ IF scan.reset \/ scan.got # <<>> \/ scan.relist
     THEN ApplyFilter(day, latest, all', live) ELSE UNCHANGED rows
  /\ UNCHANGED <<day, latest, live, fetch, follow, clicks>>

(* `apply`: a scan of another day is ignored, one without news changes little. *)
ScanDone ==
  /\ scan.at = "read"
  /\ scan' = NoScan
  /\ IF scan.day # day
     THEN UNCHANGED <<all, consumed, rows>>
     ELSE /\ all' = IF scan.reset THEN scan.got ELSE all \o scan.got
          /\ consumed' = scan.upto
          /\ IF scan.reset \/ scan.got # <<>> \/ scan.relist
             THEN ApplyFilter(day, latest, all', live) ELSE UNCHANGED rows
  /\ UNCHANGED <<day, latest, live, fetch, follow, clicks>>

Click == clicks < MaxClicks /\ clicks' = clicks + 1

(* The user picks a day of the menu, presses refresh, or ticks the box, which *)
(* is a tick of the timer as well when it is set.                            *)
PickDay(d) ==
  /\ Click
  /\ d \in made /\ d <= latest
  /\ ReloadDays(d, live)
  /\ UNCHANGED <<live, fetch, follow>>

Refresh ==
  /\ Click
  /\ ReloadDays(day, live)
  /\ UNCHANGED <<live, fetch, follow>>

ToggleFollow ==
  /\ Click
  /\ follow' = ~follow
  /\ UNCHANGED <<day, latest, all, consumed, live, rows, scan, fetch>>

--------------------------------------------------------------------------------
(* The other processes and the detached task. *)

(* feed.rs answers with the list as it is now. *)
FeedAnswers ==
  /\ fetch.at = "asked"
  /\ fetch' = [fetch EXCEPT !.at = "answered", !.got = inflight]
  /\ UNCHANGED <<day, latest, all, consumed, live, rows, scan, follow, clicks>>

(* No daemon listens, or it takes more than a second: an empty list. *)
FeedSilent ==
  /\ Fault
  /\ fetch.at = "asked"
  /\ fetch' = [fetch EXCEPT !.at = "answered", !.got = {}]
  /\ UNCHANGED <<day, latest, all, consumed, live, rows, scan, follow, clicks>>
  /\ UNCHANGED <<today, stage, end, done, inflight, made, file, writer, writing,
                 outcome, failed>>

(* Mutant: the half line at the end counts as read. *)
LastLineAll(text, from) == Len(text)

(* The end of the last whole line: what follows is left for the next scan. *)
LastLine(text, from) ==
  LET ends == {i \in DOMAIN text : i > from /\ text[i].last}
  IN IF ends = {} THEN from ELSE CHOOSE i \in ends : \A j \in ends : j <= i

(* `TrafficReader.scan` reads to the end of the file, which only grows. *)
ScanReads ==
  LET text == file[scan.day] IN
  /\ scan.at = "asked"
  /\ scan' = [scan EXCEPT !.at = "read", !.got = Records(text, scan.from),
                          !.upto = LastLine(text, scan.from)]
  /\ UNCHANGED <<day, latest, all, consumed, live, rows, fetch, follow, clicks>>

ViewNext ==
  \/ Tick \/ FetchDone \/ ScanDone
  \/ \E d \in Day : PickDay(d)
  \/ Refresh \/ ToggleFollow
  \/ FeedAnswers \/ ScanReads

Next ==
  \/ LogNext /\ UNCHANGED viewVars
  \/ ViewNext /\ UNCHANGED logVars
  \/ FeedSilent

Spec == Init /\ [][Next]_vars

--------------------------------------------------------------------------------

(***************************************************************************)
(* feed.rs "交接瞬间不丢不重", the second half: no exchange is shown       *)
(* twice, be it as pending and as recorded or as recorded by two scans.    *)
(***************************************************************************)
ShownOnce ==
  /\ rows.pending \cap Range(rows.recorded) = {}
  /\ IsInjective(rows.recorded) /\ IsInjective(all)

(* What a scan of the whole file up to `consumed` finds. *)
ReadSoFar == Records(SubSeq(file[day], 1, consumed), 0)

(***************************************************************************)
(* The index holds records of the selected day only, and none that lies    *)
(* beyond the position the next scan starts from, whatever days were       *)
(* picked while a scan was under way.                                      *)
(***************************************************************************)
IndexOfDay ==
  IF day = 0 THEN all = <<>>
  ELSE consumed <= Len(file[day]) /\ Range(all) \subseteq Range(ReadSoFar)

(***************************************************************************)
(* "尾部未换行的半行留给下一次": while the user leaves the day alone, the  *)
(* index has every record up to that position, in the file's order, though *)
(* it is read while lines are being written.                               *)
(***************************************************************************)
IndexFollows == clicks = 0 /\ day # 0 => all = ReadSoFar

(* The table shows the day's file as far as it has been read.                *)
IndexRight == IndexOfDay /\ IndexFollows

(***************************************************************************)
(* The log keeps TrafficLog's promise while it is read: each exchange that *)
(* ended is readable in the file of its day from one moment on and in the  *)
(* list until then, and a failure costs the exchanges it met and at most   *)
(* the next one of the day whose text it tore (reqlog.rs:336 and 576).     *)
(* This is Log!Spec, with the steps that leave the log alone named.        *)
(***************************************************************************)
LogSpec == Log!Init /\ [][UNCHANGED logVars \/ Log!Next]_(Log!vars)
================================================================================
