--------------------------------- MODULE DayFiles ---------------------------------
(***************************************************************************)
(* src/reqlog.rs, the names of the day files and what `logs` reads of them *)
(* from the end.  Time is counted in minutes; a text is a sequence of      *)
(* marks, 0 for the end of a line.                                         *)
(***************************************************************************)
EXTENDS Integers, Sequences, SequencesExt

TZ_OFFSET == 9 * 60
DAY == 24 * 60

(* Mutant: a century is a leap year like any other. *)
YearOfEraNoCentury(doe) == (doe - doe \div 1460) \div 365

YearOfEra(doe) == (doe - doe \div 1460 + doe \div 36524 - doe \div 146096) \div 365

CivilFromDays(days) ==
  LET z == days + 719468
      era == z \div 146097  \* rounds down, as the code makes `/` do
      doe == z - era * 146097
      yoe == YearOfEra(doe)
      doy == doe - (365 * yoe + yoe \div 4 - yoe \div 100)
      mp == (5 * doy + 2) \div 153
      m == IF mp < 10 THEN mp + 3 ELSE mp - 9
  IN [y |-> yoe + era * 400 + (IF m <= 2 THEN 1 ELSE 0), m |-> m,
      d |-> doy - (153 * mp + 2) \div 5 + 1]

Parts(time) ==
  LET local == time + TZ_OFFSET
      rem == local % DAY
  IN [day |-> CivilFromDays(local \div DAY), hour |-> rem \div 60, minute |-> rem % 60]

--------------------------------------------------------------------------------

(* `split`: what stands between the line ends, empty pieces included. *)
Split(segs, c) ==
  IF c = 0 THEN Append(segs, <<>>) ELSE [segs EXCEPT ![Len(segs)] = Append(@, c)]

(* What the first k marks are split into. *)
SplitUpTo(text) ==
  LET split[k \in 0..Len(text)] == IF k = 0 THEN <<<<>>>> ELSE Split(split[k - 1], text[k])
  IN split

Segments(text) == SplitUpTo(text)[Len(text)]

(* An empty piece is no line. *)
Whole(segs) == FlattenSeq([k \in DOMAIN segs |-> IF segs[k] = <<>> THEN <<>> ELSE <<segs[k]>>])

LastLines(lines, n) ==
  SubSeq(lines, IF Len(lines) > n THEN Len(lines) - n + 1 ELSE 1, Len(lines))

(* Mutant: a line that begins in an earlier chunk is cut there. *)
ReadChunkCut(got, chunk, want) ==
  [got EXCEPT !.pos = @ - Len(chunk), !.head = <<>>,
              !.lines = LastLines(Whole(Segments(chunk)), want - Len(@)) \o @]

(* The piece before the first line end may have begun in an earlier chunk *)
(* and waits for it.                                                      *)
ReadChunk(got, chunk, want) ==
  LET segs == Segments(chunk \o got.head)
  IN [got EXCEPT !.pos = @ - Len(chunk), !.head = Head(segs),
                 !.lines = LastLines(Whole(Tail(segs)), want - Len(@)) \o @]

(* One turn of the loop. *)
ReadTurn(got, text, want, size) ==
  IF got.pos = 0 \/ Len(got.lines) >= want THEN got
  ELSE LET from == IF got.pos > size THEN got.pos - size ELSE 0
       IN ReadChunk(got, SubSeq(text, from + 1, got.pos), want)

(* What k turns have read; there are no more of them than marks. *)
ReadBack(text, want, size) ==
  LET read[k \in 0..Len(text)] ==
        IF k = 0 THEN [pos |-> Len(text), head |-> <<>>, lines |-> <<>>]
        ELSE ReadTurn(read[k - 1], text, want, size)
  IN read

TailLines(text, want, size) ==
  LET end == ReadBack(text, want, size)[Len(text)]
  IN IF end.pos = 0 /\ Len(end.lines) < want /\ end.head # <<>> THEN <<end.head>> \o end.lines
     ELSE end.lines

(* print_tail: the newest file first, until there are enough lines; a file  *)
(* that cannot be read is passed over.                                      *)
PrintDay(lines, files, i, unreadable, n, size) ==
  IF Len(lines) >= n \/ i \in unreadable THEN lines
  ELSE TailLines(files[i], n - Len(lines), size) \o lines

(* What the last k days give. *)
PrintBack(files, unreadable, n, size) ==
  LET print[k \in 0..Len(files)] ==
        IF k = 0 THEN <<>>
        ELSE PrintDay(print[k - 1], files, Len(files) - k + 1, unreadable, n, size)
  IN print

PrintTail(files, unreadable, n, size) == PrintBack(files, unreadable, n, size)[Len(files)]
================================================================================
