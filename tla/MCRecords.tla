--------------------------------- MODULE MCRecords ---------------------------------
(***************************************************************************)
(* The functions of Digest, DayFiles and TokenReply over inputs that grow  *)
(* by one step: a stream by a frame, a date by a day, the day files by a   *)
(* mark, a credential by a refresh.  `about` says which of them is at      *)
(* hand, so that the inputs do not multiply.                               *)
(***************************************************************************)
EXTENDS Digest, DayFiles, TokenReply

CONSTANTS MaxDays,      \* from each of the first days
          MaxMarks,     \* in the day files
          MaxFrames,    \* of a stream
          Value         \* what the token endpoint tells, one for each refresh

(* An empty text counts as none. *)
Missing(val) == val \in {"none", ""}

ASSUME ValueAssumption == \A val \in Value : ~Missing(val)

VARIABLES about, input

(* The epoch, and a leap year of a century and one that is none. *)
FirstDays ==
  {[first |-> 0, date |-> [y |-> 1970, m |-> 1, d |-> 1]],
   [first |-> 10592, date |-> [y |-> 1999, m |-> 1, d |-> 1]],
   [first |-> 47117, date |-> [y |-> 2099, m |-> 1, d |-> 1]],
   [first |-> 156680, date |-> [y |-> 2398, m |-> 12, d |-> 23]]}

LoggedIn == [access_token |-> "token", refresh_token |-> "login", expires_at |-> 0,
             account |-> "login", account_id |-> "none", plan |-> "none"]

RecordInit ==
  \/ about = "date" /\ \E day \in FirstDays :
       input = [first |-> day.first, walked |-> 0, date |-> day.date]
  \/ about = "tail" /\ input = <<<<>>>>
  \/ about = "stream" /\ \E provider \in {"anthropic", "codex"} :
       input = [provider |-> provider, frames |-> <<>>, truth |-> NoTokens, over |-> FALSE]
  \/ about = "credential" /\ \E provider \in {"anthropic", "codex"} :
       input = [provider |-> provider, now |-> 0, told |-> {}, cred |-> LoggedIn, given |-> LoggedIn]

--------------------------------------------------------------------------------

Leap(y) == y % 4 = 0 /\ (y % 100 = 0 => y % 400 = 0)
LastOf(y, m) == CASE m = 2 -> IF Leap(y) THEN 29 ELSE 28
                  [] m \in {4, 6, 9, 11} -> 30
                  [] OTHER -> 31

NextDay ==
  /\ about = "date" /\ input.walked < MaxDays
  /\ LET date == input.date
     IN input' = [input EXCEPT
          !.walked = @ + 1,
          !.date = IF date.d < LastOf(date.y, date.m) THEN [date EXCEPT !.d = @ + 1]
                   ELSE IF date.m < 12 THEN [date EXCEPT !.m = @ + 1, !.d = 1]
                   ELSE [y |-> date.y + 1, m |-> 1, d |-> 1]]
  /\ UNCHANGED about

Marks == Len(FlattenSeq(input))

Write ==
  /\ about = "tail" /\ Marks < MaxMarks
  /\ \E c \in {0, Marks + 1} : input' = [input EXCEPT ![Len(input)] = Append(@, c)]
  /\ UNCHANGED about

NewFile ==
  /\ about = "tail" /\ Len(input) < 3
  /\ input' = Append(input, <<>>)
  /\ UNCHANGED about

--------------------------------------------------------------------------------
(* The stream of an answer; `truth` is what the provider has counted.        *)

Sent(provider, frame, truth, over) ==
  /\ about = "stream" /\ input.provider = provider
  /\ ~input.over /\ Len(input.frames) < MaxFrames
  /\ input' = [input EXCEPT !.frames = Append(@, frame), !.truth = truth, !.over = over]
  /\ UNCHANGED about

Begun == about = "stream" /\ input.frames # <<>>

Cached == {"cache_read", "cache_creation"}

(* A usage of Anthropic's, which counts what it has cached beside the input. *)
Counted(t, keys) ==
  [key \in keys |-> CASE key = "input_tokens" -> t.input - t.cached - t.cache_write
                     [] key = "cache_read" -> t.cached
                     [] key = "cache_creation" -> t.cache_write
                     [] key = "output_tokens" -> t.output]

(* It may leave out what is zero. *)
Starts ==
  \E new, read, write, output \in 0..2, told \in SUBSET Cached :
    LET truth == Tokens(new + read + write, output, read, write)
        usage == Counted(truth, told \cup {"input_tokens", "output_tokens"})
    IN /\ ~Begun
       /\ read > 0 => "cache_read" \in told
       /\ write > 0 => "cache_creation" \in told
       /\ Sent("anthropic", Frame("message_start", <<usage>>, <<>>, "none"), truth, FALSE)

(* The output is counted anew, the rest may be said again. *)
Counts ==
  /\ Begun
  /\ \E more \in 0..1, last, again \in BOOLEAN :
       LET truth == [input.truth EXCEPT !.output = @ + more]
           rest == IF again THEN Cached \cup {"input_tokens"} ELSE {}
           usage == Counted(truth, rest \cup {"output_tokens"})
       IN Sent("anthropic", Frame("message_delta", <<usage>>, <<>>, "none"), truth, last)

Creates ==
  /\ about = "stream" /\ ~Begun
  /\ Sent("codex", Frame("created", <<>>, <<"null">>, "none"), NoTokens, FALSE)

(* A frame that has neither, or only speaks of an error or of usage. *)
Speaks ==
  /\ Begun
  /\ \E kind \in {"text", "garbled"} :
       Sent(input.provider, Frame(kind, <<>>, <<>>, "none"), input.truth, FALSE)

(* A usage of Codex's: the input has what is cached. *)
Summed(t, keys) ==
  [key \in keys |-> CASE key = "input_tokens" -> t.input
                     [] key = "output_tokens" -> t.output
                     [] key = "cached_tokens" -> t.cached
                     [] key = "cache_write_tokens" -> t.cache_write]

Completes ==
  /\ Begun
  /\ \E new, read, write, output \in 0..2, told \in SUBSET {"cached_tokens", "cache_write_tokens"} :
       LET truth == Tokens(new + read + write, output, read, write)
           usage == Summed(truth, told \cup {"input_tokens", "output_tokens"})
       IN /\ read > 0 => "cached_tokens" \in told
          /\ write > 0 => "cache_write_tokens" \in told
          /\ Sent("codex", Frame("completed", <<usage>>, <<"null">>, "none"), truth, TRUE)

(* Either provider's error, or Codex's that has no envelope of its own. *)
Fails ==
  /\ Begun
  /\ \E bare \in BOOLEAN :
       /\ bare => input.provider = "codex"
       /\ Sent(input.provider, Frame("error", <<>>, IF bare THEN <<>> ELSE <<"overloaded">>,
                                     "overloaded"), input.truth, TRUE)

--------------------------------------------------------------------------------
(* A refresh; `given` has the last value of each field that was ever told.   *)

Least(end) == IF end > MaxSeconds THEN MaxSeconds ELSE end

RefreshOnce ==
  /\ about = "credential" /\ input.told # Value
  /\ \E fields \in SUBSET {"refresh_token", "account", "account_id", "plan"},
        told, signed \in BOOLEAN, life \in {100, 4900}, later \in {0, 1000} :
       LET value == CHOOSE val \in Value : val \notin input.told
           now == input.now + later
           field(f) == IF f \in fields THEN value ELSE "none"
           reply == [access_token |-> value, refresh_token |-> field("refresh_token"),
                     account |-> field("account"), account_id |-> field("account_id"),
                     plan |-> field("plan"), expires_in |-> IF told THEN life ELSE -1,
                     exp |-> IF signed THEN Least(now + life) ELSE -1]
           known == told \/ (signed /\ input.provider = "codex")
           end == IF known THEN now + life ELSE now + 3600
       IN /\ input.provider = "anthropic" => "plan" \notin fields
          /\ input' = [input EXCEPT
               !.now = now,
               !.told = @ \cup {value},
               !.cred = Refreshed(input.provider, @, reply, now),
               !.given = [f \in DOMAIN @ |->
                 CASE f = "expires_at" -> Least(end)
                   [] f = "access_token" \/ f \in fields -> value
                   [] OTHER -> input.given[f]]]
  /\ UNCHANGED about

RecordNext == NextDay \/ Write \/ NewFile \/ Starts \/ Counts \/ Creates \/ Speaks \/ Completes
              \/ Fails \/ RefreshOnce

--------------------------------------------------------------------------------

(* A day file bears the date of the calendar: at the first minute of a local *)
(* day and at its last one alike (reqlog.rs:745).                            *)
DateFollows ==
  about = "date" =>
    LET midnight == (input.first + input.walked) * DAY - TZ_OFFSET
    IN /\ Parts(midnight) = [day |-> input.date, hour |-> 0, minute |-> 0]
       /\ Parts(midnight + DAY - 1) = [day |-> input.date, hour |-> 23, minute |-> 59]

(* The lines of a text by where they end: each begins behind a line end. *)
EndsLine(text, i) == text[i] # 0 /\ (i < Len(text) => text[i + 1] = 0)
BeginsAt(text, b, i) == (\A k \in b..i : text[k] # 0) /\ (b > 1 => text[b - 1] = 0)
LineTo(text, i) == SubSeq(text, CHOOSE b \in 1..i : BeginsAt(text, b, i), i)
LinesAt(text, i) == IF EndsLine(text, i) THEN <<LineTo(text, i)>> ELSE <<>>
TextLines(text) == FlattenSeq([i \in DOMAIN text |-> LinesAt(text, i)])

(* `logs -n` prints the last n lines of all day files that can be read, each *)
(* whole and in their order, wherever the chunks break (reqlog.rs:700).      *)
TailIsLast ==
  about = "tail" =>
    \A n \in 1..3, chunk \in 1..3, unreadable \in SUBSET DOMAIN input :
      LET all == FlattenSeq([k \in DOMAIN input |->
                   IF k \in unreadable THEN <<>> ELSE TextLines(input[k])])
          last == IF Len(all) > n THEN n ELSE Len(all)
      IN PrintTail(input, unreadable, n, chunk) = SubSeq(all, Len(all) - last + 1, Len(all))

(* The log's files are named for the day and read back right from the end.   *)
LogFilesRight == DateFollows /\ TailIsLast

(* Whichever way an answer goes to the client, the line of the log counts    *)
(* what the provider counted: the cache with the input, each token once,     *)
(* though it was told of in several frames (reqlog.rs:481); the chat client  *)
(* is told the same (anthropic.rs:275), but for what was written to the      *)
(* cache.  The error of a stream is said in every form, but for Codex's own  *)
(* error event in its native stream, which `error_text` does not know.       *)
CountedRight(provider, frames, truth) ==
  LET end == frames[Len(frames)]
      failed == end.kind = "error"
      status == IF failed THEN 502 ELSE 200
      native == DigestOf(200, frames)
      chat == DigestOf(status, ChatFrames(provider, frames))
      responses == DigestOf(status, ResponsesFrames(frames))
  IN /\ native.tokens = truth
     /\ failed => /\ chat.error = "overloaded" /\ responses.error = "overloaded"
                  /\ native.error = IF end.errors = <<>> THEN "none" ELSE "overloaded"
     /\ ~failed => /\ native.error = "none" /\ chat.error = "none"
                   /\ chat.tokens = [truth EXCEPT !.cache_write = 0]
                   /\ provider = "codex" => responses = native

UsageCounted ==
  about = "stream" /\ input.over => CountedRight(input.provider, input.frames, input.truth)

(* Through any number of refreshes the credential has the last value that    *)
(* the provider gave of each field, never an empty refresh token, and lasts  *)
(* as long as the provider said in either place, within the range of the     *)
(* clock (oauth.rs:82 and 238).                                              *)
CredentialKept == about = "credential" => input.cred = input.given
================================================================================
