# jj-agentic-proxy in TLA+

The proxy lends the subscriptions of two command-line tools (Claude Code and Codex)
to any client that speaks the Anthropic or the OpenAI protocol. One Rust daemon
listens on one port; command-line processes log in, log out and control it; a macOS
viewer shows the traffic it records. This directory models that system, checks the
models with TLC and, with TLAPS, proves the main facts about the credential file, the token
refresh, the login, the client versions, the model list, the daemon, the request log, its viewer,
the conversion of answers, and the functions that make of a client's request an upstream one.

Paths below are under `src/`; `reqlog.rs:337` means `src/src/reqlog.rs`, line 337.

## 1. The system

| Part | State it keeps | Operations | Talks to |
|---|---|---|---|
| credential store `store.rs` | `auth.json`, its lock file, a temporary file per process, `RMW_LOCK` per process | `load` (no lock), `put`, `remove`, the move of the directory of earlier versions | everybody who needs a credential; all processes share the file |
| credential manager `auth.rs` | per provider a slot behind a tokio mutex, a refresh task, `refresh-<provider>.lock` | `token`, `snapshot`, `set`, the refresh | store, token endpoint |
| upstream calls `passthrough.rs` | per request: attempt, rejected token | routing, body and header rewriting, up to three attempts, relaying, error envelopes | credential manager, upstream APIs |
| router and model list `server.rs` | none / the list under way | dispatch, `listed` with its 5 s limit, the release probe | all of the above |
| client versions `provider.rs`, `main.rs` | a cached version and a learned release, each behind a std mutex; the probe's backoff | `codex_cli_version`, `learn_codex_latest` | local CLI's files, GitHub |
| chat conversion `convert/`, `sse.rs` | per stream: byte buffer, map of tool calls, the answer so far | build the upstream request, translate its event stream, collect it | upstream calls, client |
| request log `reqlog.rs`, `feed.rs` | exchanges in flight, the open day file, one `Record` per exchange | start, capture, flush, drop, append; tail of the files; the list over HTTP | every request; the viewer |
| daemon control `daemon.rs` | `daemon.pid` with its flock and ready mark, `daemon.log` | `acquire`, `mark_ready`, `start`, `stop`, `status` | the kernel: flock, signals, processes |
| login `oauth.rs` | a callback listener for five minutes | the login of each provider, exchange and refresh of tokens | browser, token endpoint, store |
| viewer `MainViewController.swift`, `TrafficReader.swift`, `LiveFeed.swift` | day on display, index, position in the file, list in progress, table | tick, scan, reload, pick a day | day files, `feed.rs` |
| viewer's other windows, packaging scripts | layout only | | |

### What is hard in it, and what makes each part correct

- **Credential store.** Threads and processes read, change and write back one file, and
  may die or fail at every step. Correct: no update is lost, the file always parses (the
  reads take no lock), every lock is given back, and `put`/`remove` are atomic to their
  callers.
- **Credential manager and upstream calls.** A refresh token can be spent once. Two
  processes find it stale together; clients hang up; replies are lost; a 401 and a
  transient failure may alternate; the user logs in meanwhile. Correct: no refresh token is
  presented twice, its successor reaches the disk, no rejected or expired token goes out,
  and every request ends.
- **Client versions.** Two mutexes, taken in one order by readers and in the other by the
  probe, and a value computed before it is stored.
- **Daemon control.** The same flock says that a daemon lives and is taken by whoever asks;
  the pid is written in two steps; signals go to what was read. Correct: one instance,
  "started" means listening, "stopped" means gone, every command ends.
- **Model list.** Two providers are asked on one task, each with a limit around it that may
  strike anywhere, while a mutex held elsewhere stops both. Correct: the client has its
  answer in time, and what the log keeps of the upstream belongs together.
- **Login.** The browser opens connections that say nothing, come late or in parts, or carry the
  state of another login; the command before it moved a directory under a daemon that still uses
  it. Correct: a callback in time counts, the moved token stays usable.
- **Request log and viewer.** Exchanges end in many ways, exactly once each; the append is
  before the deregistration; the viewer reads both in its own order, around midnight,
  while it may be told to show another day.
- **Chat conversion.** Chunks are cut anywhere, a tool call is told of in up to three ways,
  and three loops read the same stream; a stream that broke off must not look complete.
- **Functions.** Conversations in any order of roles and options in any mix become two formats
  with stricter rules; headers are replaced, merged and dropped; attempts end at three,
  at one 401 and at a long `Retry-After`; tokens are counted from pieces, and twice; the date is
  computed by hand; the log is read backwards in chunks.

`PROJECT.json` lists the hazards line by line.

## 2. Modules

| Module | Models | Correspondence |
|---|---|---|
| `CredentialStore` | what the store promises: a map that clients ask to change, atomically, and that survives a crash as of some moment between its last two settlings | abstract: `Perform` is the moment of a `put`/`remove`, `Refuse` its error |
| `AuthStore` | `store.rs:99-204` | one action per system call of `update` and `save`, each with its error path; `ProcessOf` places threads in processes; `Crash` ends a process, which drops its locks and leaves its temporary file; `PowerFailure` leaves of every file what had been synced |
| `AuthStoreProofs` | | theorems about `AuthStore` |
| `TokenRefresh` | `auth.rs`, the loop of `passthrough.rs:327-405`, `server.rs:186-204`, login and logout | `auth.json` is one atomic entry here, as `AuthStore` justifies. `GetToken` is `token` up to the lock or the task; the task is `LockAndReload`, `Exchange`, `Save`; a request's answers are `Unauthorized`, `Transient`, `Replied`. `HangUp` drops the request's future, but not the spawned task |
| `TokenRefreshProofs` | | theorems about `TokenRefresh` |
| `Callback` | `oauth.rs:337-430`, the listener of a login | a thread accepts, the loop takes one connection and reads its line. The line of a `slow` connection is not there yet: `Handle` is its end, `PartArrives` a part of it, after which `ReadLimit`, the limit of one `read()`, starts again, and `GiveUp` a read that brought nothing; `Deadline` is looked at between two connections |
| `Login` | extends `Callback` with `main.rs` `main`, `store.rs` `migrate_legacy`, the login command | the directories of both names, the old daemon, the tokens the provider still exchanges; `excuse` is a history variable: which of the cases the code does not prevent has happened |
| `LoginProofs` | | theorems about `Login` |
| `ModelList` | `server.rs:186-279` and the leg of `reqlog.rs:241-300` | a branch per provider walks through the attempt loop; a stage is the await the branch is at; `TimedOut` drops the branch there |
| `ModelListProofs` | | theorems about `ModelList` |
| `VersionCache` | `provider.rs:166-241`, `server.rs:286-326`, `main.rs:142-173` | each mutex has a holder; a reader is `LockCache`, `CloneLearned`, `Compute`; the probe is `Wake`, a read, `Told` or `Failed`, `LockLearned`, `Clear` |
| `UpstreamProofs` | | theorems about what goes upstream and what is kept of the answer: `VersionCache`, and the functions that `MCFunctions` and `MCRecords` put together (`ChatRequest` to `TokenReply`) |
| `Daemon` | `daemon.rs:41-216` and the part of `main.rs` that serves | a command is a small program over `state`; `why` is the call of `state` it is in |
| `DaemonProofs` | | theorems about `Daemon` |
| `TrafficLog` | what the log promises: a list of what is in progress and a book per day, in which an ended exchange is entered at one moment, once | abstract: `Enter` is the end of an `append`, `Omit` its error, `Stop` the end of the daemon |
| `RequestLog` | `reqlog.rs:191-399`, `565-600` | an exchange goes from `open` over `flush` to `gone`, or `lost` with the process; a line is two pieces, as a write may be cut |
| `RequestLogProofs` | | theorems about `RequestLog` and `TrafficViewer`, stated of `TrafficViewer`'s `Spec`, in which the log runs, that the log implements `TrafficLog`, and about `DayFiles`: the dates of the files and what `logs` reads of them |
| `TrafficViewer` | extends `RequestLog` with the viewer | main-actor handlers are single actions, the detached scan and the fetch are two each (asked, done) |
| `ChatStream` | `sse.rs`, both translators, the three loops of `convert/mod.rs` | an event is two pieces of bytes; a text is the number of the event that brought it, so loss, doubling and reordering show. `Receive` pushes a chunk, `NextEvent` is one turn of the inner loop (decode, translate, tell every delta, leave if it is over), `Broken` and `EndOfBody` leave from the outer one |
| `ChatStreamProofs` | | theorems about `ChatStream` |
| `ChatRequest` | `request` of both converters: the conversation | what the loop over the messages has made after each of them |
| `ChatOptions` | the same: limits, thinking, tools, formats | a request and a body are functions from their keys |
| `Passthrough` | `strip_v1`, `surface_for`, `route`, `resolve`, `prepare_body`, `inject_claude_code_prefix`, `normalize_codex` | a path is its segments, a body a function from its keys |
| `Exchange` | `handle`: decompression, headers up and down, the attempts as a function of the replies, error envelopes | headers are functions from names to the sequence of their lines |
| `Digest` | `reqlog.rs` `digest` and the usage both converters make of the same stream | a frame has the usages and errors in the order the code looks for them |
| `TokenReply` | `oauth.rs`: what becomes of a reply of a token endpoint | a field that is missing or null, or a claim of a JWT of a wrong type, is `"none"`; a reply with a field of a wrong type does not parse, which is a refresh that failed (`TokenRefresh`); `saturating_add` is `Plus` |
| `DayFiles` | `parts`, `civil_from_days`, `tail_lines`, `print_tail` | time in minutes; the chunk size is a parameter |
| `MC*` | | instances for TLC; `MCRecords` and `MCFunctions`, which extends it, state what the function modules (`ChatRequest` to `DayFiles`) must satisfy |

`TrafficViewer` composes the log and the viewer by EXTENDS: its `Next` is a step of the log
or a step of the viewer that reads the log's variables. `Login` composes the listener and the
commands in the same way; `ModelList` and `Login` leave to `TokenRefresh`, `VersionCache` and
`Daemon` what those show of a refresh, of the version and of `stop`. `AuthStore` is connected to
`CredentialStore` by `INSTANCE CredentialStore WITH Client <- Thread, store <- auth.text,
settled <- durable.text`, and `TokenRefresh` builds on that abstraction. `RequestLog` is connected to
`TrafficLog` by an `INSTANCE` too: in progress are the exchanges in flight, a book has the records that
can be read from the file, and it is torn if the file ends in a beginning whose writer is gone.

Names of the code are kept where TLA+ allows it. Definitions introduced by the comment
"Mutant:" are plausible mistakes; substituting one for the definition after it must
break the property `PROJECT.json` names.

## 3. Checks

| Run | Question | Instance | States |
|---|---|---|---|
| `store` | do locks, temporary file and rename make an atomic, readable map? | two daemon threads and a CLI process, both providers, every error, crash and power failure | 1.9 M |
| `refresh` | is the refresh token kept, the rejected one not resent, the account right? | a request in each of two processes, a model list, two accounts, three tokens, three attempts | 3.6 M |
| `refresh_live` | does every request end? | one account, two tokens, two attempts, under fairness | 81 k |
| `refresh_undone` | *violated*: a login takes effect at once | as `refresh` | |
| `version` | is a learned release served, does the probe back off? | two readers, versions 1 to 3 | 67 k |
| `version_stuck` | *violated*: every probe comes to its end | one reader, under fairness | |
| `daemon` | one instance; started, stopped, the right process signalled; do commands end? | two concurrent commands, two daemons that crash anywhere | 233 k |
| `model_list` | in time, and with one leg? does it end? | both providers, three attempts, a limit of two ticks, one tick lost to mutexes; under fairness | 426 k |
| `login` | is a callback in time taken, the moved token usable? | deadline 3, read limit 2, three connections, one part; one other command, four tokens | 13.8 M |
| `traffic` | one whole line each, shown once, index as the file; does the log implement `TrafficLog`? | two exchanges, two days, one failure, one click | 4.6 M |
| `chat` | does the client have what the upstream said? | five events, two tool calls, chunks of up to three pieces, both providers, three loops | 5.9 M |
| `functions` | do requests and answers keep their meaning, are records right? | conversations of five messages, every set of options and body keys, paths of three segments after up to two `/v1`, up to three replies, four spells of 1500 days, eight marks in three files, four frames, three refreshes | 0.7 M |

What the properties say is written above each of them in the modules. Some are
conjunctions of named parts: `RecordedRight` (`OneLineEach`, `LinesWhole`), `IndexRight`
(`IndexOfDay`, `IndexFollows`), `ClientHasAnswer` (what was streamed, collected or made a
Responses object), `ConversationKept`, `RequestForwarded`, `ExchangeRight` (`HeadersRight`,
`AnswerRight`), `LogFilesRight` (`DateFollows`, `TailIsLast`).

**Bounds.** Two threads of one process and one of another are the least with both
kinds of exclusion in play (`RMW_LOCK` and the flock), and a third party waiting. Three tokens
let a refresh and a login follow the first; three attempts are the code's
`MAX_ATTEMPTS`. Two daemons and two commands let a second start overlap a stop. A limit of two ticks lets the first attempt fail and the second run out of time,
and one tick lost shows that only mutexes are lost to. Three connections are a slow one, one that
decides nothing and one that decides, in each order; the deadline is longer than the read limit, so that a
connection can be given up and another be read before it, and less than twice as long, so that two slow ones use it
up. One part that does not end a line is enough to start the limit again, before the deadline or after it; the
theorem is for any number. Four tokens are that of the old
directory, one the old daemon gets, one of a refresh and one of the login. Two days
give one midnight; two exchanges a neighbour for every line. Five events are enough for a text,
two calls told of partially and an end. The spells of days hold the leap
days of 2000 and 2400, the missing one of 2100, and the days at which an era of the algorithm ends
(29 February and 1 March of 2000 and 2400). All bounds are CONSTANTS, named where they are
declared; a bound that stands in a guard is marked "bound" there.

**Fairness.** Safety runs assume none. `refresh_live` assumes that answers come, good or bad
(the HTTP client has connect and read timeouts), that a running task continues, and that
waiters for tokio's mutex and for the flock get their turn (tokio's queue is first in first out, the
kernel wakes waiters of a file lock in order): strong fairness, because
others may take the lock in between. Nothing obliges a client to send or the user to log
in. `daemon` assumes that commands run and that a deadline is met however often the command polls
before it (the code compares with a fixed instant); no fairness is assumed of the daemon, which may keep
a stream open for ever and ignore SIGTERM. `model_list` assumes that time
passes, that a refresh ends (`refresh_live`), that the version is read (without the
deadlock of `version_stuck`) and that the slot is granted in turn; the upstream need not
answer a list, whose limit ends it, but for one model without a limit an answer or the read timeout of
the HTTP client comes. `version_stuck` assumes every mutex is granted
in turn, so that its counterexample is a real wait for each other and not starvation.

**Deadlock** is checked in `store`, `refresh`, `refresh_live`, `daemon`, `model_list`. It is off in
`version`, whose deadlock is what `version_stuck` shows as a temporary property of the probe and would
hide the rest, and in `login`, `traffic`, `chat` and `functions`, whose behaviours are
finite: every command is done, all exchanges are recorded, the answer is complete, the bound is reached.

### What the code does otherwise than it says

Each is a run with `expect: violation`, and a finding in `PROJECT.json`.

1. `auth.rs:90`: a refresh in flight overwrites a login or logout made meanwhile. Without
   one in flight `AccountFollowsLogin` holds.
2. `provider.rs:202`: the probe clears the cache while it holds the learned release; a
   reader takes the two mutexes in the opposite order; both wait for ever.

Seen while modelling, true of the models, without a run:

- `daemon.rs:154`: between truncation and writing the pid file parses as pid 0, and
  `stop` signals its own process group. `SignalsHolder` excludes the pid of no process.
- `MainViewController.swift:370`: a scan that was started before the user picked another day
  and came back to this one is added to the emptied index and skips what was before it. The one
  click of `traffic` cannot do that; two can.
- `reqlog.rs:271`: the leg is one per task. If both providers of a list are asked, the attempt
  recorded may be that of one and the answer that of the other; `LegTrue` excludes
  it. If the client hangs up, the leg is lost with the task.
- `oauth.rs:421`: ten seconds are the limit of one `read()`, and `read_line` makes as many as it takes. A
  connection that sends part of its line and no end holds the loop for another ten seconds, and one that goes on
  sending for as long as it likes, past the five minutes of `oauth.rs:64`: the deadline is looked at between two
  connections only, and a callback that waits in the channel may time out. A callback whose own line
  stalls is given up like a connection that says nothing. `CallbackTaken` therefore counts from the last part,
  and takes from each waiting callback's slack what the parts ahead of it have added.
- `main.rs` and `store.rs:77`: the move of the old directory spoils the token if the old daemon is in
  an exchange, begins one from memory before it is stopped, or a process dies before it saves.
  These are the three excuses of `TokenUsable`.
- `passthrough.rs:708`: of several `anthropic-beta` lines only the last goes up, and the
  beta of OAuth is not added if another's name contains its name.
- `reqlog.rs:127` says that errors in a stream are shown; a bare `error` event of Codex has its
  message where `error_text` does not look.
- `passthrough.rs` `normalize_error` lets an `error` object without a message through as it is.
- `MainViewController.swift:352`: the scan that should find a just-ended exchange is not started
  while another is under way, so until a later tick the exchange is on neither side
  (`reqlog.rs:336` says that never happens).
- `server.rs:195`: the model list reads the slot in memory, not the file: after a login by
  another process it stays empty until some request asks for a token.
- `daemon.rs:149`: a command that tests the flock is taken for a daemon by another command,
  and a starting daemon that meets the poll of its own `start` gives up.
- `reqlog.rs:578`: after a write that failed half-way the next record is glued to the torn
  text. `LinesWhole`, a part of `RecordedRight`, is about runs without a failure.
- `codex.rs:264`: a call that was added, had no argument parts and is done with all its arguments reaches a
  chat client without them ("已由 added + arguments.delta 覆盖" is taken for granted); `aggregate_responses` keeps
  them. `CodexSends` has the case, `CallArgs` what the chat client gets, and `PartsMissing` in `ResponsesWhole` the
  difference.
- `codex.rs:300`: argument parts of a call that was never added make a call without a name.
- `codex.rs:36`: a call without id that is never answered passes its made-up id on to the
  next result without one. `ConversationKept` is about conversations in which calls are answered,
  as the Chat API demands. The Anthropic side sends a null id on.
- `passthrough.rs:487` says that compressed bodies are unpacked at the entrance;
  `chat_completions` and `dispatch` read the body as it came.

## 4. Proofs

`AuthStoreProofs` proves, for any providers, credentials, threads and
processes, from `ThreadAssumption` (each thread belongs to a process) and
`TextAssumption` (a torn text is no map, "no request" is no request):

| Theorem | Says |
|---|---|
| `Invariance` | `Spec => []IInv` |
| `TypeCorrect` | `Spec => []TypeOK` |
| `NoLostUpdate` | `Spec => []NoStaleWrite` |
| `AlwaysReadable` | `Spec => []NeverTorn` |
| `MutualExclusion` | two threads between taking and releasing the flock are one |
| `Implementation` | `Spec => MapSpec`: `AuthStore` implements `CredentialStore` |

`NoStaleWrite` and `NeverTorn` are not inductive. A write is of the current map only if nobody else
can write between the read and the rename, so the invariant says who holds each lock by where
each thread is (`LocksHeld`); a rename publishes a whole text only if the temporary file holds
the writer's map and has been synced (`TmpReady`), and no other thread of the process touches that
file since its name is the pid's. `CallState` ties the answer to the place, which the refinement
needs: each step of `AuthStore` is a stutter of the map except the rename (or, for an absent entry, the
read), an error after it, the call, the return, a crash and the write-back. `Implementation` shows that the initial
states agree and every step is a step of the map or a stutter. TLC checks `MapSpec` in the run `store` too.

`DaemonProofs` proves, for any number of commands and daemons, from `DaemonAssumption`
(commands are no pids, a free flock has no holder):

| Theorem | Says |
|---|---|
| `Invariance` | `Spec => []DInv` |
| `TypeCorrect` | `Spec => []TypeOK` |
| `OneDaemon` | `Spec => []SingleInstance` |
| `StartIsTrue` | `Spec => []StartedIsServing` |
| `StopIsTrue` | `Spec => []StoppedIsGone` |
| `SignalIsMeant` | `Spec => []SignalsHolder` |

Each holding daemon is the one holder of the flock (`DaemonHolds`), hence `SingleInstance`. A
command that got the flock knows that no daemon has it (`CommandHolds`); with `Sound`,
which says that the daemon it found once had the flock and can only die (`Aged`), that daemon is
dead, hence `StoppedIsGone`. `Written` ties the file to a daemon that has held the flock and its
ready mark to one that has bound its ports, hence `StartedIsServing` and `SignalsHolder`. The
lemmas `CommandStep` and `DaemonOnward` say once what any
step of a command or of a daemon has to keep; one lemma per action applies them.

`TokenRefreshProofs` proves every safety property of the run `refresh`, for any requests,
processes, accounts, attempts and tokens, from `RefreshAssumption` (each request
belongs to a process, a free flock has no holder, the bounds are positive):

| Theorem | Says |
|---|---|
| `Invariance` | `Spec => [](CInv /\ KInv /\ WInv)` |
| `TypeCorrect` | `Spec => []TypeOK` |
| `TokenKept` | `Spec => []RefreshTokenKept` |
| `NothingReplayed` | `Spec => []NeverReplayed` |
| `SpendsCurrent` | `Spec => []RefreshesCurrent` |
| `AccountKept` | `Spec => []AccountFollowsLogin` |
| `NotResent` | `Spec => []RejectedNotResent` |
| `NotExpired` | `Spec => NoExpiredToken` |

The invariant has three layers, each inductive with those before it. `CInv`: every credential in a
file or in hand has been minted (`Numbered`), and a token ages only after that. `KInv`: a task past
the refresh lock is its holder (`Locked`), so only one process at a time can be in an exchange
or have its successor unsaved; that successor is live, new and of the same account (`Saving`). With both, the
token on disk is live, spoiled or being replaced by that one task, and what the task spends is the disk's. `WInv`: a request that awaits a
task waits for one that knows the token it was refused with (`Awaited`), so what it gets is another.

`LoginProofs` proves every property of the run `login`, for any commands, tokens and connections,
any parts of their lines, any deadline and any read limit, from `LoginAssumption` and `CallbackAssumption`:

| Theorem | Says |
|---|---|
| `Invariance` | `Spec => []MInv` |
| `CallbackInvariance` | `Spec => []CInv` |
| `TypeCorrect` | `Spec => []TypeOK` |
| `MoveKeepsToken` | `Spec => []TokenUsable` |
| `CallbackInTime` | `Spec => []CallbackTaken` |

Of the move (`MInv`), `Fresh` says that what a command is about to save is live
and nobody else's, `NotMoved` that the old daemon keeps its directory right while there is no
new one, `BeingStopped` that after the move a daemon that could spend the moved token has a command
waiting to stop it, which makes each exchange of it one of the excuses. Of the listener (`CInv`),
`Slack` says that each connection in the channel still has, beyond a read of each of the slow ones
before it, the slack that is left to it: taking a connection shortens that sum for all behind it by as much
as reading it may take from the time left, and a part of a line takes from their slack what it adds to the read.
`Overtime` says that what is left of the read under way and the time since the last part, after the deadline, come to a read limit at most.

`ModelListProofs` proves, for any providers, attempts and
limits, from `ListAssumption` (a provider's name is that of no mode, the limits are
positive):

| Theorem | Says |
|---|---|
| `Invariance` | `Spec => []LInv` |
| `TypeCorrect` | `Spec => []TypeOK` |
| `InTime` | `Spec => []ListInTime` |
| `LegIsTrue` | `Spec => []LegTrue` |

`ListInTime` follows from `Budget`: the age of a request and what a provider has left of its limit
differ by nothing but the time lost to a mutex. `LegTrue` follows from `LegHeld`: a provider that waits for
an answer waits for that to the attempt in the leg, if the leg is its own.

`RequestLogProofs` proves every property of the run `traffic`, for any exchanges, days, clicks and
failures, from `LogAssumption` and `ClickAssumption`, and of the run `functions` what is about the day files, for any texts:

| Theorem | Says |
|---|---|
| `Invariance` | `Spec => []LogInv` |
| `RecordsRight` | `Spec => []RecordedRight` |
| `NeverNowhere` | `Spec => []ListedOrRecorded` |
| `ViewInvariance` | `Spec => []VInv` |
| `TypeCorrect` | `Spec => []TypeOK` |
| `NeverTwice` | `Spec => []ShownOnce` |
| `IndexTrue` | `Spec => []IndexRight` |
| `Implementation`, `LogPromise` | `Spec => LogSpec`: the log implements `TrafficLog`, alone and under its viewer |
| `DateOfEveryDay` | for any day: the epoch, every date valid and followed by the next, every minute under its local day |
| `LastOfDays` | for any day files, number of lines and size of a chunk: `logs -n` prints the last n lines of those that can be read |
| `FilesRight` | `CaseSpec => []LogFilesRight` |

`Stages` relates the stage of an exchange to the list, the writer's mutex and the files; `Pieces` and
`Once` say that a piece in a file is of an exchange that has come so far and is there once; `Lines` says that
beginnings and ends alternate, and that a file ends with a beginning only while its writer has the mutex.
Of the viewer, `Indexed` says that the index is the records of one stretch of the file of the day on
display, and `Scanned` that a scan under way begins where that stretch ends, or was overtaken by
a change of day. Files only grow, and a stretch that ends at a line boundary keeps its records
while they do; what is in the index is recorded once (`Once`), so nothing is shown twice.
For the refinement, `Cut` says that the file the holder of the mutex writes to ends with the beginning of its
line, which the abstract book does not count. A step that writes a beginning is then a stutter, and the one that writes the end
is `Enter`: the record can be read exactly if no torn text stands before it.

For the dates, `DaySplit` counts a day of an era in centuries, four years, years and days, `Year` and
`Months` say that the code's divisions find the year and the month of such a count, and `Tomorrow` compares
a day with the next at each of the five ends there are: of a month, a year, four years, a century, an era.

`LastOfDays` rests on how splitting at line ends goes with joining: `SegmentsJoin` says that a text cut anywhere splits as a whole
does if the first piece behind the cut is put in front of it and split again, which is what `head` in the
code does. `ReadBackSoFar` is the invariant of the loop over the chunks: all lines behind the place it has come to are there,
but for that first piece, or there are enough. `ReadsOn` says that a turn keeps it and comes nearer to the
start, and `PrintLast` goes from the newest day to the oldest in the same way. What is split off are the lines by where they
end (`LinesAreSplit`), the definition the property uses. Inductions over a text
are stated of a set of texts (`SeqInduct`), as those over numbers are.

`ChatStreamProofs` proves every property of the run `chat`, for any number of events and
of tool calls and any cut of the bytes into chunks, from `ChatAssumption`:

| Theorem | Says |
|---|---|
| `Invariance` | `Spec => []CInv` |
| `TypeCorrect` | `Spec => []TypeOK` |
| `DoneRight` | `Spec => []DoneMeansWhole` |
| `AnswerRight` | `Spec => []ClientHasAnswer` |
| `NothingWaits` | `Spec => []NothingHeld` |

The properties speak of the end of an answer, or of the moment between two chunks, so the invariant
says what holds in between: some number of events has been handled (`Held`), the pieces that follow them
wait in the buffer (`Waits`), and what the loop has made of the handled ones is what they say
(`Follows`). `Tracks` says that for the loops that use a translator: its map has the calls in the order
they were announced (`Mapped`) and the answer so far is `Said` of the handled events; `Rebuilt` says it
for `aggregate_responses`. When the loop is left, `Owes` says what its client has. The events
are `Lawful`: each is one that the provider sends after those before it, so a call has arguments only after it was
announced, and a call of Codex that is announced again when it is done is known by then. The induction
over the places of a sequence that `Joined`, `Tell` and `Collected` need is stated of sets instead of
predicates (`Induct`), and `Recursion` says once that such a recursive function exists; every lemma about
them follows from those two.

`UpstreamProofs` proves both properties of the run `version`, for any readers, versions and intervals, from
`VersionAssumption` (the probe is no reader, the intervals and versions are ordered):

| Theorem | Says |
|---|---|
| `Invariance` | `Spec => []VInv` |
| `TypeCorrect` | `Spec => []TypeOK` |
| `NothingOlder` | `Spec => []LearnedIsServed` |
| `BacksOff` | `Spec => ProbeBacksOff` |

`LearnedIsServed` is not inductive: a reader may have copied the learned release and not yet
cached what it computes from it. `SeenIsLearned` says that its copy is the current one unless
the probe holds the learned release, and with `LocksHeld` the probe clears the cache only
when no reader is between copying and caching. `Backoff` bounds the wait, on
which the growth of the next one depends.

The module also proves the properties of the run `functions` but `LogFilesRight`, which is in `RequestLogProofs`, of its specification `CaseSpec` for any
values of its bounds, that is for a conversation, a stream or a credential's life of any length, from `MaxPrefixAssumption`, `ValueAssumption`
(what a provider tells is not empty) and `MaxSecondsAssumption`:

| Theorem | Says |
|---|---|
| `EndpointServed` | for any path, method, model and headers and any number of `/v1`: each endpoint goes to its provider under its official path, and nothing else does |
| `MessagesBody` | for any JSON object: what `prepare_body` makes of it for the Messages API, and that doing it twice is doing it once |
| `ResponsesBody` | the same for the Responses API |
| `Forwarded` | `CaseSpec => []RequestForwarded` |
| `HeadersSent` | for any headers: one line each, the proxy's credential and not the client's, the client's version and direct access, every beta of the last line once |
| `RetriesBounded` | for any replies: three attempts, one of them after a 401, sixteen seconds of waiting, and the last answer is the client's |
| `Exchanged` | `CaseSpec => []ExchangeRight` |
| `OptionsTold` | for any tools, schemas, names and limits: both APIs are told what the options mean |
| `OptionsKept` | `CaseSpec => []OptionsMeant` |
| `ConversationRight` | `CaseSpec => []ConversationKept` |
| `TokensCounted` | `CaseSpec => []UsageCounted` |
| `CredentialLasts` | `CaseSpec => []CredentialKept` |

`Stripped` finds the first segment that is not `v1`, `Prefixes` says what a prefix of one or two segments
is, and the rest of `EndpointServed` is the table of cases. `Normal` is what a body for Codex is, and a body that is
so is left alone. `Loop` is the invariant of the attempts, `OneTurn` that a turn keeps it, and `TriedEach` that the
recursive function `Tried` takes such turns. The specifications need invariants of their inputs only (`BodyInv`,
`HeadersInv`, `RepliesInv`, `OptionsInv`): which keys, lines, replies and options there can be.

`TokensCounted` is about a stream that grows. `Streamed` says of one under way that what the digest has found in
its frames (`FoundEach`) and what the translator has heard in them (`HeardEach`) is what the provider has counted so
far; each kind of frame keeps it, and in the end frames the two can differ in nothing but the cache writes. As above, the
induction over the frames is one over a set of their numbers (`Induct`).

`ConversationRight` is about a conversation that grows by a message, and has an invariant for each API. `Paired` is that of
Codex: the ids made up for calls without one fall, so they are new (`CallsTold`), those that wait are the ones of the calls
that have no result yet, in their order (`Waiting`), and each result so far has the id of its call (`ResultsTold`). `Alternating` and `Awaited` are that of the Messages API: turns alternate, the
results of a turn stand at its start, and there are no more of them than calls in the turn before. `AnthropicEach` and
`CodexEach` say that the recursive functions take one turn of the loop for each message, and `AnthropicLast` and `CodexLast`
what the last one adds; `FlattenGrown` says that a text put together from parts only grows with them.

Only model-checked: by nature the liveness properties (`EveryRequestEnds`, `EveryCommandEnds`, `ListEnds`, and
`ProbeGoesOn`, which the code breaks: fairness is beyond the prover). `LoginTakesEffect` is an invariant, but one
that the code breaks, so there is nothing to prove.

## 5. Not modelled

- The viewer's panes, search, menus and installer, and the packaging scripts: no
  state another part depends on, or run by hand one at a time.
- Names beginning with `anthropic-` are three: the betas and the two the proxy sets itself; any other passes
  as these two do. A `Retry-After` that is no number of seconds is one value, whatever it says.
- The layout of a log line and its summary, SSE framing of the answers, random ids, the authorize
  URLs, PKCE and the decoding of a JWT; images and the descriptions of tools, which are passed on as
  they are.
- The capped log (`daemon.rs:233-282`) and the printing of the command line.
- Networks and providers are only what they may answer. GitHub, the token
  endpoints, the upstream APIs, the kernel and the user are nondeterministic and marked
  `external` in the map.
- A pid is never used again, so a signal to a daemon that is gone reaches nobody.
- `auth.json` written by hand.

## 6. Plan

Order: what can lose a credential first, then what hangs, then what a client sees.

1. Done: store (with its abstraction) and the move of its directory, refresh, login, versions,
   model list, daemon, log (with its abstraction) and viewer, stream conversion, all functions of a request and
   its answer; the proofs listed above.
2. Next module: the capped log, with the daemon and a starting command as its two writers.
3. An abstract specification of the token source, that `TokenRefresh` implements, and the proof of it.
