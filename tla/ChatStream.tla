------------------------------- MODULE ChatStream -------------------------------
(***************************************************************************)
(* src/sse.rs, src/convert/: the answer of an upstream, which always       *)
(* streams, becomes the answer of another protocol.  The bytes arrive in   *)
(* chunks cut anywhere, a decoder puts events together, the translator of  *)
(* the provider makes deltas of them, and one of three loops makes an      *)
(* OpenAI stream, an OpenAI object or a Responses object of those.         *)
(*                                                                         *)
(* A text is a sequence of marks: a mark is the number of the event that   *)
(* brought it, so that nothing can be lost, doubled or moved unseen.       *)
(***************************************************************************)
EXTENDS Integers, Sequences, FiniteSets, Functions

CONSTANTS
  MaxEvents, \* bound: the events of one answer
  MaxItems,  \* bound: the tool calls of one answer
  MaxChunk   \* bound: the pieces of one chunk

ASSUME ChatAssumption ==
  MaxEvents \in Nat /\ MaxItems \in Nat /\ MaxChunk \in Nat \ {0}

VARIABLES
  prov,   \* the provider that answers
  mode,   \* which of the loops converts
  sent,   \* the events the upstream has sent
  taken,  \* how many pieces of them have been received
  conv,   \* the loop's variables
  open    \* the conversion goes on

vars == <<prov, mode, sent, taken, conv, open>>

Item == 1..MaxItems
Reasons == {"stop", "tool_calls", "length", "content_filter"}

(* A message_delta's kind is its stop_reason, "message_delta" without one. *)
Stops == {"end_turn", "tool_use", "max_tokens", "model_context_window_exceeded", "refusal"}
Good == {"completed", "length", "filtered"} \cup Stops
Bad == {"failed", "error"}

(* An event's item is 0 when it is about none. *)
Texts == Seq(Nat)
EventKinds == {"message_start", "text", "reasoning", "added", "args", "done", "said", "noise",
               "message_delta"} \cup Good \cup Bad
Events == [kind : EventKinds, item : 0..MaxItems, val : Texts]
Event(kind, item, val) == [kind |-> kind, item |-> item, val |-> val]
(* A delta, and the frame of the same shape that tells the client of it. *)
DeltaKinds == {"role", "text", "reasoning", "start", "args", "usage", "error", "[DONE]"} \cup Reasons
Deltas == [kind : DeltaKinds, at : {0} \cup 0..MaxItems - 1, val : Texts]
Delta(kind, at, val) == [kind |-> kind, at |-> at, val |-> val]

(* The places of the events of these kinds, of those about an item. *)
OfKind(es, kinds) == {k \in DOMAIN es : es[k].kind \in kinds}
OfItem(es, item) == {k \in DOMAIN es : es[k].item = item}
HasKind(es, kinds) == OfKind(es, kinds) # {}

(* The parts at the places `at`, one after the other. *)
Joined(parts, at) ==
  LET upTo[k \in 0..Len(parts)] ==
        IF k = 0 THEN <<>>
        ELSE IF k \in at THEN upTo[k - 1] \o parts[k]
        ELSE upTo[k - 1]
  IN upTo[Len(parts)]

Text(es, at) == Joined([k \in 1..Len(es) |-> es[k].val], at)
Kept(es, at) == Joined([k \in 1..Len(es) |-> <<es[k]>>], at)

--------------------------------------------------------------------------------
(* The translators.  `slots` is the map of items to positions in tool_calls, *)
(* next_index its length; `prompt` are the tokens of the question.           *)

NewTranslator == [slots |-> <<>>, prompt |-> <<>>]
SlotOf(tr, item) ==
  (CHOOSE k \in DOMAIN tr.slots :
     tr.slots[k] = item /\ \A j \in k + 1..Len(tr.slots) : tr.slots[j] # item) - 1
(* Mutant: the map is not looked at. *)
KnownNever(tr, item) == FALSE
Known(tr, item) == item \in Range(tr.slots)
WithSlot(tr, item) == [tr EXCEPT !.slots = Append(@, item)]
Made(tr, deltas) == [tr |-> tr, deltas |-> deltas]

CodexOnEvent(tr, e) ==
  LET next == IF Known(tr, e.item) THEN tr ELSE WithSlot(tr, e.item)
      slot == SlotOf(next, e.item)
      start == Delta("start", slot, <<e.item>>)
      args == Delta("args", slot, e.val)
      finish(reason) ==
        Made(tr, IF e.val = <<>> THEN <<Delta(reason, 0, <<>>)>>
                 ELSE <<Delta("usage", 0, e.val), Delta(reason, 0, <<>>)>>)
  IN CASE e.kind \in {"text", "reasoning"} -> Made(tr, <<Delta(e.kind, 0, e.val)>>)
       [] e.kind = "added" -> Made(next, <<start>>)
       [] e.kind = "done" ->
            IF Known(tr, e.item) THEN Made(tr, <<>>)
            ELSE Made(next, IF e.val = <<>> THEN <<start>> ELSE <<start, args>>)
       [] e.kind = "args" -> Made(next, <<args>>)
       [] e.kind = "completed" -> finish(IF tr.slots = <<>> THEN "stop" ELSE "tool_calls")
       [] e.kind = "length" -> finish("length")
       [] e.kind = "filtered" -> finish("content_filter")
       [] e.kind \in {"failed", "error"} -> Made(tr, <<Delta("error", 0, e.val)>>)
       [] OTHER -> Made(tr, <<>>)

(* stop_reason -> finish_reason *)
FinishReason(stop) ==
  CASE stop = "tool_use" -> "tool_calls"
    [] stop \in {"max_tokens", "model_context_window_exceeded"} -> "length"
    [] stop = "refusal" -> "content_filter"
    [] OTHER -> "stop"

AnthropicOnEvent(tr, e) ==
  LET usage == Delta("usage", 0, tr.prompt \o e.val)
  IN CASE e.kind = "message_start" -> Made([tr EXCEPT !.prompt = e.val], <<>>)
       [] e.kind = "added" ->
            Made(WithSlot(tr, e.item), <<Delta("start", Len(tr.slots), <<e.item>>)>>)
       [] e.kind \in {"text", "reasoning"} -> Made(tr, <<Delta(e.kind, 0, e.val)>>)
       [] e.kind = "args" ->
            Made(tr, IF Known(tr, e.item) THEN <<Delta("args", SlotOf(tr, e.item), e.val)>>
                     ELSE <<>>)
       [] e.kind = "message_delta" -> Made(tr, <<usage>>)
       [] e.kind \in Stops -> Made(tr, <<usage, Delta(FinishReason(e.kind), 0, <<>>)>>)
       [] e.kind = "error" -> Made(tr, <<Delta("error", 0, e.val)>>)
       [] OTHER -> Made(tr, <<>>)

OnEvent(tr, e) == IF prov = "codex" THEN CodexOnEvent(tr, e) ELSE AnthropicOnEvent(tr, e)

--------------------------------------------------------------------------------
(* The loops.  `out` is what the client of a stream is sent, `msg` what      *)
(* aggregate_response collects, `items` what aggregate_responses does.       *)

Messages == [text : Texts, reasoning : Texts, finish : {"stop"} \cup Reasons,
             tools : Seq([item : 0..MaxItems, args : Texts])]
NoMsg == [text |-> <<>>, reasoning |-> <<>>, tools |-> <<>>, finish |-> "stop"]
NoCall == [item |-> 0, args |-> <<>>]

Role == Delta("role", 0, <<>>)
Failure == Delta("error", 0, <<>>)

Convs == [buf : Seq([event : Events, last : BOOLEAN]),
          tr : [slots : Seq(Item), prompt : Texts], finished : BOOLEAN, failed : BOOLEAN,
          usage : Texts, out : Seq(Deltas), msg : Messages, items : Seq(Events)]
NewConv == [buf |-> <<>>, tr |-> NewTranslator, finished |-> FALSE, failed |-> FALSE,
            usage |-> <<>>, out |-> IF mode = "stream" THEN <<Role>> ELSE <<>>,
            msg |-> NoMsg, items |-> <<>>]

Over(c) == c.finished \/ c.failed

Yield(c, frame) == [c EXCEPT !.out = Append(@, frame)]

StreamDelta(c, d) ==
  CASE d.kind = "usage" -> [c EXCEPT !.usage = d.val]
    [] d.kind \in Reasons -> IF c.finished THEN c ELSE [Yield(c, d) EXCEPT !.finished = TRUE]
    [] d.kind = "error" -> [Yield(c, d) EXCEPT !.failed = TRUE]
    [] OTHER -> Yield(c, d)

(* `tools` grows to hold position `at`; what is told of that call is kept there. *)
UpTo(tools, at) ==
  IF Len(tools) > at THEN tools ELSE tools \o [i \in 1..(at + 1 - Len(tools)) |-> NoCall]

Started(tools, d) == [tools EXCEPT ![d.at + 1].item = d.val[1]]
Filled(tools, d) == [tools EXCEPT ![d.at + 1].args = @ \o d.val]

Collect(msg, d) ==
  CASE d.kind = "text" -> [msg EXCEPT !.text = @ \o d.val]
    [] d.kind = "reasoning" -> [msg EXCEPT !.reasoning = @ \o d.val]
    [] d.kind = "start" -> [msg EXCEPT !.tools = Started(UpTo(@, d.at), d)]
    [] d.kind = "args" -> [msg EXCEPT !.tools = Filled(UpTo(@, d.at), d)]
    [] d.kind \in Reasons -> [msg EXCEPT !.finish = d.kind]
    [] OTHER -> msg

(* An error is returned at once. *)
AggregateDelta(c, d) ==
  IF c.failed THEN c
  ELSE [c EXCEPT !.msg = Collect(@, d),
                 !.usage = IF d.kind = "usage" THEN d.val ELSE @,
                 !.finished = @ \/ d.kind \in Reasons,
                 !.failed = d.kind = "error"]

(* Mutant: an item is taken when it is added. *)
ResponsesEventAdded(c, e) ==
  [c EXCEPT !.items = IF e.kind \in {"added", "said"} THEN Append(@, e) ELSE @,
            !.finished = e.kind \in {"completed", "length", "filtered"},
            !.failed = e.kind \in {"failed", "error"}]

(* aggregate_responses looks at the events themselves. *)
ResponsesEvent(c, e) ==
  [c EXCEPT !.items = IF e.kind \in {"done", "said"} THEN Append(@, e) ELSE @,
            !.finished = e.kind \in {"completed", "length", "filtered"},
            !.failed = e.kind \in {"failed", "error"}]

DeltaTo(c, d) == IF mode = "stream" THEN StreamDelta(c, d) ELSE AggregateDelta(c, d)

(* The deltas of an event, in their order. *)
Tell(c, deltas) ==
  LET told[k \in 0..Len(deltas)] == IF k = 0 THEN c ELSE DeltaTo(told[k - 1], deltas[k])
  IN told[Len(deltas)]

Apply(c, e) ==
  LET t == OnEvent(c.tr, e)
  IN IF mode = "responses" THEN ResponsesEvent(c, e) ELSE Tell([c EXCEPT !.tr = t.tr], t.deltas)

(* What stream_response yields when its loop is left. *)
AfterLoop(c, usage) ==
  LET a == IF Over(c) THEN c ELSE Yield(c, Failure)
      b == IF c.finished /\ usage /\ c.usage # <<>> THEN Yield(a, Delta("usage", 0, c.usage)) ELSE a
  IN IF c.finished /\ ~c.failed THEN Yield(b, Delta("[DONE]", 0, <<>>)) ELSE b

(* The loop is left; a client may have asked for the usage or not. *)
Leave(c) ==
  /\ open' = FALSE
  /\ IF mode = "stream" THEN \E usage \in BOOLEAN : conv' = AfterLoop(c, usage) ELSE conv' = c

--------------------------------------------------------------------------------
(* The decoder.  An event is two pieces, its blank line ends the second. *)

Pieces(es) ==
  [i \in 1..2 * Len(es) |-> [event |-> es[(i + 1) \div 2], last |-> i % 2 = 0]]

(* A block without its first half has no type that anything looks for. *)
BlockAt(buf, i) ==
  IF i > 1 /\ ~buf[i - 1].last THEN buf[i].event ELSE Event("broken", 0, <<>>)

(* Where the whole events of the buffer end. *)
Ends(buf) == {i \in 1..Len(buf) : buf[i].last}
Boundary(buf) == CHOOSE i \in Ends(buf) : \A j \in Ends(buf) : i <= j
Rest(buf) == SubSeq(buf, Boundary(buf) + 1, Len(buf))

(* Mutant: what is left of the last chunk is not kept. *)
PushAlone(buf, chunk) == chunk
Push(buf, chunk) == buf \o chunk

(* A chunk arrives. *)
Receive(n) ==
  /\ open /\ Ends(conv.buf) = {}
  /\ taken + n <= 2 * Len(sent)
  /\ taken' = taken + n
  /\ conv' = [conv EXCEPT !.buf = Push(@, SubSeq(Pieces(sent), taken + 1, taken + n))]
  /\ UNCHANGED <<prov, mode, sent, open>>

(* next_event is asked again until it has none. *)
NextEvent ==
  LET c == Apply([conv EXCEPT !.buf = Rest(@)], BlockAt(conv.buf, Boundary(conv.buf)))
  IN /\ open /\ Ends(conv.buf) # {}
     /\ IF Over(c) THEN Leave(c) ELSE conv' = c /\ UNCHANGED open
     /\ UNCHANGED <<prov, mode, sent, taken>>

(* Mutant: an error of the connection is taken for the end of the body. *)
BrokenUnseen ==
  /\ open /\ Ends(conv.buf) = {}
  /\ Leave([conv EXCEPT !.finished = TRUE])
  /\ UNCHANGED <<prov, mode, sent, taken>>

(* The connection breaks. *)
Broken ==
  /\ open /\ Ends(conv.buf) = {}
  /\ Leave([IF mode = "stream" THEN Yield(conv, Failure) ELSE conv EXCEPT !.failed = TRUE])
  /\ UNCHANGED <<prov, mode, sent, taken>>

(* The body ends, be it in the middle of an event. *)
EndOfBody ==
  /\ open /\ Ends(conv.buf) = {}
  /\ Leave(conv)
  /\ UNCHANGED <<prov, mode, sent, taken>>

--------------------------------------------------------------------------------
(* The upstreams.  A call is told of when it is added and again when it is   *)
(* done, or when it is done only; its arguments come in parts in between, or *)
(* all at once when it is done.                                              *)

Calls(es) == {e.item : e \in Range(es)} \ {0}
IsNext(es, i) == i = 1 + Cardinality(Calls(es))
IsAdded(es, i) == OfItem(es, i) \cap OfKind(es, {"added"}) # {}
IsDone(es, i) == OfItem(es, i) \cap OfKind(es, {"done"}) # {}
ArgsSent(es, i) == Text(es, OfItem(es, i) \cap OfKind(es, {"args"}))

Mark(es) == <<Len(es) + 1>>

CodexSends(es) ==
  LET new == {i \in Item : IsNext(es, i)}
      started == {i \in Item : IsAdded(es, i) /\ ~IsDone(es, i)}
  IN {Event(kind, 0, Mark(es)) : kind \in {"text", "reasoning", "said", "noise", "failed", "error"}}
     \cup {Event("added", i, <<>>) : i \in new}
     \cup {Event("args", i, Mark(es)) : i \in started}
     \cup {Event("done", i, ArgsSent(es, i)) : i \in started}
     \cup {Event("done", i, Mark(es)) : i \in {i \in started : ArgsSent(es, i) = <<>>}}
     \cup {Event("done", i, val) : i \in new, val \in {<<>>, Mark(es)}}
     \cup {Event(kind, 0, val) : kind \in {"length", "filtered"}, val \in {<<>>, Mark(es)}}
     \cup {Event("completed", 0, val) : val \in IF started = {} THEN {<<>>, Mark(es)} ELSE {}}

AnthropicSends(es) ==
  IF es = <<>> THEN {Event("message_start", 0, Mark(es)), Event("error", 0, Mark(es))}
  ELSE {Event(kind, 0, Mark(es)) :
          kind \in {"text", "reasoning", "noise", "message_delta", "error"} \cup Stops}
       \cup {Event("added", i, <<>>) : i \in {i \in Item : IsNext(es, i)}}
       \cup {Event("args", i, Mark(es)) : i \in {i \in Item : IsAdded(es, i)}}

Sends(es) == IF prov = "codex" THEN CodexSends(es) ELSE AnthropicSends(es)

Send ==
  /\ open
  /\ Len(sent) < MaxEvents
  /\ ~HasKind(sent, Good \cup Bad)
  /\ \E e \in Sends(sent) : sent' = Append(sent, e)
  /\ UNCHANGED <<prov, mode, taken, conv, open>>

Init ==
  /\ prov \in {"anthropic", "codex"}
  /\ mode \in {"stream", "aggregate"} \cup IF prov = "codex" THEN {"responses"} ELSE {}
  /\ sent = <<>> /\ taken = 0
  /\ conv = NewConv
  /\ open = TRUE

Next ==
  \/ Send
  \/ \E n \in 1..MaxChunk : Receive(n)
  \/ NextEvent
  \/ Broken
  \/ EndOfBody

Spec == Init /\ [][Next]_vars

--------------------------------------------------------------------------------
(* What was said, told from the events that arrived whole.                   *)

Arrived == SubSeq(sent, 1, taken \div 2)

(* The arguments an OpenAI client gets of a call: its parts, or all of them at *)
(* its end.  The end of a call that was added is not looked at for arguments,  *)
(* "已由 added + arguments.delta 覆盖", even if no part has come (PartsMissing). *)
CallArgs(es, i) == IF IsAdded(es, i) THEN ArgsSent(es, i) ELSE Text(es, OfItem(es, i))
PartsMissing(es, i) == IsAdded(es, i) /\ ArgsSent(es, i) = <<>>

LastOf(es) == IF es = <<>> THEN Event("none", 0, <<>>) ELSE es[Len(es)]

FinishOf(es) ==
  LET kind == LastOf(es).kind
  IN CASE kind = "completed" -> IF Calls(es) = {} THEN "stop" ELSE "tool_calls"
       [] kind \in {"length", "max_tokens", "model_context_window_exceeded"} -> "length"
       [] kind \in {"filtered", "refusal"} -> "content_filter"
       [] kind = "tool_use" -> "tool_calls"
       [] OTHER -> "stop"

Said(es) ==
  [text |-> Text(es, OfKind(es, {"text"})),
   reasoning |-> Text(es, OfKind(es, {"reasoning"})),
   tools |-> [i \in 1..Cardinality(Calls(es)) |-> [item |-> i, args |-> CallArgs(es, i)]],
   finish |-> FinishOf(es)]

(* A client of a stream collects its frames by their positions. *)
Collected(frames) ==
  LET upTo[k \in 0..Len(frames)] == IF k = 0 THEN NoMsg ELSE Collect(upTo[k - 1], frames[k])
  IN upTo[Len(frames)]

Answer == IF mode = "stream" THEN Collected(conv.out) ELSE conv.msg

TypeOK ==
  /\ prov \in {"anthropic", "codex"} /\ mode \in {"stream", "aggregate", "responses"}
  /\ sent \in Seq(Events) /\ Len(sent) <= MaxEvents
  /\ taken \in 0..2 * Len(sent)
  /\ open \in BOOLEAN
  /\ conv \in Convs /\ Len(conv.tr.slots) <= MaxItems
  /\ mode = "stream" => conv.msg = NoMsg
  /\ mode = "aggregate" => conv.out = <<>>

(***************************************************************************)
(* convert/mod.rs "[DONE] 是「正常收尾」信号": a stream ends with it       *)
(* exactly when the upstream's answer arrived to its end, and then no      *)
(* error was told of; any other stream ends with an error, the only one.   *)
(***************************************************************************)
DoneMeansWhole ==
  ~open /\ mode = "stream" =>
    LET errors == {k \in DOMAIN conv.out : conv.out[k].kind = "error"}
    IN IF HasKind(Arrived, Good)
       THEN LastOf(conv.out).kind = "[DONE]" /\ errors = {}
       ELSE errors = {Len(conv.out)}

(***************************************************************************)
(* "只维护一条解析路径": whether it is streamed or collected, however the  *)
(* bytes were cut into chunks and whichever way the upstream told of its   *)
(* tool calls, the client has each text, each call, its arguments and the  *)
(* usage once and in order, and the finish_reason the answer ended with;   *)
(* only of a call that is added and has no part, the arguments at its end  *)
(* do not reach it (codex.rs:264).                                         *)
(***************************************************************************)
AnswerIsWhole ==
  ~open /\ mode # "responses" /\ conv.finished =>
    /\ Answer = Said(Arrived)
    /\ conv.usage = IF prov = "codex" THEN LastOf(Arrived).val
                    ELSE Arrived[1].val \o LastOf(Arrived).val

(***************************************************************************)
(* sse.rs "splits_events_and_keeps_partial_tail": all that has arrived     *)
(* whole has been told to the client, and at most one half event waits.    *)
(***************************************************************************)
NothingHeld ==
  open /\ Ends(conv.buf) = {} =>
    /\ Len(conv.buf) = taken % 2
    /\ mode # "responses" => Answer = Said(Arrived)

(***************************************************************************)
(* "只能从流式 item 重建": the Responses object is made exactly when the   *)
(* upstream's answer arrived to its end, and has every item in order, with *)
(* the calls and arguments that the OpenAI answer of the same events has;  *)
(* of a call without parts it may have arguments that answer has not.      *)
(***************************************************************************)
ResponsesWhole ==
  ~open /\ mode = "responses" =>
    /\ conv.finished <=> HasKind(Arrived, Good)
    /\ conv.items = Kept(Arrived, OfKind(Arrived, {"done", "said"}))
    /\ HasKind(Arrived, {"completed"}) =>
         \A i \in Calls(Arrived) : \E k \in DOMAIN conv.items :
           /\ OfItem(conv.items, i) = {k}
           /\ \/ conv.items[k] = Event("done", i, CallArgs(Arrived, i))
              \/ PartsMissing(Arrived, i)

(***************************************************************************)
(* A stream's client can put its tool calls together as they come: each is *)
(* announced once, at the next position, before any of its arguments.      *)
(***************************************************************************)
ToolsAnnounced ==
  \A k \in DOMAIN conv.out :
    LET before == Cardinality(OfKind(conv.out, {"start"}) \cap 1..k - 1)
    IN /\ conv.out[k].kind = "start" => conv.out[k].at = before
       /\ conv.out[k].kind = "args" => conv.out[k].at < before

(* One answer, whichever of the three loops has read it.                     *)
ClientHasAnswer == AnswerIsWhole /\ ResponsesWhole /\ ToolsAnnounced
================================================================================
