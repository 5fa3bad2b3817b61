------------------------------- MODULE ChatRequest -------------------------------
(***************************************************************************)
(* src/convert/anthropic.rs and codex.rs, `request`: a conversation in the *)
(* words of the OpenAI Chat API becomes one of the Messages API or of the  *)
(* Responses API.  Texts are sequences of marks; an id is a number, 0      *)
(* where the client left it out and negative where `mint` made it up.      *)
(*                                                                         *)
(* The options beside the conversation (tools, limits, formats) are mapped *)
(* key by key and are left out, and so are images, which go the way of the *)
(* text they stand with.                                                   *)
(***************************************************************************)
EXTENDS Integers, Passthrough

Role == {"system", "user", "assistant", "tool"}

(* `calls` are the ids of an assistant's calls, `id` is what a result answers. *)
Message(role, text, calls, id) == [role |-> role, text |-> text, calls |-> calls, id |-> id]

--------------------------------------------------------------------------------
(* The Messages API: messages are lists of blocks. *)

Block(type, val) == [type |-> type, val |-> val]
TextBlocks(text) == IF text = <<>> THEN <<>> ELSE <<Block("text", text)>>
CallBlocks(calls) == [k \in 1..Len(calls) |-> Block("tool_use", <<calls[k]>>)]

(* Mutant: the role of the last message is not looked at. *)
PushAlways(msgs, role, blocks) ==
  IF blocks = <<>> THEN msgs ELSE Append(msgs, [role |-> role, content |-> blocks])

(* Neighbours of one role are merged, a message without blocks is left out. *)
Push(msgs, role, blocks) ==
  IF blocks = <<>> THEN msgs
  ELSE IF msgs # <<>> /\ msgs[Len(msgs)].role = role
  THEN [msgs EXCEPT ![Len(msgs)].content = @ \o blocks]
  ELSE Append(msgs, [role |-> role, content |-> blocks])

AnthropicMessage(out, m) ==
  CASE m.role = "system" -> [out EXCEPT !.system = @ \o m.text]
    [] m.role = "tool" ->
         [out EXCEPT !.msgs = Push(@, "user", <<Block("tool_result", <<m.id>>)>>)]
    [] m.role = "assistant" ->
         [out EXCEPT !.msgs = Push(@, "assistant", TextBlocks(m.text) \o CallBlocks(m.calls))]
    [] OTHER -> [out EXCEPT !.msgs = Push(@, "user", TextBlocks(m.text))]

(* What has become of the first k messages. *)
AnthropicMade(messages) ==
  LET made[k \in 0..Len(messages)] ==
        IF k = 0 THEN [system |-> <<>>, msgs |-> <<>>]
        ELSE AnthropicMessage(made[k - 1], messages[k])
  IN made

AnthropicRequest(messages) ==
  LET made == AnthropicMade(messages)[Len(messages)]
      body == [messages |-> made.msgs, stream |-> TRUE]
  IN InjectPrefix(IF made.system = <<>> THEN body
                  ELSE With(body, "system", [kind |-> "string", blocks |-> <<made.system>>]))

--------------------------------------------------------------------------------
(* The Responses API: one list of items. *)

InputItem(type, val) == [type |-> type, val |-> val]

Mint(out) == -(out.minted + 1)

(* A call without an id gets one, which waits for the result without an id. *)
CodexCall(out, id) ==
  IF id # 0 THEN [out EXCEPT !.input = Append(@, InputItem("function_call", <<id>>))]
  ELSE [out EXCEPT !.input = Append(@, InputItem("function_call", <<Mint(out)>>)),
                   !.minted = @ + 1,
                   !.unpaired = Append(@, Mint(out))]

(* Mutant: a result without an id always gets a new one. *)
CodexResultMinted(out, id) ==
  [out EXCEPT !.input = Append(@, InputItem("function_call_output",
                                            <<IF id = 0 THEN Mint(out) ELSE id>>)),
              !.minted = IF id = 0 THEN @ + 1 ELSE @]

(* What has become of the first k calls of a message. *)
CodexCalls(out, calls) ==
  LET told[k \in 0..Len(calls)] == IF k = 0 THEN out ELSE CodexCall(told[k - 1], calls[k])
  IN told

CodexResult(out, id) ==
  LET told(call) == [out EXCEPT !.input = Append(@, InputItem("function_call_output", <<call>>))]
  IN CASE id # 0 -> told(id)
       [] id = 0 /\ out.unpaired # <<>> -> [told(Head(out.unpaired)) EXCEPT !.unpaired = Tail(@)]
       [] OTHER -> [told(Mint(out)) EXCEPT !.minted = @ + 1]

CodexMessage(out, m) ==
  CASE m.role = "system" -> [out EXCEPT !.instructions = @ \o m.text]
    [] m.role = "tool" -> CodexResult(out, m.id)
    [] m.role = "assistant" ->
         LET said == IF m.text = <<>> THEN out
                     ELSE [out EXCEPT !.input = Append(@, InputItem("assistant", m.text))]
         IN CodexCalls(said, m.calls)[Len(m.calls)]
    [] OTHER -> [out EXCEPT !.input = Append(@, InputItem("user", m.text))]

CodexMade(messages) ==
  LET made[k \in 0..Len(messages)] ==
        IF k = 0 THEN [instructions |-> <<>>, input |-> <<>>, minted |-> 0, unpaired |-> <<>>]
        ELSE CodexMessage(made[k - 1], messages[k])
  IN made

CodexRequest(messages) == CodexMade(messages)[Len(messages)]
================================================================================
