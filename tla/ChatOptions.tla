-------------------------------- MODULE ChatOptions --------------------------------
(***************************************************************************)
(* src/convert/anthropic.rs and codex.rs: the options of a chat request    *)
(* beside the conversation.  A request, like a body, is a function from    *)
(* the keys it has; a tool is a record with a name, "none" where it has    *)
(* none; a schema is a value of its own.                                   *)
(***************************************************************************)
EXTENDS Integers, Passthrough

Has(req, key) == key \in DOMAIN req

(* max_tokens, or -1 where there is none *)
MaxTokens(req) ==
  IF Has(req, "max_completion_tokens") THEN req["max_completion_tokens"]
  ELSE IF Has(req, "max_tokens") THEN req["max_tokens"] ELSE -1

(* tool_def and the filter on names *)
NamedTools(req) ==
  IF Has(req, "tools") THEN SelectSeq(req["tools"], LAMBDA t : t.name # "none") ELSE <<>>

(* json_schema without a schema is no format. *)
Schema(req) ==
  IF Has(req, "response_format") /\ req["response_format"].type = "json_schema"
  THEN req["response_format"].schema ELSE "none"

--------------------------------------------------------------------------------
(* The Messages API.                                                         *)

DefaultMaxTokens == 8192
ThinkingMinOutput == 4096

ReasoningEffort(req) ==
  IF ~Has(req, "reasoning_effort") THEN "none"
  ELSE CASE req["reasoning_effort"] \in {"none", "minimal"} -> "none"
         [] req["reasoning_effort"] \in {"low", "high", "xhigh", "max"} -> req["reasoning_effort"]
         [] OTHER -> "medium"

StopSequences(req) ==
  IF ~Has(req, "stop") \/ req["stop"].kind = "other" THEN <<>> ELSE req["stop"].texts

(* A choice is a record of its type and, for one tool, its name. *)
Choice(type, name) == [type |-> type, name |-> name, alone |-> FALSE]

AnthropicChoice(req) ==
  LET choice == req["tool_choice"]
  IN IF ~Has(req, "tool_choice") THEN <<>>
     ELSE CASE choice.type \in {"auto", "none"} -> <<Choice(choice.type, "none")>>
            [] choice.type = "required" -> <<Choice("any", "none")>>
            [] choice.type = "object" /\ choice.name # "none" -> <<Choice("tool", choice.name)>>
            [] OTHER -> <<>>

(* Mutant: a choice the client has made is left as it is. *)
AloneByDefault(req, choice) ==
  IF Has(req, "parallel_tool_calls") /\ ~req["parallel_tool_calls"] /\ NamedTools(req) # <<>>
     /\ choice = <<>>
  THEN <<[Choice("auto", "none") EXCEPT !.alone = TRUE]>> ELSE choice

(* One call at a time is said in the choice, which "none" cannot have. *)
Alone(req, choice) ==
  LET made == IF choice = <<>> THEN Choice("auto", "none") ELSE choice[1]
  IN IF Has(req, "parallel_tool_calls") /\ ~req["parallel_tool_calls"] /\ NamedTools(req) # <<>>
     THEN <<[made EXCEPT !.alone = made.type # "none"]>> ELSE choice

(* The keys that a body gets only under a condition. *)
When(cond, keys) == IF cond THEN keys ELSE {}

AnthropicOptions(req) ==
  LET effort == ReasoningEffort(req)
      asked == IF MaxTokens(req) = -1 THEN DefaultMaxTokens ELSE MaxTokens(req)
      limit == IF effort # "none" /\ asked < ThinkingMinOutput THEN ThinkingMinOutput ELSE asked
      choice == Alone(req, AnthropicChoice(req))
      there == {"max_tokens"} \cup When(effort # "none", {"thinking", "effort"})
                 \cup When(Schema(req) # "none", {"format"})
                 \cup When(StopSequences(req) # <<>>, {"stop_sequences"})
                 \cup When(NamedTools(req) # <<>>, {"tools"})
                 \cup When(choice # <<>>, {"tool_choice"})
  IN [key \in there |-> CASE key = "max_tokens" -> limit
                          [] key = "thinking" -> "adaptive"
                          [] key = "effort" -> effort
                          [] key = "format" -> Schema(req)
                          [] key = "stop_sequences" -> StopSequences(req)
                          [] key = "tools" -> NamedTools(req)
                          [] key = "tool_choice" -> choice[1]]

--------------------------------------------------------------------------------
(* The Responses API: no limit, and no stop sequences.                       *)

CodexChoice(req) ==
  LET choice == req["tool_choice"]
  IN IF \/ ~Has(req, "tool_choice") \/ choice.type = "other"
        \/ choice.type = "object" /\ choice.name = "none"
     THEN <<>>
     ELSE <<IF choice.type = "object" THEN Choice("function", choice.name)
            ELSE Choice(choice.type, "none")>>

TextFormat(req) ==
  IF Has(req, "response_format") /\ req["response_format"].type = "json_object"
  THEN "json_object" ELSE Schema(req)

(* A `reasoning` object of the client's goes before its effort. *)
Reasoning(req) == IF Has(req, "reasoning") THEN req["reasoning"] ELSE req["reasoning_effort"]

CodexOptions(req) ==
  LET there == When(NamedTools(req) # <<>>, {"tools"})
                 \cup When(CodexChoice(req) # <<>>, {"tool_choice"})
                 \cup When(Has(req, "parallel_tool_calls"), {"parallel_tool_calls"})
                 \cup When(Has(req, "reasoning") \/ Has(req, "reasoning_effort"), {"reasoning"})
                 \cup When(TextFormat(req) # "none", {"format"})
  IN [key \in there |-> CASE key = "tools" -> NamedTools(req)
                          [] key = "tool_choice" -> CodexChoice(req)[1]
                          [] key = "parallel_tool_calls" -> req["parallel_tool_calls"]
                          [] key = "reasoning" -> Reasoning(req)
                          [] key = "format" -> TextFormat(req)]
================================================================================
