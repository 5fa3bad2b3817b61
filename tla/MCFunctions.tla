-------------------------------- MODULE MCFunctions --------------------------------
(***************************************************************************)
(* The functions of a request and its answer over inputs that grow by one  *)
(* step: a conversation by a message, the options and a body by a key, a   *)
(* path by a segment, headers by a line, replies by a reply; and those of  *)
(* MCRecords.                                                              *)
(***************************************************************************)
EXTENDS MCRecords, ChatRequest, ChatOptions, Exchange

CONSTANTS MaxMessages,  \* of a conversation
          MaxCalls,     \* of an assistant's message
          MaxPrefix     \* /v1 before a path

ASSUME MaxPrefixAssumption == MaxPrefix \in Nat

Opening == [messages |-> <<>>,  \* the conversation
          links |-> <<>>,     \* which call each result answers
          open |-> <<>>]      \* the calls that wait for a result

CaseInit ==
  \/ about = "chat" /\ input = Opening
  \/ about \in {"options", "body", "path", "headers", "replies"} /\ input = <<>>
  \/ RecordInit

--------------------------------------------------------------------------------
(* A conversation: an assistant's calls are answered before anything else is *)
(* said, in their order where the client leaves the ids out.                 *)

Ids(ms) == FlattenSeq([k \in DOMAIN ms |-> ms[k].calls])

(* The text of a message is a mark of its own, or there is none. *)
Texts == {<<>>, <<Len(input.messages) + 1>>}

(* A client may put the prefix of the official one before its system text. *)
Say ==
  /\ about = "chat" /\ Len(input.messages) < MaxMessages /\ input.open = <<>>
  /\ \E role \in {"system", "user"}, text \in Texts \cup {Prefix} :
       input' = [input EXCEPT !.messages = Append(@, Message(role, text, <<>>, 0))]
  /\ UNCHANGED about

Answer ==
  /\ about = "chat" /\ Len(input.messages) < MaxMessages /\ input.open = <<>>
  /\ \E text \in Texts, n \in 0..MaxCalls :
       \E given \in SUBSET (1..n) :
         LET before == Len(Ids(input.messages))
             calls == [k \in 1..n |-> IF k \in given THEN before + k ELSE 0]
         IN input' = [input EXCEPT !.messages = Append(@, Message("assistant", text, calls, 0)),
                                   !.open = [k \in 1..n |-> before + k]]
  /\ UNCHANGED about

Return ==
  /\ about = "chat"
  /\ \E k \in DOMAIN input.open :
       LET id(j) == Ids(input.messages)[input.open[j]]
       IN /\ id(k) = 0 => \A j \in 1..(k - 1) : id(j) # 0
          /\ input' = [messages |-> Append(input.messages, Message("tool", <<>>, <<>>, id(k))),
                       links |-> Append(input.links, input.open[k]),
                       open |-> RemoveAt(input.open, k)]
  /\ UNCHANGED about

--------------------------------------------------------------------------------

Systems ==
  {[kind |-> "odd", blocks |-> <<>>]}
    \cup {[kind |-> "string", blocks |-> <<text>>] : text \in {Prefix, <<1>>, <<0, 1>>}}
    \cup {[kind |-> "blocks", blocks |-> bs] : bs \in SeqOf({Prefix, <<1>>, <<0, 1>>}, 2)}

Values(key) ==
  CASE key = "system" -> Systems
    [] key = "input" -> {[kind |-> "string", text |-> <<1>>], [kind |-> "list", text |-> <<1>>]}
    [] key \in {"stream", "store"} -> BOOLEAN
    [] OTHER -> {"value"}

Keys == {"system", "input", "stream", "store", "instructions", "temperature", "top_k",
         "metadata", "max_tokens", "messages"}

SetKey ==
  /\ about = "body"
  /\ \E key \in Keys \ DOMAIN input : \E val \in Values(key) : input' = With(input, key, val)
  /\ UNCHANGED about

Segment == {"messages", "count_tokens", "models", "chat", "completions", "responses",
            "compact", "backend-api", "codex", "health"}

ExtendPath ==
  /\ about = "path"
  /\ LET own == SelectSeq(input, LAMBDA seg : seg # "v1")
     IN \/ own = <<>> /\ Len(input) < MaxPrefix /\ input' = Append(input, "v1")
        \/ Len(own) < 3 /\ \E seg \in Segment : input' = Append(input, seg)
  /\ UNCHANGED about

--------------------------------------------------------------------------------

(* The options of a chat request.                                            *)

ToolNames == {"none", "search"}

OptionValues(key) ==
  CASE key = "max_tokens" -> {0, 20000}
    [] key = "max_completion_tokens" -> {200}
    [] key = "reasoning_effort" -> {"none", "minimal", "low", "odd"}
    [] key = "reasoning" -> {"own"}
    [] key = "response_format" ->
         [type : {"text", "json_object"}, schema : {"none"}]
           \cup [type : {"json_schema"}, schema : {"none", "schema"}]
    [] key = "stop" -> [kind : {"list"}, texts : {<<>>, <<1>>}]
    [] key = "tools" -> SeqOf([name : ToolNames], 2)
    [] key = "tool_choice" ->
         [type : {"auto", "required", "none", "odd", "other"}, name : {"none"}]
           \cup [type : {"object"}, name : ToolNames]
    [] OTHER -> BOOLEAN

Options == {"max_tokens", "max_completion_tokens", "reasoning_effort", "reasoning",
            "response_format", "stop", "tools", "tool_choice", "parallel_tool_calls"}

SetOption ==
  /\ about = "options"
  /\ \E key \in Options \ DOMAIN input :
       \E val \in OptionValues(key) : input' = With(input, key, val)
  /\ UNCHANGED about

--------------------------------------------------------------------------------
(* The headers of a client, and what comes of the attempts.                  *)

HeaderValues(name) ==
  IF name = "anthropic-beta" THEN SeqOf({Oauth, "oauth-like", "b1", "b2"}, 2) ELSE {"theirs"}

ClientNames == {"authorization", "x-api-key", "anthropic-version", "anthropic-direct",
                "anthropic-beta", "session_id", "openai-beta", "user_agent"}

AddLine ==
  /\ about = "headers"
  /\ \E name \in ClientNames :
       LET lines == IF name \in DOMAIN input THEN input[name] ELSE <<>>
       IN /\ Len(lines) < IF name = "anthropic-beta" THEN 2 ELSE 1
          /\ \E val \in HeaderValues(name) : input' = With(input, name, Append(lines, val))
  /\ UNCHANGED about

ReplyHeaders ==
  {<<>>,
   With(With([connection |-> Line("close")], "retry-after", Line(2)), "request-id", Line("id")),
   With(With(With(<<>>, "content-length", Line(9)), "retry-after", Line(60)), "x-request-id",
        Line("id")),
   With(With([other |-> <<"a", "b">>], "retry-after", Line(NoSeconds)),
        "access-control-allow-origin", Line("*"))}

Shaped(status, shape, text, headers) ==
  [status |-> status, shape |-> shape, text |-> text, headers |-> headers]

Replies ==
  {Shaped(200, "success", "none", h) : h \in ReplyHeaders}
    \cup {Shaped(0, shape, "why", <<>>) : shape \in {"no_token", "unreachable", "lost"}}
    \cup {Shaped(status, shape, IF shape = "other" THEN "none" ELSE "why", h) :
            status \in {400, 401, 404, 429, 503}, h \in ReplyHeaders,
            shape \in {"anthropic", "detail", "other"}}

Reply ==
  /\ about = "replies" /\ ~Upstream(input).over
  /\ \E resp \in Replies : input' = Append(input, resp)
  /\ UNCHANGED about

CaseNext == Say \/ Answer \/ Return \/ SetKey \/ ExtendPath \/ SetOption \/ AddLine \/ Reply
        \/ RecordNext

CaseSpec == CaseInit /\ [][CaseNext]_<<about, input>>

--------------------------------------------------------------------------------

(* The ids of the items of a type. *)
IdsOf(made, type) ==
  FlattenSeq([k \in DOMAIN made |-> IF made[k].type = type THEN made[k].val ELSE <<>>])

(* Every call and every result reaches the Responses API with an id, no two  *)
(* calls with the same one, and a result with that of the call it answers,   *)
(* also where the client left the ids out (codex.rs:20).                     *)
CallsPaired ==
  about = "chat" =>
    LET made == CodexRequest(input.messages).input
        calls == IdsOf(made, "function_call")
        outputs == IdsOf(made, "function_call_output")
    IN /\ IsInjective(calls)
       /\ \A k \in DOMAIN calls : calls[k] # 0
       /\ Len(calls) = Len(Ids(input.messages)) /\ Len(outputs) = Len(input.links)
       /\ \A k \in DOMAIN outputs : outputs[k] = calls[input.links[k]]

(* What a message is to the Messages API. *)
SaidBy(m) ==
  CASE m.role = "system" -> <<>>
    [] m.role = "tool" -> <<Block("tool_result", <<m.id>>)>>
    [] m.role = "assistant" -> TextBlocks(m.text) \o CallBlocks(m.calls)
    [] OTHER -> TextBlocks(m.text)

(* The Messages API is sent turns of alternating roles, none of them empty,  *)
(* with what the client said in its order and nothing else, and the results  *)
(* of a turn's calls come at the start of the next turn (anthropic.rs:120).  *)
(* The system texts are joined behind the prefix of the official client.     *)
TurnsAlternate ==
  about = "chat" =>
    LET request == AnthropicRequest(input.messages)
        turns == request.messages
        said == FlattenSeq([k \in DOMAIN input.messages |-> SaidBy(input.messages[k])])
        texts == FlattenSeq([k \in DOMAIN input.messages |->
                   IF input.messages[k].role = "system" THEN input.messages[k].text ELSE <<>>])
        blocks == request.system.blocks
        ofType(k, type) == {i \in DOMAIN turns[k].content : turns[k].content[i].type = type}
    IN /\ \A k \in DOMAIN turns : /\ turns[k].content # <<>>
                                  /\ k > 1 => turns[k].role # turns[k - 1].role
       /\ FlattenSeq([k \in DOMAIN turns |-> turns[k].content]) = said
       /\ \A k \in DOMAIN turns :
            LET results == ofType(k, "tool_result")
            IN /\ results = 1..Cardinality(results)
               /\ results # {} =>
                    k > 1 /\ Cardinality(results) <= Cardinality(ofType(k - 1, "tool_use"))
       /\ Head(blocks) = Prefix /\ FlattenSeq(blocks) \in {texts, Prefix \o texts}

(* A conversation keeps its order, its roles and its pairs in both APIs.      *)
ConversationKept == CallsPaired /\ TurnsAlternate

--------------------------------------------------------------------------------

(* What a choice lets the model do, in the words of the three APIs.          *)
May(choice) ==
  CASE choice.type \in {"required", "any"} -> "must"
    [] choice.type \in {"object", "tool", "function"} /\ choice.name # "none" -> choice.name
    [] choice.type = "none" -> "none"
    [] OTHER -> "auto"

(* Both APIs are told what the client said: the same tools, the same choice  *)
(* among them, one call at a time if it said so and there is something to    *)
(* call, a format it asked for by a schema, an effort.  The limit is the     *)
(* client's unless thinking needs more; Codex is sent none (codex.rs:101).   *)
OptionsRight(req) ==
  LET a == AnthropicOptions(req)
      c == CodexOptions(req)
      chosen(body) == IF "tool_choice" \in DOMAIN body THEN May(body["tool_choice"]) ELSE "auto"
      single == Has(req, "parallel_tool_calls") /\ ~req["parallel_tool_calls"]
      schema == Has(req, "response_format") /\ req["response_format"].schema # "none"
      alone == "tool_choice" \in DOMAIN a /\ a["tool_choice"].alone
      effort == Has(req, "reasoning_effort") /\ req["reasoning_effort"] \notin {"none", "minimal"}
  IN /\ \A body \in {a, c} :
          /\ chosen(body) = chosen(req)
          /\ NamedTools(req) = IF "tools" \in DOMAIN body THEN body["tools"] ELSE <<>>
          /\ schema => body["format"] = req["response_format"].schema
     /\ alone = (single /\ "tools" \in DOMAIN a /\ chosen(req) # "none")
     /\ Has(req, "parallel_tool_calls") => c["parallel_tool_calls"] = req["parallel_tool_calls"]
     /\ effort = ("thinking" \in DOMAIN a) /\ effort = ("effort" \in DOMAIN a)
     /\ Has(req, "reasoning_effort") => "reasoning" \in DOMAIN c
     /\ a["max_tokens"] >= MaxTokens(req)
     /\ MaxTokens(req) >= 0 /\ a["max_tokens"] # MaxTokens(req) =>
          effort /\ a["max_tokens"] = ThinkingMinOutput
     /\ {"max_tokens", "max_completion_tokens", "stop"} \cap DOMAIN c = {}

OptionsMeant == about = "options" => OptionsRight(input)

--------------------------------------------------------------------------------

SameBut(b, c, keys) == Without(b, keys) = Without(c, keys)

(* A body sent to the Messages API begins its system prompt with the prefix  *)
(* of the official client and then has the client's own blocks, once, and no *)
(* sampling parameter; one sent to the Responses API asks for a stream, is   *)
(* not stored, has instructions and a list of items.  The rest is as the     *)
(* client wrote it, and to prepare it again changes nothing.                 *)
BodyAccepted ==
  about = "body" =>
    LET prepared(b) == Prepare([at |-> "anthropic", path |-> <<"v1", "messages">>], b).body
        responses(b) == Prepare([at |-> "codex", path |-> <<"responses">>], b)
        body == prepared(input)
        own == System(input).blocks
        codex == responses(input).body
    IN /\ System(input).kind # "odd" =>
            /\ body.system.kind = "blocks"
            /\ Head(body.system.blocks) = Prefix
            /\ body.system.blocks \in {own, <<Prefix>> \o own}
       /\ DOMAIN body \cap SamplingKeys = {}
       /\ SameBut(body, input, SamplingKeys \cup {"system"})
       /\ prepared(body) = body
       /\ codex.stream /\ ~codex.store /\ "instructions" \in DOMAIN codex
       /\ "input" \in DOMAIN input =>
            codex.input = [kind |-> "list", text |-> input.input.text]
       /\ DOMAIN codex \cap CodexDropKeys = {}
       /\ SameBut(codex, input, CodexDropKeys \cup {"stream", "store", "instructions", "input"})
       /\ responses(codex).body = codex
       /\ responses(input).aggregate_responses = ~("stream" \in DOMAIN input /\ input.stream)

--------------------------------------------------------------------------------

Endpoints ==
  {[method |-> "POST", path |-> p] :
     p \in {<<"chat", "completions">>, <<"messages">>, <<"messages", "count_tokens">>,
            <<"responses">>, <<"responses", "compact">>, <<"backend-api", "codex", "responses">>}}
    \cup {[method |-> "GET", path |-> p] : p \in {<<"models">>, <<"health">>}}

Models == [vendor : {"none", "anthropic", "codex"}, claude : BOOLEAN]

(* Every endpoint the proxy names (passthrough.rs:45) is served with any     *)
(* number of /v1 before it and in both dialects, by the provider whose path  *)
(* or model it is, and reaches that upstream under its official path.        *)
EndpointsServed ==
  about = "path" =>
    \A e \in Endpoints, headers \in BOOLEAN, model \in Models :
      (\E n \in 0..MaxPrefix : input = [k \in 1..n |-> "v1"] \o e.path) =>
        LET to == Route(e.method, input, FALSE, headers, model)
            chosen == IF model # NoModel THEN ModelProvider(model)
                      ELSE IF headers THEN "anthropic" ELSE "codex"
            anthropic == [at |-> "anthropic", path |-> <<"v1">> \o e.path]
        IN to = CASE e.path[1] = "messages" -> anthropic
                  [] e.path[1] = "responses" -> [at |-> "codex", path |-> e.path]
                  [] e.path[1] = "backend-api" -> [at |-> "codex", path |-> <<"responses">>]
                  [] e.path[1] = "chat" -> [at |-> "chat", path |-> <<chosen>>]
                  [] e.path[1] = "health" -> Here("health")
                  [] e.path[1] = "models" -> IF headers THEN anthropic ELSE Here("list")

(* Every request that names an endpoint goes there in the form it takes.     *)
RequestForwarded == BodyAccepted /\ EndpointsServed

--------------------------------------------------------------------------------

(* The headers that go up are those of the official client: the credential   *)
(* of the proxy and never the client's, one line for each name, the client's *)
(* own betas in the last line it sent, each once, and that of OAuth unless   *)
(* one contains its name (passthrough.rs:708).                               *)
SentRight(client, account, stream) ==
  LET cred == [token |-> "ours", account_id |-> account]
      has(n) == n \in DOMAIN client
      a == UpstreamHeaders("anthropic", cred, client, stream)
      c == UpstreamHeaders("codex", cred, client, stream)
      listed == IF has("anthropic-beta") THEN Range(Last(client["anthropic-beta"])) ELSE {}
      betas == a["anthropic-beta"][1]
  IN /\ \A h \in {a, c} :
          /\ h.authorization = <<"ours">> /\ "x-api-key" \notin DOMAIN h
          /\ h.user_agent # <<"theirs">>
          /\ \A n \in DOMAIN h : Len(h[n]) = 1
     /\ IsInjective(betas)
     /\ Range(betas) = IF listed \cap ContainsOauth = {} THEN listed \cup {Oauth} ELSE listed
     /\ \A n \in {"anthropic-version", "anthropic-direct"} : has(n) => a[n] = client[n]
     /\ c["session_id"] = IF has("session_id") THEN client["session_id"] ELSE <<"proxy">>
     /\ ("chatgpt-account-id" \in DOMAIN c) = (account # "none")

HeadersRight ==
  about = "headers" =>
    \A stream \in BOOLEAN, account \in {"none", "id"} : SentRight(input, account, stream)

(* Three attempts at most, one after a 401 and none after an answer that     *)
(* asks for a longer wait than eight seconds.                                *)
TriedRight(replies) ==
  LET early == {k \in DOMAIN replies : k < Len(replies)}
      patient(k) == ~("retry-after" \in DOMAIN replies[k].headers
                      /\ replies[k].headers["retry-after"][1] > 8)
  IN /\ Len(replies) <= AttemptLimit /\ Upstream(replies).waited <= 16
     /\ Cardinality({k \in early : replies[k].status = 401}) <= 1
     /\ \A k \in early : /\ replies[k].status \notin {200, 400, 404, 429}
                         /\ replies[k].status = 401 \/ patient(k)

(* Its status and its text are the upstream's, an error has the form of an   *)
(* official one, `retry-after` and the request ids stay with it, and no      *)
(* header of the connection is passed on.                                    *)
AnsweredRight(replies, last, dialect) ==
  LET target == Resolve("codex", <<"responses">>)
      out == Handle(target, DecodeRequestBody("zstd", "zstd", TRUE), replies, dialect)
      kept == {"retry-after", "request-id", "x-request-id"} \cap DOMAIN last.headers
  IN /\ kept \subseteq DOMAIN out.headers /\ \A n \in kept : out.headers[n] = last.headers[n]
     /\ DOMAIN out.headers \cap HopByHop = {}
     /\ last.status = 200 => out.shape = "success" /\ out.headers = EndToEnd(last.headers)
     /\ last.status # 200 => out.shape \in {"anthropic", dialect} /\ out.status >= 400
     /\ last.status # 0 => out.status = last.status
     /\ last.text # "none" => out.text = last.text

(* The client gets the answer to the last attempt (passthrough.rs:229).      *)
AnswerRight ==
  about = "replies" /\ Upstream(input).over =>
    /\ TriedRight(input)
    /\ \A dialect \in {"anthropic", "openai"} : AnsweredRight(input, Last(input), dialect)

(* What goes up is the proxy's and what comes down the upstream's.           *)
ExchangeRight == HeadersRight /\ AnswerRight
================================================================================
