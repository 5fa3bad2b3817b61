--------------------------------- MODULE Exchange ---------------------------------
(***************************************************************************)
(* src/passthrough.rs, the headers of an exchange and the answers that are *)
(* no success.  Headers are a function from the names that are there to    *)
(* the sequence of their lines, in the order they were sent.               *)
(***************************************************************************)
EXTENDS Integers, Passthrough

Line(value) == <<value>>

(* HeaderMap::insert replaces all lines of a name. *)
Own(token, agent, stream) ==
  [authorization |-> Line(token), user_agent |-> Line(agent),
   content_type |-> Line("json"), accept |-> Line(IF stream THEN "sse" ELSE "json")]

(* A list of betas is a sequence; a name may contain that of OAuth. *)
Oauth == "oauth"
ContainsOauth == {Oauth, "oauth-like"}

Unseen(betas, b) == IF b \in Range(betas) THEN betas ELSE Append(betas, b)

(* What is listed after the first k of the betas that are there. *)
Listed(first, current) ==
  LET listed[k \in 0..Len(current)] ==
        IF k = 0 THEN first ELSE Unseen(listed[k - 1], current[k])
  IN listed

(* Mutant: what the client has listed is replaced. *)
OauthBetaOnly(h) == With(h, "anthropic-beta", Line(<<Oauth>>))

EnsureOauthBeta(h) ==
  LET current == IF "anthropic-beta" \in DOMAIN h THEN h["anthropic-beta"][1] ELSE <<>>
      first == IF Range(current) \cap ContainsOauth = {} THEN <<Oauth>> ELSE <<>>
  IN With(h, "anthropic-beta", Line(Listed(first, current)[Len(current)]))

(* Names that start with "anthropic-": the betas, and two that the proxy sets *)
(* itself unless the client does.                                             *)
Semantic == {"anthropic-version", "anthropic-direct", "anthropic-beta"}

(* Each line of the client's replaces the one before. *)
AnthropicHeaders(cred, client, stream) ==
  LET cli == Over([x_app |-> Line("cli")], Own(cred.token, "claude-cli", stream))
      dated == With(cli, "anthropic-version", Line("2023-06-01"))
      theirs == [n \in DOMAIN client \cap Semantic |-> Line(Last(client[n]))]
  IN EnsureOauthBeta(Over(theirs, With(dated, "anthropic-direct", Line("true"))))

CodexHeaders(cred, client, stream) ==
  LET own == Over([originator |-> Line("codex"), version |-> Line("codex"),
                   session_id |-> Line("proxy")], Own(cred.token, "codex-cli", stream))
      known == IF cred.account_id = "none" THEN own
               ELSE With(own, "chatgpt-account-id", Line(cred.account_id))
      kept == DOMAIN client \cap {"session_id", "conversation_id", "openai-beta"}
  IN Over([n \in kept |-> Line(client[n][1])], known)

UpstreamHeaders(provider, cred, client, stream) ==
  IF provider = "anthropic" THEN AnthropicHeaders(cred, client, stream)
  ELSE CodexHeaders(cred, client, stream)

--------------------------------------------------------------------------------
(* decode_request_body: `encoding` is "none" where the header is missing or  *)
(* no text; `packed` says how the bytes are really encoded.                  *)

Undecoded == [ok |-> FALSE, packed |-> "none"]

DecodeRequestBody(encoding, packed, fits) ==
  CASE encoding \in {"none", "identity"} -> [ok |-> TRUE, packed |-> packed]
    [] encoding = "zstd" /\ packed = "zstd" /\ fits -> [ok |-> TRUE, packed |-> "none"]
    [] OTHER -> Undecoded

--------------------------------------------------------------------------------
(* The answer: its status, its headers, the shape of its body and the text  *)
(* that explains an error ("none" where it has none).                       *)

HopByHop == {"connection", "transfer-encoding", "content-length", "keep-alive",
             "access-control-allow-origin"}

EndToEnd(headers) == Without(headers, HopByHop)

Relay(resp) == [resp EXCEPT !.headers = EndToEnd(@)]

(* error_kind *)
ErrorKind(status) ==
  CASE status \in {401, 403} -> "authentication"
    [] status = 404 -> "not_found"
    [] status \in 400..499 \ {401, 403, 404} -> "invalid_request"
    [] OTHER -> "upstream"

(* error_body: the type that an official library turns into an exception. *)
ErrorType(dialect, kind) ==
  IF kind = "upstream" THEN "api_error"
  ELSE IF dialect = "anthropic" /\ kind = "authentication" THEN "authentication_error"
  ELSE IF dialect = "anthropic" /\ kind = "not_found" THEN "not_found_error"
  ELSE "invalid_request_error"

DialectError(dialect, status, kind, text) ==
  [status |-> status, headers |-> [content_type |-> Line("json")], shape |-> dialect,
   type |-> ErrorType(dialect, kind), text |-> text]

(* Where the text stands in a body that is not official; a body that has it *)
(* nowhere is itself the text.                                              *)
TextOf(resp) == IF resp.shape \in {"detail", "message", "error"} THEN resp.text ELSE "body"

Official == {"anthropic", "openai"}  \* `error` is an object

(* Mutant: the envelope is new and so are its headers. *)
NormalizeErrorBare(resp, dialect) ==
  IF resp.shape \in Official THEN Relay(resp)
  ELSE DialectError(dialect, resp.status, ErrorKind(resp.status), TextOf(resp))

NormalizeError(resp, dialect) ==
  LET kept == DOMAIN resp.headers \cap {"retry-after", "request-id", "x-request-id"}
      new == DialectError(dialect, resp.status, ErrorKind(resp.status), TextOf(resp))
  IN IF resp.shape \in Official THEN Relay(resp)
     ELSE [new EXCEPT !.headers = Over([n \in kept |-> Line(resp.headers[n][1])], @)]

NoSeconds == -1  \* what a Retry-After says that is no number, as a date is none

(* retry_wait: the seconds before the next attempt, or -1 for none. *)
RetryWait(attempt, resp) ==
  LET backoff == <<1, 2, 4, 8>>[IF attempt < 4 THEN attempt ELSE 4]
      after == IF "retry-after" \in DOMAIN resp.headers THEN resp.headers["retry-after"][1]
               ELSE NoSeconds
  IN CASE after = NoSeconds -> backoff
       [] after > 8 -> -1
       [] OTHER -> after

--------------------------------------------------------------------------------
(* upstream and handle.  `replies` is what comes of each attempt; the shape  *)
(* tells when no token was to be had, no connection was made ("unreachable") *)
(* or the one made was lost.  A success for a client that wants one object   *)
(* goes to aggregate_responses, which ChatStream has, and is not relayed.    *)

RetryStatuses == {408, 500, 502, 503, 504, 529}
AttemptLimit == 3

Again(tried, resp) ==
  /\ tried.n < AttemptLimit
  /\ \/ resp.shape = "unreachable"
     \/ resp.status = 401 /\ ~tried.rejected
     \/ resp.status \in RetryStatuses /\ RetryWait(tried.n, resp) >= 0

(* One turn of the loop; a 401 is not waited for. *)
Attempt(tried, resp) ==
  LET turn == [tried EXCEPT !.n = @ + 1]
      refused == resp.status = 401
  IN CASE tried.over -> tried
       [] ~tried.over /\ Again(turn, resp) ->
            [turn EXCEPT !.rejected = @ \/ refused,
                         !.waited = IF refused THEN @ ELSE @ + RetryWait(turn.n, resp)]
       [] OTHER -> [turn EXCEPT !.over = TRUE, !.resp = resp]

Asked == [n |-> 0, rejected |-> FALSE, waited |-> 0, over |-> FALSE, resp |-> NotFound]

(* What the loop has come to after each of the replies. *)
Tried(replies) ==
  LET tried[k \in 0..Len(replies)] ==
        IF k = 0 THEN Asked ELSE Attempt(tried[k - 1], replies[k])
  IN tried

Upstream(replies) == Tried(replies)[Len(replies)]

Handle(target, decoded, replies, dialect) ==
  LET resp == Upstream(replies).resp
  IN IF target = NotFound THEN DialectError(dialect, 404, "not_found", "path")
     ELSE IF ~decoded.ok THEN DialectError(dialect, 400, "invalid_request", "encoding")
     ELSE IF resp.shape = "no_token"
     THEN DialectError(dialect, 401, "authentication", resp.text)
     ELSE IF resp.shape \in {"unreachable", "lost"}
     THEN DialectError(dialect, 502, "upstream", resp.text)
     ELSE IF resp.status \in 200..299 THEN Relay(resp) ELSE NormalizeError(resp, dialect)
================================================================================
