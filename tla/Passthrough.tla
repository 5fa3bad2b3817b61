------------------------------- MODULE Passthrough -------------------------------
(***************************************************************************)
(* src/passthrough.rs, server.rs `route`, convert/mod.rs `model_provider`: *)
(* where a request goes and what is changed in its body.  A path is the    *)
(* sequence of its segments, a body a function from the keys it has; the   *)
(* provider's name stands for its credential and its host.                 *)
(***************************************************************************)
EXTENDS Sequences, SequencesExt, Functions, FiniteSets

(* `while let Some(rest) = p.strip_prefix("/v1")` *)
StripV1(path) ==
  LET other == {i \in DOMAIN path : path[i] # "v1"}
  IN IF other = {} THEN <<>>
     ELSE SubSeq(path, CHOOSE i \in other : \A j \in other : i <= j, Len(path))

SubPath(path, prefix) == IsPrefix(prefix, path)

(* model_provider: a vendor that is known goes before the family's name. *)
ModelProvider(model) ==
  IF model.vendor \in {"anthropic", "codex"} THEN model.vendor
  ELSE IF model.claude THEN "anthropic" ELSE "codex"

NoModel == [vendor |-> "none", claude |-> FALSE]

(* surface_for *)
SurfaceFor(path, anthropicHeaders, model) ==
  LET p == StripV1(path)
  IN CASE SubPath(p, <<"messages">>) \/ SubPath(p, <<"complete">>) -> "anthropic"
       [] SubPath(p, <<"responses">>) \/ SubPath(p, <<"backend-api", "codex">>) -> "codex"
       [] p = <<"chat", "completions">> /\ model # NoModel -> ModelProvider(model)
       [] OTHER -> IF anthropicHeaders THEN "anthropic" ELSE "codex"

(* Dialect::of *)
Dialect(surface, anthropicHeaders) ==
  IF surface = "anthropic" /\ anthropicHeaders THEN "anthropic" ELSE "openai"

NotFound == [at |-> "404", path |-> <<>>]

(* Mutant: the path is looked at as the client wrote it. *)
ResolveUnstripped(surface, path) ==
  CASE surface = "anthropic" /\ SubPath(path, <<"v1">>) -> [at |-> "anthropic", path |-> path]
    [] surface = "codex" /\ SubPath(path, <<"responses">>) -> [at |-> "codex", path |-> path]
    [] OTHER -> NotFound

Resolve(surface, path) ==
  LET p == StripV1(path)
      ours == \E pre \in {"messages", "models", "complete"} : SubPath(p, <<pre>>)
  IN CASE surface = "anthropic" /\ ours -> [at |-> "anthropic", path |-> <<"v1">> \o p]
       [] surface = "codex" /\ SubPath(p, <<"responses">>) -> [at |-> "codex", path |-> p]
       [] surface = "codex" /\ SubPath(p, <<"backend-api", "codex">>) ->
            [at |-> "codex", path |-> SubSeq(p, 3, Len(p))]
       [] OTHER -> NotFound

Here(what) == [at |-> what, path |-> <<>>]

(* dispatch and route *)
Route(method, path, upgrade, anthropicHeaders, model) ==
  LET p == StripV1(path)
      surface == SurfaceFor(path, anthropicHeaders,
                            IF p = <<"chat", "completions">> THEN model ELSE NoModel)
      list == method = "GET" /\ Dialect(surface, anthropicHeaders) = "openai"
  IN IF upgrade THEN Here("426")
     ELSE CASE p = <<"health">> -> Here("health")
            [] p = <<"chat", "completions">> /\ method = "POST" ->
                 [at |-> "chat", path |-> <<surface>>]
            [] p = <<"models">> /\ list -> Here("list")
            [] Len(p) > 1 /\ SubPath(p, <<"models">>) /\ list -> Here("model")
            [] OTHER -> Resolve(surface, path)

--------------------------------------------------------------------------------
(* The body.  A text is a sequence of marks, and `system` a record: its kind *)
(* is "string", "blocks" or "odd", and a string counts as its one block.     *)

Prefix == <<0>>

Without(body, keys) == Restrict(body, DOMAIN body \ keys)
With(body, key, val) ==
  [k \in DOMAIN body \cup {key} |-> IF k = key THEN val ELSE body[k]]

(* The keys of f, and those of g that f lacks. *)
Over(f, g) == [k \in DOMAIN f \cup DOMAIN g |-> IF k \in DOMAIN f THEN f[k] ELSE g[k]]

NoSystem == [kind |-> "blocks", blocks |-> <<>>]
System(body) == IF "system" \in DOMAIN body THEN body["system"] ELSE NoSystem

(* Mutant: the prefix is put before whatever there is. *)
InjectAlways(body) ==
  With(body, "system", [kind |-> "blocks", blocks |-> <<Prefix>> \o System(body).blocks])

(* inject_claude_code_prefix: a `system` of another shape is left to the upstream. *)
InjectPrefix(body) ==
  LET blocks == System(body).blocks
      gated == blocks # <<>> /\ blocks[1] = Prefix
  IN IF System(body).kind = "odd" THEN body
     ELSE With(body, "system", [kind |-> "blocks",
                                blocks |-> IF gated THEN blocks ELSE <<Prefix>> \o blocks])

SamplingKeys == {"temperature", "top_p", "top_k"}
CodexDropKeys == {"metadata", "user", "safety_identifier", "max_output_tokens", "max_tokens"}

(* normalize_codex *)
NormalizeCodex(body) ==
  LET always == With(With(Without(body, CodexDropKeys), "stream", TRUE), "store", FALSE)
      told == IF "instructions" \in DOMAIN body THEN always ELSE With(always, "instructions", "")
  IN IF "input" \in DOMAIN body /\ body["input"].kind = "string"
     THEN With(told, "input", [kind |-> "list", text |-> body["input"].text])
     ELSE told

(* prepare_body, of a JSON object *)
Prepare(target, body) ==
  LET stream == "stream" \in DOMAIN body /\ body["stream"]
  IN CASE target.at = "anthropic" /\ SubPath(target.path, <<"v1", "messages">>) ->
            [body |-> Without(InjectPrefix(body), SamplingKeys),
             upstream_stream |-> stream, aggregate_responses |-> FALSE]
       [] target.at = "codex" /\ target.path = <<"responses">> ->
            [body |-> NormalizeCodex(body), upstream_stream |-> TRUE,
             aggregate_responses |-> ~stream]
       [] OTHER -> [body |-> body, upstream_stream |-> stream, aggregate_responses |-> FALSE]
================================================================================
