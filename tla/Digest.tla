---------------------------------- MODULE Digest ----------------------------------
(***************************************************************************)
(* src/reqlog.rs `digest`: the tokens and the error a line of the log says *)
(* of an answer, beside the usage that the chat converters make of the     *)
(* same stream.  A usage object is a function from the fields it has to    *)
(* numbers; a frame has the usages and the errors in the order in which    *)
(* `digest` looks for them: at the top, in `message`, in `response`.       *)
(***************************************************************************)
EXTENDS Integers, Sequences, SequencesExt

At(usage, field) == IF field \in DOMAIN usage THEN usage[field] ELSE 0

Tokens(input, output, cached, write) ==
  [input |-> input, output |-> output, cached |-> cached, cache_write |-> write]

NoTokens == Tokens(0, 0, 0, 0)

(* Mutant: what was read from the cache is not added to the input. *)
TokensOfUncached(u) ==
  IF "prompt_tokens" \in DOMAIN u
  THEN Tokens(At(u, "prompt_tokens"), At(u, "completion_tokens"), At(u, "cached_tokens"), 0)
  ELSE Tokens(At(u, "input_tokens"), At(u, "output_tokens"),
              At(u, "cache_read") + At(u, "cached_tokens"),
              At(u, "cache_creation") + At(u, "cache_write_tokens"))

(* Tokens::of *)
TokensOf(u) ==
  IF "prompt_tokens" \in DOMAIN u
  THEN Tokens(At(u, "prompt_tokens"), At(u, "completion_tokens"), At(u, "cached_tokens"), 0)
  ELSE IF DOMAIN u \cap {"cache_read", "cache_creation"} # {}
  THEN Tokens(At(u, "input_tokens") + At(u, "cache_read") + At(u, "cache_creation"),
              At(u, "output_tokens"), At(u, "cache_read"), At(u, "cache_creation"))
  ELSE Tokens(At(u, "input_tokens"), At(u, "output_tokens"),
              At(u, "cached_tokens"), At(u, "cache_write_tokens"))

(* Tokens::merge, of each in turn: no count falls. *)
Merge(t, usages) ==
  [field \in DOMAIN t |->
     Max({t[field]} \cup {TokensOf(usages[k])[field] : k \in DOMAIN usages})]

(* An error is "null", or the text that error_text makes of it. *)
ErrorText(errors) ==
  LET told == {k \in DOMAIN errors : errors[k] # "null"}
  IN IF told = {} THEN "none" ELSE errors[Min(told)]

(* `text` is the message of a frame that tells of an error. *)
Frame(kind, usages, errors, text) ==
  [kind |-> kind, usages |-> usages, errors |-> errors, text |-> text]

(* A frame that is no JSON is passed over. *)
Absorb(found, frame) ==
  IF frame.kind = "garbled" THEN found
  ELSE [tokens |-> Merge(found.tokens, frame.usages),
        error |-> IF found.error = "none" THEN ErrorText(frame.errors) ELSE found.error]

(* What is found in the first k frames; one object counts as one frame. *)
Found(frames) ==
  LET found[k \in 0..Len(frames)] ==
        IF k = 0 THEN [tokens |-> NoTokens, error |-> "none"] ELSE Absorb(found[k - 1], frames[k])
  IN found

(* An answer that failed without an envelope is its own error text. *)
DigestOf(status, frames) ==
  [Found(frames)[Len(frames)] EXCEPT !.error = IF status >= 400 /\ @ = "none" THEN "body" ELSE @]

--------------------------------------------------------------------------------
(* The usage a chat client is told of: the prompt is that of the first frame *)
(* of an Anthropic stream, the completion that of its last.                  *)

ChatObject(prompt, completion, cached) ==
  [prompt_tokens |-> prompt, completion_tokens |-> completion, cached_tokens |-> cached]

AnthropicUsage(tr, frame) ==
  CASE frame.kind = "message_start" ->
         LET u == frame.usages[1]
         IN [tr EXCEPT !.cached = At(u, "cache_read"),
                       !.prompt = At(u, "input_tokens") + At(u, "cache_read")
                                    + At(u, "cache_creation")]
    [] frame.kind = "message_delta" ->
         [tr EXCEPT !.told = <<ChatObject(tr.prompt, At(frame.usages[1], "output_tokens"),
                                          tr.cached)>>]
    [] OTHER -> tr

CodexUsage(tr, frame) ==
  IF frame.kind = "completed"
  THEN LET u == frame.usages[1]
       IN [tr EXCEPT !.told = <<ChatObject(At(u, "input_tokens"), At(u, "output_tokens"),
                                           At(u, "cached_tokens"))>>]
  ELSE tr

Hear(provider, tr, frame) ==
  IF provider = "anthropic" THEN AnthropicUsage(tr, frame) ELSE CodexUsage(tr, frame)

(* What the translator has heard in the first k frames. *)
Heard(provider, frames) ==
  LET heard[k \in 0..Len(frames)] ==
        IF k = 0 THEN [prompt |-> 0, cached |-> 0, told |-> <<>>]
        ELSE Hear(provider, heard[k - 1], frames[k])
  IN heard

(* What the client gets in the end, as frames: the usage, or the error that  *)
(* left the loop, whose message is taken from where the provider puts it.    *)
ChatFrames(provider, frames) ==
  LET end == frames[Len(frames)]
  IN IF end.kind = "error" THEN <<Frame("error", <<>>, <<end.text>>, end.text)>>
     ELSE <<Frame("usage", Heard(provider, frames)[Len(frames)].told, <<>>, "none")>>

(* aggregate_responses: the response object, or the error in an envelope. *)
ResponsesFrames(frames) ==
  LET end == frames[Len(frames)]
  IN IF end.kind = "error" THEN <<Frame("error", <<>>, <<end.text>>, end.text)>>
     ELSE <<Frame("object", end.usages, end.errors, "none")>>
================================================================================
