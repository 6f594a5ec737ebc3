----------------------------- MODULE HttpRequests -----------------------------
(***************************************************************************)
(* What the frontend makes of an HTTP request: handle_connection in        *)
(* src/server/mod.rs and the parsers of src/server/routes.rs.  A request   *)
(* is a record: method, path and the fields of its JSON body, an absent    *)
(* field being the value Absent.                                           *)
(***************************************************************************)
EXTENDS Integers, Sequences

CONSTANTS
  Absent,
  DefaultLimit   \* max_tokens of a request that sets none: 128

----------------------------------------------------------------------------
(* The fields of a body.                                                   *)

\* extract_max_tokens: the first of four names that is set, by precedence.
MaxTokensOf(body) ==
  IF body.max_completion_tokens # Absent THEN body.max_completion_tokens
  ELSE IF body.max_tokens # Absent THEN body.max_tokens
  ELSE IF body.max_new_tokens # Absent THEN body.max_new_tokens
  ELSE IF body.num_predict # Absent THEN body.num_predict
  ELSE DefaultLimit

\* build_sampling_config: always greedy, whatever temperature is asked for; a
\* top_k of 0 is refused all the same.
BadSampling(body) == body.top_k = 0

\* extract_schema_constraint: a JSON object is asked for by response_format or,
\* only without one, by format.  An object with a type that is not known counts
\* as no constraint, a bare schema has to come without a type.
Structured(body) ==
  IF body.response_format # Absent
  THEN body.response_format \in {"json_schema", "json_object", "name json", "untyped schema"}
  ELSE body.format \in {"name json", "untyped schema", "typed schema"}

\* The instruction to answer in JSON joins the system message, or becomes one.
Instructed(messages) ==
  IF messages[1].role = "system" THEN [messages EXCEPT ![1].schema = TRUE]
  ELSE <<[role |-> "system", schema |-> TRUE]>> \o messages

Said(roles) == [i \in DOMAIN roles |-> [role |-> roles[i], schema |-> FALSE]]

----------------------------------------------------------------------------
(* The parsers: an error, or the task to run.                              *)

Task(body, messages, stream, chat, structured, protocol) ==
  [error |-> "none", limit |-> MaxTokensOf(body), messages |-> messages, stop |-> body.stop,
   stream |-> stream, chat |-> chat, structured |-> structured, protocol |-> protocol]
Refused(param) == [error |-> param]

\* parse_chat_completion, parse_ollama_chat
ParseChat(body, protocol, stream) ==
  IF ~body.valid THEN Refused("body")
  ELSE IF body.messages = << >> THEN Refused("messages")
  ELSE IF MaxTokensOf(body) = 0 THEN Refused("max_tokens")
  ELSE IF BadSampling(body) THEN Refused("sampling")
  ELSE Task(body,
            IF Structured(body) THEN Instructed(Said(body.messages)) ELSE Said(body.messages),
            stream, TRUE, Structured(body), protocol)

\* parse_completion, parse_ollama_generate: options and formats are not read.
ParseCompletion(body, protocol, stream) ==
  LET known == [body EXCEPT !.num_predict = Absent]
  IN IF ~body.valid THEN Refused("body")
     ELSE IF body.messages = << >> THEN Refused("prompt")
     ELSE IF MaxTokensOf(known) = 0 THEN Refused("max_tokens")
     ELSE IF BadSampling(body) THEN Refused("sampling")
     ELSE Task(known, << >>, stream, FALSE, FALSE, protocol)

\* OpenAI clients stream when they ask for it, Ollama clients unless they say
\* something else, be it null.
OpenAiStream(body) == body.stream = "true"
OllamaStream(body) == body.stream \in {"true", Absent}

----------------------------------------------------------------------------
(* The routes.  The path of a request is the one the code matches: slashes  *)
(* at its end are taken off before.  "<served>" stands for the served      *)
(* model's name or "default" at the end of a path, "<other>" for any other.*)

Endpoint(http) ==
  CASE http.method = "OPTIONS" -> "preflight"
    [] http.method = "GET" /\ http.path \in {"/health", "/v1/health"} -> "health"
    [] http.method = "GET" /\ http.path \in {"/version", "/v1/version", "/api/version"} -> "version"
    [] http.method = "GET" /\ http.path \in {"/models", "/v1/models", "/api/tags"} -> "models"
    [] http.method = "GET" /\ http.path \in {"/models/<served>", "/v1/models/<served>"} -> "model"
    [] http.method = "GET" /\ http.path \in {"/models/<other>", "/v1/models/<other>"} ->
         "unknown model"
    [] http.method = "POST" /\ http.path = "/api/show" -> "show"
    [] http.method = "POST" /\ http.path \in {"/chat/completions", "/v1/chat/completions"} -> "chat"
    [] http.method = "POST" /\ http.path \in {"/completions", "/v1/completions"} -> "completion"
    [] http.method = "POST" /\ http.path = "/api/chat" -> "ollama chat"
    [] http.method = "POST" /\ http.path = "/api/generate" -> "ollama generate"
    [] OTHER -> "unknown"

Generating == {"chat", "completion", "ollama chat", "ollama generate"}

Parsed(http) ==
  CASE Endpoint(http) = "chat" -> ParseChat(http.body, "sse", OpenAiStream(http.body))
    [] Endpoint(http) = "completion" -> ParseCompletion(http.body, "sse", OpenAiStream(http.body))
    [] Endpoint(http) = "ollama chat" -> ParseChat(http.body, "ndjson", OllamaStream(http.body))
    [] Endpoint(http) = "ollama generate" ->
         ParseCompletion(http.body, "ndjson", OllamaStream(http.body))
    [] OTHER -> Refused("route")

\* A task is streamed while it runs unless its text has to be cleaned first.
LiveTask(task) == task.stream /\ ~task.structured
=============================================================================
