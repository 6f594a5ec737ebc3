----------------------------- MODULE MCFrontend -----------------------------
(* A small instance of Frontend: tokens of one byte, of two, of half a     *)
(* character, and a tag spelt out by ordinary tokens.                      *)
EXTENDS Frontend

MCToken == {"a", "ab", "b", "lead", "follow", "tag", "eos"}
MCBytesOf ==
  [token \in MCToken \cup Symbol |->
     CASE token \in Symbol -> <<token>> [] token = "a" -> <<"a">> [] token = "ab" -> <<"a", "b">> [] token = "b" -> <<"b">>
       [] token = "lead" -> <<Lead>> [] token = "follow" -> <<Follow>>
       [] token = "tag" -> ImEnd [] token = "eos" -> << >>]

\* Bodies say nothing unless a request changes that.
Body ==
  [valid |-> TRUE, messages |-> <<"user">>, max_completion_tokens |-> Absent, max_tokens |-> Absent,
   max_new_tokens |-> Absent, num_predict |-> Absent, top_k |-> Absent, stream |-> Absent,
   response_format |-> Absent, format |-> Absent, stop |-> {}]
Post(path, body) == [method |-> "POST", path |-> path, body |-> body]

Long == [Body EXCEPT !.num_predict = 2, !.max_tokens = 4]

\* Requests that stream text while it is generated: the texts are the point.
Streams ==
  {Post("/v1/chat/completions", [Long EXCEPT !.stream = "true", !.stop = stop]) :
     stop \in {{}, {<<"b", "a">>}, {<<"a", "b", "b">>, <<"b", "b">>}}}
  \cup {Post("/api/generate", [Long EXCEPT !.stop = {<<"b", "a">>, <<"b", "b", "a">>}])}

\* Requests of every other kind, with one token or two.
Fields ==
  [messages : {<< >>, <<"user">>, <<"system", "user">>}, max_tokens : {Absent, 0},
   stream : {Absent, "null", "true"}, top_k : {Absent, 0},
   response_format : {Absent, "json_schema", "typed schema"}, format : {Absent, "typed schema"}]
Others ==
  {Post(path, [Body EXCEPT !.messages = f.messages, !.max_tokens = f.max_tokens,
                 !.num_predict = 1, !.stream = f.stream, !.top_k = f.top_k,
                 !.response_format = f.response_format, !.format = f.format]) :
     path \in {"/chat/completions", "/api/chat"}, f \in Fields}
  \cup {Post("/completions", [Body EXCEPT !.max_new_tokens = 2, !.stop = {<<"b", "a">>}]),
        Post("/api/chat", [Body EXCEPT !.valid = FALSE]), Post("/api/show", Body),
        [method |-> "GET", path |-> "/v1/models", body |-> Body],
        [method |-> "GET", path |-> "/v1/models/<other>", body |-> Body],
        [method |-> "GET", path |-> "/api/chat", body |-> Body],
        [method |-> "OPTIONS", path |-> "/api/chat", body |-> Body]}


\* A stop word with a character of two bytes.
Wide ==
  {Post("/chat/completions", [Long EXCEPT !.stream = "true", !.stop = {<<"a", Lead, Follow>>}])}

\* A JSON answer long enough for a value in a code fence.
Json == {Post("/api/chat", [Body EXCEPT !.num_predict = 5, !.format = "name json"])}

MCRequests == Streams \cup Wide \cup Others \cup Json
MCLimits == {1, 2, 4, 5}
=============================================================================
