------------------------------- MODULE Frontend -------------------------------
(***************************************************************************)
(* One HTTP connection of the frontend (src/server/mod.rs): the task that  *)
(* serves it, its client, who may stop sending and reading for a while, or *)
(* leave, at any moment, and the engine, taken as what ServingContract     *)
(* promises.  A streaming task writes text   *)
(* while tokens arrive, holds back what may become a stop word, gives up   *)
(* its end of the token channel at a stop word or when a write fails, and  *)
(* then waits for the completion; a task that does not stream waits for    *)
(* the completion and answers at once.  Connections share nothing but the  *)
(* engine, which may refuse one for the sake of the others.                *)
(***************************************************************************)
EXTENDS Integers, Sequences, FiniteSets, StopWords, HttpRequests, StructuredOutput

CONSTANTS
  Token, EosToken,   \* a model asked for JSON writes symbols of StructuredOutput
  BytesOf,     \* token -> its bytes; none for special tokens
  Requests,    \* HTTP requests a client may send
  Limits       \* values of maximum_new_tokens they ask for

VARIABLES
  pc,          \* where the task stands
  http,        \* the HTTP request it serves
  request,     \* what that was parsed to: a task or an error
  read,        \* tokens received from the channel: accumulated_tokens
  emitted,     \* emitted_text
  stopped,     \* a stop word matched or a write failed
  dropped,     \* the receiver of the token channel was given up
  client,      \* "here", "stalled" (neither sends nor reads) or "gone"
  frames,      \* what was written to the client, in order
  status, streamed, reply

connection_vars == <<pc, http, request, read, emitted, stopped, dropped, frames>>
engine_vars == <<status, streamed, reply>>
vars == <<connection_vars, client, engine_vars>>

\* A streamed request has a token channel, any other has none.
Tickets == {"live", "whole"} \X Limits
Engine == INSTANCE ServingContract WITH
  Request <- Tickets, Streaming <- {"live"} \X Limits, IgnoreEos <- {},
  LimitOf <- [ticket \in Tickets |-> ticket[2]]

IsTask == request.error = "none"
Live == IsTask /\ LiveTask(request)
Ticket == <<IF Live THEN "live" ELSE "whole", request.limit>>

TextOf(tokens) == Decode(FlattenSeq([i \in DOMAIN tokens |-> BytesOf[tokens[i]]]))
Received == SubSeq(streamed[Ticket], 1, read)

FrontendInit ==
  /\ Engine!ContractInit
  /\ pc = "reading"
  /\ http \in Requests
  /\ request = Parsed(http)
  /\ read = 0
  /\ emitted = << >>
  /\ stopped = FALSE
  /\ dropped = FALSE
  /\ client = "here"
  /\ frames = << >>

----------------------------------------------------------------------------
(* Writing.                                                                *)

Frame(kind, text) == [kind |-> kind, text |-> text]

\* Once the client is gone a write may still succeed for a while.  While it
\* stalls a write succeeds as long as the socket takes bytes and then waits,
\* without a timeout: a step of the task that writes need not come.
WriteOutcomes == IF client = "gone" THEN BOOLEAN ELSE {TRUE}
Wrote(new) == frames' = IF client = "gone" THEN frames ELSE frames \o new

Marks(kinds) == [i \in DOMAIN kinds |-> Frame(kinds[i], << >>)]
Headers ==
  Marks(<<"headers">> \o
        IF request.protocol = "sse" /\ request.chat THEN <<"role">> ELSE << >>)

\* mutant: the token that ends the sequence is counted
FinishCountingEos ==
  [kind |-> "finish", text |-> << >>, reason |-> reply[Ticket].reason, tokens |-> read + 1]

\* The usage and the reason of the last chunk of a stream.
Finish ==
  LET reason == IF stopped THEN "stop" ELSE reply[Ticket].reason
  IN [kind |-> "finish", text |-> << >>, reason |-> reason, tokens |-> read]
Ending ==
  Marks((IF request.protocol = "sse" THEN <<"done">> ELSE << >>) \o <<"end">>)

Closed == pc' = "closed"

----------------------------------------------------------------------------
(* handle_connection                                                       *)

\* read_request fails: the connection closes without an answer.
Unreadable ==
  /\ pc = "reading"
  /\ Closed
  /\ UNCHANGED <<http, request, read, emitted, stopped, dropped, frames, client, engine_vars>>

\* A route that generates nothing, a body that does not parse and a prompt that
\* cannot be tokenized are answered without the engine.
AnswerAtOnce ==
  /\ pc = "reading"
  /\ Wrote(<<Frame(IF Endpoint(http) \in Generating \cup {"unknown", "unknown model"} THEN "error" ELSE "answer", << >>)>>)
  /\ Closed
  /\ UNCHANGED <<http, request, read, emitted, stopped, dropped, client, engine_vars>>

\* try_submit: refused with 503 when the admission queue is full; a streaming
\* task sends its headers before it knows whether the engine rejects the request.
Submit ==
  /\ pc = "reading"
  /\ IsTask
  /\ Engine!Submit(Ticket)
  /\ IF status'[Ticket] = "refused"
     THEN /\ Wrote(<<Frame("error", << >>)>>)
          /\ Closed
          /\ UNCHANGED dropped
     ELSE \E written \in IF Live THEN WriteOutcomes ELSE {TRUE} :
            /\ Wrote(IF Live THEN Headers ELSE << >>)
            /\ pc' = IF ~Live THEN "waiting" ELSE IF written THEN "streaming" ELSE "closed"
            /\ dropped' = ~written
  /\ UNCHANGED <<http, request, read, emitted, stopped, client>>

----------------------------------------------------------------------------
(* execute_live_streaming_task                                             *)

\* mutant: broken characters are sent as they come
Decided(text) == FALSE

\* More bytes are needed before the end of the text is known.
Undecided(text) == IsSuffix(Replacement, text)

Emit(delta) ==
  /\ emitted' = emitted \o delta
  /\ Wrote(<<Frame("delta", delta)>>)

Keep == UNCHANGED <<emitted, stopped, dropped, frames, pc>>

\* The receiver is given up: the engine finds out when it sends the next token.
GiveUp == stopped' = TRUE /\ dropped' = TRUE /\ pc' = "waiting"

Match(text) == CheckStopMatch(text, request.stop)

\* What comes before the stop word is sent if it was not yet.
AtStopWord(text) ==
  /\ LET delta == Delta(SubSeq(text, 1, Match(text)), emitted)
     IN IF delta = << >> THEN UNCHANGED <<emitted, frames>> ELSE Emit(delta)
  /\ GiveUp

\* The text that can no longer become part of a stop word is sent.
PassOn(text) ==
  LET safe == SubSeq(text, 1, Len(text) - LongestStopPrefix(text, request.stop))
      delta == Delta(safe, emitted)
  IN IF delta = << >> \/ (request.stop # {} /\ Len(safe) <= Len(emitted)) THEN Keep
     ELSE \E written \in WriteOutcomes :
            IF written THEN Emit(delta) /\ UNCHANGED <<stopped, dropped, pc>>
            ELSE GiveUp /\ UNCHANGED <<emitted, frames>>

\* A panic ends the task: the connection closes without another byte.
Panic ==
  /\ dropped' = TRUE
  /\ Closed
  /\ UNCHANGED <<emitted, stopped, frames>>

ReceiveToken ==
  /\ pc = "streaming"
  /\ read < Len(streamed[Ticket])
  /\ read' = read + 1
  /\ \E text \in {TextOf(SubSeq(streamed[Ticket], 1, read + 1))} :
       IF Undecided(text) THEN Keep
       ELSE IF Match(text) # NoMatch THEN AtStopWord(text)
       ELSE IF SlicePanics(text, request.stop) THEN Panic
       ELSE PassOn(text)
  /\ UNCHANGED <<http, request, client, engine_vars>>

\* recv returns None: the engine has dropped its end and the channel is drained.
ChannelClosed == status[Ticket] # "pending" /\ read = Len(streamed[Ticket])

ChannelEnds ==
  /\ pc = "streaming"
  /\ ChannelClosed
  /\ dropped' = TRUE
  /\ pc' = "waiting"
  /\ UNCHANGED <<http, request, read, emitted, stopped, client, frames, engine_vars>>

\* mutant: the text held back is forgotten
RestForgotten == << >>

\* The text held back is sent, without its tags and broken characters.
Rest == IF stopped THEN << >> ELSE Delta(Cleaned(TextOf(Received)), emitted)

\* mutant: an engine that stops answers nobody
AnsweredByEngine == status[Ticket] \in {"completed", "rejected"}

Answered == status[Ticket] \in {"completed", "rejected", "lost"}

FinishStream ==
  /\ pc = "waiting"
  /\ Live
  /\ Answered
  /\ Closed
  /\ IF status[Ticket] = "completed"
     THEN \E rest \in {Rest} :
            Wrote((IF rest = << >> THEN << >> ELSE <<Frame("delta", rest)>>)
                  \o <<Finish>> \o Ending)
     ELSE Wrote(Marks(<<"end">>))
  /\ UNCHANGED <<http, request, read, emitted, stopped, dropped, client, engine_vars>>

----------------------------------------------------------------------------
(* execute_generation_task: the completion is decoded, cut at the first    *)
(* stop word and sent in one piece, cleaned if JSON was asked for, to an   *)
(* OpenAI client that asked for a stream as the events of one.             *)

WholeText == CutAtStop(TextOf(reply[Ticket].tokens), request.stop)
WholeAnswer ==
  LET final ==
        [kind |-> "finish", text |-> << >>,
         reason |-> StopReason(TextOf(reply[Ticket].tokens), request.stop, reply[Ticket].reason),
         tokens |-> Len(reply[Ticket].tokens)]
      piece == IF request.structured THEN Frame("json", Clean(WholeText)) ELSE Frame("delta", WholeText)
  IN IF request.stream /\ request.protocol = "sse"
     THEN Marks(<<"role">>) \o <<piece, final>> \o Marks(<<"done">>)
     ELSE <<piece, final>>

\* The panic ends the task before anything was written.
CleaningPanics == request.structured /\ Clean(WholeText) = Panicked

AnswerWhole ==
  /\ pc = "waiting"
  /\ ~Live
  /\ Answered
  /\ Closed
  /\ Wrote(CASE status[Ticket] # "completed" -> <<Frame("error", << >>)>>
             [] status[Ticket] = "completed" /\ CleaningPanics -> << >>
             [] OTHER -> WholeAnswer)
  /\ UNCHANGED <<http, request, read, emitted, stopped, dropped, client, engine_vars>>

----------------------------------------------------------------------------

\* The client stops sending its request or reading its answer; also a client
\* whose network is down without the socket noticing.
ClientStalls ==
  /\ client = "here"
  /\ pc # "closed"
  /\ client' = "stalled"
  /\ UNCHANGED <<connection_vars, engine_vars>>

ClientReturns ==
  /\ client = "stalled"
  /\ client' = "here"
  /\ UNCHANGED <<connection_vars, engine_vars>>

\* The client leaves: a streaming task finds out when it writes.
ClientLeaves ==
  /\ client # "gone"
  /\ pc # "closed"
  /\ client' = "gone"
  /\ UNCHANGED <<connection_vars, engine_vars>>

\* The engine sends tokens while the receiver is there; the first token it
\* cannot send ends the generation as an abort.
StreamToken ==
  /\ ~dropped
  /\ \E token \in Token : Live /\ Engine!Stream(Ticket, token)
  /\ UNCHANGED <<connection_vars, client>>

Answers ==
  IF Live
  THEN IF dropped
       THEN [tokens : {Append(streamed[Ticket], token) : token \in Token \ {EosToken}},
             reason : {"abort"}]
            \cup [tokens : {streamed[Ticket]}, reason : {"stop", "length"}]
       ELSE [tokens : {streamed[Ticket]}, reason : {"stop", "length"}]
  ELSE LET vocabulary == IF request.structured THEN Symbol ELSE Token
       IN [tokens : UNION {[1 .. n -> vocabulary] : n \in 0 .. request.limit},
           reason : {"stop", "length"}]

CompleteRequest ==
  /\ status[Ticket] = "pending"
  /\ \E answer \in Answers : Engine!Complete(Ticket, answer)
  /\ UNCHANGED <<connection_vars, client>>

RejectRequest == Engine!Reject(Ticket) /\ UNCHANGED <<connection_vars, client>>
LoseEngine == Engine!Lose /\ UNCHANGED <<connection_vars, client>>

TaskStep ==
  \/ Unreadable
  \/ AnswerAtOnce
  \/ Submit
  \/ ReceiveToken
  \/ ChannelEnds
  \/ FinishStream
  \/ AnswerWhole

EngineStep == IsTask /\ (StreamToken \/ CompleteRequest \/ RejectRequest \/ LoseEngine)

Next == TaskStep \/ EngineStep \/ ClientStalls \/ ClientReturns \/ ClientLeaves

\* What every step of the task does to pc and read, and what every answer of
\* the engine does to status: fairness is stated of these.  Reading the request
\* and every write have to wait for a client that stalls.  Only the end of the
\* token channel is noticed without the client; a token may be, but need not.
TaskMoves ==
  \/ client # "stalled" /\ pc = "reading" /\ pc' \in {"streaming", "waiting", "closed"} /\ read' = read
  \/ /\ client # "stalled" /\ pc = "streaming" /\ read < Len(streamed[Ticket])
     /\ pc' \in {"streaming", "waiting", "closed"} /\ read' = read + 1
  \/ pc = "streaming" /\ ChannelClosed /\ pc' = "waiting" /\ read' = read
  \/ client # "stalled" /\ pc = "waiting" /\ Answered /\ pc' = "closed" /\ read' = read

EngineAnswers ==
  /\ IsTask
  /\ status[Ticket] = "pending"
  /\ \E answer \in {"completed", "rejected", "lost"} :
       status' = [status EXCEPT ![Ticket] = answer]

\* The runtime runs a task that can go on, and the engine answers what is
\* pending.  Nothing is assumed of the client: it may stall for ever.
FrontendSpec ==
  FrontendInit /\ [][Next]_vars /\ WF_<<pc, read>>(TaskMoves) /\ WF_status(EngineAnswers)

----------------------------------------------------------------------------

Sent == FlattenSeq([i \in DOMAIN frames |-> frames[i].text])
HasFrame(kind) == \E i \in DOMAIN frames : frames[i].kind = kind
FinalFrame == CHOOSE f \in Range(frames) : f.kind = "finish"

FrontendTypeOK ==
  /\ pc \in {"reading", "streaming", "waiting", "closed"}
  /\ http \in Requests
  /\ read \in Nat
  /\ Live => read <= Len(streamed[Ticket])
  /\ stopped \in BOOLEAN
  /\ dropped \in BOOLEAN
  /\ client \in {"here", "stalled", "gone"}
  /\ status \in [Tickets -> {"idle", "pending", "refused", "completed", "rejected", "lost"}]
  /\ client # "gone" /\ pc = "streaming" => Sent = emitted

\* Nothing that was sent is ever wrong: the text the client has is a prefix of
\* what all the tokens received decode to, although the decoding of the first
\* tokens may end in the middle of a character (mod.rs:541).
NothingSentTooEarly ==
  Live => IsPrefix(Sent, TextOf(Received))

\* Of a stop word not one byte reaches the client, not even when the word spans
\* tokens and its beginning was the end of the text for a while.  The exception
\* is a generation that ends inside a character: its last text is sent
\* unchecked (mod.rs:629).
NoStopWordSent ==
  IF Live
  THEN \A text \in {TextOf(Received)} :
         Match(text) # NoMatch /\ ~Undecided(text) => Len(Sent) <= Match(text)
  ELSE IsTask => CheckStopMatch(Sent, request.stop) = NoMatch

\* What a client reads while the text is generated (mod.rs:534 to 656) is right
\* at every moment: nothing is sent too early and nothing of a stop word.
TextSound == FrontendTypeOK /\ NothingSentTooEarly /\ NoStopWordSent

\* Nothing held back is lost: a stream that ran to its end gave the client the
\* text that the same tokens give a client who does not stream, unless they
\* end in a tag that was sent before it could be taken off.
SameAsWhole ==
  (/\ Live /\ client # "gone" /\ HasFrame("finish") /\ ~stopped
   /\ ~Undecided(TextOf(Received))
   /\ \A tag \in {ImEnd, EndOfText} : Occurrences(TextOf(Received), tag) = {})
  => Sent = CutAtStop(TextOf(reply[Ticket].tokens), request.stop)

\* The last chunk reports the completion: its reason, and as many tokens as it
\* has, unless the stream was given up first, and then no more than it has.
Accounted ==
  (Live /\ HasFrame("finish")) =>
     /\ ~stopped => FinalFrame.reason = reply[Ticket].reason
     /\ ~stopped => FinalFrame.tokens = Len(reply[Ticket].tokens)
     /\ FinalFrame.tokens <= Len(reply[Ticket].tokens)

\* The instruction to answer in JSON is in the prompt, once and first, exactly
\* when the text is cleaned before any of it is sent, and the rest of the prompt
\* is what the client wrote.
CleanedAsInstructed ==
  (IsTask /\ request.chat /\ HasFrame("finish")) =>
    LET instructed == {i \in DOMAIN request.messages : request.messages[i].schema}
        written == [i \in DOMAIN request.messages |-> request.messages[i].role]
    IN /\ instructed = (IF HasFrame("json") THEN {1} ELSE {})
       /\ HasFrame("json") => ~HasFrame("delta") /\ written[1] = "system"
       /\ \/ written = http.body.messages
          \/ HasFrame("json") /\ Tail(written) = http.body.messages

\* A stream of events whose generation was neither turned down nor lost ends with
\* its last chunk and [DONE], but for a stop word with a character of several
\* bytes, at whose inside longest_stop_prefix_len may slice (routes.rs:1305).
Streamed == pc = "closed" /\ client # "gone" /\ HasFrame("headers") /\ request.protocol = "sse"
EndsWithDone ==
  Streamed =>
    \/ HasFrame("finish") /\ HasFrame("done")
    \/ status[Ticket] \in {"rejected", "lost"} /\ Last(frames).kind = "end"
    \/ \E word \in request.stop : \E n \in DOMAIN word : ~Boundary(word, n)

\* The client learns how the generation ended, once and truly, in the form it
\* asked for.
AnswerSound == Accounted /\ CleanedAsInstructed /\ EndsWithDone

\* What clean_structured_output (routes.rs:1394) makes of a text reaches the
\* client as JSON it can parse if the model wrote one value and no other bracket,
\* whatever prose or code fence stands around it: an object always, an array
\* when it stands alone or holds no object.  The client is left without an
\* answer only if the brackets of the text are in the wrong order.
JsonRecovered ==
  (IsTask /\ request.structured /\ pc = "closed" /\ client # "gone" /\ status[Ticket] = "completed") =>
    \E text \in {WholeText} :
      IF frames = << >> THEN Disordered(text)
      ELSE ObjectRecovered(text, Sent) /\ ArrayRecovered(text, Sent)

\* A connection is closed in the end, whatever the engine answers, also when the
\* engine stops, the client leaves, or it stalled and came back.  It stays open
\* only for a client that stalls for ever, or over and over: read_request
\* (mod.rs:849) and write_all (mod.rs:402) have no timeout.
EveryConnectionCloses == <>(pc = "closed") \/ []<>(client = "stalled")

\* Documented: docs/final_release_report.md:91 and
\* scripts/serving/test_all_endpoints.py:107: a stream of events ends with [DONE].
StreamEndsWithDone == Streamed => HasFrame("done")

=============================================================================
