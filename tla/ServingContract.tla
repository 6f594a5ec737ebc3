---------------------------- MODULE ServingContract ----------------------------
(***************************************************************************)
(* What the serving engine promises to the tasks that submit requests      *)
(* (ServingHandle::try_submit, PreparedRequest, ServingCompletion in       *)
(* src/engine/serving_base.rs): a submitted request is answered once, by a *)
(* completion or by a rejection, and the tokens streamed meanwhile are     *)
(* those of the completion.  Only if the owner thread fails are answers    *)
(* lost, and then all that are pending, and nothing is accepted any more.  *)
(*                                                                         *)
(* RadixOwner is shown to implement this.                                  *)
(***************************************************************************)
EXTENDS Integers, Sequences

CONSTANTS
  Request,     \* requests, each submitted at most once
  Token,       \* token ids
  EosToken,    \* the token that ends a generation
  LimitOf,     \* request -> maximum_new_tokens
  Streaming,   \* requests with a token stream
  IgnoreEos    \* requests with stop_on_eos = false

VARIABLES
  status,    \* request -> where its answer stands
  streamed,  \* request -> tokens received from its stream so far
  reply      \* request -> its completion, once there is one

contract_vars == <<status, streamed, reply>>

NoReply == [tokens |-> << >>, reason |-> "none"]

ContractInit ==
  /\ status = [r \in Request |-> "idle"]
  /\ streamed = [r \in Request |-> << >>]
  /\ reply = [r \in Request |-> NoReply]

OwnerLost == \E r \in Request : status[r] = "lost"

\* Accepted unless the answers of earlier requests were lost; refused when the
\* queue is full or the owner is gone.
Submit(r) ==
  /\ status[r] = "idle"
  /\ \E verdict \in {"pending", "refused"} :
       /\ verdict = "pending" => ~OwnerLost
       /\ status' = [status EXCEPT ![r] = verdict]
  /\ UNCHANGED <<streamed, reply>>

\* A generated token; the end-of-sequence token is not one of them.
Generated(r, token) == token # EosToken \/ r \in IgnoreEos

Stream(r, token) ==
  /\ status[r] = "pending"
  /\ r \in Streaming
  /\ Generated(r, token)
  /\ Len(streamed[r]) < LimitOf[r]
  /\ streamed' = [streamed EXCEPT ![r] = Append(@, token)]
  /\ UNCHANGED <<status, reply>>

\* A completion has exactly the streamed tokens, one more if the stream was
\* given up by its reader.
Completes(r, tokens, reason) ==
  /\ \A i \in 1 .. Len(tokens) : Generated(r, tokens[i])
  /\ \/ reason = "stop" /\ r \notin IgnoreEos /\ Len(tokens) < LimitOf[r]
     \/ reason = "length" /\ Len(tokens) = LimitOf[r]
     \/ reason = "abort" /\ r \in Streaming /\ Len(tokens) \in 1 .. LimitOf[r]
  /\ r \in Streaming =>
       streamed[r] = IF reason = "abort" THEN SubSeq(tokens, 1, Len(tokens) - 1) ELSE tokens

Complete(r, answer) ==
  /\ status[r] = "pending"
  /\ Completes(r, answer.tokens, answer.reason)
  /\ status' = [status EXCEPT ![r] = "completed"]
  /\ reply' = [reply EXCEPT ![r] = answer]
  /\ UNCHANGED streamed

\* Turned down before anything was generated for it.
Reject(r) ==
  /\ status[r] = "pending"
  /\ streamed[r] = << >>
  /\ status' = [status EXCEPT ![r] = "rejected"]
  /\ UNCHANGED <<streamed, reply>>

\* The owner thread fails and every pending answer with it.
Lose ==
  /\ \E r \in Request : status[r] = "pending"
  /\ status' = [r \in Request |-> IF status[r] = "pending" THEN "lost" ELSE status[r]]
  /\ UNCHANGED <<streamed, reply>>

Answer(r) ==
  [tokens : UNION {[1 .. n -> Token] : n \in 0 .. LimitOf[r]},
   reason : {"stop", "length", "abort"}]

ContractNext ==
  \/ \E r \in Request :
       \/ Submit(r)
       \/ \E token \in Token : Stream(r, token)
       \/ status[r] = "pending" /\ \E answer \in Answer(r) : Complete(r, answer)
       \/ Reject(r)
  \/ Lose

ContractSpec == ContractInit /\ [][ContractNext]_contract_vars
=============================================================================
