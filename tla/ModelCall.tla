----------------------------- MODULE ModelCall ------------------------------
(***************************************************************************)
(* One request to the model: the response cache (src/src/ai/cache.rs)      *)
(* around a provider.  The providers that speak HTTP answer in one body or *)
(* as a stream of server-sent events, which arrives in pieces that need    *)
(* not end where an event does; those that run a command read its output.  *)
(*                                                                         *)
(* A text is abstracted to the number of its parts.  What a provider was   *)
(* sent is the request's key: the cache serves whoever has the same.       *)
(***************************************************************************)
EXTENDS Naturals, Sequences, FiniteSets

CONSTANTS
  Calls,      \* requests at work at once
  Key,        \* [Calls -> key]: the request, but for its tag and signatures
  Providers,  \* a subset of AllProviders to choose from
  Cached,     \* settings.ai.response_cache
  MaxParts,   \* bound on the text of one stream
  MaxPieces,  \* bound on what one read of the body gets, in pieces
  MaxRounds   \* bound on calls and on restarts

AllProviders == {"stream", "openai", "gemini", "claude", "vertex", "bedrock", "command"}

ASSUME ModelCallAssumption ==
  /\ Providers \subseteq AllProviders /\ Cached \in BOOLEAN
  /\ DOMAIN Key = Calls
  /\ MaxParts \in Nat /\ MaxPieces \in Nat /\ MaxRounds \in Nat

VARIABLES
  provider,  \* the provider of the settings
  kept,      \* response_cache: a set of <<key, parts>>
  call,      \* [Calls -> where the call is and what it has so far]
  server,    \* [Calls -> what the server said in this stream]
  given,     \* history: the whole answers providers gave, as <<key, parts>>
  rounds

callVars == <<provider, kept, call, server, given, rounds>>

(* options: the request names stream_options; parts: text accumulated. *)
Idle(c) == [at |-> "idle", options |-> TRUE, buffer |-> <<>>, parts |-> 0]

EventText == {"part", "error", "done"}

(* What a server said before it says anything. *)
Silence == [parts |-> 0, last |-> "end", over |-> "no"]

ModelInit ==
  /\ provider \in Providers
  /\ kept = {} /\ given = {} /\ rounds = 0
  /\ call = [c \in Calls |-> Idle(c)]
  /\ server = [c \in Calls |-> Silence]

-----------------------------------------------------------------------------
(* What becomes of a request, by provider.  Errors tell the daemon whether   *)
(* to wait for the quota, to back off, or to give up.                        *)

Failure == {"transport", "body", "json", "429", "5xx", "denied", "other"}
Class   == {"rate", "transient", "fatal"}

HttpClass(why) ==
  CASE why = "429" -> "rate" [] why = "5xx" -> "transient" [] OTHER -> "fatal"

OpenAiClass(why)  == IF why \in {"transport", "body"} THEN "transient" ELSE HttpClass(why)
GeminiClass(why)  == IF why = "transport" THEN "transient" ELSE HttpClass(why)
ClaudeClass(why)  == HttpClass(why)
VertexClass(why)  == HttpClass(why)
BedrockClass(why) == "fatal"
CommandClass(why) == "fatal"

ClassOf(why) ==
  CASE provider \in {"stream", "openai"} -> OpenAiClass(why)
    [] provider = "gemini"  -> GeminiClass(why)
    [] provider = "claude"  -> ClaudeClass(why)
    [] provider = "vertex"  -> VertexClass(why)
    [] provider = "bedrock" -> BedrockClass(why)
    [] provider = "command" -> CommandClass(why)

(* A body is made an answer unless it has no choice or candidate, or was     *)
(* blocked.  Claude, Bedrock and the commands may answer with no text.       *)
OpenAiAccepts(body)  == body.choice
GeminiAccepts(body)  == body.choice /\ ~body.blocked
ClaudeAccepts(body)  == TRUE
BedrockAccepts(body) == TRUE
CommandAccepts(body) == TRUE

Accepts(body) ==
  CASE provider = "openai" -> OpenAiAccepts(body)
    [] provider = "gemini" -> GeminiAccepts(body)
    [] provider \in {"claude", "vertex"} -> ClaudeAccepts(body)
    [] provider = "bedrock" -> BedrockAccepts(body)
    [] provider = "command" -> CommandAccepts(body)

Body == [choice : BOOLEAN, blocked : BOOLEAN, parts : 0..1]

Ends(c, how)  == call' = [call EXCEPT ![c] = [Idle(c) EXCEPT !.at = how]]
Gives(c, how, parts) ==
  call' = [call EXCEPT ![c] = [Idle(c) EXCEPT !.at = how, !.parts = parts]]

-----------------------------------------------------------------------------
(* The cache.                                                                *)

Begin(c) ==
  /\ call[c].at = "idle" /\ rounds < MaxRounds
  /\ rounds' = rounds + 1
  /\ call' = [call EXCEPT ![c].at = IF Cached THEN "look" ELSE "send"]
  /\ UNCHANGED <<provider, kept, server, given>>

CachedRows(c) == {row \in kept : row[1] = Key[c]}

(* A row that cannot be decoded counts for none. *)
LookUp(c) ==
  /\ call[c].at = "look"
  /\ \/ \E row \in CachedRows(c) : Gives(c, "hit", row[2])
     \/ Ends(c, "send")
     \/ Ends(c, "fatal")                     \* the query fails
  /\ UNCHANGED <<provider, kept, server, given, rounds>>

(* INSERT OR REPLACE; a failure to store is ignored. *)
Keep(c) ==
  /\ call[c].at = "whole"
  /\ Gives(c, "answer", call[c].parts)
  /\ kept' = IF Cached THEN (kept \ CachedRows(c)) \cup {<<Key[c], call[c].parts>>} ELSE kept
  /\ UNCHANGED <<provider, server, given, rounds>>
KeepFails(c) ==
  /\ call[c].at = "whole" /\ Cached
  /\ Gives(c, "answer", call[c].parts)
  /\ UNCHANGED <<provider, kept, server, given, rounds>>

(* The caller has the answer or the error. *)
Done(c) == call[c].at \in {"hit", "answer"} \cup Class
Return(c) ==
  /\ Done(c)
  /\ call' = [call EXCEPT ![c] = Idle(c)]
  /\ UNCHANGED <<provider, kept, server, given, rounds>>

(* The caller gives up: its deadline passes, or the daemon shuts down. *)
Abandon(c) ==
  /\ call[c].at \notin {"idle"} /\ ~Done(c)
  /\ call' = [call EXCEPT ![c] = Idle(c)]
  /\ server' = [server EXCEPT ![c] = Silence]
  /\ UNCHANGED <<provider, kept, given, rounds>>

(* The cache outlives the process; old rows are deleted when it opens, and   *)
(* only then.  The settings may name another provider.                       *)
Restart ==
  /\ rounds < MaxRounds /\ rounds' = rounds + 1
  /\ provider' \in Providers
  /\ \E old \in SUBSET kept : kept' = kept \ old
  /\ call' = [c \in Calls |-> Idle(c)] /\ server' = [c \in Calls |-> Silence]
  /\ UNCHANGED given

-----------------------------------------------------------------------------
(* One body.                                                                 *)

Fail(c) ==
  /\ call[c].at = "send"
  /\ \E why \in Failure : Ends(c, ClassOf(why))
  /\ UNCHANGED <<provider, kept, server, given, rounds>>

Answer(c) ==
  /\ call[c].at = "send" /\ provider # "stream"
  /\ \E body \in Body :
       IF Accepts(body)
       THEN /\ Gives(c, "whole", body.parts)
            /\ given' = given \cup {<<Key[c], body.parts>>}
       ELSE Ends(c, "fatal") /\ UNCHANGED given
  /\ UNCHANGED <<provider, kept, server, rounds>>

-----------------------------------------------------------------------------
(* A stream: an event is its text and the empty line that ends it, or that   *)
(* line alone if it has no data.  Its end may come in a later read.          *)

Piece == EventText \cup {"end"}
Chunk == UNION {[1..n -> Piece] : n \in 1..MaxPieces}

(* The ends of the events of a text, and what the event says that ends there. *)
Lines(buffer) == {i \in DOMAIN buffer : buffer[i] = "end"}
Event(buffer, i) == IF i > 1 /\ buffer[i - 1] # "end" THEN buffer[i - 1] ELSE "none"

(* A text counts up to its first [DONE] or error.                            *)
Overs(buffer) == {i \in Lines(buffer) : Event(buffer, i) \in {"done", "error"}}
Parts(buffer) == {i \in Lines(buffer) : Event(buffer, i) = "part" /\ \A j \in Overs(buffer) : i < j}
IsOver(buffer, how) ==
  IF Overs(buffer) = {} THEN how = "no"
  ELSE \E i \in Overs(buffer) : Event(buffer, i) = how /\ \A j \in Overs(buffer) : i <= j

(* What the server has said, with the event it has not ended and more.       *)
Pending(said) == IF said.last = "end" THEN <<>> ELSE <<said.last>>
LastOf(text)  == IF text = <<>> THEN "end" ELSE text[Len(text)]
Say(said, text, how) ==
  [parts |-> said.parts + Cardinality(Parts(text)), last |-> LastOf(text), over |-> how]

(* The answer that many parts are.  Without text there is none. *)
Whole(c, parts) == {<<Key[c], n>> : n \in {parts} \ {0}}

WellFormed(text) ==
  \A i \in DOMAIN text : i > 1 => "end" \in {text[i - 1], text[i]}

(* The loop of push_bytes goes on while an event ends in the buffer.         *)
Reading(buffer) == IF Lines(buffer) = {} THEN "read" ELSE "push"

(* mutant: one event is taken for each piece of the body. *)
Drain_One(state, i) ==
  [state EXCEPT !.buffer = SubSeq(@, i + 1, Len(@)), !.at = "read"]

(* The event that ends at i is taken from the buffer. *)
Drain(state, i) ==
  LET rest == SubSeq(state.buffer, i + 1, Len(state.buffer)) IN
  [state EXCEPT !.buffer = rest, !.at = Reading(rest)]

IntoResponse(state) == [state EXCEPT !.at = IF state.parts = 0 THEN "fatal" ELSE "whole",
                                     !.buffer = <<>>]

Apply(c, event, state) ==
  CASE event = "done"  -> call' = [call EXCEPT ![c] = IntoResponse(state)]
    [] event = "error" -> \E class \in Class : Ends(c, class)
    [] event = "part"  -> call' = [call EXCEPT ![c] = [state EXCEPT !.parts = @ + 1]]
    [] event = "none"  -> call' = [call EXCEPT ![c] = state]

Open(c) ==
  /\ call[c].at = "send" /\ provider = "stream"
  /\ Ends(c, "read")
  /\ UNCHANGED <<provider, kept, server, given, rounds>>

(* The server does not know stream_options: once more without. *)
OptionsRefused(c) ==
  /\ call[c].at = "send" /\ provider = "stream" /\ call[c].options
  /\ call' = [call EXCEPT ![c].options = FALSE]
  /\ UNCHANGED <<provider, kept, server, given, rounds>>

(* A piece of the body arrives.  What was said before [DONE] is an answer.   *)
Receive(c) ==
  /\ call[c].at = "read"
  /\ \E chunk \in Chunk, how \in {"no", "error", "done"} :
       LET text == Pending(server[c]) \o chunk
           said == Say(server[c], text, how)
           buffer == call[c].buffer \o chunk
       IN
       /\ WellFormed(text) /\ IsOver(text, how) /\ said.parts <= MaxParts
       /\ server' = [server EXCEPT ![c] = said]
       /\ call' = [call EXCEPT ![c].at = Reading(buffer), ![c].buffer = buffer]
       /\ given' = IF how = "done" THEN given \cup Whole(c, said.parts) ELSE given
  /\ UNCHANGED <<provider, kept, rounds>>

(* The next event that ends in the buffer. *)
PushBytes(c) ==
  /\ call[c].at = "push"
  /\ \E i \in Lines(call[c].buffer) :
       /\ \A j \in Lines(call[c].buffer) : i <= j
       /\ Apply(c, Event(call[c].buffer, i), Drain(call[c], i))
  /\ server' = IF call'[c].at \in {"read", "push"} THEN server
               ELSE [server EXCEPT ![c] = Silence]
  /\ UNCHANGED <<provider, kept, given, rounds>>

(* The body ends, [DONE] or not. *)
Close(c) ==
  /\ call[c].at = "read"
  /\ call' = [call EXCEPT ![c] = IntoResponse(@)]
  /\ given' = given \cup Whole(c, server[c].parts)
  /\ server' = [server EXCEPT ![c] = Silence]
  /\ UNCHANGED <<provider, kept, rounds>>

(* The connection breaks, or nothing comes for too long. *)
Break(c) ==
  /\ call[c].at = "read"
  /\ Ends(c, OpenAiClass("body"))
  /\ server' = [server EXCEPT ![c] = Silence]
  /\ UNCHANGED <<provider, kept, given, rounds>>

-----------------------------------------------------------------------------
ModelNext ==
  \/ \E c \in Calls : \/ Begin(c) \/ LookUp(c) \/ Keep(c) \/ KeepFails(c)
                      \/ Return(c) \/ Abandon(c) \/ Fail(c) \/ Answer(c) \/ Open(c)
                      \/ OptionsRefused(c) \/ Receive(c) \/ PushBytes(c)
                      \/ Close(c) \/ Break(c)
  \/ Restart

ModelSpec == ModelInit /\ [][ModelNext]_callVars

-----------------------------------------------------------------------------
ModelTypeOK ==
  /\ provider \in Providers
  /\ kept \subseteq {Key[c] : c \in Calls} \X Nat /\ given \subseteq {Key[c] : c \in Calls} \X Nat
  /\ call \in [Calls -> [at : {"idle", "look", "send", "read", "push", "whole", "hit", "answer"}
                              \cup Class,
                         options : BOOLEAN, buffer : Seq(Piece), parts : Nat]]
  /\ server \in [Calls -> [parts : Nat, last : Piece, over : {"no", "error", "done"}]]
  /\ rounds \in Nat

(* An answer, of the provider or of the cache, has every part that was sent  *)
(* for the same request, and none of them twice, wherever the body was cut;  *)
(* a stream that broke, stalled or carried an error is never an answer, and  *)
(* nothing of it is kept.                                                    *)
AnswerIsWhole ==
  /\ \A c \in Calls : call[c].at \in {"whole", "hit", "answer"} =>
                        <<Key[c], call[c].parts>> \in given
  /\ kept \subseteq given
=============================================================================
