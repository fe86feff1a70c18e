---- MODULE CodeChat ----
(***************************************************************************)
(* A question to the code of a repository: the loop in which the model     *)
(* asks for tools and gets their results (src/pipelines/code_retrieval.py, *)
(* run and run_stream), and the chat of a team around it, which mines      *)
(* what was said for annotations and memories                              *)
(* (src/enterprise/chat_orchestrator.py).                                  *)
(*                                                                         *)
(* Tools differ in whether they wait for something (and so may finish in   *)
(* any order), in whether they may raise, and in what they answer if there *)
(* is nothing to be found.                                                 *)
(***************************************************************************)
EXTENDS Integers, Sequences, FiniteSets, SequencesExt

CONSTANTS
    Kinds,       \* of chats: subset of {"run", "stream", "team"}
    Tools,       \* subset of {"search", "annotations", "snippets", "symbol",
                 \* "file", "unknown"}
    MaxTurns,    \* MAX_TURNS: model calls of run
    MaxRounds,   \* MAX_TOOL_ROUNDS: rounds of tools of run_stream
    MaxCalls     \* tools the model asks for at once

VARIABLES
    chat,      \* the question: [kind, long, explains, names, crowded]
    pc, turn,
    messages,  \* what the model is given after the question
    calls,     \* calls under way: [tool, result]
    sources,   \* records found so far
    out,       \* what the client has got
    answer,    \* run: what it returns
    mined,     \* team: texts that annotations and memories are taken from
    got        \* history: records that calls have returned

vars == <<chat, pc, turn, messages, calls, sources, out, answer, mined, got>>

Chat == [kind : Kinds,
         long : BOOLEAN,       \* more than 2000 characters
         explains : BOOLEAN,   \* _wants_explanation
         names : {"nothing", "found", "missing"},  \* a file or symbol it is
         crowded : BOOLEAN]    \* team: too long with what is added to it

(* The query is 'path' or 'path:Symbol', of code that is there. *)
FastPath == chat.names = "found"

(* A team's question is checked with what is added to it.                  *)
TooLong == chat.long \/ (chat.kind = "team" /\ chat.crowded)

Streams == chat.kind # "run"
Bound == IF Streams THEN MaxRounds ELSE MaxTurns

(* What a tool may answer. A read that finds nothing says so in a record;  *)
(* a search of annotations or snippets that fails is one that finds none.  *)
SymbolCode == {"some", "missing"}
FileCode == {"some", "missing"}
Annotations == {"some", "none"}
Snippets == {"some", "none"}
Answers(tool) == CASE tool = "symbol"      -> SymbolCode
                   [] tool = "file"        -> FileCode
                   [] tool = "annotations" -> Annotations
                   [] tool = "snippets"    -> Snippets
                   [] tool = "search"      -> {"some", "none"}
                   [] OTHER                -> {"none"}

Waits(tool) == tool \in {"search", "annotations", "snippets"}
Reads(tool) == tool \in {"symbol", "file"}
Raises(tool) == tool = "search" \/ Reads(tool)

Answered == {k \in DOMAIN calls : calls[k].result # "none"}
Returned == {[turn |-> turn, call |-> k, found |-> calls[k].result = "some"] : k \in Answered}

Send(types) == out' = out \o types
Chunk == [type |-> "chunk", turn |-> turn]
Event(type) == [type |-> type, turn |-> turn]
(* With the sources goes how many records there are. *)
SourceEvent(records) == <<[type |-> "sources", turn |-> Cardinality(records)]>>

(* Where the stream of run_stream ends; a team's chat goes on. *)
Over == IF chat.kind = "team" THEN "settle" ELSE "ended"

-----------------------------------------------------------------------------
(* run's checks and fast path, run_stream's check: a question that is a    *)
(* file or symbol is answered without the model.                           *)
Receive ==
    /\ pc = "idle"
    /\ IF TooLong
       THEN /\ pc' = Over
            /\ answer' = IF Streams THEN answer ELSE "too long"
            /\ IF Streams THEN Send(<<Event("error"), Event("done")>>)
                          ELSE UNCHANGED out
       ELSE IF ~Streams /\ FastPath
       THEN pc' = "ended" /\ answer' = "code" /\ UNCHANGED out
       ELSE pc' = "ask" /\ UNCHANGED <<answer, out>>
    /\ UNCHANGED <<chat, turn, messages, calls, sources, mined, got>>

Found(any, type) == IF any THEN <<Event(type)>> ELSE <<>>

(* stream_chat: annotations, instructions and memories that were found are *)
(* sent first; what fails in fetching them is left out.                    *)
LoadContext ==
    /\ pc = "load"
    /\ \E notes, rules, memories \in BOOLEAN :
         Send(Found(notes, "annotations") \o Found(rules, "manager_instructions")
                \o Found(memories, "memory_sources"))
    /\ pc' = "idle"
    /\ UNCHANGED <<chat, turn, messages, calls, sources, answer, mined, got>>

(* A part of the model's text comes: before its tool calls, or as answer.  *)
Speak ==
    /\ Streams /\ pc \in {"ask", "final"}
    /\ Chunk \notin ToSet(out)
    /\ Send(<<Chunk>>)
    /\ UNCHANGED <<chat, pc, turn, messages, calls, sources, answer, mined, got>>

(* The call of the model raises. *)
ModelFails ==
    /\ pc = "ask"
    /\ IF Streams THEN Send(<<Event("error")>>) /\ UNCHANGED answer
                  ELSE answer' = "failed" /\ UNCHANGED out
    /\ pc' = Over
    /\ UNCHANGED <<chat, turn, messages, calls, sources, mined, got>>

(* No tool calls: the model's text is the answer. *)
AnswerNow ==
    /\ pc = "ask"
    /\ IF Streams
       THEN /\ Send((IF sources = {} THEN <<>> ELSE SourceEvent(sources))
                    \o <<Event("done")>>)
            /\ UNCHANGED answer
       ELSE answer' = "text" /\ UNCHANGED out
    /\ pc' = Over
    /\ UNCHANGED <<chat, turn, messages, calls, sources, mined, got>>

CallTools(tools) ==
    /\ pc = "ask"
    /\ calls' = [k \in DOMAIN tools |-> [tool |-> tools[k], result |-> "waiting"]]
    /\ IF Streams THEN Send(<<Event("tool_calls")>>) ELSE UNCHANGED out
    /\ pc' = "tools"
    /\ UNCHANGED <<chat, turn, messages, sources, answer, mined, got>>

(* gather starts the calls in order; those that wait end in any order.     *)
Ready(k) ==
    /\ calls[k].result = "waiting"
    /\ \A j \in DOMAIN calls :
         (~Waits(calls[j].tool) /\ (j < k \/ Waits(calls[k].tool)))
            => calls[j].result # "waiting"

Return(k) ==
    /\ pc = "tools" /\ k \in DOMAIN calls /\ Ready(k)
    /\ \E result \in Answers(calls[k].tool) :
         /\ calls' = [calls EXCEPT ![k].result = result]
         /\ got' = IF result = "none" THEN got ELSE got + 1
    /\ UNCHANGED <<chat, pc, turn, messages, sources, out, answer, mined>>

(* gather raises what one of the calls raises: no result is used. *)
Raise(k) ==
    /\ pc = "tools" /\ k \in DOMAIN calls /\ Ready(k)
    /\ Raises(calls[k].tool)
    /\ IF Streams THEN Send(<<Event("error")>>) /\ UNCHANGED answer
                  ELSE answer' = "failed" /\ UNCHANGED out
    /\ pc' = Over
    /\ UNCHANGED <<chat, turn, messages, calls, sources, mined, got>>

(* Mutant: a call that found nothing gets no message. *)
RoundOfFinds ==
    <<[role |-> "ai", calls |-> [k \in DOMAIN calls |-> <<turn, k>>]]>>
      \o SelectSeq([k \in DOMAIN calls |-> [role |-> "tool", id |-> <<turn, k>>]],
                   LAMBDA m : m.id[2] \in Answered)

(* The model's message, and the result of each call. *)
Round ==
    <<[role |-> "ai", calls |-> [k \in DOMAIN calls |-> <<turn, k>>]]>>
      \o [k \in DOMAIN calls |-> [role |-> "tool", id |-> <<turn, k>>]]

(* run: only code was read and no explanation is wanted.                   *)
ShortCircuits ==
    /\ ~Streams /\ ~chat.explains
    /\ Returned # {}
    /\ \A k \in DOMAIN calls : Reads(calls[k].tool)

Collected == sources \cup Returned

Gather ==
    /\ pc = "tools"
    /\ \A k \in DOMAIN calls : calls[k].result # "waiting"
    /\ messages' = messages \o Round
    /\ sources' = Collected
    /\ turn' = turn + 1
    /\ IF ShortCircuits THEN pc' = "ended" /\ answer' = "code" /\ UNCHANGED out
       ELSE IF turn + 1 < Bound THEN pc' = "ask" /\ UNCHANGED <<answer, out>>
       ELSE IF Streams
       THEN /\ pc' = "final" /\ Send(SourceEvent(Collected))
            /\ UNCHANGED answer
       ELSE pc' = "ended" /\ answer' = "gave up" /\ UNCHANGED out
    /\ calls' = <<>>
    /\ UNCHANGED <<chat, mined, got>>

(* run_stream's last call of the model, without tools; it may raise.       *)
Conclude ==
    /\ pc = "final"
    /\ \E fails \in BOOLEAN :
         Send((IF fails THEN <<Event("error")>> ELSE <<>>) \o <<Event("done")>>)
    /\ pc' = Over
    /\ UNCHANGED <<chat, turn, messages, calls, sources, answer, mined, got>>

Text == {e.turn : e \in {o \in ToSet(out) : o.type = "chunk"}}

(* stream_chat after the stream: annotations are taken from what was said, *)
(* if the user may make some, and it is remembered.                        *)
Settle(annotates, created) ==
    /\ pc = "settle"
    /\ created => annotates
    /\ mined' = [notes |-> annotates, memory |-> TRUE, text |-> Text]
    /\ IF created THEN Send(<<Event("annotations_created")>>) ELSE UNCHANGED out
    /\ pc' = "ended"
    /\ UNCHANGED <<chat, turn, messages, calls, sources, answer, got>>

(* The client goes: the generator ends where it is. *)
Disconnect ==
    /\ Streams /\ pc \notin {"ended", "gone"}
    /\ pc' = "gone"
    /\ UNCHANGED <<chat, turn, messages, calls, sources, out, answer, mined, got>>

Init ==
    /\ chat \in {c \in Chat :
                   /\ c.kind # "run" => ~c.explains /\ c.names = "nothing"
                   /\ c.crowded => c.kind = "team"}
    /\ pc = IF chat.kind = "team" THEN "load" ELSE "idle"
    /\ turn = 0
    /\ messages = <<>> /\ calls = <<>> /\ sources = {} /\ out = <<>>
    /\ answer = "none"
    /\ mined = [notes |-> FALSE, memory |-> FALSE, text |-> {}]
    /\ got = 0

Next ==
    \/ LoadContext \/ Receive \/ Speak \/ ModelFails \/ AnswerNow
    \/ \E tools \in UNION {[1..n -> Tools] : n \in 1..MaxCalls} : CallTools(tools)
    \/ \E k \in 1..MaxCalls : Return(k)
    \/ \E k \in 1..MaxCalls : Raise(k)
    \/ Gather \/ Conclude
    \/ \E annotates, created \in BOOLEAN : Settle(annotates, created)
    \/ Disconnect

Spec == Init /\ [][Next]_vars

-----------------------------------------------------------------------------
(* When the model is asked, each of its messages with calls is followed by *)
(* one result of each, in their order, whatever order they finished in:    *)
(* without one the model's provider refuses the conversation (run,         *)
(* run_stream).                                                            *)
EveryCallIsAnswered ==
    pc = "ask" =>
        \A i \in DOMAIN messages : messages[i].role = "ai" =>
            LET ids == messages[i].calls
                end == i + Len(ids)
            IN /\ end <= Len(messages)
               /\ \A k \in DOMAIN ids :
                    messages[i + k] = [role |-> "tool", id |-> ids[k]]
               /\ end = Len(messages) \/ messages[end + 1].role = "ai"

Places(type) == {i \in DOMAIN out : out[i].type = type}

(* A stream that the client did not leave ends with one error or one done, *)
(* or with both; after done come only a team's annotations.  One that ends *)
(* well after rounds of tools has sent the records of all of them, once:   *)
(* run_stream, stream_chat.                                                *)
StreamsEndWell ==
    (pc = "ended" /\ Streams) =>
        /\ Cardinality(Places("done")) <= 1 /\ Cardinality(Places("error")) <= 1
        /\ Places("done") \cup Places("error") # {}
        /\ \A i \in Places("done"), j \in DOMAIN out :
             j > i => out[j].type = "annotations_created"
        /\ (Places("error") = {} /\ got > 0) =>
             \E i \in Places("sources") :
                Places("sources") = {i} /\ out[i].turn = got

====
