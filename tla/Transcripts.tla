---------------------------- MODULE Transcripts ----------------------------
(***************************************************************************)
(* Turning a chat transcript or a shared chat into pairs of a user's       *)
(* message and the answer to it (api/routes/memory.py): the two transcript *)
(* formats of the upload and the pages of the three chat providers.        *)
(*                                                                         *)
(* A conversation is a sequence of messages [role, pieces].  The text of a *)
(* message falls into pieces where it holds what the format uses as a      *)
(* separator ("---" or a heading of the third level); without any piece it *)
(* is empty.  A text is a set of pieces <<message, piece>>, so {} is also  *)
(* the None and the "" of the code, which it only tests for truth.         *)
(***************************************************************************)
EXTENDS Integers, FiniteSets, SequencesExt

CONSTANTS Formats,      \* of "cursor", "antigravity", "chatgpt", "claude", "gemini"
          MaxMessages,  \* bound: messages of the conversation
          MaxPieces     \* bound: pieces of a message

VARIABLES format, conversation,
          pairs,        \* what the request returned
          status        \* "none", "ok", "error"

vars == <<format, conversation, pairs, status>>

Message == [role : {"user", "agent"}, pieces : 0..MaxPieces]

Pair(u, a) == [user |-> u, agent |-> a]

Text(i) == {<<i, p>> : p \in 1..conversation[i].pieces}

-----------------------------------------------------------------------------
(* What a format makes of the conversation (external): a section or a       *)
(* heading with its content for each piece, of which only the first carries *)
(* the role.  A page keeps each message whole.                              *)
Sections ==
    FlattenSeq([i \in 1..Len(conversation) |->
        LET Piece(role, p) == [role |-> role, text |-> Text(i) \cap {<<i, p>>}]
        IN  <<Piece(conversation[i].role, 1)>>
              \o [p \in 1..(MaxPieces - 1) |-> Piece("other", p + 1)]])

Page == [i \in 1..Len(conversation) |-> [role |-> conversation[i].role, text |-> Text(i)]]

-----------------------------------------------------------------------------
(* _parse_cursor_transcript: a section without a role is passed over.       *)
(* Mutant: the user's message stays for the next answer. *)
CursorStepKeeping(s, section) ==
    IF section.role = "user" THEN [s EXCEPT !.user = section.text]
    ELSE IF section.role = "agent" /\ s.user # {}
      THEN [s EXCEPT !.pairs = Append(@, Pair(s.user, section.text))]
    ELSE s

CursorStep(s, section) ==
    IF section.role = "user" THEN [s EXCEPT !.user = section.text]
    ELSE IF section.role = "agent" /\ s.user # {}
      THEN [s EXCEPT !.pairs = Append(@, Pair(s.user, section.text)), !.user = {}]
    ELSE s

ParseCursor == FoldLeft(CursorStep, [user |-> {}, pairs |-> <<>>], Sections).pairs

(* _parse_antigravity_transcript: a pair is finished where the next user    *)
(* heading or the end stands, if there was a user's message; the answers'   *)
(* texts are kept until a pair takes them.                                  *)
Flushed(s) ==
    IF s.user # {} /\ s.chunks # {}
      THEN [s EXCEPT !.pairs = Append(@, Pair(s.user, s.chunks)), !.chunks = {}]
      ELSE s

HeadingStep(s, block) ==
    CASE block.role = "user" -> [Flushed(s) EXCEPT !.user = block.text]
      [] block.role = "agent" -> [s EXCEPT !.chunks = @ \cup block.text]
      [] OTHER -> s

ParseAntigravity ==
    Flushed(FoldLeft(HeadingStep, [user |-> {}, chunks |-> {}, pairs |-> <<>>], Sections)).pairs

(* The pages of ChatGPT and Gemini: the messages of each side, zipped.      *)
TextsOf(role) ==
    LET mine == SelectSeq(Page, LAMBDA b : b.role = role)
    IN  [i \in 1..Len(mine) |-> mine[i].text]

Zipped ==
    LET u == TextsOf("user")
        a == TextsOf("agent")
    IN  [i \in 1..(IF Len(u) < Len(a) THEN Len(u) ELSE Len(a)) |-> Pair(u[i], a[i])]

(* The state in Claude's page: an answer takes the user's message before it *)
(* or none.                                                                 *)
ClaudeStep(s, b) ==
    IF b.role = "user" THEN [s EXCEPT !.user = b.text]
    ELSE [s EXCEPT !.pairs = Append(@, Pair(s.user, b.text)), !.user = {}]

ParseClaude == FoldLeft(ClaudeStep, [user |-> {}, pairs |-> <<>>], Page).pairs

Extracted ==
    CASE format = "cursor" -> ParseCursor
      [] format = "antigravity" -> ParseAntigravity
      [] format \in {"chatgpt", "gemini"} -> Zipped
      [] format = "claude" -> ParseClaude

-----------------------------------------------------------------------------
Init ==
    /\ format \in Formats
    /\ conversation = <<>>
    /\ pairs = <<>>
    /\ status = "none"

Say(m) ==
    /\ status = "none"
    /\ Len(conversation) < MaxMessages
    /\ conversation' = Append(conversation, m)
    /\ UNCHANGED <<format, pairs, status>>

(* parse_transcript and scrape_chat_link; where no pair is found an upload  *)
(* is given to the model, whose answer is not modelled.                     *)
Extract ==
    /\ status = "none"
    /\ conversation # <<>>
    /\ pairs' = Extracted
    /\ status' = IF Extracted = <<>> THEN "error" ELSE "ok"
    /\ UNCHANGED <<format, conversation>>

Next == (\E m \in Message : Say(m)) \/ Extract

Spec == Init /\ [][Next]_vars

-----------------------------------------------------------------------------
(* The messages a text is from.                                             *)
From(text) == {x[1] : x \in text}

(* The last message of the user before message i that is not empty.         *)
AskedAt(i) ==
    {u \in 1..(i - 1) :
        /\ conversation[u].role = "user" /\ conversation[u].pieces > 0
        /\ \A v \in (u + 1)..(i - 1) : ~(conversation[v].role = "user" /\ conversation[v].pieces > 0)}

(* Every answer has a message of the user before it, and none is empty.     *)
AllAreAsked ==
    /\ conversation # <<>> => conversation[1].role = "user"
    /\ \A i \in 1..Len(conversation) :
          conversation[i].role = "user" => conversation[i].pieces > 0

(* Where the roles are read one after the other, a message is in one pair   *)
(* at most, a pair's answer ends with what was answered to its user's       *)
(* message and to no later one, and the pairs stand in their order: no      *)
(* message is attributed to another turn because one before it was empty,   *)
(* cut or unanswered.  The Antigravity format needs for it that all answers *)
(* are to something: it keeps an answer to nothing for the next question.   *)
PairsAreTurns ==
    (status = "ok" /\ (format \in {"cursor", "claude"} \/ (format = "antigravity" /\ AllAreAsked))) =>
        /\ \A n \in 1..Len(pairs) :
             From(pairs[n].user) # {} =>
               /\ \A u \in From(pairs[n].user) : conversation[u].role = "user"
               /\ \A a \in From(pairs[n].agent) : conversation[a].role = "agent"
               /\ From(pairs[n].agent) # {} =>
                    LET last == CHOOSE a \in From(pairs[n].agent) :
                                    \A b \in From(pairs[n].agent) : b <= a
                    IN  From(pairs[n].user) = AskedAt(last)
        /\ \A n, k \in 1..Len(pairs) : n < k =>
             /\ \A x \in From(pairs[n].user), y \in From(pairs[k].user) : x < y
             /\ \A x \in From(pairs[n].agent), y \in From(pairs[k].agent) : x < y

=============================================================================
