--------------------------- MODULE StreamSplitter ---------------------------
(***************************************************************************)
(* ThinkingSplitter and ToolBlockShield of dsh_api_adapter.py: the text of *)
(* a completion, cut anywhere, becomes reasoning and content; a tool block *)
(* is withheld.  The buffers are one record, feed and finish operators on  *)
(* it.  A text is a sequence of characters, a marker a short sequence with *)
(* the overlaps of the real one: all begin with the same character.        *)
(***************************************************************************)
EXTENDS Naturals, Sequences

CONSTANTS
  ThinkOpen,    \* THINK_OPEN
  ThinkClose,   \* THINK_CLOSE
  CallsOpen,    \* DSML_CALLS_OPEN
  Newline

ASSUME MarkerAssumption ==
  \A marker \in {ThinkOpen, ThinkClose, CallsOpen} :
    Len(marker) \in Nat /\ Len(marker) >= 2

BlankLine == <<Newline, Newline>>

StartsWith(text, prefix) ==
  Len(prefix) <= Len(text) /\ SubSeq(text, 1, Len(prefix)) = prefix

\* str.find, 0 when there is none.
Find(text, marker) ==
  LET at == {i \in 1 .. Len(text) : StartsWith(SubSeq(text, i, Len(text)), marker)}
  IN IF at = {} THEN 0 ELSE CHOOSE i \in at : \A j \in at : i <= j

Before(text, i) == SubSeq(text, 1, i - 1)
After(text, i) == SubSeq(text, i, Len(text))

\* value[:-k] and value[-k:]
AllBut(text, k) == SubSeq(text, 1, Len(text) - k)
Tail_(text, k) == IF Len(text) <= k THEN text ELSE After(text, Len(text) - k + 1)

-----------------------------------------------------------------------------
NewSplitter ==
  [phase |-> "start", start_buffer |-> <<>>, reasoning_buffer |-> <<>>,
   buffer |-> <<>>, holding_tool_block |-> FALSE]

\* A step of the splitter: its next state and what it lets through.
Out(s, reasoning, content) ==
  [splitter |-> s, reasoning |-> reasoning, content |-> content]

\* Where a tool block that is found at i is cut off: its blank line is held.
CallsCut(value, i) ==
  IF i > 2 /\ SubSeq(value, i - 2, i - 1) = BlankLine THEN i - 2 ELSE i

\* Mutant: one character too few is kept back.
Shield_short(s, reasoning, text) ==
  LET value == s.buffer \o text
      at == Find(value, CallsOpen)
      keep == Len(CallsOpen) - 2
  IN IF at > 0
       THEN Out([s EXCEPT !.holding_tool_block = TRUE, !.buffer = After(value, at)],
                reasoning, Before(value, at))
       ELSE Out([s EXCEPT !.buffer = Tail_(value, keep)],
                reasoning, AllBut(value, keep))

\* ToolBlockShield.feed
Shield(s, reasoning, text) ==
  LET value == s.buffer \o text
      at == Find(value, CallsOpen)
      cut == CallsCut(value, at)
      keep == Len(CallsOpen) - 1
  IN IF s.holding_tool_block
       THEN Out([s EXCEPT !.buffer = value], reasoning, <<>>)
     ELSE IF at > 0
       THEN Out([s EXCEPT !.holding_tool_block = TRUE, !.buffer = After(value, cut)],
                reasoning, Before(value, cut))
     ELSE Out([s EXCEPT !.buffer = Tail_(value, keep)],
              reasoning, AllBut(value, keep))

\* Reasoning is only passed on when thinking is enabled.
Shown(thinking, reasoning) == IF thinking THEN reasoning ELSE <<>>

\* _route, in the phase the record says.
Route(s, thinking, text) ==
  LET value == s.reasoning_buffer \o text
      end == Find(value, ThinkClose)
      keep == Len(ThinkClose) - 1
  IN IF s.phase = "content"
       THEN Shield(s, <<>>, text)
     ELSE IF end = 0
       THEN Out([s EXCEPT !.reasoning_buffer = Tail_(value, keep)],
                Shown(thinking, AllBut(value, keep)), <<>>)
     ELSE Shield([s EXCEPT !.phase = "content", !.reasoning_buffer = <<>>],
                 Shown(thinking, Before(value, end)),
                 After(value, end + Len(ThinkClose)))

\* _begin: wait until the text is known to start with <think> or not.
Begin(s, thinking, text) ==
  LET value == s.start_buffer \o text
      begun(phase) == [s EXCEPT !.phase = phase, !.start_buffer = <<>>]
  IN IF value # ThinkOpen /\ StartsWith(ThinkOpen, value)
       THEN Out([s EXCEPT !.start_buffer = value], <<>>, <<>>)
     ELSE IF StartsWith(value, ThinkOpen)
       THEN Route(begun("reasoning"), thinking, After(value, Len(ThinkOpen) + 1))
     ELSE Route(begun(IF thinking THEN "reasoning" ELSE "content"), thinking, value)

feed(s, thinking, text) ==
  IF s.phase = "start" THEN Begin(s, thinking, text) ELSE Route(s, thinking, text)

\* At the end what was kept back is text after all, except a tool block.
finish(s, thinking) ==
  LET content == IF s.phase = "start" THEN s.start_buffer ELSE s.buffer
      reasoning == s.start_buffer \o s.reasoning_buffer
  IN IF s.phase = "reasoning" \/ (s.phase = "start" /\ thinking)
       THEN Out(NewSplitter, Shown(thinking, reasoning), <<>>)
     ELSE Out(NewSplitter, <<>>, IF s.holding_tool_block THEN <<>> ELSE content)

-----------------------------------------------------------------------------
(* What the splitter is for, said of the whole text at once. *)

Opened(text) == StartsWith(text, ThinkOpen)
Thought(text) ==
  LET body == IF Opened(text) THEN After(text, Len(ThinkOpen) + 1) ELSE text
  IN IF Find(body, ThinkClose) = 0 THEN body ELSE Before(body, Find(body, ThinkClose))

\* The text up to the first </think>, without <think>.
ReasoningOf(thinking, text) == IF thinking THEN Thought(text) ELSE <<>>

\* What follows the first </think>, or all of it when nothing was thought.
AnswerOf(thinking, text) ==
  LET skip == (IF Opened(text) THEN Len(ThinkOpen) ELSE 0)
                + Len(Thought(text)) + Len(ThinkClose)
  IN IF thinking \/ Opened(text) THEN After(text, skip + 1) ELSE text

\* The answer up to its tool block.
ProseOf(thinking, text) ==
  LET answer == AnswerOf(thinking, text)
  IN IF Find(answer, CallsOpen) = 0 THEN answer
     ELSE Before(answer, Find(answer, CallsOpen))

\* The same without the blank line that belongs to the tool block.
ContentOf(thinking, text) ==
  LET answer == AnswerOf(thinking, text)
      at == Find(answer, CallsOpen)
  IN IF at = 0 THEN answer ELSE Before(answer, CallsCut(answer, at))
=============================================================================
