--------------------------- MODULE AdapterStream ----------------------------
(***************************************************************************)
(* One chat completion through dsh_api_adapter.py: AdapterService.prepare  *)
(* and complete and the HTTP handler, with the native server (upstream)    *)
(* that cuts the text anywhere, fails or falls silent, the official        *)
(* encoder and parser, and a client that may leave.  The native server,    *)
(* the encoder and the parser are not code of the repository.              *)
(***************************************************************************)
EXTENDS StreamSplitter, TokenBudget

CONSTANTS
  Characters,   \* of the text
  MaxText,      \* bound: length of a completion
  MaxDelta,     \* bound: length of one event's content
  Amounts       \* bound: the numbers of tokens in a request

\* The markers are texts, and THINK_OPEN is the shortest of them.
ASSUME MarkersAreTexts ==
  /\ {ThinkOpen, ThinkClose, CallsOpen} \subseteq Seq(Characters)
  /\ Len(ThinkOpen) <= Len(ThinkClose) /\ Len(ThinkOpen) <= Len(CallsOpen)

ASSUME BoundsAssumption == MaxText \in Nat /\ MaxDelta \in Nat
ASSUME AmountsAssumption == Amounts \subseteq Nat

VARIABLES
  thinking,    \* thinking_mode of the request
  streaming,   \* stream of the request
  step,        \* what the handler does next
  payload,     \* the request to the native server that is about to be sent
  splitter,    \* the ThinkingSplitter
  text,        \* raw_text: the contents of all events so far
  reasoning,   \* reasoning_parts; written to the client when streaming
  content,     \* content_parts; written to the client when streaming
  upstream,    \* the connection to the native server
  client,      \* is the client still there?
  wire,        \* what was written besides the deltas
  outcome      \* "broken" when an exception nobody handles ended the request

vars == <<thinking, streaming, step, payload, splitter, text, reasoning, content, upstream,
          client, wire, outcome>>
request == <<thinking, streaming>>
parts == <<splitter, text, reasoning, content>>

Texts(n) == UNION {[1 .. k -> Characters] : k \in 0 .. n}

AfterReading == {"parse", "calls", "finish", "usage", "done", "reply"}

NoPayload == [max_tokens |-> 0, prompt |-> 0, n_predict |-> 0, reasoning |-> NoBudget]

TypeOK ==
  /\ thinking \in BOOLEAN /\ streaming \in BOOLEAN
  /\ step \in {"prepare", "refuse", "role", "connect", "read", "flush", "error",
                "error done", "over"}
                \union AfterReading
  /\ payload \in [max_tokens : Nat, prompt : Nat, n_predict : Nat, reasoning : Int]
  /\ splitter.phase \in {"start", "reasoning", "content"}
  /\ splitter.holding_tool_block \in BOOLEAN
  /\ text \in Seq(Characters) /\ Len(text) <= MaxText
  /\ reasoning \in Seq(Characters) /\ content \in Seq(Characters)
  /\ upstream \in {"none", "open", "closed"}
  /\ client \in {"there", "gone"}
  /\ wire \in Seq({"role", "calls", "finish", "usage", "error", "DONE", "reply", "refusal"})
  /\ outcome \in {"pending", "answered", "left", "broken"}

Init ==
  /\ thinking \in BOOLEAN
  /\ streaming \in BOOLEAN
  /\ step = "prepare"
  /\ payload = NoPayload
  /\ splitter = NewSplitter
  /\ text = <<>> /\ reasoning = <<>> /\ content = <<>>
  /\ upstream = "none"
  /\ client = "there"
  /\ wire = <<>>
  /\ outcome = "pending"

-----------------------------------------------------------------------------
GoTo(next) == step' = next /\ UNCHANGED outcome
End(how) == step' = "over" /\ outcome' = how

\* ClientDisconnected, or the OSError of the last write: only a client that
\* left causes it, and not at once.
Lost == client = "gone" /\ End("left")

\* One write of the handler.
Write(event, next) ==
  /\ \/ /\ wire' = Append(wire, event)
        /\ IF next = "over" THEN End("answered") ELSE GoTo(next)
     \/ Lost /\ UNCHANGED wire
  /\ UNCHANGED <<request, payload, parts, client>>

\* The client closes its connection.
ClientLeaves ==
  /\ step # "over"
  /\ client = "there"
  /\ client' = "gone"
  /\ UNCHANGED <<request, step, payload, parts, upstream, wire, outcome>>

\* The request is acceptable, and its prompt leaves room for an answer.
Prepare ==
  /\ step = "prepare"
  /\ \E asked \in Amounts \union {NoBudget}, effort \in Efforts,
        max_tokens \in Amounts, prompt \in Amounts :
       /\ Acceptable(thinking, asked, max_tokens)
       /\ Fits(prompt)
       /\ payload' = [ max_tokens |-> max_tokens, prompt |-> prompt,
                       n_predict |-> Predict(max_tokens, prompt),
                       reasoning |-> ReasoningBudget(thinking, asked, effort, max_tokens) ]
  /\ GoTo(IF streaming THEN "role" ELSE "connect")
  /\ UNCHANGED <<request, parts, upstream, client, wire>>

\* It is not, or the native server does not tokenize it; or the connection to
\* that server breaks, for which there is no AdapterError.
Refuse ==
  /\ step = "prepare"
  /\ GoTo("refuse") \/ End("broken")
  /\ UNCHANGED <<request, payload, parts, upstream, client, wire>>

\* The headers and the first chunk of a stream.
WriteRole == step = "role" /\ Write("role", "connect") /\ UNCHANGED upstream

\* The POST to /completion: answered with an event stream, refused, or answered
\* with something that is no HTTP, for which there is no AdapterError.
Connect ==
  /\ step = "connect"
  /\ \/ GoTo("read") /\ upstream' = "open"
     \/ GoTo("error") /\ UNCHANGED upstream
     \/ End("broken") /\ UNCHANGED upstream
  /\ payload' = NoPayload
  /\ UNCHANGED <<request, parts, client, wire>>

\* Parts are handed on as soon as the splitter lets them through, reasoning
\* first; a stream whose client has left may end at either of them.
Emit(out, next) ==
  \/ /\ reasoning' = reasoning \o out.reasoning
     /\ content' = content \o out.content
     /\ next
  \/ /\ streaming
     /\ \/ out.reasoning # <<>> /\ UNCHANGED reasoning
        \/ out.content # <<>> /\ reasoning' = reasoning \o out.reasoning
     /\ Lost
     /\ upstream' = "closed"
     /\ UNCHANGED content

\* One event of the native server; the last one says stop.
Receive ==
  /\ step = "read"
  /\ \E delta \in Texts(MaxDelta), stop \in BOOLEAN :
       /\ Len(text) + Len(delta) <= MaxText
       /\ text' = text \o delta
       /\ LET out == feed(splitter, thinking, delta)
          IN /\ splitter' = out.splitter
             /\ Emit(out, /\ GoTo(IF stop THEN "flush" ELSE "read")
                          /\ UNCHANGED upstream)
  /\ UNCHANGED <<request, payload, client, wire>>

\* Mutant: an error leaves the stream open.
ReceiveBad_keeps_open ==
  step = "read" /\ GoTo("error")
    /\ UNCHANGED <<request, payload, parts, upstream, client, wire>>

\* An error event, an event that is no JSON object, one whose content is no
\* text, or the end of the stream before a stop.
ReceiveBad ==
  /\ step = "read"
  /\ GoTo("error")
  /\ upstream' = "closed"
  /\ UNCHANGED <<request, payload, parts, client, wire>>

\* The socket fails or times out, or the bytes are no UTF-8: no AdapterError,
\* so nobody handles it.
ConnectionBreaks ==
  /\ step = "read"
  /\ End("broken")
  /\ upstream' = "closed"
  /\ UNCHANGED <<request, payload, parts, client, wire>>

\* splitter.finish, then the stream is closed.
Flush ==
  /\ step = "flush"
  /\ LET out == finish(splitter, thinking)
     IN /\ splitter' = out.splitter
        /\ Emit(out, GoTo("parse") /\ upstream' = "closed")
  /\ UNCHANGED <<request, payload, text, client, wire>>

\* Mutant: a parsed message leads nowhere.
Parse_nowhere ==
  step = "parse" /\ GoTo("parsed")
    /\ UNCHANGED <<request, payload, parts, upstream, client, wire>>

\* Stopped at a limit: not parsed.  Ended: the official parser accepts the
\* text, with or without tool calls, or something about it is not acceptable.
Parse ==
  /\ step = "parse"
  /\ \E next \in {"calls", "finish", "error"} :
       GoTo(IF streaming \/ next = "error" THEN next ELSE "reply")
  /\ UNCHANGED <<request, payload, parts, upstream, client, wire>>

WriteCalls == step = "calls" /\ Write("calls", "finish") /\ UNCHANGED upstream

\* Mutant: the calls are only looked at after the finish reason.
WriteFinish_then_calls ==
  /\ step = "finish"
  /\ \E next \in {"usage", "done", "error"} : Write("finish", next)
  /\ UNCHANGED upstream

\* With include_usage the usage follows.
WriteFinish ==
  /\ step = "finish"
  /\ \E next \in {"usage", "done"} : Write("finish", next)
  /\ UNCHANGED upstream

WriteUsage == step = "usage" /\ Write("usage", "done") /\ UNCHANGED upstream

WriteDone ==
  /\ step \in {"done", "error done"}
  /\ Write("DONE", "over")
  /\ UNCHANGED upstream

\* Mutant: an error event ends the stream.
WriteError_no_done ==
  step = "error" /\ streaming /\ Write("error", "over") /\ UNCHANGED upstream

\* Once the stream has begun an AdapterError becomes an event of it.
WriteError ==
  step = "error" /\ streaming /\ Write("error", "error done") /\ UNCHANGED upstream

\* Before that, and without a stream, it is the reply.
WriteRefusal ==
  /\ step = "refuse" \/ (step = "error" /\ ~streaming)
  /\ Write("refusal", "over")
  /\ UNCHANGED upstream

WriteReply == step = "reply" /\ Write("reply", "over") /\ UNCHANGED upstream

Next ==
  \/ ClientLeaves \/ Prepare \/ Refuse \/ WriteRole \/ Connect \/ Receive \/ ReceiveBad
  \/ ConnectionBreaks \/ Flush \/ Parse \/ WriteCalls \/ WriteFinish
  \/ WriteUsage \/ WriteDone \/ WriteError \/ WriteRefusal \/ WriteReply

Spec == Init /\ [][Next]_vars

-----------------------------------------------------------------------------
(* Properties *)

Wrote(event) == \E i \in 1 .. Len(wire) : wire[i] = event

\* However the text is cut into events, no part of it is handed on too early
\* and nothing is lost: at every moment the parts are a beginning of what the
\* whole text so far splits into, without any piece of a marker that is being
\* received, and after the flush they are all of it, but for a blank line before
\* a tool block, which is handed on whole or not at all (splitter and shield).
SplitsTheText ==
  /\ StartsWith(ReasoningOf(thinking, text), reasoning)
  /\ StartsWith(ProseOf(thinking, text), content)
  /\ step \in AfterReading =>
       /\ reasoning = ReasoningOf(thinking, text)
       /\ content \in {ContentOf(thinking, text), ProseOf(thinking, text)}

\* The blank line before a tool block is held back with it
\* (ToolBlockShield.feed's comment).
BlankLineHeld ==
  step \in AfterReading => content = ContentOf(thinking, text)

\* A client that stays is answered: with one whole reply, or with a stream that
\* ends in [DONE] whatever the native server and the parser do after the role
\* was written, unless the connection to the native server itself breaks.
EndsInDone ==
  step = "over" /\ client = "there" /\ outcome # "broken" =>
    IF Wrote("role") THEN wire[Len(wire)] = "DONE"
                     ELSE wire \in {<<"refusal">>, <<"reply">>}

\* A request either fails or finishes: after the finish reason or the usage no
\* error follows, and nothing follows [DONE] or a whole reply.
OneEnding ==
  [][wire' # wire =>
       /\ ~Wrote("DONE") /\ ~Wrote("reply") /\ ~Wrote("refusal")
       /\ Wrote("finish") \/ Wrote("error") => wire'[Len(wire')] \in {"usage", "DONE"}]_vars

\* What the native server is asked for fits in the context window and in the
\* limits, is at least one token, and of a max_tokens that is granted in full
\* the reasoning leaves MIN_ANSWER_TOKENS (prepare's two budgets).
PayloadFits ==
  payload # NoPayload =>
    /\ payload.prompt + payload.n_predict <= CONTEXT_WINDOW
    /\ payload.n_predict >= 1 /\ payload.n_predict <= MAX_OUTPUT_TOKENS
    /\ thinking <=> payload.reasoning >= 1
    /\ payload.n_predict = payload.max_tokens /\ payload.max_tokens > MIN_ANSWER_TOKENS =>
         payload.n_predict - payload.reasoning >= MIN_ANSWER_TOKENS

\* The native generation is cancelled whichever way the request ends, also when
\* the client leaves in the middle of it (the finally of complete).
UpstreamReleased == step \in AfterReading \union {"error", "over"} => upstream # "open"
=============================================================================
