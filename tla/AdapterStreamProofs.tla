------------------------ MODULE AdapterStreamProofs ------------------------
(***************************************************************************)
(* Proofs about AdapterStream for every text, every marker and every way   *)
(* the native server cuts the text: how a request ends, what it asks for,  *)
(* and that the text is split right.  And about SseEvents, for streams of  *)
(* any length in any number of chunks.                                     *)
(***************************************************************************)
EXTENDS MCAdapterStream, TLAPS, WellFoundedInduction, FiniteSetTheorems, SequenceTheorems

Steps ==
  {"prepare", "refuse", "role", "connect", "read", "flush", "error",
   "error done", "over"} \union AfterReading

WireEvents == {"role", "calls", "finish", "usage", "error", "DONE", "reply", "refusal"}

\* The steps at which the native server's stream may be open.
Reading == {"read", "flush"}

ConnectionOfStep ==
  /\ upstream \in {"none", "open", "closed"}
  /\ upstream = "open" => step \in Reading
  /\ step \in Reading => upstream = "open"

\* How much of the ending is written at each step.
WireOfStep ==
  /\ wire \in Seq(WireEvents)
  /\ Wrote("DONE") => step = "over"
  /\ Wrote("finish") => step \in {"usage", "done", "over"}
  /\ Wrote("error") => step \in {"error done", "over"}
  /\ Wrote("reply") \/ Wrote("refusal") => step = "over"

\* Which way a request goes, and what has been written by then.
Begun ==
  /\ streaming => step # "reply"
  /\ ~streaming => step \notin {"role", "calls", "finish", "usage", "done", "error done"}
  /\ step \in {"prepare", "refuse", "role"} => wire = <<>>
  /\ ~streaming /\ step # "over" => wire = <<>>
  /\ streaming /\ step \notin {"prepare", "refuse", "role", "over"} => Wrote("role")

\* A stream is only over when it is answered, left or broken.
EndOfStream ==
  /\ streaming \in BOOLEAN
  /\ step = "over" => outcome \in {"answered", "left", "broken"}
  /\ outcome = "left" => client = "gone"
  /\ step # "over" => outcome = "pending"
  /\ step = "over" /\ outcome = "answered" =>
       IF Wrote("role") THEN wire[Len(wire)] = "DONE"
                        ELSE wire \in {<<"refusal">>, <<"reply">>}

\* The inductive invariant.
EndInv ==
  /\ step \in Steps
  /\ ConnectionOfStep
  /\ WireOfStep
  /\ EndOfStream
  /\ Begun

-----------------------------------------------------------------------------
LEMMA EndInit == Init => EndInv
  BY DEF Init, EndInv, Steps, ConnectionOfStep, Reading, WireOfStep, EndOfStream,
         Begun, Wrote, WireEvents

\* Appending an event changes what was written by that event alone.
LEMMA AppendWrites ==
  ASSUME wire \in Seq(WireEvents), NEW event \in WireEvents,
         wire' = Append(wire, event)
  PROVE  /\ wire' \in Seq(WireEvents)
         /\ \A other : Wrote(other)' => Wrote(other) \/ other = event
         /\ \A other : Wrote(other) \/ other = event => Wrote(other)'
         /\ wire' # <<>> /\ wire'[Len(wire')] = event
         /\ wire' # wire
<1>1. /\ wire' \in Seq(WireEvents) /\ Len(wire) \in Nat /\ Len(wire') = Len(wire) + 1
      /\ \A i \in 1 .. Len(wire) : wire'[i] = wire[i]
      /\ wire'[Len(wire')] = event
  OBVIOUS
<1> QED
  BY <1>1 DEF Wrote

\* As long as the wire stays the same, so does what was written.
LEMMA SameWire == UNCHANGED wire => \A event : Wrote(event)' <=> Wrote(event)
  BY DEF Wrote

\* The first event is the only one.
LEMMA FirstEvent ==
  ASSUME wire = <<>>
  PROVE  \A event : ~Wrote(event) /\ Append(wire, event) = <<event>>
<1>1. Len(<<>>) = 0
  OBVIOUS
<1>2. \A event : ~Wrote(event)
  BY <1>1, SMT DEF Wrote
<1>3. \A event : Append(<<>>, event) = <<event>>
  BY SMT
<1> QED
  BY <1>2, <1>3

\* A write of the handler: the event is written, or the client has left.
LEMMA WriteCases ==
  ASSUME NEW event, NEW next, next \in Steps, Write(event, next)
  PROVE  /\ UNCHANGED <<streaming, client>>
         /\ \/ /\ wire' = Append(wire, event)
               /\ step' = next
               /\ outcome' = IF next = "over" THEN "answered" ELSE outcome
            \/ /\ wire' = wire /\ client = "gone"
               /\ step' = "over" /\ outcome' = "left"
  BY DEF Write, End, GoTo, Lost, request

\* The steps that read: the wire stays, and the connection is closed with the
\* last of them.
LEMMA ReadCases ==
  ASSUME Receive \/ ReceiveBad \/ ConnectionBreaks \/ Flush
  PROVE  /\ step \in Reading
         /\ UNCHANGED <<streaming, client, wire>>
         /\ \/ /\ step' \in Reading /\ UNCHANGED <<upstream, outcome>>
            \/ /\ step' \in {"error", "parse"} /\ upstream' = "closed"
               /\ UNCHANGED outcome
            \/ /\ step' = "over" /\ upstream' = "closed" /\ outcome' = "left"
               /\ client = "gone"
            \/ /\ step' = "over" /\ upstream' = "closed" /\ outcome' = "broken"
<1>1. CASE Receive
  <2>1. step = "read" /\ UNCHANGED <<request, client, wire>>
    BY <1>1 DEF Receive
  <2>2. PICK stop, out :
          Emit(out, /\ GoTo(IF stop THEN "flush" ELSE "read")
                    /\ UNCHANGED upstream)
    BY <1>1 DEF Receive
  <2> QED
    BY <2>1, <2>2 DEF Emit, GoTo, Lost, End, request, Reading
<1>2. CASE ReceiveBad
  BY <1>2 DEF ReceiveBad, GoTo, request, Reading
<1>3. CASE ConnectionBreaks
  BY <1>3 DEF ConnectionBreaks, End, request, Reading
<1>4. CASE Flush
  <2>1. step = "flush" /\ UNCHANGED <<request, client, wire>>
    BY <1>4 DEF Flush
  <2>2. PICK out : Emit(out, GoTo("parse") /\ upstream' = "closed")
    BY <1>4 DEF Flush
  <2> QED
    BY <2>1, <2>2 DEF Emit, GoTo, Lost, End, request, Reading
<1> QED
  BY <1>1, <1>2, <1>3, <1>4

\* Every writing step preserves the invariant and ends a request only once.
LEMMA WriteKeeps ==
  ASSUME EndInv, NEW event \in WireEvents,
         NEW next \in Steps \ (Reading \union {"prepare", "refuse", "role", "reply"}),
         step \notin Reading, step # "over",
         Write(event, next), UNCHANGED upstream,
         next = "over" => \/ event = "DONE" /\ Wrote("role")
                          \/ event \in {"refusal", "reply"} /\ wire = <<>>,
         event \in {"DONE", "refusal", "reply"} => next = "over",
         next # "over" => streaming /\ (event = "role" \/ Wrote("role")),
         event = "finish" => next \in {"usage", "done"},
         event = "error" => next = "error done",
         Wrote("finish") => next \in {"usage", "done", "over"},
         Wrote("error") => next \in {"error done", "over"}
  PROVE  EndInv'
<1>1. /\ UNCHANGED <<streaming, client>>
      /\ \/ /\ wire' = Append(wire, event)
            /\ step' = next
            /\ outcome' = IF next = "over" THEN "answered" ELSE outcome
         \/ /\ wire' = wire /\ client = "gone"
            /\ step' = "over" /\ outcome' = "left"
  BY WriteCases
<1>2. CASE wire' = wire /\ client = "gone" /\ step' = "over" /\ outcome' = "left"
  BY <1>1, <1>2 DEF EndInv, Steps, ConnectionOfStep, Reading, WireOfStep, EndOfStream,
     Begun, Wrote
<1>3. CASE /\ wire' = Append(wire, event)
           /\ step' = next
           /\ outcome' = IF next = "over" THEN "answered" ELSE outcome
  <2>1. /\ wire' \in Seq(WireEvents)
        /\ \A other : Wrote(other)' => Wrote(other) \/ other = event
        /\ \A other : Wrote(other) \/ other = event => Wrote(other)'
        /\ wire' # <<>> /\ wire'[Len(wire')] = event
    BY <1>3, AppendWrites DEF EndInv, WireOfStep
  <2>2. WireOfStep'
    BY <1>3, <2>1 DEF EndInv, WireOfStep
  <2>3. ConnectionOfStep' /\ Begun'
    BY <1>1, <1>3, <2>1 DEF EndInv, ConnectionOfStep, Begun, Reading
  <2>4. EndOfStream'
    <3>1. wire = <<>> => wire' = <<event>>
      BY <1>3, FirstEvent
    <3>2. wire = <<>> => ~Wrote("role")
      BY FirstEvent
    <3>3. next = "over" => IF Wrote("role")' THEN wire'[Len(wire')] = "DONE"
                           ELSE wire' \in {<<"refusal">>, <<"reply">>}
      <4>1. CASE event = "DONE" /\ Wrote("role")
        BY <4>1, <2>1
      <4>2. CASE event \in {"refusal", "reply"} /\ wire = <<>>
        BY <4>2, <2>1, <3>1, <3>2
      <4> QED
        BY <4>1, <4>2
    <3> QED
      BY <1>1, <1>3, <3>3 DEF EndInv, EndOfStream
  <2> QED
    BY <1>3, <2>2, <2>3, <2>4 DEF EndInv
<1> QED
  BY <1>1, <1>2, <1>3

LEMMA EndInductive == EndInv /\ [Next]_vars => EndInv'
<1> SUFFICES ASSUME EndInv, [Next]_vars PROVE EndInv'
  OBVIOUS
<1>0. /\ Wrote("finish") => step \in {"usage", "done", "over"}
      /\ Wrote("error") => step \in {"error done", "over"}
  BY DEF EndInv, WireOfStep
<1>1. CASE ClientLeaves
  BY <1>1 DEF ClientLeaves, request, EndInv, ConnectionOfStep, WireOfStep, EndOfStream,
     Begun, Wrote
<1>00. /\ step \in {"role", "calls", "finish", "usage", "done", "error done"} => streaming
       /\ step \in {"calls", "finish", "usage", "done", "error", "error done"} /\ streaming =>
            Wrote("role")
       /\ step = "refuse" \/ (step # "over" /\ ~streaming) => wire = <<>>
       /\ step = "reply" => ~streaming
  BY DEF EndInv, Begun, EndOfStream
<1>2. CASE WriteRole
  BY <1>0, <1>00, <1>2, WriteKeeps DEF WriteRole, WireEvents, Steps, Reading
<1>p. CASE Prepare \/ Refuse
  <2>1. /\ UNCHANGED <<streaming, upstream, client, wire>> /\ step = "prepare"
        /\ \/ step' \in {"role", "connect", "refuse"} /\ UNCHANGED outcome
           \/ step' = "over" /\ outcome' = "broken"
        /\ step' = "role" => streaming
        /\ step' = "connect" => ~streaming
    BY <1>p DEF Prepare, Refuse, GoTo, End, request, EndInv, EndOfStream
  <2> QED
    BY <2>1, SameWire DEF EndInv, Steps, ConnectionOfStep, Reading, WireOfStep, EndOfStream,
       Begun
<1>3. CASE Connect
  BY <1>3, SameWire DEF Connect, GoTo, End, request, EndInv, Steps, ConnectionOfStep, Reading,
     WireOfStep, EndOfStream, Begun
<1>4. CASE Receive \/ ReceiveBad \/ ConnectionBreaks \/ Flush
  <2>1. /\ step \in Reading /\ UNCHANGED <<streaming, client, wire>>
        /\ step' \in Steps /\ step' \in Reading \union {"error", "parse", "over"}
    BY <1>4, ReadCases DEF Steps, Reading, AfterReading
  <2>2. ConnectionOfStep'
    BY <1>4, ReadCases DEF EndInv, ConnectionOfStep, Reading
  <2>3. WireOfStep' /\ Begun'
    BY <2>1, SameWire DEF EndInv, WireOfStep, Begun, Reading
  <2>4. EndOfStream'
    BY <1>4, <2>1, ReadCases DEF EndInv, EndOfStream, Reading
  <2> QED
    BY <2>1, <2>2, <2>3, <2>4 DEF EndInv
<1>5. CASE Parse
  BY <1>5 DEF Parse, GoTo, request, EndInv, Steps, AfterReading, ConnectionOfStep, Reading,
     WireOfStep, EndOfStream, Begun, Wrote
<1>6. CASE WriteCalls
  BY <1>0, <1>00, <1>6, WriteKeeps DEF WriteCalls, WireEvents, Steps, AfterReading, Reading
<1>7. CASE WriteFinish
  <2>1. PICK next \in {"usage", "done"} : Write("finish", next)
    BY <1>7 DEF WriteFinish
  <2> QED
    BY <1>0, <1>00, <1>7, <2>1, WriteKeeps DEF WriteFinish, WireEvents, Steps, AfterReading, Reading
<1>8. CASE WriteUsage
  BY <1>0, <1>00, <1>8, WriteKeeps DEF WriteUsage, WireEvents, Steps, AfterReading, Reading
<1>9. CASE WriteDone
  BY <1>0, <1>00, <1>9, WriteKeeps DEF WriteDone, WireEvents, Steps, Reading
<1>10. CASE WriteError
  BY <1>0, <1>00, <1>10, WriteKeeps DEF WriteError, WireEvents, Steps, Reading
<1>11. CASE WriteReply
  BY <1>0, <1>00, <1>11, WriteKeeps DEF WriteReply, WireEvents, Steps, Reading
<1>r. CASE WriteRefusal
  BY <1>0, <1>00, <1>r, WriteKeeps DEF WriteRefusal, WireEvents, Steps, Reading
<1>12. CASE UNCHANGED vars
  BY <1>12 DEF vars, EndInv, ConnectionOfStep, WireOfStep, EndOfStream, Begun, Wrote
<1> QED
  BY <1>1, <1>2, <1>3, <1>4, <1>5, <1>6, <1>7, <1>8, <1>9, <1>10, <1>11, <1>12, <1>p, <1>r
  DEF Next

-----------------------------------------------------------------------------
\* A client that stays is answered, and its stream ends in [DONE], unless the
\* connection to the native server breaks, for texts of any length.
THEOREM StreamsAreTerminated == Spec => []EndsInDone
<1>1. EndInv => EndsInDone
  BY DEF EndInv, EndOfStream, EndsInDone
<1> QED
  BY <1>1, EndInit, EndInductive, PTL DEF Spec

\* The connection to the native server is closed whichever way a request ends.
THEOREM GenerationCancelled == Spec => []UpstreamReleased
<1>1. EndInv => UpstreamReleased
  BY DEF EndInv, ConnectionOfStep, Reading, UpstreamReleased, AfterReading
<1> QED
  BY <1>1, EndInit, EndInductive, PTL DEF Spec

\* No error follows the finish reason, and nothing follows [DONE].
THEOREM EndedOnce == Spec => OneEnding
<1>1. ASSUME EndInv, [Next]_vars, wire' # wire
      PROVE  /\ ~Wrote("DONE") /\ ~Wrote("reply") /\ ~Wrote("refusal")
             /\ Wrote("finish") \/ Wrote("error") => wire'[Len(wire')] \in {"usage", "DONE"}
  <2>1. /\ wire \in Seq(WireEvents)
        /\ Wrote("DONE") => step = "over"
        /\ Wrote("finish") => step \in {"usage", "done", "over"}
        /\ Wrote("error") => step \in {"error done", "over"}
        /\ Wrote("reply") \/ Wrote("refusal") => step = "over"
    BY <1>1 DEF EndInv, WireOfStep
  <2>2. WriteRole \/ WriteCalls \/ WriteFinish \/ WriteUsage \/ WriteDone \/ WriteError
          \/ WriteReply \/ WriteRefusal
    BY <1>1, ReadCases DEF Next, ClientLeaves, Prepare, Refuse, Connect, Parse, vars
  <2>3. step # "over"
    BY <2>2 DEF WriteRole, WriteCalls, WriteFinish, WriteUsage, WriteDone, WriteError,
       WriteReply, WriteRefusal
  <2>4. \A event \in WireEvents : \A next :
          Write(event, next) => wire' = Append(wire, event)
    BY <1>1 DEF Write
  <2>5. step = "usage" => wire' = Append(wire, "usage")
    BY <2>2, <2>4 DEF WriteRole, WriteCalls, WriteFinish, WriteUsage, WriteDone, WriteError,
       WriteReply, WriteRefusal, WireEvents
  <2>6. step \in {"done", "error done"} => wire' = Append(wire, "DONE")
    BY <2>2, <2>4 DEF WriteRole, WriteCalls, WriteFinish, WriteUsage, WriteDone, WriteError,
       WriteReply, WriteRefusal, WireEvents
  <2> QED
    BY <2>1, <2>3, <2>5, <2>6, AppendWrites DEF WireEvents
<1> QED
  BY <1>1, EndInit, EndInductive, PTL DEF Spec, OneEnding

-----------------------------------------------------------------------------
(* What is asked of the native server *)

\* The smallest of a few numbers is one of them and below the others.
LEMMA MinOf ==
  ASSUME NEW S \in SUBSET Int, NEW low \in S, \A x \in S : low <= x
  PROVE  Min(S) = low
<1>1. \E x \in S : \A y \in S : x <= y
  OBVIOUS
<1>2. Min(S) \in S /\ \A y \in S : Min(S) <= y
  BY <1>1 DEF Min
<1>3. Min(S) \in Int /\ low \in Int
  BY <1>2
<1>4. low <= Min(S) /\ Min(S) <= low
  BY <1>2
<1> HIDE DEF Min
<1> QED
  BY <1>3, <1>4

\* The largest likewise.
LEMMA MaxOf ==
  ASSUME NEW S \in SUBSET Int, NEW high \in S, \A x \in S : high >= x
  PROVE  Max(S) = high
<1>1. \E x \in S : \A y \in S : x >= y
  OBVIOUS
<1>2. Max(S) \in S /\ \A y \in S : Max(S) >= y
  BY <1>1 DEF Max
<1>3. Max(S) \in Int /\ high \in Int
  BY <1>2
<1>4. high >= Max(S) /\ Max(S) >= high
  BY <1>2
<1> HIDE DEF Max
<1> QED
  BY <1>3, <1>4

\* The smaller and the larger of two.
LEMMA OfTwo ==
  ASSUME NEW a \in Int, NEW b \in Int
  PROVE  /\ Min({a, b}) = IF a <= b THEN a ELSE b
         /\ Max({a, b}) = IF a >= b THEN a ELSE b
<1> DEFINE S == {a, b}
<1>1. S \in SUBSET Int
  OBVIOUS
<1>2. CASE a < b
  <2>1. (\A x \in S : a <= x) /\ (\A x \in S : b >= x) /\ a \in S /\ b \in S
    BY <1>2
  <2> HIDE DEF S
  <2>2. Min(S) = a /\ Max(S) = b
    BY <1>1, <2>1, MinOf, MaxOf
  <2> QED
    BY <1>2, <2>2 DEF S
<1>3. CASE a >= b
  <2>1. (\A x \in S : b <= x) /\ (\A x \in S : a >= x) /\ a \in S /\ b \in S
    BY <1>3
  <2> HIDE DEF S
  <2>2. Min(S) = b /\ Max(S) = a
    BY <1>1, <2>1, MinOf, MaxOf
  <2> QED
    BY <1>3, <2>2 DEF S
<1> QED
  BY <1>2, <1>3

\* n_predict is positive and within every limit.
LEMMA PredictBounds ==
  ASSUME NEW max_tokens \in Nat \ {0}, NEW prompt \in Nat, Fits(prompt)
  PROVE  /\ Predict(max_tokens, prompt) \in 1 .. MAX_OUTPUT_TOKENS
         /\ Predict(max_tokens, prompt) <= max_tokens
         /\ prompt + Predict(max_tokens, prompt) <= CONTEXT_WINDOW
<1> DEFINE S == {max_tokens, MAX_OUTPUT_TOKENS, CONTEXT_WINDOW - prompt}
<1>1. S \subseteq Nat \ {0}
  BY BudgetAssumption DEF Fits
<1>2. \E low \in S : \A x \in S : low <= x
  BY <1>1
<1>3. PICK low \in S : \A x \in S : low <= x
  BY <1>2
<1>4. Predict(max_tokens, prompt) = Min(S)
  BY DEF Predict
<1>5. S \in SUBSET Int
  BY <1>1
<1>6. Min(S) = low
  <2> HIDE DEF S
  <2> QED
    BY <1>3, <1>5, MinOf
<1> QED
  BY <1>1, <1>3, <1>4, <1>6, BudgetAssumption

\* The reasoning is bounded by what leaves room for the answer.
LEMMA ReasoningBounds ==
  ASSUME NEW max_tokens \in Nat \ {0}, NEW asked \in Nat \union {NoBudget},
         NEW effort \in Efforts, NEW mode \in BOOLEAN,
         Acceptable(mode, asked, max_tokens)
  PROVE  LET budget == ReasoningBudget(mode, asked, effort, max_tokens)
         IN /\ budget \in Int
            /\ mode <=> budget >= 1
            /\ max_tokens > MIN_ANSWER_TOKENS => max_tokens - budget >= MIN_ANSWER_TOKENS
<1> DEFINE wanted == IF asked = NoBudget THEN DEFAULT_REASONING_BUDGETS[effort] ELSE asked
           room == IF max_tokens - MIN_ANSWER_TOKENS >= 1
                     THEN max_tokens - MIN_ANSWER_TOKENS ELSE 1
<1>1. CASE mode
  <2>1. wanted \in Nat \ {0}
    BY <1>1, BudgetAssumption DEF Acceptable, NoBudget
  <2>2. Max({1, max_tokens - MIN_ANSWER_TOKENS}) = room /\ room \in Nat \ {0}
    <3>1. max_tokens - MIN_ANSWER_TOKENS \in Int
      BY BudgetAssumption
    <3>2. Max({1, max_tokens - MIN_ANSWER_TOKENS}) =
            IF 1 >= max_tokens - MIN_ANSWER_TOKENS THEN 1 ELSE max_tokens - MIN_ANSWER_TOKENS
      BY <3>1, OfTwo
    <3> QED
      BY <3>1, <3>2
  <2>3. Min({wanted, room}) = IF wanted <= room THEN wanted ELSE room
    <3>1. wanted \in Int /\ room \in Int
      BY <2>1, <2>2
    <3> HIDE DEF wanted, room
    <3> QED
      BY <3>1, OfTwo
  <2>4. ReasoningBudget(mode, asked, effort, max_tokens) =
          IF wanted <= room THEN wanted ELSE room
    BY <1>1, <2>2, <2>3 DEF ReasoningBudget
  <2>5. max_tokens > MIN_ANSWER_TOKENS => room = max_tokens - MIN_ANSWER_TOKENS
    BY BudgetAssumption
  <2> DEFINE least == IF wanted <= room THEN wanted ELSE room
  <2>6. /\ least \in Int /\ least >= 1
        /\ max_tokens > MIN_ANSWER_TOKENS => max_tokens - least >= MIN_ANSWER_TOKENS
    <3> HIDE DEF wanted, room
    <3> QED
      BY <2>1, <2>2, <2>5, BudgetAssumption
  <2> HIDE DEF least
  <2> QED
    BY <1>1, <2>4, <2>6, Zenon DEF least
<1>2. CASE ~mode
  BY <1>2, BudgetAssumption DEF ReasoningBudget, NoBudget
<1> QED
  BY <1>1, <1>2

PayloadInv == thinking \in BOOLEAN /\ PayloadFits

\* Only prepare makes a request to the native server.
LEMMA PayloadInductive == PayloadInv /\ [Next]_vars => PayloadInv'
<1> SUFFICES ASSUME PayloadInv, [Next]_vars PROVE PayloadInv'
  OBVIOUS
<1>1. UNCHANGED thinking
  BY DEF vars, Next, ClientLeaves, Prepare, Refuse, WriteRole, Connect, Receive, ReceiveBad,
     ConnectionBreaks, Flush, Parse, WriteCalls, WriteFinish, WriteUsage, WriteDone,
     WriteError, WriteRefusal, WriteReply, Write, request
<1>2. CASE Prepare
  <2>1. PICK asked \in Amounts \union {NoBudget}, effort \in Efforts,
             max_tokens \in Amounts, prompt \in Amounts :
          /\ Acceptable(thinking, asked, max_tokens)
          /\ Fits(prompt)
          /\ payload' = [ max_tokens |-> max_tokens, prompt |-> prompt,
                          n_predict |-> Predict(max_tokens, prompt),
                          reasoning |-> ReasoningBudget(thinking, asked, effort, max_tokens) ]
    BY <1>2 DEF Prepare
  <2>2. /\ max_tokens \in Nat \ {0} /\ prompt \in Nat
        /\ asked \in Nat \union {NoBudget} /\ thinking \in BOOLEAN
    BY <2>1, AmountsAssumption DEF Acceptable, PayloadInv
  <2> DEFINE n == Predict(max_tokens, prompt)
             budget == ReasoningBudget(thinking, asked, effort, max_tokens)
  <2>3. /\ n \in 1 .. MAX_OUTPUT_TOKENS
        /\ n <= max_tokens
        /\ prompt + n <= CONTEXT_WINDOW
    BY <2>1, <2>2, PredictBounds
  <2>4. /\ budget \in Int
        /\ thinking <=> budget >= 1
        /\ max_tokens > MIN_ANSWER_TOKENS => max_tokens - budget >= MIN_ANSWER_TOKENS
    BY <2>1, <2>2, ReasoningBounds
  <2>5. /\ payload'.max_tokens = max_tokens /\ payload'.prompt = prompt
        /\ payload'.n_predict = n /\ payload'.reasoning = budget
    BY <2>1
  <2> HIDE DEF n, budget
  <2> QED
    BY <1>1, <2>2, <2>3, <2>4, <2>5, BudgetAssumption DEF PayloadInv, PayloadFits
<1>3. CASE Connect
  BY <1>1, <1>3 DEF Connect, PayloadInv, PayloadFits
<1>4. CASE ~Prepare /\ ~Connect
  <2>1. UNCHANGED payload
    BY <1>4 DEF vars, Next, ClientLeaves, Refuse, WriteRole, Receive, ReceiveBad,
       ConnectionBreaks, Flush, Parse, WriteCalls, WriteFinish, WriteUsage, WriteDone,
       WriteError, WriteRefusal, WriteReply, Write
  <2> QED
    BY <1>1, <2>1 DEF PayloadInv, PayloadFits
<1> QED
  BY <1>2, <1>3, <1>4

\* What the native server is asked for fits in the context window, for every
\* window, limit, default budget and request.
THEOREM PayloadsFit == Spec => []PayloadFits
<1>1. Init => PayloadInv
  BY DEF Init, PayloadInv, PayloadFits
<1>2. PayloadInv => PayloadFits
  BY DEF PayloadInv
<1> QED
  BY <1>1, <1>2, PayloadInductive, PTL DEF Spec

-----------------------------------------------------------------------------
(* Texts and where a marker stands in them *)

Strings == Seq(Characters)

\* A joined text has the characters of its parts.
LEMMA Joined ==
  ASSUME NEW s \in Strings, NEW t \in Strings
  PROVE  /\ s \o t \in Strings
         /\ Len(s) \in Nat /\ Len(t) \in Nat
         /\ Len(s \o t) = Len(s) + Len(t)
         /\ \A i \in 1 .. Len(s) : (s \o t)[i] = s[i]
         /\ \A i \in 1 .. Len(t) : (s \o t)[Len(s) + i] = t[i]
  BY ConcatProperties DEF Strings

\* Joining is associative.
LEMMA Regrouped ==
  ASSUME NEW s \in Strings, NEW t \in Strings, NEW u \in Strings
  PROVE  (s \o t) \o u = s \o (t \o u)
  BY ConcatAssociative DEF Strings

\* The empty text joins without effect and is the only one of length 0.
LEMMA EmptyText ==
  /\ <<>> \in Strings /\ Len(<<>>) = 0
  /\ \A s \in Strings : <<>> \o s = s /\ s \o <<>> = s
  /\ \A s \in Strings : Len(s) = 0 => s = <<>>
  BY EmptySeq, ConcatEmptySeq DEF Strings

\* Texts of the same characters are the same.
LEMMA SameText ==
  ASSUME NEW s \in Strings, NEW t \in Strings,
         Len(s) = Len(t), \A i \in 1 .. Len(s) : s[i] = t[i]
  PROVE  s = t
  BY SeqEqual DEF Strings

\* A piece of a text, character by character.
LEMMA Piece ==
  ASSUME NEW s \in Strings, NEW i \in Nat, NEW j \in Nat, i >= 1, i <= j + 1, j <= Len(s)
  PROVE  /\ SubSeq(s, i, j) \in Strings
         /\ Len(SubSeq(s, i, j)) = j - i + 1
         /\ \A k \in 1 .. j - i + 1 : SubSeq(s, i, j)[k] = s[i + k - 1]
<1>1. \A k \in i .. j : s[k] \in Characters
  BY ElementOfSeq DEF Strings
<1>2. /\ SubSeq(s, i, j) \in Seq(Characters)
      /\ Len(SubSeq(s, i, j)) = IF i <= j THEN j - i + 1 ELSE 0
      /\ \A k \in 1 .. j - i + 1 : SubSeq(s, i, j)[k] = s[i + k - 1]
  BY <1>1, SubSeqProperties
<1> QED
  BY <1>2 DEF Strings

\* m stands in s at i.
Occurs(s, i, m) ==
  /\ i >= 1 /\ i + Len(m) - 1 <= Len(s)
  /\ \A k \in 1 .. Len(m) : s[i + k - 1] = m[k]

Markers == {ThinkOpen, ThinkClose, CallsOpen}

\* A marker is a text of at least two characters.
LEMMA MarkersAreStrings ==
  \A m \in Markers : m \in Strings /\ Len(m) \in Nat /\ Len(m) >= 2
  BY MarkerAssumption, MarkersAreTexts DEF Markers, Strings

\* A text starts with m when m stands at its first place.
LEMMA StartsOccurs ==
  ASSUME NEW s \in Strings, NEW m \in Strings
  PROVE  StartsWith(s, m) <=> Occurs(s, 1, m)
<1>1. Len(s) \in Nat /\ Len(m) \in Nat
  BY Joined
<1>2. CASE Len(m) <= Len(s)
  <2>1. /\ SubSeq(s, 1, Len(m)) \in Strings
        /\ Len(SubSeq(s, 1, Len(m))) = Len(m)
        /\ \A k \in 1 .. Len(m) : SubSeq(s, 1, Len(m))[k] = s[k]
    BY <1>1, <1>2, Piece
  <2>2. SubSeq(s, 1, Len(m)) = m <=> \A k \in 1 .. Len(m) : s[k] = m[k]
    BY <2>1, SameText
  <2> QED
    BY <1>1, <1>2, <2>2 DEF StartsWith, Occurs
<1> QED
  BY <1>1, <1>2 DEF StartsWith, Occurs

\* The rest of a text starts with m when m stands there.
LEMMA OccursInPiece ==
  ASSUME NEW s \in Strings, NEW m \in Strings, NEW i \in 1 .. Len(s)
  PROVE  StartsWith(SubSeq(s, i, Len(s)), m) <=> Occurs(s, i, m)
<1> DEFINE p == SubSeq(s, i, Len(s))
<1>1. Len(s) \in Nat /\ Len(m) \in Nat /\ i \in Nat /\ i >= 1 /\ i <= Len(s) + 1
  BY Joined
<1>2. /\ p \in Strings /\ Len(p) = Len(s) - i + 1
      /\ \A k \in 1 .. Len(s) - i + 1 : p[k] = s[i + k - 1]
  BY <1>1, Piece
<1> HIDE DEF p
<1>3. StartsWith(p, m) <=> Occurs(p, 1, m)
  BY <1>2, StartsOccurs
<1>4. Occurs(p, 1, m) <=> Occurs(s, i, m)
  BY <1>1, <1>2 DEF Occurs
<1> QED
  BY <1>3, <1>4 DEF p

\* Find returns the first place where the marker stands, or 0 if it stands nowhere.
LEMMA FindFirst ==
  ASSUME NEW s \in Strings, NEW m \in Markers
  PROVE  /\ Find(s, m) \in 0 .. Len(s)
         /\ Find(s, m) = 0 => \A j \in Nat : ~Occurs(s, j, m)
         /\ Find(s, m) > 0 => /\ Occurs(s, Find(s, m), m)
                              /\ \A j \in Nat : Occurs(s, j, m) => Find(s, m) <= j
<1> DEFINE at == {i \in 1 .. Len(s) : StartsWith(SubSeq(s, i, Len(s)), m)}
<1>0. Len(s) \in Nat /\ m \in Strings /\ Len(m) \in Nat /\ Len(m) >= 2
  BY Joined, MarkersAreStrings
<1>1. \A j \in Nat : Occurs(s, j, m) <=> j \in at
  <2>1. \A j \in Nat : Occurs(s, j, m) => j \in 1 .. Len(s)
    BY <1>0 DEF Occurs
  <2>2. \A j \in 1 .. Len(s) : j \in at <=> Occurs(s, j, m)
    BY <1>0, OccursInPiece
  <2> QED
    BY <2>1, <2>2
<1>2. at \subseteq Nat /\ \A i \in at : i \in 1 .. Len(s)
  BY <1>0
<1>3. Find(s, m) = IF at = {} THEN 0 ELSE CHOOSE i \in at : \A j \in at : i <= j
  BY DEF Find
<1>4. at # {} => \E i \in at : \A j \in at : i <= j
  <2> SUFFICES ASSUME at # {} PROVE \E i \in at : \A j \in at : i <= j
    OBVIOUS
  <2> HIDE DEF at
  <2>2. \E x \in at : \A y \in at : ~ (<<y, x>> \in OpToRel(<, Nat))
    BY <1>2, NatLessThanWellFounded, WFMin
  <2>3. PICK x \in at : \A y \in at : ~ (<<y, x>> \in OpToRel(<, Nat))
    BY <2>2
  <2>4. \A y \in at : ~ (y < x)
    BY <1>2, <2>3 DEF OpToRel
  <2> QED
    BY <1>2, <2>4
<1> DEFINE first == Find(s, m)
<1> HIDE DEF at, first
<1>5. /\ at = {} => first = 0
      /\ at # {} => first \in at /\ \A j \in at : first <= j
  BY <1>3, <1>4 DEF first
<1>6. CASE at = {}
  BY <1>0, <1>1, <1>5, <1>6 DEF first
<1>7. CASE at # {}
  <2>1. first \in 1 .. Len(s) /\ first \in Nat /\ first > 0
    <3>1. first \in at
      BY <1>5, <1>7
    <3>2. first \in 1 .. Len(s)
      BY <1>2, <3>1
    <3> QED
      BY <1>0, <3>2
  <2>2. Occurs(s, first, m) /\ \A j \in Nat : Occurs(s, j, m) => first <= j
    BY <1>1, <1>5, <1>7, <2>1
  <2> QED
    BY <1>0, <2>1, <2>2 DEF first
<1> QED
  BY <1>6, <1>7

\* The first occurrence is what Find returns.
LEMMA FindIs ==
  ASSUME NEW s \in Strings, NEW m \in Markers, NEW i \in Nat, Occurs(s, i, m),
         \A j \in Nat : Occurs(s, j, m) => i <= j
  PROVE  Find(s, m) = i
<1>1. Len(s) \in Nat
  BY Joined
<1>2. Find(s, m) \in Nat
  BY <1>1, FindFirst
<1>3. Find(s, m) > 0 /\ i <= Find(s, m) /\ Find(s, m) <= i
  BY <1>2, FindFirst
<1> QED
  BY <1>2, <1>3

\* Without an occurrence Find returns 0.
LEMMA FindNot ==
  ASSUME NEW s \in Strings, NEW m \in Markers, \A j \in Nat : ~Occurs(s, j, m)
  PROVE  Find(s, m) = 0
<1>1. Len(s) \in Nat
  BY Joined
<1>2. Find(s, m) \in Nat
  BY <1>1, FindFirst
<1> QED
  BY <1>2, FindFirst

\* Kept: nothing of m is in whole; of it out is handed on and buf kept back
\* long enough for the beginning of m.
Kept(whole, out, buf, m) ==
  /\ out \in Strings /\ buf \in Strings
  /\ whole = out \o buf
  /\ Find(whole, m) = 0
  /\ out = <<>> \/ Len(buf) = Len(m) - 1

\* m occurs in the whole where it occurs in what was kept and came since.
LEMMA OccursShifted ==
  ASSUME NEW s \in Strings, NEW t \in Strings, NEW m \in Strings, NEW i \in Nat, i >= 1
  PROVE  Occurs(s \o t, Len(s) + i, m) <=> Occurs(t, i, m)
<1>1. /\ Len(m) \in Nat /\ Len(s) \in Nat /\ Len(t) \in Nat
      /\ Len(s \o t) = Len(s) + Len(t)
      /\ \A k \in 1 .. Len(t) : (s \o t)[Len(s) + k] = t[k]
  BY Joined
<1>2. CASE i + Len(m) - 1 <= Len(t)
  <2>1. ASSUME NEW k \in 1 .. Len(m)
        PROVE  (s \o t)[Len(s) + i + k - 1] = t[i + k - 1]
    <3>1. i + k - 1 \in 1 .. Len(t) /\ Len(s) + i + k - 1 = Len(s) + (i + k - 1)
      BY <1>1, <1>2
    <3> QED
      BY <1>1, <3>1
  <2>2. Occurs(s \o t, Len(s) + i, m) <=>
          \A k \in 1 .. Len(m) : (s \o t)[Len(s) + i + k - 1] = m[k]
    BY <1>1, <1>2 DEF Occurs
  <2>3. Occurs(t, i, m) <=> \A k \in 1 .. Len(m) : t[i + k - 1] = m[k]
    BY <1>1, <1>2 DEF Occurs
  <2> QED
    BY <2>1, <2>2, <2>3
<1> QED
  BY <1>1, <1>2 DEF Occurs

\* What stands inside a text does not depend on what follows it.
LEMMA OccursLonger ==
  ASSUME NEW s \in Strings, NEW t \in Strings, NEW m \in Strings, NEW i \in Nat,
         i + Len(m) - 1 <= Len(s)
  PROVE  Occurs(s \o t, i, m) <=> Occurs(s, i, m)
<1>1. /\ Len(m) \in Nat /\ Len(s) \in Nat /\ Len(t) \in Nat
      /\ Len(s \o t) = Len(s) + Len(t)
      /\ \A k \in 1 .. Len(s) : (s \o t)[k] = s[k]
  BY Joined
<1>2. i >= 1 => \A k \in 1 .. Len(m) : (s \o t)[i + k - 1] = s[i + k - 1]
  <2> SUFFICES ASSUME i >= 1, NEW k \in 1 .. Len(m)
               PROVE  (s \o t)[i + k - 1] = s[i + k - 1]
    OBVIOUS
  <2>1. i + k - 1 \in 1 .. Len(s)
    BY <1>1
  <2> QED
    BY <1>1, <2>1
<1> QED
  BY <1>1, <1>2 DEF Occurs

\* A text is what is kept back of it after what is handed on.
LEMMA Halves ==
  ASSUME NEW s \in Strings, NEW k \in Nat
  PROVE  /\ AllBut(s, k) \in Strings /\ Tail_(s, k) \in Strings
         /\ s = AllBut(s, k) \o Tail_(s, k)
         /\ AllBut(s, k) = <<>> \/ Len(Tail_(s, k)) = k
<1>1. Len(s) \in Nat /\ <<>> \in Strings /\ Len(<<>>) = 0
  BY Joined DEF Strings
<1>2. CASE Len(s) <= k
  <2>1. AllBut(s, k) = <<>> /\ Tail_(s, k) = s
    BY <1>1, <1>2, SubSeqEmpty DEF AllBut, Tail_
  <2>2. <<>> \o s = s
    BY ConcatEmptySeq DEF Strings
  <2> QED
    BY <1>1, <2>1, <2>2
<1>3. CASE Len(s) > k
  <2> DEFINE n == Len(s) - k
  <2>1. AllBut(s, k) = SubSeq(s, 1, n) /\ Tail_(s, k) = SubSeq(s, n + 1, Len(s))
    BY <1>1, <1>3 DEF AllBut, Tail_, After
  <2>2. n \in 1 .. Len(s) /\ n \in Nat
    BY <1>1, <1>3
  <2>3. SubSeq(s, 1, n) \o SubSeq(s, n + 1, Len(s)) = SubSeq(s, 1, Len(s))
    <3> HIDE DEF n
    <3> QED
      BY <1>1, <2>2, ConcatAdjacentSubSeq DEF Strings
  <2>4. SubSeq(s, 1, Len(s)) = s
    BY SubSeqFull DEF Strings
  <2>5. /\ SubSeq(s, 1, n) \in Strings /\ SubSeq(s, n + 1, Len(s)) \in Strings
        /\ Len(SubSeq(s, n + 1, Len(s))) = k
    <3>1. /\ SubSeq(s, 1, n) \in Strings /\ SubSeq(s, n + 1, Len(s)) \in Strings
          /\ Len(SubSeq(s, n + 1, Len(s))) = Len(s) - (n + 1) + 1
      <4> HIDE DEF n
      <4> QED
        BY <1>1, <2>2, Piece
    <3> QED
      BY <1>1, <3>1
  <2> QED
    BY <2>1, <2>3, <2>4, <2>5
<1> QED
  BY <1>1, <1>2, <1>3

\* New text makes m stand only where it uses what was kept back.
LEMMA KeptOccurs ==
  ASSUME NEW whole \in Strings, NEW out, NEW buf, NEW m \in Markers,
         Kept(whole, out, buf, m), NEW d \in Strings
  PROVE  /\ whole \o d = out \o (buf \o d)
         /\ \A j \in Nat : Occurs(whole \o d, j, m) => j > Len(out)
         /\ \A j \in Nat : j >= 1 =>
              (Occurs(whole \o d, Len(out) + j, m) <=> Occurs(buf \o d, j, m))
<1>1. /\ out \in Strings /\ buf \in Strings /\ whole = out \o buf /\ Find(whole, m) = 0
      /\ out = <<>> \/ Len(buf) = Len(m) - 1
      /\ m \in Strings /\ Len(m) \in Nat /\ Len(m) >= 2
  BY MarkersAreStrings DEF Kept
<1>2. whole \o d = out \o (buf \o d) /\ buf \o d \in Strings
  <2>1. (out \o buf) \o d = out \o (buf \o d)
    BY <1>1, Regrouped, Zenon
  <2>2. buf \o d \in Strings
    BY <1>1, Joined
  <2> QED
    BY <1>1, <2>1, <2>2
<1>3. \A j \in Nat : j >= 1 =>
        (Occurs(whole \o d, Len(out) + j, m) <=> Occurs(buf \o d, j, m))
  BY <1>1, <1>2, OccursShifted
<1>4. ASSUME NEW j \in Nat, Occurs(whole \o d, j, m), j <= Len(out) PROVE FALSE
  <2>1. j >= 1 /\ Len(out) \in Nat /\ Len(buf) \in Nat /\ Len(whole) = Len(out) + Len(buf)
    BY <1>1, <1>4, Joined DEF Occurs
  <2>2. out # <<>>
    BY <1>4, <2>1
  <2>3. j + Len(m) - 1 <= Len(whole)
    BY <1>1, <1>4, <2>1, <2>2
  <2>4. Occurs(whole, j, m)
    BY <1>1, <1>4, <2>3, OccursLonger
  <2> QED
    BY <1>1, <2>4, FindFirst
<1>5. Len(out) \in Nat
  BY <1>1, Joined
<1> QED
  BY <1>2, <1>3, <1>4, <1>5

\* Nothing of m is complete: the new text is kept back likewise ...
LEMMA KeptStays ==
  ASSUME NEW whole \in Strings, NEW out, NEW buf, NEW m \in Markers,
         Kept(whole, out, buf, m), NEW d \in Strings, Find(buf \o d, m) = 0
  PROVE  Kept(whole \o d, out \o AllBut(buf \o d, Len(m) - 1), Tail_(buf \o d, Len(m) - 1), m)
<1> DEFINE value == buf \o d
           shown == AllBut(value, Len(m) - 1)
           rest == Tail_(value, Len(m) - 1)
<1>1. /\ out \in Strings /\ buf \in Strings
      /\ out = <<>> \/ Len(buf) = Len(m) - 1
      /\ m \in Strings /\ Len(m) - 1 \in Nat
  BY MarkersAreStrings DEF Kept
<1>2. value \in Strings /\ whole \o d = out \o value /\ whole \o d \in Strings
  <2>1. value \in Strings /\ whole \o d \in Strings
    BY <1>1, Joined
  <2>2. whole \o d = out \o value
    <3>1. whole = out \o buf
      BY DEF Kept
    <3>2. (out \o buf) \o d = out \o (buf \o d)
      BY <1>1, Regrouped, Zenon
    <3> QED
      BY <3>1, <3>2
  <2> QED
    BY <2>1, <2>2
<1>3. /\ shown \in Strings /\ rest \in Strings /\ value = shown \o rest
      /\ shown = <<>> \/ Len(rest) = Len(m) - 1
  <2> HIDE DEF value
  <2> QED
    BY <1>1, <1>2, Halves
<1>4. whole \o d = (out \o shown) \o rest /\ out \o shown \in Strings
  <2> HIDE DEF value, shown, rest
  <2>1. out \o shown \in Strings
    BY <1>1, <1>3, Joined
  <2>3. out \in Strings /\ shown \in Strings /\ rest \in Strings
    BY <1>1, <1>3
  <2>2. (out \o shown) \o rest = out \o (shown \o rest)
    BY <2>3, Regrouped, Zenon
  <2> QED
    BY <1>2, <1>3, <2>1, <2>2
<1>5. Find(whole \o d, m) = 0
  <2>1. \A j \in Nat : ~Occurs(value, j, m)
    <3> HIDE DEF value
    <3> QED
      BY <1>2, FindFirst DEF value
  <2>2. ASSUME NEW j \in Nat, Occurs(whole \o d, j, m) PROVE FALSE
    <3>1. j > Len(out) /\ Len(out) \in Nat
      BY <1>1, <2>2, KeptOccurs, Joined
    <3>2. j - Len(out) \in Nat /\ j - Len(out) >= 1 /\ Len(out) + (j - Len(out)) = j
      BY <3>1
    <3>3. Occurs(value, j - Len(out), m)
      BY <2>2, <3>2, KeptOccurs
    <3> QED
      BY <2>1, <3>2, <3>3
  <2> HIDE DEF value
  <2> QED
    BY <1>2, <2>2, FindNot
<1>6. out \o shown = <<>> \/ Len(rest) = Len(m) - 1
  <2>1. CASE shown = <<>> /\ out = <<>>
    BY <2>1
  <2>2. CASE shown = <<>> /\ out # <<>>
    <3>1. Len(value) >= Len(m) - 1 /\ Len(value) \in Nat
      <4>1. Len(buf) = Len(m) - 1 /\ Len(buf) \in Nat /\ Len(d) \in Nat
            /\ Len(value) = Len(buf) + Len(d)
        BY <1>1, <2>2, Joined
      <4> HIDE DEF value
      <4> QED
        BY <1>1, <4>1
    <3>2. Len(value) = Len(shown) + Len(rest) /\ Len(shown) = 0 /\ rest = value
      <4>1. <<>> \o rest = rest
        <5> HIDE DEF rest
        <5> QED
          BY <1>3, ConcatEmptySeq DEF Strings
      <4> HIDE DEF value, rest, shown
      <4> QED
        BY <1>3, <2>2, <4>1, Joined
    <3>3. Len(Tail_(value, Len(m) - 1)) = Len(m) - 1
      <4>1. CASE Len(value) <= Len(m) - 1
        BY <1>1, <3>1, <4>1 DEF Tail_
      <4>2. CASE Len(value) > Len(m) - 1
        <5> DEFINE from == Len(value) - (Len(m) - 1) + 1
        <5> HIDE DEF value
        <5>1. from \in Nat /\ from >= 1 /\ from <= Len(value) + 1
          BY <1>1, <3>1, <4>2
        <5>2. Len(SubSeq(value, from, Len(value))) = Len(value) - from + 1
          <6> HIDE DEF from
          <6> QED
            BY <1>2, <3>1, <5>1, Piece
        <5> QED
          BY <1>1, <3>1, <4>2, <5>1, <5>2 DEF Tail_, After
      <4> QED
        BY <1>1, <3>1, <4>1, <4>2
    <3> QED
      BY <3>3
  <2>3. CASE Len(rest) = Len(m) - 1
    BY <2>3
  <2> QED
    BY <1>3, <2>1, <2>2, <2>3
<1> HIDE DEF value, shown, rest
<1> QED
  BY <1>3, <1>4, <1>5, <1>6 DEF Kept, value, shown, rest

\* ... or m is found, and it is the first of the whole.
LEMMA KeptFound ==
  ASSUME NEW whole \in Strings, NEW out, NEW buf, NEW m \in Markers,
         Kept(whole, out, buf, m), NEW d \in Strings, Find(buf \o d, m) # 0
  PROVE  Find(whole \o d, m) = Len(out) + Find(buf \o d, m)
<1> DEFINE value == buf \o d
           at == Find(value, m)
<1>1. /\ out \in Strings /\ buf \in Strings
      /\ value \in Strings /\ whole \o d \in Strings /\ Len(out) \in Nat
  BY Joined DEF Kept
<1>2. /\ at \in Nat /\ at >= 1 /\ Occurs(value, at, m)
      /\ \A j \in Nat : Occurs(value, j, m) => at <= j
  <2>1. Len(value) \in Nat
    <3> HIDE DEF value
    <3> QED
      BY <1>1, Joined
  <2> HIDE DEF value
  <2> QED
    BY <1>1, <2>1, FindFirst DEF value
<1> HIDE DEF at
<1>3. Occurs(whole \o d, Len(out) + at, m)
  BY <1>2, KeptOccurs
<1>4. ASSUME NEW j \in Nat, Occurs(whole \o d, j, m) PROVE Len(out) + at <= j
  <2>1. j > Len(out)
    BY <1>4, KeptOccurs
  <2>2. j - Len(out) \in Nat /\ j - Len(out) >= 1 /\ Len(out) + (j - Len(out)) = j
    BY <1>1, <2>1
  <2>3. Occurs(value, j - Len(out), m)
    BY <1>4, <2>2, KeptOccurs
  <2>4. at <= j - Len(out)
    BY <1>2, <2>2, <2>3
  <2> QED
    BY <1>1, <1>2, <2>2, <2>4
<1>5. Len(out) + at \in Nat
  BY <1>1, <1>2
<1>6. Find(whole \o d, m) = Len(out) + at
  <2> HIDE DEF value
  <2> QED
    BY <1>1, <1>3, <1>4, <1>5, FindIs
<1> QED
  BY <1>6 DEF at

-----------------------------------------------------------------------------
(* What is before a place and after it *)

\* What is before a place, character by character.
LEMMA BeforeIs ==
  ASSUME NEW s \in Strings, NEW i \in 1 .. Len(s) + 1
  PROVE  /\ Before(s, i) \in Strings /\ Len(Before(s, i)) = i - 1
         /\ \A k \in 1 .. i - 1 : Before(s, i)[k] = s[k]
<1>1. Len(s) \in Nat
  BY Joined
<1>2. i - 1 \in Nat /\ 1 <= i - 1 + 1 /\ i - 1 <= Len(s) /\ (i - 1) - 1 + 1 = i - 1
  BY <1>1
<1> DEFINE j == i - 1
<1>3. j \in Nat /\ 1 <= j + 1 /\ j <= Len(s) /\ j - 1 + 1 = j
  BY <1>2
<1>4. Before(s, i) = SubSeq(s, 1, j)
  BY DEF Before
<1> HIDE DEF j
<1>5. /\ SubSeq(s, 1, j) \in Strings /\ Len(SubSeq(s, 1, j)) = j
      /\ \A k \in 1 .. j : SubSeq(s, 1, j)[k] = s[1 + k - 1]
  <2>1. /\ SubSeq(s, 1, j) \in Strings /\ Len(SubSeq(s, 1, j)) = j - 1 + 1
        /\ \A k \in 1 .. j - 1 + 1 : SubSeq(s, 1, j)[k] = s[1 + k - 1]
    BY <1>3, Piece
  <2> QED
    BY <1>3, <2>1
<1> QED
  BY <1>4, <1>5 DEF j

\* What is at a place and after it, character by character.
LEMMA AfterIs ==
  ASSUME NEW s \in Strings, NEW i \in 1 .. Len(s) + 1
  PROVE  /\ After(s, i) \in Strings /\ Len(After(s, i)) = Len(s) - i + 1
         /\ \A k \in 1 .. Len(s) - i + 1 : After(s, i)[k] = s[i + k - 1]
<1>1. Len(s) \in Nat /\ i \in Nat /\ i >= 1 /\ i <= Len(s) + 1
  BY Joined
<1> QED
  BY <1>1, Piece DEF After

\* What follows a text does not change what is before a place in it.
LEMMA BeforeLonger ==
  ASSUME NEW s \in Strings, NEW t \in Strings, NEW i \in 1 .. Len(s) + 1
  PROVE  Before(s \o t, i) = Before(s, i)
<1>1. /\ s \o t \in Strings /\ Len(s) \in Nat /\ Len(t) \in Nat
      /\ Len(s \o t) = Len(s) + Len(t)
      /\ \A k \in 1 .. Len(s) : (s \o t)[k] = s[k]
  BY Joined
<1>2. i \in 1 .. Len(s \o t) + 1
  BY <1>1
<1>3. /\ Before(s \o t, i) \in Strings /\ Len(Before(s \o t, i)) = i - 1
      /\ \A k \in 1 .. i - 1 : Before(s \o t, i)[k] = (s \o t)[k]
  BY <1>1, <1>2, BeforeIs
<1>4. /\ Before(s, i) \in Strings /\ Len(Before(s, i)) = i - 1
      /\ \A k \in 1 .. i - 1 : Before(s, i)[k] = s[k]
  BY BeforeIs
<1>5. \A k \in 1 .. i - 1 : Before(s \o t, i)[k] = Before(s, i)[k]
  BY <1>1, <1>3, <1>4
<1> QED
  BY <1>3, <1>4, <1>5, SameText

\* Nor does a text in front, which is before every place of the text behind it ...
LEMMA BeforeShifted ==
  ASSUME NEW s \in Strings, NEW t \in Strings, NEW i \in 1 .. Len(t) + 1
  PROVE  Before(s \o t, Len(s) + i) = s \o Before(t, i)
<1> DEFINE n == Len(s) + i
           w == s \o t
           b == Before(w, n)
           u == Before(t, i)
           v == s \o u
<1>1. /\ s \o t \in Strings /\ Len(s) \in Nat /\ Len(t) \in Nat
      /\ Len(s \o t) = Len(s) + Len(t)
      /\ \A k \in 1 .. Len(s) : (s \o t)[k] = s[k]
      /\ \A k \in 1 .. Len(t) : (s \o t)[Len(s) + k] = t[k]
  BY Joined
<1>2. n \in 1 .. Len(w) + 1
  BY <1>1
<1>3. /\ b \in Strings /\ Len(b) = n - 1
      /\ \A k \in 1 .. n - 1 : b[k] = w[k]
  <2> HIDE DEF n, w
  <2> QED
    BY <1>1, <1>2, BeforeIs DEF w
<1>4. /\ u \in Strings /\ Len(u) = i - 1
      /\ \A k \in 1 .. i - 1 : u[k] = t[k]
  BY BeforeIs
<1> HIDE DEF b, u
<1>5. /\ v \in Strings /\ Len(v) = Len(s) + Len(u)
      /\ \A k \in 1 .. Len(s) : v[k] = s[k]
      /\ \A k \in 1 .. Len(u) : v[Len(s) + k] = u[k]
  BY <1>4, Joined
<1> HIDE DEF v
<1>6. Len(b) = Len(v)
  BY <1>1, <1>3, <1>4, <1>5
<1>7. ASSUME NEW k \in 1 .. Len(b) PROVE b[k] = v[k]
  <2>1. CASE k <= Len(s)
    BY <1>1, <1>3, <1>5, <1>7, <2>1
  <2>2. CASE k > Len(s)
    <3> DEFINE l == k - Len(s)
    <3>1. l \in 1 .. i - 1 /\ k = Len(s) + l /\ l \in 1 .. Len(t)
      BY <1>1, <1>3, <1>7, <2>2
    <3> HIDE DEF l
    <3>2. (s \o t)[k] = t[l] /\ v[k] = t[l]
      BY <1>1, <1>4, <1>5, <3>1
    <3> QED
      BY <1>3, <1>7, <3>2
  <2> QED
    BY <1>1, <2>1, <2>2
<1>8. b = v
  BY <1>3, <1>5, <1>6, <1>7, SameText
<1> QED
  BY <1>8 DEF b, v, u

\* ... and not after any of them.
LEMMA AfterShifted ==
  ASSUME NEW s \in Strings, NEW t \in Strings, NEW i \in 1 .. Len(t) + 1
  PROVE  After(s \o t, Len(s) + i) = After(t, i)
<1> DEFINE b == After(s \o t, Len(s) + i)
           u == After(t, i)
<1>1. /\ s \o t \in Strings /\ Len(s) \in Nat /\ Len(t) \in Nat
      /\ Len(s \o t) = Len(s) + Len(t)
      /\ \A k \in 1 .. Len(t) : (s \o t)[Len(s) + k] = t[k]
  BY Joined
<1>2. Len(s) + i \in 1 .. Len(s \o t) + 1
  BY <1>1
<1>3. /\ b \in Strings /\ Len(b) = Len(s \o t) - (Len(s) + i) + 1
      /\ \A k \in 1 .. Len(s \o t) - (Len(s) + i) + 1 : b[k] = (s \o t)[Len(s) + i + k - 1]
  BY <1>1, <1>2, AfterIs
<1>4. /\ u \in Strings /\ Len(u) = Len(t) - i + 1
      /\ \A k \in 1 .. Len(t) - i + 1 : u[k] = t[i + k - 1]
  BY AfterIs
<1> HIDE DEF b, u
<1>5. Len(b) = Len(t) - i + 1
  BY <1>1, <1>3
<1>6. ASSUME NEW k \in 1 .. Len(b) PROVE b[k] = u[k]
  <2>1. i + k - 1 \in 1 .. Len(t) /\ Len(s) + i + k - 1 = Len(s) + (i + k - 1)
        /\ k \in 1 .. Len(t) - i + 1 /\ k \in 1 .. Len(s \o t) - (Len(s) + i) + 1
    BY <1>1, <1>5, <1>6
  <2>2. b[k] = (s \o t)[Len(s) + (i + k - 1)]
    BY <1>3, <2>1
  <2> QED
    BY <1>1, <1>4, <2>1, <2>2
<1>7. b = u
  BY <1>3, <1>4, <1>5, <1>6, SameText
<1> QED
  BY <1>7 DEF b, u

\* A text is what is before a position and what is after it.
LEMMA BeforeAfter ==
  ASSUME NEW s \in Strings, NEW i \in 1 .. Len(s) + 1
  PROVE  s = Before(s, i) \o After(s, i)
<1>1. Len(s) \in Nat /\ i - 1 \in 0 .. Len(s) /\ (i - 1) + 1 = i
  BY Joined
<1> DEFINE k == i - 1
<1>2. SubSeq(s, 1, k) \o SubSeq(s, k + 1, Len(s)) = SubSeq(s, 1, Len(s))
  <2>1. /\ 1 \in 1 .. Len(s) + 1 /\ k \in 1 - 1 .. Len(s) /\ Len(s) \in k .. Len(s)
    BY <1>1
  <2> HIDE DEF k
  <2> QED
    BY <2>1, ConcatAdjacentSubSeq DEF Strings
<1>3. SubSeq(s, 1, Len(s)) = s
  BY SubSeqFull DEF Strings
<1> QED
  BY <1>1, <1>2, <1>3 DEF Before, After

\* What follows a text is after every place in it.
LEMMA AfterLonger ==
  ASSUME NEW s \in Strings, NEW t \in Strings, NEW i \in 1 .. Len(s) + 1
  PROVE  After(s \o t, i) = After(s, i) \o t
<1> DEFINE b == Before(s, i)
           a == After(s, i)
<1>1. /\ b \in Strings /\ Len(b) = i - 1 /\ a \in Strings /\ Len(s) \in Nat
  BY BeforeIs, AfterIs, Joined
<1>2. s = b \o a
  BY BeforeAfter
<1> HIDE DEF a, b
<1>3. s \o t = b \o (a \o t)
  <2>1. (b \o a) \o t = b \o (a \o t)
    BY <1>1, Regrouped, Zenon
  <2> QED
    BY <1>2, <2>1
<1>4. a \o t \in Strings /\ Len(a \o t) \in Nat
  BY <1>1, Joined
<1>5. 1 \in 1 .. Len(a \o t) + 1 /\ Len(b) + 1 = i
  BY <1>1, <1>4
<1>6. After(b \o (a \o t), Len(b) + 1) = After(a \o t, 1)
  BY <1>1, <1>4, <1>5, AfterShifted
<1>7. After(a \o t, 1) = a \o t
  BY <1>4, SubSeqFull DEF After, Strings
<1> QED
  BY <1>3, <1>5, <1>6, <1>7 DEF a

\* Two cuts are one.
LEMMA AfterTwice ==
  ASSUME NEW s \in Strings, NEW i \in 1 .. Len(s) + 1, NEW j \in 1 .. Len(s) - i + 2
  PROVE  After(After(s, i), j) = After(s, i + j - 1)
<1> DEFINE b == Before(s, i)
           a == After(s, i)
<1>1. /\ b \in Strings /\ Len(b) = i - 1 /\ a \in Strings /\ Len(s) \in Nat
      /\ Len(a) = Len(s) - i + 1
  BY BeforeIs, AfterIs, Joined
<1>2. s = b \o a
  BY BeforeAfter
<1> HIDE DEF a, b
<1>3. j \in 1 .. Len(a) + 1 /\ Len(b) + j = i + j - 1
  BY <1>1
<1>4. After(b \o a, Len(b) + j) = After(a, j)
  BY <1>1, <1>3, AfterShifted
<1> QED
  BY <1>2, <1>3, <1>4 DEF a

\* A marker that was found stays where it is found first.
LEMMA FindLonger ==
  ASSUME NEW s \in Strings, NEW t \in Strings, NEW m \in Markers, Find(s, m) > 0
  PROVE  Find(s \o t, m) = Find(s, m)
<1> DEFINE at == Find(s, m)
<1>1. /\ at \in 0 .. Len(s) /\ Len(s) \in Nat /\ s \o t \in Strings
      /\ Occurs(s, at, m) /\ \A j \in Nat : Occurs(s, j, m) => at <= j
      /\ m \in Strings /\ Len(m) \in Nat
  BY FindFirst, Joined, MarkersAreStrings
<1> HIDE DEF at
<1>2. at \in Nat /\ at + Len(m) - 1 <= Len(s)
  BY <1>1 DEF Occurs
<1>3. Occurs(s \o t, at, m)
  BY <1>1, <1>2, OccursLonger
<1>4. ASSUME NEW j \in Nat, Occurs(s \o t, j, m) PROVE at <= j
  <2>1. CASE j + Len(m) - 1 <= Len(s)
    BY <1>1, <1>4, <2>1, OccursLonger
  <2>2. CASE j + Len(m) - 1 > Len(s)
    BY <1>1, <1>2, <2>2
  <2> QED
    BY <1>1, <2>1, <2>2
<1>5. Find(s \o t, m) = at
  BY <1>1, <1>2, <1>3, <1>4, FindIs
<1> QED
  BY <1>5 DEF at

\* A beginning of a beginning is a beginning.
LEMMA Beginnings ==
  ASSUME NEW s \in Strings, NEW t \in Strings
  PROVE  /\ StartsWith(s \o t, s)
         /\ \A u \in Strings : StartsWith(u, s \o t) => StartsWith(u, s)
         /\ StartsWith(s, <<>>) /\ StartsWith(s, s)
         /\ \A i \in 1 .. Len(s) + 1 : StartsWith(s, Before(s, i))
<1>1. /\ s \o t \in Strings /\ Len(s) \in Nat /\ Len(t) \in Nat
      /\ Len(s \o t) = Len(s) + Len(t)
      /\ \A k \in 1 .. Len(s) : (s \o t)[k] = s[k]
  BY Joined
<1>2. Occurs(s \o t, 1, s)
  BY <1>1 DEF Occurs
<1>3. StartsWith(s \o t, s)
  BY <1>1, <1>2, StartsOccurs
<1>4. ASSUME NEW u \in Strings, StartsWith(u, s \o t) PROVE StartsWith(u, s)
  <2>1. Occurs(u, 1, s \o t) /\ Len(u) \in Nat
    BY <1>1, <1>4, StartsOccurs, Joined
  <2>2. /\ 1 + Len(s) + Len(t) - 1 <= Len(u)
        /\ \A k \in 1 .. Len(s) + Len(t) : u[1 + k - 1] = (s \o t)[k]
    BY <1>1, <2>1 DEF Occurs
  <2>3. \A k \in 1 .. Len(s) : u[1 + k - 1] = s[k]
    BY <1>1, <2>2
  <2>4. Occurs(u, 1, s)
    BY <1>1, <2>1, <2>2, <2>3 DEF Occurs
  <2> QED
    BY <2>4, StartsOccurs
<1>5. StartsWith(s, <<>>) /\ StartsWith(s, s)
  <2>1. Occurs(s, 1, <<>>) /\ Occurs(s, 1, s)
    BY <1>1, EmptyText DEF Occurs
  <2> QED
    BY <2>1, StartsOccurs, EmptyText
<1>6. ASSUME NEW i \in 1 .. Len(s) + 1 PROVE StartsWith(s, Before(s, i))
  <2>1. /\ Before(s, i) \in Strings /\ Len(Before(s, i)) = i - 1
        /\ \A k \in 1 .. i - 1 : Before(s, i)[k] = s[k]
    BY BeforeIs
  <2>2. Occurs(s, 1, Before(s, i))
    BY <1>1, <2>1 DEF Occurs
  <2> QED
    BY <2>1, <2>2, StartsOccurs
<1> QED
  BY <1>3, <1>4, <1>5, <1>6

-----------------------------------------------------------------------------
(* Typing *)

Splitters ==
  [ phase : {"start", "reasoning", "content"}, start_buffer : Strings,
    reasoning_buffer : Strings, buffer : Strings, holding_tool_block : BOOLEAN ]

Outs == [splitter : Splitters, reasoning : Strings, content : Strings]

\* A piece of a text is a text.
LEMMA Pieces ==
  ASSUME NEW s \in Strings, NEW i \in Int, NEW j \in Int, i >= 1, j <= Len(s)
  PROVE  SubSeq(s, i, j) \in Strings
  BY DEF Strings

\* What is cut off a text at a position in it, or kept of it, is a text.
LEMMA CutsAreTexts ==
  ASSUME NEW s \in Strings, NEW i \in Nat
  PROVE  /\ i \in 1 .. Len(s) => Before(s, i) \in Strings
         /\ i >= 1 => After(s, i) \in Strings
         /\ AllBut(s, i) \in Strings
         /\ Tail_(s, i) \in Strings
<1>1. Len(s) \in Nat
  BY DEF Strings
<1> QED
  BY <1>1, Pieces DEF Before, After, AllBut, Tail_

\* ToolBlockShield.feed hands on texts and keeps a text.
LEMMA ShieldType ==
  ASSUME NEW s \in Splitters, NEW r \in Strings, NEW t \in Strings
  PROVE  Shield(s, r, t) \in Outs
<1> DEFINE value == s.buffer \o t
           at == Find(value, CallsOpen)
           cut == CallsCut(value, at)
           keep == Len(CallsOpen) - 1
<1>1. value \in Strings /\ <<>> \in Strings
  BY DEF Splitters, Strings
<1>2. at \in 0 .. Len(value) /\ Len(value) \in Nat
  <2> HIDE DEF value
  <2>1. at \in 0 .. Len(value)
    BY <1>1, FindFirst DEF Markers
  <2>2. Len(value) \in Nat
    BY <1>1 DEF Strings
  <2> QED
    BY <2>1, <2>2
<1>3. at > 0 => cut \in 1 .. Len(value) /\ cut \in Nat /\ cut >= 1
  BY <1>2 DEF CallsCut
<1>4. keep \in Nat
  BY MarkerAssumption
<1>5. /\ at > 0 => Before(value, cut) \in Strings /\ After(value, cut) \in Strings
      /\ Tail_(value, keep) \in Strings /\ AllBut(value, keep) \in Strings
  <2> HIDE DEF value, at, cut, keep
  <2> QED
    BY <1>1, <1>3, <1>4, CutsAreTexts
<1>6. /\ [s EXCEPT !.buffer = value] \in Splitters
      /\ at > 0 => [s EXCEPT !.holding_tool_block = TRUE, !.buffer = After(value, cut)]
                     \in Splitters
      /\ [s EXCEPT !.buffer = Tail_(value, keep)] \in Splitters
  <2> HIDE DEF value, at, cut, keep
  <2> QED
    BY <1>1, <1>5 DEF Splitters
<1>7. Shield(s, r, t) =
        IF s.holding_tool_block
          THEN Out([s EXCEPT !.buffer = value], r, <<>>)
        ELSE IF at > 0
          THEN Out([s EXCEPT !.holding_tool_block = TRUE, !.buffer = After(value, cut)],
                   r, Before(value, cut))
        ELSE Out([s EXCEPT !.buffer = Tail_(value, keep)], r, AllBut(value, keep))
  BY DEF Shield
<1> HIDE DEF value, at, cut, keep
<1> QED
  BY <1>1, <1>5, <1>6, <1>7 DEF Out, Outs

\* So does _route ...
LEMMA RouteType ==
  ASSUME NEW s \in Splitters, NEW mode, NEW t \in Strings
  PROVE  Route(s, mode, t) \in Outs
<1> DEFINE value == s.reasoning_buffer \o t
           end == Find(value, ThinkClose)
           keep == Len(ThinkClose) - 1
           routed == [s EXCEPT !.phase = "content", !.reasoning_buffer = <<>>]
<1>1. value \in Strings /\ <<>> \in Strings
  BY DEF Splitters, Strings
<1>2. end \in 0 .. Len(value) /\ Len(value) \in Nat
  <2> HIDE DEF value
  <2>1. end \in 0 .. Len(value)
    BY <1>1, FindFirst DEF Markers
  <2>2. Len(value) \in Nat
    BY <1>1 DEF Strings
  <2> QED
    BY <2>1, <2>2
<1>3. keep \in Nat /\ Len(ThinkClose) \in Nat
  BY MarkerAssumption
<1>4. /\ end # 0 => /\ Before(value, end) \in Strings
                    /\ After(value, end + Len(ThinkClose)) \in Strings
      /\ Tail_(value, keep) \in Strings /\ AllBut(value, keep) \in Strings
  <2>1. end # 0 => /\ end \in 1 .. Len(value) /\ end \in Nat
                   /\ end + Len(ThinkClose) \in Nat /\ end + Len(ThinkClose) >= 1
    BY <1>2, <1>3
  <2> HIDE DEF value, end, keep
  <2> QED
    BY <1>1, <1>3, <2>1, CutsAreTexts
<1>5. /\ routed \in Splitters
      /\ [s EXCEPT !.reasoning_buffer = Tail_(value, keep)] \in Splitters
  <2> HIDE DEF value, end, keep
  <2> QED
    BY <1>1, <1>4 DEF Splitters
<1>6. \A r \in Strings : Shown(mode, r) \in Strings
  BY <1>1 DEF Shown
<1>7. Route(s, mode, t) =
        IF s.phase = "content" THEN Shield(s, <<>>, t)
        ELSE IF end = 0
          THEN Out([s EXCEPT !.reasoning_buffer = Tail_(value, keep)],
                   Shown(mode, AllBut(value, keep)), <<>>)
        ELSE Shield(routed, Shown(mode, Before(value, end)),
                    After(value, end + Len(ThinkClose)))
  BY DEF Route
<1> HIDE DEF value, end, keep, routed
<1>8. CASE s.phase = "content"
  BY <1>1, <1>7, <1>8, ShieldType
<1>9. CASE s.phase # "content" /\ end = 0
  BY <1>1, <1>4, <1>5, <1>6, <1>7, <1>9 DEF Out, Outs
<1>10. CASE s.phase # "content" /\ end # 0
  BY <1>4, <1>5, <1>6, <1>7, <1>10, ShieldType
<1> QED
  BY <1>8, <1>9, <1>10

\* ... and feed ...
LEMMA FeedType ==
  ASSUME NEW s \in Splitters, NEW mode, NEW t \in Strings
  PROVE  feed(s, mode, t) \in Outs
<1> DEFINE value == s.start_buffer \o t
<1>1. value \in Strings /\ <<>> \in Strings
  BY DEF Splitters, Strings
<1>2. After(value, Len(ThinkOpen) + 1) \in Strings
  <2>1. Len(ThinkOpen) + 1 \in Nat /\ Len(ThinkOpen) + 1 >= 1
    BY MarkerAssumption
  <2> HIDE DEF value
  <2> QED
    BY <1>1, <2>1, CutsAreTexts
<1>3. /\ [s EXCEPT !.start_buffer = value] \in Splitters
      /\ \A phase \in {"reasoning", "content"} :
           [s EXCEPT !.phase = phase, !.start_buffer = <<>>] \in Splitters
  <2> HIDE DEF value
  <2> QED
    BY <1>1 DEF Splitters
<1>4. Begin(s, mode, t) \in Outs
  <2>1. Begin(s, mode, t) =
          IF value # ThinkOpen /\ StartsWith(ThinkOpen, value)
            THEN Out([s EXCEPT !.start_buffer = value], <<>>, <<>>)
          ELSE IF StartsWith(value, ThinkOpen)
            THEN Route([s EXCEPT !.phase = "reasoning", !.start_buffer = <<>>], mode,
                       After(value, Len(ThinkOpen) + 1))
          ELSE Route([s EXCEPT !.phase = IF mode THEN "reasoning" ELSE "content",
                               !.start_buffer = <<>>], mode, value)
    BY DEF Begin
  <2> HIDE DEF value
  <2>2. [s EXCEPT !.phase = IF mode THEN "reasoning" ELSE "content", !.start_buffer = <<>>]
          \in Splitters
    BY <1>3
  <2>3. Out([s EXCEPT !.start_buffer = value], <<>>, <<>>) \in Outs
    BY <1>1, <1>3 DEF Out, Outs
  <2>4. /\ Route([s EXCEPT !.phase = "reasoning", !.start_buffer = <<>>], mode,
                 After(value, Len(ThinkOpen) + 1)) \in Outs
        /\ Route([s EXCEPT !.phase = IF mode THEN "reasoning" ELSE "content",
                           !.start_buffer = <<>>], mode, value) \in Outs
    BY <1>1, <1>2, <1>3, <2>2, RouteType
  <2> QED
    BY <2>1, <2>3, <2>4
<1> QED
  BY <1>4, RouteType DEF feed

\* ... and finish.
LEMMA FinishType ==
  ASSUME NEW s \in Splitters, NEW mode
  PROVE  finish(s, mode) \in Outs
<1>1. /\ s.start_buffer \o s.reasoning_buffer \in Strings /\ <<>> \in Strings
      /\ s.start_buffer \in Strings /\ s.buffer \in Strings
  BY DEF Splitters, Strings
<1>2. NewSplitter \in Splitters
  BY <1>1 DEF NewSplitter, Splitters
<1> QED
  BY <1>1, <1>2 DEF finish, Shown, Out, Outs

\* The texts and the buffers.
Typed ==
  /\ thinking \in BOOLEAN /\ streaming \in BOOLEAN
  /\ splitter \in Splitters
  /\ text \in Strings /\ Len(text) <= MaxText
  /\ reasoning \in Strings /\ content \in Strings
  /\ payload \in [max_tokens : Nat, prompt : Nat, n_predict : Nat, reasoning : Int]
  /\ client \in {"there", "gone"}

\* What is handed on is a text.
LEMMA EmitType ==
  ASSUME Typed, NEW out \in Outs, NEW next, Emit(out, next)
  PROVE  reasoning' \in Strings /\ content' \in Strings
<1>1. /\ reasoning \in Strings /\ content \in Strings
      /\ out.reasoning \in Strings /\ out.content \in Strings
  BY DEF Typed, Outs
<1>2. \A a, b \in Strings : a \o b \in Strings
  BY DEF Strings
<1>3. reasoning \o out.reasoning \in Strings /\ content \o out.content \in Strings
  BY <1>1, <1>2
<1>4. reasoning' \in {reasoning, reasoning \o out.reasoning}
  BY DEF Emit
<1>5. content' \in {content, content \o out.content}
  BY DEF Emit
<1> QED
  BY <1>1, <1>3, <1>4, <1>5

\* Every step keeps the texts and the buffers.
LEMMA TypedStays == Typed /\ [Next]_vars => Typed'
<1> SUFFICES ASSUME Typed, [Next]_vars PROVE Typed'
  OBVIOUS
<1>1. CASE UNCHANGED vars
  BY <1>1 DEF Typed, vars
<1>2. CASE ClientLeaves \/ Refuse \/ ReceiveBad \/ ConnectionBreaks \/ Parse
  BY <1>2 DEF ClientLeaves, Refuse, ReceiveBad, ConnectionBreaks, Parse, Typed, request, parts
<1>3. CASE Prepare
  <2>1. PICK asked \in Amounts \union {NoBudget}, effort \in Efforts,
             max_tokens \in Amounts, prompt \in Amounts :
          /\ Acceptable(thinking, asked, max_tokens)
          /\ Fits(prompt)
          /\ payload' = [ max_tokens |-> max_tokens, prompt |-> prompt,
                          n_predict |-> Predict(max_tokens, prompt),
                          reasoning |-> ReasoningBudget(thinking, asked, effort, max_tokens) ]
    BY <1>3 DEF Prepare
  <2>2. /\ max_tokens \in Nat \ {0} /\ prompt \in Nat
        /\ asked \in Nat \union {NoBudget} /\ thinking \in BOOLEAN
    BY <2>1, AmountsAssumption DEF Acceptable, Typed
  <2>3. Predict(max_tokens, prompt) \in Nat
    BY <2>1, <2>2, PredictBounds, BudgetAssumption
  <2>4. ReasoningBudget(thinking, asked, effort, max_tokens) \in Int
    BY <2>1, <2>2, ReasoningBounds
  <2> QED
    BY <1>3, <2>1, <2>2, <2>3, <2>4 DEF Prepare, Typed, request, parts
<1>4. CASE Connect
  BY <1>4 DEF Connect, Typed, request, parts, NoPayload, NoBudget
<1>5. CASE Receive
  <2>1. PICK delta \in Texts(MaxDelta), stop \in BOOLEAN :
          /\ Len(text) + Len(delta) <= MaxText
          /\ text' = text \o delta
          /\ splitter' = feed(splitter, thinking, delta).splitter
          /\ Emit(feed(splitter, thinking, delta),
                  /\ GoTo(IF stop THEN "flush" ELSE "read")
                  /\ UNCHANGED upstream)
    BY <1>5 DEF Receive
  <2>2. delta \in Strings
    BY BoundsAssumption DEF Texts, Strings
  <2>3. feed(splitter, thinking, delta) \in Outs
    BY <2>2, FeedType DEF Typed
  <2>4. text' \in Strings /\ Len(text') <= MaxText
    BY <2>1, <2>2 DEF Typed, Strings
  <2>5. splitter' \in Splitters
    BY <2>1, <2>3 DEF Outs
  <2>6. reasoning' \in Strings /\ content' \in Strings
    BY <2>1, <2>3, EmitType
  <2> QED
    BY <1>5, <2>4, <2>5, <2>6 DEF Receive, Typed, request
<1>6. CASE Flush
  <2>1. /\ splitter' = finish(splitter, thinking).splitter
        /\ Emit(finish(splitter, thinking), GoTo("parse") /\ upstream' = "closed")
    BY <1>6 DEF Flush
  <2>2. finish(splitter, thinking) \in Outs
    BY FinishType DEF Typed
  <2>3. splitter' \in Splitters
    BY <2>1, <2>2 DEF Outs
  <2>4. reasoning' \in Strings /\ content' \in Strings
    BY <2>1, <2>2, EmitType
  <2> QED
    BY <1>6, <2>3, <2>4 DEF Flush, Typed, request
<1>7. CASE WriteRole \/ WriteCalls \/ WriteFinish \/ WriteUsage \/ WriteDone \/ WriteError
             \/ WriteRefusal \/ WriteReply
  <2>1. UNCHANGED <<request, payload, parts, client>>
    BY <1>7 DEF WriteRole, WriteCalls, WriteFinish, WriteUsage, WriteDone, WriteError,
       WriteRefusal, WriteReply, Write
  <2> QED
    BY <2>1 DEF Typed, request, parts
<1> QED
  BY <1>1, <1>2, <1>3, <1>4, <1>5, <1>6, <1>7 DEF Next

\* Whatever the native server sends, the parts handed on and the buffers stay
\* texts and the handler is at one of its steps, for texts, events and markers
\* of any length.
THEOREM TypeCorrect == Spec => []TypeOK
<1>1. Init => Typed
  BY BoundsAssumption
  DEF Init, Typed, NewSplitter, Splitters, Strings, NoPayload, NoBudget
<1>2. Typed /\ EndInv => TypeOK
  BY DEF Typed, EndInv, TypeOK, Steps, AfterReading, Splitters, Strings,
     ConnectionOfStep, WireOfStep, WireEvents, EndOfStream
<1> QED
  BY <1>1, <1>2, TypedStays, EndInit, EndInductive, PTL DEF Spec

-----------------------------------------------------------------------------
(* The splitter *)

\* What the shield has let through of an answer.
Shielded(s, answer, shown) ==
  LET at == Find(answer, CallsOpen)
  IN IF s.holding_tool_block
       THEN at > 0 /\ shown \in {Before(answer, at), Before(answer, CallsCut(answer, at))}
       ELSE Kept(answer, shown, s.buffer, CallsOpen)

\* At first nothing is handed on and nothing kept back.
LEMMA NothingKept ==
  \A m \in Markers : Kept(<<>>, <<>>, <<>>, m)
<1> SUFFICES ASSUME NEW m \in Markers PROVE Kept(<<>>, <<>>, <<>>, m)
  OBVIOUS
<1>1. Len(m) \in Nat /\ Len(m) >= 2
  BY MarkersAreStrings
<1>2. \A j \in Nat : ~Occurs(<<>>, j, m)
  BY <1>1, EmptyText DEF Occurs
<1>3. Find(<<>>, m) = 0
  BY <1>2, EmptyText, FindNot
<1> QED
  BY <1>3, EmptyText DEF Kept

\* A tool block is cut off at its marker or before it.
LEMMA CutPlace ==
  ASSUME NEW s \in Strings, NEW i \in 1 .. Len(s)
  PROVE  CallsCut(s, i) \in 1 .. i
<1> Len(s) \in Nat
  BY Joined
<1> QED
  BY DEF CallsCut

\* The blank line before a block is found where it was.
LEMMA CutLonger ==
  ASSUME NEW s \in Strings, NEW t \in Strings, NEW i \in 1 .. Len(s)
  PROVE  CallsCut(s \o t, i) = CallsCut(s, i)
<1>1. Len(s) \in Nat
  BY Joined
<1>2. i > 2 => SubSeq(s \o t, i - 2, i - 1) = SubSeq(s, i - 2, i - 1)
  <2> SUFFICES ASSUME i > 2 PROVE SubSeq(s \o t, i - 2, i - 1) = SubSeq(s, i - 2, i - 1)
    OBVIOUS
  <2>1. i - 2 \in 1 .. Len(s) /\ i - 1 \in 1 .. Len(s)
    BY <1>1
  <2> QED
    BY <2>1, SubSeqOfConcat1 DEF Strings
<1> QED
  BY <1>2 DEF CallsCut

\* A text in front does not hide the blank line either.
LEMMA CutShifted ==
  ASSUME NEW s \in Strings, NEW t \in Strings, NEW i \in 1 .. Len(t), CallsCut(t, i) # i
  PROVE  CallsCut(s \o t, Len(s) + i) = Len(s) + CallsCut(t, i)
<1>1. Len(s) \in Nat /\ Len(t) \in Nat
  BY Joined
<1>2. i > 2 /\ SubSeq(t, i - 2, i - 1) = BlankLine /\ CallsCut(t, i) = i - 2
  BY DEF CallsCut
<1> DEFINE m == Len(s) + i - 2
           n == Len(s) + i - 1
<1>3. /\ m \in Len(s) + 1 .. Len(s) + Len(t) /\ n \in Len(s) + 1 .. Len(s) + Len(t)
      /\ m - Len(s) = i - 2 /\ n - Len(s) = i - 1
  BY <1>1, <1>2
<1>4. SubSeq(s \o t, m, n) = BlankLine
  <2>1. SubSeq(s \o t, m, n) = SubSeq(t, m - Len(s), n - Len(s))
    <3> HIDE DEF m, n
    <3> QED
      BY <1>3, SubSeqOfConcat2 DEF Strings
  <2> QED
    BY <1>2, <1>3, <2>1
<1> QED
  BY <1>1, <1>2, <1>4 DEF CallsCut

\* The step o of the shield, from s, of an answer that is now longer.
ShieldedBy(o, s, r, answer, shown) ==
  /\ Shielded(o.splitter, answer, shown \o o.content)
  /\ o.reasoning = r
  /\ o.splitter.phase = s.phase
  /\ o.splitter.start_buffer = s.start_buffer
  /\ o.splitter.reasoning_buffer = s.reasoning_buffer

\* ToolBlockShield.feed: a marker found in what was kept back and came since is the
\* first of the answer, and without one nothing of a marker is let through.
LEMMA ShieldStep ==
  ASSUME NEW s \in Splitters, NEW r, NEW a \in Strings, NEW shown \in Strings,
         NEW d \in Strings, Shielded(s, a, shown)
  PROVE  ShieldedBy(Shield(s, r, d), s, r, a \o d, shown)
<1> DEFINE o == Shield(s, r, d)
           value == s.buffer \o d
           at == Find(value, CallsOpen)
           cut == CallsCut(value, at)
           keep == Len(CallsOpen) - 1
<1>0. CallsOpen \in Markers /\ s.buffer \in Strings /\ value \in Strings
  BY Joined DEF Markers, Splitters
<1>1. o =
        IF s.holding_tool_block
          THEN Out([s EXCEPT !.buffer = value], r, <<>>)
        ELSE IF at > 0
          THEN Out([s EXCEPT !.holding_tool_block = TRUE, !.buffer = After(value, cut)],
                   r, Before(value, cut))
        ELSE Out([s EXCEPT !.buffer = Tail_(value, keep)], r, AllBut(value, keep))
  BY DEF Shield
<1> HIDE DEF o
<1>2. CASE s.holding_tool_block
  <2> DEFINE i == Find(a, CallsOpen)
  <2>1. i > 0 /\ shown \in {Before(a, i), Before(a, CallsCut(a, i))}
    BY <1>2 DEF Shielded
  <2>2. /\ o.splitter.holding_tool_block /\ o.content = <<>> /\ o.reasoning = r
        /\ o.splitter.phase = s.phase
        /\ o.splitter.start_buffer = s.start_buffer
        /\ o.splitter.reasoning_buffer = s.reasoning_buffer
    BY <1>1, <1>2 DEF Out, Splitters
  <2>3. Find(a \o d, CallsOpen) = i
    BY <1>0, <2>1, FindLonger
  <2>4. i \in 1 .. Len(a) /\ Len(a) \in Nat
    BY <1>0, <2>1, FindFirst, Joined
  <2> HIDE DEF i
  <2>5. CallsCut(a, i) \in 1 .. i /\ CallsCut(a \o d, i) = CallsCut(a, i)
    BY <2>4, CutPlace, CutLonger
  <2>6. i \in 1 .. Len(a) + 1 /\ CallsCut(a, i) \in 1 .. Len(a) + 1
    BY <2>4, <2>5
  <2>7. /\ Before(a \o d, i) = Before(a, i)
        /\ Before(a \o d, CallsCut(a, i)) = Before(a, CallsCut(a, i))
    BY <2>6, BeforeLonger
  <2>8. shown \o <<>> = shown
    BY EmptyText
  <2>9. Shielded(o.splitter, a \o d, shown \o o.content)
    BY <2>1, <2>2, <2>3, <2>5, <2>7, <2>8 DEF Shielded
  <2> QED
    BY <2>2, <2>9 DEF o, ShieldedBy
<1>3. CASE ~s.holding_tool_block /\ at > 0
  <2>1. Kept(a, shown, s.buffer, CallsOpen)
    BY <1>3 DEF Shielded
  <2>2. /\ o.splitter.holding_tool_block /\ o.content = Before(value, cut) /\ o.reasoning = r
        /\ o.splitter.phase = s.phase
        /\ o.splitter.start_buffer = s.start_buffer
        /\ o.splitter.reasoning_buffer = s.reasoning_buffer
    <3> HIDE DEF value, at, cut, keep
    <3> QED
      BY <1>1, <1>3 DEF Out, Splitters
  <2>3. Find(a \o d, CallsOpen) = Len(shown) + at
    BY <1>0, <1>3, <2>1, KeptFound
  <2>4. a \o d = shown \o value
    <3>1. a = shown \o s.buffer
      BY <2>1 DEF Kept
    <3>2. (shown \o s.buffer) \o d = shown \o (s.buffer \o d)
      BY <1>0, Regrouped, Zenon
    <3> QED
      BY <3>1, <3>2
  <2>5. at \in 1 .. Len(value) /\ Len(value) \in Nat /\ Len(shown) \in Nat
    <3> HIDE DEF value
    <3>1. Find(value, CallsOpen) \in 0 .. Len(value) /\ Len(value) \in Nat /\ Len(shown) \in Nat
      BY <1>0, FindFirst, Joined
    <3> QED
      BY <1>3, <3>1
  <2> HIDE DEF value, at
  <2>6. cut \in 1 .. at
    BY <1>0, <2>5, CutPlace
  <2>7. cut \in 1 .. Len(value) + 1
    BY <2>5, <2>6
  <2>8. cut # at => CallsCut(shown \o value, Len(shown) + at) = Len(shown) + cut
    BY <1>0, <2>5, CutShifted
  <2> HIDE DEF cut
  <2>9. Before(shown \o value, Len(shown) + cut) = shown \o Before(value, cut)
    BY <1>0, <2>7, BeforeShifted
  <2>10. Shielded(o.splitter, shown \o value, shown \o Before(value, cut))
    BY <2>2, <2>3, <2>4, <2>5, <2>8, <2>9 DEF Shielded
  <2> QED
    BY <2>2, <2>4, <2>10 DEF o, ShieldedBy
<1>4. CASE ~s.holding_tool_block /\ ~(at > 0)
  <2>1. Kept(a, shown, s.buffer, CallsOpen)
    BY <1>4 DEF Shielded
  <2>2. /\ ~o.splitter.holding_tool_block /\ o.content = AllBut(value, keep) /\ o.reasoning = r
        /\ o.splitter.buffer = Tail_(value, keep)
        /\ o.splitter.phase = s.phase
        /\ o.splitter.start_buffer = s.start_buffer
        /\ o.splitter.reasoning_buffer = s.reasoning_buffer
    BY <1>1, <1>4 DEF Out, Splitters
  <2>3. at = 0
    <3> HIDE DEF value
    <3>1. Find(value, CallsOpen) \in 0 .. Len(value) /\ Len(value) \in Nat
      BY <1>0, FindFirst, Joined
    <3> QED
      BY <1>4, <3>1
  <2>4. Kept(a \o d, shown \o AllBut(value, keep), Tail_(value, keep), CallsOpen)
    BY <1>0, <2>1, <2>3, KeptStays
  <2> HIDE DEF value, at, keep
  <2>5. Shielded(o.splitter, a \o d, shown \o o.content)
    BY <2>2, <2>4 DEF Shielded
  <2> QED
    BY <2>2, <2>5 DEF o, ShieldedBy
<1> QED
  BY <1>2, <1>3, <1>4 DEF o

\* The answer, when the body of the text is B.
Answered(think, B) == IF think THEN After(B, Find(B, ThinkClose) + Len(ThinkClose)) ELSE B

\* What _route has made of the body B of a text.
Routed(mode, think, B, s, r, c) ==
  \/ /\ s.phase = "reasoning" /\ think
     /\ c = <<>> /\ s.buffer = <<>> /\ ~s.holding_tool_block
     /\ \E thought \in Strings :
          /\ r = Shown(mode, thought)
          /\ Kept(B, thought, s.reasoning_buffer, ThinkClose)
  \/ /\ s.phase = "content"
     /\ s.reasoning_buffer = <<>>
     /\ think => Find(B, ThinkClose) > 0
     /\ r = IF think THEN Shown(mode, Before(B, Find(B, ThinkClose))) ELSE <<>>
     /\ Shielded(s, Answered(think, B), c)

\* A closing marker that was found lies in the text.
LEMMA FoundInside ==
  ASSUME NEW s \in Strings, NEW m \in Markers, Find(s, m) > 0
  PROVE  /\ Find(s, m) \in 1 .. Len(s) /\ Find(s, m) + Len(m) \in 1 .. Len(s) + 1
         /\ Find(s, m) \in Nat /\ Len(s) \in Nat /\ Len(m) \in Nat
<1> DEFINE at == Find(s, m)
<1>1. /\ at \in 0 .. Len(s) /\ Len(s) \in Nat /\ Len(m) \in Nat /\ Occurs(s, at, m)
  BY FindFirst, Joined, MarkersAreStrings
<1> HIDE DEF at
<1>2. at \in 1 .. Len(s) /\ at + Len(m) \in 1 .. Len(s) + 1 /\ at \in Nat
  BY <1>1 DEF Occurs
<1> QED
  BY <1>1, <1>2 DEF at

\* Behind a </think> that was found the answer grows with the text.
LEMMA AnsweredLonger ==
  ASSUME NEW B \in Strings, NEW d \in Strings, NEW think \in BOOLEAN,
         think => Find(B, ThinkClose) > 0
  PROVE  /\ Answered(think, B) \in Strings
         /\ Answered(think, B \o d) = Answered(think, B) \o d
<1>1. CASE ~think
  BY <1>1 DEF Answered
<1>2. CASE think
  <2> DEFINE n == Find(B, ThinkClose) + Len(ThinkClose)
  <2>1. ThinkClose \in Markers
    BY DEF Markers
  <2>2. n \in 1 .. Len(B) + 1
    BY <1>2, <2>1, FoundInside
  <2>3. Answered(think, B) = After(B, n) /\ Answered(think, B \o d) = After(B \o d, n)
    BY <1>2, <2>1, FindLonger DEF Answered
  <2> HIDE DEF n
  <2> QED
    BY <2>2, <2>3, AfterLonger, AfterIs
<1> QED
  BY <1>1, <1>2

\* The step o of _route, from s, of a body that is now longer.
RoutedBy(o, s, mode, think, B, r, c) ==
  /\ Routed(mode, think, B, o.splitter, r \o o.reasoning, c \o o.content)
  /\ o.splitter.phase # "start"
  /\ o.splitter.start_buffer = s.start_buffer

\* _route: the same for </think>, after which the shield begins.
LEMMA RouteStep ==
  ASSUME NEW s \in Splitters, NEW mode \in BOOLEAN, NEW think \in BOOLEAN, NEW B \in Strings,
         NEW r \in Strings, NEW c \in Strings, NEW d \in Strings,
         Routed(mode, think, B, s, r, c)
  PROVE  RoutedBy(Route(s, mode, d), s, mode, think, B \o d, r, c)
<1> DEFINE o == Route(s, mode, d)
           value == s.reasoning_buffer \o d
           end == Find(value, ThinkClose)
           keep == Len(ThinkClose) - 1
           routed == [s EXCEPT !.phase = "content", !.reasoning_buffer = <<>>]
<1>0. /\ ThinkClose \in Markers /\ CallsOpen \in Markers
      /\ s.reasoning_buffer \in Strings /\ value \in Strings
      /\ B \o d \in Strings
  BY Joined DEF Markers, Splitters
<1>1. o =
        IF s.phase = "content" THEN Shield(s, <<>>, d)
        ELSE IF end = 0
          THEN Out([s EXCEPT !.reasoning_buffer = Tail_(value, keep)],
                   Shown(mode, AllBut(value, keep)), <<>>)
        ELSE Shield(routed, Shown(mode, Before(value, end)),
                    After(value, end + Len(ThinkClose)))
  BY DEF Route
<1> HIDE DEF o
<1>2. CASE s.phase = "content"
  <2> DEFINE answer == Answered(think, B)
             at == Find(B, ThinkClose)
  <2>1. /\ s.reasoning_buffer = <<>>
        /\ think => at > 0
        /\ r = IF think THEN Shown(mode, Before(B, at)) ELSE <<>>
        /\ Shielded(s, answer, c)
    BY <1>2 DEF Routed
  <2>2. o = Shield(s, <<>>, d)
    BY <1>1, <1>2
  <2>3. answer \in Strings /\ Answered(think, B \o d) = answer \o d
    BY <2>1, AnsweredLonger
  <2> HIDE DEF answer
  <2>4. /\ Shielded(o.splitter, answer \o d, c \o o.content)
        /\ o.reasoning = <<>>
        /\ o.splitter.phase = s.phase
        /\ o.splitter.start_buffer = s.start_buffer
        /\ o.splitter.reasoning_buffer = s.reasoning_buffer
    <3>1. ShieldedBy(Shield(s, <<>>, d), s, <<>>, answer \o d, c)
      BY <2>1, <2>3, ShieldStep
    <3> QED
      BY <2>2, <3>1 DEF ShieldedBy
  <2>5. r \o <<>> = r
    BY EmptyText
  <2>6. think => Find(B \o d, ThinkClose) = at
    BY <1>0, <2>1, FindLonger
  <2>7. think => at \in 1 .. Len(B) + 1
    BY <1>0, <2>1, FoundInside
  <2> HIDE DEF at
  <2>8. think => Before(B \o d, at) = Before(B, at)
    BY <2>7, BeforeLonger
  <2>9. Routed(mode, think, B \o d, o.splitter, r \o o.reasoning, c \o o.content)
    BY <1>2, <2>1, <2>3, <2>4, <2>5, <2>6, <2>8 DEF Routed
  <2> QED
    BY <1>2, <2>4, <2>9 DEF o, RoutedBy
<1>3. CASE s.phase # "content"
  <2>1. /\ s.phase = "reasoning" /\ think
        /\ c = <<>> /\ s.buffer = <<>> /\ ~s.holding_tool_block
    BY <1>3 DEF Routed
  <2>2. PICK thought \in Strings : /\ r = Shown(mode, thought)
                                   /\ Kept(B, thought, s.reasoning_buffer, ThinkClose)
    BY <1>3 DEF Routed
  <2>s. \A t \in Strings : Shown(mode, thought) \o Shown(mode, t) = Shown(mode, thought \o t)
    BY EmptyText DEF Shown
  <2>3. CASE end = 0
    <3>1. /\ o.splitter.phase = "reasoning" /\ o.splitter.buffer = <<>>
          /\ ~o.splitter.holding_tool_block
          /\ o.splitter.start_buffer = s.start_buffer
          /\ o.splitter.reasoning_buffer = Tail_(value, keep)
          /\ o.reasoning = Shown(mode, AllBut(value, keep)) /\ o.content = <<>>
      BY <1>1, <1>3, <2>1, <2>3 DEF Out, Splitters
    <3>2. Kept(B \o d, thought \o AllBut(value, keep), Tail_(value, keep), ThinkClose)
      BY <1>0, <2>2, <2>3, KeptStays
    <3>3. AllBut(value, keep) \in Strings
      <4>1. keep \in Nat
        BY <1>0, MarkersAreStrings
      <4> HIDE DEF value, keep
      <4> QED
        BY <1>0, <4>1, Halves
    <3> HIDE DEF value, keep
    <3>4. r \o o.reasoning = Shown(mode, thought \o AllBut(value, keep))
      BY <2>s, <2>2, <3>1, <3>3
    <3>5. thought \o AllBut(value, keep) \in Strings
      BY <3>2 DEF Kept
    <3>6. c \o o.content = <<>>
      BY <2>1, <3>1, EmptyText
    <3>7. Routed(mode, think, B \o d, o.splitter, r \o o.reasoning, c \o o.content)
      BY <2>1, <3>1, <3>2, <3>4, <3>5, <3>6 DEF Routed
    <3> QED
      BY <2>1, <3>1, <3>7 DEF o, RoutedBy
  <2>4. CASE end # 0
    <3> DEFINE rest == After(value, end + Len(ThinkClose))
               said == Before(value, end)
    <3>1. /\ o = Shield(routed, Shown(mode, said), rest)
          /\ routed \in Splitters /\ routed.phase = "content"
          /\ routed.reasoning_buffer = <<>> /\ routed.start_buffer = s.start_buffer
          /\ routed.buffer = <<>> /\ ~routed.holding_tool_block
      BY <1>1, <1>3, <2>1, <2>4, EmptyText DEF Splitters
    <3>2. /\ end \in 1 .. Len(value) + 1 /\ end + Len(ThinkClose) \in 1 .. Len(value) + 1
          /\ end \in Nat /\ end > 0
      <4> HIDE DEF value
      <4>1. Find(value, ThinkClose) \in 0 .. Len(value) /\ Len(value) \in Nat
        BY <1>0, FindFirst, Joined
      <4>2. Find(value, ThinkClose) > 0
        BY <2>4, <4>1
      <4> QED
        BY <1>0, <4>2, FoundInside
    <3>3. rest \in Strings /\ said \in Strings
      <4> HIDE DEF value, end
      <4> QED
        BY <1>0, <3>2, AfterIs, BeforeIs
    <3>4. Find(B \o d, ThinkClose) = Len(thought) + end
      BY <1>0, <2>2, <2>4, KeptFound
    <3>5. B \o d = thought \o value
      <4>1. B = thought \o s.reasoning_buffer
        BY <2>2 DEF Kept
      <4>2. (thought \o s.reasoning_buffer) \o d = thought \o (s.reasoning_buffer \o d)
        BY <1>0, Regrouped, Zenon
      <4> QED
        BY <4>1, <4>2
    <3>6. Shielded(routed, <<>>, <<>>)
      BY <1>0, <3>1, NothingKept DEF Shielded
    <3> HIDE DEF value, end, routed
    <3>7. Before(thought \o value, Len(thought) + end) = thought \o said
      BY <1>0, <3>2, BeforeShifted
    <3>8. After(thought \o value, Len(thought) + (end + Len(ThinkClose))) = rest
      BY <1>0, <3>2, AfterShifted
    <3> HIDE DEF rest, said
    <3>9. /\ Shielded(o.splitter, <<>> \o rest, <<>> \o o.content)
          /\ o.reasoning = Shown(mode, said)
          /\ o.splitter.phase = "content"
          /\ o.splitter.start_buffer = s.start_buffer
          /\ o.splitter.reasoning_buffer = <<>>
      <4>1. ShieldedBy(Shield(routed, Shown(mode, said), rest), routed, Shown(mode, said),
                       <<>> \o rest, <<>>)
        BY <3>1, <3>3, <3>6, EmptyText, ShieldStep
      <4> QED
        BY <3>1, <4>1 DEF ShieldedBy
    <3>10. <<>> \o rest = rest
      BY <3>3, EmptyText
    <3>11. r \o o.reasoning = Shown(mode, thought \o said)
      BY <2>s, <2>2, <3>3, <3>9
    <3>12. Len(thought) \in Nat /\ Len(ThinkClose) \in Nat
      BY <1>0, Joined, MarkersAreStrings
    <3>13. /\ Len(thought) + end > 0
           /\ Len(thought) + (end + Len(ThinkClose)) = Len(thought) + end + Len(ThinkClose)
      BY <3>2, <3>12
    <3>14. Answered(think, B \o d) = rest
      BY <2>1, <3>4, <3>5, <3>8, <3>13 DEF Answered
    <3>15. Routed(mode, think, B \o d, o.splitter, r \o o.reasoning, c \o o.content)
      BY <2>1, <3>4, <3>5, <3>7, <3>9, <3>10, <3>11, <3>13, <3>14 DEF Routed
    <3> QED
      BY <3>9, <3>15 DEF o, RoutedBy
  <2> QED
    BY <2>3, <2>4
<1> QED
  BY <1>2, <1>3 DEF o

\* The text without <think>.
Body(t) == IF Opened(t) THEN After(t, Len(ThinkOpen) + 1) ELSE t

\* It is known whether the text starts with <think>.
Decided(t) == Opened(t) \/ ~StartsWith(ThinkOpen, t)

\* What the splitter s and the parts r and c are, of the text t so far.
Sound(mode, t, s, r, c) ==
  \/ /\ s.phase = "start" /\ s.start_buffer = t
     /\ t # ThinkOpen /\ StartsWith(ThinkOpen, t)
     /\ r = <<>> /\ c = <<>>
     /\ s.reasoning_buffer = <<>> /\ s.buffer = <<>> /\ ~s.holding_tool_block
  \/ /\ s.phase # "start" /\ s.start_buffer = <<>>
     /\ Decided(t)
     /\ Routed(mode, mode \/ Opened(t), Body(t), s, r, c)

\* <think> lies in a text that starts with it.
LEMMA OpenedBody ==
  ASSUME NEW t \in Strings, Opened(t)
  PROVE  /\ Len(ThinkOpen) + 1 \in 1 .. Len(t) + 1
         /\ Len(ThinkOpen) \in Nat /\ Len(t) \in Nat
<1>1. ThinkOpen \in Strings /\ Len(ThinkOpen) \in Nat /\ Len(t) \in Nat
  BY MarkersAreStrings, Joined DEF Markers
<1> QED
  BY <1>1 DEF Opened, StartsWith

\* The body of a text is a text.
LEMMA BodyIsText == ASSUME NEW t \in Strings PROVE Body(t) \in Strings
<1> DEFINE n == Len(ThinkOpen) + 1
<1>1. CASE Opened(t)
  <2>1. n \in 1 .. Len(t) + 1
    BY <1>1, OpenedBody
  <2> HIDE DEF n
  <2>2. After(t, n) \in Strings
    BY <2>1, AfterIs
  <2> QED
    BY <1>1, <2>2 DEF Body, n
<1> QED
  BY <1>1 DEF Body

\* Once it is known it stays, and the body grows with the text.
LEMMA BodyLonger ==
  ASSUME NEW t \in Strings, NEW d \in Strings, Decided(t)
  PROVE  /\ Opened(t \o d) <=> Opened(t)
         /\ Decided(t \o d)
         /\ Body(t \o d) = Body(t) \o d
<1>1. /\ ThinkOpen \in Strings /\ Len(ThinkOpen) \in Nat /\ Len(t) \in Nat /\ Len(d) \in Nat
      /\ t \o d \in Strings /\ Len(t \o d) = Len(t) + Len(d)
      /\ \A k \in 1 .. Len(t) : (t \o d)[k] = t[k]
  BY MarkersAreStrings, Joined DEF Markers
<1>2. CASE Opened(t)
  <2>1. Len(ThinkOpen) + 1 \in 1 .. Len(t) + 1
    BY <1>2, OpenedBody
  <2>2. Opened(t \o d)
    <3>1. 1 + Len(ThinkOpen) - 1 <= Len(t)
      BY <1>1, <2>1
    <3>2. Occurs(t, 1, ThinkOpen)
      BY <1>1, <1>2, StartsOccurs DEF Opened
    <3>3. Occurs(t \o d, 1, ThinkOpen)
      BY <1>1, <3>1, <3>2, OccursLonger
    <3> QED
      BY <1>1, <3>3, StartsOccurs DEF Opened
  <2> DEFINE n == Len(ThinkOpen) + 1
  <2>3. Body(t) = After(t, n) /\ Body(t \o d) = After(t \o d, n)
    BY <1>2, <2>2 DEF Body
  <2> HIDE DEF n
  <2>4. After(t \o d, n) = After(t, n) \o d
    BY <2>1, AfterLonger DEF n
  <2> QED
    BY <1>2, <2>2, <2>3, <2>4 DEF Decided
<1>3. CASE ~Opened(t)
  <2>1. ~StartsWith(ThinkOpen, t)
    BY <1>3 DEF Decided
  <2>2. ~Opened(t \o d)
    <3> SUFFICES ASSUME Opened(t \o d) PROVE FALSE
      OBVIOUS
    <3>1. Occurs(t \o d, 1, ThinkOpen)
      BY <1>1, StartsOccurs DEF Opened
    <3>2. CASE Len(ThinkOpen) <= Len(t)
      <4>1. 1 + Len(ThinkOpen) - 1 <= Len(t)
        BY <1>1, <3>2
      <4>2. Occurs(t, 1, ThinkOpen)
        BY <1>1, <3>1, <4>1, OccursLonger
      <4> QED
        BY <1>1, <1>3, <4>2, StartsOccurs DEF Opened
    <3>3. CASE Len(t) < Len(ThinkOpen)
      <4>1. \A k \in 1 .. Len(t) : ThinkOpen[1 + k - 1] = t[k]
        BY <1>1, <3>1, <3>3 DEF Occurs
      <4>2. Occurs(ThinkOpen, 1, t)
        BY <1>1, <3>3, <4>1 DEF Occurs
      <4> QED
        BY <1>1, <2>1, <4>2, StartsOccurs
    <3> QED
      BY <1>1, <3>2, <3>3
  <2>3. ~StartsWith(ThinkOpen, t \o d)
    BY <1>1, <2>1, Beginnings
  <2> QED
    BY <1>3, <2>2, <2>3 DEF Body, Decided
<1> QED
  BY <1>2, <1>3

\* feed keeps the splitter sound.
LEMMA FeedStep ==
  ASSUME NEW s \in Splitters, NEW mode \in BOOLEAN, NEW t \in Strings,
         NEW r \in Strings, NEW c \in Strings, NEW d \in Strings,
         Sound(mode, t, s, r, c)
  PROVE  LET o == feed(s, mode, d)
         IN Sound(mode, t \o d, o.splitter, r \o o.reasoning, c \o o.content)
<1> DEFINE o == feed(s, mode, d)
           value == s.start_buffer \o d
           think == mode \/ Opened(t)
<1>0. ThinkOpen \in Strings /\ t \o d \in Strings
  BY MarkersAreStrings, Joined DEF Markers
<1>1. CASE s.phase # "start"
  <2>1. /\ s.start_buffer = <<>> /\ Decided(t)
        /\ Routed(mode, think, Body(t), s, r, c)
    BY <1>1 DEF Sound
  <2>2. o = Route(s, mode, d)
    BY <1>1 DEF feed
  <2>3. Body(t) \in Strings /\ think \in BOOLEAN
    BY BodyIsText
  <2> HIDE DEF o, think
  <2>4. RoutedBy(Route(s, mode, d), s, mode, think, Body(t) \o d, r, c)
    BY <2>1, <2>3, RouteStep
  <2>5. /\ Decided(t \o d) /\ Body(t \o d) = Body(t) \o d
        /\ think = (mode \/ Opened(t \o d))
    BY <2>1, BodyLonger DEF think
  <2>6. Sound(mode, t \o d, o.splitter, r \o o.reasoning, c \o o.content)
    BY <2>1, <2>2, <2>4, <2>5 DEF Sound, RoutedBy
  <2> QED
    BY <2>6 DEF o
<1>2. CASE s.phase = "start"
  <2>1. /\ s.start_buffer = t /\ r = <<>> /\ c = <<>>
        /\ s.reasoning_buffer = <<>> /\ s.buffer = <<>> /\ ~s.holding_tool_block
    BY <1>2 DEF Sound
  <2>2. o = Begin(s, mode, d) /\ value = t \o d
    BY <1>2, <2>1 DEF feed
  <2> DEFINE begun(phase) == [s EXCEPT !.phase = phase, !.start_buffer = <<>>]
  <2>3. Begin(s, mode, d) =
          IF value # ThinkOpen /\ StartsWith(ThinkOpen, value)
            THEN Out([s EXCEPT !.start_buffer = value], <<>>, <<>>)
          ELSE IF StartsWith(value, ThinkOpen)
            THEN Route(begun("reasoning"), mode, After(value, Len(ThinkOpen) + 1))
          ELSE Route(begun(IF mode THEN "reasoning" ELSE "content"), mode, value)
    BY DEF Begin
  <2>4. \A p \in {"reasoning", "content"} :
          /\ begun(p) \in Splitters
          /\ begun(p).phase = p /\ begun(p).start_buffer = <<>>
          /\ begun(p).reasoning_buffer = <<>> /\ begun(p).buffer = <<>>
          /\ ~begun(p).holding_tool_block
    BY <2>1, EmptyText DEF Splitters
  <2> HIDE DEF o, value, begun
  <2>5. CASE value # ThinkOpen /\ StartsWith(ThinkOpen, value)
    <3>1. /\ o.splitter.phase = "start" /\ o.splitter.start_buffer = value
          /\ o.splitter.reasoning_buffer = <<>> /\ o.splitter.buffer = <<>>
          /\ ~o.splitter.holding_tool_block
          /\ o.reasoning = <<>> /\ o.content = <<>>
      <4>1. o = Out([s EXCEPT !.start_buffer = value], <<>>, <<>>)
        BY <2>2, <2>3, <2>5
      <4>2. value \in Strings
        BY <1>0, <2>2
      <4> QED
        BY <1>2, <2>1, <4>1, <4>2 DEF Out, Splitters
    <3>2. <<>> \o <<>> = <<>>
      BY EmptyText
    <3>3. Sound(mode, t \o d, o.splitter, r \o o.reasoning, c \o o.content)
      BY <2>1, <2>2, <2>5, <3>1, <3>2 DEF Sound
    <3> QED
      BY <3>3 DEF o
  <2>6. CASE ~(value # ThinkOpen /\ StartsWith(ThinkOpen, value))
    <3> DEFINE opened == mode \/ Opened(value)
               p == IF opened THEN "reasoning" ELSE "content"
               b == begun(p)
    <3>0. StartsWith(ThinkOpen, ThinkOpen)
      BY <1>0, Beginnings
    <3>1. Decided(value)
      BY <2>6, <3>0 DEF Decided, Opened
    <3>2. o = Route(b, mode, Body(value))
      BY <2>2, <2>3, <2>6 DEF Body, Opened
    <3>3. Body(value) \in Strings /\ opened \in BOOLEAN /\ p \in {"reasoning", "content"}
      BY <1>0, <2>2, BodyIsText
    <3> HIDE DEF opened
    <3>4. /\ b \in Splitters /\ b.phase = p /\ b.start_buffer = <<>>
          /\ b.reasoning_buffer = <<>> /\ b.buffer = <<>> /\ ~b.holding_tool_block
      BY <2>4, <3>3
    <3>5. Routed(mode, opened, <<>>, b, <<>>, <<>>)
      <4>1. Kept(<<>>, <<>>, <<>>, ThinkClose) /\ Kept(<<>>, <<>>, <<>>, CallsOpen)
        BY NothingKept DEF Markers
      <4>2. CASE opened
        <5>1. <<>> \in Strings /\ Shown(mode, <<>>) = <<>>
          BY EmptyText DEF Shown
        <5> HIDE DEF b
        <5> QED
          BY <3>4, <4>1, <4>2, <5>1 DEF Routed
      <4>3. CASE ~opened
        <5> HIDE DEF b
        <5> QED
          BY <3>4, <4>1, <4>3 DEF Routed, Shielded, Answered
      <4> QED
        BY <4>2, <4>3
    <3> HIDE DEF b, p
    <3>6. RoutedBy(Route(b, mode, Body(value)), b, mode, opened, <<>> \o Body(value), <<>>, <<>>)
      BY <3>3, <3>4, <3>5, EmptyText, RouteStep
    <3>7. <<>> \o Body(value) = Body(value)
      BY <3>3, EmptyText
    <3>8. Sound(mode, t \o d, o.splitter, r \o o.reasoning, c \o o.content)
      BY <2>1, <2>2, <3>1, <3>2, <3>4, <3>6, <3>7 DEF Sound, RoutedBy, opened
    <3> QED
      BY <3>8 DEF o
  <2> QED
    BY <2>5, <2>6
<1> QED
  BY <1>1, <1>2

\* A marker is not found in a shorter text.
LEMMA FindNone ==
  ASSUME NEW s \in Strings, NEW m \in Markers, Len(s) < Len(m)
  PROVE  Find(s, m) = 0
<1>1. Len(s) \in Nat /\ Len(m) \in Nat
  BY Joined, MarkersAreStrings
<1>2. \A j \in Nat : ~Occurs(s, j, m)
  BY <1>1 DEF Occurs
<1> QED
  BY <1>2, FindNot

\* The definitions of the whole text, said of its body.
LEMMA Wholes ==
  ASSUME NEW t \in Strings, NEW mode \in BOOLEAN
  PROVE  LET think == mode \/ Opened(t)
             end == Find(Body(t), ThinkClose)
         IN /\ mode => ReasoningOf(mode, t) = IF end = 0 THEN Body(t) ELSE Before(Body(t), end)
            /\ ~mode => ReasoningOf(mode, t) = <<>>
            /\ (think => end > 0) => AnswerOf(mode, t) = Answered(think, Body(t))
            /\ think /\ end = 0 => AnswerOf(mode, t) = <<>>
            /\ ReasoningOf(mode, t) \in Strings
            /\ AnswerOf(mode, t) \in Strings
<1> DEFINE B == Body(t)
           end == Find(B, ThinkClose)
           think == mode \/ Opened(t)
           open == IF Opened(t) THEN Len(ThinkOpen) ELSE 0
<1>1. /\ B \in Strings /\ Len(B) \in Nat /\ Len(t) \in Nat /\ ThinkClose \in Markers
      /\ Len(ThinkClose) \in Nat /\ Len(ThinkClose) >= 2 /\ <<>> \in Strings
      /\ Len(ThinkOpen) \in Nat
  BY BodyIsText, Joined, MarkersAreStrings, EmptyText DEF Markers
<1>2. Thought(t) = IF end = 0 THEN B ELSE Before(B, end)
  BY DEF Thought, Body
<1>3. end \in 0 .. Len(B)
  BY <1>1, FindFirst
<1>4. open + 1 \in 1 .. Len(t) + 1 /\ B = After(t, open + 1) /\ open \in Nat
  <2>1. CASE Opened(t)
    BY <2>1, OpenedBody DEF Body
  <2>2. CASE ~Opened(t)
    <3>1. After(t, 1) = t
      BY SubSeqFull DEF After, Strings
    <3> QED
      BY <1>1, <2>2, <3>1 DEF Body
  <2> QED
    BY <2>1, <2>2
<1>5. AnswerOf(mode, t) =
        IF think THEN After(t, open + Len(Thought(t)) + Len(ThinkClose) + 1) ELSE t
  BY DEF AnswerOf
<1> HIDE DEF B, open
<1>6. Len(B) = Len(t) - open
  <2> DEFINE n == open + 1
  <2> HIDE DEF n
  <2>1. Len(After(t, n)) = Len(t) - n + 1
    BY <1>4, AfterIs DEF n
  <2> QED
    BY <1>1, <1>4, <2>1 DEF n
<1>7. CASE end = 0
  <2>1. ReasoningOf(mode, t) = IF mode THEN B ELSE <<>>
    BY <1>2, <1>7 DEF ReasoningOf
  <2>2. think => AnswerOf(mode, t) = <<>>
    <3> SUFFICES ASSUME think PROVE AnswerOf(mode, t) = <<>>
      OBVIOUS
    <3> DEFINE n == open + Len(B) + Len(ThinkClose) + 1
    <3>1. n \in Int /\ Len(t) < n
      BY <1>1, <1>4, <1>6
    <3>2. AnswerOf(mode, t) = SubSeq(t, n, Len(t))
      BY <1>2, <1>5, <1>7 DEF After
    <3> HIDE DEF n
    <3> QED
      BY <1>1, <3>1, <3>2, SubSeqEmpty
  <2>3. ~think => AnswerOf(mode, t) = t /\ B = t /\ Answered(think, B) = t
    BY <1>5 DEF Answered, Body, B
  <2> QED
    BY <1>1, <1>7, <2>1, <2>2, <2>3 DEF B
<1>8. CASE end # 0
  <2>0. end \in 1 .. Len(B) /\ end \in Nat /\ end + Len(ThinkClose) \in 1 .. Len(B) + 1
    <3>1. end > 0
      BY <1>1, <1>3, <1>8
    <3> QED
      BY <1>1, <3>1, FoundInside
  <2>1. ReasoningOf(mode, t) = IF mode THEN Before(B, end) ELSE <<>>
    BY <1>2, <1>8 DEF ReasoningOf
  <2> HIDE DEF end
  <2>2. Before(B, end) \in Strings /\ Len(Before(B, end)) = end - 1
    BY <1>1, <2>0, BeforeIs
  <2> DEFINE i == open + 1
             j == end + Len(ThinkClose)
  <2>3. j \in 1 .. Len(t) - i + 2 /\ i \in 1 .. Len(t) + 1
    BY <1>1, <1>4, <1>6, <2>0
  <2>4. open + (end - 1) + Len(ThinkClose) + 1 = i + j - 1
    BY <1>1, <1>4, <2>0
  <2>5. /\ think => AnswerOf(mode, t) = After(t, i + j - 1)
        /\ ~think => AnswerOf(mode, t) = t /\ B = t
    BY <1>2, <1>5, <1>8, <2>2, <2>4 DEF Body, B
  <2> HIDE DEF i, j
  <2>6. After(After(t, i), j) = After(t, i + j - 1)
    BY <2>3, AfterTwice
  <2>7. j \in 1 .. Len(B) + 1
    BY <2>0 DEF j
  <2>8. After(B, j) \in Strings
    BY <1>1, <2>7, AfterIs
  <2>9. AnswerOf(mode, t) = Answered(think, B)
    BY <1>4, <2>5, <2>6 DEF Answered, i, j, end
  <2>10. AnswerOf(mode, t) \in Strings
    BY <1>4, <2>5, <2>6, <2>8 DEF i
  <2> QED
    BY <1>1, <1>8, <2>1, <2>0, <2>2, <2>9, <2>10 DEF B, end
<1> QED
  BY <1>7, <1>8

\* The earlier of two cuts begins the later.
LEMMA Nested ==
  ASSUME NEW s \in Strings, NEW j \in 1 .. Len(s) + 1, NEW i \in 1 .. j
  PROVE  StartsWith(Before(s, j), Before(s, i))
<1>1. Len(s) \in Nat /\ i \in 1 .. Len(s) + 1
  BY Joined
<1> DEFINE x == Before(s, j)
           y == Before(s, i)
<1>2. /\ x \in Strings /\ Len(x) = j - 1 /\ \A k \in 1 .. j - 1 : x[k] = s[k]
      /\ y \in Strings /\ Len(y) = i - 1 /\ \A k \in 1 .. i - 1 : y[k] = s[k]
  BY <1>1, BeforeIs
<1> HIDE DEF x, y
<1>3. Occurs(x, 1, y)
  BY <1>1, <1>2 DEF Occurs
<1>4. StartsWith(x, y)
  BY <1>2, <1>3, StartsOccurs
<1> QED
  BY <1>4 DEF x, y

\* What the shield let through begins the prose, and with what it kept back it
\* is the content or the prose.
LEMMA ShieldedSplits ==
  ASSUME NEW s \in Splitters, NEW t \in Strings, NEW mode \in BOOLEAN, NEW c \in Strings,
         Shielded(s, AnswerOf(mode, t), c)
  PROVE  /\ ProseOf(mode, t) \in Strings
         /\ StartsWith(ProseOf(mode, t), c)
         /\ LET whole == c \o (IF s.holding_tool_block THEN <<>> ELSE s.buffer)
            IN /\ StartsWith(ProseOf(mode, t), whole)
               /\ whole \in {ContentOf(mode, t), ProseOf(mode, t)}
<1> DEFINE a == AnswerOf(mode, t)
           at == Find(a, CallsOpen)
           cut == CallsCut(a, at)
<1>1. a \in Strings /\ CallsOpen \in Markers /\ Len(a) \in Nat
  BY Wholes, Joined DEF Markers
<1>2. ProseOf(mode, t) = (IF at = 0 THEN a ELSE Before(a, at))
  BY DEF ProseOf
<1>3. ContentOf(mode, t) = (IF at = 0 THEN a ELSE Before(a, cut))
  BY DEF ContentOf
<1> HIDE DEF a
<1>4. CASE s.holding_tool_block
  <2>1. at > 0 /\ c \in {Before(a, at), Before(a, cut)}
    BY <1>4 DEF Shielded, a
  <2>2. at \in 1 .. Len(a)
    BY <1>1, <2>1, FoundInside
  <2> HIDE DEF at
  <2>3. cut \in 1 .. at
    BY <1>1, <2>2, CutPlace
  <2> HIDE DEF cut
  <2>4. at \in 1 .. Len(a) + 1 /\ cut \in 1 .. Len(a) + 1 /\ at \in 1 .. at /\ cut \in 1 .. cut
    BY <1>1, <2>2, <2>3
  <2>5. /\ Before(a, at) \in Strings
        /\ StartsWith(Before(a, at), Before(a, at)) /\ StartsWith(Before(a, at), Before(a, cut))
    BY <1>1, <2>3, <2>4, Nested, BeforeIs
  <2>6. c \o <<>> = c
    BY EmptyText
  <2> QED
    BY <1>1, <1>2, <1>3, <1>4, <2>1, <2>2, <2>5, <2>6
<1>5. CASE ~s.holding_tool_block
  <2>1. Kept(a, c, s.buffer, CallsOpen)
    BY <1>5 DEF Shielded, a
  <2>2. c \in Strings /\ s.buffer \in Strings /\ a = c \o s.buffer /\ at = 0
    BY <2>1 DEF Kept
  <2>3. StartsWith(a, c) /\ StartsWith(a, a)
    BY <1>1, <2>2, Beginnings
  <2> QED
    BY <1>1, <1>2, <1>3, <1>5, <2>2, <2>3
<1> QED
  BY <1>4, <1>5

\* The parts handed on so far begin what the whole text splits into.
Begins(mode, t, r, c) ==
  StartsWith(ReasoningOf(mode, t), r) /\ StartsWith(ProseOf(mode, t), c)

\* All of it is handed on, except perhaps a blank line before a tool block.
Whole(mode, t, r, c) ==
  r = ReasoningOf(mode, t) /\ c \in {ContentOf(mode, t), ProseOf(mode, t)}

\* Without a tool block the answer is the prose and the content.
LEMMA NoBlock ==
  ASSUME NEW t \in Strings, NEW mode \in BOOLEAN,
         Find(AnswerOf(mode, t), CallsOpen) = 0
  PROVE  ProseOf(mode, t) = AnswerOf(mode, t) /\ ContentOf(mode, t) = AnswerOf(mode, t)
  BY DEF ProseOf, ContentOf

\* An empty answer has neither prose nor content.
LEMMA EmptyAnswer ==
  ASSUME NEW t \in Strings, NEW mode \in BOOLEAN, AnswerOf(mode, t) = <<>>
  PROVE  ProseOf(mode, t) = <<>> /\ ContentOf(mode, t) = <<>>
<1>1. CallsOpen \in Markers /\ Len(CallsOpen) \in Nat /\ Len(CallsOpen) >= 2
  BY MarkersAreStrings DEF Markers
<1>2. Find(<<>>, CallsOpen) = 0
  BY <1>1, EmptyText, FindNone
<1> QED
  BY <1>2, NoBlock

\* While it is unknown whether a text starts with <think> it holds no marker.
LEMMA Undecided ==
  ASSUME NEW t \in Strings, t # ThinkOpen, StartsWith(ThinkOpen, t), NEW mode \in BOOLEAN
  PROVE  /\ ~Opened(t) /\ Body(t) = t
         /\ Find(t, ThinkClose) = 0
         /\ ReasoningOf(mode, t) = IF mode THEN t ELSE <<>>
         /\ ProseOf(mode, t) = IF mode THEN <<>> ELSE t
         /\ ContentOf(mode, t) = IF mode THEN <<>> ELSE t
<1>1. /\ ThinkOpen \in Strings /\ ThinkClose \in Markers /\ CallsOpen \in Markers
      /\ Len(ThinkOpen) \in Nat /\ Len(t) \in Nat
      /\ Len(ThinkClose) \in Nat /\ Len(CallsOpen) \in Nat
  BY MarkersAreStrings, Joined DEF Markers
<1>2. Len(t) < Len(ThinkOpen)
  <2>1. Len(t) <= Len(ThinkOpen) /\ SubSeq(ThinkOpen, 1, Len(t)) = t
    BY DEF StartsWith
  <2>2. SubSeq(ThinkOpen, 1, Len(ThinkOpen)) = ThinkOpen
    BY <1>1, SubSeqFull DEF Strings
  <2>3. Len(t) # Len(ThinkOpen)
    BY <2>1, <2>2
  <2> QED
    BY <1>1, <2>1, <2>3
<1>3. ~Opened(t) /\ Body(t) = t
  BY <1>1, <1>2 DEF Opened, StartsWith, Body
<1>4. Len(t) < Len(ThinkClose) /\ Len(t) < Len(CallsOpen)
  BY <1>1, <1>2, MarkersAreTexts
<1>5. Find(t, ThinkClose) = 0 /\ Find(t, CallsOpen) = 0
  BY <1>1, <1>4, FindNone
<1>6. CASE mode
  BY <1>3, <1>5, <1>6, Wholes, EmptyAnswer
<1>7. CASE ~mode
  <2>1. AnswerOf(mode, t) = t
    BY <1>3, <1>7 DEF AnswerOf
  <2> QED
    BY <1>3, <1>5, <1>7, <2>1, Wholes, NoBlock
<1> QED
  BY <1>6, <1>7

\* What is sound begins the whole.
LEMMA SoundBegins ==
  ASSUME NEW s \in Splitters, NEW mode \in BOOLEAN, NEW t \in Strings,
         NEW r \in Strings, NEW c \in Strings, Sound(mode, t, s, r, c)
  PROVE  Begins(mode, t, r, c)
<1> DEFINE B == Body(t)
           end == Find(B, ThinkClose)
           think == mode \/ Opened(t)
<1>1. /\ ReasoningOf(mode, t) \in Strings /\ AnswerOf(mode, t) \in Strings
      /\ B \in Strings /\ ThinkClose \in Markers /\ Len(B) \in Nat
  BY Wholes, BodyIsText, Joined DEF Markers
<1>2. CASE s.phase = "start"
  <2>1. /\ t # ThinkOpen /\ StartsWith(ThinkOpen, t) /\ r = <<>> /\ c = <<>>
    BY <1>2 DEF Sound
  <2>2. \A u \in Strings : StartsWith(u, <<>>)
    BY Beginnings
  <2>3. ProseOf(mode, t) \in Strings
    BY <2>1, Undecided, EmptyText
  <2> QED
    BY <1>1, <2>1, <2>2, <2>3 DEF Begins
<1>3. CASE s.phase # "start"
  <2>1. Routed(mode, think, B, s, r, c)
    BY <1>3 DEF Sound
  <2>2. CASE s.phase = "reasoning"
    <3>1. think /\ c = <<>>
      BY <2>1, <2>2 DEF Routed
    <3>2. PICK thought \in Strings : /\ r = Shown(mode, thought)
                                     /\ Kept(B, thought, s.reasoning_buffer, ThinkClose)
      BY <2>1, <2>2 DEF Routed
    <3>3. /\ s.reasoning_buffer \in Strings /\ B = thought \o s.reasoning_buffer /\ end = 0
      BY <3>2 DEF Kept
    <3>4. AnswerOf(mode, t) = <<>> /\ ReasoningOf(mode, t) = IF mode THEN B ELSE <<>>
      BY <3>1, <3>3, Wholes
    <3>5. ProseOf(mode, t) = <<>>
      BY <3>4, EmptyAnswer
    <3>6. StartsWith(B, thought) /\ StartsWith(<<>>, <<>>)
      BY <3>3, Beginnings, EmptyText
    <3> HIDE DEF B
    <3> QED
      BY <3>1, <3>2, <3>4, <3>5, <3>6 DEF Begins, Shown
  <2>3. CASE s.phase # "reasoning"
    <3>1. /\ think => end > 0
          /\ r = IF think THEN Shown(mode, Before(B, end)) ELSE <<>>
          /\ Shielded(s, Answered(think, B), c)
      BY <2>1, <2>3 DEF Routed
    <3>2. AnswerOf(mode, t) = Answered(think, B)
      BY <3>1, Wholes
    <3>3. StartsWith(ProseOf(mode, t), c)
      BY <3>1, <3>2, ShieldedSplits
    <3>4. r = ReasoningOf(mode, t)
      BY <3>1, Wholes DEF Shown
    <3>5. StartsWith(r, r)
      BY Beginnings
    <3> QED
      BY <3>3, <3>4, <3>5 DEF Begins
  <2> QED
    BY <2>2, <2>3
<1> QED
  BY <1>2, <1>3

\* The step o of finish hands on the rest of the text t.
FinishedBy(o, mode, t, r, c) ==
  /\ Begins(mode, t, r \o o.reasoning, c \o o.content)
  /\ Whole(mode, t, r \o o.reasoning, c \o o.content)

\* finish hands on what was kept back, and that is the rest.
LEMMA FinishStep ==
  ASSUME NEW s \in Splitters, NEW mode \in BOOLEAN, NEW t \in Strings,
         NEW r \in Strings, NEW c \in Strings, Sound(mode, t, s, r, c)
  PROVE  FinishedBy(finish(s, mode), mode, t, r, c)
<1> DEFINE o == finish(s, mode)
           B == Body(t)
           end == Find(B, ThinkClose)
           think == mode \/ Opened(t)
<1>1. /\ ReasoningOf(mode, t) \in Strings /\ AnswerOf(mode, t) \in Strings
      /\ B \in Strings /\ ThinkClose \in Markers /\ Len(B) \in Nat
      /\ <<>> \in Strings
  BY Wholes, BodyIsText, Joined, EmptyText DEF Markers
<1>2. /\ o.reasoning = IF s.phase = "reasoning" \/ (s.phase = "start" /\ mode)
                         THEN Shown(mode, s.start_buffer \o s.reasoning_buffer) ELSE <<>>
      /\ o.content = IF s.phase = "reasoning" \/ (s.phase = "start" /\ mode)
                       \/ s.holding_tool_block THEN <<>>
                     ELSE IF s.phase = "start" THEN s.start_buffer ELSE s.buffer
  BY DEF finish, Out
<1>3. \A u \in Strings : <<>> \o u = u /\ u \o <<>> = u /\ StartsWith(u, u)
  BY EmptyText, Beginnings
<1> HIDE DEF o
<1>4. CASE s.phase = "start"
  <2>1. /\ t # ThinkOpen /\ StartsWith(ThinkOpen, t) /\ r = <<>> /\ c = <<>>
        /\ s.start_buffer = t /\ s.reasoning_buffer = <<>> /\ ~s.holding_tool_block
    BY <1>4 DEF Sound
  <2>2. /\ ReasoningOf(mode, t) = IF mode THEN t ELSE <<>>
        /\ ProseOf(mode, t) = IF mode THEN <<>> ELSE t
        /\ ContentOf(mode, t) = IF mode THEN <<>> ELSE t
    BY <2>1, Undecided
  <2>3. /\ r \o o.reasoning = IF mode THEN t ELSE <<>>
        /\ c \o o.content = IF mode THEN <<>> ELSE t
    BY <1>1, <1>2, <1>3, <1>4, <2>1 DEF Shown
  <2> QED
    BY <1>1, <1>3, <2>2, <2>3 DEF FinishedBy, Begins, Whole, o
<1>5. CASE s.phase = "reasoning"
  <2>1. Routed(mode, think, B, s, r, c) /\ s.start_buffer = <<>>
    BY <1>5 DEF Sound
  <2>2. think /\ c = <<>>
    BY <2>1, <1>5 DEF Routed
  <2>3. PICK thought \in Strings : /\ r = Shown(mode, thought)
                                   /\ Kept(B, thought, s.reasoning_buffer, ThinkClose)
    BY <2>1, <1>5 DEF Routed
  <2>4. /\ s.reasoning_buffer \in Strings /\ B = thought \o s.reasoning_buffer /\ end = 0
    BY <2>3 DEF Kept
  <2>5. AnswerOf(mode, t) = <<>> /\ ReasoningOf(mode, t) = IF mode THEN B ELSE <<>>
    BY <2>2, <2>4, Wholes
  <2>6. ProseOf(mode, t) = <<>> /\ ContentOf(mode, t) = <<>>
    BY <2>5, EmptyAnswer
  <2>7. o.reasoning = Shown(mode, s.reasoning_buffer) /\ o.content = <<>>
    BY <1>2, <1>3, <1>5, <2>1, <2>4
  <2> HIDE DEF B
  <2>8. r \o o.reasoning = ReasoningOf(mode, t) /\ c \o o.content = <<>>
    BY <1>1, <1>3, <2>2, <2>3, <2>4, <2>5, <2>7 DEF Shown
  <2> QED
    BY <1>1, <1>3, <2>6, <2>8 DEF FinishedBy, Begins, Whole, o
<1>6. CASE s.phase \notin {"start", "reasoning"}
  <2>1. Routed(mode, think, B, s, r, c)
    BY <1>6 DEF Sound
  <2>2. /\ think => end > 0
        /\ r = IF think THEN Shown(mode, Before(B, end)) ELSE <<>>
        /\ Shielded(s, Answered(think, B), c)
    BY <1>6, <2>1 DEF Routed
  <2>3. AnswerOf(mode, t) = Answered(think, B)
    BY <2>2, Wholes
  <2>4. r = ReasoningOf(mode, t)
    BY <2>2, Wholes DEF Shown
  <2> DEFINE whole == c \o (IF s.holding_tool_block THEN <<>> ELSE s.buffer)
  <2>5. /\ StartsWith(ProseOf(mode, t), whole)
        /\ whole \in {ContentOf(mode, t), ProseOf(mode, t)}
    BY <2>2, <2>3, ShieldedSplits
  <2>6. o.reasoning = <<>> /\ c \o o.content = whole
    BY <1>2, <1>6
  <2> HIDE DEF whole
  <2>7. r \o o.reasoning = ReasoningOf(mode, t)
    BY <1>3, <2>4, <2>6
  <2> QED
    BY <1>1, <1>3, <2>5, <2>6, <2>7 DEF FinishedBy, Begins, Whole, o
<1> QED
  BY <1>4, <1>5, <1>6

-----------------------------------------------------------------------------
(* The splitter while the native server cuts the text *)

\* The steps until the flush: the splitter is in use.
Splitting == {"prepare", "refuse", "role", "connect", "read", "flush"}

SplitInv ==
  /\ Typed
  /\ step \in Splitting => Sound(thinking, text, splitter, reasoning, content)
  /\ SplitsTheText

\* A step that leaves the parts alone and does not go back to the splitter.
LEMMA PartsKept ==
  ASSUME SplitInv, Typed', UNCHANGED <<thinking, text, splitter, reasoning, content>>,
         step' \in Splitting => step \in Splitting,
         step' \in AfterReading => step \in AfterReading
  PROVE  SplitInv'
  BY DEF SplitInv, SplitsTheText

\* A prefix of the parts begins the whole too.
LEMMA FewerBegin ==
  ASSUME NEW mode \in BOOLEAN, NEW t \in Strings, NEW r \in Strings, NEW c \in Strings,
         NEW more \in Strings, NEW further \in Strings,
         Begins(mode, t, r \o more, c \o further)
  PROVE  /\ Begins(mode, t, r \o more, c)
         /\ Begins(mode, t, r, c)
<1>1. ReasoningOf(mode, t) \in Strings /\ AnswerOf(mode, t) \in Strings
  BY Wholes
<1>2. ProseOf(mode, t) \in Strings
  <2> DEFINE a == AnswerOf(mode, t)
             at == Find(a, CallsOpen)
  <2>1. ProseOf(mode, t) = IF at = 0 THEN a ELSE Before(a, at)
    BY DEF ProseOf
  <2>2. a \in Strings /\ CallsOpen \in Markers /\ Len(a) \in Nat
    BY <1>1, Joined DEF Markers
  <2> HIDE DEF a
  <2>3. at # 0 => at \in 1 .. Len(a) + 1
    BY <2>2, FindFirst
  <2> HIDE DEF at
  <2>4. at # 0 => Before(a, at) \in Strings
    BY <2>2, <2>3, BeforeIs
  <2> QED
    BY <2>1, <2>2, <2>4
<1>3. StartsWith(ReasoningOf(mode, t), r) /\ StartsWith(ProseOf(mode, t), c)
  BY <1>1, <1>2, Beginnings DEF Begins
<1> QED
  BY <1>3 DEF Begins

\* Emit hands on the step of the splitter, or less when the client has left.
LEMMA EmitSplits ==
  ASSUME Typed, Typed', UNCHANGED thinking, NEW o \in Outs, NEW next, Emit(o, next),
         Begins(thinking, text', reasoning \o o.reasoning, content \o o.content)
  PROVE  /\ Begins(thinking, text', reasoning', content')
         /\ \/ step' = "over"
            \/ /\ reasoning' = reasoning \o o.reasoning
               /\ content' = content \o o.content
               /\ next
<1>1. /\ thinking \in BOOLEAN /\ text' \in Strings /\ reasoning \in Strings
      /\ content \in Strings /\ o.reasoning \in Strings /\ o.content \in Strings
  BY DEF Typed, Outs
<1>2. /\ Begins(thinking, text', reasoning \o o.reasoning, content)
      /\ Begins(thinking, text', reasoning, content)
  BY <1>1, FewerBegin
<1>3. \/ /\ reasoning' = reasoning \o o.reasoning
         /\ content' = content \o o.content /\ next
      \/ reasoning' = reasoning /\ content' = content /\ step' = "over"
      \/ reasoning' = reasoning \o o.reasoning /\ content' = content /\ step' = "over"
  BY DEF Emit, Lost, End
<1> QED
  BY <1>2, <1>3

\* The splitter of a new request is sound.
LEMMA SplitInit == Init => SplitInv
<1> SUFFICES ASSUME Init PROVE SplitInv
  OBVIOUS
<1>1. Typed
  BY BoundsAssumption
  DEF Init, Typed, NewSplitter, Splitters, Strings, NoPayload, NoBudget
<1>2. /\ ThinkOpen \in Strings /\ Len(ThinkOpen) >= 2 /\ Len(<<>>) = 0
      /\ StartsWith(ThinkOpen, <<>>)
  BY MarkersAreStrings, EmptyText, Beginnings DEF Markers
<1>3. Sound(thinking, text, splitter, reasoning, content)
  BY <1>2 DEF Init, NewSplitter, Sound
<1>4. Begins(thinking, text, reasoning, content)
  BY <1>1, <1>3, SoundBegins DEF Typed
<1> QED
  BY <1>1, <1>3, <1>4 DEF Init, SplitInv, SplitsTheText, Begins, AfterReading

\* An event keeps it sound, also when only a piece of its step can be handed on.
LEMMA ReceiveSplits ==
  ASSUME SplitInv, Typed', Receive
  PROVE  SplitInv'
<1>1. PICK delta \in Texts(MaxDelta), stop \in BOOLEAN :
        /\ text' = text \o delta
        /\ splitter' = feed(splitter, thinking, delta).splitter
        /\ Emit(feed(splitter, thinking, delta),
                /\ GoTo(IF stop THEN "flush" ELSE "read")
                /\ UNCHANGED upstream)
  BY DEF Receive
<1> DEFINE o == feed(splitter, thinking, delta)
<1>2. delta \in Strings
  BY BoundsAssumption DEF Texts, Strings
<1>3. /\ splitter \in Splitters /\ thinking \in BOOLEAN /\ text \in Strings
      /\ reasoning \in Strings /\ content \in Strings /\ Typed
      /\ step = "read" /\ UNCHANGED thinking
      /\ Sound(thinking, text, splitter, reasoning, content)
  BY DEF SplitInv, Typed, Receive, request, Splitting
<1>4. o \in Outs
  BY <1>2, <1>3, FeedType
<1>5. Sound(thinking, text', splitter', reasoning \o o.reasoning, content \o o.content)
  BY <1>1, <1>2, <1>3, FeedStep
<1>6. Begins(thinking, text', reasoning \o o.reasoning, content \o o.content)
  <2>1. /\ text' \in Strings /\ splitter' \in Splitters
        /\ o.reasoning \in Strings /\ o.content \in Strings
    BY <1>4 DEF Typed, Outs
  <2> HIDE DEF o
  <2>2. reasoning \o o.reasoning \in Strings /\ content \o o.content \in Strings
    BY <1>3, <2>1, Joined
  <2> QED
    BY <1>3, <1>5, <2>1, <2>2, SoundBegins
<1>7. /\ Begins(thinking, text', reasoning', content')
      /\ \/ step' = "over"
         \/ /\ reasoning' = reasoning \o o.reasoning
            /\ content' = content \o o.content
            /\ GoTo(IF stop THEN "flush" ELSE "read") /\ UNCHANGED upstream
  <2>1. Emit(o, GoTo(IF stop THEN "flush" ELSE "read") /\ UNCHANGED upstream)
    BY <1>1
  <2> HIDE DEF o
  <2> QED
    BY <1>3, <1>4, <1>6, <2>1, EmitSplits
<1> HIDE DEF o
<1>8. step' \in {"over", "flush", "read"}
  BY <1>7 DEF GoTo
<1>9. step' \in Splitting => Sound(thinking, text, splitter, reasoning, content)'
  BY <1>3, <1>5, <1>7 DEF Splitting
<1> QED
  BY <1>3, <1>7, <1>8, <1>9 DEF SplitInv, SplitsTheText, Begins, AfterReading

\* The flush hands on the rest.
LEMMA FlushSplits ==
  ASSUME SplitInv, Typed', Flush
  PROVE  SplitInv'
<1> DEFINE o == finish(splitter, thinking)
<1>1. Emit(o, GoTo("parse") /\ upstream' = "closed")
  BY DEF Flush
<1>2. /\ splitter \in Splitters /\ thinking \in BOOLEAN /\ text \in Strings
      /\ reasoning \in Strings /\ content \in Strings /\ Typed
      /\ step = "flush" /\ UNCHANGED <<thinking, text>>
      /\ Sound(thinking, text, splitter, reasoning, content)
  BY DEF SplitInv, Typed, Flush, request, Splitting
<1>3. o \in Outs
  BY <1>2, FinishType
<1>4. FinishedBy(o, thinking, text, reasoning, content)
  BY <1>2, FinishStep
<1> HIDE DEF o
<1>5. Begins(thinking, text', reasoning \o o.reasoning, content \o o.content)
  BY <1>2, <1>4 DEF FinishedBy
<1>6. /\ Begins(thinking, text', reasoning', content')
      /\ \/ step' = "over"
         \/ /\ reasoning' = reasoning \o o.reasoning
            /\ content' = content \o o.content
            /\ GoTo("parse") /\ upstream' = "closed"
  BY <1>1, <1>2, <1>3, <1>5, EmitSplits
<1>7. step' \in {"over", "parse"}
  BY <1>6 DEF GoTo
<1>8. step' # "over" => Whole(thinking, text, reasoning, content)'
  BY <1>2, <1>4, <1>6 DEF FinishedBy
<1> QED
  BY <1>2, <1>6, <1>7, <1>8 DEF SplitInv, SplitsTheText, Begins, Whole, AfterReading, Splitting

\* No other step touches the parts.
LEMMA SplitInductive == SplitInv /\ [Next]_vars => SplitInv'
<1> SUFFICES ASSUME SplitInv, [Next]_vars PROVE SplitInv'
  OBVIOUS
<1>0. Typed'
  BY TypedStays DEF SplitInv
<1>1. CASE Receive
  BY <1>0, <1>1, ReceiveSplits
<1>2. CASE Flush
  BY <1>0, <1>2, FlushSplits
<1>3. CASE UNCHANGED vars
  BY <1>0, <1>3, PartsKept DEF vars
<1>4. CASE ClientLeaves \/ Prepare \/ Refuse \/ Connect \/ ReceiveBad \/ ConnectionBreaks \/ Parse
  <2>1. /\ UNCHANGED <<thinking, text, splitter, reasoning, content>>
        /\ step' \in Splitting => step \in Splitting
        /\ step' \in AfterReading => step \in AfterReading
    BY <1>4 DEF ClientLeaves, Prepare, Refuse, Connect, ReceiveBad, ConnectionBreaks, Parse,
       GoTo, End, request, parts, Splitting, AfterReading
  <2> QED
    BY <1>0, <2>1, PartsKept
<1>5. CASE WriteRole \/ WriteCalls \/ WriteFinish \/ WriteUsage \/ WriteDone \/ WriteError
             \/ WriteRefusal \/ WriteReply
  <2>1. /\ UNCHANGED <<thinking, text, splitter, reasoning, content>>
        /\ step' \in Splitting => step \in Splitting
        /\ step' \in AfterReading => step \in AfterReading
    BY <1>5 DEF WriteRole, WriteCalls, WriteFinish, WriteUsage, WriteDone, WriteError,
       WriteRefusal, WriteReply, Write, Lost,
       GoTo, End, request, parts, Splitting, AfterReading
  <2> QED
    BY <1>0, <2>1, PartsKept
<1> QED
  BY <1>1, <1>2, <1>3, <1>4, <1>5 DEF Next

\* However the native server cuts a text of any length into events.
THEOREM TextSplit == Spec => []SplitsTheText
<1>1. SplitInv => SplitsTheText
  BY DEF SplitInv
<1> QED
  BY <1>1, SplitInit, SplitInductive, PTL DEF Spec

-----------------------------------------------------------------------------
(* iter_sse_data: what the decoder holds is stated of the whole text so    *)
(* far and its last newline, and every round of its loop, every chunk and  *)
(* the end of the stream keep to that.                                     *)

\* Induction over the naturals, said of a set of them: a number that is not in
\* the set would have a smallest one beside it.
LEMMA AllNaturals ==
  ASSUME NEW S, 0 \in S, \A n \in Nat : n \in S => n + 1 \in S
  PROVE  \A n \in Nat : n \in S
<1> DEFINE T == Nat \ S
<1> SUFFICES ASSUME T # {} PROVE FALSE
  OBVIOUS
<1>1. T \subseteq Nat
  OBVIOUS
<1> HIDE DEF T
<1>2. \E x \in T : \A y \in T : ~ (<<y, x>> \in OpToRel(<, Nat))
  BY <1>1, NatLessThanWellFounded, WFMin
<1>3. PICK x \in T : \A y \in T : ~ (<<y, x>> \in OpToRel(<, Nat))
  BY <1>2
<1>4. \A y \in T : ~ (y < x)
  BY <1>1, <1>3 DEF OpToRel
<1>5. x \in Nat /\ x # 0 /\ x - 1 \in Nat /\ x - 1 < x /\ (x - 1) + 1 = x
  BY <1>1 DEF T
<1>6. x - 1 \in S
  BY <1>4, <1>5 DEF T
<1>7. x \in S
  BY <1>5, <1>6
<1> QED
  BY <1>7 DEF T

\* The smallest number of a set of numbers.
LEMMA Least ==
  ASSUME NEW S, S \subseteq Nat, S # {}
  PROVE  \E x \in S : \A y \in S : x <= y
<1>1. \E x \in S : \A y \in S : ~ (<<y, x>> \in OpToRel(<, Nat))
  BY NatLessThanWellFounded, WFMin
<1>2. PICK x \in S : \A y \in S : ~ (<<y, x>> \in OpToRel(<, Nat))
  BY <1>1
<1>3. \A y \in S : ~ (y < x)
  BY <1>2 DEF OpToRel
<1>4. x \in Nat /\ \A y \in S : y \in Nat
  OBVIOUS
<1>5. \A y \in S : x <= y
  BY <1>3, <1>4
<1> QED
  BY <1>5

-----------------------------------------------------------------------------
(* The numbers of a set, in order *)

\* A finite set of numbers of which InOrder lists those it has.
Ordered(J) ==
  /\ IsFiniteSet(J) /\ J \subseteq Nat
  /\ InOrder(J) \in [1 .. Cardinality(J) -> J]

\* The numbers of J up to j, and the one with n numbers up to it.
UpTo(J, j) == {i \in J : i <= j}
Nth(J, n) == {j \in J : Cardinality(UpTo(J, j)) = n}

\* What InOrder lists, by these names.
LEMMA InOrderIs ==
  ASSUME NEW J
  PROVE  InOrder(J) = [n \in 1 .. Cardinality(J) |-> CHOOSE j \in Nth(J, n) : TRUE]
BY DEF InOrder, Nth, UpTo

\* A sequence of numbers in J.
LEMMA OrderType ==
  ASSUME NEW J, Ordered(J)
  PROVE  /\ InOrder(J) \in Seq(J) /\ InOrder(J) \in Seq(Nat)
         /\ Len(InOrder(J)) = Cardinality(J) /\ Cardinality(J) \in Nat
<1>1. Cardinality(J) \in Nat
  BY FS_CardinalityType DEF Ordered
<1>2. InOrder(J) \in Seq(J)
  BY <1>1, SeqDef DEF Ordered
<1>3. InOrder(J) \in Seq(Nat)
  BY <1>2, SeqMonotonic DEF Ordered
<1>4. DOMAIN InOrder(J) = 1 .. Cardinality(J)
  BY DEF Ordered
<1>5. Len(InOrder(J)) = Cardinality(J)
  BY <1>1, <1>2, <1>4, LenProperties
<1> QED
  BY <1>1, <1>2, <1>3, <1>5

\* No numbers are in order.
LEMMA EmptyOrder == Ordered({}) /\ Cardinality({}) = 0
<1>1. IsFiniteSet({}) /\ Cardinality({}) = 0
  BY FS_EmptySet
<1>2. InOrder({}) = [n \in 1 .. 0 |-> CHOOSE j \in Nth({}, n) : TRUE]
  BY <1>1, InOrderIs
<1>3. InOrder({}) \in [1 .. 0 -> {}]
  <2>1. 1 .. 0 = {}
    OBVIOUS
  <2>2. InOrder({}) = [n \in {} |-> CHOOSE j \in Nth({}, n) : TRUE]
    BY <1>2, <2>1
  <2>3. InOrder({}) \in [{} -> {}]
    BY <2>2
  <2> QED
    BY <2>1, <2>3
<1> QED
  BY <1>1, <1>3 DEF Ordered

\* A number greater than all others comes last.
LEMMA OrderNext ==
  ASSUME NEW J, Ordered(J), NEW m \in Nat, \A j \in J : j < m
  PROVE  /\ Ordered(J \union {m})
         /\ InOrder(J \union {m}) = Append(InOrder(J), m)
<1> DEFINE K == J \union {m}
           c == Cardinality(J)
<1>1. IsFiniteSet(J) /\ J \subseteq Nat /\ c \in Nat /\ m \notin J
  <2>1. IsFiniteSet(J) /\ J \subseteq Nat
    BY DEF Ordered
  <2>2. c \in Nat
    BY OrderType
  <2>3. ~ (m < m)
    OBVIOUS
  <2> QED
    BY <2>1, <2>2, <2>3
<1>2. IsFiniteSet(K) /\ Cardinality(K) = c + 1 /\ K \subseteq Nat
  BY <1>1, FS_AddElement
<1>3. \A j \in J : UpTo(K, j) = UpTo(J, j)
  BY <1>1 DEF UpTo
<1>4. UpTo(K, m) = K
  <2>1. \A j \in K : j <= m
    BY <1>1
  <2> QED
    BY <2>1 DEF UpTo
<1>5. \A j \in J : Cardinality(UpTo(J, j)) \in Nat /\ Cardinality(UpTo(J, j)) <= c
  BY <1>1, FS_Subset, FS_CardinalityType DEF UpTo
<1>6. ASSUME NEW n \in 1 .. c PROVE Nth(K, n) = Nth(J, n)
  <2>1. n # c + 1
    BY <1>1
  <2>2. m \notin Nth(K, n)
    BY <1>2, <1>4, <2>1 DEF Nth
  <2> QED
    BY <1>3, <2>2 DEF Nth
<1>7. Nth(K, c + 1) = {m}
  <2>1. \A j \in J : Cardinality(UpTo(K, j)) # c + 1
    BY <1>1, <1>3, <1>5
  <2>2. Cardinality(UpTo(K, m)) = c + 1
    BY <1>2, <1>4
  <2> QED
    BY <2>1, <2>2 DEF Nth
<1> HIDE DEF K, c
<1>8. InOrder(K) = [n \in 1 .. c + 1 |-> CHOOSE j \in Nth(K, n) : TRUE]
  BY <1>2, InOrderIs
<1>9. InOrder(J) = [n \in 1 .. c |-> CHOOSE j \in Nth(J, n) : TRUE]
  BY InOrderIs DEF c
<1>10. \A n \in 1 .. c : InOrder(K)[n] = InOrder(J)[n] /\ InOrder(J)[n] \in J
  BY <1>1, <1>6, <1>8, <1>9 DEF Ordered, c
<1>11. InOrder(K)[c + 1] = m
  BY <1>1, <1>7, <1>8
<1>12. \A n \in 1 .. c + 1 : InOrder(K)[n] \in K
  BY <1>1, <1>10, <1>11 DEF K
<1>13. InOrder(K) \in [1 .. c + 1 -> K]
  BY <1>8, <1>12
<1>14. Ordered(K)
  BY <1>2, <1>13 DEF Ordered
<1>15. InOrder(K) = Append(InOrder(J), m)
  <2>1. /\ InOrder(K) \in Seq(Nat) /\ Len(InOrder(K)) = c + 1
        /\ InOrder(J) \in Seq(Nat) /\ Len(InOrder(J)) = c
    BY <1>2, <1>14, OrderType DEF c
  <2>2. /\ Append(InOrder(J), m) \in Seq(Nat)
        /\ Len(Append(InOrder(J), m)) = c + 1
        /\ \A n \in 1 .. c + 1 :
             Append(InOrder(J), m)[n] = IF n <= c THEN InOrder(J)[n] ELSE m
    BY <1>1, <2>1, AppendProperties
  <2>3. \A n \in 1 .. c + 1 : InOrder(K)[n] = Append(InOrder(J), m)[n]
    BY <1>1, <1>10, <1>11, <2>2
  <2> QED
    BY <2>1, <2>2, <2>3, SeqEqual
<1> QED
  BY <1>14, <1>15 DEF K

\* Every finite set of numbers is put in order.
LEMMA OrderAll == \A n \in Nat : \A J \in SUBSET (1 .. n) : Ordered(J)
<1> DEFINE S == {n \in Nat : \A J \in SUBSET (1 .. n) : Ordered(J)}
<1>1. 0 \in S
  <2>1. \A J \in SUBSET (1 .. 0) : J = {}
    OBVIOUS
  <2> QED
    BY <2>1, EmptyOrder
<1>2. ASSUME NEW n \in Nat, n \in S PROVE n + 1 \in S
  <2> SUFFICES ASSUME NEW J \in SUBSET (1 .. n + 1) PROVE Ordered(J)
    OBVIOUS
  <2>1. J \ {n + 1} \in SUBSET (1 .. n)
    OBVIOUS
  <2>2. Ordered(J \ {n + 1})
    BY <1>2, <2>1
  <2>3. CASE n + 1 \in J
    <3>1. n + 1 \in Nat /\ \A j \in J \ {n + 1} : j < n + 1
      BY <2>1
    <3>3. Ordered((J \ {n + 1}) \union {n + 1})
      BY <2>2, <3>1, OrderNext
    <3>2. (J \ {n + 1}) \union {n + 1} = J
      BY <2>3
    <3> QED
      BY <3>2, <3>3
  <2>4. CASE n + 1 \notin J
    <3>1. J \ {n + 1} = J
      BY <2>4
    <3> QED
      BY <2>2, <3>1
  <2> QED
    BY <2>3, <2>4
<1> HIDE DEF S
<1>3. \A n \in Nat : n \in S
  BY <1>1, <1>2, AllNaturals
<1> QED
  BY <1>3 DEF S

-----------------------------------------------------------------------------
(* What is listed for the lines of a set *)

\* The payloads of the lines that end at the places of J, and the events.
Payloads(t, J) == [n \in 1 .. Len(InOrder(J)) |-> Payload(Line(t, InOrder(J)[n]))]
Events(t, J) == [n \in 1 .. Len(InOrder(J)) |-> Event(t, InOrder(J)[n])]

\* What is listed for one number more is listed last.
LEMMA ListedNext ==
  ASSUME NEW f, NEW s \in Seq(Nat), NEW m \in Nat
  PROVE  [n \in 1 .. Len(Append(s, m)) |-> f[Append(s, m)[n]]]
           = Append([n \in 1 .. Len(s) |-> f[s[n]]], f[m])
<1> DEFINE S == {f[j] : j \in Nat}
           a == [n \in 1 .. Len(s) |-> f[s[n]]]
           b == [n \in 1 .. Len(Append(s, m)) |-> f[Append(s, m)[n]]]
<1>1. /\ Len(s) \in Nat /\ Append(s, m) \in Seq(Nat) /\ Len(Append(s, m)) = Len(s) + 1
      /\ \A n \in 1 .. Len(s) : s[n] \in Nat /\ Append(s, m)[n] = s[n]
      /\ Append(s, m)[Len(s) + 1] = m
  BY AppendProperties
<1>2. /\ DOMAIN a = 1 .. Len(s) /\ DOMAIN b = 1 .. Len(s) + 1
      /\ \A n \in 1 .. Len(s) : a[n] = f[s[n]] /\ b[n] = f[s[n]] /\ f[s[n]] \in S
      /\ b[Len(s) + 1] = f[m] /\ f[m] \in S
      /\ a \in [1 .. Len(s) -> S] /\ b \in [1 .. Len(s) + 1 -> S]
  <2>1. f[m] \in S /\ \A n \in 1 .. Len(s) : f[s[n]] \in S
    BY <1>1
  <2>2. /\ DOMAIN a = 1 .. Len(s) /\ DOMAIN b = 1 .. Len(s) + 1
        /\ \A n \in 1 .. Len(s) : a[n] = f[s[n]] /\ b[n] = f[s[n]]
        /\ b[Len(s) + 1] = f[m]
    BY <1>1
  <2>3. a = [n \in 1 .. Len(s) |-> a[n]] /\ b = [n \in 1 .. Len(s) + 1 |-> b[n]]
    BY <1>1
  <2>4. \A n \in 1 .. Len(s) + 1 : n \in 1 .. Len(s) \/ n = Len(s) + 1
    BY <1>1
  <2>5. \A n \in 1 .. Len(s) + 1 : b[n] \in S
    BY <2>1, <2>2, <2>4
  <2> HIDE DEF S, a, b
  <2> QED
    BY <2>1, <2>2, <2>3, <2>5
<1> HIDE DEF S, a, b
<1>3. a \in Seq(S) /\ b \in Seq(S) /\ Len(a) = Len(s) /\ Len(b) = Len(s) + 1
  <2>1. a \in Seq(S) /\ b \in Seq(S)
    <3>1. Len(s) \in Nat /\ Len(s) + 1 \in Nat
      BY <1>1
    <3>2. \A k \in Nat : [1 .. k -> S] \subseteq Seq(S)
      BY SeqDef
    <3> QED
      BY <1>2, <3>1, <3>2
  <2> QED
    BY <1>1, <1>2, <2>1, LenProperties
<1>4. /\ Append(a, f[m]) \in Seq(S) /\ Len(Append(a, f[m])) = Len(s) + 1
      /\ \A n \in 1 .. Len(s) : Append(a, f[m])[n] = a[n]
      /\ Append(a, f[m])[Len(s) + 1] = f[m]
  BY <1>1, <1>2, <1>3, AppendProperties
<1>5. \A n \in 1 .. Len(s) + 1 : b[n] = Append(a, f[m])[n]
  <2>1. \A n \in 1 .. Len(s) + 1 : n \in 1 .. Len(s) \/ n = Len(s) + 1
    BY <1>1
  <2> QED
    BY <1>2, <1>4, <2>1
<1>6. b = Append(a, f[m])
  BY <1>3, <1>4, <1>5, SeqEqual
<1> QED
  BY <1>6 DEF a, b

\* A line after all others is listed last.
LEMMA PayloadsNext ==
  ASSUME NEW t, NEW J, Ordered(J), NEW m \in Nat, \A j \in J : j < m
  PROVE  /\ Payloads(t, J \union {m}) = Append(Payloads(t, J), Payload(Line(t, m)))
         /\ Events(t, J \union {m}) = Append(Events(t, J), Event(t, m))
<1> DEFINE s == InOrder(J)
<1>1. s \in Seq(Nat) /\ InOrder(J \union {m}) = Append(s, m)
  BY OrderType, OrderNext
<1>2. /\ Append(s, m) \in Seq(Nat)
      /\ \A n \in 1 .. Len(s) : s[n] \in Nat
      /\ \A n \in 1 .. Len(Append(s, m)) : Append(s, m)[n] \in Nat
  BY <1>1, AppendProperties, ElementOfSeq
<1> HIDE DEF s
<1>3. Payloads(t, J \union {m}) = Append(Payloads(t, J), Payload(Line(t, m)))
  <2> DEFINE f == [j \in Nat |-> Payload(Line(t, j))]
  <2>1. \A j \in Nat : f[j] = Payload(Line(t, j))
    OBVIOUS
  <2> HIDE DEF f
  <2>2. Payloads(t, J) = [n \in 1 .. Len(s) |-> f[s[n]]]
    BY <1>2, <2>1 DEF Payloads, s
  <2>3. Payloads(t, J \union {m}) = [n \in 1 .. Len(Append(s, m)) |-> f[Append(s, m)[n]]]
    BY <1>1, <1>2, <2>1 DEF Payloads
  <2>4. [n \in 1 .. Len(Append(s, m)) |-> f[Append(s, m)[n]]]
          = Append([n \in 1 .. Len(s) |-> f[s[n]]], f[m])
    BY <1>1, ListedNext
  <2> QED
    BY <2>1, <2>2, <2>3, <2>4
<1>4. Events(t, J \union {m}) = Append(Events(t, J), Event(t, m))
  <2> DEFINE f == [j \in Nat |-> Event(t, j)]
  <2>1. \A j \in Nat : f[j] = Event(t, j)
    OBVIOUS
  <2> HIDE DEF f
  <2>2. Events(t, J) = [n \in 1 .. Len(s) |-> f[s[n]]]
    BY <1>2, <2>1 DEF Events, s
  <2>3. Events(t, J \union {m}) = [n \in 1 .. Len(Append(s, m)) |-> f[Append(s, m)[n]]]
    BY <1>1, <1>2, <2>1 DEF Events
  <2>4. [n \in 1 .. Len(Append(s, m)) |-> f[Append(s, m)[n]]]
          = Append([n \in 1 .. Len(s) |-> f[s[n]]], f[m])
    BY <1>1, ListedNext
  <2> QED
    BY <2>1, <2>2, <2>3, <2>4
<1> QED
  BY <1>3, <1>4

\* Nothing is listed of no lines, and something of any others.
LEMMA PayloadsOfNone ==
  ASSUME NEW t
  PROVE  /\ Payloads(t, {}) = <<>> /\ Events(t, {}) = <<>>
         /\ \A J : Ordered(J) /\ J # {} => Payloads(t, J) # <<>>
<1>1. Len(InOrder({})) = 0
  BY EmptyOrder, OrderType
<1>2. 1 .. 0 = {}
  OBVIOUS
<1>3. Payloads(t, {}) = <<>> /\ Events(t, {}) = <<>>
  BY <1>1, <1>2 DEF Payloads, Events
<1>4. ASSUME NEW J, Ordered(J), J # {} PROVE Payloads(t, J) # <<>>
  <2>1. Len(InOrder(J)) = Cardinality(J) /\ Cardinality(J) \in Nat
    BY <1>4, OrderType
  <2>2. Cardinality(J) # 0
    BY <1>4, FS_EmptySet DEF Ordered
  <2>3. 1 \in 1 .. Len(InOrder(J))
    BY <2>1, <2>2
  <2>4. 1 \in DOMAIN Payloads(t, J)
    BY <2>3 DEF Payloads
  <2>5. DOMAIN <<>> = {}
    OBVIOUS
  <2> QED
    BY <2>4, <2>5
<1> QED
  BY <1>3, <1>4

-----------------------------------------------------------------------------
(* Lines, and what is pending after each *)

ByteStrings == Seq(Bytes)

\* The data lines up to p that no blank line has ended, and the blank lines up
\* to p that have ended an event.
Pend(t, p) ==
  {d \in Ends(t) : /\ d <= p /\ IsData(t, d)
                   /\ \A b \in Ends(t) : d < b /\ b <= p => ~IsBlank(t, b)}
Done(t, p) == {e \in Ends(t) : e <= p /\ IsBlank(t, e) /\ Block(t, e) # {}}

\* A line begins after p and ends at e.
Follows(t, p, e) ==
  /\ p \in {0} \union Newlines(t) /\ e \in Ends(t) /\ p < e
  /\ \A i \in Newlines(t) : ~ (p < i /\ i < e)

\* Where lines end.
LEMMA EndsAreNumbers ==
  ASSUME NEW t \in ByteStrings
  PROVE  /\ Len(t) \in Nat
         /\ Newlines(t) \subseteq 1 .. Len(t) /\ Ends(t) \subseteq 1 .. Len(t) + 1
         /\ \A i \in Newlines(t) : i \in Nat /\ i > 0 /\ i <= Len(t)
         /\ \A i \in Ends(t) : i \in Nat /\ i > 0 /\ i <= Len(t) + 1
<1>1. Len(t) \in Nat
  BY DEF ByteStrings
<1>2. Newlines(t) \subseteq 1 .. Len(t)
  BY DEF Newlines
<1>3. Ends(t) \subseteq 1 .. Len(t) + 1
  BY <1>1, <1>2 DEF Ends
<1> QED
  BY <1>1, <1>2, <1>3

\* Whatever is listed of a text is listed in order.
LEMMA AllOrdered ==
  ASSUME NEW t \in ByteStrings
  PROVE  \A J : J \subseteq Ends(t) => Ordered(J)
<1>1. Len(t) + 1 \in Nat /\ Ends(t) \subseteq 1 .. Len(t) + 1
  BY EndsAreNumbers
<1> QED
  BY <1>1, OrderAll

\* The line between p and e is what lies between them.
LEMMA LineIs ==
  ASSUME NEW t \in ByteStrings, NEW p, NEW e, Follows(t, p, e)
  PROVE  Line(t, e) = WithoutCR(SubSeq(t, p + 1, e - 1))
<1> DEFINE before == {0} \union {i \in Newlines(t) : i < e}
           last == CHOOSE i \in before : \A j \in before : j <= i
<1>1. /\ p \in before /\ before \subseteq Nat
      /\ \A j \in before : j <= p
  <2>1. e \in Nat /\ e > 0 /\ p \in Nat
    BY EndsAreNumbers DEF Follows
  <2>2. p \in before
    BY <2>1 DEF Follows
  <2>3. before \subseteq Nat
    BY EndsAreNumbers
  <2>4. ASSUME NEW j \in before PROVE j <= p
    BY <2>1, <2>3, <2>4 DEF Follows
  <2> QED
    BY <2>2, <2>3, <2>4
<1>2. \A i \in before : (\A j \in before : j <= i) => i = p
  BY <1>1
<1> HIDE DEF before
<1>3. last = p
  BY <1>1, <1>2
<1>4. Line(t, e) = WithoutCR(SubSeq(t, last + 1, e - 1))
  BY DEF Line, last, before
<1> QED
  BY <1>3, <1>4

\* Up to e there are the lines up to p and the one that ends at e.
LEMMA UpToNext ==
  ASSUME NEW t \in ByteStrings, NEW p, NEW e, Follows(t, p, e)
  PROVE  /\ p \in Nat /\ e \in Nat /\ e \in Ends(t) /\ p < e /\ p <= Len(t)
         /\ \A d \in Ends(t) : (d <= e <=> d <= p \/ d = e) /\ (d < e <=> d <= p)
<1>1. p \in Nat /\ e \in Nat /\ e \in Ends(t) /\ p < e /\ p <= Len(t) /\ e <= Len(t) + 1
  BY EndsAreNumbers DEF Follows
<1>2. ASSUME NEW d \in Ends(t) PROVE d <= e <=> d <= p \/ d = e
  <2>1. d \in Nat /\ (d \in Newlines(t) \/ d = Len(t) + 1)
    BY EndsAreNumbers DEF Ends
  <2> QED
    BY <1>1, <2>1, EndsAreNumbers DEF Follows
<1>3. ASSUME NEW d \in Ends(t) PROVE d < e <=> d <= p
  <2>1. d \in Nat
    BY EndsAreNumbers
  <2> QED
    BY <1>1, <1>2, <2>1
<1> QED
  BY <1>1, <1>2, <1>3

\* A blank line ends what is pending.
LEMMA LineBlank ==
  ASSUME NEW t \in ByteStrings, NEW p, NEW e, Follows(t, p, e), IsBlank(t, e)
  PROVE  /\ Block(t, e) = Pend(t, p) /\ Pend(t, e) = {}
         /\ Done(t, e) = IF Pend(t, p) = {} THEN Done(t, p) ELSE Done(t, p) \union {e}
<1>1. ~IsData(t, e)
  BY DEF IsData, IsBlank
<1>2. Block(t, e) = Pend(t, p)
  BY <1>1, UpToNext DEF Block, Pend
<1>3. Pend(t, e) = {}
  BY <1>1, UpToNext DEF Pend
<1>4. Done(t, e) = IF Pend(t, p) = {} THEN Done(t, p) ELSE Done(t, p) \union {e}
  BY <1>2, UpToNext DEF Done
<1> QED
  BY <1>2, <1>3, <1>4

\* A data line adds to what is pending.
LEMMA LineOfData ==
  ASSUME NEW t \in ByteStrings, NEW p, NEW e, Follows(t, p, e), IsData(t, e)
  PROVE  /\ Block(t, e) = Pend(t, p) \union {e} /\ Pend(t, e) = Pend(t, p) \union {e}
         /\ Done(t, e) = Done(t, p)
<1>1. ~IsBlank(t, e)
  BY DEF IsData, IsBlank
<1>2. ~ (e <= p) /\ \A b \in Ends(t) : b \in Nat
  BY UpToNext, EndsAreNumbers
<1>3. Block(t, e) = Pend(t, p) \union {e}
  BY <1>1, <1>2, UpToNext DEF Block, Pend
<1>4. Pend(t, e) = Pend(t, p) \union {e}
  BY <1>1, <1>2, UpToNext DEF Pend
<1>5. Done(t, e) = Done(t, p)
  BY <1>1, UpToNext DEF Done
<1> QED
  BY <1>3, <1>4, <1>5

\* A line that is neither, a comment or another field, changes nothing.
LEMMA LineIgnored ==
  ASSUME NEW t \in ByteStrings, NEW p, NEW e, Follows(t, p, e), ~IsData(t, e), ~IsBlank(t, e)
  PROVE  /\ Block(t, e) = Pend(t, p) /\ Pend(t, e) = Pend(t, p)
         /\ Done(t, e) = Done(t, p)
<1>1. Block(t, e) = Pend(t, p)
  BY UpToNext DEF Block, Pend
<1>2. Pend(t, e) = Pend(t, p)
  BY UpToNext DEF Pend
<1>3. Done(t, e) = Done(t, p)
  BY UpToNext DEF Done
<1> QED
  BY <1>1, <1>2, <1>3

-----------------------------------------------------------------------------
(* The decoder after a part of a text *)

\* The decoder when the lines up to p have left the buffer.
Decoder(held, buffer, t, p) ==
  [ held |-> held, buffer |-> buffer, data_lines |-> Payloads(t, Pend(t, p)),
    events |-> Events(t, Done(t, p)), sound |-> TRUE ]

\* Only the buffer changes.
LEMMA Rebuffered ==
  ASSUME NEW held, NEW buffer, NEW rest, NEW t, NEW p
  PROVE  [Decoder(held, buffer, t, p) EXCEPT !.buffer = rest] = Decoder(held, rest, t, p)
<1>1. ASSUME NEW s, s = [Decoder(held, buffer, t, p) EXCEPT !.buffer = rest]
      PROVE  s = Decoder(held, rest, t, p)
  BY <1>1 DEF Decoder
<1> QED
  BY <1>1

\* consume does with a line what the definition of the events says.
LEMMA Consumed ==
  ASSUME NEW t \in ByteStrings, NEW p, NEW e, Follows(t, p, e), NEW held, NEW buffer
  PROVE  consume(Decoder(held, buffer, t, p), SubSeq(t, p + 1, e - 1))
           = Decoder(held, buffer, t, e)
<1> DEFINE s == Decoder(held, buffer, t, p)
           line == Line(t, e)
<1>1. WithoutCR(SubSeq(t, p + 1, e - 1)) = line
  BY LineIs
<1>2. /\ s.data_lines = Payloads(t, Pend(t, p)) /\ s.events = Events(t, Done(t, p))
      /\ s.held = held /\ s.buffer = buffer /\ s.sound = TRUE
  BY DEF Decoder
<1>3. /\ Ordered(Pend(t, p)) /\ Ordered(Done(t, p)) /\ e \in Nat
      /\ \A d \in Pend(t, p) \union Done(t, p) : d < e
  <2>1. Pend(t, p) \subseteq Ends(t) /\ Done(t, p) \subseteq Ends(t)
    BY DEF Pend, Done
  <2>2. \A d \in Pend(t, p) \union Done(t, p) : d \in Ends(t) /\ d <= p
    BY DEF Pend, Done
  <2> QED
    BY <2>1, <2>2, AllOrdered, UpToNext
<1>4. CASE line = <<>>
  <2>1. IsBlank(t, e)
    BY <1>4 DEF IsBlank
  <2>2. consume(s, SubSeq(t, p + 1, e - 1)) = Yield(s)
    BY <1>1, <1>4 DEF consume
  <2>3. Payloads(t, Pend(t, e)) = <<>>
    BY <2>1, LineBlank, PayloadsOfNone
  <2>4. CASE Pend(t, p) = {}
    <3>1. Payloads(t, Pend(t, p)) = <<>>
      BY <2>4, PayloadsOfNone
    <3>2. Yield(s) = s
      BY <1>2, <3>1 DEF Yield
    <3>3. Done(t, e) = Done(t, p)
      BY <2>1, <2>4, LineBlank
    <3> QED
      BY <2>2, <2>3, <3>1, <3>2, <3>3 DEF Decoder
  <2>5. CASE Pend(t, p) # {}
    <3>1. s.data_lines # <<>>
      BY <1>2, <1>3, <2>5, PayloadsOfNone
    <3>2. Yield(s) = [s EXCEPT !.events = Append(@, s.data_lines), !.data_lines = <<>>]
      BY <3>1 DEF Yield
    <3>3. Events(t, Done(t, e)) = Append(Events(t, Done(t, p)), Event(t, e))
      <4>1. Done(t, e) = Done(t, p) \union {e}
        BY <2>1, <2>5, LineBlank
      <4> QED
        BY <1>3, <4>1, PayloadsNext
    <3>4. Event(t, e) = Payloads(t, Pend(t, p))
      <4>1. Block(t, e) = Pend(t, p)
        BY <2>1, LineBlank
      <4> QED
        BY <4>1 DEF Event, Payloads
    <3> QED
      BY <2>2, <2>3, <3>2, <3>3, <3>4 DEF Decoder
  <2> QED
    BY <2>4, <2>5
<1>5. CASE line # <<>> /\ line[1] = "data:"
  <2>1. IsData(t, e)
    BY <1>5 DEF IsData
  <2>2. consume(s, SubSeq(t, p + 1, e - 1))
          = [s EXCEPT !.data_lines = Append(@, Payload(line))]
    BY <1>1, <1>5 DEF consume
  <2>3. Pend(t, e) = Pend(t, p) \union {e} /\ Done(t, e) = Done(t, p)
    BY <2>1, LineOfData
  <2>4. Payloads(t, Pend(t, e)) = Append(Payloads(t, Pend(t, p)), Payload(line))
    BY <1>3, <2>3, PayloadsNext
  <2> QED
    BY <2>2, <2>3, <2>4 DEF Decoder
<1>6. CASE line # <<>> /\ line[1] # "data:"
  <2>1. ~IsData(t, e) /\ ~IsBlank(t, e)
    BY <1>6 DEF IsData, IsBlank
  <2>2. consume(s, SubSeq(t, p + 1, e - 1)) = s
    BY <1>1, <1>6 DEF consume
  <2>3. Pend(t, e) = Pend(t, p) /\ Done(t, e) = Done(t, p)
    BY <2>1, LineIgnored
  <2> QED
    BY <2>2, <2>3 DEF Decoder
<1> QED
  BY <1>4, <1>5, <1>6

\* The rest of a text after p.
Rest(t, p) == SubSeq(t, p + 1, Len(t))

\* The symbols of the rest.
LEMMA RestIs ==
  ASSUME NEW t \in ByteStrings, NEW p \in 0 .. Len(t)
  PROVE  /\ Rest(t, p) \in ByteStrings /\ Len(Rest(t, p)) = Len(t) - p /\ Len(Rest(t, p)) \in Nat
         /\ \A i \in 1 .. Len(t) - p : Rest(t, p)[i] = t[p + i]
<1>1. Len(t) \in Nat /\ p \in Nat /\ p <= Len(t) /\ p + 1 \in Int /\ Len(t) \in Int
  BY DEF ByteStrings
<1>2. \A i \in p + 1 .. Len(t) : t[i] \in Bytes
  BY <1>1, ElementOfSeq DEF ByteStrings
<1>3. /\ Rest(t, p) \in Seq(Bytes)
      /\ Len(Rest(t, p)) = IF p + 1 <= Len(t) THEN Len(t) - (p + 1) + 1 ELSE 0
      /\ \A i \in 1 .. Len(t) - (p + 1) + 1 : Rest(t, p)[i] = t[(p + 1) + i - 1]
  BY <1>1, <1>2, SubSeqProperties DEF Rest
<1>4. Len(Rest(t, p)) = Len(t) - p
  BY <1>1, <1>3
<1>5. ASSUME NEW i \in 1 .. Len(t) - p PROVE Rest(t, p)[i] = t[p + i]
  <2>1. i \in 1 .. Len(t) - (p + 1) + 1 /\ (p + 1) + i - 1 = p + i
    BY <1>1
  <2> QED
    BY <1>3, <2>1
<1> QED
  BY <1>1, <1>3, <1>4, <1>5 DEF ByteStrings

\* A piece of the rest is a piece of the text.
LEMMA PieceOfRest ==
  ASSUME NEW t \in ByteStrings, NEW p \in 0 .. Len(t), NEW at \in 1 .. Len(t) - p
  PROVE  /\ SubSeq(Rest(t, p), at + 1, Len(Rest(t, p))) = Rest(t, p + at)
         /\ SubSeq(Rest(t, p), 1, at - 1) = SubSeq(t, p + 1, p + at - 1)
<1>1. Len(t) \in Nat /\ p \in Nat /\ at \in Nat /\ at > 0 /\ p + at \in 0 .. Len(t)
  BY DEF ByteStrings
<1>2. Len(Rest(t, p)) = Len(t) - p
  BY RestIs
<1>3. \A i \in 1 .. Len(t) - p : Rest(t, p)[i] = t[p + i]
  BY RestIs
<1>4. \A i \in 1 .. Len(t) - p : Rest(t, p)[i] \in Bytes
  BY <1>2, RestIs, ElementOfSeq DEF ByteStrings
<1>5. SubSeq(Rest(t, p), at + 1, Len(Rest(t, p))) = Rest(t, p + at)
  <2> DEFINE a == SubSeq(Rest(t, p), at + 1, Len(t) - p)
             b == Rest(t, p + at)
  <2>1. /\ a \in Seq(Bytes)
        /\ Len(a) = IF at + 1 <= Len(t) - p THEN Len(t) - p - (at + 1) + 1 ELSE 0
        /\ \A i \in 1 .. Len(t) - p - (at + 1) + 1 : a[i] = Rest(t, p)[at + 1 + i - 1]
    <3>1. at + 1 \in Int /\ Len(t) - p \in Int
      BY <1>1
    <3>2. \A i \in at + 1 .. Len(t) - p : Rest(t, p)[i] \in Bytes
      BY <1>1, <1>4
    <3> HIDE DEF Rest
    <3> QED
      BY <3>1, <3>2, SubSeqProperties
  <2>2. b \in Seq(Bytes) /\ Len(b) = Len(t) - (p + at)
        /\ \A i \in 1 .. Len(t) - (p + at) : b[i] = t[p + at + i]
    BY <1>1, RestIs DEF ByteStrings
  <2> HIDE DEF a, b
  <2>3. Len(a) = Len(b)
    <3>1. Len(t) \in Int /\ p \in Int /\ at \in Int /\ at <= Len(t) - p
      BY <1>1
    <3>2. (IF at + 1 <= Len(t) - p THEN Len(t) - p - (at + 1) + 1 ELSE 0) = Len(t) - (p + at)
      BY <3>1
    <3> QED
      BY <2>1, <2>2, <3>2
  <2>4. ASSUME NEW i \in 1 .. Len(a) PROVE a[i] = b[i]
    <3>1. /\ i \in 1 .. Len(t) - (p + at) /\ i \in 1 .. Len(t) - p - (at + 1) + 1
          /\ at + 1 + i - 1 = at + i /\ at + i \in 1 .. Len(t) - p /\ p + (at + i) = p + at + i
      BY <1>1, <2>2, <2>3
    <3>2. a[i] = Rest(t, p)[at + i]
      BY <2>1, <3>1
    <3>3. Rest(t, p)[at + i] = t[p + at + i]
      BY <1>3, <3>1
    <3>4. b[i] = t[p + at + i]
      BY <2>2, <3>1
    <3> QED
      BY <3>2, <3>3, <3>4
  <2>5. a = b
    BY <2>1, <2>2, <2>3, <2>4, SeqEqual
  <2> QED
    BY <1>2, <2>5 DEF a, b
<1>6. SubSeq(Rest(t, p), 1, at - 1) = SubSeq(t, p + 1, p + at - 1)
  <2> DEFINE a == SubSeq(Rest(t, p), 1, at - 1)
             b == SubSeq(t, p + 1, p + at - 1)
  <2>1. /\ a \in Seq(Bytes) /\ Len(a) = IF 1 <= at - 1 THEN at - 1 - 1 + 1 ELSE 0
        /\ \A i \in 1 .. at - 1 - 1 + 1 : a[i] = Rest(t, p)[1 + i - 1]
    <3>1. at - 1 \in Int
      BY <1>1
    <3>2. \A i \in 1 .. at - 1 : Rest(t, p)[i] \in Bytes
      BY <1>1, <1>4
    <3> HIDE DEF Rest
    <3> QED
      BY <3>1, <3>2, SubSeqProperties
  <2>2. /\ b \in Seq(Bytes)
        /\ Len(b) = IF p + 1 <= p + at - 1 THEN p + at - 1 - (p + 1) + 1 ELSE 0
        /\ \A i \in 1 .. p + at - 1 - (p + 1) + 1 : b[i] = t[p + 1 + i - 1]
    <3>1. p + 1 \in Int /\ p + at - 1 \in Int
      BY <1>1
    <3>2. \A i \in p + 1 .. p + at - 1 : t[i] \in Bytes
      BY <1>1, ElementOfSeq DEF ByteStrings
    <3> QED
      BY <3>1, <3>2, SubSeqProperties
  <2> HIDE DEF a, b
  <2>3. Len(a) = at - 1 /\ Len(b) = at - 1
    BY <1>1, <2>1, <2>2
  <2>4. ASSUME NEW i \in 1 .. Len(a) PROVE a[i] = b[i]
    <3>1. /\ i \in 1 .. at - 1 - 1 + 1 /\ i \in 1 .. p + at - 1 - (p + 1) + 1
          /\ 1 + i - 1 = i /\ p + 1 + i - 1 = p + i /\ i \in 1 .. Len(t) - p
      BY <1>1, <2>3
    <3>2. a[i] = Rest(t, p)[i]
      BY <2>1, <3>1
    <3>3. Rest(t, p)[i] = t[p + i]
      BY <1>3, <3>1
    <3>4. b[i] = t[p + i]
      BY <2>2, <3>1
    <3> QED
      BY <3>2, <3>3, <3>4
  <2>5. a = b
    BY <2>1, <2>2, <2>3, <2>4, SeqEqual
  <2> QED
    BY <2>5 DEF a, b
<1> QED
  BY <1>5, <1>6

-----------------------------------------------------------------------------
(* The loop of accept *)

Starts(t) == {0} \union Newlines(t)

\* Where lines begin.
LEMMA StartsAre ==
  ASSUME NEW t \in ByteStrings
  PROVE  \A p \in Starts(t) : p \in 0 .. Len(t) /\ p \in Nat /\ p <= Len(t)
BY EndsAreNumbers DEF Starts

\* Is p the last newline of the text, or its start when it has none?
IsLast(t, p) == p \in Starts(t) /\ \A i \in Newlines(t) : i <= p

\* One round of the loop gets to the next newline, if there is one.
LEMMA OneRound ==
  ASSUME NEW t \in ByteStrings, NEW p \in Starts(t), NEW held
  PROVE  /\ IsLast(t, p) =>
              OneLine(Decoder(held, Rest(t, p), t, p)) = Decoder(held, Rest(t, p), t, p)
         /\ ~IsLast(t, p) =>
              \E q \in Newlines(t) :
                /\ p < q
                /\ OneLine(Decoder(held, Rest(t, p), t, p)) = Decoder(held, Rest(t, q), t, q)
<1> DEFINE s == Decoder(held, Rest(t, p), t, p)
           N == {i \in 1 .. Len(s.buffer) : s.buffer[i] = "LF"}
           at == CHOOSE i \in N : \A j \in N : i <= j
<1>1. p \in 0 .. Len(t) /\ p \in Nat /\ Len(t) \in Nat /\ p <= Len(t)
  BY StartsAre, EndsAreNumbers
<1>2. s.buffer = Rest(t, p)
  BY DEF Decoder
<1>3. N = {i \in 1 .. Len(t) - p : t[p + i] = "LF"}
  BY <1>1, <1>2, RestIs
<1>4. OneLine(s) = IF N = {} THEN s
                   ELSE consume([s EXCEPT !.buffer = SubSeq(s.buffer, at + 1, Len(s.buffer))],
                                SubSeq(s.buffer, 1, at - 1))
  BY DEF OneLine
<1> HIDE DEF N, s
<1>5. ASSUME NEW i \in Newlines(t), p < i
      PROVE  i - p \in N /\ p + (i - p) = i
  <2>1. i \in 1 .. Len(t) /\ t[i] = "LF"
    BY DEF Newlines
  <2>2. i - p \in 1 .. Len(t) - p /\ p + (i - p) = i
    BY <1>1, <1>5, <2>1
  <2> QED
    BY <1>3, <2>1, <2>2
<1>6. ASSUME NEW i \in N
      PROVE  i \in Nat /\ i > 0 /\ i \in 1 .. Len(t) - p /\ p + i \in Newlines(t) /\ p < p + i
  <2>1. i \in 1 .. Len(t) - p /\ t[p + i] = "LF"
    BY <1>3
  <2>2. p + i \in 1 .. Len(t) /\ i \in Nat /\ i > 0 /\ p < p + i
    BY <1>1, <2>1
  <2> QED
    BY <2>1, <2>2 DEF Newlines
<1>7. ASSUME IsLast(t, p) PROVE OneLine(s) = s
  <2>1. ASSUME NEW i \in N PROVE FALSE
    <3>1. p + i <= p /\ p < p + i /\ i \in Nat
      BY <1>6, <1>7 DEF IsLast
    <3> QED
      BY <1>1, <3>1
  <2> QED
    BY <1>4, <2>1
<1>8. ASSUME ~IsLast(t, p)
      PROVE  \E q \in Newlines(t) : p < q /\ OneLine(s) = Decoder(held, Rest(t, q), t, q)
  <2>1. PICK i \in Newlines(t) : ~ (i <= p)
    BY <1>8 DEF IsLast
  <2>2. p < i /\ i \in Nat
    BY <1>1, <2>1, EndsAreNumbers
  <2>3. N # {} /\ N \subseteq Nat
    BY <1>5, <1>6, <2>2
  <2>4. \E x \in N : \A y \in N : x <= y
    BY <2>3, Least
  <2>5. at \in N /\ \A j \in N : at <= j
    BY <2>4
  <2> HIDE DEF at
  <2> DEFINE q == p + at
  <2>6. at \in Nat /\ at > 0 /\ at \in 1 .. Len(t) - p /\ q \in Newlines(t) /\ p < q
    BY <1>6, <2>5
  <2>7. ASSUME NEW k \in Newlines(t), p < k, k < q PROVE FALSE
    <3>1. k \in Nat /\ at <= k - p
      BY <1>5, <2>5, <2>7, EndsAreNumbers
    <3> QED
      BY <1>1, <2>6, <2>7, <3>1
  <2>8. Follows(t, p, q)
    BY <2>6, <2>7 DEF Follows, Starts, Ends
  <2>9. /\ SubSeq(s.buffer, at + 1, Len(s.buffer)) = Rest(t, q)
        /\ SubSeq(s.buffer, 1, at - 1) = SubSeq(t, p + 1, q - 1)
    <3>1. /\ SubSeq(Rest(t, p), at + 1, Len(Rest(t, p))) = Rest(t, p + at)
          /\ SubSeq(Rest(t, p), 1, at - 1) = SubSeq(t, p + 1, p + at - 1)
      BY <1>1, <2>6, PieceOfRest
    <3> DEFINE whole == s.buffer
    <3>2. whole = Rest(t, p)
      BY <1>2
    <3>3. /\ SubSeq(whole, at + 1, Len(whole)) = Rest(t, q)
          /\ SubSeq(whole, 1, at - 1) = SubSeq(t, p + 1, q - 1)
      <4>1. p \in Nat /\ at \in Nat
        BY <1>1, <2>6
      <4> HIDE DEF whole
      <4> QED
        BY <3>1, <3>2, <4>1
    <3> QED
      BY <3>3
  <2>10. OneLine(s) = consume(Decoder(held, Rest(t, q), t, p), SubSeq(t, p + 1, q - 1))
    <3>1. OneLine(s) = consume([s EXCEPT !.buffer = Rest(t, q)], SubSeq(t, p + 1, q - 1))
      BY <1>4, <2>3, <2>9
    <3>2. [s EXCEPT !.buffer = Rest(t, q)] = Decoder(held, Rest(t, q), t, p)
      BY Rebuffered DEF s
    <3> QED
      BY <3>1, <3>2
  <2>11. OneLine(s) = Decoder(held, Rest(t, q), t, q)
    BY <2>8, <2>10, Consumed
  <2> QED
    BY <2>6, <2>11
<1> QED
  BY <1>7, <1>8 DEF s

\* n rounds of the loop.
Rounds(rest, s, n) ==
  rest = [k \in 0 .. n |-> IF k = 0 THEN s ELSE OneLine(rest[k - 1])]

\* The loop has any number of rounds.
LEMMA RoundsEnd ==
  ASSUME NEW s
  PROVE  \A n \in Nat : \E rest : Rounds(rest, s, n)
<1> DEFINE S == {n \in Nat : \E rest : Rounds(rest, s, n)}
<1>1. 0 \in S
  <2>1. Rounds([k \in 0 .. 0 |-> s], s, 0)
    BY DEF Rounds
  <2> QED
    BY <2>1
<1>2. ASSUME NEW n \in Nat, n \in S PROVE n + 1 \in S
  <2>1. PICK f : Rounds(f, s, n)
    BY <1>2
  <2> DEFINE g == [k \in 0 .. n + 1 |-> IF k = n + 1 THEN OneLine(f[n]) ELSE f[k]]
  <2>2. \A k \in 0 .. n : g[k] = f[k]
    OBVIOUS
  <2>3. \A k \in 0 .. n : f[k] = IF k = 0 THEN s ELSE OneLine(f[k - 1])
    BY <2>1 DEF Rounds
  <2>4. \A k \in 0 .. n + 1 : g[k] = IF k = 0 THEN s ELSE OneLine(g[k - 1])
    <3> TAKE k \in 0 .. n + 1
    <3>1. CASE k = n + 1
      <4>1. k # 0 /\ k - 1 = n /\ g[n] = f[n] /\ g[k] = OneLine(f[n])
        BY <3>1, <2>2
      <4> QED
        BY <3>1, <4>1
    <3>2. CASE k # n + 1
      <4>1. k \in 0 .. n /\ (k # 0 => k - 1 \in 0 .. n)
        BY <3>2
      <4> HIDE DEF g
      <4> QED
        BY <4>1, <2>2, <2>3
    <3> QED
      BY <3>1, <3>2
  <2>5. g = [k \in 0 .. n + 1 |-> IF k = 0 THEN s ELSE OneLine(g[k - 1])]
    <3>1. DOMAIN g = 0 .. n + 1 /\ g = [k \in 0 .. n + 1 |-> g[k]]
      OBVIOUS
    <3> HIDE DEF g
    <3> QED
      BY <3>1, <2>4
  <2> HIDE DEF g
  <2> QED
    BY <2>5 DEF Rounds
<1> HIDE DEF S
<1>3. \A n \in Nat : n \in S
  BY <1>1, <1>2, AllNaturals
<1> QED
  BY <1>3 DEF S

\* There is only one last newline.
LEMMA LastIsOne ==
  ASSUME NEW t \in ByteStrings, NEW p, NEW q, IsLast(t, p), IsLast(t, q)
  PROVE  p = q
<1>1. p \in Nat /\ q \in Nat
  BY StartsAre DEF IsLast
<1>2. p <= q /\ q <= p
  BY <1>1 DEF IsLast, Starts
<1> QED
  BY <1>1, <1>2

\* After the loop only the last line is in the buffer.
LEMMA LinesIs ==
  ASSUME NEW t \in ByteStrings, NEW p \in Starts(t), NEW held
  PROVE  \E q : /\ IsLast(t, q)
                /\ Lines(Decoder(held, Rest(t, p), t, p)) = Decoder(held, Rest(t, q), t, q)
<1> DEFINE s == Decoder(held, Rest(t, p), t, p)
           n == Len(s.buffer)
           rest == CHOOSE r : Rounds(r, s, n)
<1>1. p \in 0 .. Len(t) /\ p \in Nat /\ Len(t) \in Nat /\ p <= Len(t)
  BY StartsAre, EndsAreNumbers
<1>2. n = Len(t) - p /\ n \in Nat
  BY <1>1, RestIs DEF Decoder
<1>3. Rounds(rest, s, n)
  <2> HIDE DEF s
  <2>1. \E r : Rounds(r, s, n)
    BY <1>2, RoundsEnd
  <2> HIDE DEF n
  <2> QED
    BY <2>1
<1>4. Lines(s) = rest[n]
  BY DEF Lines, Rounds
<1> HIDE DEF rest
<1>5. /\ rest[0] = s
      /\ \A k \in Nat : k + 1 <= n => rest[k + 1] = OneLine(rest[k])
  <2> HIDE DEF n, s
  <2>1. \A k \in 0 .. n : rest[k] = IF k = 0 THEN s ELSE OneLine(rest[k - 1])
    BY <1>3 DEF Rounds
  <2>2. 0 \in 0 .. n
    BY <1>2
  <2>3. ASSUME NEW k \in Nat, k + 1 <= n PROVE rest[k + 1] = OneLine(rest[k])
    <3>1. k + 1 \in 0 .. n /\ k + 1 # 0 /\ (k + 1) - 1 = k
      BY <1>2, <2>3
    <3> QED
      BY <2>1, <3>1
  <2> QED
    BY <2>1, <2>2, <2>3
\* After k rounds.
<1> DEFINE Got(k) == \E q \in Starts(t) : /\ rest[k] = Decoder(held, Rest(t, q), t, q)
                                          /\ IsLast(t, q) \/ p + k <= q
           S == {k \in Nat : k <= n => Got(k)}
<1>6. 0 \in S
  BY <1>1, <1>5
<1> HIDE DEF n, s
<1>7. ASSUME NEW k \in Nat, k \in S PROVE k + 1 \in S
  <2> SUFFICES ASSUME k + 1 <= n PROVE Got(k + 1)
    OBVIOUS
  <2>1. k <= n
    BY <1>2
  <2>2. PICK q \in Starts(t) : /\ rest[k] = Decoder(held, Rest(t, q), t, q)
                               /\ IsLast(t, q) \/ p + k <= q
    BY <1>7, <2>1
  <2>3. rest[k + 1] = OneLine(Decoder(held, Rest(t, q), t, q))
    BY <1>5, <2>2
  <2>4. CASE IsLast(t, q)
    <3>1. rest[k + 1] = Decoder(held, Rest(t, q), t, q)
      BY <2>3, <2>4, OneRound
    <3> QED
      BY <2>4, <3>1
  <2>5. CASE ~IsLast(t, q)
    <3>1. PICK i \in Newlines(t) : /\ q < i
                                   /\ rest[k + 1] = Decoder(held, Rest(t, i), t, i)
      BY <2>3, <2>5, OneRound
    <3>2. i \in Starts(t) /\ i \in Nat /\ q \in Nat
      BY StartsAre DEF Starts
    <3>3. p + (k + 1) <= i
      BY <1>1, <2>2, <2>5, <3>1, <3>2
    <3> QED
      BY <3>1, <3>2, <3>3
  <2> QED
    BY <2>4, <2>5
<1>8. n \in S
  <2> HIDE DEF S
  <2>1. \A k \in Nat : k \in S
    BY <1>6, <1>7, AllNaturals
  <2> QED
    BY <1>2, <2>1
<1>9. PICK q \in Starts(t) : /\ rest[n] = Decoder(held, Rest(t, q), t, q)
                             /\ IsLast(t, q) \/ p + n <= q
  BY <1>2, <1>8
<1>10. IsLast(t, q)
  <2>1. CASE p + n <= q
    <3>1. Len(t) <= q /\ q \in Nat
      BY <1>1, <1>2, <2>1, StartsAre
    <3>2. \A i \in Newlines(t) : i \in Nat /\ i <= Len(t)
      BY EndsAreNumbers
    <3> QED
      BY <1>1, <3>1, <3>2 DEF IsLast
  <2> QED
    BY <1>9, <2>1
<1> QED
  BY <1>4, <1>9, <1>10 DEF s

-----------------------------------------------------------------------------
(* What follows changes nothing of what was *)

\* A line begins somewhere.
LEMMA Prior ==
  ASSUME NEW t \in ByteStrings, NEW e \in Ends(t)
  PROVE  \E p : Follows(t, p, e)
<1> DEFINE before == {0} \union {i \in Newlines(t) : i < e}
           D == {e - i : i \in before}
<1>1. e \in Nat /\ e > 0
  BY EndsAreNumbers
<1>2. \A i \in before : i \in Nat /\ i < e
  BY <1>1, EndsAreNumbers
<1>3. D \subseteq Nat /\ D # {}
  <2>1. \A i \in before : e - i \in Nat
    BY <1>1, <1>2
  <2> QED
    BY <2>1
<1>4. PICK x \in D : \A y \in D : x <= y
  <2> HIDE DEF D
  <2> QED
    BY <1>3, Least
<1>5. PICK p \in before : x = e - p
  BY <1>4
<1>6. ASSUME NEW i \in Newlines(t), p < i, i < e PROVE FALSE
  <2>1. i \in before /\ i \in Nat /\ p \in Nat
    BY <1>2, <1>5, <1>6, EndsAreNumbers
  <2>2. e - p <= e - i
    BY <1>4, <1>5, <2>1
  <2> QED
    BY <1>1, <1>6, <2>1, <2>2
<1> QED
  BY <1>2, <1>5, <1>6 DEF Follows

\* The symbols of two texts put together.
LEMMA Joining ==
  ASSUME NEW t \in ByteStrings, NEW c \in ByteStrings
  PROVE  /\ t \o c \in ByteStrings /\ Len(t \o c) = Len(t) + Len(c)
         /\ Len(t) \in Nat /\ Len(c) \in Nat
         /\ \A i \in 1 .. Len(t) : (t \o c)[i] = t[i]
         /\ \A i \in 1 .. Len(c) : (t \o c)[Len(t) + i] = c[i]
<1>1. /\ t \o c \in Seq(Bytes) /\ Len(t \o c) = Len(t) + Len(c)
      /\ \A i \in 1 .. Len(t) + Len(c) :
           (t \o c)[i] = IF i <= Len(t) THEN t[i] ELSE c[i - Len(t)]
  BY ConcatProperties DEF ByteStrings
<1>2. Len(t) \in Nat /\ Len(c) \in Nat
  BY DEF ByteStrings
<1>3. ASSUME NEW i \in 1 .. Len(t) PROVE (t \o c)[i] = t[i]
  <2>1. i \in 1 .. Len(t) + Len(c) /\ i <= Len(t)
    BY <1>2
  <2> QED
    BY <1>1, <2>1
<1>4. ASSUME NEW i \in 1 .. Len(c) PROVE (t \o c)[Len(t) + i] = c[i]
  <2>1. /\ Len(t) + i \in 1 .. Len(t) + Len(c) /\ ~ (Len(t) + i <= Len(t))
        /\ Len(t) + i - Len(t) = i
    BY <1>2
  <2> QED
    BY <1>1, <2>1
<1> QED
  BY <1>1, <1>2, <1>3, <1>4 DEF ByteStrings

\* The newlines of a longer text, and the lines that they end.
LEMMA LongerLines ==
  ASSUME NEW t \in ByteStrings, NEW c \in ByteStrings
  PROVE  /\ \A i \in Nat : i <= Len(t) => (i \in Newlines(t \o c) <=> i \in Newlines(t))
         /\ \A i \in Nat : i <= Len(t) => (i \in Ends(t \o c) <=> i \in Newlines(t))
         /\ \A i \in Nat : i <= Len(t) => (i \in Ends(t) <=> i \in Newlines(t))
         /\ \A e \in Newlines(t) : Line(t \o c, e) = Line(t, e)
<1> DEFINE u == t \o c
<1>1. /\ u \in ByteStrings /\ Len(u) = Len(t) + Len(c) /\ Len(t) \in Nat /\ Len(c) \in Nat
      /\ \A i \in 1 .. Len(t) : u[i] = t[i]
  BY Joining
<1> HIDE DEF u
<1>2. \A i \in Nat : i <= Len(t) => (i \in Newlines(u) <=> i \in Newlines(t))
  BY <1>1 DEF Newlines
<1>3. \A i \in Nat : i <= Len(t) => (i \in Ends(u) <=> i \in Newlines(t))
  BY <1>1, <1>2 DEF Ends
<1>4. \A i \in Nat : i <= Len(t) => (i \in Ends(t) <=> i \in Newlines(t))
  BY <1>1 DEF Ends
<1>5. ASSUME NEW e \in Newlines(t) PROVE Line(u, e) = Line(t, e)
  <2>1. e \in Nat /\ e > 0 /\ e <= Len(t) /\ e \in Ends(t) /\ e \in Ends(u)
    BY <1>3, EndsAreNumbers DEF Ends
  <2>2. PICK p : Follows(t, p, e)
    BY <2>1, Prior
  <2>3. p \in Nat /\ p < e
    BY <2>2, UpToNext
  <2>4. Follows(u, p, e)
    <3>1. p \in {0} \union Newlines(u)
      BY <1>2, <2>1, <2>2, <2>3 DEF Follows
    <3>2. ASSUME NEW i \in Newlines(u) PROVE ~ (p < i /\ i < e)
      <4> SUFFICES ASSUME i < e PROVE ~ (p < i)
        OBVIOUS
      <4>1. i \in Nat /\ i <= Len(t)
        BY <1>1, <2>1, EndsAreNumbers
      <4>2. i \in Newlines(t)
        BY <1>2, <4>1
      <4> QED
        BY <2>2, <4>2 DEF Follows
    <3> QED
      BY <2>1, <2>3, <3>1, <3>2 DEF Follows
  <2>5. Line(t, e) = WithoutCR(SubSeq(t, p + 1, e - 1))
    BY <2>2, LineIs
  <2>6. Line(u, e) = WithoutCR(SubSeq(u, p + 1, e - 1))
    BY <1>1, <2>4, LineIs
  <2>7. SubSeq(t, p + 1, e - 1) = SubSeq(u, p + 1, e - 1)
    <3> DEFINE a == SubSeq(t, p + 1, e - 1)
               b == SubSeq(u, p + 1, e - 1)
    <3>1. p + 1 \in Int /\ e - 1 \in Int
      BY <2>1, <2>3
    <3>2. \A i \in p + 1 .. e - 1 : i \in 1 .. Len(t) /\ t[i] \in Bytes /\ u[i] = t[i]
      <4>1. \A i \in p + 1 .. e - 1 : i \in 1 .. Len(t)
        BY <1>1, <2>1, <2>3
      <4> QED
        BY <1>1, <4>1, ElementOfSeq DEF ByteStrings
    <3>3. /\ a \in Seq(Bytes)
          /\ Len(a) = IF p + 1 <= e - 1 THEN e - 1 - (p + 1) + 1 ELSE 0
          /\ \A i \in 1 .. e - 1 - (p + 1) + 1 : a[i] = t[p + 1 + i - 1]
      BY <3>1, <3>2, SubSeqProperties
    <3>4. /\ b \in Seq(Bytes)
          /\ Len(b) = IF p + 1 <= e - 1 THEN e - 1 - (p + 1) + 1 ELSE 0
          /\ \A i \in 1 .. e - 1 - (p + 1) + 1 : b[i] = u[p + 1 + i - 1]
      BY <3>1, <3>2, SubSeqProperties
    <3> HIDE DEF a, b
    <3>5. ASSUME NEW i \in 1 .. Len(a) PROVE a[i] = b[i]
      <4>1. i \in 1 .. e - 1 - (p + 1) + 1 /\ p + 1 + i - 1 \in p + 1 .. e - 1
        BY <2>1, <2>3, <3>3
      <4>2. a[i] = t[p + 1 + i - 1] /\ b[i] = u[p + 1 + i - 1]
        BY <3>3, <3>4, <4>1
      <4> QED
        BY <3>2, <4>1, <4>2
    <3>6. a = b
      BY <3>3, <3>4, <3>5, SeqEqual
    <3> QED
      BY <3>6 DEF a, b
  <2> QED
    BY <2>5, <2>6, <2>7
<1> QED
  BY <1>2, <1>3, <1>4, <1>5 DEF u

\* What the decoder has made of the whole lines of a text stays what it is when
\* more follows.
LEMMA DecoderStays ==
  ASSUME NEW t \in ByteStrings, NEW c \in ByteStrings, NEW p \in Starts(t), NEW held, NEW buffer
  PROVE  Decoder(held, buffer, t \o c, p) = Decoder(held, buffer, t, p)
<1> DEFINE u == t \o c
<1>1. u \in ByteStrings /\ p \in Nat /\ p <= Len(t) /\ Len(t) \in Nat
  BY Joining, StartsAre
<1>2. /\ \A i \in Nat : i <= Len(t) => (i \in Ends(u) <=> i \in Newlines(t))
      /\ \A i \in Nat : i <= Len(t) => (i \in Ends(t) <=> i \in Newlines(t))
      /\ \A e \in Newlines(t) : Line(u, e) = Line(t, e)
  BY LongerLines
<1> HIDE DEF u
<1>3. \A e \in Newlines(t) : /\ IsBlank(u, e) <=> IsBlank(t, e)
                             /\ IsData(u, e) <=> IsData(t, e)
  BY <1>2 DEF IsBlank, IsData
<1>4. \A i \in Ends(u) \union Ends(t) : i \in Nat
  BY <1>1, EndsAreNumbers
<1>5. \A n \in Nat : n <= Len(t) => \A d : d \in Ends(u) /\ d <= n <=> d \in Newlines(t) /\ d <= n
  <2> TAKE n \in Nat
  <2> SUFFICES ASSUME n <= Len(t), NEW d
               PROVE  d \in Ends(u) /\ d <= n <=> d \in Newlines(t) /\ d <= n
    OBVIOUS
  <2>1. d \in Newlines(t) => d \in Nat /\ d <= Len(t)
    BY EndsAreNumbers
  <2>2. d \in Nat /\ d <= n => d <= Len(t)
    BY <1>1
  <2> QED
    BY <1>2, <1>4, <2>1, <2>2
<1>6. \A n \in Nat : n <= Len(t) => \A d : d \in Ends(t) /\ d <= n <=> d \in Newlines(t) /\ d <= n
  <2> TAKE n \in Nat
  <2> SUFFICES ASSUME n <= Len(t), NEW d
               PROVE  d \in Ends(t) /\ d <= n <=> d \in Newlines(t) /\ d <= n
    OBVIOUS
  <2>1. d \in Newlines(t) => d \in Nat /\ d <= Len(t)
    BY EndsAreNumbers
  <2>2. d \in Nat /\ d <= n => d <= Len(t)
    BY <1>1
  <2> QED
    BY <1>2, <1>4, <2>1, <2>2
<1>7. \A e \in Newlines(t) : e \in Nat /\ e <= Len(t)
  BY EndsAreNumbers
<1>8. ASSUME NEW e \in Newlines(t) PROVE Block(u, e) = Block(t, e)
  <2>1. e \in Nat /\ e <= Len(t)
    BY <1>7
  <2>2. \A b \in Ends(u) \union Ends(t) : b < e => b <= e
    BY <1>4, <2>1
  <2>3. \A d : d \in Ends(u) /\ d <= e <=> d \in Ends(t) /\ d <= e
    BY <1>5, <1>6, <2>1
  <2>4. \A d \in Ends(t) : d <= e => /\ IsBlank(u, d) <=> IsBlank(t, d)
                                     /\ IsData(u, d) <=> IsData(t, d)
    BY <1>3, <1>6, <2>1
  <2> QED
    BY <2>2, <2>3, <2>4 DEF Block
<1>9. Pend(u, p) = Pend(t, p)
  <2>1. \A d : d \in Ends(u) /\ d <= p <=> d \in Ends(t) /\ d <= p
    BY <1>1, <1>5, <1>6
  <2>2. \A d \in Ends(t) : d <= p => /\ IsBlank(u, d) <=> IsBlank(t, d)
                                     /\ IsData(u, d) <=> IsData(t, d)
    BY <1>1, <1>3, <1>6
  <2> QED
    BY <2>1, <2>2 DEF Pend
<1>10. Done(u, p) = Done(t, p)
  <2>1. \A d : d \in Ends(u) /\ d <= p <=> d \in Ends(t) /\ d <= p
    BY <1>1, <1>5, <1>6
  <2>2. \A d \in Ends(t) : d <= p => /\ IsBlank(u, d) <=> IsBlank(t, d)
                                     /\ Block(u, d) = Block(t, d)
    BY <1>1, <1>3, <1>6, <1>8
  <2> QED
    BY <2>1, <2>2 DEF Done
<1>11. ASSUME NEW J, J \subseteq Newlines(t)
       PROVE  /\ Ordered(J) /\ \A n \in 1 .. Len(InOrder(J)) : InOrder(J)[n] \in J
  <2>1. J \subseteq Ends(t)
    BY <1>11 DEF Ends
  <2>2. Ordered(J)
    BY <2>1, AllOrdered
  <2> QED
    BY <2>2, OrderType, ElementOfSeq
<1>12. ASSUME NEW J, J \subseteq Newlines(t) PROVE Payloads(u, J) = Payloads(t, J)
  <2>1. \A n \in 1 .. Len(InOrder(J)) : Line(u, InOrder(J)[n]) = Line(t, InOrder(J)[n])
    BY <1>2, <1>11, <1>12
  <2> QED
    BY <2>1 DEF Payloads
<1>13. ASSUME NEW e \in Newlines(t) PROVE Event(u, e) = Event(t, e)
  <2>1. Block(t, e) \subseteq Newlines(t)
    BY <1>6, <1>7 DEF Block
  <2>2. Payloads(u, Block(t, e)) = Payloads(t, Block(t, e))
    BY <1>12, <2>1
  <2>3. Block(u, e) = Block(t, e)
    BY <1>8
  <2> QED
    BY <2>2, <2>3 DEF Event, Payloads
<1>14. Pend(t, p) \subseteq Newlines(t) /\ Done(t, p) \subseteq Newlines(t)
  BY <1>1, <1>6 DEF Pend, Done
<1>15. Payloads(u, Pend(u, p)) = Payloads(t, Pend(t, p))
  BY <1>9, <1>12, <1>14
<1>16. Events(u, Done(u, p)) = Events(t, Done(t, p))
  <2>1. \A n \in 1 .. Len(InOrder(Done(t, p))) :
          Event(u, InOrder(Done(t, p))[n]) = Event(t, InOrder(Done(t, p))[n])
    BY <1>11, <1>13, <1>14
  <2> QED
    BY <1>10, <2>1 DEF Events
<1> QED
  BY <1>15, <1>16 DEF Decoder, u

-----------------------------------------------------------------------------
(* Bytes and characters *)

\* Every second byte of a character follows a first one; the last character may
\* be incomplete.  Then its first byte is held back from the text.
Good(s) == \A i \in 1 .. Len(s) : s[i] = "tail" <=> i > 1 /\ s[i - 1] = "lead"
Held(s) == s # <<>> /\ s[Len(s)] = "lead"
TextLen(s) == IF Held(s) THEN Len(s) - 1 ELSE Len(s)
Text(s) == SubSeq(s, 1, TextLen(s))

\* The text of a stream is the stream but for the byte held back.
LEMMA TextIs ==
  ASSUME NEW s \in ByteStrings
  PROVE  /\ Text(s) \in ByteStrings /\ Len(Text(s)) = TextLen(s)
         /\ TextLen(s) \in Nat /\ TextLen(s) <= Len(s) /\ Len(s) \in Nat
         /\ Held(s) => TextLen(s) + 1 = Len(s) /\ s[TextLen(s) + 1] = "lead"
         /\ ~Held(s) => TextLen(s) = Len(s)
         /\ \A i \in 1 .. TextLen(s) : Text(s)[i] = s[i]
<1>1. Len(s) \in Nat /\ (s # <<>> => Len(s) > 0)
  BY EmptySeq DEF ByteStrings
<1>2. /\ TextLen(s) \in Nat /\ TextLen(s) <= Len(s)
      /\ Held(s) => TextLen(s) + 1 = Len(s) /\ s[TextLen(s) + 1] = "lead"
      /\ ~Held(s) => TextLen(s) = Len(s)
  BY <1>1 DEF TextLen, Held
<1>3. \A i \in 1 .. TextLen(s) : s[i] \in Bytes
  BY <1>1, <1>2, ElementOfSeq DEF ByteStrings
<1>4. /\ Text(s) \in Seq(Bytes)
      /\ Len(Text(s)) = IF 1 <= TextLen(s) THEN TextLen(s) - 1 + 1 ELSE 0
      /\ \A i \in 1 .. TextLen(s) - 1 + 1 : Text(s)[i] = s[1 + i - 1]
  BY <1>2, <1>3, SubSeqProperties DEF Text
<1>5. Len(Text(s)) = TextLen(s)
  BY <1>2, <1>4
<1>6. ASSUME NEW i \in 1 .. TextLen(s) PROVE Text(s)[i] = s[i]
  <2>1. i \in 1 .. TextLen(s) - 1 + 1 /\ 1 + i - 1 = i
    BY <1>2
  <2> QED
    BY <1>4, <2>1
<1> QED
  BY <1>1, <1>2, <1>4, <1>5, <1>6 DEF ByteStrings

\* The incremental decoder finds out of a chunk whether the stream is sound up
\* to its end, and what the chunk adds to the text.
LEMMA Utf8Is ==
  ASSUME NEW s \in ByteStrings, Good(s), NEW c \in ByteStrings
  PROVE  LET decoded == Utf8(Held(s), c)
         IN /\ decoded.sound <=> Good(s \o c)
            /\ decoded.held = Held(s \o c)
            /\ decoded.chars \in ByteStrings
            /\ Text(s \o c) = Text(s) \o decoded.chars
<1> DEFINE u == s \o c
           k == TextLen(s)
           first == IF Held(s) THEN <<"lead">> ELSE <<>>
           bytes == first \o c
           n == Len(bytes)
           complete == IF n > 0 /\ bytes[n] = "lead" THEN n - 1 ELSE n
           chars == SubSeq(bytes, 1, complete)
<1>1. /\ u \in ByteStrings /\ Len(u) = Len(s) + Len(c) /\ Len(s) \in Nat /\ Len(c) \in Nat
      /\ \A i \in 1 .. Len(s) : u[i] = s[i]
      /\ \A i \in 1 .. Len(c) : u[Len(s) + i] = c[i]
  BY Joining
<1>2. /\ k \in Nat /\ k <= Len(s) /\ (Held(s) => k + 1 = Len(s) /\ s[k + 1] = "lead")
      /\ ~Held(s) => k = Len(s)
  BY TextIs
<1>3. first \in ByteStrings /\ Len(first) = Len(s) - k
  <2>1. <<"lead">> \in ByteStrings /\ Len(<<"lead">>) = 1 /\ <<>> \in ByteStrings /\ Len(<<>>) = 0
    <3>1. "lead" \in Bytes
      BY DEF Bytes
    <3> QED
      BY <3>1 DEF ByteStrings
  <2> QED
    BY <1>1, <1>2, <2>1
<1>4. \A i \in 1 .. Len(first) : first[i] = "lead" /\ s[k + i] = "lead" /\ k + i \in 1 .. Len(s)
  <2> TAKE i \in 1 .. Len(first)
  <2>1. Held(s) /\ i = 1
    BY <1>1, <1>2, <1>3
  <2> QED
    BY <1>1, <1>2, <2>1
<1> HIDE DEF u, k, first
<1>5. /\ bytes \in ByteStrings /\ n = Len(first) + Len(c) /\ n \in Nat
      /\ \A i \in 1 .. Len(first) : bytes[i] = first[i]
      /\ \A i \in 1 .. Len(c) : bytes[Len(first) + i] = c[i]
  BY <1>3, Joining
<1> HIDE DEF bytes
<1>6. k + n = Len(u)
  BY <1>1, <1>2, <1>3, <1>5
<1>7. ASSUME NEW i \in 1 .. n PROVE bytes[i] = u[k + i] /\ k + i \in 1 .. Len(u)
  <2>1. CASE i <= Len(first)
    <3>1. i \in 1 .. Len(first)
      BY <1>3, <2>1
    <3> QED
      BY <1>1, <1>2, <1>4, <1>5, <3>1
  <2>2. CASE ~ (i <= Len(first))
    <3>1. /\ i - Len(first) \in 1 .. Len(c) /\ Len(first) + (i - Len(first)) = i
          /\ Len(s) + (i - Len(first)) = k + i
      BY <1>1, <1>2, <1>3, <1>5, <2>2
    <3>2. bytes[i] = c[i - Len(first)] /\ u[k + i] = c[i - Len(first)]
      BY <1>1, <1>5, <3>1
    <3> QED
      BY <1>2, <1>5, <1>6, <3>2
  <2> QED
    BY <2>1, <2>2
\* Before the undecoded bytes there is no incomplete character.
<1>8. k > 0 => u[k] # "lead"
  <2> SUFFICES ASSUME k > 0 PROVE u[k] # "lead"
    OBVIOUS
  <2>1. k \in 1 .. Len(s) /\ u[k] = s[k]
    BY <1>1, <1>2
  <2>2. CASE Held(s)
    <3>1. k + 1 \in 1 .. Len(s) /\ s[k + 1] = "lead" /\ k + 1 > 1 /\ (k + 1) - 1 = k
      BY <1>2, <2>1, <2>2
    <3>2. s[k] # "lead"
      BY <3>1 DEF Good
    <3> QED
      BY <2>1, <3>2
  <2>3. CASE ~Held(s)
    <3>1. k = Len(s) /\ s # <<>>
      BY <1>2, <2>1, <2>3
    <3> QED
      BY <2>1, <2>3, <3>1 DEF Held
  <2> QED
    BY <2>2, <2>3
<1>9. (\A i \in 1 .. n : bytes[i] = "tail" <=> i > 1 /\ bytes[i - 1] = "lead") <=> Good(u)
  <2>1. ASSUME NEW i \in 1 .. n
        PROVE  /\ k + i \in 1 .. Len(u) /\ bytes[i] = u[k + i]
               /\ i > 1 /\ bytes[i - 1] = "lead" <=> k + i > 1 /\ u[(k + i) - 1] = "lead"
    <3>1. CASE i = 1
      <4>1. (k + i) - 1 = k /\ ~ (i > 1)
        BY <1>2, <3>1
      <4>2. ~ (k + i > 1 /\ u[(k + i) - 1] = "lead")
        BY <1>2, <1>8, <3>1, <4>1
      <4> QED
        BY <1>7, <4>1, <4>2
    <3>2. CASE i # 1
      <4>1. i - 1 \in 1 .. n /\ k + (i - 1) = (k + i) - 1 /\ i > 1 /\ k + i > 1
        BY <1>2, <1>5, <3>2
      <4> QED
        BY <1>7, <4>1
    <3> QED
      BY <3>1, <3>2
  <2>2. ASSUME NEW j \in 1 .. Len(u), j <= k PROVE u[j] = "tail" <=> j > 1 /\ u[j - 1] = "lead"
    <3>1. j \in 1 .. Len(s) /\ (j > 1 => j - 1 \in 1 .. Len(s))
      BY <1>1, <1>2, <2>2
    <3>2. s[j] = "tail" <=> j > 1 /\ s[j - 1] = "lead"
      BY <3>1 DEF Good
    <3> QED
      BY <1>1, <3>1, <3>2
  <2>3. ASSUME NEW j \in 1 .. Len(u), ~ (j <= k) PROVE j - k \in 1 .. n /\ k + (j - k) = j
    BY <1>2, <1>5, <1>6, <2>3
  <2>4. ASSUME \A i \in 1 .. n : bytes[i] = "tail" <=> i > 1 /\ bytes[i - 1] = "lead"
        PROVE  Good(u)
    <3> SUFFICES ASSUME NEW j \in 1 .. Len(u)
                 PROVE  u[j] = "tail" <=> j > 1 /\ u[j - 1] = "lead"
      BY DEF Good
    <3>1. CASE j <= k
      BY <2>2, <3>1
    <3>2. CASE ~ (j <= k)
      <4>1. j - k \in 1 .. n /\ k + (j - k) = j
        BY <2>3, <3>2
      <4> QED
        BY <2>1, <2>4, <4>1
    <3> QED
      BY <3>1, <3>2
  <2>5. ASSUME Good(u), NEW i \in 1 .. n
        PROVE  bytes[i] = "tail" <=> i > 1 /\ bytes[i - 1] = "lead"
    BY <2>1, <2>5 DEF Good
  <2> QED
    BY <2>4, <2>5
<1>10. complete \in Nat /\ complete <= n /\ k + complete = TextLen(u)
       /\ (complete < n <=> Held(u))
  <2>1. CASE n > 0
    <3>1. n \in 1 .. n /\ bytes[n] = u[Len(u)] /\ u # <<>>
      BY <1>2, <1>5, <1>6, <1>7, <2>1
    <3>2. Held(u) <=> bytes[n] = "lead"
      BY <3>1 DEF Held
    <3>3. complete = IF Held(u) THEN n - 1 ELSE n
      BY <2>1, <3>2
    <3>4. TextLen(u) = IF Held(u) THEN Len(u) - 1 ELSE Len(u)
      BY DEF TextLen
    <3> HIDE DEF complete, n
    <3>5. CASE Held(u)
      BY <1>2, <1>5, <1>6, <2>1, <3>3, <3>4, <3>5
    <3>6. CASE ~Held(u)
      BY <1>2, <1>5, <1>6, <2>1, <3>3, <3>4, <3>6
    <3> QED
      BY <3>5, <3>6
  <2>2. CASE ~ (n > 0)
    <3>1. n = 0 /\ Len(first) = 0 /\ Len(c) = 0 /\ k = Len(s) /\ Len(u) = Len(s)
      BY <1>1, <1>2, <1>3, <1>5, <2>2
    <3>2. ~Held(u)
      <4>1. CASE k = 0
        <5>1. Len(u) = 0 /\ u = <<>>
          BY <1>1, <3>1, <4>1, EmptySeq DEF ByteStrings
        <5> QED
          BY <5>1 DEF Held
      <4>2. CASE k # 0
        BY <1>2, <1>8, <3>1, <4>2 DEF Held
      <4> QED
        BY <4>1, <4>2
    <3>3. complete = n
      BY <2>2
    <3>4. TextLen(u) = Len(u)
      BY <3>2 DEF TextLen
    <3> HIDE DEF complete, n
    <3> QED
      BY <1>2, <1>5, <1>6, <3>2, <3>3, <3>4
  <2> QED
    BY <2>1, <2>2
<1> HIDE DEF complete
<1>11. /\ chars \in ByteStrings /\ Len(chars) = complete
       /\ \A i \in 1 .. complete : chars[i] = bytes[i]
  <2>1. \A i \in 1 .. complete : bytes[i] \in Bytes
    BY <1>5, <1>10, ElementOfSeq DEF ByteStrings
  <2>2. /\ chars \in Seq(Bytes) /\ Len(chars) = IF 1 <= complete THEN complete - 1 + 1 ELSE 0
        /\ \A i \in 1 .. complete - 1 + 1 : chars[i] = bytes[1 + i - 1]
    BY <1>10, <2>1, SubSeqProperties
  <2> HIDE DEF chars
  <2>3. Len(chars) = complete
    BY <1>10, <2>2
  <2>4. ASSUME NEW i \in 1 .. complete PROVE chars[i] = bytes[i]
    <3>1. i \in 1 .. complete - 1 + 1 /\ 1 + i - 1 = i
      BY <1>10
    <3> QED
      BY <2>2, <3>1
  <2> QED
    BY <2>2, <2>3, <2>4 DEF ByteStrings
<1> HIDE DEF chars, n
<1>12. Text(u) = Text(s) \o chars
  <2>1. /\ Text(u) \in ByteStrings /\ Len(Text(u)) = k + complete
        /\ \A i \in 1 .. k + complete : Text(u)[i] = u[i]
    BY <1>1, <1>10, TextIs
  <2>2. Text(s) \in ByteStrings /\ Len(Text(s)) = k /\ \A i \in 1 .. k : Text(s)[i] = s[i]
    BY TextIs DEF k
  <2> DEFINE w == Text(s) \o chars
  <2>3. /\ w \in ByteStrings /\ Len(w) = k + complete
        /\ \A i \in 1 .. k : w[i] = Text(s)[i]
        /\ \A i \in 1 .. complete : w[k + i] = chars[i]
    BY <1>11, <2>2, Joining
  <2> HIDE DEF w
  <2>4. ASSUME NEW i \in 1 .. Len(Text(u)) PROVE Text(u)[i] = w[i]
    <3>1. Text(u)[i] = u[i] /\ i \in 1 .. k + complete
      BY <2>1
    <3>2. CASE i <= k
      <4>1. i \in 1 .. k /\ i \in 1 .. Len(s)
        BY <1>1, <1>2, <3>1, <3>2
      <4> QED
        BY <1>1, <2>2, <2>3, <3>1, <4>1
    <3>3. CASE ~ (i <= k)
      <4>1. i - k \in 1 .. complete /\ k + (i - k) = i /\ i - k \in 1 .. n
        BY <1>2, <1>5, <1>10, <3>1, <3>3
      <4>2. w[i] = bytes[i - k] /\ u[i] = bytes[i - k]
        BY <1>7, <1>11, <2>3, <4>1
      <4> QED
        BY <3>1, <4>2
    <3> QED
      BY <3>2, <3>3
  <2>5. Text(u) = w
    BY <2>1, <2>3, <2>4, SeqEqual DEF ByteStrings
  <2> QED
    BY <2>5 DEF w
<1>13. /\ Utf8(Held(s), c).sound <=>
            (\A i \in 1 .. n : bytes[i] = "tail" <=> i > 1 /\ bytes[i - 1] = "lead")
       /\ Utf8(Held(s), c).held = (complete < n)
       /\ Utf8(Held(s), c).chars = chars
  BY DEF Utf8, n, bytes, first, complete, chars
<1>14. Held(u) \in BOOLEAN
  BY DEF Held
<1>15. Utf8(Held(s), c).held = Held(u)
  BY <1>10, <1>13, <1>14
<1> QED
  BY <1>9, <1>11, <1>12, <1>13, <1>15 DEF u

-----------------------------------------------------------------------------
(* Any chunks *)

\* The rest of a longer text.
LEMMA RestGrows ==
  ASSUME NEW t \in ByteStrings, NEW c \in ByteStrings, NEW p \in 0 .. Len(t)
  PROVE  Rest(t, p) \o c = Rest(t \o c, p)
<1> DEFINE u == t \o c
           a == Rest(t, p) \o c
           b == Rest(u, p)
<1>1. /\ u \in ByteStrings /\ Len(u) = Len(t) + Len(c) /\ Len(t) \in Nat /\ Len(c) \in Nat
      /\ \A i \in 1 .. Len(t) : u[i] = t[i]
      /\ \A i \in 1 .. Len(c) : u[Len(t) + i] = c[i]
      /\ p \in Nat /\ p <= Len(t)
  BY Joining
<1>2. /\ Rest(t, p) \in ByteStrings /\ Len(Rest(t, p)) = Len(t) - p
      /\ \A i \in 1 .. Len(t) - p : Rest(t, p)[i] = t[p + i]
  BY RestIs
<1>3. /\ a \in ByteStrings /\ Len(a) = Len(t) - p + Len(c)
      /\ \A i \in 1 .. Len(t) - p : a[i] = Rest(t, p)[i]
      /\ \A i \in 1 .. Len(c) : a[Len(t) - p + i] = c[i]
  <2> DEFINE r == Rest(t, p)
  <2>1. r \in ByteStrings /\ Len(r) = Len(t) - p
    BY <1>2
  <2> HIDE DEF r
  <2>2. /\ r \o c \in ByteStrings /\ Len(r \o c) = Len(r) + Len(c)
        /\ \A i \in 1 .. Len(r) : (r \o c)[i] = r[i]
        /\ \A i \in 1 .. Len(c) : (r \o c)[Len(r) + i] = c[i]
    BY <2>1, Joining
  <2>3. a = r \o c
    BY DEF r
  <2> HIDE DEF a
  <2>4. /\ a \in ByteStrings /\ Len(a) = Len(t) - p + Len(c)
        /\ \A i \in 1 .. Len(t) - p : a[i] = r[i]
        /\ \A i \in 1 .. Len(c) : a[Len(t) - p + i] = c[i]
    BY <2>1, <2>2, <2>3
  <2> QED
    BY <2>4 DEF r
<1> HIDE DEF u
<1>4. /\ b \in ByteStrings /\ Len(b) = Len(u) - p
      /\ \A i \in 1 .. Len(u) - p : b[i] = u[p + i]
  <2>1. p \in 0 .. Len(u)
    BY <1>1
  <2> QED
    BY <1>1, <2>1, RestIs
<1> HIDE DEF a, b
<1>5. ASSUME NEW i \in 1 .. Len(a) PROVE a[i] = b[i]
  <2>1. i \in 1 .. Len(u) - p /\ b[i] = u[p + i]
    BY <1>1, <1>3, <1>4
  <2>2. CASE i <= Len(t) - p
    <3>1. i \in 1 .. Len(t) - p /\ p + i \in 1 .. Len(t)
      BY <1>1, <2>1, <2>2
    <3> QED
      BY <1>1, <1>2, <1>3, <2>1, <3>1
  <2>3. CASE ~ (i <= Len(t) - p)
    <3> DEFINE k == i - (Len(t) - p)
    <3>1. k \in 1 .. Len(c) /\ Len(t) - p + k = i /\ Len(t) + k = p + i
      <4>1. i \in Nat /\ i <= Len(u) - p /\ Len(u) = Len(t) + Len(c) /\ i > Len(t) - p
        BY <1>1, <2>1, <2>3
      <4>2. k \in Int /\ k > 0 /\ k <= Len(c)
        BY <1>1, <4>1
      <4>3. Len(t) - p + k = i /\ Len(t) + k = p + i
        BY <1>1, <4>1
      <4> QED
        BY <1>1, <4>2, <4>3
    <3> HIDE DEF k
    <3>2. a[i] = c[k] /\ u[p + i] = c[k]
      BY <1>1, <1>3, <3>1
    <3> QED
      BY <2>1, <3>2
  <2> QED
    BY <2>2, <2>3
<1>6. Len(a) = Len(b)
  BY <1>1, <1>3, <1>4
<1>7. a = b
  BY <1>3, <1>4, <1>5, <1>6, SeqEqual DEF ByteStrings
<1> QED
  BY <1>7 DEF a, b, u

\* A decoder that has met bytes that are no UTF-8.
Failed(d) ==
  \E held, buffer, lines, events :
    d = [held |-> held, buffer |-> buffer, data_lines |-> lines, events |-> events,
         sound |-> FALSE]

\* The decoder after the bytes of s, in whatever chunks they came.
Decoded(d, s) ==
  IF Good(s) THEN \E p : IsLast(Text(s), p) /\ d = Decoder(Held(s), Rest(Text(s), p), Text(s), p)
  ELSE Failed(d)

\* At first the decoder has had no bytes.
LEMMA NewDecoded == Decoded(NewDecoder, <<>>)
<1>1. <<>> \in ByteStrings /\ Len(<<>>) = 0 /\ Good(<<>>) /\ ~Held(<<>>)
  BY DEF ByteStrings, Good, Held
<1>2. Text(<<>>) \in ByteStrings /\ Len(Text(<<>>)) = 0
  BY <1>1, TextIs
<1>3. Text(<<>>) = <<>>
  BY <1>2, EmptySeq DEF ByteStrings
<1>4. Newlines(<<>>) = {} /\ Ends(<<>>) = {1}
  BY <1>1 DEF Newlines, Ends
<1>5. IsLast(<<>>, 0)
  BY <1>4 DEF IsLast, Starts
<1>6. Rest(<<>>, 0) \in ByteStrings /\ Len(Rest(<<>>, 0)) = 0
  BY <1>1, RestIs
<1>7. Rest(<<>>, 0) = <<>>
  BY <1>6, EmptySeq DEF ByteStrings
<1>8. Pend(<<>>, 0) = {} /\ Done(<<>>, 0) = {}
  BY <1>4 DEF Pend, Done
<1>9. NewDecoder = Decoder(FALSE, <<>>, <<>>, 0)
  BY <1>8, PayloadsOfNone DEF NewDecoder, Decoder
<1>10. Held(<<>>) = FALSE
  BY <1>1
<1> QED
  BY <1>1, <1>3, <1>5, <1>7, <1>9, <1>10 DEF Decoded

\* A decoder that fails stays what it is otherwise.
LEMMA Fails ==
  ASSUME NEW d, Failed(d) \/ \E held, buffer, t, p : d = Decoder(held, buffer, t, p)
  PROVE  Failed([d EXCEPT !.sound = FALSE])
<1>1. PICK held, buffer, lines, events, sound :
        d = [held |-> held, buffer |-> buffer, data_lines |-> lines, events |-> events,
             sound |-> sound]
  BY DEF Failed, Decoder
<1>2. ASSUME NEW e, e = [d EXCEPT !.sound = FALSE]
      PROVE  e = [held |-> held, buffer |-> buffer, data_lines |-> lines, events |-> events,
                  sound |-> FALSE]
  BY <1>1, <1>2
<1> QED
  BY <1>2 DEF Failed

\* One chunk more.
LEMMA AcceptDecoded ==
  ASSUME NEW s \in ByteStrings, NEW c \in ByteStrings, NEW d, Decoded(d, s)
  PROVE  Decoded(accept(d, c), s \o c)
<1> DEFINE u == s \o c
           decoded == Utf8(d.held, c)
<1>1. accept(d, c) = IF ~d.sound \/ ~decoded.sound THEN [d EXCEPT !.sound = FALSE]
                     ELSE Lines([d EXCEPT !.held = decoded.held,
                                          !.buffer = @ \o decoded.chars])
  BY DEF accept
<1>2. ASSUME ~Good(s) PROVE ~Good(u)
  <2>1. /\ Len(u) = Len(s) + Len(c) /\ Len(s) \in Nat /\ Len(c) \in Nat
        /\ \A i \in 1 .. Len(s) : u[i] = s[i]
    BY Joining
  <2> HIDE DEF u
  <2> SUFFICES ASSUME Good(u), NEW i \in 1 .. Len(s)
               PROVE  s[i] = "tail" <=> i > 1 /\ s[i - 1] = "lead"
    BY <1>2 DEF Good
  <2>2. i \in 1 .. Len(u) /\ (i > 1 => i - 1 \in 1 .. Len(s))
    BY <2>1
  <2> QED
    BY <2>1, <2>2 DEF Good
<1>3. CASE ~Good(s)
  <2>1. Failed(d)
    BY <1>3 DEF Decoded
  <2>2. ~d.sound
    BY <2>1 DEF Failed
  <2>3. Failed(accept(d, c))
    BY <1>1, <2>1, <2>2, Fails
  <2> QED
    BY <1>2, <1>3, <2>3 DEF Decoded
<1>4. CASE Good(s)
  <2> DEFINE t == Text(s)
  <2>1. PICK p : IsLast(t, p) /\ d = Decoder(Held(s), Rest(t, p), t, p)
    BY <1>4 DEF Decoded
  <2>2. d.held = Held(s) /\ d.sound = TRUE
    BY <2>1 DEF Decoder
  <2> DEFINE chars == decoded.chars
  <2>3. /\ decoded.sound <=> Good(u) /\ decoded.held = Held(u)
    BY <1>4, <2>2, Utf8Is
  <2>4. decoded.held = Held(u) /\ chars \in ByteStrings /\ Text(u) = t \o chars
    BY <1>4, <2>2, Utf8Is
  <2>5. t \in ByteStrings
    BY TextIs
  <2>6. CASE ~Good(u)
    <3>1. ~decoded.sound
      BY <1>4, <2>2, <2>6, Utf8Is
    <3>2. Failed(accept(d, c))
      BY <1>1, <2>1, <3>1, Fails
    <3> QED
      BY <2>6, <3>2 DEF Decoded
  <2>7. CASE Good(u)
    <3>1. decoded.sound
      BY <1>4, <2>2, <2>7, Utf8Is
    <3>2. accept(d, c) = Lines([d EXCEPT !.held = decoded.held, !.buffer = @ \o chars])
      BY <1>1, <2>2, <3>1
    <3> HIDE DEF decoded, chars, t, u
    <3>3. ASSUME NEW e, e = [d EXCEPT !.held = decoded.held, !.buffer = @ \o chars]
          PROVE  e = Decoder(Held(u), Rest(t, p) \o chars, t, p)
      BY <2>1, <2>4, <3>3 DEF Decoder
    <3>4. p \in Starts(t) /\ p \in 0 .. Len(t)
      BY <2>1, <2>5, StartsAre DEF IsLast
    <3>5. Rest(t, p) \o chars = Rest(t \o chars, p)
      BY <2>4, <2>5, <3>4, RestGrows
    <3>6. Decoder(Held(u), Rest(t \o chars, p), t \o chars, p)
            = Decoder(Held(u), Rest(t \o chars, p), t, p)
      BY <2>4, <2>5, <3>4, DecoderStays
    <3>7. t \o chars \in ByteStrings /\ p \in Starts(t \o chars)
      <4>1. t \o chars \in ByteStrings
        BY <2>4, <2>5, Joining
      <4>2. p \in Nat /\ p <= Len(t) /\ (p = 0 \/ p \in Newlines(t))
        BY <2>5, <3>4, StartsAre DEF Starts
      <4> QED
        BY <2>4, <2>5, <4>1, <4>2, LongerLines DEF Starts
    <3>8. accept(d, c) = Lines(Decoder(Held(u), Rest(t \o chars, p), t \o chars, p))
      BY <3>2, <3>3, <3>5, <3>6
    <3>9. \E q : /\ IsLast(t \o chars, q)
                 /\ accept(d, c) = Decoder(Held(u), Rest(t \o chars, q), t \o chars, q)
      BY <3>7, <3>8, LinesIs
    <3> QED
      BY <2>4, <2>7, <3>9 DEF Decoded, u
  <2> QED
    BY <2>6, <2>7
<1> QED
  BY <1>3, <1>4

-----------------------------------------------------------------------------
(* The end of the stream *)

\* The events of a text are what was yielded, and what is pending at its end.
LEMMA EventsAre ==
  ASSUME NEW t \in ByteStrings, NEW p, NEW held, IsLast(t, p)
  PROVE  Yield(consume(Decoder(held, Rest(t, p), t, p), Rest(t, p))).events = EventsOf(t)
<1> DEFINE e == Len(t) + 1
           s == Decoder(held, Rest(t, p), t, e)
<1>1. Len(t) \in Nat /\ e \in Ends(t) /\ e \in Nat /\ e - 1 = Len(t)
  BY EndsAreNumbers DEF Ends
<1>2. Follows(t, p, e)
  <2>1. p \in Starts(t) /\ p \in Nat /\ p <= Len(t)
    BY StartsAre DEF IsLast
  <2>2. \A i \in Newlines(t) : i \in Nat /\ i <= p
    BY EndsAreNumbers DEF IsLast
  <2> QED
    BY <1>1, <2>1, <2>2 DEF Follows, Starts
<1>3. SubSeq(t, p + 1, e - 1) = Rest(t, p)
  BY <1>1 DEF Rest
<1>4. consume(Decoder(held, Rest(t, p), t, p), SubSeq(t, p + 1, e - 1)) = s
  BY <1>2, Consumed
<1>5. /\ Done(t, e) \subseteq Ends(t) /\ Pend(t, e) \subseteq Ends(t)
      /\ Ordered(Done(t, e)) /\ Ordered(Pend(t, e))
  <2>1. Done(t, e) \subseteq Ends(t) /\ Pend(t, e) \subseteq Ends(t)
    BY DEF Done, Pend
  <2> QED
    BY <2>1, AllOrdered
<1>6. s.data_lines = Payloads(t, Pend(t, e)) /\ s.events = Events(t, Done(t, e))
  BY DEF Decoder
<1>7. \A i \in Ends(t) : i <= e /\ i \in Nat
  BY <1>1, EndsAreNumbers
<1>8. EventsOf(t) = Events(t, EventEnds(t))
  BY DEF EventsOf, Events
<1> HIDE DEF e, s
<1>9. EventEnds(t) = {i \in Ends(t) : (IsBlank(t, i) \/ i = e) /\ Block(t, i) # {}}
  BY DEF EventEnds, e
<1>10. CASE Pend(t, e) = {}
  <2>1. s.data_lines = <<>>
    BY <1>6, <1>10, PayloadsOfNone
  <2>2. Yield(s).events = Events(t, Done(t, e))
    BY <1>6, <2>1 DEF Yield
  <2>3. IsBlank(t, e) \/ Block(t, e) = {}
    BY <1>2, <1>10, LineOfData, LineIgnored
  <2>4. EventEnds(t) = Done(t, e)
    BY <1>7, <1>9, <2>3 DEF Done
  <2> QED
    BY <1>3, <1>4, <1>8, <2>2, <2>4
<1>11. CASE Pend(t, e) # {}
  <2>1. s.data_lines # <<>>
    BY <1>5, <1>6, <1>11, PayloadsOfNone
  <2>2. Yield(s).events = Append(Events(t, Done(t, e)), Payloads(t, Pend(t, e)))
    <3>1. ASSUME NEW y, y = [s EXCEPT !.events = Append(@, s.data_lines), !.data_lines = <<>>]
          PROVE  y.events = Append(s.events, s.data_lines)
      BY <3>1 DEF s, Decoder
    <3>2. Yield(s) = [s EXCEPT !.events = Append(@, s.data_lines), !.data_lines = <<>>]
      BY <2>1 DEF Yield
    <3> QED
      BY <1>6, <3>1, <3>2
  <2>3. ~IsBlank(t, e) /\ Block(t, e) = Pend(t, e)
    BY <1>2, <1>11, LineBlank, LineOfData, LineIgnored
  <2>4. Event(t, e) = Payloads(t, Pend(t, e))
    BY <2>3 DEF Event, Payloads
  <2>5. \A i \in Done(t, e) : i < e
    <3>1. e \notin Done(t, e)
      BY <2>3 DEF Done
    <3>2. \A i \in Done(t, e) : i # e /\ i <= e /\ i \in Nat
      BY <1>5, <1>7, <3>1
    <3> QED
      BY <1>1, <3>2
  <2>6. Events(t, Done(t, e) \union {e}) = Append(Events(t, Done(t, e)), Event(t, e))
    BY <1>1, <1>5, <2>5, PayloadsNext
  <2>7. EventEnds(t) = Done(t, e) \union {e}
    BY <1>1, <1>7, <1>9, <1>11, <2>3 DEF Done
  <2> QED
    BY <1>3, <1>4, <1>8, <2>2, <2>4, <2>6, <2>7
<1> QED
  BY <1>10, <1>11

\* What is yielded at the end.
LEMMA CloseIs ==
  ASSUME NEW s \in ByteStrings, NEW d, Decoded(d, s)
  PROVE  /\ IsUtf8(s) => close(d).events = EventsOf(s)
         /\ ~IsUtf8(s) => ~close(d).sound
<1>1. IsUtf8(s) <=> Good(s) /\ ~Held(s)
  BY DEF IsUtf8, Good, Held
<1>2. ASSUME NEW e, Failed(e) PROVE ~e.sound
  BY <1>2 DEF Failed
<1>3. CASE ~Good(s)
  <2>1. Failed(d) /\ ~d.sound
    BY <1>2, <1>3 DEF Decoded
  <2>2. close(d) = [d EXCEPT !.sound = FALSE]
    BY <2>1 DEF close
  <2> QED
    BY <1>1, <1>2, <1>3, <2>1, <2>2, Fails
<1>4. CASE Good(s)
  <2> DEFINE t == Text(s)
  <2>1. PICK p : IsLast(t, p) /\ d = Decoder(Held(s), Rest(t, p), t, p)
    BY <1>4 DEF Decoded
  <2>2. d.held = Held(s) /\ d.sound = TRUE /\ d.buffer = Rest(t, p)
    BY <2>1 DEF Decoder
  <2>3. CASE Held(s)
    <3>1. close(d) = [d EXCEPT !.sound = FALSE]
      BY <2>2, <2>3 DEF close
    <3>2. Failed(close(d))
      BY <2>1, <3>1, Fails
    <3> QED
      BY <1>1, <1>2, <2>3, <3>2
  <2>4. CASE ~Held(s)
    <3>1. close(d) = Yield(IF d.buffer = <<>> THEN d ELSE consume(d, d.buffer))
      BY <2>2, <2>4 DEF close
    <3>2. t = s
      <4>1. t \in ByteStrings /\ Len(t) = Len(s) /\ \A i \in 1 .. Len(s) : t[i] = s[i]
        BY <2>4, TextIs
      <4> HIDE DEF t
      <4> QED
        BY <4>1, SeqEqual DEF ByteStrings
    <3>3. close(d) = Yield(consume(d, d.buffer))
      <4>1. CASE d.buffer = <<>>
        <5>1. WithoutCR(<<>>) = <<>>
          BY DEF WithoutCR
        <5>2. consume(d, d.buffer) = Yield(d)
          BY <4>1, <5>1 DEF consume
        <5>3. Yield(Yield(d)) = Yield(d)
          <6>1. CASE d.data_lines = <<>>
            BY <6>1 DEF Yield
          <6>2. CASE d.data_lines # <<>>
            <7>1. ASSUME NEW y,
                         y = [d EXCEPT !.events = Append(@, d.data_lines), !.data_lines = <<>>]
                  PROVE  y.data_lines = <<>>
              BY <2>1, <7>1 DEF Decoder
            <7>2. Yield(d) = [d EXCEPT !.events = Append(@, d.data_lines), !.data_lines = <<>>]
              BY <6>2 DEF Yield
            <7>3. Yield(d).data_lines = <<>>
              BY <7>1, <7>2
            <7> QED
              BY <7>3 DEF Yield
          <6> QED
            BY <6>1, <6>2
        <5> QED
          BY <3>1, <4>1, <5>2, <5>3
      <4>2. CASE d.buffer # <<>>
        BY <3>1, <4>2
      <4> QED
        BY <4>1, <4>2
    <3>4. s \in ByteStrings /\ IsLast(s, p) /\ d = Decoder(Held(s), Rest(s, p), s, p)
      BY <2>1, <3>2
    <3>5. close(d).events = EventsOf(s)
      BY <2>2, <3>2, <3>3, <3>4, EventsAre
    <3> QED
      BY <1>1, <1>4, <2>4, <3>5
  <2> QED
    BY <2>3, <2>4
<1> QED
  BY <1>3, <1>4

\* The states after k chunks, and the bytes of k chunks.
Chunked(d, s, chunks, n) ==
  /\ d[0] = NewDecoder /\ s[0] = <<>>
  /\ \A k \in 0 .. n - 1 : /\ d[k + 1] = accept(d[k], chunks[k + 1])
                           /\ s[k + 1] = s[k] \o chunks[k + 1]

\* iter_sse_data yields the events of the whole stream, in however many chunks
\* it comes and wherever they are cut, and it ends a stream that is no UTF-8.
THEOREM AnyChunks ==
  ASSUME NEW n \in Nat, NEW chunks \in [1 .. n -> ByteStrings], NEW d, NEW s,
         Chunked(d, s, chunks, n)
  PROVE  /\ IsUtf8(s[n]) => close(d[n]).events = EventsOf(s[n])
         /\ ~IsUtf8(s[n]) => ~close(d[n]).sound
<1> DEFINE S == {k \in Nat : k <= n => s[k] \in ByteStrings /\ Decoded(d[k], s[k])}
<1>1. 0 \in S
  <2>1. <<>> \in ByteStrings
    BY DEF ByteStrings
  <2> QED
    BY <2>1, NewDecoded DEF Chunked
<1>2. ASSUME NEW k \in Nat, k \in S PROVE k + 1 \in S
  <2> SUFFICES ASSUME k + 1 <= n PROVE s[k + 1] \in ByteStrings /\ Decoded(d[k + 1], s[k + 1])
    OBVIOUS
  <2>1. k \in 0 .. n - 1 /\ k + 1 \in 1 .. n /\ k <= n
    OBVIOUS
  <2>2. chunks[k + 1] \in ByteStrings /\ s[k] \in ByteStrings /\ Decoded(d[k], s[k])
    BY <1>2, <2>1
  <2>3. d[k + 1] = accept(d[k], chunks[k + 1]) /\ s[k + 1] = s[k] \o chunks[k + 1]
    BY <2>1 DEF Chunked
  <2>4. s[k] \o chunks[k + 1] \in ByteStrings
    BY <2>2, Joining
  <2>5. Decoded(accept(d[k], chunks[k + 1]), s[k] \o chunks[k + 1])
    BY <2>2, AcceptDecoded
  <2> QED
    BY <2>3, <2>4, <2>5
<1> HIDE DEF S
<1>3. n \in S
  BY <1>1, <1>2, AllNaturals
<1>4. s[n] \in ByteStrings /\ Decoded(d[n], s[n])
  BY <1>3 DEF S
<1> QED
  BY <1>4, CloseIs

\* No cut damages a stream.
LEMMA NothingDamaged == Damaged = {}
<1> SUFFICES ASSUME NEW stream \in Streams, NEW i \in 0 .. Len(stream)
             PROVE  Survives(stream, i)
  BY DEF Damaged
<1>1. stream \in ByteStrings
  <2>1. PICK n \in 0 .. MaxStream : stream \in [1 .. n -> Bytes]
    BY DEF Streams
  <2>2. n \in Nat
    BY <2>1, StreamIsBounded
  <2> QED
    BY <2>1, <2>2, SeqDef DEF ByteStrings
<1> DEFINE a == SubSeq(stream, 1, i)
           b == SubSeq(stream, i + 1, Len(stream))
           cut == accept(accept(NewDecoder, a), b)
           whole == accept(NewDecoder, stream)
<1>2. Len(stream) \in Nat /\ i \in Nat /\ i <= Len(stream)
  BY <1>1 DEF ByteStrings
<1>3. /\ a \in ByteStrings /\ b \in ByteStrings /\ <<>> \in ByteStrings
      /\ a \o b = stream /\ <<>> \o a = a /\ <<>> \o stream = stream
  <2>1. b \in ByteStrings
    BY <1>1, RestIs DEF Rest
  <2>2. a \in ByteStrings
    <3>1. \A j \in 1 .. i : stream[j] \in Bytes
      BY <1>1, <1>2, ElementOfSeq DEF ByteStrings
    <3> QED
      BY <1>2, <3>1, SubSeqProperties DEF ByteStrings
  <2>3. a \o b = stream
    <3>1. Len(a) = i /\ \A j \in 1 .. i : a[j] = stream[j]
      <4>1. \A j \in 1 .. i : stream[j] \in Bytes
        BY <1>1, <1>2, ElementOfSeq DEF ByteStrings
      <4>2. /\ Len(a) = IF 1 <= i THEN i - 1 + 1 ELSE 0
            /\ \A j \in 1 .. i - 1 + 1 : a[j] = stream[1 + j - 1]
        BY <1>2, <4>1, SubSeqProperties
      <4> HIDE DEF a
      <4>3. ASSUME NEW j \in 1 .. i PROVE a[j] = stream[j]
        <5>1. j \in 1 .. i - 1 + 1 /\ 1 + j - 1 = j
          BY <1>2
        <5> QED
          BY <4>2, <5>1
      <4> QED
        BY <1>2, <4>2, <4>3
    <3>2. Len(b) = Len(stream) - i /\ \A j \in 1 .. Len(stream) - i : b[j] = stream[i + j]
      BY <1>1, RestIs DEF Rest
    <3> HIDE DEF a, b
    <3> DEFINE w == a \o b
    <3>3. /\ w \in ByteStrings /\ Len(w) = Len(a) + Len(b)
          /\ \A j \in 1 .. Len(a) : w[j] = a[j]
          /\ \A j \in 1 .. Len(b) : w[Len(a) + j] = b[j]
      BY <2>1, <2>2, Joining
    <3> HIDE DEF w
    <3>4. Len(w) = Len(stream)
      BY <1>2, <3>1, <3>2, <3>3
    <3>5. ASSUME NEW j \in 1 .. Len(w) PROVE w[j] = stream[j]
      <4>1. CASE j <= i
        <5>1. j \in 1 .. i
          BY <1>2, <4>1
        <5> QED
          BY <3>1, <3>3, <5>1
      <4>2. CASE ~ (j <= i)
        <5>1. j - i \in 1 .. Len(stream) - i /\ i + (j - i) = j
          BY <1>2, <3>4, <4>2
        <5> QED
          <6>1. b[j - i] = stream[j] /\ j - i \in 1 .. Len(b)
            BY <3>2, <5>1
          <6>2. w[Len(a) + (j - i)] = b[j - i]
            BY <3>3, <6>1
          <6>3. Len(a) + (j - i) = j
            BY <3>1, <5>1
          <6> QED
            BY <6>1, <6>2, <6>3
      <4> QED
        BY <4>1, <4>2
    <3>6. w = stream
      BY <1>1, <3>3, <3>4, <3>5, SeqEqual DEF ByteStrings
    <3> QED
      BY <3>6 DEF w
  <2> QED
    <3>1. <<>> \in ByteStrings
      BY DEF ByteStrings
    <3>2. \A q \in Seq(Bytes) : <<>> \o q = q
      BY ConcatEmptySeq
    <3> HIDE DEF a, b
    <3> QED
      BY <1>1, <2>1, <2>2, <2>3, <3>1, <3>2 DEF ByteStrings
<1> HIDE DEF a, b
<1>4. Decoded(cut, stream) /\ Decoded(whole, stream)
  <2>1. Decoded(accept(NewDecoder, a), a)
    BY <1>3, NewDecoded, AcceptDecoded
  <2>2. Decoded(cut, stream)
    BY <1>3, <2>1, AcceptDecoded
  <2>3. Decoded(whole, stream)
    BY <1>1, <1>3, NewDecoded, AcceptDecoded
  <2> QED
    BY <2>2, <2>3
<1> HIDE DEF cut, whole
<1>5. ASSUME IsUtf8(stream) PROVE cut = whole
  <2>1. Good(stream)
    BY <1>5 DEF IsUtf8, Good
  <2>2. Text(stream) \in ByteStrings
    BY <1>1, TextIs
  <2> QED
    BY <1>4, <2>1, <2>2, LastIsOne DEF Decoded
<1>6. Survives(stream, i) <=> IF IsUtf8(stream)
                              THEN cut = whole /\ close(cut).events = EventsOf(stream)
                              ELSE ~close(cut).sound
  BY DEF Survives, cut, whole, a, b
<1> QED
  BY <1>1, <1>4, <1>5, <1>6, CloseIs

\* Whatever the network does to the native server's stream, iter_sse_data reads
\* the events it was sent as.
THEOREM EventsKept == Spec => []EventsSurviveCuts
<1>1. EventsSurviveCuts
  BY NothingDamaged DEF EventsSurviveCuts
<1> QED
  BY <1>1, PTL
=============================================================================
