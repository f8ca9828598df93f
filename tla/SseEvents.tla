----------------------------- MODULE SseEvents ------------------------------
(***************************************************************************)
(* iter_sse_data of dsh_api_adapter.py: bytes in chunks of any size become *)
(* the data events of a server-sent stream.  One symbol stands for what is *)
(* never looked at in parts: "data:" for its five characters, since only a *)
(* whole line is examined.  "lead" and "tail" are the two bytes of one     *)
(* character, and stand for it in the text too.  An event is the sequence  *)
(* of its data lines, which the code joins with newlines.                  *)
(***************************************************************************)
EXTENDS Naturals, Sequences, FiniteSets

CONSTANT MaxStream   \* bound: symbols in a stream

ASSUME StreamIsBounded == MaxStream \in Nat

Bytes == {"data:", ":", " ", "CR", "LF", "lead", "tail"}

\* The decoder of iter_sse_data: the incomplete character, the incomplete line,
\* the lines of the incomplete event, what was yielded.  Bytes that are no
\* UTF-8 end it.
NewDecoder ==
  [held |-> FALSE, buffer |-> <<>>, data_lines |-> <<>>, events |-> <<>>, sound |-> TRUE]

-----------------------------------------------------------------------------
\* The characters of a chunk, and whether its last one is incomplete.
Utf8(held, chunk) ==
  LET bytes == (IF held THEN <<"lead">> ELSE <<>>) \o chunk
      n == Len(bytes)
      lead(i) == bytes[i] = "lead"
      complete == IF n > 0 /\ lead(n) THEN n - 1 ELSE n
  IN [ sound |-> \A i \in 1 .. n : bytes[i] = "tail" <=> i > 1 /\ lead(i - 1),
       held  |-> complete < n,
       chars |-> SubSeq(bytes, 1, complete) ]

WithoutCR(line) ==
  IF line # <<>> /\ line[Len(line)] = "CR" THEN SubSeq(line, 1, Len(line) - 1) ELSE line

\* What a data line says: one space after the colon is not part of it.
Payload(line) ==
  IF Len(line) > 1 /\ line[2] = " " THEN SubSeq(line, 3, Len(line)) ELSE Tail(line)

\* The pending event is yielded.
Yield(s) ==
  IF s.data_lines = <<>> THEN s
  ELSE [s EXCEPT !.events = Append(@, s.data_lines), !.data_lines = <<>>]

\* Mutant: a line that ends in CR LF is not empty.
consume_keeps_CR(s, line) ==
  IF line = <<>> THEN Yield(s)
  ELSE IF line[1] = "data:"
    THEN [s EXCEPT !.data_lines = Append(@, Payload(line))]
  ELSE s

\* consume: a line without its newline.
consume(s, line) ==
  LET bare == WithoutCR(line)
  IN IF bare = <<>> THEN Yield(s)
     ELSE IF bare[1] = "data:"
       THEN [s EXCEPT !.data_lines = Append(@, Payload(bare))]
     ELSE s

\* One round of the loop of accept: the first whole line leaves the buffer.
OneLine(s) ==
  LET newlines == {i \in 1 .. Len(s.buffer) : s.buffer[i] = "LF"}
      at == CHOOSE i \in newlines : \A j \in newlines : i <= j
  IN IF newlines = {} THEN s
     ELSE consume([s EXCEPT !.buffer = SubSeq(@, at + 1, Len(@))],
                  SubSeq(s.buffer, 1, at - 1))

\* The loop: as many rounds as the buffer has symbols are enough.
Lines(s) ==
  LET rest[n \in 0 .. Len(s.buffer)] == IF n = 0 THEN s ELSE OneLine(rest[n - 1])
  IN rest[Len(s.buffer)]

\* One chunk; a chunk with a bad byte raises before any of it is used.
accept(s, chunk) ==
  LET decoded == Utf8(s.held, chunk)
  IN IF ~s.sound \/ ~decoded.sound THEN [s EXCEPT !.sound = FALSE]
     ELSE Lines([s EXCEPT !.held = decoded.held, !.buffer = @ \o decoded.chars])

\* The end of the stream: what is pending is a line, and an event.
close(s) ==
  IF ~s.sound \/ s.held THEN [s EXCEPT !.sound = FALSE]
  ELSE Yield(IF s.buffer = <<>> THEN s ELSE consume(s, s.buffer))

-----------------------------------------------------------------------------
(* What it is for, said of the whole stream at once. *)

\* A stream of whole characters.
IsUtf8(stream) ==
  /\ \A i \in 1 .. Len(stream) : stream[i] = "tail" <=> i > 1 /\ stream[i - 1] = "lead"
  /\ stream # <<>> => stream[Len(stream)] # "lead"

\* Its lines end at its newlines, and at its end.
Newlines(chars) == {i \in 1 .. Len(chars) : chars[i] = "LF"}
Ends(chars) == Newlines(chars) \union {Len(chars) + 1}

\* The line that ends at e.
Line(chars, e) ==
  LET before == {0} \union {i \in Newlines(chars) : i < e}
      last == CHOOSE i \in before : \A j \in before : j <= i
  IN WithoutCR(SubSeq(chars, last + 1, e - 1))

IsBlank(chars, e) == Line(chars, e) = <<>>
IsData(chars, e) == Line(chars, e) # <<>> /\ Line(chars, e)[1] = "data:"

\* The data lines up to e, back to the blank line before it.
Block(chars, e) ==
  {d \in Ends(chars) : /\ d <= e /\ IsData(chars, d)
                      /\ \A b \in Ends(chars) : d < b /\ b < e => ~IsBlank(chars, b)}

\* The numbers of a set, in order.
InOrder(J) ==
  [n \in 1 .. Cardinality(J) |->
     CHOOSE j \in {j \in J : Cardinality({i \in J : i <= j}) = n} : TRUE]

Event(chars, e) ==
  LET lines == InOrder(Block(chars, e))
  IN [n \in 1 .. Len(lines) |-> Payload(Line(chars, lines[n]))]

\* A blank line ends an event, and so does the end of the text, where there are
\* data lines.
EventEnds(chars) ==
  {e \in Ends(chars) : (IsBlank(chars, e) \/ e = Len(chars) + 1) /\ Block(chars, e) # {}}
EventsOf(chars) ==
  LET ends == InOrder(EventEnds(chars))
  IN [n \in 1 .. Len(ends) |-> Event(chars, ends[n])]

Streams == UNION {[1 .. n -> Bytes] : n \in 0 .. MaxStream}

\* The events of a stream that arrives in two chunks, cut after i bytes, are
\* those of the whole stream; one that is no UTF-8 does not end as if it were.
Survives(stream, i) ==
  LET cut == accept(accept(NewDecoder, SubSeq(stream, 1, i)),
                    SubSeq(stream, i + 1, Len(stream)))
  IN IF IsUtf8(stream)
       THEN /\ cut = accept(NewDecoder, stream)
            /\ close(cut).events = EventsOf(stream)
     ELSE ~close(cut).sound

\* The streams that a cut damages.  (Two chunks are enough: what is kept of a
\* prefix does not depend on how the prefix was cut.)
Damaged == {stream \in Streams : \E i \in 0 .. Len(stream) : ~Survives(stream, i)}
=============================================================================
