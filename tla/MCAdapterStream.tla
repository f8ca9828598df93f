-------------------------- MODULE MCAdapterStream --------------------------
(***************************************************************************)
(* AdapterStream with the shortest markers that overlap like the real ones *)
(* (<think>, </think> and the DSML calls tag): the same first character,   *)
(* the calls marker long enough to be cut twice.  The numbers of tokens    *)
(* lie on both sides of every limit.  iter_sse_data is checked beside it.  *)
(***************************************************************************)
EXTENDS AdapterStream, SseEvents

MCThinkOpen == <<"<", "t">>
MCThinkClose == <<"<", "/">>
MCCallsOpen == <<"<", "d", "d">>
MCBudgets == [low |-> 1, high |-> 3, max |-> 3]
MCAmounts == 0 .. 8

-----------------------------------------------------------------------------
(* Properties *)

\* Whenever events are read from the native server, iter_sse_data yields those
\* of the whole stream, however the network cuts it: in the middle of a
\* character, between CR and LF or inside a line.
EventsSurviveCuts == step = "read" => Damaged = {}
=============================================================================
