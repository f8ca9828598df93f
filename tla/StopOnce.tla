------------------------------ MODULE StopOnce ------------------------------
(***************************************************************************)
(* What both stage controllers promise the operator: the benchmark is      *)
(* stopped by at most one SIGINT, sent only after the results it waits for *)
(* are saved, and never again once a controller has written down that it   *)
(* is about to send it, whatever crashes in between.  A controller may     *)
(* also renounce: what it waits for is forgotten, and no signal follows.   *)
(***************************************************************************)
EXTENDS Naturals

VARIABLES
  saved,    \* have the awaited results been saved?
  intent,   \* will nobody decide to signal any more? (the intention is on disk)
  pending,  \* is a controller between that write and the system call?
  sent      \* signals that reached a process

vars == <<saved, intent, pending, sent>>

Init ==
  /\ saved = FALSE
  /\ intent = FALSE
  /\ pending = FALSE
  /\ sent = 0

\* The runner saves what the controller waits for.
Save ==
  /\ ~saved
  /\ saved' = TRUE
  /\ UNCHANGED <<intent, pending, sent>>

\* The intention is made durable before the signal.
Commit ==
  /\ saved
  /\ ~intent
  /\ intent' = TRUE
  /\ pending' = TRUE
  /\ UNCHANGED <<saved, sent>>

Deliver ==
  /\ pending
  /\ pending' = FALSE
  /\ sent' = sent + 1
  /\ UNCHANGED <<saved, intent>>

\* The process was gone, or the controller crashed: nobody tries again.
Abandon ==
  /\ pending
  /\ pending' = FALSE
  /\ UNCHANGED <<saved, intent, sent>>

\* What was awaited is forgotten, and with it the stop.
Renounce ==
  /\ ~pending
  /\ saved' = FALSE
  /\ intent' = TRUE
  /\ UNCHANGED <<pending, sent>>

Next == Save \/ Commit \/ Deliver \/ Abandon \/ Renounce

Spec == Init /\ [][Next]_vars
=============================================================================
