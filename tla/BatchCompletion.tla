-------------------------- MODULE BatchCompletion --------------------------
(***************************************************************************)
(* What the batch tracker promises the rest of the program                 *)
(* (runtime/stimuli/batch_tracker.py): calls are opened in batches, each   *)
(* is answered at most once, and the answer to the last open call, no      *)
(* other step, comes with one notice that the batch is complete.           *)
(***************************************************************************)
EXTENDS Naturals

CONSTANT Call      \* ids of the tool calls

VARIABLES
  open,            \* calls dispatched and not answered
  answered,        \* calls answered
  notices          \* how many batch_complete notices there have been

promiseVars == <<open, answered, notices>>

Init == open = {} /\ answered = {} /\ notices = 0

\* A batch joins whatever is still open: there is one barrier, not one per
\* batch.
Dispatch(batch) ==
  /\ batch \cap (open \cup answered) = {}
  /\ open' = open \cup batch
  /\ UNCHANGED <<answered, notices>>

Answer(c) ==
  /\ c \in open
  /\ open' = open \ {c}
  /\ answered' = answered \cup {c}
  /\ notices' = IF open = {c} THEN notices + 1 ELSE notices

Next ==
  \/ \E batch \in SUBSET Call : Dispatch(batch)
  \/ \E c \in Call : Answer(c)

Spec == Init /\ [][Next]_promiseVars
=============================================================================
