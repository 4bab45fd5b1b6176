--------------------------- MODULE LongTermMemory ---------------------------
(***************************************************************************)
(* What the memory engine promises the rest of the program                 *)
(* (engines/memory/): what has been stored stays stored, wherever sleep    *)
(* may have moved it, except what was kept as a mere FOCUS, which a sleep  *)
(* clears.                                                                 *)
(***************************************************************************)
EXTENDS FiniteSets

CONSTANT Item      \* the things one can be told

VARIABLES
  held,            \* the items stored anywhere
  passing          \* those of them stored only as a FOCUS

promiseVars == <<held, passing>>

Init == held = {} /\ passing = {}

Store(i) ==
  /\ held' = held \cup {i}
  /\ passing' \in {passing, passing \cup {i}}

\* Recategorised, or copied to where no sleep clears it.
Reconsider ==
  /\ passing' \in SUBSET held
  /\ UNCHANGED held

ClearFocus ==
  /\ held' = held \ passing
  /\ passing' = {}

Next == (\E i \in Item : Store(i)) \/ Reconsider \/ ClearFocus

Spec == Init /\ [][Next]_promiseVars
=============================================================================
