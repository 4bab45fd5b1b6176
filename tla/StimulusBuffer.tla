--------------------------- MODULE StimulusBuffer ---------------------------
(***************************************************************************)
(* The queue half of runtime/stimuli/stimulus_buffer.py: the one list      *)
(* every channel, tool task and runtime hook appends stimuli to, and that  *)
(* the heartbeat drains.  Beside the list the buffer keeps an index (how   *)
(* much of the list the idle phase has already shown to recall) and two    *)
(* asyncio events (something new is waiting; something urgent is waiting). *)
(*                                                                         *)
(* push, drain and peek_unrecalled contain no await that suspends, so each *)
(* is one atomic step of the event loop.                                   *)
(***************************************************************************)
EXTENDS Naturals, Sequences

CONSTANTS
  Stimulus,   \* the stimuli; a record with (at least) the flag adrenalin
  MaxQueue    \* bound: the length up to which the list is explored

ASSUME StimulusAssumption == \A s \in Stimulus : s.adrenalin \in BOOLEAN
ASSUME MaxQueueAssumption == MaxQueue \in Nat

VARIABLES
  queue,            \* _queue
  recalledUpTo,     \* _recalled_up_to
  adrenalinEvent,   \* _adrenalin_event.is_set()
  newEvent          \* _new_event.is_set()

bufferVars == <<queue, recalledUpTo, adrenalinEvent, newEvent>>

-----------------------------------------------------------------------------
(* Helpers *)

Elements(seq) == {seq[i] : i \in 1..Len(seq)}

Urgent(seq) == \E i \in 1..Len(seq) : seq[i].adrenalin

-----------------------------------------------------------------------------
(* Operations *)

Init ==
  /\ queue = <<>>
  /\ recalledUpTo = 0
  /\ adrenalinEvent = FALSE
  /\ newEvent = FALSE

\* A burst of pushes with no suspension between them.
PushAll(burst) ==
  /\ queue' = queue \o burst
  /\ newEvent' = (newEvent \/ burst # <<>>)
  /\ adrenalinEvent' = (adrenalinEvent \/ Urgent(burst))
  /\ UNCHANGED recalledUpTo

Push(s) == PushAll(<<s>>)

\* Mutants of Drain: the urgent event, or the recall index, is not reset.
MutantDrainKeepsUrgency ==
  /\ queue' = <<>> /\ recalledUpTo' = 0 /\ newEvent' = FALSE
  /\ UNCHANGED adrenalinEvent

\* The caller receives Elements(queue), ordered by time stamp.
Drain ==
  /\ queue' = <<>>
  /\ recalledUpTo' = 0
  /\ adrenalinEvent' = FALSE
  /\ newEvent' = FALSE

Unrecalled == SubSeq(queue, recalledUpTo + 1, Len(queue))

\* Mutant of PeekUnrecalled: the index of the last element, not the length.
MutantPeekOffByOne ==
  /\ recalledUpTo' = Len(queue) - 1
  /\ newEvent' = FALSE
  /\ UNCHANGED <<queue, adrenalinEvent>>

\* The caller receives Unrecalled; the list itself is left alone.
PeekUnrecalled ==
  /\ recalledUpTo' = Len(queue)
  /\ newEvent' = FALSE
  /\ UNCHANGED <<queue, adrenalinEvent>>

\* The list has no bound of its own; exploring it needs one.
Operation == (\E s \in Stimulus : Push(s)) \/ Drain \/ PeekUnrecalled

Next == Operation /\ Len(queue') <= MaxQueue

Spec == Init /\ [][Next]_bufferVars

OpenSpec == Init /\ [][Operation]_bufferVars

-----------------------------------------------------------------------------
(* Properties *)

TypeOK ==
  /\ queue \in Seq(Stimulus)
  /\ recalledUpTo \in Nat
  /\ adrenalinEvent \in BOOLEAN
  /\ newEvent \in BOOLEAN

\* The urgent event, which the heartbeat reads as a boolean through
\* has_adrenalin, is set exactly while an urgent stimulus is waiting: no
\* urgent stimulus can be slept on, no wait is cut short for nothing.
AdrenalinEventExact == adrenalinEvent <=> Urgent(queue)

\* The new-stimulus event is set exactly while part of the list has not been
\* shown to recall: the idle loop wakes for every arrival, and only for one.
NewEventExact ==
  /\ recalledUpTo <= Len(queue)
  /\ newEvent <=> recalledUpTo < Len(queue)

\* Both events say what the list and the recall index say.
EventsExact == AdrenalinEventExact /\ NewEventExact
=============================================================================
