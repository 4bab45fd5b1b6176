------------------------------ MODULE Dispatch ------------------------------
(***************************************************************************)
(* Tool calls from the decision of one beat to the beat that reads their   *)
(* results: engines/dispatch/dispatcher.py starts a task per call and      *)
(* registers the batch with runtime/stimuli/batch_tracker.py; each task    *)
(* looks its tool up, runs it, pushes a stimulus and marks the call        *)
(* completed; the call that empties the tracker pushes batch_complete.     *)
(*                                                                         *)
(* Tasks and the beat share one event loop.  Neither push nor              *)
(* mark_completed suspends, so "push the result, mark the call, push the   *)
(* notice" is one step.  Between a task's steps the beat goes on and       *)
(* dispatches new batches.  Whether a task finds its tool is a choice:     *)
(* Self may name one that does not exist, and a plugin reload takes tools  *)
(* out of the registry and puts them back between any two steps.           *)
(***************************************************************************)
EXTENDS Naturals, Sequences

CONSTANTS
  MaxCalls,    \* bound: tool calls over the whole run
  MayLose      \* whether a tool's execution may end without an answer

ASSUME CallsAssumption == MaxCalls \in Nat /\ MayLose \in BOOLEAN

Call == 1..MaxCalls

TaskStates == {"none", "scheduled", "executing", "lost", "done"}

VARIABLES
  queue, recalledUpTo, adrenalinEvent, newEvent,   \* rt.buffer
  beat,        \* "idle" | "thinking" | "remembering"
  issued,      \* call ids handed out so far are 1..issued
  task,        \* state of each call's asyncio task
  pending,     \* BatchTrackerChannel._pending
  read,        \* history: calls whose answer a beat has drained
  notices      \* history: batch_complete stimuli pushed

bufferVars == <<queue, recalledUpTo, adrenalinEvent, newEvent>>
trackVars  == <<pending, notices>>
vars == <<bufferVars, beat, issued, task, trackVars, read>>

\* Answers carry the call, notices how many calls had been issued by then.
Stimulus == [kind : {"answer", "batch_complete"}, call : Call,
             adrenalin : BOOLEAN]

\* Without the bound for exploration.
Buffer == INSTANCE StimulusBuffer WITH MaxQueue <- 0

Answer(c, urgent) == [kind |-> "answer", call |-> c, adrenalin |-> urgent]

Notice == [kind |-> "batch_complete", call |-> issued, adrenalin |-> TRUE]

-----------------------------------------------------------------------------
Init ==
  /\ Buffer!Init
  /\ beat = "idle"
  /\ issued = 0
  /\ task = [c \in Call |-> "none"]
  /\ pending = {}
  /\ read = {}
  /\ notices = 0

-----------------------------------------------------------------------------
(* The beat                                                                 *)

AnswersIn(seq) ==
  {seq[i].call : i \in {j \in 1..Len(seq) : seq[j].kind = "answer"}}

\* Mutant of StartBeat: the buffer is read but not emptied.
MutantStartBeatPeeks ==
  /\ beat = "idle"
  /\ beat' = "thinking"
  /\ read' = read \cup AnswersIn(queue)
  /\ Buffer!PeekUnrecalled
  /\ UNCHANGED <<issued, task, trackVars>>

\* beat() drains the buffer and thinks.
StartBeat ==
  /\ beat = "idle"
  /\ beat' = "thinking"
  /\ read' = read \cup AnswersIn(queue)
  /\ Buffer!Drain
  /\ UNCHANGED <<issued, task, trackVars>>

\* Mutants of RegisterBatch: stragglers are forgotten; an id too many.
MutantRegisterReplaces(batch) == pending' = batch

MutantRegisterOneTooMany(batch) == pending' = pending \cup batch \cup {issued' + 1}

\* A new batch joins what is still pending.
RegisterBatch(batch) == pending' = pending \cup batch

\* dispatch_tool_calls: a task per call, then register_batch; nothing
\* suspends, so no task starts before its call is registered.
DispatchToolCalls ==
  /\ beat = "thinking"
  /\ beat' = "remembering"
  /\ \E last \in issued..MaxCalls :
       LET batch == (issued + 1)..last
       IN  /\ issued' = last
           /\ task' = [c \in Call |-> IF c \in batch THEN "scheduled"
                                                     ELSE task[c]]
           /\ RegisterBatch(batch)
  /\ UNCHANGED <<bufferVars, read, notices>>

\* apply_memory_writes is over; a failing write is logged.
MemoryWritesDone ==
  /\ beat = "remembering"
  /\ beat' = "idle"
  /\ UNCHANGED <<bufferVars, issued, task, trackVars, read>>

\* The beat ends without dispatching: no decision, a sleep, a stop.
NothingDecided ==
  /\ beat = "thinking"
  /\ beat' = "idle"
  /\ UNCHANGED <<bufferVars, issued, task, trackVars, read>>

-----------------------------------------------------------------------------
(* A call's task: _dispatch_one                                             *)

MarkedIsLast(c) == pending = {c}

\* mark_completed pushes the notice when nothing is pending any more.
Completion(c) == IF MarkedIsLast(c) THEN <<Notice>> ELSE <<>>

\* Mutants of AnswerFirst: marked completed before the answer is pushed;
\* marked completed and nothing pushed.
MutantMarkFirst(c, answer) == Completion(c) \o <<answer>>

MutantAnswerDropped(c, answer) == Completion(c)

\* What the end of a task pushes, in this order.
AnswerFirst(c, answer) == <<answer>> \o Completion(c)

AnswerAndMark(c, urgent) ==
  /\ Buffer!PushAll(AnswerFirst(c, Answer(c, urgent)))
  /\ pending' = pending \ {c}
  /\ notices' = IF MarkedIsLast(c) THEN notices + 1 ELSE notices
  /\ task' = [task EXCEPT ![c] = "done"]
  /\ UNCHANGED <<beat, issued, read>>

TaskStarts(c) ==
  /\ task[c] = "scheduled"
  /\ task' = [task EXCEPT ![c] = "executing"]
  /\ UNCHANGED <<bufferVars, beat, issued, trackVars, read>>

\* No such tool, or no longer: a calm note says so.
UnknownTool(c) ==
  /\ task[c] = "scheduled"
  /\ AnswerAndMark(c, FALSE)

\* The tool decides how urgent its result is.
ToolReturns(c) ==
  /\ task[c] = "executing"
  /\ \E urgent \in BOOLEAN : AnswerAndMark(c, urgent)

\* Any Exception is reported, urgently.
ToolRaises(c) ==
  /\ task[c] = "executing"
  /\ AnswerAndMark(c, TRUE)

\* CancelledError is no Exception, and an answer that is no Stimulus fails
\* outside the try: the task ends, the call stays registered.
ToolLost(c) ==
  /\ MayLose
  /\ task[c] = "executing"
  /\ task' = [task EXCEPT ![c] = "lost"]
  /\ UNCHANGED <<bufferVars, beat, issued, trackVars, read>>

-----------------------------------------------------------------------------
BeatStep ==
  StartBeat \/ DispatchToolCalls \/ MemoryWritesDone \/ NothingDecided

TaskBegins(c) == TaskStarts(c) \/ UnknownTool(c)

ToolEnds(c) == ToolReturns(c) \/ ToolRaises(c) \/ ToolLost(c)

Next ==
  \/ BeatStep
  \/ \E c \in Call : TaskBegins(c) \/ ToolEnds(c)

Spec == Init /\ [][Next]_vars

\* The event loop runs every ready task and the beat, and executions end: the
\* tools of this repository carry time-outs of their own.
FairSpec ==
  /\ Spec
  /\ WF_vars(BeatStep)
  /\ \A c \in Call : WF_vars(TaskBegins(c)) /\ WF_vars(ToolEnds(c))

-----------------------------------------------------------------------------
(* Properties                                                               *)

TypeOK ==
  /\ Buffer!TypeOK
  /\ beat \in {"idle", "thinking", "remembering"}
  /\ issued \in 0..MaxCalls
  /\ task \in [Call -> TaskStates]
  /\ pending \subseteq Call
  /\ read \subseteq Call
  /\ notices \in Nat

Unanswered == {c \in Call : task[c] \in {"scheduled", "executing", "lost"}}

\* An answer is in exactly one place: to be given, waiting, or read.
Answered == {c \in Call : task[c] = "done"}

\* The tracker is a barrier over all batches: however batches and answers
\* interleave, one notice per time that everything has been answered.
Promise == INSTANCE BatchCompletion
             WITH open <- Unanswered, answered <- Answered

TrackerKeepsPromise == Promise!Spec

\* No answer is dropped or given twice on the way from the task to Self.
AnswersConserved ==
  /\ read \cap AnswersIn(queue) = {}
  /\ read \cup AnswersIn(queue) = Answered
  /\ \A i, j \in 1..Len(queue) :
       queue[i].kind = "answer" /\ queue[j] = queue[i] => i = j

\* Self never reads that a batch is complete before it can read the results:
\* each call issued when the notice was pushed has its answer read already or
\* ahead of the notice in the same drain.
ResultsPrecedeNotice ==
  \A i \in 1..Len(queue) : queue[i].kind = "batch_complete" =>
    \A c \in 1..queue[i].call :
      c \in read \/ \E j \in 1..(i - 1) : queue[j].kind = "answer"
                                          /\ queue[j].call = c

\* Every call whose execution gives an answer has it read by a later beat, the
\* answers of other calls being lost or not.
CallsAreAnswered ==
  \A c \in Call : (c <= issued) ~> (c \in read \/ task[c] = "lost")

\* batch_tracker.py:53 tells Self "All dispatched tools completed."  So no beat
\* that reads this may have a call still running.
NoticeIsCurrent ==
  [][StartBeat /\ (\E i \in 1..Len(queue) : queue[i].kind = "batch_complete")
       => pending = {}]_vars
=============================================================================
