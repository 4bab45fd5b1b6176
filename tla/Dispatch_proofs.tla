-------------------------- MODULE Dispatch_proofs --------------------------
(***************************************************************************)
(* The tracker is a barrier, and its notice never overtakes a result, for  *)
(* any number of calls, whether executions may be lost or not.             *)
(***************************************************************************)
EXTENDS Dispatch, TLAPS

-----------------------------------------------------------------------------
(* The invariant                                                            *)

\* Exactly the calls issued so far have a task.
IssuedHaveTasks == \A c \in Call : c <= issued <=> task[c] # "none"

\* The tracker waits for the calls that are not answered, lost ones included.
PendingExact == pending = Unanswered

\* The half of AnswersConserved that the notice relies on.
AnswersReach == Answered \subseteq read \cup AnswersIn(queue)

Tracked == TypeOK /\ IssuedHaveTasks /\ PendingExact

Ordered == Tracked /\ AnswersReach /\ ResultsPrecedeNotice

-----------------------------------------------------------------------------
(* Lemmas about the list                                                    *)

\* Appending keeps the list's elements where they are.
LEMMA Appended ==
  ASSUME NEW s \in Seq(Stimulus), NEW t \in Seq(Stimulus)
  PROVE  /\ s \o t \in Seq(Stimulus)
         /\ Len(s) \in Nat /\ Len(t) \in Nat
         /\ Len(s \o t) = Len(s) + Len(t)
         /\ \A i \in 1..Len(s) : (s \o t)[i] = s[i]
         /\ \A i \in 1..Len(t) : (s \o t)[Len(s) + i] = t[i]
OBVIOUS

\* What a list of stimuli answers are calls.
LEMMA AnswersAreCalls ==
  ASSUME NEW s \in Seq(Stimulus)
  PROVE  AnswersIn(s) \subseteq Call
<1> SUFFICES ASSUME NEW i \in 1..Len(s) PROVE s[i].call \in Call
  BY DEF AnswersIn
<1>1. s[i] \in Stimulus
  OBVIOUS
<1> QED BY <1>1 DEF Stimulus

-----------------------------------------------------------------------------
(* The end of a call                                                        *)

LEMMA IssuedOnceTracked ==
  ASSUME Tracked, NEW c \in Call, task[c] # "none"
  PROVE  issued \in Call
BY CallsAssumption DEF Tracked, TypeOK, IssuedHaveTasks, Call

\* What a task pushes are stimuli.
LEMMA AnswerFirstType ==
  ASSUME Tracked, NEW c \in Call, NEW urgent \in BOOLEAN, task[c] # "none"
  PROVE  /\ AnswerFirst(c, Answer(c, urgent)) \in Seq(Stimulus)
         /\ Answer(c, urgent) \in Stimulus
         /\ Notice \in Stimulus
<1>1. issued \in Call
  BY IssuedOnceTracked
<1>2. Answer(c, urgent) \in Stimulus /\ Notice \in Stimulus
  BY <1>1 DEF Answer, Notice, Stimulus
<1>3. Completion(c) \in Seq(Stimulus)
  BY <1>2 DEF Completion
<1>4. <<Answer(c, urgent)>> \in Seq(Stimulus)
  BY <1>2
<1> QED BY <1>2, <1>3, <1>4 DEF AnswerFirst

LEMMA AnswerAndMarkTracked ==
  ASSUME Tracked, NEW c \in Call, NEW urgent \in BOOLEAN,
         task[c] \in {"scheduled", "executing"}, AnswerAndMark(c, urgent)
  PROVE  Tracked'
<1> DEFINE burst == AnswerFirst(c, Answer(c, urgent))
<1>1. burst \in Seq(Stimulus)
  BY AnswerFirstType
<1>2. /\ queue' = queue \o burst
      /\ newEvent' = (newEvent \/ burst # <<>>)
      /\ adrenalinEvent' = (adrenalinEvent \/ Buffer!Urgent(burst))
      /\ recalledUpTo' = recalledUpTo
  BY DEF AnswerAndMark, Buffer!PushAll
<1>3. /\ pending' = pending \ {c}
      /\ notices' = IF MarkedIsLast(c) THEN notices + 1 ELSE notices
      /\ task' = [task EXCEPT ![c] = "done"]
      /\ beat' = beat /\ issued' = issued /\ read' = read
  BY DEF AnswerAndMark
<1> HIDE DEF burst
<1>4. queue' \in Seq(Stimulus)
  BY <1>1, <1>2 DEF Tracked, TypeOK, Buffer!TypeOK
<1>5. newEvent' \in BOOLEAN /\ adrenalinEvent' \in BOOLEAN
  BY <1>2, Zenon
<1>6. Buffer!TypeOK'
  BY <1>2, <1>4, <1>5 DEF Tracked, TypeOK, Buffer!TypeOK
<1>7. TypeOK'
  BY <1>3, <1>6 DEF Tracked, TypeOK, TaskStates
<1>8. IssuedHaveTasks'
  BY <1>3 DEF Tracked, TypeOK, IssuedHaveTasks
<1>9. PendingExact'
  BY <1>3 DEF Tracked, TypeOK, PendingExact, Unanswered
<1> QED BY <1>7, <1>8, <1>9 DEF Tracked

-----------------------------------------------------------------------------
(* Tracked is an invariant                                                  *)

LEMMA InitTracked == Init => Tracked
<1> SUFFICES ASSUME Init PROVE Tracked
  OBVIOUS
<1>1. Buffer!TypeOK
  <2>1. /\ queue = <<>> /\ recalledUpTo = 0
    BY DEF Init, Buffer!Init
  <2>2. queue \in Seq(Stimulus)
    BY <2>1
  <2>3. adrenalinEvent \in BOOLEAN /\ newEvent \in BOOLEAN
    BY Zenon DEF Init, Buffer!Init
  <2> QED BY <2>1, <2>2, <2>3 DEF Buffer!TypeOK
<1>2. TypeOK
  BY <1>1, CallsAssumption DEF Init, TypeOK, TaskStates
<1>3. IssuedHaveTasks
  BY DEF Init, IssuedHaveTasks, Call
<1>4. PendingExact
  BY DEF Init, PendingExact, Unanswered
<1> QED BY <1>2, <1>3, <1>4 DEF Tracked

LEMMA BeatStepTracked ==
  ASSUME Tracked, BeatStep
  PROVE  Tracked'
<1>1. CASE StartBeat
  <2>1. Buffer!TypeOK'
    <3>1. queue' = <<>> /\ recalledUpTo' = 0
      BY <1>1 DEF StartBeat, Buffer!Drain
    <3>2. queue' \in Seq(Stimulus)
      BY <3>1
    <3>3. adrenalinEvent' \in BOOLEAN /\ newEvent' \in BOOLEAN
      BY <1>1, Zenon DEF StartBeat, Buffer!Drain
    <3> QED BY <3>1, <3>2, <3>3 DEF Buffer!TypeOK
  <2>2. AnswersIn(queue) \subseteq Call
    BY AnswersAreCalls DEF Tracked, TypeOK, Buffer!TypeOK
  <2>3. TypeOK'
    BY <1>1, <2>1, <2>2 DEF StartBeat, trackVars, Tracked, TypeOK
  <2> QED
    BY <1>1, <2>3 DEF StartBeat, trackVars, Tracked, IssuedHaveTasks,
                      PendingExact, Unanswered
<1>2. CASE DispatchToolCalls
  <2>1. PICK last \in issued..MaxCalls :
          /\ issued' = last
          /\ task' = [c \in Call |-> IF c \in (issued + 1)..last
                                       THEN "scheduled" ELSE task[c]]
          /\ pending' = pending \cup ((issued + 1)..last)
    BY <1>2 DEF DispatchToolCalls, RegisterBatch
  <2>2. /\ beat' = "remembering"
        /\ UNCHANGED <<queue, recalledUpTo, adrenalinEvent, newEvent>>
        /\ UNCHANGED <<read, notices>>
    BY <1>2 DEF DispatchToolCalls, bufferVars
  <2>3. Buffer!TypeOK'
    BY <2>2 DEF Tracked, TypeOK, Buffer!TypeOK
  <2>4. issued \in Nat /\ last \in 0..MaxCalls /\ (issued + 1)..last \subseteq Call
    BY CallsAssumption DEF Tracked, TypeOK, Call
  <2>5. TypeOK'
    BY <2>1, <2>2, <2>3, <2>4 DEF Tracked, TypeOK, TaskStates
  <2>6. IssuedHaveTasks'
    BY <2>1, <2>4 DEF Tracked, IssuedHaveTasks, Call
  <2>7. \A c \in (issued + 1)..last : task[c] = "none"
    BY <2>4 DEF Tracked, IssuedHaveTasks, Call
  <2>8. PendingExact'
    BY <2>1, <2>4, <2>7 DEF Tracked, TypeOK, PendingExact, Unanswered
  <2> QED BY <2>5, <2>6, <2>8 DEF Tracked
<1>3. CASE MemoryWritesDone
  BY <1>3 DEF MemoryWritesDone, bufferVars, trackVars, Tracked, TypeOK,
              Buffer!TypeOK, IssuedHaveTasks, PendingExact, Unanswered
<1>4. CASE NothingDecided
  BY <1>4 DEF NothingDecided, bufferVars, trackVars, Tracked, TypeOK,
              Buffer!TypeOK, IssuedHaveTasks, PendingExact, Unanswered
<1> QED BY <1>1, <1>2, <1>3, <1>4 DEF BeatStep

\* Neither a task's start nor its loss changes what is unanswered.
LEMMA SilentTaskStep ==
  ASSUME Tracked, NEW c \in Call, TaskStarts(c) \/ ToolLost(c)
  PROVE  /\ Tracked'
         /\ UNCHANGED <<bufferVars, issued, notices, read>>
         /\ Unanswered' = Unanswered /\ Answered' = Answered
<1>1. /\ task[c] \in {"scheduled", "executing"}
      /\ \/ task' = [task EXCEPT ![c] = "executing"]
         \/ task' = [task EXCEPT ![c] = "lost"]
      /\ UNCHANGED <<bufferVars, beat, issued, trackVars, read>>
  BY DEF TaskStarts, ToolLost
<1>2. Buffer!TypeOK'
  BY <1>1 DEF bufferVars, Tracked, TypeOK, Buffer!TypeOK
<1>3. TypeOK'
  BY <1>1, <1>2 DEF trackVars, Tracked, TypeOK, TaskStates
<1>4. IssuedHaveTasks'
  BY <1>1 DEF Tracked, TypeOK, IssuedHaveTasks
<1>5. Unanswered' = Unanswered /\ Answered' = Answered
  BY <1>1 DEF Tracked, TypeOK, Unanswered, Answered
<1>6. PendingExact'
  BY <1>1, <1>5 DEF Tracked, PendingExact, trackVars
<1> QED BY <1>1, <1>3, <1>4, <1>5, <1>6 DEF Tracked, trackVars

\* Every other step of a task answers its call.
LEMMA TaskSteps ==
  ASSUME NEW c \in Call, TaskBegins(c) \/ ToolEnds(c)
  PROVE  \/ TaskStarts(c) \/ ToolLost(c)
         \/ /\ task[c] \in {"scheduled", "executing"}
            /\ \E urgent \in BOOLEAN : AnswerAndMark(c, urgent)
<1>1. CASE UnknownTool(c)
  BY <1>1 DEF UnknownTool
<1>2. CASE ToolReturns(c)
  BY <1>2 DEF ToolReturns
<1>3. CASE ToolRaises(c)
  BY <1>3 DEF ToolRaises
<1> QED BY <1>1, <1>2, <1>3 DEF TaskBegins, ToolEnds

LEMMA NextTracked ==
  ASSUME Tracked, [Next]_vars
  PROVE  Tracked'
<1>1. CASE BeatStep
  BY <1>1, BeatStepTracked
<1>2. CASE \E c \in Call : TaskBegins(c) \/ ToolEnds(c)
  BY <1>2, TaskSteps, SilentTaskStep, AnswerAndMarkTracked
<1>3. CASE UNCHANGED vars
  BY <1>3 DEF vars, bufferVars, trackVars, Tracked, TypeOK, Buffer!TypeOK,
              IssuedHaveTasks, PendingExact, Unanswered
<1> QED BY <1>1, <1>2, <1>3 DEF Next

LEMMA TrackedInvariant == Spec => []Tracked
<1> QED BY InitTracked, NextTracked, PTL DEF Spec

\* The variables of dispatch keep their types, the buffer's included.
THEOREM TypeCorrect == Spec => []TypeOK
<1>1. Tracked => TypeOK
  BY DEF Tracked
<1> QED BY <1>1, TrackedInvariant, PTL
-----------------------------------------------------------------------------
(* The tracker implements the barrier                                       *)

USE DEF Promise!promiseVars

LEMMA InitPromised == Init => Promise!Init
BY DEF Init, Promise!Init, Unanswered, Answered

\* Dispatching a batch opens its calls and answers none.
LEMMA DispatchPromised ==
  ASSUME Tracked, DispatchToolCalls
  PROVE  Promise!Next
<1>1. PICK last \in issued..MaxCalls :
        task' = [c \in Call |-> IF c \in (issued + 1)..last
                                  THEN "scheduled" ELSE task[c]]
  BY DEF DispatchToolCalls
<1> DEFINE batch == (issued + 1)..last
<1>2. batch \subseteq Call
  BY CallsAssumption DEF Tracked, TypeOK, Call
<1>3. \A c \in batch : task[c] = "none"
  BY <1>2 DEF Tracked, TypeOK, IssuedHaveTasks, Call
<1>4. batch \cap (Unanswered \cup Answered) = {}
  BY <1>3 DEF Unanswered, Answered
<1>5. Unanswered' = Unanswered \cup batch
  BY <1>1, <1>2 DEF Unanswered
<1>6. Answered' = Answered
  BY <1>1, <1>2, <1>3 DEF Answered
<1>7. notices' = notices
  BY DEF DispatchToolCalls
<1>8. Promise!Dispatch(batch)
  BY <1>4, <1>5, <1>6, <1>7 DEF Promise!Dispatch
<1> QED BY <1>2, <1>8 DEF Promise!Next

\* The answer to a call closes it, with a notice iff nothing else is open.
LEMMA AnswerPromised ==
  ASSUME Tracked, NEW c \in Call, NEW urgent \in BOOLEAN,
         task[c] \in {"scheduled", "executing"}, AnswerAndMark(c, urgent)
  PROVE  Promise!Answer(c)
<1>1. /\ task' = [task EXCEPT ![c] = "done"]
      /\ notices' = IF pending = {c} THEN notices + 1 ELSE notices
  BY DEF AnswerAndMark, MarkedIsLast
<1>2. c \in Unanswered
  BY DEF Unanswered
<1>3. Unanswered' = Unanswered \ {c} /\ Answered' = Answered \cup {c}
  BY <1>1 DEF Tracked, TypeOK, Unanswered, Answered
<1>4. pending = Unanswered
  BY DEF Tracked, PendingExact
<1> QED BY <1>1, <1>2, <1>3, <1>4 DEF Promise!Answer

LEMMA OtherBeatStepsPromised ==
  ASSUME StartBeat \/ MemoryWritesDone \/ NothingDecided
  PROVE  UNCHANGED <<Unanswered, Answered, notices>>
BY DEF StartBeat, MemoryWritesDone, NothingDecided, trackVars, Unanswered,
       Answered

LEMMA NextPromised ==
  ASSUME Tracked, [Next]_vars
  PROVE  Promise!Next \/ UNCHANGED <<Unanswered, Answered, notices>>
<1>1. CASE BeatStep
  BY <1>1, DispatchPromised, OtherBeatStepsPromised DEF BeatStep
<1>2. CASE \E c \in Call : TaskBegins(c) \/ ToolEnds(c)
  <2>1. PICK c \in Call : TaskBegins(c) \/ ToolEnds(c)
    BY <1>2
  <2>2. CASE TaskStarts(c) \/ ToolLost(c)
    BY <2>2, SilentTaskStep
  <2>3. CASE /\ task[c] \in {"scheduled", "executing"}
             /\ \E urgent \in BOOLEAN : AnswerAndMark(c, urgent)
    BY <2>3, AnswerPromised DEF Promise!Next
  <2> QED BY <2>1, <2>2, <2>3, TaskSteps
<1>3. CASE UNCHANGED vars
  BY <1>3 DEF vars, trackVars, Unanswered, Answered
<1> QED BY <1>1, <1>2, <1>3 DEF Next

\* However batches and answers interleave, the tracker is one barrier over all
\* of them: the answer to the last open call, and no other step, comes with a
\* notice.
THEOREM TrackerImplementsBarrier == Spec => TrackerKeepsPromise
<1>1. Tracked /\ [Next]_vars
        => Promise!Next \/ UNCHANGED <<Unanswered, Answered, notices>>
  BY NextPromised
<1>2. Tracked /\ [Next]_vars => [Promise!Next]_(Promise!promiseVars)
  BY <1>1
<1> QED
  BY <1>2, InitPromised, TrackedInvariant, PTL
  DEF Spec, TrackerKeepsPromise, Promise!Spec

-----------------------------------------------------------------------------
(* Results come before the notice                                           *)

\* The answers of calls up to n are in r, or stand before position i of s.
Delivered(s, r, i, n) ==
  \A c \in 1..n :
    c \in r \/ \E j \in 1..(i - 1) : s[j].kind = "answer" /\ s[j].call = c

\* Where the answer and the notice land in the list.
LEMMA AnswerLands ==
  ASSUME Tracked, NEW c \in Call, NEW urgent \in BOOLEAN,
         task[c] \in {"scheduled", "executing"}, AnswerAndMark(c, urgent)
  PROVE  /\ task' = [task EXCEPT ![c] = "done"] /\ read' = read
         /\ queue \in Seq(Stimulus) /\ queue' \in Seq(Stimulus)
         /\ Len(queue) \in Nat
         /\ Len(queue') = Len(queue) + (IF pending = {c} THEN 2 ELSE 1)
         /\ \A i \in 1..Len(queue) : queue'[i] = queue[i]
         /\ queue'[Len(queue) + 1] = Answer(c, urgent)
         /\ pending = {c} => queue'[Len(queue) + 2] = Notice
<1> DEFINE answer == Answer(c, urgent)
<1>1. Tracked /\ task[c] # "none"
  OBVIOUS
<1>2. /\ answer \in Stimulus /\ Notice \in Stimulus
      /\ AnswerFirst(c, answer) \in Seq(Stimulus)
  BY <1>1, AnswerFirstType
<1>3. /\ queue' = queue \o AnswerFirst(c, answer)
      /\ task' = [task EXCEPT ![c] = "done"] /\ read' = read
  BY DEF AnswerAndMark, Buffer!PushAll
<1> DEFINE burst == AnswerFirst(c, answer)
<1>4. /\ Len(burst) = (IF pending = {c} THEN 2 ELSE 1)
      /\ burst[1] = answer
      /\ pending = {c} => burst[2] = Notice
  <2>1. /\ <<answer>> \in Seq(Stimulus) /\ <<Notice>> \in Seq(Stimulus)
        /\ Len(<<answer>>) = 1 /\ <<answer>>[1] = answer
        /\ Len(<<Notice>>) = 1 /\ <<Notice>>[1] = Notice
    BY <1>2
  <2>2. CASE pending = {c}
    <3>1. burst = <<answer>> \o <<Notice>>
      BY <2>2 DEF AnswerFirst, Completion, MarkedIsLast
    <3> HIDE DEF answer, burst
    <3> QED BY <2>1, <2>2, <3>1, Appended
  <2>3. CASE pending # {c}
    <3>1. burst = <<answer>> \o <<>>
      BY <2>3 DEF AnswerFirst, Completion, MarkedIsLast
    <3> HIDE DEF answer, burst
    <3>2. <<>> \in Seq(Stimulus) /\ Len(<<>>) = 0
      OBVIOUS
    <3> QED BY <2>1, <2>3, <3>1, <3>2, Appended
  <2> QED BY <2>2, <2>3
<1>7. queue \in Seq(Stimulus) /\ queue' \in Seq(Stimulus) /\ Len(queue) \in Nat
  BY <1>1, <1>2, <1>3 DEF Tracked, TypeOK, Buffer!TypeOK
<1> HIDE DEF answer, burst
<1>8. /\ Len(queue') = Len(queue) + (IF pending = {c} THEN 2 ELSE 1)
      /\ \A i \in 1..Len(queue) : queue'[i] = queue[i]
      /\ queue'[Len(queue) + 1] = answer
      /\ pending = {c} => queue'[Len(queue) + 2] = Notice
  <2>1. /\ Len(queue \o burst) = Len(queue) + Len(burst)
        /\ \A i \in 1..Len(queue) : (queue \o burst)[i] = queue[i]
        /\ \A i \in 1..Len(burst) : (queue \o burst)[Len(queue) + i] = burst[i]
    BY <1>2, <1>7, Appended DEF burst
  <2>2. queue' = queue \o burst
    BY <1>3 DEF burst
  <2>3. 1 \in 1..Len(burst) /\ (pending = {c} => 2 \in 1..Len(burst))
    BY <1>4
  <2> QED BY <1>4, <2>1, <2>2, <2>3
<1> QED BY <1>3, <1>7, <1>8 DEF answer

LEMMA AnswerOrdered ==
  ASSUME Ordered, NEW c \in Call, NEW urgent \in BOOLEAN,
         task[c] \in {"scheduled", "executing"}, AnswerAndMark(c, urgent)
  PROVE  AnswersReach' /\ ResultsPrecedeNotice'
<1> DEFINE answer == Answer(c, urgent)
<1>1. Tracked
  BY DEF Ordered
<1>3. task' = [task EXCEPT ![c] = "done"] /\ read' = read
  BY <1>1, AnswerLands
<1>5. answer.kind = "answer" /\ answer.call = c
  BY DEF Answer
<1>6. Notice.kind = "batch_complete" /\ Notice.call = issued
  BY DEF Notice
<1>7. queue \in Seq(Stimulus) /\ queue' \in Seq(Stimulus) /\ Len(queue) \in Nat
  BY <1>1, AnswerLands
<1>8. /\ Len(queue') = Len(queue) + (IF pending = {c} THEN 2 ELSE 1)
      /\ \A i \in 1..Len(queue) : queue'[i] = queue[i]
      /\ queue'[Len(queue) + 1] = answer
      /\ pending = {c} => queue'[Len(queue) + 2] = Notice
  BY <1>1, AnswerLands
<1> HIDE DEF answer
<1>9. AnswersIn(queue) \cup {c} \subseteq AnswersIn(queue')
  <2>1. AnswersIn(queue) \subseteq AnswersIn(queue')
    <3>1. 1..Len(queue) \subseteq 1..Len(queue')
      BY <1>7, <1>8
    <3> QED BY <1>8, <3>1 DEF AnswersIn
  <2>2. Len(queue) + 1 \in 1..Len(queue')
    BY <1>7, <1>8
  <2> QED BY <1>5, <1>8, <2>1, <2>2 DEF AnswersIn
<1>10. Answered' \subseteq Answered \cup {c}
  BY <1>1, <1>3 DEF Tracked, TypeOK, Answered
<1>11. AnswersReach'
  BY <1>3, <1>9, <1>10 DEF Ordered, AnswersReach
<1>12. ASSUME pending = {c} PROVE \A d \in 1..issued : d \in Answered \/ d = c
  BY <1>1, <1>12, CallsAssumption
  DEF Tracked, TypeOK, IssuedHaveTasks, PendingExact, Unanswered, Answered,
      Call, TaskStates
<1>13. ASSUME NEW i \in 1..Len(queue'), queue'[i].kind = "batch_complete"
       PROVE  Delivered(queue', read', i, queue'[i].call)
  <2>1. CASE i \in 1..Len(queue)
    <3>1. queue[i].kind = "batch_complete" /\ queue'[i] = queue[i]
      BY <1>8, <1>13, <2>1
    <3>2. Delivered(queue, read, i, queue[i].call)
      BY <2>1, <3>1 DEF Ordered, ResultsPrecedeNotice, Delivered
    <3>3. \A j \in 1..(i - 1) : queue'[j] = queue[j]
      BY <1>7, <1>8, <2>1
    <3>4. Delivered(queue', read', i, queue[i].call)
      BY <1>3, <3>2, <3>3 DEF Delivered
    <3> QED BY <3>1, <3>4
  <2>2. CASE i = Len(queue) + 1
    <3>1. queue'[i] = answer
      BY <1>8, <2>2
    <3>2. queue'[i].kind = "answer"
      BY <1>5, <3>1
    <3> QED BY <1>13, <3>2
  <2>3. CASE i = Len(queue) + 2
    <3>1. pending = {c} /\ queue'[i].call = issued
      BY <1>6, <1>7, <1>8, <2>3
    <3>2. \A d \in AnswersIn(queue) \cup {c} :
            \E j \in 1..(i - 1) : queue'[j].kind = "answer" /\ queue'[j].call = d
      <4>1. Len(queue) + 1 \in 1..(i - 1) /\ 1..Len(queue) \subseteq 1..(i - 1)
        BY <1>7, <2>3
      <4>2. \A d \in AnswersIn(queue) :
              \E j \in 1..Len(queue) : queue[j].kind = "answer" /\ queue[j].call = d
        BY DEF AnswersIn
      <4> QED BY <1>5, <1>8, <4>1, <4>2
    <3>3. \A d \in 1..issued : d \in read \/ d \in AnswersIn(queue) \cup {c}
      BY <1>12, <3>1 DEF Ordered, AnswersReach
    <3>4. Delivered(queue', read', i, issued)
      BY <1>3, <3>2, <3>3 DEF Delivered
    <3> QED BY <3>1, <3>4
  <2> QED BY <1>7, <1>8, <2>1, <2>2, <2>3
<1>14. ResultsPrecedeNotice'
  BY <1>13 DEF ResultsPrecedeNotice, Delivered
<1> QED BY <1>11, <1>14

\* A beat that drains the list has then read all the answers given.
LEMMA BeatStepOrdered ==
  ASSUME Ordered, BeatStep
  PROVE  AnswersReach' /\ ResultsPrecedeNotice'
<1>1. CASE StartBeat
  <2>1. queue' = <<>> /\ read' = read \cup AnswersIn(queue) /\ task' = task
    BY <1>1 DEF StartBeat, Buffer!Drain
  <2>2. AnswersReach'
    BY <2>1 DEF Ordered, AnswersReach, Answered
  <2>3. ResultsPrecedeNotice'
    BY <2>1 DEF ResultsPrecedeNotice
  <2> QED BY <2>2, <2>3
<1>2. CASE DispatchToolCalls
  <2>1. /\ queue' = queue /\ read' = read
        /\ \A c \in Call : task'[c] = "done" => task[c] = "done"
    BY <1>2 DEF DispatchToolCalls, bufferVars
  <2>2. AnswersReach'
    BY <2>1 DEF Ordered, AnswersReach, Answered, AnswersIn
  <2>3. ResultsPrecedeNotice'
    BY <2>1 DEF Ordered, ResultsPrecedeNotice
  <2> QED BY <2>2, <2>3
<1>3. CASE MemoryWritesDone \/ NothingDecided
  BY <1>3 DEF MemoryWritesDone, NothingDecided, bufferVars, Ordered,
              AnswersReach, Answered, AnswersIn, ResultsPrecedeNotice
<1> QED BY <1>1, <1>2, <1>3 DEF BeatStep

LEMMA UnchangedOrdered ==
  ASSUME Ordered, UNCHANGED <<bufferVars, read>>, Answered' = Answered
  PROVE  AnswersReach' /\ ResultsPrecedeNotice'
BY DEF bufferVars, Ordered, AnswersReach, AnswersIn, ResultsPrecedeNotice

LEMMA NextOrdered ==
  ASSUME Ordered, [Next]_vars
  PROVE  Ordered'
<1>1. Tracked'
  BY NextTracked DEF Ordered
<1>2. CASE BeatStep
  BY <1>1, <1>2, BeatStepOrdered DEF Ordered
<1>3. CASE \E c \in Call : TaskBegins(c) \/ ToolEnds(c)
  <2>1. PICK c \in Call : TaskBegins(c) \/ ToolEnds(c)
    BY <1>3
  <2>2. CASE TaskStarts(c) \/ ToolLost(c)
    BY <1>1, <2>2, SilentTaskStep, UnchangedOrdered DEF Ordered
  <2>3. CASE /\ task[c] \in {"scheduled", "executing"}
             /\ \E urgent \in BOOLEAN : AnswerAndMark(c, urgent)
    BY <1>1, <2>3, AnswerOrdered DEF Ordered
  <2> QED BY <2>1, <2>2, <2>3, TaskSteps
<1>4. CASE UNCHANGED vars
  <2>1. Answered' = Answered
    BY <1>4 DEF vars, Answered
  <2> QED BY <1>1, <1>4, <2>1, UnchangedOrdered DEF vars, Ordered
<1> QED BY <1>2, <1>3, <1>4 DEF Next

\* Self never reads that a batch is complete before its results: each call
\* issued when a notice was pushed has been read, or stands ahead of it.
THEOREM ResultsComeFirst == Spec => []ResultsPrecedeNotice
<1>1. Init => AnswersReach /\ ResultsPrecedeNotice
  BY DEF Init, Buffer!Init, AnswersReach, Answered, ResultsPrecedeNotice
<1>2. Init => Ordered
  BY <1>1, InitTracked DEF Ordered
<1>3. Ordered => ResultsPrecedeNotice
  BY DEF Ordered
<1> QED BY <1>2, <1>3, NextOrdered, PTL DEF Spec

-----------------------------------------------------------------------------
(* No answer is dropped or given twice                                      *)

\* Each call has at most one answer in the list, whatever its urgency.
OneAnswerEach ==
  \A i, j \in 1..Len(queue) :
    queue[i].kind = "answer" /\ queue[j].kind = "answer"
      /\ queue[i].call = queue[j].call => i = j

Conserved ==
  /\ Tracked
  /\ read \cap AnswersIn(queue) = {}
  /\ read \cup AnswersIn(queue) = Answered
  /\ OneAnswerEach

LEMMA AnswerConserved ==
  ASSUME Conserved, NEW c \in Call, NEW urgent \in BOOLEAN,
         task[c] \in {"scheduled", "executing"}, AnswerAndMark(c, urgent)
  PROVE  Conserved'
<1> DEFINE answer == Answer(c, urgent)
           n == Len(queue)
<1>1. Tracked
  BY DEF Conserved
<1>2. /\ task' = [task EXCEPT ![c] = "done"] /\ read' = read /\ n \in Nat
      /\ Len(queue') = n + (IF pending = {c} THEN 2 ELSE 1)
      /\ \A i \in 1..n : queue'[i] = queue[i]
      /\ queue'[n + 1] = answer
      /\ pending = {c} => queue'[n + 2] = Notice
  BY <1>1, AnswerLands
<1>3. answer.kind = "answer" /\ answer.call = c /\ Notice.kind = "batch_complete"
  BY DEF Answer, Notice
<1> HIDE DEF answer
<1>4. \A i \in 1..Len(queue') :
        \/ i \in 1..n /\ queue'[i] = queue[i]
        \/ i = n + 1 /\ queue'[i] = answer
        \/ i = n + 2 /\ queue'[i] = Notice
  BY <1>2
<1>5. n + 1 \in 1..Len(queue') /\ 1..n \subseteq 1..Len(queue')
  BY <1>2
<1>6. AnswersIn(queue)' = AnswersIn(queue) \cup {c}
  <2>1. AnswersIn(queue)' \subseteq AnswersIn(queue) \cup {c}
    BY <1>3, <1>4 DEF AnswersIn
  <2>2. AnswersIn(queue) \subseteq AnswersIn(queue)'
    BY <1>2, <1>5 DEF AnswersIn
  <2>3. c \in AnswersIn(queue)'
    BY <1>2, <1>3, <1>5 DEF AnswersIn
  <2> QED BY <2>1, <2>2, <2>3
<1>7. Answered' = Answered \cup {c} /\ c \notin Answered
  BY <1>1, <1>2 DEF Tracked, TypeOK, Answered
<1>8. Tracked'
  BY <1>1, AnswerAndMarkTracked
<1>9. /\ read' \cap AnswersIn(queue)' = {}
      /\ read' \cup AnswersIn(queue)' = Answered'
  BY <1>2, <1>6, <1>7 DEF Conserved
<1>10. OneAnswerEach'
  <2> SUFFICES ASSUME NEW i \in 1..Len(queue'), NEW j \in 1..Len(queue'),
                      queue'[i].kind = "answer", queue'[j].kind = "answer",
                      queue'[i].call = queue'[j].call
               PROVE  i = j
    BY DEF OneAnswerEach
  <2>1. ASSUME NEW k \in 1..n, queue[k].kind = "answer" PROVE queue[k].call # c
    BY <1>7, <2>1 DEF Conserved, AnswersIn
  <2>2. CASE i \in 1..n /\ j \in 1..n
    BY <1>2, <2>2 DEF Conserved, OneAnswerEach
  <2>3. CASE i \in 1..n /\ j = n + 1
    BY <1>2, <1>3, <2>1, <2>3
  <2>4. CASE i = n + 1 /\ j \in 1..n
    BY <1>2, <1>3, <2>1, <2>4
  <2>5. (i \in 1..n \/ i = n + 1) /\ (j \in 1..n \/ j = n + 1)
    BY <1>3, <1>4
  <2> QED BY <2>2, <2>3, <2>4, <2>5
<1> QED BY <1>8, <1>9, <1>10 DEF Conserved

LEMMA UnchangedConserved ==
  ASSUME Conserved, Tracked', UNCHANGED <<queue, read>>, Answered' = Answered
  PROVE  Conserved'
BY DEF Conserved, AnswersIn, OneAnswerEach

LEMMA BeatStepConserved ==
  ASSUME Conserved, BeatStep
  PROVE  Conserved'
<1>1. Tracked /\ Tracked'
  BY BeatStepTracked DEF Conserved
<1>2. CASE StartBeat
  <2>1. queue' = <<>> /\ read' = read \cup AnswersIn(queue) /\ task' = task
    BY <1>2 DEF StartBeat, Buffer!Drain
  <2>2. AnswersIn(queue)' = {} /\ Answered' = Answered /\ OneAnswerEach'
    BY <2>1 DEF AnswersIn, Answered, OneAnswerEach
  <2> QED BY <1>1, <2>1, <2>2 DEF Conserved
<1>3. CASE DispatchToolCalls
  <2>1. PICK last \in issued..MaxCalls :
          task' = [c \in Call |-> IF c \in (issued + 1)..last
                                    THEN "scheduled" ELSE task[c]]
    BY <1>3 DEF DispatchToolCalls
  <2>2. \A c \in Call : c \in (issued + 1)..last => task[c] = "none"
    BY <1>1, CallsAssumption DEF Tracked, TypeOK, IssuedHaveTasks, Call
  <2>3. Answered' = Answered
    BY <2>1, <2>2 DEF Answered
  <2>4. UNCHANGED <<queue, read>>
    BY <1>3 DEF DispatchToolCalls, bufferVars
  <2> QED BY <1>1, <2>3, <2>4, UnchangedConserved
<1>4. CASE MemoryWritesDone \/ NothingDecided
  <2>1. UNCHANGED <<queue, read, task>>
    BY <1>4 DEF MemoryWritesDone, NothingDecided, bufferVars
  <2>2. Answered' = Answered
    BY <2>1 DEF Answered
  <2> QED BY <1>1, <2>1, <2>2, UnchangedConserved
<1> QED BY <1>2, <1>3, <1>4 DEF BeatStep

LEMMA NextConserved ==
  ASSUME Conserved, [Next]_vars
  PROVE  Conserved'
<1>1. Tracked /\ Tracked'
  BY NextTracked DEF Conserved
<1>2. CASE BeatStep
  BY <1>2, BeatStepConserved
<1>3. CASE \E c \in Call : TaskBegins(c) \/ ToolEnds(c)
  <2>1. PICK c \in Call : TaskBegins(c) \/ ToolEnds(c)
    BY <1>3
  <2>2. CASE TaskStarts(c) \/ ToolLost(c)
    BY <1>1, <2>2, SilentTaskStep, UnchangedConserved DEF bufferVars
  <2>3. CASE /\ task[c] \in {"scheduled", "executing"}
             /\ \E urgent \in BOOLEAN : AnswerAndMark(c, urgent)
    BY <2>3, AnswerConserved
  <2> QED BY <2>1, <2>2, <2>3, TaskSteps
<1>4. CASE UNCHANGED vars
  <2>1. Answered' = Answered
    BY <1>4 DEF vars, Answered
  <2> QED BY <1>1, <1>4, <2>1, UnchangedConserved DEF vars, bufferVars
<1> QED BY <1>2, <1>3, <1>4 DEF Next

\* Every answer given is read or waits in the list, in one place only, and no
\* call is answered twice.
THEOREM AnswersAreConserved == Spec => []AnswersConserved
<1>1. Init => Conserved
  BY InitTracked DEF Init, Buffer!Init, Conserved, AnswersIn, Answered, OneAnswerEach
<1>2. Conserved => AnswersConserved
  BY DEF Conserved, OneAnswerEach, AnswersConserved
<1> QED BY <1>1, <1>2, NextConserved, PTL DEF Spec
=============================================================================
