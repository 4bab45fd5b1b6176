-------------------------- MODULE Heartbeat_proofs --------------------------
(***************************************************************************)
(* Facts about the heartbeat for every number of stimuli, every set of     *)
(* kinds that may arrive and every retry cap.                              *)
(***************************************************************************)
EXTENDS Heartbeat, TLAPS

BufferProofs == INSTANCE StimulusBuffer_proofs WITH MaxQueue <- 0

-----------------------------------------------------------------------------
(* Types *)

\* TypeOK without the buffer's part.
BeatTypeOK ==
  /\ phase \in PhaseNames
  /\ stop \in BOOLEAN /\ wantSleep \in BOOLEAN
  /\ scan \subseteq Outside /\ batch \subseteq Outside
  /\ folded \subseteq Outside /\ uncovered \subseteq Outside
  /\ session \subseteq Outside
  /\ retries \in [1..MaxArrivals -> Nat]
  /\ fatigue \in {"rested", "tired", "exhausted"}
  /\ arrived \in 0..MaxArrivals
  /\ shown \in [1..MaxArrivals -> Nat]
  /\ runs \in [1..MaxArrivals -> Nat]
  /\ ingested \subseteq 1..MaxArrivals

LEMMA TypeSplit == TypeOK <=> Buffer!TypeOK /\ BeatTypeOK
BY DEF TypeOK, BeatTypeOK

LEMMA NotesAreStimuli == Note(TRUE) \in Stimulus /\ Note(FALSE) \in Stimulus
BY DEF Stimulus

LEMMA WaitingIsOutside == Waiting \subseteq Outside
BY DEF Waiting

USE DEF bufferVars, beatVars, recallVars, historyVars

LEMMA CommandsType ==
  ASSUME BeatTypeOK, Commands
  PROVE  BeatTypeOK'
<1>1. CASE RunStatus
  BY <1>1 DEF RunStatus, Interpret, NextCommand, Scanning, BeatTypeOK, Outside
<1>2. CASE RunSleep
  BY <1>2 DEF RunSleep, Interpret, NextCommand, Scanning, BeatTypeOK, Outside
<1>3. CASE RunKill
  <2>1. runs' \in [1..MaxArrivals -> Nat]
    BY <1>3 DEF RunKill, Interpret, NextCommand, BeatTypeOK, Outside
  <2>2. /\ stop' = TRUE /\ wantSleep' = FALSE /\ phase' = "poll"
        /\ scan' = {} /\ batch' = {} /\ folded' = {} /\ fatigue' = "rested"
        /\ UNCHANGED <<retries, uncovered, session, arrived, shown, ingested>>
    BY <1>3 DEF RunKill, Interpret
  <2> QED BY <2>1, <2>2 DEF BeatTypeOK, PhaseNames
<1>4. CASE RunBareSlash
  <2>1. runs' \in [1..MaxArrivals -> Nat]
    BY <1>4 DEF RunBareSlash, Interpret, NextCommand, BeatTypeOK, Outside
  <2>2. /\ phase' = "crashed"
        /\ UNCHANGED <<stop, scan, wantSleep, batch, folded, fatigue, retries>>
        /\ UNCHANGED <<uncovered, session, arrived, shown, ingested>>
    BY <1>4 DEF RunBareSlash, Interpret
  <2> QED BY <2>1, <2>2 DEF BeatTypeOK, PhaseNames
<1>5. CASE ScanDone
  <2>1. phase' \in PhaseNames
    BY <1>5 DEF ScanDone, PhaseNames
  <2>2. scan' = {} /\ wantSleep' = FALSE
    BY <1>5 DEF ScanDone
  <2>3. batch' \subseteq Outside /\ folded' \subseteq Outside
    BY <1>5 DEF ScanDone, WithScanned, BeatTypeOK
  <2>4. session' \subseteq Outside
    BY <1>5, <2>3 DEF ScanDone, BeatTypeOK
  <2>5. UNCHANGED <<stop, uncovered, fatigue, retries, arrived, historyVars>>
    BY <1>5 DEF ScanDone
  <2> QED BY <2>1, <2>2, <2>3, <2>4, <2>5 DEF BeatTypeOK
<1> QED BY <1>1, <1>2, <1>3, <1>4, <1>5 DEF Commands

LEMMA BeforeSelfType ==
  ASSUME BeatTypeOK, BeforeSelf
  PROVE  BeatTypeOK'
<1>1. CASE LeaveLoop
  BY <1>1 DEF LeaveLoop, BeatTypeOK, PhaseNames
<1>2. CASE BeginBeat
  BY <1>2, WaitingIsOutside DEF BeginBeat, TakeAll, BeatTypeOK, PhaseNames
<1>3. CASE Commands
  BY <1>3, CommandsType
<1>4. CASE ComputeFatigue
  BY <1>4 DEF ComputeFatigue, BeatTypeOK, PhaseNames
<1>5. CASE Compact
  BY <1>5 DEF Compact, BeatTypeOK, PhaseNames
<1>6. CASE FinalizeRecall
  BY <1>6 DEF FinalizeRecall, BeatTypeOK, PhaseNames
<1>7. CASE PushBack
  BY <1>7 DEF PushBack, RetriesAfter, BeatTypeOK, Outside
<1>8. CASE PushBackDone
  BY <1>8 DEF PushBackDone, BeatTypeOK, PhaseNames
<1> QED BY <1>1, <1>2, <1>3, <1>4, <1>5, <1>6, <1>7, <1>8 DEF BeforeSelf

LEMMA RunSelfType ==
  ASSUME BeatTypeOK, RunSelf
  PROVE  BeatTypeOK'
<1>1. CASE EnforceBudget
  BY <1>1 DEF EnforceBudget, BeatTypeOK, PhaseNames
<1>2. CASE CallSelf
  BY <1>2 DEF CallSelf, BeatTypeOK, PhaseNames
<1>3. CASE GiveUp
  BY <1>3 DEF GiveUp, BeatTypeOK, PhaseNames
<1>4. CASE CallFails
  BY <1>4 DEF CallFails, BeatTypeOK, PhaseNames
<1>5. CASE RetryInterrupted
  BY <1>5, WaitingIsOutside DEF RetryInterrupted, TakeAll, BeatTypeOK, PhaseNames
<1>6. CASE SelfAnswers
  BY <1>6 DEF SelfAnswers, BeatTypeOK, PhaseNames
<1> QED BY <1>1, <1>2, <1>3, <1>4, <1>5, <1>6 DEF RunSelf

LEMMA AfterSelfType ==
  ASSUME BeatTypeOK, AfterSelf
  PROVE  BeatTypeOK'
<1>1. CASE IngestFeedback
  BY <1>1 DEF IngestFeedback, BeatTypeOK, PhaseNames, Outside
<1>2. CASE ApplyDecision
  BY <1>2 DEF ApplyDecision, EnterIdle, AskSleep, BeatTypeOK, PhaseNames
<1>3. CASE ReportDecision
  BY <1>3 DEF ReportDecision, EnterIdle, AskSleep, BeatTypeOK, PhaseNames
<1>4. CASE RefuseSleep
  BY <1>4 DEF RefuseSleep, EnterIdle, BeatTypeOK, PhaseNames
<1>5. CASE GrantSleep
  BY <1>5 DEF GrantSleep, BeatTypeOK, PhaseNames
<1>6. CASE SleepDone
  BY <1>6 DEF SleepDone, EndBeatBySleep, BeatTypeOK, PhaseNames
<1>7. CASE SleepNoop
  BY <1>7 DEF SleepNoop, EndBeatBySleep, BeatTypeOK, PhaseNames
<1>8. CASE SleepFails
  BY <1>8 DEF SleepFails, EndBeatBySleep, BeatTypeOK, PhaseNames
<1>9. CASE IdlePeek
  BY <1>9 DEF IdlePeek, BeatTypeOK, PhaseNames
<1>10. CASE IdleBreak \/ IdleAgain
  BY <1>10 DEF IdleBreak, IdleAgain, BeatTypeOK, PhaseNames
<1> QED BY <1>1, <1>2, <1>3, <1>4, <1>5, <1>6, <1>7, <1>8, <1>9, <1>10
        DEF AfterSelf

LEMMA NextType ==
  ASSUME BeatTypeOK, [Next]_vars
  PROVE  BeatTypeOK'
<1>1. CASE Beat
  BY <1>1, BeforeSelfType, RunSelfType, AfterSelfType DEF Beat
<1>2. CASE Timeout
  BY <1>2 DEF Timeout, RetryTimeout, IdleTimeout, BeatTypeOK, PhaseNames
<1>3. CASE Arrive
  BY <1>3, BoundsAssumption DEF Arrive, BeatTypeOK
<1>4. CASE RequestStop
  BY <1>4 DEF RequestStop, BeatTypeOK
<1>5. CASE Ended
  BY <1>5 DEF Ended, vars, BeatTypeOK
<1>6. CASE UNCHANGED vars
  BY <1>6 DEF vars, BeatTypeOK
<1> QED BY <1>1, <1>2, <1>3, <1>4, <1>5, <1>6 DEF Next

-----------------------------------------------------------------------------
(* Use of the buffer *)

\* A step of the heartbeat is one operation of the buffer or none.
LEMMA CommandsUseBuffer ==
  ASSUME Commands
  PROVE  [Buffer!Operation]_bufferVars
<1>1. CASE RunStatus
  BY <1>1, NotesAreStimuli DEF RunStatus, Buffer!Operation
<1>2. CASE RunSleep \/ RunKill \/ RunBareSlash \/ ScanDone
  BY <1>2 DEF RunSleep, RunKill, RunBareSlash, ScanDone
<1> QED BY <1>1, <1>2 DEF Commands

LEMMA BeforeSelfUsesBuffer ==
  ASSUME BeatTypeOK, BeforeSelf
  PROVE  [Buffer!Operation]_bufferVars
<1>1. CASE LeaveLoop \/ ComputeFatigue \/ Compact \/ FinalizeRecall
  BY <1>1 DEF LeaveLoop, ComputeFatigue, Compact, FinalizeRecall
<1>2. CASE BeginBeat
  BY <1>2 DEF BeginBeat, TakeAll, Buffer!Operation
<1>3. CASE Commands
  BY <1>3, CommandsUseBuffer
<1>4. CASE PushBack
  BY <1>4 DEF PushBack, BeatTypeOK, Stimulus, Buffer!Operation
<1>5. CASE PushBackDone
  <2>1. CASE UNCHANGED bufferVars
    BY <2>1
  <2>2. CASE \E urgent \in BOOLEAN : Buffer!Push(Note(urgent))
    BY <2>2, NotesAreStimuli DEF Buffer!Operation
  <2> QED BY <1>5, <2>1, <2>2 DEF PushBackDone
<1> QED BY <1>1, <1>2, <1>3, <1>4, <1>5 DEF BeforeSelf

LEMMA RunSelfUsesBuffer ==
  ASSUME RunSelf
  PROVE  [Buffer!Operation]_bufferVars
<1>1. CASE RetryInterrupted
  BY <1>1 DEF RetryInterrupted, TakeAll, Buffer!Operation
<1>2. CASE EnforceBudget \/ CallSelf \/ GiveUp \/ CallFails \/ SelfAnswers
  BY <1>2 DEF EnforceBudget, CallSelf, GiveUp, CallFails, SelfAnswers
<1> QED BY <1>1, <1>2 DEF RunSelf

LEMMA AfterSelfUsesBuffer ==
  ASSUME AfterSelf
  PROVE  [Buffer!Operation]_bufferVars
<1>1. CASE IngestFeedback \/ ApplyDecision \/ GrantSleep \/ SleepNoop
             \/ IdleBreak \/ IdleAgain
  BY <1>1 DEF IngestFeedback, ApplyDecision, GrantSleep, SleepNoop, IdleBreak,
              IdleAgain
<1>2. CASE ReportDecision \/ RefuseSleep \/ SleepDone \/ SleepFails
  BY <1>2, NotesAreStimuli
     DEF ReportDecision, RefuseSleep, SleepDone, SleepFails, Buffer!Operation
<1>3. CASE IdlePeek
  BY <1>3 DEF IdlePeek, Buffer!Operation
<1> QED BY <1>1, <1>2, <1>3 DEF AfterSelf

LEMMA NextUsesBuffer ==
  ASSUME BeatTypeOK, [Next]_vars
  PROVE  [Buffer!Operation]_bufferVars
<1>1. CASE Beat
  BY <1>1, BeforeSelfUsesBuffer, RunSelfUsesBuffer, AfterSelfUsesBuffer DEF Beat
<1>2. CASE Arrive
  <2>1. PICK a \in Arrivals :
          Buffer!Push([id |-> arrived + 1, kind |-> a.kind,
                       adrenalin |-> a.adrenalin])
    BY <1>2 DEF Arrive
  <2>2. arrived + 1 \in 1..MaxArrivals
    BY <1>2, BoundsAssumption DEF Arrive, BeatTypeOK
  <2>3. a.kind \in OutsideKinds /\ a.adrenalin \in BOOLEAN
    BY ArrivalsAssumption
  <2>4. [id |-> arrived + 1, kind |-> a.kind, adrenalin |-> a.adrenalin]
          \in Stimulus
    BY <2>2, <2>3 DEF Stimulus, Outside
  <2> QED BY <2>1, <2>4 DEF Buffer!Operation
<1>3. CASE Timeout \/ RequestStop
  BY <1>3 DEF Timeout, RetryTimeout, IdleTimeout, RequestStop
<1>4. CASE Ended \/ UNCHANGED vars
  BY <1>4 DEF Ended, vars
<1> QED BY <1>1, <1>2, <1>3, <1>4 DEF Next

-----------------------------------------------------------------------------
(* Theorems *)

LEMMA InitType == Init => BeatTypeOK
<1> SUFFICES ASSUME Init PROVE BeatTypeOK
  OBVIOUS
<1>1. stop \in BOOLEAN /\ wantSleep \in BOOLEAN
  BY Zenon DEF Init
<1>2. arrived \in 0..MaxArrivals
  BY BoundsAssumption DEF Init
<1>3. /\ retries \in [1..MaxArrivals -> Nat]
      /\ shown \in [1..MaxArrivals -> Nat]
      /\ runs \in [1..MaxArrivals -> Nat]
  BY DEF Init
<1>4. phase \in PhaseNames /\ fatigue \in {"rested", "tired", "exhausted"}
  BY DEF Init, PhaseNames
<1>5. /\ scan = {} /\ batch = {} /\ folded = {} /\ uncovered = {}
      /\ session = {} /\ ingested = {}
  BY DEF Init
<1> QED BY <1>1, <1>2, <1>3, <1>4, <1>5 DEF BeatTypeOK

LEMMA BeatTypeCorrect == Spec => []BeatTypeOK
<1>1. BeatTypeOK /\ [Next]_vars => BeatTypeOK'
  BY NextType
<1> QED BY <1>1, InitType, PTL DEF Spec

\* So what is proved of the buffer holds in the heartbeat.
LEMMA StimulusAssumptionHolds == \A s \in Stimulus : s.adrenalin \in BOOLEAN
<1> TAKE s \in Stimulus
<1>1. CASE s \in Outside
  BY <1>1 DEF Outside
<1>2. CASE s = Note(TRUE)
  BY <1>2, Zenon DEF Note
<1>3. CASE s = Note(FALSE)
  BY <1>3, Zenon DEF Note
<1> QED BY <1>1, <1>2, <1>3 DEF Stimulus

LEMMA SameOperation == Buffer!Operation <=> BufferProofs!Operation
BY DEF Buffer!Operation, BufferProofs!Operation, Buffer!Push,
       BufferProofs!Push, Buffer!PushAll, BufferProofs!PushAll, Buffer!Drain,
       BufferProofs!Drain, Buffer!PeekUnrecalled, BufferProofs!PeekUnrecalled,
       Buffer!Urgent, BufferProofs!Urgent

LEMMA OperationKeepsExact ==
  ASSUME BufferProofs!Exact, [Buffer!Operation]_bufferVars
  PROVE  BufferProofs!Exact'
<1>1. [BufferProofs!Operation]_(BufferProofs!bufferVars)
  BY SameOperation DEF BufferProofs!bufferVars
<1> QED BY <1>1, StimulusAssumptionHolds, BufferProofs!OperationExact

LEMMA HeartbeatBufferExact == Spec => []BufferProofs!Exact
<1>1. Init => BufferProofs!Exact
  <2>1. Init => BufferProofs!Init
    BY DEF Init, Buffer!Init, BufferProofs!Init
  <2> QED BY <2>1, StimulusAssumptionHolds, BufferProofs!InitExact
<1>2. BeatTypeOK /\ BufferProofs!Exact /\ [Next]_vars => BufferProofs!Exact'
  BY NextUsesBuffer, OperationKeepsExact
<1> QED BY <1>1, <1>2, BeatTypeCorrect, PTL DEF Spec

\* The variables of the heartbeat keep their types.
THEOREM TypeCorrect == Spec => []TypeOK
<1>1. BufferProofs!Exact /\ BeatTypeOK => TypeOK
  BY TypeSplit DEF BufferProofs!Exact, BufferProofs!TypeOK, Buffer!TypeOK
<1> QED BY <1>1, BeatTypeCorrect, HeartbeatBufferExact, PTL

\* In the heartbeat too the urgent event is set exactly while something urgent
\* waits: neither idle nor a retry wait is cut short for nothing.
THEOREM UrgencyCorrect == Spec => []Buffer!AdrenalinEventExact
<1>1. BufferProofs!Exact => Buffer!AdrenalinEventExact
  BY DEF BufferProofs!Exact, BufferProofs!AdrenalinEventExact,
         Buffer!AdrenalinEventExact, BufferProofs!Urgent, Buffer!Urgent
<1> QED BY <1>1, HeartbeatBufferExact, PTL

-----------------------------------------------------------------------------
(* Commands *)

\* batch and folded change at the end of a scan, when no command is left in
\* it, from each other, or to nothing.
LEMMA ScanKeepsCommandsOut ==
  ASSUME CommandsOutOfBand, Commands
  PROVE  CommandsOutOfBand'
<1>1. CASE RunStatus \/ RunSleep \/ RunBareSlash
  BY <1>1 DEF RunStatus, RunSleep, RunBareSlash, CommandsOutOfBand, IsCommand
<1>2. CASE RunKill
  BY <1>2 DEF RunKill, CommandsOutOfBand
<1>3. CASE ScanDone
  <2>1. \A s \in scan : ~IsCommand(s)
    BY <1>3 DEF ScanDone
  <2>2. batch' \subseteq batch \cup scan /\ folded' \subseteq folded \cup scan
    BY <1>3 DEF ScanDone, WithScanned
  <2> QED BY <2>1, <2>2 DEF CommandsOutOfBand, IsCommand
<1> QED BY <1>1, <1>2, <1>3 DEF Commands

LEMMA BeforeSelfKeepsCommandsOut ==
  ASSUME CommandsOutOfBand, BeforeSelf
  PROVE  CommandsOutOfBand'
<1>1. CASE Commands
  BY <1>1, ScanKeepsCommandsOut
<1>2. ASSUME ~Commands PROVE UNCHANGED <<batch, folded>>
  BY <1>2 DEF BeforeSelf, LeaveLoop, BeginBeat, ComputeFatigue, Compact,
              FinalizeRecall, PushBack, PushBackDone
<1> QED BY <1>1, <1>2 DEF CommandsOutOfBand, IsCommand

LEMMA RunSelfKeepsCommandsOut ==
  ASSUME CommandsOutOfBand, RunSelf
  PROVE  CommandsOutOfBand'
<1>1. CASE EnforceBudget
  BY <1>1 DEF EnforceBudget, CommandsOutOfBand, IsCommand
<1>2. CASE GiveUp
  BY <1>2 DEF GiveUp, CommandsOutOfBand
<1>3. CASE CallSelf \/ CallFails \/ RetryInterrupted \/ SelfAnswers
  BY <1>3 DEF CallSelf, CallFails, RetryInterrupted, SelfAnswers,
              CommandsOutOfBand, IsCommand
<1> QED BY <1>1, <1>2, <1>3 DEF RunSelf

LEMMA AfterSelfKeepsCommandsOut ==
  ASSUME CommandsOutOfBand, AfterSelf
  PROVE  CommandsOutOfBand'
<1>1. \/ UNCHANGED <<batch, folded>>
      \/ batch' = {} /\ folded' = {}
  BY DEF AfterSelf, IngestFeedback, ApplyDecision, ReportDecision, RefuseSleep,
         GrantSleep, SleepDone, SleepNoop, SleepFails, IdlePeek, IdleBreak,
         IdleAgain, EnterIdle, AskSleep, EndBeatBySleep
<1> QED BY <1>1 DEF CommandsOutOfBand, IsCommand

\* No slash command is ever part of what Self is shown or of what the beat
\* saves and ingests.
THEOREM CommandsStayOutOfBand == Spec => []CommandsOutOfBand
<1>1. Init => CommandsOutOfBand
  BY DEF Init, CommandsOutOfBand
<1>2. CommandsOutOfBand /\ [Next]_vars => CommandsOutOfBand'
  <2> SUFFICES ASSUME CommandsOutOfBand, [Next]_vars
               PROVE  CommandsOutOfBand'
    OBVIOUS
  <2>1. CASE Beat
    BY <2>1, BeforeSelfKeepsCommandsOut, RunSelfKeepsCommandsOut,
       AfterSelfKeepsCommandsOut DEF Beat
  <2>2. ASSUME ~Beat PROVE UNCHANGED <<batch, folded>>
    BY <2>2 DEF Next, Timeout, RetryTimeout, IdleTimeout, Arrive, RequestStop,
                Ended, vars
  <2> QED BY <2>1, <2>2 DEF CommandsOutOfBand, IsCommand
<1> QED BY <1>1, <1>2, PTL DEF Spec

-----------------------------------------------------------------------------
(* What the delivery properties rest on                                     *)

\* All the places an outside stimulus can be in.
Objects == Waiting \cup scan \cup batch \cup folded \cup uncovered \cup session

\* Every stimulus has arrived, and no two of them share an id.
ObjectsKnown ==
  /\ \A s \in Objects : s.id <= arrived
  /\ \A s, t \in Objects : s.id = t.id => s = t

HeadPhases == {"fatigue", "compact", "finalize", "pushback", "budget"}

SelfPhases == {"self", "calling", "retrywait", "interrupted", "recommands"}

AnsweredPhases == {"ingest", "apply", "asksleep"}

BetweenPhases == {"poll", "commands", "idle", "preloading", "stopped"}

\* Which of the beat's lists hold something in which phase, and that the
\* prompt's list holds at least the beat's.
ListsInPhase ==
  /\ phase \notin {"commands", "recommands", "crashed"} => scan = {}
  /\ phase \in BetweenPhases => batch = {}
  /\ phase \in BetweenPhases \cup HeadPhases => folded = {}
  /\ phase \in SelfPhases \cup AnsweredPhases => batch \subseteq folded

\* What recall is working on, or has left uncovered, has been drained; so has
\* what is being scanned for commands.
RecallIsDrained ==
  /\ scan \cap Waiting = {}
  /\ phase \in {"commands", "fatigue", "compact", "finalize"} =>
       session \cap Waiting = {}
  /\ phase = "pushback" => uncovered \cap Waiting = {}

\* Only idle peeks, and the drain at the head of a beat undoes it.
NothingPeeked ==
  phase \notin {"poll", "idle", "preloading", "stopped"} => recalledUpTo = 0

\* What is about to be shown, and what waits to be.
ToBeShown ==
  IF phase \in HeadPhases THEN batch
  ELSE IF phase \in SelfPhases THEN folded
  ELSE {}

Due(i, S) == IF i \in IdsOf(S) THEN 1 ELSE 0

\* Each delivery beyond the first is paid for by a push-back that was counted.
DeliveriesPaid ==
  /\ \A i \in 1..MaxArrivals :
       /\ shown[i] + Due(i, Waiting \cup scan) + Due(i, ToBeShown) <= retries[i] + 1
       /\ retries[i] <= MaxRecallRetries
       /\ i > arrived => shown[i] = 0
  /\ phase = "pushback" => \A s \in uncovered : retries[s.id] < MaxRecallRetries

\* After the answer everything of the beat has been shown.
AnsweredIsShown ==
  phase \in AnsweredPhases => \A s \in folded : shown[s.id] > 0

HeartbeatInv ==
  /\ BufferProofs!Exact /\ BeatTypeOK
  /\ ObjectsKnown /\ ListsInPhase /\ RecallIsDrained /\ NoDuplicateWaiting
  /\ NothingPeeked /\ PreloadMatchesPeeked
  /\ DeliveriesPaid /\ AnsweredIsShown

Basic == BufferProofs!Exact /\ BeatTypeOK

LEMMA BasicInvariant == Spec => []Basic
BY BeatTypeCorrect, HeartbeatBufferExact, PTL DEF Basic

LEMMA NextBasic ==
  ASSUME Basic, [Next]_vars
  PROVE  Basic'
BY NextType, NextUsesBuffer, OperationKeepsExact DEF Basic

LEMMA NotesAreNotOutside ==
  ASSUME NEW b \in BOOLEAN
  PROVE  Note(b) \in Stimulus /\ Note(b) \notin Outside
<1>1. Note(b).id = 0
  BY DEF Note
<1>2. Note(b) \notin Outside
  BY <1>1 DEF Outside
<1>3. b = TRUE \/ b = FALSE
  OBVIOUS
<1>4. Note(b) \in Stimulus
  BY <1>3, NotesAreStimuli
<1> QED BY <1>2, <1>4

\* What one push does to the list and to what waits in it.
LEMMA PushEffect ==
  ASSUME Basic, NEW s \in Stimulus, Buffer!Push(s)
  PROVE  /\ Len(queue) \in Nat /\ Len(queue') = Len(queue) + 1
         /\ \A i \in 1..Len(queue) : queue'[i] = queue[i]
         /\ queue'[Len(queue) + 1] = s
         /\ recalledUpTo' = recalledUpTo
         /\ Waiting' = Waiting \cup ({s} \cap Outside)
<1>1. queue \in Seq(Stimulus) /\ <<s>> \in Seq(Stimulus) /\ Len(<<s>>) = 1
  BY DEF Basic, BufferProofs!Exact, BufferProofs!TypeOK
<1>2. queue' = queue \o <<s>> /\ recalledUpTo' = recalledUpTo
  BY DEF Buffer!Push, Buffer!PushAll
<1>3. /\ Len(queue) \in Nat /\ Len(queue') = Len(queue) + 1
      /\ \A i \in 1..Len(queue) : queue'[i] = queue[i]
      /\ queue'[Len(queue) + 1] = s
  BY <1>1, <1>2
<1>4. Buffer!Elements(queue') = Buffer!Elements(queue) \cup {s}
  <2>1. ASSUME NEW i \in 1..Len(queue')
        PROVE  queue'[i] \in Buffer!Elements(queue) \cup {s}
    BY <1>3 DEF Buffer!Elements
  <2>2. ASSUME NEW i \in 1..Len(queue) PROVE queue[i] \in Buffer!Elements(queue')
    <3>1. i \in 1..Len(queue') /\ queue'[i] = queue[i]
      BY <1>3
    <3> QED BY <3>1 DEF Buffer!Elements
  <2>3. s \in Buffer!Elements(queue')
    <3>1. Len(queue) + 1 \in 1..Len(queue')
      BY <1>3
    <3> QED BY <1>3, <3>1 DEF Buffer!Elements
  <2> QED BY <2>1, <2>2, <2>3 DEF Buffer!Elements
<1> QED BY <1>2, <1>3, <1>4 DEF Waiting

LEMMA NotePushEffect ==
  ASSUME Basic, NEW b \in BOOLEAN, Buffer!Push(Note(b))
  PROVE  Waiting' = Waiting
BY PushEffect, NotesAreNotOutside

LEMMA DrainEffect ==
  ASSUME Buffer!Drain
  PROVE  queue' = <<>> /\ recalledUpTo' = 0 /\ Waiting' = {}
<1>1. queue' = <<>> /\ recalledUpTo' = 0
  BY DEF Buffer!Drain
<1>2. Buffer!Elements(queue') = {}
  BY <1>1 DEF Buffer!Elements
<1> QED BY <1>1, <1>2 DEF Waiting

\* The step in which something new comes in.
NewArrival(s) ==
  /\ ~Halted /\ ~Uninterrupted
  /\ s \in Outside /\ s.id = arrived + 1 /\ arrived' = arrived + 1
  /\ Buffer!Push(s)
  /\ UNCHANGED <<stop, beatVars, recallVars, historyVars>>

LEMMA ArriveEffect ==
  ASSUME Basic, Arrive
  PROVE  \E s \in Outside : NewArrival(s) /\ Waiting' = Waiting \cup {s}
<1>1. PICK a \in Arrivals :
        Buffer!Push([id |-> arrived + 1, kind |-> a.kind, adrenalin |-> a.adrenalin])
  BY DEF Arrive
<1> DEFINE s == [id |-> arrived + 1, kind |-> a.kind, adrenalin |-> a.adrenalin]
<1>2. arrived + 1 \in 1..MaxArrivals
  BY BoundsAssumption DEF Arrive, Basic, BeatTypeOK
<1>3. a.kind \in OutsideKinds /\ a.adrenalin \in BOOLEAN
  BY ArrivalsAssumption
<1>4. s \in Outside /\ s.id = arrived + 1
  BY <1>2, <1>3 DEF Outside
<1> HIDE DEF s
<1>5. Waiting' = Waiting \cup {s}
  BY <1>1, <1>4, PushEffect DEF Stimulus, s
<1> QED BY <1>1, <1>4, <1>5 DEF Arrive, NewArrival, s

\* Steps other than arrivals, push-backs and drains at most push a note; only
\* idle peeks.
LEMMA QueueUse ==
  ASSUME [Next]_vars, ~Arrive, ~PushBack, ~BeginBeat, ~RetryInterrupted
  PROVE  \/ UNCHANGED <<queue, recalledUpTo>>
         \/ IdlePeek /\ queue' = queue
         \/ \E b \in BOOLEAN : Buffer!Push(Note(b))
<1>1. CASE Commands
  BY <1>1 DEF Commands, RunStatus, RunSleep, RunKill, RunBareSlash, ScanDone
<1>2. CASE BeforeSelf /\ ~Commands
  BY <1>2 DEF BeforeSelf, LeaveLoop, ComputeFatigue, Compact, FinalizeRecall,
              PushBackDone
<1>3. CASE RunSelf
  BY <1>3 DEF RunSelf, EnforceBudget, CallSelf, GiveUp, CallFails, SelfAnswers
<1>4. CASE AfterSelf
  BY <1>4 DEF AfterSelf, IngestFeedback, ApplyDecision, ReportDecision,
     RefuseSleep, GrantSleep, SleepDone, SleepNoop, SleepFails, IdlePeek,
     IdleBreak, IdleAgain, Buffer!PeekUnrecalled
<1>5. CASE Timeout \/ RequestStop \/ Ended \/ UNCHANGED vars
  BY <1>5 DEF Timeout, RetryTimeout, IdleTimeout, RequestStop, Ended, vars
<1> QED BY <1>1, <1>2, <1>3, <1>4, <1>5 DEF Next, Beat

\* Steps other than arrivals, push-backs and drains leave alone what waits.
LEMMA WaitingStays ==
  ASSUME Basic, [Next]_vars, ~Arrive, ~PushBack, ~BeginBeat, ~RetryInterrupted
  PROVE  Waiting' = Waiting
<1>1. CASE queue' = queue
  BY <1>1 DEF Waiting, Buffer!Elements
<1>2. CASE \E b \in BOOLEAN : Buffer!Push(Note(b))
  BY <1>2, NotePushEffect
<1> QED BY <1>1, <1>2, QueueUse

-----------------------------------------------------------------------------
(* Where the stimuli are                                                    *)

LEMMA CommandsKeepObjects ==
  ASSUME Commands, Waiting' = Waiting
  PROVE  Objects' \subseteq Objects /\ arrived' = arrived
<1>1. CASE RunStatus
  BY <1>1 DEF RunStatus, Interpret, Objects
<1>2. CASE RunSleep
  BY <1>2 DEF RunSleep, Interpret, Objects
<1>3. CASE RunKill \/ RunBareSlash
  BY <1>3 DEF RunKill, RunBareSlash, Interpret, Objects
<1>4. CASE ScanDone
  BY <1>4 DEF ScanDone, WithScanned, Objects
<1> QED BY <1>1, <1>2, <1>3, <1>4 DEF Commands

LEMMA BeforeSelfKeepsObjects ==
  ASSUME BeforeSelf, Basic, ~PushBack, ~BeginBeat, Waiting' = Waiting
  PROVE  Objects' \subseteq Objects /\ arrived' = arrived
<1>1. CASE Commands
  BY <1>1, CommandsKeepObjects
<1>2. CASE FinalizeRecall
  BY <1>2 DEF FinalizeRecall, Objects
<1>3. CASE LeaveLoop \/ ComputeFatigue \/ Compact \/ PushBackDone
  BY <1>3 DEF LeaveLoop, ComputeFatigue, Compact, PushBackDone, Objects
<1> QED BY <1>1, <1>2, <1>3 DEF BeforeSelf

LEMMA RunSelfKeepsObjects ==
  ASSUME RunSelf, ~RetryInterrupted, Waiting' = Waiting
  PROVE  Objects' \subseteq Objects /\ arrived' = arrived
<1>1. CASE EnforceBudget
  BY <1>1 DEF EnforceBudget, Objects
<1>2. CASE CallSelf \/ GiveUp \/ CallFails \/ SelfAnswers
  BY <1>2 DEF CallSelf, GiveUp, CallFails, SelfAnswers, Objects
<1> QED BY <1>1, <1>2 DEF RunSelf

\* What idle shows to recall is part of what waits.
LEMMA UnrecalledIsWaiting ==
  ASSUME Basic
  PROVE  /\ Buffer!Elements(Buffer!Unrecalled) =
              {queue[i] : i \in (recalledUpTo + 1)..Len(queue)}
         /\ Buffer!Elements(Buffer!Unrecalled) \cap Outside \subseteq Waiting
<1>1. queue \in Seq(Stimulus) /\ recalledUpTo \in Nat /\ recalledUpTo <= Len(queue)
  BY DEF Basic, BufferProofs!Exact, BufferProofs!TypeOK, BufferProofs!NewEventExact
<1> DEFINE rest == SubSeq(queue, recalledUpTo + 1, Len(queue))
<1>2. /\ Len(rest) = Len(queue) - recalledUpTo
      /\ \A i \in 1..Len(rest) : rest[i] = queue[recalledUpTo + i]
  BY <1>1
<1>3. Buffer!Elements(Buffer!Unrecalled) = {rest[i] : i \in 1..Len(rest)}
  BY DEF Buffer!Elements, Buffer!Unrecalled
<1> HIDE DEF rest
<1>4. {rest[i] : i \in 1..Len(rest)} = {queue[i] : i \in (recalledUpTo + 1)..Len(queue)}
  <2>1. ASSUME NEW i \in 1..Len(rest)
        PROVE  rest[i] \in {queue[j] : j \in (recalledUpTo + 1)..Len(queue)}
    <3>1. recalledUpTo + i \in (recalledUpTo + 1)..Len(queue)
      BY <1>1, <1>2
    <3> QED BY <1>2, <3>1
  <2>2. ASSUME NEW i \in (recalledUpTo + 1)..Len(queue)
        PROVE  queue[i] \in {rest[j] : j \in 1..Len(rest)}
    <3>1. i - recalledUpTo \in 1..Len(rest) /\ rest[i - recalledUpTo] = queue[i]
      BY <1>1, <1>2
    <3> QED BY <3>1
  <2> QED BY <2>1, <2>2
<1>5. \A i \in (recalledUpTo + 1)..Len(queue) : i \in 1..Len(queue)
  BY <1>1
<1> QED BY <1>3, <1>4, <1>5 DEF Waiting, Buffer!Elements

LEMMA AfterSelfKeepsObjects ==
  ASSUME AfterSelf, Basic, Waiting' = Waiting
  PROVE  Objects' \subseteq Objects /\ arrived' = arrived
<1>1. CASE IdlePeek
  BY <1>1, UnrecalledIsWaiting DEF IdlePeek, Objects
<1>2. CASE IngestFeedback \/ ApplyDecision \/ ReportDecision \/ RefuseSleep
  BY <1>2 DEF IngestFeedback, ApplyDecision, ReportDecision, RefuseSleep,
              EnterIdle, AskSleep, Objects
<1>3. CASE GrantSleep \/ SleepDone \/ SleepNoop \/ SleepFails
  BY <1>3 DEF GrantSleep, SleepDone, SleepNoop, SleepFails, EndBeatBySleep, Objects
<1>4. CASE IdleBreak \/ IdleAgain
  BY <1>4 DEF IdleBreak, IdleAgain, Objects
<1> QED BY <1>1, <1>2, <1>3, <1>4 DEF AfterSelf

\* A beat moves stimuli about, and takes in none but those that arrive.
LEMMA BeatKeepsObjects ==
  ASSUME Basic, [Next]_vars, ~Arrive
  PROVE  Objects' \subseteq Objects /\ arrived' = arrived
<1>1. CASE PushBack
  <2>1. PICK s \in uncovered : Buffer!Push(s) /\ uncovered' = uncovered \ {s}
    BY <1>1 DEF PushBack
  <2>2. s \in Stimulus
    BY DEF Basic, BeatTypeOK, Stimulus
  <2>3. Waiting' \subseteq Waiting \cup {s}
    BY <2>1, <2>2, PushEffect
  <2> QED BY <1>1, <2>1, <2>3 DEF PushBack, Objects
<1>2. CASE BeginBeat
  BY <1>2, DrainEffect DEF BeginBeat, TakeAll, Objects
<1>3. CASE RetryInterrupted
  BY <1>3, DrainEffect DEF RetryInterrupted, TakeAll, Objects
<1>4. CASE ~PushBack /\ ~BeginBeat /\ ~RetryInterrupted
  <2>1. Waiting' = Waiting
    BY <1>4, WaitingStays
  <2>2. CASE Timeout \/ RequestStop \/ Ended \/ UNCHANGED vars
    BY <2>1, <2>2 DEF Timeout, RetryTimeout, IdleTimeout, RequestStop, Ended, vars,
                      Objects
  <2> QED BY <1>4, <2>1, <2>2, BeforeSelfKeepsObjects, RunSelfKeepsObjects,
             AfterSelfKeepsObjects DEF Next, Beat
<1> QED BY <1>1, <1>2, <1>3, <1>4

LEMMA ObjectsAreOutside ==
  ASSUME Basic
  PROVE  Objects \subseteq Outside
BY WaitingIsOutside DEF Basic, BeatTypeOK, Objects

LEMMA ArriveObjects ==
  ASSUME NEW s, NewArrival(s), Waiting' = Waiting \cup {s}
  PROVE  Objects' = Objects \cup {s}
BY DEF NewArrival, Objects

LEMMA NextKnown ==
  ASSUME Basic, ObjectsKnown, [Next]_vars
  PROVE  ObjectsKnown'
<1>1. CASE Arrive
  <2>1. PICK s \in Outside : NewArrival(s) /\ Waiting' = Waiting \cup {s}
    BY <1>1, ArriveEffect
  <2>2. /\ Objects' = Objects \cup {s} /\ s.id = arrived + 1
        /\ arrived' = arrived + 1 /\ arrived \in Nat
    BY <2>1, ArriveObjects DEF NewArrival, Basic, BeatTypeOK
  <2>3. \A t \in Objects : t.id \in Nat /\ t.id <= arrived
    BY ObjectsAreOutside DEF ObjectsKnown, Outside
  <2> QED BY <2>2, <2>3 DEF ObjectsKnown
<1>2. CASE ~Arrive
  BY <1>2, BeatKeepsObjects DEF ObjectsKnown
<1> QED BY <1>1, <1>2

LEMMA NextLists ==
  ASSUME ListsInPhase, [Next]_vars
  PROVE  ListsInPhase'
<1> USE DEF ListsInPhase, BetweenPhases, HeadPhases, SelfPhases, AnsweredPhases
<1>1. CASE Commands
  <2>1. CASE RunStatus \/ RunSleep
    BY <2>1 DEF RunStatus, RunSleep, Interpret, Scanning
  <2>2. CASE RunKill \/ RunBareSlash
    BY <2>2 DEF RunKill, RunBareSlash, Interpret
  <2>3. CASE ScanDone
    BY <2>3 DEF ScanDone, WithScanned, Scanning
  <2> QED BY <1>1, <2>1, <2>2, <2>3 DEF Commands
<1>2. CASE BeforeSelf /\ ~Commands
  <2>1. CASE LeaveLoop \/ BeginBeat
    BY <2>1 DEF LeaveLoop, BeginBeat
  <2>2. CASE ComputeFatigue \/ Compact
    BY <2>2 DEF ComputeFatigue, Compact
  <2>3. CASE FinalizeRecall \/ PushBack \/ PushBackDone
    BY <2>3 DEF FinalizeRecall, PushBack, PushBackDone
  <2> QED BY <1>2, <2>1, <2>2, <2>3 DEF BeforeSelf
<1>3. CASE RunSelf
  <2>1. CASE EnforceBudget \/ GiveUp
    BY <2>1 DEF EnforceBudget, GiveUp
  <2>2. CASE CallSelf \/ CallFails \/ SelfAnswers
    BY <2>2 DEF CallSelf, CallFails, SelfAnswers
  <2>3. CASE RetryInterrupted
    BY <2>3 DEF RetryInterrupted, Interrupted
  <2> QED BY <1>3, <2>1, <2>2, <2>3 DEF RunSelf
<1>4. CASE AfterSelf
  <2>1. CASE IngestFeedback \/ ApplyDecision \/ ReportDecision \/ RefuseSleep
    BY <2>1 DEF IngestFeedback, ApplyDecision, ReportDecision, RefuseSleep,
                EnterIdle, AskSleep
  <2>2. CASE GrantSleep \/ SleepDone \/ SleepNoop \/ SleepFails
    BY <2>2 DEF GrantSleep, SleepDone, SleepNoop, SleepFails, EndBeatBySleep
  <2>3. CASE IdlePeek \/ IdleBreak \/ IdleAgain
    BY <2>3 DEF IdlePeek, IdleBreak, IdleAgain
  <2> QED BY <1>4, <2>1, <2>2, <2>3 DEF AfterSelf
<1>5. CASE Timeout \/ Arrive \/ RequestStop \/ Ended \/ UNCHANGED vars
  BY <1>5 DEF Timeout, RetryTimeout, IdleTimeout, Arrive, RequestStop, Ended, vars
<1> QED BY <1>1, <1>2, <1>3, <1>4, <1>5 DEF Next, Beat

-----------------------------------------------------------------------------
(* Nothing waits twice                                                      *)

\* session and uncovered in the phases in which recall has taken them over.
LEMMA NextDrained ==
  ASSUME Basic, ObjectsKnown, ListsInPhase, RecallIsDrained, [Next]_vars
  PROVE  RecallIsDrained'
<1> USE DEF RecallIsDrained
<1>1. CASE Arrive
  <2>1. PICK s \in Outside : NewArrival(s) /\ Waiting' = Waiting \cup {s}
    BY <1>1, ArriveEffect
  <2>2. s.id = arrived + 1 /\ arrived \in Nat
    BY <2>1 DEF NewArrival, Basic, BeatTypeOK
  <2>3. \A t \in Objects : t.id \in Nat /\ t.id <= arrived
    BY ObjectsAreOutside DEF ObjectsKnown, Outside
  <2>4. s \notin session \cup uncovered \cup scan
    BY <2>2, <2>3 DEF Objects
  <2> QED BY <2>1, <2>4 DEF NewArrival
<1>2. CASE PushBack
  <2>1. PICK s \in uncovered : Buffer!Push(s) /\ uncovered' = uncovered \ {s}
    BY <1>2 DEF PushBack
  <2>2. s \in Stimulus
    BY DEF Basic, BeatTypeOK, Stimulus
  <2>3. Waiting' \subseteq Waiting \cup {s}
    BY <2>1, <2>2, PushEffect
  <2>4. scan = {} /\ scan' = scan
    BY <1>2 DEF PushBack, ListsInPhase
  <2> QED BY <1>2, <2>1, <2>3, <2>4 DEF PushBack
<1>3. CASE BeginBeat
  BY <1>3, DrainEffect DEF BeginBeat, TakeAll
<1>4. CASE RetryInterrupted
  BY <1>4, DrainEffect DEF RetryInterrupted, TakeAll
<1>5. CASE ~Arrive /\ ~PushBack /\ ~BeginBeat /\ ~RetryInterrupted
  <2>1. Waiting' = Waiting
    BY <1>5, WaitingStays
  <2>2. CASE Commands
    BY <2>1, <2>2 DEF Commands, RunStatus, RunSleep, RunKill, RunBareSlash, ScanDone,
                      Interpret, Scanning
  <2>3. CASE BeforeSelf /\ ~Commands
    BY <1>5, <2>1, <2>3 DEF BeforeSelf, LeaveLoop, ComputeFatigue, Compact,
                            FinalizeRecall, PushBackDone
  <2>4. CASE RunSelf
    BY <1>5, <2>1, <2>4
       DEF RunSelf, EnforceBudget, CallSelf, GiveUp, CallFails, SelfAnswers
  <2>5. CASE AfterSelf
    <3>1. scan' = scan
      BY <2>5 DEF AfterSelf, IngestFeedback, ApplyDecision, ReportDecision,
         RefuseSleep, GrantSleep, SleepDone, SleepNoop, SleepFails, IdlePeek,
         IdleBreak, IdleAgain, EndBeatBySleep
    <3>2. phase' \notin {"commands", "fatigue", "compact", "finalize", "pushback"}
      BY <2>5 DEF AfterSelf, IngestFeedback, ApplyDecision, ReportDecision,
         RefuseSleep, GrantSleep, SleepDone, SleepNoop, SleepFails, IdlePeek,
         IdleBreak, IdleAgain, EnterIdle, AskSleep, EndBeatBySleep
    <3> QED BY <2>1, <3>1, <3>2
  <2>6. CASE Timeout \/ RequestStop \/ Ended \/ UNCHANGED vars
    BY <2>1, <2>6 DEF Timeout, RetryTimeout, IdleTimeout, RequestStop, Ended, vars
  <2> QED BY <1>5, <2>2, <2>3, <2>4, <2>5, <2>6 DEF Next, Beat
<1> QED BY <1>1, <1>2, <1>3, <1>4, <1>5

LEMMA PushKeepsSingle ==
  ASSUME Basic, NoDuplicateWaiting, NEW s \in Stimulus, Buffer!Push(s),
         s \notin Waiting
  PROVE  NoDuplicateWaiting'
<1> DEFINE n == Len(queue)
<1>1. /\ n \in Nat /\ Len(queue') = n + 1
      /\ \A i \in 1..n : queue'[i] = queue[i]
      /\ queue'[n + 1] = s
  BY PushEffect
<1>2. ASSUME NEW j \in 1..n, queue[j] = s PROVE s \notin Outside
  BY <1>2 DEF Waiting, Buffer!Elements
<1> HIDE DEF n
<1>3. ASSUME NEW j \in 1..(n + 1), NEW k \in 1..(n + 1),
             queue'[j] = queue'[k], queue'[j] \in Outside
      PROVE  j = k
  <2>1. CASE j \in 1..n /\ k \in 1..n
    BY <1>1, <1>3, <2>1 DEF NoDuplicateWaiting, n
  <2>2. CASE j \in 1..n /\ k = n + 1
    BY <1>1, <1>2, <1>3, <2>2
  <2>3. CASE j = n + 1 /\ k \in 1..n
    BY <1>1, <1>2, <1>3, <2>3
  <2> QED BY <1>1, <2>1, <2>2, <2>3
<1> QED BY <1>1, <1>3 DEF NoDuplicateWaiting

LEMMA NextSingle ==
  ASSUME Basic, ObjectsKnown, RecallIsDrained, NoDuplicateWaiting, [Next]_vars
  PROVE  NoDuplicateWaiting'
<1>1. CASE Arrive
  <2>1. PICK s \in Outside : NewArrival(s)
    BY <1>1, ArriveEffect
  <2>2. s.id = arrived + 1 /\ Buffer!Push(s) /\ s \in Stimulus
    BY <2>1 DEF NewArrival, Stimulus
  <2>5. arrived \in Nat
    BY DEF Basic, BeatTypeOK
  <2>3. \A t \in Waiting : t.id \in Nat /\ t.id <= arrived
    BY ObjectsAreOutside DEF ObjectsKnown, Outside, Objects
  <2>4. s \notin Waiting
    BY <2>2, <2>3, <2>5
  <2> QED BY <2>2, <2>4, PushKeepsSingle
<1>2. CASE PushBack
  <2>1. PICK s \in uncovered : Buffer!Push(s)
    BY <1>2 DEF PushBack
  <2>2. s \in Stimulus /\ s \notin Waiting
    BY <1>2 DEF PushBack, Basic, BeatTypeOK, Stimulus, RecallIsDrained
  <2> QED BY <2>1, <2>2, PushKeepsSingle
<1>3. CASE \E b \in BOOLEAN : Buffer!Push(Note(b))
  <2>1. PICK b \in BOOLEAN : Buffer!Push(Note(b))
    BY <1>3
  <2>2. Note(b) \in Stimulus /\ Note(b) \notin Waiting
    BY NotesAreNotOutside DEF Waiting
  <2> QED BY <2>1, <2>2, PushKeepsSingle
<1>4. CASE Buffer!Drain
  BY <1>4, DrainEffect DEF NoDuplicateWaiting
<1>5. CASE queue' = queue
  BY <1>5 DEF NoDuplicateWaiting
<1>6. BeginBeat \/ RetryInterrupted => Buffer!Drain
  BY DEF BeginBeat, RetryInterrupted, TakeAll
<1> QED BY <1>1, <1>2, <1>3, <1>4, <1>5, <1>6, QueueUse

-----------------------------------------------------------------------------
(* What idle preloads                                                       *)

\* Outside the phases that follow a peek the index is where the drain left it.
LEMMA NextPeeked ==
  ASSUME Basic, NothingPeeked, [Next]_vars
  PROVE  NothingPeeked'
<1> USE DEF NothingPeeked
<1>1. CASE PushBack \/ Arrive
  BY <1>1 DEF PushBack, Arrive, Buffer!Push, Buffer!PushAll
<1>2. CASE BeginBeat \/ RetryInterrupted
  BY <1>2, DrainEffect DEF BeginBeat, RetryInterrupted, TakeAll
<1>3. CASE IdlePeek
  BY <1>3 DEF IdlePeek
<1>4. CASE recalledUpTo' = recalledUpTo /\ ~Arrive /\ ~PushBack /\ ~BeginBeat
  <2>1. phase' \in {"poll", "idle", "preloading", "stopped"}
          \/ phase \notin {"poll", "idle", "preloading", "stopped"}
    <3>1. CASE Commands
      BY <3>1 DEF Commands, RunStatus, RunSleep, RunKill, RunBareSlash, ScanDone,
                  Interpret, Scanning
    <3>2. CASE BeforeSelf /\ ~Commands
      BY <1>4, <3>2 DEF BeforeSelf, LeaveLoop, ComputeFatigue, Compact,
                        FinalizeRecall, PushBackDone
    <3>3. CASE RunSelf
      BY <3>3 DEF RunSelf, EnforceBudget, CallSelf, GiveUp, CallFails,
                  RetryInterrupted, Interrupted, SelfAnswers
    <3>4. CASE AfterSelf
      BY <3>4 DEF AfterSelf, IngestFeedback, ApplyDecision, ReportDecision,
         RefuseSleep, GrantSleep, SleepDone, SleepNoop, SleepFails, IdlePeek,
         IdleBreak, IdleAgain, EnterIdle, AskSleep, EndBeatBySleep
    <3>5. CASE Timeout \/ RequestStop \/ Ended \/ UNCHANGED vars
      BY <3>5 DEF Timeout, RetryTimeout, IdleTimeout, RequestStop, Ended, vars
    <3> QED BY <1>4, <3>1, <3>2, <3>3, <3>4, <3>5 DEF Next, Beat
  <2> QED BY <1>4, <2>1
<1>5. (\E b \in BOOLEAN : Buffer!Push(Note(b))) => recalledUpTo' = recalledUpTo
  BY DEF Buffer!Push, Buffer!PushAll
<1> QED BY <1>1, <1>2, <1>3, <1>4, <1>5, QueueUse

\* The part of the list idle has shown to recall.
Peeked == {queue[j] : j \in 1..recalledUpTo} \cap Outside

\* A push leaves it alone.
LEMMA PushKeepsPeeked ==
  ASSUME Basic, NEW s \in Stimulus, Buffer!Push(s)
  PROVE  Peeked' = Peeked
<1>1. /\ Len(queue) \in Nat /\ recalledUpTo' = recalledUpTo
      /\ \A i \in 1..Len(queue) : queue'[i] = queue[i]
  BY PushEffect
<1>2. recalledUpTo \in Nat /\ recalledUpTo <= Len(queue)
  BY DEF Basic, BufferProofs!Exact, BufferProofs!TypeOK, BufferProofs!NewEventExact
<1>3. \A i \in 1..recalledUpTo : queue'[i] = queue[i]
  BY <1>1, <1>2
<1> QED BY <1>1, <1>3 DEF Peeked

LEMMA NextPreload ==
  ASSUME Basic, NothingPeeked, PreloadMatchesPeeked, [Next]_vars
  PROVE  PreloadMatchesPeeked'
<1> USE DEF PreloadMatchesPeeked
<1>1. CASE IdlePeek
  <2>1. /\ queue' = queue /\ recalledUpTo' = Len(queue)
        /\ session' = session \cup (Buffer!Elements(Buffer!Unrecalled) \cap Outside)
        /\ session = {queue[j] : j \in 1..recalledUpTo} \cap Outside
    BY <1>1 DEF IdlePeek, Buffer!PeekUnrecalled
  <2>2. /\ recalledUpTo \in Nat /\ recalledUpTo <= Len(queue) /\ Len(queue) \in Nat
    BY DEF Basic, BufferProofs!Exact, BufferProofs!TypeOK, BufferProofs!NewEventExact
  <2>3. \A i : i \in 1..Len(queue) <=>
               i \in 1..recalledUpTo \/ i \in (recalledUpTo + 1)..Len(queue)
    BY <2>2
  <2>4. {queue[j] : j \in 1..Len(queue)} =
          {queue[j] : j \in 1..recalledUpTo}
            \cup {queue[j] : j \in (recalledUpTo + 1)..Len(queue)}
    BY <2>3
  <2> QED BY <2>1, <2>4, UnrecalledIsWaiting
<1>2. CASE phase \in {"idle", "preloading"} /\ phase' \in {"idle", "preloading"}
             /\ ~IdlePeek
  <2>1. session' = session
    BY <1>2 DEF Next, Beat, BeforeSelf, Commands, RunSelf, AfterSelf, LeaveLoop,
       BeginBeat, RunStatus, RunSleep, RunKill, RunBareSlash, ScanDone, Interpret,
       Scanning, ComputeFatigue, Compact, FinalizeRecall, PushBack, PushBackDone,
       EnforceBudget, CallSelf, GiveUp, CallFails, RetryInterrupted, Interrupted,
       SelfAnswers, IngestFeedback, ApplyDecision, ReportDecision, RefuseSleep,
       GrantSleep, SleepDone, SleepNoop, SleepFails, EndBeatBySleep, IdleBreak,
       IdleAgain, Timeout, RetryTimeout, IdleTimeout, Arrive, RequestStop, Ended,
       vars
  <2>2. Peeked' = Peeked
    <3>1. ~PushBack /\ ~BeginBeat /\ ~RetryInterrupted
      BY <1>2 DEF PushBack, BeginBeat, RetryInterrupted, Interrupted
    <3>2. CASE Arrive
      <4>1. PICK s \in Outside : NewArrival(s)
        BY <3>2, ArriveEffect
      <4> QED BY <4>1, PushKeepsPeeked DEF NewArrival, Stimulus
    <3>3. CASE \E b \in BOOLEAN : Buffer!Push(Note(b))
      BY <3>3, NotesAreNotOutside, PushKeepsPeeked
    <3>4. CASE UNCHANGED <<queue, recalledUpTo>>
      BY <3>4 DEF Peeked
    <3> QED BY <1>2, <3>1, <3>2, <3>3, <3>4, QueueUse
  <2> QED BY <1>2, <2>1, <2>2 DEF Peeked
<1>3. CASE phase \notin {"idle", "preloading"} /\ phase' \in {"idle", "preloading"}
  <2>1. session' = {} /\ (ApplyDecision \/ ReportDecision \/ RefuseSleep)
    BY <1>3 DEF Next, Beat, BeforeSelf, Commands, RunSelf, AfterSelf, LeaveLoop,
       BeginBeat, RunStatus, RunSleep, RunKill, RunBareSlash, ScanDone, Interpret,
       Scanning, ComputeFatigue, Compact, FinalizeRecall, PushBack, PushBackDone,
       EnforceBudget, CallSelf, GiveUp, CallFails, RetryInterrupted, Interrupted,
       SelfAnswers, IngestFeedback, ApplyDecision, ReportDecision, RefuseSleep,
       EnterIdle, AskSleep, GrantSleep, SleepDone, SleepNoop, SleepFails,
       EndBeatBySleep, IdlePeek, IdleBreak, IdleAgain, Timeout, RetryTimeout,
       IdleTimeout, Arrive, RequestStop, Ended, vars
  <2>2. recalledUpTo' = 0
    BY <2>1 DEF ApplyDecision, ReportDecision, RefuseSleep, NothingPeeked,
                Buffer!Push, Buffer!PushAll
  <2> QED BY <2>1, <2>2
<1> QED BY <1>1, <1>2, <1>3

-----------------------------------------------------------------------------
(* How often a stimulus is shown                                            *)

LEMMA DueIsMonotonic ==
  ASSUME NEW i, NEW S, NEW T
  PROVE  /\ Due(i, S) \in {0, 1}
         /\ S \subseteq T => Due(i, S) <= Due(i, T)
         /\ Due(i, S \cup T) <= Due(i, S) + Due(i, T)
         /\ i \notin IdsOf(S) => Due(i, S) = 0
         /\ i \in IdsOf(S) => Due(i, S) = 1
BY DEF Due, IdsOf

\* Steps that neither take in, push back, sort out nor show anything.
LEMMA QuietCommands ==
  ASSUME ListsInPhase, Waiting' = Waiting,
         RunStatus \/ RunSleep \/ RunKill \/ RunBareSlash
  PROVE  /\ UNCHANGED <<shown, retries, arrived>>
         /\ scan' \subseteq scan
         /\ ToBeShown' \subseteq ToBeShown
<1> USE DEF ToBeShown, HeadPhases, SelfPhases
<1>1. CASE RunStatus \/ RunSleep
  BY <1>1 DEF RunStatus, RunSleep, Interpret
<1>2. CASE RunKill \/ RunBareSlash
  BY <1>2 DEF RunKill, RunBareSlash, Interpret
<1> QED BY <1>1, <1>2

LEMMA QuietSteps ==
  ASSUME Basic, ListsInPhase, [Next]_vars,
         ~Arrive, ~PushBack, ~ScanDone, ~SelfAnswers
  PROVE  /\ UNCHANGED <<shown, retries, arrived>>
         /\ (Waiting \cup scan)' \subseteq Waiting \cup scan
         /\ ToBeShown' \subseteq ToBeShown
<1> USE DEF ToBeShown, HeadPhases, SelfPhases
<1>1. CASE BeginBeat
  BY <1>1, DrainEffect DEF BeginBeat, TakeAll
<1>2. CASE RetryInterrupted
  BY <1>2, DrainEffect DEF RetryInterrupted, TakeAll, Interrupted
<1>3. CASE ~BeginBeat /\ ~RetryInterrupted
  <2>1. Waiting' = Waiting
    BY <1>3, WaitingStays
  <2>2. CASE Commands
    BY <2>1, <2>2, QuietCommands DEF Commands
  <2>3. CASE BeforeSelf /\ ~Commands
    BY <1>3, <2>1, <2>3 DEF BeforeSelf, LeaveLoop, ComputeFatigue, Compact,
                            FinalizeRecall, PushBackDone
  <2>4. CASE RunSelf
    BY <1>3, <2>1, <2>4 DEF RunSelf, EnforceBudget, CallSelf, GiveUp, CallFails
  <2>5. CASE AfterSelf
    <3>1. UNCHANGED <<shown, retries, arrived, scan>>
      BY <2>5 DEF AfterSelf, IngestFeedback, ApplyDecision, ReportDecision,
         RefuseSleep, GrantSleep, SleepDone, SleepNoop, SleepFails, IdlePeek,
         IdleBreak, IdleAgain, EndBeatBySleep
    <3>2. phase' \notin HeadPhases \cup SelfPhases
      BY <2>5 DEF AfterSelf, IngestFeedback, ApplyDecision, ReportDecision,
         RefuseSleep, GrantSleep, SleepDone, SleepNoop, SleepFails, IdlePeek,
         IdleBreak, IdleAgain, EnterIdle, AskSleep, EndBeatBySleep
    <3> QED BY <2>1, <3>1, <3>2
  <2>6. CASE Timeout \/ RequestStop \/ Ended \/ UNCHANGED vars
    BY <2>1, <2>6 DEF Timeout, RetryTimeout, IdleTimeout, RequestStop, Ended, vars
  <2> QED BY <1>3, <2>2, <2>3, <2>4, <2>5, <2>6 DEF Next, Beat
<1> QED BY <1>1, <1>2, <1>3

\* The account of one stimulus.
Paid(i) ==
  shown[i] + Due(i, Waiting \cup scan) + Due(i, ToBeShown) <= retries[i] + 1

LEMMA AccountTypes ==
  ASSUME Basic, NEW i \in 1..MaxArrivals
  PROVE  shown[i] \in Nat /\ retries[i] \in Nat /\ i \in Nat /\ arrived \in Nat
BY BoundsAssumption DEF Basic, BeatTypeOK

\* A stimulus that has not arrived is nowhere.
LEMMA IdsHaveArrived ==
  ASSUME Basic, ObjectsKnown, NEW i \in 1..MaxArrivals, i > arrived
  PROVE  i \notin IdsOf(Objects)
<1>1. \A s \in Objects : s.id \in Nat /\ s.id <= arrived
  BY ObjectsAreOutside DEF ObjectsKnown, Outside
<1> QED BY <1>1, AccountTypes DEF IdsOf

LEMMA ToBeShownIsKnown == ToBeShown \subseteq Objects
BY DEF ToBeShown, Objects

\* The end of a scan hands over what is no longer in the buffer.
LEMMA ScanDoneAccount ==
  ASSUME Basic, ObjectsKnown, ListsInPhase, RecallIsDrained, ScanDone,
         NEW i \in 1..MaxArrivals
  PROVE  Due(i, (Waiting \cup scan)') + Due(i, ToBeShown')
           <= Due(i, Waiting \cup scan) + Due(i, ToBeShown)
<1>1. Waiting' = Waiting /\ scan' = {}
  BY DEF ScanDone, Waiting, Buffer!Elements
<1>2. ToBeShown' \subseteq ToBeShown \cup scan
  BY DEF ScanDone, WithScanned, Scanning, ToBeShown, HeadPhases, SelfPhases
<1>3. CASE i \in IdsOf(scan)
  <2>1. i \notin IdsOf(Waiting)
    BY <1>3 DEF RecallIsDrained, ObjectsKnown, Objects, IdsOf
  <2>2. Due(i, Waiting) = 0 /\ Due(i, Waiting \cup scan) = 1
    BY <1>3, <2>1 DEF Due, IdsOf
  <2>3. Due(i, ToBeShown') \in {0, 1} /\ Due(i, ToBeShown) \in {0, 1}
    BY DueIsMonotonic
  <2> QED BY <1>1, <2>2, <2>3
<1>4. CASE i \notin IdsOf(scan)
  <2>1. Due(i, ToBeShown') <= Due(i, ToBeShown)
    BY <1>2, <1>4 DEF Due, IdsOf
  <2>2. Due(i, Waiting) <= Due(i, Waiting \cup scan)
    BY DEF Due, IdsOf
  <2>3. /\ Due(i, ToBeShown') \in {0, 1} /\ Due(i, ToBeShown) \in {0, 1}
        /\ Due(i, Waiting) \in {0, 1} /\ Due(i, Waiting \cup scan) \in {0, 1}
    BY DueIsMonotonic
  <2> QED BY <1>1, <2>1, <2>2, <2>3
<1> QED BY <1>3, <1>4

LEMMA NextPaid ==
  ASSUME Basic, ObjectsKnown, ListsInPhase, RecallIsDrained, DeliveriesPaid,
         [Next]_vars, NEW i \in 1..MaxArrivals
  PROVE  /\ Paid(i)'
         /\ retries'[i] <= MaxRecallRetries
         /\ i > arrived' => shown'[i] = 0
<1>1. /\ Paid(i) /\ retries[i] <= MaxRecallRetries
      /\ i > arrived => shown[i] = 0
  BY DEF DeliveriesPaid, Paid
<1>2. shown[i] \in Nat /\ retries[i] \in Nat /\ arrived \in Nat /\ i \in Nat
  BY AccountTypes
<1>3. /\ Due(i, Waiting \cup scan) \in {0, 1} /\ Due(i, ToBeShown) \in {0, 1}
      /\ Due(i, (Waiting \cup scan)') \in {0, 1} /\ Due(i, ToBeShown') \in {0, 1}
  BY DueIsMonotonic
<1>4. CASE Arrive
  <2>1. PICK s \in Outside : NewArrival(s) /\ Waiting' = Waiting \cup {s}
    BY <1>4, ArriveEffect
  <2>2. /\ s.id = arrived + 1 /\ arrived' = arrived + 1
        /\ UNCHANGED <<shown, retries, scan, ToBeShown>>
    BY <2>1 DEF NewArrival, ToBeShown
  <2>3. CASE i = arrived + 1
    <3>1. i \notin IdsOf(ToBeShown) /\ shown[i] = 0
      BY <1>1, <1>2, <2>3, IdsHaveArrived, ToBeShownIsKnown DEF IdsOf
    <3>2. Due(i, ToBeShown') = 0
      BY <2>2, <3>1 DEF Due
    <3> QED BY <1>1, <1>2, <1>3, <2>2, <2>3, <3>1, <3>2 DEF Paid
  <2>4. CASE i # arrived + 1
    <3>1. Due(i, (Waiting \cup scan)') = Due(i, Waiting \cup scan)
      BY <2>1, <2>2, <2>4 DEF Due, IdsOf
    <3> QED BY <1>1, <1>2, <1>3, <2>2, <3>1 DEF Paid
  <2> QED BY <2>3, <2>4
<1>5. CASE PushBack
  <2>1. PICK s \in uncovered : Buffer!Push(s) /\ retries' = RetriesAfter(s)
    BY <1>5 DEF PushBack
  <2>2. s \in Stimulus /\ s \in Outside /\ retries[s.id] < MaxRecallRetries
    BY <1>5, <2>1 DEF Basic, BeatTypeOK, Stimulus, DeliveriesPaid, PushBack
  <2>3. /\ Waiting' = Waiting \cup {s}
        /\ UNCHANGED <<shown, scan, arrived, ToBeShown>>
    BY <1>5, <2>1, <2>2, PushEffect DEF PushBack, ToBeShown
  <2>4. retries' = [retries EXCEPT ![s.id] = @ + 1] /\ s.id \in 1..MaxArrivals
    BY <2>1, <2>2 DEF RetriesAfter, Outside
  <2>5. CASE i = s.id
    <3>1. retries'[i] = retries[i] + 1 /\ retries[i] < MaxRecallRetries
      BY <2>2, <2>4, <2>5 DEF Basic, BeatTypeOK
    <3>2. Due(i, Waiting \cup scan) \in {0, 1}
      BY <1>3
    <3> QED BY <1>1, <1>2, <1>3, <2>3, <3>1, BoundsAssumption DEF Paid
  <2>6. CASE i # s.id
    <3>1. retries'[i] = retries[i]
      BY <2>4, <2>6 DEF Basic, BeatTypeOK
    <3>2. Due(i, (Waiting \cup scan)') = Due(i, Waiting \cup scan)
      BY <2>3, <2>6 DEF Due, IdsOf
    <3> QED BY <1>1, <1>2, <1>3, <2>3, <3>1, <3>2 DEF Paid
  <2> QED BY <2>5, <2>6
<1>6. CASE ScanDone
  <2>1. UNCHANGED <<shown, retries, arrived>>
    BY <1>6 DEF ScanDone
  <2>2. Due(i, (Waiting \cup scan)') + Due(i, ToBeShown')
          <= Due(i, Waiting \cup scan) + Due(i, ToBeShown)
    BY <1>6, ScanDoneAccount
  <2> QED BY <1>1, <1>2, <1>3, <2>1, <2>2 DEF Paid
<1>7. CASE SelfAnswers
  <2>1. /\ UNCHANGED <<queue, scan, retries, arrived>>
        /\ ToBeShown = folded /\ ToBeShown' = {}
    BY <1>7 DEF SelfAnswers, ToBeShown, HeadPhases, SelfPhases
  <2>2. shown'[i] = shown[i] + Due(i, folded)
    BY <1>2, <1>7 DEF SelfAnswers, Due
  <2>3. /\ Due(i, ToBeShown') = 0
        /\ (Waiting \cup scan)' = Waiting \cup scan
    BY <2>1 DEF Due, IdsOf, Waiting, Buffer!Elements
  <2>4. i > arrived => Due(i, folded) = 0
    BY <2>1, IdsHaveArrived, ToBeShownIsKnown DEF Due, IdsOf
  <2> QED BY <1>1, <1>2, <1>3, <2>1, <2>2, <2>3, <2>4 DEF Paid
<1>8. CASE ~Arrive /\ ~PushBack /\ ~ScanDone /\ ~SelfAnswers
  <2>1. /\ UNCHANGED <<shown, retries, arrived>>
        /\ (Waiting \cup scan)' \subseteq Waiting \cup scan
        /\ ToBeShown' \subseteq ToBeShown
    BY <1>8, QuietSteps
  <2>2. /\ Due(i, (Waiting \cup scan)') <= Due(i, Waiting \cup scan)
        /\ Due(i, ToBeShown') <= Due(i, ToBeShown)
    BY <2>1, DueIsMonotonic
  <2> QED BY <1>1, <1>2, <1>3, <2>1, <2>2 DEF Paid
<1> QED BY <1>4, <1>5, <1>6, <1>7, <1>8

\* What is still to be pushed back may still be.
LEMMA NextUncovered ==
  ASSUME Basic, ObjectsKnown, DeliveriesPaid, [Next]_vars, phase' = "pushback"
  PROVE  \A s \in uncovered' : retries'[s.id] < MaxRecallRetries
<1>1. CASE FinalizeRecall
  BY <1>1 DEF FinalizeRecall
<1>2. CASE PushBack
  <2>1. PICK s \in uncovered : /\ retries' = RetriesAfter(s)
                               /\ uncovered' = uncovered \ {s}
    BY <1>2 DEF PushBack
  <2>2. \A u \in uncovered' : u.id # s.id
    BY <2>1 DEF ObjectsKnown, Objects
  <2>3. \A u \in uncovered' : retries'[u.id] = retries[u.id]
    BY <2>1, <2>2 DEF RetriesAfter, Basic, BeatTypeOK, Outside
  <2> QED BY <1>2, <2>1, <2>3 DEF PushBack, DeliveriesPaid
<1>3. CASE ~FinalizeRecall /\ ~PushBack
  <2>1. UNCHANGED <<phase, uncovered, retries>>
    BY <1>3 DEF Next, Beat, BeforeSelf, Commands, RunSelf, AfterSelf, LeaveLoop,
       BeginBeat, RunStatus, RunSleep, RunKill, RunBareSlash, ScanDone, Interpret,
       Scanning, ComputeFatigue, Compact, PushBackDone, EnforceBudget, CallSelf,
       GiveUp, CallFails, RetryInterrupted, SelfAnswers, IngestFeedback,
       ApplyDecision, ReportDecision, RefuseSleep, EnterIdle, AskSleep, GrantSleep,
       SleepDone, SleepNoop, SleepFails, EndBeatBySleep, IdlePeek, IdleBreak,
       IdleAgain, Timeout, RetryTimeout, IdleTimeout, Arrive, RequestStop, Ended,
       vars
  <2> QED BY <2>1 DEF DeliveriesPaid
<1> QED BY <1>1, <1>2, <1>3

LEMMA NextDeliveriesPaid ==
  ASSUME Basic, ObjectsKnown, ListsInPhase, RecallIsDrained, DeliveriesPaid,
         [Next]_vars
  PROVE  DeliveriesPaid'
BY NextPaid, NextUncovered DEF DeliveriesPaid, Paid

-----------------------------------------------------------------------------
(* What is answered has been shown                                          *)

LEMMA NextAnswered ==
  ASSUME Basic, AnsweredIsShown, [Next]_vars
  PROVE  AnsweredIsShown'
<1> USE DEF AnsweredIsShown, AnsweredPhases
<1>1. CASE SelfAnswers
  <2>1. ASSUME NEW s \in folded PROVE shown'[s.id] > 0
    <3>1. s.id \in 1..MaxArrivals /\ s.id \in IdsOf(folded)
      BY DEF Basic, BeatTypeOK, Outside, IdsOf
    <3>2. shown[s.id] \in Nat /\ shown'[s.id] = shown[s.id] + 1
      BY <1>1, <3>1 DEF SelfAnswers, Basic, BeatTypeOK
    <3> QED BY <3>2
  <2> QED BY <1>1, <2>1 DEF SelfAnswers
<1>2. CASE ~SelfAnswers /\ phase' \in AnsweredPhases
  <2>1. phase \in AnsweredPhases /\ UNCHANGED <<folded, shown>>
    BY <1>2 DEF Next, Beat, BeforeSelf, Commands, RunSelf, AfterSelf, LeaveLoop,
       BeginBeat, RunStatus, RunSleep, RunKill, RunBareSlash, ScanDone, Interpret,
       Scanning, ComputeFatigue, Compact, FinalizeRecall, PushBack, PushBackDone,
       EnforceBudget, CallSelf, GiveUp, CallFails, RetryInterrupted, IngestFeedback,
       ApplyDecision, ReportDecision, RefuseSleep, EnterIdle, AskSleep, GrantSleep,
       SleepDone, SleepNoop, SleepFails, EndBeatBySleep, IdlePeek, IdleBreak,
       IdleAgain, Timeout, RetryTimeout, IdleTimeout, Arrive, RequestStop, Ended,
       vars
  <2> QED BY <2>1
<1> QED BY <1>1, <1>2

-----------------------------------------------------------------------------
(* The invariant and what follows from it                                   *)

LEMMA InitInv == Init => HeartbeatInv
<1> SUFFICES ASSUME Init PROVE HeartbeatInv
  OBVIOUS
<1>1. BeatTypeOK
  BY InitType
<1>2. BufferProofs!Exact
  <2>1. BufferProofs!Init
    BY DEF Init, Buffer!Init, BufferProofs!Init
  <2> QED BY <2>1, StimulusAssumptionHolds, BufferProofs!InitExact
<1>3. /\ queue = <<>> /\ recalledUpTo = 0 /\ phase = "poll" /\ arrived = 0
      /\ scan = {} /\ batch = {} /\ folded = {} /\ uncovered = {} /\ session = {}
      /\ retries = [i \in 1..MaxArrivals |-> 0]
      /\ shown = [i \in 1..MaxArrivals |-> 0]
  BY DEF Init, Buffer!Init
<1>4. Waiting = {} /\ Objects = {}
  BY <1>3 DEF Waiting, Buffer!Elements, Objects
<1>5. ObjectsKnown
  BY <1>4 DEF ObjectsKnown
<1>6. ListsInPhase
  BY <1>3 DEF ListsInPhase, BetweenPhases, HeadPhases, SelfPhases, AnsweredPhases
<1>7. RecallIsDrained /\ NothingPeeked /\ AnsweredIsShown
  BY <1>3 DEF RecallIsDrained, NothingPeeked, AnsweredIsShown, AnsweredPhases
<1>8. NoDuplicateWaiting /\ PreloadMatchesPeeked
  BY <1>3 DEF NoDuplicateWaiting, PreloadMatchesPeeked
<1>9. DeliveriesPaid
  <2>1. ASSUME NEW i \in 1..MaxArrivals
        PROVE  /\ Due(i, Waiting \cup scan) = 0 /\ Due(i, ToBeShown) = 0
               /\ shown[i] = 0 /\ retries[i] = 0
    BY <1>3, <1>4 DEF Due, IdsOf, ToBeShown, HeadPhases, SelfPhases
  <2> QED BY <1>3, <2>1, BoundsAssumption DEF DeliveriesPaid
<1> QED BY <1>1, <1>2, <1>5, <1>6, <1>7, <1>8, <1>9 DEF HeartbeatInv

LEMMA NextInv ==
  ASSUME HeartbeatInv, [Next]_vars
  PROVE  HeartbeatInv'
<1>1. /\ Basic /\ ObjectsKnown /\ ListsInPhase /\ RecallIsDrained
      /\ NoDuplicateWaiting /\ NothingPeeked /\ PreloadMatchesPeeked
      /\ DeliveriesPaid /\ AnsweredIsShown
  BY DEF HeartbeatInv, Basic
<1>2. Basic'
  BY <1>1, NextBasic
<1>3. ObjectsKnown' /\ ListsInPhase'
  BY <1>1, NextKnown, NextLists
<1>4. RecallIsDrained' /\ NoDuplicateWaiting'
  BY <1>1, NextDrained, NextSingle
<1>5. NothingPeeked' /\ PreloadMatchesPeeked'
  BY <1>1, NextPeeked, NextPreload
<1>6. DeliveriesPaid' /\ AnsweredIsShown'
  BY <1>1, NextDeliveriesPaid, NextAnswered
<1> QED BY <1>2, <1>3, <1>4, <1>5, <1>6 DEF HeartbeatInv, Basic

LEMMA HeartbeatInvariant == Spec => []HeartbeatInv
BY InitInv, NextInv, PTL DEF Spec

\* An outside stimulus is never twice in the buffer, though channels, the
\* command phase and the recall push-back all push.
THEOREM NothingWaitsTwice == Spec => []NoDuplicateWaiting
<1>1. HeartbeatInv => NoDuplicateWaiting
  BY DEF HeartbeatInv
<1> QED BY <1>1, HeartbeatInvariant, PTL

\* While idle the recall session is over exactly what idle has peeked at.
THEOREM PreloadIsWhatWasPeeked == Spec => []PreloadMatchesPeeked
<1>1. HeartbeatInv => PreloadMatchesPeeked
  BY DEF HeartbeatInv
<1> QED BY <1>1, HeartbeatInvariant, PTL

\* No stimulus is in more than 1 + MAX_RECALL_RETRIES answered prompts.
THEOREM RedeliveryIsBounded == Spec => []BoundedRedelivery
<1>1. ASSUME HeartbeatInv, NEW i \in 1..MaxArrivals
      PROVE  shown[i] <= 1 + MaxRecallRetries
  <2>1. /\ shown[i] + Due(i, Waiting \cup scan) + Due(i, ToBeShown) <= retries[i] + 1
        /\ retries[i] <= MaxRecallRetries
    BY <1>1 DEF HeartbeatInv, DeliveriesPaid
  <2>2. shown[i] \in Nat /\ retries[i] \in Nat
    BY <1>1 DEF HeartbeatInv, BeatTypeOK
  <2>3. Due(i, Waiting \cup scan) \in {0, 1} /\ Due(i, ToBeShown) \in {0, 1}
    BY DueIsMonotonic
  <2> QED BY <2>1, <2>2, <2>3, BoundsAssumption
<1>2. HeartbeatInv => BoundedRedelivery
  BY <1>1 DEF BoundedRedelivery
<1> QED BY <1>2, HeartbeatInvariant, PTL

-----------------------------------------------------------------------------
(* How a stimulus leaves                                                    *)

\* The stimuli the buffer and the beat hold.
Held == Waiting \cup scan \cup batch \cup folded

\* One that leaves has been shown or run, or the beat ends in sleep or a stop.
Accounted(s) ==
  s \in Held' \/ shown[s.id] > 0 \/ runs'[s.id] > 0 \/ phase = "sleeping" \/ stop'

LEMMA CommandsAccount ==
  ASSUME HeartbeatInv, Commands, Waiting' = Waiting, NEW s \in Held
  PROVE  Accounted(s)
<1>1. CASE RunStatus \/ RunSleep
  <2>1. PICK c \in scan : /\ scan' = scan \ {c}
                          /\ runs' = [runs EXCEPT ![c.id] = @ + 1]
                          /\ UNCHANGED <<batch, folded>>
    BY <1>1 DEF RunStatus, RunSleep, Interpret
  <2>2. c.id \in 1..MaxArrivals /\ runs[c.id] \in Nat
    BY <2>1 DEF HeartbeatInv, BeatTypeOK, Outside
  <2>3. runs'[c.id] = runs[c.id] + 1
    BY <2>1, <2>2 DEF HeartbeatInv, BeatTypeOK
  <2> QED BY <2>1, <2>2, <2>3 DEF Held, Accounted
<1>2. CASE RunKill
  BY <1>2 DEF RunKill, Accounted
<1>3. CASE RunBareSlash
  BY <1>3 DEF RunBareSlash, Held, Accounted
<1>4. CASE ScanDone
  <2>1. phase = "commands" => batch = {}
    BY DEF HeartbeatInv, ListsInPhase, BetweenPhases
  <2> QED BY <1>4, <2>1 DEF ScanDone, Scanning, WithScanned, Held, Accounted
<1> QED BY <1>1, <1>2, <1>3, <1>4 DEF Commands

LEMMA AfterSelfAccount ==
  ASSUME HeartbeatInv, AfterSelf, Waiting' = Waiting, NEW s \in Held
  PROVE  Accounted(s)
<1>1. CASE ApplyDecision \/ ReportDecision \/ RefuseSleep
  <2>1. phase \in {"apply", "asksleep"} /\ scan' = scan
    BY <1>1 DEF ApplyDecision, ReportDecision, RefuseSleep
  <2>2. \A t \in batch \cup folded : shown[t.id] > 0
    BY <2>1 DEF HeartbeatInv, ListsInPhase, AnsweredIsShown, AnsweredPhases
  <2> QED BY <2>1, <2>2 DEF Held, Accounted
<1>2. CASE SleepDone \/ SleepNoop \/ SleepFails
  BY <1>2 DEF SleepDone, SleepNoop, SleepFails, EndBeatBySleep, Accounted
<1>3. CASE IngestFeedback \/ GrantSleep \/ IdlePeek \/ IdleBreak \/ IdleAgain
  BY <1>3 DEF IngestFeedback, GrantSleep, IdlePeek, IdleBreak, IdleAgain, Held,
              Accounted
<1> QED BY <1>1, <1>2, <1>3 DEF AfterSelf

LEMMA NextAccounts ==
  ASSUME HeartbeatInv, [Next]_vars, NEW s \in Held
  PROVE  Accounted(s)
<1>1. Basic
  BY DEF HeartbeatInv, Basic
<1>2. CASE Arrive
  <2>1. PICK t \in Outside : NewArrival(t) /\ Waiting' = Waiting \cup {t}
    BY <1>1, <1>2, ArriveEffect
  <2> QED BY <2>1 DEF NewArrival, Held, Accounted
<1>3. CASE PushBack
  <2>1. PICK t \in uncovered : Buffer!Push(t)
    BY <1>3 DEF PushBack
  <2>2. t \in Stimulus
    BY DEF HeartbeatInv, BeatTypeOK, Stimulus
  <2>3. Waiting \subseteq Waiting'
    BY <1>1, <2>1, <2>2, PushEffect
  <2> QED BY <1>3, <2>3 DEF PushBack, Held, Accounted
<1>4. CASE BeginBeat
  <2>1. scan = {}
    BY <1>4 DEF BeginBeat, HeartbeatInv, ListsInPhase
  <2> QED BY <1>4, <2>1 DEF BeginBeat, TakeAll, Held, Accounted
<1>5. CASE RetryInterrupted
  <2>1. scan = {}
    BY <1>5 DEF RetryInterrupted, Interrupted, HeartbeatInv, ListsInPhase
  <2> QED BY <1>5, <2>1 DEF RetryInterrupted, TakeAll, Held, Accounted
<1>6. CASE ~Arrive /\ ~PushBack /\ ~BeginBeat /\ ~RetryInterrupted
  <2>1. Waiting' = Waiting
    BY <1>1, <1>6, WaitingStays
  <2>2. CASE Commands
    BY <2>1, <2>2, CommandsAccount
  <2>3. CASE BeforeSelf /\ ~Commands
    BY <1>6, <2>1, <2>3 DEF BeforeSelf, LeaveLoop, ComputeFatigue, Compact,
                            FinalizeRecall, PushBackDone, Held, Accounted
  <2>4. CASE EnforceBudget
    <3>1. folded = {}
      BY <2>4 DEF EnforceBudget, HeartbeatInv, ListsInPhase, HeadPhases
    <3> QED BY <2>1, <2>4, <3>1 DEF EnforceBudget, Held, Accounted
  <2>5. CASE GiveUp
    BY <2>5 DEF GiveUp, Accounted
  <2>6. CASE CallSelf \/ CallFails \/ SelfAnswers
    BY <2>1, <2>6 DEF CallSelf, CallFails, SelfAnswers, Held, Accounted
  <2>7. CASE AfterSelf
    BY <2>1, <2>7, AfterSelfAccount
  <2>8. CASE Timeout \/ RequestStop \/ Ended \/ UNCHANGED vars
    BY <2>1, <2>8 DEF Timeout, RetryTimeout, IdleTimeout, RequestStop, Ended, vars,
                      Held, Accounted
  <2> QED BY <1>6, <2>2, <2>3, <2>4, <2>5, <2>6, <2>7, <2>8
          DEF Next, Beat, RunSelf
<1> QED BY <1>2, <1>3, <1>4, <1>5, <1>6

\* A stimulus that leaves the buffer and the beat was in an answered prompt or
\* was run as a command, unless the beat ended in a sleep or in a stop.
THEOREM NothingLeavesUnseen == Spec => UnseenLeavesOnlyBySleepOrStop
<1> DEFINE A ==
      \A i \in 1..MaxArrivals :
        InSystem(i) /\ ~InSystem(i)' =>
          shown[i] > 0 \/ runs'[i] > 0 \/ phase = "sleeping" \/ stop'
<1>1. ASSUME HeartbeatInv, [Next]_vars PROVE A
  <2> SUFFICES ASSUME NEW i \in 1..MaxArrivals, InSystem(i), ~InSystem(i)'
               PROVE  shown[i] > 0 \/ runs'[i] > 0 \/ phase = "sleeping" \/ stop'
    OBVIOUS
  <2>1. PICK s \in Held : s.id = i
    BY DEF InSystem, IdsOf, Held
  <2>2. s \notin Held'
    BY <2>1 DEF InSystem, IdsOf, Held
  <2> QED BY <1>1, <2>1, <2>2, NextAccounts DEF Accounted
<1>2. HeartbeatInv /\ [Next]_vars => [A]_vars
  BY <1>1
<1> QED BY <1>2, HeartbeatInvariant, PTL DEF Spec, UnseenLeavesOnlyBySleepOrStop
=============================================================================
