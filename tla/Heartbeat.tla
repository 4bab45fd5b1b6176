------------------------------ MODULE Heartbeat ------------------------------
(***************************************************************************)
(* One heartbeat after another (engines/heartbeat/orchestrator.py,         *)
(* idle.py, default.py) over the stimulus buffer, with the recall session  *)
(* that rides along, the slash commands, the retry loop around the Self    *)
(* LLM, and the sleep hook of runtime.py.                                  *)
(*                                                                         *)
(* Everything runs on one event loop.  A step of this module is a stretch  *)
(* of the beat between two suspension points, or one stimulus of a loop    *)
(* over stimuli; channels and tool tasks push (Arrive) and anyone may ask  *)
(* for a stop (RequestStop) in between.  The LLM, the graph memory and the *)
(* clock are choices: an answer is valid or not, a recall covers any part  *)
(* of what it was given, an interval has elapsed or not.                   *)
(*                                                                         *)
(* The heartbeat counter, prompt text, logging and events are left out.    *)
(***************************************************************************)
EXTENDS Naturals, Sequences

CONSTANTS
  MaxArrivals,       \* bound: stimuli that reach the buffer from outside
  Arrivals,          \* what they can be: records [kind, adrenalin]
  MaxRecallRetries   \* MAX_RECALL_RETRIES

OutsideKinds == {"message", "feedback", "status", "sleep", "kill", "slash"}

ASSUME BoundsAssumption ==
  MaxArrivals \in Nat /\ MaxRecallRetries \in Nat
ASSUME ArrivalsAssumption ==
  Arrivals \subseteq [kind : OutsideKinds, adrenalin : BOOLEAN]

\* Stimulus objects.  Outside ids count arrivals, so their order is that of
\* the time stamps drain sorts by.  The runtime's own system_event stimuli
\* ("notes") are in the buffer, where they wake the heartbeat; what a beat
\* does with one it drained is not followed.
Outside == [id : 1..MaxArrivals, kind : OutsideKinds, adrenalin : BOOLEAN]

Note(urgent) == [id |-> 0, kind |-> "note", adrenalin |-> urgent]

Stimulus == Outside \cup {Note(TRUE), Note(FALSE)}

IsCommand(s) == s.kind \in {"status", "sleep", "kill", "slash"}

PhaseNames ==
  {"poll", "commands", "fatigue", "compact", "finalize", "pushback", "budget",
   "self", "calling", "retrywait", "interrupted", "recommands", "ingest",
   "apply", "asksleep", "sleeping", "idle", "preloading", "stopped", "crashed"}

VARIABLES
  queue, recalledUpTo, adrenalinEvent, newEvent,   \* rt.buffer
  phase,       \* where the beat is
  stop,        \* rt._stop
  scan,        \* a drained batch while its commands are being interpreted
  wantSleep,   \* that scan has met /sleep
  batch,       \* beat()'s local stimuli
  folded,      \* _phase_run_self's local stimuli: those of the next prompt
  session,     \* rt._recall.processed_stimuli
  uncovered,   \* what pushback has still to push
  retries,     \* metadata["recall_retries"] of each stimulus
  fatigue,     \* counts.fatigue_pct against the two thresholds
  arrived,     \* how many outside stimuli there have been
  shown,       \* history: answered prompts that contained the stimulus
  runs,        \* history: times the stimulus was executed as a command
  ingested     \* history: stimuli handed to memory.ingest

bufferVars  == <<queue, recalledUpTo, adrenalinEvent, newEvent>>
beatVars    == <<phase, scan, wantSleep, batch, folded, uncovered, fatigue>>
recallVars  == <<session, retries>>
historyVars == <<shown, runs, ingested>>
vars == <<bufferVars, stop, beatVars, recallVars, arrived, historyVars>>

\* The buffer is StimulusBuffer's, without its bound for exploration.
Buffer == INSTANCE StimulusBuffer WITH MaxQueue <- 0

Waiting == Buffer!Elements(queue) \cap Outside

Halted == phase \in {"stopped", "crashed"}

-----------------------------------------------------------------------------
Init ==
  /\ Buffer!Init
  /\ phase = "poll"
  /\ stop = FALSE
  /\ scan = {} /\ batch = {} /\ folded = {} /\ uncovered = {}
  /\ wantSleep = FALSE
  /\ session = {}
  /\ retries = [i \in 1..MaxArrivals |-> 0]
  /\ fatigue = "rested"
  /\ arrived = 0
  /\ shown = [i \in 1..MaxArrivals |-> 0]
  /\ runs = [i \in 1..MaxArrivals |-> 0]
  /\ ingested = {}

-----------------------------------------------------------------------------
(* The rest of the process                                                  *)

\* Between these steps of the beat nothing else gets to run: push itself
\* never suspends.
Uninterrupted == phase \in {"pushback", "interrupted", "asksleep"}

\* A channel or a tool task pushes.
Arrive ==
  /\ ~Halted /\ ~Uninterrupted
  /\ arrived < MaxArrivals
  /\ \E a \in Arrivals :
       Buffer!Push([id |-> arrived + 1, kind |-> a.kind,
                    adrenalin |-> a.adrenalin])
  /\ arrived' = arrived + 1
  /\ UNCHANGED <<stop, beatVars, recallVars, historyVars>>

\* request_stop from a signal handler or the dashboard.
RequestStop ==
  /\ ~Halted /\ ~Uninterrupted /\ ~stop
  /\ stop' = TRUE
  /\ UNCHANGED <<bufferVars, beatVars, recallVars, arrived, historyVars>>

-----------------------------------------------------------------------------
(* The loop and the head of a beat                                          *)

\* DefaultHeartbeatEngine.run leaves its loop.
LeaveLoop ==
  /\ phase = "poll" /\ stop
  /\ phase' = "stopped"
  /\ UNCHANGED <<bufferVars, stop, scan, wantSleep, batch, folded, uncovered,
                 fatigue, recallVars, arrived, historyVars>>

\* Mutant of TakeAll: the list is read and not emptied.
MutantTakeAllPeeks == scan' = Waiting /\ Buffer!PeekUnrecalled

\* The buffer is drained into a scan for commands.
TakeAll == scan' = Waiting /\ Buffer!Drain

\* _phase_drain_and_seed_recall: what idle has already shown to the session
\* (the same objects) is not added twice.
BeginBeat ==
  /\ phase = "poll" /\ ~stop
  /\ TakeAll
  /\ session' = session \cup Waiting
  /\ phase' = "commands"
  /\ UNCHANGED <<stop, wantSleep, batch, folded, uncovered, fatigue, retries,
                 arrived, historyVars>>

-----------------------------------------------------------------------------
(* _phase_handle_commands, from beat() and from _reassemble_on_adrenalin    *)

Scanning == phase \in {"commands", "recommands"}

\* The earliest command not interpreted yet.
NextCommand(c) ==
  /\ c \in scan /\ IsCommand(c)
  /\ \A d \in scan : IsCommand(d) => c.id <= d.id

Interpret(c) ==
  /\ Scanning
  /\ NextCommand(c)
  /\ runs' = [runs EXCEPT ![c.id] = @ + 1]
  /\ UNCHANGED <<uncovered, session, arrived, shown, ingested>>

\* /status, /memory_stats: the output goes back to the buffer.
RunStatus == \E c \in scan :
  /\ c.kind = "status" /\ Interpret(c)
  /\ scan' = scan \ {c}
  /\ Buffer!Push(Note(FALSE))
  /\ UNCHANGED <<phase, stop, wantSleep, batch, folded, fatigue, retries>>

RunSleep == \E c \in scan :
  /\ c.kind = "sleep" /\ Interpret(c)
  /\ scan' = scan \ {c}
  /\ wantSleep' = TRUE
  /\ UNCHANGED <<bufferVars, phase, stop, batch, folded, fatigue, retries>>

\* /kill ends the scan and, through a return, the beat: what was drained with
\* it is gone.
RunKill == \E c \in scan :
  /\ c.kind = "kill" /\ Interpret(c)
  /\ stop' = TRUE
  /\ phase' = "poll"
  /\ scan' = {} /\ batch' = {} /\ folded' = {} /\ fatigue' = "rested"
  /\ wantSleep' = FALSE
  /\ UNCHANGED <<bufferVars, retries>>

\* A lone "/" makes parse_command index an empty list; the IndexError leaves
\* beat() and the loop.
RunBareSlash == \E c \in scan :
  /\ c.kind = "slash" /\ Interpret(c)
  /\ phase' = "crashed"
  /\ UNCHANGED <<bufferVars, stop, scan, wantSleep, batch, folded, fatigue, retries>>

\* Mutant of WithScanned: the new stimuli replace those of the retry loop.
MutantReplacedByScanned == scan

\* combined = stimuli + new_stimuli
WithScanned == folded \cup scan

\* What is left is the beat's stimuli, or joins those of the retry loop: there
\* beat()'s own list stays as it was, and a fresh recall session is built over
\* the whole.
ScanDone ==
  /\ Scanning
  /\ \A s \in scan : ~IsCommand(s)
  /\ scan' = {}
  /\ wantSleep' = FALSE
  /\ batch' = IF phase = "commands" THEN scan ELSE batch
  /\ folded' = IF phase = "recommands" THEN WithScanned ELSE folded
  /\ \/ wantSleep /\ phase' = "sleeping" /\ UNCHANGED session
     \/ ~wantSleep /\ phase = "commands" /\ phase' = "fatigue"
                   /\ UNCHANGED recallVars
     \/ ~wantSleep /\ phase = "recommands" /\ phase' = "self"
                   /\ session' = folded'
  /\ UNCHANGED <<bufferVars, stop, uncovered, fatigue, retries, arrived,
                 historyVars>>

-----------------------------------------------------------------------------
(* Fatigue, compaction, recall                                              *)

\* rested: below every threshold; exhausted: at the force-sleep threshold.
ComputeFatigue ==
  /\ phase = "fatigue"
  /\ \E level \in {"rested", "tired", "exhausted"} :
       /\ fatigue' = level
       /\ phase' = IF level = "exhausted" THEN "sleeping" ELSE "compact"
  /\ UNCHANGED <<bufferVars, stop, scan, wantSleep, batch, folded, uncovered,
                 recallVars, arrived, historyVars>>

\* compact_if_needed lets an LLM failure out of the beat.
Compact ==
  /\ phase = "compact"
  /\ phase' \in {"finalize", "crashed"}
  /\ UNCHANGED <<bufferVars, stop, scan, wantSleep, batch, folded, uncovered,
                 fatigue, recallVars, arrived, historyVars>>

\* _phase_finalize_recall_and_pushback: the session leaves some stimuli
\* uncovered; those pushed back too often already are passed over.
FinalizeRecall ==
  /\ phase = "finalize"
  /\ \E missed \in SUBSET session :
       uncovered' = {s \in missed : retries[s.id] < MaxRecallRetries}
  /\ phase' = "pushback"
  /\ UNCHANGED <<bufferVars, stop, scan, wantSleep, batch, folded, fatigue,
                 recallVars, arrived, historyVars>>

\* Mutant of RetriesAfter: the push-back is not counted.
MutantRetriesNotCounted(s) == retries

RetriesAfter(s) == [retries EXCEPT ![s.id] = @ + 1]

PushBack ==
  /\ phase = "pushback"
  /\ \E s \in uncovered :
       /\ \A t \in uncovered : s.id <= t.id
       /\ retries' = RetriesAfter(s)
       /\ Buffer!Push(s)
       /\ uncovered' = uncovered \ {s}
  /\ UNCHANGED <<phase, stop, scan, wantSleep, batch, folded, fatigue,
                 session, arrived, historyVars>>

\* Notes may have been left uncovered as well; one stands for them.
PushBackDone ==
  /\ phase = "pushback" /\ uncovered = {}
  /\ phase' = "budget"
  /\ \/ UNCHANGED bufferVars
     \/ \E urgent \in BOOLEAN : Buffer!Push(Note(urgent))
  /\ UNCHANGED <<stop, scan, wantSleep, batch, folded, uncovered,
                 fatigue, recallVars, arrived, historyVars>>

-----------------------------------------------------------------------------
(* _phase_run_self                                                          *)

\* enforce_input_budget: when the prompt is too long, rounds are pruned and
\* the session is replaced by one over the prompt's stimuli.
EnforceBudget ==
  /\ phase = "budget"
  /\ folded' = batch
  /\ session' \in {session, batch}
  /\ phase' = "self"
  /\ UNCHANGED <<bufferVars, stop, scan, wantSleep, batch, uncovered, fatigue,
                 retries, arrived, historyVars>>

\* Mutant of CallSelf: while True.
MutantCallSelfForever ==
  /\ phase = "self"
  /\ phase' = "calling"
  /\ UNCHANGED <<bufferVars, stop, scan, wantSleep, batch, folded, uncovered,
                 fatigue, recallVars, arrived, historyVars>>

\* while not rt.stop_requested: one attempt.
CallSelf ==
  /\ phase = "self" /\ ~stop
  /\ phase' = "calling"
  /\ UNCHANGED <<bufferVars, stop, scan, wantSleep, batch, folded, uncovered,
                 fatigue, recallVars, arrived, historyVars>>

\* No valid answer and a stop request: return None, and beat() returns.
\* A valid answer that comes after the stop request is thrown away too.
GiveUp ==
  /\ phase \in {"self", "calling"} /\ stop
  /\ phase' = "poll"
  /\ batch' = {} /\ folded' = {} /\ fatigue' = "rested"
  /\ UNCHANGED <<bufferVars, stop, scan, wantSleep, uncovered, recallVars,
                 arrived, historyVars>>

\* An exception, a time-out or an answer without the required tags; the wait
\* that follows looks at the urgent event first.
CallFails ==
  /\ phase = "calling"
  /\ phase' = IF adrenalinEvent THEN "interrupted" ELSE "retrywait"
  /\ UNCHANGED <<bufferVars, stop, scan, wantSleep, batch, folded, uncovered,
                 fatigue, recallVars, arrived, historyVars>>

\* wait_or_adrenalin sleeps out a slice after something calm: what comes then
\* goes unnoticed if the interval ends with the slice.
RetryTimeout ==
  /\ phase = "retrywait"
  /\ phase' = "self"
  /\ UNCHANGED <<bufferVars, stop, scan, wantSleep, batch, folded, uncovered,
                 fatigue, recallVars, arrived, historyVars>>

Interrupted == phase = "interrupted" \/ (phase = "retrywait" /\ adrenalinEvent)

\* Mutant of RetryInterrupted: what was drained is folded in as it is.
MutantReassembleSkipsCommands ==
  /\ Interrupted
  /\ Buffer!Drain
  /\ folded' = folded \cup Waiting
  /\ phase' = "self"
  /\ UNCHANGED <<stop, scan, wantSleep, batch, uncovered, fatigue,
                 recallVars, arrived, historyVars>>

\* wait_or_adrenalin returned True: _reassemble_on_adrenalin drains.
RetryInterrupted ==
  /\ Interrupted
  /\ TakeAll
  /\ phase' = "recommands"
  /\ UNCHANGED <<stop, wantSleep, batch, folded, uncovered, fatigue,
                 recallVars, arrived, historyVars>>

IdsOf(S) == {s.id : s \in S}

\* A valid answer.  It saw the prompt of folded; beat() goes on with batch.
SelfAnswers ==
  /\ phase = "calling" /\ ~stop
  /\ shown' = [i \in 1..MaxArrivals |->
                 IF i \in IdsOf(folded) THEN shown[i] + 1 ELSE shown[i]]
  /\ phase' = "ingest"
  /\ UNCHANGED <<bufferVars, stop, scan, wantSleep, batch, folded, uncovered,
                 fatigue, recallVars, arrived, runs, ingested>>

-----------------------------------------------------------------------------
(* What follows an answer                                                   *)

\* _phase_auto_ingest_feedback; a failing ingest is logged.
IngestFeedback ==
  /\ phase = "ingest"
  /\ ingested' = ingested \cup {s.id : s \in {t \in batch : t.kind = "feedback"}}
  /\ phase' = "apply"
  /\ UNCHANGED <<bufferVars, stop, scan, wantSleep, batch, folded, uncovered,
                 fatigue, recallVars, arrived, shown, runs>>

\* Mutant of EnterIdle: the old recall session is kept.
MutantIdleKeepsSession ==
  /\ phase' = "idle"
  /\ batch' = {} /\ folded' = {} /\ fatigue' = "rested"
  /\ UNCHANGED session

\* The beat's locals die; _phase_idle starts a new recall session.
EnterIdle ==
  /\ phase' = "idle"
  /\ batch' = {} /\ folded' = {} /\ fatigue' = "rested"
  /\ session' = {}

\* Sleep is asked for: refused or granted next.
AskSleep ==
  /\ phase' = "asksleep"
  /\ UNCHANGED <<batch, folded, fatigue, session>>

\* Nothing decided, or calls dispatched with nothing to report.
ApplyDecision ==
  /\ phase = "apply"
  /\ EnterIdle \/ AskSleep
  /\ UNCHANGED <<bufferVars, stop, scan, wantSleep, uncovered, retries,
                 arrived, historyVars>>

\* The decision could not be translated (nothing more is done), or some tool
\* calls could not be parsed (the rest is dispatched, sleep included): an
\* urgent note either way.
ReportDecision ==
  /\ phase = "apply"
  /\ Buffer!Push(Note(TRUE))
  /\ EnterIdle \/ AskSleep
  /\ UNCHANGED <<stop, scan, wantSleep, uncovered, retries, arrived,
                 historyVars>>

\* Self asked for sleep but is rested: refused, with a note.
RefuseSleep ==
  /\ phase = "asksleep" /\ fatigue = "rested"
  /\ Buffer!Push(Note(FALSE))
  /\ EnterIdle
  /\ UNCHANGED <<stop, scan, wantSleep, uncovered, retries, arrived,
                 historyVars>>

GrantSleep ==
  /\ phase = "asksleep" /\ fatigue # "rested"
  /\ phase' = "sleeping"
  /\ UNCHANGED <<bufferVars, stop, scan, wantSleep, batch, folded, uncovered,
                 fatigue, recallVars, arrived, historyVars>>

-----------------------------------------------------------------------------
(* trigger_memory_sleep, after which beat() returns                         *)

EndBeatBySleep ==
  /\ phase = "sleeping"
  /\ phase' = "poll"
  /\ batch' = {} /\ folded' = {} /\ fatigue' = "rested"
  /\ UNCHANGED <<stop, scan, wantSleep, uncovered, arrived, historyVars>>

\* A cycle ran: wake-up note, new recall session.
SleepDone ==
  /\ EndBeatBySleep
  /\ Buffer!Push(Note(FALSE))
  /\ session' = {}
  /\ UNCHANGED retries

\* {}: no sleep LLM, another cycle already running, or no notion of sleep.
SleepNoop ==
  /\ EndBeatBySleep
  /\ UNCHANGED <<bufferVars, recallVars>>

SleepFails ==
  /\ EndBeatBySleep
  /\ Buffer!Push(Note(TRUE))
  /\ UNCHANGED recallVars

-----------------------------------------------------------------------------
(* idle_with_recall                                                         *)

\* The new event is set: what is new goes to recall and stays in the buffer.
IdlePeek ==
  /\ phase = "idle" /\ newEvent
  /\ session' = session \cup (Buffer!Elements(Buffer!Unrecalled) \cap Outside)
  /\ Buffer!PeekUnrecalled
  /\ phase' = "preloading"
  /\ UNCHANGED <<stop, scan, wantSleep, batch, folded, uncovered, fatigue,
                 retries, arrived, historyVars>>

\* After recall has searched, urgency is looked at again.
IdleBreak ==
  /\ phase = "preloading" /\ adrenalinEvent
  /\ phase' = "poll"
  /\ UNCHANGED <<bufferVars, stop, scan, wantSleep, batch, folded, uncovered,
                 fatigue, recallVars, arrived, historyVars>>

\* Mutant of IdleAgain: the event is not looked at.
MutantIdleAgainAlways ==
  /\ phase = "preloading"
  /\ phase' = "idle"
  /\ UNCHANGED <<bufferVars, stop, scan, wantSleep, batch, folded, uncovered,
                 fatigue, recallVars, arrived, historyVars>>

IdleAgain ==
  /\ phase = "preloading" /\ ~adrenalinEvent
  /\ phase' = "idle"
  /\ UNCHANGED <<bufferVars, stop, scan, wantSleep, batch, folded, uncovered,
                 fatigue, recallVars, arrived, historyVars>>

\* Mutant of IdleTimeout: the interval counts only while something is new.
MutantIdleTimeoutIfNew ==
  /\ phase = "idle" /\ newEvent
  /\ phase' = "poll"
  /\ UNCHANGED <<bufferVars, stop, scan, wantSleep, batch, folded, uncovered,
                 fatigue, recallVars, arrived, historyVars>>

IdleTimeout ==
  /\ phase = "idle"
  /\ phase' = "poll"
  /\ UNCHANGED <<bufferVars, stop, scan, wantSleep, batch, folded, uncovered,
                 fatigue, recallVars, arrived, historyVars>>

-----------------------------------------------------------------------------
\* The process has ended.
Ended == Halted /\ UNCHANGED vars

Commands == RunStatus \/ RunSleep \/ RunKill \/ RunBareSlash \/ ScanDone

BeforeSelf ==
  \/ LeaveLoop \/ BeginBeat \/ Commands \/ ComputeFatigue \/ Compact
  \/ FinalizeRecall \/ PushBack \/ PushBackDone

RunSelf ==
  \/ EnforceBudget \/ CallSelf \/ GiveUp \/ CallFails \/ RetryInterrupted
  \/ SelfAnswers

AfterSelf ==
  \/ IngestFeedback \/ ApplyDecision \/ ReportDecision \/ RefuseSleep
  \/ GrantSleep \/ SleepDone \/ SleepNoop \/ SleepFails
  \/ IdlePeek \/ IdleBreak \/ IdleAgain

\* The beat's steps that do not wait for an interval to elapse.
Beat == BeforeSelf \/ RunSelf \/ AfterSelf

Timeout == RetryTimeout \/ IdleTimeout

Next == Beat \/ Timeout \/ Arrive \/ RequestStop \/ Ended

Spec == Init /\ [][Next]_vars

\* The event loop keeps running the beat.  Intervals need not elapse.
FairSpec == Spec /\ WF_vars(Beat)
-----------------------------------------------------------------------------
(* Properties                                                               *)

TypeOK ==
  /\ Buffer!TypeOK
  /\ phase \in PhaseNames
  /\ stop \in BOOLEAN /\ wantSleep \in BOOLEAN
  /\ scan \subseteq Outside /\ batch \subseteq Outside
  /\ folded \subseteq Outside /\ uncovered \subseteq Outside
  /\ session \subseteq Outside
  /\ retries \in [1..MaxArrivals -> Nat]
  /\ fatigue \in {"rested", "tired", "exhausted"}
  /\ arrived \in 0..MaxArrivals
  /\ shown \in [1..MaxArrivals -> Nat]
  /\ runs \in [1..MaxArrivals -> Nat]
  /\ ingested \subseteq 1..MaxArrivals

\* "Self never sees it": whatever path a command took into a beat (drained at
\* its head, drained during a retry, pushed back), it reaches no prompt.
CommandsOutOfBand == \A s \in batch \cup folded : ~IsCommand(s)

\* An outside stimulus is never twice in the buffer, although three places push
\* (channels, the command phase, the recall push-back) and a session may
\* outlive the beat that filled it.
NoDuplicateWaiting ==
  \A j, k \in 1..Len(queue) :
    queue[j] = queue[k] /\ queue[j] \in Outside => j = k

\* While idle, the session recall preloads is over exactly the part of the
\* buffer already peeked: nothing preloaded has left, nothing was skipped.
PreloadMatchesPeeked ==
  phase \in {"idle", "preloading"} =>
    session = {queue[j] : j \in 1..recalledUpTo} \cap Outside

\* The retry cap does prevent endless push-back: however push-back, retries
\* of the LLM call and sleeps interleave, Self answers at most
\* 1 + MAX_RECALL_RETRIES prompts with the same stimulus in them.
BoundedRedelivery == \A i \in 1..MaxArrivals : shown[i] <= 1 + MaxRecallRetries

InSystem(i) == i \in IdsOf(Waiting \cup scan \cup batch \cup folded)

\* A stimulus that leaves the buffer and the beat has been answered by Self
\* or executed as a command, unless the beat ended in a sleep or in a stop.
UnseenLeavesOnlyBySleepOrStop ==
  [][\A i \in 1..MaxArrivals :
       InSystem(i) /\ ~InSystem(i)' =>
         shown[i] > 0 \/ runs'[i] > 0 \/ phase = "sleeping" \/ stop']_vars

\* An urgent stimulus is taken up though no interval ever elapses: idle and
\* the waits between LLM attempts both yield to it.
UrgentIsTakenUp == adrenalinEvent ~> (~adrenalinEvent \/ Halted)

\* A stop request ends the loop, at the latest when the current interval has
\* elapsed, also out of the endless retries of a failing LLM.
StopIsHonoured == WF_vars(Timeout) => (stop ~> Halted)

\* If intervals elapse and the LLM keeps giving a valid answer now and then,
\* no stimulus stays in the buffer and the beat forever.
NothingIsStuck ==
  WF_vars(Timeout) /\ SF_vars(SelfAnswers) =>
    \A i \in 1..MaxArrivals : InSystem(i) ~> (~InSystem(i) \/ Halted)

\* commands.py:6 and orchestrator.py:289: a matched command "is consumed" and
\* the action runs out-of-band.  A consumed command runs once.
CommandRunsOnce == \A i \in 1..MaxArrivals : runs[i] <= 1

\* README.md:85: tool feedback gets auto-ingested.  What Self answered has
\* been handed to the memory once the ingest phase is over.
SeenFeedbackIsIngested ==
  phase = "apply" =>
    \A s \in folded : s.kind = "feedback" => s.id \in ingested
=============================================================================
