-------------------------- MODULE ProcessLifecycle --------------------------
(***************************************************************************)
(* The process around the runtime: cli/lifecycle.py (start, run, stop,     *)
(* pause, resume, the pid file), the dashboard's restart, and the pause    *)
(* control file that the heartbeat loop polls (runtime/_pause_io.py,       *)
(* Runtime.poll_pause_file).                                               *)
(*                                                                         *)
(* Everything is coordinated through two files, neither of them locked.  A *)
(* step is one access to a file, one signal, or one turn of the loop.      *)
(***************************************************************************)
EXTENDS Naturals, FiniteSets

CONSTANTS
  Launches,    \* bound: how many processes are launched
  Terminal,    \* the operator's shells
  Nobody       \* no process

Pid == 1..Launches

VARIABLES
  pidfile,     \* workspace/.krakey.pid: a process id, or Nobody when absent
  pausefile,   \* workspace/.krakey.pause: absent, forever, until or expired
  process,     \* what each process is doing
  startPaused, \* whether it was launched with --paused
  paused,      \* Runtime._paused
  stopping,    \* Runtime._stop
  predecessor, \* KRAKEY_RESTART_PARENT_PID, or Nobody
  cli,         \* the command each terminal is executing
  wanted,      \* the processes a pause was asked of since they were launched
  crossed      \* whether a launch has passed its check in another's window

lifeVars == <<pidfile, pausefile, process, startPaused, paused, stopping,
              predecessor, cli, wanted, crossed>>

Prompt == [op |-> "none", pid |-> Nobody]
Alive(p) == p # Nobody /\ process[p] \notin {"unborn", "dead"}
Running(p) == process[p] \in {"running", "unlinking"}

Init ==
  /\ pidfile = Nobody /\ pausefile = "absent"
  /\ process = [p \in Pid |-> "unborn"] /\ startPaused = [p \in Pid |-> FALSE]
  /\ paused = [p \in Pid |-> FALSE] /\ stopping = [p \in Pid |-> FALSE]
  /\ predecessor = [p \in Pid |-> Nobody]
  /\ cli = [t \in Terminal |-> Prompt] /\ wanted = {} /\ crossed = FALSE

\* The windows in which the pid file does not say what is going on: another launch is
\* between its check and its entry, a process that was hung up or told to stop has its
\* cleanup before it, a stop waits with the file's removal before it.
Window(p) ==
  \/ \E q \in Pid \ {p} : process[q] \in {"preparing", "writing", "closing"}
  \/ \E t \in Terminal : cli[t].op \in {"stop", "await"}

-----------------------------------------------------------------------------
(* Launching: check the pid file, reconcile the pause file, write the pid. *)

\* Process ids are given out in order.
Born(p) == process[p] = "unborn" /\ \A q \in 1..(p - 1) : process[q] # "unborn"

Launch(p) ==
  /\ Born(p)
  /\ process' = [process EXCEPT ![p] = "checking"]
  /\ \E flag \in BOOLEAN : startPaused' = [startPaused EXCEPT ![p] = flag]
  /\ UNCHANGED <<pidfile, pausefile, paused, stopping, predecessor, cli, wanted, crossed>>

\* Mutant of Refused: a process that is alive does not stand in the way.
MutantRefused(p) == FALSE

Refused(p) == Alive(pidfile) /\ pidfile # predecessor[p]

CheckPidfile(p) ==
  /\ process[p] = "checking"
  /\ process' = [process EXCEPT ![p] = IF Refused(p) THEN "dead" ELSE "preparing"]
  /\ pidfile' = IF Refused(p) THEN pidfile ELSE Nobody
  /\ crossed' = (crossed \/ (~ Refused(p) /\ Window(p)))
  /\ UNCHANGED <<pausefile, startPaused, paused, stopping, predecessor, cli, wanted>>

Prepared(p) == IF startPaused[p] THEN "forever" ELSE "absent"

PreparePauseFile(p) ==
  /\ process[p] = "preparing"
  /\ process' = [process EXCEPT ![p] = "writing"]
  /\ pausefile' = Prepared(p)
  /\ UNCHANGED <<pidfile, startPaused, paused, stopping, predecessor, cli, wanted, crossed>>

WritePidfile(p) ==
  /\ process[p] = "writing"
  /\ process' = [process EXCEPT ![p] = "running"]
  /\ pidfile' = p
  /\ UNCHANGED <<pausefile, startPaused, paused, stopping, predecessor, cli, wanted, crossed>>

\* The dashboard spawns its successor, with its own arguments, and exits
\* without any cleanup.
SpawnSuccessor(p, q) ==
  /\ process[p] = "running" /\ Born(q)
  /\ process' = [process EXCEPT ![p] = "leaving", ![q] = "checking"]
  /\ predecessor' = [predecessor EXCEPT ![q] = p]
  /\ startPaused' = [startPaused EXCEPT ![q] = startPaused[p]]
  /\ UNCHANGED <<pidfile, pausefile, paused, stopping, cli, wanted, crossed>>

LeaveToSuccessor(p) ==
  /\ process[p] = "leaving"
  /\ process' = [process EXCEPT ![p] = "dead"]
  /\ UNCHANGED <<pidfile, pausefile, startPaused, paused, stopping, predecessor, cli, wanted, crossed>>

-----------------------------------------------------------------------------
(* The heartbeat loop: stop flag, pause file, beat. *)

\* Mutant of Expired: a deadline in the past is left in place.
MutantExpired == FALSE

Expired == pausefile = "expired"

\* Absent: not paused.  No number in it: paused.  A deadline: until then.
Poll(p) ==
  /\ process[p] = "running" /\ ~ stopping[p]
  /\ paused' = [paused EXCEPT ![p] = pausefile \in {"forever", "until"}]
  /\ process' = [process EXCEPT ![p] = IF Expired THEN "unlinking" ELSE @]
  /\ UNCHANGED <<pidfile, pausefile, startPaused, stopping, predecessor, cli, wanted, crossed>>

\* Whatever the file holds by now.
UnlinkExpired(p) ==
  /\ process[p] = "unlinking"
  /\ pausefile' = "absent"
  /\ process' = [process EXCEPT ![p] = "running"]
  /\ UNCHANGED <<pidfile, startPaused, paused, stopping, predecessor, cli, wanted, crossed>>

DeadlinePasses ==
  /\ pausefile = "until" /\ pausefile' = "expired"
  /\ UNCHANGED <<pidfile, process, startPaused, paused, stopping, predecessor, cli, wanted, crossed>>

\* The loop sees the flag, paused or not; then the engines are closed.
LeaveLoop(p) ==
  /\ process[p] = "running" /\ stopping[p]
  /\ process' = [process EXCEPT ![p] = "closing"]
  /\ UNCHANGED <<pidfile, pausefile, startPaused, paused, stopping, predecessor, cli, wanted, crossed>>

\* atexit: both files go, whosever they are.
Exit(p) ==
  /\ process[p] = "closing"
  /\ process' = [process EXCEPT ![p] = "dead"]
  /\ pidfile' = Nobody /\ pausefile' = "absent"
  /\ UNCHANGED <<startPaused, paused, stopping, predecessor, cli, wanted, crossed>>

Interrupt(p) ==
  /\ Running(p)
  /\ stopping' = [stopping EXCEPT ![p] = TRUE]
  /\ UNCHANGED <<pidfile, pausefile, process, startPaused, paused, predecessor, cli, wanted, crossed>>

\* A hang-up cleans up at once, and again when the process exits.
HangUp(p) ==
  /\ Running(p)
  /\ process' = [process EXCEPT ![p] = "closing"]
  /\ pidfile' = Nobody /\ pausefile' = "absent"
  /\ UNCHANGED <<startPaused, paused, stopping, predecessor, cli, wanted, crossed>>

Crash(p) ==
  /\ Alive(p) /\ process' = [process EXCEPT ![p] = "dead"]
  /\ UNCHANGED <<pidfile, pausefile, startPaused, paused, stopping, predecessor, cli, wanted, crossed>>

-----------------------------------------------------------------------------
(* krakey stop, pause and resume. *)

Type(t, op) ==
  /\ cli[t] = Prompt /\ pidfile # Nobody
  /\ cli' = [cli EXCEPT ![t] = [op |-> op, pid |-> pidfile]]
  /\ UNCHANGED <<pidfile, pausefile, process, startPaused, paused, stopping, predecessor, wanted, crossed>>

\* The pid file named a process that is gone: status and stop clear it.
FoundStale(t) ==
  /\ cli[t].op \in {"stop", "pause", "resume"} /\ ~ Alive(cli[t].pid)
  /\ pidfile' = IF cli[t].op = "stop" THEN Nobody ELSE pidfile
  /\ cli' = [cli EXCEPT ![t] = Prompt]
  /\ UNCHANGED <<pausefile, process, startPaused, paused, stopping, predecessor, wanted, crossed>>

Terminate(t) ==
  /\ cli[t].op = "stop" /\ Alive(cli[t].pid)
  /\ stopping' = [stopping EXCEPT ![cli[t].pid] = TRUE]
  /\ cli' = [cli EXCEPT ![t].op = "await"]
  /\ UNCHANGED <<pidfile, pausefile, process, startPaused, paused, predecessor, wanted, crossed>>

\* It exits within ten seconds or is killed; the pid file goes either way.
StopDone(t) ==
  /\ cli[t].op = "await"
  /\ process' = [process EXCEPT ![cli[t].pid] = "dead"]
  /\ pidfile' = Nobody
  /\ cli' = [cli EXCEPT ![t] = Prompt]
  /\ UNCHANGED <<pausefile, startPaused, paused, stopping, predecessor, wanted, crossed>>

WritePause(t, content) ==
  /\ cli[t].op = "pause" /\ Alive(cli[t].pid)
  /\ pausefile' = content
  /\ wanted' = wanted \cup {p \in Pid : Alive(p)}
  /\ cli' = [cli EXCEPT ![t] = Prompt]
  /\ UNCHANGED <<pidfile, process, startPaused, paused, stopping, predecessor, crossed>>

ClearPause(t) ==
  /\ cli[t].op = "resume" /\ Alive(cli[t].pid)
  /\ pausefile' = "absent"
  /\ cli' = [cli EXCEPT ![t] = Prompt]
  /\ UNCHANGED <<pidfile, process, startPaused, paused, stopping, predecessor, wanted, crossed>>

Command(t) ==
  \/ \E op \in {"stop", "pause", "resume"} : Type(t, op)
  \/ FoundStale(t) \/ Terminate(t) \/ StopDone(t) \/ ClearPause(t)
  \/ \E content \in {"forever", "until"} : WritePause(t, content)

Launching(p) == Launch(p) \/ CheckPidfile(p) \/ PreparePauseFile(p) \/ WritePidfile(p)
Loop(p) == Poll(p) \/ UnlinkExpired(p) \/ LeaveLoop(p) \/ Exit(p)
Mishap(p) == Interrupt(p) \/ HangUp(p) \/ Crash(p)

LifeNext ==
  \/ \E t \in Terminal : Command(t)
  \/ \E p \in Pid : Launching(p) \/ Loop(p) \/ Mishap(p) \/ LeaveToSuccessor(p)
  \/ \E p, q \in Pid : SpawnSuccessor(p, q)
  \/ DeadlinePasses

\* The loop polls every half second while paused; the clock advances.
LifeFairness == (\A p \in Pid : WF_lifeVars(Loop(p))) /\ WF_lifeVars(DeadlinePasses)

LifeSpec == Init /\ [][LifeNext]_lifeVars /\ LifeFairness

-----------------------------------------------------------------------------
(* Properties *)

LifeTypeOK ==
  /\ pidfile \in Pid \cup {Nobody}
  /\ pausefile \in {"absent", "forever", "until", "expired"}
  /\ process \in [Pid -> {"unborn", "checking", "preparing", "writing", "running",
                          "unlinking", "leaving", "closing", "dead"}]
  /\ {startPaused, paused, stopping} \subseteq [Pid -> BOOLEAN]
  /\ predecessor \in [Pid -> Pid \cup {Nobody}] /\ wanted \subseteq Pid /\ crossed \in BOOLEAN
  /\ \A t \in Terminal : cli[t].op \in {"none", "stop", "pause", "resume", "await"}

\* A runtime is in the pid file as long as it runs, and so there is one; whatever
\* crashed before, in the middle of a launch or of a restart.
OneRuntimeNamed == \A p \in Pid : Running(p) => pidfile = p

\* A runtime pauses only because it was launched paused or asked to while it
\* lived: a pause file a dead process left behind does not reach it.
NoInheritedPause ==
  \A p \in Pid : Running(p) /\ paused[p] => startPaused[p] \/ p \in wanted

\* A launch is clean: one runtime, the one the pid file names, and no state of one that
\* is gone; unless some launch came in another's window, and a launch on top of a
\* runtime that is running is none.
LaunchIsClean == ~ crossed => OneRuntimeNamed /\ NoInheritedPause

\* "start won't double-launch on top of an active foreground run."  Not so, and in no
\* run: a terminal hangs up, a start follows while the old process is closing, whose
\* cleanup then takes the new entry out of the file, and the next start finds none.
StartNeverDoubles == Cardinality({p \in Pid : Running(p)}) <= 1

\* Once the operator types nothing more, a timed pause ends: its file goes
\* and the heart beats, unless it was made indefinite or the process is gone.
TimedPauseEnds == <>[](\A t \in Terminal : cli[t] = Prompt) => \A p \in Pid :
  (process[p] = "running" /\ pausefile \in {"until", "expired"})
    ~> (Running(p) => pausefile = "forever" \/ (pausefile = "absent" /\ ~ paused[p]))
=============================================================================
