---------------------------- MODULE Environments ----------------------------
(***************************************************************************)
(* Where tools run commands: the router composed at start-up from the      *)
(* configuration (environment/factory.py, router.py), the host's own       *)
(* processes (local_environment.py), and the sandbox: a guest agent over   *)
(* HTTP (sandbox_environment.py, docker_environment.py, agent.py), checked *)
(* once by preflight.py.  The callers are cli_exec and gui_exec.           *)
(*                                                                         *)
(* Commands of one decision run side by side.  The host's and the guest's  *)
(* timeouts are independent: a lost reply leaves the command running.      *)
(***************************************************************************)
EXTENDS Naturals, FiniteSets

CONSTANTS
  Command,     \* the commands Self asks for, each once
  AllowList,   \* the environments whose allow-list names the plugin
  Starts       \* bound: how often the runtime is started

VARIABLES
  section,     \* environments.sandbox in config.yaml
  token,       \* its agent.token: 0 if empty, else how many were generated
  guest,       \* the agent: the token it was given, and whether it is up
  phase,       \* the runtime: stopped, composed, or running
  starts,      \* how often it has been started
  registered,  \* the router's _envs
  envStatus,   \* the router's _status of the sandbox
  exec,        \* where each command is
  child,       \* the process of each command
  heirs,       \* what that process has started: attached to its pipes, or detached
  said         \* what Self was told of each

host == <<section, token, phase, starts, registered, envStatus>>
processes == <<child, heirs>>
envVars == <<host, guest, exec, processes, said>>

Sections == {"absent", "incomplete", "qemu", "docker", "unknown"}

Init ==
  /\ section \in Sections /\ token = 0 /\ guest = [token |-> 0, up |-> FALSE]
  /\ phase = "stopped" /\ starts = 0
  /\ registered = {} /\ envStatus = "none"
  /\ exec = [c \in Command |-> "new"] /\ child = [c \in Command |-> "none"]
  /\ heirs = [c \in Command |-> "none"]
  /\ said = [c \in Command |-> "nothing"]

-----------------------------------------------------------------------------
(* Composing the router, the preflight, and the end of the runtime. *)

Provider == section \in {"qemu", "docker"}

\* A sandbox without a token is given one, for the next start, if the file
\* can be written; it is not enabled in this one.
GenerateToken(saved) ==
  token' = IF token = 0 /\ section \notin {"absent", "incomplete"} /\ saved THEN 1 ELSE token

\* The container of the docker provider may come up, with the token its
\* image was given.
EnsureContainer ==
  \/ UNCHANGED guest
  \/ section = "docker" /\ token # 0 /\ guest' = [guest EXCEPT !.up = TRUE]

Compose == \E saved \in BOOLEAN :
  /\ phase = "stopped" /\ starts < Starts
  /\ phase' = "composed" /\ starts' = starts + 1
  /\ GenerateToken(saved) /\ EnsureContainer
  /\ registered' = {"local"} \cup {e \in {"sandbox"} : Provider /\ token # 0}
  /\ envStatus' = IF section = "absent" \/ "sandbox" \in registered' THEN "none" ELSE "unconfigured"
  /\ UNCHANGED <<section, exec, processes, said>>

\* What GET /health shows; a slow agent is unreachable.
Health ==
  IF ~ guest.up THEN {"unreachable"}
  ELSE IF guest.token # token THEN {"token_mismatch", "unreachable"}
  ELSE {"ok", "unreachable", "error"}

Preflight == \E outcome \in Health :
  /\ phase = "composed" /\ phase' = "running"
  /\ IF "sandbox" \in registered /\ "sandbox" \in AllowList
     THEN /\ envStatus' = outcome
          /\ registered' = {e \in registered : e = "sandbox" => outcome = "ok"}
     ELSE UNCHANGED <<envStatus, registered>>
  /\ UNCHANGED <<section, token, starts, guest, exec, processes, said>>

\* The runtime stops or dies: its calls are forgotten, what they started is not.
Stop ==
  /\ phase # "stopped" /\ phase' = "stopped"
  /\ registered' = {} /\ envStatus' = "none"
  /\ exec' = [c \in Command |-> IF exec[c] = "new" THEN "new" ELSE "done"]
  /\ UNCHANGED <<section, token, starts, guest, processes, said>>

-----------------------------------------------------------------------------
(* Calls: parameters, the allow-list, one of two transports. *)

At(c, pc) == exec[c] = pc
Goto(c, pc) == exec' = [exec EXCEPT ![c] = pc]
Tell(c, what) == Goto(c, "done") /\ said' = [said EXCEPT ![c] = what]

Resolved(env) == env \in registered /\ env \in AllowList

\* Parameters that do not validate never reach an environment.
Refuse(c) ==
  /\ phase = "running" /\ At(c, "new") /\ Tell(c, "refused")
  /\ UNCHANGED <<host, guest, processes>>

Deny(c) == \E env \in {"local", "sandbox"} :
  /\ phase = "running" /\ At(c, "new") /\ ~ Resolved(env)
  /\ Tell(c, "denied") /\ UNCHANGED <<host, guest, processes>>

Spawned(c) == child' = [child EXCEPT ![c] = "running"] /\ UNCHANGED heirs

RunLocal(c) ==
  /\ phase = "running" /\ At(c, "new") /\ Resolved("local")
  /\ Goto(c, "local") /\ Spawned(c)
  /\ UNCHANGED <<host, guest, said>>

\* There is no such program or directory, or the text for its standard input cannot
\* be encoded, which is tried when the process runs already.
CannotRun(c) ==
  /\ At(c, "new") /\ phase = "running" /\ Resolved("local")
  /\ Tell(c, "error") /\ (UNCHANGED processes \/ Spawned(c)) /\ UNCHANGED <<host, guest>>

CommandEnds(c) ==
  /\ child[c] = "running" /\ child' = [child EXCEPT ![c] = "ended"]
  /\ UNCHANGED <<host, guest, exec, heirs, said>>

\* The command starts processes of its own; they may let go of its pipes, and end.
HeirsMove(c) == \E to \in {"attached", "detached", "ended"} :
  /\ CASE heirs[c] = "none" -> child[c] = "running" /\ to # "ended"
       [] heirs[c] = "attached" -> to # "attached"
       [] heirs[c] = "detached" -> to = "ended"
       [] heirs[c] = "ended" -> FALSE
  /\ heirs' = [heirs EXCEPT ![c] = to] /\ UNCHANGED <<host, guest, exec, child, said>>

\* The output has been read to its end, which waits for everyone who holds the
\* pipes, and the process waited for.
AllRead(c) == child[c] = "ended" /\ heirs[c] # "attached"

LocalOutput(c) ==
  /\ At(c, "local") /\ AllRead(c) /\ Tell(c, "exited")
  /\ UNCHANGED <<host, guest, processes>>

\* Mutant of Killed: the timeout ends the waiting, not the command.
MutantKilled == "running"

\* The process, and not what it has started.
Killed == "ended"

LocalTimeout(c) ==
  /\ At(c, "local") /\ Goto(c, "killed")
  /\ child' = [child EXCEPT ![c] = IF @ = "running" THEN Killed ELSE @]
  /\ UNCHANGED <<host, guest, heirs, said>>

\* The process ends, and its pipes close, just before it would be killed.
KillTooLate(c) ==
  /\ At(c, "local") /\ AllRead(c) /\ Tell(c, "error")
  /\ UNCHANGED <<host, guest, processes>>

\* The pipes are read to their end before Self is told.
LocalTimedOut(c) ==
  /\ At(c, "killed") /\ heirs[c] # "attached" /\ Tell(c, "timeout")
  /\ UNCHANGED <<host, guest, processes>>

Accepts == guest.up /\ guest.token = token

PostExec(c) ==
  /\ phase = "running" /\ At(c, "new") /\ Resolved("sandbox") /\ Accepts
  /\ Goto(c, "posted") /\ Spawned(c)
  /\ UNCHANGED <<host, guest, said>>

\* The agent's own timeout: it waits for the process it kills, not for its pipes.
GuestTimeout(c) ==
  /\ At(c, "posted") /\ guest.up /\ ~ AllRead(c) /\ Goto(c, "overdue")
  /\ child' = [child EXCEPT ![c] = Killed] /\ UNCHANGED <<host, guest, heirs, said>>

\* An exit code: the command's, 127 if there is no such command, or 124 after a
\* timeout.
GuestReply(c) ==
  /\ guest.up
  /\ \/ At(c, "posted") /\ AllRead(c) /\ Tell(c, "exited")
     \/ At(c, "overdue") /\ Tell(c, "overran")
  /\ UNCHANGED <<host, guest, processes>>

\* No agent, a rejected token, a broken connection, or ten seconds too late.
Unavailable(c) ==
  /\ \/ exec[c] \in {"posted", "overdue", "cut"}
     \/ At(c, "new") /\ phase = "running" /\ Resolved("sandbox") /\ ~ Accepts
  /\ Tell(c, "unavailable") /\ UNCHANGED <<host, guest, processes>>

Call(c) ==
  \/ Refuse(c) \/ Deny(c) \/ RunLocal(c) \/ CannotRun(c) \/ CommandEnds(c) \/ HeirsMove(c)
  \/ LocalOutput(c) \/ LocalTimeout(c) \/ KillTooLate(c) \/ LocalTimedOut(c)
  \/ PostExec(c) \/ GuestTimeout(c) \/ GuestReply(c) \/ Unavailable(c)

-----------------------------------------------------------------------------
(* The operator and the guest. *)

\* The guest is given a token, the one in config.yaml or another, and started.
Provision ==
  /\ ~ guest.up /\ \E t \in {1, 2} : guest' = [token |-> t, up |-> TRUE]
  /\ UNCHANGED <<host, exec, processes, said>>

GuestDown ==
  /\ guest.up /\ guest' = [guest EXCEPT !.up = FALSE]
  /\ exec' = [c \in Command |-> IF exec[c] \in {"posted", "overdue"} THEN "cut" ELSE exec[c]]
  /\ UNCHANGED <<host, processes, said>>

EnvNext == Compose \/ Preflight \/ Stop \/ Provision \/ GuestDown \/ \E c \in Command : Call(c)

EnvSpec == Init /\ [][EnvNext]_envVars

-----------------------------------------------------------------------------
(* Properties *)

EnvTypeOK ==
  /\ section \in Sections /\ token \in 0..1 /\ guest.token \in 0..2
  /\ phase \in {"stopped", "composed", "running"} /\ starts \in 0..Starts
  /\ registered \subseteq {"local", "sandbox"}
  /\ envStatus \in {"none", "ok", "unconfigured", "unreachable", "token_mismatch", "error"}
  /\ exec \in [Command -> {"new", "local", "killed", "posted", "overdue", "cut", "done"}]
  /\ child \in [Command -> {"none", "running", "ended"}]
  /\ heirs \in [Command -> {"none", "attached", "detached", "ended"}]
  /\ said \in [Command -> {"nothing", "refused", "denied", "error", "exited", "overran",
                           "timeout", "unavailable"}]

\* What Self is told decides whether a command may be repeated: denied or refused, it
\* never ran; with an exit code, or a timeout on the host, the process has ended and
\* nothing it started holds its pipes any more; after a timeout in the guest (exit code 124) only
\* the process itself is known to have ended.  What has let go of the pipes may run on
\* in each case, and "error" and "unavailable" say nothing of the command.  Once the
\* runtime is running, a sandbox that is configured and allowed but not registered has
\* a status that says why.
RetryIsInformed ==
  /\ \A c \in Command :
       /\ said[c] \in {"refused", "denied"} => child[c] = "none" /\ heirs[c] = "none"
       /\ said[c] \in {"exited", "timeout"} => AllRead(c)
       /\ said[c] = "overran" => child[c] = "ended"
  /\ (phase = "running" /\ section # "absent" /\ "sandbox" \in AllowList)
       => ("sandbox" \in registered <=> envStatus = "ok")

\* A command that was told to have timed out leaves nothing behind.  Not so, and in
\* no run: only the process itself is killed.
NothingOutlivesTimeout ==
  \A c \in Command : said[c] \in {"timeout", "overran"} => heirs[c] \notin {"attached", "detached"}
=============================================================================
