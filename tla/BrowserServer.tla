--------------------------- MODULE BrowserServer ---------------------------
(***************************************************************************)
(* The browser tool: BrowserExecTool (tool.py), the client it runs in an   *)
(* environment for every call (snippets.py) and the detached server that   *)
(* keeps a Playwright browser and its tabs across heartbeats (server.py).  *)
(*                                                                         *)
(* A client finds the server through server.json, or starts one.  Calls of *)
(* one decision run side by side.  A timeout ends the client and not the   *)
(* job it left in the server's queue; a reply that is lost between the     *)
(* host and a sandbox does not even end the client.                        *)
(***************************************************************************)
EXTENDS Naturals, Sequences

CONSTANTS
  BrowserCall,  \* the tool calls, each made at most once
  Servers       \* bound: how many servers are ever started

Server == 1..Servers

VARIABLES
  info,      \* server.json: the server it names, 0 when absent
  server,    \* what each server process is doing
  browser,   \* the browser of each server's worker thread
  jobs,      \* the worker's queue: the requests waiting in it
  tabs,      \* the tab map: tabs are named by the call that opened them
  client,    \* where each call is, and the server it found
  envelope,  \* the reply on its way to each client
  told,      \* what Self was told of each call, and the tabs it was shown
  ran        \* how often the worker carried each call out

browserVars == <<info, server, browser, jobs, tabs, client, envelope, told, ran>>

NoReply == [ok |-> FALSE, tabs |-> {}]
Untold == [what |-> "nothing", tabs |-> {}]
Fresh == [pc |-> "new", op |-> "list_tabs", tab |-> "none", on |-> 0]

Init ==
  /\ info = 0 /\ server = [s \in Server |-> "unborn"]
  /\ browser = [s \in Server |-> "launching"]
  /\ jobs = [s \in Server |-> <<>>] /\ tabs = [s \in Server |-> {}]
  /\ client = [c \in BrowserCall |-> Fresh]
  /\ envelope = [c \in BrowserCall |-> NoReply]
  /\ told = [c \in BrowserCall |-> Untold] /\ ran = [c \in BrowserCall |-> 0]

-----------------------------------------------------------------------------
(* The tool and its client. *)

At(c, pc) == client[c].pc = pc

\* What crosses to the environment; Self may name a tab that is not there.
OpArgs == [op : {"list_tabs", "new_tab"}, tab : {"none"}]
            \cup [op : {"close_tab", "operate"}, tab : BrowserCall]

Execute(c) == \E args \in OpArgs :
  /\ At(c, "new")
  /\ client' = [client EXCEPT ![c] = [pc |-> "probing", op |-> args.op, tab |-> args.tab, on |-> 0]]
  /\ UNCHANGED <<info, server, browser, jobs, tabs, envelope, told, ran>>

Answer(c, what, listed) ==
  told' = [told EXCEPT ![c] = [what |-> what, tabs |-> listed]]

\* The client ends; nobody reads the output of one the host has given up.
Tell(c, what, listed) ==
  /\ IF told[c] = Untold THEN Answer(c, what, listed) ELSE UNCHANGED told
  /\ client' = [client EXCEPT ![c] = [Fresh EXCEPT !.pc = "done"]]

\* Parameters that do not validate, or an environment that is denied.
RefuseParameters(c) ==
  /\ At(c, "new") /\ Tell(c, "not_sent", {})
  /\ UNCHANGED <<info, server, browser, jobs, tabs, envelope, ran>>

Listening(s) == s # 0 /\ server[s] = "serving"

Found(c) == client' = [client EXCEPT ![c].pc = "posting", ![c].on = info]

Probe(c) ==
  /\ At(c, "probing")
  /\ IF Listening(info) THEN Found(c) ELSE client' = [client EXCEPT ![c].pc = "spawning"]
  /\ UNCHANGED <<info, server, browser, jobs, tabs, envelope, told, ran>>

\* The stale server.json goes, whatever it names by now.
SpawnServer(c) == \E s \in Server :
  /\ At(c, "spawning")
  /\ server[s] = "unborn" /\ \A r \in 1..(s - 1) : server[r] # "unborn"
  /\ server' = [server EXCEPT ![s] = "starting"]
  /\ info' = 0
  /\ client' = [client EXCEPT ![c].pc = "polling"]
  /\ UNCHANGED <<browser, jobs, tabs, envelope, told, ran>>

WaitForReady(c) ==
  /\ At(c, "polling") /\ Listening(info) /\ Found(c)
  /\ UNCHANGED <<info, server, browser, jobs, tabs, envelope, told, ran>>

\* Thirty seconds without a server.
NotReady(c) ==
  /\ At(c, "polling") /\ Tell(c, "not_sent", {})
  /\ UNCHANGED <<info, server, browser, jobs, tabs, envelope, ran>>

PostRpc(c) ==
  LET s == client[c].on IN
  /\ At(c, "posting")
  /\ IF Listening(s)
     THEN /\ jobs' = [jobs EXCEPT ![s] = Append(@, [call |-> c, op |-> client[c].op, tab |-> client[c].tab])]
          /\ client' = [client EXCEPT ![c].pc = "waiting"]
          /\ UNCHANGED told
     ELSE Tell(c, "not_sent", {}) /\ UNCHANGED jobs
  /\ UNCHANGED <<info, server, browser, tabs, envelope, ran>>

Receive(c) ==
  /\ At(c, "replied") /\ Tell(c, IF envelope[c].ok THEN "ok" ELSE "failed", envelope[c].tabs)
  /\ envelope' = [envelope EXCEPT ![c] = NoReply]
  /\ UNCHANGED <<info, server, browser, jobs, tabs, ran>>

\* The connection breaks, or is given up, before the reply is read; the job
\* stays wherever it is.
ConnectionLost(c) ==
  /\ At(c, "waiting") /\ Tell(c, "unclear", {})
  /\ UNCHANGED <<info, server, browser, jobs, tabs, envelope, ran>>

\* env.run ends without the client's output: a timeout kills the client, the
\* error of a lost sandbox reply leaves it going.  The server knows nothing.
GivesUp(c) ==
  /\ client[c].pc \notin {"new", "done"} /\ told[c] = Untold
  /\ Answer(c, "unclear", {})
  /\ client' \in {client, [client EXCEPT ![c] = [Fresh EXCEPT !.pc = "done"]]}
  /\ UNCHANGED <<info, server, browser, jobs, tabs, envelope, ran>>

Client(c) ==
  \/ Execute(c) \/ RefuseParameters(c) \/ Probe(c) \/ SpawnServer(c) \/ WaitForReady(c)
  \/ NotReady(c) \/ PostRpc(c) \/ Receive(c) \/ ConnectionLost(c) \/ GivesUp(c)

-----------------------------------------------------------------------------
(* The server process and its worker thread. *)

\* The socket is bound before server.json names it.
BindAndPublish(s) ==
  /\ server[s] = "starting" /\ server' = [server EXCEPT ![s] = "serving"]
  /\ info' = s
  /\ UNCHANGED <<browser, jobs, tabs, client, envelope, told, ran>>

Launch(s) == \E outcome \in {"open", "failed"} :
  /\ server[s] \in {"starting", "serving"} /\ browser[s] = "launching"
  /\ browser' = [browser EXCEPT ![s] = outcome]
  /\ UNCHANGED <<info, server, jobs, tabs, client, envelope, told, ran>>

\* The browser or a page goes away under the server; it is not launched again.
BrowserCrash(s) ==
  /\ Listening(s) /\ browser[s] = "open"
  /\ browser' = [browser EXCEPT ![s] = "gone"]
  /\ UNCHANGED <<info, server, jobs, tabs, client, envelope, told, ran>>

\* The tab is in the map before its title is read: an error there is
\* answered as a failure and the tab stays.
Opened(s, c, ok) == {tabs[s] \cup {c}} \cup (IF ok THEN {} ELSE {tabs[s]})

\* What a job may leave in the tab map, done or failed half way.
After(s, job, ok) ==
  CASE job.op = "new_tab" -> Opened(s, job.call, ok)
    [] job.op = "close_tab" -> {tabs[s] \ {job.tab}}
    [] OTHER -> {tabs[s]}

TabThere(s, job) == job.tab = "none" \/ job.tab \in tabs[s]

\* An open page may refuse; without the browser nothing opens or operates.
Outcomes(s, job) ==
  CASE ~ TabThere(s, job) -> {FALSE}
    [] job.op \in {"list_tabs", "close_tab"} -> {TRUE}
    [] OTHER -> IF browser[s] = "open" THEN BOOLEAN ELSE {FALSE}

\* Mutant of Envelope: only a success lists the tabs.
MutantEnvelope(ok, listed) == [ok |-> ok, tabs |-> IF ok THEN listed ELSE {}]

Envelope(ok, listed) == [ok |-> ok, tabs |-> listed]

\* The reply lists the tabs; a page that cannot be read is dropped as it is listed.
Reply(s, ok, left) == \E listed \in IF browser[s] = "open" THEN SUBSET left ELSE {{}} :
  LET c == Head(jobs[s]).call IN
  /\ tabs' = [tabs EXCEPT ![s] = listed]
  /\ jobs' = [jobs EXCEPT ![s] = Tail(@)]
  /\ IF At(c, "waiting")
     THEN /\ envelope' = [envelope EXCEPT ![c] = Envelope(ok, listed)]
          /\ client' = [client EXCEPT ![c].pc = "replied"]
     ELSE UNCHANGED <<envelope, client>>
  /\ UNCHANGED <<info, server, browser, told>>

Work(s) ==
  /\ Listening(s) /\ jobs[s] # <<>> /\ browser[s] \in {"open", "gone"}
  /\ ran' = [ran EXCEPT ![Head(jobs[s]).call] = @ + 1]
  /\ \E ok \in Outcomes(s, Head(jobs[s])) :
       \E left \in After(s, Head(jobs[s]), ok) : Reply(s, ok, left)

\* Without a browser every job is answered with the launch error.
LaunchError(s) ==
  /\ Listening(s) /\ jobs[s] # <<>> /\ browser[s] = "failed"
  /\ Reply(s, FALSE, tabs[s]) /\ UNCHANGED ran

\* A server that leaves its loop removes server.json, whosever it is; one
\* that is killed does not.
ServerEnds(s) ==
  /\ server[s] \in {"starting", "serving"}
  /\ server' = [server EXCEPT ![s] = "dead"]
  /\ info' \in IF Listening(s) THEN {info, 0} ELSE {info}
  /\ jobs' = [jobs EXCEPT ![s] = <<>>] /\ tabs' = [tabs EXCEPT ![s] = {}]
  /\ browser' = [browser EXCEPT ![s] = "gone"]
  /\ UNCHANGED <<client, envelope, told, ran>>

Process(s) == BindAndPublish(s) \/ Launch(s) \/ BrowserCrash(s) \/ Work(s) \/ LaunchError(s) \/ ServerEnds(s)

BrowserNext == (\E c \in BrowserCall : Client(c)) \/ (\E s \in Server : Process(s))

BrowserSpec == Init /\ [][BrowserNext]_browserVars

-----------------------------------------------------------------------------
(* Properties *)

BrowserTypeOK ==
  /\ info \in {0} \cup Server
  /\ server \in [Server -> {"unborn", "starting", "serving", "dead"}]
  /\ browser \in [Server -> {"launching", "open", "failed", "gone"}]
  /\ tabs \in [Server -> SUBSET BrowserCall]
  /\ \A c \in BrowserCall : client[c].on \in {0} \cup Server /\ client[c].op \in {a.op : a \in OpArgs} /\
       client[c].pc \in {"new", "probing", "spawning", "polling", "posting", "waiting", "replied", "done"}
  /\ \A c \in BrowserCall : told[c].what \in {"nothing", "ok", "failed", "not_sent", "unclear"}

\* Whichever server a call found, and whatever crashed, ended, came late or
\* was lost on the way, Self can rely on a definite answer: no call is carried
\* out twice, what it was told is done was carried out, what it was told could
\* not be sent never is, not even later; and a tab a call has open in any server,
\* that of a failed new_tab too, is in the list Self was shown with its answer.
AnswersAreTrue == \A c \in BrowserCall :
  /\ ran[c] <= 1
  /\ told[c].what = "ok" => ran[c] = 1
  /\ told[c].what = "not_sent" => ran[c] = 0
  /\ told[c].what \in {"ok", "failed"} => \A s \in Server : c \in tabs[s] => c \in told[c].tabs

\* "Every successful response includes the current tabs list so Self always
\* knows what's open."
SelfKnowsTabs == [][\A c \in BrowserCall :
  (envelope'[c] # envelope[c] /\ envelope'[c].ok)
    => UNION {tabs'[s] : s \in Server} \subseteq envelope'[c].tabs]_browserVars
=============================================================================
