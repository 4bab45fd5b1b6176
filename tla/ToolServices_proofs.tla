-------------------------- MODULE ToolServices_proofs --------------------------
(***************************************************************************)
(* Facts about what Self acts through, for every value of the constants:   *)
(* the MCP connector, the browser tool, the writers of graph memory and    *)
(* web searches; and, at the end, their types.                             *)
(***************************************************************************)
EXTENDS MCServices, StimulusBuffer_proofs, FiniteSetTheorems, TLAPS

-----------------------------------------------------------------------------
(* The MCP connector *)

\* How often a call may have been carried out before its last try, and after.
Before == IF Reconnect THEN 1 ELSE 0
After == IF Reconnect THEN 2 ELSE 1

McpInv ==
  /\ {session, stack, opened} \subseteq Nat
  /\ call \in [McpCall -> [pc : {"new", "calling", "failed", "closing", "connecting",
                                 "retrying", "done"}, on : Nat]]
  /\ executed \in [McpCall -> Nat]
  /\ answer \in [McpCall -> {"none", "text", "error", "timeout"}]
  /\ \A c \in McpCall :
       /\ call[c].pc \in {"new", "calling"} => executed[c] = 0
       /\ call[c].pc \notin {"new", "calling", "done"} => executed[c] <= Before
       /\ executed[c] <= After
       /\ answer[c] = "text" => executed[c] > 0

LEMMA McpMoves ==
  ASSUME [ServicesNext]_servicesVars
  PROVE  Mcp!McpNext \/ UNCHANGED Mcp!mcpVars
<1>1. CASE UNCHANGED servicesVars BY <1>1 DEF servicesVars
<1>2. CASE ServicesNext
  <2>1. CASE McpStep BY <2>1 DEF McpStep
  <2>2. CASE ~ McpStep
    BY <1>2, <2>2 DEF ServicesNext, BufferStep, ChatStep, ReloadStep, BrowserStep, EnvStep,
      GraphStep, SearchStep, DecisionStep, LifeStep, FirstStep, EngineStep, InstallStep,
      LlmStep, OthersStill, Moves, Mcp!mcpVars
  <2> QED BY <2>1, <2>2
<1> QED BY <1>1, <1>2

LEMMA McpGoesOn == ASSUME McpInv, Mcp!McpNext PROVE McpInv'
<1> SUFFICES ASSUME NEW c \in McpCall,
               \/ Mcp!Execute(c) \/ Mcp!Returns(c) \/ Mcp!ReplyLost(c) \/ Mcp!CallFails(c)
               \/ Mcp!BeginClose(c) \/ Mcp!BeginConnect(c) \/ Mcp!Connected(c)
               \/ Mcp!ConnectFails(c) \/ Mcp!TimesOut(c)
             PROVE  McpInv'
  BY DEF Mcp!McpNext
<1> USE DEF McpInv, Before, After, Mcp!At, Mcp!Goto, Mcp!Answer
<1>1. CASE Mcp!Execute(c)
  BY <1>1 DEF Mcp!Execute
<1>2. CASE Mcp!Returns(c)
  BY <1>2 DEF Mcp!Returns, Mcp!InFlight
<1>3. CASE Mcp!ReplyLost(c)
  BY <1>3, SMTT(30) DEF Mcp!ReplyLost, Mcp!InFlight, Mcp!Fail, Mcp!AfterFailure
<1>4. CASE Mcp!CallFails(c)
  BY <1>4 DEF Mcp!CallFails, Mcp!Fail, Mcp!AfterFailure
<1>5. CASE Mcp!BeginClose(c)
  BY <1>5 DEF Mcp!BeginClose
<1>6. CASE Mcp!BeginConnect(c)
  BY <1>6 DEF Mcp!BeginConnect
<1>7. CASE Mcp!Connected(c)
  BY <1>7 DEF Mcp!Connected
<1>8. CASE Mcp!ConnectFails(c)
  BY <1>8 DEF Mcp!ConnectFails
<1>9. CASE Mcp!TimesOut(c)
  BY <1>9 DEF Mcp!TimesOut
<1> QED BY <1>1, <1>2, <1>3, <1>4, <1>5, <1>6, <1>7, <1>8, <1>9

LEMMA McpStays == ServicesSpec => []McpInv
<1>1. ServicesInit => McpInv
  BY DEF ServicesInit, Mcp!Init, McpInv, Before, After
<1>2. McpInv /\ [ServicesNext]_servicesVars => McpInv'
  <2>1. McpInv /\ UNCHANGED Mcp!mcpVars => McpInv'
    BY DEF McpInv, Mcp!mcpVars
  <2> QED BY <2>1, McpMoves, McpGoesOn
<1> QED BY <1>1, <1>2, PTL DEF ServicesSpec

\* A call is carried out at most twice, and once without reconnect, however calls
\* disturb each other's session and replies get lost; and text is never made up.
THEOREM EffectsRepeatOnce == ServicesSpec => []AtMostOneRetry
<1>1. McpInv => AtMostOneRetry
  BY DEF McpInv, After, AtMostOneRetry, Mcp!AtMostOneRetry
<1> QED BY <1>1, McpStays, PTL

-----------------------------------------------------------------------------
(* The browser tool *)

Early == {"new", "probing", "spawning", "polling", "posting"}
Ops == {"list_tabs", "new_tab", "close_tab", "operate"}
Job == [call : BrowserCall, op : Ops, tab : BrowserCall \cup {"none"}]
Client == [pc : Early \cup {"waiting", "replied", "done"}, op : Ops,
           tab : BrowserCall \cup {"none"}, on : {0} \cup Browser!Server]

Told == [what : {"nothing", "ok", "failed", "not_sent", "unclear"}, tabs : SUBSET BrowserCall]
Definite == {"ok", "failed", "not_sent"}

Tabless(c) == \A s \in Browser!Server : c \notin tabs[s]
Listed(c, list) == \A s \in Browser!Server : c \in tabs[s] => c \in list

BrowserTypes ==
  /\ info \in {0} \cup Browser!Server
  /\ server \in [Browser!Server -> {"unborn", "starting", "serving", "dead"}]
  /\ jobs \in [Browser!Server -> Seq(Job)]
  /\ tabs \in [Browser!Server -> SUBSET BrowserCall]
  /\ client \in [BrowserCall -> Client]
  /\ envelope \in [BrowserCall -> [ok : BOOLEAN, tabs : SUBSET BrowserCall]]
  /\ told \in [BrowserCall -> Told]
  /\ ran \in [BrowserCall -> Nat]

JobsDistinct == \A s, t \in Browser!Server : \A i \in 1..Len(jobs[s]), j \in 1..Len(jobs[t]) :
  jobs[s][i].call = jobs[t][j].call => s = t /\ i = j

\* Nobody was told anything definite of a job that is still queued.
Queued(c, s) ==
  /\ ran[c] = 0 /\ Tabless(c) /\ told[c].what \notin Definite
  /\ client[c].pc \in {"waiting", "done"}
  /\ client[c].pc = "waiting" => client[c].on = s

JobsPending == \A s \in Browser!Server : \A i \in 1..Len(jobs[s]) : Queued(jobs[s][i].call, s)

DeadHasNoJobs == \A s \in Browser!Server : server[s] = "dead" => jobs[s] = <<>>

CallSound(c) ==
  /\ client[c].pc \in Early \cup {"waiting"} => ran[c] = 0 /\ Tabless(c)
  /\ client[c].pc # "done" => told[c].what \notin Definite
  /\ client[c].pc = "waiting" => client[c].on \in Browser!Server
  /\ client[c].pc = "replied" => (envelope[c].ok => ran[c] = 1) /\ Listed(c, envelope[c].tabs)
  /\ ran[c] <= 1
  /\ told[c].what = "ok" => ran[c] = 1
  /\ told[c].what = "not_sent" => ran[c] = 0
  /\ told[c].what \in {"ok", "failed"} => Listed(c, told[c].tabs)

BrowserInv ==
  /\ BrowserTypes /\ JobsDistinct /\ JobsPending /\ DeadHasNoJobs
  /\ \A c \in BrowserCall : CallSound(c)

LEMMA BrowserStarts == ASSUME ServicesInit PROVE BrowserInv
<1>1. Browser!Init
  BY DEF ServicesInit
<1>2. BrowserTypes
  BY <1>1 DEF Browser!Init, BrowserTypes, Browser!Fresh, Browser!NoReply, Browser!Untold, Told,
    Client, Early, Ops
<1>3. \A s \in Browser!Server : jobs[s] = <<>> /\ Len(jobs[s]) = 0 /\ tabs[s] = {}
  BY <1>1 DEF Browser!Init
<1>4. \A c \in BrowserCall : CallSound(c)
  BY <1>1, <1>3 DEF Browser!Init, Browser!Fresh, Browser!Untold, CallSound, Tabless, Early, Definite
<1> QED BY <1>2, <1>3, <1>4 DEF BrowserInv, JobsDistinct, JobsPending, DeadHasNoJobs

LEMMA BrowserMoves ==
  ASSUME [ServicesNext]_servicesVars
  PROVE  Browser!BrowserNext \/ UNCHANGED Browser!browserVars
<1>1. CASE UNCHANGED servicesVars BY <1>1 DEF servicesVars
<1>2. CASE ServicesNext
  <2>1. CASE BrowserStep BY <2>1 DEF BrowserStep
  <2>2. CASE ~ BrowserStep
    BY <1>2, <2>2 DEF ServicesNext, BufferStep, ChatStep, ReloadStep, McpStep, EnvStep,
      GraphStep, SearchStep, DecisionStep, LifeStep, FirstStep, EngineStep, InstallStep,
      LlmStep, OthersStill, Moves, Browser!browserVars
  <2> QED BY <2>1, <2>2
<1> QED BY <1>1, <1>2

LEMMA QueuedJob ==
  ASSUME BrowserInv, NEW s \in Browser!Server, NEW i \in 1..Len(jobs[s])
  PROVE  jobs[s][i] \in Job /\ jobs[s][i].call \in BrowserCall /\ Queued(jobs[s][i].call, s)
<1>1. jobs[s] \in Seq(Job)
  BY DEF BrowserInv, BrowserTypes
<1>2. jobs[s][i] \in Job
  BY <1>1
<1>3. jobs[s][i].call \in BrowserCall
  BY <1>2 DEF Job
<1> QED BY <1>2, <1>3 DEF BrowserInv, JobsPending

LEMMA JobAppended ==
  ASSUME NEW q \in Seq(Job), NEW j \in Job
  PROVE  /\ Append(q, j) \in Seq(Job) /\ Len(Append(q, j)) = Len(q) + 1 /\ Len(q) \in Nat
         /\ \A i \in 1..(Len(q) + 1) : Append(q, j)[i] = IF i <= Len(q) THEN q[i] ELSE j
OBVIOUS

LEMMA JobTaken ==
  ASSUME NEW q \in Seq(Job), q # <<>>
  PROVE  /\ Tail(q) \in Seq(Job) /\ Len(Tail(q)) = Len(q) - 1 /\ Len(q) \in Nat
         /\ \A i \in 1..(Len(q) - 1) : Tail(q)[i] = q[i + 1]
         /\ 1 \in 1..Len(q) /\ Head(q) = q[1] /\ Head(q) \in Job
OBVIOUS

\* What Self learns of a call whose client is not done is true of it, whether the
\* client ends with it or goes on.
LEMMA LearnKeeps ==
  ASSUME BrowserInv, NEW c \in BrowserCall, NEW news \in Told,
         client[c].pc # "done",
         told' \in {told, [told EXCEPT ![c] = news]},
         \/ client' = [client EXCEPT ![c] = [Browser!Fresh EXCEPT !.pc = "done"]]
         \/ client' = client /\ news.what \notin Definite,
         UNCHANGED <<info, server, jobs, tabs, ran>>,
         envelope' \in {envelope, [envelope EXCEPT ![c] = Browser!NoReply]},
         client' = client => envelope' = envelope,
         news.what = "ok" => ran[c] = 1,
         news.what = "not_sent" => ran[c] = 0,
         news.what \in {"ok", "failed"} => Listed(c, news.tabs),
         news.what \in Definite => \A s \in Browser!Server : \A i \in 1..Len(jobs[s]) : jobs[s][i].call # c
  PROVE  BrowserInv'
<1> DEFINE ended == [Browser!Fresh EXCEPT !.pc = "done"]
<1>1. ended \in Client /\ ended.pc = "done"
  BY DEF Browser!Fresh, Client, Ops
<1>2. \/ client' = [client EXCEPT ![c] = ended]
      \/ client' = client /\ news.what \notin Definite
  OBVIOUS
<1> HIDE DEF ended
<1>3. BrowserTypes'
  <2>1. Browser!NoReply \in [ok : BOOLEAN, tabs : SUBSET BrowserCall]
    BY DEF Browser!NoReply
  <2>2. envelope' \in [BrowserCall -> [ok : BOOLEAN, tabs : SUBSET BrowserCall]]
    BY <2>1 DEF BrowserInv, BrowserTypes
  <2>3. client' \in [BrowserCall -> Client]
    BY <1>1, <1>2 DEF BrowserInv, BrowserTypes
  <2>4. told' \in [BrowserCall -> Told]
    BY DEF BrowserInv, BrowserTypes
  <2> QED BY <2>2, <2>3, <2>4 DEF BrowserInv, BrowserTypes
<1>4. /\ client'[c].pc = "done" \/ (client' = client /\ envelope' = envelope /\ news.what \notin Definite)
      /\ \A d \in BrowserCall : d # c => client'[d] = client[d]
  BY <1>1, <1>2 DEF BrowserInv, BrowserTypes
<1>5. (told'[c] = told[c] \/ told'[c] = news) /\ \A d \in BrowserCall : d # c => told'[d] = told[d]
  BY DEF BrowserInv, BrowserTypes
<1>6. \A d \in BrowserCall : d # c => envelope'[d] = envelope[d]
  BY DEF BrowserInv, BrowserTypes
<1>7. CallSound(c)'
  <2>1. CallSound(c)
    BY DEF BrowserInv
  <2>2. \A list : Listed(c, list) => Listed(c, list)'
    BY DEF Listed
  <2>3. /\ ran'[c] <= 1 /\ (told'[c].what = "ok" => ran'[c] = 1)
        /\ (told'[c].what = "not_sent" => ran'[c] = 0)
    BY <2>1, <1>5 DEF CallSound
  <2>4. told'[c].what \in {"ok", "failed"} => Listed(c, told[c].tabs)'
    BY <2>1, <1>5 DEF CallSound, Listed
  <2>5. CASE client'[c].pc = "done"
    BY <2>3, <2>4, <2>5 DEF CallSound, Early
  <2>6. CASE client' = client /\ envelope' = envelope /\ news.what \notin Definite
    BY <2>1, <2>3, <2>4, <2>6, <1>5 DEF CallSound, Listed, Tabless
  <2> QED BY <2>5, <2>6, <1>4
<1>8. ASSUME NEW d \in BrowserCall, d # c PROVE CallSound(d)'
  BY <1>4, <1>5, <1>6, <1>8 DEF CallSound, Tabless, Listed, BrowserInv
<1>9. JobsPending'
  <2>1. ASSUME NEW s \in Browser!Server, NEW i \in 1..Len(jobs[s]) PROVE Queued(jobs[s][i].call, s)'
    <3> DEFINE d == jobs[s][i].call
    <3>1. d \in BrowserCall /\ Queued(d, s)
      BY QueuedJob
    <3>2. CASE d = c
      <4>1. news.what \notin Definite
        BY <3>2
      <4> QED BY <3>1, <3>2, <4>1, <1>4, <1>5 DEF Queued, Tabless
    <3>3. CASE d # c
      BY <3>1, <3>3, <1>4, <1>5 DEF Queued, Tabless
    <3> QED BY <3>2, <3>3
  <2> QED BY <2>1 DEF JobsPending
<1>10. JobsDistinct' /\ DeadHasNoJobs'
  BY DEF BrowserInv, JobsDistinct, DeadHasNoJobs
<1> QED BY <1>3, <1>7, <1>8, <1>9, <1>10 DEF BrowserInv

LEMMA TellKeeps ==
  ASSUME BrowserInv, NEW c \in BrowserCall,
         NEW what \in {"ok", "failed", "not_sent", "unclear"}, NEW list \in SUBSET BrowserCall,
         Browser!Tell(c, what, list), client[c].pc # "done",
         UNCHANGED <<info, server, jobs, tabs, ran>>,
         envelope' \in {envelope, [envelope EXCEPT ![c] = Browser!NoReply]},
         what = "ok" => ran[c] = 1,
         what = "not_sent" => ran[c] = 0,
         what \in {"ok", "failed"} => Listed(c, list),
         what # "unclear" => \A s \in Browser!Server : \A i \in 1..Len(jobs[s]) : jobs[s][i].call # c
  PROVE  BrowserInv'
<1> DEFINE news == [what |-> what, tabs |-> list]
<1>1. news \in Told /\ news.what = what /\ news.tabs = list
  BY DEF Told
<1>2. /\ told' \in {told, [told EXCEPT ![c] = news]}
      /\ client' = [client EXCEPT ![c] = [Browser!Fresh EXCEPT !.pc = "done"]]
  BY DEF Browser!Tell, Browser!Answer
<1>3. client' # client
  BY <1>2 DEF BrowserInv, BrowserTypes, Client, Browser!Fresh
<1> HIDE DEF news
<1> QED BY <1>1, <1>2, <1>3, LearnKeeps DEF Definite

\* A call whose job is not queued yet has none.
LEMMA EarlyHasNoJob ==
  ASSUME BrowserInv, NEW c \in BrowserCall, client[c].pc \in Early \cup {"replied"}
  PROVE  \A s \in Browser!Server : \A i \in 1..Len(jobs[s]) : jobs[s][i].call # c
BY DEF BrowserInv, JobsPending, Queued, Early

\* On its way to the server a client changes nothing but where it is.
LEMMA EarlyKeeps ==
  ASSUME BrowserInv, NEW c \in BrowserCall, NEW r \in Client,
         client[c].pc \in Early, r.pc \in Early,
         client' = [client EXCEPT ![c] = r],
         UNCHANGED <<jobs, tabs, envelope, told, ran>>,
         info' \in {0} \cup Browser!Server,
         server' \in [Browser!Server -> {"unborn", "starting", "serving", "dead"}],
         \A s \in Browser!Server : server'[s] = "dead" => server[s] = "dead"
  PROVE  BrowserInv'
<1>1. BrowserTypes'
  BY DEF BrowserInv, BrowserTypes
<1>2. client'[c] = r /\ \A d \in BrowserCall : d # c => client'[d] = client[d]
  BY DEF BrowserInv, BrowserTypes
<1>3. CallSound(c)'
  BY <1>2 DEF CallSound, Tabless, Listed, BrowserInv, Early
<1>4. ASSUME NEW d \in BrowserCall, d # c PROVE CallSound(d)'
  BY <1>2, <1>4 DEF CallSound, Tabless, Listed, BrowserInv
<1>5. JobsPending'
  <2>1. ASSUME NEW s \in Browser!Server, NEW i \in 1..Len(jobs[s]) PROVE Queued(jobs[s][i].call, s)'
    <3>1. jobs[s][i].call \in BrowserCall /\ Queued(jobs[s][i].call, s)
      BY QueuedJob
    <3>2. jobs[s][i].call # c
      BY EarlyHasNoJob
    <3> QED BY <3>1, <3>2, <1>2 DEF Queued, Tabless
  <2> QED BY <2>1 DEF JobsPending
<1>6. JobsDistinct' /\ DeadHasNoJobs'
  BY DEF BrowserInv, JobsDistinct, DeadHasNoJobs
<1> QED BY <1>1, <1>3, <1>4, <1>5, <1>6 DEF BrowserInv

LEMMA JobPosted ==
  ASSUME BrowserInv, NEW c \in BrowserCall, Browser!PostRpc(c) PROVE BrowserInv'
<1> DEFINE s == client[c].on
           posted == [call |-> c, op |-> client[c].op, tab |-> client[c].tab]
<1>1. client[c].pc = "posting" /\ client[c] \in Client /\ c \in BrowserCall
  BY DEF Browser!PostRpc, Browser!At, BrowserInv, BrowserTypes
<1>2. \A t \in Browser!Server : \A i \in 1..Len(jobs[t]) : jobs[t][i].call # c
  BY <1>1, EarlyHasNoJob DEF Early
<1>3. ran[c] = 0 /\ Tabless(c) /\ told[c].what \notin Definite
  BY <1>1 DEF BrowserInv, CallSound, Early
<1>4. CASE ~ Browser!Listening(s)
  <2>1. Browser!Tell(c, "not_sent", {}) /\ UNCHANGED <<info, server, jobs, tabs, ran, envelope>>
    BY <1>4 DEF Browser!PostRpc
  <2> QED BY <2>1, <1>1, <1>2, <1>3, TellKeeps
<1>5. CASE Browser!Listening(s)
  <2>1. /\ jobs' = [jobs EXCEPT ![s] = Append(@, posted)]
        /\ client' = [client EXCEPT ![c].pc = "waiting"]
        /\ UNCHANGED <<info, server, tabs, envelope, ran, told>>
    BY <1>5 DEF Browser!PostRpc
  <2>2. s \in Browser!Server /\ server[s] = "serving"
    BY <1>1, <1>5 DEF Browser!Listening, Client
  <2>3. posted \in Job
    BY <1>1 DEF Client, Job
  <2>4. /\ jobs'[s] = Append(jobs[s], posted) /\ jobs[s] \in Seq(Job)
        /\ \A t \in Browser!Server : t # s => jobs'[t] = jobs[t]
    BY <2>1, <2>2 DEF BrowserInv, BrowserTypes
  <2>5. /\ client'[c].pc = "waiting" /\ client'[c].on = s
        /\ \A d \in BrowserCall : d # c => client'[d] = client[d]
        /\ client' \in [BrowserCall -> Client]
    <3>1. client \in [BrowserCall -> Client]
      BY DEF BrowserInv, BrowserTypes
    <3>2. client' = [client EXCEPT ![c] = [client[c] EXCEPT !.pc = "waiting"]]
      BY <2>1, <3>1
    <3>3. client'[c] = [client[c] EXCEPT !.pc = "waiting"]
      BY <3>1, <3>2
    <3> QED BY <3>1, <3>2, <3>3, <1>1 DEF Client
  <2> HIDE DEF s, posted
  <2>6. /\ jobs'[s] \in Seq(Job) /\ Len(jobs'[s]) = Len(jobs[s]) + 1 /\ Len(jobs[s]) \in Nat
        /\ \A i \in 1..(Len(jobs[s]) + 1) : jobs'[s][i] = IF i <= Len(jobs[s]) THEN jobs[s][i] ELSE posted
    BY <2>3, <2>4, JobAppended
  <2>7. posted.call = c
    BY DEF posted
  <2>8. BrowserTypes'
    <3>1. jobs' \in [Browser!Server -> Seq(Job)]
      BY <2>1, <2>2, <2>4, <2>6 DEF BrowserInv, BrowserTypes
    <3> QED BY <3>1, <2>1, <2>5 DEF BrowserInv, BrowserTypes
  <2>9. ASSUME NEW t \in Browser!Server, NEW i \in 1..Len(jobs'[t])
        PROVE  \/ i \in 1..Len(jobs[t]) /\ jobs'[t][i] = jobs[t][i]
               \/ t = s /\ i = Len(jobs[s]) + 1 /\ jobs'[t][i].call = c
    <3>1. CASE t # s
      <4>1. jobs'[t] = jobs[t]
        BY <2>4, <3>1
      <4> QED BY <4>1, <2>9
    <3>2. CASE t = s
      <4>1. i \in 1..(Len(jobs[s]) + 1)
        BY <2>6, <2>9, <3>2
      <4>2. jobs'[s][i] = IF i <= Len(jobs[s]) THEN jobs[s][i] ELSE posted
        BY <2>6, <4>1
      <4>3. CASE i <= Len(jobs[s])
        BY <2>6, <3>2, <4>1, <4>2, <4>3
      <4>4. CASE ~ (i <= Len(jobs[s]))
        <5>1. i = Len(jobs[s]) + 1
          BY <2>6, <4>1, <4>4
        <5>2. jobs'[s][i] = posted
          BY <4>2, <4>4
        <5> QED BY <5>1, <5>2, <2>7, <3>2
      <4> QED BY <4>3, <4>4
    <3> QED BY <3>1, <3>2
  <2>10. JobsDistinct'
    <3>1. ASSUME NEW t \in Browser!Server, NEW u \in Browser!Server,
                 NEW i \in 1..Len(jobs'[t]), NEW j \in 1..Len(jobs'[u]),
                 jobs'[t][i].call = jobs'[u][j].call
          PROVE  t = u /\ i = j
      <4>1. CASE i \in 1..Len(jobs[t]) /\ jobs'[t][i] = jobs[t][i]
        <5>1. j \in 1..Len(jobs[u]) /\ jobs'[u][j] = jobs[u][j]
          BY <4>1, <3>1, <2>9, <1>2
        <5> QED BY <4>1, <5>1, <3>1 DEF BrowserInv, JobsDistinct
      <4>2. CASE t = s /\ i = Len(jobs[s]) + 1 /\ jobs'[t][i].call = c
        <5>1. u = s /\ j = Len(jobs[s]) + 1
          BY <4>2, <3>1, <2>9, <1>2, SMTT(30)
        <5> QED BY <4>2, <5>1
      <4> QED BY <4>1, <4>2, <2>9
    <3> QED BY <3>1 DEF JobsDistinct
  <2>11. JobsPending'
    <3>1. ASSUME NEW t \in Browser!Server, NEW i \in 1..Len(jobs'[t]) PROVE Queued(jobs[t][i].call, t)'
      <4>1. CASE i \in 1..Len(jobs[t]) /\ jobs'[t][i] = jobs[t][i]
        <5>1. jobs[t][i].call \in BrowserCall /\ Queued(jobs[t][i].call, t) /\ jobs[t][i].call # c
          BY <4>1, <1>2, QueuedJob
        <5> QED BY <4>1, <5>1, <2>1, <2>5 DEF Queued, Tabless
      <4>2. CASE t = s /\ jobs'[t][i].call = c
        BY <4>2, <1>3, <2>1, <2>5 DEF Queued, Tabless
      <4> QED BY <4>1, <4>2, <2>9
    <3> QED BY <3>1 DEF JobsPending
  <2>12. DeadHasNoJobs'
    BY <2>1, <2>2, <2>4 DEF BrowserInv, DeadHasNoJobs
  <2>13. CallSound(c)'
    BY <1>3, <2>1, <2>2, <2>5 DEF CallSound, Tabless, Early, Definite
  <2>14. ASSUME NEW d \in BrowserCall, d # c PROVE CallSound(d)'
    BY <2>1, <2>5, <2>14 DEF CallSound, Tabless, Listed, BrowserInv
  <2> QED BY <2>8, <2>10, <2>11, <2>12, <2>13, <2>14 DEF BrowserInv
<1> QED BY <1>4, <1>5

\* The worker takes the first job of its queue and replies to whoever waits.
LEMMA ReplyKeeps ==
  ASSUME BrowserInv, NEW s \in Browser!Server, jobs[s] # <<>>,
         NEW c, c = Head(jobs[s]).call,
         NEW ok \in BOOLEAN, NEW left, Browser!Reply(s, ok, left),
         left \subseteq tabs[s] \cup {c},
         \/ ran' = [ran EXCEPT ![c] = @ + 1]
         \/ ran' = ran /\ ~ ok
  PROVE  BrowserInv'
<1>1. jobs[s] \in Seq(Job) /\ tabs[s] \subseteq BrowserCall
  BY DEF BrowserInv, BrowserTypes
<1>2. /\ Tail(jobs[s]) \in Seq(Job) /\ Len(Tail(jobs[s])) = Len(jobs[s]) - 1 /\ Len(jobs[s]) \in Nat
      /\ \A i \in 1..(Len(jobs[s]) - 1) : Tail(jobs[s])[i] = jobs[s][i + 1]
      /\ 1 \in 1..Len(jobs[s]) /\ c = jobs[s][1].call
  BY <1>1, JobTaken
<1>3. c \in BrowserCall /\ Queued(c, s)
  BY <1>2, QueuedJob
<1>p. PICK listed \in IF browser[s] = "open" THEN SUBSET left ELSE {{}} :
        /\ tabs' = [tabs EXCEPT ![s] = listed] /\ jobs' = [jobs EXCEPT ![s] = Tail(@)]
        /\ IF client[c].pc = "waiting"
           THEN /\ envelope' = [envelope EXCEPT ![c] = [ok |-> ok, tabs |-> listed]]
                /\ client' = [client EXCEPT ![c].pc = "replied"]
           ELSE client' = client /\ envelope' = envelope
        /\ UNCHANGED <<info, server, told>>
  BY DEF Browser!Reply, Browser!At, Browser!Envelope
<1>4. /\ tabs' = [tabs EXCEPT ![s] = listed] /\ jobs' = [jobs EXCEPT ![s] = Tail(@)]
      /\ UNCHANGED <<info, server, told>>
  BY <1>p
<1>5. /\ client[c].pc = "waiting" => /\ envelope' = [envelope EXCEPT ![c] = [ok |-> ok, tabs |-> listed]]
                                     /\ client' = [client EXCEPT ![c].pc = "replied"]
      /\ client[c].pc # "waiting" => client' = client /\ envelope' = envelope
  BY <1>p
<1>6. listed \subseteq tabs[s] \cup {c} /\ listed \subseteq BrowserCall
  BY <1>1, <1>3
<1>7. ran' \in [BrowserCall -> Nat] /\ ran'[c] \in {0, 1} /\ (ok => ran'[c] = 1)
      /\ \A d \in BrowserCall : d # c => ran'[d] = ran[d]
  <2>1. ran \in [BrowserCall -> Nat] /\ ran[c] = 0
    BY <1>3 DEF Queued, BrowserInv, BrowserTypes
  <2>2. ran' = [ran EXCEPT ![c] = @ + 1] \/ (ran' = ran /\ ~ ok)
    OBVIOUS
  <2> QED BY <1>3, <2>1, <2>2
<1>8. /\ tabs' \in [Browser!Server -> SUBSET BrowserCall] /\ tabs'[s] = listed
      /\ \A t \in Browser!Server : t # s => tabs'[t] = tabs[t]
  BY <1>4, <1>6 DEF BrowserInv, BrowserTypes
<1>9. \A d \in BrowserCall : d # c =>
        (Tabless(d) => Tabless(d)') /\ \A list : Listed(d, list) => Listed(d, list)'
  BY <1>6, <1>8 DEF Tabless, Listed
<1>10. /\ jobs' \in [Browser!Server -> Seq(Job)] /\ jobs'[s] = Tail(jobs[s])
       /\ \A t \in Browser!Server : t # s => jobs'[t] = jobs[t]
  BY <1>2, <1>4 DEF BrowserInv, BrowserTypes
<1>11. /\ client' \in [BrowserCall -> Client]
       /\ \A d \in BrowserCall : d # c => client'[d] = client[d]
       /\ client[c].pc = "waiting" => client'[c].pc = "replied"
       /\ client[c].pc # "waiting" => client'[c] = client[c]
  <2>1. client \in [BrowserCall -> Client]
    BY DEF BrowserInv, BrowserTypes
  <2>2. CASE client[c].pc = "waiting"
    <3>1. client' = [client EXCEPT ![c] = [client[c] EXCEPT !.pc = "replied"]]
      BY <1>3, <1>5, <2>1, <2>2
    <3> QED BY <1>3, <2>1, <2>2, <3>1 DEF Client
  <2> QED BY <1>5, <2>1, <2>2
<1>12. /\ envelope' \in [BrowserCall -> [ok : BOOLEAN, tabs : SUBSET BrowserCall]]
       /\ \A d \in BrowserCall : d # c => envelope'[d] = envelope[d]
       /\ client[c].pc = "waiting" => envelope'[c].ok = ok /\ envelope'[c].tabs = listed
  <2>1. envelope \in [BrowserCall -> [ok : BOOLEAN, tabs : SUBSET BrowserCall]]
    BY DEF BrowserInv, BrowserTypes
  <2>2. CASE client[c].pc = "waiting"
    <3>1. [ok |-> ok, tabs |-> listed] \in [ok : BOOLEAN, tabs : SUBSET BrowserCall]
      BY <1>6
    <3>2. envelope' = [envelope EXCEPT ![c] = [ok |-> ok, tabs |-> listed]]
      BY <1>5, <2>2
    <3> QED BY <1>3, <2>1, <2>2, <3>1, <3>2
  <2> QED BY <1>5, <2>1, <2>2
<1>13. BrowserTypes'
  BY <1>4, <1>7, <1>8, <1>10, <1>11, <1>12 DEF BrowserInv, BrowserTypes
<1>14. CallSound(c)'
  <2>1. told[c].what \notin Definite /\ client[c].pc \in {"waiting", "done"} /\ Tabless(c)
    BY <1>3 DEF Queued
  <2>2. Listed(c, listed)'
    BY <2>1, <1>8 DEF Listed, Tabless
  <2>3. client'[c].pc \in {"replied", "done"} /\ (client'[c].pc = "replied" => client[c].pc = "waiting")
    BY <2>1, <1>11
  <2>4. told'[c].what \notin Definite
    BY <2>1, <1>4
  <2>5. client'[c].pc = "replied" =>
          (envelope'[c].ok => ran'[c] = 1) /\ envelope'[c].tabs = listed
    BY <2>3, <1>7, <1>12
  <2>6. client'[c].pc = "replied" => Listed(c, envelope[c].tabs)'
    BY <2>2, <2>5 DEF Listed
  <2> HIDE DEF BrowserInv
  <2> QED BY <2>3, <2>4, <2>5, <2>6, <1>7 DEF CallSound, Early, Definite
<1>15. ASSUME NEW d \in BrowserCall, d # c PROVE CallSound(d)'
  <2>1. CallSound(d)
    BY DEF BrowserInv
  <2>2. /\ client'[d] = client[d] /\ envelope'[d] = envelope[d] /\ told'[d] = told[d] /\ ran'[d] = ran[d]
        /\ Tabless(d) => Tabless(d)'
    BY <1>4, <1>7, <1>9, <1>11, <1>12, <1>15
  <2>3. (\A list : Listed(d, list) => Listed(d, list)')
    BY <1>9, <1>15
  <2>4. client[d].pc = "replied" => Listed(d, envelope[d].tabs)'
    BY <2>1, <2>2, <2>3 DEF CallSound, Listed
  <2>5. told[d].what \in {"ok", "failed"} => Listed(d, told[d].tabs)'
    BY <2>1, <2>2, <2>3 DEF CallSound, Listed
  <2> QED BY <2>1, <2>2, <2>4, <2>5 DEF CallSound
<1>16. ASSUME NEW t \in Browser!Server, NEW i \in 1..Len(jobs'[t])
       PROVE  IF t = s THEN i + 1 \in 2..Len(jobs[t]) /\ jobs'[t][i] = jobs[t][i + 1]
              ELSE i \in 1..Len(jobs[t]) /\ jobs'[t][i] = jobs[t][i]
  <2>1. CASE t = s
    <3>1. i \in 1..(Len(jobs[s]) - 1)
      BY <2>1, <1>2, <1>10
    <3> QED BY <2>1, <3>1, <1>2, <1>10
  <2>2. CASE t # s
    BY <2>2, <1>10
  <2> QED BY <2>1, <2>2
<1>17. JobsDistinct'
  <2>1. ASSUME NEW t \in Browser!Server, NEW u \in Browser!Server,
               NEW i \in 1..Len(jobs'[t]), NEW j \in 1..Len(jobs'[u]),
               jobs'[t][i].call = jobs'[u][j].call
        PROVE  t = u /\ i = j
    <3> DEFINE k == IF t = s THEN i + 1 ELSE i
               l == IF u = s THEN j + 1 ELSE j
    <3>1. k \in 1..Len(jobs[t]) /\ jobs'[t][i] = jobs[t][k]
      BY <1>16
    <3>2. l \in 1..Len(jobs[u]) /\ jobs'[u][j] = jobs[u][l]
      BY <1>16
    <3>3. t = u /\ k = l
      <4> HIDE DEF k, l
      <4> QED BY <2>1, <3>1, <3>2 DEF BrowserInv, JobsDistinct
    <3> QED BY <3>3
  <2> QED BY <2>1 DEF JobsDistinct
<1>18. JobsPending'
  <2>1. ASSUME NEW t \in Browser!Server, NEW i \in 1..Len(jobs'[t]) PROVE Queued(jobs[t][i].call, t)'
    <3> DEFINE k == IF t = s THEN i + 1 ELSE i
    <3>1. k \in 1..Len(jobs[t]) /\ jobs'[t][i] = jobs[t][k] /\ (t = s => k # 1)
      BY <1>16
    <3> HIDE DEF k
    <3>2. jobs[t][k].call \in BrowserCall /\ Queued(jobs[t][k].call, t)
      BY <3>1, QueuedJob
    <3>3. jobs[t][k].call # c
      BY <3>1, <1>2 DEF BrowserInv, JobsDistinct
    <3> QED BY <3>1, <3>2, <3>3, <1>4, <1>7, <1>9, <1>11 DEF Queued
  <2> QED BY <2>1 DEF JobsPending
<1>19. DeadHasNoJobs'
  BY <1>4, <1>10 DEF BrowserInv, DeadHasNoJobs
<1>20. \A d \in BrowserCall : CallSound(d)'
  BY <1>14, <1>15
<1> QED BY <1>13, <1>17, <1>18, <1>19, <1>20 DEF BrowserInv

LEMMA ClientGoesOn ==
  ASSUME BrowserInv, NEW c \in BrowserCall, Browser!Client(c) PROVE BrowserInv'
<1>t. BrowserTypes /\ CallSound(c) /\ client[c] \in Client
  BY DEF BrowserInv, BrowserTypes
<1>1. CASE Browser!Execute(c)
  <2>1. PICK args \in Browser!OpArgs :
          /\ Browser!At(c, "new")
          /\ client' = [client EXCEPT ![c] = [pc |-> "probing", op |-> args.op, tab |-> args.tab, on |-> 0]]
          /\ UNCHANGED <<info, server, browser, jobs, tabs, envelope, told, ran>>
    BY <1>1 DEF Browser!Execute
  <2>2. args.op \in Ops /\ args.tab \in BrowserCall \cup {"none"}
    BY DEF Browser!OpArgs, Ops
  <2> DEFINE r == [pc |-> "probing", op |-> args.op, tab |-> args.tab, on |-> 0]
  <2>3. r \in Client /\ r.pc \in Early
    BY <2>2 DEF Client, Early
  <2>4. client[c].pc \in Early
    BY <2>1 DEF Browser!At, Early
  <2>5. client' = [client EXCEPT ![c] = r]
    BY <2>1
  <2> HIDE DEF r
  <2> QED BY <1>t, <2>1, <2>3, <2>4, <2>5, EarlyKeeps DEF BrowserTypes
<1>2. CASE Browser!RefuseParameters(c)
  <2>1. client[c].pc = "new"
    BY <1>2 DEF Browser!RefuseParameters, Browser!At
  <2>2. Browser!Tell(c, "not_sent", {}) /\ UNCHANGED <<info, server, jobs, tabs, envelope, ran>>
    BY <1>2 DEF Browser!RefuseParameters
  <2>3. ran[c] = 0
    BY <1>t, <2>1 DEF CallSound, Early
  <2> QED BY <2>1, <2>2, <2>3, TellKeeps, EarlyHasNoJob DEF Early
<1>3. ASSUME NEW r, r \in {[client[c] EXCEPT !.pc = "posting", !.on = info],
                          [client[c] EXCEPT !.pc = "spawning"], [client[c] EXCEPT !.pc = "polling"]},
             client' = [client EXCEPT ![c] = r], client[c].pc \in Early,
             UNCHANGED <<jobs, tabs, envelope, told, ran>>,
             info' \in {0, info},
             server' \in [Browser!Server -> {"unborn", "starting", "serving", "dead"}],
             \A s \in Browser!Server : server'[s] = "dead" => server[s] = "dead"
      PROVE  BrowserInv'
  <2>1. r \in Client /\ r.pc \in Early
    BY <1>3, <1>t DEF Client, Early, BrowserTypes
  <2>2. info' \in {0} \cup Browser!Server
    BY <1>3, <1>t DEF BrowserTypes
  <2> QED BY <1>3, <2>1, <2>2, EarlyKeeps
<1>f. Browser!Found(c) => client' = [client EXCEPT ![c] = [client[c] EXCEPT !.pc = "posting", !.on = info]]
  BY <1>t DEF Browser!Found, BrowserTypes, Client
<1>4. CASE Browser!Probe(c)
  <2>1. /\ client[c].pc = "probing" /\ UNCHANGED <<info, server, jobs, tabs, envelope, told, ran>>
        /\ \/ client' = [client EXCEPT ![c] = [client[c] EXCEPT !.pc = "posting", !.on = info]]
           \/ client' = [client EXCEPT ![c] = [client[c] EXCEPT !.pc = "spawning"]]
    BY <1>4, <1>t, <1>f DEF Browser!Probe, Browser!At, BrowserTypes, Client
  <2>2. client[c].pc \in Early
    BY <2>1 DEF Early
  <2> QED BY <2>1, <2>2, <1>3, <1>t DEF BrowserTypes
<1>5. CASE Browser!SpawnServer(c)
  <2>1. PICK s \in Browser!Server :
          /\ server[s] = "unborn" /\ server' = [server EXCEPT ![s] = "starting"]
          /\ client[c].pc = "spawning" /\ UNCHANGED <<jobs, tabs, envelope, told, ran>>
          /\ client' = [client EXCEPT ![c].pc = "polling"] /\ info' = 0
    BY <1>5 DEF Browser!SpawnServer, Browser!At
  <2>2. client' = [client EXCEPT ![c] = [client[c] EXCEPT !.pc = "polling"]]
    BY <2>1, <1>t DEF BrowserTypes, Client
  <2>3. /\ server' \in [Browser!Server -> {"unborn", "starting", "serving", "dead"}]
        /\ \A t \in Browser!Server : server'[t] = "dead" => server[t] = "dead"
    BY <2>1, <1>t DEF BrowserTypes
  <2>4. client[c].pc \in Early
    BY <2>1 DEF Early
  <2> QED BY <2>1, <2>2, <2>3, <2>4, <1>3
<1>6. CASE Browser!WaitForReady(c)
  <2>1. /\ client[c].pc = "polling" /\ UNCHANGED <<info, server, jobs, tabs, envelope, told, ran>>
        /\ client' = [client EXCEPT ![c] = [client[c] EXCEPT !.pc = "posting", !.on = info]]
    BY <1>6, <1>f DEF Browser!WaitForReady, Browser!At
  <2>2. client[c].pc \in Early
    BY <2>1 DEF Early
  <2> QED BY <2>1, <2>2, <1>3, <1>t DEF BrowserTypes
<1>7. CASE Browser!NotReady(c)
  <2>1. client[c].pc = "polling"
    BY <1>7 DEF Browser!NotReady, Browser!At
  <2>2. Browser!Tell(c, "not_sent", {}) /\ UNCHANGED <<info, server, jobs, tabs, envelope, ran>>
    BY <1>7 DEF Browser!NotReady
  <2>3. ran[c] = 0
    BY <1>t, <2>1 DEF CallSound, Early
  <2> QED BY <2>1, <2>2, <2>3, TellKeeps, EarlyHasNoJob DEF Early
<1>8. CASE Browser!PostRpc(c)
  BY <1>8, JobPosted
<1>9. CASE Browser!Receive(c)
  <2>1. client[c].pc = "replied" /\ UNCHANGED <<info, server, jobs, tabs, ran>>
        /\ envelope' = [envelope EXCEPT ![c] = Browser!NoReply]
    BY <1>9 DEF Browser!Receive, Browser!At
  <2>2. envelope[c].tabs \in SUBSET BrowserCall /\ Listed(c, envelope[c].tabs)
    BY <1>t, <2>1 DEF CallSound, BrowserTypes
  <2>3. CASE envelope[c].ok
    <3>1. Browser!Tell(c, "ok", envelope[c].tabs) /\ ran[c] = 1
      BY <1>9, <1>t, <2>1, <2>3 DEF Browser!Receive, CallSound
    <3> QED BY <2>1, <2>2, <3>1, TellKeeps, EarlyHasNoJob
  <2>4. CASE ~ envelope[c].ok
    <3>1. Browser!Tell(c, "failed", envelope[c].tabs)
      BY <1>9, <2>4 DEF Browser!Receive
    <3> QED BY <2>1, <2>2, <3>1, TellKeeps, EarlyHasNoJob
  <2> QED BY <2>3, <2>4
<1>10. CASE Browser!ConnectionLost(c)
  <2>1. /\ client[c].pc = "waiting" /\ Browser!Tell(c, "unclear", {})
        /\ UNCHANGED <<info, server, jobs, tabs, envelope, ran>>
    BY <1>10 DEF Browser!ConnectionLost, Browser!At
  <2> QED BY <2>1, TellKeeps
<1>11. CASE Browser!GivesUp(c)
  <2> DEFINE news == [what |-> "unclear", tabs |-> {}]
  <2>1. /\ client[c].pc # "done" /\ told' = [told EXCEPT ![c] = news]
        /\ client' \in {client, [client EXCEPT ![c] = [Browser!Fresh EXCEPT !.pc = "done"]]}
        /\ UNCHANGED <<info, server, jobs, tabs, envelope, ran>>
    BY <1>11 DEF Browser!GivesUp, Browser!Answer
  <2>2. news \in Told /\ news.what = "unclear"
    BY DEF Told
  <2> HIDE DEF news
  <2> QED BY <2>1, <2>2, LearnKeeps DEF Definite
<1> QED BY <1>1, <1>2, <1>4, <1>5, <1>6, <1>7, <1>8, <1>9, <1>10, <1>11 DEF Browser!Client

LEMMA ServerKeeps ==
  ASSUME BrowserInv, UNCHANGED <<jobs, tabs, client, envelope, told, ran>>,
         info' \in {0} \cup Browser!Server,
         server' \in [Browser!Server -> {"unborn", "starting", "serving", "dead"}],
         \A s \in Browser!Server : server'[s] = "dead" => server[s] = "dead"
  PROVE  BrowserInv'
<1>1. BrowserTypes'
  BY DEF BrowserInv, BrowserTypes
<1>2. JobsDistinct' /\ JobsPending' /\ DeadHasNoJobs'
  BY DEF BrowserInv, JobsDistinct, JobsPending, DeadHasNoJobs, Queued, Tabless
<1>3. \A c \in BrowserCall : CallSound(c)'
  BY DEF BrowserInv, CallSound, Tabless, Listed
<1> QED BY <1>1, <1>2, <1>3 DEF BrowserInv

LEMMA ServerEndsKeeps ==
  ASSUME BrowserInv, NEW s \in Browser!Server, Browser!ServerEnds(s) PROVE BrowserInv'
<1>1. /\ server' = [server EXCEPT ![s] = "dead"] /\ info' \in {info, 0}
      /\ jobs' = [jobs EXCEPT ![s] = <<>>] /\ tabs' = [tabs EXCEPT ![s] = {}]
      /\ UNCHANGED <<client, envelope, told, ran>>
  BY DEF Browser!ServerEnds
<1>2. BrowserTypes'
  BY <1>1 DEF BrowserInv, BrowserTypes
<1>3. /\ jobs'[s] = <<>> /\ tabs'[s] = {} /\ Len(jobs'[s]) = 0
      /\ \A t \in Browser!Server : t # s =>
           jobs'[t] = jobs[t] /\ tabs'[t] = tabs[t] /\ server'[t] = server[t]
  BY <1>1 DEF BrowserInv, BrowserTypes
<1>4. \A c \in BrowserCall : (Tabless(c) => Tabless(c)') /\ \A list : Listed(c, list) => Listed(c, list)'
  BY <1>3 DEF Tabless, Listed
<1>5. \A t \in Browser!Server : \A i \in 1..Len(jobs'[t]) : t # s /\ i \in 1..Len(jobs[t]) /\ jobs'[t] = jobs[t]
  BY <1>3
<1>6. JobsDistinct'
  BY <1>5 DEF BrowserInv, JobsDistinct
<1>7. JobsPending'
  <2>1. ASSUME NEW t \in Browser!Server, NEW i \in 1..Len(jobs'[t]) PROVE Queued(jobs[t][i].call, t)'
    <3>1. jobs[t][i].call \in BrowserCall /\ Queued(jobs[t][i].call, t) /\ jobs'[t] = jobs[t]
      BY <1>5, QueuedJob
    <3> QED BY <3>1, <1>1, <1>4 DEF Queued
  <2> QED BY <2>1 DEF JobsPending
<1>8. DeadHasNoJobs'
  BY <1>3 DEF BrowserInv, DeadHasNoJobs
<1>9. ASSUME NEW c \in BrowserCall PROVE CallSound(c)'
  <2>1. CallSound(c) /\ (Tabless(c) => Tabless(c)')
    BY <1>4 DEF BrowserInv
  <2>2. \A list : Listed(c, list) => Listed(c, list)'
    BY <1>4
  <2>3. client[c].pc = "replied" => Listed(c, envelope[c].tabs)'
    BY <2>1, <2>2, <1>1 DEF CallSound, Listed
  <2>4. told[c].what \in {"ok", "failed"} => Listed(c, told[c].tabs)'
    BY <2>1, <2>2, <1>1 DEF CallSound, Listed
  <2> QED BY <1>1, <2>1, <2>3, <2>4 DEF CallSound
<1> QED BY <1>2, <1>6, <1>7, <1>8, <1>9 DEF BrowserInv

LEMMA ProcessGoesOn ==
  ASSUME BrowserInv, NEW s \in Browser!Server, Browser!Process(s) PROVE BrowserInv'
<1>t. BrowserTypes
  BY DEF BrowserInv
<1>1. CASE Browser!BindAndPublish(s)
  <2>1. /\ server' = [server EXCEPT ![s] = "serving"] /\ info' = s
        /\ UNCHANGED <<jobs, tabs, client, envelope, told, ran>>
    BY <1>1 DEF Browser!BindAndPublish
  <2> QED BY <1>t, <2>1, ServerKeeps DEF BrowserTypes
<1>2. CASE Browser!Launch(s) \/ Browser!BrowserCrash(s)
  <2>1. UNCHANGED <<info, server, jobs, tabs, client, envelope, told, ran>>
    BY <1>2 DEF Browser!Launch, Browser!BrowserCrash
  <2> QED BY <1>t, <2>1, ServerKeeps DEF BrowserTypes
<1>3. CASE Browser!Work(s)
  <2>1. jobs[s] # <<>> /\ ran' = [ran EXCEPT ![Head(jobs[s]).call] = @ + 1]
    BY <1>3 DEF Browser!Work
  <2>2. PICK ok \in Browser!Outcomes(s, Head(jobs[s])) :
          \E left \in Browser!After(s, Head(jobs[s]), ok) : Browser!Reply(s, ok, left)
    BY <1>3 DEF Browser!Work
  <2>3. ok \in BOOLEAN
    BY <2>2 DEF Browser!Outcomes
  <2>4. PICK left \in Browser!After(s, Head(jobs[s]), ok) : Browser!Reply(s, ok, left)
    BY <2>2
  <2>5. left \subseteq tabs[s] \cup {Head(jobs[s]).call}
    BY <2>3, <2>4 DEF Browser!After, Browser!Opened
  <2> QED BY <2>1, <2>3, <2>4, <2>5, ReplyKeeps
<1>4. CASE Browser!LaunchError(s)
  <2>1. jobs[s] # <<>> /\ ran' = ran /\ Browser!Reply(s, FALSE, tabs[s])
    BY <1>4 DEF Browser!LaunchError
  <2> QED BY <2>1, ReplyKeeps
<1>5. CASE Browser!ServerEnds(s)
  BY <1>5, ServerEndsKeeps
<1> QED BY <1>1, <1>2, <1>3, <1>4, <1>5 DEF Browser!Process

LEMMA BrowserStays == ServicesSpec => []BrowserInv
<1>1. ServicesInit => BrowserInv
  BY BrowserStarts
<1>2. BrowserInv /\ [ServicesNext]_servicesVars => BrowserInv'
  <2>1. BrowserInv /\ UNCHANGED Browser!browserVars => BrowserInv'
    <3> SUFFICES ASSUME BrowserInv, UNCHANGED Browser!browserVars PROVE BrowserInv'
      OBVIOUS
    <3>1. BrowserTypes
      BY DEF BrowserInv
    <3> QED BY <3>1, ServerKeeps DEF Browser!browserVars, BrowserTypes
  <2> QED BY <2>1, BrowserMoves, ClientGoesOn, ProcessGoesOn DEF Browser!BrowserNext
<1> QED BY <1>1, <1>2, PTL DEF ServicesSpec

\* No call is carried out twice, what the browser tool told is done was carried out,
\* what it told could not be sent never is, and a tab the call has open was in the
\* list shown with its answer, whatever crashed, came late or was lost.
THEOREM BrowserAnswersTruly == ServicesSpec => []AnswersAreTrue
<1>1. BrowserInv => AnswersAreTrue
  BY DEF BrowserInv, CallSound, Listed, AnswersAreTrue, Browser!AnswersAreTrue
<1> QED BY <1>1, BrowserStays, PTL

-----------------------------------------------------------------------------
(* The writers of graph memory *)

Item == [name : Name, category : Label]
Kinds == {"none", "ingest", "remember", "extraction", "classify", "edge"}
Places == {"rest", "embedding", "item", "upsert", "mark", "link", "walk", "insert",
           "classifying"}
Items == Seq(Item)
Links == Seq(Name \X Name)
Held == UNION {[S -> Nat] : S \in SUBSET Name}
Ends == SUBSET Nat
Edges == SUBSET Ends
JobRecord ==
  [kind : Kinds, at : Places, items : Items, links : Links, ids : Held,
   hit : Nat, ends : Ends, walked : Edges]

\* N is a table of nodes whose last id is L.
Table(N, L) ==
  /\ L \in Nat
  /\ N = [i \in DOMAIN N |-> N[i]]
  /\ \A i \in DOMAIN N : i \in 1..L /\ N[i] \in Graph!Row

\* The id was given to a row of this name: it may be gone, it is no other.
Holds(i, n, N, L) == i \in 1..L /\ (i \in DOMAIN N => N[i].name = n)

\* What a writer in the middle of j goes by.
Typed(j, N, L) ==
  /\ j \in JobRecord
  /\ \A n \in DOMAIN j.ids : Holds(j.ids[n], n, N, L)

Placed(j, N, L) ==
  /\ j.at \in {"embedding", "item", "upsert", "mark"} => j.items # <<>>
  /\ j.at \in {"link", "walk", "insert"} => j.links # <<>>
  /\ j.at = "upsert" /\ j.hit # 0 => Holds(j.hit, Head(j.items).name, N, L)
  /\ j.at \in {"walk", "insert"} =>
       \E s, t \in Nat :
         /\ j.ends = {s, t}
         /\ Holds(s, Head(j.links)[1], N, L) /\ Holds(t, Head(j.links)[2], N, L)

Sound(j, N, L) == Typed(j, N, L) /\ Placed(j, N, L)

GraphInv ==
  /\ Table(nodes, lastId)
  /\ edges \in Edges
  /\ \A e \in edges : e \subseteq DOMAIN nodes
  /\ job = [p \in Graph!Writer |-> job[p]]
  /\ \A p \in Graph!Writer : Sound(job[p], nodes, lastId)

\* The table may lose rows and gain new ids; a row that stays keeps its name.
Keeps(N, L, M, K) ==
  /\ K \in Nat /\ L <= K
  /\ \A i \in DOMAIN M : i \in 1..L => i \in DOMAIN N /\ M[i].name = N[i].name

LEMMA GraphMoves ==
  ASSUME [ServicesNext]_servicesVars
  PROVE  Graph!GraphNext \/ UNCHANGED Graph!graphVars
<1>1. CASE UNCHANGED servicesVars BY <1>1 DEF servicesVars
<1>2. CASE ServicesNext
  <2>1. CASE GraphStep BY <2>1 DEF GraphStep
  <2>2. CASE ~ GraphStep
    BY <1>2, <2>2 DEF ServicesNext, BufferStep, ChatStep, ReloadStep, BrowserStep, EnvStep,
      McpStep, SearchStep, DecisionStep, LifeStep, FirstStep, EngineStep, InstallStep,
      LlmStep, OthersStill, Moves, Graph!graphVars
  <2> QED BY <2>1, <2>2
<1> QED BY <1>1, <1>2

\* What a writer goes by stays right while others work.
LEMMA SoundKeeps ==
  ASSUME NEW j, NEW N, NEW L \in Nat, NEW M, NEW K, Sound(j, N, L), Keeps(N, L, M, K)
  PROVE  Sound(j, M, K)
<1>1. \A i, n : Holds(i, n, N, L) => Holds(i, n, M, K)
  BY DEF Holds, Keeps
<1>2. Typed(j, M, K)
  BY <1>1 DEF Sound, Typed
<1>3. Placed(j, M, K)
  BY <1>1 DEF Sound, Placed
<1> QED BY <1>2, <1>3 DEF Sound

LEMMA EmptyParts ==
  /\ Graph!NoIds \in Held /\ DOMAIN Graph!NoIds = {}
  /\ <<>> \in Items /\ <<>> \in Links /\ {} \in Ends /\ {} \in Edges
<1>1. Graph!NoIds \in [{} -> Nat] /\ DOMAIN Graph!NoIds = {}
  BY DEF Graph!NoIds
<1>2. {} \in SUBSET Name
  OBVIOUS
<1>3. Graph!NoIds \in Held
  BY <1>1, <1>2 DEF Held
<1> QED BY <1>1, <1>3 DEF Items, Links, Ends, Edges

LEMMA NoJobSound == ASSUME NEW N, NEW L PROVE Sound(Graph!NoJob, N, L)
<1>1. Graph!NoJob \in JobRecord
  BY EmptyParts DEF Graph!NoJob, JobRecord, Kinds, Places
<1> QED BY <1>1, EmptyParts DEF Graph!NoJob, Sound, Typed, Placed

\* A writer's next link, or its end.
LEMMA LinksSound ==
  ASSUME NEW N, NEW L, NEW j, Typed(j, N, L)
  PROVE  Sound(Graph!ThenLinks(j), N, L)
<1>1. CASE j.links = <<>>
  BY <1>1, NoJobSound DEF Graph!ThenLinks
<1>2. CASE j.links # <<>>
  <2> DEFINE k == [j EXCEPT !.at = "link", !.hit = 0]
  <2>1. /\ k \in JobRecord /\ k.ids = j.ids /\ k.at = "link" /\ k.links = j.links
    BY DEF Typed, JobRecord, Places
  <2>2. Graph!ThenLinks(j) = k
    BY <1>2 DEF Graph!ThenLinks
  <2> HIDE DEF k
  <2>3. Sound(k, N, L)
    BY <1>2, <2>1 DEF Sound, Typed, Placed
  <2> QED BY <2>2, <2>3
<1> QED BY <1>1, <1>2

\* A writer's next item, or what follows its items.
LEMMA ItemsSound ==
  ASSUME NEW N, NEW L, NEW j, Typed(j, N, L)
  PROVE  Sound(Graph!Onward(j), N, L)
<1>0. j \in JobRecord /\ j.items \in Items
  BY DEF Typed, JobRecord
<1>1. CASE Len(j.items) > 1
  <2> DEFINE k == [j EXCEPT !.at = "item", !.hit = 0, !.items = Tail(j.items)]
  <2>1. Tail(j.items) \in Items /\ Tail(j.items) # <<>>
    <3> DEFINE rest == Tail(j.items)
    <3>1. j.items \in Seq(Item)
      BY <1>0 DEF Items
    <3>2. rest \in Seq(Item) /\ Len(rest) = Len(j.items) - 1 /\ Len(j.items) \in Nat
      BY <1>1, <3>1
    <3> HIDE DEF rest
    <3>3. rest # <<>>
      BY <1>1, <3>2
    <3> QED BY <3>2, <3>3 DEF rest, Items
  <2>2. /\ k \in JobRecord /\ k.ids = j.ids /\ k.at = "item" /\ k.items = Tail(j.items)
    BY <1>0, <2>1 DEF JobRecord, Places
  <2>3. Graph!Onward(j) = k
    BY <1>1 DEF Graph!Onward
  <2> HIDE DEF k
  <2>4. Sound(k, N, L)
    BY <2>1, <2>2 DEF Sound, Typed, Placed
  <2> QED BY <2>3, <2>4
<1>2. CASE ~ (Len(j.items) > 1)
  <2> DEFINE k == [j EXCEPT !.items = <<>>]
  <2>1. k \in JobRecord /\ k.ids = j.ids
    BY <1>0, EmptyParts DEF JobRecord
  <2>2. Graph!Onward(j) = Graph!ThenLinks(k)
    BY <1>2 DEF Graph!Onward
  <2> HIDE DEF k
  <2>3. Typed(k, N, L)
    BY <2>1 DEF Typed
  <2> QED BY <2>2, <2>3, LinksSound
<1> QED BY <1>1, <1>2

LEMMA WriterMoves ==
  ASSUME GraphInv, NEW p \in Graph!Writer, NEW j, job' = [job EXCEPT ![p] = j],
         Keeps(nodes, lastId, nodes', lastId'), Table(nodes', lastId'),
         Sound(j, nodes', lastId'),
         edges' \in Edges, \A e \in edges' : e \subseteq DOMAIN nodes'
  PROVE  GraphInv'
<1>1. \A q \in Graph!Writer : Sound(job'[q], nodes', lastId')
  <2> SUFFICES ASSUME NEW q \in Graph!Writer PROVE Sound(job'[q], nodes', lastId')
    OBVIOUS
  <2>1. CASE q = p
    BY <2>1 DEF GraphInv
  <2>2. CASE q # p
    <3>1. job'[q] = job[q] /\ Sound(job[q], nodes, lastId) /\ lastId \in Nat
      BY <2>2 DEF GraphInv, Table
    <3>2. Sound(job[q], nodes', lastId')
      BY <3>1, SoundKeeps
    <3> QED BY <3>1, <3>2
  <2> QED BY <2>1, <2>2
<1>2. job' = [q \in Graph!Writer |-> job'[q]]
  BY DEF GraphInv
<1> QED BY <1>1, <1>2 DEF GraphInv

LEMMA TableKeeps == ASSUME GraphInv PROVE Keeps(nodes, lastId, nodes, lastId)
BY DEF GraphInv, Table, Keeps

\* A step that only moves its writer on.
LEMMA OnlyMoves ==
  ASSUME GraphInv, NEW p \in Graph!Writer, NEW j, job' = [job EXCEPT ![p] = j],
         UNCHANGED <<nodes, lastId, edges>>, Sound(j, nodes, lastId)
  PROVE  GraphInv'
<1>1. Keeps(nodes, lastId, nodes', lastId')
  BY TableKeeps
<1>2. Table(nodes', lastId') /\ edges' \in Edges /\ \A e \in edges' : e \subseteq DOMAIN nodes'
  BY DEF GraphInv
<1>3. Sound(j, nodes', lastId')
  OBVIOUS
<1> QED BY <1>1, <1>2, <1>3, WriterMoves

\* A single statement, while the writers stay where they are.
LEMMA TableMoves ==
  ASSUME GraphInv, job' = job,
         Keeps(nodes, lastId, nodes', lastId'), Table(nodes', lastId'),
         edges' \in Edges, \A e \in edges' : e \subseteq DOMAIN nodes'
  PROVE  GraphInv'
<1>1. \A q \in Graph!Writer : Sound(job'[q], nodes', lastId')
  <2> SUFFICES ASSUME NEW q \in Graph!Writer PROVE Sound(job[q], nodes', lastId')
    OBVIOUS
  <2>1. Sound(job[q], nodes, lastId) /\ lastId \in Nat
    BY DEF GraphInv, Table
  <2> QED BY <2>1, SoundKeeps
<1> QED BY <1>1 DEF GraphInv

LEMMA RowInserted ==
  ASSUME GraphInv, NEW row \in Graph!Row, Graph!InsertNode(row)
  PROVE  /\ Keeps(nodes, lastId, nodes', lastId') /\ Table(nodes', lastId')
         /\ DOMAIN nodes \subseteq DOMAIN nodes'
         /\ lastId' = lastId + 1 /\ lastId' \in Nat
         /\ nodes'[lastId + 1] = row
         /\ \A e \in edges : e \subseteq DOMAIN nodes'
<1>1. lastId \in Nat /\ \A i \in DOMAIN nodes : i \in 1..lastId /\ nodes[i] \in Graph!Row
  BY DEF GraphInv, Table
<1>2. lastId' = lastId + 1 /\ lastId + 1 \notin DOMAIN nodes
  BY <1>1 DEF Graph!InsertNode, Graph!NextId
<1>3. nodes' = [i \in DOMAIN nodes \cup {lastId + 1} |-> IF i = lastId + 1 THEN row ELSE nodes[i]]
  BY DEF Graph!InsertNode, Graph!NextId
<1>4. DOMAIN nodes' = DOMAIN nodes \cup {lastId + 1}
  BY <1>3
<1>5. nodes'[lastId + 1] = row
  BY <1>3
<1>6. \A i \in DOMAIN nodes : nodes'[i] = nodes[i]
  BY <1>2, <1>3
<1>7. Keeps(nodes, lastId, nodes', lastId')
  BY <1>1, <1>2, <1>4, <1>6 DEF Keeps
<1>8. Table(nodes', lastId')
  <2>1. nodes' = [i \in DOMAIN nodes' |-> nodes'[i]]
    BY <1>3
  <2>2. \A i \in DOMAIN nodes' : i \in 1..lastId' /\ nodes'[i] \in Graph!Row
    BY <1>1, <1>2, <1>4, <1>5, <1>6
  <2> QED BY <1>1, <1>2, <2>1, <2>2 DEF Table
<1>9. \A e \in edges : e \subseteq DOMAIN nodes'
  BY <1>4 DEF GraphInv
<1> QED BY <1>1, <1>2, <1>4, <1>5, <1>7, <1>8, <1>9

LEMMA WriteStarts ==
  ASSUME GraphInv, NEW p \in Graph!Writer, NEW j, Graph!Begin(p, j), Sound(j, nodes, lastId)
  PROVE  GraphInv'
BY OnlyMoves DEF Graph!Begin

LEMMA AutoIngestStarts ==
  ASSUME GraphInv, NEW n \in Name, Graph!AutoIngest(n) PROVE GraphInv'
<1> DEFINE one == <<[name |-> n, category |-> "FACT"]>>
           k == [Graph!NoJob EXCEPT !.kind = "ingest", !.at = "embedding", !.items = one]
<1>1. one \in Items /\ one # <<>>
  BY FactIsACategory DEF Items, Item, Label
<1> HIDE DEF one
<1>2. Graph!NoJob \in JobRecord
  BY EmptyParts DEF Graph!NoJob, JobRecord, Kinds, Places
<1>3. k \in JobRecord /\ k.ids = Graph!NoIds /\ k.at = "embedding" /\ k.items = one
  BY <1>1, EmptyParts DEF Graph!NoJob, JobRecord, Kinds, Places
<1>4. Graph!Begin("self", k)
  BY DEF Graph!AutoIngest, one
<1> HIDE DEF k
<1>5. Sound(k, nodes, lastId)
  BY <1>1, <1>3, EmptyParts DEF Sound, Typed, Placed
<1> QED BY <1>4, <1>5, WriteStarts DEF Graph!Writer

LEMMA DistilStarts ==
  ASSUME GraphInv, NEW kind \in {"remember", "extraction"}, NEW x \in Extraction,
         Graph!Distil(kind, x)
  PROVE  GraphInv'
<1> DEFINE j == [Graph!NoJob EXCEPT !.kind = kind, !.items = x.items, !.links = x.links]
           k == [j EXCEPT !.at = "item"]
<1>1. x.items \in Items /\ x.links \in Links
  BY ExtractionAssumption DEF Items, Item, Links
<1>2. j \in JobRecord /\ j.ids = Graph!NoIds /\ j.items = x.items
  BY <1>1, EmptyParts DEF Graph!NoJob, JobRecord, Kinds, Places
<1>3. Graph!Begin("self", IF x.items = <<>> THEN Graph!ThenLinks(j) ELSE k)
  BY DEF Graph!Distil
<1> HIDE DEF j
<1>4. Typed(j, nodes, lastId)
  BY <1>2, EmptyParts DEF Typed
<1>5. CASE x.items = <<>>
  BY <1>3, <1>4, <1>5, LinksSound, WriteStarts DEF Graph!Writer
<1>6. CASE x.items # <<>>
  <2>1. k \in JobRecord /\ k.ids = j.ids /\ k.at = "item" /\ k.items = j.items
    BY <1>2 DEF JobRecord, Places
  <2>2. Graph!Begin("self", k)
    BY <1>3, <1>6
  <2> HIDE DEF k
  <2>3. Sound(k, nodes, lastId)
    BY <1>2, <1>4, <1>6, <2>1 DEF Sound, Typed, Placed
  <2> QED BY <2>2, <2>3, WriteStarts DEF Graph!Writer
<1> QED BY <1>5, <1>6

LEMMA EdgeStarts ==
  ASSUME GraphInv, NEW a \in Name, NEW b \in Name, Graph!CreateEdge(a, b) PROVE GraphInv'
<1> DEFINE pair == <<<<a, b>>>>
           k == [Graph!NoJob EXCEPT !.kind = "edge", !.at = "link", !.links = pair]
<1>1. pair \in Links /\ pair # <<>>
  BY DEF Links
<1>4. Graph!Begin("operator", k)
  BY DEF Graph!CreateEdge
<1> HIDE DEF pair
<1>3. k \in JobRecord /\ k.ids = Graph!NoIds /\ k.at = "link" /\ k.links = pair
  BY <1>1, EmptyParts DEF Graph!NoJob, JobRecord, Kinds, Places
<1> HIDE DEF k
<1>5. Sound(k, nodes, lastId)
  BY <1>1, <1>3, EmptyParts DEF Sound, Typed, Placed
<1> QED BY <1>4, <1>5, WriteStarts DEF Graph!Writer

LEMMA ClassifyStarts ==
  ASSUME GraphInv, NEW i \in DOMAIN nodes, NEW s \in DOMAIN nodes, NEW t \in DOMAIN nodes,
         Graph!ClassifyAndLinkPending(i, s, t)
  PROVE  GraphInv'
<1> DEFINE asking == [Graph!NoJob EXCEPT !.kind = "classify", !.at = "classifying", !.hit = i]
           ns == nodes[s].name
           nt == nodes[t].name
           pair == <<<<ns, nt>>>>
           mine == [n \in {ns, nt} |-> IF n = ns THEN s ELSE t]
           k == [asking EXCEPT !.links = pair, !.ids = mine]
<1>0. lastId \in Nat /\ i \in Nat /\ s \in 1..lastId /\ t \in 1..lastId /\ ns \in Name /\ nt \in Name
  BY DEF GraphInv, Table, Graph!Row
<1>1. Graph!Begin("self", asking) \/ Graph!Begin("self", k)
  BY DEF Graph!ClassifyAndLinkPending
<1>2. asking \in JobRecord /\ asking.ids = Graph!NoIds /\ asking.at = "classifying"
  BY <1>0, EmptyParts DEF Graph!NoJob, JobRecord, Kinds, Places
<1>3. pair \in Links
  BY <1>0 DEF Links
<1>4. mine \in Held /\ \A n \in DOMAIN mine : Holds(mine[n], n, nodes, lastId)
  <2>1. mine \in [{ns, nt} -> Nat] /\ {ns, nt} \in SUBSET Name
    BY <1>0
  <2>2. \A n \in {ns, nt} : mine[n] \in {s, t} /\ nodes[mine[n]].name = n
    OBVIOUS
  <2>3. mine \in Held
    BY <2>1 DEF Held
  <2> QED BY <1>0, <2>1, <2>2, <2>3 DEF Holds
<1> HIDE DEF asking, pair, mine
<1>5. k \in JobRecord /\ k.ids = mine /\ k.at = "classifying"
  BY <1>2, <1>3, <1>4 DEF JobRecord
<1> HIDE DEF k
<1>6. Sound(asking, nodes, lastId)
  BY <1>2, EmptyParts DEF Sound, Typed, Placed
<1>7. Sound(k, nodes, lastId)
  BY <1>4, <1>5 DEF Sound, Typed, Placed
<1> QED BY <1>1, <1>6, <1>7, WriteStarts DEF Graph!Writer

LEMMA JobTyped ==
  ASSUME GraphInv, NEW p \in Graph!Writer
  PROVE  /\ job[p] \in JobRecord /\ Typed(job[p], nodes, lastId) /\ Placed(job[p], nodes, lastId)
         /\ lastId \in Nat /\ job[p].items \in Seq(Item) /\ job[p].links \in Seq(Name \X Name)
BY DEF GraphInv, Sound, Typed, JobRecord, Items, Links, Table

LEMMA IngestKeeps ==
  ASSUME GraphInv, NEW p \in Graph!Writer, Graph!IngestHit(p) \/ Graph!IngestMiss(p)
  PROVE  GraphInv'
<1>0. job[p].items \in Seq(Item) /\ Placed(job[p], nodes, lastId)
  BY JobTyped
<1>1. CASE Graph!IngestHit(p)
  <2>1. job' = [job EXCEPT ![p] = Graph!NoJob] /\ UNCHANGED <<nodes, lastId, edges>>
    BY <1>1 DEF Graph!IngestHit, Graph!Goto
  <2> QED BY <2>1, NoJobSound, OnlyMoves
<1>2. CASE Graph!IngestMiss(p)
  <2> DEFINE row == [name |-> Head(job[p].items).name, category |-> "FACT",
                     auto |-> TRUE, classified |-> FALSE]
  <2>1. /\ job[p].at = "embedding" /\ Graph!InsertNode(row)
        /\ job' = [job EXCEPT ![p] = Graph!NoJob] /\ edges' = edges
    BY <1>2 DEF Graph!IngestMiss, Graph!Goto
  <2>2. Head(job[p].items) \in Item
    BY <1>0, <2>1 DEF Placed
  <2>3. row \in Graph!Row
    BY <2>2, FactIsACategory DEF Item, Graph!Row
  <2> HIDE DEF row
  <2>4. edges' \in Edges
    BY <2>1 DEF GraphInv
  <2> QED BY <2>1, <2>3, <2>4, RowInserted, NoJobSound, WriterMoves
<1> QED BY <1>1, <1>2

LEMMA SelectKeeps ==
  ASSUME GraphInv, NEW p \in Graph!Writer, Graph!SelectItem(p) PROVE GraphInv'
<1> DEFINE j == job[p]
<1>0. /\ j \in JobRecord /\ j.items \in Seq(Item) /\ Typed(j, nodes, lastId)
      /\ Placed(j, nodes, lastId)
  BY JobTyped
<1>1. j.at = "item" /\ UNCHANGED <<nodes, lastId, edges>>
  BY DEF Graph!SelectItem
<1>2. PICK hit : /\ hit = 0 \/ hit \in Graph!Named(Head(j.items).name)
                 /\ job' = [job EXCEPT ![p] = [j EXCEPT !.at = "upsert", !.hit = hit]]
  BY DEF Graph!SelectItem, Graph!Goto
<1> DEFINE k == [j EXCEPT !.at = "upsert", !.hit = hit]
<1>3. hit = 0 \/ (hit \in DOMAIN nodes /\ hit \in 1..lastId /\ nodes[hit].name = Head(j.items).name)
  BY <1>2 DEF Graph!Named, GraphInv, Table
<1>4. hit \in Nat
  BY <1>3, JobTyped
<1>5. k \in JobRecord /\ k.ids = j.ids /\ k.items = j.items /\ k.at = "upsert" /\ k.hit = hit
  BY <1>0, <1>4 DEF JobRecord, Places
<1>6. job' = [job EXCEPT ![p] = k]
  BY <1>2
<1>7. j.items # <<>>
  BY <1>0, <1>1 DEF Placed
<1> HIDE DEF k, j
<1>8. Sound(k, nodes, lastId)
  BY <1>0, <1>3, <1>5, <1>7 DEF Sound, Typed, Placed, Holds
<1> QED BY <1>1, <1>6, <1>8, OnlyMoves

\* What a writer holds once its item n has the id i.
WithId(ids, n, i) == [m \in DOMAIN ids \cup {n} |-> IF m = n THEN i ELSE ids[m]]
Storing(j, ids) == [j EXCEPT !.ids = ids]
Marking(j, i, ids) == [j EXCEPT !.at = "mark", !.hit = i, !.ids = ids]


LEMMA ItemStored ==
  ASSUME NEW N, NEW L \in Nat, NEW j, Typed(j, N, L), j.items # <<>>,
         NEW n, n = Head(j.items).name, NEW i, Holds(i, n, N, L),
         NEW kept, kept = WithId(j.ids, n, i)
  PROVE  /\ Sound(Marking(j, i, kept), N, L)
         /\ Sound(Graph!Onward(Storing(j, kept)), N, L)
<1> DEFINE k == Storing(j, kept)
           l == Marking(j, i, kept)
<1>i. j.items \in Seq(Item)
  BY DEF Typed, JobRecord, Items
<1>h. Head(j.items) \in Item
  BY <1>i
<1>n. n \in Name
  BY <1>h DEF Item
<1>0. j \in JobRecord /\ j.ids \in Held /\ \A m \in DOMAIN j.ids : Holds(j.ids[m], m, N, L)
  BY DEF Typed, JobRecord
<1>1. i \in Nat
  BY DEF Holds
<1>2. PICK S \in SUBSET Name : j.ids \in [S -> Nat]
  BY <1>0 DEF Held
<1>3. kept \in [S \cup {n} -> Nat] /\ S \cup {n} \in SUBSET Name
  BY <1>n, <1>1, <1>2 DEF WithId
<1>4. kept \in Held
  BY <1>3 DEF Held
<1>5. \A m \in DOMAIN kept : Holds(kept[m], m, N, L)
  BY <1>0 DEF WithId
<1>6. k \in JobRecord /\ k.ids = kept
  BY <1>0, <1>4 DEF JobRecord, Storing
<1>7. l \in JobRecord /\ l.ids = kept /\ l.items = j.items /\ l.at = "mark"
  BY <1>0, <1>1, <1>4 DEF JobRecord, Places, Marking
<1> HIDE DEF k, l
<1>8. Typed(k, N, L) /\ Typed(l, N, L)
  BY <1>5, <1>6, <1>7 DEF Typed
<1>9. Sound(l, N, L)
  BY <1>7, <1>8 DEF Sound, Placed
<1>10. Sound(Graph!Onward(k), N, L)
  BY <1>8, ItemsSound
<1> QED BY <1>9, <1>10 DEF k, l

LEMMA UpsertKeeps ==
  ASSUME GraphInv, NEW p \in Graph!Writer, Graph!Upsert(p) PROVE GraphInv'
<1> DEFINE j == job[p]
           item == Head(j.items)
           kept(i) == [m \in DOMAIN j.ids \cup {item.name} |->
                         IF m = item.name THEN i ELSE j.ids[m]]
           a(i) == [j EXCEPT !.at = "mark", !.hit = i, !.ids = kept(i)]
           b(i) == Graph!Onward([j EXCEPT !.ids = kept(i)])
<1>0. /\ j \in JobRecord /\ j.items \in Seq(Item) /\ Typed(j, nodes, lastId)
      /\ Placed(j, nodes, lastId) /\ lastId \in Nat /\ Sound(j, nodes, lastId)
  BY JobTyped DEF GraphInv
<1>1. j.at = "upsert" /\ UNCHANGED edges
  BY DEF Graph!Upsert
<1>2. j.items # <<>> /\ (j.hit # 0 => Holds(j.hit, item.name, nodes, lastId))
  BY <1>0, <1>1 DEF Placed
<1>i. item \in Item
  BY <1>0, <1>2
<1>3. item.name \in Name
  BY <1>i DEF Item
<1>4. ASSUME NEW N, NEW L \in Nat, Typed(j, N, L), NEW i, Holds(i, item.name, N, L)
      PROVE  Sound(a(i), N, L) /\ Sound(b(i), N, L)
  <2> DEFINE name == item.name
             ids == kept(i)
  <2>1. name = Head(j.items).name
    OBVIOUS
  <2>2. ids = WithId(j.ids, name, i)
    BY DEF WithId
  <2>3. Holds(i, name, N, L)
    BY <1>4
  <2> HIDE DEF ids, name
  <2>4. Sound(Marking(j, i, ids), N, L) /\ Sound(Graph!Onward(Storing(j, ids)), N, L)
    <3> HIDE DEF j
    <3> QED BY <1>2, <1>4, <2>1, <2>2, <2>3, ItemStored
  <2> QED BY <2>4 DEF ids, Marking, Storing
<1>5. CASE j.hit # 0 /\ UNCHANGED <<nodes, lastId>>
           /\ (job' = [job EXCEPT ![p] = a(j.hit)] \/ job' = [job EXCEPT ![p] = b(j.hit)])
  <2>1. Sound(a(j.hit), nodes, lastId) /\ Sound(b(j.hit), nodes, lastId)
    BY <1>0, <1>2, <1>4, <1>5
  <2> HIDE DEF a, b
  <2> QED BY <1>1, <1>5, <2>1, OnlyMoves
<1>6. CASE \E row \in Graph!Row :
             /\ row.name = item.name /\ Graph!InsertNode(row)
             /\ \/ job' = [job EXCEPT ![p] = a(lastId + 1)]
                \/ job' = [job EXCEPT ![p] = b(lastId + 1)]
  <2> PICK row \in Graph!Row :
             /\ row.name = item.name /\ Graph!InsertNode(row)
             /\ \/ job' = [job EXCEPT ![p] = a(lastId + 1)]
                \/ job' = [job EXCEPT ![p] = b(lastId + 1)]
    BY <1>6
  <2>1. /\ Keeps(nodes, lastId, nodes', lastId') /\ Table(nodes', lastId')
        /\ lastId' = lastId + 1 /\ lastId' \in Nat /\ nodes'[lastId + 1] = row
        /\ \A e \in edges : e \subseteq DOMAIN nodes'
    BY RowInserted
  <2>2. Typed(j, nodes', lastId')
    <3> HIDE DEF j
    <3> QED BY <1>0, <2>1, SoundKeeps DEF Sound
  <2>3. Holds(lastId + 1, item.name, nodes', lastId')
    BY <1>0, <2>1 DEF Holds
  <2>4. Sound(a(lastId + 1), nodes', lastId') /\ Sound(b(lastId + 1), nodes', lastId')
    BY <1>4, <2>1, <2>2, <2>3
  <2>5. edges' \in Edges
    BY <1>1 DEF GraphInv
  <2> HIDE DEF a, b
  <2> QED BY <1>1, <2>1, <2>4, <2>5, WriterMoves
<1>7. CASE UNCHANGED <<nodes, lastId>>
           /\ (job' = [job EXCEPT ![p] = Graph!NoJob] \/ job' = [job EXCEPT ![p] = Graph!Onward(j)])
  <2>1. Sound(Graph!NoJob, nodes, lastId) /\ Sound(Graph!Onward(j), nodes, lastId)
    BY <1>0, NoJobSound, ItemsSound
  <2> QED BY <1>1, <1>7, <2>1, OnlyMoves
<1>8. \/ j.hit # 0 /\ UNCHANGED <<nodes, lastId>>
         /\ (job' = [job EXCEPT ![p] = a(j.hit)] \/ job' = [job EXCEPT ![p] = b(j.hit)])
      \/ \E row \in Graph!Row :
             /\ row.name = item.name /\ Graph!InsertNode(row)
             /\ \/ job' = [job EXCEPT ![p] = a(lastId + 1)]
                \/ job' = [job EXCEPT ![p] = b(lastId + 1)]
      \/ UNCHANGED <<nodes, lastId>>
         /\ (job' = [job EXCEPT ![p] = Graph!NoJob] \/ job' = [job EXCEPT ![p] = Graph!Onward(j)])
  <2>1. ASSUME item.category \in Category
        PROVE  [name |-> item.name, category |-> item.category, auto |-> FALSE,
                classified |-> j.kind = "remember"] \in Graph!Row
    BY <1>3, <2>1 DEF Graph!Row
  <2> QED BY <2>1 DEF Graph!Upsert, Graph!Goto, Graph!NextId
<1> QED BY <1>5, <1>6, <1>7, <1>8

LEMMA MarkKeeps ==
  ASSUME GraphInv, NEW p \in Graph!Writer, Graph!Mark(p) PROVE GraphInv'
<1> DEFINE j == job[p]
<1>0. Typed(j, nodes, lastId) /\ lastId \in Nat /\ Table(nodes, lastId) /\ edges \in Edges
  BY JobTyped DEF GraphInv
<1>1. UNCHANGED <<lastId, edges>>
  BY DEF Graph!Mark
<1>2. CASE /\ job' = [job EXCEPT ![p] = Graph!NoJob] /\ UNCHANGED nodes
  BY <1>1, <1>2, NoJobSound, OnlyMoves
<1>3. CASE /\ j.hit \in DOMAIN nodes
           /\ nodes' = [nodes EXCEPT ![j.hit].classified = TRUE]
           /\ job' = [job EXCEPT ![p] = Graph!Onward(j)]
  <2>1. DOMAIN nodes' = DOMAIN nodes /\ nodes' = [i \in DOMAIN nodes' |-> nodes'[i]]
    BY <1>0, <1>3 DEF Table
  <2>2. \A i \in DOMAIN nodes : nodes'[i] \in Graph!Row /\ nodes'[i].name = nodes[i].name
    BY <1>0, <1>3 DEF Table, Graph!Row
  <2>3. Keeps(nodes, lastId, nodes', lastId') /\ Table(nodes', lastId')
    BY <1>0, <1>1, <2>1, <2>2 DEF Keeps, Table
  <2>4. Sound(job[p], nodes', lastId')
    BY <1>0, <2>3, SoundKeeps DEF GraphInv
  <2>5. Sound(Graph!Onward(j), nodes', lastId')
    BY <2>4, ItemsSound DEF Sound
  <2>6. \A e \in edges' : e \subseteq DOMAIN nodes'
    BY <1>1, <2>1 DEF GraphInv
  <2> QED BY <1>0, <1>1, <1>3, <2>3, <2>5, <2>6, WriterMoves
<1> QED BY <1>2, <1>3 DEF Graph!Mark, Graph!Goto

LEMMA ClassifiedKeeps ==
  ASSUME GraphInv, NEW p \in Graph!Writer, NEW c \in Category, Graph!Classified(p, c)
  PROVE  GraphInv'
<1> DEFINE j == job[p]
<1>0. Typed(j, nodes, lastId) /\ lastId \in Nat /\ Table(nodes, lastId) /\ edges \in Edges
  BY JobTyped DEF GraphInv
<1>1. /\ UNCHANGED <<lastId, edges>>
      /\ nodes' = [i \in DOMAIN nodes |->
                    IF i = j.hit
                    THEN [nodes[i] EXCEPT !.category = c, !.classified = TRUE]
                    ELSE nodes[i]]
      /\ job' = [job EXCEPT ![p] = Graph!ThenLinks(j)]
  BY DEF Graph!Classified, Graph!Goto
<1>2. DOMAIN nodes' = DOMAIN nodes /\ nodes' = [i \in DOMAIN nodes' |-> nodes'[i]]
  BY <1>1
<1>3. \A i \in DOMAIN nodes : nodes'[i] \in Graph!Row /\ nodes'[i].name = nodes[i].name
  BY <1>0, <1>1 DEF Table, Graph!Row
<1>l. lastId' = lastId
  BY <1>1
<1>4. Keeps(nodes, lastId, nodes', lastId') /\ Table(nodes', lastId')
  BY <1>0, <1>l, <1>2, <1>3 DEF Keeps, Table
<1>5. Sound(job[p], nodes', lastId')
  BY <1>0, <1>4, SoundKeeps DEF GraphInv
<1>6. Sound(Graph!ThenLinks(j), nodes', lastId')
  BY <1>5, LinksSound DEF Sound
<1>7. \A e \in edges' : e \subseteq DOMAIN nodes'
  BY <1>1, <1>2 DEF GraphInv
<1> QED BY <1>0, <1>1, <1>4, <1>6, <1>7, WriterMoves

\* After a link is dealt with, whatever comes next is sound.
LEMMA NextLinkSound ==
  ASSUME NEW N, NEW L, NEW j, Typed(j, N, L), j.links # <<>>
  PROVE  /\ Sound(Graph!ThenLinks([j EXCEPT !.links = Tail(@)]), N, L)
         /\ Sound(Graph!ThenLinks([j EXCEPT !.links = Tail(@), !.ends = {}]), N, L)
         /\ Sound(Graph!ThenLinks([j EXCEPT !.links = Tail(@), !.ends = {}, !.walked = {}]), N, L)
<1> DEFINE rest == Tail(j.links)
           a == [j EXCEPT !.links = rest]
           b == [j EXCEPT !.links = rest, !.ends = {}]
           c == [j EXCEPT !.links = rest, !.ends = {}, !.walked = {}]
<1>1. j \in JobRecord /\ j.links \in Seq(Name \X Name)
  BY DEF Typed, JobRecord, Links
<1>2. rest \in Links
  BY <1>1 DEF Links
<1> HIDE DEF rest
<1>3. a \in JobRecord /\ a.ids = j.ids
  BY <1>1, <1>2 DEF JobRecord
<1>4. b \in JobRecord /\ b.ids = j.ids
  BY <1>1, <1>2, EmptyParts DEF JobRecord
<1>5. c \in JobRecord /\ c.ids = j.ids
  BY <1>1, <1>2, EmptyParts DEF JobRecord
<1> HIDE DEF a, b, c
<1>6. Typed(a, N, L) /\ Typed(b, N, L) /\ Typed(c, N, L)
  BY <1>3, <1>4, <1>5 DEF Typed
<1>7. /\ Sound(Graph!ThenLinks(a), N, L) /\ Sound(Graph!ThenLinks(b), N, L)
      /\ Sound(Graph!ThenLinks(c), N, L)
  BY <1>6, LinksSound
<1> QED BY <1>7 DEF a, b, c, rest

LEMMA ResolveKeeps ==
  ASSUME GraphInv, NEW p \in Graph!Writer, Graph!Resolve(p) PROVE GraphInv'
<1> DEFINE j == job[p]
           pair == Head(j.links)
           Ids(n) == IF n \in DOMAIN j.ids THEN {j.ids[n]} ELSE Graph!Named(n)
           rest == Graph!ThenLinks([j EXCEPT !.links = Tail(@)])
           k(s, t) == [j EXCEPT !.at = "walk", !.ends = {s, t}]
<1>0. /\ j \in JobRecord /\ Typed(j, nodes, lastId) /\ Placed(j, nodes, lastId)
      /\ lastId \in Nat /\ Table(nodes, lastId)
  BY JobTyped DEF GraphInv
<1>1. j.at = "link" /\ UNCHANGED <<nodes, lastId, edges>>
  BY DEF Graph!Resolve
<1>2. j.links # <<>>
  BY <1>0, <1>1 DEF Placed
<1>3. \/ job' = [job EXCEPT ![p] = rest]
      \/ \E s \in Ids(pair[1]), t \in Ids(pair[2]) : job' = [job EXCEPT ![p] = k(s, t)]
  BY DEF Graph!Resolve, Graph!Goto
<1>4. CASE job' = [job EXCEPT ![p] = rest]
  <2>1. Sound(rest, nodes, lastId)
    BY <1>0, <1>2, NextLinkSound
  <2> HIDE DEF rest
  <2> QED BY <1>1, <1>4, <2>1, OnlyMoves
<1>5. ASSUME NEW s \in Ids(pair[1]), NEW t \in Ids(pair[2]), job' = [job EXCEPT ![p] = k(s, t)]
      PROVE  GraphInv'
  <2>1. \A n : \A i \in Ids(n) : Holds(i, n, nodes, lastId)
    BY <1>0 DEF Typed, Table, Holds, Graph!Named
  <2>2. Holds(s, pair[1], nodes, lastId) /\ Holds(t, pair[2], nodes, lastId)
    BY <2>1
  <2>3. s \in Nat /\ t \in Nat
    BY <1>0, <2>2 DEF Holds
  <2>4. /\ k(s, t) \in JobRecord /\ k(s, t).ids = j.ids /\ k(s, t).links = j.links
        /\ k(s, t).at = "walk" /\ k(s, t).ends = {s, t}
    BY <1>0, <2>3 DEF JobRecord, Places, Ends
  <2> HIDE DEF k
  <2>5. Sound(k(s, t), nodes, lastId)
    BY <1>0, <1>2, <2>2, <2>3, <2>4 DEF Sound, Typed, Placed
  <2> QED BY <1>1, <1>5, <2>5, OnlyMoves
<1> QED BY <1>3, <1>4, <1>5

LEMMA WalkKeeps ==
  ASSUME GraphInv, NEW p \in Graph!Writer, Graph!Walk(p) PROVE GraphInv'
<1> DEFINE j == job[p]
           rest == Graph!ThenLinks([j EXCEPT !.links = Tail(@), !.ends = {}])
           k == [j EXCEPT !.at = "insert", !.walked = edges]
<1>0. /\ j \in JobRecord /\ Typed(j, nodes, lastId) /\ Placed(j, nodes, lastId)
      /\ edges \in Edges
  BY JobTyped DEF GraphInv
<1>1. j.at = "walk" /\ UNCHANGED <<nodes, lastId, edges>>
  BY DEF Graph!Walk
<1>2. j.links # <<>>
  BY <1>0, <1>1 DEF Placed
<1>3. job' = [job EXCEPT ![p] = rest] \/ job' = [job EXCEPT ![p] = k]
  BY DEF Graph!Walk, Graph!Goto
<1>4. Sound(rest, nodes, lastId)
  BY <1>0, <1>2, NextLinkSound
<1>5. k \in JobRecord /\ k.ids = j.ids /\ k.links = j.links /\ k.at = "insert" /\ k.ends = j.ends
  BY <1>0 DEF JobRecord, Places
<1> HIDE DEF k, rest
<1>6. Sound(k, nodes, lastId)
  BY <1>0, <1>1, <1>5 DEF Sound, Typed, Placed
<1> QED BY <1>1, <1>3, <1>4, <1>6, OnlyMoves

\* The edge that goes in joins rows of the names its writer was asked to link.
LEMMA InsertKeeps ==
  ASSUME GraphInv, NEW p \in Graph!Writer, Graph!InsertEdge(p)
  PROVE  /\ GraphInv'
         /\ \A e \in edges' \ edges :
              /\ job[p].at = "insert"
              /\ {nodes[i].name : i \in e} = {Head(job[p].links)[1], Head(job[p].links)[2]}
<1> DEFINE j == job[p]
           rest == Graph!ThenLinks([j EXCEPT !.links = Tail(@), !.ends = {}, !.walked = {}])
<1>0. /\ j \in JobRecord /\ Typed(j, nodes, lastId) /\ Placed(j, nodes, lastId)
      /\ edges \in Edges /\ Table(nodes, lastId) /\ j.ends \in Ends
  BY JobTyped DEF GraphInv, JobRecord
<1>1. j.at = "insert" /\ UNCHANGED <<nodes, lastId>> /\ job' = [job EXCEPT ![p] = rest]
  BY DEF Graph!InsertEdge, Graph!Goto
<1>2. j.links # <<>>
  BY <1>0, <1>1 DEF Placed
<1>3. edges' = edges \/ (edges' = edges \cup {j.ends} /\ j.ends \subseteq DOMAIN nodes)
  BY DEF Graph!InsertEdge
<1>4. Sound(rest, nodes, lastId)
  BY <1>0, <1>2, NextLinkSound
<1>5. edges' \in Edges /\ \A e \in edges' : e \subseteq DOMAIN nodes'
  BY <1>0, <1>1, <1>3 DEF Edges, GraphInv
<1>6. PICK s, t \in Nat :
        /\ j.ends = {s, t}
        /\ Holds(s, Head(j.links)[1], nodes, lastId) /\ Holds(t, Head(j.links)[2], nodes, lastId)
  BY <1>0, <1>1 DEF Placed
<1>7. ASSUME NEW e \in edges' \ edges
      PROVE  {nodes[i].name : i \in e} = {Head(j.links)[1], Head(j.links)[2]}
  <2>1. e = {s, t} /\ s \in DOMAIN nodes /\ t \in DOMAIN nodes
    BY <1>3, <1>6
  <2>2. nodes[s].name = Head(j.links)[1] /\ nodes[t].name = Head(j.links)[2]
    BY <1>6, <2>1 DEF Holds
  <2> QED BY <2>1, <2>2
<1>8. Keeps(nodes, lastId, nodes', lastId') /\ Table(nodes', lastId') /\ Sound(rest, nodes', lastId')
  BY <1>0, <1>1, <1>4, TableKeeps
<1> HIDE DEF rest
<1>9. GraphInv'
  BY <1>1, <1>5, <1>8, WriterMoves
<1> QED BY <1>1, <1>7, <1>9

LEMMA EditKeeps ==
  ASSUME GraphInv,
         \/ \E n \in Name, c \in Category : Graph!CreateNode(n, c)
         \/ \E i \in DOMAIN nodes : Graph!DeleteNode(i)
         \/ \E p \in Graph!Writer, n \in Name, c \in Category : Graph!UpdateNodeCategory(p, n, c)
  PROVE  GraphInv' /\ edges' \subseteq edges
<1>0. lastId \in Nat /\ Table(nodes, lastId) /\ edges \in Edges /\ job' = job
  BY DEF GraphInv, Table, Graph!CreateNode, Graph!DeleteNode, Graph!UpdateNodeCategory, Graph!Edit
<1>1. CASE \E n \in Name, c \in Category : Graph!CreateNode(n, c)
  <2> PICK n \in Name, c \in Category : Graph!CreateNode(n, c)
    BY <1>1
  <2> DEFINE row == [name |-> n, category |-> c, auto |-> TRUE, classified |-> FALSE]
  <2>1. row \in Graph!Row /\ Graph!InsertNode(row) /\ edges' = edges
    BY DEF Graph!CreateNode, Graph!Row
  <2> HIDE DEF row
  <2> QED BY <1>0, <2>1, RowInserted, TableMoves
<1>2. CASE \E i \in DOMAIN nodes : Graph!DeleteNode(i)
  <2> PICK i \in DOMAIN nodes : Graph!DeleteNode(i)
    BY <1>2
  <2>1. /\ nodes' = [k \in DOMAIN nodes \ {i} |-> nodes[k]]
        /\ edges' = {e \in edges : {i} \cap e = {}} /\ lastId' = lastId
    BY DEF Graph!DeleteNode, Graph!Delete, Graph!Cascade
  <2>2. Keeps(nodes, lastId, nodes', lastId') /\ Table(nodes', lastId')
    BY <1>0, <2>1 DEF Keeps, Table
  <2>3. edges' \subseteq edges /\ edges' \in Edges
    BY <1>0, <2>1 DEF Edges
  <2>4. \A e \in edges' : e \subseteq DOMAIN nodes'
    BY <2>1 DEF GraphInv
  <2> QED BY <1>0, <2>2, <2>3, <2>4, TableMoves
<1>3. CASE \E p \in Graph!Writer, n \in Name, c \in Category : Graph!UpdateNodeCategory(p, n, c)
  <2> PICK p \in Graph!Writer, n \in Name, c \in Category : Graph!UpdateNodeCategory(p, n, c)
    BY <1>3
  <2>1. /\ nodes' = [i \in DOMAIN nodes |->
                       IF i \in Graph!Named(n) THEN [nodes[i] EXCEPT !.category = c]
                       ELSE nodes[i]]
        /\ edges' = edges /\ lastId' = lastId
    BY DEF Graph!UpdateNodeCategory
  <2>2. DOMAIN nodes' = DOMAIN nodes /\ nodes' = [i \in DOMAIN nodes' |-> nodes'[i]]
    BY <2>1
  <2>3. \A i \in DOMAIN nodes : nodes'[i] \in Graph!Row /\ nodes'[i].name = nodes[i].name
    BY <1>0, <2>1 DEF Table, Graph!Row
  <2>l. lastId' = lastId /\ edges' = edges
    BY <2>1
  <2>4. Keeps(nodes, lastId, nodes', lastId') /\ Table(nodes', lastId')
    BY <1>0, <2>l, <2>2, <2>3 DEF Keeps, Table
  <2>5. edges' \in Edges /\ \A e \in edges' : e \subseteq DOMAIN nodes'
    BY <1>0, <2>l, <2>2 DEF GraphInv
  <2> QED BY <1>0, <2>l, <2>4, <2>5, TableMoves
<1> QED BY <1>1, <1>2, <1>3

\* An edge that this step adds is the one its writer was asked for.
NewEdgeAsked ==
  \A e \in edges' \ edges : \E p \in Graph!Writer :
    /\ job[p].at = "insert"
    /\ {nodes[i].name : i \in e} = {Head(job[p].links)[1], Head(job[p].links)[2]}

LEMMA GraphGoesOn ==
  ASSUME GraphInv, Graph!GraphNext PROVE GraphInv' /\ NewEdgeAsked
<1>1. CASE \E p \in Graph!Writer : Graph!InsertEdge(p)
  BY <1>1, InsertKeeps DEF NewEdgeAsked
<1>2. CASE \E p \in Graph!Writer : Graph!Statement(p) /\ ~ Graph!InsertEdge(p)
  <2> PICK p \in Graph!Writer : Graph!Statement(p) /\ ~ Graph!InsertEdge(p)
    BY <1>2
  <2>1. edges' = edges
    BY DEF Graph!Statement, Graph!IngestHit, Graph!IngestMiss, Graph!SelectItem, Graph!Upsert,
      Graph!Mark, Graph!Classified, Graph!Resolve, Graph!Walk
  <2>2. GraphInv'
    BY IngestKeeps, SelectKeeps, UpsertKeeps, MarkKeeps, ClassifiedKeeps, ResolveKeeps,
      WalkKeeps DEF Graph!Statement
  <2> QED BY <2>1, <2>2 DEF NewEdgeAsked
<1>3. CASE \/ \E n \in Name, c \in Category : Graph!CreateNode(n, c)
           \/ \E i \in DOMAIN nodes : Graph!DeleteNode(i)
           \/ \E p \in Graph!Writer, n \in Name, c \in Category : Graph!UpdateNodeCategory(p, n, c)
  BY <1>3, EditKeeps DEF NewEdgeAsked
<1>4. CASE \/ \E n \in Name : Graph!AutoIngest(n)
           \/ \E kind \in {"remember", "extraction"}, x \in Extraction : Graph!Distil(kind, x)
           \/ \E a, b \in Name : a # b /\ Graph!CreateEdge(a, b)
           \/ \E i, s, t \in DOMAIN nodes : Graph!ClassifyAndLinkPending(i, s, t)
  <2>1. edges' = edges
    BY <1>4 DEF Graph!AutoIngest, Graph!Distil, Graph!CreateEdge,
      Graph!ClassifyAndLinkPending, Graph!Begin
  <2>2. GraphInv'
    BY <1>4, AutoIngestStarts, DistilStarts, EdgeStarts, ClassifyStarts
  <2> QED BY <2>1, <2>2 DEF NewEdgeAsked
<1> QED BY <1>1, <1>2, <1>3, <1>4 DEF Graph!GraphNext

LEMMA GraphStarts == ASSUME ServicesInit PROVE GraphInv
<1>1. /\ nodes = [i \in {} |-> 0] /\ edges = {} /\ lastId = 0
      /\ job = [p \in Graph!Writer |-> Graph!NoJob]
  BY DEF ServicesInit, Graph!GraphInit
<1>2. Table(nodes, lastId)
  BY <1>1 DEF Table
<1> QED BY <1>1, <1>2, NoJobSound, EmptyParts DEF GraphInv

LEMMA GraphStays == ServicesSpec => []GraphInv
<1>1. ServicesInit => GraphInv
  BY GraphStarts
<1>2. GraphInv /\ [ServicesNext]_servicesVars => GraphInv'
  <2>1. GraphInv /\ UNCHANGED Graph!graphVars => GraphInv'
    BY DEF Graph!graphVars, GraphInv
  <2>2. GraphInv /\ Graph!GraphNext => GraphInv'
    BY GraphGoesOn DEF GraphInv
  <2> QED BY <2>1, <2>2, GraphMoves
<1> QED BY <1>1, <1>2, PTL DEF ServicesSpec

\* No edge of graph memory ever dangles, and one that goes in joins rows of the names
\* its writer was asked to link, whatever was deleted and created since it looked.
THEOREM LinksGoWhereAsked == ServicesSpec => EdgesJoinTheLinked
<1>1. ServicesInit => GraphInv
  BY GraphStarts
<1> DEFINE Joined == (\A e \in edges' : e \subseteq DOMAIN nodes') /\ NewEdgeAsked
<1>2. GraphInv /\ [ServicesNext]_servicesVars => GraphInv' /\ [Joined]_Graph!graphVars
  <2> SUFFICES ASSUME GraphInv, [ServicesNext]_servicesVars
               PROVE  GraphInv' /\ [Joined]_Graph!graphVars
    OBVIOUS
  <2>1. CASE UNCHANGED Graph!graphVars
    BY <2>1 DEF Graph!graphVars, GraphInv
  <2>2. CASE Graph!GraphNext
    BY <2>2, GraphGoesOn DEF GraphInv
  <2> QED BY <2>1, <2>2, GraphMoves
<1> HIDE DEF Joined
<1>3. ServicesSpec => [][Joined]_Graph!graphVars
  BY <1>1, <1>2, PTL DEF ServicesSpec
<1>4. Joined => /\ \A e \in edges' : e \subseteq DOMAIN nodes'
                /\ \A e \in edges' \ edges : \E p \in Graph!Writer :
                     /\ job[p].at = "insert"
                     /\ {nodes[i].name : i \in e}
                          = {Head(job[p].links)[1], Head(job[p].links)[2]}
  BY DEF Joined, NewEdgeAsked
<1> QED BY <1>3, <1>4, PTL DEF EdgesJoinTheLinked, Graph!EdgesJoinTheLinked

-----------------------------------------------------------------------------
(* The cycle check of graph memory.  Closed, Leaf and Acyclic are about    *)
(* graphs in general; ForestInv adds to GraphInv what each writer's walk   *)
(* has established by the time it inserts.                                 *)

\* R is closed: no edge leads out of it.
Closed(R, E) == \A e \in E : e \cap R # {} => e \subseteq R
Step(R, E) == R \cup UNION {e \in E : e \cap R # {}}

LEMMA StepStops ==
  ASSUME NEW R, NEW E, Step(R, E) = R PROVE Closed(R, E)
BY DEF Step, Closed

LEMMA ReachedIsBuiltUp ==
  ASSUME NEW E \in SUBSET (SUBSET (1..NodeMax)), NEW a \in 1..NodeMax
  PROVE  \E g : /\ g \in [0..NodeMax -> SUBSET (1..NodeMax)] /\ g[0] = {a} /\ Graph!Reached(a, E) = g[NodeMax]
                /\ \A k \in 1..NodeMax : g[k] = Step(g[k - 1], E)
<1> DEFINE V == SUBSET (1..NodeMax)
           F == [w \in Nat \X V |-> Step(w[2], E)]
           Built(g) == g = [k \in 0..NodeMax |->
             IF k = 0 THEN {a} ELSE g[k - 1] \cup UNION {e \in E : e \cap g[k - 1] # {}}]
<1>1. F \in [Nat \X V -> V] /\ {a} \in V
  BY DEF Step
<1>0. NodeMax \in Nat /\ 0 \in 0..NodeMax /\ NodeMax \in 0..NodeMax
  BY NodeMaxAssumption
<1>2. \A k \in Nat : \A R \in V : F[<<k, R>>] = Step(R, E)
  OBVIOUS
<1> HIDE DEF F, V
<1>3. PICK g : Iterates(g, V, {a}, F, NodeMax)
  BY <1>0, <1>1, Iteration
<1>4. \A k \in 1..NodeMax : k - 1 \in 0..NodeMax /\ k \in Nat
  BY <1>0
<1>5. /\ g \in [0..NodeMax -> V] /\ g[0] = {a}
      /\ \A k \in 1..NodeMax : g[k] = Step(g[k - 1], E)
  BY <1>2, <1>3, <1>4 DEF Iterates
<1>6. Built(g)
  <2>1. \A k \in 0..NodeMax : k # 0 => k \in 1..NodeMax
    OBVIOUS
  <2>2. \A k \in 0..NodeMax : g[k] = IF k = 0 THEN {a} ELSE Step(g[k - 1], E)
    BY <1>5, <2>1
  <2>3. g = [k \in 0..NodeMax |-> g[k]]
    BY <1>5
  <2> QED BY <2>2, <2>3 DEF Step
<1> DEFINE chosen == CHOOSE f : Built(f)
<1>7. Built(chosen)
  BY <1>6, ZenonT(60)
<1>8. Graph!Reached(a, E) = chosen[NodeMax]
  BY DEF Graph!Reached
<1> HIDE DEF chosen
<1>9. /\ \A k \in 0..NodeMax : chosen[k] = IF k = 0 THEN {a} ELSE Step(chosen[k - 1], E)
      /\ chosen = [k \in 0..NodeMax |-> chosen[k]]
  BY <1>7 DEF Step
<1>10. \A k \in 0..NodeMax : chosen[k] = g[k]
  <2> DEFINE Good == {k \in 0..NodeMax : chosen[k] = g[k]}
  <2>1. 0 \in Good
    BY <1>0, <1>5, <1>9
  <2>2. \A k \in 0..NodeMax : k \in Good <=> chosen[k] = g[k]
    OBVIOUS
  <2> HIDE DEF Good
  <2>3. ASSUME NEW k \in 0..NodeMax, k + 1 \in 0..NodeMax, k \in Good PROVE k + 1 \in Good
    <3>1. k + 1 # 0 /\ (k + 1) - 1 = k /\ k + 1 \in 1..NodeMax
      BY <2>3
    <3> QED BY <2>2, <2>3, <3>1, <1>5, <1>9
  <2>4. \A k \in 0..NodeMax : k \in Good
    BY <1>0, <2>1, <2>3, UpTo
  <2> QED BY <2>2, <2>4
<1> QED BY <1>0, <1>5, <1>8, <1>10 DEF V

\* The walk of would_create_cycle has gone everywhere it can by the time it has
\* taken as many steps as there are nodes.
LEMMA ReachedIsClosed ==
  ASSUME NEW E \in SUBSET (SUBSET (1..NodeMax)), NEW a \in 1..NodeMax
  PROVE  a \in Graph!Reached(a, E) /\ Closed(Graph!Reached(a, E), E)
<1>0. NodeMax \in Nat /\ NodeMax \in 0..NodeMax
  BY NodeMaxAssumption
<1>1. PICK g : /\ g \in [0..NodeMax -> SUBSET (1..NodeMax)] /\ g[0] = {a} /\ Graph!Reached(a, E) = g[NodeMax]
               /\ \A k \in 1..NodeMax : g[k] = Step(g[k - 1], E)
  BY <1>0, ReachedIsBuiltUp
<1>2. \A R \in SUBSET (1..NodeMax) : IsFiniteSet(R) /\ Cardinality(R) \in Nat /\ Cardinality(R) <= NodeMax
  <2> SUFFICES ASSUME NEW R \in SUBSET (1..NodeMax)
               PROVE  IsFiniteSet(R) /\ Cardinality(R) \in Nat /\ Cardinality(R) <= NodeMax
    OBVIOUS
  <2>1. IsFiniteSet(1..NodeMax) /\ Cardinality(1..NodeMax) = NodeMax
    <3>1. 1 \in Int /\ NodeMax \in Int
      BY <1>0
    <3>2. IsFiniteSet(1..NodeMax) /\ Cardinality(1..NodeMax) = IF 1 > NodeMax THEN 0 ELSE NodeMax - 1 + 1
      BY <3>1, FS_Interval
    <3> QED BY <1>0, <3>2
  <2>2. IsFiniteSet(R) /\ Cardinality(R) <= Cardinality(1..NodeMax)
    BY <2>1, FS_Subset
  <2>3. Cardinality(R) \in Nat
    BY <2>2, FS_CardinalityType
  <2> QED BY <2>1, <2>2, <2>3
<1> DEFINE Good == {k \in 0..NodeMax : a \in g[k] /\ (Closed(g[k], E) \/ Cardinality(g[k]) >= k + 1)}
<1>3. \A k \in 0..NodeMax : k \in Good <=> (a \in g[k] /\ (Closed(g[k], E) \/ Cardinality(g[k]) >= k + 1))
  OBVIOUS
<1>4. 0 \in Good
  <2>1. IsFiniteSet({a}) /\ Cardinality({a}) = 1
    BY FS_Singleton
  <2>2. 0 \in 0..NodeMax /\ g[0] = {a} /\ Cardinality(g[0]) >= 0 + 1
    BY <1>0, <1>1, <2>1
  <2> QED BY <2>2
<1> HIDE DEF Good
<1>5. ASSUME NEW k \in 0..NodeMax, k + 1 \in 0..NodeMax, k \in Good PROVE k + 1 \in Good
  <2>1. k + 1 \in 1..NodeMax /\ (k + 1) - 1 = k /\ k \in Nat
    BY <1>0, <1>5
  <2>2. g[k + 1] = Step(g[k], E) /\ g[k] \in SUBSET (1..NodeMax) /\ g[k + 1] \in SUBSET (1..NodeMax)
    BY <1>1, <1>5, <2>1
  <2>3. g[k] \subseteq g[k + 1]
    BY <2>2 DEF Step
  <2>4. CASE Closed(g[k], E)
    <3>1. g[k + 1] = g[k]
      BY <2>2, <2>4 DEF Step, Closed
    <3> QED BY <3>1, <2>4, <1>3, <1>5
  <2>5. CASE ~ Closed(g[k], E)
    <3>1. g[k + 1] # g[k]
      BY <2>2, <2>5, StepStops
    <3>2. Cardinality(g[k]) < Cardinality(g[k + 1])
      BY <2>2, <2>3, <3>1, <1>2, FS_Subset
    <3>3. Cardinality(g[k]) >= k + 1
      BY <2>5, <1>3, <1>5
    <3>4. Cardinality(g[k + 1]) >= (k + 1) + 1
      BY <2>1, <2>2, <3>2, <3>3, <1>2
    <3> QED BY <3>4, <2>3, <1>3, <1>5
  <2> QED BY <2>4, <2>5
<1>6. NodeMax \in Good
  <2>1. \A k \in 0..NodeMax : k \in Good
    BY <1>0, <1>4, <1>5, UpTo
  <2> QED BY <2>1, <1>0
<1>7. g[NodeMax] \in SUBSET (1..NodeMax)
  BY <1>0, <1>1
<1>8. ~ (Cardinality(g[NodeMax]) >= NodeMax + 1)
  BY <1>0, <1>2, <1>7
<1> QED BY <1>0, <1>1, <1>3, <1>6, <1>8


\* One edge of F, and no other, ends at i.
Leaf(F, i) == \E f \in F : {e \in F : i \in e} = {f}
Pairs(E) == \A e \in E : \E s, t : s # t /\ e = {s, t}
Acyclic(E) == \A F \in SUBSET E : F # {} => \E i \in UNION F : Leaf(F, i)

LEMMA ForestIsAcyclic ==
  ASSUME IsFiniteSet(edges) PROVE Graph!Forest <=> Acyclic(edges)
<1>1. ASSUME NEW F \in SUBSET edges, NEW i
      PROVE  Graph!Cardinality({e \in F : i \in e}) = 1 <=> Leaf(F, i)
  <2> DEFINE S == {e \in F : i \in e}
  <2>1. IsFiniteSet(S)
    <3>1. S \in SUBSET edges
      OBVIOUS
    <3> QED BY <3>1, FS_Subset
  <2>2. \A x : S = {x} => x \in F
    OBVIOUS
  <2>3. Leaf(F, i) <=> \E f \in F : S = {f}
    BY DEF Leaf
  <2> HIDE DEF S
  <2>4. Cardinality(S) = 1 <=> \E x : S = {x}
    BY <2>1, FS_Singleton
  <2>5. Graph!Cardinality(S) = Cardinality(S)
    BY DEF Graph!Cardinality, Cardinality
  <2> QED BY <2>2, <2>3, <2>4, <2>5 DEF S
<1> QED BY <1>1 DEF Graph!Forest, Acyclic

\* A forest with an edge has a leaf besides any node one names.
LEMMA AnotherLeaf ==
  ASSUME NEW E, IsFiniteSet(E), Acyclic(E), Pairs(E), NEW F \in SUBSET E, F # {}, NEW a
  PROVE  \E i \in UNION F : i # a /\ Leaf(F, i)
<1> DEFINE Fine(G, b) == \E i \in UNION G : i # b /\ Leaf(G, i)
           Bad == {G \in SUBSET E : G # {} /\ ~ \A b : Fine(G, b)}
           Sizes == {Cardinality(G) : G \in Bad}
<1>1. \A G \in SUBSET E : IsFiniteSet(G) /\ Cardinality(G) \in Nat
  BY FS_Subset, FS_CardinalityType
<1>2. Bad = {}
  <2> SUFFICES ASSUME Bad # {} PROVE FALSE
    OBVIOUS
  <2>1. Sizes \subseteq Nat /\ Sizes # {}
    BY <1>1
  <2>2. PICK n \in Sizes : \A m \in Sizes : n <= m
    BY <2>1, Least
  <2>3. PICK G \in Bad : n = Cardinality(G)
    BY <2>2
  <2>4. PICK b : ~ Fine(G, b)
    BY <2>3
  <2>5. G \in SUBSET E /\ G # {}
    BY <2>3
  <2>6. PICK i \in UNION G : Leaf(G, i)
    BY <2>5 DEF Acyclic
  <2>7. i = b
    BY <2>4, <2>6
  <2>8. PICK f \in G : {e \in G : b \in e} = {f}
    BY <2>6, <2>7 DEF Leaf
  <2>9. PICK c : c # b /\ f = {b, c}
    <3>1. b \in f
      BY <2>8
    <3>2. PICK s, t : s # t /\ f = {s, t}
      BY <2>5, <2>8 DEF Pairs
    <3> QED BY <3>1, <3>2
  <2> DEFINE H == G \ {f}
  <2>10. CASE H = {}
    <3>1. G = {f} /\ c \in UNION G
      BY <2>8, <2>9, <2>10
    <3>2. {e \in G : c \in e} = {f}
      BY <2>9, <3>1
    <3> QED BY <2>4, <2>9, <3>1, <3>2 DEF Leaf
  <2>11. CASE H # {}
    <3>1. H \in SUBSET E /\ Cardinality(H) = Cardinality(G) - 1
      BY <1>1, <2>5, <2>8, FS_RemoveElement
    <3>2. H \notin Bad
      <4>1. ~ (n <= Cardinality(H))
        BY <1>1, <2>3, <2>5, <3>1
      <4> QED BY <2>2, <4>1
    <3>3. PICK j \in UNION H : j # c /\ Leaf(H, j)
      BY <2>11, <3>1, <3>2
    <3>4. j # b
      BY <2>8, <3>3
    <3>5. {e \in G : j \in e} = {e \in H : j \in e}
      BY <2>9, <3>3, <3>4
    <3>6. Leaf(G, j) /\ j \in UNION G
      BY <3>3, <3>5 DEF Leaf
    <3> QED BY <2>4, <3>4, <3>6
  <2> QED BY <2>10, <2>11
<1> QED BY <1>2

\* An edge between what is not joined closes no cycle.
LEMMA OneMoreEdge ==
  ASSUME NEW E, IsFiniteSet(E), Acyclic(E), Pairs(E),
         NEW R, NEW a \in R, NEW b, b \notin R, Closed(R, E)
  PROVE  Acyclic(E \cup {{a, b}})
<1> SUFFICES ASSUME NEW F \in SUBSET (E \cup {{a, b}}), F # {}
             PROVE  \E i \in UNION F : Leaf(F, i)
  BY DEF Acyclic
<1>1. CASE {a, b} \notin F
  <2>1. F \in SUBSET E
    BY <1>1
  <2> QED BY <2>1 DEF Acyclic
<1>2. CASE {a, b} \in F
  <2> DEFINE Near == {f \in F \ {{a, b}} : f \subseteq R}
  <2>1. \A e \in F : e # {a, b} /\ e \cap R # {} => e \in Near
    BY DEF Closed
  <2>2. CASE Near = {}
    <3>1. \A e \in F : a \in e => e = {a, b}
      <4> HIDE DEF Near
      <4> QED BY <2>1, <2>2
    <3>2. {e \in F : a \in e} = {{a, b}}
      BY <1>2, <3>1
    <3> QED BY <1>2, <3>2 DEF Leaf
  <2>3. CASE Near # {}
    <3>1. Near \in SUBSET E
      OBVIOUS
    <3>2. PICK i \in UNION Near : i # a /\ Leaf(Near, i)
      BY <2>3, <3>1, AnotherLeaf
    <3>3. i \in R /\ i # b /\ i \in UNION F
      BY <3>2
    <3>4. {e \in F : i \in e} = {e \in Near : i \in e}
      BY <2>1, <3>2, <3>3
    <3>5. Near \subseteq F
      OBVIOUS
    <3> QED BY <3>2, <3>3, <3>4, <3>5 DEF Leaf
  <2> QED BY <2>2, <2>3
<1> QED BY <1>1, <1>2


IsPair(e) == \E s, t : s # t /\ e = {s, t}
\* The two ends of a pair are not joined.
Apart(pair, E) == \E R : \E a \in pair : a \in R /\ Closed(R, E) /\ ~ (pair \subseteq R)

\* What a writer between its walk and its insertion goes by.
WalkIsSound(j) ==
  /\ j.at \in {"walk", "insert"} => IsPair(j.ends)
  /\ j.at = "insert" => Apart(j.ends, j.walked)

ForestInv ==
  /\ GraphInv /\ lastId <= NodeMax
  /\ Pairs(edges)
  /\ \A p \in Graph!Writer : WalkIsSound(job[p])
  /\ ~ raced => Acyclic(edges)

LEMMA EdgesAreFinite ==
  ASSUME GraphInv, lastId <= NodeMax
  PROVE  IsFiniteSet(edges) /\ edges \in SUBSET (SUBSET (1..NodeMax))
<1>1. lastId \in Nat /\ NodeMax \in Nat
  BY NodeMaxAssumption DEF GraphInv, Table
<1>2. 1..lastId \subseteq 1..NodeMax
  BY <1>1
<1>3. edges \in SUBSET (SUBSET (1..NodeMax))
  BY <1>2 DEF GraphInv, Table
<1>4. IsFiniteSet(1..NodeMax)
  BY <1>1, FS_Interval
<1>5. IsFiniteSet(SUBSET (1..NodeMax))
  BY <1>4, FS_SUBSET
<1> QED BY <1>3, <1>5, FS_Subset

\* A step that inserts no edge: what its writer goes on with is not one, or is right.
LEMMA NoEdgeGoesIn ==
  ASSUME ForestInv, GraphInv', lastId' <= NodeMax, edges' \subseteq edges, raced' = raced,
         \A p \in Graph!Writer : job'[p] = job[p] \/ WalkIsSound(job'[p])
  PROVE  ForestInv'
<1>1. Pairs(edges')
  BY DEF ForestInv, Pairs
<1>2. \A p \in Graph!Writer : WalkIsSound(job'[p])
  BY DEF ForestInv
<1>3. ~ raced' => Acyclic(edges')
  BY DEF ForestInv, Acyclic
<1>4. (\A p \in Graph!Writer : WalkIsSound(job[p]))'
  BY <1>2
<1> QED BY <1>1, <1>3, <1>4 DEF ForestInv

LEMMA Elsewhere ==
  ASSUME NEW j, ~ (j.at \in {"walk", "insert"}) PROVE WalkIsSound(j)
BY DEF WalkIsSound

\* Where a writer goes with its next link or item.
LEMMA OnIsElsewhere ==
  ASSUME NEW j \in JobRecord
  PROVE  /\ WalkIsSound(Graph!NoJob) /\ WalkIsSound(Graph!ThenLinks(j))
         /\ WalkIsSound(Graph!Onward(j))
<1>1. \A k \in JobRecord : WalkIsSound(Graph!ThenLinks(k)) /\ WalkIsSound(Graph!NoJob)
  <2> SUFFICES ASSUME NEW k \in JobRecord
               PROVE  WalkIsSound(Graph!ThenLinks(k)) /\ WalkIsSound(Graph!NoJob)
    OBVIOUS
  <2>1. Graph!NoJob.at = "rest"
    BY DEF Graph!NoJob
  <2>2. Graph!ThenLinks(k).at \in {"rest", "link"}
    BY <2>1 DEF Graph!ThenLinks, JobRecord
  <2> QED BY <2>1, <2>2, Elsewhere
<1>2. WalkIsSound(Graph!Onward(j))
  <2>1. CASE Len(j.items) > 1
    <3>1. Graph!Onward(j).at = "item"
      BY <2>1 DEF Graph!Onward, JobRecord
    <3> QED BY <3>1, Elsewhere
  <2>2. CASE ~ (Len(j.items) > 1)
    <3>1. [j EXCEPT !.items = <<>>] \in JobRecord
      BY EmptyParts DEF JobRecord
    <3>2. Graph!Onward(j) = Graph!ThenLinks([j EXCEPT !.items = <<>>])
      BY <2>2 DEF Graph!Onward
    <3> QED BY <1>1, <3>1, <3>2
  <2> QED BY <2>1, <2>2
<1> QED BY <1>1, <1>2

LEMMA LinksAreElsewhere ==
  ASSUME NEW j \in JobRecord
  PROVE  /\ WalkIsSound(Graph!ThenLinks([j EXCEPT !.links = Tail(@)]))
         /\ WalkIsSound(Graph!ThenLinks([j EXCEPT !.links = Tail(@), !.ends = {}]))
         /\ WalkIsSound(Graph!ThenLinks([j EXCEPT !.links = Tail(@), !.ends = {}, !.walked = {}]))
<1> DEFINE a == [j EXCEPT !.links = Tail(@)]
           b == [j EXCEPT !.links = Tail(@), !.ends = {}]
           c == [j EXCEPT !.links = Tail(@), !.ends = {}, !.walked = {}]
<1>1. \A k : Graph!ThenLinks(k) = Graph!NoJob \/ Graph!ThenLinks(k) = [k EXCEPT !.at = "link", !.hit = 0]
  BY DEF Graph!ThenLinks
<1>2. /\ [a EXCEPT !.at = "link", !.hit = 0].at = "link"
      /\ [b EXCEPT !.at = "link", !.hit = 0].at = "link"
      /\ [c EXCEPT !.at = "link", !.hit = 0].at = "link"
  BY DEF JobRecord
<1>3. Graph!NoJob.at = "rest"
  BY DEF Graph!NoJob
<1> HIDE DEF a, b, c
<1>4. /\ Graph!ThenLinks(a).at \in {"rest", "link"} /\ Graph!ThenLinks(b).at \in {"rest", "link"}
      /\ Graph!ThenLinks(c).at \in {"rest", "link"}
  BY <1>1, <1>2, <1>3
<1>5. WalkIsSound(Graph!ThenLinks(a)) /\ WalkIsSound(Graph!ThenLinks(b)) /\ WalkIsSound(Graph!ThenLinks(c))
  BY <1>4, Elsewhere
<1> QED BY <1>5 DEF a, b, c

LEMMA ResolvePairs ==
  ASSUME ForestInv, NEW p \in Graph!Writer, Graph!Resolve(p) PROVE ForestInv'
<1> DEFINE j == job[p]
           pair == Head(j.links)
           Ids(n) == IF n \in DOMAIN j.ids THEN {j.ids[n]} ELSE Graph!Named(n)
           k(s, t) == [j EXCEPT !.at = "walk", !.ends = {s, t}]
<1>0. j \in JobRecord /\ GraphInv /\ GraphInv'
  BY JobTyped, ResolveKeeps DEF ForestInv
<1>1. UNCHANGED <<nodes, lastId, edges, raced>>
  BY DEF Graph!Resolve
<1>2. \/ job' = [job EXCEPT ![p] = Graph!ThenLinks([j EXCEPT !.links = Tail(@)])]
      \/ \E s \in Ids(pair[1]), t \in Ids(pair[2]) : s # t /\ job' = [job EXCEPT ![p] = k(s, t)]
  BY DEF Graph!Resolve, Graph!Goto
<1>3. WalkIsSound(Graph!ThenLinks([j EXCEPT !.links = Tail(@)]))
  BY <1>0, LinksAreElsewhere
<1>4. ASSUME NEW s, NEW t, s # t PROVE WalkIsSound(k(s, t))
  <2>1. k(s, t).at = "walk" /\ k(s, t).ends = {s, t}
    BY <1>0 DEF JobRecord
  <2> HIDE DEF k
  <2> QED BY <1>4, <2>1 DEF WalkIsSound, IsPair
<1>5. \A q \in Graph!Writer : job'[q] = job[q] \/ WalkIsSound(job'[q])
  <2>1. \E new : WalkIsSound(new) /\ job' = [job EXCEPT ![p] = new]
    BY <1>2, <1>3, <1>4
  <2> QED BY <2>1, <1>0 DEF GraphInv
<1> QED BY <1>0, <1>1, <1>5, NoEdgeGoesIn DEF ForestInv

LEMMA WalkPairs ==
  ASSUME ForestInv, NEW p \in Graph!Writer, Graph!Walk(p) PROVE ForestInv'
<1> DEFINE j == job[p]
           k == [j EXCEPT !.at = "insert", !.walked = edges]
<1>0. j \in JobRecord /\ GraphInv /\ GraphInv' /\ WalkIsSound(j)
  BY JobTyped, WalkKeeps DEF ForestInv
<1>1. j.at = "walk" /\ UNCHANGED <<nodes, lastId, edges, raced>>
  BY DEF Graph!Walk
<1>2. \/ job' = [job EXCEPT ![p] = Graph!ThenLinks([j EXCEPT !.links = Tail(@), !.ends = {}])]
      \/ ~ Graph!WouldCreateCycle(j.ends, edges) /\ job' = [job EXCEPT ![p] = k]
  BY DEF Graph!Walk, Graph!Goto
<1>3. WalkIsSound(Graph!ThenLinks([j EXCEPT !.links = Tail(@), !.ends = {}]))
  BY <1>0, LinksAreElsewhere
<1>4. ASSUME ~ Graph!WouldCreateCycle(j.ends, edges) PROVE WalkIsSound(k)
  <2>1. k.at = "insert" /\ k.ends = j.ends /\ k.walked = edges
    BY <1>0 DEF JobRecord
  <2>2. PICK a \in j.ends : ~ (j.ends \subseteq Graph!Reached(a, edges))
    BY <1>4 DEF Graph!WouldCreateCycle
  <2>3. a \in 1..NodeMax
    <3>1. PICK s, t \in Nat : j.ends = {s, t} /\ s \in 1..lastId /\ t \in 1..lastId
      BY <1>0, <1>1 DEF GraphInv, Sound, Placed, Holds
    <3>2. lastId \in Nat /\ NodeMax \in Nat /\ lastId <= NodeMax
      BY NodeMaxAssumption DEF ForestInv, GraphInv, Table
    <3>3. a \in 1..lastId
      BY <2>2, <3>1
    <3> QED BY <3>2, <3>3
  <2>4. edges \in SUBSET (SUBSET (1..NodeMax))
    BY EdgesAreFinite DEF ForestInv
  <2>5. a \in Graph!Reached(a, edges) /\ Closed(Graph!Reached(a, edges), edges)
    BY <2>3, <2>4, ReachedIsClosed
  <2>6. Apart(j.ends, edges)
    BY <2>2, <2>5 DEF Apart
  <2>7. IsPair(j.ends)
    BY <1>0, <1>1 DEF WalkIsSound
  <2> HIDE DEF k
  <2> QED BY <2>1, <2>6, <2>7 DEF WalkIsSound
<1>5. \A q \in Graph!Writer : job'[q] = job[q] \/ WalkIsSound(job'[q])
  <2>1. \E new : WalkIsSound(new) /\ job' = [job EXCEPT ![p] = new]
    <3> HIDE DEF k
    <3> QED BY <1>2, <1>3, <1>4
  <2> QED BY <2>1, <1>0 DEF GraphInv
<1> QED BY <1>0, <1>1, <1>5, NoEdgeGoesIn DEF ForestInv

LEMMA InsertPairs ==
  ASSUME ForestInv, NEW p \in Graph!Writer, Graph!InsertEdge(p) PROVE ForestInv'
<1> DEFINE j == job[p]
           rest == Graph!ThenLinks([j EXCEPT !.links = Tail(@), !.ends = {}, !.walked = {}])
<1>0. j \in JobRecord /\ GraphInv /\ GraphInv' /\ WalkIsSound(j)
  BY JobTyped, InsertKeeps DEF ForestInv
<1>1. j.at = "insert" /\ UNCHANGED <<nodes, lastId>> /\ job' = [job EXCEPT ![p] = rest]
  BY DEF Graph!InsertEdge, Graph!Goto
<1>2. WalkIsSound(rest)
  BY <1>0, LinksAreElsewhere
<1> HIDE DEF rest
<1>3. \A q \in Graph!Writer : job'[q] = job[q] \/ WalkIsSound(job'[q])
  BY <1>0, <1>1, <1>2 DEF GraphInv
<1>4. CASE UNCHANGED <<edges, raced>>
  BY <1>0, <1>1, <1>3, <1>4, NoEdgeGoesIn DEF ForestInv
<1>5. CASE /\ edges' = edges \cup {j.ends}
           /\ raced' = (raced \/ edges \ j.walked # {})
  <2>1. PICK s, t : s # t /\ j.ends = {s, t}
    BY <1>0, <1>1 DEF WalkIsSound, IsPair
  <2>2. Pairs(edges')
    BY <1>5, <2>1 DEF ForestInv, Pairs
  <2>3. ASSUME ~ raced' PROVE Acyclic(edges')
    <3>1. ~ raced /\ edges \subseteq j.walked
      BY <1>5, <2>3
    <3>2. PICK R : \E a \in j.ends : a \in R /\ Closed(R, j.walked) /\ ~ (j.ends \subseteq R)
      BY <1>0, <1>1 DEF WalkIsSound, Apart
    <3>a. PICK a \in j.ends : a \in R
      BY <3>2
    <3>3. Closed(R, edges)
      BY <3>1, <3>2 DEF Closed
    <3>4. PICK b \in j.ends : b \notin R
      BY <3>2
    <3>5. j.ends = {a, b}
      BY <2>1, <3>a, <3>4
    <3>6. Acyclic(edges) /\ Pairs(edges) /\ IsFiniteSet(edges)
      BY <3>1, EdgesAreFinite DEF ForestInv
    <3>7. Acyclic(edges \cup {{a, b}})
      BY <3>a, <3>3, <3>4, <3>6, OneMoreEdge
    <3> QED BY <1>5, <3>5, <3>7
  <2>4. \A q \in Graph!Writer : WalkIsSound(job'[q])
    BY <1>3 DEF ForestInv
  <2>5. (\A q \in Graph!Writer : WalkIsSound(job[q]))'
    BY <2>4
  <2>6. lastId' <= NodeMax
    BY <1>1 DEF ForestInv
  <2> QED BY <1>0, <2>2, <2>3, <2>5, <2>6 DEF ForestInv
<1> QED BY <1>4, <1>5 DEF Graph!InsertEdge


\* Where the other statements take their writer.
LEMMA StatementGoesElsewhere ==
  ASSUME GraphInv, NEW p \in Graph!Writer,
         \/ Graph!IngestHit(p) \/ Graph!IngestMiss(p) \/ Graph!SelectItem(p) \/ Graph!Upsert(p)
         \/ Graph!Mark(p) \/ \E c \in Category : Graph!Classified(p, c)
  PROVE  \E new : WalkIsSound(new) /\ job' = [job EXCEPT ![p] = new]
<1> DEFINE j == job[p]
           Goes == \E new : WalkIsSound(new) /\ job' = [job EXCEPT ![p] = new]
<1>0. j \in JobRecord
  BY JobTyped
<1>1. WalkIsSound(Graph!NoJob) /\ WalkIsSound(Graph!ThenLinks(j)) /\ WalkIsSound(Graph!Onward(j))
  BY <1>0, OnIsElsewhere
<1>2. CASE Graph!IngestHit(p) \/ Graph!IngestMiss(p)
  BY <1>1, <1>2 DEF Graph!IngestHit, Graph!IngestMiss, Graph!Goto
<1>3. CASE Graph!SelectItem(p)
  <2>1. PICK hit : job' = [job EXCEPT ![p] = [j EXCEPT !.at = "upsert", !.hit = hit]]
    BY <1>3 DEF Graph!SelectItem, Graph!Goto
  <2> DEFINE k == [j EXCEPT !.at = "upsert", !.hit = hit]
  <2>2. k.at = "upsert"
    BY <1>0 DEF JobRecord
  <2>3. job' = [job EXCEPT ![p] = k]
    BY <2>1
  <2> HIDE DEF k
  <2> QED BY <2>2, <2>3, Elsewhere
<1>4. CASE Graph!Upsert(p)
  <2> DEFINE kept(i) == [n \in DOMAIN j.ids \cup {Head(j.items).name} |->
                           IF n = Head(j.items).name THEN i ELSE j.ids[n]]
             a(i) == [j EXCEPT !.at = "mark", !.hit = i, !.ids = kept(i)]
             b(i) == [j EXCEPT !.ids = kept(i)]
  <2>1. \/ \E i : job' = [job EXCEPT ![p] = a(i)] \/ job' = [job EXCEPT ![p] = Graph!Onward(b(i))]
        \/ job' = [job EXCEPT ![p] = Graph!NoJob]
        \/ job' = [job EXCEPT ![p] = Graph!Onward(j)]
    BY <1>4 DEF Graph!Upsert, Graph!Goto
  <2>2. \A i : a(i).at = "mark"
    <3> HIDE DEF kept
    <3> QED BY <1>0 DEF JobRecord
  <2>3. \A i : Graph!Onward(b(i)).at \in {"item", "rest", "link"}
    <3> SUFFICES ASSUME NEW i PROVE Graph!Onward(b(i)).at \in {"item", "rest", "link"}
      OBVIOUS
    <3> HIDE DEF kept
    <3>1. [b(i) EXCEPT !.at = "item", !.hit = 0, !.items = Tail(@)].at = "item"
      BY <1>0 DEF JobRecord
    <3>2. [[b(i) EXCEPT !.items = <<>>] EXCEPT !.at = "link", !.hit = 0].at = "link"
      BY <1>0 DEF JobRecord
    <3>3. Graph!NoJob.at = "rest"
      BY DEF Graph!NoJob
    <3> HIDE DEF b
    <3> QED BY <3>1, <3>2, <3>3 DEF Graph!Onward, Graph!ThenLinks
  <2> HIDE DEF a, b
  <2>4. \A i : WalkIsSound(a(i)) /\ WalkIsSound(Graph!Onward(b(i)))
    BY <2>2, <2>3, Elsewhere
  <2> QED BY <1>1, <2>1, <2>4
<1>5. CASE Graph!Mark(p)
  BY <1>1, <1>5 DEF Graph!Mark, Graph!Goto
<1>6. CASE \E c \in Category : Graph!Classified(p, c)
  BY <1>1, <1>6 DEF Graph!Classified, Graph!Goto
<1> QED BY <1>2, <1>3, <1>4, <1>5, <1>6

LEMMA StatementPairs ==
  ASSUME ForestInv, NEW p \in Graph!Writer, Graph!Statement(p) PROVE ForestInv'
<1>1. CASE Graph!Resolve(p) \/ Graph!Walk(p) \/ Graph!InsertEdge(p)
  BY <1>1, ResolvePairs, WalkPairs, InsertPairs
<1>2. CASE \/ Graph!IngestHit(p) \/ Graph!IngestMiss(p) \/ Graph!SelectItem(p) \/ Graph!Upsert(p)
           \/ Graph!Mark(p) \/ \E c \in Category : Graph!Classified(p, c)
  <2>1. GraphInv /\ GraphInv' /\ lastId <= NodeMax /\ lastId \in Nat /\ NodeMax \in Nat
    BY <1>2, IngestKeeps, SelectKeeps, UpsertKeeps, MarkKeeps, ClassifiedKeeps, NodeMaxAssumption
    DEF ForestInv, GraphInv, Table
  <2>2. edges' = edges /\ raced' = raced
    BY <1>2 DEF Graph!IngestHit, Graph!IngestMiss, Graph!SelectItem, Graph!Upsert,
      Graph!Mark, Graph!Classified
  <2>3. lastId' = lastId \/ (lastId < NodeMax /\ lastId' = lastId + 1)
    BY <1>2, <2>1 DEF Graph!IngestHit, Graph!IngestMiss, Graph!SelectItem, Graph!Upsert,
      Graph!Mark, Graph!Classified, Graph!InsertNode, Graph!NextId
  <2>4. lastId' <= NodeMax
    BY <2>1, <2>3
  <2>5. PICK new : WalkIsSound(new) /\ job' = [job EXCEPT ![p] = new]
    BY <1>2, <2>1, StatementGoesElsewhere
  <2>6. \A q \in Graph!Writer : job'[q] = job[q] \/ WalkIsSound(job'[q])
    BY <2>1, <2>5 DEF GraphInv
  <2> QED BY <2>1, <2>2, <2>4, <2>6, NoEdgeGoesIn
<1> QED BY <1>1, <1>2 DEF Graph!Statement

LEMMA WriteStartsElsewhere ==
  ASSUME ForestInv, GraphInv', NEW p \in Graph!Writer, NEW j, Graph!Begin(p, j), WalkIsSound(j)
  PROVE  ForestInv'
<1>1. /\ job' = [job EXCEPT ![p] = j] /\ UNCHANGED <<lastId, edges, raced>>
      /\ GraphInv /\ lastId <= NodeMax
  BY DEF Graph!Begin, ForestInv
<1>2. \A q \in Graph!Writer : job'[q] = job[q] \/ WalkIsSound(job'[q])
  BY <1>1 DEF GraphInv
<1> QED BY <1>1, <1>2, NoEdgeGoesIn

LEMMA ForestStays ==
  ASSUME ForestInv, Graph!GraphNext PROVE ForestInv'
<1>0. GraphInv /\ GraphInv' /\ lastId <= NodeMax /\ lastId \in Nat /\ NodeMax \in Nat
  BY GraphGoesOn, NodeMaxAssumption DEF ForestInv, GraphInv, Table
<1>1. CASE \E p \in Graph!Writer : Graph!Statement(p)
  BY <1>1, StatementPairs
<1>2. CASE \/ \E n \in Name, c \in Category : Graph!CreateNode(n, c)
           \/ \E i \in DOMAIN nodes : Graph!DeleteNode(i)
           \/ \E p \in Graph!Writer, n \in Name, c \in Category : Graph!UpdateNodeCategory(p, n, c)
  <2>1. job' = job /\ raced' = raced /\ edges' \subseteq edges
    BY <1>0, <1>2, EditKeeps DEF Graph!CreateNode, Graph!DeleteNode, Graph!UpdateNodeCategory, Graph!Edit
  <2>2. lastId' = lastId \/ (lastId < NodeMax /\ lastId' = lastId + 1)
    BY <1>0, <1>2 DEF Graph!CreateNode, Graph!DeleteNode, Graph!UpdateNodeCategory,
      Graph!InsertNode, Graph!NextId
  <2>3. lastId' <= NodeMax
    BY <1>0, <2>2
  <2> QED BY <1>0, <2>1, <2>3, NoEdgeGoesIn
<1>3. CASE \E n \in Name : Graph!AutoIngest(n)
  <2> PICK n \in Name : Graph!AutoIngest(n)
    BY <1>3
  <2> DEFINE k == [Graph!NoJob EXCEPT !.kind = "ingest", !.at = "embedding",
                   !.items = <<[name |-> n, category |-> "FACT"]>>]
  <2>1. Graph!Begin("self", k) /\ k.at = "embedding"
    BY DEF Graph!AutoIngest, Graph!NoJob
  <2> HIDE DEF k
  <2> QED BY <1>0, <2>1, Elsewhere, WriteStartsElsewhere DEF Graph!Writer
<1>4. CASE \E kind \in {"remember", "extraction"}, x \in Extraction : Graph!Distil(kind, x)
  <2> PICK kind \in {"remember", "extraction"}, x \in Extraction : Graph!Distil(kind, x)
    BY <1>4
  <2> DEFINE j == [Graph!NoJob EXCEPT !.kind = kind, !.items = x.items, !.links = x.links]
             k == IF x.items = <<>> THEN Graph!ThenLinks(j) ELSE [j EXCEPT !.at = "item"]
  <2>1. Graph!Begin("self", k)
    BY DEF Graph!Distil
  <2>2. k.at \in {"rest", "link", "item"}
    BY DEF Graph!ThenLinks, Graph!NoJob
  <2> HIDE DEF k
  <2> QED BY <1>0, <2>1, <2>2, Elsewhere, WriteStartsElsewhere DEF Graph!Writer
<1>5. CASE \E a, b \in Name : a # b /\ Graph!CreateEdge(a, b)
  <2> PICK a \in Name, b \in Name : Graph!CreateEdge(a, b)
    BY <1>5
  <2> DEFINE k == [Graph!NoJob EXCEPT !.kind = "edge", !.at = "link", !.links = <<<<a, b>>>>]
  <2>1. Graph!Begin("operator", k) /\ k.at = "link"
    BY DEF Graph!CreateEdge, Graph!NoJob
  <2> HIDE DEF k
  <2> QED BY <1>0, <2>1, Elsewhere, WriteStartsElsewhere DEF Graph!Writer
<1>6. CASE \E i, s, t \in DOMAIN nodes : Graph!ClassifyAndLinkPending(i, s, t)
  <2> PICK i \in DOMAIN nodes, s \in DOMAIN nodes, t \in DOMAIN nodes :
        Graph!ClassifyAndLinkPending(i, s, t)
    BY <1>6
  <2> DEFINE asking == [Graph!NoJob EXCEPT !.kind = "classify", !.at = "classifying", !.hit = i]
             linked == {nodes[s].name, nodes[t].name}
             both == [asking EXCEPT !.links = <<<<nodes[s].name, nodes[t].name>>>>,
                        !.ids = [n \in linked |-> IF n = nodes[s].name THEN s ELSE t]]
  <2>1. Graph!Begin("self", asking) \/ Graph!Begin("self", both)
    BY DEF Graph!ClassifyAndLinkPending
  <2>2. asking.at = "classifying" /\ both.at = "classifying"
    BY DEF Graph!NoJob
  <2> HIDE DEF asking, both
  <2> QED BY <1>0, <2>1, <2>2, Elsewhere, WriteStartsElsewhere DEF Graph!Writer
<1> QED BY <1>1, <1>2, <1>3, <1>4, <1>5, <1>6 DEF Graph!GraphNext

\* As long as no edge went in after what its check had walked had changed, the edges of
\* graph memory are a forest: would_create_cycle by itself lets no cycle close.
THEOREM CyclesAreRaced == ServicesSpec => []AcyclicUnlessRaced
<1>1. ServicesInit => ForestInv
  <2> SUFFICES ASSUME ServicesInit PROVE ForestInv
    OBVIOUS
  <2>1. /\ edges = {} /\ lastId = 0 /\ job = [p \in Graph!Writer |-> Graph!NoJob]
    BY DEF ServicesInit, Graph!GraphInit
  <2>2. GraphInv
    BY GraphStarts
  <2>3. Pairs(edges) /\ Acyclic(edges)
    BY <2>1 DEF Pairs, Acyclic
  <2>4. lastId <= NodeMax
    BY <2>1, NodeMaxAssumption
  <2>5. Graph!NoJob.at = "rest"
    BY DEF Graph!NoJob
  <2>6. \A p \in Graph!Writer : WalkIsSound(job[p])
    BY <2>1, <2>5, Elsewhere
  <2> QED BY <2>2, <2>3, <2>4, <2>6 DEF ForestInv
<1>2. ForestInv /\ [ServicesNext]_servicesVars => ForestInv'
  <2> SUFFICES ASSUME ForestInv, [ServicesNext]_servicesVars PROVE ForestInv'
    OBVIOUS
  <2>1. CASE UNCHANGED Graph!graphVars
    BY <2>1 DEF Graph!graphVars, ForestInv, GraphInv
  <2>2. CASE Graph!GraphNext
    BY <2>2, ForestStays
  <2> QED BY <2>1, <2>2, GraphMoves
<1>3. ForestInv => AcyclicUnlessRaced
  BY ForestIsAcyclic, EdgesAreFinite DEF ForestInv, AcyclicUnlessRaced, Graph!AcyclicUnlessRaced
<1> QED BY <1>1, <1>2, <1>3, PTL DEF ServicesSpec

-----------------------------------------------------------------------------
(* Searches *)

Pages == Seq(Seq(Search!Result))

\* Reading pages one after the other puts each behind what was read.
LEMMA FlattenIsBuiltUp ==
  ASSUME NEW s \in Pages, s # <<>>
  PROVE  \E g : /\ \A k \in 1..Len(s) : g[k] \in Seq(Search!Result)
                /\ g[1] = s[1] /\ Search!FlattenSeq(s) = g[Len(s)]
                /\ \A k \in 2..Len(s) : g[k] = g[k - 1] \o s[k]
<1> DEFINE V == Seq(Search!Result)
           F == [w \in Nat \X V |-> IF w[1] \in 1..Len(s) THEN w[2] \o s[w[1]] ELSE w[2]]
           Built(g) == g = [i \in 1..Len(s) |-> IF i = 1 THEN s[i] ELSE g[i - 1] \o s[i]]
<1>1. Len(s) \in Nat /\ Len(s) # 0 /\ \A k \in 1..Len(s) : s[k] \in V
  BY DEF Pages
<1>2. F \in [Nat \X V -> V] /\ <<>> \in V
  <2>1. \A w \in Nat \X V : w[1] \in 1..Len(s) => w[2] \o s[w[1]] \in V
    BY <1>1
  <2>2. \A w \in Nat \X V : w[2] \in V
    OBVIOUS
  <2> QED BY <2>1, <2>2
<1>3. \A k \in 1..Len(s) : \A v \in V : F[<<k, v>>] = v \o s[k]
  <2> SUFFICES ASSUME NEW k \in 1..Len(s), NEW v \in V PROVE F[<<k, v>>] = v \o s[k]
    OBVIOUS
  <2>1. <<k, v>> \in Nat \X V /\ <<k, v>>[1] = k /\ <<k, v>>[2] = v
    BY <1>1
  <2> HIDE DEF V
  <2> QED BY <2>1
<1> HIDE DEF F
<1>4. PICK g : Iterates(g, V, <<>>, F, Len(s))
  BY <1>1, <1>2, Iteration
<1>5. \A k \in 1..Len(s) : k - 1 \in 0..Len(s) /\ k \in 0..Len(s)
  BY <1>1
<1>6. /\ \A k \in 0..Len(s) : g[k] \in V
      /\ g[0] = <<>> /\ \A k \in 1..Len(s) : g[k] = g[k - 1] \o s[k]
  BY <1>3, <1>4, <1>5 DEF Iterates
<1>7. g[1] = s[1]
  <2>1. 1 \in 1..Len(s) /\ 1 - 1 = 0 /\ s[1] \in V
    BY <1>1
  <2>2. g[1] = <<>> \o s[1]
    BY <1>6, <2>1
  <2> QED BY <2>1, <2>2
<1> DEFINE h == [i \in 1..Len(s) |-> g[i]]
<1>8. Built(h)
  <2>1. \A i \in 1..Len(s) : i # 1 => i - 1 \in 1..Len(s)
    BY <1>1
  <2>2. \A i \in 1..Len(s) : h[i] = IF i = 1 THEN s[i] ELSE h[i - 1] \o s[i]
    BY <1>6, <1>7, <2>1
  <2>3. h = [i \in 1..Len(s) |-> h[i]]
    OBVIOUS
  <2> HIDE DEF h
  <2> QED BY <2>2, <2>3
<1> DEFINE chosen == CHOOSE f : Built(f)
<1>9. Built(chosen)
  BY <1>8
<1>10. Search!FlattenSeq(s) = chosen[Len(s)]
  BY <1>1 DEF Search!FlattenSeq
<1> HIDE DEF chosen
<1>11. \A i \in 1..Len(s) : chosen[i] = IF i = 1 THEN s[i] ELSE chosen[i - 1] \o s[i]
  BY <1>9
<1>12. /\ chosen[1] = s[1] /\ \A k \in 2..Len(s) : chosen[k] = chosen[k - 1] \o s[k]
  <2>1. 1 \in 1..Len(s) /\ \A k \in 2..Len(s) : k \in 1..Len(s) /\ k # 1
    BY <1>1
  <2> QED BY <1>11, <2>1
<1>13. \A k \in 1..Len(s) : chosen[k] \in V
  <2> DEFINE Good == {k \in 0..Len(s) : k = 0 \/ chosen[k] \in V}
  <2>1. 0 \in Good
    BY <1>1
  <2>2. \A k \in 0..Len(s) : k + 1 \in 0..Len(s) /\ k \in Good => k + 1 \in Good
    <3> SUFFICES ASSUME NEW k \in 0..Len(s), k + 1 \in 0..Len(s), k \in Good
                 PROVE  chosen[k + 1] \in V
      OBVIOUS
    <3>1. CASE k = 0
      BY <1>1, <1>12, <3>1
    <3>2. CASE k # 0
      <4>1. k + 1 \in 2..Len(s) /\ (k + 1) - 1 = k /\ s[k + 1] \in V /\ chosen[k] \in V
        BY <1>1, <3>2
      <4>2. chosen[k + 1] = chosen[k] \o s[k + 1]
        BY <1>12, <4>1
      <4> QED BY <4>1, <4>2
    <3> QED BY <3>1, <3>2
  <2>3. \A k \in 1..Len(s) : k \in Good => chosen[k] \in V
    BY <1>1
  <2> HIDE DEF Good
  <2>4. \A k \in 0..Len(s) : k \in Good
    BY <1>1, <2>1, <2>2, UpTo
  <2> QED BY <1>5, <2>3, <2>4
<1> QED BY <1>10, <1>12, <1>13

LEMMA FlattenAppend ==
  ASSUME NEW s \in Pages, NEW page \in Seq(Search!Result)
  PROVE  /\ Search!FlattenSeq(s) \in Seq(Search!Result)
         /\ Search!FlattenSeq(Append(s, page)) = Search!FlattenSeq(s) \o page
<1> DEFINE u == Append(s, page)
<1>1. /\ Len(s) \in Nat /\ u \in Pages /\ Len(u) = Len(s) + 1 /\ u # <<>>
      /\ u[Len(s) + 1] = page /\ \A k \in 1..Len(s) : u[k] = s[k]
  <2>1. Len(s) \in Nat /\ u \in Pages /\ Len(u) = Len(s) + 1
    BY DEF Pages
  <2>2. u[Len(s) + 1] = page /\ \A k \in 1..Len(s) : u[k] = s[k]
    BY DEF Pages
  <2>3. Len(<<>>) = 0
    OBVIOUS
  <2> HIDE DEF u
  <2> QED BY <2>1, <2>2, <2>3
<1> HIDE DEF u
<1>2. PICK h : /\ h[1] = u[1] /\ Search!FlattenSeq(u) = h[Len(u)]
               /\ \A k \in 2..Len(u) : h[k] = h[k - 1] \o u[k]
  BY <1>1, FlattenIsBuiltUp, ZenonT(60)
<1>3. CASE s = <<>>
  <2>1. Search!FlattenSeq(s) = <<>> /\ Len(s) = 0
    BY <1>3 DEF Search!FlattenSeq
  <2>2. Search!FlattenSeq(u) = page
    BY <1>1, <1>2, <2>1
  <2> QED BY <2>1, <2>2 DEF u
<1>4. CASE s # <<>>
  <2>1. PICK g : /\ \A k \in 1..Len(s) : g[k] \in Seq(Search!Result)
                 /\ g[1] = s[1] /\ Search!FlattenSeq(s) = g[Len(s)]
                 /\ \A k \in 2..Len(s) : g[k] = g[k - 1] \o s[k]
    BY <1>4, FlattenIsBuiltUp
  <2>2. Len(s) \in 1..Len(s) /\ Len(s) + 1 \in 2..Len(u) /\ (Len(s) + 1) - 1 = Len(s) /\ Len(s) # 0
    BY <1>1, <1>4 DEF Pages
  <2> DEFINE Good == {k \in 0..Len(s) : k = 0 \/ h[k] = g[k]}
  <2>3. 0 \in Good
    BY <1>1
  <2>4. \A k \in 0..Len(s) : k + 1 \in 0..Len(s) /\ k \in Good => k + 1 \in Good
    <3> SUFFICES ASSUME NEW k \in 0..Len(s), k + 1 \in 0..Len(s), k \in Good
                 PROVE  h[k + 1] = g[k + 1]
      OBVIOUS
    <3>1. CASE k = 0
      <4>1. 1 \in 1..Len(s)
        BY <1>1, <2>2
      <4> QED BY <1>1, <1>2, <2>1, <3>1, <4>1
    <3>2. CASE k # 0
      <4>1. /\ k + 1 \in 2..Len(s) /\ k + 1 \in 2..Len(u) /\ k + 1 \in 1..Len(s)
            /\ (k + 1) - 1 = k /\ h[k] = g[k]
        BY <1>1, <3>2
      <4> QED BY <1>1, <1>2, <2>1, <4>1, ZenonT(60)
    <3> QED BY <3>1, <3>2
  <2>5. \A k \in 1..Len(s) : k \in Good => h[k] = g[k]
    BY <1>1
  <2> HIDE DEF Good
  <2>6. \A k \in 0..Len(s) : k \in Good
    BY <1>1, <2>3, <2>4, UpTo
  <2>7. Len(s) \in 0..Len(s)
    BY <1>1
  <2>8. h[Len(s)] = g[Len(s)]
    BY <2>2, <2>5, <2>6, <2>7
  <2> QED BY <1>1, <1>2, <2>1, <2>2, <2>8 DEF u
<1> QED BY <1>3, <1>4

\* The first occurrences among the first n results, and how many they are.
New(r) == {i \in 1..Len(r) : r[i] = NoUrl \/ \A j \in 1..(i - 1) : r[j] # r[i]}
NewUpTo(r, n) == {i \in New(r) : i <= n}
Count(r, n) == Cardinality(NewUpTo(r, n))

LEMMA CountIsFinite ==
  ASSUME NEW r \in Seq(Search!Result), NEW n \in Nat
  PROVE  IsFiniteSet(NewUpTo(r, n)) /\ Count(r, n) \in Nat
<1>1. Len(r) \in Nat /\ NewUpTo(r, n) \subseteq 1..Len(r)
  BY DEF NewUpTo, New
<1>2. IsFiniteSet(1..Len(r))
  BY <1>1, FS_Interval
<1>3. IsFiniteSet(NewUpTo(r, n))
  BY <1>1, <1>2, FS_Subset
<1> QED BY <1>3, FS_CardinalityType DEF Count

LEMMA CountGrows ==
  ASSUME NEW r \in Seq(Search!Result), NEW m \in Nat, NEW n \in Nat, m <= n
  PROVE  /\ Count(r, m) <= Count(r, n)
         /\ (\E i \in New(r) : m < i /\ i <= n) => Count(r, m) < Count(r, n)
<1>1. NewUpTo(r, m) \subseteq NewUpTo(r, n)
  <2>1. \A i \in New(r) : i \in Nat
    BY DEF New
  <2> QED BY <2>1 DEF NewUpTo
<1>2. Count(r, m) <= Count(r, n)
  BY <1>1, CountIsFinite, FS_Subset DEF Count
<1>3. ASSUME NEW i \in New(r), m < i, i <= n PROVE Count(r, m) < Count(r, n)
  <2>1. i \in NewUpTo(r, n) /\ i \notin NewUpTo(r, m)
    BY <1>3 DEF NewUpTo, New
  <2>2. Count(r, m) # Count(r, n)
    BY <1>1, <2>1, CountIsFinite, FS_Subset DEF Count
  <2> QED BY <1>2, <2>2, CountIsFinite
<1> QED BY <1>2, <1>3

LEMMA CountSteps ==
  ASSUME NEW r \in Seq(Search!Result), NEW n \in Nat, n + 1 \in 1..Len(r)
  PROVE  Count(r, n + 1) = IF n + 1 \in New(r) THEN Count(r, n) + 1 ELSE Count(r, n)
<1>1. \A i \in New(r) : i \in Nat /\ (i <= n + 1 <=> i <= n \/ i = n + 1)
  BY DEF New
<1>2. CASE n + 1 \in New(r)
  <2>1. n + 1 \notin NewUpTo(r, n) /\ NewUpTo(r, n + 1) = NewUpTo(r, n) \cup {n + 1}
    BY <1>1, <1>2 DEF NewUpTo
  <2> QED BY <1>2, <2>1, CountIsFinite, FS_AddElement DEF Count
<1>3. CASE n + 1 \notin New(r)
  <2>1. NewUpTo(r, n + 1) = NewUpTo(r, n)
    BY <1>1, <1>3 DEF NewUpTo
  <2> QED BY <1>3, <2>1 DEF Count
<1> QED BY <1>2, <1>3

LEMMA CountOfNone ==
  ASSUME NEW r \in Seq(Search!Result) PROVE Count(r, 0) = 0
<1>1. NewUpTo(r, 0) = {}
  BY DEF NewUpTo, New
<1> QED BY <1>1, FS_EmptySet DEF Count

\* What comes later does not change what was new before.
LEMMA CountOfPrefix ==
  ASSUME NEW r \in Seq(Search!Result), NEW page \in Seq(Search!Result), NEW n \in Nat, n <= Len(r)
  PROVE  /\ NewUpTo(r \o page, n) = NewUpTo(r, n)
         /\ Count(r \o page, n) = Count(r, n)
<1> DEFINE u == r \o page
<1>1. /\ Len(r) \in Nat /\ Len(u) \in Nat /\ Len(r) <= Len(u)
      /\ \A i \in 1..Len(r) : u[i] = r[i]
  OBVIOUS
<1> HIDE DEF u
<1>2. \A i \in 1..Len(r) : i \in New(u) <=> i \in New(r)
  <2> SUFFICES ASSUME NEW i \in 1..Len(r) PROVE i \in New(u) <=> i \in New(r)
    OBVIOUS
  <2>1. i \in 1..Len(u) /\ 1..(i - 1) \subseteq 1..Len(r)
    BY <1>1
  <2>2. u[i] = r[i] /\ \A j \in 1..(i - 1) : u[j] = r[j]
    BY <1>1, <2>1
  <2> QED BY <2>1, <2>2 DEF New
<1>3. \A i \in New(u) : i <= n => i \in 1..Len(r)
  BY <1>1 DEF New
<1>4. New(r) \subseteq 1..Len(r)
  BY DEF New
<1>5. NewUpTo(u, n) = NewUpTo(r, n)
  BY <1>2, <1>3, <1>4 DEF NewUpTo
<1> QED BY <1>5 DEF Count, u

\* What a search has taken of the first n results of r.
HasFirsts(r, n, out, want) == \A i \in New(r) :
  (i <= n /\ Count(r, i) <= want) => Count(r, i) \in 1..Len(out) /\ out[Count(r, i)] = r[i]
HasAll(r, n, out) == \A j \in 1..n : \E p \in 1..Len(out) : out[p] = r[j]
HasOnly(r, n, out) == \A p \in 1..Len(out) : \E j \in 1..n : out[p] = r[j]
Taken(r, n, out, want) ==
  /\ out \in Seq(Search!Result)
  /\ Len(out) = IF Count(r, n) < want THEN Count(r, n) ELSE want
  /\ HasFirsts(r, n, out, want)
  /\ Len(out) < want => HasAll(r, n, out)
  /\ HasOnly(r, n, out)

LEMMA TakenOfPrefix ==
  ASSUME NEW r \in Seq(Search!Result), NEW page \in Seq(Search!Result), NEW out, NEW want,
         Taken(r, Len(r), out, want)
  PROVE  Taken(r \o page, Len(r), out, want)
<1> DEFINE u == r \o page
<1>1. /\ Len(r) \in Nat /\ Len(r) \in Nat /\ \A i \in 1..Len(r) : u[i] = r[i]
  OBVIOUS
<1>2. NewUpTo(u, Len(r)) = NewUpTo(r, Len(r)) /\ Count(u, Len(r)) = Count(r, Len(r))
  BY <1>1, CountOfPrefix
<1>3. \A i \in New(r) : i \in Nat
  BY DEF New
<1>4. \A i \in Nat : i <= Len(r) => Count(u, i) = Count(r, i)
  BY CountOfPrefix
<1> HIDE DEF u
<1>5. ASSUME NEW i \in New(u), i <= Len(r)
      PROVE  i \in New(r) /\ i \in 1..Len(r) /\ Count(u, i) = Count(r, i)
  <2>1. i \in New(r)
    BY <1>2, <1>5 DEF NewUpTo
  <2>2. i \in 1..Len(r)
    BY <2>1 DEF New
  <2> QED BY <1>4, <1>5, <2>1, <2>2
<1>6. HasFirsts(u, Len(r), out, want)
  BY <1>1, <1>5 DEF Taken, HasFirsts
<1>7. HasOnly(u, Len(r), out) /\ (Len(out) < want => HasAll(u, Len(r), out))
  BY <1>1 DEF Taken, HasOnly, HasAll
<1> QED BY <1>2, <1>6, <1>7 DEF Taken, u

\* A list with one more at its end.
LEMMA OneMore ==
  ASSUME NEW S, NEW s \in Seq(S), NEW e \in S
  PROVE  LET t == Append(s, e) IN
         /\ t \in Seq(S) /\ Len(t) = Len(s) + 1
         /\ t[Len(s) + 1] = e /\ \A p \in 1..Len(s) : t[p] = s[p]
         /\ \A p \in 1..Len(s) : p \in 1..Len(t)
         /\ Len(s) + 1 \in 1..Len(t)
         /\ \A p \in 1..Len(t) : p \in 1..Len(s) \/ p = Len(s) + 1
<1>1. Len(s) \in Nat /\ Append(s, e) \in Seq(S) /\ Len(Append(s, e)) = Len(s) + 1
  OBVIOUS
<1>2. Append(s, e)[Len(s) + 1] = e /\ \A p \in 1..Len(s) : Append(s, e)[p] = s[p]
  OBVIOUS
<1>3. /\ \A p \in 1..Len(s) : p \in 1..(Len(s) + 1)
      /\ Len(s) + 1 \in 1..(Len(s) + 1)
      /\ \A p \in 1..(Len(s) + 1) : p \in 1..Len(s) \/ p = Len(s) + 1
  BY <1>1
<1> QED BY <1>1, <1>2, <1>3

\* Reading one more result keeps it so.
LEMMA TakenGoesOn ==
  ASSUME NEW r \in Seq(Search!Result), NEW n \in Nat, n + 1 \in 1..Len(r),
         NEW out, search.want \in Nat, Taken(r, n, out, search.want)
  PROVE  Taken(r, n + 1, Search!Kept(out, r[n + 1]), search.want)
<1> DEFINE want == search.want
           x == r[n + 1]
           kept == Search!Kept(out, x)
<1>1. /\ Count(r, n) \in Nat /\ Count(r, n + 1) \in Nat /\ out \in Seq(Search!Result) /\ Len(out) \in Nat
      /\ Len(out) = IF Count(r, n) < want THEN Count(r, n) ELSE want
      /\ HasFirsts(r, n, out, want) /\ HasOnly(r, n, out)
      /\ Len(out) < want => HasAll(r, n, out)
      /\ x \in Search!Result
  BY CountIsFinite DEF Taken
<1>2. Count(r, n + 1) = IF n + 1 \in New(r) THEN Count(r, n) + 1 ELSE Count(r, n)
  BY CountSteps
<1>3. \A i \in New(r) : i \in Nat /\ (i <= n + 1 => i <= n \/ i = n + 1)
  BY DEF New
<1>4. 1..(n + 1) = 1..n \cup {n + 1} /\ (n + 1) - 1 = n
  OBVIOUS
<1>5. n + 1 \in New(r) <=> x = NoUrl \/ \A j \in 1..n : r[j] # x
  BY <1>4 DEF New
<1>6. x \in Search!ToSet(out) <=> \E p \in 1..Len(out) : out[p] = x
  BY <1>1 DEF Search!ToSet
<1>7. CASE Len(out) >= want
  <2>1. kept = out
    BY <1>7 DEF Search!Kept
  <2> HIDE DEF kept, x
  <2>2. Count(r, n) >= want /\ Len(out) = want /\ Len(out) = IF Count(r, n + 1) < want THEN Count(r, n + 1) ELSE want
    BY <1>1, <1>2, <1>7
  <2>3. ~ (n + 1 \in New(r) /\ Count(r, n + 1) <= want)
    BY <1>1, <1>2, <2>2
  <2>4. HasFirsts(r, n + 1, out, want)
    BY <1>1, <1>3, <2>3 DEF HasFirsts
  <2>5. HasOnly(r, n + 1, out)
    BY <1>1, <1>4 DEF HasOnly
  <2> QED BY <1>1, <2>1, <2>2, <2>4, <2>5 DEF Taken, kept, x
<1>8. CASE Len(out) < want /\ x # NoUrl /\ x \in Search!ToSet(out)
  <2>1. kept = out
    BY <1>8 DEF Search!Kept
  <2>2. PICK p \in 1..Len(out) : out[p] = x
    BY <1>6, <1>8
  <2> HIDE DEF kept
  <2>3. n + 1 \notin New(r)
    BY <1>1, <1>5, <1>8, <2>2 DEF HasOnly
  <2>4. HasFirsts(r, n + 1, out, want)
    BY <1>1, <1>3, <2>3 DEF HasFirsts
  <2>5. HasOnly(r, n + 1, out)
    BY <1>1, <1>4 DEF HasOnly
  <2>6. HasAll(r, n + 1, out)
    BY <1>1, <1>4, <1>8, <2>2 DEF HasAll
  <2> QED BY <1>1, <1>2, <2>1, <2>3, <2>4, <2>5, <2>6 DEF Taken, kept
<1>9. CASE Len(out) < want /\ ~ (x # NoUrl /\ x \in Search!ToSet(out))
  <2>1. kept = Append(out, x)
    BY <1>1, <1>9 DEF Search!Kept
  <2>2. /\ kept \in Seq(Search!Result) /\ Len(kept) = Len(out) + 1
        /\ kept[Len(out) + 1] = x /\ \A p \in 1..Len(out) : kept[p] = out[p]
        /\ \A p \in 1..Len(out) : p \in 1..Len(kept)
        /\ Len(out) + 1 \in 1..Len(kept)
        /\ \A p \in 1..Len(kept) : p \in 1..Len(out) \/ p = Len(out) + 1
    <3> HIDE DEF kept
    <3> QED BY <1>1, <2>1, OneMore, SMTT(30)
  <2> HIDE DEF kept
  <2>3. n + 1 \in New(r)
    BY <1>1, <1>5, <1>6, <1>9 DEF HasAll
  <2>4. /\ Count(r, n) = Len(out) /\ Count(r, n + 1) = Len(out) + 1
        /\ Len(kept) = IF Count(r, n + 1) < want THEN Count(r, n + 1) ELSE want
    BY <1>1, <1>2, <1>9, <2>2, <2>3
  <2>5. HasFirsts(r, n + 1, kept, want)
    <3> SUFFICES ASSUME NEW i \in New(r), i <= n + 1, Count(r, i) <= want
                 PROVE  Count(r, i) \in 1..Len(kept) /\ kept[Count(r, i)] = r[i]
      BY DEF HasFirsts
    <3>1. CASE i <= n
      <4>1. Count(r, i) \in 1..Len(out) /\ out[Count(r, i)] = r[i]
        BY <1>1, <3>1 DEF HasFirsts
      <4> QED BY <2>2, <4>1
    <3>2. CASE i = n + 1
      BY <2>2, <2>4, <3>2
    <3> QED BY <1>3, <3>1, <3>2
  <2>6. HasOnly(r, n + 1, kept)
    <3> SUFFICES ASSUME NEW p \in 1..Len(kept) PROVE \E j \in 1..(n + 1) : kept[p] = r[j]
      BY DEF HasOnly
    <3>1. CASE p \in 1..Len(out)
      BY <1>1, <1>4, <2>2, <3>1 DEF HasOnly
    <3>2. CASE p = Len(out) + 1
      BY <1>4, <2>2, <3>2
    <3> QED BY <2>2, <3>1, <3>2
  <2>7. HasAll(r, n + 1, kept)
    <3> SUFFICES ASSUME NEW j \in 1..(n + 1) PROVE \E p \in 1..Len(kept) : kept[p] = r[j]
      BY DEF HasAll
    <3>1. CASE j \in 1..n
      <4>1. PICK p \in 1..Len(out) : out[p] = r[j]
        BY <1>1, <1>9, <3>1 DEF HasAll
      <4> QED BY <2>2, <4>1
    <3>2. CASE j = n + 1
      BY <2>2, <3>2
    <3> QED BY <1>4, <3>1, <3>2
  <2> QED BY <2>2, <2>4, <2>5, <2>6, <2>7 DEF Taken, kept
<1> QED BY <1>1, <1>7, <1>8, <1>9

\* A page read to its end.
LEMMA PageIsTaken ==
  ASSUME NEW r \in Seq(Search!Result), NEW page \in Seq(Search!Result),
         search.want \in Nat, Taken(r, Len(r), search.out, search.want)
  PROVE  Taken(r \o page, Len(r \o page), Search!Extended(page), search.want)
<1> DEFINE V == Seq(Search!Result)
           u == r \o page
           F == [w \in Nat \X V |-> IF w[1] \in 1..Len(page) THEN Search!Kept(w[2], page[w[1]]) ELSE w[2]]
           Built(g) == g = [k \in 0..Len(page) |->
             IF k = 0 THEN search.out ELSE Search!Kept(g[k - 1], page[k])]
<1>1. /\ Len(page) \in Nat /\ Len(r) \in Nat /\ Len(u) = Len(r) + Len(page) /\ u \in V
      /\ \A k \in 1..Len(page) : page[k] \in Search!Result /\ u[Len(r) + k] = page[k]
      /\ \A k \in 1..Len(page) : k - 1 \in 0..Len(page) /\ k \in 0..Len(page) /\ k \in Nat
      /\ 0 \in 0..Len(page) /\ Len(page) \in 0..Len(page)
  OBVIOUS
<1>2. F \in [Nat \X V -> V] /\ search.out \in V
  <2>1. \A x \in Search!Result : \A v \in V : Search!Kept(v, x) \in V
    BY DEF Search!Kept
  <2>2. \A w \in Nat \X V : w[2] \in V /\ (w[1] \in 1..Len(page) => Search!Kept(w[2], page[w[1]]) \in V)
    BY <1>1, <2>1
  <2>3. search.out \in V
    BY DEF Taken
  <2> QED BY <2>2, <2>3
<1>3. \A k \in 1..Len(page) : \A v \in V : F[<<k, v>>] = Search!Kept(v, page[k])
  <2> SUFFICES ASSUME NEW k \in 1..Len(page), NEW v \in V PROVE F[<<k, v>>] = Search!Kept(v, page[k])
    OBVIOUS
  <2>1. <<k, v>> \in Nat \X V /\ <<k, v>>[1] = k /\ <<k, v>>[2] = v
    BY <1>1
  <2> HIDE DEF V
  <2> QED BY <2>1
<1> HIDE DEF F, u
<1>4. PICK g : Iterates(g, V, search.out, F, Len(page))
  BY <1>1, <1>2, Iteration
<1>5. /\ \A k \in 0..Len(page) : g[k] \in V
      /\ g \in [0..Len(page) -> V] /\ g[0] = search.out
      /\ \A k \in 1..Len(page) : g[k] = Search!Kept(g[k - 1], page[k])
  BY <1>1, <1>3, <1>4 DEF Iterates
<1>6. Built(g)
  <2>1. \A k \in 0..Len(page) : k # 0 => k \in 1..Len(page)
    BY <1>1
  <2>2. \A k \in 0..Len(page) : g[k] = IF k = 0 THEN search.out ELSE Search!Kept(g[k - 1], page[k])
    BY <1>5, <2>1
  <2>3. g = [k \in 0..Len(page) |-> g[k]]
    BY <1>5
  <2> QED BY <2>2, <2>3
<1> DEFINE chosen == CHOOSE f : Built(f)
<1>7. Built(chosen)
  BY <1>6
<1>8. Search!Extended(page) = chosen[Len(page)]
  BY DEF Search!Extended
<1> HIDE DEF chosen
<1>9. \A k \in 0..Len(page) : chosen[k] = IF k = 0 THEN search.out ELSE Search!Kept(chosen[k - 1], page[k])
  BY <1>7
<1> DEFINE Good == {k \in 0..Len(page) : Taken(u, Len(r) + k, chosen[k], search.want)}
<1>10. 0 \in Good
  <2>1. Len(r) + 0 = Len(r) /\ chosen[0] = search.out
    BY <1>1, <1>9
  <2>2. Taken(u, Len(r), search.out, search.want)
    BY TakenOfPrefix DEF u
  <2> QED BY <1>1, <2>1, <2>2
<1>11. \A k \in 0..Len(page) : k + 1 \in 0..Len(page) /\ k \in Good => k + 1 \in Good
  <2> SUFFICES ASSUME NEW k \in 0..Len(page), k + 1 \in 0..Len(page), k \in Good
               PROVE  Taken(u, Len(r) + (k + 1), chosen[k + 1], search.want)
    OBVIOUS
  <2>1. /\ k + 1 \in 1..Len(page) /\ (k + 1) - 1 = k /\ k + 1 # 0 /\ Len(r) + k \in Nat
        /\ Len(r) + (k + 1) = (Len(r) + k) + 1 /\ (Len(r) + k) + 1 \in 1..Len(u)
    BY <1>1
  <2>2. chosen[k + 1] = Search!Kept(chosen[k], page[k + 1]) /\ u[(Len(r) + k) + 1] = page[k + 1]
    BY <1>1, <1>9, <2>1
  <2>3. Taken(u, Len(r) + k, chosen[k], search.want)
    OBVIOUS
  <2>4. Taken(u, (Len(r) + k) + 1, Search!Kept(chosen[k], u[(Len(r) + k) + 1]), search.want)
    BY <1>1, <2>1, <2>3, TakenGoesOn
  <2> QED BY <2>1, <2>2, <2>4
<1>12. \A k \in Good : Taken(u, Len(r) + k, chosen[k], search.want)
  OBVIOUS
<1> HIDE DEF Good
<1>13. Len(page) \in Good
  BY <1>1, <1>10, <1>11, UpTo
<1> QED BY <1>1, <1>8, <1>12, <1>13 DEF u

\* A search has taken what there is to take from the pages it has read, and it
\* ends when it has enough or the last page gave it nothing new.
Exhausted ==
  \/ Len(search.out) >= search.want \/ Len(fetched) = MaxPages
  \/ \A i \in Search!Firsts : i <= Len(Search!Read) - Len(Search!Last(fetched))

SearchInv ==
  /\ search \in [at : {"rest", "paging", "answered", "error"}, want : Nat, out : Seq(Search!Result)]
  /\ Len(search.out) <= search.want
  /\ fetched \in Seq(Search!Page) /\ Len(fetched) <= MaxPages
  /\ search.at = "paging" => Len(fetched) < MaxPages
  /\ search.at \in {"paging", "answered"} =>
       Taken(Search!Read, Len(Search!Read), search.out, search.want)
  /\ search.at = "answered" => Exhausted

LEMMA PagesAreRead ==
  ASSUME NEW pages \in Seq(Search!Page)
  PROVE  pages \in Pages /\ Search!FlattenSeq(pages) \in Seq(Search!Result)
<1>1. \A p \in Search!Page : p \in Seq(Search!Result)
  BY DEF Search!Page
<1>2. pages \in Pages
  BY <1>1 DEF Pages
<1>3. <<>> \in Seq(Search!Result)
  OBVIOUS
<1> QED BY <1>2, <1>3, FlattenAppend

LEMMA NothingTaken ==
  ASSUME NEW want \in Nat
  PROVE  Taken(Search!FlattenSeq(<<>>), Len(Search!FlattenSeq(<<>>)), <<>>, want)
<1>1. Search!FlattenSeq(<<>>) = <<>> /\ Len(<<>>) = 0 /\ <<>> \in Seq(Search!Result)
  BY DEF Search!FlattenSeq
<1>2. Count(<<>>, 0) = 0
  BY <1>1, CountOfNone
<1>3. HasFirsts(<<>>, 0, <<>>, want)
  BY DEF HasFirsts, New
<1>4. HasAll(<<>>, 0, <<>>) /\ HasOnly(<<>>, 0, <<>>)
  BY DEF HasAll, HasOnly
<1> QED BY <1>1, <1>2, <1>3, <1>4 DEF Taken

LEMMA SearchStarts == ASSUME ServicesInit PROVE SearchInv
<1>1. search = Search!Resting /\ fetched = <<>>
  BY DEF ServicesInit, Search!SearchInit
<1>2. <<>> \in Seq(Search!Page) /\ <<>> \in Seq(Search!Result) /\ Len(<<>>) = 0
  OBVIOUS
<1>3. MaxPages \in Nat
  BY WantsAssumption
<1> QED BY <1>1, <1>2, <1>3 DEF SearchInv, Search!Resting

LEMMA SearchMoves ==
  ASSUME [ServicesNext]_servicesVars
  PROVE  Search!SearchNext \/ UNCHANGED Search!searchVars
BY DEF ServicesNext, servicesVars, OthersStill, Moves, Search!searchVars,
       BufferStep, ChatStep, ReloadStep, BrowserStep, McpStep, GraphStep, SearchStep,
       DecisionStep, LifeStep, EnvStep, EngineStep, InstallStep, LlmStep, FirstStep

LEMMA PageKeepsSearch == ASSUME SearchInv, Search!FetchPage PROVE SearchInv'
<1>1. PICK page \in Search!Page :
        LET out == Search!Extended(page)
            stops == \/ Len(out) >= search.want \/ out = search.out
                     \/ Len(fetched) + 1 = MaxPages
        IN /\ fetched' = Append(fetched, page)
           /\ search' = [search EXCEPT !.out = out, !.at = IF stops THEN "answered" ELSE "paging"]
  BY DEF Search!FetchPage
<1> DEFINE out == Search!Extended(page)
           read == Search!FlattenSeq(fetched)
           stops == Len(out) >= search.want \/ out = search.out \/ Len(fetched) + 1 = MaxPages
<1>2. /\ search.at = "paging" /\ search.want \in Nat
      /\ fetched \in Seq(Search!Page) /\ Len(fetched) < MaxPages
      /\ Taken(read, Len(read), search.out, search.want)
  BY DEF SearchInv, Search!FetchPage, Search!Read
<1>3. /\ fetched \in Pages /\ page \in Seq(Search!Result) /\ read \in Seq(Search!Result)
      /\ Len(fetched) \in Nat /\ MaxPages \in Nat
  <2>1. page \in Seq(Search!Result)
    BY DEF Search!Page
  <2> QED BY <1>2, <2>1, PagesAreRead, WantsAssumption
<1>4. Search!FlattenSeq(Append(fetched, page)) = read \o page
  BY <1>3, FlattenAppend
<1>5. Taken(read \o page, Len(read \o page), out, search.want)
  BY <1>2, <1>3, PageIsTaken
<1>6. out \in Seq(Search!Result) /\ Len(out) \in Nat /\ Len(out) <= search.want
  <2> DEFINE u == read \o page
  <2>0. u \in Seq(Search!Result) /\ Len(u) \in Nat
    BY <1>3
  <2> HIDE DEF u
  <2>1. Count(u, Len(u)) \in Nat
    BY <2>0, CountIsFinite
  <2> QED BY <1>2, <1>5, <2>1 DEF Taken, u
<1> HIDE DEF out, read
<1>7. /\ fetched' = Append(fetched, page) /\ Len(fetched') = Len(fetched) + 1
      /\ fetched' \in Seq(Search!Page) /\ fetched'[Len(fetched) + 1] = page
  BY <1>1, <1>2
<1>8. /\ search'.out = out /\ search'.want = search.want
      /\ search'.at = IF stops THEN "answered" ELSE "paging"
      /\ search' \in [at : {"rest", "paging", "answered", "error"}, want : Nat, out : Seq(Search!Result)]
  BY <1>1, <1>6 DEF SearchInv, out
<1>9. Search!Read' = read \o page
  BY <1>4, <1>7 DEF Search!Read
<1>10. stops => Exhausted'
  <2>1. CASE Len(out) >= search.want \/ Len(fetched) + 1 = MaxPages
    BY <1>7, <1>8, <2>1 DEF Exhausted
  <2>2. CASE out = search.out /\ Len(out) < search.want
    <3> DEFINE u == read \o page
    <3>1. Len(read) \in Nat /\ Len(page) \in Nat /\ Len(u) = Len(read) + Len(page)
          /\ u \in Seq(Search!Result) /\ Len(u) \in Nat
      BY <1>3
    <3>2. Len(out) = Count(u, Len(u)) /\ Len(out) = Count(u, Len(read))
      <4>1. Taken(u, Len(read), out, search.want)
        BY <1>2, <1>3, <2>2, TakenOfPrefix
      <4> QED BY <1>5, <2>2, <4>1 DEF Taken
    <3>4. Search!Firsts' = New(u) /\ Search!Last(fetched)' = page /\ Len(Search!Read') - Len(page) = Len(read)
      BY <1>7, <1>9, <3>1 DEF Search!Firsts, New, Search!Last
    <3> HIDE DEF u
    <3>3. Count(u, Len(u)) \in Nat
      BY <3>1, CountIsFinite
    <3>5. \A i \in New(u) : i \in Nat /\ i <= Len(u)
      BY <3>1 DEF New
    <3>6. \A i \in New(u) : ~ (Len(read) < i /\ i <= Len(u))
      BY <3>1, <3>2, <3>3, CountGrows
    <3>7. \A i \in New(u) : i <= Len(read)
      BY <3>1, <3>5, <3>6
    <3> QED BY <3>4, <3>7 DEF Exhausted
  <2> QED BY <1>2, <1>6, <2>1, <2>2
<1>11. ~ stops => Len(fetched') < MaxPages
  BY <1>2, <1>3, <1>7
<1>12. Taken(Search!Read', Len(Search!Read'), search'.out, search'.want)
  BY <1>5, <1>8, <1>9
<1> QED BY <1>2, <1>3, <1>6, <1>7, <1>8, <1>10, <1>11, <1>12 DEF SearchInv

Rests(x) ==
  /\ x \in [at : {"rest", "paging", "answered", "error"}, want : Nat, out : Seq(Search!Result)]
  /\ Len(x.out) <= x.want /\ x.at \notin {"paging", "answered"}

LEMMA RestsEmpty == Rests(Search!Resting) /\ Rests([Search!Resting EXCEPT !.at = "error"])
<1>1. <<>> \in Seq(Search!Result) /\ Len(<<>>) = 0
  OBVIOUS
<1>2. Rests([at |-> "rest", want |-> 0, out |-> <<>>])
  BY <1>1 DEF Rests
<1>3. Rests([at |-> "error", want |-> 0, out |-> <<>>])
  BY <1>1 DEF Rests
<1>4. [Search!Resting EXCEPT !.at = "error"] = [at |-> "error", want |-> 0, out |-> <<>>]
  BY DEF Search!Resting
<1> QED BY <1>2, <1>3, <1>4 DEF Search!Resting

LEMMA SearchBegins == ASSUME SearchInv, Search!Execute PROVE SearchInv'
<1>1. fetched' = <<>> /\ Len(<<>>) = 0 /\ <<>> \in Seq(Search!Page) /\ <<>> \in Seq(Search!Result)
  BY DEF Search!Execute
<1>2. MaxPages \in Nat \ {0}
  BY WantsAssumption
<1>3. CASE search' = [Search!Resting EXCEPT !.at = "error"]
  BY <1>1, <1>2, <1>3, RestsEmpty DEF SearchInv, Rests
<1>4. ASSUME NEW w \in {Default} \cup {IF x > Cap THEN Cap ELSE x : x \in Wants},
             search' = [at |-> "paging", want |-> w, out |-> <<>>]
      PROVE  SearchInv'
  <2>1. w \in Nat
    BY WantsAssumption
  <2>2. Taken(Search!Read', Len(Search!Read'), <<>>, w)
    BY <1>1, <2>1, NothingTaken DEF Search!Read
  <2> QED BY <1>1, <1>2, <1>4, <2>1, <2>2 DEF SearchInv
<1> QED BY <1>3, <1>4 DEF Search!Execute

LEMMA SearchGoesOn == ASSUME SearchInv, [ServicesNext]_servicesVars PROVE SearchInv'
<1>1. CASE UNCHANGED <<search, fetched>>
  BY <1>1 DEF SearchInv, Exhausted, Search!Read, Search!Firsts
<1>2. CASE Search!FetchFails
  <2>1. /\ search' = [Search!Resting EXCEPT !.at = "error"] /\ UNCHANGED fetched
        /\ <<>> \in Seq(Search!Result) /\ Len(<<>>) = 0
    BY <1>2 DEF Search!FetchFails
  <2> QED BY <2>1, RestsEmpty DEF SearchInv, Rests
<1>3. CASE Search!Restarted
  <2>1. /\ search' = Search!Resting /\ fetched' = <<>> /\ MaxPages \in Nat
        /\ <<>> \in Seq(Search!Result) /\ <<>> \in Seq(Search!Page) /\ Len(<<>>) = 0
    BY <1>3, WantsAssumption DEF Search!Restarted
  <2> QED BY <2>1, RestsEmpty DEF SearchInv, Rests
<1>4. \/ Search!Execute \/ Search!FetchPage \/ Search!FetchFails \/ Search!Restarted
      \/ UNCHANGED <<search, fetched>>
  BY SearchMoves DEF Search!SearchNext, Search!searchVars, Search!NothingToStart, Search!ProbeFails,
     Search!NoDocker, Search!AlreadyBooting, Search!PrepareSettings, Search!SettingsFail, Search!DockerRuns,
     Search!DockerRunFails, Search!WaitEnds, Search!Serves, Search!ContainerEnds,
     Search!OperatorRuns, Search!OperatorEdits, Search!DaemonChanges
<1> QED BY <1>1, <1>2, <1>3, <1>4, SearchBegins, PageKeepsSearch

LEMMA AnsweredIsExhaustive == ASSUME SearchInv PROVE SearchIsExhaustive
<1> DEFINE r == Search!Read
<1> SUFFICES ASSUME search.at = "answered"
             PROVE  /\ \A i \in Search!Firsts :
                         /\ Search!Rank(i) <= Search!Due => Search!Rank(i) <= Len(search.out)
                         /\ Search!Rank(i) <= Len(search.out) => search.out[Search!Rank(i)] = r[i]
                    /\ Len(search.out) <= Search!Cardinality(Search!Firsts)
                    /\ Len(search.out) <= search.want
                    /\ Len(search.out) < Search!Due =>
                         \/ Len(fetched) = MaxPages
                         \/ \A i \in Search!Firsts : i <= Len(r) - Len(Search!Last(fetched))
  BY DEF SearchIsExhaustive, Search!SearchIsExhaustive
<1>1. /\ search.want \in Nat /\ r \in Seq(Search!Result) /\ Len(r) \in Nat
      /\ search.out \in Seq(Search!Result) /\ Len(search.out) \in Nat
      /\ Taken(r, Len(r), search.out, search.want) /\ Exhausted
  BY PagesAreRead DEF SearchInv, Search!Read
<1>2. Search!Firsts = New(r)
  BY DEF Search!Firsts, New
<1>3. \A i : Search!Rank(i) = Count(r, i)
  BY <1>2 DEF Search!Rank, Search!Cardinality, Cardinality, Count, NewUpTo
<1>4. Search!Cardinality(Search!Firsts) = Count(r, Len(r))
  <2>1. NewUpTo(r, Len(r)) = New(r)
    BY DEF NewUpTo, New
  <2> QED BY <1>2, <2>1 DEF Search!Cardinality, Cardinality, Count
<1>5. \A i \in New(r) : i \in Nat /\ i <= Len(r)
  BY <1>1 DEF New
<1>6. Count(r, Len(r)) \in Nat
  BY <1>1, CountIsFinite
<1> HIDE DEF r
<1>7. Len(search.out) <= Count(r, Len(r)) /\ Len(search.out) <= search.want
  BY <1>1, <1>6 DEF Taken
<1>8. \A i \in New(r) : Count(r, i) <= search.want =>
        Count(r, i) \in 1..Len(search.out) /\ search.out[Count(r, i)] = r[i]
  BY <1>1, <1>5 DEF Taken, HasFirsts
<1>9. Len(search.out) < search.want =>
        Len(fetched) = MaxPages \/ \A i \in Search!Firsts : i <= Len(r) - Len(Search!Last(fetched))
  BY <1>1 DEF Exhausted, r
<1>10. Search!Due \in Nat /\ Search!Due <= search.want
  BY <1>1, WantsAssumption DEF Search!Due
<1>11. \A i \in New(r) : Count(r, i) \in Nat
  BY <1>1, <1>5, CountIsFinite
<1>12. \A i \in New(r) : /\ Count(r, i) <= Search!Due => Count(r, i) <= Len(search.out)
                         /\ Count(r, i) <= Len(search.out) => search.out[Count(r, i)] = r[i]
  BY <1>1, <1>7, <1>8, <1>10, <1>11
<1>13. Len(search.out) < Search!Due =>
        Len(fetched) = MaxPages \/ \A i \in Search!Firsts : i <= Len(r) - Len(Search!Last(fetched))
  BY <1>1, <1>9, <1>10
<1> QED BY <1>1, <1>2, <1>3, <1>4, <1>7, <1>12, <1>13

LEMMA SearchStays == ServicesSpec => []SearchInv
<1>1. ServicesInit => SearchInv
  BY SearchStarts
<1>2. SearchInv /\ [ServicesNext]_servicesVars => SearchInv'
  BY SearchGoesOn
<1> QED BY <1>1, <1>2, PTL DEF ServicesSpec

\* What an answered search returns is the first occurrences on its pages in their
\* order, none skipped, up to the count it owes and never more than was asked for,
\* for pages of any length; fewer only when the last one brought nothing new or
\* was the last it may read
\* (client.py paginate).
THEOREM SearchesAreExhaustive == ServicesSpec => []SearchIsExhaustive
<1>1. SearchInv => SearchIsExhaustive
  BY AnsweredIsExhaustive
<1> QED BY <1>1, SearchStays, PTL

-----------------------------------------------------------------------------
(* Types *)

\* Every transport a call or the connection names has been opened.
Opened ==
  /\ opened \in Nat /\ opened <= Transports
  /\ {session, stack} \subseteq 0..opened /\ open \subseteq 1..opened
  /\ \A c \in McpCall : call[c].on \in 0..opened

LEMMA McpIsTyped ==
  /\ ServicesInit => Opened
  /\ McpInv /\ Opened /\ [ServicesNext]_servicesVars => Opened'
  /\ McpInv /\ Opened => Mcp!McpTypeOK
<1>1. ServicesInit => Opened
  BY BoundsAssumption DEF ServicesInit, Mcp!Init, Opened
<1>2. ASSUME McpInv, Opened, NEW c \in McpCall,
             \/ Mcp!Execute(c) \/ Mcp!Returns(c) \/ Mcp!ReplyLost(c) \/ Mcp!CallFails(c)
             \/ Mcp!BeginClose(c) \/ Mcp!BeginConnect(c) \/ Mcp!Connected(c)
             \/ Mcp!ConnectFails(c) \/ Mcp!TimesOut(c)
      PROVE  Opened'
  <2>1. ASSUME NEW pc, NEW on, Mcp!Goto(c, pc, on), on \in 0..opened',
               opened' \in Nat, opened <= opened'
        PROVE  \A d \in McpCall : call'[d].on \in 0..opened'
    <3>1. ASSUME NEW d \in McpCall PROVE call'[d].on \in 0..opened'
      <4>1. CASE d = c
        BY <1>2, <2>1, <4>1 DEF McpInv, Mcp!Goto
      <4>2. CASE d # c
        <5>1. call'[d] = call[d]
          BY <1>2, <2>1, <4>2 DEF McpInv, Mcp!Goto
        <5> QED BY <1>2, <2>1, <5>1 DEF Opened
      <4> QED BY <4>1, <4>2
    <3> QED BY <3>1
  <2>2. 0 \in 0..opened /\ opened \in Nat /\ opened <= opened
    BY <1>2 DEF Opened
  <2>3. \A what : Mcp!Answer(c, what) /\ opened' = opened =>
          \A d \in McpCall : call'[d].on \in 0..opened'
    BY <2>1, <2>2 DEF Mcp!Answer
  <2>4. CASE Mcp!Execute(c)
    <3>1. session \in 0..opened' /\ UNCHANGED <<session, stack, open, opened>>
      BY <1>2, <2>4 DEF Mcp!Execute, Opened
    <3> QED BY <1>2, <2>1, <2>2, <2>4, <3>1 DEF Mcp!Execute, Opened
  <2>5. CASE Mcp!Returns(c) \/ Mcp!TimesOut(c)
    BY <1>2, <2>3, <2>5 DEF Mcp!Returns, Mcp!TimesOut, Opened
  <2>6. CASE Mcp!ReplyLost(c) \/ Mcp!CallFails(c)
    <3>1. Mcp!Fail(c) /\ UNCHANGED <<session, stack, open, opened>>
      BY <2>6 DEF Mcp!ReplyLost, Mcp!CallFails
    <3>2. Mcp!Answer(c, "error") \/ Mcp!Goto(c, "failed", 0)
      BY <3>1 DEF Mcp!Fail
    <3> QED BY <1>2, <2>1, <2>2, <2>3, <3>1, <3>2 DEF Opened
  <2>7. CASE Mcp!BeginClose(c)
    <3>1. /\ Mcp!Goto(c, "closing", stack) /\ stack \in 0..opened'
          /\ session' = 0 /\ UNCHANGED <<stack, open, opened>>
      BY <1>2, <2>7 DEF Mcp!BeginClose, Opened
    <3> QED BY <1>2, <2>1, <2>2, <3>1 DEF Opened
  <2>8. CASE Mcp!BeginConnect(c)
    <3>1. /\ opened' = opened + 1 /\ opened' <= Transports /\ opened' \in Nat
          /\ Mcp!Goto(c, "connecting", opened') /\ stack' \in {stack, 0} /\ session' = session
          /\ open' \subseteq open \cup {opened'}
      BY <1>2, <2>8, BoundsAssumption DEF Mcp!BeginConnect, Opened
    <3>2. \A d \in McpCall : call'[d].on \in 0..opened'
      BY <2>1, <2>2, <3>1
    <3>3. /\ \A i \in 0..opened : i \in 0..opened' /\ 0 \in 0..opened'
          /\ \A i \in 1..opened : i \in 1..opened'
          /\ opened' \in 1..opened'
      BY <2>2, <3>1
    <3> QED BY <1>2, <3>1, <3>2, <3>3 DEF Opened
  <2>9. CASE Mcp!Connected(c)
    <3>1. /\ call[c].on \in 0..opened' /\ stack' = call[c].on /\ session' = call[c].on
          /\ Mcp!Goto(c, "retrying", call[c].on)
          /\ open' \subseteq open /\ opened' = opened
      BY <1>2, <2>9 DEF Mcp!Connected, Opened
    <3> QED BY <1>2, <2>1, <2>2, <3>1 DEF Opened
  <2>10. CASE Mcp!ConnectFails(c)
    <3>1. /\ Mcp!Answer(c, "error") /\ open' \subseteq open
          /\ UNCHANGED <<session, stack, opened>>
      BY <2>10 DEF Mcp!ConnectFails
    <3> QED BY <1>2, <2>3, <3>1 DEF Opened
  <2> QED BY <2>4, <2>5, <2>6, <2>7, <2>8, <2>9, <2>10, <1>2
<1>3. ASSUME McpInv, Opened, Mcp!McpNext PROVE Opened'
  BY <1>2, <1>3 DEF Mcp!McpNext
<1>4. Opened /\ UNCHANGED Mcp!mcpVars => Opened'
  BY DEF Opened, Mcp!mcpVars
<1>5. McpInv /\ Opened => Mcp!McpTypeOK
  BY DEF McpInv, Opened, Mcp!McpTypeOK
<1> QED BY <1>1, <1>3, <1>4, <1>5, McpMoves

Launched == browser \in [Browser!Server -> {"launching", "open", "failed", "gone"}]

LEMMA BrowserIsTyped ==
  /\ ServicesInit => Launched
  /\ BrowserInv /\ Launched /\ [ServicesNext]_servicesVars => Launched'
  /\ BrowserInv /\ Launched => Browser!BrowserTypeOK
<1>1. ServicesInit => Launched
  BY DEF ServicesInit, Browser!Init, Launched
<1>2. ASSUME Launched, NEW c \in BrowserCall, Browser!Client(c) PROVE Launched'
  <2>1. UNCHANGED browser
    BY <1>2 DEF Browser!Client, Browser!Execute, Browser!RefuseParameters, Browser!Probe,
      Browser!SpawnServer, Browser!WaitForReady, Browser!NotReady, Browser!PostRpc,
      Browser!Receive, Browser!ConnectionLost, Browser!GivesUp
  <2> QED BY <1>2, <2>1 DEF Launched
<1>3. ASSUME Launched, NEW s \in Browser!Server, Browser!Process(s) PROVE Launched'
  <2>1. CASE Browser!Launch(s) \/ Browser!BrowserCrash(s) \/ Browser!ServerEnds(s)
    BY <1>3, <2>1 DEF Launched, Browser!Launch, Browser!BrowserCrash, Browser!ServerEnds
  <2>2. CASE Browser!BindAndPublish(s) \/ Browser!Work(s) \/ Browser!LaunchError(s)
    <3>1. UNCHANGED browser
      BY <2>2 DEF Browser!BindAndPublish, Browser!Work, Browser!LaunchError, Browser!Reply
    <3> QED BY <1>3, <3>1 DEF Launched
  <2> QED BY <1>3, <2>1, <2>2 DEF Browser!Process
<1>4. Launched /\ UNCHANGED Browser!browserVars => Launched'
  BY DEF Launched, Browser!browserVars
<1>5. ASSUME BrowserInv, Launched PROVE Browser!BrowserTypeOK
  <2>1. BrowserTypes
    BY <1>5 DEF BrowserInv
  <2>2. ASSUME NEW c \in BrowserCall PROVE client[c].op \in {a.op : a \in Browser!OpArgs}
    <3>1. client[c].op \in Ops
      BY <2>1 DEF BrowserTypes, Client
    <3>2. \A o \in {"list_tabs", "new_tab"} : [op |-> o, tab |-> "none"] \in Browser!OpArgs
      BY DEF Browser!OpArgs
    <3>3. \A o \in {"close_tab", "operate"} : [op |-> o, tab |-> c] \in Browser!OpArgs
      BY DEF Browser!OpArgs
    <3>4. \A o \in Ops : \E a \in Browser!OpArgs : a.op = o
      <4>1. \A o \in {"list_tabs", "new_tab"} : [op |-> o, tab |-> "none"].op = o
        OBVIOUS
      <4>2. \A o \in {"close_tab", "operate"} : [op |-> o, tab |-> c].op = o
        OBVIOUS
      <4>3. \A o \in {"list_tabs", "new_tab"} : \E a \in Browser!OpArgs : a.op = o
        BY <3>2, <4>1
      <4>4. \A o \in {"close_tab", "operate"} : \E a \in Browser!OpArgs : a.op = o
        BY <3>3, <4>2
      <4> QED BY <4>3, <4>4 DEF Ops
    <3> QED BY <3>1, <3>4
  <2>3. \A c \in BrowserCall :
          /\ client[c].on \in {0} \cup Browser!Server
          /\ client[c].pc \in {"new", "probing", "spawning", "polling", "posting", "waiting",
                               "replied", "done"}
    BY <2>1 DEF BrowserTypes, Client, Early
  <2>4. \A c \in BrowserCall : told[c].what \in {"nothing", "ok", "failed", "not_sent", "unclear"}
    BY <2>1 DEF BrowserTypes, Told
  <2> QED BY <1>5, <2>1, <2>2, <2>3, <2>4 DEF BrowserTypes, Launched, Browser!BrowserTypeOK
<1> QED BY <1>1, <1>2, <1>3, <1>4, <1>5, BrowserMoves DEF Browser!BrowserNext

\* The ids and the writes a run hands out are counted.
Counted == lastId \in 0..NodeMax /\ links \in 0..Writes /\ raced \in BOOLEAN

LEMMA GraphIsTyped ==
  /\ ServicesInit => Counted
  /\ GraphInv /\ Counted /\ [ServicesNext]_servicesVars => Counted'
  /\ GraphInv /\ Counted => Graph!GraphTypeOK
<1>1. ServicesInit => Counted
  <2>1. 0 \in 0..NodeMax /\ 0 \in 0..Writes
    BY NodeMaxAssumption, BoundsAssumption
  <2> QED BY <2>1 DEF ServicesInit, Graph!GraphInit, Counted
<1>2. \A row : Counted /\ Graph!InsertNode(row) => lastId' \in 0..NodeMax
  BY NodeMaxAssumption DEF Counted, Graph!InsertNode, Graph!NextId
<1>3. ASSUME Counted, NEW p, NEW j, Graph!Begin(p, j) PROVE Counted'
  BY <1>3, BoundsAssumption DEF Counted, Graph!Begin
<1>4. Counted /\ Graph!Edit => links' \in 0..Writes /\ raced' \in BOOLEAN
  BY BoundsAssumption DEF Counted, Graph!Edit
<1>5. ASSUME Counted, NEW p \in Graph!Writer, Graph!Statement(p) PROVE Counted'
  <2>1. CASE Graph!IngestMiss(p)
    BY <1>2, <1>5, <2>1 DEF Graph!IngestMiss, Counted
  <2>2. CASE Graph!Upsert(p)
    BY <1>2, <1>5, <2>2 DEF Graph!Upsert, Counted
  <2>3. CASE Graph!InsertEdge(p)
    BY <1>5, <2>3 DEF Graph!InsertEdge, Counted
  <2>4. CASE \/ Graph!IngestHit(p) \/ Graph!SelectItem(p) \/ Graph!Mark(p) \/ Graph!Resolve(p)
             \/ Graph!Walk(p) \/ \E c \in Category : Graph!Classified(p, c)
    <3>1. UNCHANGED <<lastId, links, raced>>
      BY <2>4 DEF Graph!IngestHit, Graph!SelectItem, Graph!Mark, Graph!Resolve, Graph!Walk,
        Graph!Classified
    <3> QED BY <1>5, <3>1 DEF Counted
  <2> QED BY <1>5, <2>1, <2>2, <2>3, <2>4 DEF Graph!Statement
<1>6. ASSUME Counted, Graph!GraphNext PROVE Counted'
  <2>1. CASE \E n \in Name : Graph!AutoIngest(n)
    BY <1>3, <1>6, <2>1 DEF Graph!AutoIngest
  <2>2. CASE \E kind \in {"remember", "extraction"}, x \in Extraction : Graph!Distil(kind, x)
    BY <1>3, <1>6, <2>2 DEF Graph!Distil
  <2>3. CASE \E i, s, t \in DOMAIN nodes : Graph!ClassifyAndLinkPending(i, s, t)
    BY <1>3, <1>6, <2>3 DEF Graph!ClassifyAndLinkPending
  <2>4. CASE \E a, b \in Name : a # b /\ Graph!CreateEdge(a, b)
    BY <1>3, <1>6, <2>4 DEF Graph!CreateEdge
  <2>5. CASE \E n \in Name, c \in Category : Graph!CreateNode(n, c)
    <3>1. lastId' \in 0..NodeMax /\ Graph!Edit
      BY <1>2, <1>6, <2>5 DEF Graph!CreateNode
    <3> QED BY <1>4, <1>6, <3>1 DEF Counted
  <2>6. CASE \/ \E i \in DOMAIN nodes : Graph!DeleteNode(i)
             \/ \E p \in Graph!Writer, n \in Name, c \in Category : Graph!UpdateNodeCategory(p, n, c)
    <3>1. lastId' = lastId /\ Graph!Edit
      BY <2>6 DEF Graph!DeleteNode, Graph!UpdateNodeCategory
    <3> QED BY <1>4, <1>6, <3>1 DEF Counted
  <2> QED BY <1>5, <1>6, <2>1, <2>2, <2>3, <2>4, <2>5, <2>6 DEF Graph!GraphNext
<1>7. Counted /\ UNCHANGED Graph!graphVars => Counted'
  BY DEF Counted, Graph!graphVars
<1>8. ASSUME GraphInv, Counted PROVE Graph!GraphTypeOK
  <2>1. \A i \in DOMAIN nodes : i \in 1..lastId /\ nodes[i] \in Graph!Row
    BY <1>8 DEF GraphInv, Table
  <2>2. ASSUME NEW e \in edges PROVE e \subseteq 1..lastId
    BY <1>8, <2>1 DEF GraphInv
  <2>3. DOMAIN job = Graph!Writer
    BY <1>8 DEF GraphInv
  <2> QED BY <1>8, <2>1, <2>2, <2>3 DEF Counted, Graph!GraphTypeOK
<1> QED BY <1>1, <1>6, <1>7, <1>8, GraphMoves

\* An instance on its way up, and what it is started with.
Instance ==
  /\ settings \in {"absent", "ours", "edited", "torn"}
  /\ docker \in {"missing", "down", "alive"}
  /\ container \in {"none", "booting", "serving"} /\ mounted \in BOOLEAN
  /\ starter \in {"unbuilt", "unreachable", "checked", "waiting", "built", "failed"}

LEMMA SearchIsTyped ==
  /\ ServicesInit => Instance
  /\ Instance /\ [ServicesNext]_servicesVars => Instance'
  /\ SearchInv /\ Instance => Search!SearchTypeOK
<1>1. ServicesInit => Instance
  BY DEF ServicesInit, Search!SearchInit, Instance
<1>2. ASSUME Instance, Search!SearchNext PROVE Instance'
  <2> USE <1>2 DEF Instance
  <2>1. CASE \/ Search!NothingToStart \/ Search!ProbeFails \/ Search!NoDocker
             \/ Search!AlreadyBooting \/ Search!DockerRunFails \/ Search!WaitEnds
    BY <2>1 DEF Search!NothingToStart, Search!ProbeFails, Search!NoDocker,
      Search!AlreadyBooting, Search!DockerRunFails, Search!WaitEnds
  <2>2. CASE Search!PrepareSettings \/ Search!SettingsFail
    BY <2>2 DEF Search!PrepareSettings, Search!SettingsFail, Search!SettingsWritten
  <2>3. CASE Search!DockerRuns
    <3>1. mounted' \in BOOLEAN
      BY <2>3 DEF Search!DockerRuns
    <3> QED BY <2>3, <3>1 DEF Search!DockerRuns
  <2>4. CASE Search!Execute \/ Search!FetchPage \/ Search!FetchFails
    BY <2>4 DEF Search!Execute, Search!FetchPage, Search!FetchFails
  <2>5. CASE Search!Restarted
    BY <2>5 DEF Search!Restarted
  <2>6. CASE \/ Search!Serves \/ Search!ContainerEnds \/ Search!OperatorRuns
             \/ Search!OperatorEdits \/ Search!DaemonChanges
    BY <2>6 DEF Search!Serves, Search!ContainerEnds, Search!OperatorRuns,
      Search!OperatorEdits, Search!DaemonChanges
  <2> QED BY <2>1, <2>2, <2>3, <2>4, <2>5, <2>6 DEF Search!SearchNext
<1>3. Instance /\ UNCHANGED Search!searchVars => Instance'
  BY DEF Instance, Search!searchVars
<1>4. ASSUME SearchInv, Instance PROVE Search!SearchTypeOK
  <2>1. /\ search.at \in {"rest", "paging", "answered", "error"} /\ search.want \in Nat
        /\ search.out \in Seq(Search!Result) /\ Len(search.out) <= search.want
    BY <1>4 DEF SearchInv
  <2>2. Len(fetched) <= MaxPages /\ \A i \in 1..Len(fetched) : fetched[i] \in Search!Page
    BY <1>4 DEF SearchInv
  <2> QED BY <1>4, <2>1, <2>2 DEF Instance, Search!SearchTypeOK
<1> QED BY <1>1, <1>2, <1>3, <1>4, SearchMoves

\* The tools' state keeps its types: no call names a transport, a tab, a node or a
\* search instance that is not there (connection.py, tool.py, gm, lifecycle.py).
THEOREM ToolTypesAreKept ==
  ServicesSpec => [](/\ Mcp!McpTypeOK /\ Browser!BrowserTypeOK
                     /\ Graph!GraphTypeOK /\ Search!SearchTypeOK)
<1>1. ServicesSpec => []Mcp!McpTypeOK
  BY McpStays, McpIsTyped, PTL DEF ServicesSpec
<1>2. ServicesSpec => []Browser!BrowserTypeOK
  BY BrowserStays, BrowserIsTyped, PTL DEF ServicesSpec
<1>3. ServicesSpec => []Graph!GraphTypeOK
  BY GraphStays, GraphIsTyped, PTL DEF ServicesSpec
<1>4. ServicesSpec => []Search!SearchTypeOK
  BY SearchStays, SearchIsTyped, PTL DEF ServicesSpec
<1> QED BY <1>1, <1>2, <1>3, <1>4, PTL

=============================================================================
