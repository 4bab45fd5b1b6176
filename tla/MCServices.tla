------------------------------ MODULE MCServices ------------------------------
(***************************************************************************)
(* The components around the heartbeat, side by side: the stimulus buffer, *)
(* and every part that shares no state with the others and is checked by   *)
(* itself.  A behaviour is one component's; the rest keeps still in one of *)
(* its initial states.                                                     *)
(***************************************************************************)
EXTENDS StimulusBuffer, Functions

CONSTANTS
  Text, Krakey, Tab, Sends, Loads,
  Order, Bundle, Manager, Builds, Reloads, Absent,
  BrowserCall, Servers,
  McpCall, Reconnect, Transports,
  Name, Category, Extraction, NodeMax, Writes,
  Url, NoUrl, Wants, Cap, Default, MaxPages, PageSize,
  Length,
  Launches, Terminal, Nobody,
  ShellCommand, AllowList, Starts,
  Short, Plugged,
  Unit, EngineUnit, PipSpec, Installer, NoRecord, Edits,
  Tokens, Retries, RetryOn,
  KeepLast, Editions, Seconds

\* max_retries is a number; a negative one still leaves the first attempt.
ASSUME RetriesAssumption == Retries \subseteq Int

\* The plugins are listed in the order of their names, each once; a manifest is a
\* list of components.
ASSUME BundleAssumption ==
  /\ Order \in Seq(Range(Order)) /\ Absent \notin Range(Order)
  /\ \A i, j \in DOMAIN Order : Order[i] = Order[j] => i = j
  /\ \A p \in Range(Order) : Bundle[p] \in Seq(Range(Bundle[p]))

\* What a run counts is counted: someone wrote the first config.yaml, discovery
\* opens a transport, and backups are kept.
ASSUME BoundsAssumption ==
  /\ {Builds, Reloads, Servers, Writes, Starts, Edits, Seconds} \subseteq Nat
  /\ {Transports, Editions, KeepLast} \subseteq Nat \ {0}

\* The ids a run hands out are counted.
ASSUME NodeMaxAssumption == NodeMax \in Nat

\* A count of results, asked for or configured, is positive.
ASSUME WantsAssumption ==
  /\ Wants \subseteq Nat \ {0} /\ Cap \in Nat \ {0} /\ Default \in Nat \ {0}
  /\ MaxPages \in Nat \ {0}

\* A class goes by the name it is asked for, so no two share one.
ASSUME NamesAreDistinct ==
  /\ Short \cap (Plugged \cup {"module:Class", "misspelt", "", "fallback", "none"}) = {}
  /\ Plugged \cap {"module:Class", "misspelt", "", "fallback", "none"} = {}

\* A process builds the chat's history when it starts; the sends are counted, and the
\* replies are not the user's.
ASSUME ChatAssumption == Loads \in Nat \ {0} /\ Sends \in Nat /\ Krakey \notin Text

\* The categories a text may be given, the ones the schema refuses included.
Label == Category \cup UNION {{i.category : i \in Range(x.items)} : x \in Extraction}

\* The extractor's answer is read as lists of named items and of pairs of names.
ASSUME ExtractionAssumption ==
  \A x \in Extraction :
    /\ x.items \in Seq([name : Name, category : Label])
    /\ x.links \in Seq(Name \X Name)

\* The category an ingested text starts with is one of the schema's.
ASSUME FactIsACategory == "FACT" \in Category

\* The absent process id is no pid.
ASSUME NobodyIsNoProcess == Nobody \notin 1..Launches

VARIABLES
  component,   \* the one whose behaviour this is
  disk, cache, subscribed, live, serves, online, inbound, op, receipts, attempt, offered,
  pushed, clobbered,
  configured, saved, registry, channels, running, started, strays, built, components, loaded,
  request, asked,
  info, server, browser, jobs, tabs, client, envelope, told, ran,
  session, stack, open, opened, call, executed, answer,
  nodes, lastId, edges, job, raced, links,
  settings, docker, container, mounted, starter, search, fetched,
  engine, text, reply, decided,
  pidfile, pausefile, process, startPaused, paused, stopping, predecessor, cli, wanted, crossed,
  section, token, guest, phase, starts, registered, envStatus, exec, child, heirs, said,
  site, resolution,
  declares, readable, present, stepped, record, installer, edits,
  tag, cached, wire, llmRequest,
  central, form, written, backups, replaced, second, alive, boot, held, overtaken, model

Chat == INSTANCE WebChat WITH Attempts <- Sends
Reload == INSTANCE PluginReload WITH Manifest <- Bundle
Browser == INSTANCE BrowserServer
Mcp == INSTANCE McpConnection WITH Call <- McpCall
Graph == INSTANCE GraphWrites WITH asked <- links, Jobs <- Writes
Search == INSTANCE WebSearch
Decision == INSTANCE DecisionParsing
Life == INSTANCE ProcessLifecycle
Env == INSTANCE Environments WITH Command <- ShellCommand
Engine == INSTANCE EngineResolution
Install == INSTANCE InstallState
Llm == INSTANCE LlmCalls WITH request <- llmRequest
First == INSTANCE FirstBoot WITH edits <- written, raced <- overtaken

\* Two stimuli of each urgency.
MCStimulus == [id : 1..2, adrenalin : BOOLEAN]

\* A channel that hosts a tool, and a channel with a prompt modifier.
MCOrder == <<"chat", "telegram">>
MCBundle ==
  [p \in {"chat", "telegram"} |->
     IF p = "chat"
     THEN <<[kind |-> "channel", name |-> "web_chat"], [kind |-> "tool", name |-> "reply"]>>
     ELSE <<[kind |-> "modifier", name |-> "hint"], [kind |-> "channel", name |-> "telegram"]>>]

\* Extractions whose links, one after the other, could close a cycle.
Named(name, category) == [name |-> name, category |-> category]
MCExtraction ==
  {[items |-> <<Named("x", "FACT"), Named("y", "FACT"), Named("z", "FACT")>>,
    links |-> <<<<"x", "y">>>>],
   [items |-> <<Named("x", "odd"), Named("y", "FOCUS")>>,
    links |-> <<<<"y", "z">>, <<"x", "y">>>>],
   [items |-> <<>>, links |-> <<<<"x", "z">>>>]}

\* What plugin and engine declare before an update edits it: nothing, or a
\* shared package and steps that may and may not fail.
Declared(pip, post) == [pip |-> pip, post |-> post]
MCDeclared ==
  [Unit -> {Declared({}, "none")}]
  \cup {[u \in Unit |-> IF u \in EngineUnit THEN Declared(PipSpec, "optional")
                        ELSE Declared(PipSpec, "required")],
        [u \in Unit |-> IF u \in EngineUnit THEN Declared(PipSpec, "required")
                        ELSE Declared({}, "none")]}

-----------------------------------------------------------------------------
(* One component moves *)

Components == {"buffer", "chat", "reload", "browser", "mcp", "graph", "search",
               "decision", "life", "env", "engine", "install", "llm", "first"}

\* What a component that is not the one under study starts from.
Pinned ==
  /\ IF component = "reload" THEN TRUE ELSE configured = {}
  /\ IF component = "search" THEN TRUE ELSE docker = "missing"
  /\ IF component = "decision" THEN TRUE ELSE engine = "tool_call_parser" /\ text = <<>>
  /\ IF component = "env" THEN TRUE ELSE section = "absent"
  /\ IF component = "engine" THEN TRUE
     ELSE site = [file |-> "missing", entries |-> <<>>, override |-> "",
                  table |-> TRUE, home |-> TRUE, conforms |-> TRUE]
  /\ IF component = "install" THEN declares \in MCDeclared
     ELSE readable = TRUE /\ declares = [u \in Unit |-> [pip |-> {}, post |-> "none"]]
  /\ IF component = "llm" THEN TRUE
     ELSE /\ tag = [defined |-> FALSE, provider |-> "anthropic", maxOutput |-> Llm!Unset,
                    mode |-> "off", budget |-> Llm!Unset, retries |-> 0, extraBody |-> FALSE]
          /\ llmRequest = Llm!Asked("chat")

ServicesInit ==
  /\ component \in Components /\ Pinned
  /\ Init /\ Chat!Init /\ Reload!Init /\ Browser!Init /\ Mcp!Init /\ Graph!GraphInit
  /\ Search!SearchInit /\ Decision!Init /\ Life!Init /\ Env!Init /\ Engine!Init
  /\ Install!InstallInit /\ Llm!LlmInit /\ First!BootInit

Moves(c) == component = c

OthersStill ==
  /\ UNCHANGED component
  /\ IF Moves("buffer") THEN TRUE ELSE UNCHANGED bufferVars
  /\ IF Moves("chat") THEN TRUE
     ELSE UNCHANGED <<disk, cache, subscribed, live, serves, online, inbound, op,
                      receipts, attempt, offered, pushed, clobbered>>
  /\ IF Moves("reload") THEN TRUE
     ELSE UNCHANGED <<configured, saved, registry, channels, running,
                      started, strays, built, components, loaded, request, asked>>
  /\ IF Moves("browser") THEN TRUE
     ELSE UNCHANGED <<info, server, browser, jobs, tabs, client, envelope,
                      told, ran>>
  /\ IF Moves("mcp") THEN TRUE
     ELSE UNCHANGED <<session, stack, open, opened, call, executed, answer>>
  /\ IF Moves("graph") THEN TRUE
     ELSE UNCHANGED <<nodes, lastId, edges, job, raced, links>>
  /\ IF Moves("search") THEN TRUE
     ELSE UNCHANGED <<settings, docker, container, mounted, starter, search,
                      fetched>>
  /\ IF Moves("decision") THEN TRUE
     ELSE UNCHANGED <<engine, text, reply, decided>>
  /\ IF Moves("life") THEN TRUE
     ELSE UNCHANGED <<pidfile, pausefile, process, startPaused, paused,
                      stopping, predecessor, cli, wanted, crossed>>
  /\ IF Moves("env") THEN TRUE
     ELSE UNCHANGED <<section, token, guest, phase, starts, registered,
                      envStatus, exec, child, heirs, said>>
  /\ IF Moves("engine") THEN TRUE
     ELSE UNCHANGED <<site, resolution>>
  /\ IF Moves("install") THEN TRUE
     ELSE UNCHANGED <<declares, readable, present, stepped, record,
                      installer, edits>>
  /\ IF Moves("llm") THEN TRUE
     ELSE UNCHANGED <<tag, cached, wire, llmRequest>>
  /\ IF Moves("first") THEN TRUE
     ELSE UNCHANGED <<central, form, written, backups, replaced, second, alive,
                      boot, held, overtaken, model>>

BufferStep == Moves("buffer") /\ Next /\ OthersStill
ChatStep == Moves("chat") /\ Chat!ChatNext /\ OthersStill
ReloadStep == Moves("reload") /\ Reload!ReloadNext /\ OthersStill
BrowserStep == Moves("browser") /\ Browser!BrowserNext /\ OthersStill
McpStep == Moves("mcp") /\ Mcp!McpNext /\ OthersStill
GraphStep == Moves("graph") /\ Graph!GraphNext /\ OthersStill
SearchStep == Moves("search") /\ Search!SearchNext /\ OthersStill
DecisionStep == Moves("decision") /\ Decision!Translate /\ OthersStill
LifeStep == Moves("life") /\ Life!LifeNext /\ OthersStill
EnvStep == Moves("env") /\ Env!EnvNext /\ OthersStill
EngineStep == Moves("engine") /\ Engine!ResolveSlot /\ OthersStill
InstallStep == Moves("install") /\ Install!InstallNext /\ OthersStill
LlmStep == Moves("llm") /\ Llm!LlmNext /\ OthersStill
FirstStep == Moves("first") /\ First!BootNext /\ OthersStill

ServicesNext ==
  \/ BufferStep \/ ChatStep \/ ReloadStep \/ BrowserStep \/ McpStep \/ GraphStep
  \/ SearchStep \/ DecisionStep \/ LifeStep \/ EnvStep \/ EngineStep \/ InstallStep
  \/ LlmStep \/ FirstStep

servicesVars ==
  <<component, bufferVars, Chat!chatVars, Reload!reloadVars, Browser!browserVars,
    Mcp!mcpVars, Graph!graphVars, Search!searchVars, Decision!decisionVars,
    Life!lifeVars, Env!envVars, Engine!resolutionVars, Install!installVars,
    Llm!llmVars, First!bootVars>>

ServicesSpec == ServicesInit /\ [][ServicesNext]_servicesVars /\ Life!LifeFairness

-----------------------------------------------------------------------------
(* Properties: the components' own *)

\* Every variable keeps its type, whichever component moves.
ServicesTypeOK ==
  /\ TypeOK /\ Chat!ChatTypeOK /\ Reload!ReloadTypeOK /\ Browser!BrowserTypeOK
  /\ Mcp!McpTypeOK /\ Graph!GraphTypeOK /\ Search!SearchTypeOK /\ Decision!DecisionTypeOK
  /\ Life!LifeTypeOK /\ Env!EnvTypeOK /\ Engine!ResolutionTypeOK
  /\ Install!InstallTypeOK /\ Llm!LlmTypeOK /\ First!BootTypeOK

FileIsCache == Chat!FileIsCache
WholeAtRest == Reload!WholeAtRest
AnswersAreTrue == Browser!AnswersAreTrue
AtMostOneRetry == Mcp!AtMostOneRetry
AcyclicUnlessRaced == Graph!AcyclicUnlessRaced
EdgesJoinTheLinked == Graph!EdgesJoinTheLinked
SearchIsExhaustive == Search!SearchIsExhaustive
NoCallLostSilently == Decision!NoCallLostSilently
LaunchIsClean == Life!LaunchIsClean
TimedPauseEnds == Life!TimedPauseEnds
RetryIsInformed == Env!RetryIsInformed
DamageDegrades == Engine!DamageDegrades
NothingPendingIsMissing == Install!NothingPendingIsMissing
RepeatsOnlyTransient == Llm!RepeatsOnlyTransient
LossesAreRevertible == First!LossesAreRevertible
=============================================================================
