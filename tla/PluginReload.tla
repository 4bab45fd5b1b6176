---------------------------- MODULE PluginReload ----------------------------
(***************************************************************************)
(* Plugins in a running process: runtime/plugin_register/loader.py, which  *)
(* registers and unregisters their components, the hot_reload_plugins of   *)
(* runtime.py, which the dashboard calls on Apply, and the channel half of *)
(* runtime/stimuli/stimulus_buffer.py, which owns and starts channels.     *)
(*                                                                         *)
(* A reload is a list of jobs: plugins that dropped out, plugins to load   *)
(* again, new ones.  It suspends where it awaits a channel's stop or start *)
(* and runs on the dashboard's thread, so each component is one step.      *)
(***************************************************************************)
EXTENDS Naturals, Sequences, Functions

CONSTANTS
  Order,       \* the plugins, in the order in which their names sort
  Manifest,    \* the components of each: a sequence of [kind, name]
  Manager,     \* the requests that may reload at the same time
  Builds,      \* bound: how many channel instances are built
  Reloads,     \* bound: how often a reload is asked for
  Absent       \* no plugin

Plugin == Range(Order)

VARIABLES
  configured,  \* config.plugins, as parsed when the process started
  saved,       \* the plugins list in config.yaml
  registry,    \* tools and modifiers: the plugin each name was registered by
  channels,    \* _channels: the instance under each name, 0 if none
  running,     \* _running: the channel names marked as started
  started,     \* the instances whose background work is alive
  strays,      \* history: the instances a raising stop or start left at work
  built,       \* how many channel instances have been built
  components,  \* plugin_components: what each plugin is recorded to own
  loaded,      \* loaded_plugin_names
  request,     \* the reload each manager is performing
  asked        \* how many reloads have been asked for

owned == <<registry, channels, running, started, strays, built, components, loaded>>
reloadVars == <<configured, saved, owned, request, asked>>

Named(isChannel) == {c.name : c \in
  {d \in UNION {Range(Manifest[p]) : p \in Plugin} : isChannel <=> d.kind = "channel"}}

Idle == [pc |-> "idle", failed |-> FALSE, wanted |-> {}, jobs |-> <<>>, left |-> <<>>,
         instance |-> 0, ok |-> FALSE, made |-> <<>>]

\* The process starts with nothing registered; loading what is configured
\* and starting its channels is the first reload.
Init ==
  /\ configured \in SUBSET Plugin /\ saved = configured
  /\ registry = [n \in Named(FALSE) |-> Absent]
  /\ channels = [n \in Named(TRUE) |-> 0]
  /\ running = {} /\ started = {} /\ strays = {} /\ built = 0
  /\ components = [p \in Plugin |-> <<>>] /\ loaded = {}
  /\ request = [m \in Manager |-> Idle] /\ asked = 0

-----------------------------------------------------------------------------
(* Asking for a reload, and its jobs. *)

\* The elements of s that are in S, in their order.
Only(s, S) ==
  LET upTo[k \in 0..Len(s)] ==
        IF k = 0 THEN <<>>
        ELSE IF s[k] \in S THEN Append(upTo[k - 1], s[k]) ELSE upTo[k - 1]
  IN upTo[Len(s)]

InOrder(plugins) == Only(Order, plugins)
Jobs(plugins, remove, add) ==
  LET ps == InOrder(plugins)
  IN [k \in DOMAIN ps |-> [plugin |-> ps[k], remove |-> remove, add |-> add]]

\* The settings page writes config.yaml and nothing else.
Save(plugins) ==
  /\ saved' = plugins /\ saved # plugins /\ asked > 0
  /\ UNCHANGED <<configured, owned, request, asked>>

Ask(m) ==
  /\ request[m] = Idle /\ asked < Reloads
  /\ asked' = asked + 1
  /\ request' = [request EXCEPT ![m] =
       [Idle EXCEPT !.pc = "next", !.wanted = saved,
                    !.jobs = Jobs(loaded \ configured, TRUE, FALSE)
                               \o Jobs(configured \cap loaded, TRUE, TRUE)
                               \o Jobs(configured \ loaded, FALSE, TRUE)]]
  /\ UNCHANGED <<configured, saved, owned>>

At(m, pc) == request[m].pc = pc

\* m goes on at pc with the components left.
Goto(m, pc, left) ==
  /\ request' = [request EXCEPT ![m].pc = pc, ![m].left = left]
  /\ UNCHANGED <<configured, saved, asked>>

\* A step of m that does not succeed is reported and passed over.
GiveUpOn(m, pc, left) ==
  /\ request' = [request EXCEPT ![m].pc = pc, ![m].left = left, ![m].failed = TRUE]
  /\ UNCHANGED <<configured, saved, asked>>

Current(m) == Head(request[m].jobs)
Component(m) == Head(request[m].left)
Rest(m) == Tail(request[m].left)

TakeJob(m) ==
  /\ At(m, "next") /\ UNCHANGED owned
  /\ IF request[m].jobs = <<>>
     THEN /\ request' = [request EXCEPT ![m] = Idle]
          /\ UNCHANGED <<configured, saved, asked>>
     ELSE LET p == Current(m).plugin
          IN IF Current(m).remove THEN Goto(m, "unregister", components[p])
                                  ELSE Goto(m, "register", Manifest[p])

JobDone(m) ==
  /\ request' = [request EXCEPT ![m].pc = "next", ![m].jobs = Tail(@),
                               ![m].ok = FALSE, ![m].made = <<>>]
  /\ UNCHANGED <<configured, saved, asked>>

-----------------------------------------------------------------------------
(* unregister_one: by recorded name, then the record itself. *)

Deregister(m) ==
  /\ At(m, "unregister") /\ request[m].left # <<>> /\ Component(m).kind # "channel"
  /\ registry' = [registry EXCEPT ![Component(m).name] = Absent]
  /\ Goto(m, "unregister", Rest(m))
  /\ UNCHANGED <<channels, running, started, strays, built, components, loaded>>

DeregisterChannel(m) ==
  /\ At(m, "unregister") /\ request[m].left # <<>> /\ Component(m).kind = "channel"
  /\ LET n == Component(m).name IN
     /\ channels' = [channels EXCEPT ![n] = 0]
     /\ IF channels[n] # 0 /\ n \in running
        THEN /\ request' = [request EXCEPT ![m].pc = "stopping", ![m].instance = channels[n]]
             /\ UNCHANGED <<configured, saved, asked>>
        ELSE Goto(m, "unregister", Rest(m))
  /\ UNCHANGED <<registry, running, started, strays, built, components, loaded>>

\* Mutant of Unmarked: the mark of a stopped channel stays.
MutantUnmarked(n) == running

Unmarked(n) == running \ {n}

Stopped(m) ==
  /\ At(m, "stopping")
  /\ started' = started \ {request[m].instance}
  /\ running' = Unmarked(Component(m).name)
  /\ Goto(m, "unregister", Rest(m))
  /\ UNCHANGED <<registry, channels, strays, built, components, loaded>>

\* A stop that raises is ignored and not reported, whatever it had drained by then.
StopFails(m) ==
  /\ At(m, "stopping")
  /\ \E survivors \in SUBSET {request[m].instance} :
       /\ started' = (started \ {request[m].instance}) \cup survivors
       /\ strays' = strays \cup survivors
  /\ running' = Unmarked(Component(m).name)
  /\ Goto(m, "unregister", Rest(m))
  /\ UNCHANGED <<registry, channels, built, components, loaded>>

Unregistered(m) ==
  /\ At(m, "unregister") /\ request[m].left = <<>>
  /\ LET p == Current(m).plugin IN
     /\ components' = [components EXCEPT ![p] = <<>>]
     /\ loaded' = loaded \ {p}
     /\ IF Current(m).add THEN Goto(m, "register", Manifest[p]) ELSE JobDone(m)
  /\ UNCHANGED <<registry, channels, running, started, strays, built>>

-----------------------------------------------------------------------------
(* register_one and start_one. *)

\* A missing manifest, a factory that raises or opts out.
NotBuilt(m) ==
  /\ At(m, "register") /\ request[m].left # <<>>
  /\ GiveUpOn(m, "register", Rest(m))
  /\ UNCHANGED owned

\* m's plugin has a component that was processed without error; made are the ones
\* registered for it, and m goes on with the rest.
Processed(m, made) ==
  /\ request' = [request EXCEPT ![m].left = Rest(m), ![m].ok = TRUE, ![m].made = made]
  /\ UNCHANGED <<configured, saved, asked>>

\* A factory of tools that returns an empty list, or a list whose items are all
\* refused, adds nothing and counts as processed.
EmptyList(m) ==
  /\ At(m, "register") /\ request[m].left # <<>> /\ Component(m).kind = "tool"
  /\ Processed(m, request[m].made)
  /\ UNCHANGED owned

\* Tools replace one another; a second modifier of a role is refused.
Register(m) ==
  LET c == Component(m) p == Current(m).plugin IN
  /\ At(m, "register") /\ request[m].left # <<>> /\ c.kind # "channel"
  /\ c.kind = "modifier" => registry[c.name] = Absent
  /\ registry' = [registry EXCEPT ![c.name] = p]
  /\ components' = [components EXCEPT ![p] = Append(@, c)]
  /\ Processed(m, Append(request[m].made, c))
  /\ UNCHANGED <<channels, running, started, strays, built, loaded>>

RegisterChannel(m) ==
  LET c == Component(m) p == Current(m).plugin IN
  /\ At(m, "register") /\ request[m].left # <<>> /\ c.kind = "channel"
  /\ built < Builds /\ built' = built + 1
  /\ channels[c.name] = 0
  /\ channels' = [channels EXCEPT ![c.name] = built']
  /\ components' = [components EXCEPT ![p] = Append(@, c)]
  /\ Processed(m, Append(request[m].made, c))
  /\ UNCHANGED <<registry, running, started, strays, loaded>>

\* A plugin counts as loaded once one of its components was processed; the
\* channels registered for it are started next.
Registered(m) ==
  LET made == request[m].made IN
  /\ At(m, "register") /\ request[m].left = <<>>
  /\ loaded' = IF request[m].ok THEN loaded \cup {Current(m).plugin} ELSE loaded
  /\ Goto(m, "start", Only(made, {c \in Range(made) : c.kind = "channel"}))
  /\ UNCHANGED <<registry, channels, running, started, strays, built, components>>

StartOne(m) ==
  /\ At(m, "start") /\ request[m].left # <<>> /\ UNCHANGED owned
  /\ LET n == Component(m).name IN
     IF channels[n] = 0 THEN GiveUpOn(m, "start", Rest(m))
     ELSE IF n \in running THEN Goto(m, "start", Rest(m))
     ELSE /\ request' = [request EXCEPT ![m].pc = "starting", ![m].instance = channels[n]]
          /\ UNCHANGED <<configured, saved, asked>>

Started(m) ==
  /\ At(m, "starting")
  /\ started' = started \cup {request[m].instance}
  /\ running' = running \cup {Component(m).name}
  /\ Goto(m, "start", Rest(m))
  /\ UNCHANGED <<registry, channels, strays, built, components, loaded>>

\* A start that raises may have begun its work by then; the channel is not marked.
StartFails(m) ==
  /\ At(m, "starting") /\ GiveUpOn(m, "start", Rest(m))
  /\ \E begun \in SUBSET {request[m].instance} :
       started' = started \cup begun /\ strays' = strays \cup begun
  /\ UNCHANGED <<registry, channels, running, built, components, loaded>>

PluginDone(m) ==
  /\ At(m, "start") /\ request[m].left = <<>>
  /\ JobDone(m) /\ UNCHANGED owned

Reloading(m) ==
  \/ Ask(m) \/ TakeJob(m)
  \/ Deregister(m) \/ DeregisterChannel(m) \/ Stopped(m) \/ StopFails(m)
  \/ Unregistered(m) \/ NotBuilt(m) \/ EmptyList(m) \/ Register(m) \/ RegisterChannel(m) \/ Registered(m)
  \/ StartOne(m) \/ Started(m) \/ StartFails(m) \/ PluginDone(m)

ReloadNext ==
  \/ \E plugins \in SUBSET Plugin : Save(plugins)
  \/ \E m \in Manager : Reloading(m)

ReloadSpec == Init /\ [][ReloadNext]_reloadVars

-----------------------------------------------------------------------------
(* Properties *)

ReloadTypeOK ==
  /\ configured \subseteq Plugin /\ saved \subseteq Plugin /\ loaded \subseteq Plugin
  /\ registry \in [Named(FALSE) -> Plugin \cup {Absent}]
  /\ channels \in [Named(TRUE) -> 0..built] /\ running \subseteq Named(TRUE)
  /\ started \subseteq 1..built /\ strays \subseteq 1..built /\ built <= Builds /\ asked <= Reloads
  /\ \A p \in Plugin : Range(components[p]) \subseteq Range(Manifest[p])
  /\ \A m \in Manager : request[m].pc \in {"idle", "next", "unregister", "stopping",
                                           "register", "start", "starting"}

Owns(p, n) == \E c \in Range(components[p]) : c.name = n

Marked == {channels[n] : n \in running}

\* Whatever components failed to build, register, start or stop, a finished
\* reload leaves the registries, the loader's records and the channels that
\* really run in agreement: no component without a loaded plugin that can take
\* it down, no channel marked as running that is not, none that runs unmarked
\* but what a stop or a start that raised left at work.
WholeAtRest == (\A m \in Manager : request[m] = Idle) =>
  /\ \A p \in Plugin : components[p] # <<>> => p \in loaded
  /\ \A n \in DOMAIN registry : \A p \in Plugin : registry[n] = p <=> Owns(p, n)
  /\ \A n \in DOMAIN channels : channels[n] # 0 <=> \E p \in Plugin : Owns(p, n)
  /\ Marked \subseteq started /\ started \subseteq Marked \cup strays

\* Refuted: that a finished reload leaves nothing running unmarked.  "The channel's
\* stop() method must drain any background task it spawned in start()"
\* (stimulus_buffer.py, deregister), but one that raises first is passed over, and
\* a start that raises is reported with its work begun.
NothingRunsUnmarked == (\A m \in Manager : request[m] = Idle) => started \subseteq Marked

\* hot_reload "re-reads config.yaml from disk so the latest edit is what we
\* diff against": a reload none of whose steps fails leaves loaded what the
\* file listed when it was asked for.
ReloadFollowsConfig == [][\A m \in Manager :
  (request'[m] = Idle /\ request[m] # Idle /\ ~ request[m].failed)
    => loaded = request[m].wanted]_reloadVars
=============================================================================
