------------------------------- MODULE WebSearch -------------------------------
(***************************************************************************)
(* The searxng_search plugin.  Building the tool may start a local SearXNG *)
(* container: probe the port, look for docker, write settings.yml if there *)
(* is none, docker run, wait for the port.  Each search then walks result  *)
(* pages until it has what was asked for or the instance has no more.      *)
(* The container, docker and the operator's hand on settings.yml change    *)
(* under both.                                                             *)
(***************************************************************************)
EXTENDS Naturals, FiniteSets, Sequences, SequencesExt

CONSTANTS
    Url,        \* addresses of results
    NoUrl,      \* a result without one
    Wants,      \* result counts asked for
    Cap,        \* MAX_RESULTS_CAP
    Default,    \* default_max_results, as it is configured
    MaxPages,   \* MAX_PAGES
    PageSize    \* bound: results on a page

VARIABLES
    settings,    \* settings.yml: absent, ours, edited, torn (half written)
    docker,      \* missing, down, alive
    container,   \* the instance: none, booting, serving
    mounted,     \* the settings it was started with let it answer in JSON
    starter,     \* where ensure_instance_running is
    search,      \* the call in flight
    fetched      \* the pages it has read

searchVars == <<settings, docker, container, mounted, starter, search, fetched>>

Result == Url \cup {NoUrl}
Page == UNION {[1..n -> Result] : n \in 0..PageSize}
Resting == [at |-> "rest", want |-> 0, out |-> <<>>]

SearchTypeOK ==
    /\ settings \in {"absent", "ours", "edited", "torn"}
    /\ docker \in {"missing", "down", "alive"}
    /\ container \in {"none", "booting", "serving"} /\ mounted \in BOOLEAN
    /\ starter \in {"unbuilt", "unreachable", "checked", "waiting", "built", "failed"}
    /\ search.at \in {"rest", "paging", "answered", "error"}
    /\ search.want \in Nat /\ search.out \in Seq(Result) /\ Len(search.out) <= search.want
    /\ Len(fetched) <= MaxPages /\ \A i \in 1..Len(fetched) : fetched[i] \in Page

SearchInit ==
    /\ settings = "absent" /\ container = "none" /\ mounted = FALSE
    /\ docker \in {"missing", "down", "alive"}
    /\ starter = "unbuilt" /\ search = Resting /\ fetched = <<>>

-----------------------------------------------------------------------------
(* Starting an instance *)

\* auto_start off, or a probe that connects: nothing to start.
NothingToStart ==
    /\ starter = "unbuilt"
    /\ starter' = "built"
    /\ UNCHANGED <<settings, docker, container, mounted, search, fetched>>

ProbeFails ==
    /\ starter = "unbuilt" /\ container # "serving"
    /\ starter' = "unreachable"
    /\ UNCHANGED <<settings, docker, container, mounted, search, fetched>>

\* No docker, or no daemon: logged, and the tool is built all the same.
NoDocker ==
    /\ starter = "unreachable" /\ docker # "alive"
    /\ starter' = "built"
    /\ UNCHANGED <<settings, docker, container, mounted, search, fetched>>

\* A container of that name is up but its port is not: no duplicate.
AlreadyBooting ==
    /\ starter = "unreachable" /\ docker = "alive" /\ container # "none"
    /\ starter' = "waiting"
    /\ UNCHANGED <<settings, docker, container, mounted, search, fetched>>

\* ensure_settings_dir: an existing file is left alone, whatever is in it.
SettingsWritten == IF settings = "absent" THEN "ours" ELSE settings

\* Reached with a container running, too: a "docker ps" that times out names none.
PrepareSettings ==
    /\ starter = "unreachable" /\ docker = "alive"
    /\ settings' = SettingsWritten
    /\ starter' = "checked"
    /\ UNCHANGED <<docker, container, mounted, search, fetched>>

\* The settings cannot be written: the error leaves build_tool, and the plugin
\* goes without its tool until the next start.
SettingsFail ==
    /\ starter = "unreachable" /\ docker = "alive" /\ settings = "absent"
    /\ settings' \in {"absent", "torn"}
    /\ starter' = "failed"
    /\ UNCHANGED <<docker, container, mounted, search, fetched>>

DockerRuns ==
    /\ starter = "checked" /\ docker = "alive" /\ container = "none"
    /\ container' = "booting"
    /\ mounted' \in CASE settings = "ours" -> {TRUE}
                      [] settings = "torn" -> {FALSE}
                      [] OTHER -> BOOLEAN
    /\ starter' = "waiting"
    /\ UNCHANGED <<settings, docker, search, fetched>>

\* No image, a port or a name in use, sixty seconds over.
DockerRunFails ==
    /\ starter = "checked"
    /\ starter' = "built"
    /\ UNCHANGED <<settings, docker, container, mounted, search, fetched>>

\* The port answers, or the deadline passes: the tool is built either way.
WaitEnds ==
    /\ starter = "waiting"
    /\ starter' = "built"
    /\ UNCHANGED <<settings, docker, container, mounted, search, fetched>>

-----------------------------------------------------------------------------
(* A search *)

\* The checks of each argument come first; a count above the cap is cut to it,
\* the default is not.
Execute ==
    /\ starter = "built" /\ search.at \in {"rest", "answered", "error"}
    /\ \/ search' = [Resting EXCEPT !.at = "error"]
       \/ \E w \in {Default} \cup {IF w > Cap THEN Cap ELSE w : w \in Wants} :
            search' = [at |-> "paging", want |-> w, out |-> <<>>]
    /\ fetched' = <<>>
    /\ UNCHANGED <<settings, docker, container, mounted, starter>>

\* Mutant of Kept: a result without an address passes for a duplicate.
MutantKept(out, r) ==
    IF Len(out) >= search.want \/ r \in ToSet(out) THEN out ELSE Append(out, r)

\* Results whose address is new, and all that have none, up to the count.
Kept(out, r) ==
    IF Len(out) >= search.want \/ (r # NoUrl /\ r \in ToSet(out)) THEN out ELSE Append(out, r)

Extended(page) ==
    LET out[k \in 0..Len(page)] ==
          IF k = 0 THEN search.out ELSE Kept(out[k - 1], page[k])
    IN out[Len(page)]

\* paginate: enough, an empty page, nothing new on it, or the last page.
FetchPage ==
    /\ search.at = "paging" /\ container = "serving" /\ mounted
    /\ \E page \in Page :
        LET out == Extended(page)
            stops == \/ Len(out) >= search.want \/ out = search.out
                     \/ Len(fetched) + 1 = MaxPages
        IN /\ fetched' = Append(fetched, page)
           /\ search' = [search EXCEPT !.out = out, !.at = IF stops THEN "answered" ELSE "paging"]
    /\ UNCHANGED <<settings, docker, container, mounted, starter>>

\* Refused, timed out, 403 for want of JSON: what earlier pages brought is lost.
FetchFails ==
    /\ search.at = "paging"
    /\ search' = [Resting EXCEPT !.at = "error"]
    /\ UNCHANGED <<settings, docker, container, mounted, starter, fetched>>

-----------------------------------------------------------------------------
(* The surroundings *)

\* Krakey ends and starts again: the container stays, and what was being written.
Restarted ==
    /\ \/ UNCHANGED settings
       \/ starter = "unreachable" /\ docker = "alive"
            /\ settings = "absent" /\ settings' = "torn"
    /\ starter' = "unbuilt" /\ search' = Resting /\ fetched' = <<>>
    /\ UNCHANGED <<docker, container, mounted>>

Serves ==
    /\ container = "booting"
    /\ container' = "serving"
    /\ UNCHANGED <<settings, docker, mounted, starter, search, fetched>>

\* Started with --rm: gone once it stops.
ContainerEnds ==
    /\ container # "none"
    /\ container' = "none"
    /\ UNCHANGED <<settings, docker, mounted, starter, search, fetched>>

\* An instance of the operator's own, here or elsewhere.
OperatorRuns ==
    /\ container = "none"
    /\ container' = "serving" /\ mounted' \in BOOLEAN
    /\ UNCHANGED <<settings, docker, starter, search, fetched>>

OperatorEdits ==
    /\ settings # "absent"
    /\ settings' = "edited"
    /\ UNCHANGED <<docker, container, mounted, starter, search, fetched>>

DaemonChanges ==
    /\ docker # "missing"
    /\ docker' = IF docker = "alive" THEN "down" ELSE "alive"
    /\ container' \in {container, "none"}
    /\ UNCHANGED <<settings, mounted, starter, search, fetched>>

SearchNext ==
    \/ NothingToStart \/ ProbeFails \/ NoDocker \/ AlreadyBooting
    \/ PrepareSettings \/ SettingsFail \/ DockerRuns \/ DockerRunFails \/ WaitEnds
    \/ Execute \/ FetchPage \/ FetchFails
    \/ Restarted \/ Serves \/ ContainerEnds \/ OperatorRuns \/ OperatorEdits \/ DaemonChanges

SearchSpec == SearchInit /\ [][SearchNext]_searchVars

-----------------------------------------------------------------------------
(* Properties *)

Read == FlattenSeq(fetched)
Firsts == {i \in 1..Len(Read) : Read[i] = NoUrl \/ \A j \in 1..(i - 1) : Read[j] # Read[i]}
Rank(i) == Cardinality({j \in Firsts : j <= i})

\* The count a search owes: what was asked for, and never more than the cap,
\* which the configured default may exceed.
Due == IF search.want > Cap THEN Cap ELSE search.want

\* What an answered search returns is first occurrences from the pages it read,
\* in their order and with none skipped, up to the count it owes; it returns
\* fewer only when the last page brought nothing new or was the last it may read.
SearchIsExhaustive ==
    search.at = "answered" =>
        /\ \A i \in Firsts :
             /\ Rank(i) <= Due => Rank(i) <= Len(search.out)
             /\ Rank(i) <= Len(search.out) => search.out[Rank(i)] = Read[i]
        /\ Len(search.out) <= Cardinality(Firsts) /\ Len(search.out) <= search.want
        /\ Len(search.out) < Due =>
            \/ Len(fetched) = MaxPages
            \/ \A i \in Firsts : i <= Len(Read) - Len(Last(fetched))

\* "Hard cap is 50 regardless" (meta.yaml:71) and "Hard ceiling on
\* results-per-call" (tool.py:25) say this of every answer.  The code cuts only
\* the count Self asks for (tool.py:205): a default configured above the cap
\* goes through, so no run claims it.
WithinCap == search.at = "answered" => Len(search.out) <= Cap
=============================================================================
