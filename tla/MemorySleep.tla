---------------------------- MODULE MemorySleep ----------------------------
(***************************************************************************)
(* The sleep cycle of the graph memory (engines/memory/_internal/sleep/):  *)
(* cluster the graph's nodes, copy those of large enough communities into  *)
(* knowledge bases (KBs) and delete them from the graph, merge similar     *)
(* KBs, archive excess ones, clear FOCUS, and give each active KB an index *)
(* node in the graph through which recall finds it.                        *)
(*                                                                         *)
(* The graph, with the registry of KBs, is one SQLite file and each KB is  *)
(* another; a step here ends with one commit to one of them.  A cycle runs *)
(* beside the heartbeat, so items are stored and changed between any two   *)
(* steps, and an exception or a crash may end it at any of them, leaving   *)
(* what has been committed.  What makes two things similar is a choice.    *)
(***************************************************************************)
EXTENDS Naturals, FiniteSets

CONSTANTS
  Item,            \* things stored, each as one node of the graph
  MaxCommunities,  \* bound: communities persisted over the whole run
  MinSize,         \* min_community_size
  IndexMax,        \* kb_index_max
  ArchivePct,      \* kb_archive_pct
  MayAbort         \* whether a cycle may fail or crash

\* A KB is named after the community it is created for.
Kb == 1..MaxCommunities

\* Graph nodes: those of items, and k, the index node of KB k.
Node == Item \cup Kb

ASSUME SleepAssumption ==
  /\ Item \cap Nat = {} /\ IsFiniteSet(Item)
  /\ MaxCommunities \in Nat /\ MinSize \in Nat \ {0}
  /\ IndexMax \in Nat /\ ArchivePct \in 0..100 /\ MayAbort \in BOOLEAN

\* FACT stands for the three categories that migrate.
Category == {"FACT", "TARGET", "FOCUS"}

VARIABLES
  graph,        \* gm_nodes: a node's category, "none" without a row
  pending,      \* auto-ingested items not classified yet
  community,    \* gm_node_communities: a node's oldest community, 0 for none
  communities,  \* how many communities there are
  registry,     \* kb_registry: "none", "active" or "archived"
  entries,      \* the entries in each KB's file, by the node they came from
  phase,        \* where the running cycle is
  todo,         \* locals of the cycle: what the phase has still to treat,
  copied,       \*   gm_to_kb_entry, the nodes with an entry,
  kbOf,         \*   community_kbs,
  kept,         \*   the KBs consolidation keeps,
  merge         \*   the merge of two KBs under way

graphVars == <<graph, pending, community, communities>>
kbVars    == <<registry, entries>>
cycleVars == <<phase, todo, copied, kbOf, kept, merge>>
vars == <<graphVars, kbVars, cycleVars>>

NoKb == [c \in Kb |-> 0]
NoMerge == [from |-> 0, into |-> 0, left |-> {}]

-----------------------------------------------------------------------------
InGraph == {n \in Node : graph[n] # "none"}

InState(s) == {k \in Kb : registry[k] = s}

\* Rows removed from gm_nodes take those of gm_node_communities with them.
DeleteNodes(S) ==
  /\ graph' = [n \in Node |-> IF n \in S THEN "none" ELSE graph[n]]
  /\ community' = [n \in Node |-> IF n \in S THEN 0 ELSE community[n]]
  /\ pending' = pending \ S
  /\ UNCHANGED communities

GoTo(p, work) ==
  /\ phase' = p
  /\ todo' = work

Init ==
  /\ graph = [n \in Node |-> "none"]
  /\ pending = {}
  /\ community = [n \in Node |-> 0]
  /\ communities = 0
  /\ registry = [k \in Kb |-> "none"]
  /\ entries = [k \in Kb |-> {}]
  /\ phase = "awake" /\ todo = {}
  /\ copied = {} /\ kbOf = NoKb /\ kept = {} /\ merge = NoMerge

-----------------------------------------------------------------------------
(* Beside the cycle                                                         *)

Insert(i, category) ==
  /\ graph[i] = "none"
  /\ graph' = [graph EXCEPT ![i] = category]
  /\ UNCHANGED <<community, communities, kbVars, cycleVars>>

\* auto_ingest of something new; what is similar to a node only bumps it.
Ingest(i) ==
  /\ Insert(i, "FACT")
  /\ pending' = pending \cup {i}

\* explicit_write, remember_extraction.
Remember(i) ==
  \/ /\ \E category \in Category : Insert(i, category)
     /\ UNCHANGED pending
  \/ /\ i \in pending
     /\ pending' = pending \ {i}
     /\ UNCHANGED <<graph, community, communities, kbVars, cycleVars>>

\* The operator changes a category.
UpdateNodeCategory(i) ==
  /\ graph[i] # "none"
  /\ \E category \in Category : graph' = [graph EXCEPT ![i] = category]
  /\ UNCHANGED <<pending, community, communities, kbVars, cycleVars>>

-----------------------------------------------------------------------------
(* Classification and clustering                                            *)

RequestSleep ==
  /\ phase = "awake"
  /\ GoTo("classify", {})
  /\ UNCHANGED <<graphVars, kbVars, copied, kbOf, kept, merge>>

\* Any of the pending nodes are classified, none if the classifier fails.
ClassifyAndLinkPending ==
  /\ phase = "classify"
  /\ \E S \in SUBSET pending : \E f \in [S -> Category] :
       /\ graph' = [n \in Node |-> IF n \in S THEN f[n] ELSE graph[n]]
       /\ pending' = pending \ S
  /\ GoTo("cluster", InGraph)
  /\ UNCHANGED <<community, communities, kbVars, copied, kbOf, kept, merge>>

\* Mutant of Joins: the new id is counted twice.
MutantJoinsNext(n, c) == IF community[n] = 0 THEN c + 1 ELSE community[n]

\* The first community wins.
Joins(n, c) == IF community[n] = 0 THEN c ELSE community[n]

\* A cell of the partition is summarised and persisted, if large enough.
PersistCommunity ==
  /\ phase = "cluster"
  /\ communities < MaxCommunities
  /\ \E members \in SUBSET todo :
       /\ Cardinality(members) >= MinSize
       /\ community' = [n \in Node |-> IF n \in members
                                         THEN Joins(n, communities + 1)
                                         ELSE community[n]]
       /\ todo' = todo \ members
  /\ communities' = communities + 1
  /\ UNCHANGED <<graph, pending, kbVars, phase, copied, kbOf, kept, merge>>

SizeOf(c) == Cardinality({n \in InGraph : community[n] = c})

Migratable ==
  {n \in InGraph : /\ graph[n] = "FACT"
                   /\ community[n] # 0
                   /\ SizeOf(community[n]) >= MinSize}

\* The cells left are smaller than MinSize.  Migration fetches its nodes.
ClusteringDone ==
  /\ phase = "cluster"
  /\ MinSize > 1 \/ todo = {}
  /\ GoTo("migrate", Migratable)
  /\ UNCHANGED <<graphVars, kbVars, copied, kbOf, kept, merge>>

-----------------------------------------------------------------------------
(* Migration                                                                *)

Revive(k) ==
  /\ registry[k] = "archived"
  /\ registry' = [registry EXCEPT ![k] = "active"]

\* A file that an unlink left behind is opened with what is in it.
CreateKb(k) ==
  /\ registry[k] = "none"
  /\ registry' = [registry EXCEPT ![k] = "active"]

\* Opened as it is, archived or not.
Reuse(k) ==
  /\ registry[k] # "none"
  /\ UNCHANGED registry

\* An archived KB with a similar index vector, else the community's own.
FindOrCreateKbForCommunity(c) ==
  /\ phase = "migrate"
  /\ \E n \in todo : community[n] = c
  /\ kbOf[c] = 0
  /\ \E k \in Kb :
       /\ Revive(k) \/ (k = c /\ (CreateKb(k) \/ Reuse(k)))
       /\ kbOf' = [kbOf EXCEPT ![c] = k]
  /\ UNCHANGED <<graphVars, entries, phase, todo, copied, kept, merge>>

\* A fresh entry, or one judged to be the same: it then stands for both.
DedupOrWrite(n) ==
  /\ phase = "migrate" /\ n \in todo
  /\ kbOf[community[n]] # 0
  /\ entries' = [entries EXCEPT ![kbOf[community[n]]] = @ \cup {n}]
  /\ copied' = copied \cup {n}
  /\ todo' = todo \ {n}
  /\ UNCHANGED <<graphVars, registry, phase, kbOf, kept, merge>>

\* Consolidation looks at the active KBs that have vectors.
ToConsolidate == {k \in InState("active") : entries[k] # {}}

\* Mutant of MigratedNodes: everything that could migrate.
MutantAllFacts == {n \in InGraph : graph[n] = "FACT"}

MigratedNodes == copied

\* The third pass.  It commits at its end, but on the connection of the
\* writers, whose commits take along what it has deleted so far.
DeleteMigrated(n) ==
  /\ phase = "migrate" /\ todo = {}
  /\ n \in MigratedNodes
  /\ DeleteNodes({n})
  /\ copied' = copied \ {n}
  /\ UNCHANGED <<kbVars, phase, todo, kbOf, kept, merge>>

MigrationDone ==
  /\ phase = "migrate" /\ todo = {} /\ copied = {}
  /\ \E S \in SUBSET ToConsolidate : GoTo("consolidate", S)
  /\ kbOf' = NoKb
  /\ UNCHANGED <<graphVars, kbVars, copied, kept, merge>>

-----------------------------------------------------------------------------
(* Consolidation                                                            *)

KeepKb(k) ==
  /\ phase = "consolidate" /\ merge = NoMerge
  /\ k \in todo
  /\ kept' = kept \cup {k}
  /\ todo' = todo \ {k}
  /\ UNCHANGED <<graphVars, kbVars, phase, copied, kbOf, merge>>

\* k resembles a KB that is kept: its entries will be copied there.
MergeKb(k) ==
  /\ phase = "consolidate" /\ merge = NoMerge
  /\ k \in todo
  /\ \E target \in kept :
       merge' = [from |-> k, into |-> target, left |-> entries[k]]
  /\ todo' = todo \ {k}
  /\ UNCHANGED <<graphVars, kbVars, phase, copied, kbOf, kept>>

MoveEntry(e) ==
  /\ phase = "consolidate" /\ e \in merge.left
  /\ entries' = [entries EXCEPT ![merge.into] = @ \cup {e}]
  /\ merge' = [merge EXCEPT !.left = @ \ {e}]
  /\ UNCHANGED <<graphVars, registry, phase, todo, copied, kbOf, kept>>

\* Mutant of AllMoved: the KB is dropped as its entries begin to move.
MutantDropFirst == merge # NoMerge

AllMoved == merge # NoMerge /\ merge.left = {}

\* delete_kb: the row goes first,
DropRow ==
  /\ phase = "consolidate" /\ AllMoved
  /\ registry[merge.from] # "none"
  /\ registry' = [registry EXCEPT ![merge.from] = "none"]
  /\ UNCHANGED <<graphVars, entries, cycleVars>>

\* then the file, unless the unlink fails.
UnlinkFile ==
  /\ phase = "consolidate" /\ merge # NoMerge
  /\ registry[merge.from] = "none"
  /\ entries' \in {entries, [entries EXCEPT ![merge.from] = {}]}
  /\ merge' = NoMerge
  /\ UNCHANGED <<graphVars, registry, phase, todo, copied, kbOf, kept>>

\* Some of the least important go, if there are too many.
ToArchive ==
  LET n == Cardinality(InState("active"))
      share == (n * ArchivePct) \div 100
      count == IF share = 0 THEN 1 ELSE share
  IN  IF n <= IndexMax THEN {{}}
      ELSE {S \in SUBSET InState("active") : Cardinality(S) = count}

ConsolidationDone ==
  /\ phase = "consolidate" /\ merge = NoMerge /\ todo = {}
  /\ kept' = {}
  /\ \E S \in ToArchive : GoTo("archive", S)
  /\ UNCHANGED <<graphVars, kbVars, copied, kbOf, merge>>

-----------------------------------------------------------------------------
(* Archive, FOCUS, index                                                    *)

SetArchived(k) ==
  /\ phase = "archive" /\ k \in todo
  /\ todo \subseteq InState("active")
  /\ registry' = [registry EXCEPT ![k] = "archived"]
  /\ UNCHANGED <<graphVars, entries, cycleVars>>

DropIndexNode(k) ==
  /\ phase = "archive" /\ k \in todo
  /\ registry[k] = "archived"
  /\ DeleteNodes({k})
  /\ todo' = todo \ {k}
  /\ UNCHANGED <<kbVars, phase, copied, kbOf, kept, merge>>

Clears == {"FOCUS"}

\* Mutant of ToIndex: the KBs that have an index node already.
MutantReindexOnly == InState("active") \cap InGraph

ToIndex == InState("active")

\* Phase 5, and the list of KBs that phase 6 begins with.
DeleteFocus ==
  /\ phase = "archive" /\ todo = {}
  /\ DeleteNodes({n \in Node : graph[n] \in Clears})
  /\ GoTo("index", ToIndex)
  /\ UNCHANGED <<kbVars, copied, kbOf, kept, merge>>

UpsertIndexNode(k) ==
  /\ phase = "index" /\ k \in todo
  /\ graph' = [graph EXCEPT ![k] = "FACT"]
  /\ todo' = todo \ {k}
  /\ UNCHANGED <<pending, community, communities, kbVars,
                 phase, copied, kbOf, kept, merge>>

\* Index nodes are linked, the cycle is logged.
CycleCompletes ==
  /\ phase = "index" /\ todo = {}
  /\ GoTo("awake", {})
  /\ UNCHANGED <<graphVars, kbVars, copied, kbOf, kept, merge>>

\* An exception from the LLM, the embedder or a database, or a crash.
CycleAborts ==
  /\ MayAbort /\ phase # "awake"
  /\ GoTo("awake", {})
  /\ copied' = {} /\ kbOf' = NoKb /\ kept' = {} /\ merge' = NoMerge
  /\ UNCHANGED <<graphVars, kbVars>>

-----------------------------------------------------------------------------
Writers == \E i \in Item : Ingest(i) \/ Remember(i) \/ UpdateNodeCategory(i)

Cluster == ClassifyAndLinkPending \/ PersistCommunity \/ ClusteringDone

Migrate ==
  \/ \E c \in Kb : FindOrCreateKbForCommunity(c)
  \/ \E n \in Node : DedupOrWrite(n) \/ DeleteMigrated(n)
  \/ MigrationDone

Consolidate ==
  \/ \E k \in Kb : KeepKb(k) \/ MergeKb(k)
  \/ \E e \in Node : MoveEntry(e)
  \/ DropRow \/ UnlinkFile \/ ConsolidationDone

Archive == \E k \in Kb : SetArchived(k) \/ DropIndexNode(k)

Rebuild == DeleteFocus \/ (\E k \in Kb : UpsertIndexNode(k)) \/ CycleCompletes

Next ==
  \/ Writers
  \/ RequestSleep \/ Cluster \/ Migrate \/ Consolidate \/ Archive \/ Rebuild
  \/ CycleAborts

Spec == Init /\ [][Next]_vars

-----------------------------------------------------------------------------
(* Properties                                                               *)

TypeOK ==
  /\ graph \in [Node -> Category \cup {"none"}]
  /\ pending \subseteq Item
  /\ community \in [Node -> 0..MaxCommunities]
  /\ communities \in 0..MaxCommunities
  /\ registry \in [Kb -> {"none", "active", "archived"}]
  /\ entries \in [Kb -> SUBSET Node]
  /\ phase \in {"awake", "classify", "cluster", "migrate", "consolidate",
                "archive", "index"}
  /\ todo \subseteq Node /\ copied \subseteq Node
  /\ kbOf \in [Kb -> 0..MaxCommunities]
  /\ kept \subseteq Kb
  /\ merge \in [from : 0..MaxCommunities, into : 0..MaxCommunities,
                left : SUBSET Node]

InKbs == UNION {entries[k] : k \in InState("active") \cup InState("archived")}

\* Wherever a cycle stops, and whatever is stored while it runs, what has been
\* stored is in the graph or in a registered KB, a cleared FOCUS excepted.
Promise == INSTANCE LongTermMemory
             WITH held <- Item \cap (InGraph \cup InKbs),
                  passing <- {i \in Item \ InKbs : graph[i] = "FOCUS"}

MemoryKeepsPromise == Promise!Spec

\* A KB loses an entry, or the registry a KB, only when another registered KB
\* has the entry: copying, dropping and unlinking come in the right order.
EntriesSurvive ==
  [][\A k \in Kb : registry[k] # "none" =>
       \A e \in entries[k] :
         \/ registry'[k] # "none" /\ e \in entries'[k]
         \/ \E other \in Kb : registry'[other] # "none"
                              /\ e \in entries'[other]]_vars

\* A cycle that completes leaves each active KB with an index node, through
\* which alone recall finds it.
ActiveKbsIndexed == [][CycleCompletes => InState("active") \subseteq InGraph]_vars

\* sleep_manager.py:109: "rebuild Index Graph (only active KBs get GM nodes)".
\* So a completed cycle leaves no index node of any other KB.
OnlyActiveKbsIndexed ==
  [][CycleCompletes => Kb \cap InGraph \subseteq InState("active")]_vars
=============================================================================
