-------------------------- MODULE MemorySleep_proofs --------------------------
(***************************************************************************)
(* Facts about the sleep cycle for every set of items, every number of     *)
(* communities and every setting, whether cycles abort or not: what is     *)
(* stored survives, and the cycle implements LongTermMemory.               *)
(***************************************************************************)
EXTENDS MemorySleep, TLAPS

USE DEF graphVars, kbVars, cycleVars

-----------------------------------------------------------------------------
(* The inductive invariant *)

Registered == {k \in Kb : registry[k] # "none"}

\* Only migration uses its locals.  The KB of a community is registered; what
\* is counted as copied has an entry in a registered KB.
MigrationSound ==
  /\ phase # "migrate" => copied = {} /\ kbOf = NoKb
  /\ \A c \in Kb : kbOf[c] # 0 => kbOf[c] \in Registered
  /\ copied \subseteq InKbs
  /\ phase = "migrate" => todo \subseteq {n \in InGraph : community[n] # 0}

\* An auto-ingested item that waits for its category has a row.
PendingInGraph == pending \subseteq InGraph

\* A file an unlink left behind holds nothing that is not elsewhere as well.
FilesAreCovered == \A k \in Kb : entries[k] \subseteq InKbs

MergeSound ==
  /\ merge.from \in Kb /\ merge.into \in kept
  /\ merge.from \notin kept \cup todo
  /\ merge.left \subseteq entries[merge.from]
  /\ entries[merge.from] \subseteq merge.left \cup entries[merge.into]

\* The KBs kept, and those still to be looked at, are registered and distinct;
\* during a merge an entry is still to be moved or is in the target.
ConsolidationSound ==
  /\ phase # "consolidate" => kept = {} /\ merge = NoMerge
  /\ phase = "consolidate" => todo \subseteq Registered
  /\ kept \subseteq Registered
  /\ phase = "consolidate" => kept \cap todo = {}
  /\ merge # NoMerge => MergeSound

\* An active KB has its index node, or is on the list.
IndexUnderWay == phase = "index" => InState("active") \subseteq InGraph \cup todo

SleepInv ==
  /\ TypeOK /\ MigrationSound /\ PendingInGraph /\ FilesAreCovered
  /\ ConsolidationSound /\ IndexUnderWay

-----------------------------------------------------------------------------
(* Types *)

LEMMA NodeFacts ==
  /\ Kb \subseteq Nat \ {0} /\ Item \cap Kb = {}
  /\ Kb \subseteq Node /\ Item \subseteq Node
BY SleepAssumption DEF Kb, Node

LEMMA DeletionType ==
  ASSUME TypeOK, NEW S, DeleteNodes(S)
  PROVE  /\ graph' \in [Node -> Category \cup {"none"}]
         /\ pending' \subseteq Item
         /\ community' \in [Node -> 0..MaxCommunities]
         /\ communities' = communities
<1>1. 0 \in 0..MaxCommunities
  BY SleepAssumption
<1> QED BY <1>1 DEF DeleteNodes, TypeOK

LEMMA InsertType ==
  ASSUME TypeOK, NEW i \in Item, NEW category \in Category, Insert(i, category)
  PROVE  /\ graph' \in [Node -> Category \cup {"none"}]
         /\ UNCHANGED <<community, communities, kbVars, cycleVars>>
BY NodeFacts DEF Insert, TypeOK

LEMMA WritersType ==
  ASSUME TypeOK, Writers
  PROVE  TypeOK'
<1>1. PICK i \in Item : Ingest(i) \/ Remember(i) \/ UpdateNodeCategory(i)
  BY DEF Writers
<1>2. CASE Ingest(i)
  <2>1. "FACT" \in Category
    BY DEF Category
  <2> QED BY <1>2, <2>1, InsertType DEF Ingest, TypeOK
<1>3. CASE \E category \in Category : Insert(i, category) /\ UNCHANGED pending
  BY <1>3, InsertType DEF TypeOK
<1>4. CASE i \in pending /\ pending' = pending \ {i}
             /\ UNCHANGED <<graph, community, communities, kbVars, cycleVars>>
  BY <1>4 DEF TypeOK
<1>5. CASE UpdateNodeCategory(i)
  BY <1>5 DEF UpdateNodeCategory, TypeOK
<1> QED BY <1>1, <1>2, <1>3, <1>4, <1>5 DEF Remember

LEMMA ClusterType ==
  ASSUME TypeOK, RequestSleep \/ Cluster
  PROVE  TypeOK'
<1>1. CASE RequestSleep
  BY <1>1 DEF RequestSleep, GoTo, TypeOK
<1>2. CASE ClassifyAndLinkPending
  <2>1. PICK S \in SUBSET pending : \E f \in [S -> Category] :
          /\ graph' = [n \in Node |-> IF n \in S THEN f[n] ELSE graph[n]]
          /\ pending' = pending \ S
    BY <1>2 DEF ClassifyAndLinkPending
  <2>2. graph' \in [Node -> Category \cup {"none"}]
    BY <2>1 DEF TypeOK
  <2>3. todo' \subseteq Node
    BY <1>2 DEF ClassifyAndLinkPending, GoTo, InGraph
  <2> QED BY <1>2, <2>1, <2>2, <2>3 DEF ClassifyAndLinkPending, GoTo, TypeOK
<1>3. CASE PersistCommunity
  <2>1. PICK members \in SUBSET todo :
          /\ community' = [n \in Node |-> IF n \in members
                                            THEN Joins(n, communities + 1)
                                            ELSE community[n]]
          /\ todo' = todo \ members
    BY <1>3 DEF PersistCommunity
  <2>2. communities + 1 \in 0..MaxCommunities
    BY <1>3, SleepAssumption DEF PersistCommunity, TypeOK
  <2>3. community' \in [Node -> 0..MaxCommunities]
    BY <2>1, <2>2 DEF Joins, TypeOK
  <2> QED BY <1>3, <2>1, <2>2, <2>3 DEF PersistCommunity, TypeOK
<1>4. CASE ClusteringDone
  BY <1>4 DEF ClusteringDone, GoTo, Migratable, InGraph, TypeOK
<1> QED BY <1>1, <1>2, <1>3, <1>4 DEF Cluster

LEMMA MigrateType ==
  ASSUME TypeOK, Migrate
  PROVE  TypeOK'
<1>1. CASE \E c \in Kb : FindOrCreateKbForCommunity(c)
  <2>1. PICK c \in Kb, k \in Kb :
          /\ Revive(k) \/ CreateKb(k) \/ Reuse(k)
          /\ kbOf' = [kbOf EXCEPT ![c] = k]
          /\ UNCHANGED <<graphVars, entries, phase, todo, copied, kept, merge>>
    BY <1>1 DEF FindOrCreateKbForCommunity
  <2>2. registry' \in [Kb -> {"none", "active", "archived"}]
    BY <2>1 DEF Revive, CreateKb, Reuse, TypeOK
  <2>3. kbOf' \in [Kb -> 0..MaxCommunities]
    BY <2>1, SleepAssumption DEF TypeOK, Kb
  <2> QED BY <2>1, <2>2, <2>3 DEF TypeOK
<1>2. CASE \E n \in Node : DedupOrWrite(n)
  <2>1. PICK n \in Node : DedupOrWrite(n)
    BY <1>2
  <2>2. entries' \in [Kb -> SUBSET Node]
    BY <2>1 DEF DedupOrWrite, TypeOK
  <2> QED BY <2>1, <2>2 DEF DedupOrWrite, TypeOK
<1>3. CASE \E n \in Node : DeleteMigrated(n)
  BY <1>3, DeletionType DEF DeleteMigrated, TypeOK
<1>4. CASE MigrationDone
  <2>1. todo' \subseteq Node /\ kbOf' \in [Kb -> 0..MaxCommunities]
    BY <1>4, NodeFacts, SleepAssumption
       DEF MigrationDone, GoTo, ToConsolidate, InState, NoKb
  <2> QED BY <1>4, <2>1 DEF MigrationDone, GoTo, TypeOK
<1> QED BY <1>1, <1>2, <1>3, <1>4 DEF Migrate

LEMMA ConsolidateType ==
  ASSUME TypeOK, Consolidate
  PROVE  TypeOK'
<1>1. CASE \E k \in Kb : KeepKb(k)
  BY <1>1 DEF KeepKb, TypeOK
<1>2. CASE \E k \in Kb : MergeKb(k)
  <2>1. PICK k \in Kb, target \in kept :
          /\ merge' = [from |-> k, into |-> target, left |-> entries[k]]
          /\ todo' = todo \ {k}
          /\ UNCHANGED <<graphVars, kbVars, phase, copied, kbOf, kept>>
    BY <1>2 DEF MergeKb
  <2>2. k \in 0..MaxCommunities /\ target \in 0..MaxCommunities
        /\ entries[k] \in SUBSET Node
    BY <2>1, SleepAssumption DEF Kb, TypeOK
  <2> QED BY <2>1, <2>2 DEF TypeOK
<1>3. CASE \E e \in Node : MoveEntry(e)
  <2>1. PICK e \in Node : MoveEntry(e)
    BY <1>3
  <2>2. entries' \in [Kb -> SUBSET Node]
    BY <2>1 DEF MoveEntry, TypeOK
  <2>3. merge' \in [from : 0..MaxCommunities, into : 0..MaxCommunities,
                    left : SUBSET Node]
    BY <2>1 DEF MoveEntry, TypeOK
  <2> QED BY <2>1, <2>2, <2>3 DEF MoveEntry, TypeOK
<1>4. CASE DropRow
  BY <1>4 DEF DropRow, TypeOK
<1>5. CASE UnlinkFile
  BY <1>5, SleepAssumption DEF UnlinkFile, NoMerge, TypeOK
<1>6. CASE ConsolidationDone
  <2>1. todo' \subseteq Node
    BY <1>6, NodeFacts DEF ConsolidationDone, GoTo, ToArchive, InState
  <2> QED BY <1>6, <2>1 DEF ConsolidationDone, GoTo, TypeOK
<1> QED BY <1>1, <1>2, <1>3, <1>4, <1>5, <1>6 DEF Consolidate

LEMMA RebuildType ==
  ASSUME TypeOK, Archive \/ Rebuild \/ CycleAborts
  PROVE  TypeOK'
<1>1. CASE \E k \in Kb : SetArchived(k)
  BY <1>1 DEF SetArchived, TypeOK
<1>2. CASE \E k \in Kb : DropIndexNode(k)
  BY <1>2, DeletionType DEF DropIndexNode, TypeOK
<1>3. CASE DeleteFocus
  <2>1. todo' \subseteq Node
    BY <1>3, NodeFacts DEF DeleteFocus, GoTo, ToIndex, InState
  <2> QED BY <1>3, <2>1, DeletionType DEF DeleteFocus, GoTo, TypeOK
<1>4. CASE \E k \in Kb : UpsertIndexNode(k)
  BY <1>4, NodeFacts DEF UpsertIndexNode, Category, TypeOK
<1>5. CASE CycleCompletes
  BY <1>5 DEF CycleCompletes, GoTo, TypeOK
<1>6. CASE CycleAborts
  BY <1>6, SleepAssumption DEF CycleAborts, GoTo, NoKb, NoMerge, TypeOK
<1> QED BY <1>1, <1>2, <1>3, <1>4, <1>5, <1>6 DEF Archive, Rebuild

LEMMA NextType ==
  ASSUME TypeOK, [Next]_vars
  PROVE  TypeOK'
<1>1. CASE Next
  BY <1>1, WritersType, ClusterType, MigrateType, ConsolidateType, RebuildType
     DEF Next
<1>2. CASE UNCHANGED vars
  BY <1>2 DEF vars, TypeOK
<1> QED BY <1>1, <1>2

-----------------------------------------------------------------------------
(* What the steps do to the graph and to the KBs *)

LEMMA InKbsMeans ==
  /\ TypeOK => \A e : e \in InKbs <=> \E k \in Registered : e \in entries[k]
  /\ TypeOK' => \A e : e \in InKbs' <=> \E k \in Registered' : e \in entries'[k]
BY DEF InKbs, Registered, InState, TypeOK

LEMMA DeletionEffect ==
  ASSUME TypeOK, NEW S, DeleteNodes(S)
  PROVE  /\ InGraph' = InGraph \ S
         /\ \A n \in Node \ S : graph'[n] = graph[n]
         /\ pending' = pending \ S
BY DEF DeleteNodes, InGraph, TypeOK

\* The steps that only add a node, or give one another category.
LEMMA WritersEffect ==
  ASSUME TypeOK, PendingInGraph,
         Writers \/ ClassifyAndLinkPending \/ (\E k \in Kb : UpsertIndexNode(k))
  PROVE  InGraph \subseteq InGraph' /\ pending' \subseteq InGraph' /\ UNCHANGED kbVars
<1> USE DEF PendingInGraph, InGraph
<1>1. CASE Writers
  <2>1. PICK i \in Item : Ingest(i) \/ Remember(i) \/ UpdateNodeCategory(i)
    BY <1>1 DEF Writers
  <2>2. i \in Node /\ i \notin Kb
    BY NodeFacts
  <2>3. ASSUME NEW category \in Category, Insert(i, category),
               pending' \in {pending, pending \cup {i}}
        PROVE  /\ InGraph \subseteq InGraph' /\ pending' \subseteq InGraph'
               /\ UNCHANGED kbVars
    BY <2>2, <2>3 DEF Insert, Category, TypeOK
  <2>4. CASE UpdateNodeCategory(i)
    BY <2>2, <2>4 DEF UpdateNodeCategory, Category, TypeOK
  <2>5. CASE Remember(i)
    BY <2>3, <2>5 DEF Remember
  <2>6. CASE Ingest(i)
    <3>1. "FACT" \in Category
      BY DEF Category
    <3> QED BY <2>3, <2>6, <3>1 DEF Ingest
  <2> QED BY <2>1, <2>4, <2>5, <2>6
<1>2. CASE ClassifyAndLinkPending
  <2>1. PICK S \in SUBSET pending : \E f \in [S -> Category] :
          /\ graph' = [n \in Node |-> IF n \in S THEN f[n] ELSE graph[n]]
          /\ pending' = pending \ S
    BY <1>2 DEF ClassifyAndLinkPending
  <2>2. "none" \notin Category
    BY DEF Category
  <2> QED BY <1>2, <2>1, <2>2 DEF ClassifyAndLinkPending, TypeOK
<1>3. CASE \E k \in Kb : UpsertIndexNode(k)
  BY <1>3 DEF UpsertIndexNode, TypeOK
<1> QED BY <1>1, <1>2, <1>3

LEMMA DeletesKeepPending ==
  ASSUME TypeOK, PendingInGraph, NEW S, DeleteNodes(S)
  PROVE  PendingInGraph'
BY DeletionEffect DEF PendingInGraph

LEMMA NextPending ==
  ASSUME TypeOK, PendingInGraph, [Next]_vars
  PROVE  PendingInGraph'
<1>1. CASE Writers \/ ClassifyAndLinkPending \/ (\E k \in Kb : UpsertIndexNode(k))
  BY <1>1, WritersEffect DEF PendingInGraph
<1>2. CASE \E n \in Node : DeleteMigrated(n)
  BY <1>2, DeletesKeepPending DEF DeleteMigrated
<1>3. CASE \E k \in Kb : DropIndexNode(k)
  BY <1>3, DeletesKeepPending DEF DropIndexNode
<1>4. CASE DeleteFocus
  BY <1>4, DeletesKeepPending DEF DeleteFocus
<1>5. CASE UNCHANGED <<graph, pending>>
  BY <1>5 DEF PendingInGraph, InGraph
<1>6. RequestSleep \/ PersistCommunity \/ ClusteringDone => UNCHANGED <<graph, pending>>
  BY DEF RequestSleep, PersistCommunity, ClusteringDone
<1>7. (\E c \in Kb : FindOrCreateKbForCommunity(c)) \/ (\E n \in Node : DedupOrWrite(n))
        \/ MigrationDone => UNCHANGED <<graph, pending>>
  BY DEF FindOrCreateKbForCommunity, DedupOrWrite, MigrationDone
<1>8. Consolidate => UNCHANGED <<graph, pending>>
  BY DEF Consolidate, KeepKb, MergeKb, MoveEntry, DropRow, UnlinkFile,
         ConsolidationDone
<1>9. (\E k \in Kb : SetArchived(k)) \/ CycleCompletes \/ CycleAborts \/ UNCHANGED vars
        => UNCHANGED <<graph, pending>>
  BY DEF SetArchived, CycleCompletes, CycleAborts, vars
<1> QED BY <1>1, <1>2, <1>3, <1>4, <1>5, <1>6, <1>7, <1>8, <1>9
        DEF Next, Cluster, Migrate, Archive, Rebuild

-----------------------------------------------------------------------------
(* The KBs *)

\* What a registered KB holds is held by a registered KB after the step: only
\* an entry written by migration comes to it.
KbStep == InKbs' = InKbs \/ \E n \in Node : DedupOrWrite(n) /\ InKbs' = InKbs \cup {n}

LEMMA FindOrCreateEffect ==
  ASSUME SleepInv, TypeOK', NEW c \in Kb, FindOrCreateKbForCommunity(c)
  PROVE  /\ InKbs' = InKbs /\ entries' = entries
         /\ Registered \subseteq Registered'
         /\ \E k \in Registered' : kbOf' = [kbOf EXCEPT ![c] = k]
<1>1. PICK k \in Kb : /\ Revive(k) \/ CreateKb(k) \/ Reuse(k)
                      /\ kbOf' = [kbOf EXCEPT ![c] = k]
                      /\ entries' = entries
  BY DEF FindOrCreateKbForCommunity
<1>2. Registered' = Registered \cup {k}
  BY <1>1 DEF Revive, CreateKb, Reuse, Registered, SleepInv, TypeOK
<1>3. entries[k] \subseteq InKbs
  BY <1>1 DEF SleepInv, FilesAreCovered
<1>4. InKbs' = InKbs
  BY <1>1, <1>2, <1>3, InKbsMeans DEF SleepInv
<1> QED BY <1>1, <1>2, <1>4

LEMMA DedupEffect ==
  ASSUME SleepInv, TypeOK', NEW n \in Node, DedupOrWrite(n)
  PROVE  /\ InKbs' = InKbs \cup {n} /\ Registered' = Registered
         /\ \A k \in Kb : entries'[k] \subseteq entries[k] \cup {n}
<1> DEFINE target == kbOf[community[n]]
<1>1. community[n] \in Kb
  <2>1. community[n] \in 0..MaxCommunities /\ community[n] # 0
    BY DEF DedupOrWrite, SleepInv, MigrationSound, TypeOK
  <2> QED BY <2>1, SleepAssumption DEF Kb
<1>2. target \in Registered /\ target \in Kb
  BY <1>1 DEF DedupOrWrite, SleepInv, MigrationSound, Registered
<1>3. entries' = [entries EXCEPT ![target] = @ \cup {n}] /\ registry' = registry
  BY DEF DedupOrWrite
<1> HIDE DEF target
<1>4. Registered' = Registered
  BY <1>3 DEF Registered
<1>5. \A k \in Kb : entries'[k] = IF k = target THEN entries[k] \cup {n} ELSE entries[k]
  BY <1>3 DEF SleepInv, TypeOK
<1>6. ASSUME NEW e PROVE e \in InKbs' <=> e \in InKbs \/ e = n
  <2>1. /\ e \in InKbs <=> \E k \in Registered : e \in entries[k]
        /\ e \in InKbs' <=> \E k \in Registered : e \in entries'[k]
    BY <1>4, InKbsMeans DEF SleepInv
  <2> QED BY <1>2, <1>5, <2>1 DEF Registered
<1> QED BY <1>4, <1>5, <1>6

LEMMA MoveEffect ==
  ASSUME SleepInv, TypeOK', NEW e \in Node, MoveEntry(e)
  PROVE  /\ InKbs' = InKbs /\ Registered' = Registered /\ merge # NoMerge
         /\ e \in merge.left /\ merge.into \in Kb
         /\ \A k \in Kb : entries'[k] = IF k = merge.into THEN entries[k] \cup {e}
                                                          ELSE entries[k]
<1>1. merge # NoMerge
  BY DEF MoveEntry, NoMerge
<1>2. /\ merge.from \in Kb /\ merge.into \in Registered
      /\ e \in entries[merge.from]
  BY <1>1 DEF MoveEntry, SleepInv, ConsolidationSound, MergeSound
<1>3. entries' = [entries EXCEPT ![merge.into] = @ \cup {e}] /\ registry' = registry
  BY DEF MoveEntry
<1>4. Registered' = Registered /\ merge.into \in Kb
  BY <1>2, <1>3 DEF Registered
<1>5. \A k \in Kb : entries'[k] = IF k = merge.into THEN entries[k] \cup {e}
                                                    ELSE entries[k]
  BY <1>3 DEF SleepInv, TypeOK
<1>6. e \in InKbs
  BY <1>2 DEF SleepInv, FilesAreCovered
<1>7. ASSUME NEW d PROVE d \in InKbs' <=> d \in InKbs
  <2>1. /\ d \in InKbs <=> \E k \in Registered : d \in entries[k]
        /\ d \in InKbs' <=> \E k \in Registered : d \in entries'[k]
    BY <1>4, InKbsMeans DEF SleepInv
  <2> QED BY <1>5, <1>6, <2>1 DEF Registered
<1> QED BY <1>1, <1>2, <1>4, <1>5, <1>7 DEF MoveEntry

LEMMA DropRowEffect ==
  ASSUME SleepInv, TypeOK', DropRow
  PROVE  /\ InKbs' = InKbs /\ Registered' = Registered \ {merge.from}
         /\ merge # NoMerge /\ merge.left = {}
<1>1. /\ merge # NoMerge /\ merge.left = {} /\ entries' = entries
      /\ registry' = [registry EXCEPT ![merge.from] = "none"]
  BY DEF DropRow, AllMoved
<1>2. /\ merge.from \in Kb /\ merge.into \in Registered /\ merge.into # merge.from
      /\ entries[merge.from] \subseteq entries[merge.into]
  BY <1>1 DEF SleepInv, ConsolidationSound, MergeSound
<1>3. Registered' = Registered \ {merge.from}
  BY <1>1, <1>2 DEF Registered, SleepInv, TypeOK
<1>4. InKbs' = InKbs
  BY <1>1, <1>2, <1>3, InKbsMeans DEF SleepInv
<1> QED BY <1>1, <1>3, <1>4

LEMMA UnlinkEffect ==
  ASSUME SleepInv, TypeOK', UnlinkFile
  PROVE  /\ InKbs' = InKbs /\ Registered' = Registered
         /\ \A k \in Kb : entries'[k] \subseteq entries[k]
<1>1. /\ merge.from \notin Registered /\ registry' = registry
      /\ entries' \in {entries, [entries EXCEPT ![merge.from] = {}]}
  BY DEF UnlinkFile, Registered
<1>2. /\ Registered' = Registered
      /\ \A k \in Kb : entries'[k] \subseteq entries[k]
      /\ \A k \in Registered : entries'[k] = entries[k]
  BY <1>1 DEF Registered, SleepInv, TypeOK
<1>3. ASSUME NEW e PROVE e \in InKbs' <=> e \in InKbs
  <2>1. /\ e \in InKbs <=> \E k \in Registered : e \in entries[k]
        /\ e \in InKbs' <=> \E k \in Registered : e \in entries'[k]
    BY <1>2, InKbsMeans DEF SleepInv
  <2> QED BY <1>2, <2>1
<1> QED BY <1>2, <1>3

LEMMA SetArchivedEffect ==
  ASSUME SleepInv, TypeOK', NEW k \in Kb, SetArchived(k)
  PROVE  InKbs' = InKbs /\ Registered' = Registered /\ entries' = entries
<1>1. /\ entries' = entries /\ registry' = [registry EXCEPT ![k] = "archived"]
      /\ registry[k] = "active"
  BY DEF SetArchived, InState
<1>2. Registered' = Registered
  BY <1>1 DEF Registered, SleepInv, TypeOK
<1> QED BY <1>1, <1>2, InKbsMeans DEF SleepInv

\* The steps that touch the KBs.
KbWork ==
  \/ \E c \in Kb : FindOrCreateKbForCommunity(c)
  \/ \E n \in Node : DedupOrWrite(n) \/ MoveEntry(n)
  \/ DropRow \/ UnlinkFile
  \/ \E k \in Kb : SetArchived(k)

LEMMA OtherStepsKeepKbs ==
  ASSUME TypeOK, PendingInGraph, [Next]_vars, ~KbWork
  PROVE  UNCHANGED kbVars /\ InKbs' = InKbs /\ Registered' = Registered
<1>1. UNCHANGED kbVars
  <2>1. CASE Writers \/ ClassifyAndLinkPending \/ (\E k \in Kb : UpsertIndexNode(k))
    BY <2>1, WritersEffect
  <2>2. CASE RequestSleep \/ PersistCommunity \/ ClusteringDone
    BY <2>2 DEF RequestSleep, PersistCommunity, ClusteringDone
  <2>3. CASE Migrate
    BY <2>3 DEF Migrate, KbWork, DeleteMigrated, MigrationDone
  <2>4. CASE Consolidate
    BY <2>4 DEF Consolidate, KbWork, KeepKb, MergeKb, ConsolidationDone
  <2>5. CASE Archive \/ DeleteFocus \/ CycleCompletes \/ CycleAborts \/ UNCHANGED vars
    BY <2>5 DEF Archive, KbWork, DropIndexNode, DeleteFocus, CycleCompletes,
                CycleAborts, vars
  <2> QED BY <2>1, <2>2, <2>3, <2>4, <2>5 DEF Next, Cluster, Rebuild
<1> QED BY <1>1 DEF InKbs, InState, Registered

LEMMA NextKbs ==
  ASSUME SleepInv, [Next]_vars
  PROVE  KbStep
<1>1. TypeOK' /\ TypeOK /\ PendingInGraph
  BY NextType DEF SleepInv
<1> QED BY <1>1, FindOrCreateEffect, DedupEffect, MoveEffect, DropRowEffect,
           UnlinkEffect, SetArchivedEffect, OtherStepsKeepKbs DEF KbWork, KbStep

LEMMA NextFiles ==
  ASSUME SleepInv, [Next]_vars
  PROVE  FilesAreCovered'
<1> USE DEF FilesAreCovered
<1>1. TypeOK' /\ TypeOK /\ PendingInGraph /\ FilesAreCovered
  BY NextType DEF SleepInv
<1>2. CASE \E n \in Node : DedupOrWrite(n)
  BY <1>1, <1>2, DedupEffect
<1>3. CASE \E n \in Node : MoveEntry(n)
  <2>1. PICK n \in Node : MoveEntry(n)
    BY <1>3
  <2>2. n \in InKbs
    BY <2>1 DEF MoveEntry, NoMerge, SleepInv, ConsolidationSound, MergeSound
  <2>3. /\ InKbs' = InKbs
        /\ \A k \in Kb : entries'[k] = IF k = merge.into THEN entries[k] \cup {n}
                                                         ELSE entries[k]
    BY <1>1, <2>1, MoveEffect
  <2> QED BY <1>1, <2>2, <2>3
<1>4. CASE \E c \in Kb : FindOrCreateKbForCommunity(c)
  BY <1>1, <1>4, FindOrCreateEffect
<1>5. CASE DropRow
  BY <1>1, <1>5, DropRowEffect DEF DropRow
<1>6. CASE UnlinkFile
  BY <1>1, <1>6, UnlinkEffect
<1>7. CASE \E k \in Kb : SetArchived(k)
  BY <1>1, <1>7, SetArchivedEffect
<1>8. CASE ~KbWork
  BY <1>1, <1>8, OtherStepsKeepKbs
<1> QED BY <1>2, <1>3, <1>4, <1>5, <1>6, <1>7, <1>8 DEF KbWork

-----------------------------------------------------------------------------
(* The locals of the cycle *)

LEMMA WritersKeepCycle ==
  ASSUME Writers
  PROVE  UNCHANGED <<community, cycleVars>>
BY DEF Writers, Ingest, Remember, Insert, UpdateNodeCategory

\* Outside migration its locals are empty and stay so.
LEMMA OutsideMigration ==
  ASSUME SleepInv, [Next]_vars, ~Migrate, ~Writers, ~ClusteringDone
  PROVE  \/ phase' # "migrate" /\ copied' = {} /\ kbOf' = NoKb
         \/ UNCHANGED vars
<1> USE DEF SleepInv, MigrationSound
<1>1. CASE RequestSleep \/ ClassifyAndLinkPending \/ PersistCommunity
  BY <1>1 DEF RequestSleep, ClassifyAndLinkPending, PersistCommunity, GoTo
<1>2. CASE Consolidate
  BY <1>2 DEF Consolidate, KeepKb, MergeKb, MoveEntry, DropRow, UnlinkFile,
              ConsolidationDone, GoTo
<1>3. CASE Archive
  BY <1>3 DEF Archive, SetArchived, DropIndexNode
<1>4. CASE Rebuild \/ CycleAborts
  BY <1>4 DEF Rebuild, DeleteFocus, UpsertIndexNode, CycleCompletes, CycleAborts,
              GoTo
<1> QED BY <1>1, <1>2, <1>3, <1>4 DEF Next, Cluster

LEMMA MigrateKeepsSound ==
  ASSUME SleepInv, TypeOK', Migrate
  PROVE  MigrationSound'
<1>1. MigrationSound /\ TypeOK /\ phase = "migrate"
  BY DEF SleepInv, Migrate, FindOrCreateKbForCommunity, DedupOrWrite,
         DeleteMigrated, MigrationDone
<1>2. CASE \E c \in Kb : FindOrCreateKbForCommunity(c)
  <2>1. PICK c \in Kb : FindOrCreateKbForCommunity(c)
    BY <1>2
  <2>2. PICK k \in Registered' : kbOf' = [kbOf EXCEPT ![c] = k]
    BY <2>1, FindOrCreateEffect
  <2>3. InKbs' = InKbs /\ Registered \subseteq Registered'
    BY <2>1, FindOrCreateEffect
  <2>4. \A d \in Kb : kbOf'[d] = IF d = c THEN k ELSE kbOf[d]
    BY <2>2, <1>1 DEF TypeOK
  <2>5. UNCHANGED <<graphVars, phase, todo, copied>>
    BY <2>1 DEF FindOrCreateKbForCommunity
  <2> QED BY <1>1, <2>2, <2>3, <2>4, <2>5 DEF MigrationSound, InGraph
<1>3. CASE \E n \in Node : DedupOrWrite(n)
  <2>1. PICK n \in Node : DedupOrWrite(n)
    BY <1>3
  <2>2. InKbs' = InKbs \cup {n} /\ Registered' = Registered
    BY <2>1, DedupEffect
  <2>3. /\ UNCHANGED <<graphVars, phase, kbOf>>
        /\ copied' = copied \cup {n} /\ todo' = todo \ {n}
    BY <2>1 DEF DedupOrWrite
  <2> QED BY <1>1, <2>2, <2>3 DEF MigrationSound, InGraph
<1>4. CASE \E n \in Node : DeleteMigrated(n)
  <2>1. UNCHANGED <<kbVars, phase, kbOf>> /\ copied' \subseteq copied /\ todo' = {}
    BY <1>4 DEF DeleteMigrated
  <2>2. InKbs' = InKbs /\ Registered' = Registered
    BY <2>1 DEF InKbs, InState, Registered
  <2> QED BY <1>1, <2>1, <2>2 DEF MigrationSound
<1>5. CASE MigrationDone
  <2>1. phase' # "migrate" /\ copied' = {} /\ kbOf' = NoKb
    BY <1>5 DEF MigrationDone, GoTo
  <2> QED BY <2>1 DEF MigrationSound, NoKb
<1> QED BY <1>2, <1>3, <1>4, <1>5 DEF Migrate

LEMMA NextMigration ==
  ASSUME SleepInv, [Next]_vars
  PROVE  MigrationSound'
<1>1. MigrationSound /\ TypeOK /\ PendingInGraph /\ TypeOK'
  BY NextType DEF SleepInv
<1>2. CASE Migrate
  BY <1>1, <1>2, MigrateKeepsSound
<1>3. CASE Writers
  <2>1. InGraph \subseteq InGraph' /\ UNCHANGED <<kbVars, community, cycleVars>>
    BY <1>1, <1>3, WritersEffect, WritersKeepCycle
  <2>2. InKbs' = InKbs /\ Registered' = Registered
    BY <2>1 DEF InKbs, InState, Registered
  <2> QED BY <1>1, <2>1, <2>2 DEF MigrationSound
<1>4. CASE ClusteringDone
  <2>1. UNCHANGED <<kbVars, graphVars, copied, kbOf>> /\ todo' = Migratable
    BY <1>4 DEF ClusteringDone, GoTo
  <2>2. InKbs' = InKbs /\ Registered' = Registered /\ InGraph' = InGraph
    BY <2>1 DEF InKbs, InState, Registered, InGraph
  <2>3. Migratable \subseteq {n \in InGraph : community[n] # 0}
    BY DEF Migratable
  <2> QED BY <1>1, <1>4, <2>1, <2>2, <2>3 DEF MigrationSound, ClusteringDone
<1>5. CASE UNCHANGED vars
  BY <1>1, <1>5 DEF vars, MigrationSound, InKbs, InState, Registered, InGraph
<1>6. CASE phase' # "migrate" /\ copied' = {} /\ kbOf' = NoKb
  BY <1>6 DEF MigrationSound, NoKb
<1> QED BY <1>2, <1>3, <1>4, <1>5, <1>6, OutsideMigration

\* Outside consolidation its locals are empty and stay so.
LEMMA OutsideConsolidation ==
  ASSUME SleepInv, [Next]_vars, ~Consolidate, ~MigrationDone
  PROVE  \/ phase' # "consolidate" /\ kept' = {} /\ merge' = NoMerge
         \/ UNCHANGED <<kbVars, cycleVars>>
<1> USE DEF SleepInv, ConsolidationSound
<1>1. CASE Writers
  BY <1>1, WritersEffect, WritersKeepCycle
<1>2. CASE RequestSleep \/ Cluster
  BY <1>2 DEF RequestSleep, Cluster, ClassifyAndLinkPending, PersistCommunity,
              ClusteringDone, GoTo
<1>3. CASE Migrate
  BY <1>3 DEF Migrate, FindOrCreateKbForCommunity, DedupOrWrite, DeleteMigrated
<1>4. CASE Archive
  BY <1>4 DEF Archive, SetArchived, DropIndexNode
<1>5. CASE Rebuild \/ CycleAborts
  BY <1>5 DEF Rebuild, DeleteFocus, UpsertIndexNode, CycleCompletes, CycleAborts,
              GoTo
<1>6. CASE UNCHANGED vars
  BY <1>6 DEF vars
<1> QED BY <1>1, <1>2, <1>3, <1>4, <1>5, <1>6 DEF Next

LEMMA MergeKbSound ==
  ASSUME SleepInv, NEW k \in Kb, MergeKb(k)
  PROVE  ConsolidationSound'
<1>1. PICK target \in kept :
        /\ merge' = [from |-> k, into |-> target, left |-> entries[k]]
        /\ todo' = todo \ {k} /\ k \in todo
        /\ UNCHANGED <<kbVars, phase, kept>> /\ phase = "consolidate"
  BY DEF MergeKb
<1>2. Registered' = Registered
  BY <1>1 DEF Registered
<1>3. /\ merge'.from = k /\ merge'.into = target /\ merge'.left = entries[k]
  BY <1>1
<1>4. MergeSound'
  BY <1>1, <1>3 DEF MergeSound, SleepInv, ConsolidationSound
<1> QED BY <1>1, <1>2, <1>4 DEF SleepInv, ConsolidationSound

LEMMA MoveEntrySound ==
  ASSUME SleepInv, TypeOK', NEW e \in Node, MoveEntry(e)
  PROVE  ConsolidationSound'
<1>1. /\ Registered' = Registered /\ merge # NoMerge /\ merge.into \in Kb
      /\ e \in merge.left
      /\ \A k \in Kb : entries'[k] = IF k = merge.into THEN entries[k] \cup {e}
                                                        ELSE entries[k]
  BY MoveEffect
<1>2. merge' = [merge EXCEPT !.left = @ \ {e}] /\ UNCHANGED <<phase, todo, kept>>
  BY DEF MoveEntry
<1>3. merge'.from = merge.from /\ merge'.into = merge.into
        /\ merge'.left = merge.left \ {e}
  BY <1>2 DEF SleepInv, TypeOK
<1>4. MergeSound
  BY <1>1 DEF SleepInv, ConsolidationSound
<1>5. MergeSound'
  <2>1. merge.from \in Kb /\ merge.from # merge.into
    BY <1>4 DEF MergeSound
  <2>2. /\ entries'[merge.from] = entries[merge.from]
        /\ entries'[merge.into] = entries[merge.into] \cup {e}
    BY <1>1, <2>1
  <2>3. /\ entries[merge.from] \subseteq merge.left \cup entries[merge.into]
        /\ merge.left \subseteq entries[merge.from]
        /\ merge.into \in kept /\ merge.from \notin kept \cup todo
    BY <1>4 DEF MergeSound
  <2> QED BY <1>2, <1>3, <2>1, <2>2, <2>3 DEF MergeSound
<1>6. phase = "consolidate"
  BY DEF MoveEntry
<1> QED BY <1>1, <1>2, <1>5, <1>6 DEF SleepInv, ConsolidationSound

LEMMA DropRowSound ==
  ASSUME SleepInv, TypeOK', DropRow
  PROVE  ConsolidationSound'
<1>1. Registered' = Registered \ {merge.from} /\ merge # NoMerge
  BY DropRowEffect
<1>2. UNCHANGED <<entries, cycleVars>> /\ phase = "consolidate"
  BY DEF DropRow
<1>3. MergeSound
  BY <1>1 DEF SleepInv, ConsolidationSound
<1>4. MergeSound'
  BY <1>2, <1>3 DEF MergeSound
<1>5. merge.from \notin kept \cup todo
  BY <1>3 DEF MergeSound
<1> QED BY <1>1, <1>2, <1>4, <1>5 DEF SleepInv, ConsolidationSound

LEMMA ConsolidateKeepsSound ==
  ASSUME SleepInv, TypeOK', Consolidate
  PROVE  ConsolidationSound'
<1>1. CASE \E k \in Kb : KeepKb(k)
  <2>1. PICK k \in Kb : KeepKb(k)
    BY <1>1
  <2>2. Registered' = Registered
    BY <2>1 DEF KeepKb, Registered
  <2> QED BY <2>1, <2>2 DEF KeepKb, SleepInv, ConsolidationSound
<1>2. CASE UnlinkFile
  <2>1. Registered' = Registered
    BY <1>2, UnlinkEffect
  <2> QED BY <1>2, <2>1 DEF UnlinkFile, SleepInv, ConsolidationSound
<1>3. CASE ConsolidationDone
  BY <1>3 DEF ConsolidationDone, GoTo, ConsolidationSound
<1> QED BY <1>1, <1>2, <1>3, MergeKbSound, MoveEntrySound, DropRowSound
        DEF Consolidate

LEMMA NextConsolidation ==
  ASSUME SleepInv, [Next]_vars
  PROVE  ConsolidationSound'
<1>1. TypeOK' /\ ConsolidationSound
  BY NextType DEF SleepInv
<1>2. CASE Consolidate
  BY <1>1, <1>2, ConsolidateKeepsSound
<1>3. CASE MigrationDone
  <2>1. /\ phase' = "consolidate" /\ kept' = {} /\ merge' = NoMerge
        /\ registry' = registry /\ todo' \subseteq ToConsolidate
    BY <1>1, <1>3 DEF MigrationDone, GoTo, ConsolidationSound
  <2>2. Registered' = Registered /\ ToConsolidate \subseteq Registered
    BY <2>1 DEF Registered, ToConsolidate, InState
  <2> QED BY <2>1, <2>2 DEF ConsolidationSound
<1>4. CASE phase' # "consolidate" /\ kept' = {} /\ merge' = NoMerge
  BY <1>4 DEF ConsolidationSound
<1>5. CASE UNCHANGED <<kbVars, cycleVars>>
  BY <1>1, <1>5 DEF ConsolidationSound, MergeSound, Registered
<1> QED BY <1>2, <1>3, <1>4, <1>5, OutsideConsolidation

LEMMA NextIndexed ==
  ASSUME SleepInv, [Next]_vars
  PROVE  IndexUnderWay'
<1> USE DEF IndexUnderWay
<1>1. IndexUnderWay /\ TypeOK /\ PendingInGraph
  BY DEF SleepInv
<1>2. CASE Writers
  <2>1. InGraph \subseteq InGraph' /\ UNCHANGED <<kbVars, cycleVars>>
    BY <1>1, <1>2, WritersEffect, WritersKeepCycle
  <2> QED BY <1>1, <2>1 DEF InState
<1>3. CASE DeleteFocus
  BY <1>3 DEF DeleteFocus, GoTo, ToIndex, InState
<1>4. CASE \E k \in Kb : UpsertIndexNode(k)
  <2>1. PICK k \in Kb : UpsertIndexNode(k)
    BY <1>4
  <2>2. InGraph \subseteq InGraph' /\ UNCHANGED kbVars
    BY <1>1, <1>4, WritersEffect
  <2>3. k \in InGraph' /\ todo' = todo \ {k} /\ phase = "index"
    BY <1>1, <2>1, NodeFacts DEF UpsertIndexNode, InGraph, TypeOK
  <2> QED BY <1>1, <2>2, <2>3 DEF InState
<1>5. CASE UNCHANGED vars
  BY <1>1, <1>5 DEF vars, InState, InGraph
<1>6. CASE RequestSleep \/ Cluster
  BY <1>6 DEF RequestSleep, Cluster, ClassifyAndLinkPending, PersistCommunity,
              ClusteringDone, GoTo
<1>7. CASE Migrate
  BY <1>7 DEF Migrate, FindOrCreateKbForCommunity, DedupOrWrite, DeleteMigrated,
              MigrationDone, GoTo
<1>8. CASE Consolidate
  BY <1>8 DEF Consolidate, KeepKb, MergeKb, MoveEntry, DropRow, UnlinkFile,
              ConsolidationDone, GoTo
<1>9. CASE Archive
  BY <1>9 DEF Archive, SetArchived, DropIndexNode
<1>10. CASE CycleCompletes \/ CycleAborts
  BY <1>10 DEF CycleCompletes, CycleAborts, GoTo
<1> QED BY <1>2, <1>3, <1>4, <1>5, <1>6, <1>7, <1>8, <1>9, <1>10 DEF Next, Rebuild

-----------------------------------------------------------------------------
(* The invariant *)

LEMMA InitInv == Init => SleepInv
<1> SUFFICES ASSUME Init PROVE SleepInv
  OBVIOUS
<1>1. TypeOK
  BY SleepAssumption DEF Init, TypeOK, NoKb, NoMerge
<1>2. /\ InGraph = {} /\ Registered = {} /\ InState("active") = {}
  BY DEF Init, InGraph, Registered, InState
<1>3. \A k \in Kb : entries[k] = {} /\ kbOf[k] = 0
  BY DEF Init, NoKb
<1>4. /\ pending = {} /\ phase = "awake" /\ todo = {} /\ copied = {}
      /\ kbOf = NoKb /\ kept = {} /\ merge = NoMerge
  BY DEF Init
<1>5. MigrationSound /\ PendingInGraph /\ FilesAreCovered
  BY <1>2, <1>3, <1>4 DEF MigrationSound, PendingInGraph, FilesAreCovered
<1>6. ConsolidationSound /\ IndexUnderWay
  BY <1>4 DEF ConsolidationSound, IndexUnderWay
<1> QED BY <1>1, <1>5, <1>6 DEF SleepInv

LEMMA NextInv ==
  ASSUME SleepInv, [Next]_vars
  PROVE  SleepInv'
<1>1. TypeOK' /\ PendingInGraph'
  BY NextType, NextPending DEF SleepInv
<1>2. MigrationSound' /\ FilesAreCovered'
  BY NextMigration, NextFiles
<1>3. ConsolidationSound' /\ IndexUnderWay'
  BY NextConsolidation, NextIndexed
<1> QED BY <1>1, <1>2, <1>3 DEF SleepInv

LEMMA SleepInvariant == Spec => []SleepInv
BY InitInv, NextInv, PTL DEF Spec

-----------------------------------------------------------------------------
(* Theorems *)

\* The variables of the sleep cycle keep their types.
THEOREM TypeCorrect == Spec => []TypeOK
<1>1. SleepInv => TypeOK
  BY DEF SleepInv
<1> QED BY <1>1, SleepInvariant, PTL

\* No step of a cycle, and none at which it is cut short, takes an entry out
\* of every registered KB: merges and archiving lose nothing.
THEOREM NothingStoredIsLost == Spec => EntriesSurvive
<1> DEFINE A ==
      \A k \in Kb : registry[k] # "none" =>
        \A e \in entries[k] :
          \/ registry'[k] # "none" /\ e \in entries'[k]
          \/ \E other \in Kb : registry'[other] # "none" /\ e \in entries'[other]
<1>1. ASSUME SleepInv, [Next]_vars PROVE A
  <2> SUFFICES ASSUME NEW k \in Kb, registry[k] # "none", NEW e \in entries[k]
               PROVE  \E other \in Kb : registry'[other] # "none"
                                        /\ e \in entries'[other]
    OBVIOUS
  <2>1. InKbs \subseteq InKbs' /\ TypeOK /\ TypeOK'
    BY <1>1, NextKbs, NextType DEF KbStep, SleepInv
  <2>2. e \in InKbs
    BY <2>1, InKbsMeans DEF Registered
  <2>3. e \in InKbs'
    BY <2>1, <2>2
  <2>4. \E other \in Registered' : e \in entries'[other]
    BY <2>1, <2>3, InKbsMeans
  <2> QED BY <2>4 DEF Registered
<1>2. SleepInv /\ [Next]_vars => [A]_vars
  BY <1>1
<1> QED BY <1>2, SleepInvariant, PTL DEF Spec, EntriesSurvive

\* A cycle that completes leaves no active KB without an index node, even
\* though KBs are archived and nodes deleted just before, and items stored
\* meanwhile.
THEOREM NoActiveKbIsForgotten == Spec => ActiveKbsIndexed
<1> DEFINE A == CycleCompletes => InState("active") \subseteq InGraph
<1>1. ASSUME SleepInv PROVE A
  BY <1>1 DEF CycleCompletes, SleepInv, IndexUnderWay
<1>2. SleepInv /\ [Next]_vars => [A]_vars
  BY <1>1
<1> QED BY <1>2, SleepInvariant, PTL DEF Spec, ActiveKbsIndexed

-----------------------------------------------------------------------------
(* The refinement of LongTermMemory *)

Held == Item \cap (InGraph \cup InKbs)

Passing == {i \in Item \ InKbs : graph[i] = "FOCUS"}

LEMMA PassingIsHeld ==
  ASSUME TypeOK
  PROVE  Passing \subseteq Held
BY NodeFacts DEF Passing, Held, InGraph, TypeOK

\* What a step may do to the items.
Stores(i) == Held' = Held \cup {i} /\ Passing' \in {Passing, Passing \cup {i}}

Reconsiders == Held' = Held /\ Passing' \subseteq Held

Clearing == Held' = Held \ Passing /\ Passing' = {}

LEMMA WritersPromise ==
  ASSUME SleepInv, TypeOK', Writers
  PROVE  (\E i \in Item : Stores(i)) \/ Reconsiders
<1>1. PICK i \in Item : Ingest(i) \/ Remember(i) \/ UpdateNodeCategory(i)
  BY DEF Writers
<1>2. TypeOK /\ i \in Node /\ Item \subseteq Node
  BY NodeFacts DEF SleepInv
<1>3. InKbs' = InKbs
  <2>1. UNCHANGED kbVars
    BY <1>2, WritersEffect DEF SleepInv
  <2> QED BY <2>1 DEF InKbs, InState
<1>4. ASSUME NEW category \in Category, Insert(i, category) PROVE Stores(i)
  <2>1. /\ graph[i] = "none" /\ graph' = [graph EXCEPT ![i] = category]
        /\ category # "none"
    BY <1>4 DEF Insert, Category
  <2>2. InGraph' = InGraph \cup {i}
    BY <1>2, <2>1 DEF InGraph, TypeOK
  <2>3. Passing' \in {Passing, Passing \cup {i}}
    <3>1. \A j \in Item \ {i} : j \in Passing' <=> j \in Passing
      BY <1>2, <1>3, <2>1 DEF Passing, TypeOK
    <3>2. i \notin Passing
      BY <2>1 DEF Passing
    <3> QED BY <3>1, <3>2 DEF Passing
  <2> QED BY <1>3, <2>2, <2>3 DEF Stores, Held
<1>5. CASE UpdateNodeCategory(i)
  <2>1. PICK category \in Category : graph' = [graph EXCEPT ![i] = category]
    BY <1>5 DEF UpdateNodeCategory
  <2>2. InGraph' = InGraph
    BY <1>2, <1>5, <2>1 DEF UpdateNodeCategory, InGraph, Category, TypeOK
  <2>3. Held' = Held
    BY <1>3, <2>2 DEF Held
  <2>4. Passing' \subseteq Held'
    BY <1>2 DEF Passing, Held, InGraph
  <2> QED BY <2>3, <2>4 DEF Reconsiders
<1>6. CASE UNCHANGED <<graph, community, communities, kbVars, cycleVars>>
  <2>1. Held' = Held /\ Passing' = Passing
    BY <1>3, <1>6 DEF Held, Passing, InGraph
  <2> QED BY <1>2, <2>1, PassingIsHeld DEF Reconsiders
<1>7. "FACT" \in Category
  BY DEF Category
<1> QED BY <1>1, <1>4, <1>5, <1>6, <1>7 DEF Ingest, Remember

LEMMA ClassifyPromise ==
  ASSUME SleepInv, ClassifyAndLinkPending
  PROVE  Reconsiders
<1>1. PICK S \in SUBSET pending : \E f \in [S -> Category] :
        graph' = [n \in Node |-> IF n \in S THEN f[n] ELSE graph[n]]
  BY DEF ClassifyAndLinkPending
<1>2. "none" \notin Category /\ S \subseteq InGraph
  BY DEF Category, SleepInv, PendingInGraph
<1>3. InGraph' = InGraph
  BY <1>1, <1>2 DEF InGraph
<1>4. InKbs' = InKbs
  BY DEF ClassifyAndLinkPending, InKbs, InState
<1>5. Held' = Held
  BY <1>3, <1>4 DEF Held
<1>6. Passing' \subseteq Held'
  BY NodeFacts DEF Passing, Held, InGraph
<1> QED BY <1>5, <1>6 DEF Reconsiders

\* Nodes that are no items, or have an entry, may go.
LEMMA DeletionPromise ==
  ASSUME SleepInv, NEW S, DeleteNodes(S), S \cap Item \subseteq InKbs, InKbs' = InKbs
  PROVE  Reconsiders
<1>1. TypeOK /\ Item \subseteq Node
  BY NodeFacts DEF SleepInv
<1>2. InGraph' = InGraph \ S
  BY <1>1, DeletionEffect
<1>3. Held' = Held
  BY <1>2 DEF Held
<1>4. Passing' \subseteq Passing
  BY <1>1 DEF Passing, DeleteNodes, TypeOK
<1> QED BY <1>1, <1>3, <1>4, PassingIsHeld DEF Reconsiders

LEMMA DeleteFocusPromise ==
  ASSUME SleepInv, DeleteFocus
  PROVE  Clearing
<1> DEFINE S == {n \in Node : graph[n] \in Clears}
<1>1. TypeOK /\ Item \subseteq Node
  BY NodeFacts DEF SleepInv
<1>2. DeleteNodes(S) /\ UNCHANGED kbVars
  BY DEF DeleteFocus
<1>3. InGraph' = InGraph \ S /\ \A n \in Node : graph'[n] # "FOCUS"
  BY <1>1, <1>2 DEF DeleteNodes, InGraph, Clears, TypeOK
<1>4. InKbs' = InKbs
  BY <1>2 DEF InKbs, InState
<1>5. \A i \in Item : i \in S <=> graph[i] = "FOCUS"
  BY <1>1 DEF Clears
<1>6. Held' = Held \ Passing
  BY <1>3, <1>4, <1>5 DEF Held, Passing
<1>7. Passing' = {}
  BY <1>1, <1>3 DEF Passing
<1> QED BY <1>6, <1>7 DEF Clearing

LEMMA DedupPromise ==
  ASSUME SleepInv, TypeOK', NEW n \in Node, DedupOrWrite(n)
  PROVE  Reconsiders
<1>1. n \in InGraph /\ graph' = graph
  BY DEF DedupOrWrite, SleepInv, MigrationSound
<1>2. InKbs' = InKbs \cup {n}
  BY DedupEffect
<1>3. InGraph' = InGraph
  BY <1>1 DEF InGraph
<1>4. Held' = Held /\ Passing' \subseteq Passing
  BY <1>1, <1>2, <1>3 DEF Held, Passing
<1> QED BY <1>4, PassingIsHeld DEF Reconsiders, SleepInv

LEMMA UpsertPromise ==
  ASSUME SleepInv, NEW k \in Kb, UpsertIndexNode(k)
  PROVE  Reconsiders
<1>1. k \notin Item /\ Item \subseteq Node /\ TypeOK
  BY NodeFacts DEF SleepInv
<1>2. graph' = [graph EXCEPT ![k] = "FACT"] /\ UNCHANGED kbVars
  BY DEF UpsertIndexNode
<1>3. \A i \in Item : graph'[i] = graph[i]
  BY <1>1, <1>2 DEF TypeOK
<1>4. InKbs' = InKbs
  BY <1>2 DEF InKbs, InState
<1>5. Held' = Held /\ Passing' = Passing
  BY <1>1, <1>3, <1>4 DEF Held, Passing, InGraph
<1> QED BY <1>1, <1>5, PassingIsHeld DEF Reconsiders

LEMMA GraphStaysPromise ==
  ASSUME SleepInv, graph' = graph, InKbs' = InKbs
  PROVE  Reconsiders
<1>1. Held' = Held /\ Passing' = Passing
  BY DEF Held, Passing, InGraph
<1> QED BY <1>1, PassingIsHeld DEF Reconsiders, SleepInv

LEMMA NextPromise ==
  ASSUME SleepInv, [Next]_vars
  PROVE  (\E i \in Item : Stores(i)) \/ Reconsiders \/ Clearing
<1>1. TypeOK' /\ TypeOK /\ PendingInGraph
  BY NextType DEF SleepInv
<1>2. CASE Writers
  BY <1>1, <1>2, WritersPromise
<1>3. CASE ClassifyAndLinkPending
  BY <1>3, ClassifyPromise
<1>4. CASE \E n \in Node : DedupOrWrite(n)
  BY <1>1, <1>4, DedupPromise
<1>5. CASE \E n \in Node : DeleteMigrated(n)
  <2>1. PICK n \in Node : DeleteMigrated(n)
    BY <1>5
  <2>2. /\ DeleteNodes({n}) /\ {n} \cap Item \subseteq InKbs /\ UNCHANGED kbVars
    BY <2>1 DEF DeleteMigrated, MigratedNodes, SleepInv, MigrationSound
  <2>3. InKbs' = InKbs
    BY <2>2 DEF InKbs, InState
  <2> QED BY <2>2, <2>3, DeletionPromise
<1>6. CASE \E k \in Kb : DropIndexNode(k)
  <2>1. PICK k \in Kb : DropIndexNode(k)
    BY <1>6
  <2>2. DeleteNodes({k}) /\ {k} \cap Item \subseteq InKbs /\ UNCHANGED kbVars
    BY <2>1, NodeFacts DEF DropIndexNode
  <2>3. InKbs' = InKbs
    BY <2>2 DEF InKbs, InState
  <2> QED BY <2>2, <2>3, DeletionPromise
<1>7. CASE DeleteFocus
  BY <1>7, DeleteFocusPromise
<1>8. CASE \E k \in Kb : UpsertIndexNode(k)
  BY <1>8, UpsertPromise
<1>9. CASE graph' = graph /\ ~(\E n \in Node : DedupOrWrite(n))
  <2>1. InKbs' = InKbs
    BY <1>9, NextKbs DEF KbStep
  <2> QED BY <1>9, <2>1, GraphStaysPromise
<1>10. RequestSleep \/ PersistCommunity \/ ClusteringDone => graph' = graph
  BY DEF RequestSleep, PersistCommunity, ClusteringDone
<1>11. (\E c \in Kb : FindOrCreateKbForCommunity(c)) \/ MigrationDone => graph' = graph
  BY DEF FindOrCreateKbForCommunity, MigrationDone
<1>12. Consolidate => graph' = graph
  BY DEF Consolidate, KeepKb, MergeKb, MoveEntry, DropRow, UnlinkFile,
         ConsolidationDone
<1>13. (\E k \in Kb : SetArchived(k)) \/ CycleCompletes \/ CycleAborts
         \/ UNCHANGED vars => graph' = graph
  BY DEF SetArchived, CycleCompletes, CycleAborts, vars
<1> QED BY <1>2, <1>3, <1>4, <1>5, <1>6, <1>7, <1>8, <1>9, <1>10, <1>11, <1>12,
           <1>13 DEF Next, Cluster, Migrate, Archive, Rebuild

\* The sleep cycle, with everything that is stored beside it and wherever it
\* stops, implements the long-term memory the rest of the program relies on.
THEOREM SleepImplementsMemory == Spec => MemoryKeepsPromise
<1>1. Init => Promise!Init
  <2> SUFFICES ASSUME Init PROVE Promise!Init
    OBVIOUS
  <2>1. InGraph = {} /\ \A i \in Item : graph[i] = "none"
    BY NodeFacts DEF Init, InGraph
  <2>2. InKbs = {}
    BY DEF Init, InKbs, InState
  <2> QED BY <2>1, <2>2 DEF Promise!Init
<1>2. SleepInv /\ [Next]_vars => [Promise!Next]_(Promise!promiseVars)
  <2> SUFFICES ASSUME SleepInv, [Next]_vars
               PROVE  Promise!Next
    OBVIOUS
  <2>1. CASE \E i \in Item : Stores(i)
    BY <2>1 DEF Stores, Held, Passing, Promise!Next, Promise!Store
  <2>2. CASE Reconsiders
    BY <2>2 DEF Reconsiders, Held, Passing, Promise!Next, Promise!Reconsider
  <2>3. CASE Clearing
    BY <2>3 DEF Clearing, Held, Passing, Promise!Next, Promise!ClearFocus
  <2> QED BY <2>1, <2>2, <2>3, NextPromise
<1> QED BY <1>1, <1>2, SleepInvariant, PTL DEF Spec, MemoryKeepsPromise, Promise!Spec
=============================================================================
