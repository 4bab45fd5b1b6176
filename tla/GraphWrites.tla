------------------------------ MODULE GraphWrites ------------------------------
(***************************************************************************)
(* The writers of graph memory, one database statement at a time.  The     *)
(* runtime's writers run one after the other ("self"); the engine's web    *)
(* page serves an operator on a thread and an event loop of its own, over  *)
(* the same connection ("operator").  Between two statements of one the    *)
(* other may run any number of its own.                                    *)
(*                                                                         *)
(* A node is its name, category and whether the classifier still owes it a *)
(* category.  Texts, embeddings, importance and predicates are left out;   *)
(* whether a text is similar to a stored one is a choice.                  *)
(***************************************************************************)
EXTENDS Naturals, Sequences, FiniteSets

CONSTANTS
    Name,        \* node names the texts speak of
    Category,    \* categories the schema's CHECK admits
    Extraction,  \* what the extractor may answer: [items, links]
    NodeMax,     \* bound: ids handed out
    Jobs         \* bound: writes and edits asked for

VARIABLES
    nodes,       \* gm_nodes: id -> node
    lastId,      \* the AUTOINCREMENT sequence
    edges,       \* gm_edges: pairs of ids
    job,         \* writer -> what it is in the middle of
    raced,       \* an edge went in after the graph its check had walked changed
    asked        \* writes and edits asked for so far

graphVars == <<nodes, lastId, edges, job, raced, asked>>

Writer == {"self", "operator"}
Row == [name : Name, category : Category, auto : BOOLEAN, classified : BOOLEAN]

NoIds == [n \in {} |-> 0]
NoJob == [kind |-> "none", at |-> "rest", items |-> <<>>, links |-> <<>>,
          ids |-> NoIds, hit |-> 0, ends |-> {}, walked |-> {}]

GraphTypeOK ==
    /\ lastId \in 0..NodeMax /\ asked \in 0..Jobs /\ raced \in BOOLEAN
    /\ DOMAIN nodes \subseteq 1..lastId
    /\ \A i \in DOMAIN nodes : nodes[i] \in Row
    /\ edges \subseteq SUBSET (1..lastId)
    /\ DOMAIN job = Writer

GraphInit ==
    /\ nodes = [i \in {} |-> 0] /\ edges = {}
    /\ lastId = 0 /\ raced = FALSE /\ asked = 0
    /\ job = [p \in Writer |-> NoJob]

(***************************************************************************)
(* The tables.                                                             *)
(***************************************************************************)

\* Mutant of NextId: without AUTOINCREMENT, the id after the largest in use.
MutantNextId == 1 + CHOOSE m \in 0..lastId :
    /\ m = 0 \/ m \in DOMAIN nodes
    /\ \A i \in DOMAIN nodes : i <= m

\* AUTOINCREMENT: an id once given is never given again.
NextId == lastId + 1

Named(n) == {i \in DOMAIN nodes : nodes[i].name = n}

InsertNode(row) ==
    /\ lastId < NodeMax
    /\ nodes' = [i \in DOMAIN nodes \cup {NextId} |-> IF i = NextId THEN row ELSE nodes[i]]
    /\ lastId' = IF NextId > lastId THEN NextId ELSE lastId

\* ON DELETE CASCADE takes the edges along.
Cascade(E, gone) == {e \in E : gone \cap e = {}}

Delete(i) ==
    /\ nodes' = [k \in DOMAIN nodes \ {i} |-> nodes[k]]
    /\ edges' = Cascade(edges, {i})

\* Mutant of Reached: the walk stops at the neighbours.
MutantReached(a, E) == {a} \cup UNION {e \in E : a \in e}

\* would_create_cycle walks the edges either way, visiting no node twice.
Reached(a, E) ==
    LET near[k \in 0..NodeMax] ==
            IF k = 0 THEN {a}
            ELSE near[k - 1] \cup UNION {e \in E : e \cap near[k - 1] # {}}
    IN near[NodeMax]

WouldCreateCycle(pair, E) == \A a \in pair : pair \subseteq Reached(a, E)

(***************************************************************************)
(* Starting a write.  Each begins by awaiting the embedder or a model.     *)
(***************************************************************************)

Begin(p, record) ==
    /\ job[p] = NoJob /\ asked < Jobs
    /\ asked' = asked + 1
    /\ job' = [job EXCEPT ![p] = record]
    /\ UNCHANGED <<nodes, lastId, edges, raced>>

AutoIngest(n) ==
    Begin("self", [NoJob EXCEPT !.kind = "ingest", !.at = "embedding",
                   !.items = <<[name |-> n, category |-> "FACT"]>>])

ThenLinks(j) == IF j.links = <<>> THEN NoJob
                ELSE [j EXCEPT !.at = "link", !.hit = 0]

\* explicit_write for a decision's memory write, remember_extraction for a
\* compaction: the same steps, but only the first marks nodes as classified,
\* and only the second survives an item that fails.
Distil(kind, x) ==
    LET j == [NoJob EXCEPT !.kind = kind, !.items = x.items, !.links = x.links] IN
    Begin("self", IF x.items = <<>> THEN ThenLinks(j) ELSE [j EXCEPT !.at = "item"])

Pending == {i \in DOMAIN nodes : nodes[i].auto /\ ~nodes[i].classified}

\* The rows are read, then the classifier model is awaited.  It answers for any
\* of them, and may link two rows it was shown (of different names, here).
ClassifyAndLinkPending(i, s, t) ==
    LET Shown(k) == k \in Pending \/ nodes[k].classified
        linked == {nodes[s].name, nodes[t].name}
        asking == [NoJob EXCEPT !.kind = "classify", !.at = "classifying", !.hit = i]
    IN
    /\ i \in Pending /\ Shown(s) /\ Shown(t)
    /\ \/ s = t /\ Begin("self", asking)
       \/ /\ Cardinality(linked) = 2
          /\ Begin("self", [asking EXCEPT
                !.links = <<<<nodes[s].name, nodes[t].name>>>>,
                !.ids = [n \in linked |-> IF n = nodes[s].name THEN s ELSE t]])

\* POST /api/gm/edges with names.
CreateEdge(a, b) ==
    Begin("operator", [NoJob EXCEPT !.kind = "edge", !.at = "link", !.links = <<<<a, b>>>>])

(***************************************************************************)
(* The statements.                                                         *)
(***************************************************************************)

Goto(p, record) == job' = [job EXCEPT ![p] = record]
Onward(j) ==
    IF Len(j.items) > 1
    THEN [j EXCEPT !.at = "item", !.hit = 0, !.items = Tail(@)]
    ELSE ThenLinks([j EXCEPT !.items = <<>>])

\* vec_search over the rows: a similar one is bumped, else the text is a new FACT.
IngestHit(p) ==
    /\ job[p].at = "embedding" /\ DOMAIN nodes # {}
    /\ Goto(p, NoJob)
    /\ UNCHANGED <<nodes, lastId, edges, raced, asked>>

IngestMiss(p) ==
    /\ job[p].at = "embedding"
    /\ InsertNode([name |-> Head(job[p].items).name, category |-> "FACT",
                   auto |-> TRUE, classified |-> FALSE])
    /\ Goto(p, NoJob)
    /\ UNCHANGED <<edges, raced, asked>>

\* upsert_node's SELECT by name and category.
SelectItem(p) ==
    LET j == job[p]
        twin == {i \in Named(Head(j.items).name) :
                    nodes[i].category = Head(j.items).category}
    IN
    /\ j.at = "item"
    /\ \E hit \in (IF twin = {} THEN {0} ELSE twin) :
           Goto(p, [j EXCEPT !.at = "upsert", !.hit = hit])
    /\ UNCHANGED <<nodes, lastId, edges, raced, asked>>

\* ... and its UPDATE, of a row that may be gone by now, or its INSERT.
Upsert(p) ==
    LET j == job[p]
        item == Head(j.items)
        Kept(i) == [n \in DOMAIN j.ids \cup {item.name} |->
                       IF n = item.name THEN i ELSE j.ids[n]]
        After(i) == IF j.kind = "remember"
                    THEN [j EXCEPT !.at = "mark", !.hit = i, !.ids = Kept(i)]
                    ELSE Onward([j EXCEPT !.ids = Kept(i)])
    IN
    /\ j.at = "upsert"
    /\ \/ /\ j.hit # 0
          /\ Goto(p, After(j.hit))
          /\ UNCHANGED <<nodes, lastId>>
       \/ /\ j.hit = 0 /\ item.category \in Category
          /\ InsertNode([name |-> item.name, category |-> item.category,
                         auto |-> FALSE, classified |-> j.kind = "remember"])
          /\ Goto(p, After(NextId))
       \/ /\ j.hit = 0 /\ item.category \notin Category
          /\ Goto(p, IF j.kind = "remember" THEN NoJob ELSE Onward(j))
          /\ UNCHANGED <<nodes, lastId>>
    /\ UNCHANGED <<edges, raced, asked>>

\* set_metadata: a row that is gone raises, and the rest of the write with it.
Mark(p) ==
    LET j == job[p] IN
    /\ j.at = "mark"
    /\ \/ /\ j.hit \in DOMAIN nodes
          /\ nodes' = [nodes EXCEPT ![j.hit].classified = TRUE]
          /\ Goto(p, Onward(j))
       \/ /\ j.hit \notin DOMAIN nodes
          /\ Goto(p, NoJob)
          /\ UNCHANGED nodes
    /\ UNCHANGED <<lastId, edges, raced, asked>>

\* The classifier's answer is written by id, whatever became of the row.
Classified(p, c) ==
    LET j == job[p] IN
    /\ j.at = "classifying"
    /\ nodes' = [i \in DOMAIN nodes |->
                    IF i = j.hit
                    THEN [nodes[i] EXCEPT !.category = c, !.classified = TRUE]
                    ELSE nodes[i]]
    /\ Goto(p, ThenLinks(j))
    /\ UNCHANGED <<lastId, edges, raced, asked>>

\* Each end is an id this write holds, or the first row found by name.
Resolve(p) ==
    LET j == job[p]
        pair == Head(j.links)
        Ids(n) == IF n \in DOMAIN j.ids THEN {j.ids[n]} ELSE Named(n)
        rest == ThenLinks([j EXCEPT !.links = Tail(@)])
    IN
    /\ j.at = "link"
    /\ \/ \E s \in Ids(pair[1]), t \in Ids(pair[2]) :
              IF s = t THEN Goto(p, rest)
              ELSE Goto(p, [j EXCEPT !.at = "walk", !.ends = {s, t}])
       \/ (Ids(pair[1]) = {} \/ Ids(pair[2]) = {}) /\ Goto(p, rest)
    /\ UNCHANGED <<nodes, lastId, edges, raced, asked>>

Walk(p) ==
    LET j == job[p] IN
    /\ j.at = "walk"
    /\ IF WouldCreateCycle(j.ends, edges)
       THEN Goto(p, ThenLinks([j EXCEPT !.links = Tail(@), !.ends = {}]))
       ELSE Goto(p, [j EXCEPT !.at = "insert", !.walked = edges])
    /\ UNCHANGED <<nodes, lastId, edges, raced, asked>>

\* The INSERT fails on a duplicate, and on an end that is gone: the foreign key.
InsertEdge(p) ==
    LET j == job[p] IN
    /\ j.at = "insert"
    /\ \/ /\ j.ends \subseteq DOMAIN nodes /\ j.ends \notin edges
          /\ edges' = edges \cup {j.ends}
          /\ raced' = (raced \/ edges \ j.walked # {})
       \/ /\ ~(j.ends \subseteq DOMAIN nodes) \/ j.ends \in edges
          /\ UNCHANGED <<edges, raced>>
    /\ Goto(p, ThenLinks([j EXCEPT !.links = Tail(@), !.ends = {}, !.walked = {}]))
    /\ UNCHANGED <<nodes, lastId, asked>>

(***************************************************************************)
(* Edits of one statement: the operator's, and a decision's re-labelling.  *)
(***************************************************************************)

Edit == asked < Jobs /\ asked' = asked + 1 /\ UNCHANGED <<job, raced>>

CreateNode(n, c) ==
    /\ job["operator"] = NoJob /\ Edit
    /\ InsertNode([name |-> n, category |-> c, auto |-> TRUE, classified |-> FALSE])
    /\ UNCHANGED edges

DeleteNode(i) ==
    /\ job["operator"] = NoJob /\ Edit
    /\ Delete(i)
    /\ UNCHANGED lastId

\* By name: PATCH of one node, too, re-labels every node of that name.
UpdateNodeCategory(p, n, c) ==
    /\ job[p] = NoJob /\ Named(n) # {} /\ Edit
    /\ nodes' = [i \in DOMAIN nodes |->
                    IF i \in Named(n) THEN [nodes[i] EXCEPT !.category = c] ELSE nodes[i]]
    /\ UNCHANGED <<lastId, edges>>

Statement(p) ==
    \/ IngestHit(p) \/ IngestMiss(p)
    \/ SelectItem(p) \/ Upsert(p) \/ Mark(p)
    \/ \E c \in Category : Classified(p, c)
    \/ Resolve(p) \/ Walk(p) \/ InsertEdge(p)

GraphNext ==
    \/ \E n \in Name : AutoIngest(n)
    \/ \E kind \in {"remember", "extraction"}, x \in Extraction : Distil(kind, x)
    \/ \E i, s, t \in DOMAIN nodes : ClassifyAndLinkPending(i, s, t)
    \/ \E a, b \in Name : a # b /\ CreateEdge(a, b)
    \/ \E n \in Name, c \in Category : CreateNode(n, c)
    \/ \E i \in DOMAIN nodes : DeleteNode(i)
    \/ \E p \in Writer, n \in Name, c \in Category : UpdateNodeCategory(p, n, c)
    \/ \E p \in Writer : Statement(p)

GraphSpec == GraphInit /\ [][GraphNext]_graphVars

(***************************************************************************)
(* Properties.                                                             *)
(***************************************************************************)

\* A cycle is a set of edges none of whose ends lies on just one of them.
Forest ==
    \A F \in (SUBSET edges) \ {{}} :
        \E i \in UNION F : Cardinality({e \in F : i \in e}) = 1

(* tools/graph.py's claim, "cheaply preserves the acyclic invariant": the  *)
(* edges of graph memory never close a cycle, whoever writes.              *)
GraphStaysAcyclic == Forest

(* Acyclic as long as no edge went in between another's walk and its own   *)
(* insertion: cycles come from that window and from nothing else.          *)
AcyclicUnlessRaced == ~raced => Forest

(* Every edge of the table joins rows that are there (no walk and no       *)
(* recall meets a dangling id), and an edge that goes in joins rows of the *)
(* two names its writer was asked to link, although it holds their ids     *)
(* from before the operator deleted and created others.                    *)
EdgesJoinTheLinked ==
    [][/\ \A e \in edges' : e \subseteq DOMAIN nodes'
       /\ \A e \in edges' \ edges : \E p \in Writer :
            /\ job[p].at = "insert"
            /\ {nodes[i].name : i \in e}
                 = {Head(job[p].links)[1], Head(job[p].links)[2]}]_graphVars
================================================================================
