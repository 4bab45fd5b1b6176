------------------------------ MODULE WebChat ------------------------------
(***************************************************************************)
(* The web chat of the dashboard plugin: WebChatHistory (a cache in memory *)
(* and a JSONL file), RuntimeWebChatService and the /ws/chat socket that   *)
(* feed it, the reply and mark-read tools, and the read-receipt handler on *)
(* the event bus.                                                          *)
(*                                                                         *)
(* Sockets run on the dashboard server's thread, tools and receipts on the *)
(* runtime's loop; the history has no lock.  An append enters the cache,   *)
(* then the file.  A rewrite truncates the file, reads the cache record by *)
(* record and reaches the file when it is closed, at its beginning.        *)
(*                                                                         *)
(* Each time the plugin is loaded it builds a new history from the file.   *)
(* A hot reload stops the old channel and its server, but nothing takes    *)
(* the old history's handler off the event bus.                            *)
(***************************************************************************)
EXTENDS Naturals, FiniteSets, Sequences, SequencesExt

CONSTANTS
  Text,        \* what the user may type
  Krakey,      \* the author of the replies
  Tab,         \* the browser tabs, each a socket with a receive loop
  Attempts,    \* bound: how often one text is sent, how many replies there are
  Loads        \* bound: how many histories are built

Thread == {"server", "runtime"}
Other(th) == IF th = "server" THEN "runtime" ELSE "server"

VARIABLES
  disk,        \* the JSONL file: a sequence of records
  cache,       \* _cache of each history built so far
  subscribed,  \* the histories whose receipt handler is on the event bus
  live,        \* the newest history: the one the tools use
  serves,      \* the history of the server that listens, or 0
  online,      \* the newest channel: not started yet, started, or stopped
  inbound,     \* the message each socket is working on
  op,          \* what each thread is doing to a history
  receipts,    \* receipt handlers scheduled by an event, not yet run
  attempt,     \* how often each text was sent
  offered,     \* the failed messages some tab shows, with a button to resend them
  pushed,      \* the messages that reached the stimulus buffer
  clobbered    \* whether a thread wrote the file in the middle of the other's rewrite

chatVars == <<disk, cache, subscribed, live, serves, online, inbound, op, receipts,
              attempt, offered, pushed, clobbered>>

Author == Text \cup {Krakey}
Ids == Author \X (1..Attempts)
Record == [id : Ids, status : {"none", "delivered", "failed", "read"}]
IdsIn(records) == {records[k].id : k \in DOMAIN records}
Failed(records) == {records[k].id : k \in {j \in DOMAIN records : records[j].status = "failed"}}

Nothing == [phase |-> "none"]
Idle == [step |-> "idle", at |-> 1, lines |-> <<>>, next |-> 1, ids |-> {}]

Init ==
  /\ disk = <<>> /\ cache = [i \in 1..Loads |-> <<>>]
  /\ subscribed = {1} /\ live = 1 /\ serves = 1 /\ online = "not_yet"
  /\ inbound = [b \in Tab |-> Nothing] /\ op = [th \in Thread |-> Idle] /\ receipts = {}
  /\ attempt = [a \in Author |-> 0] /\ offered = {} /\ pushed = {} /\ clobbered = FALSE

-----------------------------------------------------------------------------
(* One history, written by two threads *)

Rewriting(th) == op[th].step \in {"rewriting", "closing"}

Clobbers(th) == clobbered' = (clobbered \/ Rewriting(Other(th)))

\* append: into the cache, then a line at the end of the file.
EnterFirst(th, i, record) ==
  /\ op' = [op EXCEPT ![th] = [Idle EXCEPT !.step = "appending", !.at = i, !.lines = <<record>>]]
  /\ cache' = [cache EXCEPT ![i] = Append(@, record)]

\* The line is formatted from the record the cache shares, before or after a receipt.
Formatted(th) == {op[th].lines[1]} \cup
  {cache[op[th].at][k] : k \in {j \in DOMAIN cache[op[th].at] :
                                  cache[op[th].at][j].id = op[th].lines[1].id}}

AppendToFile(th) ==
  /\ op[th].step = "appending"
  /\ \E line \in Formatted(th) : disk' = Append(disk, line)
  /\ Clobbers(th)
  /\ op' = [op EXCEPT ![th] = Idle]
  /\ UNCHANGED <<cache, subscribed, live, serves, online, inbound, receipts, attempt,
                 offered, pushed>>

\* A record is marked or deleted, and the file truncated.
Truncate(th, i, records, rest) ==
  /\ cache' = [cache EXCEPT ![i] = records]
  /\ disk' = <<>> /\ Clobbers(th)
  /\ op' = [op EXCEPT ![th] = [Idle EXCEPT !.step = "rewriting", !.at = i, !.ids = rest]]

\* Mutant of WithLine: what has been read is not written back.
MutantWithLine(lines, record) == IF record.status = "read" THEN lines ELSE Append(lines, record)

WithLine(lines, record) == Append(lines, record)

\* The loop goes over the list the other thread may append to or delete from.
ReadNext(th) == LET o == op[th]  records == cache[o.at] IN
  /\ o.step = "rewriting"
  /\ op' = [op EXCEPT ![th] =
       IF o.next \in DOMAIN records
       THEN [o EXCEPT !.lines = WithLine(o.lines, records[o.next]), !.next = o.next + 1]
       ELSE [o EXCEPT !.step = "closing"]]
  /\ UNCHANGED <<disk, cache, subscribed, live, serves, online, inbound, receipts, attempt,
                 offered, pushed, clobbered>>

\* The lines go to the beginning of the file, over what the other thread has put there
\* meanwhile; of a line that is overwritten in part the rest cannot be read.
Overwritten(lines) ==
  IF lines = <<>> THEN {disk} ELSE {lines} \cup {lines \o SubSeq(disk, k, Len(disk)) : k \in 2..(Len(disk) + 1)}

CloseFile(th) ==
  /\ op[th].step = "closing"
  /\ disk' \in Overwritten(op[th].lines) /\ Clobbers(th)
  /\ op' = [op EXCEPT ![th] = [Idle EXCEPT !.step = IF op[th].ids = {} THEN "idle" ELSE "marking",
                                           !.at = op[th].at, !.ids = op[th].ids]]
  /\ UNCHANGED <<cache, subscribed, live, serves, online, inbound, receipts, attempt,
                 offered, pushed>>

Writing(th) == AppendToFile(th) \/ ReadNext(th) \/ CloseFile(th)

-----------------------------------------------------------------------------
(* The socket: receive loop, dispatch to the runtime, append. *)

\* The sockets share one loop, and the history's operations do not await.
Free(th) == op[th].step = "idle"

Begin(b, t) ==
  /\ serves # 0 /\ Free("server") /\ inbound[b] = Nothing /\ attempt[t] < Attempts
  /\ attempt' = [attempt EXCEPT ![t] = @ + 1]
  /\ inbound' = [inbound EXCEPT ![b] = [phase |-> "received", id |-> <<t, attempt[t] + 1>>]]

Send(b, t) ==
  /\ attempt[t] = 0 /\ Begin(b, t)
  /\ UNCHANGED <<disk, cache, subscribed, live, serves, online, op, receipts, offered, pushed,
                 clobbered>>

\* A failed message is sent again: the first record with its id is deleted, if there
\* is one; other tabs are not told.
Resend(b) == \E id \in offered : LET records == cache[serves] IN
  /\ Begin(b, id[1])
  /\ \/ /\ id \notin IdsIn(records) /\ UNCHANGED <<disk, cache, op, clobbered>>
     \/ \E k \in DOMAIN records :
          /\ records[k].id = id /\ \A j \in 1..(k - 1) : records[j].id # id
          /\ Truncate("server", serves, RemoveAt(records, k), {})
  /\ UNCHANGED <<subscribed, live, serves, online, receipts, offered, pushed>>

\* Delivered once the push has been done on the runtime's loop; failed when the channel
\* is not started or stopped, also in between.
Dispatched(ok) == IF ok THEN "delivered" ELSE "failed"

\* The message goes to the runtime before it is stored.
Dispatch(b) == \E ok \in {online = "yes" /\ serves = live, FALSE} :
  /\ Free("server") /\ inbound[b].phase = "received"
  /\ inbound' = [inbound EXCEPT ![b] =
                   [phase |-> "dispatched", id |-> @.id, status |-> Dispatched(ok)]]
  /\ pushed' = IF ok THEN pushed \cup {inbound[b].id} ELSE pushed
  /\ UNCHANGED <<disk, cache, subscribed, live, serves, online, op, receipts, attempt, offered,
                 clobbered>>

\* Stored, and shown in every tab.
Store(b) == LET m == inbound[b] IN
  /\ serves # 0 /\ Free("server") /\ m.phase = "dispatched"
  /\ EnterFirst("server", serves, [id |-> m.id, status |-> m.status])
  /\ offered' = IF m.status = "failed" THEN offered \cup {m.id} ELSE offered
  /\ inbound' = [inbound EXCEPT ![b] = Nothing]
  /\ UNCHANGED <<disk, subscribed, live, serves, online, receipts, attempt, pushed, clobbered>>

Socket(b) == (\E t \in Text : Send(b, t)) \/ Resend(b) \/ Dispatch(b) \/ Store(b)

-----------------------------------------------------------------------------
(* The tools and the read receipts, on the runtime's loop. *)

Reply ==
  /\ Free("runtime") /\ attempt[Krakey] < Attempts
  /\ attempt' = [attempt EXCEPT ![Krakey] = @ + 1]
  /\ EnterFirst("runtime", live, [id |-> <<Krakey, attempt[Krakey] + 1>>, status |-> "none"])
  /\ UNCHANGED <<disk, subscribed, live, serves, online, inbound, receipts, offered, pushed,
                 clobbered>>

Unread ==
  {cache[live][k].id : k \in {j \in DOMAIN cache[live] : cache[live][j].status = "delivered"}}

\* web_chat_mark_read publishes one event, for all or for those asked for; every
\* subscribed handler gets it.
MarkRead == \E ids \in SUBSET Unread \ {{}} :
  /\ Free("runtime")
  /\ receipts' = receipts \cup {[at |-> i, ids |-> ids] : i \in subscribed}
  /\ UNCHANGED <<disk, cache, subscribed, live, serves, online, inbound, op, attempt, offered,
                 pushed, clobbered>>

HandleReceipt == \E r \in receipts :
  /\ Free("runtime")
  /\ receipts' = receipts \ {r}
  /\ op' = [op EXCEPT !["runtime"] = [Idle EXCEPT !.step = "marking", !.at = r.at, !.ids = r.ids]]
  /\ UNCHANGED <<disk, cache, subscribed, live, serves, online, inbound, attempt, offered,
                 pushed, clobbered>>

\* update_status, for one id after the other: the first record with the id, if any.
UpdateStatus == \E id \in op["runtime"].ids :
  LET i == op["runtime"].at  records == cache[i]  rest == op["runtime"].ids \ {id} IN
  /\ op["runtime"].step = "marking"
  /\ \/ /\ id \notin IdsIn(records)
        /\ op' = [op EXCEPT !["runtime"] =
                    IF rest = {} THEN Idle ELSE [@ EXCEPT !.ids = rest]]
        /\ UNCHANGED <<disk, cache, clobbered>>
     \/ \E k \in DOMAIN records :
          /\ records[k].id = id /\ \A j \in 1..(k - 1) : records[j].id # id
          /\ Truncate("runtime", i, [records EXCEPT ![k].status = "read"], rest)
  /\ UNCHANGED <<subscribed, live, serves, online, inbound, receipts, attempt, offered, pushed>>

-----------------------------------------------------------------------------
(* Loading the plugin, starting and stopping its channel, losing the process. *)

\* The history is read when the channel is built, and its server started at once.
Build(file) ==
  /\ live < Loads /\ live' = live + 1 /\ online' = "not_yet"
  /\ cache' = [cache EXCEPT ![live + 1] = file]

StartChannel ==
  /\ online = "not_yet" /\ online' = "yes"
  /\ UNCHANGED <<disk, cache, subscribed, live, serves, inbound, op, receipts, attempt, offered,
                 pushed, clobbered>>

\* Sockets outlive the channel: messages arrive with nobody to push to.
StopChannel ==
  /\ online # "no" /\ online' = "no"
  /\ UNCHANGED <<disk, cache, subscribed, live, serves, inbound, op, receipts, attempt, offered,
                 pushed, clobbered>>

\* The server's thread ends, and with it what its sockets were doing.
ServerEnds ==
  /\ online = "no" /\ serves # 0 /\ Free("server")
  /\ serves' = 0 /\ inbound' = [b \in Tab |-> Nothing] /\ offered' = {}
  /\ UNCHANGED <<disk, cache, subscribed, live, online, op, receipts, attempt, pushed, clobbered>>

\* The stop gives up on the server after five seconds; then the port is taken.
Reload ==
  /\ online = "no" /\ Free("runtime") /\ Build(disk)
  /\ subscribed' = subscribed \cup {live'}
  /\ \/ serves = 0 /\ serves' = live' /\ offered' = Failed(disk)
     \/ serves # 0 /\ UNCHANGED <<serves, offered>>
  /\ UNCHANGED <<disk, inbound, op, receipts, attempt, pushed, clobbered>>

\* What a dying process leaves: the file, or a rewrite cut short.
LeftBehind == {disk} \cup
  UNION {UNION {Overwritten(lines) : lines \in Prefixes(op[th].lines)} :
           th \in {u \in Thread : Rewriting(u)}}

Restart == \E file \in LeftBehind :
  /\ Build(file) /\ disk' = file
  /\ subscribed' = {live'} /\ serves' = live' /\ receipts' = {} /\ offered' = Failed(file)
  /\ inbound' = [b \in Tab |-> Nothing] /\ op' = [th \in Thread |-> Idle] /\ clobbered' = FALSE
  /\ UNCHANGED <<attempt, pushed>>

ChatNext ==
  \/ \E b \in Tab : Socket(b)
  \/ \E th \in Thread : Writing(th)
  \/ Reply \/ MarkRead \/ HandleReceipt \/ UpdateStatus
  \/ StartChannel \/ StopChannel \/ ServerEnds \/ Reload \/ Restart

ChatSpec == Init /\ [][ChatNext]_chatVars

-----------------------------------------------------------------------------
(* Properties *)

ChatTypeOK ==
  /\ disk \in Seq(Record) /\ cache \in [1..Loads -> Seq(Record)]
  /\ live \in 1..Loads /\ live \in subscribed /\ subscribed \subseteq 1..Loads
  /\ serves \in 0..Loads /\ online \in {"not_yet", "yes", "no"} /\ clobbered \in BOOLEAN
  /\ \A b \in Tab : inbound[b].phase \in {"none", "received", "dispatched"}
  /\ op \in [Thread -> [step : {"idle", "appending", "rewriting", "closing", "marking"},
                        at : 1..Loads, lines : Seq(Record), next : Nat, ids : SUBSET Ids]]
  /\ \A r \in receipts : r.at \in subscribed /\ r.ids \subseteq Ids
  /\ attempt \in [Author -> 0..Attempts] /\ offered \subseteq Ids /\ pushed \subseteq Ids

\* A single history is in use: no older one is on the event bus or behind the sockets.
OneHistory == subscribed = {live} /\ serves \in {0, live}

\* "The file is the single source of truth": when neither thread is in the middle of an
\* operation, the file holds what the cache holds, so that neither a restart nor a second
\* instance loses a message or brings one back.  However appends, deletions, receipts and
\* replies of the two threads interleave, as long as neither writes the file between the
\* other's truncation and the end of its rewrite.
FileIsCache ==
  OneHistory /\ (\A th \in Thread : Free(th)) /\ ~ clobbered => IdsIn(disk) = IdsIn(cache[live])

\* The same without that.  Not so, and in no run: a reply that is written between a
\* receipt's truncation and its end is overwritten.
FileIsTruth == OneHistory /\ (\A th \in Thread : Free(th)) => IdsIn(disk) = IdsIn(cache[live])

\* Self is shown a text once.  Not so, and in no run: a second
\* tab still shows a message as failed that the first has sent again, and sends it again
\* too; the deletion finds nothing, and the message goes out all the same.
ToldOnce == \A t \in Text : Cardinality({id \in pushed : id[1] = t}) <= 1

\* The comment of the socket, "delete the old failed entry before creating a fresh one so
\* the history doesn't accumulate duplicates".  Not so, and in no run: a line that was
\* appended after a receipt's rewrite had read its record is in the file twice, and the
\* next process deletes one of the two.
ListedOnce == \A j, k \in DOMAIN cache[live] : cache[live][j].id = cache[live][k].id => j = k
=============================================================================
