-------------------------- MODULE ChatServices_proofs --------------------------
(***************************************************************************)
(* Facts about the web chat for every set of texts and tabs and every      *)
(* number of sends and loads: its file holds what its cache holds.  And    *)
(* about the plugins, for every list of manifests: a reload at rest leaves *)
(* the registries, the records and the channels in agreement.  At the end, *)
(* the types of both.                                                      *)
(***************************************************************************)
EXTENDS MCServices, StimulusBuffer_proofs, FiniteSetTheorems, TLAPS

-----------------------------------------------------------------------------
(* The web chat: what its parts hold *)

\* Only what a user typed fails.
UserId == Text \X (1..Sends)
Kept == {r \in Chat!Record : r.status = "failed" => r.id \in UserId}

InFlight == [phase : {"none"}]
  \cup [phase : {"received"}, id : UserId]
  \cup [phase : {"dispatched"}, id : UserId, status : {"delivered", "failed"}]

FileWork == [step : {"idle", "appending", "rewriting", "closing", "marking"},
        at : 1..Loads, lines : Seq(Kept), next : Nat \ {0}, ids : SUBSET Chat!Ids]

\* The runtime's loop appends replies.
Apt(o, th) == o.step = "appending" =>
  o.lines # <<>> /\ (th = "runtime" => o.lines[1].id \notin UserId)

ChatStored == disk \in Seq(Kept) /\ cache \in [1..Loads -> Seq(Kept)]

Working == op \in [Chat!Thread -> FileWork] /\ \A th \in Chat!Thread : Apt(op[th], th)

ChatBuilt ==
  /\ live \in 1..Loads /\ live \in subscribed /\ subscribed \subseteq 1..Loads
  /\ serves \in 0..Loads /\ online \in {"not_yet", "yes", "no"} /\ clobbered \in BOOLEAN
  /\ \A r \in receipts : r.at \in subscribed /\ r.ids \subseteq Chat!Ids

Sent ==
  /\ inbound \in [Tab -> InFlight] /\ attempt \in [Chat!Author -> 0..Sends]
  /\ offered \subseteq UserId /\ pushed \subseteq Chat!Ids

ChatTypes == ChatStored /\ Working /\ ChatBuilt /\ Sent

RecordsOf(s) == {s[k] : k \in DOMAIN s}
LEMMA RemovedAt ==
  ASSUME NEW S, NEW s \in Seq(S), NEW k \in DOMAIN s
  PROVE  /\ Chat!RemoveAt(s, k) \in Seq(S)
         /\ RecordsOf(Chat!RemoveAt(s, k)) \subseteq RecordsOf(s)
         /\ \A r \in RecordsOf(s) : r # s[k] => r \in RecordsOf(Chat!RemoveAt(s, k))
<1>1. Chat!RemoveAt(s, k) = SubSeq(s, 1, k - 1) \o SubSeq(s, k + 1, Len(s))
  BY DEF Chat!RemoveAt
<1> DEFINE a == SubSeq(s, 1, k - 1)
           z == SubSeq(s, k + 1, Len(s))
<1>2. /\ a \in Seq(S) /\ Len(a) = k - 1 /\ \A j \in 1..(k - 1) : a[j] = s[j]
  OBVIOUS
<1>3. /\ z \in Seq(S) /\ Len(z) = Len(s) - k /\ \A j \in 1..(Len(s) - k) : z[j] = s[j + k]
  OBVIOUS
<1> HIDE DEF a, z
<1> Len(s) \in Nat /\ k \in 1..Len(s)
  OBVIOUS
<1>4. a \o z \in Seq(S) /\ Len(a \o z) = Len(s) - 1 /\ DOMAIN (a \o z) = 1..(Len(s) - 1)
  BY <1>2, <1>3
<1>5. \A j \in 1..(k - 1) : (a \o z)[j] = s[j]
  BY <1>2, <1>3
<1>6. \A j \in k..(Len(s) - 1) : (a \o z)[j] = s[j + 1]
  <2> SUFFICES ASSUME NEW j \in k..(Len(s) - 1) PROVE (a \o z)[j] = s[j + 1]
    OBVIOUS
  <2>1. (a \o z)[j] = z[j - Len(a)]
    BY <1>2, <1>3, SMTT(30)
  <2>2. j - Len(a) = j - k + 1 /\ j - k + 1 \in 1..(Len(s) - k)
    BY <1>2
  <2> QED BY <2>1, <2>2, <1>3, SMTT(30)
<1>7. \A r \in RecordsOf(a \o z) : r \in RecordsOf(s)
  <2> SUFFICES ASSUME NEW j \in 1..(Len(s) - 1) PROVE (a \o z)[j] \in RecordsOf(s)
    BY <1>4 DEF RecordsOf
  <2>1. CASE j < k
    <3>1. j \in 1..(k - 1) /\ j \in DOMAIN s
      BY <2>1
    <3> QED BY <3>1, <1>5 DEF RecordsOf
  <2>2. CASE j >= k
    <3>1. j \in k..(Len(s) - 1) /\ j + 1 \in DOMAIN s
      BY <2>2
    <3> QED BY <3>1, <1>6 DEF RecordsOf
  <2>3. j < k \/ j >= k
    OBVIOUS
  <2> QED BY <2>1, <2>2, <2>3
<1>8. ASSUME NEW i \in DOMAIN s, i # k PROVE s[i] \in RecordsOf(a \o z)
  <2>1. CASE i < k
    <3>1. i \in 1..(k - 1) /\ i \in DOMAIN (a \o z)
      BY <2>1, <1>4
    <3> QED BY <3>1, <1>5 DEF RecordsOf
  <2>2. CASE i > k
    <3>1. i - 1 \in k..(Len(s) - 1) /\ i - 1 \in DOMAIN (a \o z)
      BY <2>2, <1>4
    <3>2. (a \o z)[i - 1] = s[i]
      BY <3>1, <1>6
    <3> QED BY <3>1, <3>2 DEF RecordsOf
  <2> QED BY <1>8, <2>1, <2>2
<1>9. \A r \in RecordsOf(s) : r # s[k] => r \in RecordsOf(a \o z)
  BY <1>8 DEF RecordsOf
<1> QED BY <1>1, <1>4, <1>7, <1>9 DEF a, z

LEMMA AppendedIds ==
  ASSUME NEW S, NEW s \in Seq(S), NEW x \in S
  PROVE  Chat!IdsIn(Append(s, x)) = Chat!IdsIn(s) \cup {x.id}
<1>1. /\ DOMAIN Append(s, x) = DOMAIN s \cup {Len(s) + 1}
      /\ Append(s, x)[Len(s) + 1] = x
      /\ \A j \in DOMAIN s : Append(s, x)[j] = s[j]
  OBVIOUS
<1> QED BY <1>1 DEF Chat!IdsIn

LEMMA CutShort ==
  ASSUME NEW S, NEW s \in Seq(S), NEW t \in Chat!Prefixes(s)
  PROVE  t \in Seq(S)
<1>1. PICK l \in 0..Len(s) : t = SubSeq(s, 1, l)
  BY DEF Chat!Prefixes
<1> QED BY <1>1

LEMMA Laid ==
  ASSUME disk \in Seq(Kept), NEW s \in Seq(Kept), NEW f \in Chat!Overwritten(s)
  PROVE  f \in Seq(Kept) /\ (disk = <<>> => f = s)
<1>1. CASE s = <<>>
  BY <1>1 DEF Chat!Overwritten
<1>2. CASE f = s
  BY <1>2
<1>3. CASE s # <<>> /\ f # s
  <2>1. PICK k \in 2..(Len(disk) + 1) : f = s \o SubSeq(disk, k, Len(disk))
    BY <1>3 DEF Chat!Overwritten
  <2>2. SubSeq(disk, k, Len(disk)) \in Seq(Kept)
    BY <2>1
  <2>3. f \in Seq(Kept)
    BY <2>1, <2>2
  <2>4. disk # <<>>
    BY <2>1
  <2> QED BY <2>3, <2>4
<1> QED BY <1>1, <1>2, <1>3

LEMMA MarkedAt ==
  ASSUME NEW s \in Seq(Kept), NEW k \in DOMAIN s
  PROVE  /\ [s EXCEPT ![k].status = "read"] \in Seq(Kept)
         /\ Chat!IdsIn([s EXCEPT ![k].status = "read"]) = Chat!IdsIn(s)
<1> DEFINE m == [s EXCEPT ![k].status = "read"]
<1>1. \A j \in 1..Len(s) : s[j] \in Chat!Record
  BY DEF Kept
<1>2. /\ DOMAIN m = 1..Len(s)
      /\ \A j \in 1..Len(s) : j # k => m[j] = s[j]
      /\ m[k] = [s[k] EXCEPT !.status = "read"]
  OBVIOUS
<1>3. \A j \in 1..Len(s) : m[j] \in Kept /\ m[j].id = s[j].id
  BY <1>1, <1>2 DEF Kept, Chat!Record
<1>4. Len(s) \in Nat /\ m = [j \in 1..Len(s) |-> m[j]]
  OBVIOUS
<1> HIDE DEF m
<1>5. m \in Seq(Kept)
  BY <1>3, <1>4
<1>6. Chat!IdsIn(m) = Chat!IdsIn(s)
  BY <1>2, <1>3 DEF Chat!IdsIn
<1> QED BY <1>5, <1>6 DEF m

LEMMA FailedAreUsers ==
  ASSUME NEW s \in Seq(Kept) PROVE Chat!Failed(s) \subseteq UserId
<1>1. \A j \in DOMAIN s : s[j] \in Kept
  OBVIOUS
<1> QED BY <1>1 DEF Chat!Failed, Kept

LEMMA UsersAreIds == UserId \subseteq Chat!Ids
BY DEF UserId, Chat!Ids, Chat!Author

LEMMA ChatMoves ==
  ASSUME [ServicesNext]_servicesVars
  PROVE  Chat!ChatNext \/ UNCHANGED Chat!chatVars
<1>1. CASE UNCHANGED servicesVars BY <1>1 DEF servicesVars
<1>2. CASE ServicesNext
  <2>1. CASE ChatStep BY <2>1 DEF ChatStep
  <2>2. CASE ~ ChatStep
    BY <1>2, <2>2 DEF ServicesNext, BufferStep, McpStep, ReloadStep, BrowserStep, EnvStep,
      GraphStep, SearchStep, DecisionStep, LifeStep, FirstStep, EngineStep, InstallStep,
      LlmStep, OthersStill, Moves, Chat!chatVars
  <2> QED BY <2>1, <2>2
<1> QED BY <1>1, <1>2

LEMMA IdleIsApt ==
  ASSUME NEW th
  PROVE  Chat!Idle \in FileWork /\ Apt(Chat!Idle, th)
BY ChatAssumption DEF Chat!Idle, FileWork, Apt

\* A thread goes over to something apt.
LEMMA OneWorks ==
  ASSUME Working, NEW th \in Chat!Thread, NEW o \in FileWork, Apt(o, th),
         op' = [op EXCEPT ![th] = o]
  PROVE  Working'
BY DEF Working

LEMMA FileAppends ==
  ASSUME ChatTypes, NEW th \in Chat!Thread, Chat!AppendToFile(th)
  PROVE  /\ ChatTypes'
         /\ Chat!IdsIn(disk') = Chat!IdsIn(disk) \cup {op[th].lines[1].id}
<1>1. /\ op[th] \in FileWork /\ op[th].lines # <<>> /\ op[th].lines \in Seq(Kept)
      /\ op[th].at \in 1..Loads /\ cache[op[th].at] \in Seq(Kept)
  BY DEF ChatTypes, Working, ChatStored, Apt, FileWork, Chat!AppendToFile
<1>2. op[th].lines[1] \in Kept /\ \A k \in DOMAIN cache[op[th].at] : cache[op[th].at][k] \in Kept
  BY <1>1
<1>3. PICK line \in Chat!Formatted(th) : disk' = Append(disk, line)
  BY DEF Chat!AppendToFile
<1>4. line \in Kept /\ line.id = op[th].lines[1].id
  BY <1>2, <1>3 DEF Chat!Formatted
<1>5. ChatStored'
  BY <1>3, <1>4 DEF Chat!AppendToFile, ChatTypes, ChatStored
<1>6. op' = [op EXCEPT ![th] = Chat!Idle]
  BY DEF Chat!AppendToFile
<1>7. Working'
  BY <1>6, OneWorks, IdleIsApt DEF ChatTypes
<1>8. clobbered' \in BOOLEAN
  BY DEF Chat!AppendToFile, Chat!Clobbers, Chat!Rewriting, ChatTypes, ChatBuilt
<1>9. ChatBuilt' /\ Sent'
  BY <1>8 DEF Chat!AppendToFile, ChatTypes, ChatBuilt, Sent
<1>10. Chat!IdsIn(disk') = Chat!IdsIn(disk) \cup {op[th].lines[1].id}
  BY <1>3, <1>4, AppendedIds DEF ChatTypes, ChatStored
<1> QED BY <1>5, <1>7, <1>9, <1>10 DEF ChatTypes
LEMMA FurtherOn ==
  ASSUME NEW w \in FileWork, NEW l \in Seq(Kept), NEW n \in Nat \ {0}
  PROVE  [w EXCEPT !.lines = l, !.next = n] \in FileWork /\ [w EXCEPT !.lines = l, !.next = n].step = w.step
BY DEF FileWork

LEMMA ReadsOn ==
  ASSUME ChatTypes, NEW th \in Chat!Thread, Chat!ReadNext(th)
  PROVE  ChatTypes'
<1>1. /\ op[th] \in FileWork /\ op[th].lines \in Seq(Kept) /\ op[th].next \in Nat \ {0}
      /\ op[th].step = "rewriting"
      /\ op[th].at \in 1..Loads /\ cache[op[th].at] \in Seq(Kept)
  BY DEF ChatTypes, Working, ChatStored, FileWork, Chat!ReadNext
<1>2. CASE op[th].next \in DOMAIN cache[op[th].at]
  <2> DEFINE l == Append(op[th].lines, cache[op[th].at][op[th].next])
             n == op[th].next + 1
             w == op[th]
             o == [w EXCEPT !.lines = l, !.next = n]
  <2>1. cache[op[th].at][op[th].next] \in Kept
    BY <1>1, <1>2
  <2>2. l \in Seq(Kept) /\ n \in Nat \ {0} /\ w \in FileWork /\ w.step = "rewriting"
    BY <1>1, <2>1
  <2>3. op' = [op EXCEPT ![th] = o]
    <3>1. op' = [op EXCEPT ![th] = [op[th] EXCEPT
                   !.lines = Chat!WithLine(op[th].lines, cache[op[th].at][op[th].next]),
                   !.next = op[th].next + 1]]
      BY <1>2 DEF Chat!ReadNext
    <3> QED BY <3>1 DEF Chat!WithLine
  <2>5. o \in FileWork /\ o.step = "rewriting"
    <3> HIDE DEF l, n, w
    <3> QED BY <2>2, FurtherOn
  <2> HIDE DEF o
  <2>4. Working'
    BY <2>5, <2>3, OneWorks DEF Apt, ChatTypes
  <2> QED BY <2>4 DEF Chat!ReadNext, ChatTypes, ChatStored, ChatBuilt, Sent
<1>3. CASE op[th].next \notin DOMAIN cache[op[th].at]
  <2> DEFINE o == [op[th] EXCEPT !.step = "closing"]
  <2>1. o \in FileWork /\ o.step = "closing"
    BY <1>1 DEF FileWork
  <2>2. op' = [op EXCEPT ![th] = o]
    BY <1>3 DEF Chat!ReadNext
  <2>3. Working'
    BY <2>1, <2>2, OneWorks DEF Apt, ChatTypes
  <2> QED BY <2>3 DEF Chat!ReadNext, ChatTypes, ChatStored, ChatBuilt, Sent
<1> QED BY <1>2, <1>3

LEMMA FileCloses ==
  ASSUME ChatTypes, NEW th \in Chat!Thread, Chat!CloseFile(th)
  PROVE  ChatTypes' /\ (disk = <<>> => disk' = op[th].lines)
<1>1. op[th] \in FileWork /\ op[th].lines \in Seq(Kept)
  BY DEF ChatTypes, Working, FileWork
<1>2. disk' \in Seq(Kept) /\ (disk = <<>> => disk' = op[th].lines)
  BY <1>1, Laid DEF Chat!CloseFile, ChatTypes, ChatStored
<1> DEFINE o == [Chat!Idle EXCEPT !.step = IF op[th].ids = {} THEN "idle" ELSE "marking",
                                  !.at = op[th].at, !.ids = op[th].ids]
<1>3. o \in FileWork /\ o.step # "appending"
  BY <1>1, IdleIsApt DEF FileWork
<1>4. op' = [op EXCEPT ![th] = o]
  BY DEF Chat!CloseFile
<1>5. Working'
  BY <1>3, <1>4, OneWorks DEF Apt, ChatTypes
<1>6. clobbered' \in BOOLEAN
  BY DEF Chat!CloseFile, Chat!Clobbers, Chat!Rewriting, ChatTypes, ChatBuilt
<1> QED BY <1>2, <1>5, <1>6 DEF Chat!CloseFile, ChatTypes, ChatStored, ChatBuilt, Sent

LEMMA Enters ==
  ASSUME ChatTypes, NEW th \in Chat!Thread, NEW i \in 1..Loads, NEW r \in Kept,
         th = "runtime" => r.id \notin UserId, Chat!EnterFirst(th, i, r)
  PROVE  /\ Working' /\ cache' \in [1..Loads -> Seq(Kept)]
<1> DEFINE o == [Chat!Idle EXCEPT !.step = "appending", !.at = i, !.lines = <<r>>]
<1>1. <<r>> \in Seq(Kept) /\ <<r>> # <<>> /\ <<r>>[1] = r
  OBVIOUS
<1>2. Chat!Idle \in FileWork
  BY IdleIsApt
<1>3. o \in FileWork
  BY <1>1, <1>2 DEF FileWork
<1>4. o.lines = <<r>>
  BY <1>2 DEF FileWork
<1>5. Apt(o, th)
  BY <1>1, <1>4 DEF Apt
<1>6. op' = [op EXCEPT ![th] = o]
  BY DEF Chat!EnterFirst
<1>7. Working'
  BY <1>3, <1>5, <1>6, OneWorks DEF ChatTypes
<1> QED BY <1>7 DEF Chat!EnterFirst, ChatTypes, ChatStored

LEMMA Truncates ==
  ASSUME ChatTypes, NEW th \in Chat!Thread, NEW i \in 1..Loads, NEW s \in Seq(Kept),
         NEW rest \in SUBSET Chat!Ids, Chat!Truncate(th, i, s, rest)
  PROVE  Working' /\ ChatStored' /\ clobbered' \in BOOLEAN
<1> DEFINE o == [Chat!Idle EXCEPT !.step = "rewriting", !.at = i, !.ids = rest]
<1>1. o \in FileWork /\ o.step = "rewriting"
  BY IdleIsApt DEF FileWork
<1>2. op' = [op EXCEPT ![th] = o]
  BY DEF Chat!Truncate
<1>3. Working'
  BY <1>1, <1>2, OneWorks DEF Apt, ChatTypes
<1> QED BY <1>3 DEF Chat!Truncate, Chat!Clobbers, Chat!Rewriting, ChatTypes, ChatStored, ChatBuilt

LEMMA Begins ==
  ASSUME ChatTypes, NEW b \in Tab, NEW t \in Text, Chat!Begin(b, t),
         UNCHANGED <<offered, pushed>>
  PROVE  Sent'
<1>1. /\ attempt \in [Chat!Author -> 0..Sends] /\ t \in Chat!Author /\ attempt[t] \in 0..Sends
      /\ attempt[t] < Sends
  BY DEF ChatTypes, Sent, Chat!Author, Chat!Begin
<1>2. attempt[t] + 1 \in 1..Sends /\ attempt[t] + 1 \in 0..Sends
  BY <1>1, ChatAssumption
<1>3. <<t, attempt[t] + 1>> \in UserId
  BY <1>2 DEF UserId
<1> QED BY <1>1, <1>2, <1>3 DEF Chat!Begin, ChatTypes, Sent, InFlight

LEMMA SendStep ==
  ASSUME ChatTypes, NEW b \in Tab, NEW t \in Text, Chat!Send(b, t) PROVE ChatTypes'
<1>1. Sent'
  BY Begins DEF Chat!Send
<1> QED BY <1>1 DEF Chat!Send, ChatTypes, ChatStored, Working, ChatBuilt

LEMMA ResendStep ==
  ASSUME ChatTypes, NEW b \in Tab, Chat!Resend(b) PROVE ChatTypes'
<1>1. PICK id \in offered :
        /\ Chat!Begin(b, id[1])
        /\ \/ UNCHANGED <<disk, cache, op, clobbered>>
           \/ \E k \in DOMAIN cache[serves] :
                Chat!Truncate("server", serves, Chat!RemoveAt(cache[serves], k), {})
        /\ UNCHANGED <<subscribed, live, serves, online, receipts, offered, pushed>>
  BY DEF Chat!Resend
<1>2. id[1] \in Text
  BY DEF ChatTypes, Sent, UserId
<1>3. Sent'
  BY <1>1, <1>2, Begins
<1>4. ChatStored' /\ Working' /\ clobbered' \in BOOLEAN
  <2>1. CASE UNCHANGED <<disk, cache, op, clobbered>>
    BY <2>1 DEF ChatTypes, ChatStored, Working, ChatBuilt
  <2>2. ASSUME NEW k \in DOMAIN cache[serves],
               Chat!Truncate("server", serves, Chat!RemoveAt(cache[serves], k), {})
        PROVE  ChatStored' /\ Working' /\ clobbered' \in BOOLEAN
    <3>1. serves \in 1..Loads /\ cache[serves] \in Seq(Kept)
      BY <1>1 DEF Chat!Begin, ChatTypes, ChatBuilt, ChatStored
    <3>2. Chat!RemoveAt(cache[serves], k) \in Seq(Kept)
      BY <3>1, <2>2, RemovedAt
    <3>3. "server" \in Chat!Thread /\ {} \in SUBSET Chat!Ids
      BY DEF Chat!Thread
    <3> QED BY <2>2, <3>1, <3>2, <3>3, Truncates
  <2> QED BY <1>1, <2>1, <2>2
<1>5. ChatBuilt'
  BY <1>1, <1>4 DEF ChatTypes, ChatBuilt
<1> QED BY <1>3, <1>4, <1>5 DEF ChatTypes

LEMMA DispatchStep ==
  ASSUME ChatTypes, NEW b \in Tab, Chat!Dispatch(b) PROVE ChatTypes'
<1>1. inbound[b] \in [phase : {"received"}, id : UserId]
  BY DEF Chat!Dispatch, ChatTypes, Sent, InFlight
<1>2. PICK ok \in BOOLEAN :
        /\ inbound' = [inbound EXCEPT ![b] =
             [phase |-> "dispatched", id |-> inbound[b].id, status |-> Chat!Dispatched(ok)]]
        /\ pushed' = IF ok THEN pushed \cup {inbound[b].id} ELSE pushed
  BY DEF Chat!Dispatch
<1>3. inbound' \in [Tab -> InFlight]
  BY <1>1, <1>2 DEF ChatTypes, Sent, InFlight, Chat!Dispatched
<1>4. pushed' \subseteq Chat!Ids
  BY <1>1, <1>2, UsersAreIds DEF ChatTypes, Sent
<1> QED BY <1>3, <1>4 DEF Chat!Dispatch, ChatTypes, ChatStored, Working, ChatBuilt, Sent

LEMMA StoreStep ==
  ASSUME ChatTypes, NEW b \in Tab, Chat!Store(b) PROVE ChatTypes'
<1>1. inbound[b] \in [phase : {"dispatched"}, id : UserId, status : {"delivered", "failed"}]
  BY DEF Chat!Store, ChatTypes, Sent, InFlight
<1> DEFINE r == [id |-> inbound[b].id, status |-> inbound[b].status]
<1>2. r \in Kept
  BY <1>1, UsersAreIds DEF Kept, Chat!Record
<1>3. serves \in 1..Loads /\ "server" \in Chat!Thread /\ Chat!EnterFirst("server", serves, r)
  BY DEF Chat!Store, ChatTypes, ChatBuilt, Chat!Thread
<1>4. Working' /\ cache' \in [1..Loads -> Seq(Kept)]
  BY <1>2, <1>3, Enters
<1>5. inbound' \in [Tab -> InFlight]
  BY DEF Chat!Store, ChatTypes, Sent, InFlight, Chat!Nothing
<1>6. offered' \subseteq UserId
  BY <1>1 DEF Chat!Store, ChatTypes, Sent
<1> QED BY <1>4, <1>5, <1>6 DEF Chat!Store, ChatTypes, ChatStored, ChatBuilt, Sent

LEMMA ReplyStep ==
  ASSUME ChatTypes, Chat!Reply PROVE ChatTypes'
<1> DEFINE n == attempt[Krakey] + 1
           r == [id |-> <<Krakey, n>>, status |-> "none"]
<1>1. /\ attempt \in [Chat!Author -> 0..Sends] /\ Krakey \in Chat!Author
      /\ attempt[Krakey] \in 0..Sends /\ attempt[Krakey] < Sends
  BY DEF ChatTypes, Sent, Chat!Author, Chat!Reply
<1>2. n \in 1..Sends /\ n \in 0..Sends
  BY <1>1, ChatAssumption
<1>3. r \in Kept /\ r.id \notin UserId
  BY <1>2, ChatAssumption DEF Kept, Chat!Record, Chat!Ids, Chat!Author, UserId
<1>4. live \in 1..Loads /\ "runtime" \in Chat!Thread /\ Chat!EnterFirst("runtime", live, r)
  BY DEF Chat!Reply, ChatTypes, ChatBuilt, Chat!Thread
<1>5. Working' /\ cache' \in [1..Loads -> Seq(Kept)]
  BY <1>3, <1>4, Enters
<1>6. attempt' \in [Chat!Author -> 0..Sends]
  BY <1>1, <1>2 DEF Chat!Reply
<1> QED BY <1>5, <1>6 DEF Chat!Reply, ChatTypes, ChatStored, ChatBuilt, Sent

LEMMA UpdateStep ==
  ASSUME ChatTypes, Chat!UpdateStatus
  PROVE  ChatTypes'
<1> DEFINE o == op["runtime"]
<1>1. /\ o \in FileWork /\ o.at \in 1..Loads /\ o.ids \in SUBSET Chat!Ids /\ o.step = "marking"
      /\ cache[o.at] \in Seq(Kept) /\ "runtime" \in Chat!Thread
  BY DEF ChatTypes, Working, ChatStored, FileWork, Chat!Thread, Chat!UpdateStatus
<1>2. PICK id \in o.ids :
        /\ \/ /\ op' = [op EXCEPT !["runtime"] = IF o.ids \ {id} = {} THEN Chat!Idle
                                                 ELSE [o EXCEPT !.ids = o.ids \ {id}]]
              /\ UNCHANGED <<disk, cache, clobbered>>
           \/ \E k \in DOMAIN cache[o.at] :
                Chat!Truncate("runtime", o.at, [cache[o.at] EXCEPT ![k].status = "read"], o.ids \ {id})
        /\ UNCHANGED <<subscribed, live, serves, online, inbound, receipts, attempt, offered, pushed>>
  BY DEF Chat!UpdateStatus
<1> HIDE DEF o
<1>3. ChatStored' /\ Working' /\ clobbered' \in BOOLEAN
  <2>1. CASE /\ op' = [op EXCEPT !["runtime"] = IF o.ids \ {id} = {} THEN Chat!Idle
                                                ELSE [o EXCEPT !.ids = o.ids \ {id}]]
             /\ UNCHANGED <<disk, cache, clobbered>>
    <3>1. [o EXCEPT !.ids = o.ids \ {id}] \in FileWork /\ [o EXCEPT !.ids = o.ids \ {id}].step = "marking"
      BY <1>1 DEF FileWork
    <3>2. Working'
      <4>1. CASE o.ids \ {id} = {}
        BY <2>1, <4>1, <1>1, IdleIsApt, OneWorks DEF ChatTypes
      <4>2. CASE o.ids \ {id} # {}
        BY <2>1, <4>2, <1>1, <3>1, OneWorks DEF ChatTypes, Apt
      <4> QED BY <4>1, <4>2
    <3> QED BY <2>1, <3>2 DEF ChatTypes, ChatStored, ChatBuilt
  <2>2. ASSUME NEW k \in DOMAIN cache[o.at],
               Chat!Truncate("runtime", o.at, [cache[o.at] EXCEPT ![k].status = "read"], o.ids \ {id})
        PROVE  ChatStored' /\ Working' /\ clobbered' \in BOOLEAN
    <3>1. [cache[o.at] EXCEPT ![k].status = "read"] \in Seq(Kept)
      BY <1>1, <2>2, MarkedAt
    <3>2. o.ids \ {id} \in SUBSET Chat!Ids
      BY <1>1
    <3> QED BY <1>1, <2>2, <3>1, <3>2, Truncates
  <2> QED BY <1>2, <2>1, <2>2
<1> QED BY <1>2, <1>3 DEF ChatTypes, ChatBuilt, Sent

LEMMA MarkStep ==
  ASSUME ChatTypes, Chat!MarkRead PROVE ChatTypes'
<1>1. PICK ids \in SUBSET Chat!Unread :
        receipts' = receipts \cup {[at |-> i, ids |-> ids] : i \in subscribed}
  BY DEF Chat!MarkRead
<1>2. \A k \in DOMAIN cache[live] : cache[live][k] \in Kept
  <2>1. cache[live] \in Seq(Kept)
    BY DEF ChatTypes, ChatBuilt, ChatStored
  <2> QED BY <2>1
<1>3. ids \subseteq Chat!Ids
  BY <1>2 DEF Chat!Unread, Kept, Chat!Record
<1>4. \A r \in receipts' : r.at \in subscribed /\ r.ids \subseteq Chat!Ids
  BY <1>1, <1>3 DEF ChatTypes, ChatBuilt
<1> QED BY <1>4 DEF Chat!MarkRead, ChatTypes, ChatStored, Working, ChatBuilt, Sent

LEMMA HandleStep ==
  ASSUME ChatTypes, Chat!HandleReceipt PROVE ChatTypes'
<1>1. PICK r \in receipts :
        /\ receipts' = receipts \ {r}
        /\ op' = [op EXCEPT !["runtime"] =
                    [Chat!Idle EXCEPT !.step = "marking", !.at = r.at, !.ids = r.ids]]
  BY DEF Chat!HandleReceipt
<1> DEFINE o == [Chat!Idle EXCEPT !.step = "marking", !.at = r.at, !.ids = r.ids]
<1>2. r.at \in 1..Loads /\ r.ids \in SUBSET Chat!Ids
  BY DEF ChatTypes, ChatBuilt
<1>3. o \in FileWork /\ o.step = "marking"
  BY <1>2, IdleIsApt DEF FileWork
<1>4. op' = [op EXCEPT !["runtime"] = o] /\ "runtime" \in Chat!Thread
  BY <1>1 DEF Chat!Thread
<1> HIDE DEF o
<1>5. Working'
  BY <1>3, <1>4, OneWorks DEF Apt, ChatTypes
<1> QED BY <1>1, <1>5 DEF Chat!HandleReceipt, ChatTypes, ChatStored, ChatBuilt, Sent

LEMMA ChannelStep ==
  ASSUME ChatTypes, Chat!StartChannel \/ Chat!StopChannel PROVE ChatTypes'
BY DEF Chat!StartChannel, Chat!StopChannel, ChatTypes, ChatStored, Working, ChatBuilt, Sent

LEMMA EndStep ==
  ASSUME ChatTypes, Chat!ServerEnds PROVE ChatTypes'
<1>1. inbound' = [b \in Tab |-> Chat!Nothing] /\ Chat!Nothing \in InFlight
  BY DEF Chat!ServerEnds, Chat!Nothing, InFlight
<1>2. serves' \in 0..Loads /\ offered' = {}
  BY ChatAssumption DEF Chat!ServerEnds
<1>3. Sent' /\ ChatBuilt'
  BY <1>1, <1>2 DEF Chat!ServerEnds, ChatTypes, ChatBuilt, Sent
<1> QED BY <1>3 DEF Chat!ServerEnds, ChatTypes, ChatStored, Working

LEMMA NewHistory ==
  ASSUME ChatTypes, NEW f \in Seq(Kept), Chat!Build(f)
  PROVE  /\ live \in 1..Loads /\ live' = live + 1 /\ live' \in 1..Loads /\ online' = "not_yet"
         /\ cache' \in [1..Loads -> Seq(Kept)] /\ cache'[live'] = f
<1>1. /\ live \in 1..Loads /\ live < Loads /\ live' = live + 1 /\ online' = "not_yet"
      /\ cache' = [cache EXCEPT ![live + 1] = f] /\ cache \in [1..Loads -> Seq(Kept)]
  BY DEF ChatTypes, ChatBuilt, ChatStored, Chat!Build
<1>2. live' \in 1..Loads
  BY <1>1, ChatAssumption
<1>3. cache' \in [1..Loads -> Seq(Kept)] /\ cache'[live'] = f
  BY <1>1, <1>2
<1> QED BY <1>1, <1>2, <1>3

LEMMA ReloadStepTyped ==
  ASSUME ChatTypes, Chat!Reload PROVE ChatTypes'
<1>1. disk \in Seq(Kept) /\ Chat!Build(disk)
  BY DEF ChatTypes, ChatStored, Chat!Reload
<1>2. /\ live' = live + 1 /\ live' \in 1..Loads /\ online' = "not_yet"
      /\ cache' \in [1..Loads -> Seq(Kept)]
  BY <1>1, NewHistory
<1>3. /\ subscribed' = subscribed \cup {live'}
      /\ UNCHANGED <<disk, inbound, op, receipts, attempt, pushed, clobbered>>
      /\ \/ serves' = live' /\ offered' = Chat!Failed(disk)
         \/ UNCHANGED <<serves, offered>>
  BY DEF Chat!Reload
<1>4. offered' \subseteq UserId /\ serves' \in 0..Loads
  <2>1. 1..Loads \subseteq 0..Loads
    BY ChatAssumption
  <2> QED BY <1>1, <1>2, <1>3, <2>1, FailedAreUsers DEF ChatTypes, Sent, ChatBuilt
<1>5. ChatBuilt'
  BY <1>2, <1>3, <1>4 DEF ChatTypes, ChatBuilt
<1>6. ChatStored' /\ Working' /\ Sent'
  BY <1>2, <1>3, <1>4 DEF ChatTypes, ChatStored, Working, Sent
<1> QED BY <1>5, <1>6 DEF ChatTypes

LEMMA RestartStep ==
  ASSUME ChatTypes, Chat!Restart
  PROVE  /\ ChatTypes' /\ disk' \in Seq(Kept) /\ live' \in 1..Loads
         /\ cache'[live'] = disk'
<1>1. PICK f \in Chat!LeftBehind : Chat!Build(f) /\ disk' = f /\ offered' = Chat!Failed(f)
  BY DEF Chat!Restart
<1>2. f \in Seq(Kept)
  <2>1. CASE f = disk
    BY <2>1 DEF ChatTypes, ChatStored
  <2>2. CASE f # disk
    <3>1. PICK th \in Chat!Thread : \E lines \in Chat!Prefixes(op[th].lines) : f \in Chat!Overwritten(lines)
      BY <1>1, <2>2 DEF Chat!LeftBehind
    <3>2. PICK lines \in Chat!Prefixes(op[th].lines) : f \in Chat!Overwritten(lines)
      BY <3>1
    <3>3. op[th].lines \in Seq(Kept)
      BY DEF ChatTypes, Working, FileWork
    <3>4. lines \in Seq(Kept)
      BY <3>2, <3>3, CutShort
    <3> QED BY <3>2, <3>4, Laid DEF ChatTypes, ChatStored
  <2> QED BY <2>1, <2>2
<1>3. /\ live' \in 1..Loads /\ online' = "not_yet"
      /\ cache' \in [1..Loads -> Seq(Kept)] /\ cache'[live'] = f
  BY <1>1, <1>2, NewHistory
<1>4. /\ subscribed' = {live'} /\ serves' = live' /\ receipts' = {}
      /\ inbound' = [b \in Tab |-> Chat!Nothing] /\ op' = [th \in Chat!Thread |-> Chat!Idle]
      /\ clobbered' = FALSE /\ UNCHANGED <<attempt, pushed>>
  BY DEF Chat!Restart
<1>5. 1..Loads \subseteq 0..Loads
  BY ChatAssumption
<1>6. ChatBuilt'
  BY <1>3, <1>4, <1>5 DEF ChatBuilt
<1>7. Working'
  BY <1>4, IdleIsApt DEF Working
<1>8. offered' \subseteq UserId
  BY <1>1, <1>2, FailedAreUsers
<1>9. Sent'
  BY <1>4, <1>8 DEF ChatTypes, Sent, InFlight, Chat!Nothing
<1> QED BY <1>1, <1>2, <1>3, <1>6, <1>7, <1>9 DEF ChatTypes, ChatStored

LEMMA ChatStaysTyped ==
  /\ ServicesInit => ChatTypes
  /\ ChatTypes /\ [ServicesNext]_servicesVars => ChatTypes'
  /\ ChatTypes => Chat!ChatTypeOK
<1>1. ASSUME ServicesInit PROVE ChatTypes
  <2>1. Chat!Init
    BY <1>1 DEF ServicesInit
  <2>2. <<>> \in Seq(Kept) /\ 1 \in 1..Loads /\ 1 \in 0..Loads /\ 0 \in 0..Sends
    BY ChatAssumption
  <2>3. ChatStored /\ ChatBuilt /\ Sent
    BY <2>1, <2>2 DEF Chat!Init, Chat!Nothing, InFlight, ChatStored, ChatBuilt, Sent
  <2>4. Working
    BY <2>1, IdleIsApt DEF Chat!Init, Working
  <2> QED BY <2>3, <2>4 DEF ChatTypes
<1>2. ASSUME ChatTypes, Chat!ChatNext PROVE ChatTypes'
  BY <1>2, SendStep, ResendStep, DispatchStep, StoreStep, FileAppends, ReadsOn, FileCloses,
     ReplyStep, MarkStep, HandleStep, UpdateStep, ChannelStep, EndStep, ReloadStepTyped, RestartStep
     DEF Chat!ChatNext, Chat!Socket, Chat!Writing
<1>3. ASSUME ChatTypes, UNCHANGED Chat!chatVars PROVE ChatTypes'
  BY <1>3 DEF Chat!chatVars, ChatTypes, ChatStored, Working, ChatBuilt, Sent
<1>4. ASSUME ChatTypes PROVE Chat!ChatTypeOK
  <2>1. \A s \in Seq(Kept) : s \in Seq(Chat!Record)
    BY DEF Kept
  <2>2. disk \in Seq(Chat!Record) /\ cache \in [1..Loads -> Seq(Chat!Record)]
    BY <1>4, <2>1 DEF ChatTypes, ChatStored
  <2>3. \A b \in Tab : inbound[b].phase \in {"none", "received", "dispatched"}
    BY <1>4 DEF ChatTypes, Sent, InFlight
  <2>4. op \in [Chat!Thread -> [step : {"idle", "appending", "rewriting", "closing", "marking"},
                        at : 1..Loads, lines : Seq(Chat!Record), next : Nat, ids : SUBSET Chat!Ids]]
    BY <1>4, <2>1 DEF ChatTypes, Working, FileWork
  <2>5. offered \subseteq Chat!Ids
    BY <1>4, UsersAreIds DEF ChatTypes, Sent
  <2> QED BY <1>4, <2>2, <2>3, <2>4, <2>5 DEF ChatTypes, ChatBuilt, Sent, Chat!ChatTypeOK
<1> QED BY <1>1, <1>2, <1>3, <1>4, ChatMoves

-----------------------------------------------------------------------------
(* The web chat: its file *)

Known == Chat!IdsIn(cache[live])

\* What a thread has put into the cache and not yet into the file.
Pending(o) == IF o.step = "appending" THEN {o.lines[1].id} ELSE {}

Own ==
  /\ serves \in {0, live}
  /\ \A th \in Chat!Thread : op[th].step # "idle" => op[th].at = live

Entered == \A th \in Chat!Thread : Pending(op[th]) \subseteq Known

Alternate == \A th \in Chat!Thread : Chat!Rewriting(th) => ~ Chat!Rewriting(Chat!Other(th))

InFile == (\A th \in Chat!Thread : ~ Chat!Rewriting(th)) =>
  /\ Chat!IdsIn(disk) \subseteq Known
  /\ \A x \in Known : x \in Chat!IdsIn(disk) \/ \E th \in Chat!Thread : x \in Pending(op[th])

\* o has been reading the cache while the other thread is at p.
InHand(o, p) ==
  /\ Chat!IdsIn(o.lines) \subseteq Known
  /\ o.step = "rewriting" =>
       /\ o.next <= Len(cache[live]) + 1
       /\ \A j \in DOMAIN cache[live] : j < o.next => cache[live][j].id \in Chat!IdsIn(o.lines)
  /\ o.step = "closing" => Known \subseteq Chat!IdsIn(o.lines) \cup Pending(p)

Rewritten == \A th \in Chat!Thread : Chat!Rewriting(th) =>
  disk = <<>> /\ InHand(op[th], op[Chat!Other(th)])

Agrees == Entered /\ Alternate /\ InFile /\ Rewritten

FileInv == subscribed = {live} => Own /\ (~ clobbered => Agrees)

LEMMA TwoThreads ==
  \A th \in Chat!Thread :
    /\ Chat!Other(th) \in Chat!Thread /\ Chat!Other(th) # th
    /\ Chat!Other(Chat!Other(th)) = th
    /\ \A u \in Chat!Thread : u = th \/ u = Chat!Other(th)
BY DEF Chat!Thread, Chat!Other

\* What a thread that starts, ends or reads does to its own part.
LEMMA OnlyOne ==
  ASSUME ChatTypes, NEW th \in Chat!Thread, NEW o, op' = [op EXCEPT ![th] = o]
  PROVE  op'[th] = o /\ op'[Chat!Other(th)] = op[Chat!Other(th)]
BY TwoThreads DEF ChatTypes, Working

LEMMA InFileAppends ==
  ASSUME ChatTypes, Own, Agrees, NEW th \in Chat!Thread, Chat!AppendToFile(th), ~ clobbered'
  PROVE  Own' /\ Agrees'
<1> DEFINE u == Chat!Other(th)
<1>1. /\ u \in Chat!Thread /\ u # th /\ Chat!Other(u) = th /\ Chat!Other(th) = u
      /\ \A v \in Chat!Thread : v = th \/ v = u
  BY TwoThreads
<1>2. ~ Chat!Rewriting(u) /\ ~ Chat!Rewriting(th)
  BY DEF Chat!AppendToFile, Chat!Clobbers, Chat!Rewriting
<1>3. op'[th] = Chat!Idle /\ op'[u] = op[u] /\ UNCHANGED <<cache, live, serves>>
  BY OnlyOne DEF Chat!AppendToFile
<1>4. Chat!Idle.step = "idle" /\ Pending(Chat!Idle) = {}
  BY DEF Chat!Idle, Pending
<1>5. /\ Chat!IdsIn(disk') = Chat!IdsIn(disk) \cup {op[th].lines[1].id}
      /\ Pending(op[th]) = {op[th].lines[1].id}
  BY FileAppends DEF Chat!AppendToFile, Pending
<1>6. Known' = Known
  BY <1>3 DEF Known
<1> HIDE DEF u
<1>7. Own'
  BY <1>1, <1>3, <1>4 DEF Own
<1>8. ~ Chat!Rewriting(th)' /\ ~ Chat!Rewriting(u)'
  BY <1>2, <1>3, <1>4 DEF Chat!Rewriting
<1>9. Entered' /\ Alternate' /\ Rewritten'
  BY <1>1, <1>3, <1>4, <1>6, <1>8 DEF Agrees, Entered, Alternate, Rewritten
<1>10. InFile'
  <2>1. Chat!IdsIn(disk') \subseteq Known
    BY <1>1, <1>2, <1>5 DEF Agrees, Entered, InFile
  <2>2. \A x \in Known : x \in Chat!IdsIn(disk') \/ x \in Pending(op[u])
    BY <1>1, <1>2, <1>5 DEF Agrees, InFile
  <2> QED BY <2>1, <2>2, <1>1, <1>3, <1>6 DEF InFile
<1> QED BY <1>7, <1>9, <1>10 DEF Agrees

LEMMA InFileReads ==
  ASSUME ChatTypes, Own, Agrees, NEW th \in Chat!Thread, Chat!ReadNext(th)
  PROVE  Own' /\ Agrees'
<1> DEFINE u == Chat!Other(th)
           s == cache[live]
<1>1. /\ u \in Chat!Thread /\ u # th /\ Chat!Other(u) = th /\ Chat!Other(th) = u
      /\ \A v \in Chat!Thread : v = th \/ v = u
  BY TwoThreads
<1>2. /\ op[th] \in FileWork /\ op[th].lines \in Seq(Kept) /\ op[th].next \in Nat \ {0}
      /\ op[th].step = "rewriting" /\ op[th].at = live /\ s \in Seq(Kept)
  BY DEF ChatTypes, ChatBuilt, Working, ChatStored, FileWork, Chat!ReadNext, Own
<1>3. /\ Chat!Rewriting(th) /\ ~ Chat!Rewriting(u)
      /\ disk = <<>> /\ InHand(op[th], op[u]) /\ Pending(op[th]) = {}
  BY <1>2 DEF Chat!Rewriting, Agrees, Rewritten, Alternate, Pending
<1>4. UNCHANGED <<disk, cache, live, serves>> /\ Known' = Known /\ op'[u] = op[u]
  <2>1. op'[u] = op[u]
    BY <1>1 DEF Chat!ReadNext, ChatTypes, Working
  <2> QED BY <2>1 DEF Chat!ReadNext, Known
<1>5. /\ op'[th].step \in {"rewriting", "closing"} /\ op'[th].at = live
      /\ InHand(op'[th], op[u])
  <2>1. CASE op[th].next \in DOMAIN s
    <3> DEFINE l == Append(op[th].lines, s[op[th].next])
               n == op[th].next + 1
               w == op[th]
    <3>1. op' = [op EXCEPT ![th] = [w EXCEPT !.lines = l, !.next = n]]
      BY <2>1, <1>2 DEF Chat!ReadNext, Chat!WithLine
    <3>2. s[op[th].next] \in Kept /\ s[op[th].next].id \in Known
      BY <1>2, <2>1 DEF Known, Chat!IdsIn
    <3>3. Chat!IdsIn(l) = Chat!IdsIn(op[th].lines) \cup {s[op[th].next].id}
      BY <1>2, <3>2, AppendedIds
    <3>4. l \in Seq(Kept) /\ n \in Nat \ {0} /\ w \in FileWork
      BY <1>2, <3>2
    <3>5. n <= Len(s) + 1 /\ \A j \in DOMAIN s : j < n => j < op[th].next \/ j = op[th].next
      BY <1>2, <2>1
    <3> HIDE DEF l, n, s
    <3>6. /\ op'[th].lines = l /\ op'[th].next = n /\ op'[th].at = w.at /\ op'[th].step = w.step
      <4>1. op'[th] = [w EXCEPT !.lines = l, !.next = n]
        BY <3>1, OnlyOne
      <4> HIDE DEF w
      <4> QED BY <4>1, <3>4 DEF FileWork
    <3>7. \A j \in DOMAIN s : j < n => s[j].id \in Chat!IdsIn(l)
      BY <1>3, <1>2, <3>3, <3>5 DEF InHand, s
    <3>8. Chat!IdsIn(l) \subseteq Known
      BY <1>3, <3>2, <3>3 DEF InHand
    <3> QED BY <1>2, <3>5, <3>6, <3>7, <3>8 DEF InHand, s
  <2>2. CASE op[th].next \notin DOMAIN s
    <3> DEFINE w == op[th]
    <3>1. op'[th] = [w EXCEPT !.step = "closing"]
      <4>1. op' = [op EXCEPT ![th] = [w EXCEPT !.step = "closing"]]
        BY <2>2, <1>2 DEF Chat!ReadNext
      <4> QED BY <4>1, OnlyOne
    <3>2. w \in FileWork
      BY <1>2
    <3> HIDE DEF w
    <3>3. op'[th].step = "closing" /\ op'[th].lines = w.lines /\ op'[th].at = w.at
      BY <3>1, <3>2 DEF FileWork
    <3> USE DEF w
    <3>4. \A j \in DOMAIN s : j < op[th].next
      BY <1>2, <1>3, <2>2 DEF InHand
    <3>5. Known \subseteq Chat!IdsIn(op[th].lines)
      BY <1>2, <1>3, <3>4 DEF InHand, Known, Chat!IdsIn
    <3>6. Chat!IdsIn(op[th].lines) \subseteq Known
      BY <1>3 DEF InHand
    <3> QED BY <1>2, <3>3, <3>5, <3>6 DEF InHand
  <2> QED BY <2>1, <2>2
<1> HIDE DEF u
<1>7. Own'
  BY <1>1, <1>4, <1>5 DEF Own
<1>8. Chat!Rewriting(th)' /\ ~ Chat!Rewriting(u)' /\ Pending(op'[th]) = {}
  BY <1>3, <1>4, <1>5 DEF Chat!Rewriting, Pending
<1>9. Entered'
  BY <1>1, <1>4, <1>8 DEF Agrees, Entered
<1>10. Alternate' /\ InFile'
  BY <1>1, <1>8 DEF Alternate, InFile
<1>11. Rewritten'
  <2>1. disk' = <<>> /\ cache'[live'] = cache[live]
    BY <1>3, <1>4
  <2>2. InHand(op[th], op[u])'
    BY <1>4, <1>5, <2>1 DEF InHand
  <2> QED BY <1>1, <1>8, <2>1, <2>2 DEF Rewritten
<1> QED BY <1>7, <1>9, <1>10, <1>11 DEF Agrees

LEMMA InFileCloses ==
  ASSUME ChatTypes, Own, Agrees, NEW th \in Chat!Thread, Chat!CloseFile(th)
  PROVE  Own' /\ Agrees'
<1> DEFINE u == Chat!Other(th)
           o == [Chat!Idle EXCEPT !.step = IF op[th].ids = {} THEN "idle" ELSE "marking",
                                  !.at = op[th].at, !.ids = op[th].ids]
<1>1. /\ u \in Chat!Thread /\ u # th /\ Chat!Other(u) = th /\ Chat!Other(th) = u
      /\ \A v \in Chat!Thread : v = th \/ v = u
  BY TwoThreads
<1>2. op[th].step = "closing" /\ op[th].at = live
  BY DEF Own, Chat!CloseFile
<1>3. /\ ~ Chat!Rewriting(u) /\ disk' = op[th].lines /\ InHand(op[th], op[u])
      /\ Pending(op[u]) \subseteq Known
  <2>1. Chat!Rewriting(th) /\ disk = <<>>
    BY <1>2 DEF Chat!Rewriting, Agrees, Rewritten
  <2>2. disk' = op[th].lines
    BY <2>1, FileCloses
  <2> QED BY <1>1, <2>1, <2>2 DEF Agrees, Alternate, Rewritten, Entered
<1>4. UNCHANGED <<cache, live, serves>> /\ Known' = Known /\ op'[u] = op[u] /\ op'[th] = o
  <2>1. op' = [op EXCEPT ![th] = o]
    BY DEF Chat!CloseFile
  <2> HIDE DEF o
  <2> QED BY <2>1, OnlyOne DEF Chat!CloseFile, Known
<1>5. o.step \in {"idle", "marking"} /\ o.at = live
  BY <1>2 DEF Chat!Idle
<1> HIDE DEF u, o
<1>6. Own'
  BY <1>1, <1>4, <1>5 DEF Own
<1>7. ~ Chat!Rewriting(th)' /\ ~ Chat!Rewriting(u)' /\ Pending(o) = {}
  BY <1>3, <1>4, <1>5 DEF Chat!Rewriting, Pending
<1>8. Entered' /\ Alternate' /\ Rewritten'
  BY <1>1, <1>3, <1>4, <1>7 DEF Entered, Alternate, Rewritten
<1>9. InFile'
  BY <1>1, <1>2, <1>3, <1>4 DEF InFile, InHand
<1> QED BY <1>6, <1>8, <1>9 DEF Agrees

\* A record enters the cache in use.
LEMMA InFileEnters ==
  ASSUME ChatTypes, Own, Agrees, NEW th \in Chat!Thread, NEW r \in Kept,
         op[th].step = "idle", Chat!EnterFirst(th, live, r), UNCHANGED <<disk, live, serves>>
  PROVE  Own' /\ Agrees'
<1> DEFINE u == Chat!Other(th)
           s == cache[live]
           o == [Chat!Idle EXCEPT !.step = "appending", !.at = live, !.lines = <<r>>]
<1>1. /\ u \in Chat!Thread /\ u # th /\ Chat!Other(u) = th /\ Chat!Other(th) = u
      /\ \A v \in Chat!Thread : v = th \/ v = u
  BY TwoThreads
<1>2. op'[th] = o /\ op'[u] = op[u]
  BY OnlyOne DEF Chat!EnterFirst
<1>3. o.step = "appending" /\ o.at = live /\ o.lines = <<r>> /\ o.lines[1] = r
  BY DEF Chat!Idle
<1>4. s \in Seq(Kept) /\ live \in 1..Loads /\ cache \in [1..Loads -> Seq(Kept)]
  BY DEF ChatTypes, ChatBuilt, ChatStored
<1>5. cache'[live] = Append(s, r)
  BY <1>4 DEF Chat!EnterFirst
<1>6. Known' = Known \cup {r.id}
  BY <1>4, <1>5, AppendedIds DEF Known
<1>7. /\ Len(Append(s, r)) = Len(s) + 1
      /\ \A j \in DOMAIN Append(s, r) :
           (j \in DOMAIN s /\ Append(s, r)[j] = s[j]) \/ j = Len(s) + 1
  BY <1>4
<1>8. Pending(o) = {r.id} /\ ~ Chat!Rewriting(th) /\ Pending(op[th]) = {} /\ ~ Chat!Rewriting(th)'
  BY <1>2, <1>3 DEF Pending, Chat!Rewriting
<1>9. Chat!Rewriting(u)' = Chat!Rewriting(u)
  BY <1>2 DEF Chat!Rewriting
<1> HIDE DEF u, s, o
<1>10. Own'
  BY <1>1, <1>2, <1>3 DEF Own
<1>11. Entered' /\ Alternate'
  BY <1>1, <1>2, <1>6, <1>8, <1>9 DEF Agrees, Entered, Alternate
<1>12. InFile'
  BY <1>1, <1>2, <1>6, <1>8, <1>9 DEF Agrees, InFile
<1>13. ASSUME Chat!Rewriting(u) PROVE disk' = <<>> /\ InHand(op[u], op[th])'
  <2>1. disk = <<>> /\ InHand(op[u], op[th]) /\ op'[u] = op[u]
    BY <1>1, <1>2, <1>13 DEF Agrees, Rewritten
  <2>2. Chat!IdsIn(op[u].lines) \subseteq Known'
    BY <1>6, <2>1 DEF InHand
  <2>3. op[u].step = "closing" => Known' \subseteq Chat!IdsIn(op[u].lines) \cup Pending(o)
    BY <1>6, <1>8, <2>1 DEF InHand
  <2>4. ASSUME op[u].step = "rewriting"
        PROVE  /\ op[u].next <= Len(cache'[live]) + 1
               /\ \A j \in DOMAIN cache'[live] : j < op[u].next =>
                    cache'[live][j].id \in Chat!IdsIn(op[u].lines)
    <3>1. /\ op[u].next <= Len(s) + 1 /\ op[u].next \in Nat /\ Len(s) \in Nat
          /\ \A j \in DOMAIN s : j < op[u].next => s[j].id \in Chat!IdsIn(op[u].lines)
      BY <1>1, <1>4, <2>1, <2>4 DEF InHand, s, ChatTypes, Working, FileWork
    <3>2. op[u].next <= Len(cache'[live]) + 1
      BY <1>5, <1>7, <3>1
    <3>3. ASSUME NEW j \in DOMAIN cache'[live], j < op[u].next
          PROVE  cache'[live][j].id \in Chat!IdsIn(op[u].lines)
      <4>1. j \in DOMAIN s /\ cache'[live][j] = s[j]
        BY <1>5, <1>7, <3>1, <3>3
      <4> QED BY <3>1, <3>3, <4>1
    <3> QED BY <3>2, <3>3
  <2> QED BY <1>2, <2>1, <2>2, <2>3, <2>4 DEF InHand
<1>14. Rewritten'
  BY <1>1, <1>8, <1>9, <1>13 DEF Rewritten
<1> QED BY <1>10, <1>11, <1>12, <1>14 DEF Agrees

\* A record is marked or deleted while the other thread does not write.
LEMMA InFileTruncates ==
  ASSUME ChatTypes, Own, Agrees, NEW th \in Chat!Thread, NEW rest, NEW s \in Seq(Kept),
         ~ Chat!Rewriting(th), Chat!Truncate(th, live, s, rest), ~ clobbered',
         Pending(op[Chat!Other(th)]) \subseteq Chat!IdsIn(s), UNCHANGED <<live, serves>>
  PROVE  Own' /\ Agrees'
<1> DEFINE u == Chat!Other(th)
           o == [Chat!Idle EXCEPT !.step = "rewriting", !.at = live, !.ids = rest]
<1>1. /\ u \in Chat!Thread /\ u # th /\ Chat!Other(u) = th /\ Chat!Other(th) = u
      /\ \A v \in Chat!Thread : v = th \/ v = u
  BY TwoThreads
<1>2. ~ Chat!Rewriting(u) /\ disk' = <<>>
  BY DEF Chat!Truncate, Chat!Clobbers
<1>3. op'[th] = o /\ op'[u] = op[u]
  BY OnlyOne DEF Chat!Truncate
<1>4. o.step = "rewriting" /\ o.at = live /\ o.lines = <<>> /\ o.next = 1
  BY DEF Chat!Idle
<1>5. cache'[live] = s /\ Known' = Chat!IdsIn(s)
  BY DEF ChatTypes, ChatBuilt, ChatStored, Chat!Truncate, Known
<1>6. Pending(o) = {} /\ Chat!Rewriting(th)' /\ ~ Chat!Rewriting(u)'
  BY <1>2, <1>3, <1>4 DEF Pending, Chat!Rewriting
<1>7. Chat!IdsIn(<<>>) = {} /\ Len(s) \in Nat /\ \A j \in DOMAIN s : ~ (j < 1)
  BY DEF Chat!IdsIn
<1>8. Pending(op[u]) \subseteq Known'
  BY <1>5
<1> HIDE DEF u, o
<1>9. Own'
  BY <1>1, <1>3, <1>4 DEF Own
<1>10. Entered'
  BY <1>1, <1>3, <1>6, <1>8 DEF Entered
<1>11. Alternate' /\ InFile'
  BY <1>1, <1>6 DEF Alternate, InFile
<1>12. Rewritten'
  <2>1. InHand(op[th], op[u])'
    BY <1>3, <1>4, <1>5, <1>7 DEF InHand
  <2> QED BY <1>1, <1>2, <1>6, <2>1 DEF Rewritten
<1> QED BY <1>9, <1>10, <1>11, <1>12 DEF Agrees

\* Nothing is entered or written: a thread may start or end marking.
LEMMA InFileRests ==
  ASSUME ChatTypes, Own, NEW th \in Chat!Thread, NEW o,
         op' = op \/ (op' = [op EXCEPT ![th] = o] /\ op[th].step \in {"idle", "marking"}),
         o.step \in {"idle", "marking"}, o.step = "idle" \/ o.at = live,
         UNCHANGED <<disk, cache, live>>, serves' \in {0, serves}
  PROVE  Own' /\ (Agrees => Agrees')
<1> DEFINE u == Chat!Other(th)
<1>1. /\ u \in Chat!Thread /\ u # th /\ Chat!Other(u) = th /\ Chat!Other(th) = u
      /\ \A v \in Chat!Thread : v = th \/ v = u
  BY TwoThreads
<1>2. Known' = Known
  BY DEF Known
<1>3. CASE op' = op
  BY <1>2, <1>3 DEF Own, Agrees, Entered, Alternate, InFile, Rewritten, InHand, Chat!Rewriting
<1>4. CASE op' = [op EXCEPT ![th] = o] /\ op[th].step \in {"idle", "marking"}
  <2>1. op'[th] = o /\ op'[u] = op[u]
    BY <1>4, OnlyOne
  <2> HIDE DEF u
  <2>2. /\ Pending(o) = {} /\ Pending(op[th]) = {}
        /\ ~ Chat!Rewriting(th) /\ ~ Chat!Rewriting(th)'
        /\ Chat!Rewriting(u)' = Chat!Rewriting(u)
    BY <1>4, <2>1 DEF Pending, Chat!Rewriting
  <2>3. Own'
    BY <1>1, <2>1 DEF Own
  <2>4. ASSUME Agrees PROVE Agrees'
    <3>1. Entered' /\ Alternate' /\ InFile'
      BY <1>1, <1>2, <2>1, <2>2, <2>4 DEF Agrees, Entered, Alternate, InFile
    <3>2. ASSUME Chat!Rewriting(u) PROVE disk' = <<>> /\ InHand(op[u], op[th])'
      <4>1. disk = <<>> /\ InHand(op[u], op[th])
        BY <1>1, <2>4, <3>2 DEF Agrees, Rewritten
      <4> QED BY <1>2, <2>1, <2>2, <4>1 DEF InHand
    <3>3. Rewritten'
      BY <1>1, <2>2, <3>2 DEF Rewritten
    <3> QED BY <3>1, <3>3 DEF Agrees
  <2> QED BY <2>3, <2>4
<1> QED BY <1>3, <1>4

LEMMA ReceiptsAreOwn ==
  ASSUME ChatTypes, subscribed = {live}, NEW r \in receipts PROVE r.at = live
BY DEF ChatTypes, ChatBuilt

\* Deleted is what a user typed; what the runtime has yet to write is a reply.
LEMMA InFileResends ==
  ASSUME ChatTypes, Own, NEW b \in Tab, Chat!Resend(b)
  PROVE  Own' /\ (Agrees /\ ~ clobbered' => Agrees')
<1>1. PICK id \in offered :
        /\ Chat!Free("server") /\ serves # 0
        /\ \/ UNCHANGED <<disk, cache, op, clobbered>>
           \/ \E k \in DOMAIN cache[serves] : cache[serves][k].id = id /\
                Chat!Truncate("server", serves, Chat!RemoveAt(cache[serves], k), {})
        /\ UNCHANGED <<live, serves>>
  BY DEF Chat!Resend, Chat!Begin
<1>2. /\ "server" \in Chat!Thread /\ "runtime" \in Chat!Thread
      /\ Chat!Other("server") = "runtime" /\ ~ Chat!Rewriting("server")
  BY <1>1 DEF Chat!Thread, Chat!Other, Chat!Rewriting, Chat!Free
<1>3. serves = live
  BY <1>1 DEF Own
<1>4. CASE UNCHANGED <<disk, cache, op, clobbered>>
  <2>1. Own' /\ (Agrees => Agrees')
    BY <1>1, <1>2, <1>4, InFileRests, IdleIsApt DEF Chat!Idle
  <2> QED BY <2>1
<1>5. ASSUME NEW k \in DOMAIN cache[live], cache[live][k].id = id,
             Chat!Truncate("server", live, Chat!RemoveAt(cache[live], k), {})
      PROVE  Own' /\ (Agrees /\ ~ clobbered' => Agrees')
  <2> DEFINE s == Chat!RemoveAt(cache[live], k)
  <2>1. cache[live] \in Seq(Kept)
    BY DEF ChatTypes, ChatBuilt, ChatStored
  <2>2. /\ s \in Seq(Kept)
        /\ \A r \in RecordsOf(cache[live]) : r # cache[live][k] => r \in RecordsOf(s)
    BY <1>5, <2>1, RemovedAt
  <2>3. ASSUME NEW x \in Known, x # id PROVE x \in Chat!IdsIn(s)
    <3>1. PICK j \in DOMAIN cache[live] : cache[live][j].id = x
      BY DEF Known, Chat!IdsIn
    <3>2. cache[live][j] \in RecordsOf(cache[live]) /\ cache[live][j] # cache[live][k]
      BY <1>5, <2>3, <3>1 DEF RecordsOf
    <3>3. cache[live][j] \in RecordsOf(s)
      BY <2>2, <3>2
    <3> HIDE DEF s
    <3>4. PICK i \in DOMAIN s : s[i] = cache[live][j]
      BY <3>3 DEF RecordsOf
    <3> QED BY <3>1, <3>4 DEF Chat!IdsIn
  <2>4. ASSUME Agrees PROVE Pending(op["runtime"]) \subseteq Chat!IdsIn(s)
    <3>1. id \in UserId
      BY DEF ChatTypes, Sent
    <3>2. \A x \in Pending(op["runtime"]) : x \in Known /\ x # id
      BY <1>2, <2>4, <3>1 DEF Agrees, Entered, Pending, ChatTypes, Working, Apt
    <3> QED BY <2>3, <3>2
  <2> HIDE DEF s
  <2>5. Agrees /\ ~ clobbered' => Agrees'
    BY <1>1, <1>2, <1>5, <2>2, <2>4, InFileTruncates DEF s
  <2>6. Own'
    BY <1>1, <1>5, <1>2 DEF Own, Chat!Truncate, Chat!Idle, ChatTypes, Working
  <2> QED BY <2>5, <2>6
<1> QED BY <1>1, <1>3, <1>4, <1>5

LEMMA InFileUpdates ==
  ASSUME ChatTypes, Own, Chat!UpdateStatus
  PROVE  Own' /\ (Agrees /\ ~ clobbered' => Agrees')
<1> DEFINE o == op["runtime"]
<1>1. /\ o \in FileWork /\ o.step = "marking" /\ o.at = live /\ live \in 1..Loads
      /\ cache[live] \in Seq(Kept) /\ "runtime" \in Chat!Thread /\ "server" \in Chat!Thread
      /\ Chat!Other("runtime") = "server" /\ ~ Chat!Rewriting("runtime")
  BY DEF ChatTypes, Working, ChatStored, ChatBuilt, Chat!Thread, Chat!UpdateStatus, Own, Chat!Other,
     Chat!Rewriting
<1>2. PICK id \in o.ids :
        /\ \/ /\ op' = [op EXCEPT !["runtime"] = IF o.ids \ {id} = {} THEN Chat!Idle
                                                 ELSE [o EXCEPT !.ids = o.ids \ {id}]]
              /\ UNCHANGED <<disk, cache, clobbered>>
           \/ \E k \in DOMAIN cache[live] :
                Chat!Truncate("runtime", live, [cache[live] EXCEPT ![k].status = "read"], o.ids \ {id})
        /\ UNCHANGED <<subscribed, live, serves, online, inbound, receipts, attempt, offered, pushed>>
  BY <1>1 DEF Chat!UpdateStatus
<1> HIDE DEF o
<1>3. CASE /\ op' = [op EXCEPT !["runtime"] = IF o.ids \ {id} = {} THEN Chat!Idle
                                              ELSE [o EXCEPT !.ids = o.ids \ {id}]]
           /\ UNCHANGED <<disk, cache, clobbered>>
  <2> DEFINE w == IF o.ids \ {id} = {} THEN Chat!Idle ELSE [o EXCEPT !.ids = o.ids \ {id}]
  <2>1. w.step \in {"idle", "marking"} /\ (w.step = "idle" \/ w.at = live)
    <3>1. Chat!Idle.step = "idle"
      BY DEF Chat!Idle
    <3>2. [o EXCEPT !.ids = o.ids \ {id}].step = "marking" /\ [o EXCEPT !.ids = o.ids \ {id}].at = live
      BY <1>1 DEF FileWork
    <3> QED BY <3>1, <3>2
  <2>2. op' = [op EXCEPT !["runtime"] = w] /\ op["runtime"].step \in {"idle", "marking"}
    BY <1>1, <1>3 DEF o
  <2> HIDE DEF w
  <2>3. Own' /\ (Agrees => Agrees')
    BY <1>1, <1>2, <1>3, <2>1, <2>2, InFileRests
  <2> QED BY <2>3
<1>4. ASSUME NEW k \in DOMAIN cache[live],
             Chat!Truncate("runtime", live, [cache[live] EXCEPT ![k].status = "read"], o.ids \ {id})
      PROVE  Own' /\ (Agrees /\ ~ clobbered' => Agrees')
  <2> DEFINE s == [cache[live] EXCEPT ![k].status = "read"]
  <2>1. s \in Seq(Kept) /\ Chat!IdsIn(s) = Known
    BY <1>1, <1>4, MarkedAt DEF Known
  <2>2. Agrees => Pending(op["server"]) \subseteq Chat!IdsIn(s)
    BY <1>1, <2>1 DEF Agrees, Entered
  <2>3. Chat!Truncate("runtime", live, s, o.ids \ {id})
    BY <1>4
  <2> HIDE DEF s
  <2>4. Agrees /\ ~ clobbered' => Agrees'
    BY <1>1, <1>2, <2>1, <2>2, <2>3, InFileTruncates
  <2>5. Own'
    BY <1>1, <1>2, <2>3 DEF Own, Chat!Truncate, Chat!Idle, ChatTypes, Working
  <2> QED BY <2>4, <2>5
<1> QED BY <1>2, <1>3, <1>4

LEMMA FileStays ==
  ASSUME ChatTypes, FileInv, Chat!ChatNext
  PROVE  FileInv'
<1>1. CASE Chat!Restart
  <2>1. /\ disk' \in Seq(Kept) /\ live' \in 1..Loads /\ cache'[live'] = disk'
        /\ op' = [th \in Chat!Thread |-> Chat!Idle] /\ serves' = live'
    BY <1>1, RestartStep DEF Chat!Restart
  <2>2. Chat!Idle.step = "idle" /\ Known' = Chat!IdsIn(disk')
    BY <2>1 DEF Chat!Idle, Known
  <2>3. \A th \in Chat!Thread : op'[th] = Chat!Idle /\ ~ Chat!Rewriting(th)' /\ Pending(op'[th]) = {}
    BY <2>1, <2>2 DEF Chat!Rewriting, Pending
  <2>4. Own'
    BY <2>1, <2>2, <2>3 DEF Own
  <2>5. Agrees'
    BY <2>2, <2>3 DEF Agrees, Entered, Alternate, InFile, Rewritten
  <2> QED BY <2>4, <2>5 DEF FileInv
<1>2. CASE Chat!Reload
  <2>1. live \in subscribed /\ live \in Nat
    BY DEF ChatTypes, ChatBuilt
  <2>2. subscribed' = subscribed \cup {live'} /\ live' = live + 1
    BY <1>2 DEF Chat!Reload, Chat!Build
  <2>3. live \in subscribed' /\ live # live'
    BY <2>1, <2>2
  <2> QED BY <2>3 DEF FileInv
<1>3. CASE ~ Chat!Restart /\ ~ Chat!Reload
  <2>0. UNCHANGED <<subscribed, live>>
    <3>1. ASSUME NEW b \in Tab, Chat!Socket(b) PROVE UNCHANGED <<subscribed, live>>
      <4>1. CASE (\E t \in Text : Chat!Send(b, t)) \/ Chat!Dispatch(b) \/ Chat!Store(b)
        BY <4>1 DEF Chat!Send, Chat!Dispatch, Chat!Store
      <4>2. CASE Chat!Resend(b)
        BY <4>2 DEF Chat!Resend
      <4> QED BY <3>1, <4>1, <4>2 DEF Chat!Socket
    <3>2. ASSUME NEW th \in Chat!Thread, Chat!Writing(th) PROVE UNCHANGED <<subscribed, live>>
      BY <3>2 DEF Chat!Writing, Chat!AppendToFile, Chat!ReadNext, Chat!CloseFile
    <3>3. CASE Chat!UpdateStatus
      BY <3>3 DEF Chat!UpdateStatus
    <3>4. CASE Chat!Reply \/ Chat!MarkRead \/ Chat!HandleReceipt \/ Chat!StartChannel
                 \/ Chat!StopChannel \/ Chat!ServerEnds
      BY <3>4 DEF Chat!Reply, Chat!MarkRead, Chat!HandleReceipt, Chat!StartChannel,
         Chat!StopChannel, Chat!ServerEnds
    <3> QED BY <1>3, <3>1, <3>2, <3>3, <3>4 DEF Chat!ChatNext
  <2>1. clobbered => clobbered'
    <3>1. ASSUME NEW b \in Tab, Chat!Socket(b) PROVE clobbered => clobbered'
      <4>1. CASE (\E t \in Text : Chat!Send(b, t)) \/ Chat!Dispatch(b) \/ Chat!Store(b)
        BY <4>1 DEF Chat!Send, Chat!Dispatch, Chat!Store
      <4>2. CASE Chat!Resend(b)
        BY <4>2 DEF Chat!Resend, Chat!Truncate, Chat!Clobbers
      <4> QED BY <3>1, <4>1, <4>2 DEF Chat!Socket
    <3>2. ASSUME NEW th \in Chat!Thread, Chat!Writing(th) PROVE clobbered => clobbered'
      BY <3>2 DEF Chat!Writing, Chat!AppendToFile, Chat!ReadNext, Chat!CloseFile, Chat!Clobbers
    <3>3. CASE Chat!UpdateStatus
      BY <3>3 DEF Chat!UpdateStatus, Chat!Truncate, Chat!Clobbers
    <3>4. CASE Chat!Reply \/ Chat!MarkRead \/ Chat!HandleReceipt \/ Chat!StartChannel
                 \/ Chat!StopChannel \/ Chat!ServerEnds
      BY <3>4 DEF Chat!Reply, Chat!MarkRead, Chat!HandleReceipt, Chat!StartChannel,
         Chat!StopChannel, Chat!ServerEnds
    <3> QED BY <1>3, <3>1, <3>2, <3>3, <3>4 DEF Chat!ChatNext
  <2> SUFFICES ASSUME subscribed = {live} PROVE Own' /\ (~ clobbered' => Agrees')
    BY <2>0 DEF FileInv
  <2>2. Own /\ (~ clobbered => Agrees)
    BY DEF FileInv
  <2>3. Chat!Idle.step = "idle" /\ "server" \in Chat!Thread /\ "runtime" \in Chat!Thread
    BY DEF Chat!Idle, Chat!Thread
  <2>4. ASSUME NEW b \in Tab, Chat!Socket(b) PROVE Own' /\ (~ clobbered' => Agrees')
    <3>1. CASE (\E t \in Text : Chat!Send(b, t)) \/ Chat!Dispatch(b)
      <4>1. UNCHANGED <<disk, cache, live, serves, op, clobbered>>
        BY <3>1 DEF Chat!Send, Chat!Dispatch
      <4> QED BY <2>2, <2>3, <4>1, InFileRests
    <3>2. CASE Chat!Resend(b)
      BY <2>1, <2>2, <2>4, <3>2, InFileResends
    <3>3. CASE Chat!Store(b)
      <4> DEFINE r == [id |-> inbound[b].id, status |-> inbound[b].status]
      <4>1. /\ Chat!EnterFirst("server", live, r) /\ op["server"].step = "idle"
            /\ UNCHANGED <<disk, live, serves, clobbered>>
        BY <2>2, <3>3 DEF Chat!Store, Own, Chat!Free
      <4>2. r \in Kept
        <5>1. inbound[b] \in [phase : {"dispatched"}, id : UserId, status : {"delivered", "failed"}]
          BY <2>4, <3>3 DEF Chat!Store, ChatTypes, Sent, InFlight
        <5> QED BY <5>1, UsersAreIds DEF Kept, Chat!Record
      <4> HIDE DEF r
      <4>3. Own'
        BY <2>2, <4>1 DEF Own, Chat!EnterFirst, Chat!Idle, ChatTypes, Working
      <4> QED BY <2>2, <2>3, <4>1, <4>2, <4>3, InFileEnters
    <3> QED BY <2>4, <3>1, <3>2, <3>3 DEF Chat!Socket
  <2>5. ASSUME NEW th \in Chat!Thread, Chat!Writing(th) PROVE Own' /\ (~ clobbered' => Agrees')
    <3>1. Own'
      <4>1. PICK o : /\ op' = [op EXCEPT ![th] = o] /\ UNCHANGED <<live, serves>>
                     /\ o.step = "idle" \/ (op[th].step # "idle" /\ o.at = op[th].at)
        <5>1. CASE Chat!AppendToFile(th)
          BY <2>3, <5>1 DEF Chat!AppendToFile
        <5>2. CASE Chat!ReadNext(th)
          <6>1. op[th] \in FileWork
            BY DEF ChatTypes, Working
          <6> DEFINE w == op[th]
                     o == IF w.next \in DOMAIN cache[w.at]
                          THEN [w EXCEPT !.lines = Chat!WithLine(w.lines, cache[w.at][w.next]),
                                         !.next = w.next + 1]
                          ELSE [w EXCEPT !.step = "closing"]
          <6>2. op' = [op EXCEPT ![th] = o] /\ UNCHANGED <<live, serves>> /\ w.step = "rewriting"
            BY <5>2 DEF Chat!ReadNext
          <6>3. o.at = w.at
            <7> HIDE DEF w
            <7> QED BY <6>1 DEF FileWork, w
          <6> HIDE DEF o
          <6> QED BY <6>2, <6>3
        <5>3. CASE Chat!CloseFile(th)
          <6> DEFINE o == [Chat!Idle EXCEPT !.step = IF op[th].ids = {} THEN "idle" ELSE "marking",
                                            !.at = op[th].at, !.ids = op[th].ids]
          <6>1. op' = [op EXCEPT ![th] = o] /\ UNCHANGED <<live, serves>> /\ op[th].step # "idle"
            BY <5>3 DEF Chat!CloseFile
          <6>2. o.at = op[th].at
            BY DEF Chat!Idle
          <6> HIDE DEF o
          <6> QED BY <6>1, <6>2
        <5> QED BY <2>5, <5>1, <5>2, <5>3 DEF Chat!Writing
      <4> QED BY <2>2, <4>1 DEF Own, ChatTypes, Working
    <3> QED BY <2>1, <2>2, <2>5, <3>1, InFileAppends, InFileReads, InFileCloses DEF Chat!Writing
  <2>6. CASE Chat!Reply
    <3> DEFINE r == [id |-> <<Krakey, attempt[Krakey] + 1>>, status |-> "none"]
    <3>1. /\ Chat!EnterFirst("runtime", live, r) /\ op["runtime"].step = "idle"
          /\ UNCHANGED <<disk, live, serves, clobbered>>
      BY <2>6 DEF Chat!Reply, Chat!Free
    <3>2. r \in Kept
      <4>1. attempt[Krakey] \in 0..Sends /\ attempt[Krakey] < Sends
        BY <2>6 DEF Chat!Reply, ChatTypes, Sent, Chat!Author
      <4>2. attempt[Krakey] + 1 \in 1..Sends
        BY <4>1, ChatAssumption
      <4> QED BY <4>2 DEF Kept, Chat!Record, Chat!Ids, Chat!Author
    <3> HIDE DEF r
    <3>3. Own'
      BY <2>2, <3>1 DEF Own, Chat!EnterFirst, Chat!Idle, ChatTypes, Working
    <3> QED BY <2>2, <2>3, <3>1, <3>2, <3>3, InFileEnters
  <2>7. CASE Chat!HandleReceipt
    <3>1. PICK r \in receipts : op' = [op EXCEPT !["runtime"] =
                    [Chat!Idle EXCEPT !.step = "marking", !.at = r.at, !.ids = r.ids]]
      BY <2>7 DEF Chat!HandleReceipt
    <3> DEFINE o == [Chat!Idle EXCEPT !.step = "marking", !.at = r.at, !.ids = r.ids]
    <3>2. o.step = "marking" /\ o.at = live
      BY ReceiptsAreOwn DEF Chat!Idle
    <3>3. op' = [op EXCEPT !["runtime"] = o]
      BY <3>1
    <3> HIDE DEF o
    <3>4. /\ op["runtime"].step \in {"idle", "marking"}
          /\ UNCHANGED <<disk, cache, live, serves, clobbered>>
      BY <2>7 DEF Chat!HandleReceipt, Chat!Free
    <3> QED BY <2>2, <2>3, <3>2, <3>3, <3>4, InFileRests
  <2>8. CASE Chat!MarkRead \/ Chat!StartChannel \/ Chat!StopChannel \/ Chat!ServerEnds
    <3>1. UNCHANGED <<disk, cache, live, op, clobbered>> /\ serves' \in {0, serves}
      BY <2>8 DEF Chat!MarkRead, Chat!StartChannel, Chat!StopChannel, Chat!ServerEnds
    <3> QED BY <2>2, <2>3, <3>1, InFileRests
  <2> QED BY <1>3, <2>1, <2>2, <2>4, <2>5, <2>6, <2>7, <2>8, InFileUpdates DEF Chat!ChatNext
<1> QED BY <1>1, <1>2, <1>3

\* The chat file is the cache (history.py): whatever a browser, the tools and the read
\* receipts do, on two threads and through restarts, the file holds the messages of the
\* cache when both threads are idle, unless one wrote in the middle of the other's rewrite
\* or an old history is still in use.
THEOREM FileIsTheCache == ServicesSpec => []FileIsCache
<1>1. ServicesInit => ChatTypes /\ FileInv
  <2> SUFFICES ASSUME ServicesInit PROVE FileInv
    BY ChatStaysTyped
  <2>1. Chat!Init
    BY DEF ServicesInit
  <2>2. /\ disk = <<>> /\ cache[live] = <<>> /\ live = 1 /\ serves = 1
        /\ \A th \in Chat!Thread : op[th] = Chat!Idle
    BY <2>1, ChatAssumption DEF Chat!Init
  <2>3. \A th \in Chat!Thread : op[th].step = "idle" /\ ~ Chat!Rewriting(th) /\ Pending(op[th]) = {}
    BY <2>2 DEF Chat!Idle, Chat!Rewriting, Pending
  <2>4. Known = Chat!IdsIn(disk)
    BY <2>2 DEF Known
  <2> QED BY <2>2, <2>3, <2>4 DEF FileInv, Own, Agrees, Entered, Alternate, InFile, Rewritten
<1>2. ChatTypes /\ FileInv /\ [ServicesNext]_servicesVars => ChatTypes' /\ FileInv'
  <2> SUFFICES ASSUME ChatTypes, FileInv, [ServicesNext]_servicesVars PROVE FileInv'
    BY ChatStaysTyped
  <2>1. CASE Chat!ChatNext
    BY <2>1, FileStays
  <2>2. CASE UNCHANGED Chat!chatVars
    BY <2>2 DEF Chat!chatVars, FileInv, Own, Agrees, Entered, Alternate, InFile, Rewritten, InHand,
       Known, Chat!Rewriting
  <2> QED BY <2>1, <2>2, ChatMoves
<1>3. FileInv => FileIsCache
  <2> SUFFICES ASSUME FileInv, Chat!OneHistory, \A th \in Chat!Thread : Chat!Free(th), ~ clobbered
               PROVE  Chat!IdsIn(disk) = Chat!IdsIn(cache[live])
    BY DEF FileIsCache, Chat!FileIsCache
  <2>1. Agrees
    BY DEF FileInv, Chat!OneHistory
  <2>2. \A th \in Chat!Thread : ~ Chat!Rewriting(th) /\ Pending(op[th]) = {}
    BY DEF Chat!Free, Chat!Rewriting, Pending
  <2> QED BY <2>1, <2>2 DEF Agrees, InFile, Known
<1> QED BY <1>1, <1>2, <1>3, PTL DEF ServicesSpec

-----------------------------------------------------------------------------
(* Plugins that are reloaded *)

BuildsOnly(g, s, S) ==
  /\ g[0] = <<>> /\ Reload!Only(s, S) = g[Len(s)]
  /\ \A k \in 1..Len(s) : g[k] = IF s[k] \in S THEN Append(g[k - 1], s[k]) ELSE g[k - 1]

LEMMA OnlyIsBuiltUp ==
  ASSUME NEW s, NEW S, Len(s) \in Nat
  PROVE  \E g : BuildsOnly(g, s, S)
<1> DEFINE V == Seq(S)
           F == [w \in Nat \X V |->
                   IF s[w[1]] \in S THEN Append(w[2], s[w[1]]) ELSE w[2]]
           IsBuiltUp(g) == g = [k \in 0..Len(s) |->
             IF k = 0 THEN <<>>
             ELSE IF s[k] \in S THEN Append(g[k - 1], s[k]) ELSE g[k - 1]]
<1>1. F \in [Nat \X V -> V] /\ <<>> \in V
  OBVIOUS
<1>2. \A k \in Nat : \A t \in V : F[<<k, t>>] = IF s[k] \in S THEN Append(t, s[k]) ELSE t
  OBVIOUS
<1> HIDE DEF F, V
<1>3. PICK g : Iterates(g, V, <<>>, F, Len(s))
  BY <1>1, Iteration
<1>4. \A k \in 1..Len(s) : k - 1 \in 0..Len(s) /\ k \in Nat
  OBVIOUS
<1>5. /\ g \in [0..Len(s) -> V] /\ g[0] = <<>>
      /\ \A k \in 1..Len(s) : g[k] = IF s[k] \in S THEN Append(g[k - 1], s[k]) ELSE g[k - 1]
  BY <1>2, <1>3, <1>4 DEF Iterates
<1>6. IsBuiltUp(g)
  <2>1. \A k \in 0..Len(s) : k # 0 => k \in 1..Len(s)
    OBVIOUS
  <2>2. \A k \in 0..Len(s) : g[k] = IF k = 0 THEN <<>>
          ELSE IF s[k] \in S THEN Append(g[k - 1], s[k]) ELSE g[k - 1]
    BY <1>5, <2>1
  <2>3. g = [k \in 0..Len(s) |-> g[k]]
    BY <1>5
  <2> QED BY <2>2, <2>3
<1> DEFINE chosen == CHOOSE f : IsBuiltUp(f)
<1>7. IsBuiltUp(chosen)
  BY <1>6
<1>8. Reload!Only(s, S) = chosen[Len(s)]
  BY DEF Reload!Only
<1> HIDE DEF chosen
<1>9. \A k \in 0..Len(s) : chosen[k] = IF k = 0 THEN <<>>
        ELSE IF s[k] \in S THEN Append(chosen[k - 1], s[k]) ELSE chosen[k - 1]
  BY <1>7
<1>10. /\ chosen[0] = <<>>
       /\ \A k \in 1..Len(s) :
            chosen[k] = IF s[k] \in S THEN Append(chosen[k - 1], s[k]) ELSE chosen[k - 1]
  BY <1>9
<1> QED BY <1>8, <1>10 DEF BuildsOnly

\* What Only keeps is in the sequence and in the set, and nothing is kept twice
\* that is not there twice.
LEMMA OnlySelects ==
  ASSUME NEW T, NEW s \in Seq(T), NEW S
  PROVE  /\ Reload!Only(s, S) \in Seq(T)
         /\ \A i \in DOMAIN Reload!Only(s, S) :
              Reload!Only(s, S)[i] \in S /\ \E j \in DOMAIN s : s[j] = Reload!Only(s, S)[i]
         /\ (\A i, j \in DOMAIN s : s[i] = s[j] => i = j)
              => \A i, j \in DOMAIN Reload!Only(s, S) :
                   Reload!Only(s, S)[i] = Reload!Only(s, S)[j] => i = j
<1>1. PICK g : /\ g[0] = <<>> /\ Reload!Only(s, S) = g[Len(s)]
               /\ \A k \in 1..Len(s) :
                    g[k] = IF s[k] \in S THEN Append(g[k - 1], s[k]) ELSE g[k - 1]
  <2>1. Len(s) \in Nat
    OBVIOUS
  <2>2. PICK g : BuildsOnly(g, s, S)
    BY <2>1, OnlyIsBuiltUp
  <2> QED BY <2>2 DEF BuildsOnly
<1> DEFINE Once == \A i, j \in DOMAIN s : s[i] = s[j] => i = j
           Good(n) == /\ g[n] \in Seq(T)
                      /\ \A i \in DOMAIN g[n] :
                           g[n][i] \in S /\ \E j \in 1..n : s[j] = g[n][i]
                      /\ Once => \A i, j \in DOMAIN g[n] : g[n][i] = g[n][j] => i = j
           Goods == {n \in 0..Len(s) : Good(n)}
<1>3. Good(0)
  BY <1>1
<1>4. ASSUME NEW n \in 0..Len(s), n + 1 \in 0..Len(s), Good(n) PROVE Good(n + 1)
  <2>1. n + 1 \in 1..Len(s) /\ n + 1 \in DOMAIN s /\ (n + 1) - 1 = n /\ s[n + 1] \in T
    BY <1>4
  <2>2. CASE s[n + 1] \notin S
    <3>1. g[n + 1] = g[n]
      BY <2>1, <2>2, <1>1
    <3> QED BY <3>1, <1>4
  <2>3. CASE s[n + 1] \in S
    <3>1. g[n + 1] = Append(g[n], s[n + 1])
      BY <2>1, <2>3, <1>1
    <3>2. g[n + 1] \in Seq(T)
      BY <3>1, <2>1, <1>4
    <3>3. \A i \in DOMAIN g[n + 1] :
            \/ i \in DOMAIN g[n] /\ g[n + 1][i] = g[n][i]
            \/ i = Len(g[n]) + 1 /\ g[n + 1][i] = s[n + 1]
      BY <3>1, <2>1, <1>4
    <3>4. \A i \in DOMAIN g[n + 1] :
            g[n + 1][i] \in S /\ \E j \in 1..(n + 1) : s[j] = g[n + 1][i]
      <4> SUFFICES ASSUME NEW i \in DOMAIN g[n + 1]
                   PROVE  g[n + 1][i] \in S /\ \E j \in 1..(n + 1) : s[j] = g[n + 1][i]
        OBVIOUS
      <4>1. n + 1 \in 1..(n + 1) /\ 1..n \subseteq 1..(n + 1)
        BY <2>1
      <4>2. CASE i \in DOMAIN g[n] /\ g[n + 1][i] = g[n][i]
        <5>1. g[n][i] \in S /\ \E j \in 1..n : s[j] = g[n][i]
          BY <4>2, <1>4
        <5> QED BY <5>1, <4>1, <4>2
      <4> QED BY <4>1, <4>2, <3>3, <2>3
    <3>5. ASSUME Once, NEW i \in DOMAIN g[n + 1], NEW j \in DOMAIN g[n + 1],
                 g[n + 1][i] = g[n + 1][j]
          PROVE  i = j
      <4>1. \A k \in DOMAIN g[n] : g[n][k] # s[n + 1]
        <5> SUFFICES ASSUME NEW k \in DOMAIN g[n], g[n][k] = s[n + 1] PROVE FALSE
          OBVIOUS
        <5>1. PICK h \in 1..n : s[h] = g[n][k]
          BY <1>4
        <5> QED BY <5>1, <2>1, <3>5
      <4> QED BY <4>1, <3>3, <3>5, <1>4
    <3> QED BY <3>2, <3>4, <3>5
  <2> QED BY <2>2, <2>3
<1>5. Good(Len(s))
  <2>1. /\ 0 \in Goods /\ Len(s) \in Nat /\ Len(s) \in 0..Len(s)
    BY <1>3
  <2>2. \A k \in 0..Len(s) : k \in Goods <=> Good(k)
    OBVIOUS
  <2> HIDE DEF Goods, Good
  <2>3. \A k \in 0..Len(s) : k + 1 \in 0..Len(s) /\ k \in Goods => k + 1 \in Goods
    BY <1>4, <2>2
  <2>4. \A k \in 0..Len(s) : k \in Goods
    BY <2>1, <2>3, UpTo
  <2> QED BY <2>1, <2>2, <2>4
<1> HIDE DEF Good
<1>6. Reload!Only(s, S) = g[Len(s)]
  BY <1>1
<1> QED BY <1>5, <1>6 DEF Good
\* What plugins may have, and the jobs of a reload.
AnyComponent == UNION {Reload!Range(Bundle[p]) : p \in Reload!Plugin}
AnyJob == [plugin : Reload!Plugin, remove : BOOLEAN, add : BOOLEAN]
ReloadPc == {"idle", "next", "unregister", "stopping", "register", "start", "starting"}
Requests == [pc : ReloadPc, failed : BOOLEAN, wanted : SUBSET Reload!Plugin,
             jobs : Seq(AnyJob), left : Seq(AnyComponent), instance : Nat,
             ok : BOOLEAN, made : Seq(AnyComponent)]

ReloadTypes ==
  /\ configured \subseteq Reload!Plugin /\ saved \subseteq Reload!Plugin
  /\ loaded \subseteq Reload!Plugin
  /\ registry \in [Reload!Named(FALSE) -> Reload!Plugin \cup {Absent}]
  /\ built \in Nat /\ channels \in [Reload!Named(TRUE) -> 0..built]
  /\ running \subseteq Reload!Named(TRUE)
  /\ components \in [Reload!Plugin -> Seq(AnyComponent)]
  /\ \A p \in Reload!Plugin : Reload!Range(components[p]) \subseteq Reload!Range(Bundle[p])
  /\ request \in [Manager -> Requests]

At(m, pc) == request[m].pc = pc
LeftNames(m) == {c.name : c \in Reload!Range(request[m].left)}
TakesDown(m, p) == /\ At(m, "unregister") \/ At(m, "stopping")
                   /\ Reload!Current(m).plugin = p
BringsUp(m, p) == At(m, "register") /\ Reload!Current(m).plugin = p /\ request[m].ok

\* A request at work on a plugin has the job for it at the head of its list, and
\* none of the jobs still to be begun loads what is loaded or another job's plugin.
JobIsSound(m) ==
  LET todo == request[m].jobs
      left == Reload!Range(request[m].left)
      p == Reload!Current(m).plugin IN
  /\ ~ At(m, "idle") /\ ~ At(m, "next") => todo # <<>>
  /\ \A i, j \in DOMAIN todo : todo[i].plugin = todo[j].plugin => i = j
  /\ \A k \in DOMAIN todo :
       (k > 1 \/ At(m, "next")) /\ ~ todo[k].remove => todo[k].plugin \notin loaded
  /\ At(m, "register") => left \subseteq Reload!Range(Bundle[p]) /\ p \notin loaded
  /\ At(m, "unregister") \/ At(m, "stopping") => left \subseteq Reload!Range(components[p])
  /\ At(m, "start") \/ At(m, "starting") => \A c \in left : c.kind = "channel"
  /\ At(m, "stopping") \/ At(m, "starting") => request[m].left # <<>>

JobsAreSound == \A m \in Manager : JobIsSound(m)

\* A name is registered exactly by the plugin recorded to own it; while that plugin
\* is taken down, what is still registered is still on the list.
RegistryIsOwned ==
  \A p \in Reload!Plugin, n \in Reload!Named(FALSE) :
    /\ registry[n] = p => Reload!Owns(p, n)
    /\ Reload!Owns(p, n) => registry[n] = p \/ \E m \in Manager : TakesDown(m, p)
    /\ \A m \in Manager : TakesDown(m, p) /\ registry[n] = p => n \in LeftNames(m)

ChannelsAreOwned ==
  /\ \A n \in Reload!Named(TRUE) : channels[n] # 0 => \E p \in Reload!Plugin : Reload!Owns(p, n)
  /\ \A p \in Reload!Plugin, n \in Reload!Named(TRUE) : Reload!Owns(p, n) =>
       /\ channels[n] # 0 \/ \E m \in Manager : TakesDown(m, p)
       /\ \A m \in Manager : TakesDown(m, p) /\ channels[n] # 0 => n \in LeftNames(m)
  /\ \A k, n \in Reload!Named(TRUE) : channels[k] = channels[n] /\ channels[n] # 0 => k = n

\* What runs is marked, under the name it is registered by, or is being stopped,
\* or was left at work.
Ending == {m \in Manager : At(m, "stopping")}
AtWork == {channels[n] : n \in {k \in running : channels[k] # 0}}
            \cup {request[m].instance : m \in Ending}
RunningIsMarked ==
  /\ \A n \in running : channels[n] # 0 \/ \E m \in Ending : n = Reload!Component(m).name
  /\ AtWork \subseteq started /\ started \subseteq AtWork \cup strays
  /\ \A m \in Ending :
       /\ request[m].instance \in 1..built /\ Reload!Component(m).kind = "channel"
       /\ Reload!Component(m).name \in running /\ channels[Reload!Component(m).name] = 0
       /\ \A n \in Reload!Named(TRUE) : channels[n] # request[m].instance
  /\ \A m \in Manager : At(m, "starting") =>
       /\ channels[Reload!Component(m).name] = request[m].instance
       /\ request[m].instance # 0

LoadedIsRecorded ==
  \A p \in Reload!Plugin :
    components[p] # <<>> => p \in loaded \/ \E m \in Manager : BringsUp(m, p)

ReloadInv == ReloadTypes /\ JobsAreSound /\ RegistryIsOwned /\ ChannelsAreOwned
             /\ RunningIsMarked /\ LoadedIsRecorded

\* What WholeAtRest needs of the surroundings: one reload at a time, and names that
\* no two plugins, and no channel and other component, share.
OneManager == \A k, m \in Manager : k = m
NamesApart ==
  \A p, q \in Reload!Plugin :
    \A c \in Reload!Range(Bundle[p]), d \in Reload!Range(Bundle[q]) :
      c.name = d.name => p = q /\ (c.kind = "channel" <=> d.kind = "channel")

LEMMA RangeIs ==
  ASSUME NEW s
  PROVE  Reload!Range(s) = {s[i] : i \in DOMAIN s} /\ Range(s) = {s[i] : i \in DOMAIN s}
BY DEF Reload!Range, Range

LEMMA PluginsAre ==
  /\ Reload!Plugin = Reload!Range(Order) /\ Absent \notin Reload!Plugin
  /\ Order \in Seq(Reload!Plugin) /\ \A i, j \in DOMAIN Order : Order[i] = Order[j] => i = j
  /\ \A p \in Reload!Plugin : Bundle[p] \in Seq(AnyComponent)
<1>1. Reload!Plugin = Range(Order)
  BY RangeIs DEF Reload!Plugin
<1>2. ASSUME NEW p \in Reload!Plugin PROVE Bundle[p] \in Seq(AnyComponent)
  <2>1. Bundle[p] \in Seq(Range(Bundle[p]))
    BY <1>1, BundleAssumption
  <2>2. Range(Bundle[p]) \subseteq AnyComponent
    BY RangeIs DEF AnyComponent
  <2> QED BY <2>1, <2>2
<1> QED BY <1>1, <1>2, RangeIs, BundleAssumption

LEMMA NamesAre ==
  ASSUME NEW p \in Reload!Plugin, NEW c \in Reload!Range(Bundle[p])
  PROVE  /\ c \in AnyComponent
         /\ c.kind = "channel" => c.name \in Reload!Named(TRUE)
         /\ c.kind # "channel" => c.name \in Reload!Named(FALSE)
BY DEF AnyComponent, Reload!Named

LEMMA Remaining ==
  ASSUME NEW s \in Seq(AnyComponent), s # <<>>
  PROVE  /\ Tail(s) \in Seq(AnyComponent) /\ Head(s) \in Reload!Range(s)
         /\ Reload!Range(s) = {Head(s)} \cup Reload!Range(Tail(s))
<1> DEFINE t == Tail(s)
<1>1. t \in Seq(AnyComponent) /\ Len(t) = Len(s) - 1 /\ \A i \in 1..Len(t) : t[i] = s[i + 1]
  OBVIOUS
<1>2. Len(s) \in Nat /\ Len(s) # 0 /\ Head(s) = s[1]
  OBVIOUS
<1> HIDE DEF t
<1>3. \A i \in DOMAIN s : s[i] = Head(s) \/ (i - 1 \in DOMAIN t /\ t[i - 1] = s[i])
  BY <1>1, <1>2
<1>4. Reload!Range(s) = {s[i] : i \in DOMAIN s} /\ Reload!Range(t) = {t[i] : i \in DOMAIN t}
  BY RangeIs
<1>5. \A i \in DOMAIN t : i + 1 \in DOMAIN s /\ s[i + 1] = t[i]
  BY <1>1, <1>2
<1>6. 1 \in DOMAIN s
  BY <1>2
<1>7. Reload!Range(s) = {Head(s)} \cup Reload!Range(t)
  BY <1>2, <1>3, <1>4, <1>5, <1>6
<1> QED BY <1>1, <1>7 DEF t

LEMMA RequestMoves ==
  ASSUME ReloadTypes, NEW m \in Manager, NEW pc \in ReloadPc, NEW left \in Seq(AnyComponent),
         Reload!Goto(m, pc, left) \/ Reload!GiveUpOn(m, pc, left)
  PROVE  /\ request' \in [Manager -> Requests]
         /\ request'[m].pc = pc /\ request'[m].left = left
         /\ request'[m].jobs = request[m].jobs /\ request'[m].instance = request[m].instance
         /\ request'[m].ok = request[m].ok /\ request'[m].made = request[m].made
         /\ UNCHANGED <<configured, saved>>
<1>1. request \in [Manager -> Requests] /\ request[m] \in Requests
  BY DEF ReloadTypes
<1> DEFINE r == request'[m]
<1>2. \/ r = [request[m] EXCEPT !.pc = pc, !.left = left]
      \/ r = [request[m] EXCEPT !.pc = pc, !.left = left, !.failed = TRUE]
  BY <1>1 DEF Reload!Goto, Reload!GiveUpOn
<1>3. request' = [request EXCEPT ![m] = r]
  BY <1>1 DEF Reload!Goto, Reload!GiveUpOn
<1>5. /\ r \in Requests /\ r.pc = pc /\ r.left = left /\ r.jobs = request[m].jobs
      /\ r.instance = request[m].instance /\ r.ok = request[m].ok /\ r.made = request[m].made
  <2>1. CASE r = [request[m] EXCEPT !.pc = pc, !.left = left]
    BY <2>1, <1>1 DEF Requests
  <2>2. CASE r = [request[m] EXCEPT !.pc = pc, !.left = left, !.failed = TRUE]
    BY <2>2, <1>1 DEF Requests
  <2> QED BY <1>2, <2>1, <2>2
<1> HIDE DEF r
<1>4. request' \in [Manager -> Requests]
  BY <1>1, <1>3, <1>5
<1> QED BY <1>4, <1>5 DEF r, Reload!Goto, Reload!GiveUpOn

LEMMA ProcessedMoves ==
  ASSUME ReloadTypes, NEW m \in Manager, NEW made \in Seq(AnyComponent),
         request[m].left # <<>>, Reload!Processed(m, made)
  PROVE  /\ request' \in [Manager -> Requests]
         /\ request'[m].pc = request[m].pc /\ request'[m].left = Reload!Rest(m)
         /\ request'[m].jobs = request[m].jobs /\ request'[m].ok
         /\ UNCHANGED <<configured, saved>>
<1>1. request \in [Manager -> Requests] /\ request[m] \in Requests
  BY DEF ReloadTypes
<1> DEFINE rest == Reload!Rest(m)
<1>2. rest \in Seq(AnyComponent)
  BY <1>1, Remaining DEF Reload!Rest, Requests
<1> DEFINE r == [request[m] EXCEPT !.left = rest, !.ok = TRUE, !.made = made]
<1>3. request' = [request EXCEPT ![m] = r] /\ UNCHANGED <<configured, saved>>
  BY <1>1 DEF Reload!Processed
<1> HIDE DEF rest
<1>4. /\ r \in Requests /\ r.pc = request[m].pc /\ r.left = rest /\ r.jobs = request[m].jobs
      /\ r.ok = TRUE
  BY <1>1, <1>2 DEF Requests
<1> HIDE DEF r
<1>5. request' \in [Manager -> Requests] /\ request'[m] = r
  BY <1>1, <1>3, <1>4
<1> QED BY <1>3, <1>4, <1>5 DEF rest

LEMMA JobMoves ==
  ASSUME ReloadTypes, NEW m \in Manager, request[m].jobs # <<>>, Reload!JobDone(m)
  PROVE  /\ request' \in [Manager -> Requests]
         /\ request'[m].pc = "next" /\ request'[m].left = request[m].left
         /\ request'[m].jobs = Tail(request[m].jobs)
         /\ UNCHANGED <<configured, saved>>
<1>1. request \in [Manager -> Requests] /\ request[m] \in Requests
  BY DEF ReloadTypes
<1>2. Tail(request[m].jobs) \in Seq(AnyJob)
  BY <1>1 DEF Requests
<1> DEFINE r == request'[m]
<1>3. /\ r = [request[m] EXCEPT !.pc = "next", !.jobs = Tail(request[m].jobs),
                                  !.ok = FALSE, !.made = <<>>]
      /\ request' = [request EXCEPT ![m] = r]
  BY <1>1 DEF Reload!JobDone
<1> DEFINE rest == Tail(request[m].jobs)
<1>6. rest \in Seq(AnyJob) /\ <<>> \in Seq(AnyComponent) /\ "next" \in ReloadPc
  BY <1>2 DEF ReloadPc
<1>7. r = [request[m] EXCEPT !.pc = "next", !.jobs = rest, !.ok = FALSE, !.made = <<>>]
  BY <1>3
<1> HIDE DEF rest, r
<1>8. /\ r \in Requests /\ r.pc = "next" /\ r.left = request[m].left /\ r.jobs = rest
  BY <1>1, <1>6, <1>7 DEF Requests
<1>4. /\ r \in Requests /\ r.pc = "next" /\ r.left = request[m].left /\ r.jobs = Tail(request[m].jobs)
  BY <1>8 DEF rest
<1> HIDE DEF r
<1>5. request' \in [Manager -> Requests]
  BY <1>1, <1>3, <1>4
<1> QED BY <1>4, <1>5 DEF r, Reload!JobDone


LEMMA CurrentIs ==
  ASSUME ReloadTypes, NEW m \in Manager, request[m].jobs # <<>>
  PROVE  /\ Reload!Current(m) \in AnyJob /\ Reload!Current(m) = request[m].jobs[1]
         /\ Reload!Current(m).plugin \in Reload!Plugin
         /\ 1 \in DOMAIN request[m].jobs
<1>1. request[m].jobs \in Seq(AnyJob)
  BY DEF ReloadTypes, Requests
<1>2. /\ 1 \in DOMAIN request[m].jobs /\ request[m].jobs[1] \in AnyJob
      /\ Head(request[m].jobs) = request[m].jobs[1]
  BY <1>1
<1> QED BY <1>2 DEF Reload!Current, AnyJob

LEMMA ComponentIs ==
  ASSUME ReloadTypes, NEW m \in Manager, request[m].left # <<>>
  PROVE  /\ request[m].left \in Seq(AnyComponent)
         /\ Reload!Component(m) \in Reload!Range(request[m].left)
         /\ Reload!Rest(m) \in Seq(AnyComponent)
         /\ Reload!Range(request[m].left) = {Reload!Component(m)} \cup Reload!Range(Reload!Rest(m))
         /\ LeftNames(m) = {Reload!Component(m).name} \cup {c.name : c \in Reload!Range(Reload!Rest(m))}
<1>1. request[m].left \in Seq(AnyComponent)
  BY DEF ReloadTypes, Requests
<1>2. /\ Reload!Component(m) \in Reload!Range(request[m].left)
      /\ Reload!Rest(m) \in Seq(AnyComponent)
      /\ Reload!Range(request[m].left) = {Reload!Component(m)} \cup Reload!Range(Reload!Rest(m))
  BY <1>1, Remaining DEF Reload!Component, Reload!Rest
<1> QED BY <1>1, <1>2 DEF LeftNames

\* What a step that leaves the registries and records alone has to show.
LEMMA OwnedRests ==
  ASSUME ReloadInv, OneManager, NEW m \in Manager,
         UNCHANGED <<registry, channels, running, built, components, loaded>>,
         started \subseteq started', started' \subseteq started \cup strays', strays \subseteq strays',
         ReloadTypes', JobIsSound(m)', ~ At(m, "stopping"), ~ At(m, "stopping")',
         (At(m, "starting") => /\ channels[Reload!Component(m).name] = request[m].instance
                               /\ request[m].instance # 0)',
         ~ At(m, "unregister"),
         At(m, "unregister")' =>
           request'[m].left = components[Reload!Current(m).plugin] /\ UNCHANGED Reload!Current(m),
         \A p \in Reload!Plugin : BringsUp(m, p) => BringsUp(m, p)'
  PROVE  ReloadInv'
<1>1. Manager = {m} /\ ReloadTypes
  BY DEF OneManager, ReloadInv
<1>2. \A p \in Reload!Plugin : ~ TakesDown(m, p)
  BY DEF TakesDown
<1>3. \A p \in Reload!Plugin : \A n : Reload!Owns(p, n)' <=> Reload!Owns(p, n)
  BY DEF Reload!Owns
<1>4. ASSUME NEW p \in Reload!Plugin, NEW n, TakesDown(m, p)', Reload!Owns(p, n)
      PROVE  n \in LeftNames(m)'
  BY <1>4 DEF TakesDown, LeftNames, Reload!Owns
<1>5. JobsAreSound'
  BY <1>1 DEF JobsAreSound
<1>6. RegistryIsOwned'
  BY <1>1, <1>2, <1>3, <1>4 DEF ReloadInv, RegistryIsOwned
<1>7. ChannelsAreOwned'
  BY <1>1, <1>2, <1>3, <1>4 DEF ReloadInv, ChannelsAreOwned
<1>8. RunningIsMarked'
  <2>1. Ending = {} /\ Ending' = {}
    BY <1>1 DEF Ending
  <2>2. AtWork' = AtWork
    BY <2>1 DEF AtWork
  <2>3. AtWork' \subseteq started' /\ started' \subseteq AtWork' \cup strays'
    BY <2>2 DEF ReloadInv, RunningIsMarked
  <2> QED BY <1>1, <2>1, <2>3 DEF ReloadInv, RunningIsMarked
<1>9. LoadedIsRecorded'
  BY <1>1 DEF ReloadInv, LoadedIsRecorded
<1> QED BY <1>5, <1>6, <1>7, <1>8, <1>9 DEF ReloadInv

LEMMA TakeJobStep ==
  ASSUME ReloadInv, OneManager, NEW m \in Manager, Reload!TakeJob(m)
  PROVE  ReloadInv'
<1>1. /\ ReloadTypes /\ JobIsSound(m) /\ At(m, "next")
      /\ UNCHANGED <<registry, channels, running, started, strays, built, components, loaded>>
  BY DEF ReloadInv, JobsAreSound, Reload!TakeJob, Reload!At, At, Reload!owned
<1>2. CASE request[m].jobs = <<>>
  <2>1. request' = [request EXCEPT ![m] = Reload!Idle] /\ UNCHANGED <<configured, saved>>
    BY <1>2 DEF Reload!TakeJob
  <2>2. Reload!Idle \in Requests
    BY DEF Reload!Idle, Requests, ReloadPc
  <2>3. /\ request' \in [Manager -> Requests] /\ request'[m] = Reload!Idle
        /\ request'[m].pc = "idle" /\ request'[m].jobs = <<>>
    BY <1>1, <2>1, <2>2 DEF ReloadTypes, Reload!Idle
  <2>4. ReloadTypes'
    BY <1>1, <2>1, <2>3 DEF ReloadTypes
  <2>5. JobIsSound(m)'
    BY <2>3 DEF JobIsSound, At
  <2> QED BY <1>1, <2>3, <2>4, <2>5, OwnedRests DEF At, BringsUp
<1>3. CASE request[m].jobs # <<>>
  <2> DEFINE p == Reload!Current(m).plugin
  <2>1. p \in Reload!Plugin /\ 1 \in DOMAIN request[m].jobs /\ Reload!Current(m) = request[m].jobs[1]
    BY <1>1, <1>3, CurrentIs
  <2>2. components[p] \in Seq(AnyComponent) /\ Bundle[p] \in Seq(AnyComponent)
    BY <1>1, <2>1, PluginsAre DEF ReloadTypes
  <2>3. CASE Reload!Current(m).remove
    <3>1. Reload!Goto(m, "unregister", components[p])
      BY <1>3, <2>3 DEF Reload!TakeJob
    <3>2. /\ request' \in [Manager -> Requests] /\ request'[m].pc = "unregister"
          /\ request'[m].left = components[p] /\ request'[m].jobs = request[m].jobs
          /\ UNCHANGED <<configured, saved>>
      BY <1>1, <2>2, <3>1, RequestMoves DEF ReloadPc
    <3>3. UNCHANGED Reload!Current(m)
      BY <3>2 DEF Reload!Current
    <3>4. ReloadTypes'
      BY <1>1, <3>2 DEF ReloadTypes
    <3>5. JobIsSound(m)'
      BY <1>1, <1>3, <3>2, <3>3 DEF JobIsSound, At
    <3> QED BY <1>1, <3>2, <3>3, <3>4, <3>5, OwnedRests DEF At, BringsUp
  <2>4. CASE ~ Reload!Current(m).remove
    <3>1. Reload!Goto(m, "register", Bundle[p])
      BY <1>3, <2>4 DEF Reload!TakeJob
    <3>2. /\ request' \in [Manager -> Requests] /\ request'[m].pc = "register"
          /\ request'[m].left = Bundle[p] /\ request'[m].jobs = request[m].jobs
          /\ UNCHANGED <<configured, saved>>
      BY <1>1, <2>2, <3>1, RequestMoves DEF ReloadPc
    <3>3. UNCHANGED Reload!Current(m)
      BY <3>2 DEF Reload!Current
    <3>4. ReloadTypes'
      BY <1>1, <3>2 DEF ReloadTypes
    <3>5. p \notin loaded
      BY <1>1, <2>1, <2>4 DEF JobIsSound
    <3>6. JobIsSound(m)'
      BY <1>1, <1>3, <3>2, <3>3, <3>5 DEF JobIsSound, At
    <3> QED BY <1>1, <3>2, <3>3, <3>4, <3>6, OwnedRests DEF At, BringsUp
  <2> QED BY <2>3, <2>4
<1> QED BY <1>2, <1>3

LEMMA NotBuiltStep ==
  ASSUME ReloadInv, OneManager, NEW m \in Manager, Reload!NotBuilt(m)
  PROVE  ReloadInv'
<1>1. /\ ReloadTypes /\ JobIsSound(m) /\ At(m, "register") /\ request[m].left # <<>>
      /\ UNCHANGED <<registry, channels, running, started, strays, built, components, loaded>>
      /\ Reload!GiveUpOn(m, "register", Reload!Rest(m))
  BY DEF ReloadInv, JobsAreSound, Reload!NotBuilt, Reload!At, At, Reload!owned
<1>2. /\ Reload!Rest(m) \in Seq(AnyComponent)
      /\ Reload!Range(Reload!Rest(m)) \subseteq Reload!Range(request[m].left)
  BY <1>1, ComponentIs
<1>3. /\ request' \in [Manager -> Requests] /\ request'[m].pc = "register"
      /\ request'[m].left = Reload!Rest(m) /\ request'[m].jobs = request[m].jobs
      /\ request'[m].ok = request[m].ok /\ UNCHANGED <<configured, saved>>
  BY <1>1, <1>2, RequestMoves DEF ReloadPc
<1>4. UNCHANGED Reload!Current(m)
  BY <1>3 DEF Reload!Current
<1>5. ReloadTypes'
  BY <1>1, <1>3 DEF ReloadTypes
<1>6. JobIsSound(m)'
  BY <1>1, <1>2, <1>3, <1>4 DEF JobIsSound, At
<1> QED BY <1>1, <1>3, <1>4, <1>5, <1>6, OwnedRests DEF At, BringsUp

LEMMA EmptyListStep ==
  ASSUME ReloadInv, OneManager, NEW m \in Manager, Reload!EmptyList(m)
  PROVE  ReloadInv'
<1>1. /\ ReloadTypes /\ JobIsSound(m) /\ At(m, "register") /\ request[m].left # <<>>
      /\ UNCHANGED <<registry, channels, running, started, strays, built, components, loaded>>
      /\ Reload!Processed(m, request[m].made)
  BY DEF ReloadInv, JobsAreSound, Reload!EmptyList, Reload!At, At, Reload!owned
<1>2. /\ Reload!Range(Reload!Rest(m)) \subseteq Reload!Range(request[m].left)
      /\ request[m].made \in Seq(AnyComponent)
  BY <1>1, ComponentIs DEF ReloadTypes, Requests
<1>3. /\ request' \in [Manager -> Requests] /\ request'[m].pc = "register"
      /\ request'[m].left = Reload!Rest(m) /\ request'[m].jobs = request[m].jobs
      /\ request'[m].ok /\ UNCHANGED <<configured, saved>>
  BY <1>1, <1>2, ProcessedMoves DEF At
<1>4. UNCHANGED Reload!Current(m)
  BY <1>3 DEF Reload!Current
<1>5. ReloadTypes'
  BY <1>1, <1>3 DEF ReloadTypes
<1>6. JobIsSound(m)'
  BY <1>1, <1>2, <1>3, <1>4 DEF JobIsSound, At
<1>7. \A p \in Reload!Plugin : BringsUp(m, p) => BringsUp(m, p)'
  BY <1>3, <1>4 DEF BringsUp, At
<1> QED BY <1>1, <1>3, <1>5, <1>6, <1>7, OwnedRests DEF At

LEMMA StartOneStep ==
  ASSUME ReloadInv, OneManager, NEW m \in Manager, Reload!StartOne(m)
  PROVE  ReloadInv'
<1>1. /\ ReloadTypes /\ JobIsSound(m) /\ At(m, "start") /\ request[m].left # <<>>
      /\ UNCHANGED <<registry, channels, running, started, strays, built, components, loaded>>
  BY DEF ReloadInv, JobsAreSound, Reload!StartOne, Reload!At, At, Reload!owned
<1>2. /\ Reload!Rest(m) \in Seq(AnyComponent)
      /\ Reload!Range(Reload!Rest(m)) \subseteq Reload!Range(request[m].left)
  BY <1>1, ComponentIs
<1> DEFINE n == Reload!Component(m).name
<1>3. CASE channels[n] = 0 \/ n \in running
  <2>1. \/ Reload!Goto(m, "start", Reload!Rest(m))
        \/ Reload!GiveUpOn(m, "start", Reload!Rest(m))
    BY <1>3 DEF Reload!StartOne
  <2>2. /\ request' \in [Manager -> Requests] /\ request'[m].pc = "start"
        /\ request'[m].left = Reload!Rest(m) /\ request'[m].jobs = request[m].jobs
        /\ UNCHANGED <<configured, saved>>
    BY <1>1, <1>2, <2>1, RequestMoves DEF ReloadPc
  <2>3. ReloadTypes'
    BY <1>1, <2>2 DEF ReloadTypes
  <2>4. JobIsSound(m)'
    BY <1>1, <1>2, <2>2 DEF JobIsSound, At
  <2> QED BY <1>1, <2>2, <2>3, <2>4, OwnedRests DEF At, BringsUp
<1>4. CASE ~ (channels[n] = 0 \/ n \in running)
  <2>1. /\ request' = [request EXCEPT ![m].pc = "starting", ![m].instance = channels[n]]
        /\ UNCHANGED <<configured, saved>>
    BY <1>4 DEF Reload!StartOne
  <2>2. channels[n] \in Nat
    <3>1. Reload!Component(m) \in AnyComponent /\ Reload!Component(m).kind = "channel"
      <4>1. request[m].left \in Seq(AnyComponent) /\ Reload!Component(m) \in Reload!Range(request[m].left)
        BY <1>1, ComponentIs
      <4>2. Reload!Range(request[m].left) \subseteq AnyComponent
        BY <4>1, RangeIs
      <4> QED BY <1>1, <4>1, <4>2 DEF JobIsSound
    <3>2. n \in Reload!Named(TRUE)
      BY <3>1 DEF AnyComponent, Reload!Named
    <3>3. channels[n] \in 0..built /\ built \in Nat
      BY <1>1, <3>2 DEF ReloadTypes
    <3> QED BY <3>3
  <2>3. /\ request' \in [Manager -> Requests] /\ request'[m].pc = "starting"
        /\ request'[m].left = request[m].left /\ request'[m].jobs = request[m].jobs
        /\ request'[m].instance = channels[n]
    <3> DEFINE r == [request[m] EXCEPT !.pc = "starting", !.instance = channels[n]]
    <3>1. /\ r \in Requests /\ r.pc = "starting" /\ r.left = request[m].left
          /\ r.jobs = request[m].jobs /\ r.instance = channels[n]
      BY <1>1, <2>2 DEF ReloadTypes, Requests, ReloadPc
    <3>2. request' = [request EXCEPT ![m] = r]
      BY <1>1, <2>1 DEF ReloadTypes
    <3> HIDE DEF r
    <3> QED BY <1>1, <3>1, <3>2 DEF ReloadTypes
  <2>4. UNCHANGED Reload!Component(m)
    BY <2>3 DEF Reload!Component
  <2>5. ReloadTypes'
    BY <1>1, <2>1, <2>3 DEF ReloadTypes
  <2>6. JobIsSound(m)'
    BY <1>1, <2>3 DEF JobIsSound, At
  <2> QED BY <1>1, <1>4, <2>3, <2>4, <2>5, <2>6, OwnedRests DEF At, BringsUp
<1> QED BY <1>3, <1>4


LEMMA StartFailsStep ==
  ASSUME ReloadInv, OneManager, NEW m \in Manager, Reload!StartFails(m)
  PROVE  ReloadInv'
<1>1. /\ ReloadTypes /\ JobIsSound(m) /\ At(m, "starting") /\ request[m].left # <<>>
      /\ UNCHANGED <<registry, channels, running, built, components, loaded>>
      /\ started \subseteq started' /\ started' \subseteq started \cup strays'
      /\ strays \subseteq strays'
      /\ Reload!GiveUpOn(m, "start", Reload!Rest(m))
  BY DEF ReloadInv, JobsAreSound, JobIsSound, Reload!StartFails, Reload!At, At, Reload!owned
<1>2. /\ Reload!Rest(m) \in Seq(AnyComponent)
      /\ Reload!Range(Reload!Rest(m)) \subseteq Reload!Range(request[m].left)
  BY <1>1, ComponentIs
<1>3. /\ request' \in [Manager -> Requests] /\ request'[m].pc = "start"
      /\ request'[m].left = Reload!Rest(m) /\ request'[m].jobs = request[m].jobs
      /\ UNCHANGED <<configured, saved>>
  BY <1>1, <1>2, RequestMoves DEF ReloadPc
<1>4. ReloadTypes'
  BY <1>1, <1>3 DEF ReloadTypes
<1>5. JobIsSound(m)'
  BY <1>1, <1>2, <1>3 DEF JobIsSound, At
<1> QED BY <1>1, <1>3, <1>4, <1>5, OwnedRests DEF At, BringsUp

\* What is left of the jobs when the first is done.
LEMMA NextJobs ==
  ASSUME NEW s \in Seq(AnyJob), s # <<>>
  PROVE  \A k \in DOMAIN Tail(s) : /\ k + 1 \in DOMAIN s /\ k + 1 > 1 /\ k \in Nat
                                   /\ Tail(s)[k] = s[k + 1]
<1> DEFINE t == Tail(s)
<1>1. t \in Seq(AnyJob) /\ Len(t) = Len(s) - 1 /\ \A i \in 1..Len(t) : t[i] = s[i + 1]
  OBVIOUS
<1>2. Len(s) \in Nat /\ Len(s) # 0
  OBVIOUS
<1> HIDE DEF t
<1>3. \A k \in DOMAIN t : k + 1 \in DOMAIN s /\ k + 1 > 1 /\ k \in Nat /\ t[k] = s[k + 1]
  BY <1>1, <1>2
<1> QED BY <1>3 DEF t

LEMMA JobDoneIsSound ==
  ASSUME ReloadTypes, NEW m \in Manager, JobIsSound(m), request[m].jobs # <<>>,
         request'[m].pc = "next", request'[m].jobs = Tail(request[m].jobs), loaded' \subseteq loaded
  PROVE  JobIsSound(m)'
<1> DEFINE s == request[m].jobs  t == request'[m].jobs
<1>1. s \in Seq(AnyJob)
  BY DEF ReloadTypes, Requests
<1>2. \A k \in DOMAIN t : k + 1 \in DOMAIN s /\ k + 1 > 1 /\ k \in Nat /\ t[k] = s[k + 1]
  BY <1>1, NextJobs
<1>3. \A i, j \in DOMAIN s : s[i].plugin = s[j].plugin => i = j
  BY DEF JobIsSound
<1>4. \A k \in DOMAIN s : k > 1 /\ ~ s[k].remove => s[k].plugin \notin loaded
  BY DEF JobIsSound
<1> HIDE DEF s, t
<1>5. \A i, j \in DOMAIN t : t[i].plugin = t[j].plugin => i = j
  <2> SUFFICES ASSUME NEW i \in DOMAIN t, NEW j \in DOMAIN t, t[i].plugin = t[j].plugin
               PROVE  i = j
    OBVIOUS
  <2>1. i + 1 = j + 1 /\ i \in Nat /\ j \in Nat
    BY <1>2, <1>3
  <2> QED BY <2>1
<1>6. \A k \in DOMAIN t : ~ t[k].remove => t[k].plugin \notin loaded'
  BY <1>2, <1>4
<1> QED BY <1>5, <1>6 DEF JobIsSound, At, t

LEMMA PluginDoneStep ==
  ASSUME ReloadInv, OneManager, NEW m \in Manager, Reload!PluginDone(m)
  PROVE  ReloadInv'
<1>1. /\ ReloadTypes /\ JobIsSound(m) /\ At(m, "start") /\ request[m].jobs # <<>>
      /\ UNCHANGED <<registry, channels, running, started, strays, built, components, loaded>>
      /\ Reload!JobDone(m)
  BY DEF ReloadInv, JobsAreSound, JobIsSound, Reload!PluginDone, Reload!At, At, Reload!owned
<1>2. /\ request' \in [Manager -> Requests] /\ request'[m].pc = "next"
      /\ request'[m].jobs = Tail(request[m].jobs) /\ UNCHANGED <<configured, saved>>
  BY <1>1, JobMoves
<1>3. ReloadTypes'
  BY <1>1, <1>2 DEF ReloadTypes
<1>4. JobIsSound(m)'
  BY <1>1, <1>2, JobDoneIsSound
<1> QED BY <1>1, <1>2, <1>3, <1>4, OwnedRests DEF At, BringsUp

LEMMA SomeJobs ==
  ASSUME NEW S, NEW remove \in BOOLEAN, NEW add \in BOOLEAN
  PROVE  /\ Reload!Jobs(S, remove, add) \in Seq(AnyJob)
         /\ \A k \in DOMAIN Reload!Jobs(S, remove, add) :
              /\ Reload!Jobs(S, remove, add)[k].plugin \in S
              /\ Reload!Jobs(S, remove, add)[k].remove = remove
         /\ \A i, j \in DOMAIN Reload!Jobs(S, remove, add) :
              Reload!Jobs(S, remove, add)[i].plugin = Reload!Jobs(S, remove, add)[j].plugin => i = j
<1> DEFINE ps == Reload!InOrder(S)
           js == Reload!Jobs(S, remove, add)
<1>1. /\ ps \in Seq(Reload!Plugin) /\ \A i \in DOMAIN ps : ps[i] \in S
      /\ \A i, j \in DOMAIN ps : ps[i] = ps[j] => i = j
  BY PluginsAre, OnlySelects DEF Reload!InOrder
<1>2. js = [k \in DOMAIN ps |-> [plugin |-> ps[k], remove |-> remove, add |-> add]]
  BY DEF Reload!Jobs
<1> HIDE DEF ps, js
<1>3. /\ DOMAIN js = 1..Len(ps) /\ Len(ps) \in Nat
      /\ \A k \in DOMAIN ps : js[k] \in AnyJob /\ js[k].plugin = ps[k] /\ js[k].remove = remove
  BY <1>1, <1>2 DEF AnyJob
<1>4. js \in Seq(AnyJob)
  BY <1>1, <1>2, <1>3
<1> QED BY <1>1, <1>2, <1>3, <1>4 DEF js

LEMMA JobsInARow ==
  ASSUME NEW r \in Seq(AnyJob), NEW s \in Seq(AnyJob), NEW R, NEW S, R \cap S = {},
         \A k \in DOMAIN r : r[k].plugin \in R, \A k \in DOMAIN s : s[k].plugin \in S,
         \A i, j \in DOMAIN r : r[i].plugin = r[j].plugin => i = j,
         \A i, j \in DOMAIN s : s[i].plugin = s[j].plugin => i = j
  PROVE  /\ r \o s \in Seq(AnyJob)
         /\ \A k \in DOMAIN (r \o s) : \/ k \in DOMAIN r /\ (r \o s)[k] = r[k]
                                       \/ \E i \in DOMAIN s : (r \o s)[k] = s[i]
         /\ \A k \in DOMAIN (r \o s) : (r \o s)[k].plugin \in R \cup S
         /\ \A i, j \in DOMAIN (r \o s) : (r \o s)[i].plugin = (r \o s)[j].plugin => i = j
<1> DEFINE t == r \o s
<1>1. t \in Seq(AnyJob) /\ Len(t) = Len(r) + Len(s) /\ Len(r) \in Nat /\ Len(s) \in Nat
  OBVIOUS
<1>2. \A k \in 1..Len(t) : t[k] = IF k <= Len(r) THEN r[k] ELSE s[k - Len(r)]
  OBVIOUS
<1> HIDE DEF t
<1>3. \A k \in DOMAIN t : \/ k \in DOMAIN r /\ t[k] = r[k]
                          \/ k - Len(r) \in DOMAIN s /\ t[k] = s[k - Len(r)] /\ k \in Nat
  BY <1>1, <1>2
<1>4. \A k \in DOMAIN t : t[k].plugin \in R \cup S
  BY <1>3
<1>5. ASSUME NEW i \in DOMAIN t, NEW j \in DOMAIN t, t[i].plugin = t[j].plugin PROVE i = j
  <2>1. CASE t[i].plugin \in R
    <3>1. t[i].plugin \notin S /\ t[j].plugin \notin S
      BY <2>1, <1>5
    <3>2. i \in DOMAIN r /\ t[i] = r[i] /\ j \in DOMAIN r /\ t[j] = r[j]
      BY <3>1, <1>3
    <3> QED BY <3>2, <1>5
  <2>2. CASE t[i].plugin \notin R
    <3>1. /\ i - Len(r) \in DOMAIN s /\ t[i] = s[i - Len(r)] /\ i \in Nat
          /\ j - Len(r) \in DOMAIN s /\ t[j] = s[j - Len(r)] /\ j \in Nat
      BY <2>2, <1>3, <1>5
    <3>2. i - Len(r) = j - Len(r)
      BY <3>1, <1>5
    <3> QED BY <3>1, <3>2, <1>1
  <2> QED BY <2>1, <2>2
<1> QED BY <1>1, <1>3, <1>4, <1>5 DEF t

LEMMA AskStep ==
  ASSUME ReloadInv, OneManager, NEW m \in Manager, Reload!Ask(m)
  PROVE  ReloadInv'
<1> DEFINE out == Reload!Jobs(loaded \ configured, TRUE, FALSE)
           again == Reload!Jobs(configured \cap loaded, TRUE, TRUE)
           new == Reload!Jobs(configured \ loaded, FALSE, TRUE)
           todo == out \o again \o new
           r == [Reload!Idle EXCEPT !.pc = "next", !.wanted = saved, !.jobs = todo]
<1>1. /\ ReloadTypes /\ request[m] = Reload!Idle /\ UNCHANGED <<configured, saved>>
      /\ UNCHANGED <<registry, channels, running, started, strays, built, components, loaded>>
      /\ request' = [request EXCEPT ![m] = r]
  BY DEF ReloadInv, Reload!Ask, Reload!owned
<1>2. /\ out \in Seq(AnyJob) /\ again \in Seq(AnyJob) /\ new \in Seq(AnyJob)
      /\ \A k \in DOMAIN out : out[k].plugin \in loaded \ configured /\ out[k].remove
      /\ \A k \in DOMAIN again : again[k].plugin \in configured \cap loaded /\ again[k].remove
      /\ \A k \in DOMAIN new : new[k].plugin \in configured \ loaded
      /\ \A i, j \in DOMAIN out : out[i].plugin = out[j].plugin => i = j
      /\ \A i, j \in DOMAIN again : again[i].plugin = again[j].plugin => i = j
      /\ \A i, j \in DOMAIN new : new[i].plugin = new[j].plugin => i = j
  BY SomeJobs
<1> HIDE DEF out, again, new
<1> DEFINE first == out \o again
<1>3. /\ first \in Seq(AnyJob)
      /\ \A k \in DOMAIN first : first[k].plugin \in loaded /\ first[k].remove
      /\ \A i, j \in DOMAIN first : first[i].plugin = first[j].plugin => i = j
  <2>1. (loaded \ configured) \cap (configured \cap loaded) = {}
    OBVIOUS
  <2> QED BY <1>2, <2>1, JobsInARow, SMTT(30)
<1>4. todo = first \o new
  OBVIOUS
<1> HIDE DEF first, todo
<1>5. /\ todo \in Seq(AnyJob)
      /\ \A k \in DOMAIN todo : ~ todo[k].remove => todo[k].plugin \notin loaded
      /\ \A i, j \in DOMAIN todo : todo[i].plugin = todo[j].plugin => i = j
  <2>1. loaded \cap (configured \ loaded) = {}
    OBVIOUS
  <2>2. \A k \in DOMAIN todo : \/ k \in DOMAIN first /\ todo[k] = first[k]
                               \/ \E i \in DOMAIN new : todo[k] = new[i]
    BY <1>2, <1>3, <1>4, <2>1, JobsInARow
  <2>3. /\ todo \in Seq(AnyJob)
        /\ \A i, j \in DOMAIN todo : todo[i].plugin = todo[j].plugin => i = j
    BY <1>2, <1>3, <1>4, <2>1, JobsInARow, SMTT(30)
  <2> QED BY <1>2, <1>3, <2>2, <2>3
<1>6. r \in Requests /\ r.pc = "next" /\ r.jobs = todo
  BY <1>1, <1>5 DEF Reload!Idle, Requests, ReloadPc, ReloadTypes
<1> HIDE DEF r
<1>7. request' \in [Manager -> Requests] /\ request'[m] = r
  BY <1>1, <1>6 DEF ReloadTypes
<1>8. ReloadTypes'
  BY <1>1, <1>7 DEF ReloadTypes
<1>9. JobIsSound(m)'
  BY <1>1, <1>5, <1>6, <1>7 DEF JobIsSound, At
<1>10. request[m].pc = "idle"
  BY <1>1 DEF Reload!Idle
<1> QED BY <1>1, <1>6, <1>7, <1>8, <1>9, <1>10, OwnedRests DEF At, BringsUp


\* A component on the list of the plugin m takes down or brings up is one of that
\* plugin's, and of no other.
LEMMA ListedIsThePlugins ==
  ASSUME ReloadInv, NamesApart, NEW m \in Manager, request[m].left # <<>>,
         At(m, "unregister") \/ At(m, "stopping") \/ At(m, "register")
  PROVE  LET p == Reload!Current(m).plugin  c == Reload!Component(m) IN
         /\ request[m].jobs # <<>> /\ p \in Reload!Plugin
         /\ c \in Reload!Range(Bundle[p]) /\ c \in AnyComponent
         /\ c.kind = "channel" => c.name \in Reload!Named(TRUE) /\ c.name \notin Reload!Named(FALSE)
         /\ c.kind # "channel" => c.name \in Reload!Named(FALSE) /\ c.name \notin Reload!Named(TRUE)
         /\ \A q \in Reload!Plugin : Reload!Owns(q, c.name) => q = p
<1> DEFINE p == Reload!Current(m).plugin
           c == Reload!Component(m)
<1>1. ReloadTypes /\ JobIsSound(m)
  BY DEF ReloadInv, JobsAreSound
<1>2. request[m].jobs # <<>>
  BY <1>1 DEF JobIsSound, At
<1>3. p \in Reload!Plugin
  BY <1>1, <1>2, CurrentIs
<1>4. c \in Reload!Range(request[m].left)
  BY <1>1, ComponentIs
<1>5. c \in Reload!Range(Bundle[p])
  BY <1>1, <1>3, <1>4 DEF JobIsSound, ReloadTypes
<1>6. \A q \in Reload!Plugin : \A d \in Reload!Range(Bundle[q]) :
        d.name = c.name => q = p /\ (d.kind = "channel" <=> c.kind = "channel")
  BY <1>3, <1>5 DEF NamesApart
<1>7. \A q \in Reload!Plugin : Reload!Owns(q, c.name) => q = p
  BY <1>1, <1>6 DEF Reload!Owns, ReloadTypes
<1>8. /\ c.name \in Reload!Named(TRUE) => c.kind = "channel"
      /\ c.name \in Reload!Named(FALSE) => c.kind # "channel"
  BY <1>6 DEF Reload!Named
<1>9. /\ c \in AnyComponent
      /\ c.kind = "channel" => c.name \in Reload!Named(TRUE)
      /\ c.kind # "channel" => c.name \in Reload!Named(FALSE)
  BY <1>3, <1>5, NamesAre
<1> QED BY <1>2, <1>3, <1>5, <1>7, <1>8, <1>9

LEMMA RegistryRests ==
  ASSUME RegistryIsOwned, NEW m, Manager = {m}, UNCHANGED registry,
         \A q \in Reload!Plugin : /\ TakesDown(m, q)' <=> TakesDown(m, q)
                                 /\ \A n : Reload!Owns(q, n)' <=> Reload!Owns(q, n),
         \A n \in Reload!Named(FALSE) : n \in LeftNames(m) => n \in LeftNames(m)'
  PROVE  RegistryIsOwned'
<1> SUFFICES ASSUME NEW q \in Reload!Plugin, NEW n \in Reload!Named(FALSE)
             PROVE  /\ registry[n] = q => Reload!Owns(q, n)'
                    /\ Reload!Owns(q, n)' => registry[n] = q \/ TakesDown(m, q)'
                    /\ TakesDown(m, q)' /\ registry[n] = q => n \in LeftNames(m)'
  BY DEF RegistryIsOwned
<1> QED BY DEF RegistryIsOwned

LEMMA ChannelsRest ==
  ASSUME ChannelsAreOwned, NEW m, Manager = {m}, UNCHANGED channels,
         \A q \in Reload!Plugin : /\ TakesDown(m, q)' <=> TakesDown(m, q)
                                 /\ \A n : Reload!Owns(q, n)' <=> Reload!Owns(q, n),
         \A n \in Reload!Named(TRUE) : n \in LeftNames(m) => n \in LeftNames(m)'
  PROVE  ChannelsAreOwned'
<1>1. ASSUME NEW q \in Reload!Plugin, NEW n \in Reload!Named(TRUE), Reload!Owns(q, n)'
      PROVE  /\ channels[n] # 0 \/ TakesDown(m, q)'
             /\ TakesDown(m, q)' /\ channels[n] # 0 => n \in LeftNames(m)'
  BY <1>1 DEF ChannelsAreOwned
<1>2. \A n \in Reload!Named(TRUE) : channels[n] # 0 => \E q \in Reload!Plugin : Reload!Owns(q, n)'
  BY DEF ChannelsAreOwned
<1> QED BY <1>1, <1>2 DEF ChannelsAreOwned

\* With nothing being stopped, what is at work is what is marked and registered.
LEMMA RunningRests ==
  ASSUME RunningIsMarked, NEW m, Manager = {m}, Ending = {}, Ending' = {},
         ~ At(m, "starting")', UNCHANGED <<channels, running, started, strays>>
  PROVE  RunningIsMarked'
<1>1. AtWork' = AtWork
  BY DEF AtWork
<1>2. AtWork' \subseteq started' /\ started' \subseteq AtWork' \cup strays'
  BY <1>1 DEF RunningIsMarked
<1>3. \A n \in running' : channels'[n] # 0
  BY DEF RunningIsMarked
<1> QED BY <1>2, <1>3 DEF RunningIsMarked

LEMMA DeregisterStep ==
  ASSUME ReloadInv, OneManager, NamesApart, NEW m \in Manager, Reload!Deregister(m)
  PROVE  ReloadInv'
<1> DEFINE p == Reload!Current(m).plugin
           c == Reload!Component(m)
<1>1. /\ ReloadTypes /\ JobIsSound(m) /\ At(m, "unregister") /\ request[m].left # <<>>
      /\ c.kind # "channel" /\ registry' = [registry EXCEPT ![c.name] = Absent]
      /\ Reload!Goto(m, "unregister", Reload!Rest(m))
      /\ UNCHANGED <<channels, running, started, strays, built, components, loaded>>
      /\ Manager = {m}
  BY DEF ReloadInv, JobsAreSound, Reload!Deregister, Reload!At, At, OneManager
<1>2. /\ Reload!Rest(m) \in Seq(AnyComponent)
      /\ Reload!Range(Reload!Rest(m)) \subseteq Reload!Range(request[m].left)
      /\ LeftNames(m) = {c.name} \cup {d.name : d \in Reload!Range(Reload!Rest(m))}
  BY <1>1, ComponentIs
<1>3. /\ request' \in [Manager -> Requests] /\ request'[m].pc = "unregister"
      /\ request'[m].left = Reload!Rest(m) /\ request'[m].jobs = request[m].jobs
      /\ UNCHANGED <<configured, saved>>
  BY <1>1, <1>2, RequestMoves DEF ReloadPc
<1>4. UNCHANGED Reload!Current(m)
  BY <1>3 DEF Reload!Current
<1>5. /\ p \in Reload!Plugin /\ c.name \in Reload!Named(FALSE) /\ c.name \notin Reload!Named(TRUE)
      /\ \A q \in Reload!Plugin : Reload!Owns(q, c.name) => q = p
  BY <1>1, ListedIsThePlugins
<1>6. LeftNames(m) = {c.name} \cup LeftNames(m)'
  BY <1>2, <1>3 DEF LeftNames
<1>7. registry' \in [Reload!Named(FALSE) -> Reload!Plugin \cup {Absent}] /\ registry'[c.name] = Absent
      /\ \A n \in Reload!Named(FALSE) : n # c.name => registry'[n] = registry[n]
  BY <1>1, <1>5 DEF ReloadTypes
<1>8. ReloadTypes'
  BY <1>1, <1>3, <1>7 DEF ReloadTypes
<1>9. JobsAreSound'
  <2>1. JobIsSound(m)'
    BY <1>1, <1>2, <1>3, <1>4 DEF JobIsSound, At
  <2> QED BY <1>1, <2>1 DEF JobsAreSound
<1>10. \A q \in Reload!Plugin : /\ TakesDown(m, q) <=> q = p
                                /\ TakesDown(m, q)' <=> q = p
                                /\ \A n : Reload!Owns(q, n)' <=> Reload!Owns(q, n)
  BY <1>1, <1>3, <1>4 DEF TakesDown, At, Reload!Owns
<1>11. RegistryIsOwned'
  <2> SUFFICES ASSUME NEW q \in Reload!Plugin, NEW n \in Reload!Named(FALSE)
               PROVE  /\ registry'[n] = q => Reload!Owns(q, n)
                      /\ Reload!Owns(q, n) => registry'[n] = q \/ q = p
                      /\ q = p /\ registry'[n] = q => n \in LeftNames(m)'
    BY <1>1, <1>10 DEF RegistryIsOwned
  <2>1. /\ registry[n] = q => Reload!Owns(q, n)
        /\ Reload!Owns(q, n) => registry[n] = q \/ q = p
        /\ q = p /\ registry[n] = q => n \in LeftNames(m)
    BY <1>1, <1>10 DEF ReloadInv, RegistryIsOwned
  <2>2. CASE n = c.name
    BY <2>2, <1>5, <1>7, PluginsAre
  <2>3. CASE n # c.name
    BY <2>1, <2>3, <1>6, <1>7
  <2> QED BY <2>2, <2>3
<1>12. ChannelsAreOwned'
  <2>1. \A n \in Reload!Named(TRUE) : n \in LeftNames(m) => n \in LeftNames(m)'
    BY <1>5, <1>6
  <2> QED BY <2>1, <1>1, <1>10, ChannelsRest DEF ReloadInv
<1>13. RunningIsMarked'
  <2>1. Ending = {} /\ Ending' = {} /\ ~ At(m, "starting")'
    BY <1>1, <1>3 DEF Ending, At
  <2> QED BY <1>1, <2>1, RunningRests DEF ReloadInv
<1>14. LoadedIsRecorded'
  BY <1>1, <1>3 DEF ReloadInv, LoadedIsRecorded, BringsUp, At
<1> QED BY <1>8, <1>9, <1>11, <1>12, <1>13, <1>14 DEF ReloadInv

LEMMA DeregisterChannelStep ==
  ASSUME ReloadInv, OneManager, NamesApart, NEW m \in Manager, Reload!DeregisterChannel(m)
  PROVE  ReloadInv'
<1> DEFINE p == Reload!Current(m).plugin
           c == Reload!Component(m)
           runs == channels[c.name] # 0 /\ c.name \in running
<1>1. /\ ReloadTypes /\ JobIsSound(m) /\ At(m, "unregister") /\ request[m].left # <<>>
      /\ c.kind = "channel" /\ channels' = [channels EXCEPT ![c.name] = 0]
      /\ runs => /\ request' = [request EXCEPT ![m].pc = "stopping",
                                              ![m].instance = channels[c.name]]
                 /\ UNCHANGED <<configured, saved>>
      /\ ~ runs => Reload!Goto(m, "unregister", Reload!Rest(m))
      /\ UNCHANGED <<registry, running, started, strays, built, components, loaded>>
      /\ Manager = {m}
  BY DEF ReloadInv, JobsAreSound, Reload!DeregisterChannel, Reload!At, At, OneManager
<1>2. /\ Reload!Rest(m) \in Seq(AnyComponent)
      /\ Reload!Range(Reload!Rest(m)) \subseteq Reload!Range(request[m].left)
      /\ LeftNames(m) = {c.name} \cup {d.name : d \in Reload!Range(Reload!Rest(m))}
  BY <1>1, ComponentIs
<1>3. /\ p \in Reload!Plugin /\ c.name \in Reload!Named(TRUE) /\ c.name \notin Reload!Named(FALSE)
      /\ \A q \in Reload!Plugin : Reload!Owns(q, c.name) => q = p
  BY <1>1, ListedIsThePlugins
<1>4. /\ channels[c.name] \in 0..built /\ channels[c.name] \in Nat /\ built \in Nat
      /\ channels' \in [Reload!Named(TRUE) -> 0..built] /\ channels'[c.name] = 0
      /\ \A n \in Reload!Named(TRUE) : n # c.name => channels'[n] = channels[n]
  <2>1. channels \in [Reload!Named(TRUE) -> 0..built] /\ built \in Nat
    BY <1>1 DEF ReloadTypes
  <2>2. channels[c.name] \in 0..built
    BY <1>3, <2>1
  <2>3. channels[c.name] \in Nat /\ 0 \in 0..built
    <3> DEFINE i == channels[c.name]
    <3>1. i \in 0..built
      BY <2>2
    <3> HIDE DEF i
    <3>2. i \in Nat
      BY <2>1, <3>1
    <3>3. built \in Nat
      BY <2>1
    <3>4. 0 \in 0..built
      BY <3>3
    <3> QED BY <3>2, <3>4 DEF i
  <2> QED BY <1>1, <1>3, <2>1, <2>2, <2>3
<1>5. /\ request' \in [Manager -> Requests] /\ request'[m].jobs = request[m].jobs
      /\ runs => /\ request'[m].pc = "stopping" /\ request'[m].left = request[m].left
                 /\ request'[m].instance = channels[c.name]
      /\ ~ runs => request'[m].pc = "unregister" /\ request'[m].left = Reload!Rest(m)
      /\ UNCHANGED <<configured, saved>>
  <2>1. CASE runs
    <3> DEFINE r == [request[m] EXCEPT !.pc = "stopping", !.instance = channels[c.name]]
    <3>1. /\ r \in Requests /\ r.pc = "stopping" /\ r.left = request[m].left
          /\ r.jobs = request[m].jobs /\ r.instance = channels[c.name]
      <4>1. request[m] \in Requests /\ channels[c.name] \in Nat
        BY <1>1, <1>4 DEF ReloadTypes
      <4> QED BY <4>1 DEF Requests, ReloadPc
    <3>2. request' = [request EXCEPT ![m] = r]
      BY <1>1, <2>1 DEF ReloadTypes
    <3> HIDE DEF r
    <3> QED BY <1>1, <2>1, <3>1, <3>2 DEF ReloadTypes
  <2>2. CASE ~ runs
    BY <1>1, <1>2, <2>2, RequestMoves DEF ReloadPc
  <2> QED BY <2>1, <2>2
<1>6. UNCHANGED Reload!Current(m) /\ (runs => UNCHANGED Reload!Component(m))
  BY <1>5 DEF Reload!Current, Reload!Component
<1>7. LeftNames(m) = {c.name} \cup LeftNames(m)'
  BY <1>2, <1>5 DEF LeftNames
<1>8. ReloadTypes'
  BY <1>1, <1>4, <1>5 DEF ReloadTypes
<1>9. JobsAreSound'
  <2>1. JobIsSound(m)'
    <3>1. CASE runs
      BY <3>1, <1>1, <1>5, <1>6 DEF JobIsSound, At
    <3>2. CASE ~ runs
      BY <3>2, <1>1, <1>2, <1>5, <1>6 DEF JobIsSound, At
    <3> QED BY <3>1, <3>2
  <2> QED BY <1>1, <2>1 DEF JobsAreSound
<1>10. \A q \in Reload!Plugin : /\ TakesDown(m, q) <=> q = p
                                /\ TakesDown(m, q)' <=> q = p
                                /\ \A n : Reload!Owns(q, n)' <=> Reload!Owns(q, n)
  BY <1>1, <1>5, <1>6 DEF TakesDown, At, Reload!Owns
<1>11. RegistryIsOwned'
  <2>1. \A n \in Reload!Named(FALSE) : n \in LeftNames(m) => n \in LeftNames(m)'
    BY <1>3, <1>7
  <2> QED BY <2>1, <1>1, <1>10, RegistryRests DEF ReloadInv
<1>12. ChannelsAreOwned'
  <2>1. ChannelsAreOwned
    BY DEF ReloadInv
  <2>2. \A n \in Reload!Named(TRUE) : channels'[n] # 0 => channels'[n] = channels[n] /\ n # c.name
    BY <1>4
  <2>3. \A n \in Reload!Named(TRUE) : channels'[n] # 0 => \E q \in Reload!Plugin : Reload!Owns(q, n)'
    BY <2>1, <2>2, <1>10 DEF ChannelsAreOwned
  <2>4. ASSUME NEW q \in Reload!Plugin, NEW n \in Reload!Named(TRUE), Reload!Owns(q, n)
        PROVE  /\ channels'[n] # 0 \/ q = p
               /\ q = p /\ channels'[n] # 0 => n \in LeftNames(m)'
    <3>1. /\ channels[n] # 0 \/ q = p
          /\ q = p /\ channels[n] # 0 => n \in LeftNames(m)
      BY <2>1, <2>4, <1>1, <1>10 DEF ChannelsAreOwned
    <3>2. CASE n = c.name
      BY <3>2, <2>4, <1>3, <1>4
    <3>3. CASE n # c.name
      BY <3>1, <3>3, <1>4, <1>7
    <3> QED BY <3>2, <3>3
  <2>5. \A k, n \in Reload!Named(TRUE) : channels'[k] = channels'[n] /\ channels'[n] # 0 => k = n
    <3>1. \A k, n \in Reload!Named(TRUE) : channels[k] = channels[n] /\ channels[n] # 0 => k = n
      BY <2>1 DEF ChannelsAreOwned
    <3> QED BY <3>1, <2>2
  <2> QED BY <2>3, <2>4, <2>5, <1>1, <1>10 DEF ChannelsAreOwned
<1>13. RunningIsMarked'
  <2> DEFINE Live == {channels[n] : n \in {k \in running : channels[k] # 0}}
             After == {channels'[n] : n \in {k \in running : channels'[k] # 0}}
  <2>1. Ending = {} /\ Ending' = (IF runs THEN {m} ELSE {}) /\ ~ At(m, "starting")'
    BY <1>1, <1>5 DEF Ending, At
  <2>2. /\ \A n \in running : channels[n] # 0
        /\ Live \subseteq started /\ started \subseteq Live \cup strays
        /\ running \subseteq Reload!Named(TRUE)
    <3>1. AtWork = Live
      BY <2>1 DEF AtWork
    <3> QED BY <1>1, <2>1, <3>1 DEF ReloadInv, RunningIsMarked, ReloadTypes
  <2>3. CASE runs
    <3>1. After \cup {channels[c.name]} = Live
      <4>1. \A n \in running : channels'[n] = channels[n] \/ (n = c.name /\ channels'[n] = 0)
        BY <2>2, <1>4
      <4>2. \A n \in running : n # c.name => channels'[n] = channels[n]
        BY <2>2, <1>4
      <4>3. channels[c.name] \in Live
        BY <2>3
      <4>4. After \subseteq Live
        BY <2>2, <4>1
      <4>5. \A n \in running : channels[n] \in After \/ n = c.name
        BY <2>2, <4>2
      <4> HIDE DEF After
      <4> QED BY <4>3, <4>4, <4>5
    <3>2. \A n \in Reload!Named(TRUE) : channels'[n] # channels[c.name]
      BY <2>3, <1>3, <1>4 DEF ReloadInv, ChannelsAreOwned
    <3>3. {request'[k].instance : k \in Ending'} = {channels[c.name]}
      BY <2>1, <2>3, <1>5
    <3>4. channels[c.name] \in 1..built
      BY <2>3, <1>4
    <3>5. \A n \in running : channels'[n] # 0 \/ n = c.name
      BY <2>2, <1>4
    <3>6. /\ request'[m].instance = channels[c.name] /\ UNCHANGED <<running, started, strays, built>>
          /\ UNCHANGED Reload!Component(m) /\ channels'[c.name] = 0 /\ Ending' = {m}
      BY <1>1, <1>4, <1>5, <1>6, <2>1, <2>3
    <3>7. \A n \in running' : channels'[n] # 0 \/ \E k \in Ending' : n = Reload!Component(k).name'
      BY <3>5, <3>6
    <3>8. AtWork' = Live
      BY <3>1, <3>3, <3>6 DEF AtWork
    <3>9. AtWork' \subseteq started' /\ started' \subseteq AtWork' \cup strays'
      BY <2>2, <3>6, <3>8
    <3>10. \A k \in Ending' :
            /\ request'[k].instance \in 1..built' /\ Reload!Component(k).kind' = "channel"
            /\ Reload!Component(k).name' \in running' /\ channels'[Reload!Component(k).name'] = 0
            /\ \A n \in Reload!Named(TRUE) : channels'[n] # request'[k].instance
      BY <3>2, <3>4, <3>6, <2>3, <1>1
    <3> QED BY <3>7, <3>9, <3>10, <2>1, <1>1 DEF RunningIsMarked
  <2>4. CASE ~ runs
    <3>1. c.name \notin running
      BY <2>2, <2>4
    <3>2. \A n \in running : channels'[n] = channels[n]
      BY <2>2, <3>1, <1>4
    <3>3. AtWork' = Live
      BY <2>1, <2>4, <3>2, <1>1 DEF AtWork
    <3>4. AtWork' \subseteq started' /\ started' \subseteq AtWork' \cup strays'
      BY <1>1, <2>2, <3>3
    <3> QED BY <2>1, <2>2, <2>4, <3>2, <3>4, <1>1 DEF RunningIsMarked
  <2> QED BY <2>3, <2>4
<1>14. LoadedIsRecorded'
  BY <1>1, <1>5 DEF ReloadInv, LoadedIsRecorded, BringsUp, At
<1> QED BY <1>8, <1>9, <1>11, <1>12, <1>13, <1>14 DEF ReloadInv


LEMMA StoppedStep ==
  ASSUME ReloadInv, OneManager, NamesApart, NEW m \in Manager,
         Reload!Stopped(m) \/ Reload!StopFails(m)
  PROVE  ReloadInv'
<1> DEFINE p == Reload!Current(m).plugin
           c == Reload!Component(m)
           i == request[m].instance
<1>1. /\ ReloadTypes /\ JobIsSound(m) /\ At(m, "stopping") /\ request[m].left # <<>>
      /\ started \ {i} \subseteq started' /\ started' \subseteq (started \ {i}) \cup strays'
      /\ strays \subseteq strays' /\ running' = running \ {c.name}
      /\ Reload!Goto(m, "unregister", Reload!Rest(m))
      /\ UNCHANGED <<registry, channels, built, components, loaded>>
      /\ Manager = {m}
  BY DEF ReloadInv, JobsAreSound, JobIsSound, Reload!Stopped, Reload!StopFails, Reload!Unmarked,
         Reload!At, At, OneManager
<1>2. /\ Reload!Rest(m) \in Seq(AnyComponent)
      /\ Reload!Range(Reload!Rest(m)) \subseteq Reload!Range(request[m].left)
      /\ LeftNames(m) = {c.name} \cup {d.name : d \in Reload!Range(Reload!Rest(m))}
  BY <1>1, ComponentIs
<1>3. /\ request' \in [Manager -> Requests] /\ request'[m].pc = "unregister"
      /\ request'[m].left = Reload!Rest(m) /\ request'[m].jobs = request[m].jobs
      /\ UNCHANGED <<configured, saved>>
  BY <1>1, <1>2, RequestMoves DEF ReloadPc
<1>4. UNCHANGED Reload!Current(m)
  BY <1>3 DEF Reload!Current
<1>5. LeftNames(m) = {c.name} \cup LeftNames(m)'
  BY <1>2, <1>3 DEF LeftNames
<1>6. Ending = {m} /\ Ending' = {} /\ ~ At(m, "starting")'
  BY <1>1, <1>3 DEF Ending, At
<1>7. /\ i \in 1..built /\ c.kind = "channel" /\ c.name \in running /\ channels[c.name] = 0
      /\ \A n \in Reload!Named(TRUE) : channels[n] # i
      /\ \A n \in running : channels[n] # 0 \/ n = c.name
      /\ AtWork = {channels[n] : n \in {k \in running : channels[k] # 0}} \cup {i}
      /\ AtWork \subseteq started /\ started \subseteq AtWork \cup strays
      /\ running \subseteq Reload!Named(TRUE)
  <2>1. {request[k].instance : k \in Ending} = {i}
    BY <1>6
  <2>2. AtWork = {channels[n] : n \in {k \in running : channels[k] # 0}} \cup {i}
    BY <2>1 DEF AtWork
  <2> QED BY <1>1, <1>6, <2>2 DEF ReloadInv, RunningIsMarked, ReloadTypes
<1>8. c.name \notin Reload!Named(FALSE)
  BY <1>1, <1>7, ListedIsThePlugins
<1>9. ReloadTypes'
  BY <1>1, <1>3, <1>7 DEF ReloadTypes
<1>10. JobsAreSound'
  <2>1. JobIsSound(m)'
    BY <1>1, <1>2, <1>3, <1>4 DEF JobIsSound, At
  <2> QED BY <1>1, <2>1 DEF JobsAreSound
<1>11. \A q \in Reload!Plugin : /\ TakesDown(m, q)' <=> TakesDown(m, q)
                                /\ \A n : Reload!Owns(q, n)' <=> Reload!Owns(q, n)
  BY <1>1, <1>3, <1>4 DEF TakesDown, At, Reload!Owns
<1>12. RegistryIsOwned'
  <2>1. \A n \in Reload!Named(FALSE) : n \in LeftNames(m) => n \in LeftNames(m)'
    BY <1>5, <1>8
  <2> QED BY <2>1, <1>1, <1>11, RegistryRests DEF ReloadInv
<1>13. ChannelsAreOwned'
  <2>1. ChannelsAreOwned
    BY DEF ReloadInv
  <2>2. ASSUME NEW q \in Reload!Plugin, NEW n \in Reload!Named(TRUE), Reload!Owns(q, n)'
        PROVE  /\ channels[n] # 0 \/ TakesDown(m, q)'
               /\ TakesDown(m, q)' /\ channels[n] # 0 => n \in LeftNames(m)'
    <3>1. /\ channels[n] # 0 \/ TakesDown(m, q)'
          /\ TakesDown(m, q)' /\ channels[n] # 0 => n \in LeftNames(m)
      BY <2>1, <2>2, <1>1, <1>11 DEF ChannelsAreOwned
    <3> QED BY <3>1, <1>5, <1>7
  <2>3. \A n \in Reload!Named(TRUE) : channels[n] # 0 => \E q \in Reload!Plugin : Reload!Owns(q, n)'
    BY <2>1, <1>11 DEF ChannelsAreOwned
  <2> QED BY <2>1, <2>2, <2>3, <1>1 DEF ChannelsAreOwned
<1>14. RunningIsMarked'
  <2>1. \A n \in running' : channels[n] # 0
    BY <1>1, <1>7
  <2>2. AtWork' = {channels[n] : n \in {k \in running' : channels[k] # 0}}
    BY <1>1, <1>6 DEF AtWork
  <2>3. AtWork' = AtWork \ {i}
    BY <1>1, <1>7, <2>2
  <2>4. AtWork' \subseteq started' /\ started' \subseteq AtWork' \cup strays'
    BY <1>1, <1>7, <2>3
  <2> QED BY <2>1, <2>4, <1>1, <1>6 DEF RunningIsMarked
<1>15. LoadedIsRecorded'
  BY <1>1, <1>3 DEF ReloadInv, LoadedIsRecorded, BringsUp, At
<1> QED BY <1>9, <1>10, <1>12, <1>13, <1>14, <1>15 DEF ReloadInv

LEMMA UnregisteredStep ==
  ASSUME ReloadInv, OneManager, NEW m \in Manager, Reload!Unregistered(m)
  PROVE  ReloadInv'
<1> DEFINE p == Reload!Current(m).plugin
<1>1. /\ ReloadTypes /\ JobIsSound(m) /\ At(m, "unregister") /\ request[m].left = <<>>
      /\ request[m].jobs # <<>>
      /\ components' = [components EXCEPT ![p] = <<>>] /\ loaded' = loaded \ {p}
      /\ UNCHANGED <<registry, channels, running, started, strays, built>>
      /\ Manager = {m}
  BY DEF ReloadInv, JobsAreSound, JobIsSound, Reload!Unregistered, Reload!At, At, OneManager
<1>2. p \in Reload!Plugin /\ Reload!Current(m) = request[m].jobs[1] /\ 1 \in DOMAIN request[m].jobs
  BY <1>1, CurrentIs
<1>3. /\ components' \in [Reload!Plugin -> Seq(AnyComponent)] /\ components'[p] = <<>>
      /\ \A q \in Reload!Plugin : q # p => components'[q] = components[q]
  BY <1>1, <1>2 DEF ReloadTypes
<1>4. LeftNames(m) = {}
  BY <1>1, RangeIs DEF LeftNames
<1>5. \A q \in Reload!Plugin : /\ TakesDown(m, q) <=> q = p
                               /\ ~ BringsUp(m, q)
                               /\ \A n : Reload!Owns(q, n)' <=> (q # p /\ Reload!Owns(q, n))
  BY <1>1, <1>3, RangeIs DEF TakesDown, BringsUp, At, Reload!Owns
<1>6. /\ request' \in [Manager -> Requests] /\ JobIsSound(m)' /\ UNCHANGED <<configured, saved>>
      /\ request'[m].pc = "register" \/ request'[m].pc = "next"
  <2>1. CASE Reload!Current(m).add
    <3>1. Reload!Goto(m, "register", Bundle[p])
      BY <1>1, <2>1 DEF Reload!Unregistered
    <3>2. Bundle[p] \in Seq(AnyComponent)
      BY <1>2, PluginsAre
    <3>3. /\ request' \in [Manager -> Requests] /\ request'[m].pc = "register"
          /\ request'[m].left = Bundle[p] /\ request'[m].jobs = request[m].jobs
          /\ UNCHANGED <<configured, saved>>
      BY <1>1, <3>1, <3>2, RequestMoves DEF ReloadPc
    <3>4. UNCHANGED Reload!Current(m)
      BY <3>3 DEF Reload!Current
    <3>5. JobIsSound(m)'
      BY <1>1, <3>3, <3>4 DEF JobIsSound, At
    <3> QED BY <3>3, <3>5
  <2>2. CASE ~ Reload!Current(m).add
    <3>1. Reload!JobDone(m)
      BY <1>1, <2>2 DEF Reload!Unregistered
    <3>2. /\ request' \in [Manager -> Requests] /\ request'[m].pc = "next"
          /\ request'[m].jobs = Tail(request[m].jobs) /\ UNCHANGED <<configured, saved>>
      BY <1>1, <3>1, JobMoves
    <3>3. JobIsSound(m)'
      BY <1>1, <3>2, JobDoneIsSound
    <3> QED BY <3>2, <3>3
  <2> QED BY <2>1, <2>2
<1>7. ReloadTypes'
  <2>1. \A q \in Reload!Plugin : Reload!Range(components'[q]) \subseteq Reload!Range(Bundle[q])
    <3>1. Reload!Range(<<>>) = {}
      BY RangeIs
    <3> QED BY <1>1, <1>3, <3>1 DEF ReloadTypes
  <2> QED BY <1>1, <1>3, <1>6, <2>1 DEF ReloadTypes
<1>8. JobsAreSound'
  BY <1>1, <1>6 DEF JobsAreSound
<1>9. \A q \in Reload!Plugin : ~ TakesDown(m, q)'
  BY <1>6 DEF TakesDown, At
<1>10. RegistryIsOwned'
  <2> SUFFICES ASSUME NEW q \in Reload!Plugin, NEW n \in Reload!Named(FALSE)
               PROVE  /\ registry[n] = q => Reload!Owns(q, n)'
                      /\ Reload!Owns(q, n)' => registry[n] = q
    BY <1>1, <1>9 DEF RegistryIsOwned
  <2>1. /\ registry[n] = q => Reload!Owns(q, n)
        /\ Reload!Owns(q, n) => registry[n] = q \/ q = p
        /\ q = p => registry[n] # q
    BY <1>1, <1>4, <1>5 DEF ReloadInv, RegistryIsOwned
  <2> QED BY <2>1, <1>5
<1>11. ChannelsAreOwned'
  <2>1. ChannelsAreOwned
    BY DEF ReloadInv
  <2>2. \A n \in Reload!Named(TRUE) : Reload!Owns(p, n) => channels[n] = 0
    BY <2>1, <1>1, <1>2, <1>4, <1>5 DEF ChannelsAreOwned
  <2>3. \A n \in Reload!Named(TRUE) : channels[n] # 0 => \E q \in Reload!Plugin : Reload!Owns(q, n)'
    <3> SUFFICES ASSUME NEW n \in Reload!Named(TRUE), channels[n] # 0
                 PROVE  \E q \in Reload!Plugin : Reload!Owns(q, n)'
      OBVIOUS
    <3>1. PICK q \in Reload!Plugin : Reload!Owns(q, n)
      BY <2>1 DEF ChannelsAreOwned
    <3> QED BY <3>1, <2>2, <1>5
  <2>4. \A q \in Reload!Plugin, n \in Reload!Named(TRUE) : Reload!Owns(q, n)' => channels[n] # 0
    BY <2>1, <1>1, <1>5 DEF ChannelsAreOwned
  <2> QED BY <2>1, <2>3, <2>4, <1>1, <1>9 DEF ChannelsAreOwned
<1>12. RunningIsMarked'
  <2>1. Ending = {} /\ Ending' = {} /\ ~ At(m, "starting")'
    BY <1>1, <1>6 DEF Ending, At
  <2> QED BY <1>1, <2>1, RunningRests DEF ReloadInv
<1>13. LoadedIsRecorded'
  <2> SUFFICES ASSUME NEW q \in Reload!Plugin PROVE components'[q] # <<>> => q \in loaded'
    BY DEF LoadedIsRecorded
  <2>1. components[q] # <<>> => q \in loaded
    BY <1>1, <1>5 DEF ReloadInv, LoadedIsRecorded
  <2> QED BY <2>1, <1>1, <1>3
<1> QED BY <1>7, <1>8, <1>10, <1>11, <1>12, <1>13 DEF ReloadInv


\* Recording one more component for the plugin m brings up.
LEMMA RecordedOneMore ==
  ASSUME ReloadInv, OneManager, NamesApart, NEW m \in Manager,
         At(m, "register"), request[m].left # <<>>,
         components' = [components EXCEPT ![Reload!Current(m).plugin] =
                          Append(@, Reload!Component(m))],
         Reload!Processed(m, Append(request[m].made, Reload!Component(m))), UNCHANGED loaded
  PROVE  LET p == Reload!Current(m).plugin  c == Reload!Component(m) IN
         /\ request' \in [Manager -> Requests]
         /\ At(m, "register")' /\ UNCHANGED <<configured, saved, Reload!Current(m)>>
         /\ components' \in [Reload!Plugin -> Seq(AnyComponent)]
         /\ \A q \in Reload!Plugin : Reload!Range(components'[q]) \subseteq Reload!Range(Bundle[q])
         /\ \A q \in Reload!Plugin : \A n :
              Reload!Owns(q, n)' <=> (Reload!Owns(q, n) \/ (q = p /\ n = c.name))
         /\ JobsAreSound' /\ LoadedIsRecorded'
         /\ \A q \in Reload!Plugin : ~ TakesDown(m, q) /\ ~ TakesDown(m, q)'
         /\ Ending = {} /\ Ending' = {} /\ ~ At(m, "starting")'
<1> DEFINE p == Reload!Current(m).plugin
           c == Reload!Component(m)
<1>1. ReloadTypes /\ JobIsSound(m) /\ Manager = {m}
  BY DEF ReloadInv, JobsAreSound, OneManager
<1>2. /\ Reload!Rest(m) \in Seq(AnyComponent)
      /\ Reload!Range(Reload!Rest(m)) \subseteq Reload!Range(request[m].left)
  BY <1>1, ComponentIs
<1>5. /\ p \in Reload!Plugin /\ c \in Reload!Range(Bundle[p]) /\ c \in AnyComponent
  BY ListedIsThePlugins
<1>3. /\ request' \in [Manager -> Requests] /\ request'[m].pc = "register"
      /\ request'[m].left = Reload!Rest(m) /\ request'[m].jobs = request[m].jobs
      /\ request'[m].ok /\ UNCHANGED <<configured, saved>>
  <2> DEFINE made == Append(request[m].made, c)
  <2>1. made \in Seq(AnyComponent)
    BY <1>1, <1>5 DEF ReloadTypes, Requests
  <2>2. Reload!Processed(m, made)
    OBVIOUS
  <2> HIDE DEF made, c
  <2> QED BY <1>1, <2>1, <2>2, ProcessedMoves DEF At
<1>4. UNCHANGED Reload!Current(m)
  BY <1>3 DEF Reload!Current
<1>6. components \in [Reload!Plugin -> Seq(AnyComponent)] /\ components[p] \in Seq(AnyComponent)
  BY <1>1, <1>5 DEF ReloadTypes
<1> DEFINE s == components[p]  t == Append(s, c)
<1>7. /\ t \in Seq(AnyComponent) /\ t # <<>>
      /\ DOMAIN t = 1..(Len(s) + 1) /\ DOMAIN s = 1..Len(s) /\ Len(s) \in Nat
      /\ t[Len(s) + 1] = c /\ \A i \in 1..Len(s) : t[i] = s[i]
  <2>1. s \in Seq(AnyComponent) /\ c \in AnyComponent
    BY <1>5, <1>6
  <2> HIDE DEF s, c
  <2> QED BY <2>1
<1>8. components' = [components EXCEPT ![p] = t]
  <2>1. components' = [components EXCEPT ![p] = Append(components[p], c)]
    <3> HIDE DEF p, c
    <3> QED BY <1>5, <1>6 DEF p, c
  <2> QED BY <2>1
<1> HIDE DEF s, t
<1>9. Reload!Range(t) = Reload!Range(s) \cup {c}
  <2>1. \A i \in DOMAIN t : t[i] = c \/ (i \in DOMAIN s /\ t[i] = s[i])
    BY <1>7
  <2>2. \A i \in DOMAIN s : i \in DOMAIN t /\ s[i] = t[i]
    BY <1>7
  <2>3. Len(s) + 1 \in DOMAIN t
    BY <1>7
  <2> QED BY <2>1, <2>2, <2>3, <1>7, RangeIs
<1>10. /\ components' \in [Reload!Plugin -> Seq(AnyComponent)] /\ components'[p] = t
       /\ \A q \in Reload!Plugin : q # p => components'[q] = components[q]
  BY <1>5, <1>6, <1>7, <1>8
<1>11. \A q \in Reload!Plugin : Reload!Range(components'[q]) \subseteq Reload!Range(Bundle[q])
  BY <1>1, <1>5, <1>9, <1>10 DEF ReloadTypes, s
<1>12. \A q \in Reload!Plugin : \A n :
         Reload!Owns(q, n)' <=> (Reload!Owns(q, n) \/ (q = p /\ n = c.name))
  BY <1>5, <1>9, <1>10 DEF Reload!Owns, s
<1>13. JobsAreSound'
  <2>1. JobIsSound(m)'
    BY <1>1, <1>2, <1>3, <1>4 DEF JobIsSound, At
  <2> QED BY <1>1, <2>1 DEF JobsAreSound
<1>14. LoadedIsRecorded'
  <2>1. \A q \in Reload!Plugin : q # p => (components[q] # <<>> => q \in loaded)
    BY <1>1 DEF ReloadInv, LoadedIsRecorded, BringsUp
  <2>2. BringsUp(m, p)'
    BY <1>3, <1>4 DEF BringsUp, At
  <2>3. \A q \in Reload!Plugin :
          components'[q] # <<>> => q \in loaded' \/ BringsUp(m, q)'
    <3> SUFFICES ASSUME NEW q \in Reload!Plugin
                 PROVE  components'[q] # <<>> => q \in loaded' \/ BringsUp(m, q)'
      OBVIOUS
    <3>1. CASE q = p
      <4>1. At(m, "register")' /\ Reload!Current(m)' = Reload!Current(m) /\ request'[m].ok
        BY <1>3, <1>4 DEF At
      <4> QED BY <3>1, <4>1 DEF BringsUp
    <3>2. CASE q # p
      BY <2>1, <3>2, <1>10
    <3> QED BY <3>1, <3>2
  <2> QED BY <2>3 DEF LoadedIsRecorded
<1>15. \A q \in Reload!Plugin : ~ TakesDown(m, q) /\ ~ TakesDown(m, q)'
  BY <1>3 DEF TakesDown, At
<1>16. Ending = {} /\ Ending' = {} /\ ~ At(m, "starting")'
  BY <1>1, <1>3 DEF Ending, At
<1> QED BY <1>3, <1>4, <1>10, <1>11, <1>12, <1>13, <1>14, <1>15, <1>16 DEF At

LEMMA RegisterStep ==
  ASSUME ReloadInv, OneManager, NamesApart, NEW m \in Manager, Reload!Register(m)
  PROVE  ReloadInv'
<1> DEFINE p == Reload!Current(m).plugin
           c == Reload!Component(m)
<1>1. /\ ReloadTypes /\ At(m, "register") /\ request[m].left # <<>> /\ c.kind # "channel"
      /\ registry' = [registry EXCEPT ![c.name] = p]
      /\ components' = [components EXCEPT ![p] = Append(@, c)]
      /\ Reload!Processed(m, Append(request[m].made, c))
      /\ UNCHANGED <<channels, running, started, strays, built, loaded>>
      /\ Manager = {m}
  BY DEF ReloadInv, Reload!Register, Reload!At, At, OneManager
<1>2. /\ p \in Reload!Plugin /\ c.name \in Reload!Named(FALSE) /\ c.name \notin Reload!Named(TRUE)
      /\ \A q \in Reload!Plugin : Reload!Owns(q, c.name) => q = p
  BY <1>1, ListedIsThePlugins
<1>3. /\ request' \in [Manager -> Requests] /\ UNCHANGED <<configured, saved>>
      /\ components' \in [Reload!Plugin -> Seq(AnyComponent)]
      /\ \A q \in Reload!Plugin : Reload!Range(components'[q]) \subseteq Reload!Range(Bundle[q])
      /\ \A q \in Reload!Plugin : \A n :
           Reload!Owns(q, n)' <=> (Reload!Owns(q, n) \/ (q = p /\ n = c.name))
      /\ JobsAreSound' /\ LoadedIsRecorded'
      /\ \A q \in Reload!Plugin : ~ TakesDown(m, q) /\ ~ TakesDown(m, q)'
      /\ Ending = {} /\ Ending' = {} /\ ~ At(m, "starting")'
  BY <1>1, RecordedOneMore
<1>4. /\ registry' \in [Reload!Named(FALSE) -> Reload!Plugin \cup {Absent}] /\ registry'[c.name] = p
      /\ \A n \in Reload!Named(FALSE) : n # c.name => registry'[n] = registry[n]
  BY <1>1, <1>2 DEF ReloadTypes
<1>5. ReloadTypes'
  BY <1>1, <1>3, <1>4 DEF ReloadTypes
<1>6. RegistryIsOwned'
  <2> SUFFICES ASSUME NEW q \in Reload!Plugin, NEW n \in Reload!Named(FALSE)
               PROVE  /\ registry'[n] = q => Reload!Owns(q, n)'
                      /\ Reload!Owns(q, n)' => registry'[n] = q
    <3>1. \A k \in Manager : \A q \in Reload!Plugin : ~ TakesDown(k, q)'
      BY <1>1, <1>3
    <3> QED BY <3>1 DEF RegistryIsOwned
  <2>1. /\ registry[n] = q => Reload!Owns(q, n)
        /\ Reload!Owns(q, n) => registry[n] = q
    <3>1. \A k \in Manager : ~ TakesDown(k, q)
      BY <1>1, <1>3
    <3> QED BY <3>1 DEF ReloadInv, RegistryIsOwned
  <2> QED BY <2>1, <1>2, <1>3, <1>4
<1>7. ChannelsAreOwned'
  <2>1. \A q \in Reload!Plugin, n \in Reload!Named(TRUE) : Reload!Owns(q, n)' <=> Reload!Owns(q, n)
    BY <1>2, <1>3
  <2>2. \A n \in Reload!Named(TRUE) : channels[n] # 0 => \E q \in Reload!Plugin : Reload!Owns(q, n)'
    BY <2>1 DEF ReloadInv, ChannelsAreOwned
  <2>3. \A q \in Reload!Plugin, n \in Reload!Named(TRUE) : Reload!Owns(q, n)' => channels[n] # 0
    BY <2>1, <1>1, <1>3, ZenonT(60) DEF ReloadInv, ChannelsAreOwned
  <2>4. /\ \A k \in Manager : \A q \in Reload!Plugin : ~ TakesDown(k, q)'
        /\ \A k, n \in Reload!Named(TRUE) : channels[k] = channels[n] /\ channels[n] # 0 => k = n
    <3>1. \A k \in Manager : \A q \in Reload!Plugin : ~ TakesDown(k, q)'
      BY <1>1, <1>3
    <3> QED BY <3>1 DEF ReloadInv, ChannelsAreOwned
  <2> QED BY <2>2, <2>3, <2>4, <1>1 DEF ChannelsAreOwned
<1>8. RunningIsMarked'
  BY <1>1, <1>3, RunningRests DEF ReloadInv
<1> QED BY <1>3, <1>5, <1>6, <1>7, <1>8 DEF ReloadInv

LEMMA RegisterChannelStep ==
  ASSUME ReloadInv, OneManager, NamesApart, NEW m \in Manager, Reload!RegisterChannel(m)
  PROVE  ReloadInv'
<1> DEFINE p == Reload!Current(m).plugin
           c == Reload!Component(m)
<1>1. /\ ReloadTypes /\ At(m, "register") /\ request[m].left # <<>> /\ c.kind = "channel"
      /\ built' = built + 1 /\ channels[c.name] = 0
      /\ channels' = [channels EXCEPT ![c.name] = built']
      /\ components' = [components EXCEPT ![p] = Append(@, c)]
      /\ Reload!Processed(m, Append(request[m].made, c))
      /\ UNCHANGED <<registry, running, started, strays, loaded>>
      /\ Manager = {m}
  BY DEF ReloadInv, Reload!RegisterChannel, Reload!At, At, OneManager
<1>2. /\ p \in Reload!Plugin /\ c.name \in Reload!Named(TRUE) /\ c.name \notin Reload!Named(FALSE)
      /\ \A q \in Reload!Plugin : Reload!Owns(q, c.name) => q = p
  BY <1>1, ListedIsThePlugins
<1>3. /\ request' \in [Manager -> Requests] /\ UNCHANGED <<configured, saved>>
      /\ components' \in [Reload!Plugin -> Seq(AnyComponent)]
      /\ \A q \in Reload!Plugin : Reload!Range(components'[q]) \subseteq Reload!Range(Bundle[q])
      /\ \A q \in Reload!Plugin : \A n :
           Reload!Owns(q, n)' <=> (Reload!Owns(q, n) \/ (q = p /\ n = c.name))
      /\ JobsAreSound' /\ LoadedIsRecorded'
      /\ \A q \in Reload!Plugin : ~ TakesDown(m, q) /\ ~ TakesDown(m, q)'
      /\ Ending = {} /\ Ending' = {} /\ ~ At(m, "starting")'
  BY <1>1, RecordedOneMore
<1>4. /\ built \in Nat /\ built' \in Nat /\ built' # 0 /\ built' \in 0..built'
      /\ \A i \in 0..built : i # built' /\ i \in 0..built'
  <2>1. built \in Nat
    BY <1>1 DEF ReloadTypes
  <2> QED BY <2>1, <1>1
<1>5. /\ channels' \in [Reload!Named(TRUE) -> 0..built'] /\ channels'[c.name] = built'
      /\ \A n \in Reload!Named(TRUE) : n # c.name => channels'[n] = channels[n]
      /\ \A n \in Reload!Named(TRUE) : n # c.name => channels'[n] # built'
  <2>1. channels \in [Reload!Named(TRUE) -> 0..built]
    BY <1>1 DEF ReloadTypes
  <2> DEFINE I == 0..built  J == 0..built'
  <2>2. channels \in [Reload!Named(TRUE) -> I] /\ built' \in J /\ I \subseteq J
        /\ \A i \in I : i # built'
    BY <2>1, <1>4
  <2> HIDE DEF I, J
  <2>3. /\ channels' \in [Reload!Named(TRUE) -> J] /\ channels'[c.name] = built'
        /\ \A n \in Reload!Named(TRUE) : n # c.name => channels'[n] = channels[n]
    BY <2>2, <1>1, <1>2
  <2>4. \A n \in Reload!Named(TRUE) : channels[n] # built'
    BY <2>2
  <2> QED BY <2>3, <2>4 DEF J
<1>6. ReloadTypes'
  BY <1>1, <1>3, <1>4, <1>5 DEF ReloadTypes
<1>7. RegistryIsOwned'
  <2> SUFFICES ASSUME NEW q \in Reload!Plugin, NEW n \in Reload!Named(FALSE)
               PROVE  /\ registry'[n] = q => Reload!Owns(q, n)'
                      /\ Reload!Owns(q, n)' => registry'[n] = q
    <3>1. \A k \in Manager : \A q \in Reload!Plugin : ~ TakesDown(k, q)'
      BY <1>1, <1>3
    <3> QED BY <3>1 DEF RegistryIsOwned
  <2>1. /\ registry[n] = q => Reload!Owns(q, n)
        /\ Reload!Owns(q, n) => registry[n] = q
    <3>1. \A k \in Manager : ~ TakesDown(k, q)
      BY <1>1, <1>3
    <3> QED BY <3>1 DEF ReloadInv, RegistryIsOwned
  <2> QED BY <2>1, <1>1, <1>2, <1>3
<1>8. ChannelsAreOwned'
  <2>1. ChannelsAreOwned
    BY DEF ReloadInv
  <2>2. ASSUME NEW n \in Reload!Named(TRUE), channels'[n] # 0
        PROVE  \E q \in Reload!Plugin : Reload!Owns(q, n)'
    <3>1. CASE n = c.name
      BY <3>1, <1>2, <1>3
    <3>2. CASE n # c.name
      <4>1. PICK q \in Reload!Plugin : Reload!Owns(q, n)
        BY <2>1, <2>2, <3>2, <1>5 DEF ChannelsAreOwned
      <4> QED BY <4>1, <1>3
    <3> QED BY <3>1, <3>2
  <2>3. ASSUME NEW q \in Reload!Plugin, NEW n \in Reload!Named(TRUE), Reload!Owns(q, n)'
        PROVE  channels'[n] # 0
    <3>1. CASE n = c.name
      BY <3>1, <1>4, <1>5
    <3>2. CASE n # c.name
      <4>1. Reload!Owns(q, n)
        BY <2>3, <3>2, <1>3
      <4>2. channels[n] # 0
        BY <2>1, <4>1, <1>1, <1>3 DEF ChannelsAreOwned
      <4> QED BY <4>2, <3>2, <1>5
    <3> QED BY <3>1, <3>2
  <2>4. \A k, n \in Reload!Named(TRUE) : channels'[k] = channels'[n] /\ channels'[n] # 0 => k = n
    <3>1. \A k, n \in Reload!Named(TRUE) : channels[k] = channels[n] /\ channels[n] # 0 => k = n
      BY <2>1 DEF ChannelsAreOwned
    <3> QED BY <3>1, <1>5
  <2>5. \A k \in Manager : \A q \in Reload!Plugin : ~ TakesDown(k, q)'
    BY <1>1, <1>3
  <2> QED BY <2>2, <2>3, <2>4, <2>5 DEF ChannelsAreOwned
<1>9. RunningIsMarked'
  <2>1. \A n \in running : channels[n] # 0
    BY <1>1, <1>3 DEF ReloadInv, RunningIsMarked
  <2>2. running \subseteq Reload!Named(TRUE)
    BY <1>1 DEF ReloadTypes
  <2>3. \A n \in running : channels'[n] = channels[n]
    BY <2>1, <2>2, <1>1, <1>5
  <2>4. AtWork' = AtWork
    BY <1>1, <1>3, <2>3 DEF AtWork
  <2>5. AtWork' \subseteq started' /\ started' \subseteq AtWork' \cup strays'
    BY <1>1, <2>4 DEF ReloadInv, RunningIsMarked
  <2>6. \A n \in running' : channels'[n] # 0
    BY <1>1, <2>1, <2>3
  <2> QED BY <2>5, <2>6, <1>1, <1>3 DEF RunningIsMarked
<1> QED BY <1>3, <1>6, <1>7, <1>8, <1>9 DEF ReloadInv


LEMMA RegisteredStep ==
  ASSUME ReloadInv, OneManager, NEW m \in Manager, Reload!Registered(m)
  PROVE  ReloadInv'
<1> DEFINE p == Reload!Current(m).plugin
           made == request[m].made
           chosen == {c \in Reload!Range(made) : c.kind = "channel"}
           left == Reload!Only(made, chosen)
<1>1. /\ ReloadTypes /\ JobIsSound(m) /\ At(m, "register") /\ request[m].jobs # <<>>
      /\ loaded' = IF request[m].ok THEN loaded \cup {p} ELSE loaded
      /\ Reload!Goto(m, "start", left)
      /\ UNCHANGED <<registry, channels, running, started, strays, built, components>>
      /\ Manager = {m}
  BY DEF ReloadInv, JobsAreSound, JobIsSound, Reload!Registered, Reload!At, At, OneManager
<1>2. p \in Reload!Plugin /\ Reload!Current(m) = request[m].jobs[1] /\ 1 \in DOMAIN request[m].jobs
  BY <1>1, CurrentIs
<1>3. made \in Seq(AnyComponent)
  BY <1>1 DEF ReloadTypes, Requests
<1>4. /\ left \in Seq(AnyComponent)
      /\ \A c \in Reload!Range(left) : c.kind = "channel"
  <2>1. left \in Seq(AnyComponent) /\ \A i \in DOMAIN left : left[i] \in chosen
    BY <1>3, OnlySelects
  <2> HIDE DEF left
  <2>2. \A c \in Reload!Range(left) : c \in chosen
    BY <2>1, RangeIs
  <2> QED BY <2>1, <2>2
<1> HIDE DEF left
<1>5. /\ request' \in [Manager -> Requests] /\ request'[m].pc = "start"
      /\ request'[m].left = left /\ request'[m].jobs = request[m].jobs
      /\ UNCHANGED <<configured, saved>>
  BY <1>1, <1>4, RequestMoves DEF ReloadPc
<1>6. ReloadTypes'
  BY <1>1, <1>2, <1>5 DEF ReloadTypes
<1>7. JobsAreSound'
  <2> DEFINE todo == request[m].jobs
  <2>1. /\ \A i, j \in DOMAIN todo : todo[i].plugin = todo[j].plugin => i = j
        /\ \A k \in DOMAIN todo : k > 1 /\ ~ todo[k].remove => todo[k].plugin \notin loaded
    BY <1>1 DEF JobIsSound
  <2>2. todo[1].plugin = p /\ 1 \in DOMAIN todo /\ todo # <<>>
    BY <1>1, <1>2
  <2>3. loaded' \subseteq loaded \cup {p}
    BY <1>1
  <2>4. request'[m].jobs = todo
    BY <1>5
  <2> HIDE DEF todo, p
  <2>5. \A k \in DOMAIN todo : k > 1 /\ ~ todo[k].remove => todo[k].plugin \notin loaded'
    <3> SUFFICES ASSUME NEW k \in DOMAIN todo, k > 1, ~ todo[k].remove, todo[k].plugin \in loaded'
                 PROVE  FALSE
      OBVIOUS
    <3>1. todo[k].plugin = p
      BY <2>1, <2>3
    <3> QED BY <2>1, <2>2, <3>1
  <2>6. JobIsSound(m)'
    BY <1>4, <1>5, <2>1, <2>2, <2>4, <2>5 DEF JobIsSound, At
  <2> QED BY <1>1, <2>6 DEF JobsAreSound
<1>8. \A q \in Reload!Plugin : /\ ~ TakesDown(m, q) /\ ~ TakesDown(m, q)' /\ ~ BringsUp(m, q)'
                               /\ BringsUp(m, q) => q = p /\ request[m].ok
                               /\ \A n : Reload!Owns(q, n)' <=> Reload!Owns(q, n)
  BY <1>1, <1>5 DEF TakesDown, BringsUp, At, Reload!Owns
<1>9. RegistryIsOwned'
  <2>1. \A k \in Manager : \A q \in Reload!Plugin : ~ TakesDown(k, q) /\ ~ TakesDown(k, q)'
    BY <1>1, <1>8
  <2> QED BY <2>1, <1>1, <1>8 DEF ReloadInv, RegistryIsOwned
<1>10. ChannelsAreOwned'
  <2>1. \A k \in Manager : \A q \in Reload!Plugin : ~ TakesDown(k, q) /\ ~ TakesDown(k, q)'
    BY <1>1, <1>8
  <2> QED BY <2>1, <1>1, <1>8 DEF ReloadInv, ChannelsAreOwned
<1>11. RunningIsMarked'
  <2>1. Ending = {} /\ Ending' = {} /\ ~ At(m, "starting")'
    BY <1>1, <1>5 DEF Ending, At
  <2> QED BY <1>1, <2>1, RunningRests DEF ReloadInv
<1>12. LoadedIsRecorded'
  <2> SUFFICES ASSUME NEW q \in Reload!Plugin, components[q] # <<>>
               PROVE  q \in loaded'
    BY <1>1 DEF LoadedIsRecorded
  <2>1. q \in loaded \/ BringsUp(m, q)
    BY <1>1 DEF ReloadInv, LoadedIsRecorded
  <2> QED BY <2>1, <1>1, <1>8
<1> QED BY <1>6, <1>7, <1>9, <1>10, <1>11, <1>12 DEF ReloadInv

LEMMA StartedStep ==
  ASSUME ReloadInv, OneManager, NEW m \in Manager, Reload!Started(m)
  PROVE  ReloadInv'
<1> DEFINE c == Reload!Component(m)
           i == request[m].instance
<1>1. /\ ReloadTypes /\ JobIsSound(m) /\ At(m, "starting") /\ request[m].left # <<>>
      /\ started' = started \cup {i} /\ running' = running \cup {c.name}
      /\ Reload!Goto(m, "start", Reload!Rest(m))
      /\ UNCHANGED <<registry, channels, strays, built, components, loaded>>
      /\ Manager = {m}
  BY DEF ReloadInv, JobsAreSound, JobIsSound, Reload!Started, Reload!At, At, OneManager
<1>2. /\ Reload!Rest(m) \in Seq(AnyComponent)
      /\ Reload!Range(Reload!Rest(m)) \subseteq Reload!Range(request[m].left)
      /\ c \in Reload!Range(request[m].left)
      /\ request[m].left \in Seq(AnyComponent)
  BY <1>1, ComponentIs
<1>3. /\ request' \in [Manager -> Requests] /\ request'[m].pc = "start"
      /\ request'[m].left = Reload!Rest(m) /\ request'[m].jobs = request[m].jobs
      /\ UNCHANGED <<configured, saved>>
  BY <1>1, <1>2, RequestMoves DEF ReloadPc
<1>4. c \in AnyComponent /\ c.kind = "channel" /\ c.name \in Reload!Named(TRUE)
  <2>1. c \in AnyComponent /\ c.kind = "channel"
    <3>1. Reload!Range(request[m].left) \subseteq AnyComponent
      BY <1>2, RangeIs
    <3> QED BY <3>1, <1>1, <1>2 DEF JobIsSound
  <2> QED BY <2>1 DEF AnyComponent, Reload!Named
<1>5. channels[c.name] = i /\ i # 0
  BY <1>1 DEF ReloadInv, RunningIsMarked
<1>6. ReloadTypes'
  BY <1>1, <1>3, <1>4 DEF ReloadTypes
<1>7. JobsAreSound'
  <2>1. JobIsSound(m)'
    BY <1>1, <1>2, <1>3 DEF JobIsSound, At
  <2> QED BY <1>1, <2>1 DEF JobsAreSound
<1>8. \A q \in Reload!Plugin : /\ ~ TakesDown(m, q) /\ ~ TakesDown(m, q)'
                               /\ ~ BringsUp(m, q)
                               /\ \A n : Reload!Owns(q, n)' <=> Reload!Owns(q, n)
  BY <1>1, <1>3 DEF TakesDown, BringsUp, At, Reload!Owns
<1>9. RegistryIsOwned'
  <2>1. \A k \in Manager : \A q \in Reload!Plugin : ~ TakesDown(k, q) /\ ~ TakesDown(k, q)'
    BY <1>1, <1>8
  <2> QED BY <2>1, <1>1, <1>8 DEF ReloadInv, RegistryIsOwned
<1>10. ChannelsAreOwned'
  <2>1. \A k \in Manager : \A q \in Reload!Plugin : ~ TakesDown(k, q) /\ ~ TakesDown(k, q)'
    BY <1>1, <1>8
  <2> QED BY <2>1, <1>1, <1>8 DEF ReloadInv, ChannelsAreOwned
<1>11. RunningIsMarked'
  <2>1. Ending = {} /\ Ending' = {} /\ ~ At(m, "starting")'
    BY <1>1, <1>3 DEF Ending, At
  <2>2. \A n \in running' : channels[n] # 0
    BY <2>1, <1>1, <1>5 DEF ReloadInv, RunningIsMarked
  <2>3. AtWork' = AtWork \cup {i}
    <3>1. /\ AtWork = {channels[n] : n \in {k \in running : channels[k] # 0}}
          /\ AtWork' = {channels[n] : n \in {k \in running' : channels[k] # 0}}
      BY <1>1, <2>1 DEF AtWork
    <3> QED BY <3>1, <1>1, <1>5
  <2>4. AtWork' \subseteq started' /\ started' \subseteq AtWork' \cup strays'
    BY <1>1, <2>3 DEF ReloadInv, RunningIsMarked
  <2> QED BY <2>1, <2>2, <2>4, <1>1 DEF RunningIsMarked
<1>12. LoadedIsRecorded'
  <2> SUFFICES ASSUME NEW q \in Reload!Plugin, components[q] # <<>>
               PROVE  q \in loaded
    BY <1>1 DEF LoadedIsRecorded
  <2> QED BY <1>1, <1>8 DEF ReloadInv, LoadedIsRecorded
<1> QED BY <1>6, <1>7, <1>9, <1>10, <1>11, <1>12 DEF ReloadInv

LEMMA ReloadRests ==
  ASSUME ReloadInv, saved' \subseteq Reload!Plugin,
         UNCHANGED <<configured, registry, channels, running, started, strays, built, components,
                     loaded, request>>
  PROVE  ReloadInv'
<1>1. ReloadTypes'
  BY DEF ReloadInv, ReloadTypes
<1>2. JobsAreSound'
  BY DEF ReloadInv, JobsAreSound, JobIsSound, At, Reload!Current
<1>3. RegistryIsOwned'
  BY DEF ReloadInv, RegistryIsOwned, Reload!Owns, TakesDown, At, Reload!Current, LeftNames
<1>4. ChannelsAreOwned'
  BY DEF ReloadInv, ChannelsAreOwned, Reload!Owns, TakesDown, At, Reload!Current, LeftNames
<1>5. RunningIsMarked'
  <2>1. UNCHANGED Ending /\ \A m \in Manager : UNCHANGED Reload!Component(m)
    BY DEF Ending, At, Reload!Component
  <2>2. \A m \in Manager : At(m, "starting")' <=> At(m, "starting")
    BY DEF At
  <2>3. RunningIsMarked
    BY DEF ReloadInv
  <2>4. \A n \in running' : channels'[n] # 0 \/ \E m \in Ending' : n = Reload!Component(m)'.name
    BY <2>1, <2>3 DEF RunningIsMarked, Ending
  <2>5. AtWork' \subseteq started' /\ started' \subseteq AtWork' \cup strays'
    <3>1. AtWork' = AtWork
      BY <2>1 DEF AtWork
    <3> QED BY <2>3, <3>1 DEF RunningIsMarked
  <2>6. \A m \in Ending' :
          /\ request'[m].instance \in 1..built' /\ Reload!Component(m)'.kind = "channel"
          /\ Reload!Component(m)'.name \in running' /\ channels'[Reload!Component(m)'.name] = 0
          /\ \A n \in Reload!Named(TRUE) : channels'[n] # request'[m].instance
    BY <2>1, <2>3, ZenonT(60) DEF RunningIsMarked, Ending
  <2>7. \A m \in Manager : At(m, "starting")' =>
          /\ channels'[Reload!Component(m)'.name] = request'[m].instance
          /\ request'[m].instance # 0
    BY <2>1, <2>2, <2>3 DEF RunningIsMarked
  <2> QED BY <2>4, <2>5, <2>6, <2>7 DEF RunningIsMarked
<1>6. LoadedIsRecorded'
  BY DEF ReloadInv, LoadedIsRecorded, BringsUp, At, Reload!Current
<1> QED BY <1>1, <1>2, <1>3, <1>4, <1>5, <1>6 DEF ReloadInv

LEMMA ReloadStays ==
  ASSUME ReloadInv, OneManager, NamesApart, Reload!ReloadNext \/ UNCHANGED Reload!reloadVars
  PROVE  ReloadInv'
<1>1. CASE UNCHANGED Reload!reloadVars
  <2>1. saved \subseteq Reload!Plugin
    BY DEF ReloadInv, ReloadTypes
  <2> QED BY <1>1, <2>1, ReloadRests DEF Reload!reloadVars, Reload!owned
<1>2. ASSUME NEW plugins \in SUBSET Reload!Plugin, Reload!Save(plugins) PROVE ReloadInv'
  BY <1>2, ReloadRests DEF Reload!Save, Reload!owned
<1>3. ASSUME NEW m \in Manager, Reload!Reloading(m) PROVE ReloadInv'
  BY <1>3, AskStep, TakeJobStep, DeregisterStep, DeregisterChannelStep, StoppedStep,
     UnregisteredStep, NotBuiltStep, EmptyListStep, RegisterStep, RegisterChannelStep, RegisteredStep,
     StartOneStep, StartedStep, StartFailsStep, PluginDoneStep DEF Reload!Reloading
<1> QED BY <1>1, <1>2, <1>3 DEF Reload!ReloadNext

LEMMA ReloadStarts ==
  ASSUME Reload!Init PROVE ReloadInv
<1>1. /\ configured \subseteq Reload!Plugin /\ saved = configured
      /\ registry = [n \in Reload!Named(FALSE) |-> Absent]
      /\ channels = [n \in Reload!Named(TRUE) |-> 0]
      /\ running = {} /\ started = {} /\ strays = {} /\ built = 0
      /\ components = [p \in Reload!Plugin |-> <<>>] /\ loaded = {}
      /\ request = [m \in Manager |-> Reload!Idle]
  BY DEF Reload!Init
<1>2. Reload!Idle \in Requests /\ Reload!Idle.pc = "idle" /\ Reload!Idle.jobs = <<>>
  BY DEF Reload!Idle, Requests, ReloadPc
<1>3. \A m \in Manager : request[m].pc = "idle" /\ request[m].jobs = <<>>
  BY <1>1, <1>2
<1>4. Reload!Range(<<>>) = {}
  BY RangeIs
<1>5. \A p \in Reload!Plugin : \A n : ~ Reload!Owns(p, n)
  BY <1>1, <1>4 DEF Reload!Owns
<1>6. ReloadTypes
  <2>1. 0 \in 0..built /\ built \in Nat
    BY <1>1
  <2> QED BY <1>1, <1>2, <1>4, <2>1 DEF ReloadTypes
<1>7. JobsAreSound
  BY <1>3 DEF JobsAreSound, JobIsSound, At
<1>8. RegistryIsOwned
  BY <1>1, <1>3, <1>5, PluginsAre DEF RegistryIsOwned, TakesDown, At
<1>9. ChannelsAreOwned
  BY <1>1, <1>3, <1>5 DEF ChannelsAreOwned, TakesDown, At
<1>10. RunningIsMarked
  <2>1. Ending = {}
    BY <1>3 DEF Ending, At
  <2>2. AtWork = {}
    BY <1>1, <2>1 DEF AtWork
  <2> QED BY <1>1, <1>3, <2>1, <2>2 DEF RunningIsMarked, At
<1>11. LoadedIsRecorded
  BY <1>1 DEF LoadedIsRecorded
<1> QED BY <1>6, <1>7, <1>8, <1>9, <1>10, <1>11 DEF ReloadInv

LEMMA ReloadMoves ==
  ASSUME [ServicesNext]_servicesVars
  PROVE  Reload!ReloadNext \/ UNCHANGED Reload!reloadVars
<1>1. CASE UNCHANGED servicesVars
  BY <1>1 DEF servicesVars
<1>2. CASE ReloadStep
  BY <1>2 DEF ReloadStep
<1>3. ASSUME component # "reload", OthersStill PROVE UNCHANGED Reload!reloadVars
  BY <1>3 DEF OthersStill, Moves, Reload!reloadVars, Reload!owned
<1> QED
  BY <1>1, <1>2, <1>3
  DEF ServicesNext, BufferStep, ChatStep, ReloadStep, BrowserStep, McpStep, GraphStep,
      SearchStep, DecisionStep, LifeStep, EnvStep, EngineStep, InstallStep, LlmStep,
      FirstStep, Moves

LEMMA AtRest ==
  ASSUME ReloadInv PROVE WholeAtRest
<1> SUFFICES ASSUME \A m \in Manager : request[m] = Reload!Idle
             PROVE  /\ \A p \in Reload!Plugin : components[p] # <<>> => p \in loaded
                    /\ \A n \in DOMAIN registry : \A p \in Reload!Plugin :
                         registry[n] = p <=> Reload!Owns(p, n)
                    /\ \A n \in DOMAIN channels :
                         channels[n] # 0 <=> \E p \in Reload!Plugin : Reload!Owns(p, n)
                    /\ Reload!Marked \subseteq started
                    /\ started \subseteq Reload!Marked \cup strays
  BY DEF WholeAtRest, Reload!WholeAtRest
<1>1. \A m \in Manager : request[m].pc = "idle"
  BY DEF Reload!Idle
<1>2. \A m \in Manager : \A p \in Reload!Plugin : ~ TakesDown(m, p) /\ ~ BringsUp(m, p)
  BY <1>1 DEF TakesDown, BringsUp, At
<1>3. DOMAIN registry = Reload!Named(FALSE) /\ DOMAIN channels = Reload!Named(TRUE)
  BY DEF ReloadInv, ReloadTypes
<1>4. \A p \in Reload!Plugin : components[p] # <<>> => p \in loaded
  BY <1>2 DEF ReloadInv, LoadedIsRecorded
<1>5. \A n \in Reload!Named(FALSE) : \A p \in Reload!Plugin : registry[n] = p <=> Reload!Owns(p, n)
  BY <1>2 DEF ReloadInv, RegistryIsOwned
<1>6. \A n \in Reload!Named(TRUE) : channels[n] # 0 <=> \E p \in Reload!Plugin : Reload!Owns(p, n)
  BY <1>2 DEF ReloadInv, ChannelsAreOwned
<1>7. Reload!Marked \subseteq started /\ started \subseteq Reload!Marked \cup strays
  <2>1. Ending = {}
    BY <1>1 DEF Ending, At
  <2>2. \A n \in running : channels[n] # 0
    BY <2>1 DEF ReloadInv, RunningIsMarked
  <2>3. AtWork = Reload!Marked
    BY <2>1, <2>2 DEF AtWork, Reload!Marked
  <2> QED BY <2>3 DEF ReloadInv, RunningIsMarked
<1> QED BY <1>3, <1>4, <1>5, <1>6, <1>7

\* Whatever was built, registered, started or stopped without success, a reload
\* that has ended leaves the registries, the loader's records and the running
\* channels in agreement (PluginLoader, Runtime.hot_reload_plugins): what runs
\* unmarked was left by a stop or a start that raised.  Two things are asked, and the run has both: one reload at a time (a second one runs
\* between the steps of the first and breaks it), and no two plugins with a
\* component of the same name.
THEOREM WholeAtRestHolds ==
  ASSUME OneManager, NamesApart
  PROVE  ServicesSpec => []WholeAtRest
<1>1. ServicesInit => ReloadInv
  BY ReloadStarts DEF ServicesInit
<1>2. ReloadInv /\ [ServicesNext]_servicesVars => ReloadInv'
  BY ReloadMoves, ReloadStays
<1>3. ReloadInv => WholeAtRest
  BY AtRest
<1> QED BY <1>1, <1>2, <1>3, PTL DEF ServicesSpec

-----------------------------------------------------------------------------
(* Types *)

\* What a request at work goes by, however many there are.
Aims(m) ==
  /\ ~ At(m, "idle") /\ ~ At(m, "next") => request[m].jobs # <<>>
  /\ At(m, "register") =>
       Reload!Range(request[m].left) \subseteq Reload!Range(Bundle[Reload!Current(m).plugin])
  /\ At(m, "start") \/ At(m, "starting") =>
       \A c \in Reload!Range(request[m].left) : c.kind = "channel"
  /\ At(m, "stopping") \/ At(m, "starting") => request[m].left # <<>>
  /\ At(m, "stopping") \/ At(m, "starting") => request[m].instance \in 1..built

ReloadTyped ==
  /\ ReloadTypes /\ \A m \in Manager : Aims(m)
  /\ started \subseteq 1..built /\ strays \subseteq 1..built
  /\ built <= Builds /\ asked \in 0..Reloads

LEMMA TypedFacts ==
  ASSUME ReloadTyped, NEW m \in Manager
  PROVE  /\ ReloadTypes /\ Aims(m) /\ started \subseteq 1..built /\ strays \subseteq 1..built
         /\ built \in Nat /\ built <= built /\ 0 \in 0..built /\ built <= Builds
         /\ "unregister" \in ReloadPc /\ "register" \in ReloadPc /\ "start" \in ReloadPc
<1>1. /\ ReloadTypes /\ Aims(m) /\ built <= Builds
      /\ started \subseteq 1..built /\ strays \subseteq 1..built
  BY DEF ReloadTyped
<1>2. built \in Nat
  BY <1>1 DEF ReloadTypes
<1>3. built <= built /\ 0 \in 0..built
  BY <1>2
<1> QED BY <1>1, <1>2, <1>3 DEF ReloadPc

LEMMA TypedMoves ==
  ASSUME ReloadTyped, NEW m \in Manager, request' \in [Manager -> Requests],
         \A q \in Manager : q # m => request'[q] = request[q], Aims(m)',
         built' \in Nat, built <= built', built' <= Builds, asked' \in 0..Reloads,
         UNCHANGED <<configured, saved>>, loaded' \subseteq Reload!Plugin,
         registry' \in [Reload!Named(FALSE) -> Reload!Plugin \cup {Absent}],
         channels' \in [Reload!Named(TRUE) -> 0..built'],
         running' \subseteq Reload!Named(TRUE), started' \subseteq 1..built',
         strays' \subseteq 1..built',
         components' \in [Reload!Plugin -> Seq(AnyComponent)],
         \A p \in Reload!Plugin : Reload!Range(components'[p]) \subseteq Reload!Range(Bundle[p])
  PROVE  ReloadTyped'
<1>1. ReloadTypes'
  BY DEF ReloadTyped, ReloadTypes
<1>2. ASSUME NEW q \in Manager, q # m PROVE Aims(q)'
  <2>1. built \in Nat /\ Aims(q) /\ request'[q] = request[q]
    BY <1>2 DEF ReloadTyped, ReloadTypes
  <2>2. \A i \in 1..built : i \in 1..built'
    BY <2>1
  <2> QED BY <2>1, <2>2 DEF Aims, At, Reload!Current
<1> QED BY <1>1, <1>2 DEF ReloadTyped

\* A step of the request alone.
LEMMA OnlyRequestMoves ==
  ASSUME ReloadTyped, NEW m \in Manager, request' \in [Manager -> Requests],
         \A q \in Manager : q # m => request'[q] = request[q], Aims(m)',
         asked' \in 0..Reloads, UNCHANGED <<configured, saved>>,
         UNCHANGED <<registry, channels, running, started, strays, built, components, loaded>>
  PROVE  ReloadTyped'
<1>1. built' \in Nat /\ built <= built' /\ built' <= Builds
  BY BoundsAssumption DEF ReloadTyped, ReloadTypes
<1> QED BY <1>1, TypedMoves DEF ReloadTyped, ReloadTypes

LEMMA GoesAlone ==
  ASSUME ReloadTyped, NEW m \in Manager, NEW pc \in ReloadPc, NEW left \in Seq(AnyComponent),
         Reload!Goto(m, pc, left) \/ Reload!GiveUpOn(m, pc, left)
  PROVE  /\ request' \in [Manager -> Requests]
         /\ \A q \in Manager : q # m => request'[q] = request[q]
         /\ request'[m].pc = pc /\ request'[m].left = left
         /\ request'[m].jobs = request[m].jobs /\ UNCHANGED Reload!Current(m)
         /\ asked' \in 0..Reloads /\ UNCHANGED <<configured, saved>>
<1>1. ReloadTypes /\ asked \in 0..Reloads
  BY DEF ReloadTyped
<1>2. asked' = asked
  BY DEF Reload!Goto, Reload!GiveUpOn
<1>3. \A q \in Manager : q # m => request'[q] = request[q]
  BY <1>1 DEF ReloadTypes, Reload!Goto, Reload!GiveUpOn
<1> QED BY <1>1, <1>2, <1>3, RequestMoves DEF Reload!Current

LEMMA ChannelsOnly ==
  ASSUME NEW s \in Seq(AnyComponent)
  PROVE  LET kept == Reload!Only(s, {c \in Reload!Range(s) : c.kind = "channel"}) IN
         kept \in Seq(AnyComponent) /\ \A c \in Reload!Range(kept) : c.kind = "channel"
<1> DEFINE S == {c \in Reload!Range(s) : c.kind = "channel"}
           kept == Reload!Only(s, S)
<1>1. kept \in Seq(AnyComponent) /\ \A i \in DOMAIN kept : kept[i] \in S
  BY OnlySelects
<1>2. \A x \in S : x.kind = "channel"
  OBVIOUS
<1> HIDE DEF kept, S
<1>3. \A c \in Reload!Range(kept) : c \in S
  BY <1>1, RangeIs
<1>4. kept \in Seq(AnyComponent) /\ \A c \in Reload!Range(kept) : c.kind = "channel"
  BY <1>1, <1>2, <1>3
<1> QED BY <1>4 DEF kept, S

LEMMA AskIsTyped ==
  ASSUME ReloadTyped, NEW m \in Manager, Reload!Ask(m) PROVE ReloadTyped'
<1> DEFINE out == Reload!Jobs(loaded \ configured, TRUE, FALSE)
           again == Reload!Jobs(configured \cap loaded, TRUE, TRUE)
           new == Reload!Jobs(configured \ loaded, FALSE, TRUE)
           todo == out \o again \o new
           r == [Reload!Idle EXCEPT !.pc = "next", !.wanted = saved, !.jobs = todo]
<1>1. /\ UNCHANGED <<configured, saved>>
      /\ UNCHANGED <<registry, channels, running, started, strays, built, components, loaded>>
      /\ request' = [request EXCEPT ![m] = r]
      /\ asked' = asked + 1 /\ asked < Reloads
  BY DEF Reload!Ask, Reload!owned
<1>2. out \in Seq(AnyJob) /\ again \in Seq(AnyJob) /\ new \in Seq(AnyJob)
  BY SomeJobs
<1> HIDE DEF out, again, new
<1>3. todo \in Seq(AnyJob)
  BY <1>2
<1> HIDE DEF todo
<1>4. r \in Requests /\ r.pc = "next"
  <2>1. saved \subseteq Reload!Plugin
    BY DEF ReloadTyped, ReloadTypes
  <2>2. Reload!Idle \in Requests
    BY DEF Reload!Idle, Requests, ReloadPc
  <2> QED BY <1>3, <2>1, <2>2 DEF Requests, ReloadPc
<1> HIDE DEF r
<1>5. /\ request' \in [Manager -> Requests] /\ request'[m] = r
      /\ \A q \in Manager : q # m => request'[q] = request[q]
  BY <1>1, <1>4 DEF ReloadTyped, ReloadTypes
<1>6. asked' \in 0..Reloads
  BY <1>1, BoundsAssumption DEF ReloadTyped
<1>7. Aims(m)'
  BY <1>4, <1>5 DEF Aims, At
<1> QED BY <1>1, <1>5, <1>6, <1>7, OnlyRequestMoves

LEMMA TakeJobIsTyped ==
  ASSUME ReloadTyped, NEW m \in Manager, Reload!TakeJob(m) PROVE ReloadTyped'
<1>1. ReloadTypes /\ UNCHANGED <<registry, channels, running, started, strays, built, components, loaded>>
  BY DEF ReloadTyped, Reload!TakeJob, Reload!owned
<1>2. CASE request[m].jobs = <<>>
  <2>1. request' = [request EXCEPT ![m] = Reload!Idle] /\ UNCHANGED <<configured, saved, asked>>
    BY <1>2 DEF Reload!TakeJob
  <2>2. Reload!Idle \in Requests /\ Reload!Idle.pc = "idle"
    BY DEF Reload!Idle, Requests, ReloadPc
  <2>3. /\ request' \in [Manager -> Requests] /\ request'[m].pc = "idle"
        /\ \A q \in Manager : q # m => request'[q] = request[q]
    BY <1>1, <2>1, <2>2 DEF ReloadTypes
  <2>4. Aims(m)' /\ asked' \in 0..Reloads
    BY <2>1, <2>3 DEF Aims, At, ReloadTyped
  <2> QED BY <1>1, <2>1, <2>3, <2>4, OnlyRequestMoves
<1>3. CASE request[m].jobs # <<>>
  <2> DEFINE p == Reload!Current(m).plugin
  <2>1. p \in Reload!Plugin
    BY <1>1, <1>3, CurrentIs
  <2>2. \/ Reload!Goto(m, "unregister", components[p])
        \/ Reload!Goto(m, "register", Bundle[p])
    BY <1>3 DEF Reload!TakeJob
  <2>3. components[p] \in Seq(AnyComponent) /\ Bundle[p] \in Seq(AnyComponent)
    BY <1>1, <2>1, PluginsAre DEF ReloadTypes
  <2>4. CASE Reload!Goto(m, "unregister", components[p])
    <3>1. /\ request' \in [Manager -> Requests]
          /\ \A q \in Manager : q # m => request'[q] = request[q]
          /\ request'[m].pc = "unregister" /\ request'[m].jobs = request[m].jobs
          /\ asked' \in 0..Reloads /\ UNCHANGED <<configured, saved>>
      BY <2>3, <2>4, GoesAlone DEF ReloadPc
    <3>2. Aims(m)'
      BY <1>3, <3>1 DEF Aims, At
    <3> QED BY <1>1, <3>1, <3>2, OnlyRequestMoves
  <2>5. CASE Reload!Goto(m, "register", Bundle[p])
    <3>1. /\ request' \in [Manager -> Requests]
          /\ \A q \in Manager : q # m => request'[q] = request[q]
          /\ request'[m].pc = "register" /\ request'[m].jobs = request[m].jobs
          /\ request'[m].left = Bundle[p] /\ UNCHANGED Reload!Current(m)
          /\ asked' \in 0..Reloads /\ UNCHANGED <<configured, saved>>
      BY <2>3, <2>5, GoesAlone DEF ReloadPc
    <3>2. Aims(m)'
      BY <1>3, <3>1 DEF Aims, At
    <3> QED BY <1>1, <3>1, <3>2, OnlyRequestMoves
  <2> QED BY <2>2, <2>4, <2>5
<1> QED BY <1>2, <1>3

\* The component at hand while m brings p up or starts it, and when it stops it.
LEMMA AtHand ==
  ASSUME ReloadTyped, NEW m \in Manager, request[m].left # <<>>
  PROVE  LET c == Reload!Component(m)  p == Reload!Current(m).plugin IN
         /\ Reload!Rest(m) \in Seq(AnyComponent)
         /\ Reload!Range(Reload!Rest(m)) \subseteq Reload!Range(request[m].left)
         /\ c \in AnyComponent /\ c \in Reload!Range(request[m].left)
         /\ c.kind = "channel" => c.name \in Reload!Named(TRUE)
         /\ At(m, "register") => /\ p \in Reload!Plugin /\ c \in Reload!Range(Bundle[p])
                                 /\ request[m].jobs # <<>>
<1>1. ReloadTypes /\ Aims(m)
  BY DEF ReloadTyped
<1>2. /\ Reload!Rest(m) \in Seq(AnyComponent)
      /\ Reload!Component(m) \in Reload!Range(request[m].left)
      /\ Reload!Range(Reload!Rest(m)) \subseteq Reload!Range(request[m].left)
      /\ request[m].left \in Seq(AnyComponent)
  BY <1>1, ComponentIs
<1>3. Reload!Component(m) \in AnyComponent
  BY <1>2, RangeIs
<1>4. Reload!Component(m).kind = "channel" => Reload!Component(m).name \in Reload!Named(TRUE)
  BY <1>3 DEF AnyComponent, Reload!Named
<1>5. At(m, "register") => /\ request[m].jobs # <<>>
                           /\ Reload!Component(m) \in Reload!Range(Bundle[Reload!Current(m).plugin])
  BY <1>1, <1>2 DEF Aims, At
<1> QED BY <1>1, <1>2, <1>3, <1>4, <1>5, CurrentIs

\* m goes on with the rest of its list.
LEMMA GoesOn ==
  ASSUME ReloadTyped, NEW m \in Manager, request[m].left # <<>>, NEW pc \in ReloadPc,
         Reload!Goto(m, pc, Reload!Rest(m)) \/ Reload!GiveUpOn(m, pc, Reload!Rest(m)),
         \/ pc = "unregister" /\ (At(m, "unregister") \/ At(m, "stopping"))
         \/ pc = "register" /\ At(m, "register")
         \/ pc = "start" /\ (At(m, "start") \/ At(m, "starting"))
  PROVE  /\ request' \in [Manager -> Requests]
         /\ \A q \in Manager : q # m => request'[q] = request[q]
         /\ Aims(m)' /\ asked' \in 0..Reloads /\ UNCHANGED <<configured, saved>>
<1>1. /\ Reload!Rest(m) \in Seq(AnyComponent) /\ Aims(m)
      /\ Reload!Range(Reload!Rest(m)) \subseteq Reload!Range(request[m].left)
  BY AtHand DEF ReloadTyped
<1> DEFINE rest == Reload!Rest(m)
<1>2. /\ request' \in [Manager -> Requests]
      /\ \A q \in Manager : q # m => request'[q] = request[q]
      /\ request'[m].pc = pc /\ request'[m].left = rest
      /\ request'[m].jobs = request[m].jobs /\ UNCHANGED Reload!Current(m)
      /\ asked' \in 0..Reloads /\ UNCHANGED <<configured, saved>>
  BY <1>1, GoesAlone
<1> HIDE DEF rest
<1>3. request'[m].jobs # <<>>
  BY <1>1, <1>2 DEF Aims, At
<1>4. CASE pc = "unregister"
  BY <1>2, <1>3, <1>4 DEF Aims, At
<1>5. CASE pc = "register" /\ At(m, "register")
  BY <1>1, <1>2, <1>3, <1>5 DEF Aims, At, rest
<1>6. CASE pc = "start" /\ (At(m, "start") \/ At(m, "starting"))
  BY <1>1, <1>2, <1>3, <1>6 DEF Aims, At, rest
<1> QED BY <1>2, <1>4, <1>5, <1>6

LEMMA GoesOnProcessed ==
  ASSUME ReloadTyped, NEW m \in Manager, request[m].left # <<>>, At(m, "register"),
         NEW made \in Seq(AnyComponent), Reload!Processed(m, made)
  PROVE  /\ request' \in [Manager -> Requests]
         /\ \A q \in Manager : q # m => request'[q] = request[q]
         /\ Aims(m)' /\ asked' \in 0..Reloads /\ UNCHANGED <<configured, saved>>
<1>1. /\ ReloadTypes /\ Aims(m) /\ asked \in 0..Reloads
      /\ Reload!Range(Reload!Rest(m)) \subseteq Reload!Range(request[m].left)
  BY AtHand DEF ReloadTyped
<1>2. /\ request' \in [Manager -> Requests] /\ request'[m].pc = "register"
      /\ request'[m].left = Reload!Rest(m) /\ request'[m].jobs = request[m].jobs
      /\ UNCHANGED <<configured, saved>>
  BY <1>1, ProcessedMoves DEF At
<1>3. asked' = asked /\ \A q \in Manager : q # m => request'[q] = request[q]
  BY <1>1 DEF Reload!Processed, ReloadTypes
<1>4. UNCHANGED Reload!Current(m)
  BY <1>2 DEF Reload!Current
<1>5. Aims(m)'
  BY <1>1, <1>2, <1>4 DEF Aims, At
<1> QED BY <1>1, <1>2, <1>3, <1>5

\* m waits for a channel to start or stop.
LEMMA Waits ==
  ASSUME ReloadTyped, NEW m \in Manager, request[m].left # <<>>, NEW n \in Reload!Named(TRUE),
         NEW pc \in {"stopping", "starting"}, channels[n] # 0,
         request' = [request EXCEPT ![m].pc = pc, ![m].instance = channels[n]],
         UNCHANGED <<configured, saved, asked, built>>,
         \/ pc = "stopping" /\ At(m, "unregister")
         \/ pc = "starting" /\ At(m, "start")
  PROVE  /\ request' \in [Manager -> Requests]
         /\ \A q \in Manager : q # m => request'[q] = request[q]
         /\ Aims(m)' /\ asked' \in 0..Reloads
<1>1. /\ ReloadTypes /\ Aims(m) /\ asked \in 0..Reloads
      /\ request \in [Manager -> Requests] /\ request[m] \in Requests
  BY DEF ReloadTyped, ReloadTypes
<1>2. channels[n] \in 1..built /\ channels[n] \in Nat
  <2>1. built \in Nat /\ channels[n] \in 0..built
    BY <1>1 DEF ReloadTypes
  <2> QED BY <2>1
<1> DEFINE i == channels[n]
           r == [request[m] EXCEPT !.pc = pc, !.instance = i]
<1>3. request' = [request EXCEPT ![m] = r]
  BY <1>1
<1> HIDE DEF i
<1>4. /\ r \in Requests /\ r.pc = pc /\ r.instance = i /\ r.left = request[m].left
      /\ r.jobs = request[m].jobs
  BY <1>1, <1>2 DEF Requests, ReloadPc, i
<1> HIDE DEF r
<1>5. /\ request' \in [Manager -> Requests] /\ request'[m] = r
      /\ \A q \in Manager : q # m => request'[q] = request[q]
  BY <1>1, <1>3, <1>4
<1>6. r.jobs # <<>> /\ r.left # <<>>
  BY <1>1, <1>4 DEF Aims, At
<1>7. CASE pc = "stopping"
  <2>1. request'[m].pc = "stopping" /\ request'[m].jobs # <<>> /\ request'[m].left # <<>>
    BY <1>4, <1>5, <1>6, <1>7
  <2>2. ~ At(m, "register")' /\ ~ At(m, "start")' /\ ~ At(m, "starting")'
    BY <2>1 DEF At
  <2>3. Aims(m)'
    BY <1>2, <1>4, <1>5, <2>1, <2>2 DEF Aims, i
  <2> QED BY <1>1, <1>5, <2>3
<1>8. CASE pc = "starting" /\ At(m, "start")
  BY <1>1, <1>2, <1>4, <1>5, <1>6, <1>8 DEF Aims, At, i
<1> QED BY <1>1, <1>5, <1>7, <1>8

\* m is done with a plugin.
LEMMA Finishes ==
  ASSUME ReloadTyped, NEW m \in Manager, request[m].jobs # <<>>, Reload!JobDone(m)
  PROVE  /\ request' \in [Manager -> Requests]
         /\ \A q \in Manager : q # m => request'[q] = request[q]
         /\ Aims(m)' /\ asked' \in 0..Reloads /\ UNCHANGED <<configured, saved>>
<1>1. ReloadTypes /\ asked \in 0..Reloads
  BY DEF ReloadTyped
<1>2. /\ request' \in [Manager -> Requests] /\ request'[m].pc = "next"
      /\ UNCHANGED <<configured, saved>>
  BY <1>1, JobMoves
<1>3. \A q \in Manager : q # m => request'[q] = request[q]
  BY <1>1 DEF ReloadTypes, Reload!JobDone
<1>4. Aims(m)'
  BY <1>2 DEF Aims, At
<1> QED BY <1>1, <1>2, <1>3, <1>4 DEF Reload!JobDone

\* The steps that pass over, look at, or are done with something.
LEMMA QuietReloadIsTyped ==
  ASSUME ReloadTyped, NEW m \in Manager,
         \/ Reload!NotBuilt(m) \/ Reload!EmptyList(m) \/ Reload!StartOne(m)
         \/ Reload!PluginDone(m)
  PROVE  ReloadTyped'
<1>1. /\ ReloadTypes /\ Aims(m)
      /\ UNCHANGED <<registry, channels, running, started, strays, built, components, loaded>>
  BY DEF ReloadTyped, Reload!NotBuilt, Reload!EmptyList, Reload!StartOne, Reload!PluginDone,
    Reload!owned
<1>2. CASE Reload!NotBuilt(m)
  <2>1. /\ request[m].left # <<>> /\ At(m, "register")
        /\ Reload!GiveUpOn(m, "register", Reload!Rest(m)) /\ "register" \in ReloadPc
    BY <1>2 DEF Reload!NotBuilt, Reload!At, At, ReloadPc
  <2> QED BY <1>1, <2>1, GoesOn, OnlyRequestMoves
<1>3. CASE Reload!EmptyList(m)
  <2>1. /\ request[m].left # <<>> /\ At(m, "register")
        /\ Reload!Processed(m, request[m].made)
    BY <1>3 DEF Reload!EmptyList, Reload!At, At
  <2>2. request[m].made \in Seq(AnyComponent)
    BY <1>1 DEF ReloadTypes, Requests
  <2> QED BY <1>1, <2>1, <2>2, GoesOnProcessed, OnlyRequestMoves
<1>4. CASE Reload!PluginDone(m)
  <2>1. request[m].jobs # <<>> /\ Reload!JobDone(m)
    BY <1>1, <1>4 DEF Aims, At, Reload!At, Reload!PluginDone
  <2> QED BY <1>1, <2>1, Finishes, OnlyRequestMoves
<1>5. CASE Reload!StartOne(m)
  <2> DEFINE n == Reload!Component(m).name
  <2>1. /\ At(m, "start") /\ request[m].left # <<>> /\ "start" \in ReloadPc
        /\ \/ Reload!GiveUpOn(m, "start", Reload!Rest(m))
           \/ Reload!Goto(m, "start", Reload!Rest(m))
           \/ /\ channels[n] # 0
              /\ request' = [request EXCEPT ![m].pc = "starting", ![m].instance = channels[n]]
              /\ UNCHANGED <<configured, saved, asked>>
    BY <1>5 DEF Reload!StartOne, Reload!At, At, ReloadPc
  <2>2. n \in Reload!Named(TRUE)
    <3>1. Reload!Component(m).kind = "channel"
      BY <1>1, <2>1, AtHand DEF Aims
    <3> QED BY <2>1, <3>1, AtHand
  <2> HIDE DEF n
  <2>3. CASE Reload!GiveUpOn(m, "start", Reload!Rest(m)) \/ Reload!Goto(m, "start", Reload!Rest(m))
    BY <1>1, <2>1, <2>3, GoesOn, OnlyRequestMoves
  <2>4. CASE /\ channels[n] # 0
             /\ request' = [request EXCEPT ![m].pc = "starting", ![m].instance = channels[n]]
             /\ UNCHANGED <<configured, saved, asked>>
    <3>1. /\ request' \in [Manager -> Requests]
          /\ \A q \in Manager : q # m => request'[q] = request[q]
          /\ Aims(m)' /\ asked' \in 0..Reloads
      BY <1>1, <2>1, <2>2, <2>4, Waits
    <3> QED BY <1>1, <2>4, <3>1, OnlyRequestMoves
  <2> QED BY <2>1, <2>3, <2>4
<1> QED BY <1>2, <1>3, <1>4, <1>5

\* The steps that take a component down.
LEMMA TakenDownIsTyped ==
  ASSUME ReloadTyped, NEW m \in Manager,
         \/ Reload!Deregister(m) \/ Reload!DeregisterChannel(m)
         \/ Reload!Stopped(m) \/ Reload!StopFails(m)
  PROVE  ReloadTyped'
<1>1. /\ ReloadTypes /\ Aims(m) /\ started \subseteq 1..built /\ strays \subseteq 1..built
      /\ built <= Builds /\ built \in Nat /\ built <= built /\ "unregister" \in ReloadPc /\ 0 \in 0..built
  BY TypedFacts
<1>2. CASE Reload!Deregister(m)
  <2>1. /\ request[m].left # <<>> /\ At(m, "unregister")
        /\ Reload!Goto(m, "unregister", Reload!Rest(m))
        /\ registry' = [registry EXCEPT ![Reload!Component(m).name] = Absent]
        /\ UNCHANGED <<channels, running, started, strays, built, components, loaded>>
    BY <1>2 DEF Reload!Deregister, Reload!At, At
  <2>2. registry' \in [Reload!Named(FALSE) -> Reload!Plugin \cup {Absent}]
    BY <1>1, <2>1 DEF ReloadTypes
  <2>3. /\ request' \in [Manager -> Requests]
        /\ \A q \in Manager : q # m => request'[q] = request[q]
        /\ Aims(m)' /\ asked' \in 0..Reloads /\ UNCHANGED <<configured, saved>>
    BY <1>1, <2>1, GoesOn
  <2> QED BY <1>1, <2>1, <2>2, <2>3, TypedMoves DEF ReloadTypes
<1>3. CASE Reload!DeregisterChannel(m)
  <2> DEFINE n == Reload!Component(m).name
  <2>1. /\ request[m].left # <<>> /\ At(m, "unregister") /\ Reload!Component(m).kind = "channel"
        /\ \/ /\ channels[n] # 0
              /\ request' = [request EXCEPT ![m].pc = "stopping", ![m].instance = channels[n]]
              /\ UNCHANGED <<configured, saved, asked>>
           \/ Reload!Goto(m, "unregister", Reload!Rest(m))
        /\ channels' = [channels EXCEPT ![n] = 0]
        /\ UNCHANGED <<registry, running, started, strays, built, components, loaded>>
    BY <1>3 DEF Reload!DeregisterChannel, Reload!At, At
  <2>2. n \in Reload!Named(TRUE)
    BY <2>1, AtHand
  <2> HIDE DEF n
  <2>3. channels' \in [Reload!Named(TRUE) -> 0..built]
    BY <1>1, <2>1 DEF ReloadTypes
  <2>4. /\ request' \in [Manager -> Requests]
        /\ \A q \in Manager : q # m => request'[q] = request[q]
        /\ Aims(m)' /\ asked' \in 0..Reloads /\ UNCHANGED <<configured, saved>>
    <3>1. CASE Reload!Goto(m, "unregister", Reload!Rest(m))
      BY <1>1, <2>1, <3>1, GoesOn
    <3>2. CASE /\ channels[n] # 0
               /\ request' = [request EXCEPT ![m].pc = "stopping", ![m].instance = channels[n]]
               /\ UNCHANGED <<configured, saved, asked>>
      BY <2>1, <2>2, <3>2, Waits
    <3> QED BY <2>1, <3>1, <3>2
  <2> QED BY <1>1, <2>1, <2>3, <2>4, TypedMoves DEF ReloadTypes
<1>4. CASE Reload!Stopped(m) \/ Reload!StopFails(m)
  <2>1. /\ At(m, "stopping") /\ Reload!Goto(m, "unregister", Reload!Rest(m))
        /\ running' \subseteq running
        /\ UNCHANGED <<registry, channels, built, components, loaded>>
    BY <1>4 DEF Reload!Stopped, Reload!StopFails, Reload!Unmarked, Reload!At, At
  <2>2. request[m].left # <<>>
    BY <1>1, <2>1 DEF Aims
  <2>3. /\ request' \in [Manager -> Requests]
        /\ \A q \in Manager : q # m => request'[q] = request[q]
        /\ Aims(m)' /\ asked' \in 0..Reloads /\ UNCHANGED <<configured, saved>>
    BY <1>1, <2>1, <2>2, GoesOn
  <2>4. running' \subseteq Reload!Named(TRUE)
    BY <1>1, <2>1 DEF ReloadTypes
  <2>5. started' \subseteq 1..built /\ strays' \subseteq 1..built
    <3>1. request[m].instance \in 1..built
      BY <1>1, <2>1 DEF Aims
    <3> DEFINE S == {request[m].instance}
    <3>2. /\ started' \subseteq started \cup S /\ strays' \subseteq strays \cup S
          /\ S \subseteq 1..built
      BY <1>4, <3>1 DEF Reload!Stopped, Reload!StopFails
    <3> QED BY <1>1, <3>2
  <2> QED BY <1>1, <2>1, <2>3, <2>4, <2>5, TypedMoves DEF ReloadTypes
<1> QED BY <1>2, <1>3, <1>4

LEMMA UnregisteredIsTyped ==
  ASSUME ReloadTyped, NEW m \in Manager, Reload!Unregistered(m) PROVE ReloadTyped'
<1> DEFINE p == Reload!Current(m).plugin
<1>1. /\ ReloadTypes /\ Aims(m) /\ started \subseteq 1..built /\ strays \subseteq 1..built
      /\ built <= Builds /\ built \in Nat /\ built <= built
  BY TypedFacts
<1>2. /\ At(m, "unregister") /\ components' = [components EXCEPT ![p] = <<>>]
      /\ loaded' = loaded \ {p}
      /\ Reload!Goto(m, "register", Bundle[p]) \/ Reload!JobDone(m)
      /\ UNCHANGED <<registry, channels, running, started, strays, built>>
  BY DEF Reload!Unregistered, Reload!At, At
<1>3. request[m].jobs # <<>> /\ p \in Reload!Plugin
  <2>1. request[m].jobs # <<>>
    BY <1>1, <1>2 DEF Aims, At
  <2> QED BY <1>1, <2>1, CurrentIs
<1>4. /\ request' \in [Manager -> Requests]
      /\ \A q \in Manager : q # m => request'[q] = request[q]
      /\ Aims(m)' /\ asked' \in 0..Reloads /\ UNCHANGED <<configured, saved>>
  <2>1. CASE Reload!JobDone(m)
    BY <1>3, <2>1, Finishes
  <2>2. CASE Reload!Goto(m, "register", Bundle[p])
    <3>1. Bundle[p] \in Seq(AnyComponent) /\ "register" \in ReloadPc
      BY <1>3, PluginsAre DEF ReloadPc
    <3>2. /\ request' \in [Manager -> Requests]
          /\ \A q \in Manager : q # m => request'[q] = request[q]
          /\ request'[m].pc = "register" /\ request'[m].jobs = request[m].jobs
          /\ request'[m].left = Bundle[p] /\ UNCHANGED Reload!Current(m)
          /\ asked' \in 0..Reloads /\ UNCHANGED <<configured, saved>>
      BY <2>2, <3>1, GoesAlone
    <3>3. Aims(m)'
      BY <1>3, <3>2 DEF Aims, At
    <3> QED BY <3>2, <3>3
  <2> QED BY <1>2, <2>1, <2>2
<1> HIDE DEF p
<1>5. <<>> \in Seq(AnyComponent) /\ Reload!Range(<<>>) = {}
  BY RangeIs
<1>6. /\ components' \in [Reload!Plugin -> Seq(AnyComponent)]
      /\ \A q \in Reload!Plugin : components'[q] = components[q] \/ components'[q] = <<>>
  BY <1>1, <1>2, <1>5 DEF ReloadTypes
<1>7. \A q \in Reload!Plugin : Reload!Range(components'[q]) \subseteq Reload!Range(Bundle[q])
  BY <1>1, <1>5, <1>6 DEF ReloadTypes
<1> QED BY <1>1, <1>2, <1>4, <1>6, <1>7, TypedMoves DEF ReloadTypes

\* The components of p after one more of p's own.
LEMMA OneMoreIsTyped ==
  ASSUME ReloadTypes, NEW p \in Reload!Plugin, NEW c \in Reload!Range(Bundle[p]),
         components' = [components EXCEPT ![p] = Append(@, c)]
  PROVE  /\ components' \in [Reload!Plugin -> Seq(AnyComponent)]
         /\ \A q \in Reload!Plugin : Reload!Range(components'[q]) \subseteq Reload!Range(Bundle[q])
<1>1. /\ components \in [Reload!Plugin -> Seq(AnyComponent)] /\ components[p] \in Seq(AnyComponent)
      /\ c \in AnyComponent
      /\ \A q \in Reload!Plugin : Reload!Range(components[q]) \subseteq Reload!Range(Bundle[q])
  BY NamesAre DEF ReloadTypes
<1> DEFINE s == components[p]  t == Append(s, c)
<1>2. s \in Seq(AnyComponent)
  BY <1>1
<1> HIDE DEF s
<1>3. /\ t \in Seq(AnyComponent)
      /\ \A i \in DOMAIN t : t[i] = c \/ (i \in DOMAIN s /\ t[i] = s[i])
  BY <1>1, <1>2
<1>4. components' = [components EXCEPT ![p] = t]
  BY <1>1 DEF s
<1> HIDE DEF t
<1>5. /\ components' \in [Reload!Plugin -> Seq(AnyComponent)] /\ components'[p] = t
      /\ \A q \in Reload!Plugin : q # p => components'[q] = components[q]
  BY <1>1, <1>3, <1>4
<1>6. Reload!Range(t) \subseteq Reload!Range(s) \cup {c}
  BY <1>3, RangeIs
<1>7. Reload!Range(components'[p]) \subseteq Reload!Range(Bundle[p])
  BY <1>1, <1>5, <1>6 DEF s
<1> QED BY <1>1, <1>5, <1>7

LEMMA BroughtUpIsTyped ==
  ASSUME ReloadTyped, NEW m \in Manager,
         Reload!Register(m) \/ Reload!RegisterChannel(m)
  PROVE  ReloadTyped'
<1> DEFINE c == Reload!Component(m)
           p == Reload!Current(m).plugin
<1>1. /\ ReloadTypes /\ started \subseteq 1..built /\ strays \subseteq 1..built
      /\ built <= Builds /\ built \in Nat /\ built <= built /\ "register" \in ReloadPc
  BY TypedFacts
<1>2. /\ request[m].left # <<>> /\ At(m, "register")
      /\ Reload!Processed(m, Append(request[m].made, c))
      /\ components' = [components EXCEPT ![p] = Append(@, c)]
      /\ UNCHANGED <<running, started, strays, loaded>>
  BY DEF Reload!Register, Reload!RegisterChannel, Reload!At, At
<1>3. /\ request' \in [Manager -> Requests]
      /\ \A q \in Manager : q # m => request'[q] = request[q]
      /\ Aims(m)' /\ asked' \in 0..Reloads /\ UNCHANGED <<configured, saved>>
  <2> DEFINE made == Append(request[m].made, c)
  <2>1. c \in AnyComponent /\ request[m].made \in Seq(AnyComponent)
    BY <1>1, <1>2, AtHand DEF ReloadTypes, Requests
  <2>2. made \in Seq(AnyComponent) /\ Reload!Processed(m, made)
    BY <1>2, <2>1
  <2> HIDE DEF made
  <2> QED BY <1>2, <2>2, GoesOnProcessed
<1>4. /\ p \in Reload!Plugin /\ c \in Reload!Range(Bundle[p])
      /\ c.kind = "channel" => c.name \in Reload!Named(TRUE)
  BY <1>2, AtHand
<1> HIDE DEF c, p
<1>5. /\ components' \in [Reload!Plugin -> Seq(AnyComponent)]
      /\ \A q \in Reload!Plugin : Reload!Range(components'[q]) \subseteq Reload!Range(Bundle[q])
  BY <1>1, <1>2, <1>4, OneMoreIsTyped
<1>6. CASE Reload!Register(m)
  <2>1. registry' = [registry EXCEPT ![c.name] = p] /\ UNCHANGED <<channels, built>>
    BY <1>6 DEF Reload!Register, c, p
  <2>2. registry' \in [Reload!Named(FALSE) -> Reload!Plugin \cup {Absent}]
    BY <1>1, <1>4, <2>1 DEF ReloadTypes
  <2> QED BY <1>1, <1>2, <1>3, <1>5, <2>1, <2>2, TypedMoves DEF ReloadTypes
<1>7. CASE Reload!RegisterChannel(m)
  <2>1. /\ built' = built + 1 /\ built < Builds /\ channels' = [channels EXCEPT ![c.name] = built']
        /\ UNCHANGED registry
    BY <1>7 DEF Reload!RegisterChannel, c
  <2>2. built' \in Nat /\ built <= built' /\ built' <= Builds
    BY <1>1, <2>1, BoundsAssumption
  <2>3. /\ \A i \in 0..built : i \in 0..built'
        /\ \A i \in 1..built : i \in 1..built'
        /\ built' \in 0..built'
    BY <1>1, <2>2
  <2>4. channels \in [Reload!Named(TRUE) -> 0..built]
    BY <1>1 DEF ReloadTypes
  <2>5. channels' \in [Reload!Named(TRUE) -> 0..built']
    BY <2>1, <2>3, <2>4
  <2>6. started' \subseteq 1..built' /\ strays' \subseteq 1..built'
    BY <1>1, <1>2, <2>3
  <2> QED BY <1>1, <1>2, <1>3, <1>5, <2>1, <2>2, <2>5, <2>6, TypedMoves DEF ReloadTypes
<1> QED BY <1>6, <1>7

\* The steps that turn to the channels, and that have one running.
LEMMA StartedIsTyped ==
  ASSUME ReloadTyped, NEW m \in Manager,
         Reload!Registered(m) \/ Reload!Started(m) \/ Reload!StartFails(m)
  PROVE  ReloadTyped'
<1>1. /\ ReloadTypes /\ Aims(m) /\ started \subseteq 1..built /\ strays \subseteq 1..built
      /\ built <= Builds /\ built \in Nat /\ built <= built /\ "start" \in ReloadPc
  BY TypedFacts
<1>2. CASE Reload!Registered(m)
  <2> DEFINE p == Reload!Current(m).plugin
             made == request[m].made
             kept == Reload!Only(made, {c \in Reload!Range(made) : c.kind = "channel"})
  <2>1. /\ At(m, "register") /\ Reload!Goto(m, "start", kept)
        /\ loaded' = loaded \/ loaded' = loaded \cup {p}
        /\ UNCHANGED <<registry, channels, running, started, strays, built, components>>
    BY <1>2 DEF Reload!Registered, Reload!At, At
  <2>2. request[m].jobs # <<>>
    BY <1>1, <2>1 DEF Aims, At
  <2>3. p \in Reload!Plugin
    BY <1>1, <2>2, CurrentIs
  <2>4. made \in Seq(AnyComponent)
    BY <1>1 DEF ReloadTypes, Requests
  <2>5. kept \in Seq(AnyComponent) /\ \A c \in Reload!Range(kept) : c.kind = "channel"
    BY <2>4, ChannelsOnly
  <2> HIDE DEF p, made, kept
  <2>6. /\ request' \in [Manager -> Requests]
        /\ \A q \in Manager : q # m => request'[q] = request[q]
        /\ request'[m].pc = "start" /\ request'[m].left = kept
        /\ request'[m].jobs = request[m].jobs
        /\ asked' \in 0..Reloads /\ UNCHANGED <<configured, saved>>
    BY <1>1, <2>1, <2>5, GoesAlone
  <2>7. Aims(m)'
    BY <2>2, <2>5, <2>6 DEF Aims, At
  <2>8. loaded' \subseteq Reload!Plugin
    BY <1>1, <2>1, <2>3 DEF ReloadTypes
  <2> QED BY <1>1, <2>1, <2>6, <2>7, <2>8, TypedMoves DEF ReloadTypes
<1>3. CASE Reload!Started(m) \/ Reload!StartFails(m)
  <2> DEFINE S == {request[m].instance}
             n == Reload!Component(m).name
  <2>1. /\ At(m, "starting")
        /\ \/ Reload!Goto(m, "start", Reload!Rest(m))
           \/ Reload!GiveUpOn(m, "start", Reload!Rest(m))
        /\ started' \subseteq started \cup S /\ strays' \subseteq strays \cup S
        /\ running' \subseteq running \cup {n}
        /\ UNCHANGED <<registry, channels, built, components, loaded>>
    BY <1>3 DEF Reload!Started, Reload!StartFails, Reload!At, At
  <2>2. request[m].left # <<>> /\ request[m].instance \in 1..built
    BY <1>1, <2>1 DEF Aims
  <2>3. Reload!Component(m).kind = "channel" /\ n \in Reload!Named(TRUE)
    <3>1. Reload!Component(m) \in Reload!Range(request[m].left)
      BY <2>2, AtHand
    <3>2. Reload!Component(m).kind = "channel"
      BY <1>1, <2>1, <3>1 DEF Aims
    <3> QED BY <2>2, <3>2, AtHand
  <2>4. /\ request' \in [Manager -> Requests]
        /\ \A q \in Manager : q # m => request'[q] = request[q]
        /\ Aims(m)' /\ asked' \in 0..Reloads /\ UNCHANGED <<configured, saved>>
    BY <1>1, <2>1, <2>2, GoesOn
  <2>5. S \subseteq 1..built
    BY <2>2
  <2> HIDE DEF S, n
  <2>6. /\ running' \subseteq Reload!Named(TRUE)
        /\ started' \subseteq 1..built /\ strays' \subseteq 1..built
    BY <1>1, <2>1, <2>3, <2>5 DEF ReloadTypes
  <2> QED BY <1>1, <2>1, <2>4, <2>6, TypedMoves DEF ReloadTypes
<1> QED BY <1>2, <1>3

LEMMA ReloadIsTyped ==
  /\ ServicesInit => ReloadTyped
  /\ ReloadTyped /\ [ServicesNext]_servicesVars => ReloadTyped'
  /\ ReloadTyped => Reload!ReloadTypeOK
<1>1. ASSUME ServicesInit PROVE ReloadTyped
  <2>1. Reload!Init /\ ReloadTypes
    BY <1>1, ReloadStarts DEF ServicesInit, ReloadInv
  <2>2. \A m \in Manager : request[m].pc = "idle"
    BY <2>1 DEF Reload!Init, Reload!Idle
  <2>3. started = {} /\ strays = {} /\ built = 0 /\ asked = 0
    BY <2>1 DEF Reload!Init
  <2>4. \A m \in Manager : Aims(m)
    BY <2>2 DEF Aims, At
  <2> QED BY <2>1, <2>3, <2>4, BoundsAssumption DEF ReloadTyped
<1>2. ASSUME ReloadTyped, Reload!ReloadNext PROVE ReloadTyped'
  <2>1. ASSUME NEW plugins \in SUBSET Reload!Plugin, Reload!Save(plugins) PROVE ReloadTyped'
    <3>1. saved' \subseteq Reload!Plugin
      BY <2>1 DEF Reload!Save
    <3>2. UNCHANGED <<configured, registry, channels, running, started, strays, built, components, loaded,
                      request, asked>>
      BY <2>1 DEF Reload!Save, Reload!owned
    <3>3. ReloadTypes'
      BY <1>2, <3>1, <3>2 DEF ReloadTyped, ReloadTypes
    <3> QED BY <1>2, <3>2, <3>3 DEF ReloadTyped, Aims, At, Reload!Current
  <2>2. ASSUME NEW m \in Manager, Reload!Reloading(m) PROVE ReloadTyped'
    BY <1>2, <2>2, AskIsTyped, TakeJobIsTyped, QuietReloadIsTyped, TakenDownIsTyped,
       UnregisteredIsTyped, BroughtUpIsTyped, StartedIsTyped DEF Reload!Reloading
  <2> QED BY <1>2, <2>1, <2>2 DEF Reload!ReloadNext
<1>3. ASSUME ReloadTyped, UNCHANGED Reload!reloadVars PROVE ReloadTyped'
  <2>1. UNCHANGED <<configured, saved, registry, channels, running, started, strays, built, components,
                    loaded, request, asked>>
    BY <1>3 DEF Reload!reloadVars, Reload!owned
  <2>2. ReloadTypes'
    BY <1>3, <2>1 DEF ReloadTyped, ReloadTypes
  <2> QED BY <1>3, <2>1, <2>2 DEF ReloadTyped, Aims, At, Reload!Current
<1>4. ASSUME ReloadTyped PROVE Reload!ReloadTypeOK
  <2>1. ReloadTypes /\ asked <= Reloads
    BY <1>4, BoundsAssumption DEF ReloadTyped
  <2>2. \A m \in Manager : request[m].pc \in {"idle", "next", "unregister", "stopping",
                                             "register", "start", "starting"}
    BY <2>1 DEF ReloadTypes, Requests, ReloadPc
  <2> QED BY <1>4, <2>1, <2>2 DEF ReloadTyped, ReloadTypes, Reload!ReloadTypeOK
<1> QED BY <1>1, <1>2, <1>3, <1>4, ReloadMoves

\* The chat and the reload keep their types: what a socket, a bridge or a reload
\* at work refers to is there (web_chat, plugin_service.py).
THEOREM ChatTypesAreKept ==
  ServicesSpec => [](Chat!ChatTypeOK /\ Reload!ReloadTypeOK)
<1>1. ServicesSpec => []Chat!ChatTypeOK
  BY ChatStaysTyped, PTL DEF ServicesSpec
<1>2. ServicesSpec => []Reload!ReloadTypeOK
  BY ReloadIsTyped, PTL DEF ServicesSpec
<1> QED BY <1>1, <1>2, PTL

=============================================================================
