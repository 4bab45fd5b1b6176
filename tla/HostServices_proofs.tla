-------------------------- MODULE HostServices_proofs --------------------------
(***************************************************************************)
(* Facts about the components that keep the process going, for every value *)
(* of the constants: calls to language models, the installer, the          *)
(* resolution of engines, environments, the files of a first boot, the     *)
(* process with its pid file and pause file, and the decision engines.     *)
(*                                                                         *)
(* In MCServices one component moves at a time; a lemma ...Moves says so   *)
(* of one of them, and a lemma ...GoesOn that its steps keep its invariant;*)
(* ...Stays is the invariant as a fact of every behaviour.  The last       *)
(* theorem brings together the types of all components, those of the other *)
(* two modules included.                                                   *)
(***************************************************************************)
EXTENDS MCServices, ToolServices_proofs, ChatServices_proofs, FiniteSetTheorems, TLAPS

-----------------------------------------------------------------------------
(* Calls to language models *)

LlmResult == {"none", "answer", "kept order", "no client"} \cup Llm!Failure
LlmRequest == [who : {"chat", "embed", "rerank"},
               at : {"resolve", "build", "post", "backoff", "done"},
               failures : Seq(Llm!Failure), result : LlmResult]
Transients(fs) == \A i \in 1..Len(fs) : fs[i] \in RetryOn \cup {"network"}
ButTheLast(fs) == \A i \in 1..Len(fs) : i < Len(fs) => fs[i] \in RetryOn \cup {"network"}

LlmInv ==
  /\ tag.retries \in Int
  /\ llmRequest \in LlmRequest
  /\ Len(llmRequest.failures) <= Llm!Attempts
  /\ ButTheLast(llmRequest.failures)
  /\ llmRequest.at # "done" =>
       /\ Transients(llmRequest.failures)
       /\ Len(llmRequest.failures) < Llm!Attempts
  /\ llmRequest.result = "answer" => Transients(llmRequest.failures)
  /\ llmRequest.at = "done" /\ llmRequest.who = "rerank"
       => llmRequest.result \in {"answer", "kept order"}

LEMMA AttemptsPositive ==
  ASSUME tag.retries \in Int
  PROVE  Llm!Attempts \in Int /\ Llm!Attempts >= 1
BY DEF Llm!Attempts, Llm!Max2

LEMMA LlmFresh ==
  ASSUME NEW who \in {"chat", "embed", "rerank"}
  PROVE  /\ Llm!Asked(who) \in LlmRequest
         /\ Llm!Asked(who).at = "resolve" /\ Llm!Asked(who).result = "none"
         /\ Len(Llm!Asked(who).failures) = 0
         /\ Transients(Llm!Asked(who).failures) /\ ButTheLast(Llm!Asked(who).failures)
BY DEF Llm!Asked, LlmRequest, LlmResult, Transients, ButTheLast

LEMMA LlmStarts == ASSUME ServicesInit PROVE LlmInv
<1>1. tag.retries \in Int
  <2>1. tag.retries \in Retries BY DEF ServicesInit, Llm!LlmInit
  <2> QED BY <2>1, RetriesAssumption
<1>2. PICK who \in {"chat", "embed", "rerank"} : llmRequest = Llm!Asked(who)
  BY DEF ServicesInit, Llm!LlmInit
<1>3. Llm!Attempts \in Int /\ Llm!Attempts >= 1 BY <1>1, AttemptsPositive
<1>4. /\ llmRequest \in LlmRequest
      /\ llmRequest.at = "resolve" /\ llmRequest.result = "none"
      /\ Len(llmRequest.failures) = 0
      /\ Transients(llmRequest.failures) /\ ButTheLast(llmRequest.failures)
  BY <1>2, LlmFresh
<1> QED BY <1>1, <1>3, <1>4 DEF LlmInv

LEMMA LlmMoves ==
  ASSUME [ServicesNext]_servicesVars
  PROVE  Llm!LlmNext \/ UNCHANGED <<tag, cached, wire, llmRequest>>
<1>1. CASE UNCHANGED servicesVars BY <1>1 DEF servicesVars, Llm!llmVars
<1>2. CASE ServicesNext
  <2>1. CASE LlmStep BY <2>1 DEF LlmStep
  <2>2. CASE ~ LlmStep
    BY <1>2, <2>2 DEF ServicesNext, BufferStep, ChatStep, ReloadStep, BrowserStep, McpStep,
      GraphStep, SearchStep, DecisionStep, LifeStep, EnvStep, EngineStep, InstallStep,
      FirstStep, OthersStill, Moves
  <2> QED BY <2>1, <2>2
<1> QED BY <1>1, <1>2

LEMMA FailureCounted ==
  ASSUME NEW fs \in Seq(Llm!Failure), NEW f \in Llm!Failure, Transients(fs)
  PROVE  /\ Append(fs, f) \in Seq(Llm!Failure)
         /\ Len(Append(fs, f)) = Len(fs) + 1
         /\ ButTheLast(Append(fs, f))
         /\ Llm!Transient(f) => Transients(Append(fs, f))
BY DEF Transients, ButTheLast, Llm!Transient

LEMMA LlmGoesOn ==
  ASSUME LlmInv, Llm!LlmNext PROVE LlmInv'
<1>t. tag' = tag
  BY DEF Llm!LlmNext, Llm!ResolveTag, Llm!BuildBody, Llm!Answered, Llm!AnsweredShort, Llm!Backoff, Llm!PostFails, Llm!CallAgain
<1>a. Llm!Attempts' = Llm!Attempts /\ Llm!Attempts \in Int /\ Llm!Attempts >= 1
  <2>1. tag.retries \in Int BY DEF LlmInv
  <2>2. Llm!Attempts' = Llm!Attempts BY <1>t DEF Llm!Attempts
  <2> QED BY <2>1, <2>2, AttemptsPositive
<1> USE DEF LlmInv, LlmRequest
<1>1. CASE Llm!ResolveTag
  BY <1>1, <1>t, <1>a DEF Llm!ResolveTag, Llm!Ended, LlmResult
<1>2. CASE Llm!BuildBody
  BY <1>2, <1>t, <1>a DEF Llm!BuildBody
<1>3. CASE Llm!Answered
  BY <1>3, <1>t, <1>a DEF Llm!Answered, Llm!Ended, LlmResult
<1>4. CASE Llm!AnsweredShort
  BY <1>4, <1>t, <1>a DEF Llm!AnsweredShort, Llm!Ended, LlmResult
<1>5. CASE Llm!Backoff
  BY <1>5, <1>t, <1>a DEF Llm!Backoff
<1>6. ASSUME NEW f \in Llm!Failure, Llm!PostFails(f) PROVE LlmInv'
  <2> DEFINE fs == llmRequest.failures
             more == Append(fs, f)
  <2>1. /\ llmRequest.at = "post" /\ fs \in Seq(Llm!Failure)
        /\ Len(fs) < Llm!Attempts /\ Transients(fs) /\ Len(fs) \in Nat
    BY <1>6 DEF Llm!PostFails
  <2>2. /\ more \in Seq(Llm!Failure) /\ Len(more) = Len(fs) + 1
        /\ ButTheLast(more)
        /\ Llm!Transient(f) => Transients(more)
    BY <2>1, FailureCounted
  <2>4. CASE Llm!Retried(f)
    <3>1. llmRequest' = [llmRequest EXCEPT !.at = "backoff", !.failures = more]
      BY <1>6, <2>4 DEF Llm!PostFails
    <3>2. Llm!Transient(f) /\ Len(fs) + 1 < Llm!Attempts
      BY <2>4 DEF Llm!Retried
    <3>3. /\ llmRequest' \in LlmRequest
          /\ llmRequest'.failures = more /\ llmRequest'.at = "backoff"
      <4> HIDE DEF more
      <4> QED BY <3>1, <2>2
    <3> HIDE DEF more, fs
    <3> QED BY <3>2, <3>3, <2>1, <2>2, <1>t, <1>a
  <2>5. CASE ~ Llm!Retried(f)
    <3>1. llmRequest' = [Llm!Ended(f) EXCEPT !.failures = more]
      BY <1>6, <2>5 DEF Llm!PostFails
    <3>2. f # "answer"
      <4> HIDE DEF LlmInv
      <4> QED BY <1>6 DEF Llm!Failure
    <3>3. /\ llmRequest' \in LlmRequest
          /\ llmRequest'.failures = more /\ llmRequest'.at = "done"
          /\ llmRequest'.who = "rerank" => llmRequest'.result = "kept order"
          /\ llmRequest'.result # "answer"
      <4> HIDE DEF more
      <4> QED BY <1>6, <3>1, <3>2, <2>2 DEF Llm!Ended, LlmResult
    <3> HIDE DEF more, fs, LlmRequest
    <3>4. tag'.retries \in Int BY <1>t
    <3> HIDE DEF LlmInv
    <3>5. /\ llmRequest' \in LlmRequest /\ llmRequest'.at = "done"
          /\ llmRequest'.who = "rerank" => llmRequest'.result = "kept order"
          /\ llmRequest'.result # "answer"
          /\ Len(llmRequest'.failures) <= Llm!Attempts'
          /\ ButTheLast(llmRequest'.failures)
      <4>1. llmRequest' \in LlmRequest /\ llmRequest'.at = "done" BY <3>3
      <4>2. llmRequest'.who = "rerank" => llmRequest'.result = "kept order" BY <3>3
      <4>3. llmRequest'.result # "answer" BY <3>3
      <4>4. Len(llmRequest'.failures) <= Llm!Attempts'
        <5>1. Len(more) <= Llm!Attempts BY <2>1, <2>2, <1>a
        <5> QED BY <5>1, <3>3, <1>a
      <4>5. ButTheLast(llmRequest'.failures) BY <3>3, <2>1, <2>2, <1>a
      <4> QED BY <4>1, <4>2, <4>3, <4>4, <4>5
    <3> QED BY <3>4, <3>5 DEF LlmInv
  <2> QED BY <2>4, <2>5
<1>7. ASSUME NEW who \in {"chat", "embed", "rerank"}, Llm!CallAgain(who) PROVE LlmInv'
  <2>1. llmRequest' = Llm!Asked(who)
    BY <1>7 DEF Llm!CallAgain
  <2> HIDE DEF LlmRequest, LlmInv
  <2>2. tag'.retries \in Int BY <1>t DEF LlmInv
  <2>3. /\ llmRequest' \in LlmRequest
        /\ llmRequest'.at = "resolve" /\ llmRequest'.result = "none"
        /\ Len(llmRequest'.failures) = 0
        /\ Transients(llmRequest'.failures) /\ ButTheLast(llmRequest'.failures)
    BY <2>1, LlmFresh
  <2>4. Len(llmRequest'.failures) < Llm!Attempts' BY <2>3, <1>a
  <2>5. Len(llmRequest'.failures) <= Llm!Attempts' BY <2>3, <1>a
  <2> QED BY <2>2, <2>3, <2>4, <2>5 DEF LlmInv
<1> QED BY <1>1, <1>2, <1>3, <1>4, <1>5, <1>6, <1>7 DEF Llm!LlmNext

LEMMA LlmStays == ServicesSpec => []LlmInv
<1>1. ServicesInit => LlmInv
  BY LlmStarts
<1>2. LlmInv /\ [ServicesNext]_servicesVars => LlmInv'
  <2>1. LlmInv /\ UNCHANGED <<tag, cached, wire, llmRequest>> => LlmInv'
    BY DEF LlmInv, Llm!Attempts
  <2> QED BY <2>1, LlmMoves, LlmGoesOn
<1> QED BY <1>1, <1>2, PTL DEF ServicesSpec

\* A call to a model is repeated only after a network failure or a status the tag
\* retries on, never beyond its retries; and a reranker ends with an answer or with
\* the order it was given.
THEOREM OnlyTransientRepeated == ServicesSpec => []RepeatsOnlyTransient
<1>1. LlmInv => RepeatsOnlyTransient
  BY DEF LlmInv, Transients, ButTheLast, LlmRequest, RepeatsOnlyTransient, Llm!RepeatsOnlyTransient, Llm!Attempts
<1> QED BY <1>1, LlmStays, PTL

-----------------------------------------------------------------------------
(* krakey install *)

Collected == [pip : SUBSET PipSpec, post : SUBSET (Unit \X {"optional", "required"})]

InstallTypes ==
  /\ declares \in [Unit -> Install!Manifest]
  /\ installer \in [Installer -> [at : {"rest", "pip", "post"}, found : Collected \cup {NoRecord},
                                  left : SUBSET Unit, failed : BOOLEAN]]

OneStepEach(found) == \A x, y \in found.post : x[1] = y[1] => x = y

Settled(found) ==
  /\ found.pip \subseteq present
  /\ \A x \in found.post : x[2] = "required" => x \in stepped

UnderWay(p) ==
  LET i == installer[p] IN i.at # "rest" =>
    /\ i.found \in Collected /\ OneStepEach(i.found)
    /\ \A u \in i.left : \E x \in i.found.post : x[1] = u
    /\ \A x \in i.found.post : x[2] = "required" /\ x[1] \notin i.left => x \in stepped \/ i.failed
    /\ i.at = "post" => i.found.pip \subseteq present

InstallInv ==
  /\ InstallTypes
  /\ \A p \in Installer : UnderWay(p)
  /\ record # NoRecord => Settled(record)

LEMMA InstallStarts == ASSUME ServicesInit PROVE InstallInv
BY DEF ServicesInit, Install!InstallInit, Install!Resting, InstallInv, InstallTypes, UnderWay

LEMMA InstallMoves ==
  ASSUME [ServicesNext]_servicesVars
  PROVE  Install!InstallNext \/ UNCHANGED Install!installVars
<1>1. CASE UNCHANGED servicesVars BY <1>1 DEF servicesVars
<1>2. CASE ServicesNext
  <2>1. CASE InstallStep BY <2>1 DEF InstallStep
  <2>2. CASE ~ InstallStep
    BY <1>2, <2>2 DEF ServicesNext, BufferStep, ChatStep, ReloadStep, BrowserStep, McpStep,
      GraphStep, SearchStep, DecisionStep, LifeStep, EnvStep, EngineStep, LlmStep,
      FirstStep, OthersStill, Moves, Install!installVars
  <2> QED BY <2>1, <2>2
<1> QED BY <1>1, <1>2

LEMMA WhatIsCollected ==
  ASSUME InstallTypes, NEW units \in SUBSET Unit
  PROVE  /\ Install!Hash(units) \in Collected /\ OneStepEach(Install!Hash(units))
         /\ \A u \in {v \in units : declares[v].post # "none"} :
              \E x \in Install!Hash(units).post : x[1] = u
         /\ \A x \in Install!Hash(units).post : x[1] \in {v \in units : declares[v].post # "none"}
<1> DEFINE h == Install!Hash(units)
           owing == {v \in units : declares[v].post # "none"}
<1>1. h.pip = UNION {declares[u].pip : u \in units} /\ h.post = {<<u, declares[u].post>> : u \in owing}
  BY DEF Install!Hash
<1>2. \A u \in units : declares[u].pip \in SUBSET PipSpec /\ declares[u].post \in {"none", "optional", "required"}
  BY DEF InstallTypes, Install!Manifest
<1>3. h.pip \in SUBSET PipSpec
  BY <1>1, <1>2
<1>4. h.post \in SUBSET (Unit \X {"optional", "required"})
  BY <1>1, <1>2
<1>5. h \in Collected
  BY <1>3, <1>4 DEF Install!Hash, Collected
<1>6. OneStepEach(h)
  BY <1>1 DEF OneStepEach
<1>7. \A u \in owing : <<u, declares[u].post>> \in h.post /\ <<u, declares[u].post>>[1] = u
  BY <1>1
<1>8. \A x \in h.post : x[1] \in owing
  BY <1>1
<1>9. \A u \in owing : \E x \in h.post : x[1] = u
  BY <1>7
<1> QED BY <1>5, <1>6, <1>8, <1>9

LEMMA InstallGoesOn ==
  ASSUME InstallInv, Install!InstallNext PROVE InstallInv'
<1> USE DEF InstallInv
<1>1. ASSUME NEW p \in Installer, Install!Collect(p) PROVE InstallInv'
  <2> DEFINE found == Install!Hash(Install!Seen)
             owing == {u \in Install!Seen : declares[u].post # "none"}
  <2>1. Install!Seen \in SUBSET Unit
    BY DEF Install!Seen
  <2>2. /\ found \in Collected /\ OneStepEach(found)
        /\ \A u \in owing : \E x \in found.post : x[1] = u
        /\ \A x \in found.post : x[1] \in owing
    BY <2>1, WhatIsCollected
  <2>3. /\ installer' = [installer EXCEPT ![p] = [at |-> "pip", found |-> found, failed |-> FALSE, left |-> owing]]
        /\ UNCHANGED <<declares, readable, present, stepped, record>>
    BY <1>1 DEF Install!Collect
  <2>4. owing \in SUBSET Unit
    BY <2>1
  <2> HIDE DEF found, owing
  <2>5. InstallTypes'
    BY <2>2, <2>3, <2>4 DEF InstallTypes
  <2>6. ASSUME NEW q \in Installer PROVE UnderWay(q)'
    BY <2>2, <2>3 DEF InstallTypes, UnderWay
  <2> QED BY <2>3, <2>5, <2>6 DEF Settled
<1>2. ASSUME NEW p \in Installer, Install!PipInstalls(p) PROVE InstallInv'
  BY <1>2 DEF Install!PipInstalls, InstallTypes, UnderWay, Settled
<1>3. ASSUME NEW p \in Installer, Install!PipFails(p) PROVE InstallInv'
  <2>1. PICK part : present' = present \cup part
    BY <1>3 DEF Install!PipFails
  <2> QED BY <1>3, <2>1 DEF Install!PipFails, Install!Resting, InstallTypes, UnderWay, Settled
<1>4. ASSUME NEW p \in Installer, NEW u \in Unit, Install!RunPostInstall(p, u) PROVE InstallInv'
  <2> DEFINE found == installer[p].found
             steps == CHOOSE x \in found.post : x[1] = u
  <2>1. /\ installer[p].at = "post" /\ u \in installer[p].left
        /\ UNCHANGED <<declares, readable, present, record>>
    BY <1>4 DEF Install!RunPostInstall
  <2>2. OneStepEach(found) /\ \E x \in found.post : x[1] = u
    BY <2>1 DEF UnderWay
  <2>3. steps \in found.post /\ steps[1] = u /\ \A x \in found.post : x[1] = u => x = steps
    <3>1. steps \in found.post /\ steps[1] = u
      BY <2>2
    <3> QED BY <2>2, <3>1 DEF OneStepEach
  <2>4. \E bad \in BOOLEAN :
          /\ installer' = [installer EXCEPT ![p].left = @ \ {u}, ![p].failed = @ \/ bad]
          /\ \/ stepped' = stepped \cup {steps} 
             \/ stepped' = stepped /\ (steps[2] = "required" => bad)
    BY <1>4 DEF Install!RunPostInstall
  <2>5. PICK bad \in BOOLEAN :
          /\ installer' = [installer EXCEPT ![p].left = @ \ {u}, ![p].failed = @ \/ bad]
          /\ \/ stepped' = stepped \cup {steps} 
             \/ stepped' = stepped /\ (steps[2] = "required" => bad)
    BY <2>4
  <2> HIDE DEF steps
  <2>6. InstallTypes'
    <3> DEFINE failed == installer[p].failed \/ bad
    <3>1. failed \in BOOLEAN /\ installer[p].left \ {u} \in SUBSET Unit
      BY DEF InstallTypes
    <3>2. installer' = [installer EXCEPT ![p].left = @ \ {u}, ![p].failed = failed]
      BY <2>5
    <3> HIDE DEF failed
    <3> QED BY <2>1, <3>1, <3>2, ZenonT(60) DEF InstallTypes
  <2>7. ASSUME NEW q \in Installer PROVE UnderWay(q)'
    BY <2>1, <2>3, <2>5 DEF InstallTypes, UnderWay
  <2>8. (record # NoRecord => Settled(record))'
    BY <2>1, <2>5 DEF Settled
  <2> QED BY <2>6, <2>7, <2>8
<1>5. ASSUME NEW p \in Installer, Install!WriteInstallState(p) PROVE InstallInv'
  BY <1>5 DEF Install!WriteInstallState, Install!FinalState, Install!Resting, InstallTypes, UnderWay, Settled
<1>6. ASSUME NEW p \in Installer, Install!Killed(p) PROVE InstallInv'
  BY <1>6 DEF Install!Killed, Install!Resting, InstallTypes, UnderWay, Settled
<1>7. ASSUME NEW u \in Unit, NEW m \in Install!Manifest, Install!Redeclare(u, m) PROVE InstallInv'
  BY <1>7 DEF Install!Redeclare, InstallTypes, UnderWay, Settled
<1>8. CASE Install!EditConfig
  BY <1>8 DEF Install!EditConfig, InstallTypes, UnderWay, Settled
<1> QED BY <1>1, <1>2, <1>3, <1>4, <1>5, <1>6, <1>7, <1>8 DEF Install!InstallNext

LEMMA InstallStays == ServicesSpec => []InstallInv
<1>1. ServicesInit => InstallInv
  BY InstallStarts
<1>2. InstallInv /\ [ServicesNext]_servicesVars => InstallInv'
  <2>1. InstallInv /\ UNCHANGED Install!installVars => InstallInv'
    BY DEF InstallInv, Install!installVars, InstallTypes, UnderWay, Settled
  <2> QED BY <2>1, InstallMoves, InstallGoesOn
<1> QED BY <1>1, <1>2, PTL DEF ServicesSpec

\* If a start finds no dependency pending, every requirement it sees is installed
\* and every required step has succeeded, whatever was edited while pip ran and
\* wherever installers stopped.
THEOREM PendingIsNoticed == ServicesSpec => []NothingPendingIsMissing
<1>1. InstallInv => NothingPendingIsMissing
  BY DEF InstallInv, NothingPendingIsMissing, Install!NothingPendingIsMissing, Install!HasPendingDeps, Settled
<1> QED BY <1>1, InstallStays, PTL

-----------------------------------------------------------------------------
(* Engine resolution *)

EngineInv ==
  /\ site \in Engine!Sites
  /\ resolution = [outcome |-> "none"] \/ resolution = Engine!Resolve(site)

LEMMA EngineMoves ==
  ASSUME [ServicesNext]_servicesVars
  PROVE  Engine!ResolveSlot \/ UNCHANGED <<site, resolution>>
<1>1. CASE UNCHANGED servicesVars BY <1>1 DEF servicesVars, Engine!resolutionVars
<1>2. CASE ServicesNext
  <2>1. CASE EngineStep BY <2>1 DEF EngineStep
  <2>2. CASE ~ EngineStep
    BY <1>2, <2>2 DEF ServicesNext, BufferStep, ChatStep, ReloadStep, BrowserStep, McpStep,
      GraphStep, SearchStep, DecisionStep, LifeStep, EnvStep, InstallStep, LlmStep,
      FirstStep, OthersStill, Moves
  <2> QED BY <2>1, <2>2
<1> QED BY <1>1, <1>2

LEMMA DefaultIsDeclared ==
  ASSUME NEW s \in Engine!Sites, ~ Engine!Damaged(s)
  PROVE  /\ Engine!Names(s.entries) \subseteq Short
         /\ Engine!DefaultOf(s.entries) \in Engine!Names(s.entries)
<1> DEFINE es == s.entries
<1>1. \E m \in 0..2 : es \in [1..m -> Engine!Entry]
  BY DEF Engine!Sites
<1>2. /\ es # <<>>
      /\ ~ \E i, j \in DOMAIN es : i # j /\ es[i].default /\ es[j].default
      /\ ~ \E m, n \in Engine!Names(es) : m # n /\ \A e \in Engine!Range(es) : ~ e.default
  BY DEF Engine!Damaged, Engine!Malformed
<1>3. PICK m \in 0..2 : es \in [1..m -> Engine!Entry]
  BY <1>1
<1>4. m # 0
  <2>1. SUFFICES ASSUME m = 0 PROVE FALSE
    OBVIOUS
  <2>2. es \in [{} -> Engine!Entry]
    <3>1. 1..0 = {} OBVIOUS
    <3> QED BY <2>1, <3>1, <1>3
  <2>3. es = <<>>
    BY <2>2
  <2> QED BY <2>3, <1>2
<1>5. /\ DOMAIN es = 1..m /\ Engine!Range(es) = {es[k] : k \in 1..m}
      /\ Engine!Names(es) = {e.name : e \in Engine!Range(es)}
      /\ \A k \in 1..m : es[k] \in Engine!Entry
  BY <1>3 DEF Engine!Names, Engine!Range
<1>6. Engine!Names(es) \subseteq Short
  BY <1>5 DEF Engine!Entry
<1>7. \E n \in Engine!Names(es) : \A e \in Engine!Range(es) : e.default => e.name = n
  <2>1. CASE \E k \in 1..m : es[k].default
    <3>1. PICK k \in 1..m : es[k].default
      BY <2>1
    <3>2. \A e \in Engine!Range(es) : e.default => e = es[k]
      BY <3>1, <1>5, <1>2
    <3>3. es[k].name \in Engine!Names(es)
      BY <1>5
    <3> QED BY <3>2, <3>3
  <2>2. CASE \A k \in 1..m : ~ es[k].default
    <3>1. es[1].name \in Engine!Names(es)
      BY <1>4, <1>5
    <3> QED BY <3>1, <2>2, <1>5
  <2> QED BY <2>1, <2>2
<1>8. Engine!DefaultOf(es) \in Engine!Names(es)
  BY <1>7 DEF Engine!DefaultOf
<1> QED BY <1>6, <1>8

\* A name that is declared has a last entry.
LEMMA LastOfName ==
  ASSUME NEW s \in Engine!Sites
  PROVE  /\ \A k \in DOMAIN s.entries :
              s.entries[k].name \in Short /\ s.entries[k].factory \in Engine!Factory
         /\ \A n \in Engine!Names(s.entries) :
              \E k \in DOMAIN s.entries :
                s.entries[k].name = n /\ \A j \in DOMAIN s.entries : j > k => s.entries[j].name # n
<1> DEFINE es == s.entries
<1>1. PICK m \in 0..2 : es \in [1..m -> Engine!Entry]
  BY DEF Engine!Sites
<1>2. /\ DOMAIN es = 1..m
      /\ \A k \in 1..m : es[k].name \in Short /\ es[k].factory \in Engine!Factory
  BY <1>1 DEF Engine!Entry
<1>3. ASSUME NEW n \in Engine!Names(es)
      PROVE  \E k \in 1..m : es[k].name = n /\ \A j \in 1..m : j > k => es[j].name # n
  <2>1. PICK i \in 1..m : es[i].name = n
    BY <1>2 DEF Engine!Names, Engine!Range
  <2>2. CASE \E j \in 1..m : j > i /\ es[j].name = n
    BY <2>2
  <2>3. CASE ~ \E j \in 1..m : j > i /\ es[j].name = n
    BY <2>1, <2>3
  <2> QED BY <2>2, <2>3
<1> QED BY <1>2, <1>3

LEMMA EngineStays == ServicesSpec => []EngineInv
<1>1. ServicesInit => EngineInv
  BY DEF ServicesInit, Engine!Init, EngineInv
<1>2. EngineInv /\ [ServicesNext]_servicesVars => EngineInv'
  <2>1. EngineInv /\ UNCHANGED <<site, resolution>> => EngineInv'
    BY DEF EngineInv
  <2>2. EngineInv /\ Engine!ResolveSlot => EngineInv'
    BY DEF EngineInv, Engine!ResolveSlot
  <2> QED BY <2>1, <2>2, EngineMoves
<1> QED BY <1>1, <1>2, PTL DEF ServicesSpec

\* A catalogued class serves, gives way to the emergency one, or raises.
LEMMA BuiltinCases ==
  ASSUME NEW s, NEW name, name # "fallback"
  PROVE  /\ Engine!Serves(s, name) => Engine!BuiltinClass(s, name) = name
         /\ (~ Engine!Serves(s, name) /\ Engine!LeadsTo(s.entries, name, {"nowhere"}))
              => Engine!BuiltinClass(s, name) = Engine!Emergency(s)
         /\ (~ Engine!Serves(s, name) /\ ~ Engine!LeadsTo(s.entries, name, {"nowhere"}))
              => Engine!BuiltinClass(s, name) = "none"
BY DEF Engine!BuiltinClass

\* What can be had is what a slot gets, and a slot of the emergency table stays
\* without an engine only where meta.yaml cannot be read or decoded, the in-tree class
\* does not serve, the entry asked for fails otherwise than by an ImportError, or the
\* outside class does not serve; for any sets of names.
THEOREM DamageIsSurvived == ServicesSpec => []DamageDegrades
<1>1. EngineInv => DamageDegrades
  <2> SUFFICES ASSUME EngineInv, resolution.outcome # "none"
               PROVE  /\ Engine!CanBeHad(site) => /\ resolution.outcome = "built"
                                                  /\ resolution.class = Engine!Wanted(site)
                      /\ resolution.outcome = "built" =>
                           resolution.class \in {"fallback", Engine!Wanted(site)}
                      /\ (resolution.outcome = "raised" /\ site.table) =>
                           \/ Engine!ByCatalog(site) /\ site.file = "undecodable"
                           \/ ~ site.home
                           \/ /\ ~ Engine!Damaged(site)
                              /\ Engine!LeadsTo(site.entries, Engine!Wanted(site), {"broken"})
                           \/ site.override \in Engine!Outside /\ ~ site.conforms
    BY DEF DamageDegrades, Engine!DamageDegrades
  <2> DEFINE s == site
             w == Engine!Wanted(s)
             class == Engine!ClassFor(s, w)
             unread == Engine!ByCatalog(s) /\ s.file = "undecodable"
             bare == Engine!ByCatalog(s) /\ Engine!Damaged(s) /\ ~ s.table
             outside == class \in Engine!Outside /\ ~ s.conforms
  <2>1. s \in Engine!Sites /\ resolution = Engine!Resolve(s)
    BY DEF EngineInv
  <2>2. /\ s.override \in Short \cup Plugged \cup {"module:Class", "misspelt", ""}
        /\ s.table \in BOOLEAN /\ s.home \in BOOLEAN /\ s.conforms \in BOOLEAN
    BY <2>1 DEF Engine!Sites, Engine!Override
  <2>3. /\ Engine!Damaged(s) => Engine!Catalog(s).default = "fallback" /\ Engine!Catalog(s).names = {"fallback"}
        /\ ~ Engine!Damaged(s) => /\ Engine!Catalog(s).names = Engine!Names(s.entries)
                                  /\ Engine!Names(s.entries) \subseteq Short
                                  /\ Engine!Catalog(s).default \in Engine!Names(s.entries)
    BY <2>1, DefaultIsDeclared DEF Engine!Catalog
  <2>4. /\ s.override = "" => w = Engine!Catalog(s).default
        /\ s.override # "" => w = s.override
    BY DEF Engine!Wanted
  <2>5. w \in Short \cup Plugged \cup {"module:Class", "misspelt", "fallback"}
    BY <2>2, <2>3, <2>4
  <2>6. /\ w \in Engine!Outside <=> s.override \in Engine!Outside
        /\ Engine!ByCatalog(s) <=> w # "module:Class"
    BY <2>2, <2>3, <2>4, NamesAreDistinct DEF Engine!Outside, Engine!ByCatalog
  <2>7. /\ w = "module:Class" => class = w
        /\ w \in Plugged => class = w
        /\ (w \notin Engine!Outside /\ w \in Engine!Catalog(s).names) => class = Engine!BuiltinClass(s, w)
        /\ (w \notin Engine!Outside /\ w \notin Engine!Catalog(s).names) => class = Engine!Emergency(s)
    <3>1. w \in Engine!Catalog(s).names => w \in Short \cup {"fallback"}
      BY <2>3
    <3>2. w \in Plugged => w # "module:Class" /\ w \notin Short \cup {"fallback"}
      BY NamesAreDistinct
    <3>3. class = CASE w = "module:Class" -> w
                    [] w \in Engine!Catalog(s).names -> Engine!BuiltinClass(s, w)
                    [] w \in Plugged -> w
                    [] OTHER -> Engine!Emergency(s)
      BY DEF Engine!ClassFor
    <3>4. "module:Class" \notin Engine!Catalog(s).names
      <4>1. "module:Class" \notin Short
        BY NamesAreDistinct
      <4> QED BY <2>3, <4>1
    <3> HIDE DEF w, class
    <3>5. w = "module:Class" => class = w
      BY <3>2, <3>3, <3>4
    <3>6. w \in Plugged => class = w
      BY <3>1, <3>2, <3>3
    <3>7. (w \notin Engine!Outside /\ w \in Engine!Catalog(s).names) => class = Engine!BuiltinClass(s, w)
      BY <3>3 DEF Engine!Outside
    <3>8. (w \notin Engine!Outside /\ w \notin Engine!Catalog(s).names) => class = Engine!Emergency(s)
      BY <3>3 DEF Engine!Outside
    <3> QED BY <3>5, <3>6, <3>7, <3>8
  <2>8. /\ w # "none" /\ Engine!Emergency(s) \in {"fallback", "none"}
        /\ "fallback" \notin Engine!Outside /\ "none" \notin Engine!Outside
    <3>1. w # "none"
      BY <2>5, NamesAreDistinct
    <3>2. Engine!Emergency(s) \in {"fallback", "none"}
      BY DEF Engine!Emergency
    <3>3. "fallback" \notin Engine!Outside /\ "none" \notin Engine!Outside
      BY NamesAreDistinct DEF Engine!Outside
    <3> QED BY <3>1, <3>2, <3>3
  <2>9. Engine!Resolve(s) =
           CASE unread -> Engine!Raised("undecoded")
             [] bare -> Engine!Raised("uncatalogued")
             [] class = "none" -> Engine!Raised("unusable")
             [] outside -> Engine!Raised("unfit")
             [] OTHER -> [outcome |-> "built", class |-> class, settings |-> Engine!SettingsFor(s, w)]
    BY DEF Engine!Resolve
  <2>w. w = Engine!Wanted(s)
    OBVIOUS
  <2> HIDE DEF w, class
  <2>10. (~ Engine!Damaged(s) /\ w \notin Engine!Outside /\ w \in Engine!Catalog(s).names) =>
          /\ Engine!Serves(s, w) => class = w
          /\ (~ Engine!Serves(s, w) /\ Engine!LeadsTo(s.entries, w, {"nowhere"})) => class = Engine!Emergency(s)
          /\ (~ Engine!Serves(s, w) /\ ~ Engine!LeadsTo(s.entries, w, {"nowhere"})) => class = "none"
    <3>1. SUFFICES ASSUME ~ Engine!Damaged(s), w \notin Engine!Outside, w \in Engine!Catalog(s).names
                   PROVE  /\ Engine!Serves(s, w) => class = w
                          /\ (~ Engine!Serves(s, w) /\ Engine!LeadsTo(s.entries, w, {"nowhere"}))
                               => class = Engine!Emergency(s)
                          /\ (~ Engine!Serves(s, w) /\ ~ Engine!LeadsTo(s.entries, w, {"nowhere"}))
                               => class = "none"
      OBVIOUS
    <3>2. w # "fallback"
      <4>1. "fallback" \notin Short BY NamesAreDistinct
      <4>2. w \in Short BY <2>3, <3>1
      <4> QED BY <4>1, <4>2
    <3>3. class = Engine!BuiltinClass(s, w)
      BY <2>7, <3>1
    <3> QED BY <3>2, <3>3, BuiltinCases
  <2>11. (Engine!Damaged(s) /\ w \notin Engine!Outside) => class = Engine!Emergency(s)
    <3>1. SUFFICES ASSUME Engine!Damaged(s), w \notin Engine!Outside PROVE class = Engine!Emergency(s)
      OBVIOUS
    <3>2. Engine!BuiltinClass(s, "fallback") = Engine!Emergency(s)
      <4>1. ~ Engine!Serves(s, "fallback")
        <5>1. \A k \in DOMAIN s.entries : s.entries[k].name # "fallback"
          <6>1. \A k \in DOMAIN s.entries : s.entries[k].name \in Short
            BY <2>1, LastOfName
          <6> QED BY <6>1, NamesAreDistinct
        <5> QED BY <5>1 DEF Engine!Serves, Engine!LeadsTo
      <4> QED BY <4>1 DEF Engine!BuiltinClass
    <3>3. CASE w = "fallback"
      <4>1. w \in Engine!Catalog(s).names
        <5>1. Engine!Catalog(s).names = {"fallback"} BY <2>3, <3>1
        <5> QED BY <3>3, <5>1
      <4>2. class = Engine!BuiltinClass(s, w) BY <2>7, <3>1, <4>1
      <4> QED BY <3>2, <3>3, <4>2
    <3>4. CASE w # "fallback"
      <4>1. w \notin Engine!Catalog(s).names BY <2>3, <3>1, <3>4
      <4> QED BY <2>7, <3>1, <4>1
    <3> QED BY <3>3, <3>4
  <2>12. class \in {w, "fallback", "none"}
    <3>1. CASE w \in Engine!Outside BY <2>7, <3>1 DEF Engine!Outside
    <3>2. CASE w \notin Engine!Outside BY <2>7, <2>8, <2>10, <2>11, <3>2
    <3> QED BY <3>1, <3>2
  <2>13. /\ (unread \/ bare \/ class = "none" \/ outside) => resolution.outcome = "raised"
         /\ ~ (unread \/ bare \/ class = "none" \/ outside) =>
              resolution.outcome = "built" /\ resolution.class = class
    <3> HIDE DEF unread, bare, class, outside, w
    <3>1. \A what : Engine!Raised(what).outcome = "raised"
      BY DEF Engine!Raised
    <3> QED BY <2>1, <2>9, <3>1
  <2>14. Engine!CanBeHad(s) => ~ (unread \/ bare \/ class = "none" \/ outside) /\ class = w
    <3>1. CASE s.override = "module:Class" /\ s.conforms
      BY <2>4, <2>6, <2>7, <2>8, <3>1 DEF Engine!Outside
    <3>2. CASE s.override \in Plugged /\ s.conforms /\ s.file # "undecodable" /\ (Engine!Damaged(s) => s.table)
      <4>1. w \in Plugged /\ w # ""
        BY <2>4, <3>2, NamesAreDistinct
      <4> QED BY <2>7, <2>8, <3>2, <4>1
    <3>3. CASE ~ Engine!Damaged(s) /\ Engine!Serves(s, w)
      <4>1. w \in Engine!Names(s.entries)
        <5>1. PICK k \in DOMAIN s.entries : s.entries[k].name = w
          BY <3>3 DEF Engine!Serves, Engine!LeadsTo
        <5> QED BY <5>1 DEF Engine!Names, Engine!Range
      <4>2. w \notin Engine!Outside /\ w \in Engine!Catalog(s).names
        BY <2>3, <3>3, <4>1, NamesAreDistinct DEF Engine!Outside
      <4>3. class = w
        BY <2>10, <3>3, <4>2
      <4>4. s.file # "undecodable"
        BY <3>3 DEF Engine!Damaged
      <4> QED BY <2>8, <3>3, <4>2, <4>3, <4>4
    <3> QED BY <2>w, <3>1, <3>2, <3>3 DEF Engine!CanBeHad
  <2>15. (s.table /\ s.home) => Engine!Emergency(s) = "fallback"
    BY DEF Engine!Emergency
  <2>16. (s.table /\ s.home /\ ~ Engine!Damaged(s) /\ w \notin Engine!Outside /\ class = "none") =>
           Engine!LeadsTo(s.entries, w, {"broken"})
    <3> SUFFICES ASSUME s.table, s.home, ~ Engine!Damaged(s), w \notin Engine!Outside, class = "none"
                 PROVE  Engine!LeadsTo(s.entries, w, {"broken"})
      OBVIOUS
    <3>1. w \in Engine!Names(s.entries)
      BY <2>3, <2>7, <2>15
    <3>2. ~ Engine!Serves(s, w) /\ ~ Engine!LeadsTo(s.entries, w, {"nowhere"})
      BY <2>3, <2>8, <2>10, <2>15, <3>1
    <3>3. \E k \in DOMAIN s.entries : s.entries[k].name = w /\ \A j \in DOMAIN s.entries : j > k => s.entries[j].name # w
      BY <2>1, <3>1, LastOfName
    <3>4. PICK k \in DOMAIN s.entries : s.entries[k].name = w /\ \A j \in DOMAIN s.entries : j > k => s.entries[j].name # w
      BY <3>3
    <3>5. s.entries[k].factory \notin {"home", "other", "nowhere"}
      BY <3>2, <3>4 DEF Engine!Serves, Engine!LeadsTo
    <3>6. s.entries[k].factory # "unnamed"
      BY <3>4 DEF Engine!Damaged, Engine!Malformed, Engine!Range
    <3>7. s.entries[k].factory \in Engine!Factory
      BY <2>1, <3>4, LastOfName
    <3> QED BY <3>4, <3>5, <3>6, <3>7 DEF Engine!LeadsTo, Engine!Factory
  <2>17. (resolution.outcome = "raised" /\ s.table) =>
           \/ unread
           \/ ~ s.home
           \/ ~ Engine!Damaged(s) /\ Engine!LeadsTo(s.entries, w, {"broken"})
           \/ s.override \in Engine!Outside /\ ~ s.conforms
    <3> SUFFICES ASSUME resolution.outcome = "raised", s.table, ~ unread, s.home
                 PROVE  \/ ~ Engine!Damaged(s) /\ Engine!LeadsTo(s.entries, w, {"broken"})
                        \/ s.override \in Engine!Outside /\ ~ s.conforms
      OBVIOUS
    <3>1. class = "none" \/ outside
      BY <2>13
    <3>2. CASE outside
      BY <2>6, <2>8, <2>12, <3>2
    <3>3. CASE class = "none" /\ Engine!Damaged(s)
      BY <2>7, <2>8, <2>11, <2>15, <3>3 DEF Engine!Outside
    <3>4. CASE class = "none" /\ ~ Engine!Damaged(s)
      BY <2>7, <2>8, <2>16, <3>4 DEF Engine!Outside
    <3> QED BY <3>1, <3>2, <3>3, <3>4
  <2>18. resolution.outcome = "built" => resolution.class \in {"fallback", w}
    BY <2>12, <2>13
  <2> QED BY <2>w, <2>13, <2>14, <2>17, <2>18
<1> QED BY <1>1, EngineStays, PTL

-----------------------------------------------------------------------------
(* Environments *)

ExecStates == {"new", "local", "killed", "posted", "overdue", "cut", "done"}
Answers ==
  {"nothing", "refused", "denied", "error", "exited", "overran", "timeout", "unavailable"}

\* One command: where its call is, its process, what that started, what Self was told.
CommandOK(pc, process_, heirs_, told_) ==
  /\ pc \in ExecStates /\ process_ \in {"none", "running", "ended"}
  /\ heirs_ \in {"none", "attached", "detached", "ended"} /\ told_ \in Answers
  /\ pc # "done" => told_ = "nothing"
  /\ process_ = "none" => heirs_ = "none"
  /\ pc = "new" => process_ = "none"
  /\ pc \in {"local", "posted", "overdue", "cut"} => process_ # "none"
  /\ pc \in {"killed", "overdue"} => process_ = "ended"
  /\ told_ \in {"refused", "denied"} => process_ = "none"
  /\ told_ \in {"exited", "timeout"} => process_ = "ended" /\ heirs_ # "attached"
  /\ told_ = "overran" => process_ = "ended"

EnvInv ==
  /\ exec \in [ShellCommand -> ExecStates] /\ child \in [ShellCommand -> {"none", "running", "ended"}]
  /\ heirs \in [ShellCommand -> {"none", "attached", "detached", "ended"}]
  /\ said \in [ShellCommand -> Answers]
  /\ \A c \in ShellCommand : CommandOK(exec[c], child[c], heirs[c], said[c])
  /\ phase = "composed" => envStatus # "ok"
  /\ phase = "running" /\ section # "absent" /\ "sandbox" \in AllowList
       => ("sandbox" \in registered <=> envStatus = "ok")

LEMMA EnvMoves ==
  ASSUME [ServicesNext]_servicesVars
  PROVE  Env!EnvNext \/ UNCHANGED Env!envVars
<1>1. CASE UNCHANGED servicesVars BY <1>1 DEF servicesVars
<1>2. CASE ServicesNext
  <2>1. CASE EnvStep BY <2>1 DEF EnvStep
  <2>2. CASE ~ EnvStep
    BY <1>2, <2>2 DEF ServicesNext, BufferStep, ChatStep, ReloadStep, BrowserStep, McpStep,
      GraphStep, SearchStep, DecisionStep, LifeStep, FirstStep, EngineStep, InstallStep,
      LlmStep, OthersStill, Moves, Env!envVars, Env!processes, Env!host
  <2> QED BY <2>1, <2>2
<1> QED BY <1>1, <1>2

\* What a call does to its own command's four entries, and to nothing else.
Moved(c, pc, process_, heirs_, told_) ==
  /\ exec' = [exec EXCEPT ![c] = pc] /\ child' = [child EXCEPT ![c] = process_]
  /\ heirs' = [heirs EXCEPT ![c] = heirs_] /\ said' = [said EXCEPT ![c] = told_]
  /\ UNCHANGED Env!host

LEMMA CommandGoesOn ==
  ASSUME EnvInv, NEW c \in ShellCommand, Env!Call(c) PROVE EnvInv'
<1> USE DEF EnvInv
<1>1. ASSUME NEW pc, NEW process_, NEW heirs_, NEW told_,
             Moved(c, pc, process_, heirs_, told_), CommandOK(pc, process_, heirs_, told_)
      PROVE  EnvInv'
  <2>1. /\ UNCHANGED <<phase, section, registered, envStatus>>
        /\ exec' = [exec EXCEPT ![c] = pc] /\ child' = [child EXCEPT ![c] = process_]
        /\ heirs' = [heirs EXCEPT ![c] = heirs_] /\ said' = [said EXCEPT ![c] = told_]
    BY <1>1 DEF Moved, Env!host
  <2>2. /\ pc \in ExecStates /\ process_ \in {"none", "running", "ended"}
        /\ heirs_ \in {"none", "attached", "detached", "ended"} /\ told_ \in Answers
    BY <1>1 DEF CommandOK
  <2>3. /\ exec' \in [ShellCommand -> ExecStates]
        /\ child' \in [ShellCommand -> {"none", "running", "ended"}]
        /\ heirs' \in [ShellCommand -> {"none", "attached", "detached", "ended"}]
        /\ said' \in [ShellCommand -> Answers]
    BY <2>1, <2>2
  <2>4. ASSUME NEW d \in ShellCommand PROVE CommandOK(exec'[d], child'[d], heirs'[d], said'[d])
    BY <1>1, <2>1
  <2> QED BY <2>1, <2>3, <2>4
<1>2. \E pc, process_, heirs_, told_ :
        Moved(c, pc, process_, heirs_, told_) /\ CommandOK(pc, process_, heirs_, told_)
  <2> DEFINE Done(pc, process_, heirs_, told_) ==
               Moved(c, pc, process_, heirs_, told_) /\ CommandOK(pc, process_, heirs_, told_)
  <2>0. /\ CommandOK(exec[c], child[c], heirs[c], said[c])
        /\ exec = [exec EXCEPT ![c] = exec[c]] /\ child = [child EXCEPT ![c] = child[c]]
        /\ heirs = [heirs EXCEPT ![c] = heirs[c]] /\ said = [said EXCEPT ![c] = said[c]]
    OBVIOUS
  <2> USE DEF Moved, CommandOK, ExecStates, Answers, Env!host, Env!processes, Env!At, Env!Goto,
              Env!Tell, Env!AllRead, Env!Spawned, Env!Killed
  <2>1. CASE Env!Refuse(c)
    <3>1. Done("done", child[c], heirs[c], "refused") BY <2>0, <2>1 DEF Env!Refuse
    <3> QED BY <3>1
  <2>2. CASE Env!Deny(c)
    <3>1. Done("done", child[c], heirs[c], "denied") BY <2>0, <2>2 DEF Env!Deny
    <3> QED BY <3>1
  <2>3. CASE Env!RunLocal(c)
    <3>1. Done("local", "running", heirs[c], said[c]) BY <2>0, <2>3 DEF Env!RunLocal
    <3> QED BY <3>1
  <2>4. CASE Env!CannotRun(c)
    <3>1. CASE UNCHANGED <<child, heirs>>
      <4>1. Done("done", child[c], heirs[c], "error") BY <2>0, <2>4, <3>1 DEF Env!CannotRun
      <4> QED BY <4>1
    <3>2. CASE Env!Spawned(c)
      <4>1. Done("done", "running", heirs[c], "error") BY <2>0, <2>4, <3>2 DEF Env!CannotRun
      <4> QED BY <4>1
    <3> QED BY <2>4, <3>1, <3>2 DEF Env!CannotRun
  <2>5. CASE Env!CommandEnds(c)
    <3>1. Done(exec[c], "ended", heirs[c], said[c]) BY <2>0, <2>5 DEF Env!CommandEnds
    <3> QED BY <3>1
  <2>6. CASE Env!HeirsMove(c)
    <3>1. PICK to \in {"attached", "detached", "ended"} :
            /\ CASE heirs[c] = "none" -> child[c] = "running" /\ to # "ended"
                 [] heirs[c] = "attached" -> to # "attached"
                 [] heirs[c] = "detached" -> to = "ended"
                 [] heirs[c] = "ended" -> FALSE
            /\ heirs' = [heirs EXCEPT ![c] = to] /\ UNCHANGED <<Env!host, guest, exec, child, said>>
      BY <2>6 DEF Env!HeirsMove
    <3>2. child[c] # "none" /\ (to = "attached" => child[c] = "running")
      BY <2>0, <3>1
    <3>3. Done(exec[c], child[c], to, said[c])
      BY <2>0, <3>1, <3>2
    <3> QED BY <3>3
  <2>7. CASE Env!LocalOutput(c)
    <3>1. Done("done", child[c], heirs[c], "exited") BY <2>0, <2>7 DEF Env!LocalOutput
    <3> QED BY <3>1
  <2>8. CASE Env!LocalTimeout(c)
    <3>1. Done("killed", "ended", heirs[c], said[c]) BY <2>0, <2>8 DEF Env!LocalTimeout
    <3> QED BY <3>1
  <2>9. CASE Env!KillTooLate(c)
    <3>1. Done("done", child[c], heirs[c], "error") BY <2>0, <2>9 DEF Env!KillTooLate
    <3> QED BY <3>1
  <2>10. CASE Env!LocalTimedOut(c)
    <3>1. Done("done", child[c], heirs[c], "timeout") BY <2>0, <2>10 DEF Env!LocalTimedOut
    <3> QED BY <3>1
  <2>11. CASE Env!PostExec(c)
    <3>1. Done("posted", "running", heirs[c], said[c]) BY <2>0, <2>11 DEF Env!PostExec
    <3> QED BY <3>1
  <2>12. CASE Env!GuestTimeout(c)
    <3>1. Done("overdue", "ended", heirs[c], said[c]) BY <2>0, <2>12 DEF Env!GuestTimeout
    <3> QED BY <3>1
  <2>13. CASE Env!GuestReply(c)
    <3>1. CASE exec[c] = "posted"
      <4>1. Done("done", child[c], heirs[c], "exited") BY <2>0, <2>13, <3>1 DEF Env!GuestReply
      <4> QED BY <4>1
    <3>2. CASE exec[c] = "overdue"
      <4>1. Done("done", child[c], heirs[c], "overran") BY <2>0, <2>13, <3>2 DEF Env!GuestReply
      <4> QED BY <4>1
    <3> QED BY <2>13, <3>1, <3>2 DEF Env!GuestReply
  <2>14. CASE Env!Unavailable(c)
    <3>1. Done("done", child[c], heirs[c], "unavailable") BY <2>0, <2>14 DEF Env!Unavailable
    <3> QED BY <3>1
  <2> QED BY <2>1, <2>2, <2>3, <2>4, <2>5, <2>6, <2>7, <2>8, <2>9, <2>10, <2>11, <2>12, <2>13,
             <2>14 DEF Env!Call
<1> QED BY <1>1, <1>2

LEMMA EnvGoesOn == ASSUME EnvInv, Env!EnvNext PROVE EnvInv'
<1> USE DEF EnvInv, Env!processes
<1>0. \A c \in ShellCommand :
        CommandOK(exec[c], child[c], heirs[c], said[c]) =>
          /\ CommandOK(IF exec[c] = "new" THEN "new" ELSE "done", child[c], heirs[c], said[c])
          /\ CommandOK(IF exec[c] \in {"posted", "overdue"} THEN "cut" ELSE exec[c],
                       child[c], heirs[c], said[c])
  BY DEF CommandOK, ExecStates
<1>1. CASE Env!Compose
  BY <1>1 DEF Env!Compose
<1>2. CASE Env!Preflight
  BY <1>2 DEF Env!Preflight
<1>3. CASE Env!Stop
  <2>1. /\ exec' = [c \in ShellCommand |-> IF exec[c] = "new" THEN "new" ELSE "done"]
        /\ UNCHANGED <<child, heirs, said>> /\ phase' = "stopped"
    BY <1>3 DEF Env!Stop
  <2>2. exec' \in [ShellCommand -> ExecStates]
    BY <2>1 DEF ExecStates
  <2>3. \A c \in ShellCommand : CommandOK(exec'[c], child'[c], heirs'[c], said'[c])
    BY <1>0, <2>1
  <2> QED BY <2>1, <2>2, <2>3
<1>4. CASE Env!Provision
  BY <1>4 DEF Env!Provision, Env!host
<1>5. CASE Env!GuestDown
  <2>1. /\ exec' = [c \in ShellCommand |-> IF exec[c] \in {"posted", "overdue"} THEN "cut" ELSE exec[c]]
        /\ UNCHANGED <<child, heirs, said, phase, section, registered, envStatus>>
    BY <1>5 DEF Env!GuestDown, Env!host
  <2>2. exec' \in [ShellCommand -> ExecStates]
    BY <2>1 DEF ExecStates
  <2>3. \A c \in ShellCommand : CommandOK(exec'[c], child'[c], heirs'[c], said'[c])
    BY <1>0, <2>1
  <2> QED BY <2>1, <2>2, <2>3
<1>6. CASE \E c \in ShellCommand : Env!Call(c)
  BY <1>6, CommandGoesOn
<1> QED BY <1>1, <1>2, <1>3, <1>4, <1>5, <1>6 DEF Env!EnvNext

LEMMA EnvStays == ServicesSpec => []EnvInv
<1>1. ServicesInit => EnvInv
  BY DEF ServicesInit, Env!Init, EnvInv, CommandOK, ExecStates, Answers
<1>2. EnvInv /\ [ServicesNext]_servicesVars => EnvInv'
  <2>1. EnvInv /\ UNCHANGED Env!envVars => EnvInv'
    BY DEF EnvInv, Env!envVars, Env!processes, Env!host
  <2> QED BY <2>1, EnvMoves, EnvGoesOn
<1> QED BY <1>1, <1>2, PTL DEF ServicesSpec

\* A command that was denied or refused never ran; one with an exit code, or a host's
\* timeout, has ended with everything that held its pipes, one with a guest's timeout
\* has itself ended; and a sandbox that is configured, allowed and not registered has a
\* status that says why.  For any number of commands and starts.
THEOREM RetriesAreInformed == ServicesSpec => []RetryIsInformed
<1>1. EnvInv => RetryIsInformed
  BY DEF EnvInv, CommandOK, RetryIsInformed, Env!RetryIsInformed, Env!AllRead
<1> QED BY <1>1, EnvStays, PTL

-----------------------------------------------------------------------------
(* The files of a first boot *)

File == [listed : BOOLEAN, from : SUBSET Nat]

BootInv ==
  /\ written \in Nat /\ second \in Nat /\ central \in File /\ form \in File
  /\ \A b \in backups : b.second \in Nat /\ b.second <= second /\ b.content \in File
  /\ boot = "removing" => alive = "up" /\ held \in File
  /\ boot = "removing" /\ ~ overtaken => held = central

LEMMA BootMoves ==
  ASSUME [ServicesNext]_servicesVars
  PROVE  First!BootNext \/ UNCHANGED First!bootVars
<1>1. CASE UNCHANGED servicesVars BY <1>1 DEF servicesVars
<1>2. CASE ServicesNext
  <2>1. CASE FirstStep BY <2>1 DEF FirstStep
  <2>2. CASE ~ FirstStep
    BY <1>2, <2>2 DEF ServicesNext, BufferStep, ChatStep, ReloadStep, BrowserStep, McpStep,
      GraphStep, SearchStep, DecisionStep, LifeStep, EnvStep, EngineStep, InstallStep,
      LlmStep, OthersStill, Moves, First!bootVars
  <2> QED BY <2>1, <2>2
<1> QED BY <1>1, <1>2

\* The module's own instance of the standard one counts alike.
LEMMA SameFiles ==
  /\ \A S : First!Cardinality(S) = Cardinality(S)
  /\ \A S : First!IsFiniteSet(S) = IsFiniteSet(S)
BY DEF First!Cardinality, Cardinality, First!IsFiniteSet, IsFiniteSet

\* None of the backups is newer than the one just made, so it is kept.
LEMMA BackupMade ==
  ASSUME BootInv
  PROVE  /\ \E b \in First!BackedUp : b.content = central
         /\ \A b \in First!BackedUp : b.second \in Nat /\ b.second <= second /\ b.content \in File
<1> DEFINE now == [second |-> second, content |-> central]
           all == {b \in backups : b.second # second} \cup {now}
           newer(b) == {c \in all : c.second > b.second}
<1>1. First!BackedUp = {b \in all : Cardinality(newer(b)) < KeepLast}
  BY SameFiles DEF First!BackedUp
<1>2. \A b \in all : b.second \in Nat /\ b.second <= second /\ b.content \in File
  BY DEF BootInv
<1>3. now \in all /\ now.second = second /\ now.content = central /\ second \in Nat
  BY DEF BootInv
<1>4. newer(now) = {}
  <2> HIDE DEF all, now
  <2> QED BY <1>2, <1>3
<1>5. Cardinality(newer(now)) < KeepLast
  <2>1. Cardinality(newer(now)) = 0
    BY <1>4, FS_EmptySet
  <2> HIDE DEF newer
  <2> QED BY <2>1, BoundsAssumption
<1> HIDE DEF all, now, newer
<1> QED BY <1>1, <1>2, <1>3, <1>5

\* Whatever rewrites the file after a backup takes nothing for good.
LEMMA FileRewritten ==
  ASSUME BootInv, NEW content \in File, First!Rewritten(content),
         UNCHANGED <<second, alive, boot, held>>, form' \in File
  PROVE  BootInv' /\ \E b \in backups' : b.content = central
<1>1. /\ written' = written + 1 /\ backups' = First!BackedUp /\ central' = content
      /\ overtaken' = (overtaken \/ boot = "removing")
  BY DEF First!Rewritten
<1>2. boot' = "removing" => overtaken'
  BY <1>1
<1>3. written' \in Nat
  BY <1>1 DEF BootInv
<1>4. \A b \in backups' : b.second \in Nat /\ b.second <= second /\ b.content \in File
  BY <1>1, BackupMade
<1>5. BootInv'
  BY <1>1, <1>2, <1>3, <1>4 DEF BootInv
<1> QED BY <1>1, <1>5, BackupMade

Revertible ==
  alive # "down" /\ First!Loses =>
    \/ \E b \in backups' : b.content = central
    \/ boot = "removing" /\ (overtaken \/ alive' = "down")

LEMMA BootGoesOn ==
  ASSUME BootInv, First!BootNext PROVE BootInv' /\ Revertible
<1>0. central.from \subseteq central.from /\ written + 1 \in Nat
  BY DEF BootInv
<1>1. CASE First!OpenSettings
  BY <1>1, <1>0 DEF First!OpenSettings, First!Loses, Revertible, BootInv
<1>2. CASE First!SaveSettings
  <2>1. PICK box \in BOOLEAN :
          /\ form' = [listed |-> box, from |-> form.from \cup {written + 1}]
          /\ First!Rewritten(form')
    BY <1>2 DEF First!SaveSettings
  <2>2. form' \in File
    <3>1. form.from \in SUBSET Nat
      BY DEF BootInv, File
    <3> QED BY <2>1, <3>1, <1>0 DEF File
  <2>3. UNCHANGED <<second, alive, boot, held>>
    BY <1>2 DEF First!SaveSettings
  <2> QED BY <2>1, <2>2, <2>3, FileRewritten DEF Revertible
<1>3. CASE First!Onboard
  <2>1. PICK box \in BOOLEAN : First!Rewritten([listed |-> box, from |-> {written + 1}])
    BY <1>3 DEF First!Onboard
  <2>2. [listed |-> box, from |-> {written + 1}] \in File
    BY <1>0 DEF File
  <2>3. UNCHANGED <<form, second, alive, boot, held>>
    BY <1>3 DEF First!Onboard
  <2>4. form' \in File
    BY <2>3 DEF BootInv
  <2> QED BY <2>1, <2>2, <2>3, <2>4, FileRewritten DEF Revertible
<1>4. CASE First!Restore
  BY <1>4 DEF First!Restore, Revertible, BootInv
<1>5. CASE First!Tick
  BY <1>5, <1>0 DEF First!Tick, First!Loses, Revertible, BootInv
<1>6. CASE First!Start
  <2>1. BootInv'
    BY <1>6, BackupMade DEF First!Start, BootInv
  <2>2. alive = "down"
    BY <1>6 DEF First!Start
  <2> QED BY <2>1, <2>2 DEF Revertible
<1>7. CASE First!Exit \/ First!TornModel
  <2>1. /\ UNCHANGED <<central, form, written, backups, second>>
        /\ alive' = "down" /\ boot' = "none"
    BY <1>7 DEF First!Exit, First!TornModel, First!Down, First!files
  <2>2. BootInv'
    BY <2>1 DEF BootInv
  <2> QED BY <2>1, <2>2, <1>0 DEF First!Loses, Revertible
<1>8. CASE First!TornConfig
  <2>1. /\ central' = First!Blank /\ alive' = "down" /\ boot' = "none"
        /\ UNCHANGED <<form, written, second>>
    BY <1>8 DEF First!TornConfig, First!Down
  <2>2. First!Blank \in File
    BY DEF First!Blank, File
  <2>3. (boot = "removing" /\ backups' = backups) \/ backups' = First!BackedUp
    BY <1>8 DEF First!TornConfig
  <2>4. BootInv'
    BY <2>1, <2>2, <2>3, BackupMade DEF BootInv
  <2>5. Revertible
    BY <2>1, <2>3, BackupMade DEF Revertible
  <2> QED BY <2>4, <2>5
<1>9. CASE First!NoteUnfinished \/ First!CompletionFails
  BY <1>9, <1>0 DEF First!NoteUnfinished, First!CompletionFails, First!files, First!Loses,
    Revertible, BootInv
<1>10. CASE First!Complete
  BY <1>10, <1>0 DEF First!Complete, First!files, First!Loses, Revertible, BootInv
<1>11. CASE First!Removes
  <2>1. /\ boot = "removing" /\ boot' = "done" /\ central' \in {First!Removed, central}
        /\ UNCHANGED <<form, written, backups, second, alive>>
    BY <1>11 DEF First!Removes
  <2>2. First!Removed \in File /\ (~ overtaken => First!Removed.from = central.from)
    BY <2>1 DEF First!Removed, BootInv, File
  <2>3. BootInv'
    BY <2>1, <2>2 DEF BootInv
  <2>4. Revertible
    BY <2>1, <2>2 DEF Revertible, First!Loses
  <2> QED BY <2>3, <2>4
<1> QED BY <1>1, <1>2, <1>3, <1>4, <1>5, <1>6, <1>7, <1>8, <1>9, <1>10, <1>11 DEF First!BootNext

\* While krakey runs, what takes an edition out of config.yaml, a form older than it
\* or a save cut off half way, leaves the file in the backups; the bootstrap's own
\* rewriting makes none, and loses one only if it fell in between or it is cut off.
THEOREM EditsCanBeReverted == ServicesSpec => LossesAreRevertible
<1>1. ServicesInit => BootInv
  BY DEF ServicesInit, First!BootInit, First!Blank, BootInv, File
<1>2. BootInv /\ [ServicesNext]_servicesVars => BootInv' /\ [Revertible]_(First!bootVars)
  <2>1. BootInv /\ UNCHANGED First!bootVars => BootInv'
    BY DEF BootInv, First!bootVars
  <2> QED BY <2>1, BootMoves, BootGoesOn
<1>3. ServicesSpec => [][Revertible]_(First!bootVars)
  BY <1>1, <1>2, PTL DEF ServicesSpec
<1> QED BY <1>3 DEF LossesAreRevertible, First!LossesAreRevertible, Revertible

-----------------------------------------------------------------------------
(* The process and its files *)

Up == {"running", "unlinking", "closing"}
Entering == {"preparing", "writing"}

LifeTypes ==
  /\ pidfile \in Life!Pid \cup {Nobody}
  /\ process \in [Life!Pid -> Up \cup Entering \cup {"unborn", "checking", "leaving", "dead"}]
  /\ predecessor \in [Life!Pid -> Life!Pid \cup {Nobody}]
  /\ cli \in [Terminal -> [op : {"none", "stop", "pause", "resume", "await"},
                           pid : Life!Pid \cup {Nobody}]]
  /\ {startPaused, paused, stopping} \subseteq [Life!Pid -> BOOLEAN]
  /\ crossed \in BOOLEAN

\* Who has a successor is on its way out: its successor's exemption is for no runtime.
SuccessorsFollow == \A p, q \in Life!Pid :
  predecessor[p] = q => process[q] \in {"leaving", "dead"}

\* As long as no launch came in another's window: past its check a launch is the only
\* one, and nothing is up; what closes is the only one that is up;
EntersAlone == \A p, q \in Life!Pid :
  process[p] \in Entering /\ process[q] \in Entering \cup Up => p = q

ClosesAlone == \A p, q \in Life!Pid : process[p] = "closing" /\ process[q] \in Up => p = q

\* the file names what runs, and nothing else while something is up;
NamedByFile == \A p \in Life!Pid :
  /\ process[p] \in {"running", "unlinking"} => pidfile = p
  /\ process[p] = "closing" => pidfile \in {p, Nobody}
  /\ process[p] \in Entering => pidfile = Nobody

\* and a stop that is executed takes nobody else's entry away.
StopsAreApt == \A t \in Terminal : cli[t].op \in {"stop", "await"} => \A p \in Life!Pid :
  process[p] \notin Entering /\ (process[p] \in Up => cli[t].pid = p)

Untouched == \A p \in Life!Pid : process[p] = "unborn" => ~ paused[p]

Orderly == EntersAlone /\ ClosesAlone /\ NamedByFile /\ StopsAreApt

LaunchInv == LifeTypes /\ SuccessorsFollow /\ Untouched /\ (~ crossed => Orderly)

PauseAsked(p) == startPaused[p] \/ p \in wanted

PausesWereAsked == \A p \in Life!Pid :
  /\ paused[p] => PauseAsked(p)
  /\ process[p] \in {"writing", "running", "unlinking"} /\ pausefile \in {"forever", "until"}
       => PauseAsked(p)

LifeInv == LaunchInv /\ (~ crossed => PausesWereAsked)

LEMMA LifeStarts == ASSUME ServicesInit PROVE LifeInv
<1>1. Life!Init
  BY DEF ServicesInit
<1>2. LifeTypes
  BY <1>1 DEF Life!Init, LifeTypes, Life!Prompt
<1>3. \A p \in Life!Pid : p # Nobody
  BY NobodyIsNoProcess DEF Life!Pid
<1> QED BY <1>1, <1>2, <1>3 DEF Life!Init, Life!Prompt, LifeInv, LaunchInv, SuccessorsFollow,
             Untouched, Orderly, EntersAlone, ClosesAlone, NamedByFile, StopsAreApt,
             PausesWereAsked, Up, Entering

LEMMA LifeMoves ==
  ASSUME [ServicesNext]_servicesVars
  PROVE  Life!LifeNext \/ UNCHANGED Life!lifeVars
<1>1. CASE UNCHANGED servicesVars BY <1>1 DEF servicesVars
<1>2. CASE ServicesNext
  <2>1. CASE LifeStep BY <2>1 DEF LifeStep
  <2>2. CASE ~ LifeStep
    BY <1>2, <2>2 DEF ServicesNext, BufferStep, ChatStep, ReloadStep, McpStep, EnvStep,
      GraphStep, SearchStep, DecisionStep, BrowserStep, FirstStep, EngineStep, InstallStep,
      LlmStep, OthersStill, Moves, Life!lifeVars
  <2> QED BY <2>1, <2>2
<1> QED BY <1>1, <1>2

LEMMA NoProcessIsNobody == \A p \in Life!Pid : p # Nobody
BY NobodyIsNoProcess DEF Life!Pid

LEMMA LaunchSteps ==
  ASSUME LaunchInv, NEW p \in Life!Pid, Life!Launching(p) PROVE LaunchInv'
<1> USE NoProcessIsNobody
    DEF LaunchInv, LifeTypes, SuccessorsFollow, Untouched, Orderly, EntersAlone, ClosesAlone,
        NamedByFile, StopsAreApt, Up, Entering
<1>1. CASE Life!Launch(p)
  BY <1>1 DEF Life!Launch, Life!Born
<1>2. CASE Life!CheckPidfile(p)
  <2>1. /\ process[p] = "checking"
        /\ process' = [process EXCEPT ![p] = IF Life!Refused(p) THEN "dead" ELSE "preparing"]
        /\ pidfile' = IF Life!Refused(p) THEN pidfile ELSE Nobody
        /\ crossed' = (crossed \/ (~ Life!Refused(p) /\ Life!Window(p)))
        /\ UNCHANGED <<pausefile, startPaused, paused, stopping, predecessor, cli, wanted>>
    BY <1>2 DEF Life!CheckPidfile
  <2>2. CASE Life!Refused(p)
    BY <2>1, <2>2
  <2>3. CASE ~ Life!Refused(p)
    <3>1. LifeTypes' /\ SuccessorsFollow' /\ Untouched'
      BY <2>1, <2>3
    <3>2. ASSUME ~ crossed' PROVE Orderly'
      <4>1. ~ crossed /\ ~ Life!Window(p)
        BY <2>1, <2>3, <3>2
      <4>2. /\ \A q \in Life!Pid : q # p => process[q] \notin {"preparing", "writing", "closing"}
            /\ \A t \in Terminal : cli[t].op \notin {"stop", "await"}
        BY <4>1 DEF Life!Window
      <4>3. ASSUME NEW q \in Life!Pid, process[q] \in {"running", "unlinking"} PROVE FALSE
        <5>1. pidfile = q /\ q # Nobody
          BY <4>1, <4>3
        <5>2. Life!Alive(pidfile)
          BY <4>3, <5>1 DEF Life!Alive
        <5>3. predecessor[p] # q
          BY <4>3
        <5> QED BY <2>3, <5>1, <5>2, <5>3 DEF Life!Refused
      <4>4. \A q \in Life!Pid : q # p => process'[q] \notin Up \cup Entering
        BY <2>1, <4>2, <4>3
      <4>5. process'[p] = "preparing" /\ pidfile' = Nobody
        BY <2>1, <2>3
      <4> QED BY <2>1, <4>2, <4>4, <4>5
    <3> QED BY <3>1, <3>2
  <2> QED BY <2>2, <2>3
<1>3. CASE Life!PreparePauseFile(p)
  BY <1>3 DEF Life!PreparePauseFile
<1>4. CASE Life!WritePidfile(p)
  BY <1>4 DEF Life!WritePidfile
<1> QED BY <1>1, <1>2, <1>3, <1>4 DEF Life!Launching

LEMMA LoopSteps ==
  ASSUME LaunchInv, NEW p \in Life!Pid, Life!Loop(p) PROVE LaunchInv'
<1> USE NoProcessIsNobody
    DEF LaunchInv, LifeTypes, SuccessorsFollow, Untouched, Orderly, EntersAlone, ClosesAlone,
        NamedByFile, StopsAreApt, Up, Entering
<1>1. CASE Life!Poll(p)
  BY <1>1 DEF Life!Poll
<1>2. CASE Life!UnlinkExpired(p)
  BY <1>2 DEF Life!UnlinkExpired
<1>3. CASE Life!LeaveLoop(p)
  BY <1>3 DEF Life!LeaveLoop
<1>4. CASE Life!Exit(p)
  BY <1>4 DEF Life!Exit
<1> QED BY <1>1, <1>2, <1>3, <1>4 DEF Life!Loop

LEMMA MishapSteps ==
  ASSUME LaunchInv, NEW p \in Life!Pid, Life!Mishap(p) \/ Life!LeaveToSuccessor(p)
  PROVE  LaunchInv'
<1> USE NoProcessIsNobody
    DEF LaunchInv, LifeTypes, SuccessorsFollow, Untouched, Orderly, EntersAlone, ClosesAlone,
        NamedByFile, StopsAreApt, Up, Entering
<1>1. CASE Life!Interrupt(p)
  BY <1>1 DEF Life!Interrupt
<1>2. CASE Life!HangUp(p)
  BY <1>2 DEF Life!HangUp, Life!Running
<1>3. CASE Life!Crash(p)
  BY <1>3 DEF Life!Crash, Life!Alive
<1>4. CASE Life!LeaveToSuccessor(p)
  BY <1>4 DEF Life!LeaveToSuccessor
<1> QED BY <1>1, <1>2, <1>3, <1>4 DEF Life!Mishap

LEMMA SuccessorStep ==
  ASSUME LaunchInv, NEW p \in Life!Pid, NEW q \in Life!Pid, Life!SpawnSuccessor(p, q)
  PROVE  LaunchInv'
<1> USE NoProcessIsNobody
    DEF LaunchInv, LifeTypes, SuccessorsFollow, Untouched, Orderly, EntersAlone, ClosesAlone,
        NamedByFile, StopsAreApt, Up, Entering
<1>1. /\ process[p] = "running" /\ process[q] = "unborn"
      /\ process' = [process EXCEPT ![p] = "leaving", ![q] = "checking"]
      /\ predecessor' = [predecessor EXCEPT ![q] = p]
      /\ startPaused' = [startPaused EXCEPT ![q] = startPaused[p]]
      /\ UNCHANGED <<pidfile, pausefile, paused, stopping, cli, wanted, crossed>>
  BY DEF Life!SpawnSuccessor, Life!Born
<1> QED BY <1>1

LEMMA CommandSteps ==
  ASSUME LaunchInv, NEW t \in Terminal, Life!Command(t) PROVE LaunchInv'
<1> USE NoProcessIsNobody
    DEF LaunchInv, LifeTypes, SuccessorsFollow, Untouched, Orderly, EntersAlone, ClosesAlone,
        NamedByFile, StopsAreApt, Up, Entering
<1>1. ASSUME NEW o \in {"stop", "pause", "resume"}, Life!Type(t, o) PROVE LaunchInv'
  BY <1>1 DEF Life!Type
<1>2. CASE Life!FoundStale(t)
  BY <1>2 DEF Life!FoundStale, Life!Alive, Life!Prompt
<1>3. CASE Life!Terminate(t)
  <2>1. /\ cli[t].op = "stop"
        /\ stopping' = [stopping EXCEPT ![cli[t].pid] = TRUE]
        /\ cli' = [cli EXCEPT ![t].op = "await"]
        /\ UNCHANGED <<pidfile, pausefile, process, startPaused, paused, predecessor, wanted, crossed>>
    BY <1>3 DEF Life!Terminate
  <2>2. /\ cli' \in [Terminal -> [op : {"none", "stop", "pause", "resume", "await"},
                                  pid : Life!Pid \cup {Nobody}]]
        /\ cli'[t].pid = cli[t].pid /\ \A u \in Terminal : u # t => cli'[u] = cli[u]
    BY <2>1
  <2>3. stopping' \in [Life!Pid -> BOOLEAN]
    BY <2>1
  <2>4. StopsAreApt => StopsAreApt'
    BY <2>1, <2>2
  <2> QED BY <2>1, <2>2, <2>3, <2>4
<1>4. CASE Life!StopDone(t)
  <2>1. /\ cli[t].op = "await"
        /\ process' = [process EXCEPT ![cli[t].pid] = "dead"] /\ pidfile' = Nobody
        /\ cli' = [cli EXCEPT ![t] = Life!Prompt]
        /\ UNCHANGED <<pausefile, startPaused, paused, stopping, predecessor, wanted, crossed>>
    BY <1>4 DEF Life!StopDone
  <2>2. LifeTypes' /\ SuccessorsFollow' /\ Untouched'
    BY <2>1 DEF Life!Prompt
  <2>3. ASSUME ~ crossed PROVE Orderly'
    <3>1. \A q \in Life!Pid : process'[q] \notin Up \cup Entering
      BY <2>1, <2>3
    <3> QED BY <2>1, <3>1
  <2> QED BY <2>1, <2>2, <2>3
<1>5. ASSUME NEW content \in {"forever", "until"}, Life!WritePause(t, content) PROVE LaunchInv'
  BY <1>5 DEF Life!WritePause, Life!Prompt
<1>6. CASE Life!ClearPause(t)
  BY <1>6 DEF Life!ClearPause, Life!Prompt
<1> QED BY <1>1, <1>2, <1>3, <1>4, <1>5, <1>6 DEF Life!Command

LEMMA LaunchGoesOn ==
  ASSUME LaunchInv, Life!LifeNext PROVE LaunchInv'
<1>1. CASE Life!DeadlinePasses
  BY <1>1 DEF Life!DeadlinePasses, LaunchInv, LifeTypes, SuccessorsFollow, Untouched, Orderly,
              EntersAlone, ClosesAlone, NamedByFile, StopsAreApt
<1> QED BY <1>1, LaunchSteps, LoopSteps, MishapSteps, SuccessorStep, CommandSteps DEF Life!LifeNext

LEMMA PausesGoOn ==
  ASSUME LifeInv, ~ crossed, Life!LifeNext PROVE PausesWereAsked'
<1> USE DEF LifeInv, LaunchInv, LifeTypes, PausesWereAsked, PauseAsked
<1>1. ASSUME NEW p \in Life!Pid, Life!Launch(p) PROVE PausesWereAsked'
  BY <1>1 DEF Life!Launch, Life!Born, Untouched
<1>2. ASSUME NEW p \in Life!Pid, Life!CheckPidfile(p) PROVE PausesWereAsked'
  BY <1>2 DEF Life!CheckPidfile
<1>3. ASSUME NEW p \in Life!Pid, Life!PreparePauseFile(p) PROVE PausesWereAsked'
  <2>1. process[p] = "preparing"
    BY <1>3 DEF Life!PreparePauseFile
  <2>2. \A q \in Life!Pid : process[q] \in {"writing", "running", "unlinking"} => FALSE
    BY <2>1 DEF Orderly, EntersAlone, Up, Entering
  <2> QED BY <1>3, <2>2 DEF Life!PreparePauseFile, Life!Prepared
<1>4. ASSUME NEW p \in Life!Pid,
             Life!WritePidfile(p) \/ Life!Poll(p) \/ Life!UnlinkExpired(p) \/ Life!LeaveLoop(p)
      PROVE  PausesWereAsked'
  BY <1>4 DEF Life!WritePidfile, Life!Poll, Life!UnlinkExpired, Life!LeaveLoop
<1>5. ASSUME NEW p \in Life!Pid,
             Life!Exit(p) \/ Life!Interrupt(p) \/ Life!HangUp(p) \/ Life!Crash(p) \/ Life!LeaveToSuccessor(p)
      PROVE  PausesWereAsked'
  BY <1>5 DEF Life!Exit, Life!Interrupt, Life!HangUp, Life!Crash, Life!LeaveToSuccessor
<1>6. ASSUME NEW p \in Life!Pid, NEW q \in Life!Pid, Life!SpawnSuccessor(p, q) PROVE PausesWereAsked'
  BY <1>6 DEF Life!SpawnSuccessor, Life!Born, Untouched
<1>7. ASSUME NEW t \in Terminal, NEW content \in {"forever", "until"}, Life!WritePause(t, content)
      PROVE  PausesWereAsked'
  <2>1. /\ wanted' = wanted \cup {p \in Life!Pid : Life!Alive(p)}
        /\ UNCHANGED <<process, startPaused, paused>>
    BY <1>7 DEF Life!WritePause
  <2>2. \A p \in Life!Pid : process[p] \in {"writing", "running", "unlinking"} => p \in wanted'
    BY <2>1, NoProcessIsNobody DEF Life!Alive
  <2> QED BY <2>1, <2>2
<1>8. ASSUME NEW t \in Terminal, NEW o \in {"stop", "pause", "resume"}, Life!Type(t, o)
      PROVE  PausesWereAsked'
  BY <1>8 DEF Life!Type
<1>9. ASSUME NEW t \in Terminal,
             Life!FoundStale(t) \/ Life!Terminate(t) \/ Life!StopDone(t) \/ Life!ClearPause(t)
      PROVE  PausesWereAsked'
  BY <1>9 DEF Life!FoundStale, Life!Terminate, Life!StopDone, Life!ClearPause
<1>10. CASE Life!DeadlinePasses
  BY <1>10 DEF Life!DeadlinePasses
<1> QED BY <1>1, <1>2, <1>3, <1>4, <1>5, <1>6, <1>7, <1>8, <1>9, <1>10
        DEF Life!LifeNext, Life!Launching, Life!Loop, Life!Mishap, Life!Command

\* A window that was crossed stays on record.
LEMMA OnceCrossed == ASSUME Life!LifeNext PROVE ~ crossed' => ~ crossed
BY DEF Life!LifeNext, Life!Command, Life!Launching, Life!Loop, Life!Mishap,
  Life!Type, Life!FoundStale, Life!Terminate, Life!StopDone, Life!ClearPause, Life!WritePause,
  Life!Launch, Life!CheckPidfile, Life!PreparePauseFile, Life!WritePidfile,
  Life!Poll, Life!UnlinkExpired, Life!LeaveLoop, Life!Exit, Life!Interrupt, Life!HangUp,
  Life!Crash, Life!LeaveToSuccessor, Life!SpawnSuccessor, Life!DeadlinePasses

\* As long as no launch came in another's window, the pid file names every runtime that
\* runs, hence there is one, and no runtime pauses that was not launched or asked to.
THEOREM LaunchesAreClean == ServicesSpec => []LaunchIsClean
<1>1. ServicesInit => LifeInv
  BY LifeStarts
<1>2. LifeInv /\ [ServicesNext]_servicesVars => LifeInv'
  <2>1. LifeInv /\ UNCHANGED Life!lifeVars => LifeInv'
    BY DEF Life!lifeVars, LifeInv, LaunchInv, LifeTypes, SuccessorsFollow, Untouched, Orderly,
           EntersAlone, ClosesAlone, NamedByFile, StopsAreApt, PausesWereAsked, PauseAsked
  <2>2. ASSUME LifeInv, Life!LifeNext PROVE ~ crossed' => ~ crossed
    BY <2>2, OnceCrossed
  <2> QED BY <2>1, <2>2, LifeMoves, LaunchGoesOn, PausesGoOn DEF LifeInv
<1>3. LifeInv => LaunchIsClean
  <2> SUFFICES ASSUME LifeInv, ~ crossed PROVE Life!OneRuntimeNamed /\ Life!NoInheritedPause
    BY DEF LaunchIsClean, Life!LaunchIsClean
  <2>1. Life!OneRuntimeNamed
    BY DEF Life!OneRuntimeNamed, LifeInv, LaunchInv, Orderly, NamedByFile, Life!Running
  <2>2. Life!NoInheritedPause
    BY DEF Life!NoInheritedPause, LifeInv, PausesWereAsked, PauseAsked
  <2> QED BY <2>1, <2>2
<1> QED BY <1>1, <1>2, <1>3, PTL DEF ServicesSpec


-----------------------------------------------------------------------------
(* What Self decided *)

\* The decision is a stretch of the text, after the last header of its name.
LEMMA DecisionIsAStretch ==
  ASSUME NEW t \in Seq(Decision!Token)
  PROVE  LET D == Decision!DecisionOf(t) IN
         /\ D \subseteq DOMAIN t
         /\ \A i, j \in D : \A k \in DOMAIN t : i <= k /\ k <= j => k \in D
         /\ \A k \in D : Decision!InDecision(t, k)
<1> DEFINE D == Decision!DecisionOf(t)
           S == Decision!SectionAt(t, "DECISION")
<1>1. \A d \in S : d \in DOMAIN t /\ t[d] = "DECISION" /\ \A e \in DOMAIN t : e > d => t[e] # "DECISION"
  BY DEF Decision!SectionAt
<1>2. D = IF Decision!Headers(t) = {} THEN DOMAIN t
          ELSE {k \in DOMAIN t : \E d \in S : d < k /\ Decision!Headers(t) \cap (d + 1)..k = {}}
  BY DEF Decision!DecisionOf
<1> HIDE DEF D, S
<1>3. CASE Decision!Headers(t) = {}
  BY <1>2, <1>3 DEF Decision!InDecision, D
<1>4. CASE Decision!Headers(t) # {} /\ S = {}
  BY <1>2, <1>4 DEF D
<1>5. ASSUME Decision!Headers(t) # {}, NEW d \in S
      PROVE  /\ D \subseteq DOMAIN t
             /\ \A i, j \in D : \A k \in DOMAIN t : i <= k /\ k <= j => k \in D
             /\ \A k \in D : Decision!InDecision(t, k)
  <2>0. \A e \in S : e = d
    <3>1. \A e \in S : e \in Int /\ ~ (e > d) /\ ~ (d > e)
      BY <1>1
    <3> QED BY <1>5, <3>1
  <2>1. \A k \in D : k \in DOMAIN t /\ d < k /\ Decision!Headers(t) \cap (d + 1)..k = {}
    BY <1>2, <1>5, <2>0
  <2>2. ASSUME NEW i \in D, NEW j \in D, NEW k \in DOMAIN t, i <= k, k <= j PROVE k \in D
    <3>1. d \in Int /\ i \in Int /\ j \in Int /\ k \in Int
      BY <1>1, <2>1
    <3>2. (d + 1)..k \subseteq (d + 1)..j
      BY <3>1, <2>2
    <3>3. d < k /\ Decision!Headers(t) \cap (d + 1)..k = {}
      BY <3>1, <3>2, <2>1, <2>2
    <3> QED BY <1>2, <1>5, <2>1, <3>3
  <2>3. ASSUME NEW k \in D PROVE Decision!InDecision(t, k)
    <3>1. d \in 1..k /\ t[d] = "DECISION" /\ Decision!Headers(t) \cap (d + 1)..k = {}
      BY <1>1, <2>1
    <3> QED BY <3>1 DEF Decision!InDecision
  <2> QED BY <2>1, <2>2, <2>3
<1> QED BY <1>3, <1>4, <1>5 DEF D

ScanState == [from : Nat, blocks : SUBSET (SUBSET Nat)]
Unscanned == [from |-> 0, blocks |-> {}]

LEMMA ScanKeepsType ==
  ASSUME NEW t, NEW v \in ScanState, NEW k \in Nat
  PROVE  Decision!Scan(t, v, k) \in ScanState
<1>1. v.from \in Nat /\ v.blocks \in SUBSET (SUBSET Nat)
  BY DEF ScanState
<1>2. (v.from + 1)..(k - 1) \in SUBSET Nat
  BY <1>1
<1>3. [from |-> 0, blocks |-> v.blocks \cup {(v.from + 1)..(k - 1)}] \in ScanState
  BY <1>1, <1>2 DEF ScanState
<1>4. [v EXCEPT !.from = k] \in ScanState
  BY DEF ScanState
<1> QED BY <1>3, <1>4 DEF Decision!Scan

LEMMA BlocksAreScanned ==
  ASSUME NEW t \in Seq(Decision!Token)
  PROVE  \E g : /\ g \in [0..Len(t) -> ScanState]
                /\ g[0] = Unscanned /\ Decision!Blocks(t) = g[Len(t)].blocks
                /\ \A k \in 1..Len(t) : g[k] = Decision!Scan(t, g[k - 1], k)
<1> DEFINE F == [w \in Nat \X ScanState |-> Decision!Scan(t, w[2], w[1])]
           Built(g) == g = [k \in 0..Len(t) |->
             IF k = 0 THEN [from |-> 0, blocks |-> {}] ELSE Decision!Scan(t, g[k - 1], k)]
<1>1. F \in [Nat \X ScanState -> ScanState] /\ Unscanned \in ScanState
  <2>1. \A w \in Nat \X ScanState : Decision!Scan(t, w[2], w[1]) \in ScanState
    BY ScanKeepsType
  <2>2. Unscanned \in ScanState
    BY DEF ScanState, Unscanned
  <2> QED BY <2>1, <2>2
<1>2. \A k \in Nat : \A v \in ScanState : F[<<k, v>>] = Decision!Scan(t, v, k)
  OBVIOUS
<1>0. Len(t) \in Nat /\ 0 \in 0..Len(t) /\ Len(t) \in 0..Len(t)
  OBVIOUS
<1> HIDE DEF F
<1>3. PICK g : Iterates(g, ScanState, Unscanned, F, Len(t))
  BY <1>0, <1>1, Iteration
<1>4. \A k \in 1..Len(t) : k - 1 \in 0..Len(t) /\ k \in Nat
  OBVIOUS
<1>5. /\ g \in [0..Len(t) -> ScanState] /\ g[0] = Unscanned
      /\ \A k \in 1..Len(t) : g[k] = Decision!Scan(t, g[k - 1], k)
  BY <1>2, <1>3, <1>4 DEF Iterates
<1>6. Built(g)
  <2>1. \A k \in 0..Len(t) : k # 0 => k \in 1..Len(t)
    OBVIOUS
  <2>2. \A k \in 0..Len(t) : g[k] = IF k = 0 THEN [from |-> 0, blocks |-> {}]
                                   ELSE Decision!Scan(t, g[k - 1], k)
    BY <1>5, <2>1 DEF Unscanned
  <2>3. g = [k \in 0..Len(t) |-> g[k]]
    BY <1>5
  <2> QED BY <2>2, <2>3
<1> DEFINE chosen == CHOOSE f : Built(f)
<1>7. Built(chosen)
  BY <1>6
<1>8. Decision!Blocks(t) = chosen[Len(t)].blocks
  BY DEF Decision!Blocks
<1> HIDE DEF chosen
<1>9. /\ chosen = [k \in 0..Len(t) |-> chosen[k]]
      /\ chosen[0] = Unscanned
      /\ \A k \in 1..Len(t) : chosen[k] = Decision!Scan(t, chosen[k - 1], k)
  <2>1. \A k \in 0..Len(t) : chosen[k] = IF k = 0 THEN [from |-> 0, blocks |-> {}]
                                        ELSE Decision!Scan(t, chosen[k - 1], k)
    BY <1>7
  <2>2. chosen = [k \in 0..Len(t) |-> chosen[k]]
    BY <1>7
  <2> QED BY <2>1, <2>2, <1>0 DEF Unscanned
<1>10. \A k \in 0..Len(t) : chosen[k] = g[k]
  <2> DEFINE Good == {k \in 0..Len(t) : chosen[k] = g[k]}
  <2>1. 0 \in Good
    BY <1>0, <1>5, <1>9
  <2>2. \A k \in 0..Len(t) : k \in Good <=> chosen[k] = g[k]
    OBVIOUS
  <2> HIDE DEF Good
  <2>3. \A k \in 0..Len(t) : k + 1 \in 0..Len(t) /\ k \in Good => k + 1 \in Good
    <3> SUFFICES ASSUME NEW k \in 0..Len(t), k + 1 \in 0..Len(t), k \in Good PROVE k + 1 \in Good
      OBVIOUS
    <3>1. k + 1 \in 1..Len(t) /\ (k + 1) - 1 = k
      OBVIOUS
    <3> QED BY <3>1, <2>2, <1>5, <1>9
  <2>4. \A k \in 0..Len(t) : k \in Good
    BY <1>0, <2>1, <2>3, UpTo
  <2> QED BY <2>2, <2>4
<1>11. chosen[Len(t)] = g[Len(t)]
  BY <1>0, <1>10
<1> QED BY <1>5, <1>8, <1>11

\* Between an opening tag in the decision and k no tag in it is closed.
Opens(t, i, k) ==
  /\ i \in Decision!DecisionOf(t) /\ i <= k /\ t[i] = "open"
  /\ \A h \in Decision!DecisionOf(t) : i <= h /\ h <= k => t[h] # "close"

\* What the scan knows when it has read n tokens.
FromIsOpen(t, v, n) == v.from # 0 => Opens(t, v.from, n)
OpenIsFrom(t, v, n) == \A i \in DOMAIN t : Opens(t, i, n) => v.from # 0 /\ v.from <= i
PieceIsKept(t, v, n) == \A k \in Decision!DecisionOf(t) :
  (k <= n /\ \E i \in DOMAIN t : i < k /\ Opens(t, i, k))
    => (\E b \in v.blocks : k \in b) \/ (v.from # 0 /\ v.from < k)
BlockIsInside(t, v) == \A b \in v.blocks : \E a, c \in Decision!DecisionOf(t) : b = (a + 1)..(c - 1)
Scanned(t, v, n) ==
  FromIsOpen(t, v, n) /\ OpenIsFrom(t, v, n) /\ PieceIsKept(t, v, n) /\ BlockIsInside(t, v)

\* What is open at a token was open before it, unless it opens there.
LEMMA OpensBefore ==
  ASSUME NEW t \in Seq(Decision!Token), NEW n \in Nat, NEW i \in DOMAIN t
  PROVE  /\ Opens(t, i, n + 1) => (i = n + 1 \/ Opens(t, i, n))
                                  /\ ~ (n + 1 \in Decision!DecisionOf(t) /\ t[n + 1] = "close")
         /\ Opens(t, i, n) /\ ~ (n + 1 \in Decision!DecisionOf(t) /\ t[n + 1] = "close")
              => Opens(t, i, n + 1)
<1> DEFINE D == Decision!DecisionOf(t)
<1>1. i \in Nat /\ \A h \in D : h \in Nat
  BY DecisionIsAStretch
<1>2. (i <= n + 1 <=> i = n + 1 \/ i <= n) /\ \A h \in D : h <= n + 1 <=> h = n + 1 \/ h <= n
  BY <1>1
<1> QED BY <1>1, <1>2 DEF Opens

\* Reading one more token keeps all of it.
LEMMA ScanGoesOn ==
  ASSUME NEW t \in Seq(Decision!Token), NEW n \in Nat, n + 1 \in DOMAIN t,
         NEW v \in ScanState, Scanned(t, v, n)
  PROVE  Scanned(t, Decision!Scan(t, v, n + 1), n + 1)
<1> DEFINE D == Decision!DecisionOf(t)
           w == Decision!Scan(t, v, n + 1)
<1>1. /\ v.from \in Nat /\ FromIsOpen(t, v, n) /\ OpenIsFrom(t, v, n)
      /\ PieceIsKept(t, v, n) /\ BlockIsInside(t, v)
  BY DEF ScanState, Scanned
<1>2. D \subseteq DOMAIN t /\ DOMAIN t \subseteq Nat /\ 0 \notin DOMAIN t
  BY DecisionIsAStretch
<1>3. v.from # 0 => v.from \in D /\ v.from \in DOMAIN t /\ v.from <= n /\ Opens(t, v.from, n)
  BY <1>1, <1>2 DEF FromIsOpen, Opens
<1>4. ASSUME NEW i \in DOMAIN t, Opens(t, i, n + 1)
      PROVE  /\ ~ (n + 1 \in D /\ t[n + 1] = "close")
             /\ i = n + 1 \/ (v.from # 0 /\ v.from <= i)
  BY <1>1, <1>4, OpensBefore DEF OpenIsFrom
<1>5. ASSUME NEW k \in D, k <= n + 1, NEW i \in DOMAIN t, i < k, Opens(t, i, k)
      PROVE  (\E b \in v.blocks : k \in b) \/ (v.from # 0 /\ v.from < k)
  <2>1. CASE k <= n
    BY <1>1, <1>5, <2>1 DEF PieceIsKept
  <2>2. CASE k > n
    <3>1. k = n + 1 /\ i \in Nat /\ i # n + 1
      BY <1>2, <1>5, <2>2
    <3>2. v.from # 0 /\ v.from <= i
      BY <1>4, <1>5, <3>1
    <3> QED BY <1>1, <1>5, <3>1, <3>2
  <2> QED BY <1>2, <2>1, <2>2
<1>6. \A k \in D : k <= n + 1 => k < n + 1 \/ k = n + 1
  BY <1>2
<1>7. CASE w = v /\ (n + 1 \in D => t[n + 1] # "close" /\ (t[n + 1] = "open" => v.from # 0))
  <2>1. FromIsOpen(t, w, n + 1)
    BY <1>3, <1>7, OpensBefore DEF FromIsOpen
  <2>2. OpenIsFrom(t, w, n + 1)
    <3> SUFFICES ASSUME NEW i \in DOMAIN t, Opens(t, i, n + 1)
                 PROVE  v.from # 0 /\ v.from <= i
      BY <1>7 DEF OpenIsFrom
    <3>1. CASE i = n + 1
      <4>1. v.from # 0
        BY <1>7, <3>1 DEF Opens
      <4> QED BY <1>1, <1>3, <3>1, <4>1
    <3> QED BY <1>4, <3>1
  <2>3. PieceIsKept(t, w, n + 1)
    BY <1>5, <1>7 DEF PieceIsKept
  <2> QED BY <1>1, <1>7, <2>1, <2>2, <2>3 DEF Scanned
<1>8. CASE n + 1 \in D /\ v.from = 0 /\ t[n + 1] = "open"
  <2>1. w = [v EXCEPT !.from = n + 1]
    BY <1>8 DEF Decision!Scan
  <2>2. w.from = n + 1 /\ w.blocks = v.blocks
    BY <2>1 DEF ScanState
  <2> HIDE DEF w
  <2>3. Opens(t, n + 1, n + 1)
    BY <1>2, <1>6, <1>8 DEF Opens
  <2>4. FromIsOpen(t, w, n + 1)
    BY <2>2, <2>3 DEF FromIsOpen
  <2>5. OpenIsFrom(t, w, n + 1)
    BY <1>2, <1>4, <1>8, <2>2 DEF OpenIsFrom
  <2>6. PieceIsKept(t, w, n + 1)
    BY <1>5, <1>8, <2>2 DEF PieceIsKept
  <2>7. BlockIsInside(t, w)
    BY <1>1, <2>2 DEF BlockIsInside
  <2> QED BY <2>4, <2>5, <2>6, <2>7 DEF Scanned, w
<1>9. CASE n + 1 \in D /\ v.from # 0 /\ t[n + 1] = "close"
  <2> DEFINE block == (v.from + 1)..((n + 1) - 1)
  <2>1. w = [from |-> 0, blocks |-> v.blocks \cup {block}]
    BY <1>9 DEF Decision!Scan
  <2>2. w.from = 0 /\ w.blocks = v.blocks \cup {block}
    BY <2>1
  <2> HIDE DEF w
  <2>3. FromIsOpen(t, w, n + 1)
    BY <2>2 DEF FromIsOpen
  <2>4. OpenIsFrom(t, w, n + 1)
    BY <1>4, <1>9 DEF OpenIsFrom
  <2>5. PieceIsKept(t, w, n + 1)
    <3> SUFFICES ASSUME NEW k \in D, k <= n + 1, NEW i \in DOMAIN t, i < k, Opens(t, i, k)
                 PROVE  \E b \in w.blocks : k \in b
      BY DEF PieceIsKept
    <3>1. CASE \E b \in v.blocks : k \in b
      BY <2>2, <3>1
    <3>2. CASE v.from < k
      <4>1. k # n + 1
        BY <1>9 DEF Opens
      <4>2. k \in block
        BY <1>1, <1>2, <3>2, <4>1
      <4> QED BY <2>2, <4>2
    <3> QED BY <1>5, <3>1, <3>2
  <2>6. BlockIsInside(t, w)
    <3>1. \E a, c \in D : block = (a + 1)..(c - 1)
      BY <1>3, <1>9
    <3> QED BY <1>1, <2>2, <3>1 DEF BlockIsInside
  <2> QED BY <2>3, <2>4, <2>5, <2>6 DEF Scanned, w
<1>10. n + 1 \notin D \/ (v.from # 0 /\ t[n + 1] # "close") \/ (v.from = 0 /\ t[n + 1] # "open") => w = v
  BY DEF Decision!Scan
<1>11. CASE n + 1 \in D /\ v.from = 0 /\ t[n + 1] = "close"
  <2>1. w = v
    BY <1>10, <1>11
  <2>2. FromIsOpen(t, w, n + 1)
    BY <1>11, <2>1 DEF FromIsOpen
  <2>3. OpenIsFrom(t, w, n + 1)
    BY <1>4, <1>11 DEF OpenIsFrom
  <2>4. PieceIsKept(t, w, n + 1)
    BY <1>5, <2>1 DEF PieceIsKept
  <2> QED BY <1>1, <2>1, <2>2, <2>3, <2>4 DEF Scanned
<1> QED BY <1>7, <1>8, <1>9, <1>10, <1>11

\* Every enclosed piece is in a block, and every block is inside the decision.
LEMMA BlocksAreFound ==
  ASSUME NEW t \in Seq(Decision!Token)
  PROVE  /\ \A k \in Decision!DecisionOf(t) :
              Decision!Enclosed(t, k) => \E b \in Decision!Blocks(t) : k \in b
         /\ \A b \in Decision!Blocks(t) :
              \E a, c \in Decision!DecisionOf(t) : b = (a + 1)..(c - 1)
<1> DEFINE D == Decision!DecisionOf(t)
<1>1. /\ D \subseteq DOMAIN t /\ DOMAIN t \subseteq Nat /\ Len(t) \in Nat
      /\ \A k \in DOMAIN t : 1 <= k /\ k <= Len(t)
      /\ \A i, j \in D : \A k \in DOMAIN t : i <= k /\ k <= j => k \in D
  BY DecisionIsAStretch
<1>2. PICK g : /\ g \in [0..Len(t) -> ScanState]
               /\ g[0] = Unscanned /\ Decision!Blocks(t) = g[Len(t)].blocks
               /\ \A k \in 1..Len(t) : g[k] = Decision!Scan(t, g[k - 1], k)
  BY BlocksAreScanned
<1> DEFINE Good == {n \in 0..Len(t) : Scanned(t, g[n], n)}
<1>3. 0 \in Good
  <2>1. \A k \in D : ~ (k <= 0)
    BY <1>1
  <2>2. Scanned(t, Unscanned, 0)
    BY <2>1 DEF Scanned, FromIsOpen, OpenIsFrom, PieceIsKept, BlockIsInside, Opens, Unscanned
  <2>3. 0 \in 0..Len(t)
    BY <1>1
  <2> QED BY <1>2, <2>2, <2>3
<1>4. \A n \in 0..Len(t) : n + 1 \in 0..Len(t) /\ n \in Good => n + 1 \in Good
  <2> SUFFICES ASSUME NEW n \in 0..Len(t), n + 1 \in 0..Len(t), n \in Good PROVE n + 1 \in Good
    OBVIOUS
  <2>1. n + 1 \in 1..Len(t) /\ n + 1 \in DOMAIN t /\ n \in Nat /\ (n + 1) - 1 = n
    BY <1>1
  <2>2. g[n] \in ScanState /\ Scanned(t, g[n], n) /\ g[n + 1] = Decision!Scan(t, g[n], n + 1)
    BY <1>2, <2>1
  <2>3. Scanned(t, g[n + 1], n + 1)
    BY <2>1, <2>2, ScanGoesOn
  <2> QED BY <2>3
<1>5. Scanned(t, g[Len(t)], Len(t))
  <2>1. \A n \in Good : Scanned(t, g[n], n)
    OBVIOUS
  <2> HIDE DEF Good
  <2>2. Len(t) \in 0..Len(t)
    BY <1>1
  <2>3. Len(t) \in Good
    BY <1>1, <1>3, <1>4, <2>2, UpTo
  <2> QED BY <2>1, <2>3
<1> HIDE DEF Good
<1>6. ASSUME NEW k \in D, Decision!Enclosed(t, k)
      PROVE  \E b \in Decision!Blocks(t) : k \in b
  <2> DEFINE v == g[Len(t)]
  <2>1. PICK i \in D, j \in D : i < k /\ k < j /\ t[i] = "open" /\ t[j] = "close"
                                /\ \A h \in i..k : t[h] # "close"
    BY <1>6 DEF Decision!Enclosed
  <2>2. Opens(t, i, k)
    BY <1>1, <2>1 DEF Opens
  <2>3. (\E b \in v.blocks : k \in b) \/ (v.from # 0 /\ v.from < k)
    BY <1>1, <1>5, <2>1, <2>2 DEF Scanned, PieceIsKept
  <2>4. ~ (v.from # 0 /\ v.from < k)
    <3> SUFFICES ASSUME v.from # 0, v.from < k PROVE FALSE
      OBVIOUS
    <3>1. Opens(t, v.from, Len(t))
      BY <1>5 DEF Scanned, FromIsOpen
    <3>2. v.from \in Nat /\ j \in Nat /\ k \in Nat /\ j <= Len(t)
      BY <1>1, <3>1 DEF Opens
    <3> QED BY <2>1, <3>1, <3>2 DEF Opens
  <2> QED BY <1>2, <2>3, <2>4
<1>7. \A b \in Decision!Blocks(t) : \E a, c \in D : b = (a + 1)..(c - 1)
  BY <1>2, <1>5 DEF Scanned, BlockIsInside
<1> QED BY <1>6, <1>7

\* The first token of a block is in it.
LEMMA FirstIsInside ==
  ASSUME NEW block, block \subseteq Nat, block # {}
  PROVE  Decision!First(block) \in block
<1>1. \E k \in block : \A j \in block : k <= j
  BY Least
<1> QED BY <1>1 DEF Decision!First

\* Parsing dispatches from the decision only, and tells of what it does not dispatch.
LEMMA ParseLosesNothing ==
  ASSUME NEW t \in Seq(Decision!Token)
  PROVE  LET parsed == Decision!Parse(t) IN
         /\ parsed.calls \subseteq Decision!DecisionOf(t)
         /\ \A k \in parsed.calls : Decision!InDecision(t, k)
         /\ \A k \in Decision!DecisionOf(t) : (t[k] = "call" /\ Decision!Enclosed(t, k)) =>
              k \in parsed.calls \/ \E b \in parsed.failures : k \in b
<1> DEFINE D == Decision!DecisionOf(t)
           parsed == Decision!Parse(t)
           payloads == Decision!Blocks(t) \ {{}}
<1>1. /\ parsed.calls = {Decision!First(b) : b \in {p \in payloads : Decision!Dispatched(t, p)}}
      /\ parsed.failures = {b \in payloads : Decision!Reported(t, b)}
  BY DEF Decision!Parse
<1> HIDE DEF parsed
<1>2. /\ D \subseteq DOMAIN t /\ DOMAIN t \subseteq Nat /\ Len(t) \in Nat
      /\ \A k \in Nat : \A j \in DOMAIN t : 1 <= k /\ k <= j => k \in DOMAIN t
      /\ \A k \in DOMAIN t : 1 <= k
      /\ \A i, j \in D : \A k \in DOMAIN t : i <= k /\ k <= j => k \in D
      /\ \A k \in D : Decision!InDecision(t, k)
  BY DecisionIsAStretch
<1>3. ASSUME NEW b \in payloads PROVE b \subseteq D /\ Decision!First(b) \in b
  <2>1. PICK a \in D, c \in D : b = (a + 1)..(c - 1)
    BY BlocksAreFound
  <2>2. a \in Nat /\ c \in Nat /\ 1 <= a /\ c \in DOMAIN t
    BY <1>2
  <2>3. \A k \in b : k \in Nat /\ 1 <= k /\ a <= k /\ k <= c
    BY <2>1, <2>2
  <2>4. \A k \in b : k \in D
    BY <1>2, <2>2, <2>3
  <2>5. b \subseteq Nat /\ b # {}
    BY <2>3
  <2> QED BY <2>4, <2>5, FirstIsInside
<1>4. parsed.calls \subseteq D
  BY <1>1, <1>3
<1>5. ASSUME NEW k \in D, t[k] = "call", Decision!Enclosed(t, k)
      PROVE  k \in parsed.calls \/ \E b \in parsed.failures : k \in b
  <2>1. PICK b \in Decision!Blocks(t) : k \in b
    BY <1>5, BlocksAreFound
  <2>2. b \in payloads
    BY <2>1
  <2>3. CASE Decision!Reported(t, b)
    BY <1>1, <2>1, <2>2, <2>3
  <2>4. CASE ~ Decision!Reported(t, b)
    <3>1. Decision!Dispatched(t, b) /\ k = Decision!First(b)
      BY <2>1, <2>4 DEF Decision!Reported
    <3> QED BY <1>1, <2>2, <3>1
  <2> QED BY <2>3, <2>4
<1> QED BY <1>2, <1>4, <1>5 DEF parsed

\* What was decided is what the engine in use makes of the response.
DecisionInv ==
  /\ engine \in {"tool_call_parser", "hypothalamus"} /\ text \in Seq(Decision!Token)
  /\ reply \in Decision!Replies
  /\ \/ decided = Decision!NoDecision
     \/ decided = IF engine = "hypothalamus" THEN Decision!TranslateReply(reply)
                  ELSE Decision!Parse(text)

LEMMA DecisionStarts == ASSUME ServicesInit PROVE DecisionInv
<1>1. /\ engine \in {"tool_call_parser", "hypothalamus"} /\ decided = Decision!NoDecision
      /\ text \in IF engine = "hypothalamus" THEN {<<>>}
                  ELSE UNION {[1..n -> Decision!Token] : n \in 0..Length}
      /\ reply \in IF engine = "hypothalamus" THEN Decision!Replies
                   ELSE {[form |-> "none", calls |-> <<>>]}
  BY DEF ServicesInit, Decision!Init
<1>2. UNION {[1..n -> Decision!Token] : n \in 0..Length} \subseteq Seq(Decision!Token)
  <2> SUFFICES ASSUME NEW m \in 0..Length, NEW s \in [1..m -> Decision!Token]
               PROVE  s \in Seq(Decision!Token)
    OBVIOUS
  <2> QED OBVIOUS
<1>3. [form |-> "none", calls |-> <<>>] \in Decision!Replies
  <2>1. <<>> \in [1..0 -> {"call", "nameless"}] /\ 0 \in 0..2
    OBVIOUS
  <2>2. <<>> \in UNION {[1..n -> {"call", "nameless"}] : n \in 0..2}
    BY <2>1
  <2> QED BY <2>2 DEF Decision!Replies
<1>4. text \in Seq(Decision!Token)
  <2>1. <<>> \in Seq(Decision!Token)
    OBVIOUS
  <2>2. CASE engine = "hypothalamus"
    <3>1. text = <<>>
      BY <1>1, <2>2
    <3> QED BY <2>1, <3>1
  <2>3. CASE engine # "hypothalamus"
    BY <1>1, <1>2, <2>3
  <2> QED BY <2>2, <2>3
<1> QED BY <1>1, <1>3, <1>4 DEF DecisionInv

LEMMA DecisionMoves ==
  ASSUME [ServicesNext]_servicesVars
  PROVE  Decision!Translate \/ UNCHANGED Decision!decisionVars
BY DEF ServicesNext, servicesVars, OthersStill, Moves, Decision!decisionVars,
       BufferStep, ChatStep, ReloadStep, BrowserStep, McpStep, GraphStep, SearchStep,
       DecisionStep, LifeStep, EnvStep, EngineStep, InstallStep, LlmStep, FirstStep

LEMMA DecisionGoesOn ==
  ASSUME DecisionInv, [ServicesNext]_servicesVars PROVE DecisionInv'
<1>1. CASE Decision!Translate
  BY <1>1 DEF DecisionInv, Decision!Translate
<1>2. CASE UNCHANGED Decision!decisionVars
  BY <1>2 DEF DecisionInv, Decision!decisionVars
<1> QED BY <1>1, <1>2, DecisionMoves

LEMMA DecisionLosesNothing == ASSUME DecisionInv PROVE NoCallLostSilently
<1> SUFFICES ASSUME decided.outcome # "none"
             PROVE  IF engine = "hypothalamus"
                    THEN decided.outcome = "raised" \/ decided.calls = DOMAIN reply.calls
                    ELSE /\ \A k \in decided.calls : Decision!InDecision(text, k)
                         /\ \A k \in Decision!DecisionOf(text) :
                              (text[k] = "call" /\ Decision!Enclosed(text, k)) =>
                                k \in decided.calls \/ \E b \in decided.failures : k \in b
  BY DEF NoCallLostSilently, Decision!NoCallLostSilently
<1>1. decided = IF engine = "hypothalamus" THEN Decision!TranslateReply(reply)
                ELSE Decision!Parse(text)
  BY DEF DecisionInv, Decision!NoDecision
<1>2. CASE engine = "hypothalamus"
  BY <1>1, <1>2 DEF Decision!TranslateReply, Decision!NoDecision
<1>3. CASE engine # "hypothalamus"
  BY <1>1, <1>3, ParseLosesNothing DEF DecisionInv
<1> QED BY <1>2, <1>3

LEMMA DecisionStays == ServicesSpec => []DecisionInv
<1>1. ServicesInit => DecisionInv
  BY DecisionStarts
<1>2. DecisionInv /\ [ServicesNext]_servicesVars => DecisionInv'
  BY DecisionGoesOn
<1> QED BY <1>1, <1>2, PTL DEF ServicesSpec

\* Nothing outside the decision is dispatched, and a call between tags in it
\* either is or lies in a failure Self is told of, in a response of any length;
\* the translator dispatches all its LLM listed or raises
\* (self_agent.py, action_executor.py, hypothalamus.py).
THEOREM CallsAreNotLost == ServicesSpec => []NoCallLostSilently
<1>1. DecisionInv => NoCallLostSilently
  BY DecisionLosesNothing
<1> QED BY <1>1, DecisionStays, PTL
-----------------------------------------------------------------------------
(* Types *)

\* What a call posts, beside what LlmInv says of the call.
Posting ==
  /\ cached \in BOOLEAN /\ tag.maxOutput \in Tokens \cup {Llm!Unset}
  /\ wire.max \in Tokens \cup {Llm!Unset, 4096}

LEMMA CallsAreTyped ==
  /\ ServicesInit => Posting
  /\ Posting /\ [ServicesNext]_servicesVars => Posting'
  /\ LlmInv /\ Posting => Llm!LlmTypeOK
<1>1. ASSUME ServicesInit PROVE Posting
  <2>1. /\ tag \in [defined : BOOLEAN, provider : {"anthropic", "openai_compatible"},
                    maxOutput : Tokens \cup {Llm!Unset}, mode : {"off", "low", "medium", "high"},
                    budget : Tokens \cup {Llm!Unset}, retries : Retries, extraBody : BOOLEAN]
        /\ cached = FALSE /\ wire = Llm!NoBody
    BY <1>1 DEF ServicesInit, Llm!LlmInit
  <2>2. tag.maxOutput \in Tokens \cup {Llm!Unset} BY <2>1
  <2>3. wire.max = Llm!Unset BY <2>1 DEF Llm!NoBody
  <2> QED BY <2>1, <2>2, <2>3 DEF Posting
<1>2. ASSUME Posting, Llm!LlmNext PROVE Posting'
  <2>1. tag' = tag /\ (wire' = wire \/ wire' = Llm!NoBody \/ wire' = Llm!AnthropicBody
                       \/ wire' = Llm!OpenAiBody)
    BY <1>2 DEF Llm!LlmNext, Llm!ResolveTag, Llm!BuildBody, Llm!Answered, Llm!AnsweredShort,
      Llm!Backoff, Llm!PostFails, Llm!CallAgain
  <2>2. Llm!NoBody.max = Llm!Unset BY DEF Llm!NoBody
  <2>3. Llm!OpenAiBody.max = tag.maxOutput BY DEF Llm!OpenAiBody, Llm!NoBody
  <2>4. Llm!AnthropicBody.max = Llm!MaxTokens BY DEF Llm!AnthropicBody, Llm!NoBody
  <2>5. Llm!MaxTokens \in {4096, tag.maxOutput} BY DEF Llm!MaxTokens
  <2>6. cached' \in BOOLEAN
    <3>1. cached' = cached \/ Llm!ResolveTag
      BY <1>2 DEF Llm!LlmNext, Llm!BuildBody, Llm!Answered, Llm!AnsweredShort, Llm!Backoff,
        Llm!PostFails, Llm!CallAgain
    <3>2. cached \in BOOLEAN BY <1>2 DEF Posting
    <3>3. CASE Llm!ResolveTag
      <4>1. cached' = (cached \/ tag.defined) BY <3>3 DEF Llm!ResolveTag
      <4> QED BY <4>1
    <3> QED BY <3>1, <3>2, <3>3
  <2>7. wire'.max \in Tokens \cup {Llm!Unset, 4096}
    BY <1>2, <2>1, <2>2, <2>3, <2>4, <2>5 DEF Posting
  <2> QED BY <1>2, <2>1, <2>6, <2>7 DEF Posting
<1>3. Posting /\ UNCHANGED <<tag, cached, wire>> => Posting'
  BY DEF Posting
<1>4. ASSUME LlmInv, Posting PROVE Llm!LlmTypeOK
  <2>1. llmRequest \in LlmRequest /\ LlmResult = Llm!Outcome
    BY <1>4 DEF LlmInv, LlmResult, Llm!Outcome
  <2>2. /\ llmRequest.who \in {"chat", "embed", "rerank"}
        /\ llmRequest.at \in {"resolve", "build", "post", "backoff", "done"}
        /\ llmRequest.result \in Llm!Outcome
    BY <2>1 DEF LlmRequest
  <2> QED BY <1>4, <2>2 DEF Posting, Llm!LlmTypeOK
<1> QED BY <1>1, <1>2, <1>3, <1>4, LlmMoves

\* Further types of the installer's, the environments' and the decisions' variables.
Installed ==
  /\ readable \in BOOLEAN /\ present \subseteq PipSpec /\ edits \in 0..Edits
  /\ stepped \subseteq Unit \X {"optional", "required"}

LEMMA InstallIsTyped ==
  /\ ServicesInit => Installed
  /\ InstallInv /\ Installed /\ [ServicesNext]_servicesVars => Installed'
  /\ InstallInv /\ Installed => Install!InstallTypeOK
<1>1. ServicesInit => Installed
  BY BoundsAssumption DEF ServicesInit, Install!InstallInit, Installed
<1>2. ASSUME InstallInv, Installed, Install!InstallNext PROVE Installed'
  <2>1. ASSUME NEW p \in Installer, Install!Collect(p) \/ Install!WriteInstallState(p) \/ Install!Killed(p)
        PROVE  Installed'
    BY <1>2, <2>1 DEF Installed, Install!Collect, Install!WriteInstallState, Install!Killed
  <2>2. ASSUME NEW p \in Installer, installer[p].at # "rest"
        PROVE  /\ installer[p].found.pip \subseteq PipSpec
               /\ installer[p].found.post \subseteq Unit \X {"optional", "required"}
               /\ \A u \in installer[p].left : \E x \in installer[p].found.post : x[1] = u
    BY <1>2, <2>2 DEF InstallInv, UnderWay, Collected
  <2>3. ASSUME NEW p \in Installer, Install!PipInstalls(p) \/ Install!PipFails(p) PROVE Installed'
    <3>1. installer[p].at = "pip" /\ UNCHANGED <<readable, stepped, edits>>
      BY <2>3 DEF Install!PipInstalls, Install!PipFails
    <3>2. \E part \in SUBSET installer[p].found.pip : present' = present \cup part
      BY <2>3 DEF Install!PipInstalls, Install!PipFails
    <3> QED BY <1>2, <2>2, <3>1, <3>2 DEF Installed
  <2>4. ASSUME NEW p \in Installer, NEW u \in Unit, Install!RunPostInstall(p, u) PROVE Installed'
    <3> DEFINE steps == CHOOSE x \in installer[p].found.post : x[1] = u
    <3>1. /\ installer[p].at = "post" /\ u \in installer[p].left
          /\ UNCHANGED <<readable, present, edits>>
          /\ stepped' = stepped \cup {steps} \/ stepped' = stepped
      BY <2>4 DEF Install!RunPostInstall
    <3>2. steps \in installer[p].found.post
      BY <3>1, <2>2
    <3> HIDE DEF steps
    <3> QED BY <1>2, <2>2, <3>1, <3>2 DEF Installed
  <2>5. ASSUME NEW u \in Unit, NEW m \in Install!Manifest, Install!Redeclare(u, m) PROVE Installed'
    BY <1>2, <2>5, BoundsAssumption DEF Installed, Install!Redeclare
  <2>6. ASSUME Install!EditConfig PROVE Installed'
    BY <1>2, <2>6, BoundsAssumption DEF Installed, Install!EditConfig
  <2> QED BY <1>2, <2>1, <2>3, <2>4, <2>5, <2>6 DEF Install!InstallNext
<1>3. Installed /\ UNCHANGED Install!installVars => Installed'
  BY DEF Installed, Install!installVars
<1>4. ASSUME InstallInv, Installed PROVE Install!InstallTypeOK
  BY <1>4 DEF InstallInv, InstallTypes, Installed, Install!InstallTypeOK
<1> QED BY <1>1, <1>2, <1>3, <1>4, InstallMoves

Housed ==
  /\ section \in Env!Sections /\ token \in 0..1
  /\ guest \in [token : 0..2, up : BOOLEAN]
  /\ phase \in {"stopped", "composed", "running"} /\ starts \in 0..Starts
  /\ registered \subseteq {"local", "sandbox"}
  /\ envStatus \in {"none", "ok", "unconfigured", "unreachable", "token_mismatch", "error"}

LEMMA EnvIsTyped ==
  /\ ServicesInit => Housed
  /\ Housed /\ [ServicesNext]_servicesVars => Housed'
  /\ EnvInv /\ Housed => Env!EnvTypeOK
<1>0. Starts \in Nat
  BY BoundsAssumption
<1>1. ServicesInit => Housed
  BY <1>0 DEF ServicesInit, Env!Init, Housed
<1>2. ASSUME Housed, Env!EnvNext PROVE Housed'
  <2>1. CASE Env!Compose
    <3>1. /\ phase' = "composed" /\ section' = section /\ token' \in {1, token}
          /\ starts < Starts /\ starts' = starts + 1
          /\ guest' = guest \/ guest' = [guest EXCEPT !.up = TRUE]
          /\ registered' = {"local"} \cup {e \in {"sandbox"} : Env!Provider /\ token # 0}
          /\ envStatus' \in {"none", "unconfigured"}
      BY <2>1 DEF Env!Compose, Env!GenerateToken, Env!EnsureContainer
    <3>2. starts' \in 0..Starts
      BY <1>0, <1>2, <3>1 DEF Housed
    <3>3. guest' \in [token : 0..2, up : BOOLEAN]
      BY <1>2, <3>1 DEF Housed
    <3> QED BY <1>2, <3>1, <3>2, <3>3 DEF Housed
  <2>2. CASE Env!Preflight
    <3>1. /\ phase' = "running" /\ UNCHANGED <<section, token, starts, guest>>
          /\ registered' \subseteq registered
          /\ envStatus' \in Env!Health \cup {envStatus}
      BY <2>2 DEF Env!Preflight
    <3>2. Env!Health \subseteq {"ok", "unreachable", "token_mismatch", "error"}
      BY DEF Env!Health
    <3> QED BY <1>2, <3>1, <3>2 DEF Housed
  <2>3. CASE Env!Stop
    BY <1>2, <2>3 DEF Housed, Env!Stop
  <2>4. CASE Env!Provision
    BY <1>2, <2>4 DEF Housed, Env!Provision, Env!host
  <2>5. CASE Env!GuestDown
    BY <1>2, <2>5 DEF Housed, Env!GuestDown, Env!host
  <2>6. ASSUME NEW c \in ShellCommand, Env!Call(c) PROVE Housed'
    <3>1. UNCHANGED <<section, token, phase, starts, registered, envStatus, guest>>
      BY <2>6 DEF Env!Call, Env!Refuse, Env!Deny, Env!RunLocal, Env!CannotRun, Env!CommandEnds,
        Env!HeirsMove, Env!KillTooLate, Env!LocalOutput, Env!LocalTimeout, Env!LocalTimedOut, Env!PostExec, Env!GuestTimeout,
        Env!GuestReply, Env!Unavailable, Env!host
    <3> QED BY <1>2, <3>1 DEF Housed
  <2> QED BY <1>2, <2>1, <2>2, <2>3, <2>4, <2>5, <2>6 DEF Env!EnvNext
<1>3. Housed /\ UNCHANGED Env!envVars => Housed'
  BY DEF Housed, Env!envVars, Env!host
<1>4. EnvInv /\ Housed => Env!EnvTypeOK
  BY DEF EnvInv, ExecStates, Answers, Housed, Env!EnvTypeOK
<1> QED BY <1>1, <1>2, <1>3, <1>4, EnvMoves

LEMMA ResolutionIsTyped == EngineInv => Engine!ResolutionTypeOK
<1> SUFFICES ASSUME EngineInv PROVE Engine!ResolutionTypeOK
  OBVIOUS
<1>1. site \in Engine!Sites
  BY DEF EngineInv
<1>2. Engine!Resolve(site).outcome \in {"built", "raised"}
  <2> DEFINE w == Engine!Wanted(site)
             class == Engine!ClassFor(site, w)
             taken == Engine!SettingsFor(site, w)
             unread == Engine!ByCatalog(site) /\ site.file = "undecodable"
             bare == Engine!ByCatalog(site) /\ Engine!Damaged(site) /\ ~ site.table
             outside == class \in Engine!Outside /\ ~ site.conforms
  <2>1. Engine!Resolve(site) =
          CASE unread -> Engine!Raised("undecoded")
            [] bare -> Engine!Raised("uncatalogued")
            [] class = "none" -> Engine!Raised("unusable")
            [] outside -> Engine!Raised("unfit")
            [] OTHER -> [outcome |-> "built", class |-> class, settings |-> taken]
    BY DEF Engine!Resolve
  <2>2. \A what : Engine!Raised(what).outcome = "raised"
    BY DEF Engine!Raised
  <2> HIDE DEF w, class, taken, unread, bare, outside
  <2>3. CASE unread \/ bare \/ class = "none" \/ outside
    BY <2>1, <2>2, <2>3
  <2>4. CASE ~ unread /\ ~ bare /\ class # "none" /\ ~ outside
    BY <2>1, <2>4
  <2> QED BY <2>3, <2>4
<1>3. resolution.outcome \in {"none", "built", "raised"}
  BY <1>2 DEF EngineInv
<1> QED BY <1>1, <1>3 DEF Engine!ResolutionTypeOK

LEMMA DecisionIsTyped == DecisionInv => Decision!DecisionTypeOK
<1> SUFFICES ASSUME DecisionInv PROVE Decision!DecisionTypeOK
  OBVIOUS
<1>1. /\ engine \in {"tool_call_parser", "hypothalamus"} /\ text \in Seq(Decision!Token)
      /\ reply \in Decision!Replies
  BY DEF DecisionInv
<1>2. CASE decided = Decision!NoDecision
  BY <1>1, <1>2 DEF Decision!DecisionTypeOK, Decision!NoDecision
<1>3. CASE engine = "hypothalamus" /\ decided = Decision!TranslateReply(reply)
  <2>1. decided.outcome \in {"decided", "raised"} /\ decided.calls \in {{}, DOMAIN reply.calls}
    BY <1>3 DEF Decision!TranslateReply, Decision!NoDecision
  <2> QED BY <1>1, <2>1 DEF Decision!DecisionTypeOK
<1>4. CASE decided = Decision!Parse(text)
  <2>1. decided.calls \subseteq Decision!DecisionOf(text) /\ Decision!DecisionOf(text) \subseteq DOMAIN text
    BY <1>1, <1>4, ParseLosesNothing, DecisionIsAStretch
  <2>2. decided.outcome = "decided"
    BY <1>4 DEF Decision!Parse
  <2> QED BY <1>1, <2>1, <2>2 DEF Decision!DecisionTypeOK
<1> QED BY <1>2, <1>3, <1>4 DEF DecisionInv

\* The processes and their files, launched one at a time or not.
Processes ==
  /\ LifeTypes /\ wanted \subseteq Life!Pid
  /\ pausefile \in {"absent", "forever", "until", "expired"}

LEMMA ProcessesMove ==
  ASSUME Processes, Life!LifeNext PROVE Processes'
<1> USE DEF Processes, LifeTypes, Up, Entering
<1>1. ASSUME NEW t \in Terminal, Life!Command(t) PROVE Processes'
  <2>1. ASSUME NEW o \in {"stop", "pause", "resume"}, Life!Type(t, o) PROVE Processes'
    BY <2>1 DEF Life!Type
  <2>2. CASE Life!FoundStale(t)
    BY <2>2 DEF Life!FoundStale, Life!Prompt
  <2>3. CASE Life!Terminate(t)
    BY <2>3 DEF Life!Terminate
  <2>4. CASE Life!StopDone(t)
    BY <2>4 DEF Life!StopDone, Life!Prompt
  <2>5. CASE Life!ClearPause(t)
    BY <2>5 DEF Life!ClearPause, Life!Prompt
  <2>6. ASSUME NEW content \in {"forever", "until"}, Life!WritePause(t, content) PROVE Processes'
    BY <2>6 DEF Life!WritePause, Life!Prompt
  <2> QED BY <1>1, <2>1, <2>2, <2>3, <2>4, <2>5, <2>6 DEF Life!Command
<1>2. ASSUME NEW p \in Life!Pid, Life!Launching(p) PROVE Processes'
  <2>1. CASE Life!Launch(p)
    BY <2>1 DEF Life!Launch
  <2>2. CASE Life!CheckPidfile(p)
    BY <2>2 DEF Life!CheckPidfile
  <2>3. CASE Life!PreparePauseFile(p)
    BY <2>3 DEF Life!PreparePauseFile, Life!Prepared
  <2>4. CASE Life!WritePidfile(p)
    BY <2>4 DEF Life!WritePidfile
  <2> QED BY <1>2, <2>1, <2>2, <2>3, <2>4 DEF Life!Launching
<1>3. ASSUME NEW p \in Life!Pid, Life!Loop(p) PROVE Processes'
  <2>1. CASE Life!Poll(p)
    BY <2>1 DEF Life!Poll
  <2>2. CASE Life!UnlinkExpired(p)
    BY <2>2 DEF Life!UnlinkExpired
  <2>3. CASE Life!LeaveLoop(p)
    BY <2>3 DEF Life!LeaveLoop
  <2>4. CASE Life!Exit(p)
    BY <2>4 DEF Life!Exit
  <2> QED BY <1>3, <2>1, <2>2, <2>3, <2>4 DEF Life!Loop
<1>4. ASSUME NEW p \in Life!Pid, Life!Mishap(p) \/ Life!LeaveToSuccessor(p) PROVE Processes'
  <2>1. CASE Life!Interrupt(p)
    BY <2>1 DEF Life!Interrupt
  <2>2. CASE Life!HangUp(p)
    BY <2>2 DEF Life!HangUp
  <2>3. CASE Life!Crash(p)
    BY <2>3 DEF Life!Crash
  <2>4. CASE Life!LeaveToSuccessor(p)
    BY <2>4 DEF Life!LeaveToSuccessor
  <2> QED BY <1>4, <2>1, <2>2, <2>3, <2>4 DEF Life!Mishap
<1>5. ASSUME NEW p \in Life!Pid, NEW q \in Life!Pid, Life!SpawnSuccessor(p, q) PROVE Processes'
  BY <1>5 DEF Life!SpawnSuccessor
<1>6. CASE Life!DeadlinePasses
  BY <1>6 DEF Life!DeadlinePasses
<1> QED BY <1>1, <1>2, <1>3, <1>4, <1>5, <1>6 DEF Life!LifeNext

LEMMA LifeIsTyped ==
  /\ ServicesInit => Processes
  /\ Processes /\ [ServicesNext]_servicesVars => Processes'
  /\ Processes => Life!LifeTypeOK
<1>1. ServicesInit => Processes
  BY LifeStarts DEF ServicesInit, Life!Init, LifeInv, LaunchInv, Processes
<1>2. Processes /\ UNCHANGED Life!lifeVars => Processes'
  BY DEF Processes, LifeTypes, Life!lifeVars
<1>3. Processes => Life!LifeTypeOK
  BY DEF Processes, LifeTypes, Up, Entering, Life!LifeTypeOK
<1> QED BY <1>1, <1>2, <1>3, LifeMoves, ProcessesMove

\* The clock names the backups, and at most KeepLast of them stay.
Backup == [second : 0..Seconds, content : First!Content]
SecondsApart(B) == \A b, c \in B : b.second = c.second => b = c

Filed ==
  /\ written \in 1..Editions
  /\ central \in First!Content /\ form \in First!Content /\ held \in First!Content
  /\ second \in 0..Seconds
  /\ backups \subseteq Backup /\ SecondsApart(backups)
  /\ IsFiniteSet(backups) /\ Cardinality(backups) <= KeepLast
  /\ replaced \in Seq(First!Content) /\ Len(replaced) <= KeepLast
  /\ alive \in {"down", "up", "bare"} /\ boot \in {"none", "active", "removing", "done"}
  /\ overtaken \in BOOLEAN
  /\ model \in [identity : (SUBSET First!Field) \cup {{"text"}}, complete : BOOLEAN]

\* Of files with different seconds, fewer are newer than the oldest kept one than
\* may be kept, and these are all the others.
LEMMA OldestGo ==
  ASSUME NEW B, B \subseteq Backup, SecondsApart(B), IsFiniteSet(B)
  PROVE  LET kept == {b \in B : Cardinality({c \in B : c.second > b.second}) < KeepLast} IN
         IsFiniteSet(kept) /\ Cardinality(kept) <= KeepLast
<1> DEFINE newer(b) == {c \in B : c.second > b.second}
           kept == {b \in B : Cardinality(newer(b)) < KeepLast}
<1>0. KeepLast \in Nat /\ Seconds \in Nat
  BY BoundsAssumption
<1>1. kept \subseteq B /\ IsFiniteSet(kept)
  BY FS_Subset
<1>2. CASE kept = {}
  <2>1. Cardinality(kept) <= KeepLast
    <3> HIDE DEF kept
    <3>1. Cardinality(kept) = 0 BY <1>2, FS_EmptySet
    <3> QED BY <1>0, <3>1
  <2> QED BY <1>1, <2>1
<1>3. CASE kept # {}
  <2> DEFINE seconds == {b.second : b \in kept}
  <2>1. seconds \subseteq Nat /\ seconds # {}
    <3>1. \A b \in B : b.second \in Nat BY <1>0 DEF Backup
    <3> HIDE DEF kept
    <3> QED BY <1>1, <1>3, <3>1
  <2>2. \E k \in seconds : \A j \in seconds : k <= j
    <3> HIDE DEF seconds
    <3> QED BY <2>1, Least
  <2>3. PICK b \in kept : \A c \in kept : b.second <= c.second
    BY <2>2
  <2>4. ASSUME NEW c \in kept, c # b PROVE c \in newer(b)
    <3>1. b \in B /\ c \in B /\ b.second \in Nat /\ c.second \in Nat /\ b.second # c.second
      BY <1>0, <1>1, <2>4 DEF SecondsApart, Backup
    <3> QED BY <2>3, <3>1
  <2>5. IsFiniteSet(newer(b)) /\ Cardinality(newer(b)) \in Nat /\ Cardinality(newer(b)) < KeepLast
    <3>1. IsFiniteSet(newer(b)) BY FS_Subset
    <3> QED BY <3>1, FS_CardinalityType
  <2>6. Cardinality(kept \ {b}) <= Cardinality(newer(b))
    <3>1. kept \ {b} \subseteq newer(b) BY <2>4
    <3> HIDE DEF newer, kept
    <3> QED BY <2>5, <3>1, FS_Subset
  <2>7. Cardinality(kept \ {b}) = Cardinality(kept) - 1 /\ Cardinality(kept) \in Nat
    <3> HIDE DEF kept
    <3> QED BY <1>1, FS_RemoveElement, FS_CardinalityType
  <2>8. Cardinality(kept) <= KeepLast
    <3> DEFINE n == Cardinality(newer(b))
               m == Cardinality(kept \ {b})
               k == Cardinality(kept)
    <3>1. n \in Nat /\ n < KeepLast /\ m <= n /\ m = k - 1 /\ k \in Nat
      BY <2>5, <2>6, <2>7
    <3> HIDE DEF n, m, k
    <3>2. k <= KeepLast BY <1>0, <3>1
    <3> QED BY <3>2 DEF k
  <2> QED BY <1>1, <2>8
<1> QED BY <1>2, <1>3

LEMMA BackupsAreFew ==
  ASSUME Filed
  PROVE  /\ First!BackedUp \subseteq Backup /\ SecondsApart(First!BackedUp)
         /\ IsFiniteSet(First!BackedUp) /\ Cardinality(First!BackedUp) <= KeepLast
<1> DEFINE now == [second |-> second, content |-> central]
           all == {b \in backups : b.second # second} \cup {now}
           kept == {b \in all : Cardinality({c \in all : c.second > b.second}) < KeepLast}
<1>1. First!BackedUp = kept
  BY SameFiles DEF First!BackedUp
<1>2. now \in Backup /\ now.second = second
  BY DEF Filed, Backup
<1>3. all \subseteq Backup
  BY <1>2 DEF Filed
<1>4. SecondsApart(all)
  BY <1>2 DEF Filed, SecondsApart
<1>5. IsFiniteSet(all)
  <2>1. IsFiniteSet({b \in backups : b.second # second})
    BY FS_Subset DEF Filed
  <2> QED BY <2>1, FS_AddElement
<1>6. kept \subseteq all
  OBVIOUS
<1>7. IsFiniteSet(kept) /\ Cardinality(kept) <= KeepLast
  <2> HIDE DEF all
  <2> QED BY <1>3, <1>4, <1>5, OldestGo
<1> HIDE DEF all, kept
<1> QED BY <1>1, <1>3, <1>4, <1>6, <1>7 DEF SecondsApart

LEMMA ReplacedAreFew ==
  ASSUME Filed
  PROVE  First!Remembered \in Seq(First!Content) /\ Len(First!Remembered) <= KeepLast
<1> DEFINE all == Append(replaced, central)
           from == IF Len(all) > KeepLast THEN 2 ELSE 1
<1>0. KeepLast \in Nat
  BY BoundsAssumption
<1>1. all \in Seq(First!Content) /\ Len(all) = Len(replaced) + 1 /\ Len(replaced) \in Nat
      /\ Len(replaced) <= KeepLast
  BY DEF Filed
<1>2. First!Remembered = SubSeq(all, from, Len(all))
  BY DEF First!Remembered
<1> HIDE DEF all
<1>3. from \in 1..(Len(all) + 1) /\ Len(all) - from + 1 <= KeepLast
  BY <1>0, <1>1
<1> HIDE DEF from
<1>4. SubSeq(all, from, Len(all)) \in Seq(First!Content)
      /\ Len(SubSeq(all, from, Len(all))) = Len(all) - from + 1
  BY <1>1, <1>3
<1> QED BY <1>2, <1>3, <1>4

LEMMA FilesAreTyped ==
  ASSUME Filed, First!BootNext PROVE Filed'
<1>0. KeepLast \in Nat /\ Seconds \in Nat /\ Editions \in Nat
  BY BoundsAssumption
<1> DEFINE Backed == \/ UNCHANGED backups
                     \/ backups' = First!BackedUp
           Stored == \/ UNCHANGED replaced
                     \/ replaced' = First!Remembered
<1>1. ASSUME Backed
      PROVE  /\ backups' \subseteq Backup /\ SecondsApart(backups')
             /\ IsFiniteSet(backups') /\ Cardinality(backups') <= KeepLast
  BY <1>1, BackupsAreFew DEF Filed
<1>2. ASSUME Stored PROVE replaced' \in Seq(First!Content) /\ Len(replaced') <= KeepLast
  BY <1>2, ReplacedAreFew DEF Filed
<1>3. First!Blank \in First!Content
  BY <1>0 DEF First!Blank, First!Content
<1>4. ASSUME NEW content \in First!Content, First!Rewritten(content)
      PROVE  /\ written' \in 1..Editions /\ central' \in First!Content /\ overtaken' \in BOOLEAN
             /\ backups' = First!BackedUp
  <2>1. /\ written < Editions /\ written' = written + 1 /\ backups' = First!BackedUp
        /\ central' = content
    BY <1>4 DEF First!Rewritten
  <2>2. written' \in 1..Editions
    BY <1>0, <2>1 DEF Filed
  <2>3. overtaken' \in BOOLEAN
    <3>1. overtaken' = (overtaken \/ boot = "removing") BY <1>4 DEF First!Rewritten
    <3> QED BY <3>1
  <2> QED BY <2>1, <2>2, <2>3
<1>5. CASE First!SaveSettings \/ First!Onboard
  <2>1. \E content \in First!Content : First!Rewritten(content) /\ form' \in {form, content}
    <3>1. written < Editions
      BY <1>5 DEF First!SaveSettings, First!Onboard, First!Rewritten
    <3>2. written + 1 \in 1..Editions
      BY <1>0, <3>1 DEF Filed
    <3>3. CASE First!SaveSettings
      <4>1. PICK box \in BOOLEAN :
              /\ form' = [listed |-> box, from |-> form.from \cup {written + 1}]
              /\ First!Rewritten(form')
        BY <3>3 DEF First!SaveSettings
      <4>2. form' \in First!Content
        <5>1. form.from \subseteq 1..Editions
          BY DEF Filed, First!Content
        <5> QED BY <3>2, <4>1, <5>1 DEF First!Content
      <4> QED BY <4>1, <4>2
    <3>4. CASE First!Onboard
      <4>1. PICK box \in BOOLEAN : First!Rewritten([listed |-> box, from |-> {written + 1}])
        BY <3>4 DEF First!Onboard
      <4>2. [listed |-> box, from |-> {written + 1}] \in First!Content
        BY <3>2 DEF First!Content
      <4>3. form' = form
        BY <3>4 DEF First!Onboard
      <4> QED BY <4>1, <4>2, <4>3
    <3> QED BY <1>5, <3>3, <3>4
  <2>2. Stored /\ UNCHANGED <<second, alive, boot, held, model>>
    BY <1>5 DEF First!SaveSettings, First!Onboard
  <2>3. PICK content \in First!Content : First!Rewritten(content) /\ form' \in {form, content}
    BY <2>1
  <2>4. Backed
    BY <1>4, <2>3
  <2>5. form' \in First!Content
    BY <2>3 DEF Filed
  <2> HIDE DEF Backed, Stored
  <2> QED BY <1>1, <1>2, <1>4, <2>2, <2>3, <2>4, <2>5 DEF Filed
<1>17. CASE First!OpenSettings
  BY <1>17 DEF First!OpenSettings, Filed
<1>6. CASE First!Restore
  <2>1. central' \in First!Content
    BY <1>6 DEF First!Restore, Filed, Backup
  <2> QED BY <1>6, <2>1 DEF First!Restore, Filed
<1>7. CASE First!Tick
  BY <1>0, <1>7 DEF First!Tick, Filed
<1>8. CASE First!Start
  <2>1. Backed /\ Stored /\ UNCHANGED <<central, form, written, second, held, overtaken, model>>
    BY <1>8 DEF First!Start
  <2>2. alive' \in {"bare", "up"} /\ boot' \in {"active", "none"}
    BY <1>8 DEF First!Start
  <2> HIDE DEF Backed, Stored
  <2> QED BY <1>1, <1>2, <2>1, <2>2 DEF Filed
<1>9. ASSUME First!Down PROVE /\ alive' = "down" /\ boot' = "none" /\ held' \in First!Content
                              /\ overtaken' \in BOOLEAN
  BY <1>3, <1>9 DEF First!Down
<1>10. CASE First!Exit
  <2>1. First!Down /\ UNCHANGED <<central, form, written, backups, replaced, second, model>>
    BY <1>10 DEF First!Exit, First!files
  <2> QED BY <1>9, <2>1 DEF Filed
<1>11. CASE First!TornConfig
  <2>1. /\ First!Down /\ central' = First!Blank /\ UNCHANGED <<form, written, second, model>>
        /\ Backed /\ Stored
    BY <1>11 DEF First!TornConfig
  <2> HIDE DEF Backed, Stored
  <2> QED BY <1>1, <1>2, <1>3, <1>9, <2>1 DEF Filed
<1>12. CASE First!TornModel
  <2>1. First!Down /\ UNCHANGED <<central, form, written, backups, replaced, second>>
    BY <1>12 DEF First!TornModel, First!files
  <2>2. model' = [identity |-> {}, complete |-> FALSE]
    BY <1>12 DEF First!TornModel
  <2>3. model' \in [identity : (SUBSET First!Field) \cup {{"text"}}, complete : BOOLEAN]
    BY <2>2
  <2> QED BY <1>9, <2>1, <2>3 DEF Filed
<1>13. \A i \in First!AfterNote : i \in (SUBSET First!Field) \cup {{"text"}}
  <2>1. model.identity \in (SUBSET First!Field) \cup {{"text"}}
    BY DEF Filed
  <2>2. ASSUME NEW f \in SUBSET First!Field, NEW c \in SUBSET First!Field
        PROVE  First!Merged(model.identity, f, c) \in SUBSET First!Field
    <3>1. First!Merged(model.identity, f, c) = (model.identity \ (c \cup {"text"})) \cup f
      BY DEF First!Merged
    <3>2. CASE model.identity = {"text"}
      BY <3>1, <3>2
    <3>3. CASE model.identity \subseteq First!Field
      BY <3>1, <3>3
    <3> QED BY <2>1, <3>2, <3>3
  <2>3. First!AfterNote = {model.identity, {"text"}}
          \cup {First!Merged(model.identity, f, c) : f \in SUBSET First!Field, c \in SUBSET First!Field}
    BY DEF First!AfterNote
  <2>4. ASSUME NEW i \in First!AfterNote PROVE i \in (SUBSET First!Field) \cup {{"text"}}
    <3>1. CASE i \in {model.identity, {"text"}}
      BY <2>1, <3>1
    <3>2. CASE i \notin {model.identity, {"text"}}
      <4>1. PICK f \in SUBSET First!Field, c \in SUBSET First!Field : i = First!Merged(model.identity, f, c)
        BY <2>3, <2>4, <3>2
      <4> QED BY <2>2, <4>1
    <3> QED BY <3>1, <3>2
  <2> QED BY <2>4
<1>14. CASE First!NoteUnfinished \/ First!CompletionFails
  <2>1. /\ \E i \in First!AfterNote : model' = [model EXCEPT !.identity = i]
        /\ UNCHANGED <<central, form, written, backups, replaced, second, alive, boot, held, overtaken>>
    BY <1>14 DEF First!NoteUnfinished, First!CompletionFails, First!files
  <2>2. model' \in [identity : (SUBSET First!Field) \cup {{"text"}}, complete : BOOLEAN]
    BY <1>13, <2>1 DEF Filed
  <2> QED BY <2>1, <2>2 DEF Filed
<1>15. CASE First!Complete
  <2>1. /\ \E i \in First!AfterNote : model' = [identity |-> i, complete |-> TRUE]
        /\ boot' = "removing" /\ held' = central
        /\ UNCHANGED <<central, form, written, backups, replaced, second, alive, overtaken>>
    BY <1>15 DEF First!Complete, First!files
  <2>2. model' \in [identity : (SUBSET First!Field) \cup {{"text"}}, complete : BOOLEAN]
    BY <1>13, <2>1
  <2> QED BY <2>1, <2>2 DEF Filed
<1>16. CASE First!Removes
  <2>1. /\ central' \in {First!Removed, central}
        /\ boot' = "done" /\ held' = First!Blank /\ overtaken' = FALSE
        /\ UNCHANGED <<form, written, backups, replaced, second, alive, model>>
    BY <1>16 DEF First!Removes
  <2>2. First!Removed \in First!Content
    BY DEF First!Removed, First!Content, Filed
  <2> QED BY <1>3, <2>1, <2>2 DEF Filed
<1> QED BY <1>17, <1>5, <1>6, <1>7, <1>8, <1>10, <1>11, <1>12, <1>14, <1>15, <1>16 DEF First!BootNext

LEMMA BootIsTyped ==
  /\ ServicesInit => Filed
  /\ Filed /\ [ServicesNext]_servicesVars => Filed'
  /\ Filed => First!BootTypeOK
<1>0. KeepLast \in Nat /\ Seconds \in Nat /\ Editions \in Nat \ {0}
  BY BoundsAssumption
<1>1. ASSUME ServicesInit PROVE Filed
  <2>1. First!BootInit BY <1>1 DEF ServicesInit
  <2>2. central \in First!Content /\ form \in First!Content /\ held \in First!Content
    BY <1>0, <2>1 DEF First!BootInit, First!Content, First!Blank
  <2>3. IsFiniteSet(backups) /\ Cardinality(backups) = 0 /\ backups \subseteq Backup /\ SecondsApart(backups)
    BY <2>1, FS_EmptySet DEF First!BootInit, SecondsApart
  <2>4. replaced \in Seq(First!Content) /\ Len(replaced) = 0
    <3>1. <<>> \in Seq(First!Content) /\ Len(<<>>) = 0 OBVIOUS
    <3> QED BY <2>1, <3>1 DEF First!BootInit
  <2>5. model \in [identity : (SUBSET First!Field) \cup {{"text"}}, complete : BOOLEAN]
    BY <2>1 DEF First!BootInit
  <2>6. written \in 1..Editions /\ second \in 0..Seconds
    BY <1>0, <2>1 DEF First!BootInit
  <2>7. Cardinality(backups) <= KeepLast /\ Len(replaced) <= KeepLast
    BY <1>0, <2>3, <2>4
  <2>8. alive = "down" /\ boot = "none" /\ overtaken = FALSE
    BY <2>1 DEF First!BootInit
  <2> QED BY <2>2, <2>3, <2>4, <2>5, <2>6, <2>7, <2>8 DEF Filed
<1>2. Filed /\ UNCHANGED First!bootVars => Filed'
  BY DEF Filed, First!bootVars
<1>3. ASSUME Filed PROVE First!BootTypeOK
  <2>1. Cardinality(backups) <= KeepLast /\ First!Cardinality(backups) = Cardinality(backups)
    BY <1>3, SameFiles DEF Filed
  <2>2. \A b \in backups : b.second \in 0..Seconds /\ b.content \in First!Content
    BY <1>3 DEF Filed, Backup
  <2>3. written \in 0..Editions
    BY <1>0, <1>3 DEF Filed
  <2>4. model.identity \in (SUBSET First!Field) \cup {{"text"}} /\ model.complete \in BOOLEAN
    BY <1>3 DEF Filed
  <2> QED BY <1>3, <2>1, <2>2, <2>3, <2>4 DEF Filed, First!BootTypeOK
<1> QED BY <1>1, <1>2, <1>3, BootMoves, FilesAreTyped

LEMMA BufferMoves ==
  ASSUME [ServicesNext]_servicesVars PROVE [Next]_bufferVars
<1>1. CASE UNCHANGED servicesVars BY <1>1 DEF servicesVars, bufferVars
<1>2. CASE ServicesNext
  <2>1. CASE BufferStep BY <2>1 DEF BufferStep
  <2>2. CASE ~ BufferStep
    BY <1>2, <2>2 DEF ServicesNext, ChatStep, ReloadStep, BrowserStep, McpStep, GraphStep,
      SearchStep, DecisionStep, LifeStep, EnvStep, EngineStep, InstallStep, LlmStep,
      FirstStep, OthersStill, Moves
  <2> QED BY <2>1, <2>2
<1> QED BY <1>1, <1>2

\* Whichever component moves, every one keeps its types, for every value of the
\* constants: counters stay in their ranges, and what a record refers to is there.
THEOREM TypesAreKept == ServicesSpec => []ServicesTypeOK
<1>1. ServicesSpec => []TypeOK
  <2>1. ServicesInit => Exact
    BY InitExact DEF ServicesInit
  <2>2. Exact /\ [ServicesNext]_servicesVars => Exact'
    BY BufferMoves, OperationExact DEF Next
  <2>3. Exact => TypeOK
    BY DEF Exact
  <2> QED BY <2>1, <2>2, <2>3, PTL DEF ServicesSpec
<1>2. ServicesSpec => []Llm!LlmTypeOK
  BY LlmStays, CallsAreTyped, PTL DEF ServicesSpec
<1>3. ServicesSpec => []Install!InstallTypeOK
  BY InstallStays, InstallIsTyped, PTL DEF ServicesSpec
<1>4. ServicesSpec => []Env!EnvTypeOK
  BY EnvStays, EnvIsTyped, PTL DEF ServicesSpec
<1>5. ServicesSpec => []Engine!ResolutionTypeOK
  BY EngineStays, ResolutionIsTyped, PTL
<1>6. ServicesSpec => []Decision!DecisionTypeOK
  BY DecisionStays, DecisionIsTyped, PTL
<1>7. ServicesSpec => []Life!LifeTypeOK
  BY LifeIsTyped, PTL DEF ServicesSpec
<1>8. ServicesSpec => []First!BootTypeOK
  BY BootIsTyped, PTL DEF ServicesSpec
<1>9. ServicesSpec => [](/\ TypeOK /\ Llm!LlmTypeOK /\ Install!InstallTypeOK /\ Env!EnvTypeOK
                         /\ Engine!ResolutionTypeOK /\ Decision!DecisionTypeOK
                         /\ Life!LifeTypeOK /\ First!BootTypeOK)
  BY <1>1, <1>2, <1>3, <1>4, <1>5, <1>6, <1>7, <1>8, PTL
<1> QED BY <1>9, ToolTypesAreKept, ChatTypesAreKept, PTL DEF ServicesTypeOK

=============================================================================
