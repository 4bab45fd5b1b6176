----------------------- MODULE StimulusBuffer_proofs -----------------------
(***************************************************************************)
(* The two events of the stimulus buffer say exactly what is in the list,  *)
(* for every set of stimuli and a list of any length; and, for the modules *)
(* that extend this one, what takes the place of induction.                *)
(***************************************************************************)
EXTENDS StimulusBuffer, WellFoundedInduction, TLAPS

-----------------------------------------------------------------------------
(* Recursion and induction: a least counterexample instead of a predicate  *)
(* as a parameter.                                                         *)

\* A set of naturals has a least element.
LEMMA Least ==
  ASSUME NEW S, S \subseteq Nat, S # {}
  PROVE  \E n \in S : \A m \in S : n <= m
<1>1. PICK n \in S : \A m \in S : ~ (<<m, n>> \in OpToRel(<, Nat))
  BY NatLessThanWellFounded, WFMin
<1>2. \A m \in S : ~ (m < n)
  BY <1>1 DEF OpToRel
<1> QED  BY <1>2

\* g is what n steps of F make of x.
Iterates(g, V, x, F, n) ==
  g \in [0..n -> V] /\ g[0] = x /\ \A k \in 1..n : g[k] = F[<<k, g[k - 1]>>]

\* A number of steps can be taken one after the other.
LEMMA Iteration ==
  ASSUME NEW V, NEW x \in V, NEW F \in [Nat \X V -> V], NEW n \in Nat
  PROVE  \E g : Iterates(g, V, x, F, n)
<1> DEFINE Steps(m, g) == g[0] = x /\ \A k \in 1..m : g[k] = F[<<k, g[k - 1]>>]
           Bad == {m \in Nat : ~ \E g \in [0..m -> V] : Steps(m, g)}
<1>1. 0 \notin Bad
  <2> DEFINE g == [k \in 0..0 |-> x]
  <2>1. g \in [0..0 -> V] /\ Steps(0, g)
    OBVIOUS
  <2> QED BY <2>1
<1>2. ASSUME NEW m \in Nat, m \notin Bad PROVE m + 1 \notin Bad
  <2>1. PICK g \in [0..m -> V] : Steps(m, g)
    BY <1>2
  <2> DEFINE h == [k \in 0..(m + 1) |-> IF k <= m THEN g[k] ELSE F[<<m + 1, g[m]>>]]
  <2>2. F[<<m + 1, g[m]>>] \in V
    OBVIOUS
  <2>3. /\ h \in [0..(m + 1) -> V] /\ \A k \in 0..m : h[k] = g[k]
        /\ h[m + 1] = F[<<m + 1, g[m]>>]
    BY <2>2
  <2> HIDE DEF h
  <2>4. ASSUME NEW k \in 1..(m + 1) PROVE h[k] = F[<<k, h[k - 1]>>]
    <3>1. CASE k = m + 1
      BY <3>1, <2>3
    <3>2. CASE k # m + 1
      <4>1. k \in 1..m /\ k \in 0..m /\ k - 1 \in 0..m
        BY <3>2
      <4> QED BY <4>1, <2>1, <2>3
    <3> QED BY <3>1, <3>2
  <2>5. Steps(m + 1, h)
    BY <2>1, <2>3, <2>4
  <2> QED BY <2>3, <2>5
<1>3. Bad = {}
  <2> SUFFICES ASSUME Bad # {} PROVE FALSE
    OBVIOUS
  <2>1. Bad \subseteq Nat
    OBVIOUS
  <2> HIDE DEF Bad
  <2>2. PICK m \in Bad : \A k \in Bad : m <= k
    BY <2>1, Least
  <2>3. m - 1 \in Nat /\ m - 1 \notin Bad
    BY <2>1, <2>2, <1>1
  <2> QED BY <2>1, <2>2, <2>3, <1>2
<1> QED BY <1>3 DEF Iterates

\* What holds of 0 and is handed on holds up to n.
LEMMA UpTo ==
  ASSUME NEW n \in Nat, NEW Good, 0 \in Good,
         \A k \in 0..n : k + 1 \in 0..n /\ k \in Good => k + 1 \in Good
  PROVE  \A k \in 0..n : k \in Good
<1> DEFINE Bad == {k \in 0..n : k \notin Good}
<1>1. Bad = {}
  <2> SUFFICES ASSUME Bad # {} PROVE FALSE
    OBVIOUS
  <2>1. Bad \subseteq Nat /\ Bad \subseteq 0..n /\ 0 \notin Bad
    OBVIOUS
  <2>2. \A k \in 0..n : k \notin Bad => k \in Good
    OBVIOUS
  <2>3. \A k \in Bad : k \notin Good
    OBVIOUS
  <2> HIDE DEF Bad
  <2>4. PICK k \in Bad : \A m \in Bad : k <= m
    BY <2>1, Least
  <2>5. k - 1 \in 0..n /\ (k - 1) + 1 = k /\ k - 1 \notin Bad
    BY <2>1, <2>4
  <2> QED BY <2>1, <2>2, <2>3, <2>4, <2>5
<1> QED BY <1>1

-----------------------------------------------------------------------------
(* Lemmas *)

\* A concatenation holds something urgent iff one of its parts does.
LEMMA UrgentConcat ==
  ASSUME NEW s \in Seq(Stimulus), NEW t \in Seq(Stimulus)
  PROVE  Urgent(s \o t) <=> Urgent(s) \/ Urgent(t)
<1>1. /\ Len(s) \in Nat /\ Len(t) \in Nat
      /\ Len(s \o t) = Len(s) + Len(t)
      /\ \A i \in 1..Len(s) : (s \o t)[i] = s[i]
      /\ \A i \in 1..Len(t) : (s \o t)[Len(s) + i] = t[i]
  OBVIOUS
<1>2. ASSUME Urgent(s \o t) PROVE Urgent(s) \/ Urgent(t)
  <2>1. PICK i \in 1..Len(s \o t) : (s \o t)[i].adrenalin
    BY <1>2 DEF Urgent
  <2>2. CASE i <= Len(s)
    BY <1>1, <2>1, <2>2 DEF Urgent
  <2>3. CASE i > Len(s)
    <3>1. i - Len(s) \in 1..Len(t) /\ Len(s) + (i - Len(s)) = i
      BY <1>1, <2>1, <2>3
    <3>2. t[i - Len(s)].adrenalin
      BY <1>1, <2>1, <3>1
    <3> QED BY <3>1, <3>2 DEF Urgent
  <2> QED BY <1>1, <2>1, <2>2, <2>3
<1>3. ASSUME Urgent(s) PROVE Urgent(s \o t)
  <2>1. PICK i \in 1..Len(s) : s[i].adrenalin
    BY <1>3 DEF Urgent
  <2>2. i \in 1..Len(s \o t) /\ (s \o t)[i].adrenalin
    BY <1>1, <2>1
  <2> QED BY <2>2 DEF Urgent
<1>4. ASSUME Urgent(t) PROVE Urgent(s \o t)
  <2>1. PICK i \in 1..Len(t) : t[i].adrenalin
    BY <1>4 DEF Urgent
  <2>2. Len(s) + i \in 1..Len(s \o t) /\ (s \o t)[Len(s) + i].adrenalin
    BY <1>1, <2>1
  <2> QED BY <2>2 DEF Urgent
<1> QED BY <1>2, <1>3, <1>4

-----------------------------------------------------------------------------
(* The invariant *)

Exact == TypeOK /\ AdrenalinEventExact /\ NewEventExact

LEMMA InitExact == Init => Exact
<1> SUFFICES ASSUME Init PROVE Exact
  OBVIOUS
<1>1. queue = <<>> /\ recalledUpTo = 0 /\ ~adrenalinEvent /\ ~newEvent
  BY DEF Init
<1>2. queue \in Seq(Stimulus)
  BY <1>1
<1>3. adrenalinEvent \in BOOLEAN /\ newEvent \in BOOLEAN
  BY Zenon DEF Init
<1>4. TypeOK
  BY <1>1, <1>2, <1>3 DEF TypeOK
<1>5. AdrenalinEventExact
  BY <1>1 DEF AdrenalinEventExact, Urgent
<1>6. NewEventExact
  BY <1>1 DEF NewEventExact
<1> QED BY <1>4, <1>5, <1>6 DEF Exact

\* Each of the three operations keeps the events exact.
LEMMA PushExact ==
  ASSUME Exact, NEW s \in Stimulus, Push(s)
  PROVE  Exact'
<1>1. <<s>> \in Seq(Stimulus) /\ <<s>> # <<>> /\ Len(<<s>>) = 1
  OBVIOUS
<1>2. /\ queue' = queue \o <<s>>
      /\ newEvent' = TRUE
      /\ adrenalinEvent' = (adrenalinEvent \/ Urgent(<<s>>))
      /\ recalledUpTo' = recalledUpTo
  BY <1>1 DEF Push, PushAll
<1>3. Urgent(<<s>>) \in BOOLEAN
  BY DEF Urgent
<1>4. TypeOK'
  BY <1>1, <1>2, <1>3 DEF Exact, TypeOK
<1>5. AdrenalinEventExact'
  BY <1>1, <1>2, UrgentConcat DEF Exact, TypeOK, AdrenalinEventExact
<1>6. Len(queue') = Len(queue) + 1
  BY <1>1, <1>2 DEF Exact, TypeOK
<1>7. NewEventExact'
  BY <1>2, <1>6 DEF Exact, TypeOK, NewEventExact
<1> QED BY <1>4, <1>5, <1>7 DEF Exact

LEMMA DrainExact ==
  ASSUME Exact, Drain
  PROVE  Exact'
<1>1. queue' = <<>> /\ recalledUpTo' = 0 /\ ~adrenalinEvent' /\ ~newEvent'
  BY DEF Drain
<1>2. queue' \in Seq(Stimulus)
  BY <1>1
<1>3. adrenalinEvent' \in BOOLEAN /\ newEvent' \in BOOLEAN
  BY Zenon DEF Drain
<1>4. TypeOK'
  BY <1>1, <1>2, <1>3 DEF TypeOK
<1>5. AdrenalinEventExact'
  BY <1>1 DEF AdrenalinEventExact, Urgent
<1>6. NewEventExact'
  BY <1>1 DEF NewEventExact
<1> QED BY <1>4, <1>5, <1>6 DEF Exact

LEMMA PeekExact ==
  ASSUME Exact, PeekUnrecalled
  PROVE  Exact'
<1>1. /\ recalledUpTo' = Len(queue) /\ ~newEvent'
      /\ queue' = queue /\ adrenalinEvent' = adrenalinEvent
  BY DEF PeekUnrecalled
<1>2. queue' \in Seq(Stimulus) /\ recalledUpTo' \in Nat
  BY <1>1 DEF Exact, TypeOK
<1>3. adrenalinEvent' \in BOOLEAN /\ newEvent' \in BOOLEAN
  BY Zenon DEF PeekUnrecalled, Exact, TypeOK
<1>4. TypeOK'
  BY <1>2, <1>3 DEF TypeOK
<1>5. AdrenalinEventExact'
  BY <1>1 DEF Exact, AdrenalinEventExact
<1>6. NewEventExact'
  BY <1>1, <1>2 DEF NewEventExact
<1> QED BY <1>4, <1>5, <1>6 DEF Exact

LEMMA StutterExact ==
  ASSUME Exact, UNCHANGED bufferVars
  PROVE  Exact'
BY DEF bufferVars, Exact, TypeOK, AdrenalinEventExact, NewEventExact

LEMMA OperationExact ==
  ASSUME Exact, [Operation]_bufferVars
  PROVE  Exact'
BY PushExact, DrainExact, PeekExact, StutterExact DEF Operation

\* The buffer as every module uses it, with no bound on the list.
THEOREM BufferExact == OpenSpec => []Exact
<1>1. Init => Exact
  BY InitExact
<1>2. Exact /\ [Operation]_bufferVars => Exact'
  BY OperationExact
<1> QED BY <1>1, <1>2, PTL DEF OpenSpec

\* Bounding the exploration removes behaviours and adds none.
LEMMA SpecIsOpen == Spec => OpenSpec
<1>1. [Next]_bufferVars => [Operation]_bufferVars
  BY DEF Next
<1> QED BY <1>1, PTL DEF Spec, OpenSpec

-----------------------------------------------------------------------------
(* The properties, one by one *)

\* The buffer's variables keep their types.
THEOREM TypeCorrect == Spec => []TypeOK
<1>1. Exact => TypeOK
  BY DEF Exact
<1> QED BY <1>1, BufferExact, SpecIsOpen, PTL

\* has_adrenalin answers TRUE exactly while something urgent waits.
THEOREM AdrenalinEventCorrect == Spec => []AdrenalinEventExact
<1>1. Exact => AdrenalinEventExact
  BY DEF Exact
<1> QED BY <1>1, BufferExact, SpecIsOpen, PTL

\* wait_for_any returns exactly while something has not been shown to recall.
THEOREM NewEventCorrect == Spec => []NewEventExact
<1>1. Exact => NewEventExact
  BY DEF Exact
<1> QED BY <1>1, BufferExact, SpecIsOpen, PTL

\* Both events are exact at every moment of every behaviour of the buffer.
THEOREM EventsCorrect == Spec => []EventsExact
<1>1. Exact => EventsExact
  BY DEF Exact, EventsExact
<1> QED BY <1>1, BufferExact, SpecIsOpen, PTL
=============================================================================
