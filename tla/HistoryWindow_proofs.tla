------------------------ MODULE HistoryWindow_proofs ------------------------
(***************************************************************************)
(* What leaves the history window and in which order, for any number of    *)
(* rounds of any size, any cap and any backlog on disk, whether writing    *)
(* the file fails or not, and wherever the process ends.                   *)
(***************************************************************************)
EXTENDS HistoryWindow, SequenceTheorems, TLAPS

-----------------------------------------------------------------------------
(* The invariant                                                            *)

\* Ids grow from one end of a window to the other.
Increasing(seq) == \A i, j \in 1..Len(seq) : i < j => seq[i].id < seq[j].id

\* No round is newer than the latest.
NoneNewer ==
  /\ \A r \in Ids(rounds) \cup Ids(disk) \cup inGM \cup HeldIds : r <= last

\* A round is held exactly between a pop and the end of its extraction, and
\* nothing is in memory while the process is down.
HeldOnlyBetween ==
  /\ ~Holding => held = {}
  /\ phase = "down" => rounds = <<>>

\* Counters below their caps where another pop or prune is under way.
RoomForOne ==
  /\ phase = "extracting" => pops < MaxPops
  /\ phase = "pruning" => prunes < MaxPrunes

Typed ==
  /\ TypeOK
  /\ Increasing(rounds) /\ Increasing(disk)
  /\ NoneNewer /\ HeldOnlyBetween /\ RoomForOne

\* Neither window nor file shows a round that is in the graph memory, or on
\* its way there, unless its pop was not written.
NotShownTwice ==
  (Ids(rounds) \cup Ids(disk)) \cap (inGM \cup HeldIds) \subseteq unsavedPop

\* A restart would show nothing but what the window shows now, and pops that
\* were not written.
RestartShowsNoMore ==
  phase # "down" => Ids(Loaded) \subseteq Ids(rounds) \cup unsavedPop

\* What has left, or is leaving, is older than what is shown now or would be
\* shown after a restart.
LeftIsOlder ==
  \A r \in (Ids(rounds) \cup Ids(Loaded)) \ unsavedPop :
    \A q \in inGM \cup HeldIds : q < r

HistoryInv == Typed /\ NotShownTwice /\ RestartShowsNoMore /\ LeftIsOlder

\* How long the window is in each phase of a beat, measured against its
\* length when the beat began.
WindowShrinks ==
  /\ phase # "down" => startLen <= 2 * MaxHistoryRounds
  /\ phase = "compact" => Len(rounds) = startLen - pops
  /\ phase = "extracting" => Len(rounds) = startLen - pops - 1
  /\ phase = "splitting" => rounds = <<>>
  /\ phase \in {"budget", "pruning", "self"} =>
       \/ Len(rounds) <= MaxHistoryRounds
       \/ Len(rounds) <= startLen - MaxPops

-----------------------------------------------------------------------------
(* Lemmas about windows                                                     *)

\* What the elements of a sequence of rounds are.
LEMMA IdsAreRoundIds ==
  ASSUME NEW seq \in Seq(Round)
  PROVE  Ids(seq) \subseteq RoundId
<1> SUFFICES ASSUME NEW i \in 1..Len(seq) PROVE seq[i].id \in RoundId
  BY DEF Ids
<1>1. seq[i] \in Round
  OBVIOUS
<1> QED BY <1>1 DEF Round

\* Taking the oldest round out of a window takes out its id, and every other
\* round is newer.
LEMMA WithoutOldest ==
  ASSUME NEW seq \in Seq(Round), seq # <<>>, Increasing(seq)
  PROVE  /\ Tail(seq) \in Seq(Round) /\ Increasing(Tail(seq))
         /\ Len(Tail(seq)) = Len(seq) - 1
         /\ Head(seq) \in Round
         /\ Ids(seq) = Ids(Tail(seq)) \cup {Head(seq).id}
         /\ \A r \in Ids(Tail(seq)) : Head(seq).id < r
<1>1. /\ Tail(seq) \in Seq(Round) /\ Len(Tail(seq)) = Len(seq) - 1
      /\ Len(seq) \in Nat \ {0}
      /\ \A i \in 1..Len(Tail(seq)) : Tail(seq)[i] = seq[i + 1]
      /\ Head(seq) = seq[1] /\ Head(seq) \in Round
  BY HeadTailProperties, EmptySeq
<1>2. Increasing(Tail(seq))
  BY <1>1 DEF Increasing
<1>3. Ids(seq) \subseteq Ids(Tail(seq)) \cup {Head(seq).id}
  <2> SUFFICES ASSUME NEW i \in 1..Len(seq), i # 1
               PROVE  seq[i].id \in Ids(Tail(seq))
    BY <1>1 DEF Ids
  <2>1. i - 1 \in 1..Len(Tail(seq)) /\ Tail(seq)[i - 1] = seq[i]
    BY <1>1
  <2> QED BY <2>1 DEF Ids
<1>4. Ids(Tail(seq)) \cup {Head(seq).id} \subseteq Ids(seq)
  <2>1. ASSUME NEW i \in 1..Len(Tail(seq)) PROVE Tail(seq)[i].id \in Ids(seq)
    BY <1>1 DEF Ids
  <2>2. Head(seq).id \in Ids(seq)
    BY <1>1 DEF Ids
  <2> QED BY <2>1, <2>2 DEF Ids
<1>5. ASSUME NEW r \in Ids(Tail(seq)) PROVE Head(seq).id < r
  <2>1. PICK i \in 1..Len(Tail(seq)) : r = Tail(seq)[i].id
    BY DEF Ids
  <2> QED BY <1>1, <2>1 DEF Increasing
<1> QED BY <1>1, <1>2, <1>3, <1>4, <1>5

\* A new round at the end of a window that holds older ones only.
LEMMA WithNewest ==
  ASSUME NEW seq \in Seq(Round), Increasing(seq), NEW r \in Round,
         \A i \in Ids(seq) : i < r.id
  PROVE  /\ Append(seq, r) \in Seq(Round) /\ Increasing(Append(seq, r))
         /\ Len(Append(seq, r)) = Len(seq) + 1
         /\ Ids(Append(seq, r)) = Ids(seq) \cup {r.id}
<1> DEFINE longer == Append(seq, r)
<1>1. /\ longer \in Seq(Round) /\ Len(longer) = Len(seq) + 1 /\ Len(seq) \in Nat
      /\ \A i \in 1..Len(seq) : longer[i] = seq[i]
      /\ longer[Len(seq) + 1] = r
  BY AppendProperties
<1> HIDE DEF longer
<1>2. Ids(longer) = Ids(seq) \cup {r.id}
  <2>1. ASSUME NEW i \in 1..Len(longer) PROVE longer[i].id \in Ids(seq) \cup {r.id}
    BY <1>1 DEF Ids
  <2>2. ASSUME NEW i \in 1..Len(seq) PROVE seq[i].id \in Ids(longer)
    <3>1. i \in 1..Len(longer) /\ longer[i] = seq[i]
      BY <1>1
    <3> QED BY <3>1 DEF Ids
  <2>3. r.id \in Ids(longer)
    <3>1. Len(seq) + 1 \in 1..Len(longer)
      BY <1>1
    <3> QED BY <1>1, <3>1 DEF Ids
  <2> QED BY <2>1, <2>2, <2>3 DEF Ids
<1>3. Increasing(longer)
  <2> SUFFICES ASSUME NEW i \in 1..Len(longer), NEW j \in 1..Len(longer), i < j
               PROVE  longer[i].id < longer[j].id
    BY DEF Increasing
  <2>1. i \in 1..Len(seq) /\ longer[i] = seq[i]
    BY <1>1
  <2>2. CASE j \in 1..Len(seq)
    BY <1>1, <2>1, <2>2 DEF Increasing
  <2>3. CASE j = Len(seq) + 1
    BY <1>1, <2>1, <2>3 DEF Ids
  <2> QED BY <1>1, <2>2, <2>3
<1> QED BY <1>1, <1>2, <1>3 DEF longer

\* What start-up loads: the newest rounds of the file, all of them if there are
\* few enough, and the same again if it is asked twice.
LoadedFrom(seq) ==
  LET cap2 == 2 * MaxHistoryRounds
  IN  IF Len(seq) > cap2 THEN SubSeq(seq, Len(seq) - cap2 + 1, Len(seq)) ELSE seq

LEMMA LoadedProperties ==
  ASSUME NEW seq \in Seq(Round), Increasing(seq)
  PROVE  /\ LoadedFrom(seq) \in Seq(Round) /\ Increasing(LoadedFrom(seq))
         /\ Ids(LoadedFrom(seq)) \subseteq Ids(seq)
         /\ Len(LoadedFrom(seq)) <= 2 * MaxHistoryRounds
         /\ LoadedFrom(LoadedFrom(seq)) = LoadedFrom(seq)
         /\ Len(seq) <= 2 * MaxHistoryRounds => LoadedFrom(seq) = seq
<1> DEFINE cap2 == 2 * MaxHistoryRounds
           first == Len(seq) - cap2 + 1
           short == LoadedFrom(seq)
<1>1. cap2 \in Nat /\ Len(seq) \in Nat
  BY WindowAssumption
<1>2. CASE Len(seq) <= cap2
  <2>1. short = seq
    BY <1>1, <1>2 DEF LoadedFrom
  <2> QED BY <2>1, <1>2
<1>3. CASE Len(seq) > cap2
  <2>1. short = SubSeq(seq, first, Len(seq))
    BY <1>3 DEF LoadedFrom
  <2>2. first \in 1..Len(seq)+1
    BY <1>1, <1>3
  <2>3. /\ short \in Seq(Round) /\ Len(short) = cap2
        /\ \A i \in 1..cap2 : short[i] = seq[first + i - 1]
    BY <1>1, <2>1, <2>2, SubSeqProperties
  <2> HIDE DEF short
  <2>4. ASSUME NEW i \in 1..cap2
        PROVE  first + i - 1 \in 1..Len(seq)
    BY <1>1, <1>3
  <2>5. Increasing(short)
    <3> SUFFICES ASSUME NEW i \in 1..cap2, NEW j \in 1..cap2, i < j
                 PROVE  short[i].id < short[j].id
      BY <2>3 DEF Increasing
    <3>1. /\ first + i - 1 \in 1..Len(seq) /\ first + j - 1 \in 1..Len(seq)
          /\ first + i - 1 < first + j - 1
      BY <1>1, <2>4
    <3>2. seq[first + i - 1].id < seq[first + j - 1].id
      BY <3>1 DEF Increasing
    <3> QED BY <2>3, <3>2
  <2>6. Ids(short) \subseteq Ids(seq)
    BY <2>3, <2>4 DEF Ids
  <2>7. LoadedFrom(short) = short
    BY <1>1, <2>3 DEF LoadedFrom
  <2> QED BY <1>1, <1>3, <2>3, <2>5, <2>6, <2>7 DEF short
<1> QED BY <1>1, <1>2, <1>3

LEMMA LoadedIsFromDisk == Loaded = LoadedFrom(disk)
BY DEF Loaded, LoadedFrom

-----------------------------------------------------------------------------
(* Type correctness                                                         *)

LEMMA InitTyped == Init => Typed
<1> SUFFICES ASSUME Init PROVE Typed
  OBVIOUS
<1> USE WindowAssumption
<1>1. PICK n \in 0..Backlog :
        /\ disk \in [1..n -> Round] /\ \A i \in 1..n : disk[i].id = i
        /\ last = n
  BY DEF Init
<1>2. /\ disk \in Seq(Round) /\ Len(disk) = n /\ n \in Nat
  BY <1>1
<1>3. n \in 0..MaxRounds
  <2>1. CASE n = 0
    BY <2>1
  <2>2. CASE n # 0
    <3>1. disk[n] \in Round /\ disk[n].id = n
      BY <1>1, <1>2, <2>2
    <3> QED BY <3>1, <1>2 DEF Round, RoundId
  <2> QED BY <2>1, <2>2
<1>4. TypeOK
  BY <1>1, <1>2, <1>3 DEF Init, TypeOK, Phases
<1>5. Increasing(disk) /\ Increasing(rounds)
  BY <1>1, <1>2 DEF Init, Increasing
<1>6. NoneNewer
  BY <1>1, <1>2 DEF Init, NoneNewer, Ids, HeldIds
<1>7. HeldOnlyBetween /\ RoomForOne
  BY DEF Init, HeldOnlyBetween, RoomForOne
<1> QED BY <1>4, <1>5, <1>6, <1>7 DEF Typed

\* What a pop does to window, file and the round in hand.
LEMMA PopEffect ==
  ASSUME Typed, PopOldest
  PROVE  /\ held' = {Head(rounds)} /\ rounds' = Tail(rounds) /\ rounds # <<>>
         /\ HeldIds' = {Head(rounds).id}
         /\ disk' \in {disk, rounds'}
         /\ \/ disk' = rounds' /\ unsavedPop' = unsavedPop
            \/ disk' = disk /\ unsavedPop' = unsavedPop \cup {Head(rounds).id}
         /\ rounds' \in Seq(Round) /\ Increasing(rounds')
         /\ disk' \in Seq(Round) /\ Increasing(disk')
         /\ held' \subseteq Round
         /\ unsavedPop' \subseteq RoundId
         /\ Len(rounds') = Len(rounds) - 1
         /\ Ids(rounds) = Ids(rounds') \cup {Head(rounds).id}
         /\ \A r \in Ids(rounds') : Head(rounds).id < r
<1>1. /\ held' = {Head(rounds)} /\ rounds' = Tail(rounds) /\ rounds # <<>>
      /\ disk' \in {disk, rounds'}
      /\ \/ disk' = rounds' /\ unsavedPop' = unsavedPop
         \/ disk' = disk /\ unsavedPop' = unsavedPop \cup {Head(rounds).id}
  BY DEF PopOldest, Persist
<1>2. /\ rounds \in Seq(Round) /\ Increasing(rounds)
      /\ disk \in Seq(Round) /\ Increasing(disk) /\ unsavedPop \subseteq RoundId
  BY DEF Typed, TypeOK
<1>3. /\ Tail(rounds) \in Seq(Round) /\ Increasing(Tail(rounds))
      /\ Len(Tail(rounds)) = Len(rounds) - 1
      /\ Head(rounds) \in Round
      /\ Ids(rounds) = Ids(Tail(rounds)) \cup {Head(rounds).id}
      /\ \A r \in Ids(Tail(rounds)) : Head(rounds).id < r
  BY <1>1, <1>2, WithoutOldest
<1>4. HeldIds' = {Head(rounds).id}
  BY <1>1 DEF HeldIds
<1>5. Head(rounds).id \in RoundId
  BY <1>3 DEF Round
<1> QED BY <1>1, <1>2, <1>3, <1>4, <1>5

LEMMA PopTyped ==
  ASSUME Typed, PopOldest,
         phase' \in {"extracting", "splitting", "pruning"},
         chunksLeft' \in 1..Chunks,
         phase' = "extracting" => pops < MaxPops,
         phase' = "pruning" => prunes < MaxPrunes,
         UNCHANGED <<pops, prunes, startLen, last, inGM>>
  PROVE  Typed'
<1> USE WindowAssumption
<1>0. /\ rounds' \in Seq(Round) /\ disk' \in Seq(Round)
      /\ held' \subseteq Round /\ unsavedPop' \subseteq RoundId
  BY PopEffect
<1>1. TypeOK'
  BY <1>0 DEF Typed, TypeOK, Phases
<1>2. Increasing(rounds)' /\ Increasing(disk)'
  BY PopEffect DEF Increasing
<1>3. NoneNewer'
  <2>1. Ids(rounds)' \cup Ids(disk)' \cup inGM' \cup HeldIds'
          \subseteq Ids(rounds) \cup Ids(disk) \cup inGM
    BY PopEffect DEF Ids
  <2> QED BY <2>1 DEF Typed, NoneNewer
<1>4. HeldOnlyBetween' /\ RoomForOne'
  BY DEF HeldOnlyBetween, RoomForOne, Holding
<1> QED BY <1>1, <1>2, <1>3, <1>4 DEF Typed

\* What the round at the end of a beat does to window and file.
LEMMA SaveEffect ==
  ASSUME Typed, SaveRound
  PROVE  /\ rounds' \in Seq(Round) /\ Increasing(rounds')
         /\ Len(rounds') = Len(rounds) + 1
         /\ Ids(rounds') = Ids(rounds) \cup {last'}
         /\ disk' \in {disk, rounds'}
         /\ last' = last + 1 /\ last' \in RoundId
<1>1. PICK size \in Sizes : rounds' = Append(rounds, [id |-> last + 1, size |-> size])
  BY DEF SaveRound
<1> DEFINE r == [id |-> last + 1, size |-> size]
<1>2. last \in Nat /\ last < MaxRounds /\ MaxRounds \in Nat /\ last' = last + 1
  BY WindowAssumption DEF SaveRound, Typed, TypeOK
<1>3. r \in Round /\ r.id = last' /\ last' \in RoundId
  BY <1>2 DEF Round, RoundId
<1>4. \A i \in Ids(rounds) : i < r.id
  <2>1. Ids(rounds) \subseteq RoundId
    BY IdsAreRoundIds DEF Typed, TypeOK
  <2> QED BY <2>1, <1>2 DEF Typed, NoneNewer, RoundId
<1>5. disk' \in {disk, rounds'}
  BY DEF SaveRound, Persist
<1> HIDE DEF r
<1>6. rounds \in Seq(Round) /\ Increasing(rounds) /\ rounds' = Append(rounds, r)
  BY <1>1 DEF Typed, TypeOK, r
<1> QED BY <1>2, <1>3, <1>4, <1>5, <1>6, WithNewest

LEMMA SaveTyped ==
  ASSUME Typed, SaveRound
  PROVE  Typed'
<1> USE WindowAssumption
<1>1. /\ phase = "self" /\ phase' = "compact" /\ pops' = 0 /\ prunes' = 0
      /\ startLen' = Len(rounds') /\ UNCHANGED <<held, chunksLeft, inGM, unsavedPop>>
  BY DEF SaveRound, BeginBeat
<1>a. /\ rounds' \in Seq(Round) /\ Len(rounds') \in Nat
      /\ disk' \in {disk, rounds'} /\ last' \in RoundId
  BY SaveEffect
<1>b. last' \in 0..MaxRounds
  BY <1>a DEF RoundId
<1>2. TypeOK'
  BY <1>1, <1>a, <1>b DEF Typed, TypeOK, Phases
<1>3. Increasing(rounds)' /\ Increasing(disk)'
  BY SaveEffect DEF Increasing, Typed
<1>4. NoneNewer'
  <2>1. /\ Ids(rounds)' \cup Ids(disk)'
             \subseteq Ids(rounds) \cup Ids(disk) \cup {last'}
        /\ inGM' = inGM /\ HeldIds' = HeldIds
    BY <1>1, SaveEffect DEF Ids, HeldIds
  <2>2. Ids(rounds) \cup Ids(disk) \cup inGM \cup HeldIds \subseteq RoundId
    BY IdsAreRoundIds DEF Typed, TypeOK, HeldIds, Round
  <2>3. last' = last + 1 /\ last \in Nat
    BY SaveEffect, WindowAssumption DEF Typed, TypeOK
  <2>4. \A r \in Ids(rounds)' \cup Ids(disk)' \cup inGM' \cup HeldIds' :
          r = last' \/ (r \in RoundId /\ r <= last)
    BY <2>1, <2>2 DEF Typed, NoneNewer
  <2> QED BY <2>3, <2>4 DEF NoneNewer, RoundId
<1>5. HeldOnlyBetween' /\ RoomForOne'
  BY <1>1 DEF Typed, HeldOnlyBetween, RoomForOne, Holding
<1> QED BY <1>2, <1>3, <1>4, <1>5 DEF Typed

LEMMA StartEffect ==
  ASSUME Typed, Start
  PROVE  /\ rounds' = LoadedFrom(disk) /\ disk' \in {disk, rounds'}
         /\ rounds' \in Seq(Round) /\ Increasing(rounds')
         /\ Ids(rounds') \subseteq Ids(disk)
         /\ Len(rounds') <= 2 * MaxHistoryRounds
         /\ LoadedFrom(disk') = rounds'
         /\ Len(disk) <= 2 * MaxHistoryRounds => rounds' = disk
<1>1. rounds' = LoadedFrom(disk) /\ disk' \in {disk, rounds'}
  BY LoadedIsFromDisk DEF Start, Persist
<1>2. disk \in Seq(Round) /\ Increasing(disk)
  BY DEF Typed, TypeOK
<1> QED BY <1>1, <1>2, LoadedProperties

LEMMA StartTyped ==
  ASSUME Typed, Start
  PROVE  Typed'
<1> USE WindowAssumption
<1>1. /\ phase = "down" /\ phase' = "compact" /\ pops' = 0 /\ prunes' = 0
      /\ startLen' = Len(rounds') /\ UNCHANGED <<held, chunksLeft, last, inGM, unsavedPop>>
  BY LoadedIsFromDisk, StartEffect DEF Start, BeginBeat
<1>2. TypeOK'
  BY <1>1, StartEffect DEF Typed, TypeOK, Phases
<1>3. Increasing(rounds)' /\ Increasing(disk)'
  BY StartEffect DEF Increasing, Typed
<1>4. NoneNewer'
  BY <1>1, StartEffect DEF Typed, NoneNewer, Ids, HeldIds
<1>5. HeldOnlyBetween' /\ RoomForOne'
  BY <1>1 DEF Typed, HeldOnlyBetween, RoomForOne, Holding
<1> QED BY <1>2, <1>3, <1>4, <1>5 DEF Typed

\* The steps that change neither the file nor what the window shows.
LEMMA OtherStepsTyped ==
  ASSUME Typed,
         \/ CompactionDone \/ ChunkExtracted \/ RoundExtracted \/ PruneFails
         \/ PromptReady \/ Reassemble \/ NoRound \/ UNCHANGED vars
  PROVE  Typed'
<1> USE WindowAssumption
<1>1. UNCHANGED <<rounds, disk, last, unsavedPop>>
  BY DEF CompactionDone, ChunkExtracted, RoundExtracted, PruneFails, PromptReady,
         Reassemble, NoRound, vars
<1>2. TypeOK'
  <2> USE DEF Typed, TypeOK, Phases
  <2>1. CASE CompactionDone \/ PromptReady \/ UNCHANGED vars
    BY <1>1, <2>1 DEF CompactionDone, PromptReady, vars, beatVars
  <2>2. CASE ChunkExtracted
    BY <1>1, <2>2 DEF ChunkExtracted
  <2>3. CASE RoundExtracted
    <3>1. HeldIds \subseteq RoundId
      BY DEF HeldIds, Round
    <3> QED BY <1>1, <2>3, <3>1 DEF RoundExtracted, RoomForOne
  <2>4. CASE PruneFails
    BY <1>1, <2>4 DEF PruneFails, RoomForOne
  <2>5. CASE Reassemble
    BY <1>1, <2>5 DEF Reassemble
  <2>6. CASE NoRound
    BY <1>1, <2>6 DEF NoRound, BeginBeat
  <2> QED BY <2>1, <2>2, <2>3, <2>4, <2>5, <2>6
<1>3. Increasing(rounds)' /\ Increasing(disk)'
  BY <1>1 DEF Typed, Increasing
<1>4. inGM' \cup HeldIds' \subseteq inGM \cup HeldIds
  BY DEF HeldIds, CompactionDone, ChunkExtracted, RoundExtracted, PruneFails,
     PromptReady, Reassemble, NoRound, vars, beatVars
<1>5. NoneNewer'
  BY <1>1, <1>4 DEF Typed, NoneNewer, Ids
<1>6. HeldOnlyBetween' /\ RoomForOne'
  BY DEF Typed, HeldOnlyBetween, RoomForOne, Holding, CompactionDone, ChunkExtracted,
     RoundExtracted, PruneFails, PromptReady, Reassemble, NoRound, BeginBeat, vars,
     beatVars
<1> QED BY <1>2, <1>3, <1>5, <1>6 DEF Typed

LEMMA StopTyped ==
  ASSUME Typed, Stop
  PROVE  Typed'
<1> USE WindowAssumption
<1>1. TypeOK'
  BY DEF Stop, Typed, TypeOK, Phases
<1>2. Increasing(rounds)' /\ Increasing(disk)'
  BY DEF Stop, Typed, Increasing
<1>3. NoneNewer'
  BY DEF Stop, Typed, NoneNewer, Ids, HeldIds
<1>4. HeldOnlyBetween' /\ RoomForOne'
  BY DEF Stop, HeldOnlyBetween, RoomForOne
<1> QED BY <1>1, <1>2, <1>3, <1>4 DEF Typed

\* A pop, wherever it is made: by compaction, by a split, by a prune.
Pops == CompactOldest \/ SplitOnlyRound \/ PruneOldest

\* The steps fall into those that load, save, pop, end the process, and the
\* rest.
LEMMA StepKinds ==
  ASSUME [Next]_vars
  PROVE  \/ Start \/ SaveRound \/ Pops \/ Stop
         \/ CompactionDone \/ ChunkExtracted \/ RoundExtracted \/ PruneFails
         \/ PromptReady \/ Reassemble \/ NoRound \/ UNCHANGED vars
BY DEF Next, Pops, CompactionFails

LEMMA PopsEffect ==
  ASSUME Typed, Pops
  PROVE  /\ PopOldest /\ phase' \in {"extracting", "splitting", "pruning"}
         /\ phase \in {"compact", "budget"}
         /\ chunksLeft' \in 1..Chunks
         /\ phase' = "extracting" => pops < MaxPops
         /\ phase' = "pruning" => prunes < MaxPrunes
         /\ UNCHANGED <<pops, prunes, startLen, last, inGM>>
BY WindowAssumption
   DEF Pops, CompactOldest, SplitOnlyRound, PruneOldest, PopsLeft

LEMMA NextTyped == Typed /\ [Next]_vars => Typed'
<1> SUFFICES ASSUME Typed, [Next]_vars PROVE Typed'
  OBVIOUS
<1>1. CASE Start
  BY <1>1, StartTyped
<1>2. CASE SaveRound
  BY <1>2, SaveTyped
<1>3. CASE Pops
  BY <1>3, PopsEffect, PopTyped
<1>4. CASE Stop
  BY <1>4, StopTyped
<1> QED BY <1>1, <1>2, <1>3, <1>4, StepKinds, OtherStepsTyped

LEMMA TypedInvariant == Spec => []Typed
BY InitTyped, NextTyped, PTL DEF Spec

\* Window, file, counters and history keep their types, for any number of
\* rounds and whatever the caps are.
THEOREM TypeCorrect == Spec => []TypeOK
<1>1. Typed => TypeOK
  BY DEF Typed
<1> QED BY <1>1, TypedInvariant, PTL

-----------------------------------------------------------------------------
(* What has left the window does not come back, and is older                *)

\* The step of an extraction moves the round in hand to the graph memory; the
\* others leave both alone, or lose the round in hand.
LEMMA OtherStepsEffect ==
  ASSUME \/ CompactionDone \/ ChunkExtracted \/ RoundExtracted \/ PruneFails
         \/ PromptReady \/ Reassemble \/ NoRound \/ UNCHANGED vars
  PROVE  /\ UNCHANGED <<rounds, disk, last, unsavedPop>>
         /\ inGM' \cup HeldIds' \subseteq inGM \cup HeldIds
         /\ phase' = "down" <=> phase = "down"
<1>1. UNCHANGED <<rounds, disk, last, unsavedPop>>
  BY DEF CompactionDone, ChunkExtracted, RoundExtracted, PruneFails, PromptReady,
         Reassemble, NoRound, vars
<1>2. inGM' \cup HeldIds' \subseteq inGM \cup HeldIds
  BY DEF HeldIds, CompactionDone, ChunkExtracted, RoundExtracted, PruneFails,
     PromptReady, Reassemble, NoRound, vars, beatVars
<1>3. phase' = "down" <=> phase = "down"
  BY DEF CompactionDone, ChunkExtracted, RoundExtracted, PruneFails, PromptReady,
     Reassemble, NoRound, BeginBeat, Holding, vars
<1> QED BY <1>1, <1>2, <1>3

LEMMA InitHistory == Init => HistoryInv
<1> SUFFICES ASSUME Init PROVE HistoryInv
  OBVIOUS
<1>1. Typed
  BY InitTyped
<1>2. NotShownTwice /\ RestartShowsNoMore /\ LeftIsOlder
  BY DEF Init, NotShownTwice, RestartShowsNoMore, LeftIsOlder, HeldIds
<1> QED BY <1>1, <1>2 DEF HistoryInv

LEMMA StartHistory ==
  ASSUME HistoryInv, Start
  PROVE  NotShownTwice' /\ RestartShowsNoMore' /\ LeftIsOlder'
<1>1. /\ rounds' = Loaded /\ Loaded' = rounds'
      /\ Ids(rounds') \subseteq Ids(disk) /\ Ids(disk') \subseteq Ids(disk)
  <2>1. /\ rounds' = LoadedFrom(disk) /\ LoadedFrom(disk') = rounds'
        /\ Ids(rounds') \subseteq Ids(disk) /\ disk' \in {disk, rounds'}
    BY StartEffect DEF HistoryInv
  <2>2. Loaded' = LoadedFrom(disk')
    BY DEF Loaded, LoadedFrom
  <2> QED BY <2>1, <2>2, LoadedIsFromDisk
<1>2. inGM' = inGM /\ unsavedPop' = unsavedPop /\ HeldIds' = HeldIds
  BY DEF Start, HeldIds
<1>3. NotShownTwice'
  <2>1. Ids(rounds)' \cup Ids(disk)' \subseteq Ids(disk)
    BY <1>1 DEF Ids
  <2> QED BY <2>1, <1>2 DEF HistoryInv, NotShownTwice
<1>4. RestartShowsNoMore'
  BY <1>1 DEF RestartShowsNoMore, Ids
<1>5. LeftIsOlder'
  <2>1. Ids(rounds)' \cup Ids(Loaded)' \subseteq Ids(Loaded)
    BY <1>1 DEF Ids
  <2> QED BY <2>1, <1>2 DEF HistoryInv, LeftIsOlder
<1> QED BY <1>3, <1>4, <1>5

LEMMA PopHistory ==
  ASSUME HistoryInv, Pops
  PROVE  NotShownTwice' /\ RestartShowsNoMore' /\ LeftIsOlder'
<1> DEFINE oldest == Head(rounds).id
<1>1. Typed /\ inGM' = inGM /\ phase \in {"compact", "budget"}
  BY PopsEffect DEF HistoryInv
<1>2. /\ HeldIds' = {oldest}
      /\ \/ disk' = rounds' /\ unsavedPop' = unsavedPop
         \/ disk' = disk /\ unsavedPop' = unsavedPop \cup {oldest}
      /\ Ids(rounds) = Ids(rounds)' \cup {oldest}
      /\ \A r \in Ids(rounds)' : oldest < r
      /\ rounds' \in Seq(Round) /\ Increasing(rounds')
  BY <1>1, PopsEffect, PopEffect DEF Ids
<1>3. Ids(rounds)' \subseteq RoundId /\ oldest \in RoundId
  BY <1>1, <1>2, IdsAreRoundIds DEF Typed, TypeOK, Ids
<1>4. oldest \notin Ids(rounds)'
  BY <1>2, <1>3 DEF RoundId
<1>5. \/ Loaded' = Loaded /\ Ids(disk)' = Ids(disk)
         /\ unsavedPop' = unsavedPop \cup {oldest}
      \/ Ids(Loaded)' \subseteq Ids(rounds)' /\ Ids(disk)' = Ids(rounds)'
         /\ unsavedPop' = unsavedPop
  <2>1. CASE disk' = disk /\ unsavedPop' = unsavedPop \cup {oldest}
    BY <2>1 DEF Loaded, Ids
  <2>2. CASE disk' = rounds' /\ unsavedPop' = unsavedPop
    <3>1. Loaded' = LoadedFrom(rounds')
      BY <2>2 DEF Loaded, LoadedFrom
    <3>2. Ids(LoadedFrom(rounds')) \subseteq Ids(rounds')
      BY <1>2, LoadedProperties
    <3> QED BY <2>2, <3>1, <3>2 DEF Ids
  <2> QED BY <1>2, <2>1, <2>2
<1> HIDE DEF oldest
<1>6. /\ Ids(Loaded) \subseteq Ids(rounds) \cup unsavedPop
  BY <1>1 DEF HistoryInv, RestartShowsNoMore
<1>7. NotShownTwice'
  BY <1>1, <1>2, <1>4, <1>5 DEF HistoryInv, NotShownTwice
<1>8. RestartShowsNoMore'
  <2>1. CASE Loaded' = Loaded /\ unsavedPop' = unsavedPop \cup {oldest}
    <3>1. Ids(Loaded)' = Ids(Loaded)
      BY <2>1 DEF Ids
    <3> QED BY <2>1, <3>1, <1>2, <1>6 DEF RestartShowsNoMore
  <2>2. CASE Ids(Loaded)' \subseteq Ids(rounds)'
    BY <2>2 DEF RestartShowsNoMore
  <2> QED BY <1>5, <2>1, <2>2
<1>9. LeftIsOlder'
  <2>1. (Ids(rounds)' \cup Ids(Loaded)') \ unsavedPop' \subseteq Ids(rounds)' \ unsavedPop
    <3>1. CASE Loaded' = Loaded /\ unsavedPop' = unsavedPop \cup {oldest}
      <4>1. Ids(Loaded)' = Ids(Loaded)
        BY <3>1 DEF Ids
      <4> QED BY <3>1, <4>1, <1>2, <1>6
    <3>2. CASE Ids(Loaded)' \subseteq Ids(rounds)' /\ unsavedPop' = unsavedPop
      BY <3>2
    <3> QED BY <1>5, <3>1, <3>2
  <2>2. \A r \in Ids(rounds)' \ unsavedPop : \A q \in inGM \cup {oldest} : q < r
    BY <1>2 DEF HistoryInv, LeftIsOlder
  <2> QED BY <1>1, <1>2, <2>1, <2>2 DEF LeftIsOlder
<1> QED BY <1>7, <1>8, <1>9

LEMMA SaveHistory ==
  ASSUME HistoryInv, SaveRound
  PROVE  NotShownTwice' /\ RestartShowsNoMore' /\ LeftIsOlder'
<1>1. Typed /\ phase = "self"
  BY DEF HistoryInv, SaveRound
<1>2. inGM' = inGM /\ unsavedPop' = unsavedPop /\ HeldIds' = HeldIds
  BY DEF SaveRound, HeldIds
<1>3. /\ Ids(rounds)' = Ids(rounds) \cup {last'}
      /\ disk' \in {disk, rounds'}
      /\ rounds' \in Seq(Round) /\ Increasing(rounds')
      /\ last' = last + 1 /\ last' \in RoundId
  BY <1>1, SaveEffect DEF Ids
<1>4. \A q \in inGM \cup HeldIds : q < last'
  <2>1. inGM \cup HeldIds \subseteq RoundId /\ last \in Nat
    BY <1>1, WindowAssumption DEF Typed, TypeOK, HeldIds, Round
  <2>2. \A q \in inGM \cup HeldIds : q <= last
    BY <1>1 DEF Typed, NoneNewer
  <2> QED BY <1>3, <2>1, <2>2 DEF RoundId
<1>5. last' \notin inGM \cup HeldIds
  BY <1>3, <1>4 DEF RoundId
<1>6. \/ Loaded' = Loaded /\ Ids(disk)' = Ids(disk)
      \/ Ids(Loaded)' \subseteq Ids(rounds)' /\ Ids(disk)' = Ids(rounds)'
  <2>1. CASE disk' = disk
    BY <2>1 DEF Loaded, Ids
  <2>2. CASE disk' = rounds'
    <3>1. Loaded' = LoadedFrom(rounds')
      BY <2>2 DEF Loaded, LoadedFrom
    <3>2. Ids(LoadedFrom(rounds')) \subseteq Ids(rounds')
      BY <1>3, LoadedProperties
    <3> QED BY <2>2, <3>1, <3>2 DEF Ids
  <2> QED BY <1>3, <2>1, <2>2
<1>7. NotShownTwice'
  BY <1>2, <1>3, <1>5, <1>6 DEF HistoryInv, NotShownTwice
<1>8. Ids(Loaded)' \subseteq Ids(Loaded) \cup Ids(rounds)'
  BY <1>6 DEF Ids
<1>9. RestartShowsNoMore'
  BY <1>1, <1>2, <1>3, <1>8 DEF HistoryInv, RestartShowsNoMore
<1>10. LeftIsOlder'
  BY <1>2, <1>3, <1>4, <1>8 DEF HistoryInv, LeftIsOlder
<1> QED BY <1>7, <1>9, <1>10

LEMMA StopHistory ==
  ASSUME HistoryInv, Stop
  PROVE  NotShownTwice' /\ RestartShowsNoMore' /\ LeftIsOlder'
<1>1. /\ Ids(rounds)' = {} /\ HeldIds' = {}
      /\ disk' = disk /\ inGM' = inGM /\ unsavedPop' = unsavedPop /\ phase' = "down"
  BY DEF Stop, Ids, HeldIds
<1>2. Ids(disk)' = Ids(disk) /\ Ids(Loaded)' = Ids(Loaded)
  BY <1>1 DEF Ids, Loaded
<1> QED BY <1>1, <1>2 DEF HistoryInv, NotShownTwice, RestartShowsNoMore, LeftIsOlder

LEMMA OtherStepsHistory ==
  ASSUME HistoryInv,
         \/ CompactionDone \/ ChunkExtracted \/ RoundExtracted \/ PruneFails
         \/ PromptReady \/ Reassemble \/ NoRound \/ UNCHANGED vars
  PROVE  NotShownTwice' /\ RestartShowsNoMore' /\ LeftIsOlder'
<1>1. /\ UNCHANGED <<rounds, disk, unsavedPop>>
      /\ inGM' \cup HeldIds' \subseteq inGM \cup HeldIds
      /\ phase' = "down" <=> phase = "down"
  BY OtherStepsEffect
<1>2. /\ Ids(rounds)' = Ids(rounds) /\ Ids(disk)' = Ids(disk)
      /\ Ids(Loaded)' = Ids(Loaded)
  BY <1>1 DEF Ids, Loaded
<1> QED BY <1>1, <1>2 DEF HistoryInv, NotShownTwice, RestartShowsNoMore, LeftIsOlder

LEMMA NextHistory == HistoryInv /\ [Next]_vars => HistoryInv'
<1> SUFFICES ASSUME HistoryInv, [Next]_vars PROVE HistoryInv'
  OBVIOUS
<1>1. Typed'
  BY NextTyped DEF HistoryInv
<1>2. NotShownTwice' /\ RestartShowsNoMore' /\ LeftIsOlder'
  BY StepKinds, StartHistory, SaveHistory, PopHistory, StopHistory, OtherStepsHistory
<1> QED BY <1>1, <1>2 DEF HistoryInv

LEMMA HistoryInvariant == Spec => []HistoryInv
BY InitHistory, NextHistory, PTL DEF Spec

\* No crash and no restart brings back a round whose content is in the graph
\* memory, unless the write of its very pop failed.
THEOREM NothingResurrected == Spec => []NoResurrection
<1>1. HistoryInv => NoResurrection
  BY DEF HistoryInv, NotShownTwice, NoResurrection
<1> QED BY <1>1, HistoryInvariant, PTL

\* History leaves the window oldest first, however compaction, pruning and
\* restarts alternate and however often the file cannot be written.
THEOREM OldestLeavesFirst == Spec => []ConsolidatedIsOlder
<1>1. HistoryInv => ConsolidatedIsOlder
  BY DEF HistoryInv, LeftIsOlder, ConsolidatedIsOlder
<1> QED BY <1>1, HistoryInvariant, PTL

-----------------------------------------------------------------------------
(* The length of the window                                                 *)

LEMMA InitShrinks == Init => WindowShrinks
BY DEF Init, WindowShrinks

LEMMA NextShrinks == Typed /\ WindowShrinks /\ [Next]_vars => WindowShrinks'
<1> SUFFICES ASSUME Typed, WindowShrinks, [Next]_vars PROVE WindowShrinks'
  OBVIOUS
<1> DEFINE n == Len(rounds)
<1>1. /\ MaxHistoryRounds \in Nat \ {0} /\ MaxPops \in Nat \ {0}
      /\ n \in Nat /\ pops \in 0..MaxPops /\ startLen \in Nat /\ phase \in Phases
  BY WindowAssumption DEF Typed, TypeOK
<1>2. CASE Start
  <2>1. /\ phase' = "compact" /\ pops' = 0 /\ startLen' = Len(rounds')
        /\ Len(rounds') <= 2 * MaxHistoryRounds /\ rounds' \in Seq(Round)
    BY <1>2, StartEffect, LoadedIsFromDisk DEF Start, BeginBeat
  <2>2. Len(rounds') \in Nat
    BY <2>1
  <2> QED BY <2>1, <2>2 DEF WindowShrinks
<1>3. CASE SaveRound
  <2>1. /\ phase = "self" /\ phase' = "compact" /\ pops' = 0
        /\ startLen' = Len(rounds') /\ Len(rounds') = n + 1
    BY <1>3, SaveEffect DEF SaveRound, BeginBeat
  <2>2. n + 1 <= 2 * MaxHistoryRounds
    BY <1>1, <2>1 DEF WindowShrinks
  <2> QED BY <1>1, <2>1, <2>2 DEF WindowShrinks
<1>4. CASE Pops
  <2>1. /\ Len(rounds') = n - 1 /\ UNCHANGED <<pops, startLen>>
        /\ rounds' \in Seq(Round)
    BY <1>4, PopsEffect, PopEffect
  <2>2. CASE CompactOldest
    <3>1. phase = "compact" /\ phase' = "extracting"
      BY <2>2 DEF CompactOldest
    <3> QED BY <1>1, <2>1, <3>1 DEF WindowShrinks
  <2>3. CASE SplitOnlyRound
    <3>1. phase = "compact" /\ phase' = "splitting" /\ n = 1
      BY <2>3 DEF SplitOnlyRound
    <3>2. rounds' = <<>>
      BY <2>1, <3>1, EmptySeq
    <3> QED BY <1>1, <2>1, <3>1, <3>2 DEF WindowShrinks
  <2>4. CASE PruneOldest
    <3>1. phase = "budget" /\ phase' = "pruning"
      BY <2>4 DEF PruneOldest
    <3> QED BY <1>1, <2>1, <3>1 DEF WindowShrinks
  <2> QED BY <1>4, <2>2, <2>3, <2>4 DEF Pops
<1>5. CASE Stop
  BY <1>5 DEF Stop, WindowShrinks
<1>6. CASE CompactionDone
  <2>1. /\ phase = "compact" /\ phase' = "budget" /\ UNCHANGED <<rounds, pops, startLen>>
        /\ ~NeedsCompact \/ rounds = <<>> \/ ~PopsLeft
    BY <1>6 DEF CompactionDone, beatVars
  <2>2. ~NeedsCompact => n <= MaxHistoryRounds
    BY <1>1 DEF NeedsCompact
  <2>3. rounds = <<>> => n <= MaxHistoryRounds
    BY <1>1
  <2>4. ~PopsLeft => pops = MaxPops
    BY <1>1 DEF PopsLeft
  <2> QED BY <1>1, <2>1, <2>2, <2>3, <2>4 DEF WindowShrinks
<1>7. CASE RoundExtracted
  <2>1. /\ phase \in {"extracting", "splitting", "pruning"}
        /\ pops' = IF phase = "extracting" THEN pops + 1 ELSE pops
        /\ phase' = IF phase = "extracting" THEN "compact" ELSE "budget"
        /\ UNCHANGED <<rounds, startLen>>
    BY <1>7 DEF RoundExtracted, Holding
  <2>2. rounds = <<>> => n <= MaxHistoryRounds
    BY <1>1
  <2> QED BY <1>1, <2>1, <2>2 DEF WindowShrinks
<1>8. CASE NoRound
  <2>1. /\ phase = "self" /\ phase' = "compact" /\ pops' = 0
        /\ startLen' = n /\ rounds' = rounds
    BY <1>8 DEF NoRound, BeginBeat
  <2> QED BY <1>1, <2>1 DEF WindowShrinks
<1>9. CASE ChunkExtracted \/ UNCHANGED vars
  BY <1>9 DEF ChunkExtracted, vars, beatVars, WindowShrinks
<1>10. CASE PruneFails \/ PromptReady \/ Reassemble
  BY <1>10 DEF PruneFails, PromptReady, Reassemble, beatVars, WindowShrinks
<1> QED BY <1>2, <1>3, <1>4, <1>5, <1>6, <1>7, <1>8, <1>9, <1>10, StepKinds

LEMMA ShrinksInvariant == Spec => []WindowShrinks
BY InitShrinks, NextShrinks, TypedInvariant, PTL DEF Spec

\* The window Self is shown never exceeds twice its cap, whatever an earlier
\* installation left in the file and however small the cap on pops.
THEOREM WindowStaysBounded == Spec => []WindowBounded
<1>1. ASSUME Typed, WindowShrinks
      PROVE  WindowBounded
  <2>1. /\ MaxHistoryRounds \in Nat \ {0} /\ MaxPops \in Nat \ {0}
        /\ Len(rounds) \in Nat /\ startLen \in Nat /\ pops \in Nat
        /\ phase \in Phases /\ (rounds = <<>> => Len(rounds) = 0)
    BY <1>1, WindowAssumption DEF Typed, TypeOK
  <2>2. CASE phase \in {"down", "splitting"}
    BY <1>1, <2>1, <2>2 DEF Typed, HeldOnlyBetween, WindowShrinks, WindowBounded
  <2>3. CASE phase \in {"compact", "extracting"}
    BY <1>1, <2>1, <2>3 DEF WindowShrinks, WindowBounded
  <2>4. CASE phase \in {"budget", "pruning", "self"}
    BY <1>1, <2>1, <2>4 DEF WindowShrinks, WindowBounded
  <2> QED BY <2>1, <2>2, <2>3, <2>4 DEF Phases
<1> QED BY <1>1, TypedInvariant, ShrinksInvariant, PTL

\* A backlog shrinks from beat to beat, if a beat may pop two rounds or more.
THEOREM BacklogDrains ==
  ASSUME MaxPops >= 2
  PROVE  Spec => BacklogShrinks
<1>1. ASSUME Typed, WindowShrinks, Next, phase = "self",
             startLen > MaxHistoryRounds + 1
      PROVE  Len(rounds') < startLen
  <2>1. /\ MaxHistoryRounds \in Nat \ {0} /\ MaxPops \in Nat \ {0}
        /\ Len(rounds) \in Nat /\ startLen \in Nat
    BY <1>1, WindowAssumption DEF Typed, TypeOK
  <2>2. Len(rounds) + 1 < startLen
    BY <1>1, <2>1 DEF WindowShrinks
  <2>3. SaveRound \/ Stop \/ Reassemble \/ NoRound
    BY <1>1 DEF Next, Start, CompactOldest, SplitOnlyRound, CompactionDone,
       ChunkExtracted, RoundExtracted, CompactionFails, PruneOldest, PruneFails,
       PromptReady, Holding
  <2>4. CASE SaveRound
    BY <1>1, <2>1, <2>2, <2>4, SaveEffect
  <2>5. CASE Stop
    BY <2>1, <2>2, <2>5 DEF Stop
  <2>6. CASE Reassemble \/ NoRound
    BY <2>1, <2>2, <2>6 DEF Reassemble, NoRound
  <2> QED BY <2>3, <2>4, <2>5, <2>6
<1>2. Typed /\ WindowShrinks /\ [Next]_vars =>
        [phase = "self" /\ startLen > MaxHistoryRounds + 1
           => Len(rounds') < startLen]_vars
  BY <1>1
<1> QED BY <1>2, TypedInvariant, ShrinksInvariant, PTL DEF Spec, BacklogShrinks

-----------------------------------------------------------------------------
(* Losses                                                                   *)

\* A round leaves the window, the hand and the graph memory together only when
\* the process ends, a prune's extraction fails, or start-up drops what is too
\* much.
THEOREM LossesKnown == Spec => LossesAreKnown
<1> DEFINE Loss(r) == Kept(r) /\ ~Kept(r)'
<1>1. ASSUME Typed, [Next]_vars, NEW r \in RoundId, Loss(r), phase' # "down",
             ~PruneFails, Len(disk) <= 2 * MaxHistoryRounds
      PROVE  FALSE
  <2>1. CASE Start
    <3>1. /\ rounds' = disk /\ inGM' = inGM /\ rounds = <<>> /\ held = {}
          /\ phase = "down"
      BY <1>1, <2>1, StartEffect DEF Start, Typed, HeldOnlyBetween, Holding
    <3>2. r \in Ids(disk) \cup inGM
      BY <1>1, <3>1 DEF Kept, Ids, HeldIds
    <3> QED BY <1>1, <3>1, <3>2 DEF Kept, Ids
  <2>2. CASE SaveRound
    <3>1. Ids(rounds) \subseteq Ids(rounds)'
      BY <1>1, <2>2, SaveEffect DEF Ids
    <3>2. inGM' = inGM /\ HeldIds' = HeldIds /\ phase = "self"
      BY <2>2 DEF SaveRound, HeldIds
    <3> QED BY <1>1, <3>1, <3>2 DEF Kept
  <2>3. CASE Pops
    <3>1. /\ phase \in {"compact", "budget"} /\ inGM' = inGM
          /\ Ids(rounds) \subseteq Ids(rounds)' \cup HeldIds'
      BY <1>1, <2>3, PopsEffect, PopEffect DEF Ids
    <3>2. HeldIds = {}
      BY <1>1, <3>1 DEF Typed, HeldOnlyBetween, Holding, HeldIds
    <3> QED BY <1>1, <3>1, <3>2 DEF Kept
  <2>4. CASE Stop
    BY <1>1, <2>4 DEF Stop
  <2>5. CASE RoundExtracted
    <3>1. /\ inGM' = inGM \cup HeldIds /\ rounds' = rounds /\ phase # "down"
      BY <2>5 DEF RoundExtracted, Holding
    <3> QED BY <1>1, <3>1 DEF Kept, Ids
  <2>6. CASE \/ CompactionDone \/ ChunkExtracted \/ PromptReady \/ Reassemble
             \/ NoRound \/ UNCHANGED vars
    <3>1. UNCHANGED <<rounds, held, inGM, disk>> /\ (phase = "down" => phase' = "down")
      BY <2>6 DEF CompactionDone, ChunkExtracted, PromptReady, Reassemble, NoRound,
         BeginBeat, Holding, vars, beatVars
    <3> QED BY <1>1, <3>1 DEF Kept, Ids, HeldIds
  <2> QED BY <1>1, <2>1, <2>2, <2>3, <2>4, <2>5, <2>6, StepKinds
<1>2. Typed /\ [Next]_vars =>
        [\A r \in RoundId : Kept(r) /\ ~Kept(r)' =>
           phase' = "down" \/ PruneFails \/ Len(disk) > 2 * MaxHistoryRounds]_vars
  <2> SUFFICES ASSUME Typed, [Next]_vars, NEW r \in RoundId, Kept(r), ~Kept(r)'
               PROVE  phase' = "down" \/ PruneFails \/ Len(disk) > 2 * MaxHistoryRounds
    OBVIOUS
  <2>1. Len(disk) \in Nat /\ MaxHistoryRounds \in Nat
    BY WindowAssumption DEF Typed, TypeOK
  <2> QED BY <1>1, <2>1
<1> QED BY <1>2, TypedInvariant, PTL DEF Spec, LossesAreKnown
=============================================================================
