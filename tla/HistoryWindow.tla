---------------------------- MODULE HistoryWindow ----------------------------
(***************************************************************************)
(* The recent-history window (engines/explicit_history/sliding_window.py)  *)
(* over the beats that fill and empty it: compaction at the head of a beat *)
(* (engines/heartbeat/compact.py), pruning when the prompt is too long     *)
(* (enforce_input_budget), the round saved at its end, and the process     *)
(* ending anywhere and starting again from the file on disk.               *)
(*                                                                         *)
(* A round that leaves the window is meant to go on living in the graph    *)
(* memory.  Between the pop and that write lie calls to the compact LLM.   *)
(***************************************************************************)
EXTENDS Integers, SequencesExt

CONSTANTS
  MaxRounds,          \* bound: rounds over all runs of the process
  Sizes,              \* token counts a round may have
  Backlog,            \* bound: rounds an earlier installation left on disk
  CompactThreshold,   \* compact_threshold
  MaxHistoryRounds,   \* max_history_rounds
  MaxPops,            \* max_pops_per_beat
  MaxPrunes,          \* max_iters of enforce_input_budget
  Chunks,             \* LLM calls an oversized round takes
  DiskMayFail         \* whether writing the file may fail

ASSUME WindowAssumption ==
  /\ {MaxRounds, Backlog, CompactThreshold, MaxPrunes} \subseteq Nat
  /\ {MaxHistoryRounds, MaxPops, Chunks} \subseteq Nat \ {0}
  /\ Sizes \subseteq Nat
  /\ DiskMayFail \in BOOLEAN

RoundId == 1..MaxRounds

Round == [id : RoundId, size : Sizes]

VARIABLES
  rounds,      \* SlidingWindow.rounds
  disk,        \* the rounds in the file at state_path
  phase,       \* where the beat is
  held,        \* rounds popped and not yet in the graph memory (at most one)
  chunksLeft,  \* LLM calls the held round still takes
  pops,        \* of compact_if_needed in this beat
  prunes,      \* of enforce_input_budget in this beat
  last,        \* id of the latest round
  inGM,        \* rounds whose extraction went to the graph memory
  unsavedPop,  \* history: rounds whose pop did not reach the disk
  startLen     \* history: length of the window when the beat began

beatVars == <<held, chunksLeft, pops, prunes, startLen>>
vars == <<rounds, disk, phase, beatVars, last, inGM, unsavedPop>>

Phases == {"down", "compact", "extracting", "splitting", "budget", "pruning",
           "self"}

-----------------------------------------------------------------------------
(* SlidingWindow *)

Total(seq) == FoldLeft(LAMBDA sum, r : sum + r.size, 0, seq)

NeedsCompact ==
  \/ Total(rounds) > CompactThreshold
  \/ Len(rounds) > MaxHistoryRounds

\* The file is replaced as a whole, or an OSError is logged and it stays.
Persist(seq) == disk' = seq \/ (DiskMayFail /\ disk' = disk)

\* Mutants of PopOldest: the file is left alone; the wrong end is popped.
MutantPopNotPersisted ==
  /\ rounds # <<>>
  /\ held' = {Head(rounds)}
  /\ rounds' = Tail(rounds)
  /\ UNCHANGED <<disk, unsavedPop>>

MutantPopNewest ==
  /\ rounds # <<>>
  /\ held' = {Last(rounds)}
  /\ rounds' = Front(rounds)
  /\ Persist(rounds')
  /\ UNCHANGED unsavedPop

\* pop_oldest: out of the window and off the disk before anything else.
PopOldest ==
  /\ rounds # <<>>
  /\ held' = {Head(rounds)}
  /\ rounds' = Tail(rounds)
  /\ Persist(rounds')
  /\ unsavedPop' = IF disk' = rounds' THEN unsavedPop
                   ELSE unsavedPop \cup {Head(rounds).id}

\* Mutant of Loaded: no drop at start-up.
MutantLoadedWhole == disk

\* A restart loads at most twice the cap, and drops the rest for good.
Loaded ==
  LET cap2 == 2 * MaxHistoryRounds
  IN  IF Len(disk) > cap2 THEN SubSeq(disk, Len(disk) - cap2 + 1, Len(disk))
                          ELSE disk

-----------------------------------------------------------------------------
BeginBeat(window) ==
  /\ phase' = "compact"
  /\ pops' = 0 /\ prunes' = 0
  /\ startLen' = Len(window)

\* An earlier version, or other settings, may have left a long file.
Init ==
  /\ \E n \in 0..Backlog :
       /\ disk \in {seq \in [1..n -> Round] : \A i \in 1..n : seq[i].id = i}
       /\ last = n
  /\ rounds = <<>>
  /\ phase = "down"
  /\ held = {} /\ chunksLeft = 0
  /\ pops = 0 /\ prunes = 0 /\ startLen = 0
  /\ inGM = {}
  /\ unsavedPop = {}

Start ==
  /\ phase = "down"
  /\ rounds' = Loaded
  /\ IF Loaded = disk THEN disk' = disk ELSE Persist(Loaded)
  /\ BeginBeat(Loaded)
  /\ UNCHANGED <<held, chunksLeft, last, inGM, unsavedPop>>

\* The process ends, in whatever way, between two steps: memory is gone.
Stop ==
  /\ phase # "down"
  /\ phase' = "down"
  /\ rounds' = <<>> /\ held' = {} /\ chunksLeft' = 0
  /\ UNCHANGED <<disk, pops, prunes, startLen, last, inGM, unsavedPop>>

-----------------------------------------------------------------------------
(* compact_if_needed *)

\* Mutants of PopsLeft: one pop more than the cap, one less.
MutantOnePopTooMany == pops <= MaxPops

MutantOnePopTooFew == pops < MaxPops - 1

\* The cap on the pops of one beat.
PopsLeft == pops < MaxPops

CompactOldest ==
  /\ phase = "compact" /\ NeedsCompact /\ Len(rounds) > 1 /\ PopsLeft
  /\ PopOldest
  /\ phase' = "extracting"
  /\ chunksLeft' = 1
  /\ UNCHANGED <<pops, prunes, startLen, last, inGM>>

\* A single round that alone is too big is cut up.
SplitOnlyRound ==
  /\ phase = "compact" /\ NeedsCompact /\ Len(rounds) = 1
  /\ PopOldest
  /\ phase' = "splitting"
  /\ chunksLeft' \in 1..Chunks
  /\ UNCHANGED <<pops, prunes, startLen, last, inGM>>

CompactionDone ==
  /\ phase = "compact"
  /\ \/ ~NeedsCompact
     \/ rounds = <<>>
     \/ Len(rounds) > 1 /\ ~PopsLeft
  /\ phase' = "budget"
  /\ UNCHANGED <<rounds, disk, beatVars, last, inGM, unsavedPop>>

Holding == phase \in {"extracting", "splitting", "pruning"}

HeldIds == {r.id : r \in held}

\* compact_round: the LLM answered and remember_extraction stored it.
ChunkExtracted ==
  /\ Holding /\ chunksLeft > 1
  /\ chunksLeft' = chunksLeft - 1
  /\ UNCHANGED <<rounds, disk, phase, held, pops, prunes, startLen, last, inGM,
                 unsavedPop>>

RoundExtracted ==
  /\ Holding /\ chunksLeft = 1
  /\ inGM' = inGM \cup HeldIds
  /\ held' = {} /\ chunksLeft' = 0
  /\ pops' = IF phase = "extracting" THEN pops + 1 ELSE pops
  /\ prunes' = IF phase = "pruning" THEN prunes + 1 ELSE prunes
  /\ phase' = IF phase = "extracting" THEN "compact" ELSE "budget"
  /\ UNCHANGED <<rounds, disk, startLen, last, unsavedPop>>

\* Mutant of CompactionFails: the exception is swallowed, the round forgotten.
MutantCompactionFailsSilently ==
  /\ phase \in {"extracting", "splitting"}
  /\ held' = {} /\ chunksLeft' = 0
  /\ phase' = "budget"
  /\ UNCHANGED <<rounds, disk, pops, prunes, startLen, last, inGM, unsavedPop>>

\* compact_if_needed lets the exception out, and it ends run().
CompactionFails ==
  /\ phase \in {"extracting", "splitting"}
  /\ Stop

-----------------------------------------------------------------------------
(* enforce_input_budget, answer, save *)

PruneOldest ==
  /\ phase = "budget" /\ prunes < MaxPrunes
  /\ PopOldest
  /\ phase' = "pruning"
  /\ chunksLeft' = 1
  /\ UNCHANGED <<pops, prunes, startLen, last, inGM>>

\* The exception is logged: "dropped without GM write".
PruneFails ==
  /\ phase = "pruning"
  /\ held' = {} /\ chunksLeft' = 0
  /\ prunes' = prunes + 1
  /\ phase' = "budget"
  /\ UNCHANGED <<rounds, disk, pops, startLen, last, inGM, unsavedPop>>

\* It fits, or is sent anyway.
PromptReady ==
  /\ phase = "budget"
  /\ phase' = "self"
  /\ UNCHANGED <<rounds, disk, beatVars, last, inGM, unsavedPop>>

\* An urgent stimulus during a retry of the Self call: the prompt is rebuilt
\* and the budget enforced once more.
Reassemble ==
  /\ phase = "self"
  /\ phase' = "budget"
  /\ prunes' = 0
  /\ UNCHANGED <<rounds, disk, held, chunksLeft, pops, startLen, last, inGM,
                 unsavedPop>>

SaveRound ==
  /\ phase = "self" /\ last < MaxRounds
  /\ \E size \in Sizes :
       rounds' = Append(rounds, [id |-> last + 1, size |-> size])
  /\ Persist(rounds')
  /\ last' = last + 1
  /\ BeginBeat(rounds')
  /\ UNCHANGED <<held, chunksLeft, inGM, unsavedPop>>

\* The beat ends without an answer.
NoRound ==
  /\ phase = "self"
  /\ BeginBeat(rounds)
  /\ UNCHANGED <<rounds, disk, held, chunksLeft, last, inGM, unsavedPop>>

-----------------------------------------------------------------------------
Next ==
  \/ Start \/ Stop
  \/ CompactOldest \/ SplitOnlyRound \/ CompactionDone
  \/ ChunkExtracted \/ RoundExtracted \/ CompactionFails
  \/ PruneOldest \/ PruneFails \/ PromptReady
  \/ Reassemble \/ SaveRound \/ NoRound

Spec == Init /\ [][Next]_vars

-----------------------------------------------------------------------------
(* Properties                                                               *)

TypeOK ==
  /\ rounds \in Seq(Round) /\ disk \in Seq(Round)
  /\ phase \in Phases
  /\ held \subseteq Round
  /\ chunksLeft \in 0..Chunks
  /\ pops \in 0..MaxPops /\ prunes \in 0..MaxPrunes
  /\ last \in 0..MaxRounds
  /\ inGM \subseteq RoundId /\ unsavedPop \subseteq RoundId
  /\ startLen \in Nat

Ids(seq) == {seq[i].id : i \in 1..Len(seq)}

\* pop_oldest persists before it returns so that no crash brings back a round
\* whose content is in the graph memory already.  A round comes back only if
\* that very write failed.
NoResurrection == (Ids(rounds) \cup Ids(disk)) \cap inGM \subseteq unsavedPop

\* History leaves the window oldest first, across restarts and however
\* compaction and pruning alternate: what has been consolidated is older than
\* what the window still shows Self.
ConsolidatedIsOlder ==
  \A r \in Ids(rounds) \ unsavedPop : \A q \in inGM : q < r

Kept(r) ==
  \/ r \in Ids(rounds) \cup inGM \/ r \in HeldIds
  \/ phase = "down" /\ r \in Ids(disk)

\* A round is lost only in a process that ends, in a prune whose extraction
\* fails, or in the drop of an oversized file at start-up.
LossesAreKnown ==
  [][\A r \in RoundId : Kept(r) /\ ~Kept(r)' =>
       phase' = "down" \/ PruneFails \/ Len(disk) > 2 * MaxHistoryRounds]_vars

\* The window Self is shown stays within twice its cap, whatever the file held.
WindowBounded == Len(rounds) <= 2 * MaxHistoryRounds

\* engines/heartbeat/meta.yaml:25: a big backlog drains across many beats.  So
\* a beat that began with more than one round too many ends with fewer.
BacklogShrinks ==
  [][phase = "self" /\ startLen > MaxHistoryRounds + 1
       => Len(rounds') < startLen]_vars
=============================================================================
