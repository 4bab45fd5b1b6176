------------------------------- MODULE FirstBoot -------------------------------
(***************************************************************************)
(* The files of a first boot.  The bootstrap modifier merges what Self     *)
(* writes about itself into self_model.yaml and, once Self has a name and a *)
(* persona, strikes itself from config.yaml: on the runtime's thread a read *)
(* and a write, with no lock against the dashboard, whose server thread     *)
(* saves the same file from a form a browser may have loaded long before.   *)
(* Each save, each onboarding and each start copies the file it finds to a  *)
(* backup named by the second.                                             *)
(***************************************************************************)
EXTENDS Naturals, Sequences, FiniteSets

CONSTANTS
    KeepLast,   \* backups kept
    Editions,   \* bound: versions of config.yaml people write
    Seconds     \* bound: the clock the backups are named by

VARIABLES
    central,    \* config.yaml: does it list bootstrap; which editions went into it
    form,       \* the settings page of a browser: the file it was filled from
    edits,      \* editions written so far
    backups,    \* workspace/backups
    replaced,   \* what the last KeepLast saves replaced, oldest first
    second,     \* the clock
    alive,      \* the process: down, up, or in pause mode with no plugin, no dashboard
    boot,       \* the modifier: none, active, removing itself, done
    held,       \* config.yaml as the removal read it
    raced,      \* the file was saved between that read and its write
    model       \* self_model.yaml: the fields of identity that are filled

bootVars == <<central, form, edits, backups, replaced, second, alive, boot, held, raced, model>>
files == <<central, form, edits, backups, replaced, second>>

Field == {"name", "persona"}
Content == [listed : BOOLEAN, from : SUBSET (1..Editions)]
Blank == [listed |-> FALSE, from |-> {}]

BootTypeOK ==
    /\ central \in Content /\ form \in Content /\ held \in Content
    /\ edits \in 0..Editions /\ second \in 0..Seconds
    /\ \A b \in backups : b.second \in 0..Seconds /\ b.content \in Content
    /\ Cardinality(backups) <= KeepLast /\ Len(replaced) <= KeepLast
    /\ alive \in {"down", "up", "bare"}
    /\ boot \in {"none", "active", "removing", "done"} /\ raced \in BOOLEAN
    \* "text": Self replaced the mapping identity by a plain string.
    /\ model.identity \in (SUBSET Field) \cup {{"text"}} /\ model.complete \in BOOLEAN

BootInit ==
    /\ central = [listed |-> TRUE, from |-> {1}] /\ form = Blank
    /\ edits = 1 /\ held = Blank /\ raced = FALSE
    /\ backups = {} /\ replaced = <<>> /\ second = 0
    /\ alive = "down" /\ boot = "none"
    /\ model = [identity |-> {}, complete |-> FALSE]

-----------------------------------------------------------------------------
(* config.yaml and its backups *)

\* A second backup in one second overwrites the first; the oldest go.
BackedUp ==
    LET all == {b \in backups : b.second # second}
                 \cup {[second |-> second, content |-> central]}
        newer(b) == {c \in all : c.second > b.second}
    IN {b \in all : Cardinality(newer(b)) < KeepLast}

Remembered ==
    LET all == Append(replaced, central)
    IN SubSeq(all, IF Len(all) > KeepLast THEN 2 ELSE 1, Len(all))

\* Mutant of Rewritten: backs up what it has just written.
MutantRewritten(content) ==
    /\ edits < Editions
    /\ edits' = edits + 1
    /\ backups' = {IF b.second = second THEN [b EXCEPT !.content = content] ELSE b : b \in BackedUp}
    /\ central' = content
    /\ raced' = (raced \/ boot = "removing")

Rewritten(content) ==
    /\ edits < Editions
    /\ edits' = edits + 1
    /\ backups' = BackedUp
    /\ central' = content
    /\ raced' = (raced \/ boot = "removing")

\* The page is filled from the file and keeps that until it is opened again.
OpenSettings ==
    /\ alive = "up"
    /\ form' = central
    /\ UNCHANGED <<central, edits, backups, replaced, second, alive, boot, held, raced, model>>

\* POST /api/settings writes the whole form, however old, with the plugin's box
\* as it was or as the operator makes it: what came into the file since is gone.
SaveSettings ==
    /\ alive = "up" /\ form # Blank
    /\ \E box \in BOOLEAN :
         /\ form' = [listed |-> box, from |-> form.from \cup {edits + 1}]
         /\ Rewritten(form')
    /\ replaced' = Remembered
    /\ UNCHANGED <<second, alive, boot, held, model>>

\* The wizard backs up and overwrites, whether or not krakey runs.
Onboard ==
    /\ \E box \in BOOLEAN : Rewritten([listed |-> box, from |-> {edits + 1}])
    /\ UNCHANGED <<form, replaced, second, alive, boot, held, model>>

\* An operator copies a backup over the file of a krakey that is not running.
Restore ==
    /\ alive = "down"
    /\ \E b \in backups : central' = b.content
    /\ UNCHANGED <<form, edits, backups, replaced, second, alive, boot, held, raced, model>>

Tick ==
    /\ second < Seconds
    /\ second' = second + 1
    /\ UNCHANGED <<central, form, edits, backups, replaced, alive, boot, held, raced, model>>

-----------------------------------------------------------------------------
(* Start and stop *)

\* Migration keeps known keys and adds the defaults of missing ones.
Start ==
    /\ alive = "down"
    /\ alive' = IF central = Blank THEN "bare" ELSE "up"
    /\ boot' = IF central.listed THEN "active" ELSE "none"
    /\ backups' = BackedUp
    /\ UNCHANGED <<central, form, edits, replaced, second, held, raced, model>>

Down == alive' = "down" /\ boot' = "none" /\ held' = Blank /\ raced' = FALSE

Exit ==
    /\ alive # "down"
    /\ Down
    /\ UNCHANGED <<files, model>>

\* write_text truncates first: a kill at the wrong moment leaves an empty file,
\* which reads as an empty mapping.
TornConfig ==
    /\ \/ boot = "removing" /\ held.listed /\ UNCHANGED <<backups, replaced>>
       \/ alive = "up" /\ backups' = BackedUp /\ replaced' = Remembered
    /\ central' = Blank
    /\ Down
    /\ UNCHANGED <<form, edits, second, model>>

TornModel ==
    /\ boot = "active"
    /\ model' = [identity |-> {}, complete |-> FALSE]
    /\ Down
    /\ UNCHANGED files

-----------------------------------------------------------------------------
(* The bootstrap modifier *)

\* A mapping is merged field by field; over a string it takes its place.
Merged(identity, filled, cleared) == (identity \ (cleared \cup {"text"})) \cup filled

\* What the store holds after a note: a block that does not parse, and a write
\* that fails, change nothing.
AfterNote ==
    {model.identity, {"text"}}
      \cup {Merged(model.identity, f, c) : f \in SUBSET Field, c \in SUBSET Field}

\* A string has no name to ask for: the error ends the handler, not the beat.
NoteUnfinished ==
    /\ alive = "up" /\ boot = "active"
    /\ \E i \in AfterNote :
        /\ ~(Field \subseteq i)
        /\ model' = [model EXCEPT !.identity = i]
    /\ UNCHANGED <<files, alive, boot, held, raced>>

\* The completion mark could not be written: the next note tries again.
CompletionFails ==
    /\ alive = "up" /\ boot = "active"
    /\ \E i \in AfterNote :
        /\ Field \subseteq i
        /\ model' = [model EXCEPT !.identity = i]
    /\ UNCHANGED <<files, alive, boot, held, raced>>

\* Name and persona are there: mark, then read config.yaml to strike the entry.
Complete ==
    /\ alive = "up" /\ boot = "active"
    /\ \E i \in AfterNote :
        /\ Field \subseteq i
        /\ model' = [identity |-> i, complete |-> TRUE]
    /\ boot' = "removing" /\ held' = central
    /\ UNCHANGED <<files, alive, raced>>

\* Written only if the entry was there.
Removed == IF held.listed THEN [held EXCEPT !.listed = FALSE] ELSE central

Removes ==
    /\ boot = "removing"
    /\ central' \in {Removed, central}   \* the second: unreadable, or the write failed
    /\ boot' = "done" /\ held' = Blank /\ raced' = FALSE
    /\ UNCHANGED <<form, edits, backups, replaced, second, alive, model>>

BootNext ==
    \/ OpenSettings \/ SaveSettings \/ Onboard \/ Restore \/ Tick
    \/ Start \/ Exit \/ TornConfig \/ TornModel
    \/ NoteUnfinished \/ CompletionFails \/ Complete \/ Removes

BootSpec == BootInit /\ [][BootNext]_bootVars

-----------------------------------------------------------------------------
(* Properties *)

\* While krakey runs, whatever takes an edition people wrote out of config.yaml
\* leaves the file it was in among the backups: a form filled before the edition
\* was saved, the wizard, a save cut off half way.  Only bootstrap's striking of
\* itself makes no backup, and it takes nothing away unless people wrote between
\* its read and its write, or it was cut off.
Loses == ~(central.from \subseteq central'.from)
LossesAreRevertible ==
    [][alive # "down" /\ Loses =>
         \/ \E b \in backups' : b.content = central
         \/ boot = "removing" /\ (raced \/ alive' = "down")]_bootVars

\* config_backup.py: a bad save "can always be reverted from workspace/backups/":
\* what each of the last KeepLast saves replaced is there.
EverySaveRevertible ==
    \A i \in 1..Len(replaced) : \E b \in backups : b.content = replaced[i]
=============================================================================
