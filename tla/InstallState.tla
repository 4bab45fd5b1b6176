------------------------------ MODULE InstallState -----------------------------
(***************************************************************************)
(* krakey install: collect what plugins and engines declare, run pip once  *)
(* for all of it, run every post-install step, and only then record the    *)
(* hash of what was collected.  `krakey start` and the dashboard compare    *)
(* the recorded hash with what is declared now.  Declarations change under *)
(* a running installation (a plugin folder dropped in, config.yaml edited  *)
(* or broken), two installations may run at once, and any of them may be   *)
(* killed.  The hash is the collected set itself.                          *)
(***************************************************************************)
EXTENDS Naturals

CONSTANTS
    Unit,        \* plugins and engine implementations
    EngineUnit,  \* those an engine slot selects: seen only through config.yaml
    PipSpec,     \* pip requirements
    Installer,   \* the command line, the dashboard
    NoRecord,
    Edits        \* bound: edits of declarations and of config.yaml

VARIABLES
    declares,    \* what each unit declares: pip specs and post-install steps
    readable,    \* config.yaml loads
    present,     \* pip specs installed
    stepped,     \* post-install steps that succeeded once
    record,      \* install_state.json
    installer,   \* what each running installation collected and has left
    edits        \* edits so far

installVars == <<declares, readable, present, stepped, record, installer, edits>>

Manifest == [pip : SUBSET PipSpec, post : {"none", "optional", "required"}]
Resting == [at |-> "rest", found |-> NoRecord, left |-> {}, failed |-> FALSE]

InstallTypeOK ==
    /\ declares \in [Unit -> Manifest]
    /\ readable \in BOOLEAN
    /\ present \subseteq PipSpec /\ edits \in 0..Edits
    /\ stepped \subseteq Unit \X {"optional", "required"}
    /\ \A p \in Installer :
        /\ installer[p].at \in {"rest", "pip", "post"}
        /\ installer[p].left \subseteq Unit

InstallInit ==
    /\ declares \in [Unit -> Manifest]
    /\ readable \in BOOLEAN
    /\ present = {} /\ stepped = {} /\ record = NoRecord /\ edits = 0
    /\ installer = [p \in Installer |-> Resting]

\* Without a readable config.yaml engine slots are skipped, with a note.
Seen == IF readable THEN Unit ELSE Unit \ EngineUnit

\* The union of the pip specs, and each unit's steps with their optional flag.
Hash(units) ==
    [pip  |-> UNION {declares[u].pip : u \in units},
     post |-> {<<u, declares[u].post>> : u \in {v \in units : declares[v].post # "none"}}]

HasPendingDeps == record = NoRecord \/ record # Hash(Seen)

Collect(p) ==
    /\ installer[p].at = "rest" /\ HasPendingDeps
    /\ installer' = [installer EXCEPT ![p] =
         [at |-> "pip", found |-> Hash(Seen), failed |-> FALSE,
          left |-> {u \in Seen : declares[u].post # "none"}]]
    /\ UNCHANGED <<declares, readable, present, stepped, record, edits>>

PipInstalls(p) ==
    /\ installer[p].at = "pip"
    /\ present' = present \cup installer[p].found.pip
    /\ installer' = [installer EXCEPT ![p].at = "post"]
    /\ UNCHANGED <<declares, readable, stepped, record, edits>>

\* A failing pip leaves any part of its work behind, and no record.
PipFails(p) ==
    /\ installer[p].at = "pip"
    /\ \E part \in SUBSET installer[p].found.pip : present' = present \cup part
    /\ installer' = [installer EXCEPT ![p] = Resting]
    /\ UNCHANGED <<declares, readable, stepped, record, edits>>

\* One unit's steps.  A required one that fails ends that unit, not the others.
RunPostInstall(p, u) ==
    LET steps == CHOOSE x \in installer[p].found.post : x[1] = u
        Done(bad) == installer' = [installer EXCEPT ![p].left = @ \ {u},
                                                    ![p].failed = @ \/ bad]
    IN
    /\ installer[p].at = "post" /\ u \in installer[p].left
    /\ \/ stepped' = stepped \cup {steps} /\ Done(FALSE)
       \/ UNCHANGED stepped /\ Done(steps[2] = "required")
    /\ UNCHANGED <<declares, readable, present, record, edits>>

MutantFinalState(p) == Hash(Seen)

\* The record is made of what was collected before pip ran.
FinalState(p) == installer[p].found

WriteInstallState(p) ==
    /\ installer[p].at = "post" /\ installer[p].left = {}
    /\ record' = IF installer[p].failed THEN record ELSE FinalState(p)
    /\ installer' = [installer EXCEPT ![p] = Resting]
    /\ UNCHANGED <<declares, readable, present, stepped, edits>>

\* The process is killed; the record is replaced in one rename or not at all.
Killed(p) ==
    /\ installer[p].at # "rest"
    /\ installer' = [installer EXCEPT ![p] = Resting]
    /\ UNCHANGED <<declares, readable, present, stepped, record, edits>>

Redeclare(u, m) ==
    /\ declares[u] # m /\ edits < Edits
    /\ declares' = [declares EXCEPT ![u] = m]
    /\ edits' = edits + 1
    /\ UNCHANGED <<readable, present, stepped, record, installer>>

EditConfig ==
    /\ edits < Edits
    /\ readable' = ~readable /\ edits' = edits + 1
    /\ UNCHANGED <<declares, present, stepped, record, installer>>

InstallNext ==
    \/ \E p \in Installer :
        \/ Collect(p) \/ PipInstalls(p) \/ PipFails(p)
        \/ \E u \in Unit : RunPostInstall(p, u)
        \/ WriteInstallState(p) \/ Killed(p)
    \/ \E u \in Unit, m \in Manifest : Redeclare(u, m)
    \/ EditConfig

InstallSpec == InstallInit /\ [][InstallNext]_installVars

(* What `krakey start` relies on when it asks nothing: if no dependency is *)
(* pending, every pip requirement seen now has been installed and every    *)
(* required step seen now has succeeded, whatever was edited while pip ran *)
(* and whichever installation wrote the record.                            *)
NothingPendingIsMissing ==
    ~HasPendingDeps =>
        /\ Hash(Seen).pip \subseteq present
        /\ \A x \in Hash(Seen).post : x[2] = "required" => x \in stepped
================================================================================
