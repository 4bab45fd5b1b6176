-------------------------- MODULE EngineResolution --------------------------
(***************************************************************************)
(* How a slot of the runtime gets its engine: the catalog that meta.yaml   *)
(* declares (engine_system/meta_loader.py), the emergency table of         *)
(* defaults.py, the plugins that supply engines, and the class, settings   *)
(* and checks that EngineRegistry.resolve arrives at (registry.py).        *)
(*                                                                         *)
(* The operators are the algorithm; a behaviour takes one slot of one      *)
(* installation, damaged or not, and resolves it.                          *)
(***************************************************************************)
EXTENDS Naturals, Sequences, Functions

CONSTANTS
  Short,       \* the short names an entry of meta.yaml may have
  Plugged      \* the short names plugins supply engines under

VARIABLES
  site,        \* the slot: its meta.yaml, its override, what can be imported
  resolution   \* what resolve returned or raised

resolutionVars == <<site, resolution>>

\* What the dotted path of an entry leads to: the class the emergency table names as
\* well, another class that serves, nothing that imports, or a module or a class that
\* fails otherwise; an entry may also name none.
Factory == {"home", "other", "nowhere", "broken", "unnamed"}

Entry == [name : Short, default : BOOLEAN, factory : Factory]

\* A dotted path, a name nobody declares, or nothing at all.
Override == Short \cup Plugged \cup {"module:Class", "misspelt", ""}

\* meta.yaml is malformed if it is no YAML or no list of entries, undecodable if
\* reading it already fails; table: the slot is in the emergency table; home: the
\* class it names there imports and serves; conforms: so does the outside class.
Sites ==
  {s \in [file : {"missing", "malformed", "undecodable", "present"},
          entries : UNION {[1..n -> Entry] : n \in 0..2}, override : Override,
          table : BOOLEAN, home : BOOLEAN, conforms : BOOLEAN] :
     s.file = "present" \/ s.entries = <<>>}

\* Classes that are not part of the engines/ tree.
Outside == Plugged \cup {"module:Class"}

Raised(what) == [outcome |-> "raised", why |-> what]

-----------------------------------------------------------------------------
(* load_slot_meta *)

Names(entries) == {e.name : e \in Range(entries)}

\* Entries of one name replace one another; the default is the entry marked,
\* or the only one.
Malformed(entries) ==
  \/ entries = <<>> \/ \E e \in Range(entries) : e.factory = "unnamed"
  \/ \E i, j \in DOMAIN entries : i # j /\ entries[i].default /\ entries[j].default
  \/ \E m, n \in Names(entries) : m # n /\ \A e \in Range(entries) : ~ e.default

DefaultOf(entries) ==
  CHOOSE n \in Names(entries) :
    \A e \in Range(entries) : (e.default => e.name = n)

\* The factory a name stands for is one of these.
LeadsTo(entries, name, factories) == \E k \in DOMAIN entries :
  /\ entries[k].name = name /\ entries[k].factory \in factories
  /\ \A j \in DOMAIN entries : j > k => entries[j].name # name

-----------------------------------------------------------------------------
(* _load_slot_catalog: meta.yaml, or the emergency entry alone.  It answers  *)
(* only where meta.yaml is missing or can be read.                           *)

Damaged(s) == s.file # "present" \/ Malformed(s.entries)

Catalog(s) ==
  IF Damaged(s) THEN [names |-> {"fallback"}, default |-> "fallback"]
  ELSE [names |-> Names(s.entries), default |-> DefaultOf(s.entries)]

-----------------------------------------------------------------------------
(* _resolve_class: whose class a name stands for, "none" if using it raises. *)

Emergency(s) == IF s.table /\ s.home THEN "fallback" ELSE "none"

Serves(s, name) == LeadsTo(s.entries, name, IF s.home THEN {"home", "other"} ELSE {"other"})

\* Mutant of BuiltinClass: a factory that cannot be imported ends the start.
MutantBuiltinClass(s, name) ==
  IF Serves(s, name) THEN name ELSE IF name = "fallback" THEN Emergency(s) ELSE "none"

\* A declared factory that cannot be imported gives way to the emergency one; only
\* an ImportError is caught, and the class of the emergency table is not replaced.
BuiltinClass(s, name) ==
  IF Serves(s, name) THEN name
  ELSE IF name = "fallback" \/ LeadsTo(s.entries, name, {"nowhere"}) THEN Emergency(s)
  ELSE "none"

ClassFor(s, name) ==
  CASE name = "module:Class" -> name
    [] name \in Catalog(s).names -> BuiltinClass(s, name)
    [] name \in Plugged -> name
    [] OTHER -> Emergency(s)

\* The settings file of the built-in entry of that name, if there is one.
SettingsFor(s, name) == IF name \in Catalog(s).names \cap Short THEN name ELSE "defaults"

-----------------------------------------------------------------------------
(* resolve *)

Wanted(s) == IF s.override # "" THEN s.override ELSE Catalog(s).default

\* A dotted path is imported without a look at the catalog.
ByCatalog(s) == s.override # "module:Class"

Resolve(s) ==
  LET class == ClassFor(s, Wanted(s)) IN
  CASE ByCatalog(s) /\ s.file = "undecodable" -> Raised("undecoded")
    [] ByCatalog(s) /\ Damaged(s) /\ ~ s.table -> Raised("uncatalogued")
    [] class = "none" -> Raised("unusable")
    [] class \in Outside /\ ~ s.conforms -> Raised("unfit")
    [] OTHER -> [outcome |-> "built", class |-> class, settings |-> SettingsFor(s, Wanted(s))]

Init == site \in Sites /\ resolution = [outcome |-> "none"]

ResolveSlot ==
  /\ resolution.outcome = "none"
  /\ resolution' = Resolve(site) /\ UNCHANGED site

ResolutionSpec == Init /\ [][ResolveSlot]_resolutionVars

-----------------------------------------------------------------------------
(* Properties *)

ResolutionTypeOK == site \in Sites /\ resolution.outcome \in {"none", "built", "raised"}

\* What the user asked for can be had: the outside class serves, or a readable
\* catalog has the name and its factory serves.
CanBeHad(s) ==
  \/ s.override = "module:Class" /\ s.conforms
  \/ s.override \in Plugged /\ s.conforms /\ s.file # "undecodable" /\ (Damaged(s) => s.table)
  \/ ~ Damaged(s) /\ Serves(s, Wanted(s))

\* "A damaged engines/ tree shouldn't bring down the runtime; it should degrade to a
\* known-good default": what can be had is what the slot gets, and a slot of the
\* emergency table stays without an engine only for one of four reasons: meta.yaml
\* cannot even be read or decoded, the in-tree class itself does not serve, the
\* entry asked for fails otherwise than by an ImportError, or the outside class does
\* not serve.  No other damage, missing file, malformed list, unknown name or
\* unimportable path, ends the start, and nothing but the emergency class steps in.
DamageDegrades ==
  resolution.outcome # "none" =>
    /\ CanBeHad(site) => resolution.outcome = "built" /\ resolution.class = Wanted(site)
    /\ resolution.outcome = "built" => resolution.class \in {"fallback", Wanted(site)}
    /\ (resolution.outcome = "raised" /\ site.table) =>
         \/ ByCatalog(site) /\ site.file = "undecodable"
         \/ ~ site.home
         \/ ~ Damaged(site) /\ LeadsTo(site.entries, Wanted(site), {"broken"})
         \/ site.override \in Outside /\ ~ site.conforms

\* "unknown short name -> ValueError listing the slot's catalog."
UnknownNameRaises ==
  (resolution.outcome # "none" /\ site.override = "misspelt") => resolution.outcome = "raised"
=============================================================================
