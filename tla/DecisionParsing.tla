--------------------------- MODULE DecisionParsing ---------------------------
(***************************************************************************)
(* From what Self wrote to what is dispatched: the sections of a response  *)
(* (self_agent.py) and the two decision engines, the tag parser            *)
(* (tool_call_parser.py, action_executor.py) and the translator over an    *)
(* LLM (hypothalamus.py).                                                  *)
(*                                                                         *)
(* A response is a sequence of tokens: section headers, tags, and pieces   *)
(* of payload.  Calls and failures are named by where they stand in it.    *)
(***************************************************************************)
EXTENDS Naturals, Sequences

CONSTANT Length    \* bound: the tokens of a response

VARIABLES
  engine,      \* the decision engine in use
  text,        \* Self's response
  reply,       \* what the translator LLM answers, if it is asked
  decided      \* what translate returned or raised

decisionVars == <<engine, text, reply, decided>>

Header == {"THINKING", "DECISION", "NOTE"}

\* A JSON object with a name, one without, other JSON, and no JSON at all.
Piece == {"call", "nameless", "list", "prose"}
Token == Header \cup {"open", "close"} \cup Piece

\* The translator's JSON can be found in its answer or not; an action in it
\* may lack its tool.
Replies == [form : {"none", "empty", "found", "hopeless"},
            calls : UNION {[1..n -> {"call", "nameless"}] : n \in 0..2}]

NoDecision == [outcome |-> "none", calls |-> {}, failures |-> {}]

Init ==
  /\ engine \in {"tool_call_parser", "hypothalamus"}
  /\ text \in IF engine = "hypothalamus" THEN {<<>>} ELSE UNION {[1..n -> Token] : n \in 0..Length}
  /\ reply \in IF engine = "hypothalamus" THEN Replies ELSE {[form |-> "none", calls |-> <<>>]}
  /\ decided = NoDecision

-----------------------------------------------------------------------------
(* parse_self_output *)

Headers(t) == {k \in DOMAIN t : t[k] \in Header}

\* The last section of a name is the one that is kept.
SectionAt(t, name) ==
  {d \in DOMAIN t : t[d] = name /\ \A e \in DOMAIN t : e > d => t[e] # name}

\* The positions of the [DECISION] section; without any header, everything.
DecisionOf(t) ==
  IF Headers(t) = {} THEN DOMAIN t
  ELSE {k \in DOMAIN t : \E from \in SectionAt(t, "DECISION") :
          from < k /\ Headers(t) \cap (from + 1)..k = {}}

-----------------------------------------------------------------------------
(* parse_tool_calls_with_failures *)

\* The scan: from an opening tag to the next closing one, then on from there.
Scan(t, found, k) ==
  IF k \notin DecisionOf(t) THEN found
  ELSE IF found.from = 0 /\ t[k] = "open" THEN [found EXCEPT !.from = k]
  ELSE IF found.from # 0 /\ t[k] = "close"
       THEN [from |-> 0, blocks |-> found.blocks \cup {(found.from + 1)..(k - 1)}]
  ELSE found

\* What follows a tag that is never closed is not looked at.
Blocks(t) ==
  LET scanned[k \in 0..Len(t)] ==
        IF k = 0 THEN [from |-> 0, blocks |-> {}] ELSE Scan(t, scanned[k - 1], k)
  IN scanned[Len(t)].blocks

First(block) == CHOOSE k \in block : \A j \in block : k <= j

\* Mutant of Reported: a call that was salvaged is not reported.
MutantReported(t, block) == t[First(block)] # "call"

\* A block is a call if its JSON begins with one, and a failure unless that
\* is all of it: a salvaged call is both.
Dispatched(t, block) == t[First(block)] = "call"
Reported(t, block) == ~ Dispatched(t, block) \/ \E k \in block : k # First(block)

Parse(t) ==
  LET payloads == Blocks(t) \ {{}} IN
  [outcome |-> "decided",
   calls |-> {First(b) : b \in {p \in payloads : Dispatched(t, p)}},
   failures |-> {b \in payloads : Reported(t, b)}]

-----------------------------------------------------------------------------
(* HypothalamusDecisionEngine.translate: no failure is reported in part. *)

TranslateReply(r) ==
  IF r.form # "found" \/ \E k \in DOMAIN r.calls : r.calls[k] = "nameless"
  THEN [NoDecision EXCEPT !.outcome = "raised"]
  ELSE [NoDecision EXCEPT !.outcome = "decided", !.calls = DOMAIN r.calls]

Translate ==
  /\ decided = NoDecision
  /\ decided' = IF engine = "hypothalamus" THEN TranslateReply(reply) ELSE Parse(text)
  /\ UNCHANGED <<engine, text, reply>>

DecisionSpec == Init /\ [][Translate]_decisionVars

-----------------------------------------------------------------------------
(* Properties *)

DecisionTypeOK ==
  /\ engine \in {"tool_call_parser", "hypothalamus"} /\ text \in Seq(Token)
  /\ reply \in Replies /\ decided.outcome \in {"none", "decided", "raised"}
  /\ decided.calls \subseteq DOMAIN text \cup DOMAIN reply.calls

\* The piece at k is in a block that is opened and closed in the decision.
Enclosed(t, k) == \E i, j \in DecisionOf(t) :
  /\ i < k /\ k < j /\ t[i] = "open" /\ t[j] = "close"
  /\ \A h \in i..k : t[h] # "close"

\* The piece at k is in a section named [DECISION], or there are none.
InDecision(t, k) == Headers(t) = {} \/
  \E d \in 1..k : t[d] = "DECISION" /\ Headers(t) \cap (d + 1)..k = {}

\* "Failure modes are isolated per-block ... so format drift is visible
\* rather than silently absorbed": nothing outside the decision is
\* dispatched, and a call that stands between tags in it either is or lies in
\* a failure Self is told of, however tags are nested, doubled or cut off by
\* a section; the translator dispatches all that its LLM listed or raises.
NoCallLostSilently == decided.outcome # "none" =>
  IF engine = "hypothalamus"
  THEN decided.outcome = "raised" \/ decided.calls = DOMAIN reply.calls
  ELSE /\ \A k \in decided.calls : InDecision(text, k)
       /\ \A k \in DecisionOf(text) : (text[k] = "call" /\ Enclosed(text, k)) =>
            k \in decided.calls \/ \E b \in decided.failures : k \in b

\* "<tool_call> blocks can appear inside [DECISION] or [THINKING], or after
\* [DECISION]; all parse."
AllBlocksParse == (decided.outcome # "none" /\ engine = "tool_call_parser") =>
  \A k \in DOMAIN text :
    (k > 1 /\ k < Len(text) /\ text[k] = "call" /\ text[k - 1] = "open" /\ text[k + 1] = "close"
     /\ \A j \in 1..(k - 2) : text[j] # "open")
       => k \in decided.calls
=============================================================================
