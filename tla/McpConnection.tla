--------------------------- MODULE McpConnection ---------------------------
(***************************************************************************)
(* The MCP connector: proxy tools (proxy_tool.py) that run calls on a loop *)
(* thread of their own (loop_thread.py), over one connection per server    *)
(* (server_connection.py) that is closed and reopened once when a call     *)
(* fails.                                                                  *)
(*                                                                         *)
(* Calls share the connection and suspend at every await; the caller's     *)
(* timeout cancels a call wherever it is suspended, and a cancelled        *)
(* connect does not close the transport it was opening.                    *)
(***************************************************************************)
EXTENDS Naturals, FiniteSets

CONSTANTS
  Call,        \* the tool calls, each made once
  Reconnect,   \* the plugin's reconnect setting
  Transports   \* bound: how many transports are opened

VARIABLES
  session,     \* _session: the transport it lives on, 0 for None
  stack,       \* _stack: the transport it will close, 0 for None
  open,        \* the transports that are open
  opened,      \* how many have been opened
  call,        \* where each call is, and the transport it holds
  executed,    \* how often the server carried each call out
  answer       \* what the heartbeat was told

mcpVars == <<session, stack, open, opened, call, executed, answer>>

\* Discovery opened the connection, or failed and registered no tool.
Init ==
  /\ session = 1 /\ stack = 1 /\ open = {1} /\ opened = 1
  /\ call = [c \in Call |-> [pc |-> "new", on |-> 0]]
  /\ executed = [c \in Call |-> 0]
  /\ answer = [c \in Call |-> "none"]

At(c, pcs) == call[c].pc \in pcs
Goto(c, pc, on) == call' = [call EXCEPT ![c] = [pc |-> pc, on |-> on]]
Answer(c, what) ==
  /\ Goto(c, "done", 0) /\ answer' = [answer EXCEPT ![c] = what]

-----------------------------------------------------------------------------
(* call_tool: the call, and one more after reconnecting. *)

Execute(c) ==
  /\ At(c, {"new"}) /\ Goto(c, IF session = 0 THEN "failed" ELSE "calling", session)
  /\ UNCHANGED <<session, stack, open, opened, executed, answer>>

InFlight(c) == At(c, {"calling", "retrying"}) /\ call[c].on \in open

Returns(c) ==
  /\ InFlight(c)
  /\ executed' = [executed EXCEPT ![c] = @ + 1]
  /\ Answer(c, "text")
  /\ UNCHANGED <<session, stack, open, opened>>

\* Mutant of AfterFailure: every failure reconnects and tries again.
MutantAfterFailure(c) == IF Reconnect THEN "failed" ELSE "error"

AfterFailure(c) == IF Reconnect /\ At(c, {"calling"}) THEN "failed" ELSE "error"

Fail(c) ==
  IF AfterFailure(c) = "error" THEN Answer(c, "error")
  ELSE Goto(c, "failed", 0) /\ UNCHANGED answer

\* The server did its work, but its answer is late or lost.
ReplyLost(c) ==
  /\ InFlight(c)
  /\ executed' = [executed EXCEPT ![c] = @ + 1]
  /\ Fail(c) /\ UNCHANGED <<session, stack, open, opened>>

\* The server refuses, is dead or hangs, or the transport was closed by
\* another call's reconnect.
CallFails(c) ==
  /\ At(c, {"calling", "retrying"})
  /\ Fail(c) /\ UNCHANGED <<session, stack, open, opened, executed>>

BeginClose(c) ==
  /\ At(c, {"failed"}) /\ session' = 0
  /\ Goto(c, "closing", stack)
  /\ UNCHANGED <<stack, open, opened, executed, answer>>

\* The stack it closed is not the one it forgets if another call reconnected.
BeginConnect(c) ==
  /\ At(c, {"closing"}) /\ opened < Transports
  /\ open' = (open \ {call[c].on}) \cup {opened + 1}
  /\ stack' = IF call[c].on = 0 THEN stack ELSE 0
  /\ opened' = opened + 1 /\ Goto(c, "connecting", opened')
  /\ UNCHANGED <<session, executed, answer>>

Connected(c) ==
  /\ At(c, {"connecting"})
  /\ open' = open \ {stack}
  /\ stack' = call[c].on /\ session' = call[c].on
  /\ Goto(c, "retrying", session')
  /\ UNCHANGED <<opened, executed, answer>>

ConnectFails(c) ==
  /\ At(c, {"connecting"}) /\ open' = open \ {call[c].on}
  /\ Answer(c, "error") /\ UNCHANGED <<session, stack, opened, executed>>

\* The inner or the caller's timeout: the coroutine is cancelled where it is.
TimesOut(c) ==
  /\ ~ At(c, {"new", "done"}) /\ Answer(c, "timeout")
  /\ UNCHANGED <<session, stack, open, opened, executed>>

McpNext == \E c \in Call :
  \/ Execute(c) \/ Returns(c) \/ ReplyLost(c) \/ CallFails(c)
  \/ BeginClose(c) \/ BeginConnect(c) \/ Connected(c) \/ ConnectFails(c) \/ TimesOut(c)

McpSpec == Init /\ [][McpNext]_mcpVars

-----------------------------------------------------------------------------
(* Properties *)

McpTypeOK ==
  /\ {session, stack} \subseteq 0..opened /\ open \subseteq 1..opened /\ opened <= Transports
  /\ \A c \in Call : call[c].on \in 0..opened /\ call[c].pc \in
       {"new", "calling", "failed", "closing", "connecting", "retrying", "done"}
  /\ answer \in [Call -> {"none", "text", "error", "timeout"}]
  /\ executed \in [Call -> Nat]

\* However calls disturb each other's session, the server carries one out at
\* most twice, and only with reconnect on: a retry may repeat an effect whose
\* answer was lost, never more than once; and text is never made up.
AtMostOneRetry == \A c \in Call :
  /\ executed[c] <= IF Reconnect THEN 2 ELSE 1
  /\ answer[c] = "text" => executed[c] > 0
=============================================================================
