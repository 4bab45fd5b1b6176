---------------------------- MODULE MCHeartbeat ----------------------------
(* Outside stimuli of every kind: user messages and commands come from      *)
(* channels that are urgent by default, tool feedback may be either.        *)
EXTENDS Heartbeat

MCArrivals ==
  [kind : {"message", "status", "sleep", "kill", "slash"}, adrenalin : {TRUE}]
    \cup [kind : {"feedback"}, adrenalin : BOOLEAN]

\* For the liveness run: an urgent message, a calm receipt.
LiveArrivals ==
  [kind : {"message"}, adrenalin : {TRUE}]
    \cup [kind : {"feedback"}, adrenalin : {FALSE}]
=============================================================================
