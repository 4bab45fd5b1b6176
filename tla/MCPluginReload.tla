--------------------------- MODULE MCPluginReload ---------------------------
(* PluginReload for TLC: two plugins, one with a channel of its own.       *)
EXTENDS PluginReload

MCOrder == <<"chat", "hint">>
MCManifest ==
  [p \in {"chat", "hint"} |->
     <<[kind |-> IF p = "chat" THEN "channel" ELSE "modifier", name |-> p]>>]
=============================================================================
