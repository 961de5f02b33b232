---------------------------- MODULE MCNetDriver -----------------------------
(* Instances of NetDriver: all commands, and the synchronisation alone. *)
EXTENDS NetDriver

Ahead == -3          \* the PL031 is three seconds ahead of true time
AllCommands == {"ping", "name", "send", "query", "ntp"}
=============================================================================
