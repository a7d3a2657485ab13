------------------------------ MODULE MCDaemon ------------------------------
(* A small instance of the daemon for TLC. *)
EXTENDS Daemon, TLC

CONSTANTS strategy, auth, on, off

MCDefault == strategy :> on

MCSaves == {(strategy :> off) @@ (auth :> off), strategy :> on}

MCForm ==
  {[level |-> "authNoPriv", auth |-> TRUE, priv |-> FALSE, known |-> {"auth"},
    enabled |-> TRUE],
   [level |-> "authPriv", auth |-> TRUE, priv |-> FALSE, known |-> {"auth", "priv"},
    enabled |-> TRUE],
   [level |-> "authPriv", auth |-> FALSE, priv |-> FALSE, known |-> {"auth", "priv"},
    enabled |-> FALSE]}
=============================================================================
