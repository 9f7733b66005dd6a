--------------------------- MODULE MCRestartQueue ---------------------------
(***************************************************************************)
(* Instances of RestartQueue.  The map key is one that classifyRestart     *)
(* gives to an operation of the console, the restart of one game service;  *)
(* players can also be on another partition than the service's.            *)
(***************************************************************************)
EXTENDS RestartQueue, TLC

OvermapService == "overmap:2"

OneKey == {OvermapService}
OneScope == OvermapService :> {2}

\* Requests in the gate are alike.
ClientSymmetry == Permutations(Clients)
=============================================================================
