---------------------------- MODULE MCSupervisor ----------------------------
(* Instantiates Supervisor for TLC: the genesis module and three           *)
(* long-running modules, built in that order as in the node.               *)
EXTENDS Supervisor

CONSTANTS genesis, a, b, c

MCOrder == <<genesis, a, b, c>>

=============================================================================
