----------------------- MODULE MCStateMachineHistory ------------------------
(* The state machine with its history, on a small instance. *)
EXTENDS StateMachineHistory, MCSamples
=============================================================================
