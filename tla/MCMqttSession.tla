--------------------------- MODULE MCMqttSession ---------------------------
(***************************************************************************)
(* A state that can be published, one too large to be, and one without     *)
(* good points, in any order, over one or two connections.                 *)
(***************************************************************************)
EXTENDS MqttSession
=============================================================================
