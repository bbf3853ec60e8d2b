--------------------------- MODULE MCServerSockets ---------------------------
(* Instances of ServerSockets for TLC. *)
EXTENDS ServerSockets
=============================================================================
