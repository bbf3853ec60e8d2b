----------------------------- MODULE MCMainLoop -----------------------------
(* Instances of MainLoop for TLC. *)
EXTENDS MainLoop

AllModes == {"passes", "interactive", "server"}

OnlyPasses == {"passes"}
=============================================================================
