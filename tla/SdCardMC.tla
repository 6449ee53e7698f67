------------------------------ MODULE SdCardMC ------------------------------
(* SdCard for TLC: two contents of a sector.                               *)
EXTENDS SdCard

CONSTANTS a, b

MCData == {a, b}
=============================================================================
