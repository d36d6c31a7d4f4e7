------------------------------- MODULE MCArena -------------------------------
(***************************************************************************)
(* Arena with blocks of twelve bytes aligned by four: requests of one      *)
(* byte, of a whole block and of more than a block, so that a request fits *)
(* exactly, fits but for its padding, and never fits.                      *)
(***************************************************************************)
EXTENDS Arena
==============================================================================
