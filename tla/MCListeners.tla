------------------------------ MODULE MCListeners ------------------------------
(***************************************************************************)
(* Two tracers, and a block that enters itself.                            *)
(***************************************************************************)
EXTENDS Listeners

CONSTANTS t1, t2, b1

MCTracers == {t1, t2}
MCBlocks  == {b1}

=============================================================================
