------------------------------- MODULE MCBmp5 -------------------------------
(***************************************************************************)
(* The BMP5 driver on small instances for TLC.                             *)
(***************************************************************************)
EXTENDS Bmp5

MCSamples == {-1}
MCUnassigned == {[shdw |-> 1, others |-> 2]}
MCSetupBreaks == {12 * n : n \in 0..3}
=============================================================================
