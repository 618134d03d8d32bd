-------------------------- MODULE MCConfigDelivery --------------------------
(***************************************************************************)
(* ConfigDelivery on small instances for TLC.                              *)
(***************************************************************************)
EXTENDS ConfigDelivery
=============================================================================
