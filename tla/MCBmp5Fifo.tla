----------------------------- MODULE MCBmp5Fifo -----------------------------
(***************************************************************************)
(* The four FIFO clients for TLC, with a FIFO of 12 bytes in place of 96:  *)
(* rooms of 16 and 32 entries are 2 and 4.                                 *)
(***************************************************************************)
EXTENDS Bmp5Fifo

PressTemp == [sel |-> 3, wait |-> "full", countsFailed |-> FALSE, room |-> 2]
Pressure == [sel |-> 2, wait |-> "full", countsFailed |-> TRUE, room |-> 4]
Temperature == [sel |-> 1, wait |-> "full", countsFailed |-> TRUE, room |-> 4]
ThresholdLevel == [sel |-> 2, wait |-> "thres", countsFailed |-> TRUE, room |-> 2]
MCClients == {PressTemp, Pressure, Temperature, ThresholdLevel}
=============================================================================
