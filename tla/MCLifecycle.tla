---------------------------- MODULE MCLifecycle ----------------------------
(***************************************************************************)
(* Lifecycle on small instances for TLC.                                   *)
(***************************************************************************)
EXTENDS Lifecycle

\* Any content of the setup partition.
AnyStored == [Keys -> {"absent", "empty", "fits", "long"}]

\* A partition as the phone app leaves it.
ProvisionedStored == {[key \in Keys |-> "fits"]}

\* A build whose environment names no network but the usual services.
BuildDefaults == [key \in Keys |-> IF key \in {"wifi_ssid", "mqtt"}
                                   THEN "empty" ELSE "fits"]
=============================================================================
