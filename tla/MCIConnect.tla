---------------------------- MODULE MCIConnect ----------------------------
(***************************************************************************)
(* The setup app and the device on small instances for TLC.                *)
(***************************************************************************)
EXTENDS IConnect

MCKeyOrder == <<"wifi_ssid", "mqtt_password">>
MCDefault == [k \in {"wifi_ssid", "mqtt_password"} |->
                IF k = "wifi_ssid" THEN "" ELSE "a"]

MCTyped == [k \in {"wifi_ssid", "mqtt_password"} |->
              IF k = "wifi_ssid" THEN {"a", "long"} ELSE {"", "quoted", "escaped"}]

\* A backslash is taken for an escape character: a\ is read as a.
MCParsed == [v \in Values |-> IF v = "escaped" THEN "a" ELSE v]
=============================================================================
