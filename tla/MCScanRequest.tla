--------------------------- MODULE MCScanRequest ----------------------------
(* Two pages, so that one asks while the other's scan is awaited or running; *)
(* one of them is in use before the first scan is over.                      *)
EXTENDS ScanRequest

CONSTANTS a, b

MCClients == {a, b}
MCEarly == {a}

\* the RAM of a device just powered on
MCCold == {[active_protocol |-> "none", master_state |-> 0,
            ws_cmd |-> "NONE", ws_scan_status |-> "IDLE"]}
=============================================================================
