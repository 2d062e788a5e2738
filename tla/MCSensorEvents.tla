--------------------------- MODULE MCSensorEvents ---------------------------
(***************************************************************************)
(* A finite instance of SensorEvents: two mains detectors, whose ISRs      *)
(* raise all three events, and a relay set by CoAP commands, which has a   *)
(* change event for every second change.                                   *)
(***************************************************************************)
EXTENDS SensorEvents

MCConfig ==
    [d \in 1..3 |->
        IF d < 3
          THEN [AboveEventAt |-> 1, BelowEventAt |-> 0, ChangeEvent |-> d,
                eventsActive |-> {"change", "below", "above"}]
          ELSE [AboveEventAt |-> 1, BelowEventAt |-> 0, ChangeEvent |-> 2,
                eventsActive |-> {"change", "above"}]]
=============================================================================
