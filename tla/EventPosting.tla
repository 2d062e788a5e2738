---------------------------- MODULE EventPosting ----------------------------
(***************************************************************************)
(* What a device of the sensor node promises about its events, without     *)
(* flags, polls, interrupts or a dispatch loop: an event that was raised   *)
(* is outstanding until it is posted to the observers, only an outstanding *)
(* event is posted, and nothing else changes what is outstanding or owed.  *)
(* Raising an event that is outstanding already adds nothing: one post     *)
(* reports both.                                                           *)
(***************************************************************************)

CONSTANTS
    Devices,    \* the devices of the node
    Events      \* the kinds of event a device can raise

VARIABLES
    pending,    \* the events every device has noted to post
    owed        \* the raised events the observers have not heard of

Init == pending = [d \in Devices |-> {}] /\ owed = pending

Raise(d, E) ==
    /\ pending' = [pending EXCEPT ![d] = @ \cup E]
    /\ owed' = [owed EXCEPT ![d] = @ \cup E]

Post(d, e) ==
    /\ e \in pending[d]
    /\ pending' = [pending EXCEPT ![d] = @ \ {e}]
    /\ owed' = [owed EXCEPT ![d] = @ \ {e}]

Next ==
    \E d \in Devices :
        \/ \E E \in SUBSET Events : Raise(d, E)
        \/ \E e \in Events : Post(d, e)

Spec == Init /\ [][Next]_<<pending, owed>>
=============================================================================
