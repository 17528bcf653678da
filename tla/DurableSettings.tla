-------------------------- MODULE DurableSettings --------------------------
(***************************************************************************)
(* What the settings store promises: a value that changes by whole edits,  *)
(* each made to the result of the one before.  Only damage from outside    *)
(* the host makes it unreadable; then it starts again as the default, or   *)
(* an edit under way puts it back.  No crash and no failing call shows.    *)
(***************************************************************************)
EXTENDS HostSettings

VARIABLES value, readable, damages

Init == value = Default /\ readable = TRUE /\ damages = 0

\* An edit that took place, whether it was reported as done or not.
Edit == /\ \E e \in Edits : value' = ReadSettings(Edited(value, e))
        /\ readable' = TRUE
        /\ UNCHANGED damages

Damage == /\ readable' = FALSE
          /\ damages' = damages + 1
          /\ UNCHANGED value

Reset == /\ ~readable
         /\ value' = Default /\ readable' = TRUE
         /\ UNCHANGED damages

Next == Edit \/ Damage \/ Reset
Spec == Init /\ [][Next]_<<value, readable, damages>>
=============================================================================
