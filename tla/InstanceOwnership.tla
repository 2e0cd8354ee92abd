------------------------- MODULE InstanceOwnership -------------------------
(***************************************************************************)
(* What the hub promises about the end of one instance, whatever callers,  *)
(* messages and adapter failures do to it.  The adapter owns a runner      *)
(* until one removal of it succeeds.  An attempt to close the instance is  *)
(* given up when the removal fails, and may start again later.  The event  *)
(* "terminated" is announced once, only when nothing is owned, and "end"   *)
(* once, only after "terminated".                                          *)
(***************************************************************************)

VARIABLES
    phase,   \* "live", "closing", "terminated" or "ended"
    owned    \* the adapter still owns a runner process or container

vars == <<phase, owned>>

Init == phase = "live" /\ owned = TRUE

\* A closing attempt begins; several may, one at a time.
Begin ==
    /\ phase = "live"
    /\ phase' = "closing"
    /\ UNCHANGED owned

\* The attempt failed: the runner is still owned and the instance stays.
GiveUp ==
    /\ phase = "closing" /\ owned
    /\ phase' = "live"
    /\ UNCHANGED owned

\* The adapter let go of the runner: at any time, and for good.
Release ==
    /\ owned
    /\ owned' = FALSE
    /\ UNCHANGED phase

Announce ==
    /\ phase = "closing" /\ ~owned
    /\ phase' = "terminated"
    /\ UNCHANGED owned

End ==
    /\ phase = "terminated"
    /\ phase' = "ended"
    /\ UNCHANGED owned

Next == Begin \/ GiveUp \/ Release \/ Announce \/ End

Spec == Init /\ [][Next]_vars
=============================================================================
