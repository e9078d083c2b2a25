--------------------------- MODULE VerifiedWrite ---------------------------
(***************************************************************************)
(* What `flasher flash` promises about a plan of images, with no packets,  *)
(* no retries and no link.  Images are verified one after the other, and   *)
(* only the first that has not been verified may change: those before it   *)
(* are never disturbed again, and those after it not until its turn.  An   *)
(* image is verified only when it is really in flash, and the command      *)
(* reports "done" only when all are.                                       *)
(***************************************************************************)
EXTENDS Naturals

CONSTANT Images        \* how many images the plan lists, a natural number

VARIABLES
    present,           \* present[f]: image f is in flash, whole and correct
    verified,          \* images 1..verified have been verified
    outcome            \* "running", then "done" or "failed"

vars == <<present, verified, outcome>>

Init ==
    /\ present \in [1..Images -> BOOLEAN]
    /\ verified = 0
    /\ outcome = "running"

\* The chip erases and programs.  It may do so even after the command has
\* failed, for requests that were already on their way.
Disturb ==
    /\ present' \in [1..Images -> BOOLEAN]
    /\ \A f \in 1..Images : f # verified + 1 => present'[f] = present[f]
    /\ UNCHANGED <<verified, outcome>>

Verify ==
    /\ outcome = "running"
    /\ verified < Images
    /\ present[verified + 1]
    /\ verified' = verified + 1
    /\ UNCHANGED <<present, outcome>>

Finish ==
    /\ outcome = "running"
    /\ verified = Images
    /\ outcome' = "done"
    /\ UNCHANGED <<present, verified>>

Fail ==
    /\ outcome = "running"
    /\ outcome' = "failed"
    /\ UNCHANGED <<present, verified>>

Next == Disturb \/ Verify \/ Finish \/ Fail

Spec == Init /\ [][Next]_vars
=============================================================================
