------------------------- MODULE RecommendationLog -------------------------
(***************************************************************************)
(* What the table of recommendations and the counter on the profile        *)
(* promise to their readers (pages, digest, live panel, gate), without     *)
(* saying how: recommendations of a user are never lost or rewritten, the  *)
(* one that is shown is the one committed last, there is one as soon as    *)
(* any was committed, and the counter starts again at 0 in the very step   *)
(* in which the shown recommendation changes, and at no other moment.      *)
(***************************************************************************)
EXTENDS Naturals

VARIABLES
    log,        \* what each recommendation was written for, by number
    shown,      \* the number of the current one, 0: none yet
    since       \* events counted since it was committed

logVars == <<log, shown, since>>

Init ==
    /\ DOMAIN log = {}
    /\ shown = 0
    /\ since = 0

Count ==
    /\ since' \in Nat
    /\ since' >= since
    /\ UNCHANGED <<log, shown>>

Generate ==
    /\ shown' = shown + 1
    /\ DOMAIN log' = 1..shown'
    /\ \A i \in 1..shown : log'[i] = log[i]
    /\ since' = 0

Next == Count \/ Generate

Spec == Init /\ [][Next]_logVars
=============================================================================
