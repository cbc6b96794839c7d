--------------------------- MODULE AgentContract ---------------------------
(***************************************************************************)
(* What a call of run_agent promises to those who make it (the background  *)
(* task, "refresh now", the digest worker), without saying how: it         *)
(* replaces the recommendation of the user at most once, by a non-empty    *)
(* set of products; it reports success only after it has done so; and      *)
(* between calls nothing replaces it.  A call that reports an error may    *)
(* still have replaced it, when only its evidence could not be written.    *)
(***************************************************************************)
CONSTANT Products

VARIABLES
    shown,      \* the items of the current recommendation, {}: none yet
    call        \* "none", "open", "replaced", "succeeded", "failed"

contractVars == <<shown, call>>

Init == shown = {} /\ call = "none"

Start ==
    /\ call \in {"none", "succeeded", "failed"}
    /\ call' = "open"
    /\ UNCHANGED shown

Replace ==
    /\ call = "open"
    /\ shown' \in (SUBSET Products) \ {{}}
    /\ call' = "replaced"

Succeed ==
    /\ call = "replaced"
    /\ call' = "succeeded"
    /\ UNCHANGED shown

Fail ==
    /\ call \in {"open", "replaced"}
    /\ call' = "failed"
    /\ UNCHANGED shown

Next == Start \/ Replace \/ Succeed \/ Fail

Spec == Init /\ [][Next]_contractVars
=============================================================================
