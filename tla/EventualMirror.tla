--------------------------- MODULE EventualMirror ---------------------------
(***************************************************************************)
(* What keeping a copy of a table in sync promises, without saying how.    *)
(* A key is `owed` when its copy may differ from the source.  A write to   *)
(* the source always makes the key owed; the copy of a key may change, to  *)
(* anything, only while the key is owed; and a key is settled only at a    *)
(* moment when copy and source agree.                                      *)
(***************************************************************************)
CONSTANTS Keys, Values, None

VARIABLES source, copy, owed

mirrorVars == <<source, copy, owed>>

Init ==
    /\ source = [k \in Keys |-> None]
    /\ copy = [k \in Keys |-> None]
    /\ owed = {}

Write(k, v) ==
    /\ source' = [source EXCEPT ![k] = v]
    /\ owed' = owed \cup {k}
    /\ UNCHANGED copy

\* Work in progress on some owed keys: intermediate contents are free.
Carry ==
    /\ copy' \in [Keys -> Values \cup {None}]
    /\ \A k \in Keys \ owed : copy'[k] = copy[k]
    /\ UNCHANGED <<source, owed>>

\* Nothing forbids doing the work again.
Owe(ks) ==
    /\ owed' = owed \cup ks
    /\ UNCHANGED <<source, copy>>

Settle(k) ==
    /\ k \in owed
    /\ copy[k] = source[k]
    /\ owed' = owed \ {k}
    /\ UNCHANGED <<source, copy>>

Next ==
    \/ \E k \in Keys, v \in Values \cup {None} : Write(k, v)
    \/ Carry
    \/ \E ks \in SUBSET Keys : Owe(ks)
    \/ \E k \in Keys : Settle(k)

Spec == Init /\ [][Next]_mirrorVars
=============================================================================
