---------------------------- MODULE CatalogSync ----------------------------
(***************************************************************************)
(* The catalogue, its outbox, concurrent drains, reconcile passes and the  *)
(* vector store together, and what keeping them in sync means.             *)
(***************************************************************************)
EXTENDS OutboxDrainer, Reconciler

vars == <<storeVars, drainVars, recon>>

Init == StoresInit /\ DrainerInit /\ ReconcilerInit

Next ==
    \/ Admin /\ UNCHANGED <<drainVars, recon>>
    \/ \E d \in Drainers :
          (DrainStep(d) \/ CrashDrain(d)) /\ UNCHANGED recon
    \/ \E r \in Reconcilers : ReconcileStep(r) /\ UNCHANGED drainVars

Spec == Init /\ [][Next]_vars

\* The cron sweep runs a drain every five minutes whatever else happens, and
\* a drain that has started runs to its end unless the process dies.  Admins
\* and reconcile passes owe nothing.
FairSpec ==
    /\ Spec
    /\ \A d \in Drainers : WF_vars(DrainStep(d) /\ UNCHANGED recon)

-----------------------------------------------------------------------------
\* Every variable keeps its shape; ids held by a drain name inserted rows.
TypeOK ==
    /\ StoresTypeOK
    /\ DrainerTypeOK
    /\ ReconcilerTypeOK

\* An existing product is never queued for deletion from the vector store:
\* the drain would carry such a row out without looking at the catalogue.
NeverCondemned == \A p \in Products : ~Condemned(p)

\* Nothing stays pending: every row is in the end carried out or given up,
\* whatever fails on the way.
EveryRowSettles ==
    \A i \in 1..MaxRows :
        (i \in RowIds /\ outbox[i].status = "pending")
            ~> (i \in RowIds /\ outbox[i].status \in {"done", "failed"})

-----------------------------------------------------------------------------
(* A claim made in the repository that the code does not keep.             *)

\* README.md: reconcile "hash-diffs the two stores directly and repairs any
\* drift": a pass that found nothing to do, on a catalogue that has not changed
\* under it and with no work owed, leaves no difference behind.
ReconcileRepairsDrift ==
    [][\A r \in Reconcilers :
          /\ DiffHashes(r)
          /\ recon[r].sql_hashes = Hashes(catalog)
          /\ recon'[r].pc = "idle"
          => \A p \in Products : Owed(p) \/ vectors[p] = catalog[p]]_vars
=============================================================================
