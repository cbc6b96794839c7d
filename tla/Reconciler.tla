----------------------------- MODULE Reconciler -----------------------------
(***************************************************************************)
(* reconcile: the hash diff between the two stores that the cron job and   *)
(* the admin page run.  It takes no lock and shares no transaction with    *)
(* anything: two reads, one after the other, and two inserts.              *)
(***************************************************************************)
EXTENDS CatalogStores

CONSTANT Reconcilers    \* passes that may run at the same time

VARIABLE recon          \* [Reconcilers -> ReconState], locals of each pass

ReconState ==
    [pc         : {"idle", "vec", "upserts", "deletes"},
     sql_hashes : [Products -> Contents \cup {Absent}],
     upserts    : SUBSET Products,    \* missing | stale
     orphans    : SUBSET Products]

IdleRecon ==
    [pc |-> "idle", sql_hashes |-> [p \in Products |-> Absent],
     upserts |-> {}, orphans |-> {}]

ReconcilerTypeOK == recon \in [Reconcilers -> ReconState]

ReconcilerInit == recon = [r \in Reconcilers |-> IdleRecon]

-----------------------------------------------------------------------------
all_product_hashes(r) ==
    /\ recon[r].pc = "idle"
    /\ recon' = [recon EXCEPT ![r] =
          [IdleRecon EXCEPT !.pc = "vec", !.sql_hashes = Hashes(catalog)]]
    /\ UNCHANGED storeVars

missing(sql, vec) == {p \in Products : sql[p] # Absent /\ vec[p] = Absent}

stale(sql, vec) ==
    {p \in Products : sql[p] # Absent /\ vec[p] # Absent /\ sql[p] # vec[p]}

orphans(sql, vec) == {p \in Products : sql[p] = Absent /\ vec[p] # Absent}

\* The vector side is read, compared with the earlier SQL side, and the diff
\* kept; with nothing to do the pass ends here.
DiffHashes(r) ==
    LET sql == recon[r].sql_hashes
        vec == Hashes(vectors)
        redo == missing(sql, vec) \cup stale(sql, vec)
    IN
    /\ recon[r].pc = "vec"
    /\ recon' = [recon EXCEPT ![r] =
          [IdleRecon EXCEPT
              !.pc = IF redo # {} THEN "upserts"
                     ELSE IF orphans(sql, vec) # {} THEN "deletes" ELSE "idle",
              !.upserts = redo,
              !.orphans = orphans(sql, vec)]]
    /\ UNCHANGED storeVars

EnqueueUpserts(r) ==
    /\ recon[r].pc = "upserts"
    /\ enqueue_many(recon[r].upserts, "upsert")
    /\ recon' = [recon EXCEPT ![r] =
          IF recon[r].orphans = {} THEN IdleRecon
          ELSE [recon[r] EXCEPT !.pc = "deletes", !.upserts = {}]]
    /\ UNCHANGED <<catalog, minted, vectors>>

EnqueueDeletes(r) ==
    /\ recon[r].pc = "deletes"
    /\ enqueue_many(recon[r].orphans, "delete")
    /\ recon' = [recon EXCEPT ![r] = IdleRecon]
    /\ UNCHANGED <<catalog, minted, vectors>>

\* The request dies between its reads and its two inserts.
ReconcileDies(r) ==
    /\ recon[r].pc # "idle"
    /\ recon' = [recon EXCEPT ![r] = IdleRecon]
    /\ UNCHANGED storeVars

ReconcileStep(r) ==
    \/ all_product_hashes(r) \/ DiffHashes(r)
    \/ EnqueueUpserts(r) \/ EnqueueDeletes(r) \/ ReconcileDies(r)
=============================================================================
