------------------------ MODULE CatalogSync_proofs ------------------------
(***************************************************************************)
(* Theorems about CatalogSync for every number of products, contents,      *)
(* rows, drains and reconcile passes, and every batch and retry limit:     *)
(* first of CatalogSync itself, then of what CatalogHistory observes.      *)
(***************************************************************************)
EXTENDS CatalogHistory, FiniteSetTheorems, SequenceTheorems, TLAPS

-----------------------------------------------------------------------------
(* The outbox operations.                                                  *)

\* mark_done keeps the outbox well formed and touches one status.
LEMMA MarkedDoneFacts ==
    ASSUME NEW i \in RowIds, outbox \in Seq(Row)
    PROVE  /\ MarkedDone(i) \in Seq(Row)
           /\ Len(MarkedDone(i)) = Len(outbox)
           /\ \A j \in RowIds :
                 /\ MarkedDone(i)[j].product = outbox[j].product
                 /\ MarkedDone(i)[j].op = outbox[j].op
                 /\ j # i => MarkedDone(i)[j] = outbox[j]
           /\ MarkedDone(i)[i].status = "done"
<1>1. \A j \in RowIds : outbox[j] \in Row
  BY DEF RowIds
<1>2. [outbox[i] EXCEPT !.status = "done"] \in Row
  BY <1>1 DEF Row, Status
<1>3. MarkedDone(i) = [outbox EXCEPT ![i] = [outbox[i] EXCEPT !.status = "done"]]
  BY DEF MarkedDone
<1>4. MarkedDone(i) \in Seq(Row) /\ Len(MarkedDone(i)) = Len(outbox)
  BY <1>2, <1>3 DEF RowIds
<1>5. \A j \in RowIds : MarkedDone(i)[j] =
          IF j = i THEN [outbox[i] EXCEPT !.status = "done"] ELSE outbox[j]
  BY <1>3 DEF RowIds
<1> QED
  BY <1>1, <1>4, <1>5 DEF Row

\* mark_failed keeps the outbox well formed and never makes a row done.
LEMMA MarkedFailedFacts ==
    ASSUME NEW i \in RowIds, outbox \in Seq(Row)
    PROVE  /\ MarkedFailed(i) \in Seq(Row)
           /\ Len(MarkedFailed(i)) = Len(outbox)
           /\ \A j \in RowIds :
                 /\ MarkedFailed(i)[j].product = outbox[j].product
                 /\ MarkedFailed(i)[j].op = outbox[j].op
                 /\ j # i => MarkedFailed(i)[j] = outbox[j]
           /\ MarkedFailed(i)[i].status =
                 IF outbox[i].attempts + 1 > MaxAttempts
                 THEN "failed" ELSE "pending"
<1> DEFINE st == IF outbox[i].attempts + 1 > MaxAttempts
                 THEN "failed" ELSE "pending"
<1> DEFINE new == [outbox[i] EXCEPT !.attempts = @ + 1, !.status = st]
<1>1. \A j \in RowIds : outbox[j] \in Row
  BY DEF RowIds
<1>2. outbox[i].attempts \in Nat /\ st \in Status
  BY <1>1 DEF Row, Status
<1>3. /\ new \in Row
      /\ new.status = st
      /\ new.product = outbox[i].product
      /\ new.op = outbox[i].op
  <2> DEFINE n == outbox[i].attempts + 1
  <2>1. n \in Nat /\ outbox[i] \in Row
    BY <1>1, <1>2
  <2> HIDE DEF st, n
  <2>2. LET r == [outbox[i] EXCEPT !.attempts = n, !.status = st] IN
        /\ r \in Row
        /\ r.status = st
        /\ r.product = outbox[i].product
        /\ r.op = outbox[i].op
    BY <1>2, <2>1 DEF Row
  <2> QED  BY <2>2 DEF n
<1>4. MarkedFailed(i) = [outbox EXCEPT ![i] = new]
  BY DEF MarkedFailed, RowIds
<1> HIDE DEF new
<1>5. MarkedFailed(i) \in Seq(Row) /\ Len(MarkedFailed(i)) = Len(outbox)
  BY <1>3, <1>4 DEF RowIds
<1>6. \A j \in RowIds : MarkedFailed(i)[j] = IF j = i THEN new ELSE outbox[j]
  BY <1>4 DEF RowIds
<1> QED
  BY <1>3, <1>5, <1>6

\* One inserted row: the latest of its product, pending, and nothing else.
LEMMA EnqueueFacts ==
    ASSUME NEW p \in Products, NEW op \in Op, enqueue(p, op),
           outbox \in Seq(Row), StoresAssumption
    PROVE  /\ outbox' \in Seq(Row)
           /\ Len(outbox') = Len(outbox) + 1
           /\ Len(outbox') <= MaxRows
           /\ \A j \in RowIds : outbox'[j] = outbox[j]
           /\ outbox'[Len(outbox) + 1] = NewRow(p, op)
<1>1. NewRow(p, op) \in Row
  BY DEF NewRow, Row, Status
<1> QED
  BY <1>1, AppendProperties, LenProperties DEF enqueue, StoresAssumption, RowIds

\* Rows inserted together: one pending row per product of the set.
LEMMA EnqueueManyFacts ==
    ASSUME NEW ps \in SUBSET Products, NEW op \in Op, enqueue_many(ps, op),
           outbox \in Seq(Row), StoresAssumption
    PROVE  /\ outbox' \in Seq(Row)
           /\ Len(outbox') \in Nat
           /\ Len(outbox) <= Len(outbox')
           /\ Len(outbox') <= MaxRows
           /\ \A j \in RowIds : outbox'[j] = outbox[j]
           /\ \A j \in RowIds' \ RowIds :
                 \E p \in ps : outbox'[j] = NewRow(p, op)
           /\ \A p \in ps : \E j \in RowIds' \ RowIds :
                 outbox'[j].product = p
           /\ \A j, k \in RowIds' \ RowIds :
                 outbox'[j].product = outbox'[k].product => j = k
<1> DEFINE n == Cardinality(ps)
<1>1. n \in Nat
  BY FS_Subset, FS_CardinalityType DEF StoresAssumption
<1>2. PICK order \in Bijection(1..n, ps) :
          outbox' = outbox \o [k \in 1..n |-> NewRow(order[k], op)]
  BY DEF enqueue_many
<1>3. /\ order \in [1..n -> ps]
      /\ \A j, k \in 1..n : order[j] = order[k] => j = k
      /\ \A p \in ps : \E k \in 1..n : order[k] = p
  BY <1>2 DEF Bijection, Injection, Surjection, IsInjective
<1> DEFINE new == [k \in 1..n |-> NewRow(order[k], op)]
<1>4. Len(outbox) + n <= MaxRows
  BY DEF enqueue_many
<1> HIDE DEF n
<1>5. \A p \in ps : NewRow(p, op) \in Row /\ NewRow(p, op).product = p
  BY DEF NewRow, Row, Status
<1>6. new \in Seq(Row) /\ Len(new) = n
  <2>1. new \in [1..n -> Row]
    BY <1>3, <1>5
  <2> QED  BY <1>1, <2>1
<1>7. \A k \in 1..n : new[k] = NewRow(order[k], op) /\ new[k].product = order[k]
  BY <1>3, <1>5
<1>8. /\ outbox' \in Seq(Row)
      /\ Len(outbox') = Len(outbox) + n
      /\ \A j \in 1..Len(outbox) : outbox'[j] = outbox[j]
      /\ \A k \in 1..n : outbox'[Len(outbox) + k] = new[k]
  <2> HIDE DEF new
  <2>1. outbox' = outbox \o new
    BY <1>2 DEF new
  <2>2. /\ outbox \o new \in Seq(Row)
        /\ Len(outbox \o new) = Len(outbox) + n
        /\ \A j \in 1..Len(outbox) + n : (outbox \o new)[j] =
              IF j <= Len(outbox) THEN outbox[j] ELSE new[j - Len(outbox)]
    BY <1>6, ConcatProperties
  <2>3. Len(outbox) \in Nat
    BY LenProperties
  <2>4. ASSUME NEW k \in 1..n  PROVE (outbox \o new)[Len(outbox) + k] = new[k]
    <3>1. /\ Len(outbox) + k \in 1..Len(outbox) + n
          /\ ~(Len(outbox) + k <= Len(outbox))
          /\ Len(outbox) + k - Len(outbox) = k
      BY <1>1, <2>3
    <3> QED  BY <2>2, <3>1
  <2>5. \A j \in 1..Len(outbox) : j \in 1..Len(outbox) + n /\ j <= Len(outbox)
    BY <1>1, <2>3
  <2> QED  BY <2>1, <2>2, <2>4, <2>5
<1> HIDE DEF new
<1>9. \A j \in RowIds' \ RowIds :
          \E k \in 1..n : j = Len(outbox) + k /\ outbox'[j] = new[k]
  <2> TAKE j \in RowIds' \ RowIds
  <2>1. j - Len(outbox) \in 1..n /\ j = Len(outbox) + (j - Len(outbox))
    BY <1>1, <1>8 DEF RowIds
  <2> QED  BY <2>1, <1>8
<1>10. \A k \in 1..n : Len(outbox) + k \in RowIds' \ RowIds
  BY <1>1, <1>8 DEF RowIds
<1>11. \A p \in ps : \E j \in RowIds' \ RowIds : outbox'[j].product = p
  BY <1>3, <1>7, <1>8, <1>10
<1>12. \A j \in RowIds' \ RowIds :
          \E p \in ps : outbox'[j] = NewRow(p, op)
  BY <1>3, <1>7, <1>9
<1>13. ASSUME NEW j \in RowIds' \ RowIds, NEW k \in RowIds' \ RowIds,
              outbox'[j].product = outbox'[k].product
       PROVE  j = k
  BY <1>3, <1>7, <1>9, <1>13
<1>14. Len(outbox) \in Nat
  BY LenProperties
<1>15. /\ Len(outbox') \in Nat
       /\ Len(outbox) <= Len(outbox')
       /\ Len(outbox') <= MaxRows
  BY <1>1, <1>4, <1>8, <1>14
<1>16. \A j \in RowIds : outbox'[j] = outbox[j]
  BY <1>8 DEF RowIds
<1>17. outbox' \in Seq(Row)
  BY <1>8
<1> QED
  BY <1>11, <1>12, <1>13, <1>15, <1>16, <1>17

-----------------------------------------------------------------------------
(* The shape of every variable.                                            *)

LEMMA IdleDrainType == IdleDrain \in DrainState
BY DEF IdleDrain, DrainState, DrainPC, Blank

\* Leaving a loop, entering a try block and ticking off a row keep the
\* drain's locals well formed.
LEMMA ResumeType ==
    ASSUME NEW s \in DrainState
    PROVE  Resume(s) \in DrainState
BY IdleDrainType DEF Resume, DrainState, DrainPC

LEMMA EnterType ==
    ASSUME NEW s \in DrainState, NEW pc \in DrainPC,
           NEW ids \in SUBSET (1..MaxRows)
    PROVE  Enter(s, pc, ids) \in DrainState
BY DEF Enter, DrainState

LEMMA TickedType ==
    ASSUME NEW s \in DrainState, NEW i
    PROVE  Ticked(s, i) \in DrainState
<1>1. [s EXCEPT !.marks = {}, !.group = {}] \in DrainState
  BY DEF DrainState
<1>2. [s EXCEPT !.marks = @ \ {i}] \in DrainState
  BY DEF DrainState
<1> QED
  BY <1>1, <1>2, ResumeType DEF Ticked

\* Marking a row, inserted or not, keeps the outbox well formed.
LEMMA MarkedType ==
    ASSUME NEW i \in Nat, outbox \in Seq(Row), StoresAssumption
    PROVE  /\ MarkedDone(i) \in Seq(Row)
           /\ MarkedFailed(i) \in Seq(Row)
           /\ Len(MarkedDone(i)) = Len(outbox)
           /\ Len(MarkedFailed(i)) = Len(outbox)
<1>1. CASE i \in RowIds
  BY <1>1, MarkedDoneFacts, MarkedFailedFacts
<1>2. CASE i \notin RowIds
  <2>1. DOMAIN outbox = RowIds
    BY LenProperties DEF RowIds
  <2>2. MarkedDone(i) = outbox /\ MarkedFailed(i) = outbox
    BY <1>2, <2>1, LenProperties DEF MarkedDone, MarkedFailed
  <2> QED  BY <2>2
<1> QED
  BY <1>1, <1>2

\* Entries have hashes.
LEMMA HashType ==
    ASSUME NEW table \in [Products -> Entry \cup {Absent}]
    PROVE  Hashes(table) \in [Products -> Contents \cup {Absent}]
BY DEF Hashes, content_hash, Entry

LEMMA AdminType ==
    ASSUME StoresTypeOK, Admin, StoresAssumption
    PROVE  StoresTypeOK'
<1> USE DEF StoresTypeOK
<1>1. ASSUME NEW p \in Products, NEW e \in Entry, CreateProduct(p, e)
      PROVE  StoresTypeOK'
  BY <1>1, EnqueueFacts DEF CreateProduct, Op
<1>2. ASSUME NEW p \in Products, NEW e \in Entry, UpdateProduct(p, e)
      PROVE  StoresTypeOK'
  BY <1>2, EnqueueFacts DEF UpdateProduct, Op
<1>3. ASSUME NEW p \in Products, RemoveProduct(p)
      PROVE  StoresTypeOK'
  BY <1>3, EnqueueFacts DEF RemoveProduct, Op
<1> QED
  BY <1>1, <1>2, <1>3 DEF Admin

LEMMA ReconcileType ==
    ASSUME StoresTypeOK, ReconcilerTypeOK, StoresAssumption,
           NEW r \in Reconcilers, ReconcileStep(r)
    PROVE  StoresTypeOK' /\ ReconcilerTypeOK'
<1> USE DEF ReconcilerTypeOK
<1>1. IdleRecon \in ReconState
  BY DEF IdleRecon, ReconState
<1>2. CASE all_product_hashes(r)
  <2>1. Hashes(catalog) \in [Products -> Contents \cup {Absent}]
    BY HashType DEF StoresTypeOK
  <2>2. [IdleRecon EXCEPT !.pc = "vec", !.sql_hashes = Hashes(catalog)]
            \in ReconState
    BY <1>1, <2>1 DEF ReconState
  <2> QED
    BY <1>2, <2>2 DEF all_product_hashes, storeVars, StoresTypeOK
<1>3. CASE DiffHashes(r)
  <2> DEFINE sql == recon[r].sql_hashes
             vec == Hashes(vectors)
             redo == missing(sql, vec) \cup stale(sql, vec)
             pc == IF redo # {} THEN "upserts"
                   ELSE IF orphans(sql, vec) # {} THEN "deletes" ELSE "idle"
             t == [IdleRecon EXCEPT !.pc = pc, !.upserts = redo,
                                    !.orphans = orphans(sql, vec)]
  <2>1. recon' = [recon EXCEPT ![r] = t]
    BY <1>3 DEF DiffHashes
  <2>2. redo \in SUBSET Products /\ orphans(sql, vec) \in SUBSET Products
    BY DEF missing, stale, orphans
  <2>3. pc \in {"idle", "upserts", "deletes"}
    OBVIOUS
  <2>4. t \in ReconState
    <3> HIDE DEF sql, vec, redo, pc
    <3> QED  BY <1>1, <2>2, <2>3 DEF ReconState
  <2>5. UNCHANGED storeVars
    BY <1>3 DEF DiffHashes
  <2> HIDE DEF t
  <2> QED
    BY <2>1, <2>4, <2>5 DEF storeVars, StoresTypeOK
<1>4. CASE EnqueueUpserts(r)
  <2>1. recon[r].upserts \in SUBSET Products
    BY DEF ReconState
  <2>2. StoresTypeOK'
    BY <1>4, <2>1, EnqueueManyFacts DEF EnqueueUpserts, Op, StoresTypeOK
  <2>3. ReconcilerTypeOK'
    BY <1>1, <1>4 DEF EnqueueUpserts, ReconState
  <2> QED  BY <2>2, <2>3
<1>5. CASE EnqueueDeletes(r)
  <2>1. recon[r].orphans \in SUBSET Products
    BY DEF ReconState
  <2>2. StoresTypeOK'
    BY <1>5, <2>1, EnqueueManyFacts DEF EnqueueDeletes, Op, StoresTypeOK
  <2>3. ReconcilerTypeOK'
    BY <1>1, <1>5 DEF EnqueueDeletes
  <2> QED  BY <2>2, <2>3
<1>6. CASE ReconcileDies(r)
  BY <1>1, <1>6 DEF ReconcileDies, storeVars, StoresTypeOK
<1> QED
  BY <1>2, <1>3, <1>4, <1>5, <1>6 DEF ReconcileStep

LEMMA DrainType ==
    ASSUME StoresTypeOK, DrainerTypeOK, StoresAssumption, DrainerAssumption,
           NEW d \in Drainers, DrainStep(d) \/ CrashDrain(d)
    PROVE  StoresTypeOK' /\ DrainerTypeOK'
<1>1. /\ drain \in [Drainers -> DrainState] /\ drain[d] \in DrainState
      /\ crashes \in 0..MaxCrashes
  BY DEF DrainerTypeOK
<1>2. /\ outbox \in Seq(Row) /\ Len(outbox) <= MaxRows
      /\ catalog \in [Products -> Entry \cup {Absent}]
      /\ vectors \in [Products -> Entry \cup {Absent}]
      /\ minted \in SUBSET Products
  BY DEF StoresTypeOK
<1>3. /\ drain[d].deletes \in SUBSET (1..MaxRows)
      /\ drain[d].upserts \in SUBSET (1..MaxRows)
      /\ drain[d].embeds \in SUBSET (1..MaxRows)
      /\ drain[d].group \in SUBSET (1..MaxRows)
      /\ drain[d].marks \in SUBSET (1..MaxRows)
      /\ drain[d].seen \in [Products -> Entry \cup {Absent}]
  BY <1>1 DEF DrainState
<1>4. ASSUME NEW s \in DrainState, drain' = [drain EXCEPT ![d] = s],
             crashes' \in 0..MaxCrashes
      PROVE  DrainerTypeOK'
  BY <1>1, <1>4 DEF DrainerTypeOK
<1>5. CASE claim_pending(d)
  <2>1. PICK ids \in SUBSET PendingIds :
            drain' = [drain EXCEPT ![d] =
                [IdleDrain EXCEPT
                    !.pc = "claiming",
                    !.deletes = {i \in ids : outbox[i].op = "delete"},
                    !.upserts = {i \in ids : outbox[i].op = "upsert"}]]
    BY <1>5 DEF claim_pending
  <2>2. ids \in SUBSET (1..MaxRows)
    BY <1>2, LenProperties DEF PendingIds, RowIds, StoresAssumption
  <2>3. [IdleDrain EXCEPT
            !.pc = "claiming",
            !.deletes = {i \in ids : outbox[i].op = "delete"},
            !.upserts = {i \in ids : outbox[i].op = "upsert"}] \in DrainState
    BY <2>2, IdleDrainType DEF DrainState, DrainPC
  <2>4. UNCHANGED <<storeVars, crashes>>
    BY <1>5 DEF claim_pending
  <2> QED  BY <1>1, <1>2, <1>4, <2>1, <2>3, <2>4 DEF storeVars, StoresTypeOK
<1>6. CASE ReturnConnection(d)
  BY <1>1, <1>2, <1>4, <1>6
     DEF ReturnConnection, DrainState, DrainPC, storeVars, StoresTypeOK
<1>7. CASE PurgeVectors(d)
  <2>1. [Enter(drain[d], "marking", drain[d].deletes) EXCEPT !.deletes = {}]
            \in DrainState
    BY <1>1, <1>3, EnterType DEF DrainState, DrainPC
  <2> QED
    BY <1>1, <1>2, <1>4, <1>7, <2>1 DEF PurgeVectors, StoresTypeOK
<1>8. CASE PurgeFails(d)
  <2>1. [Enter(drain[d], "failing", drain[d].deletes) EXCEPT !.deletes = {}]
            \in DrainState
    BY <1>1, <1>3, EnterType DEF DrainState, DrainPC
  <2> QED
    BY <1>1, <1>2, <1>4, <1>8, <2>1 DEF PurgeFails, storeVars, StoresTypeOK
<1>9. CASE get_products_by_ids(d)
  <2> DEFINE found == [p \in Products |->
                  IF p \in ProductsOf(drain[d].upserts)
                  THEN catalog[p] ELSE Absent]
  <2>1. found \in [Products -> Entry \cup {Absent}]
    BY <1>2
  <2> HIDE DEF found
  <2>2. [drain[d] EXCEPT !.pc = "hashes", !.looked = TRUE, !.seen = found]
            \in DrainState
    BY <1>1, <2>1 DEF DrainState, DrainPC
  <2> QED
    BY <1>1, <1>2, <1>4, <1>9, <2>2
       DEF get_products_by_ids, found, storeVars, StoresTypeOK
<1>10. CASE all_hashes(d)
  <2>1. [drain[d] EXCEPT !.pc = "rows", !.hashes = Hashes(vectors)]
            \in DrainState
    BY <1>1, <1>2, HashType DEF DrainState, DrainPC
  <2> QED
    BY <1>1, <1>2, <1>4, <1>10, <2>1 DEF all_hashes, storeVars, StoresTypeOK
<1>11. ASSUME NEW i \in drain[d].upserts, NEW pc \in {"marking", "failing"}
       PROVE  [Enter(drain[d], pc, {i}) EXCEPT !.upserts = @ \ {i}]
                  \in DrainState
  <2> DEFINE s == Enter(drain[d], pc, {i})
  <2>1. s \in DrainState
    BY <1>1, <1>3, EnterType DEF DrainPC
  <2> HIDE DEF s
  <2>2. [s EXCEPT !.upserts = @ \ {i}] \in DrainState
    BY <2>1 DEF DrainState
  <2> QED  BY <2>2 DEF s
<1>12. CASE RowGone(d)
  BY <1>1, <1>2, <1>4, <1>11, <1>12 DEF RowGone, StoresTypeOK
<1>13. CASE RowGoneFails(d)
  BY <1>1, <1>2, <1>4, <1>11, <1>13 DEF RowGoneFails, storeVars, StoresTypeOK
<1>14. CASE RowUnchanged(d)
  <2>1. PICK i \in drain[d].upserts :
            /\ outbox' = MarkedDone(i)
            /\ drain' = [drain EXCEPT ![d] =
                  Resume([drain[d] EXCEPT !.upserts = @ \ {i}])]
    BY <1>14 DEF RowUnchanged
  <2>2. [drain[d] EXCEPT !.upserts = @ \ {i}] \in DrainState
    BY <1>1 DEF DrainState
  <2>3. i \in Nat
    BY <1>3
  <2> QED
    BY <1>1, <1>2, <1>4, <1>14, <2>1, <2>2, <2>3, ResumeType, MarkedType
       DEF RowUnchanged, StoresTypeOK
<1>15. CASE RowNeedsEmbed(d)
  <2>1. PICK i \in drain[d].upserts :
            drain' = [drain EXCEPT ![d] =
                Resume([drain[d] EXCEPT !.upserts = @ \ {i},
                                        !.embeds = @ \cup {i}])]
    BY <1>15 DEF RowNeedsEmbed
  <2>2. [drain[d] EXCEPT !.upserts = @ \ {i}, !.embeds = @ \cup {i}]
            \in DrainState
    <3>1. /\ drain[d].upserts \ {i} \in SUBSET (1..MaxRows)
          /\ drain[d].embeds \cup {i} \in SUBSET (1..MaxRows)
      BY <1>3
    <3> QED  BY <1>1, <3>1 DEF DrainState
  <2> QED
    BY <1>1, <1>2, <1>4, <1>15, <2>1, <2>2, ResumeType
       DEF RowNeedsEmbed, storeVars, StoresTypeOK
<1>16. CASE EmbedAndUpsert(d)
  <2>1. [Enter(drain[d], "marking", drain[d].embeds) EXCEPT !.embeds = {}]
            \in DrainState
    BY <1>1, <1>3, EnterType DEF DrainState, DrainPC
  <2> QED
    BY <1>1, <1>2, <1>3, <1>4, <1>16, <2>1 DEF EmbedAndUpsert, StoresTypeOK
<1>17. CASE EmbedFails(d)
  <2>1. [Enter(drain[d], "failing", drain[d].embeds) EXCEPT !.embeds = {}]
            \in DrainState
    BY <1>1, <1>3, EnterType DEF DrainState, DrainPC
  <2> QED
    BY <1>1, <1>2, <1>4, <1>17, <2>1 DEF EmbedFails, storeVars, StoresTypeOK
<1>18. CASE mark_done(d)
  <2>1. PICK i \in drain[d].marks :
            /\ outbox' = MarkedDone(i)
            /\ drain' = [drain EXCEPT ![d] = Ticked(drain[d], i)]
    BY <1>18 DEF mark_done
  <2>2. i \in Nat
    BY <1>3
  <2> QED
    BY <1>1, <1>2, <1>4, <1>18, <2>1, <2>2, TickedType, MarkedType
       DEF mark_done, StoresTypeOK
<1>19. CASE MarkDoneFails(d)
  BY <1>1, <1>2, <1>3, <1>4, <1>19, EnterType
     DEF MarkDoneFails, DrainPC, storeVars, StoresTypeOK
<1>20. CASE mark_failed(d)
  <2>1. PICK i \in drain[d].marks :
            /\ outbox' = MarkedFailed(i)
            /\ drain' = [drain EXCEPT ![d] = Ticked(drain[d], i)]
    BY <1>20 DEF mark_failed
  <2>2. i \in Nat
    BY <1>3
  <2> QED
    BY <1>1, <1>2, <1>4, <1>20, <2>1, <2>2, TickedType, MarkedType
       DEF mark_failed, StoresTypeOK
<1>21. CASE CrashDrain(d)
  <2>1. crashes' \in 0..MaxCrashes
    BY <1>1, <1>21 DEF CrashDrain, DrainerAssumption
  <2> QED
    BY <1>2, <1>4, <1>21, <2>1, IdleDrainType
       DEF CrashDrain, storeVars, StoresTypeOK
<1> QED
  BY <1>5, <1>6, <1>7, <1>8, <1>9, <1>10, <1>12, <1>13, <1>14, <1>15, <1>16,
     <1>17, <1>18, <1>19, <1>20, <1>21 DEF DrainStep

LEMMA InitType ==
    ASSUME Init, StoresAssumption, DrainerAssumption
    PROVE  TypeOK
<1>1. StoresTypeOK
  BY DEF Init, StoresInit, StoresTypeOK, StoresAssumption
<1>2. DrainerTypeOK
  BY IdleDrainType
     DEF Init, DrainerInit, DrainerTypeOK, DrainerAssumption
<1>3. ReconcilerTypeOK
  BY DEF Init, ReconcilerInit, ReconcilerTypeOK, IdleRecon, ReconState
<1> QED
  BY <1>1, <1>2, <1>3 DEF TypeOK

LEMMA StepType ==
    ASSUME TypeOK, [Next]_vars, StoresAssumption, DrainerAssumption
    PROVE  TypeOK'
<1> USE DEF TypeOK
<1>1. CASE Admin /\ UNCHANGED <<drainVars, recon>>
  BY <1>1, AdminType
     DEF drainVars, DrainerTypeOK, ReconcilerTypeOK
<1>2. ASSUME NEW d \in Drainers, DrainStep(d) \/ CrashDrain(d), UNCHANGED recon
      PROVE  TypeOK'
  BY <1>2, DrainType DEF ReconcilerTypeOK
<1>3. ASSUME NEW r \in Reconcilers, ReconcileStep(r), UNCHANGED drainVars
      PROVE  TypeOK'
  BY <1>3, ReconcileType DEF drainVars, DrainerTypeOK
<1>4. CASE UNCHANGED vars
  BY <1>4 DEF vars, storeVars, drainVars, StoresTypeOK, DrainerTypeOK,
              ReconcilerTypeOK
<1> QED
  BY <1>1, <1>2, <1>3, <1>4 DEF Next

\* Every variable keeps its shape in every instance: any number of drains
\* and reconcile passes, any limits.
THEOREM TypeCorrect == Spec => []TypeOK
<1>1. Init => TypeOK
  BY InitType, StoresAssumption, DrainerAssumption
<1>2. TypeOK /\ [Next]_vars => TypeOK'
  BY StepType, StoresAssumption, DrainerAssumption
<1> QED
  BY <1>1, <1>2, PTL DEF Spec
-----------------------------------------------------------------------------
(* When a done row can be trusted, with any number of drains: an inductive *)
(* invariant over products of which no two drains hold rows at once.  K is *)
(* such a set of products, s and t are locals of a drain.                  *)

\* The latest row of p is pending and outside the drain.
Superseded(s, p) ==
    \E j \in RowsOf(p) :
        /\ outbox[j].status = "pending"
        /\ j \notin Held(s)
        /\ \A k \in RowsOf(p) : k <= j

\* Which locals are in use at which program point.
Shape(s) ==
    /\ s.pc = "idle" => s = IdleDrain
    /\ s.pc \in {"claiming", "purge", "products"} =>
          ~s.looked /\ s.group = {} /\ s.embeds = {}
    /\ s.pc = "products" => s.deletes = {}
    /\ s.pc \in {"hashes", "rows", "embed"} => s.looked /\ s.group = {}
    /\ s.pc = "embed" => s.upserts = {}
    /\ s.pc \in {"marking", "failing"} => s.deletes = {}
    /\ s.looked => s.deletes = {}
    /\ ~s.looked => s.embeds = {}
    /\ s.marks \subseteq s.group

\* What the held rows ask for.
Asks(s) ==
    /\ Held(s) \subseteq RowIds
    /\ \A i \in s.deletes : outbox[i].op = "delete"
    /\ \A i \in s.upserts \cup s.embeds : outbox[i].op = "upsert"
    /\ \A i \in s.group :
          outbox[i].op = IF s.looked THEN "upsert" ELSE "delete"

\* The snapshot of the products is current, or will be corrected by a row
\* that the drain does not hold; a product missing from it is gone for good.
SnapshotCovered(s, K) ==
    s.looked =>
        \A i \in Held(s) :
            LET p == outbox[i].product IN
            /\ p \in K => \/ content_hash(s.seen[p]) = content_hash(catalog[p])
                          \/ Superseded(s, p)
            /\ s.seen[p] = Absent => catalog[p] = Absent

\* The hashes read are those of the vectors that are still to be compared.
HashesCurrent(s, K) ==
    s.looked /\ s.pc # "hashes" =>
        \A i \in s.upserts :
            LET p == outbox[i].product IN
            p \in K /\ s.seen[p] # Absent =>
                s.hashes[p] = content_hash(vectors[p])

\* The effect of row i is in the vector store.
Applied(s, i) ==
    LET p == outbox[i].product IN
    content_hash(vectors[p]) =
        IF s.looked THEN content_hash(s.seen[p]) ELSE Absent

\* A row is about to be marked done only after its effect.
EffectsFirst(s, K) ==
    s.pc = "marking" =>
        \A i \in s.marks : outbox[i].product \in K => Applied(s, i)

DrainInv(s, K) ==
    /\ Shape(s)
    /\ Asks(s)
    /\ SnapshotCovered(s, K)
    /\ HashesCurrent(s, K)
    /\ EffectsFirst(s, K)

\* Only products that were created have columns, rows, vectors, or a part in
\* a reconcile pass.
MintedInv ==
    /\ \A i \in RowIds : outbox[i].product \in minted
    /\ \A p \in Products : catalog[p] # Absent => p \in minted
    /\ \A p \in Products : vectors[p] # Absent => p \in minted
    /\ \A r \in Reconcilers :
          /\ \A p \in Products : recon[r].sql_hashes[p] # Absent => p \in minted
          /\ recon[r].upserts \cup recon[r].orphans \subseteq minted

\* DoneMeansMirrored of the products in K.
MirrorsIn(K) == \A p \in K : Owed(p) \/ Condemned(p) \/ Mirrored(p)

\* What each drain knows and still owes makes a done row trustworthy.
IInvIn(K) ==
    /\ MintedInv
    /\ \A d \in Drainers : DrainInv(drain[d], K)
    /\ MirrorsIn(K)

-----------------------------------------------------------------------------
(* The locals.                                                             *)

LEMMA RowProducts ==
    ASSUME TypeOK
    PROVE  \A j \in RowIds : outbox[j].product \in Products
<1>1. \A j \in RowIds : outbox[j] \in Row
  BY DEF TypeOK, StoresTypeOK, RowIds
<1> QED
  BY <1>1 DEF Row

\* A drain that is not running owes nothing in any state of the tables.
LEMMA IdleInv ==
    ASSUME NEW K
    PROVE  DrainInv(IdleDrain, K)
BY DEF DrainInv, Shape, Asks, SnapshotCovered, HashesCurrent, EffectsFirst,
       Held, IdleDrain

\* Leaving a loop or a row: idle again, or on with the rows that are left.
LEMMA ResumeFacts ==
    ASSUME NEW s \in DrainState, s.group = {}, s.marks = {}, s.deletes = {},
           ~s.looked => s.embeds = {}
    PROVE  LET t == Resume(s) IN
           t = IdleDrain \/
           /\ Shape(t)
           /\ t.pc \in {"rows", "products", "embed"}
           /\ t.deletes = {} /\ t.group = {} /\ t.marks = {}
           /\ t.upserts = s.upserts /\ t.embeds = s.embeds
           /\ t.looked = s.looked /\ t.seen = s.seen /\ t.hashes = s.hashes
<1>1. CASE s.upserts # {} /\ s.looked
  <2>1. Resume(s) = [s EXCEPT !.pc = "rows"]
    BY <1>1 DEF Resume
  <2> QED  BY <1>1, <2>1 DEF Shape, DrainState
<1>2. CASE s.upserts # {} /\ ~s.looked
  <2>1. Resume(s) = [s EXCEPT !.pc = "products"]
    BY <1>2 DEF Resume
  <2> QED  BY <1>2, <2>1 DEF Shape, DrainState
<1>3. CASE s.upserts = {} /\ s.embeds # {}
  <2>1. Resume(s) = [s EXCEPT !.pc = "embed"]
    BY <1>3 DEF Resume
  <2> QED  BY <1>3, <2>1 DEF Shape, DrainState
<1>4. CASE s.upserts = {} /\ s.embeds = {}
  BY <1>4 DEF Resume
<1> QED
  BY <1>1, <1>2, <1>3, <1>4

\* Ticking off a row: the loop goes on without it, or is left.
LEMMA TickedFacts ==
    ASSUME NEW s \in DrainState, Shape(s), s.pc \in {"marking", "failing"},
           NEW i \in s.marks
    PROVE  LET t == Ticked(s, i) IN
           t = IdleDrain \/
           /\ Shape(t)
           /\ \/ t.pc = s.pc /\ t.marks = s.marks \ {i}
              \/ t.pc \in {"rows", "products", "embed"}
           /\ t.deletes = {} /\ t.group \subseteq s.group
           /\ t.upserts = s.upserts /\ t.embeds = s.embeds
           /\ t.looked = s.looked /\ t.seen = s.seen /\ t.hashes = s.hashes
<1>1. s.deletes = {} /\ (~s.looked => s.embeds = {}) /\ s.marks \subseteq s.group
  BY DEF Shape
<1>2. CASE s.marks = {i}
  <2> DEFINE u == [s EXCEPT !.marks = {}, !.group = {}]
  <2>1. u \in DrainState
    BY DEF DrainState
  <2>2. /\ u.group = {} /\ u.marks = {} /\ u.deletes = {}
        /\ u.upserts = s.upserts /\ u.embeds = s.embeds
        /\ u.looked = s.looked /\ u.seen = s.seen /\ u.hashes = s.hashes
    BY <1>1 DEF DrainState
  <2>3. Ticked(s, i) = Resume(u)
    BY <1>2 DEF Ticked
  <2> HIDE DEF u
  <2> QED  BY <1>1, <2>1, <2>2, <2>3, ResumeFacts
<1>3. CASE s.marks # {i}
  <2> DEFINE u == [s EXCEPT !.marks = @ \ {i}]
  <2>1. /\ u.pc = s.pc /\ u.marks = s.marks \ {i} /\ u.group = s.group
        /\ u.deletes = s.deletes /\ u.upserts = s.upserts
        /\ u.embeds = s.embeds
        /\ u.looked = s.looked /\ u.seen = s.seen /\ u.hashes = s.hashes
    BY DEF DrainState
  <2>2. Ticked(s, i) = u
    BY <1>3 DEF Ticked
  <2> HIDE DEF u
  <2>3. Shape(u)
    BY <1>1, <2>1 DEF Shape
  <2> QED  BY <1>1, <2>1, <2>2, <2>3
<1> QED
  BY <1>2, <1>3

\* Entering a try block.
LEMMA EnterFacts ==
    ASSUME NEW s \in DrainState, NEW pc \in {"marking", "failing"}, NEW ids
    PROVE  LET t == Enter(s, pc, ids) IN
           /\ t.pc = pc /\ t.group = ids /\ t.marks = ids
           /\ t.deletes = s.deletes /\ t.upserts = s.upserts
           /\ t.embeds = s.embeds
           /\ t.looked = s.looked /\ t.seen = s.seen /\ t.hashes = s.hashes
BY DEF Enter, DrainState

-----------------------------------------------------------------------------
(* What a step leaves true of the rows.                                    *)

\* No row is added, none changes its product or op, and only rows of `ids`
\* change their status.
SameRowsBut(ids) ==
    /\ Len(outbox') = Len(outbox)
    /\ \A j \in RowIds :
          /\ outbox'[j].product = outbox[j].product
          /\ outbox'[j].op = outbox[j].op
          /\ j \notin ids => outbox'[j].status = outbox[j].status

LEMMA SameRowsFacts ==
    ASSUME NEW ids, SameRowsBut(ids)
    PROVE  /\ RowIds' = RowIds
           /\ \A p \in Products : RowsOf(p)' = RowsOf(p)
BY DEF SameRowsBut, RowIds, RowsOf

\* A step of the drain itself that keeps its reads and takes no new row:
\* what has to be shown is only what the step does to the vectors.
LEMMA DrainKeeps ==
    ASSUME NEW K, NEW s \in DrainState, NEW t, DrainInv(s, K), Shape(t),
           SameRowsBut(Held(s)), UNCHANGED catalog,
           \A j \in RowIds : outbox[j].product \in Products,
           t.deletes \subseteq s.deletes,
           t.upserts \subseteq s.upserts,
           t.embeds \subseteq s.upserts \cup s.embeds,
           t.group \subseteq Held(s),
           t.group \subseteq (IF s.looked THEN Held(s)
                              ELSE s.deletes \cup s.group),
           t.looked = s.looked, t.seen = s.seen,
           HashesCurrent(t, K)', EffectsFirst(t, K)'
    PROVE  DrainInv(t, K)'
<1>1. Held(t) \subseteq Held(s)
  BY DEF Held
<1>2. RowIds' = RowIds /\ \A p \in Products : RowsOf(p)' = RowsOf(p)
  BY SameRowsFacts
<1>3. ASSUME NEW p \in Products, Superseded(s, p)  PROVE  Superseded(t, p)'
  BY <1>1, <1>2, <1>3 DEF Superseded, RowsOf, SameRowsBut
<1>4. Asks(s) /\ SnapshotCovered(s, K) /\ Shape(s)
  BY DEF DrainInv
<1>5. Held(s) \subseteq RowIds /\ (s.looked => s.deletes = {})
  BY <1>4 DEF Asks, Shape
<1>6. Asks(t)'
  <2>1. \A i \in t.deletes : outbox'[i].op = "delete"
    BY <1>4, <1>5 DEF Asks, SameRowsBut, Held
  <2>2. \A i \in t.upserts \cup t.embeds : outbox'[i].op = "upsert"
    BY <1>4, <1>5 DEF Asks, SameRowsBut, Held
  <2>3. \A i \in t.group :
            outbox'[i].op = IF t.looked THEN "upsert" ELSE "delete"
    BY <1>4, <1>5 DEF Asks, SameRowsBut, Held
  <2> QED  BY <1>1, <1>2, <1>5, <2>1, <2>2, <2>3 DEF Asks, Held
<1>7. SnapshotCovered(t, K)'
  BY <1>1, <1>3, <1>4, <1>5 DEF SnapshotCovered, SameRowsBut
<1> QED
  BY <1>6, <1>7 DEF DrainInv

\* A held row is marked done after its effect: if that settles its product,
\* both stores agree.
LEMMA MarkedIsMirrored ==
    ASSUME NEW K, NEW s \in DrainState, Asks(s), SnapshotCovered(s, K),
           TypeOK, NEW i \in Held(s), outbox[i].product \in K, Applied(s, i),
           s.looked \/ outbox[i].op = "delete"
    PROVE  LET p == outbox[i].product IN
           \/ Condemned(p)
           \/ Mirrored(p)
           \/ \E j \in RowsOf(p) : j # i /\ outbox[j].status # "done"
                  /\ \A k \in RowsOf(p) : k <= j
<1> DEFINE p == outbox[i].product
<1>1. i \in RowsOf(p)
  BY DEF Asks, RowsOf
<1>2. CASE s.looked
  <2>1. CASE Superseded(s, p)
    BY <2>1 DEF Superseded
  <2>2. CASE content_hash(s.seen[p]) = content_hash(catalog[p])
    BY <1>2, <2>2 DEF Applied, Mirrored
  <2> QED  BY <1>2, <2>1, <2>2 DEF SnapshotCovered
<1>3. CASE ~s.looked
  BY <1>1, <1>3 DEF Applied, Mirrored, Condemned, content_hash
<1> QED
  BY <1>2, <1>3

LEMMA MarkedKeepsMirror ==
    ASSUME NEW K \in SUBSET Products, NEW s \in DrainState, Asks(s),
           SnapshotCovered(s, K), TypeOK,
           NEW i \in Held(s), outbox[i].product \in K => Applied(s, i),
           s.looked \/ outbox[i].op = "delete",
           MirrorsIn(K), outbox' = MarkedDone(i),
           UNCHANGED <<catalog, vectors>>
    PROVE  MirrorsIn(K)'
<1>1. i \in RowIds /\ outbox \in Seq(Row)
  BY DEF Asks, TypeOK, StoresTypeOK
<1>2. SameRowsBut({i}) /\ \A j \in RowIds : j # i => outbox'[j] = outbox[j]
  BY <1>1, MarkedDoneFacts DEF SameRowsBut
<1>3. \A q \in Products : RowsOf(q)' = RowsOf(q) /\ RowsOf(q) \subseteq RowIds
  BY <1>2, SameRowsFacts DEF RowsOf
<1> SUFFICES ASSUME NEW q \in K, ~Condemned(q)', ~Owed(q)'
             PROVE  Mirrored(q)'
  BY DEF MirrorsIn
<1>4. ~Condemned(q)
  BY <1>2, <1>3 DEF Condemned, SameRowsBut
<1>5. Mirrored(q)' = Mirrored(q)
  BY DEF Mirrored
<1>6. CASE Owed(q)
  <2>1. PICK j \in RowsOf(q) : /\ outbox[j].status # "done"
                               /\ \A k \in RowsOf(q) : k <= j
    BY <1>6 DEF Owed
  <2>2. j = i
    BY <1>2, <1>3, <2>1 DEF Owed
  <2>3. outbox[i].product = q
    BY <2>1, <2>2 DEF RowsOf
  <2>4. \A k \in RowsOf(q) : k # i => ~(\A m \in RowsOf(q) : m <= k)
    BY <1>1, <1>3, <2>1, <2>2 DEF RowIds
  <2> QED  BY <1>4, <1>5, <2>3, <2>4, MarkedIsMirrored
<1>7. CASE ~Owed(q)
  BY <1>4, <1>5, <1>7 DEF MirrorsIn
<1> QED
  BY <1>6, <1>7

\* Marking a row failed, or leaving the outbox alone, settles nothing.
LEMMA UnsettledKeepsMirror ==
    ASSUME NEW K \in SUBSET Products, NEW ids, SameRowsBut(ids), MirrorsIn(K),
           \A i \in RowIds : outbox[i].status # "done" =>
               outbox'[i].status # "done",
           UNCHANGED catalog,
           \A p \in K : Owed(p) \/ Condemned(p) \/ Mirrored(p)'
    PROVE  MirrorsIn(K)'
<1>1. RowIds' = RowIds
      /\ \A q \in Products : RowsOf(q)' = RowsOf(q) /\ RowsOf(q) \subseteq RowIds
  BY SameRowsFacts DEF RowsOf
<1>2. ASSUME NEW p \in Products, Owed(p)  PROVE  Owed(p)'
  BY <1>1, <1>2 DEF Owed
<1>3. ASSUME NEW p \in Products, Condemned(p)  PROVE  Condemned(p)'
  BY <1>1, <1>3 DEF Condemned, SameRowsBut
<1> QED
  BY <1>2, <1>3 DEF MirrorsIn
-----------------------------------------------------------------------------
(* Every step, of any number of drains: ids are minted before they appear. *)

LEMMA MintedStep ==
    ASSUME TypeOK, NEW K, IInvIn(K), [Next]_vars, StoresAssumption
    PROVE  MintedInv'
<1>1. MintedInv
  BY DEF IInvIn
<1>2. outbox \in Seq(Row) /\ Len(outbox) \in Nat
      /\ recon \in [Reconcilers -> ReconState]
      /\ \A j \in RowIds : outbox[j] \in Row
  BY LenProperties DEF TypeOK, StoresTypeOK, ReconcilerTypeOK, RowIds
<1>3. ASSUME NEW p \in Products, NEW op \in Op, enqueue(p, op),
             UNCHANGED <<vectors, recon>>, minted \subseteq minted',
             p \in minted',
             \A q \in Products : catalog'[q] # Absent => q \in minted'
      PROVE  MintedInv'
  <2>1. /\ Len(outbox') = Len(outbox) + 1
        /\ \A j \in RowIds : outbox'[j] = outbox[j]
        /\ outbox'[Len(outbox) + 1] = NewRow(p, op)
    BY <1>2, <1>3, EnqueueFacts
  <2>2. \A j \in RowIds' : j \in RowIds \/ j = Len(outbox) + 1
    BY <1>2, <2>1 DEF RowIds
  <2>3. \A j \in RowIds' : outbox'[j].product \in minted'
    BY <1>1, <1>3, <2>1, <2>2 DEF NewRow, MintedInv
  <2> QED  BY <1>1, <1>3, <2>3 DEF MintedInv
<1>4. CASE Admin /\ UNCHANGED <<drainVars, recon>>
  <2>1. ASSUME NEW p \in Products, NEW e \in Entry, CreateProduct(p, e)
        PROVE  MintedInv'
    BY <1>1, <1>3, <1>4, <2>1 DEF CreateProduct, MintedInv, Op, TypeOK, StoresTypeOK
  <2>2. ASSUME NEW p \in Products, NEW e \in Entry, UpdateProduct(p, e)
        PROVE  MintedInv'
    BY <1>1, <1>3, <1>4, <2>2 DEF UpdateProduct, MintedInv, Op, TypeOK, StoresTypeOK
  <2>3. ASSUME NEW p \in Products, RemoveProduct(p)
        PROVE  MintedInv'
    BY <1>1, <1>3, <1>4, <2>3 DEF RemoveProduct, MintedInv, Op, TypeOK, StoresTypeOK
  <2> QED  BY <1>4, <2>1, <2>2, <2>3 DEF Admin
<1>5. ASSUME NEW d \in Drainers, DrainStep(d) \/ CrashDrain(d), UNCHANGED recon
      PROVE  MintedInv'
  <2>1. UNCHANGED <<catalog, minted>>
    BY <1>5 DEF DrainStep, CrashDrain, claim_pending, ReturnConnection,
         PurgeVectors, PurgeFails, get_products_by_ids, all_hashes, RowGone,
         RowGoneFails, RowUnchanged, RowNeedsEmbed, EmbedAndUpsert, EmbedFails,
         mark_done, MarkDoneFails, mark_failed, storeVars
  <2>2. Held(drain[d]) \subseteq RowIds
    BY DEF IInvIn, DrainInv, Asks
  <2>3. drain[d].marks \subseteq Held(drain[d])
    BY DEF IInvIn, DrainInv, Shape, Held
  <2>4. UNCHANGED outbox \/ \E i \in RowIds : outbox' \in {MarkedDone(i), MarkedFailed(i)}
    BY <1>5, <2>2, <2>3
       DEF DrainStep, CrashDrain, claim_pending, ReturnConnection,
         PurgeVectors, PurgeFails, get_products_by_ids, all_hashes, RowGone,
         RowGoneFails, RowUnchanged, RowNeedsEmbed, EmbedAndUpsert, EmbedFails,
         mark_done, MarkDoneFails, mark_failed, storeVars, Held
  <2>5. RowIds' = RowIds /\ \A j \in RowIds : outbox'[j].product = outbox[j].product
    BY <1>2, <2>4, MarkedDoneFacts, MarkedFailedFacts DEF RowIds
  <2>6. ProductsOf(drain[d].embeds) \subseteq minted
    BY <1>1, <2>2 DEF ProductsOf, MintedInv, Held
  <2>7. \A p \in Products : vectors'[p] # Absent => p \in minted
    <3>1. CASE EmbedAndUpsert(d)
      BY <1>1, <2>6, <3>1 DEF EmbedAndUpsert, MintedInv
    <3>2. CASE PurgeVectors(d)
      BY <1>1, <3>2 DEF PurgeVectors, MintedInv
    <3>3. CASE RowGone(d)
      BY <1>1, <3>3 DEF RowGone, MintedInv, TypeOK, StoresTypeOK
    <3>4. CASE UNCHANGED vectors
      BY <1>1, <3>4 DEF MintedInv
    <3> QED
      BY <1>5, <3>1, <3>2, <3>3, <3>4
         DEF DrainStep, CrashDrain, claim_pending, ReturnConnection,
           PurgeFails, get_products_by_ids, all_hashes, RowGoneFails,
           RowUnchanged, RowNeedsEmbed, EmbedFails, mark_done, MarkDoneFails,
           mark_failed, storeVars
  <2> QED  BY <1>1, <1>5, <2>1, <2>5, <2>7 DEF MintedInv
<1>6. ASSUME NEW r \in Reconcilers, ReconcileStep(r), UNCHANGED drainVars
      PROVE  MintedInv'
  <2>1. UNCHANGED <<catalog, minted, vectors>>
    BY <1>6 DEF ReconcileStep, all_product_hashes, DiffHashes, EnqueueUpserts,
         EnqueueDeletes, ReconcileDies, storeVars
  <2>2. ASSUME NEW ps \in SUBSET Products, NEW op \in Op,
               enqueue_many(ps, op), ps \subseteq minted
        PROVE  \A i \in RowIds' : outbox'[i].product \in minted
    <3>1. /\ \A j \in RowIds : outbox'[j] = outbox[j]
          /\ \A j \in RowIds' \ RowIds :
                \E p \in ps : outbox'[j] = NewRow(p, op)
      BY <1>2, <2>2, EnqueueManyFacts
    <3>2. \A p \in ps : NewRow(p, op).product = p
      BY DEF NewRow
    <3>3. \A i \in RowIds : outbox'[i].product \in minted
      BY <1>1, <3>1 DEF MintedInv
    <3> QED  BY <2>2, <3>1, <3>2, <3>3
  <2>3. \A p \in Products :
            /\ Hashes(catalog)[p] # Absent => p \in minted
            /\ Hashes(vectors)[p] # Absent => p \in minted
    BY <1>1 DEF Hashes, content_hash, MintedInv
  <2>4. /\ \A p \in Products : IdleRecon.sql_hashes[p] = Absent
        /\ IdleRecon.upserts = {} /\ IdleRecon.orphans = {}
    BY DEF IdleRecon
  <2>5. ASSUME NEW u, recon' = [recon EXCEPT ![r] = u],
               \A p \in Products : u.sql_hashes[p] # Absent => p \in minted,
               u.upserts \cup u.orphans \subseteq minted,
               \A i \in RowIds' : outbox'[i].product \in minted
        PROVE  MintedInv'
    BY <1>1, <1>2, <2>1, <2>5 DEF MintedInv
  <2>6. "upsert" \in Op /\ "delete" \in Op
    BY DEF Op
  <2>7. /\ recon[r].upserts \in SUBSET Products
        /\ recon[r].orphans \in SUBSET Products
        /\ recon[r] \in ReconState
    BY <1>2 DEF ReconState
  <2>8. /\ recon[r].upserts \subseteq minted /\ recon[r].orphans \subseteq minted
        /\ \A p \in Products : recon[r].sql_hashes[p] # Absent => p \in minted
    BY <1>1 DEF MintedInv
  <2>9. UNCHANGED outbox => \A i \in RowIds' : outbox'[i].product \in minted
    BY <1>1 DEF MintedInv, RowIds
  <2>10. IdleRecon \in ReconState
    BY DEF IdleRecon, ReconState
  <2>11. CASE all_product_hashes(r)
    <3> DEFINE u == [IdleRecon EXCEPT !.pc = "vec", !.sql_hashes = Hashes(catalog)]
    <3>1. u.sql_hashes = Hashes(catalog) /\ u.upserts = {} /\ u.orphans = {}
      BY <2>4, <2>10 DEF ReconState
    <3>2. recon' = [recon EXCEPT ![r] = u] /\ UNCHANGED outbox
      BY <2>11 DEF all_product_hashes, storeVars
    <3> HIDE DEF u
    <3> QED  BY <2>3, <2>5, <2>9, <3>1, <3>2
  <2>12. CASE DiffHashes(r)
    <3> DEFINE sql == recon[r].sql_hashes
               vec == Hashes(vectors)
    <3>1. PICK pc :
              recon' = [recon EXCEPT ![r] =
                  [IdleRecon EXCEPT
                      !.pc = pc,
                      !.upserts = missing(sql, vec) \cup stale(sql, vec),
                      !.orphans = orphans(sql, vec)]]
      BY <2>12 DEF DiffHashes
    <3> DEFINE u == [IdleRecon EXCEPT
                      !.pc = pc,
                      !.upserts = missing(sql, vec) \cup stale(sql, vec),
                      !.orphans = orphans(sql, vec)]
    <3>2. /\ u.sql_hashes = IdleRecon.sql_hashes
          /\ u.upserts = missing(sql, vec) \cup stale(sql, vec)
          /\ u.orphans = orphans(sql, vec)
      BY DEF IdleRecon
    <3>3. u.upserts \cup u.orphans \subseteq minted
      BY <2>3, <2>8, <3>2 DEF missing, stale, orphans
    <3>4. recon' = [recon EXCEPT ![r] = u] /\ UNCHANGED outbox
      BY <2>12, <3>1 DEF DiffHashes, storeVars
    <3> HIDE DEF u
    <3> QED  BY <2>4, <2>5, <2>9, <3>2, <3>3, <3>4
  <2>13. CASE EnqueueUpserts(r)
    <3>1. \A i \in RowIds' : outbox'[i].product \in minted
      BY <2>2, <2>6, <2>7, <2>8, <2>13 DEF EnqueueUpserts
    <3>2. CASE recon' = [recon EXCEPT ![r] = IdleRecon]
      BY <2>4, <2>5, <3>1, <3>2
    <3>3. CASE recon' = [recon EXCEPT ![r] =
                  [recon[r] EXCEPT !.pc = "deletes", !.upserts = {}]]
      <4> DEFINE u == [recon[r] EXCEPT !.pc = "deletes", !.upserts = {}]
      <4>1. /\ u.sql_hashes = recon[r].sql_hashes
            /\ u.upserts = {} /\ u.orphans = recon[r].orphans
        BY <2>7 DEF ReconState
      <4>2. recon' = [recon EXCEPT ![r] = u]
        BY <3>3
      <4> HIDE DEF u
      <4> QED  BY <2>5, <2>8, <3>1, <4>1, <4>2
    <3> QED  BY <2>13, <3>2, <3>3 DEF EnqueueUpserts
  <2>14. CASE EnqueueDeletes(r)
    BY <2>2, <2>4, <2>5, <2>6, <2>7, <2>8, <2>14 DEF EnqueueDeletes
  <2>15. CASE ReconcileDies(r)
    BY <2>4, <2>5, <2>9, <2>15 DEF ReconcileDies, storeVars
  <2> QED
    BY <1>6, <2>11, <2>12, <2>13, <2>14, <2>15 DEF ReconcileStep
<1>7. CASE UNCHANGED vars
  BY <1>1, <1>7 DEF vars, storeVars, drainVars, MintedInv, RowIds
<1> QED
  BY <1>4, <1>5, <1>6, <1>7 DEF Next

-----------------------------------------------------------------------------
(* Steps of admins and reconcile passes: rows are only added, and a        *)
(* product whose columns change gets a new latest row.                     *)

LEMMA NewRowsKeepInv ==
    ASSUME TypeOK, TypeOK', NEW K \in SUBSET Products, IInvIn(K),
           NEW T \in SUBSET Products,
           Len(outbox) <= Len(outbox'),
           \A j \in RowIds : outbox'[j] = outbox[j],
           \A j \in RowIds' \ RowIds :
               outbox'[j].status = "pending" /\ outbox'[j].product \in T,
           \A p \in T : \E j \in RowIds' \ RowIds :
               outbox'[j].product = p /\ \A k \in RowsOf(p)' : k <= j,
           \A p \in Products \ T : catalog'[p] = catalog[p],
           \A p \in minted : catalog[p] = Absent => catalog'[p] = Absent,
           MintedInv', UNCHANGED <<vectors, drain>>
    PROVE  IInvIn(K)'
<1>1. /\ RowIds \subseteq RowIds'
      /\ \A j \in RowIds : outbox[j].product \in Products
      /\ \A j \in RowIds' : outbox'[j].product \in Products
      /\ RowIds \subseteq Nat /\ RowIds' \subseteq Nat
  <2>1. Len(outbox) \in Nat /\ Len(outbox') \in Nat
    BY LenProperties DEF TypeOK, StoresTypeOK
  <2>2. /\ \A j \in RowIds : outbox[j] \in Row
        /\ \A j \in RowIds' : outbox'[j] \in Row
    BY DEF TypeOK, StoresTypeOK, RowIds
  <2> QED  BY <2>1, <2>2 DEF RowIds, Row
<1>2. MintedInv'
  OBVIOUS
<1>3. ASSUME NEW p \in Products \ T
      PROVE  RowsOf(p)' = RowsOf(p) /\ RowsOf(p) \subseteq RowIds
  <2>1. \A j \in RowIds' : outbox'[j].product = p =>
            j \in RowIds /\ outbox[j].product = p
    BY <1>1
  <2>2. \A j \in RowIds : outbox[j].product = p =>
            j \in RowIds' /\ outbox'[j].product = p
    BY <1>1
  <2> QED  BY <2>1, <2>2 DEF RowsOf
<1>4. ASSUME NEW p \in T
      PROVE  \E j \in RowsOf(p)' : /\ j \notin RowIds
                                   /\ outbox'[j].status = "pending"
                                   /\ \A k \in RowsOf(p)' : k <= j
  BY DEF RowsOf
<1>5. MirrorsIn(K)'
  <2> SUFFICES ASSUME NEW p \in K, ~Owed(p)', ~Condemned(p)'
               PROVE  Mirrored(p)'
    BY DEF MirrorsIn
  <2>1. p \notin T
    BY <1>4 DEF Owed
  <2>2. ~Owed(p) /\ ~Condemned(p)
    BY <1>3, <2>1 DEF Owed, Condemned
  <2> QED  BY <2>1, <2>2 DEF IInvIn, MirrorsIn, Mirrored
<1>6. ASSUME NEW d \in Drainers  PROVE  DrainInv(drain[d], K)'
  <2> DEFINE s == drain[d]
  <2>1. DrainInv(s, K) /\ Held(s) \subseteq RowIds /\ s' = s
    BY DEF IInvIn, DrainInv, Asks
  <2>2. \A i \in Held(s) : outbox'[i] = outbox[i] /\ outbox[i].product \in minted
                               /\ outbox[i].product \in Products
    BY <1>1, <2>1 DEF IInvIn, MintedInv
  <2>3. Held(s)' = Held(s)
    BY DEF Held
  <2>4. Shape(s)'
    BY <2>1 DEF DrainInv, Shape, IdleDrain
  <2>5. Asks(s)'
    <3>1. Held(s)' \subseteq RowIds'
      BY <1>1, <2>1, <2>3
    <3>2. /\ s.deletes \subseteq Held(s) /\ s.group \subseteq Held(s)
          /\ s.upserts \cup s.embeds \subseteq Held(s)
      BY DEF Held
    <3>3. Asks(s)
      BY <2>1 DEF DrainInv
    <3> HIDE DEF s
    <3> QED  BY <2>1, <2>2, <3>1, <3>2, <3>3 DEF Asks
  <2>6. ASSUME NEW p \in Products, Superseded(s, p) \/ p \in T
        PROVE  Superseded(s, p)'
    <3>1. CASE p \in T
      BY <1>4, <2>1, <2>3, <3>1 DEF Superseded
    <3>2. CASE p \notin T
      BY <1>3, <2>3, <2>6, <3>2 DEF Superseded
    <3> QED  BY <3>1, <3>2
  <2>7. SnapshotCovered(s, K)'
    BY <2>1, <2>2, <2>3, <2>6 DEF DrainInv, SnapshotCovered
  <2>8. HashesCurrent(s, K)'
    BY <2>1, <2>2 DEF DrainInv, HashesCurrent, Held
  <2>9. EffectsFirst(s, K)'
    BY <2>1, <2>2 DEF DrainInv, EffectsFirst, Applied, Held, Shape
  <2> QED  BY <2>4, <2>5, <2>7, <2>8, <2>9 DEF DrainInv
<1> QED
  BY <1>2, <1>5, <1>6 DEF IInvIn

\* Neither the stores nor any drain's locals change.
LEMMA UntouchedKeepsInv ==
    ASSUME TypeOK, TypeOK', NEW K \in SUBSET Products, IInvIn(K),
           MintedInv', UNCHANGED storeVars, UNCHANGED drain, StoresAssumption
    PROVE  IInvIn(K)'
<1>1. outbox' = outbox /\ catalog' = catalog /\ vectors' = vectors
      /\ RowIds' = RowIds
  BY DEF storeVars, RowIds
<1>2. Len(outbox) <= Len(outbox')
  BY <1>1, LenProperties DEF TypeOK, StoresTypeOK
<1> DEFINE T == {}
<1>3. /\ T \in SUBSET Products
      /\ \A j \in RowIds' \ RowIds :
            outbox'[j].status = "pending" /\ outbox'[j].product \in T
      /\ \A p \in T : \E j \in RowIds' \ RowIds :
            outbox'[j].product = p /\ \A k \in RowsOf(p)' : k <= j
  BY <1>1
<1> HIDE DEF T
<1> QED  BY <1>1, <1>2, <1>3, NewRowsKeepInv

LEMMA AdminInv ==
    ASSUME TypeOK, TypeOK', NEW K \in SUBSET Products, IInvIn(K),
           MintedInv', Admin, UNCHANGED drain, StoresAssumption
    PROVE  IInvIn(K)'
<1>1. outbox \in Seq(Row) /\ Len(outbox) \in Nat
  BY LenProperties DEF TypeOK, StoresTypeOK
<1>2. ASSUME NEW p \in Products, NEW op \in Op, enqueue(p, op)
      PROVE  /\ Len(outbox) <= Len(outbox')
             /\ \A j \in RowIds : outbox'[j] = outbox[j]
             /\ \A j \in RowIds' \ RowIds :
                   outbox'[j].status = "pending" /\ outbox'[j].product \in {p}
             /\ \A q \in {p} : \E j \in RowIds' \ RowIds :
                   outbox'[j].product = q /\ \A k \in RowsOf(q)' : k <= j
  <2>1. /\ Len(outbox') = Len(outbox) + 1
        /\ \A j \in RowIds : outbox'[j] = outbox[j]
        /\ outbox'[Len(outbox) + 1] = NewRow(p, op)
    BY <1>1, <1>2, EnqueueFacts
  <2>2. RowIds' \ RowIds = {Len(outbox) + 1} /\ \A k \in RowIds' : k <= Len(outbox) + 1
    BY <1>1, <2>1 DEF RowIds
  <2> QED  BY <1>1, <2>1, <2>2 DEF NewRow, RowsOf
<1>3. "upsert" \in Op /\ "delete" \in Op
  BY DEF Op
<1>4. catalog \in [Products -> Entry \cup {Absent}]
  BY DEF TypeOK, StoresTypeOK
<1>5. ASSUME NEW p \in Products, NEW e \in Entry, CreateProduct(p, e)
      PROVE  IInvIn(K)'
  <2>1. /\ \A q \in Products \ {p} : catalog'[q] = catalog[q]
        /\ \A q \in minted : catalog[q] = Absent => catalog'[q] = Absent
        /\ UNCHANGED <<vectors, drain>> /\ enqueue(p, "upsert")
    BY <1>4, <1>5 DEF CreateProduct, TypeOK, StoresTypeOK
  <2> QED
    BY <1>2, <1>3, <2>1, NewRowsKeepInv, {p} \in SUBSET Products
<1>6. ASSUME NEW p \in Products, NEW e \in Entry, UpdateProduct(p, e)
      PROVE  IInvIn(K)'
  <2>1. /\ \A q \in Products \ {p} : catalog'[q] = catalog[q]
        /\ \A q \in minted : catalog[q] = Absent => catalog'[q] = Absent
        /\ UNCHANGED <<vectors, drain>> /\ enqueue(p, "upsert")
    BY <1>4, <1>6 DEF UpdateProduct, TypeOK, StoresTypeOK, IInvIn, MintedInv
  <2> QED
    BY <1>2, <1>3, <2>1, NewRowsKeepInv, {p} \in SUBSET Products
<1>7. ASSUME NEW p \in Products, RemoveProduct(p)
      PROVE  IInvIn(K)'
  <2>1. /\ \A q \in Products \ {p} : catalog'[q] = catalog[q]
        /\ \A q \in minted : catalog[q] = Absent => catalog'[q] = Absent
        /\ UNCHANGED <<vectors, drain>> /\ enqueue(p, "delete")
    BY <1>4, <1>7 DEF RemoveProduct, TypeOK, StoresTypeOK
  <2> QED
    BY <1>2, <1>3, <2>1, NewRowsKeepInv, {p} \in SUBSET Products
<1> QED
  BY <1>5, <1>6, <1>7 DEF Admin
LEMMA ReconcileInv ==
    ASSUME TypeOK, TypeOK', NEW K \in SUBSET Products, IInvIn(K),
           MintedInv', NEW r \in Reconcilers, ReconcileStep(r), UNCHANGED drain, StoresAssumption
    PROVE  IInvIn(K)'
<1>1. ASSUME NEW ps \in SUBSET Products, NEW op \in Op, enqueue_many(ps, op),
             UNCHANGED <<catalog, minted, vectors>>
      PROVE  IInvIn(K)'
  <2>1. /\ Len(outbox) <= Len(outbox')
        /\ \A j \in RowIds : outbox'[j] = outbox[j]
        /\ \A j \in RowIds' \ RowIds :
              \E p \in ps : outbox'[j] = NewRow(p, op)
        /\ \A p \in ps : \E j \in RowIds' \ RowIds : outbox'[j].product = p
        /\ \A j, k \in RowIds' \ RowIds :
              outbox'[j].product = outbox'[k].product => j = k
    BY <1>1, EnqueueManyFacts DEF TypeOK, StoresTypeOK
  <2>2. \A j \in RowIds' \ RowIds :
            outbox'[j].status = "pending" /\ outbox'[j].product \in ps
    <3>1. \A p \in ps : /\ NewRow(p, op).product = p
                        /\ NewRow(p, op).status = "pending"
      BY DEF NewRow
    <3> QED  BY <2>1, <3>1
  <2>3. ASSUME NEW p \in ps
        PROVE  \E j \in RowIds' \ RowIds :
                   outbox'[j].product = p /\ \A k \in RowsOf(p)' : k <= j
    <3>1. PICK j \in RowIds' \ RowIds : outbox'[j].product = p
      BY <2>1
    <3>2. ASSUME NEW k \in RowsOf(p)'  PROVE  k <= j
      <4>1. Len(outbox) \in Nat /\ Len(outbox') \in Nat
        BY LenProperties DEF TypeOK, StoresTypeOK
      <4>2. CASE k \in RowIds
        BY <2>1, <3>1, <4>1, <4>2 DEF RowIds
      <4>3. CASE k \notin RowIds
        BY <2>1, <3>1, <4>1, <4>3 DEF RowsOf, RowIds
      <4> QED  BY <4>2, <4>3
    <3> QED  BY <3>1, <3>2
  <2> QED
    BY <1>1, <2>1, <2>2, <2>3, NewRowsKeepInv
<1>2. CASE UNCHANGED storeVars
  BY <1>2, UntouchedKeepsInv
<1>3. "upsert" \in Op /\ "delete" \in Op
  BY DEF Op
<1>4. recon[r].upserts \in SUBSET Products /\ recon[r].orphans \in SUBSET Products
  BY DEF TypeOK, ReconcilerTypeOK, ReconState
<1>5. CASE EnqueueUpserts(r)
  BY <1>1, <1>3, <1>4, <1>5 DEF EnqueueUpserts
<1>6. CASE EnqueueDeletes(r)
  BY <1>1, <1>3, <1>4, <1>6 DEF EnqueueDeletes
<1> QED
  BY <1>2, <1>5, <1>6
     DEF ReconcileStep, all_product_hashes, DiffHashes, ReconcileDies
-----------------------------------------------------------------------------
(* Steps of one drain, whatever the others hold meanwhile.                 *)

\* The locals go from s to t.  The other drains hold no row of a product in K
\* that d holds rows of, and d touches no other product: their part of the
\* invariant is not disturbed.
LEMMA OneStepInv ==
    ASSUME TypeOK, NEW K \in SUBSET Products, Overlapping \cap K = {},
           IInvIn(K), MintedInv', NEW d \in Drainers,
           NEW t, drain' = [drain EXCEPT ![d] = t],
           DrainInv(t, K)', MirrorsIn(K)',
           SameRowsBut(Held(drain[d])), UNCHANGED catalog,
           \A p \in K : vectors'[p] # vectors[p] => Holds(d, p)
    PROVE  IInvIn(K)'
<1>1. drain'[d] = t /\ \A e \in Drainers \ {d} : drain'[e] = drain[e]
  BY DEF TypeOK, DrainerTypeOK
<1>2. RowIds' = RowIds /\ \A p \in Products : RowsOf(p)' = RowsOf(p)
  BY SameRowsFacts
<1>3. ASSUME NEW e \in Drainers \ {d}, NEW s, s = drain[e]
      PROVE  DrainInv(s, K)'
  <2>1. DrainInv(s, K) /\ Held(s) \subseteq RowIds
    BY <1>3 DEF IInvIn, DrainInv, Asks
  <2>2. ASSUME NEW i \in Held(s), outbox[i].product \in K
        PROVE  ~Holds(d, outbox[i].product)
    <3>1. Holds(e, outbox[i].product)
      BY <1>3, <2>2 DEF Holds
    <3> QED  BY <2>2, <3>1 DEF Overlapping
  <2>3. \A i \in Held(s) : /\ i \in RowIds
                           /\ outbox'[i].product = outbox[i].product
                           /\ outbox'[i].op = outbox[i].op
    BY <2>1 DEF SameRowsBut
  <2>4. Asks(s)'
    BY <1>2, <2>1, <2>3 DEF DrainInv, Asks, Held
  <2>5. ASSUME NEW p \in K, ~Holds(d, p), Superseded(s, p)
        PROVE  Superseded(s, p)'
    BY <1>2, <2>5 DEF Superseded, SameRowsBut, Holds, RowsOf
  <2>6. SnapshotCovered(s, K)'
    BY <2>1, <2>2, <2>3, <2>5 DEF DrainInv, SnapshotCovered
  <2>7. ASSUME NEW i \in Held(s), outbox[i].product \in K
        PROVE  vectors'[outbox[i].product] = vectors[outbox[i].product]
    BY <2>2, <2>7
  <2>8. HashesCurrent(s, K)'
    BY <2>1, <2>3, <2>7 DEF DrainInv, HashesCurrent, Held
  <2>9. EffectsFirst(s, K)'
    BY <2>1, <2>3, <2>7 DEF DrainInv, EffectsFirst, Applied, Held, Shape
  <2> QED  BY <2>1, <2>4, <2>6, <2>8, <2>9 DEF DrainInv
<1>4. ASSUME NEW e \in Drainers  PROVE  DrainInv(drain[e], K)'
  <2>1. CASE e = d
    BY <1>1, <2>1 DEF DrainInv, Shape, Asks, SnapshotCovered, HashesCurrent,
                     EffectsFirst
  <2>2. CASE e # d
    <3>1. PICK s : s = drain[e]
      OBVIOUS
    <3>2. drain'[e] = s /\ DrainInv(s, K)'
      BY <1>1, <1>3, <2>2, <3>1
    <3> QED  BY <3>2
  <2> QED  BY <2>1, <2>2
<1> QED
  BY <1>4 DEF IInvIn

LEMMA IdleInvNext ==
    ASSUME NEW K
    PROVE  DrainInv(IdleDrain, K)'
BY DEF DrainInv, Shape, Asks, SnapshotCovered, HashesCurrent, EffectsFirst,
       Held, IdleDrain

\* Everything but the drain's locals stays: the mirror stays too.
LEMMA SameTables ==
    ASSUME NEW K, UNCHANGED storeVars
    PROVE  /\ \A ids : SameRowsBut(ids)
           /\ UNCHANGED <<catalog, vectors, outbox>>
           /\ MirrorsIn(K) => MirrorsIn(K)'
BY DEF storeVars, SameRowsBut, MirrorsIn, Owed, Condemned, Mirrored,
       RowsOf, RowIds

LEMMA ClaimInv ==
    ASSUME TypeOK, NEW K \in SUBSET Products, Overlapping \cap K = {},
           IInvIn(K), MintedInv', NEW d \in Drainers,
           claim_pending(d) \/ ReturnConnection(d) \/ PurgeFails(d)
    PROVE  IInvIn(K)'
<1>1. drain[d] \in DrainState /\ DrainInv(drain[d], K) /\ UNCHANGED storeVars
  BY DEF TypeOK, DrainerTypeOK, IInvIn, claim_pending, ReturnConnection, PurgeFails
<1>2. /\ MirrorsIn(K)' /\ \A ids : SameRowsBut(ids)
      /\ UNCHANGED <<catalog, vectors, outbox>>
  BY <1>1, SameTables DEF IInvIn
<1>3. \A j \in RowIds : outbox[j].product \in Products
  BY RowProducts
<1>4. PICK s \in DrainState : s = drain[d]
  BY <1>1
<1>5. CASE claim_pending(d)
  <2>1. PICK ids \in SUBSET PendingIds :
            drain' = [drain EXCEPT ![d] =
                [IdleDrain EXCEPT
                    !.pc = "claiming",
                    !.deletes = {i \in ids : outbox[i].op = "delete"},
                    !.upserts = {i \in ids : outbox[i].op = "upsert"}]]
    BY <1>5 DEF claim_pending
  <2>2. PICK t : t = [IdleDrain EXCEPT
                    !.pc = "claiming",
                    !.deletes = {i \in ids : outbox[i].op = "delete"},
                    !.upserts = {i \in ids : outbox[i].op = "upsert"}]
    OBVIOUS
  <2>3. /\ t.pc = "claiming"
        /\ t.deletes = {i \in ids : outbox[i].op = "delete"}
        /\ t.upserts = {i \in ids : outbox[i].op = "upsert"}
        /\ t.embeds = {} /\ t.group = {} /\ t.marks = {} /\ ~t.looked
    BY <2>2 DEF IdleDrain
  <2>4. Shape(t)
    BY <2>3 DEF Shape
  <2>5. Asks(t)'
    BY <1>2, <2>3 DEF Asks, Held, PendingIds, RowIds
  <2>6. DrainInv(t, K)'
    BY <2>3, <2>4, <2>5
       DEF DrainInv, SnapshotCovered, HashesCurrent, EffectsFirst
  <2> QED  BY <1>2, <2>1, <2>2, <2>6, OneStepInv
<1>6. CASE ReturnConnection(d)
  <2>1. PICK t : /\ t = [s EXCEPT
                      !.pc = IF s.deletes # {} THEN "purge" ELSE "products"]
    OBVIOUS
  <2>2. /\ t.pc = IF s.deletes # {} THEN "purge" ELSE "products"
        /\ t.deletes = s.deletes /\ t.upserts = s.upserts
        /\ t.embeds = s.embeds /\ t.group = s.group /\ t.marks = s.marks
        /\ t.looked = s.looked /\ t.seen = s.seen
    BY <2>1 DEF DrainState
  <2>3. s.pc = "claiming" /\ Shape(s)
    BY <1>1, <1>4, <1>6 DEF ReturnConnection, DrainInv
  <2>4. Shape(t) /\ ~t.looked /\ ~s.looked /\ t.pc # "marking"
    BY <2>2, <2>3 DEF Shape
  <2>5. DrainInv(t, K)'
    BY <1>1, <1>2, <1>3, <1>4, <2>2, <2>4, DrainKeeps
       DEF Held, HashesCurrent, EffectsFirst
  <2> QED
    BY <1>2, <1>4, <1>6, <2>1, <2>5, OneStepInv DEF ReturnConnection
<1>7. CASE PurgeFails(d)
  <2> DEFINE u == Enter(s, "failing", s.deletes)
  <2>1. PICK t : t = [u EXCEPT !.deletes = {}]
    OBVIOUS
  <2>2. u \in DrainState
    BY EnterType DEF DrainState, DrainPC
  <2>3. /\ u.pc = "failing" /\ u.group = s.deletes /\ u.marks = s.deletes
        /\ u.upserts = s.upserts /\ u.embeds = s.embeds
        /\ u.looked = s.looked /\ u.seen = s.seen /\ u.hashes = s.hashes
    BY EnterFacts
  <2> HIDE DEF u
  <2>4. /\ t.pc = "failing" /\ t.group = s.deletes /\ t.marks = s.deletes
        /\ t.upserts = s.upserts /\ t.embeds = s.embeds /\ t.deletes = {}
        /\ t.looked = s.looked /\ t.seen = s.seen
    BY <2>1, <2>2, <2>3 DEF DrainState
  <2>5. s.pc = "purge" /\ Shape(s)
    BY <1>1, <1>4, <1>7 DEF PurgeFails, DrainInv
  <2>6. Shape(t) /\ ~t.looked /\ ~s.looked
    BY <2>4, <2>5 DEF Shape
  <2>7. DrainInv(t, K)'
    BY <1>1, <1>2, <1>3, <1>4, <2>4, <2>6, DrainKeeps
       DEF Held, HashesCurrent, EffectsFirst
  <2> QED
    BY <1>2, <1>4, <1>7, <2>1, <2>7, OneStepInv DEF PurgeFails, u
<1> QED
  BY <1>5, <1>6, <1>7

LEMMA PurgeInv ==
    ASSUME TypeOK, NEW K \in SUBSET Products, Overlapping \cap K = {},
           IInvIn(K), MintedInv', NEW d \in Drainers,
           PurgeVectors(d)
    PROVE  IInvIn(K)'
<1>1. drain[d] \in DrainState /\ DrainInv(drain[d], K)
      /\ UNCHANGED <<catalog, outbox>>
  BY DEF TypeOK, DrainerTypeOK, IInvIn, PurgeVectors
<1>2. \A ids : SameRowsBut(ids)
  BY <1>1 DEF SameRowsBut
<1>3. \A j \in RowIds : outbox[j].product \in Products
  BY RowProducts
<1>4. PICK s \in DrainState : s = drain[d]
  BY <1>1
<1> DEFINE u == Enter(s, "marking", s.deletes)
<1>5. PICK t : t = [u EXCEPT !.deletes = {}]
  OBVIOUS
<1>6. u \in DrainState
  BY EnterType DEF DrainState, DrainPC
<1>7. /\ u.pc = "marking" /\ u.group = s.deletes /\ u.marks = s.deletes
      /\ u.upserts = s.upserts /\ u.embeds = s.embeds
      /\ u.looked = s.looked /\ u.seen = s.seen /\ u.hashes = s.hashes
  BY EnterFacts
<1>8. drain' = [drain EXCEPT ![d] = t]
  BY <1>4, <1>5 DEF PurgeVectors
<1> HIDE DEF u
<1>9. /\ t.pc = "marking" /\ t.group = s.deletes /\ t.marks = s.deletes
      /\ t.upserts = s.upserts /\ t.embeds = s.embeds /\ t.deletes = {}
      /\ t.looked = s.looked /\ t.seen = s.seen
  BY <1>5, <1>6, <1>7 DEF DrainState
<1>10. s.pc = "purge" /\ Shape(s) /\ Asks(s)
  BY <1>1, <1>4 DEF PurgeVectors, DrainInv
<1>11. Shape(t) /\ ~t.looked /\ ~s.looked
  BY <1>9, <1>10 DEF Shape
<1>12. vectors' = [p \in Products |->
          IF p \in ProductsOf(s.deletes) THEN Absent ELSE vectors[p]]
  BY <1>4 DEF PurgeVectors
<1>13. EffectsFirst(t, K)'
  <2>1. \A i \in s.deletes : outbox[i].product \in Products
    BY <1>3, <1>10 DEF Asks, Held
  <2>2. \A i \in s.deletes : vectors'[outbox[i].product] = Absent
    BY <1>12, <2>1 DEF ProductsOf
  <2> QED
    BY <1>1, <1>9, <1>11, <2>2 DEF EffectsFirst, Applied, content_hash
<1>14. DrainInv(t, K)'
  BY <1>1, <1>2, <1>3, <1>4, <1>9, <1>11, <1>13, DrainKeeps
     DEF Held, HashesCurrent
<1>15. MirrorsIn(K)'
  <2>1. ASSUME NEW p \in K, ~Owed(p), ~Condemned(p)
        PROVE  Mirrored(p)'
    <3>1. CASE p \in ProductsOf(s.deletes)
      <4>1. catalog[p] = Absent
        BY <1>10, <2>1, <3>1 DEF ProductsOf, Asks, Held, Condemned, RowsOf
      <4> QED  BY <1>1, <1>12, <3>1, <4>1 DEF Mirrored
    <3>2. CASE p \notin ProductsOf(s.deletes)
      BY <1>1, <1>12, <2>1, <3>2 DEF Mirrored, IInvIn, MirrorsIn
    <3> QED  BY <3>1, <3>2
  <2> QED
    BY <1>1, <1>2, <2>1, UnsettledKeepsMirror DEF IInvIn
<1>16. \A p \in K : vectors'[p] # vectors[p] => Holds(d, p)
  BY <1>4, <1>12 DEF ProductsOf, Holds, Held
<1> QED
  BY <1>1, <1>2, <1>8, <1>14, <1>15, <1>16, OneStepInv

LEMMA ReadInv ==
    ASSUME TypeOK, NEW K \in SUBSET Products, Overlapping \cap K = {},
           IInvIn(K), MintedInv', NEW d \in Drainers,
           get_products_by_ids(d) \/ all_hashes(d)
    PROVE  IInvIn(K)'
<1>1. drain[d] \in DrainState /\ DrainInv(drain[d], K) /\ UNCHANGED storeVars
  BY DEF TypeOK, DrainerTypeOK, IInvIn, get_products_by_ids, all_hashes
<1>2. /\ MirrorsIn(K)' /\ \A ids : SameRowsBut(ids)
      /\ UNCHANGED <<catalog, vectors, outbox>>
  BY <1>1, SameTables DEF IInvIn
<1>3. \A j \in RowIds : outbox[j].product \in Products
  BY RowProducts
<1>4. PICK s \in DrainState : s = drain[d]
  BY <1>1
<1>5. CASE get_products_by_ids(d)
  <2> DEFINE found == [p \in Products |->
                  IF p \in ProductsOf(s.upserts) THEN catalog[p] ELSE Absent]
  <2>1. PICK t, f : /\ f = found
                    /\ t = [s EXCEPT !.pc = "hashes", !.looked = TRUE, !.seen = f]
    OBVIOUS
  <2>2. drain' = [drain EXCEPT ![d] = t]
    BY <1>4, <1>5, <2>1 DEF get_products_by_ids
  <2>3. s.pc = "products" /\ Shape(s) /\ Asks(s)
    BY <1>1, <1>4, <1>5 DEF get_products_by_ids, DrainInv
  <2>4. \A i \in s.upserts : f[outbox[i].product] = catalog[outbox[i].product]
    BY <1>3, <2>1, <2>3 DEF ProductsOf, Asks, Held
  <2> HIDE DEF found
  <2>5. /\ t.pc = "hashes" /\ t.looked /\ t.seen = f
        /\ t.upserts = s.upserts /\ t.deletes = s.deletes
        /\ t.embeds = s.embeds /\ t.group = s.group /\ t.marks = s.marks
    BY <2>1 DEF DrainState
  <2>6. Shape(t) /\ Held(t) = s.upserts /\ t.embeds = {} /\ t.group = {}
        /\ t.deletes = {}
    BY <2>3, <2>5 DEF Shape, Held
  <2>7. Asks(t)'
    BY <1>2, <2>3, <2>5, <2>6 DEF Asks, Held, RowIds
  <2>8. SnapshotCovered(t, K)'
    BY <1>2, <2>4, <2>5, <2>6 DEF SnapshotCovered
  <2>9. DrainInv(t, K)'
    BY <2>5, <2>6, <2>7, <2>8 DEF DrainInv, HashesCurrent, EffectsFirst
  <2> QED  BY <1>2, <2>2, <2>9, OneStepInv
<1>6. CASE all_hashes(d)
  <2>1. PICK t, h : /\ h = Hashes(vectors)
                    /\ t = [s EXCEPT !.pc = "rows", !.hashes = h]
    OBVIOUS
  <2>2. drain' = [drain EXCEPT ![d] = t]
    BY <1>4, <1>6, <2>1 DEF all_hashes
  <2>3. s.pc = "hashes" /\ Shape(s) /\ Asks(s)
    BY <1>1, <1>4, <1>6 DEF all_hashes, DrainInv
  <2>4. /\ t.pc = "rows" /\ t.looked = s.looked /\ t.seen = s.seen
        /\ t.hashes = h
        /\ t.upserts = s.upserts /\ t.deletes = s.deletes
        /\ t.embeds = s.embeds /\ t.group = s.group /\ t.marks = s.marks
    BY <2>1 DEF DrainState
  <2>5. Shape(t) /\ s.looked
    BY <2>3, <2>4 DEF Shape
  <2>6. HashesCurrent(t, K)'
    <3>1. \A i \in s.upserts : outbox[i].product \in Products
      BY <1>3, <2>3 DEF Asks, Held
    <3> QED
      BY <1>2, <2>1, <2>4, <3>1 DEF HashesCurrent, Hashes
  <2>7. EffectsFirst(t, K)'
    BY <2>4 DEF EffectsFirst
  <2>8. DrainInv(t, K)'
    BY <1>1, <1>2, <1>3, <1>4, <2>4, <2>5, <2>6, <2>7, DrainKeeps DEF Held
  <2> QED  BY <1>2, <2>2, <2>8, OneStepInv
<1> QED
  BY <1>5, <1>6
\* The locals of a drain that goes on from s with fewer rows, after marks
\* or none.
LEMMA GoOnInv ==
    ASSUME TypeOK, NEW K \in SUBSET Products, Overlapping \cap K = {},
           IInvIn(K), MintedInv', NEW d \in Drainers,
           NEW s \in DrainState, s = drain[d], s.pc # "hashes",
           SameRowsBut(Held(s)), UNCHANGED <<catalog, vectors>>,
           NEW t, drain' = [drain EXCEPT ![d] = t], Shape(t),
           t.deletes = {}, t.upserts \subseteq s.upserts,
           t.embeds \subseteq s.upserts \cup s.embeds,
           t.group \subseteq s.group,
           t.looked = s.looked, t.seen = s.seen, t.hashes = s.hashes,
           t.pc = "marking" => s.pc = "marking" /\ t.marks \subseteq s.marks,
           MirrorsIn(K)'
    PROVE  IInvIn(K)'
<1>1. DrainInv(s, K)
  BY DEF IInvIn
<1>2. /\ s.upserts \subseteq RowIds /\ s.marks \subseteq RowIds
      /\ HashesCurrent(s, K) /\ EffectsFirst(s, K)
  BY <1>1 DEF DrainInv, Asks, Shape, Held
<1>3. HashesCurrent(t, K)'
  BY <1>2 DEF HashesCurrent, SameRowsBut
<1>4. EffectsFirst(t, K)'
  BY <1>2 DEF EffectsFirst, Applied, SameRowsBut
<1>5. DrainInv(t, K)'
  BY <1>1, <1>3, <1>4, RowProducts, DrainKeeps DEF Held
<1> QED
  BY <1>5, OneStepInv

LEMMA RowGoneInv ==
    ASSUME TypeOK, NEW K \in SUBSET Products, Overlapping \cap K = {},
           IInvIn(K), MintedInv', NEW d \in Drainers,
           RowGone(d) \/ RowGoneFails(d)
    PROVE  IInvIn(K)'
<1>1. drain[d] \in DrainState /\ DrainInv(drain[d], K)
      /\ UNCHANGED <<catalog, outbox>> /\ drain[d].pc = "rows"
  BY DEF TypeOK, DrainerTypeOK, IInvIn, RowGone, RowGoneFails, storeVars
<1>2. \A ids : SameRowsBut(ids)
  BY <1>1 DEF SameRowsBut
<1>3. \A j \in RowIds : outbox[j].product \in Products
  BY RowProducts
<1>4. PICK s \in DrainState : s = drain[d]
  BY <1>1
<1>5. PICK i \in s.upserts, pc \in {"marking", "failing"} :
          /\ s.seen[outbox[i].product] = Absent
          /\ drain' = [drain EXCEPT ![d] =
                [Enter(s, pc, {i}) EXCEPT !.upserts = @ \ {i}]]
          /\ vectors' = [vectors EXCEPT ![outbox[i].product] = Absent]
             \/ (vectors' = vectors /\ pc = "failing")
  <2>1. CASE RowGone(d)
    <3>1. PICK i \in s.upserts :
              /\ s.seen[outbox[i].product] = Absent
              /\ drain' = [drain EXCEPT ![d] =
                    [Enter(s, "marking", {i}) EXCEPT !.upserts = @ \ {i}]]
              /\ vectors' = [vectors EXCEPT ![outbox[i].product] = Absent]
      BY <1>4, <2>1 DEF RowGone
    <3>2. "marking" \in {"marking", "failing"}
      OBVIOUS
    <3> WITNESS i \in s.upserts, "marking" \in {"marking", "failing"}
    <3> QED  BY <3>1
  <2>2. CASE RowGoneFails(d)
    <3>1. PICK i \in s.upserts :
              /\ s.seen[outbox[i].product] = Absent
              /\ drain' = [drain EXCEPT ![d] =
                    [Enter(s, "failing", {i}) EXCEPT !.upserts = @ \ {i}]]
      BY <1>4, <2>2 DEF RowGoneFails
    <3>2. vectors' = vectors
      BY <2>2 DEF RowGoneFails, storeVars
    <3>3. "failing" \in {"marking", "failing"}
      OBVIOUS
    <3> QED  BY <3>1, <3>2, <3>3, Zenon
  <2> QED  BY <2>1, <2>2
<1> DEFINE u == Enter(s, pc, {i})
           p == outbox[i].product
<1>6. PICK t : t = [u EXCEPT !.upserts = @ \ {i}]
  OBVIOUS
<1>7. s.upserts \in SUBSET (1..MaxRows) /\ pc \in DrainPC
  BY DEF DrainState, DrainPC
<1>8. u \in DrainState
  BY <1>7, EnterType
<1>9. /\ u.pc = pc /\ u.group = {i} /\ u.marks = {i}
      /\ u.deletes = s.deletes
      /\ u.upserts = s.upserts /\ u.embeds = s.embeds
      /\ u.looked = s.looked /\ u.seen = s.seen /\ u.hashes = s.hashes
  BY EnterFacts
<1>10. drain' = [drain EXCEPT ![d] = t]
  BY <1>5, <1>6
<1> HIDE DEF u
<1>11. /\ t.pc = pc /\ t.group = {i} /\ t.marks = {i}
       /\ t.deletes = s.deletes
       /\ t.upserts = s.upserts \ {i} /\ t.embeds = s.embeds
       /\ t.looked = s.looked /\ t.seen = s.seen /\ t.hashes = s.hashes
  BY <1>6, <1>8, <1>9 DEF DrainState
<1>12. /\ Shape(s) /\ Asks(s) /\ SnapshotCovered(s, K) /\ HashesCurrent(s, K)
       /\ s.looked /\ s.deletes = {} /\ s.upserts \subseteq Held(s)
       /\ Held(s) \subseteq RowIds
  BY <1>1, <1>4 DEF DrainInv, Shape, Held, Asks
<1>13. p \in Products /\ catalog[p] = Absent /\ s.seen[p] = Absent
  BY <1>3, <1>5, <1>12 DEF SnapshotCovered
<1>14. Shape(t)
  BY <1>11, <1>12 DEF Shape
<1>15. vectors \in [Products -> Entry \cup {Absent}]
  BY DEF TypeOK, StoresTypeOK
<1>16. \A q \in Products : q # p => vectors'[q] = vectors[q]
  BY <1>5, <1>15
<1>17. HashesCurrent(t, K)'
  <2>1. ASSUME NEW j \in t.upserts, outbox[j].product \in K,
               s.seen[outbox[j].product] # Absent
        PROVE  s.hashes[outbox[j].product] = content_hash(vectors'[outbox[j].product])
    <3>1. j \in s.upserts /\ outbox[j].product \in Products
             /\ outbox[j].product # p
      BY <1>3, <1>11, <1>12, <1>13, <2>1
    <3> QED  BY <1>1, <1>4, <1>12, <1>16, <2>1, <3>1 DEF HashesCurrent
  <2> QED  BY <1>1, <1>11, <2>1 DEF HashesCurrent, content_hash
<1>18. EffectsFirst(t, K)'
  <2>1. CASE vectors' = [vectors EXCEPT ![p] = Absent]
    <3>1. t.marks = {i} /\ outbox' = outbox /\ t.seen[p] = Absent
             /\ vectors'[p] = Absent /\ t.looked
      BY <1>1, <1>11, <1>12, <1>13, <1>15, <2>1
    <3>2. Applied(t, i)'
      BY <3>1 DEF Applied
    <3> QED  BY <3>1, <3>2 DEF EffectsFirst
  <2>2. CASE pc = "failing"
    BY <1>11, <2>2 DEF EffectsFirst
  <2> QED  BY <1>5, <2>1, <2>2
<1>19. DrainInv(t, K)'
  BY <1>1, <1>2, <1>3, <1>4, <1>5, <1>11, <1>12, <1>14, <1>17, <1>18,
     DrainKeeps DEF Held
<1>20. MirrorsIn(K)'
  <2>1. Mirrored(p)' \/ vectors' = vectors
    BY <1>1, <1>5, <1>13, <1>15 DEF Mirrored
  <2>2. ASSUME NEW q \in K, ~Owed(q), ~Condemned(q)
        PROVE  Mirrored(q)'
    BY <1>1, <1>16, <2>1, <2>2 DEF Mirrored, IInvIn, MirrorsIn
  <2> QED
    BY <1>1, <1>2, <2>2, UnsettledKeepsMirror DEF IInvIn
<1>21. \A q \in K : vectors'[q] # vectors[q] => Holds(d, q)
  BY <1>4, <1>12, <1>16 DEF Holds
<1> QED
  BY <1>1, <1>2, <1>10, <1>19, <1>20, <1>21, OneStepInv

LEMMA RowDecidedInv ==
    ASSUME TypeOK, NEW K \in SUBSET Products, Overlapping \cap K = {},
           IInvIn(K), MintedInv', NEW d \in Drainers,
           RowUnchanged(d) \/ RowNeedsEmbed(d)
    PROVE  IInvIn(K)'
<1>1. drain[d] \in DrainState /\ DrainInv(drain[d], K) /\ drain[d].pc = "rows"
  BY DEF TypeOK, DrainerTypeOK, IInvIn, RowUnchanged, RowNeedsEmbed
<1>2. PICK s \in DrainState : s = drain[d]
  BY <1>1
<1>3. /\ Shape(s) /\ Asks(s) /\ SnapshotCovered(s, K) /\ HashesCurrent(s, K)
      /\ s.looked /\ s.deletes = {} /\ s.group = {} /\ s.marks = {}
      /\ s.upserts \subseteq Held(s) /\ Held(s) \subseteq RowIds
      /\ s.pc = "rows"
  BY <1>1, <1>2 DEF DrainInv, Shape, Held, Asks
<1>4. ASSUME NEW u \in DrainState, drain' = [drain EXCEPT ![d] = Resume(u)],
             u.deletes = {}, u.group = {}, u.marks = {},
             u.upserts \subseteq s.upserts,
             u.embeds \subseteq s.upserts \cup s.embeds,
             u.looked = s.looked, u.seen = s.seen, u.hashes = s.hashes,
             SameRowsBut(Held(s)), UNCHANGED <<catalog, vectors>>,
             MirrorsIn(K)'
      PROVE  IInvIn(K)'
  <2>1. PICK t : t = Resume(u)
    OBVIOUS
  <2>2. t = IdleDrain \/
           /\ Shape(t) /\ t.pc \in {"rows", "products", "embed"}
           /\ t.deletes = {} /\ t.group = {} /\ t.marks = {}
           /\ t.upserts = u.upserts /\ t.embeds = u.embeds
           /\ t.looked = u.looked /\ t.seen = u.seen /\ t.hashes = u.hashes
    BY <1>3, <1>4, <2>1, ResumeFacts
  <2>3. CASE t = IdleDrain
    BY <1>2, <1>4, <2>1, <2>3, IdleInvNext, OneStepInv
  <2>4. CASE t # IdleDrain
    BY <1>2, <1>3, <1>4, <2>1, <2>2, <2>4, GoOnInv
  <2> QED  BY <2>3, <2>4
<1>5. CASE RowUnchanged(d)
  <2>1. PICK i \in s.upserts :
            /\ s.seen[outbox[i].product] # Absent
            /\ s.hashes[outbox[i].product]
                  = content_hash(s.seen[outbox[i].product])
            /\ outbox' = MarkedDone(i)
            /\ drain' = [drain EXCEPT ![d] =
                  Resume([s EXCEPT !.upserts = @ \ {i}])]
    BY <1>2, <1>5 DEF RowUnchanged
  <2>2. PICK u : u = [s EXCEPT !.upserts = @ \ {i}]
    OBVIOUS
  <2>3. /\ u \in DrainState /\ u.deletes = s.deletes /\ u.group = s.group
        /\ u.upserts = s.upserts \ {i} /\ u.embeds = s.embeds
        /\ u.looked = s.looked /\ u.seen = s.seen /\ u.hashes = s.hashes
        /\ u.marks = s.marks
    BY <2>2 DEF DrainState
  <2>4. i \in Held(s) /\ i \in RowIds
    BY <1>3
  <2>5. outbox[i].product \in K => Applied(s, i)
    BY <1>3, <2>1 DEF HashesCurrent, Applied
  <2>6. UNCHANGED <<catalog, vectors>>
    BY <1>5 DEF RowUnchanged
  <2>7. MirrorsIn(K)'
    BY <1>3, <2>1, <2>4, <2>5, <2>6, MarkedKeepsMirror DEF IInvIn
  <2>8. SameRowsBut(Held(s))
    BY <2>1, <2>4, MarkedDoneFacts DEF SameRowsBut, TypeOK, StoresTypeOK
  <2> QED  BY <1>3, <1>4, <2>1, <2>2, <2>3, <2>6, <2>7, <2>8
<1>6. CASE RowNeedsEmbed(d)
  <2>1. PICK i \in s.upserts :
            drain' = [drain EXCEPT ![d] =
                  Resume([s EXCEPT !.upserts = @ \ {i},
                                   !.embeds = @ \cup {i}])]
    BY <1>2, <1>6 DEF RowNeedsEmbed
  <2>2. PICK u : u = [s EXCEPT !.upserts = @ \ {i}, !.embeds = @ \cup {i}]
    OBVIOUS
  <2>3. s.embeds \cup {i} \in SUBSET (1..MaxRows)
        /\ s.upserts \ {i} \in SUBSET (1..MaxRows)
    BY DEF DrainState
  <2>4. /\ u \in DrainState /\ u.deletes = s.deletes /\ u.group = s.group
        /\ u.upserts = s.upserts \ {i} /\ u.embeds = s.embeds \cup {i}
        /\ u.looked = s.looked /\ u.seen = s.seen /\ u.hashes = s.hashes
        /\ u.marks = s.marks
    BY <2>2, <2>3 DEF DrainState
  <2>5. UNCHANGED storeVars
    BY <1>6 DEF RowNeedsEmbed
  <2>6. SameRowsBut(Held(s)) /\ UNCHANGED <<catalog, vectors>>
        /\ MirrorsIn(K)'
    BY <2>5, SameTables DEF IInvIn
  <2> QED  BY <1>3, <1>4, <2>1, <2>2, <2>4, <2>6
<1> QED
  BY <1>5, <1>6

LEMMA EmbedInv ==
    ASSUME TypeOK, NEW K \in SUBSET Products, Overlapping \cap K = {},
           IInvIn(K), MintedInv', NEW d \in Drainers,
           EmbedAndUpsert(d) \/ EmbedFails(d)
    PROVE  IInvIn(K)'
<1>1. drain[d] \in DrainState /\ DrainInv(drain[d], K)
      /\ UNCHANGED <<catalog, outbox>> /\ drain[d].pc = "embed"
  BY DEF TypeOK, DrainerTypeOK, IInvIn, EmbedAndUpsert, EmbedFails, storeVars
<1>2. \A ids : SameRowsBut(ids)
  BY <1>1 DEF SameRowsBut
<1>3. \A j \in RowIds : outbox[j].product \in Products
  BY RowProducts
<1>4. PICK s \in DrainState : s = drain[d]
  BY <1>1
<1>5. PICK pc \in {"marking", "failing"} :
          /\ drain' = [drain EXCEPT ![d] =
                [Enter(s, pc, s.embeds) EXCEPT !.embeds = {}]]
          /\ vectors' = [p \in Products |-> IF p \in ProductsOf(s.embeds)
                                            THEN s.seen[p] ELSE vectors[p]]
             \/ (vectors' = vectors /\ pc = "failing")
  <2>1. CASE EmbedAndUpsert(d)
    <3>1. drain' = [drain EXCEPT ![d] =
              [Enter(s, "marking", s.embeds) EXCEPT !.embeds = {}]]
      BY <1>4, <2>1 DEF EmbedAndUpsert
    <3>2. vectors' = [p \in Products |-> IF p \in ProductsOf(s.embeds)
                                        THEN s.seen[p] ELSE vectors[p]]
      BY <1>4, <2>1 DEF EmbedAndUpsert
    <3>3. "marking" \in {"marking", "failing"}
      OBVIOUS
    <3> WITNESS "marking" \in {"marking", "failing"}
    <3> QED  BY <3>1, <3>2
  <2>2. CASE EmbedFails(d)
    <3>1. drain' = [drain EXCEPT ![d] =
              [Enter(s, "failing", s.embeds) EXCEPT !.embeds = {}]]
      BY <1>4, <2>2 DEF EmbedFails
    <3>2. vectors' = vectors
      BY <2>2 DEF EmbedFails, storeVars
    <3>3. "failing" \in {"marking", "failing"}
      OBVIOUS
    <3> QED  BY <3>1, <3>2, <3>3, Zenon
  <2> QED  BY <2>1, <2>2
<1> DEFINE u == Enter(s, pc, s.embeds)
<1>6. PICK t : t = [u EXCEPT !.embeds = {}]
  OBVIOUS
<1>7. s.embeds \in SUBSET (1..MaxRows) /\ pc \in DrainPC
  BY DEF DrainState, DrainPC
<1>8. u \in DrainState
  BY <1>7, EnterType
<1>9. /\ u.pc = pc /\ u.group = s.embeds /\ u.marks = s.embeds
      /\ u.deletes = s.deletes /\ u.upserts = s.upserts
      /\ u.looked = s.looked /\ u.seen = s.seen /\ u.hashes = s.hashes
  BY EnterFacts
<1>10. drain' = [drain EXCEPT ![d] = t]
  BY <1>5, <1>6
<1> HIDE DEF u
<1>11. /\ t.pc = pc /\ t.group = s.embeds /\ t.marks = s.embeds
       /\ t.deletes = s.deletes /\ t.upserts = s.upserts /\ t.embeds = {}
       /\ t.looked = s.looked /\ t.seen = s.seen /\ t.hashes = s.hashes
  BY <1>6, <1>8, <1>9 DEF DrainState
<1>12. /\ Shape(s) /\ Asks(s) /\ SnapshotCovered(s, K)
       /\ s.looked /\ s.deletes = {} /\ s.upserts = {}
       /\ s.embeds \subseteq Held(s) /\ Held(s) \subseteq RowIds
  BY <1>1, <1>4 DEF DrainInv, Shape, Held, Asks
<1>13. Shape(t)
  BY <1>11, <1>12 DEF Shape
<1>14. HashesCurrent(t, K)'
  BY <1>11, <1>12 DEF HashesCurrent
<1>15. EffectsFirst(t, K)'
  <2>1. CASE pc = "failing"
    BY <1>11, <2>1 DEF EffectsFirst
  <2>2. CASE pc = "marking"
    <3>1. \A i \in s.embeds :
              vectors'[outbox[i].product] = s.seen[outbox[i].product]
      BY <1>3, <1>5, <1>12, <2>2 DEF ProductsOf
    <3> QED  BY <1>1, <1>11, <1>12, <3>1 DEF EffectsFirst, Applied
  <2> QED  BY <2>1, <2>2
<1>16. DrainInv(t, K)'
  BY <1>1, <1>2, <1>3, <1>4, <1>11, <1>12, <1>13, <1>14, <1>15, DrainKeeps
     DEF Held
<1>17. MirrorsIn(K)'
  <2>1. ASSUME NEW q \in K, ~Owed(q), ~Condemned(q)
        PROVE  Mirrored(q)'
    <3>1. CASE q \in ProductsOf(s.embeds) /\ vectors' # vectors
      <4>1. PICK i \in s.embeds : outbox[i].product = q
        BY <3>1 DEF ProductsOf
      <4>2. ~Superseded(s, q)
        BY <2>1 DEF Superseded, Owed
      <4>3. content_hash(s.seen[q]) = content_hash(catalog[q])
        BY <1>12, <4>1, <4>2 DEF SnapshotCovered
      <4> QED  BY <1>1, <1>5, <3>1, <4>3 DEF Mirrored
    <3>2. CASE vectors'[q] = vectors[q]
      BY <1>1, <2>1, <3>2 DEF Mirrored, IInvIn, MirrorsIn
    <3> QED  BY <1>5, <3>1, <3>2
  <2> QED
    BY <1>1, <1>2, <2>1, UnsettledKeepsMirror DEF IInvIn
<1>18. \A q \in K : vectors'[q] # vectors[q] => Holds(d, q)
  BY <1>4, <1>5, <1>12 DEF ProductsOf, Holds
<1> QED
  BY <1>1, <1>2, <1>10, <1>16, <1>17, <1>18, OneStepInv
LEMMA MarkInv ==
    ASSUME TypeOK, NEW K \in SUBSET Products, Overlapping \cap K = {},
           IInvIn(K), MintedInv', NEW d \in Drainers,
           mark_done(d) \/ MarkDoneFails(d) \/ mark_failed(d)
    PROVE  IInvIn(K)'
<1>1. drain[d] \in DrainState /\ DrainInv(drain[d], K)
      /\ drain[d].pc \in {"marking", "failing"}
      /\ UNCHANGED <<catalog, vectors>> /\ outbox \in Seq(Row)
  BY DEF TypeOK, StoresTypeOK, DrainerTypeOK, IInvIn, mark_done, MarkDoneFails,
         mark_failed, storeVars
<1>2. PICK s \in DrainState : s = drain[d]
  BY <1>1
<1>3. /\ Shape(s) /\ Asks(s) /\ SnapshotCovered(s, K) /\ EffectsFirst(s, K)
      /\ s.deletes = {} /\ s.marks \subseteq s.group
      /\ s.group \subseteq Held(s) /\ Held(s) \subseteq RowIds
      /\ s.pc \in {"marking", "failing"}
  BY <1>1, <1>2 DEF DrainInv, Shape, Held, Asks
<1>4. ASSUME NEW i \in s.marks, drain' = [drain EXCEPT ![d] = Ticked(s, i)],
             SameRowsBut(Held(s)), MirrorsIn(K)'
      PROVE  IInvIn(K)'
  <2>1. PICK t : t = Ticked(s, i)
    OBVIOUS
  <2>2. t = IdleDrain \/
           /\ Shape(t)
           /\ \/ t.pc = s.pc /\ t.marks = s.marks \ {i}
              \/ t.pc \in {"rows", "products", "embed"}
           /\ t.deletes = {} /\ t.group \subseteq s.group
           /\ t.upserts = s.upserts /\ t.embeds = s.embeds
           /\ t.looked = s.looked /\ t.seen = s.seen /\ t.hashes = s.hashes
    BY <1>3, <2>1, TickedFacts
  <2>3. CASE t = IdleDrain
    BY <1>1, <1>2, <1>4, <2>1, <2>3, IdleInvNext, OneStepInv
  <2>4. CASE t # IdleDrain
    <3>1. /\ t.upserts \subseteq s.upserts
          /\ t.embeds \subseteq s.upserts \cup s.embeds
          /\ t.pc = "marking" => s.pc = "marking" /\ t.marks \subseteq s.marks
          /\ s.pc # "hashes"
      BY <1>3, <2>2, <2>4
    <3> QED  BY <1>1, <1>2, <1>4, <2>1, <2>2, <2>4, <3>1, GoOnInv
  <2> QED  BY <2>3, <2>4
<1>5. CASE mark_done(d)
  <2>1. PICK i \in s.marks :
            outbox' = MarkedDone(i) /\ drain' = [drain EXCEPT ![d] = Ticked(s, i)]
    BY <1>2, <1>5 DEF mark_done
  <2>2. i \in Held(s) /\ i \in RowIds /\ i \in s.group
    BY <1>3
  <2>3. /\ outbox[i].product \in K => Applied(s, i)
        /\ s.looked \/ outbox[i].op = "delete"
    BY <1>2, <1>3, <1>5, <2>2 DEF EffectsFirst, Asks, mark_done
  <2>4. MirrorsIn(K)'
    BY <1>1, <1>3, <2>1, <2>2, <2>3, MarkedKeepsMirror DEF IInvIn
  <2>5. SameRowsBut(Held(s))
    BY <1>1, <2>1, <2>2, MarkedDoneFacts DEF SameRowsBut
  <2> QED  BY <1>4, <2>1, <2>4, <2>5
<1>6. CASE mark_failed(d)
  <2>1. PICK i \in s.marks :
            outbox' = MarkedFailed(i) /\ drain' = [drain EXCEPT ![d] = Ticked(s, i)]
    BY <1>2, <1>6 DEF mark_failed
  <2>2. i \in Held(s) /\ i \in RowIds
    BY <1>3
  <2>3. SameRowsBut(Held(s))
    BY <1>1, <2>1, <2>2, MarkedFailedFacts DEF SameRowsBut
  <2>4. \A j \in RowIds : outbox[j].status # "done" => outbox'[j].status # "done"
    BY <1>1, <2>1, <2>2, MarkedFailedFacts
  <2>5. \A p \in Products : Mirrored(p)' = Mirrored(p)
    BY <1>1 DEF Mirrored
  <2>6. MirrorsIn(K)'
    BY <1>1, <2>3, <2>4, <2>5, UnsettledKeepsMirror DEF IInvIn, MirrorsIn
  <2> QED  BY <1>4, <2>1, <2>3, <2>6
<1>7. CASE MarkDoneFails(d)
  <2>1. PICK t : t = Enter(s, "failing", s.group)
    OBVIOUS
  <2>2. drain' = [drain EXCEPT ![d] = t] /\ UNCHANGED storeVars
    BY <1>2, <1>7, <2>1 DEF MarkDoneFails
  <2>3. /\ t.pc = "failing" /\ t.group = s.group /\ t.marks = s.group
        /\ t.deletes = s.deletes
        /\ t.upserts = s.upserts /\ t.embeds = s.embeds
        /\ t.looked = s.looked /\ t.seen = s.seen /\ t.hashes = s.hashes
    BY <2>1, EnterFacts
  <2>4. Shape(t)
    BY <1>3, <2>3 DEF Shape
  <2>5. SameRowsBut(Held(s)) /\ MirrorsIn(K)'
    BY <2>2, SameTables DEF IInvIn
  <2> QED
    BY <1>1, <1>2, <1>3, <2>2, <2>3, <2>4, <2>5, GoOnInv
<1> QED
  BY <1>5, <1>6, <1>7

LEMMA CrashInv ==
    ASSUME TypeOK, NEW K \in SUBSET Products, Overlapping \cap K = {},
           IInvIn(K), MintedInv', NEW d \in Drainers,
           CrashDrain(d)
    PROVE  IInvIn(K)'
BY IdleInvNext, OneStepInv, SameTables DEF CrashDrain, IInvIn

-----------------------------------------------------------------------------
(* The theorems.                                                           *)

LEMMA InitInv ==
    ASSUME NEW K \in SUBSET Products, Init
    PROVE  IInvIn(K)
<1>1. RowIds = {} /\ \A p \in Products : catalog[p] = Absent /\ vectors[p] = Absent
  BY DEF Init, StoresInit, RowIds
<1>2. MintedInv
  BY <1>1 DEF Init, ReconcilerInit, IdleRecon, MintedInv
<1>3. MirrorsIn(K)
  BY <1>1 DEF MirrorsIn, Mirrored
<1>4. \A d \in Drainers : drain[d] = IdleDrain
  BY DEF Init, DrainerInit
<1> QED
  BY <1>2, <1>3, <1>4, IdleInv DEF IInvIn

LEMMA StepInv ==
    ASSUME TypeOK, NEW K \in SUBSET Products, Overlapping \cap K = {},
           IInvIn(K), [Next]_vars,
           StoresAssumption, DrainerAssumption
    PROVE  IInvIn(K)'
<1>1. TypeOK' /\ MintedInv'
  BY StepType, MintedStep
<1>2. CASE Admin /\ UNCHANGED <<drainVars, recon>>
  BY <1>1, <1>2, AdminInv DEF drainVars
<1>3. ASSUME NEW d \in Drainers, DrainStep(d) \/ CrashDrain(d), UNCHANGED recon
      PROVE  IInvIn(K)'
  BY <1>1, <1>3, ClaimInv, PurgeInv, ReadInv, RowGoneInv, RowDecidedInv,
     EmbedInv, MarkInv, CrashInv DEF DrainStep
<1>4. ASSUME NEW r \in Reconcilers, ReconcileStep(r), UNCHANGED drainVars
      PROVE  IInvIn(K)'
  BY <1>1, <1>4, ReconcileInv DEF drainVars
<1>5. CASE UNCHANGED vars
  BY <1>1, <1>5, UntouchedKeepsInv DEF vars, drainVars
<1> QED
  BY <1>2, <1>3, <1>4, <1>5 DEF Next

\* A row's product and operation never change, by any number of drains.
LEMMA RowsKeepTheirJob ==
    ASSUME TypeOK, NEW d \in Drainers, DrainStep(d) \/ CrashDrain(d),
           StoresAssumption
    PROVE  /\ RowIds' = RowIds
           /\ \A j \in RowIds : /\ outbox'[j].product = outbox[j].product
                                /\ outbox'[j].op = outbox[j].op
<1>1. outbox \in Seq(Row) /\ DOMAIN outbox = RowIds
  BY LenProperties DEF TypeOK, StoresTypeOK, RowIds
<1>2. CASE UNCHANGED outbox
  BY <1>2 DEF RowIds
<1>3. ASSUME NEW i, outbox' = MarkedDone(i) \/ outbox' = MarkedFailed(i)
      PROVE  /\ RowIds' = RowIds
             /\ \A j \in RowIds : /\ outbox'[j].product = outbox[j].product
                                  /\ outbox'[j].op = outbox[j].op
  <2>1. CASE i \in RowIds
    <3>1. CASE outbox' = MarkedDone(i)
      BY <1>1, <2>1, <3>1, MarkedDoneFacts DEF RowIds
    <3>2. CASE outbox' = MarkedFailed(i)
      BY <1>1, <2>1, <3>2, MarkedFailedFacts DEF RowIds
    <3> QED  BY <1>3, <3>1, <3>2
  <2>2. CASE i \notin RowIds
    <3>1. outbox' = outbox
      BY <1>1, <1>3, <2>2, LenProperties DEF MarkedDone, MarkedFailed
    <3> QED  BY <3>1 DEF RowIds
  <2> QED  BY <2>1, <2>2
<1> QED
  BY <1>2, <1>3
     DEF DrainStep, claim_pending, ReturnConnection, PurgeVectors, PurgeFails,
         get_products_by_ids, all_hashes, RowGone, RowGoneFails, RowUnchanged,
         RowNeedsEmbed, EmbedAndUpsert, EmbedFails, mark_done, MarkDoneFails,
         mark_failed, CrashDrain, storeVars

\* Outbox rows and catalogue rows are of products that were created.
RowsMinted ==
    /\ \A i \in RowIds : outbox[i].product \in minted
    /\ \A p \in Products : catalog[p] # Absent => p \in minted

\* Without reconcile passes the admin pages and any number of drains never
\* leave an existing product queued for deletion.
THEOREM OnlyReconcileCondemns ==
    ASSUME Reconcilers = {}
    PROVE  Spec => []NeverCondemned
<1>1. Init => RowsMinted /\ NeverCondemned
  BY DEF Init, StoresInit, NeverCondemned, Condemned, RowsMinted, RowIds
<1>2. ASSUME TypeOK, RowsMinted, NeverCondemned, [Next]_vars
      PROVE  RowsMinted' /\ NeverCondemned'
  <2>2. /\ outbox \in Seq(Row) /\ Len(outbox) \in Nat
        /\ catalog \in [Products -> Entry \cup {Absent}]
    BY <1>2, LenProperties DEF TypeOK, StoresTypeOK
  <2>3. ASSUME NEW p \in Products, NEW op \in Op, enqueue(p, op),
               \A q \in Products \ {p} : catalog'[q] = catalog[q],
               op = "delete" => catalog'[p] = Absent,
               catalog[p] = Absent =>
                   catalog'[p] = Absent \/ p \notin minted,
               minted \subseteq minted', p \in minted'
        PROVE  RowsMinted' /\ NeverCondemned'
    <3>1. /\ RowIds' = RowIds \cup {Len(outbox) + 1}
          /\ \A j \in RowIds : outbox'[j] = outbox[j]
          /\ outbox'[Len(outbox) + 1] = NewRow(p, op)
      BY <2>2, <2>3, EnqueueFacts, StoresAssumption DEF RowIds
    <3>2. NewRow(p, op).product = p /\ NewRow(p, op).op = op
      BY DEF NewRow
    <3>5. RowsMinted'
      BY <1>2, <2>3, <3>1, <3>2 DEF RowsMinted
    <3> SUFFICES ASSUME NEW q \in Products, NEW j \in RowIds',
                        outbox'[j].product = q, outbox'[j].op = "delete"
                 PROVE  catalog'[q] = Absent
      BY <3>5 DEF NeverCondemned, Condemned, RowsOf
    <3>3. CASE j \in RowIds
      <4>1. outbox[j].product = q /\ outbox[j].op = "delete"
        BY <3>1, <3>3
      <4>2. catalog[q] = Absent /\ q \in minted
        BY <1>2, <3>3, <4>1 DEF NeverCondemned, Condemned, RowsOf, RowsMinted
      <4> QED  BY <2>3, <4>2
    <3>4. CASE j = Len(outbox) + 1
      BY <2>3, <3>1, <3>2, <3>4
    <3> QED  BY <3>1, <3>3, <3>4
  <2>4. ASSUME Admin  PROVE  RowsMinted' /\ NeverCondemned'
    <3>1. "upsert" \in Op /\ "delete" \in Op /\ "upsert" # "delete"
      BY DEF Op
    <3>2. ASSUME NEW p \in Products, NEW e \in Entry, CreateProduct(p, e)
          PROVE  RowsMinted' /\ NeverCondemned'
      <4>1. /\ enqueue(p, "upsert") /\ p \notin minted
            /\ minted' = minted \cup {p}
            /\ \A q \in Products \ {p} : catalog'[q] = catalog[q]
        BY <2>2, <3>2 DEF CreateProduct
      <4> QED  BY <2>3, <3>1, <4>1
    <3>3. ASSUME NEW p \in Products, NEW e \in Entry, UpdateProduct(p, e)
          PROVE  RowsMinted' /\ NeverCondemned'
      <4>1. /\ enqueue(p, "upsert") /\ catalog[p] # Absent
            /\ minted' = minted /\ p \in minted
            /\ \A q \in Products \ {p} : catalog'[q] = catalog[q]
        BY <1>2, <2>2, <3>3 DEF UpdateProduct, RowsMinted
      <4> QED  BY <2>3, <3>1, <4>1
    <3>4. ASSUME NEW p \in Products, RemoveProduct(p)
          PROVE  RowsMinted' /\ NeverCondemned'
      <4>1. /\ enqueue(p, "delete") /\ catalog'[p] = Absent
            /\ minted' = minted /\ p \in minted
            /\ \A q \in Products \ {p} : catalog'[q] = catalog[q]
        BY <2>2, <3>4 DEF RemoveProduct
      <4> QED  BY <2>3, <3>1, <4>1
    <3> QED  BY <2>4, <3>2, <3>3, <3>4 DEF Admin
  <2>5. ASSUME NEW d \in Drainers, DrainStep(d) \/ CrashDrain(d)
        PROVE  RowsMinted' /\ NeverCondemned'
    <3>1. catalog' = catalog /\ minted' = minted
      BY <2>5
         DEF DrainStep, claim_pending, ReturnConnection, PurgeVectors,
             PurgeFails, get_products_by_ids, all_hashes, RowGone,
             RowGoneFails, RowUnchanged, RowNeedsEmbed, EmbedAndUpsert,
             EmbedFails, mark_done, MarkDoneFails, mark_failed, CrashDrain,
             storeVars
    <3> QED
      BY <1>2, <2>5, <3>1, RowsKeepTheirJob, StoresAssumption
         DEF NeverCondemned, Condemned, RowsOf, RowsMinted
  <2>6. CASE UNCHANGED vars
    BY <1>2, <2>6
       DEF vars, storeVars, NeverCondemned, Condemned, RowsOf, RowIds, RowsMinted
  <2> QED
    BY <1>2, <2>4, <2>5, <2>6 DEF Next
<1> QED
  BY <1>1, <1>2, TypeCorrect, PTL DEF Spec

-----------------------------------------------------------------------------
(* The history variable `contested`.                                       *)

\* What the drains know of any products of which none is contested.
IInv ==
    /\ Overlapping \subseteq contested
    /\ \A K \in SUBSET Products : K \cap contested = {} => IInvIn(K)

\* Products whose work is all still ahead may be trusted again: nothing is
\* known of them, and nothing has to be.
LEMMA AfreshJoins ==
    ASSUME NEW K \in SUBSET Products, NEW L \in SUBSET Products, IInvIn(K)',
           L \ K \subseteq Afresh'
    PROVE  IInvIn(L)'
<1>1. ASSUME NEW d \in Drainers, NEW i \in Held(drain'[d]), NEW p \in L,
             p = outbox'[i].product
      PROVE  p \in K
  <2>1. Holds(d, p)'
    BY <1>1 DEF Holds, Held
  <2> QED  BY <1>1, <2>1 DEF Afresh
<1>2. ASSUME NEW d \in Drainers  PROVE  DrainInv(drain[d], L)'
  <2>1. DrainInv(drain[d], K)'
    BY DEF IInvIn
  <2>2. SnapshotCovered(drain[d], L)'
    BY <1>1, <2>1 DEF DrainInv, SnapshotCovered, Held
  <2>3. HashesCurrent(drain[d], L)'
    BY <1>1, <2>1 DEF DrainInv, HashesCurrent, Held
  <2>4. EffectsFirst(drain[d], L)'
    BY <1>1, <2>1 DEF DrainInv, EffectsFirst, Shape, Held
  <2> QED  BY <2>1, <2>2, <2>3, <2>4 DEF DrainInv
<1>3. MirrorsIn(L)'
  BY DEF IInvIn, MirrorsIn, Afresh
<1> QED
  BY <1>2, <1>3 DEF IInvIn

LEMMA HistoryInitInv ==
    ASSUME HistoryInit
    PROVE  IInv
<1>1. Overlapping = {}
  BY DEF HistoryInit, Init, DrainerInit, IdleDrain, Overlapping, Holds, Held
<1>2. ASSUME NEW K \in SUBSET Products  PROVE  IInvIn(K)
  BY InitInv DEF HistoryInit
<1> QED
  BY <1>1, <1>2 DEF IInv

LEMMA HistoryStepInv ==
    ASSUME TypeOK, IInv, [HistoryNext]_hvars,
           StoresAssumption, DrainerAssumption
    PROVE  IInv'
<1>1. CASE UNCHANGED hvars
  <2>1. UNCHANGED vars /\ contested' = contested
    BY <1>1 DEF hvars, historyVars
  <2>2. Overlapping' = Overlapping
    BY <2>1 DEF vars, storeVars, drainVars, Overlapping, Holds, Held
  <2>3. ASSUME NEW K \in SUBSET Products, K \cap contested' = {}
        PROVE  IInvIn(K)'
    <3>1. IInvIn(K) /\ Overlapping \cap K = {}
      BY <2>1, <2>3 DEF IInv
    <3> QED  BY <2>1, <3>1, StepInv
  <2> QED  BY <2>1, <2>2, <2>3 DEF IInv
<1>2. CASE Next /\ Observe
  <2>1. contested' = Overlapping' \cup (contested \ Afresh')
    BY <1>2 DEF Observe
  <2>2. ASSUME NEW L \in SUBSET Products, L \cap contested' = {}
        PROVE  IInvIn(L)'
    <3>1. PICK K \in SUBSET Products : K = L \ contested
      OBVIOUS
    <3>2. IInvIn(K) /\ Overlapping \cap K = {}
      BY <3>1 DEF IInv
    <3>3. IInvIn(K)'
      BY <1>2, <3>2, StepInv
    <3>4. L \ K \subseteq Afresh'
      BY <2>1, <2>2, <3>1
    <3> QED  BY <3>3, <3>4, AfreshJoins
  <2> QED  BY <2>1, <2>2 DEF IInv
<1> QED
  BY <1>1, <1>2 DEF HistoryNext

\* The history variables observe CatalogSync and do not restrict it.
THEOREM HistoryIsCatalogSync == HistorySpec => Spec
<1>1. HistoryInit => Init
  BY DEF HistoryInit
<1>2. [HistoryNext]_hvars => [Next]_vars
  BY DEF HistoryNext, hvars
<1> QED
  BY <1>1, <1>2, PTL DEF HistorySpec, Spec

\* What each drain knows and owes is invariant for any number of drains, any
\* catalogue, any batch and retry limits, any crashes and any number of
\* reconcile passes.
THEOREM IInvHolds == HistorySpec => []IInv
<1>1. HistoryInit => IInv
  BY HistoryInitInv
<1>2. TypeOK /\ IInv /\ [HistoryNext]_hvars => IInv'
  BY HistoryStepInv, StoresAssumption, DrainerAssumption
<1> QED
  BY <1>1, <1>2, HistoryIsCatalogSync, TypeCorrect, PTL DEF HistorySpec

LEMMA InvMirrors ==
    ASSUME IInv
    PROVE  DoneMeansMirrored
<1> SUFFICES ASSUME NEW p \in Products, p \notin contested
             PROVE  Owed(p) \/ Condemned(p) \/ Mirrored(p)
  BY DEF DoneMeansMirrored
<1>1. {p} \in SUBSET Products /\ {p} \cap contested = {}
  OBVIOUS
<1>2. IInvIn({p})
  BY <1>1 DEF IInv
<1> QED
  BY <1>2 DEF IInvIn, MirrorsIn

\* A product whose latest outbox row is done is exactly mirrored in the
\* vector store, with any number of drains, unless reconcile condemned it or
\* two drains held rows of it and none has waited since.
THEOREM DoneRowsCanBeTrusted == HistorySpec => []DoneMeansMirrored
<1>1. IInv => DoneMeansMirrored
  BY InvMirrors
<1> QED
  BY <1>1, IInvHolds, PTL

-----------------------------------------------------------------------------
(* How the locals of a drain move, s before and t after a step.            *)

Forward(s, t) ==
    /\ Held(t) \subseteq Held(s)
    /\ t.upserts \subseteq s.upserts
    /\ t.looked = s.looked /\ t.seen = s.seen /\ t.hashes = s.hashes
    /\ t.looked => (t.pc = "hashes") = (s.pc = "hashes")

\* The rows that a step of drain d makes ready to be marked done, and the
\* effect on the vectors that it had with them.
Readied(d, s, t) ==
    \/ s.pc = "marking" /\ t.marks \subseteq s.marks
    \/ PurgeVectors(d) /\ t.marks \subseteq s.deletes
    \/ /\ s.looked
       /\ \E i \in s.upserts :
             /\ t.marks = {i}
             /\ s.seen[outbox[i].product] = Absent
             /\ vectors' = [vectors EXCEPT ![outbox[i].product] = Absent]
             /\ UNCHANGED outbox
    \/ EmbedAndUpsert(d) /\ t.marks \subseteq s.embeds

LEMMA LocalsMove ==
    ASSUME TypeOK, NEW d \in Drainers, NEW s \in DrainState, s = drain[d],
           Shape(s), DrainStep(d) \/ CrashDrain(d)
    PROVE  \/ claim_pending(d) \/ get_products_by_ids(d) \/ all_hashes(d)
           \/ drain' = [drain EXCEPT ![d] = IdleDrain]
           \/ \E t : /\ drain' = [drain EXCEPT ![d] = t]
                     /\ Forward(s, t)
                     /\ t.pc = "marking" => Readied(d, s, t)
<1> DEFINE Goal == \E t : /\ drain' = [drain EXCEPT ![d] = t]
                          /\ Forward(s, t)
                          /\ t.pc = "marking" => Readied(d, s, t)
<1>1. CASE ReturnConnection(d)
  <2> DEFINE pc == IF s.deletes # {} THEN "purge" ELSE "products"
  <2>1. PICK t : t = [s EXCEPT !.pc = pc]
    OBVIOUS
  <2>2. drain' = [drain EXCEPT ![d] = t] /\ ~s.looked /\ pc # "marking"
    BY <1>1, <2>1 DEF ReturnConnection, Shape
  <2> HIDE DEF pc
  <2>3. Forward(s, t) /\ t.pc = pc
    BY <2>1, <2>2 DEF DrainState, Forward, Held
  <2> QED  BY <2>2, <2>3
<1>2. CASE PurgeVectors(d) \/ PurgeFails(d)
  <2>1. PICK pc \in {"marking", "failing"} :
            /\ drain' = [drain EXCEPT ![d] =
                  [Enter(s, pc, s.deletes) EXCEPT !.deletes = {}]]
            /\ pc = "marking" => PurgeVectors(d)
    BY <1>2 DEF PurgeVectors, PurgeFails
  <2>2. PICK t : t = [Enter(s, pc, s.deletes) EXCEPT !.deletes = {}]
    OBVIOUS
  <2>3. ~s.looked
    BY <1>2 DEF PurgeVectors, PurgeFails, Shape
  <2>4. /\ t.pc = pc /\ t.group = s.deletes /\ t.marks = s.deletes
        /\ t.deletes = {} /\ t.upserts = s.upserts /\ t.embeds = s.embeds
        /\ t.looked = s.looked /\ t.seen = s.seen /\ t.hashes = s.hashes
    BY <2>2 DEF Enter, DrainState
  <2>5. Forward(s, t)
    BY <2>3, <2>4 DEF Forward, Held
  <2> QED  BY <2>1, <2>2, <2>4, <2>5 DEF Readied
<1>3. CASE RowGone(d) \/ RowGoneFails(d)
  <2>1. PICK i \in s.upserts, pc \in {"marking", "failing"} :
            /\ drain' = [drain EXCEPT ![d] =
                  [Enter(s, pc, {i}) EXCEPT !.upserts = @ \ {i}]]
            /\ s.seen[outbox[i].product] = Absent
            /\ UNCHANGED outbox
            /\ pc = "marking" =>
                  vectors' = [vectors EXCEPT ![outbox[i].product] = Absent]
    BY <1>3 DEF RowGone, RowGoneFails, storeVars
  <2>2. PICK t : t = [Enter(s, pc, {i}) EXCEPT !.upserts = @ \ {i}]
    OBVIOUS
  <2>3. s.pc = "rows" /\ s.looked
    BY <1>3 DEF RowGone, RowGoneFails, Shape
  <2>4. /\ t.pc = pc /\ t.group = {i} /\ t.marks = {i}
        /\ t.deletes = s.deletes /\ t.upserts = s.upserts \ {i}
        /\ t.embeds = s.embeds
        /\ t.looked = s.looked /\ t.seen = s.seen /\ t.hashes = s.hashes
    BY <2>2 DEF Enter, DrainState
  <2>5. Forward(s, t)
    BY <2>3, <2>4 DEF Forward, Held
  <2> QED  BY <2>1, <2>2, <2>3, <2>4, <2>5 DEF Readied
<1>4. CASE RowUnchanged(d) \/ RowNeedsEmbed(d)
  <2>1. s.pc = "rows" /\ s.looked /\ s.group = {} /\ s.deletes = {}
        /\ s.marks = {}
    BY <1>4 DEF RowUnchanged, RowNeedsEmbed, Shape
  <2>2. PICK u \in DrainState :
            /\ drain' = [drain EXCEPT ![d] = Resume(u)]
            /\ u.group = {} /\ u.marks = {} /\ u.deletes = {}
            /\ u.upserts \subseteq s.upserts
            /\ u.embeds \subseteq s.upserts \cup s.embeds
            /\ u.looked = s.looked /\ u.seen = s.seen /\ u.hashes = s.hashes
    <3>1. CASE RowUnchanged(d)
      <4>1. PICK i \in s.upserts :
                drain' = [drain EXCEPT ![d] =
                      Resume([s EXCEPT !.upserts = @ \ {i}])]
        BY <3>1 DEF RowUnchanged
      <4>2. PICK u : u = [s EXCEPT !.upserts = @ \ {i}]
        OBVIOUS
      <4>3. /\ u \in DrainState /\ u.group = s.group /\ u.marks = s.marks
            /\ u.deletes = s.deletes /\ u.upserts = s.upserts \ {i}
            /\ u.embeds = s.embeds
            /\ u.looked = s.looked /\ u.seen = s.seen /\ u.hashes = s.hashes
        BY <4>2 DEF DrainState
      <4> QED  BY <2>1, <4>1, <4>2, <4>3
    <3>2. CASE RowNeedsEmbed(d)
      <4>1. PICK i \in s.upserts :
                drain' = [drain EXCEPT ![d] =
                      Resume([s EXCEPT !.upserts = @ \ {i},
                                       !.embeds = @ \cup {i}])]
        BY <3>2 DEF RowNeedsEmbed
      <4>2. PICK u : u = [s EXCEPT !.upserts = @ \ {i}, !.embeds = @ \cup {i}]
        OBVIOUS
      <4>3. s.embeds \cup {i} \in SUBSET (1..MaxRows)
            /\ s.upserts \ {i} \in SUBSET (1..MaxRows)
        BY DEF DrainState
      <4>4. /\ u \in DrainState /\ u.group = s.group /\ u.marks = s.marks
            /\ u.deletes = s.deletes /\ u.upserts = s.upserts \ {i}
            /\ u.embeds = s.embeds \cup {i}
            /\ u.looked = s.looked /\ u.seen = s.seen /\ u.hashes = s.hashes
        BY <4>2, <4>3 DEF DrainState
      <4> QED  BY <2>1, <4>1, <4>2, <4>4
    <3> QED  BY <1>4, <3>1, <3>2
  <2>3. PICK t : t = Resume(u)
    OBVIOUS
  <2>4. CASE t = IdleDrain
    BY <2>2, <2>3, <2>4
  <2>5. CASE t # IdleDrain
    <3>1. /\ t.pc \in {"rows", "products", "embed"}
          /\ t.deletes = {} /\ t.group = {}
          /\ t.upserts = u.upserts /\ t.embeds = u.embeds
          /\ t.looked = u.looked /\ t.seen = u.seen /\ t.hashes = u.hashes
      BY <2>1, <2>2, <2>3, <2>5, ResumeFacts
    <3>2. Forward(s, t)
      BY <2>1, <2>2, <3>1 DEF Forward, Held
    <3> QED  BY <2>2, <2>3, <3>1, <3>2
  <2> QED  BY <2>4, <2>5
<1>5. CASE EmbedAndUpsert(d) \/ EmbedFails(d)
  <2>1. PICK pc \in {"marking", "failing"} :
            /\ drain' = [drain EXCEPT ![d] =
                  [Enter(s, pc, s.embeds) EXCEPT !.embeds = {}]]
            /\ pc = "marking" => EmbedAndUpsert(d)
    BY <1>5 DEF EmbedAndUpsert, EmbedFails
  <2>2. PICK t : t = [Enter(s, pc, s.embeds) EXCEPT !.embeds = {}]
    OBVIOUS
  <2>3. s.pc = "embed"
    BY <1>5 DEF EmbedAndUpsert, EmbedFails
  <2>4. /\ t.pc = pc /\ t.group = s.embeds /\ t.marks = s.embeds
        /\ t.deletes = s.deletes /\ t.upserts = s.upserts /\ t.embeds = {}
        /\ t.looked = s.looked /\ t.seen = s.seen /\ t.hashes = s.hashes
    BY <2>2 DEF Enter, DrainState
  <2>5. Forward(s, t)
    BY <2>3, <2>4 DEF Forward, Held
  <2> QED  BY <2>1, <2>2, <2>4, <2>5 DEF Readied
<1>6. CASE mark_done(d) \/ mark_failed(d)
  <2>1. PICK i \in s.marks : drain' = [drain EXCEPT ![d] = Ticked(s, i)]
    BY <1>6 DEF mark_done, mark_failed
  <2>2. s.pc \in {"marking", "failing"}
    BY <1>6 DEF mark_done, mark_failed
  <2>3. PICK t : t = Ticked(s, i)
    OBVIOUS
  <2>4. CASE t = IdleDrain
    BY <2>1, <2>3, <2>4
  <2>5. CASE t # IdleDrain
    <3>1. /\ \/ t.pc = s.pc /\ t.marks = s.marks \ {i}
             \/ t.pc \in {"rows", "products", "embed"}
          /\ t.deletes = {} /\ t.group \subseteq s.group
          /\ t.upserts = s.upserts /\ t.embeds = s.embeds
          /\ t.looked = s.looked /\ t.seen = s.seen /\ t.hashes = s.hashes
      BY <2>1, <2>2, <2>3, <2>5, TickedFacts
    <3>2. Forward(s, t)
      BY <2>2, <3>1 DEF Forward, Held
    <3>3. t.pc = "marking" => Readied(d, s, t)
      BY <3>1 DEF Readied
    <3> QED  BY <2>1, <2>3, <3>2, <3>3
  <2> QED  BY <2>4, <2>5
<1>7. CASE MarkDoneFails(d)
  <2>1. PICK t : t = Enter(s, "failing", s.group)
    OBVIOUS
  <2>2. drain' = [drain EXCEPT ![d] = t] /\ s.pc = "marking"
    BY <1>7, <2>1 DEF MarkDoneFails
  <2>3. /\ t.pc = "failing" /\ t.group = s.group
        /\ t.deletes = s.deletes /\ t.upserts = s.upserts
        /\ t.embeds = s.embeds
        /\ t.looked = s.looked /\ t.seen = s.seen /\ t.hashes = s.hashes
    BY <2>1 DEF Enter, DrainState
  <2>4. Forward(s, t)
    BY <2>2, <2>3 DEF Forward, Held
  <2> QED  BY <2>2, <2>3, <2>4
<1>8. CASE CrashDrain(d)
  BY <1>8 DEF CrashDrain
<1> QED
  BY <1>1, <1>2, <1>3, <1>4, <1>5, <1>6, <1>7, <1>8 DEF DrainStep

-----------------------------------------------------------------------------
(* The history variable `wanted`: a row marked done has been carried out.  *)

\* What the store would have to show now for row i.
Now(i) ==
    IF outbox[i].op = "delete" THEN Absent
    ELSE content_hash(catalog[outbox[i].product])

\* A row that has not been served wants what the product is now, among others,
\* and the store shows none of it.
Waits(i) ==
    \/ wanted[i] = {}
    \/ /\ Now(i) \in wanted[i]
       /\ content_hash(vectors[outbox[i].product]) \notin wanted[i]

\* Carrying out what the drain read will serve the row.
Serves(s, i) ==
    \/ wanted[i] = {}
    \/ content_hash(s.seen[outbox[i].product]) \in wanted[i]

\* What a drain with locals s has found out about the rows it holds.
CarriesOut(s) ==
    /\ s.looked => \A i \in Held(s) : Serves(s, i)
    /\ s.looked /\ s.pc # "hashes" =>
          \A i \in s.upserts :
              LET p == outbox[i].product IN
              s.hashes[p] = content_hash(s.seen[p]) => wanted[i] = {}
    /\ s.pc = "marking" => \A i \in s.marks : wanted[i] = {}

WantedInv ==
    /\ DOMAIN wanted = RowIds
    /\ \A i \in RowIds : Waits(i)
    /\ \A d \in Drainers : CarriesOut(drain[d])
    /\ DoneMeansCarriedOut

\* A row that is there before the step keeps what it wanted, unless the step
\* makes the store show it; a row that was served wants nothing any more.
LEMMA WantsGrow ==
    ASSUME Observe, RowIds \subseteq RowIds', NEW i \in RowIds
    PROVE  /\ wanted[i] = {} => wanted'[i] = {}
           /\ wanted'[i] = {} \/ wanted[i] \subseteq wanted'[i]
           /\ content_hash(vectors'[outbox'[i].product]) \in wanted[i]
                => wanted'[i] = {}
BY DEF Observe, RowIds

\* After a step no row wants what the store shows.
LEMMA WaitsHold ==
    ASSUME Observe
    PROVE  DOMAIN wanted' = RowIds' /\ \A i \in RowIds' : Waits(i)'
BY DEF Observe, Waits, Now, RowIds

\* Rows keep their product.
SameProducts ==
    /\ RowIds \subseteq RowIds'
    /\ \A j \in RowIds : outbox'[j].product = outbox[j].product

\* A drain that goes forward, or stands still, still serves its rows.
LEMMA CarriesOn ==
    ASSUME Observe, SameProducts, NEW s, NEW t, CarriesOut(s),
           Held(s) \subseteq RowIds, Forward(s, t),
           t.pc = "marking" => \A i \in t.marks : wanted'[i] = {}
    PROVE  CarriesOut(t)'
<1>1. \A i \in RowIds : /\ wanted[i] = {} => wanted'[i] = {}
                        /\ wanted'[i] = {} \/ wanted[i] \subseteq wanted'[i]
  BY WantsGrow DEF SameProducts
<1>2. \A i \in Held(t) : i \in Held(s) /\ i \in RowIds
  BY DEF Forward
<1>3. ASSUME t.looked, NEW i \in Held(t)  PROVE  Serves(t, i)'
  BY <1>1, <1>2, <1>3 DEF CarriesOut, Serves, SameProducts, Forward
<1>4. ASSUME t.looked, t.pc # "hashes", NEW i \in t.upserts,
             t.hashes[outbox'[i].product] = content_hash(t.seen[outbox'[i].product])
      PROVE  wanted'[i] = {}
  <2>1. i \in s.upserts /\ i \in RowIds
    BY <1>4 DEF Forward, Held
  <2>2. wanted[i] = {}
    BY <1>4, <2>1 DEF CarriesOut, SameProducts, Forward
  <2> QED  BY <1>1, <2>1, <2>2
<1> QED
  BY <1>3, <1>4 DEF CarriesOut, Held

\* The rows a step readies have been served by its effect.
LEMMA ReadiedAreServed ==
    ASSUME TypeOK, WantedInv, Observe, SameProducts, NEW d \in Drainers,
           NEW s, s = drain[d], CarriesOut(s), Shape(s), Asks(s),
           NEW t, Readied(d, s, t), NEW i \in t.marks
    PROVE  wanted'[i] = {}
<1>1. /\ Held(s) \subseteq RowIds
      /\ \A j \in RowIds : outbox[j].product \in Products
  BY RowProducts DEF Asks
<1>2. ASSUME i \in RowIds,
             \/ wanted[i] = {}
             \/ content_hash(vectors'[outbox[i].product]) \in wanted[i]
      PROVE  wanted'[i] = {}
  BY <1>2, WantsGrow DEF SameProducts
<1>3. CASE s.pc = "marking" /\ t.marks \subseteq s.marks
  <2>1. wanted[i] = {} /\ i \in RowIds
    BY <1>1, <1>3 DEF CarriesOut, Shape, Held
  <2> QED  BY <1>2, <2>1
<1>4. CASE PurgeVectors(d) /\ t.marks \subseteq s.deletes
  <2>1. i \in s.deletes /\ i \in RowIds /\ outbox[i].op = "delete"
    BY <1>1, <1>4 DEF Held, Asks
  <2>2. wanted[i] = {} \/ Absent \in wanted[i]
    BY <2>1 DEF WantedInv, Waits, Now
  <2>3. vectors'[outbox[i].product] = Absent
    BY <1>1, <1>4, <2>1 DEF PurgeVectors, ProductsOf
  <2> QED  BY <1>2, <2>1, <2>2, <2>3 DEF content_hash
<1>5. CASE /\ s.looked
           /\ \E j \in s.upserts :
                 /\ t.marks = {j}
                 /\ s.seen[outbox[j].product] = Absent
                 /\ vectors' = [vectors EXCEPT ![outbox[j].product] = Absent]
                 /\ UNCHANGED outbox
  <2>1. /\ i \in s.upserts /\ s.looked
        /\ s.seen[outbox[i].product] = Absent
        /\ vectors' = [vectors EXCEPT ![outbox[i].product] = Absent]
    BY <1>5
  <2>2. i \in Held(s) /\ i \in RowIds
    BY <1>1, <2>1 DEF Held
  <2>3. wanted[i] = {} \/ Absent \in wanted[i]
    BY <2>1, <2>2 DEF CarriesOut, Serves, content_hash
  <2>4. vectors'[outbox[i].product] = Absent
    BY <1>1, <2>1, <2>2 DEF TypeOK, StoresTypeOK
  <2> QED  BY <1>2, <2>2, <2>3, <2>4 DEF content_hash
<1>6. CASE EmbedAndUpsert(d) /\ t.marks \subseteq s.embeds
  <2>1. i \in s.embeds /\ i \in Held(s) /\ i \in RowIds /\ s.looked
    BY <1>1, <1>6 DEF Held, EmbedAndUpsert, Shape
  <2>2. Serves(s, i)
    BY <2>1 DEF CarriesOut
  <2>3. vectors'[outbox[i].product] = s.seen[outbox[i].product]
    BY <1>1, <1>6, <2>1 DEF EmbedAndUpsert, ProductsOf
  <2> QED  BY <1>2, <2>1, <2>2, <2>3 DEF Serves
<1> QED
  BY <1>3, <1>4, <1>5, <1>6 DEF Readied

\* A drain marks a row done only when it has been served.
LEMMA DoneIsServed ==
    ASSUME TypeOK, WantedInv, Observe, SameProducts, RowIds' = RowIds,
           NEW d \in Drainers, Shape(drain[d]), Asks(drain[d]),
           DrainStep(d) \/ CrashDrain(d)
    PROVE  DoneMeansCarriedOut'
<1>1. CarriesOut(drain[d]) /\ outbox \in Seq(Row)
  BY DEF WantedInv, TypeOK, StoresTypeOK
<1>2. \A i \in RowIds : wanted[i] = {} => wanted'[i] = {}
  BY WantsGrow DEF SameProducts
<1>3. CASE UNCHANGED outbox
  BY <1>2, <1>3 DEF WantedInv, DoneMeansCarriedOut
<1>4. ASSUME NEW i \in RowIds, outbox' = MarkedDone(i), wanted[i] = {}
      PROVE  DoneMeansCarriedOut'
  BY <1>1, <1>2, <1>4, MarkedDoneFacts DEF WantedInv, DoneMeansCarriedOut
<1>5. ASSUME NEW i \in RowIds, outbox' = MarkedFailed(i)
      PROVE  DoneMeansCarriedOut'
  <2>1. \A j \in RowIds : outbox'[j].status = "done" => outbox[j].status = "done"
    BY <1>1, <1>5, MarkedFailedFacts
  <2> QED  BY <1>2, <2>1 DEF WantedInv, DoneMeansCarriedOut
<1>6. drain[d].marks \cup drain[d].upserts \subseteq RowIds
  BY DEF Shape, Asks, Held
<1>7. CASE RowUnchanged(d)
  <2>1. PICK i \in drain[d].upserts :
            /\ drain[d].hashes[outbox[i].product]
                  = content_hash(drain[d].seen[outbox[i].product])
            /\ outbox' = MarkedDone(i)
    BY <1>7 DEF RowUnchanged
  <2>2. wanted[i] = {}
    BY <1>1, <1>7, <2>1 DEF CarriesOut, RowUnchanged, Shape
  <2> QED  BY <1>4, <1>6, <2>1, <2>2
<1>8. CASE mark_done(d)
  BY <1>1, <1>4, <1>6, <1>8 DEF mark_done, CarriesOut
<1>9. CASE mark_failed(d)
  BY <1>5, <1>6, <1>9 DEF mark_failed
<1> QED
  BY <1>3, <1>7, <1>8, <1>9
     DEF DrainStep, claim_pending, ReturnConnection, PurgeVectors, PurgeFails,
         get_products_by_ids, all_hashes, RowGone, RowGoneFails,
         RowNeedsEmbed, EmbedAndUpsert, EmbedFails, MarkDoneFails, CrashDrain,
         storeVars

LEMMA DrainWanted ==
    ASSUME TypeOK, IInvIn({}), WantedInv, Observe, NEW d \in Drainers,
           DrainStep(d) \/ CrashDrain(d), StoresAssumption
    PROVE  WantedInv'
<1>1. SameProducts /\ RowIds' = RowIds
  BY RowsKeepTheirJob DEF SameProducts
<1>2. \A e \in Drainers : /\ Shape(drain[e]) /\ Asks(drain[e])
                          /\ CarriesOut(drain[e])
                          /\ drain[e] \in DrainState
  BY DEF IInvIn, DrainInv, WantedInv, TypeOK, DrainerTypeOK
<1>3. \A i \in RowIds : /\ wanted[i] = {} => wanted'[i] = {}
                        /\ wanted'[i] = {} \/ wanted[i] \subseteq wanted'[i]
  BY <1>1, WantsGrow
<1>4. PICK s \in DrainState : s = drain[d]
  BY <1>2
<1>5. ASSUME NEW t, drain' = [drain EXCEPT ![d] = t], CarriesOut(t)'
      PROVE  \A e \in Drainers : CarriesOut(drain[e])'
  <2>1. drain'[d] = t /\ \A e \in Drainers \ {d} : drain'[e] = drain[e]
    BY <1>5 DEF TypeOK, DrainerTypeOK
  <2>2. CarriesOut(drain[d])'
    BY <1>5, <2>1 DEF CarriesOut, Serves, Held
  <2>3. ASSUME NEW e \in Drainers \ {d}  PROVE  CarriesOut(drain[e])'
    <3>1. PICK u : u = drain[e]
      OBVIOUS
    <3>2. Forward(u, u)
      BY DEF Forward
    <3>3. u.pc = "marking" => \A i \in u.marks : wanted'[i] = {}
      BY <1>2, <1>3, <3>1 DEF CarriesOut, Shape, Asks, Held
    <3>4. CarriesOut(u)'
      BY <1>1, <1>2, <3>1, <3>2, <3>3, CarriesOn DEF Asks
    <3> QED  BY <2>1, <3>1, <3>4 DEF CarriesOut, Serves, Held
  <2> QED  BY <2>2, <2>3
<1>6. \A e \in Drainers : CarriesOut(drain[e])'
  <2>1. CASE claim_pending(d)
    <3>1. PICK D, U : drain' = [drain EXCEPT ![d] =
              [IdleDrain EXCEPT !.pc = "claiming", !.deletes = D, !.upserts = U]]
      BY <2>1 DEF claim_pending
    <3>2. PICK t : t = [IdleDrain EXCEPT
                          !.pc = "claiming", !.deletes = D, !.upserts = U]
      OBVIOUS
    <3>3. CarriesOut(t)'
      BY <3>2 DEF IdleDrain, CarriesOut
    <3> QED  BY <1>5, <3>1, <3>2, <3>3
  <2>2. CASE get_products_by_ids(d)
    <3> DEFINE found == [p \in Products |->
                    IF p \in ProductsOf(s.upserts) THEN catalog[p] ELSE Absent]
    <3>1. PICK t, f : /\ f = found
                      /\ t = [s EXCEPT !.pc = "hashes", !.looked = TRUE, !.seen = f]
      OBVIOUS
    <3>2. /\ drain' = [drain EXCEPT ![d] = t] /\ UNCHANGED outbox
          /\ s.pc = "products"
      BY <1>4, <2>2, <3>1 DEF get_products_by_ids, storeVars
    <3>3. \A i \in s.upserts : i \in RowIds /\ outbox[i].op = "upsert"
                                /\ outbox[i].product \in Products
      BY <1>2, <1>4, RowProducts DEF Asks, Held
    <3>4. \A i \in s.upserts :
              content_hash(f[outbox[i].product]) = Now(i)
      BY <3>1, <3>3 DEF ProductsOf, Now
    <3> HIDE DEF found
    <3>5. /\ t.pc = "hashes" /\ t.seen = f /\ Held(t) = s.upserts
      BY <1>2, <1>4, <3>1, <3>2 DEF DrainState, Shape, Held
    <3>6. \A i \in s.upserts : Serves(t, i)'
      BY <1>3, <3>2, <3>3, <3>4, <3>5 DEF WantedInv, Waits, Serves
    <3>7. CarriesOut(t)'
      BY <3>5, <3>6 DEF CarriesOut, Held
    <3> QED  BY <1>5, <3>2, <3>7
  <2>3. CASE all_hashes(d)
    <3>1. PICK t, h : h = Hashes(vectors) /\ t = [s EXCEPT !.pc = "rows", !.hashes = h]
      OBVIOUS
    <3>2. /\ drain' = [drain EXCEPT ![d] = t] /\ UNCHANGED outbox
          /\ s.pc = "hashes" /\ s.looked
      BY <1>2, <1>4, <2>3, <3>1 DEF all_hashes, storeVars, Shape
    <3>3. /\ t.pc = "rows" /\ t.seen = s.seen /\ t.hashes = h
          /\ Held(t) = Held(s) /\ t.upserts = s.upserts /\ t.looked = s.looked
      BY <3>1 DEF DrainState, Held
    <3>4. \A i \in Held(s) : i \in RowIds /\ outbox[i].product \in Products
                              /\ Serves(s, i)
      BY <1>2, <1>4, <3>2, RowProducts DEF Asks, CarriesOut
    <3>5. ASSUME NEW i \in Held(s)
          PROVE  Serves(t, i)'
      BY <1>3, <3>2, <3>3, <3>4 DEF Serves
    <3>6. ASSUME NEW i \in s.upserts,
                 h[outbox[i].product] = content_hash(s.seen[outbox[i].product])
          PROVE  wanted'[i] = {}
      <4>1. i \in Held(s) /\ i \in RowIds /\ Waits(i) /\ Serves(s, i)
        BY <3>4 DEF Held, WantedInv
      <4>2. content_hash(s.seen[outbox[i].product])
                = content_hash(vectors[outbox[i].product])
        BY <3>1, <3>4, <3>6, <4>1 DEF Hashes
      <4> QED  BY <1>3, <4>1, <4>2 DEF Waits, Serves
    <3>7. CarriesOut(t)'
      BY <3>2, <3>3, <3>5, <3>6 DEF CarriesOut, Held
    <3> QED  BY <1>5, <3>2, <3>7
  <2>4. CASE drain' = [drain EXCEPT ![d] = IdleDrain]
    <3>1. CarriesOut(IdleDrain)'
      BY DEF IdleDrain, CarriesOut
    <3> QED  BY <1>5, <2>4, <3>1
  <2>5. ASSUME NEW t, drain' = [drain EXCEPT ![d] = t], Forward(s, t),
               t.pc = "marking" => Readied(d, s, t)
        PROVE  \A e \in Drainers : CarriesOut(drain[e])'
    <3>1. t.pc = "marking" => \A i \in t.marks : wanted'[i] = {}
      BY <1>1, <1>2, <1>4, <2>5, ReadiedAreServed
    <3>2. CarriesOut(t)'
      BY <1>1, <1>2, <1>4, <2>5, <3>1, CarriesOn DEF Asks
    <3> QED  BY <1>5, <2>5, <3>2
  <2> QED  BY <1>2, <1>4, <2>1, <2>2, <2>3, <2>4, <2>5, LocalsMove
<1>7. DoneMeansCarriedOut'
  BY <1>1, <1>2, DoneIsServed
<1> QED
  BY <1>6, <1>7, WaitsHold DEF WantedInv

\* Admins and reconcile passes only add rows, which nobody has marked.
LEMMA OthersOnlyAdd ==
    ASSUME TypeOK, StoresAssumption,
           \/ Admin
           \/ \E r \in Reconcilers : ReconcileStep(r)
    PROVE  /\ \A j \in RowIds : j \in RowIds' /\ outbox'[j] = outbox[j]
           /\ \A j \in RowIds' \ RowIds : outbox'[j].status = "pending"
<1> DEFINE Goal == /\ \A j \in RowIds : j \in RowIds' /\ outbox'[j] = outbox[j]
                   /\ \A j \in RowIds' \ RowIds : outbox'[j].status = "pending"
<1>1. outbox \in Seq(Row) /\ Len(outbox) \in Nat
  BY LenProperties DEF TypeOK, StoresTypeOK
<1>2. "upsert" \in Op /\ "delete" \in Op
  BY DEF Op
<1>3. ASSUME NEW p \in Products, NEW op \in Op, enqueue(p, op)
      PROVE  Goal
  <2>1. NewRow(p, op).status = "pending"
    BY DEF NewRow
  <2> QED  BY <1>1, <1>3, <2>1, EnqueueFacts DEF RowIds
<1>4. ASSUME NEW ps \in SUBSET Products, NEW op \in Op, enqueue_many(ps, op)
      PROVE  Goal
  <2>1. /\ Len(outbox') \in Nat /\ Len(outbox) <= Len(outbox')
        /\ \A j \in RowIds : outbox'[j] = outbox[j]
        /\ \A j \in RowIds' \ RowIds : \E p \in ps : outbox'[j] = NewRow(p, op)
    BY <1>1, <1>4, EnqueueManyFacts
  <2>2. \A p \in ps : NewRow(p, op).status = "pending"
    BY DEF NewRow
  <2> QED  BY <1>1, <2>1, <2>2 DEF RowIds
<1>5. CASE Admin
  BY <1>2, <1>3, <1>5 DEF Admin, CreateProduct, UpdateProduct, RemoveProduct
<1>6. ASSUME NEW r \in Reconcilers, ReconcileStep(r)
      PROVE  Goal
  <2>1. recon[r].upserts \in SUBSET Products
        /\ recon[r].orphans \in SUBSET Products
    BY DEF TypeOK, ReconcilerTypeOK, ReconState
  <2>2. CASE EnqueueUpserts(r) \/ EnqueueDeletes(r)
    BY <1>2, <1>4, <2>1, <2>2 DEF EnqueueUpserts, EnqueueDeletes
  <2>3. CASE UNCHANGED storeVars
    BY <2>3 DEF storeVars, RowIds
  <2> QED
    BY <1>6, <2>2, <2>3
       DEF ReconcileStep, all_product_hashes, DiffHashes, ReconcileDies
<1> QED
  BY <1>5, <1>6

LEMMA OthersWanted ==
    ASSUME TypeOK, IInvIn({}), WantedInv, Observe, UNCHANGED drain,
           \A j \in RowIds : j \in RowIds' /\ outbox'[j] = outbox[j],
           \A j \in RowIds' \ RowIds : outbox'[j].status = "pending"
    PROVE  WantedInv'
<1>1. SameProducts
  BY DEF SameProducts
<1>2. \A i \in RowIds : wanted[i] = {} => wanted'[i] = {}
  BY <1>1, WantsGrow DEF SameProducts
<1>3. ASSUME NEW d \in Drainers  PROVE  CarriesOut(drain[d])'
  <2>1. PICK u : u = drain[d]
    OBVIOUS
  <2>2. CarriesOut(u) /\ Shape(u) /\ Asks(u)
    BY <2>1 DEF WantedInv, IInvIn, DrainInv
  <2>3. Forward(u, u)
    BY DEF Forward
  <2>4. u.pc = "marking" => \A i \in u.marks : wanted'[i] = {}
    BY <1>2, <2>2 DEF CarriesOut, Shape, Asks, Held
  <2>5. CarriesOut(u)'
    BY <1>1, <2>2, <2>3, <2>4, CarriesOn DEF Asks
  <2> QED  BY <2>1, <2>5 DEF CarriesOut, Serves, Held
<1>4. DoneMeansCarriedOut'
  BY <1>2 DEF WantedInv, DoneMeansCarriedOut
<1> QED
  BY <1>3, <1>4, WaitsHold DEF WantedInv

LEMMA StepWanted ==
    ASSUME TypeOK, IInv, WantedInv, [HistoryNext]_hvars, StoresAssumption
    PROVE  WantedInv'
<1>1. IInvIn({})
  BY DEF IInv
<1>2. CASE Admin /\ UNCHANGED <<drainVars, recon>> /\ Observe
  BY <1>1, <1>2, OthersOnlyAdd, OthersWanted DEF drainVars
<1>3. ASSUME NEW d \in Drainers, DrainStep(d) \/ CrashDrain(d), Observe
      PROVE  WantedInv'
  BY <1>1, <1>3, DrainWanted
<1>4. ASSUME NEW r \in Reconcilers, ReconcileStep(r), UNCHANGED drainVars,
             Observe
      PROVE  WantedInv'
  BY <1>1, <1>4, OthersOnlyAdd, OthersWanted DEF drainVars
<1>5. CASE UNCHANGED hvars
  BY <1>5 DEF hvars, historyVars, vars, storeVars, drainVars, WantedInv, Waits,
       Now, CarriesOut, Serves, Held, DoneMeansCarriedOut, RowIds
<1> QED
  BY <1>2, <1>3, <1>4, <1>5 DEF HistoryNext, Next

\* A done row was carried out, not skipped: with any number of overlapping
\* drains and any failures and crashes, the vector store has shown the product
\* as the row asked, or as a later edit did.
THEOREM DoneRowsWereCarriedOut == HistorySpec => []DoneMeansCarriedOut
<1>1. HistoryInit => WantedInv
  <2> SUFFICES ASSUME HistoryInit  PROVE  WantedInv
    OBVIOUS
  <2>1. RowIds = {} /\ DOMAIN wanted = {}
    BY DEF HistoryInit, Init, StoresInit, RowIds
  <2>2. \A d \in Drainers : drain[d] = IdleDrain
    BY DEF HistoryInit, Init, DrainerInit
  <2>3. CarriesOut(IdleDrain)
    BY DEF CarriesOut, IdleDrain
  <2> QED  BY <2>1, <2>2, <2>3 DEF WantedInv, DoneMeansCarriedOut
<1>2. TypeOK /\ IInv /\ WantedInv /\ [HistoryNext]_hvars => WantedInv'
  BY StepWanted, StoresAssumption
<1>3. WantedInv => DoneMeansCarriedOut
  BY DEF WantedInv
<1> QED
  BY <1>1, <1>2, <1>3, HistoryIsCatalogSync, TypeCorrect, IInvHolds, PTL
     DEF HistorySpec
-----------------------------------------------------------------------------
(* A row that was given up on is not touched again.                        *)

\* The rows a drain has still to mark, once more after a failed mark_done.
Unmarked(s) ==
    s.deletes \cup s.upserts \cup s.embeds
        \cup (IF s.pc = "marking" THEN s.group ELSE s.marks)

\* A row is in one of the drain's lists only.
Apart(s) ==
    /\ s.deletes \cap s.upserts = {}
    /\ s.upserts \cap s.embeds = {}
    /\ s.group \cap (s.upserts \cup s.embeds) = {}

\* No row in the drain's hands was given up, of the products in K.
HeldOpen(s, K) ==
    /\ Apart(s)
    /\ \A i \in Unmarked(s) :
          /\ i \in RowIds
          /\ outbox[i].product \in K => outbox[i].status # "failed"

FailedStays(K) ==
    \A i \in RowIds :
        outbox[i].status = "failed" /\ outbox[i].product \in K
            => outbox'[i] = outbox[i]

LEMMA IdleOpen ==
    ASSUME NEW K
    PROVE  HeldOpen(IdleDrain, K) /\ HeldOpen(IdleDrain, K)'
BY DEF HeldOpen, Apart, Unmarked, IdleDrain

LEMMA ClaimOpen ==
    ASSUME TypeOK, NEW K, NEW d \in Drainers, claim_pending(d)
    PROVE  HeldOpen(drain[d], K)' /\ FailedStays(K)
<1>1. drain \in [Drainers -> DrainState] /\ outbox' = outbox
  BY DEF TypeOK, DrainerTypeOK, claim_pending, storeVars
<1>2. PICK ids \in SUBSET PendingIds :
          drain'[d] = [IdleDrain EXCEPT
              !.pc = "claiming",
              !.deletes = {i \in ids : outbox[i].op = "delete"},
              !.upserts = {i \in ids : outbox[i].op = "upsert"}]
  BY <1>1 DEF claim_pending
<1>3. PICK t : t = drain'[d]
  OBVIOUS
<1>4. /\ t.pc = "claiming" /\ t.embeds = {} /\ t.group = {} /\ t.marks = {}
      /\ t.deletes = {i \in ids : outbox[i].op = "delete"}
      /\ t.upserts = {i \in ids : outbox[i].op = "upsert"}
  BY <1>2, <1>3 DEF IdleDrain
<1>5. Apart(t)
  BY <1>4 DEF Apart
<1>6. \A i \in Unmarked(t) : i \in RowIds /\ outbox[i].status # "failed"
  BY <1>4 DEF Unmarked, PendingIds
<1>7. HeldOpen(t, K)'
  BY <1>1, <1>5, <1>6 DEF HeldOpen, Apart, Unmarked, RowIds
<1> QED
  BY <1>1, <1>3, <1>7 DEF FailedStays

\* A step that marks no row and forgets or moves rows of the drain.
LEMMA MoveOpen ==
    ASSUME NEW K, NEW s, NEW t, HeldOpen(s, K), Apart(t),
           UNCHANGED outbox,
           Unmarked(t) \subseteq Unmarked(s)
    PROVE  HeldOpen(t, K)' /\ FailedStays(K)
BY DEF HeldOpen, Apart, Unmarked, RowIds, FailedStays

\* A step that marks row i, after which the drain has no business with it
\* unless it is done.
LEMMA MarkOpen ==
    ASSUME TypeOK, NEW K, NEW s, NEW t, HeldOpen(s, K), Apart(t),
           NEW i \in Unmarked(s),
           \/ outbox' = MarkedDone(i) /\ Unmarked(t) \subseteq Unmarked(s)
           \/ outbox' = MarkedFailed(i)
                /\ Unmarked(t) \subseteq Unmarked(s) \ {i}
    PROVE  HeldOpen(t, K)' /\ FailedStays(K)
<1>1. i \in RowIds /\ outbox \in Seq(Row)
  BY DEF HeldOpen, TypeOK, StoresTypeOK
<1>2. /\ RowIds' = RowIds
      /\ \A j \in RowIds \ {i} : outbox'[j] = outbox[j]
      /\ outbox'[i].product = outbox[i].product
  <2>1. CASE outbox' = MarkedDone(i)
    BY <1>1, <2>1, MarkedDoneFacts DEF RowIds
  <2>2. CASE outbox' = MarkedFailed(i)
    BY <1>1, <2>2, MarkedFailedFacts DEF RowIds
  <2> QED  BY <2>1, <2>2
<1>3. outbox' = MarkedDone(i) => outbox'[i].status # "failed"
  BY <1>1, MarkedDoneFacts
<1>4. \A j \in Unmarked(t) :
          /\ j \in RowIds'
          /\ outbox'[j].product \in K => outbox'[j].status # "failed"
  BY <1>2, <1>3 DEF HeldOpen
<1> QED
  BY <1>1, <1>2, <1>4 DEF HeldOpen, Apart, Unmarked, FailedStays

\* Where Resume and Ticked leave the lists.
LEMMA ResumeOpen ==
    ASSUME NEW s \in DrainState, Apart(s), s.group = {}, s.marks = {}
    PROVE  /\ Apart(Resume(s))
           /\ Unmarked(Resume(s))
                \subseteq s.deletes \cup s.upserts \cup s.embeds
<1>1. CASE s.upserts # {}
  <2> DEFINE pc == IF s.looked THEN "rows" ELSE "products"
  <2>1. Resume(s) = [s EXCEPT !.pc = pc] /\ pc # "marking"
    BY <1>1 DEF Resume
  <2> HIDE DEF pc
  <2> QED  BY <2>1 DEF DrainState, Apart, Unmarked
<1>2. CASE s.upserts = {} /\ s.embeds # {}
  <2>1. Resume(s) = [s EXCEPT !.pc = "embed"]
    BY <1>2 DEF Resume
  <2> QED  BY <2>1 DEF DrainState, Apart, Unmarked
<1>3. CASE s.upserts = {} /\ s.embeds = {}
  <2>1. Resume(s) = IdleDrain
    BY <1>3 DEF Resume
  <2> QED  BY <2>1 DEF Apart, Unmarked, IdleDrain
<1> QED
  BY <1>1, <1>2, <1>3

LEMMA TickedOpen ==
    ASSUME NEW s \in DrainState, Apart(s), Shape(s), NEW i \in s.marks,
           s.pc \in {"marking", "failing"}
    PROVE  /\ Apart(Ticked(s, i))
           /\ Unmarked(Ticked(s, i)) \subseteq Unmarked(s)
           /\ s.pc = "failing" => i \notin Unmarked(Ticked(s, i))
<1>1. s.deletes = {} /\ s.marks \subseteq s.group
  BY DEF Shape
<1>2. CASE s.marks = {i}
  <2> DEFINE u == [s EXCEPT !.marks = {}, !.group = {}]
  <2>1. /\ u \in DrainState /\ u.group = {} /\ u.marks = {}
        /\ u.deletes = {} /\ u.upserts = s.upserts /\ u.embeds = s.embeds
    BY <1>1 DEF DrainState
  <2>2. Ticked(s, i) = Resume(u)
    BY <1>2 DEF Ticked
  <2> HIDE DEF u
  <2>3. Apart(u)
    BY <2>1 DEF Apart
  <2>4. i \notin s.upserts \cup s.embeds
    BY <1>1 DEF Apart
  <2> QED  BY <2>1, <2>2, <2>3, <2>4, ResumeOpen DEF Unmarked
<1>3. CASE s.marks # {i}
  <2>1. Ticked(s, i) = [s EXCEPT !.marks = @ \ {i}]
    BY <1>3 DEF Ticked
  <2> QED  BY <1>1, <2>1 DEF DrainState, Apart, Unmarked
<1> QED
  BY <1>2, <1>3

\* Each step of a drain, with the lists it moves rows between.
LEMMA OwnOpen ==
    ASSUME TypeOK, IInvIn({}), NEW K, NEW d \in Drainers,
           HeldOpen(drain[d], K),
           DrainStep(d) \/ CrashDrain(d)
    PROVE  HeldOpen(drain[d], K)' /\ FailedStays(K)
<1>1. drain \in [Drainers -> DrainState] /\ DrainInv(drain[d], {})
  BY DEF TypeOK, DrainerTypeOK, IInvIn
<1>2. PICK s \in DrainState : s = drain[d]
  BY <1>1
<1>3. /\ Shape(s) /\ HeldOpen(s, K) /\ Apart(s)
      /\ s.marks \subseteq s.group
  BY <1>1, <1>2 DEF DrainInv, Shape, HeldOpen
<1>4. ASSUME NEW t, drain' = [drain EXCEPT ![d] = t], HeldOpen(t, K)'
      PROVE  HeldOpen(drain[d], K)'
  <2>1. drain'[d] = t
    BY <1>1, <1>4
  <2> QED  BY <1>4, <2>1 DEF HeldOpen, Apart, Unmarked
<1>5. ASSUME NEW t, drain' = [drain EXCEPT ![d] = t], UNCHANGED outbox,
             Apart(t), Unmarked(t) \subseteq Unmarked(s)
      PROVE  HeldOpen(drain[d], K)' /\ FailedStays(K)
  BY <1>3, <1>4, <1>5, MoveOpen
<1>6. CASE claim_pending(d)
  BY <1>6, ClaimOpen
<1>7. CASE ReturnConnection(d)
  <2> DEFINE pc == IF s.deletes # {} THEN "purge" ELSE "products"
             t  == [s EXCEPT !.pc = pc]
  <2>1. drain' = [drain EXCEPT ![d] = t] /\ UNCHANGED outbox
    BY <1>2, <1>7 DEF ReturnConnection, storeVars
  <2>2. s.pc = "claiming" /\ pc # "marking"
    BY <1>2, <1>7 DEF ReturnConnection
  <2> HIDE DEF pc
  <2>3. Apart(t) /\ Unmarked(t) \subseteq Unmarked(s)
    BY <1>3, <2>2 DEF DrainState, Apart, Unmarked
  <2> HIDE DEF t
  <2> QED  BY <1>5, <2>1, <2>3
<1>8. ASSUME NEW pc \in {"marking", "failing"}, UNCHANGED outbox,
             s.pc = "purge",
             drain' = [drain EXCEPT ![d] =
                [Enter(s, pc, s.deletes) EXCEPT !.deletes = {}]]
      PROVE  HeldOpen(drain[d], K)' /\ FailedStays(K)
  <2> DEFINE t == [Enter(s, pc, s.deletes) EXCEPT !.deletes = {}]
  <2>1. s.embeds = {} /\ s.group = {}
    BY <1>3, <1>8 DEF Shape
  <2>2. /\ t.group = s.deletes /\ t.marks = s.deletes /\ t.deletes = {}
        /\ t.upserts = s.upserts /\ t.embeds = s.embeds
    BY DEF Enter, DrainState
  <2> HIDE DEF t
  <2>3. Apart(t) /\ Unmarked(t) \subseteq Unmarked(s)
    BY <1>3, <2>1, <2>2 DEF Apart, Unmarked
  <2> QED  BY <1>5, <1>8, <2>3 DEF t
<1>9. CASE PurgeVectors(d) \/ PurgeFails(d)
  BY <1>2, <1>8, <1>9 DEF PurgeVectors, PurgeFails, storeVars
<1>10. CASE get_products_by_ids(d)
  <2> DEFINE seen == [p \in Products |-> IF p \in ProductsOf(s.upserts)
                                         THEN catalog[p] ELSE Absent]
             t == [s EXCEPT !.pc = "hashes", !.looked = TRUE, !.seen = seen]
  <2>1. drain' = [drain EXCEPT ![d] = t] /\ UNCHANGED outbox
    BY <1>2, <1>10 DEF get_products_by_ids, storeVars
  <2> HIDE DEF seen
  <2>2. /\ t.pc = "hashes" /\ t.deletes = s.deletes /\ t.upserts = s.upserts
        /\ t.embeds = s.embeds /\ t.group = s.group /\ t.marks = s.marks
    BY DEF DrainState
  <2>3. s.pc = "products"
    BY <1>2, <1>10 DEF get_products_by_ids
  <2> HIDE DEF t
  <2>4. Apart(t) /\ Unmarked(t) \subseteq Unmarked(s)
    BY <1>3, <2>2, <2>3 DEF Apart, Unmarked
  <2> QED  BY <1>5, <2>1, <2>4
<1>11. CASE all_hashes(d)
  <2> DEFINE t == [s EXCEPT !.pc = "rows", !.hashes = Hashes(vectors)]
  <2>1. drain' = [drain EXCEPT ![d] = t] /\ UNCHANGED outbox
    BY <1>2, <1>11 DEF all_hashes, storeVars
  <2>2. /\ t.pc = "rows" /\ t.deletes = s.deletes /\ t.upserts = s.upserts
        /\ t.embeds = s.embeds /\ t.group = s.group /\ t.marks = s.marks
    BY DEF DrainState
  <2>3. s.pc = "hashes"
    BY <1>2, <1>11 DEF all_hashes
  <2> HIDE DEF t
  <2>4. Apart(t) /\ Unmarked(t) \subseteq Unmarked(s)
    BY <1>3, <2>2, <2>3 DEF Apart, Unmarked
  <2> QED  BY <1>5, <2>1, <2>4
<1>12. CASE RowGone(d) \/ RowGoneFails(d)
  <2>1. PICK i \in s.upserts, pc \in {"marking", "failing"} :
            drain' = [drain EXCEPT ![d] =
                [Enter(s, pc, {i}) EXCEPT !.upserts = @ \ {i}]]
    BY <1>2, <1>12 DEF RowGone, RowGoneFails
  <2> DEFINE t == [Enter(s, pc, {i}) EXCEPT !.upserts = @ \ {i}]
  <2>2. UNCHANGED outbox /\ s.pc = "rows"
    BY <1>2, <1>12 DEF RowGone, RowGoneFails, storeVars
  <2>3. s.deletes = {}
    BY <1>3, <2>2 DEF Shape
  <2>4. /\ t.group = {i} /\ t.marks = {i} /\ t.deletes = s.deletes
        /\ t.upserts = s.upserts \ {i} /\ t.embeds = s.embeds
    BY DEF Enter, DrainState
  <2> HIDE DEF t
  <2>5. Apart(t) /\ Unmarked(t) \subseteq Unmarked(s)
    BY <1>3, <2>3, <2>4 DEF Apart, Unmarked
  <2> QED  BY <1>5, <2>1, <2>2, <2>5 DEF t
<1>13. CASE RowUnchanged(d) \/ RowNeedsEmbed(d)
  <2>1. s.pc = "rows" /\ s.deletes = {} /\ s.group = {} /\ s.marks = {}
    BY <1>2, <1>3, <1>13 DEF RowUnchanged, RowNeedsEmbed, Shape
  <2>2. PICK i \in s.upserts :
            \/ /\ outbox' = MarkedDone(i)
               /\ drain' = [drain EXCEPT ![d] =
                     Resume([s EXCEPT !.upserts = @ \ {i}])]
            \/ /\ outbox' = outbox
               /\ drain' = [drain EXCEPT ![d] =
                     Resume([s EXCEPT !.upserts = @ \ {i},
                                      !.embeds = @ \cup {i}])]
    BY <1>2, <1>13 DEF RowUnchanged, RowNeedsEmbed, storeVars
  <2>3. i \in 1..MaxRows
    BY DEF DrainState
  <2>4. CASE outbox' = MarkedDone(i) /\ drain' = [drain EXCEPT ![d] =
                 Resume([s EXCEPT !.upserts = @ \ {i}])]
    <3> DEFINE u == [s EXCEPT !.upserts = @ \ {i}]
    <3>1. /\ u \in DrainState /\ u.upserts = s.upserts \ {i}
          /\ u.embeds = s.embeds /\ u.deletes = {} /\ u.group = {}
          /\ u.marks = {}
      BY <2>1 DEF DrainState
    <3> HIDE DEF u
    <3>2. Apart(u)
      BY <1>3, <3>1 DEF Apart
    <3>3. Apart(Resume(u)) /\ Unmarked(Resume(u)) \subseteq Unmarked(s)
      BY <3>1, <3>2, ResumeOpen DEF Unmarked
    <3>4. i \in Unmarked(s)
      BY DEF Unmarked
    <3>5. PICK t : t = Resume(u)
      OBVIOUS
    <3>6. HeldOpen(t, K)' /\ FailedStays(K)
      BY <1>3, <2>4, <3>3, <3>4, <3>5, MarkOpen
    <3>7. drain' = [drain EXCEPT ![d] = t]
      BY <2>4, <3>5 DEF u
    <3> QED  BY <1>4, <3>6, <3>7
  <2>5. CASE outbox' = outbox /\ drain' = [drain EXCEPT ![d] =
                 Resume([s EXCEPT !.upserts = @ \ {i}, !.embeds = @ \cup {i}])]
    <3> DEFINE u == [s EXCEPT !.upserts = @ \ {i}, !.embeds = @ \cup {i}]
    <3>1. /\ u \in DrainState /\ u.upserts = s.upserts \ {i}
          /\ u.embeds = s.embeds \cup {i} /\ u.deletes = {} /\ u.group = {}
          /\ u.marks = {}
      <4>1. u = [[s EXCEPT !.upserts = @ \ {i}] EXCEPT !.embeds = @ \cup {i}]
        BY DEF DrainState
      <4> QED  BY <2>1, <2>3, <4>1 DEF DrainState
    <3> HIDE DEF u
    <3>2. Apart(u)
      BY <1>3, <3>1 DEF Apart
    <3>3. Apart(Resume(u)) /\ Unmarked(Resume(u)) \subseteq Unmarked(s)
      BY <3>1, <3>2, ResumeOpen DEF Unmarked
    <3> QED  BY <1>5, <2>5, <3>3 DEF u
  <2> QED  BY <2>2, <2>4, <2>5
<1>14. CASE EmbedAndUpsert(d) \/ EmbedFails(d)
  <2>1. PICK pc \in {"marking", "failing"} :
            drain' = [drain EXCEPT ![d] =
                [Enter(s, pc, s.embeds) EXCEPT !.embeds = {}]]
    BY <1>2, <1>14 DEF EmbedAndUpsert, EmbedFails
  <2> DEFINE t == [Enter(s, pc, s.embeds) EXCEPT !.embeds = {}]
  <2>2. UNCHANGED outbox /\ s.pc = "embed"
    BY <1>2, <1>14 DEF EmbedAndUpsert, EmbedFails, storeVars
  <2>3. s.upserts = {} /\ s.deletes = {}
    BY <1>3, <2>2 DEF Shape
  <2>4. /\ t.group = s.embeds /\ t.marks = s.embeds /\ t.deletes = s.deletes
        /\ t.upserts = s.upserts /\ t.embeds = {}
    BY DEF Enter, DrainState
  <2> HIDE DEF t
  <2>5. Apart(t) /\ Unmarked(t) \subseteq Unmarked(s)
    BY <2>3, <2>4 DEF Apart, Unmarked
  <2> QED  BY <1>5, <2>1, <2>2, <2>5 DEF t
<1>15. CASE mark_done(d) \/ mark_failed(d)
  <2>1. PICK i \in s.marks :
            /\ drain' = [drain EXCEPT ![d] = Ticked(s, i)]
            /\ \/ s.pc = "marking" /\ outbox' = MarkedDone(i)
               \/ s.pc = "failing" /\ outbox' = MarkedFailed(i)
    BY <1>2, <1>15 DEF mark_done, mark_failed
  <2>2. i \in Unmarked(s)
    BY <1>3 DEF Unmarked
  <2>3. /\ Apart(Ticked(s, i))
        /\ Unmarked(Ticked(s, i)) \subseteq Unmarked(s)
        /\ s.pc = "failing" => i \notin Unmarked(Ticked(s, i))
    BY <1>3, <2>1, TickedOpen
  <2>4. PICK t : t = Ticked(s, i)
    OBVIOUS
  <2>5. HeldOpen(t, K)' /\ FailedStays(K)
    <3>1. CASE outbox' = MarkedDone(i)
      BY <1>3, <2>2, <2>3, <2>4, <3>1, MarkOpen
    <3>2. CASE s.pc = "failing" /\ outbox' = MarkedFailed(i)
      BY <1>3, <2>2, <2>3, <2>4, <3>2, MarkOpen
    <3> QED  BY <2>1, <3>1, <3>2
  <2>6. drain' = [drain EXCEPT ![d] = t]
    BY <2>1, <2>4
  <2> QED  BY <1>4, <2>5, <2>6
<1>16. CASE MarkDoneFails(d)
  <2> DEFINE t == Enter(s, "failing", s.group)
  <2>1. drain' = [drain EXCEPT ![d] = t] /\ UNCHANGED outbox
    BY <1>2, <1>16 DEF MarkDoneFails, storeVars
  <2>2. s.pc = "marking"
    BY <1>2, <1>16 DEF MarkDoneFails
  <2>3. /\ t.pc = "failing" /\ t.group = s.group /\ t.marks = s.group
        /\ t.deletes = s.deletes /\ t.upserts = s.upserts
        /\ t.embeds = s.embeds
    BY DEF Enter, DrainState
  <2> HIDE DEF t
  <2>4. Apart(t) /\ Unmarked(t) \subseteq Unmarked(s)
    BY <1>3, <2>2, <2>3 DEF Apart, Unmarked
  <2> QED  BY <1>5, <2>1, <2>4
<1>17. CASE CrashDrain(d)
  BY <1>4, <1>17, IdleOpen DEF CrashDrain, storeVars, FailedStays
<1> QED
  BY <1>6, <1>7, <1>9, <1>10, <1>11, <1>12, <1>13, <1>14, <1>15, <1>16, <1>17
     DEF DrainStep

\* A drain marks rows that it holds and moves its own locals.
LEMMA OnlyHeldRowsMove ==
    ASSUME TypeOK, IInvIn({}), NEW d \in Drainers, DrainStep(d) \/ CrashDrain(d)
    PROVE  /\ \A j \in RowIds : j \notin Held(drain[d]) => outbox'[j] = outbox[j]
           /\ \A e \in Drainers \ {d} : drain'[e] = drain[e]
<1>1. /\ drain[d].marks \subseteq Held(drain[d])
      /\ drain[d].upserts \subseteq Held(drain[d])
      /\ Held(drain[d]) \subseteq RowIds
  BY DEF IInvIn, DrainInv, Shape, Asks, Held
<1>2. outbox \in Seq(Row) /\ drain \in [Drainers -> DrainState]
  BY DEF TypeOK, StoresTypeOK, DrainerTypeOK
<1>3. ASSUME NEW i \in Held(drain[d]),
             outbox' = MarkedDone(i) \/ outbox' = MarkedFailed(i)
      PROVE  \A j \in RowIds : j \notin Held(drain[d]) => outbox'[j] = outbox[j]
  BY <1>1, <1>2, <1>3, MarkedDoneFacts, MarkedFailedFacts
<1>4. CASE RowUnchanged(d) \/ mark_done(d) \/ mark_failed(d)
  BY <1>1, <1>2, <1>3, <1>4 DEF RowUnchanged, mark_done, mark_failed
<1> QED
  BY <1>2, <1>4
     DEF DrainStep, claim_pending, ReturnConnection, PurgeVectors, PurgeFails,
         get_products_by_ids, all_hashes, RowGone, RowGoneFails,
         RowNeedsEmbed, EmbedAndUpsert, EmbedFails, MarkDoneFails, CrashDrain,
         storeVars

LEMMA DrainOpen ==
    ASSUME TypeOK, IInvIn({}), NEW K, Overlapping \cap K = {},
           K \in SUBSET Products, NEW d \in Drainers,
           \A e \in Drainers : HeldOpen(drain[e], K),
           DrainStep(d) \/ CrashDrain(d), StoresAssumption
    PROVE  /\ \A e \in Drainers : HeldOpen(drain[e], K)'
           /\ FailedStays(K)
<1>1. HeldOpen(drain[d], K)' /\ FailedStays(K)
  BY OwnOpen
<1>2. RowIds' = RowIds
      /\ \A j \in RowIds : outbox'[j].product = outbox[j].product
  BY RowsKeepTheirJob
<1>3. \A e \in Drainers :
          Unmarked(drain[e]) \subseteq Held(drain[e])
            /\ Held(drain[e]) \subseteq RowIds
  BY DEF IInvIn, DrainInv, Shape, Asks, Unmarked, Held
<1>4. \A j \in RowIds : j \notin Held(drain[d]) => outbox'[j] = outbox[j]
  BY OnlyHeldRowsMove
<1>5. ASSUME NEW e \in Drainers \ {d}  PROVE  HeldOpen(drain[e], K)'
  <2>1. PICK s : s = drain[e]
    OBVIOUS
  <2>2. drain'[e] = s
    BY <2>1, OnlyHeldRowsMove
  <2>3. ASSUME NEW i \in Unmarked(s), outbox[i].product \in K
        PROVE  outbox'[i] = outbox[i]
    <3>1. Holds(e, outbox[i].product) /\ i \in RowIds
      BY <1>3, <2>1, <2>3 DEF Holds
    <3>2. ~Holds(d, outbox[i].product)
      BY <2>3, <3>1 DEF Overlapping
    <3> QED  BY <1>4, <3>1, <3>2 DEF Holds
  <2>4. HeldOpen(s, K)
    BY <2>1
  <2>5. \A i \in Unmarked(s) :
            /\ i \in RowIds'
            /\ outbox'[i].product \in K => outbox'[i].status # "failed"
    BY <1>2, <2>3, <2>4 DEF HeldOpen
  <2>6. Apart(s)' /\ Unmarked(s)' = Unmarked(s)
    BY <2>4 DEF HeldOpen, Apart, Unmarked
  <2>7. HeldOpen(s, K)'
    BY <2>5, <2>6 DEF HeldOpen
  <2> QED  BY <2>2, <2>7 DEF HeldOpen, Apart, Unmarked
<1> QED
  BY <1>1, <1>5

LEMMA NextOpen ==
    ASSUME TypeOK, IInvIn({}), NEW K \in SUBSET Products,
           Overlapping \cap K = {}, StoresAssumption, [Next]_vars,
           \A d \in Drainers : HeldOpen(drain[d], K)
    PROVE  /\ \A d \in Drainers : HeldOpen(drain[d], K)'
           /\ FailedStays(K)
<1>1. ASSUME \A j \in RowIds : j \in RowIds' /\ outbox'[j] = outbox[j],
             UNCHANGED drain
      PROVE  /\ \A d \in Drainers : HeldOpen(drain[d], K)'
             /\ FailedStays(K)
  BY <1>1 DEF HeldOpen, Apart, Unmarked, FailedStays
<1>2. CASE Admin /\ UNCHANGED <<drainVars, recon>>
  BY <1>1, <1>2, OthersOnlyAdd DEF drainVars
<1>3. ASSUME NEW d \in Drainers, DrainStep(d) \/ CrashDrain(d)
      PROVE  /\ \A e \in Drainers : HeldOpen(drain[e], K)'
             /\ FailedStays(K)
  BY <1>3, DrainOpen
<1>4. ASSUME NEW r \in Reconcilers, ReconcileStep(r), UNCHANGED drainVars
      PROVE  /\ \A d \in Drainers : HeldOpen(drain[d], K)'
             /\ FailedStays(K)
  BY <1>1, <1>4, OthersOnlyAdd DEF drainVars
<1>5. CASE UNCHANGED vars
  BY <1>1, <1>5 DEF vars, storeVars, drainVars, RowIds
<1> QED
  BY <1>2, <1>3, <1>4, <1>5 DEF Next

\* The drains have no failed row of a product that is not contested in hand.
OpenInv ==
    \A K \in SUBSET Products : K \cap contested = {} =>
        \A d \in Drainers : HeldOpen(drain[d], K)

LEMMA HistoryOpen ==
    ASSUME TypeOK, IInv, IInv', OpenInv, [HistoryNext]_hvars, StoresAssumption
    PROVE  OpenInv' /\ FailedStays(Products \ contested)
<1>1. IInvIn({}) /\ [Next]_vars
  BY DEF IInv, HistoryNext, hvars
<1>2. ASSUME NEW K \in SUBSET Products, K \cap contested = {}
      PROVE  /\ \A d \in Drainers : HeldOpen(drain[d], K)'
             /\ FailedStays(K)
  <2>1. /\ Overlapping \cap K = {}
        /\ \A d \in Drainers : HeldOpen(drain[d], K)
    BY <1>2 DEF IInv, OpenInv
  <2> QED  BY <1>1, <2>1, NextOpen
<1>3. \E K \in SUBSET Products : K = Products \ contested
  OBVIOUS
<1>4. FailedStays(Products \ contested)
  BY <1>2, <1>3 DEF FailedStays
<1>5. contested \ contested' \subseteq Afresh'
  <2>1. CASE UNCHANGED hvars
    BY <2>1 DEF hvars, historyVars
  <2>2. CASE Observe
    BY <2>2 DEF Observe
  <2> QED  BY <2>1, <2>2 DEF HistoryNext
<1>6. ASSUME NEW L \in SUBSET Products, L \cap contested' = {},
             NEW d \in Drainers
      PROVE  HeldOpen(drain[d], L)'
  <2>1. PICK K \in SUBSET Products : K = L \ contested
    OBVIOUS
  <2>2. HeldOpen(drain[d], K)'
    BY <1>2, <2>1
  <2>3. Unmarked(drain'[d]) \subseteq Held(drain'[d])
    <3>1. IInvIn({})'
      BY DEF IInv
    <3> QED  BY <3>1 DEF IInvIn, DrainInv, Shape, Unmarked, Held
  <2>4. ASSUME NEW i \in Unmarked(drain'[d]), outbox'[i].product \in L
        PROVE  outbox'[i].product \in K
    <3>1. Holds(d, outbox[i].product)'
      BY <2>3, <2>4 DEF Holds, Held
    <3> QED  BY <1>5, <1>6, <2>1, <2>4, <3>1 DEF Afresh
  <2> QED  BY <2>2, <2>4 DEF HeldOpen, Apart, Unmarked
<1> QED
  BY <1>4, <1>6 DEF OpenInv

\* A row that was given up on stays given up, unless its product is contested:
\* a drain has no failed row in hand, and nobody else marks rows.
THEOREM FailedRowsAreFinal == HistorySpec => FailedIsFinal
<1>1. HistoryInit => OpenInv
  <2>1. HistoryInit => \A d \in Drainers : drain[d] = IdleDrain
    BY DEF HistoryInit, Init, DrainerInit
  <2> QED  BY <2>1, IdleOpen DEF OpenInv
<1>2. TypeOK /\ IInv /\ IInv' /\ OpenInv /\ [HistoryNext]_hvars
          => OpenInv' /\ FailedStays(Products \ contested)
  BY HistoryOpen, StoresAssumption
<1>3. TypeOK /\ IInv /\ IInv' /\ OpenInv /\ [HistoryNext]_hvars
        => [\A i \in RowIds :
              outbox[i].status = "failed" /\ outbox[i].product \notin contested
                  => outbox'[i] = outbox[i]]_hvars
  <2> SUFFICES ASSUME TypeOK, IInv, IInv', OpenInv, [HistoryNext]_hvars,
                      NEW i \in RowIds, outbox[i].status = "failed",
                      outbox[i].product \notin contested
               PROVE  outbox'[i] = outbox[i]
    OBVIOUS
  <2>1. outbox[i].product \in Products
    BY RowProducts
  <2> QED  BY <1>2, <2>1 DEF FailedStays
<1> QED
  BY <1>1, <1>2, <1>3, HistoryIsCatalogSync, TypeCorrect, IInvHolds, PTL
     DEF HistorySpec, FailedIsFinal

-----------------------------------------------------------------------------
(* The refinement: every step is a step of EventualMirror or a stutter.    *)

OwedKeys == {p \in Products : p \in contested \/ Owed(p) \/ Condemned(p)}

\* A product stops being contested only when work is owed for it.
LEMMA KeysAfter ==
    ASSUME Observe
    PROVE  \A p \in Products :
              p \in OwedKeys' <=> \/ p \in contested \/ p \in Overlapping'
                               \/ Owed(p)' \/ Condemned(p)'
BY DEF Observe, OwedKeys, Afresh

\* Only a claim can take a row of a product that another drain is at.
LEMMA NoNewOverlap ==
    ASSUME TypeOK, IInvIn({}), StoresAssumption, NEW d \in Drainers,
           DrainStep(d) \/ CrashDrain(d), ~claim_pending(d)
    PROVE  Overlapping' \subseteq Overlapping
<1>1. PICK s \in DrainState : s = drain[d]
  BY DEF TypeOK, DrainerTypeOK
<1>2. \A e \in Drainers : Shape(drain[e]) /\ Asks(drain[e])
  BY DEF IInvIn, DrainInv
<1>3. \A j \in RowIds : outbox'[j].product = outbox[j].product
  BY RowsKeepTheirJob
<1>4. \A e \in Drainers \ {d} : drain'[e] = drain[e]
  BY OnlyHeldRowsMove
<1>5. Held(drain'[d]) \subseteq Held(s)
  <2>1. drain \in [Drainers -> DrainState]
    BY DEF TypeOK, DrainerTypeOK
  <2>2. ASSUME NEW t, drain' = [drain EXCEPT ![d] = t], Held(t) \subseteq Held(s)
        PROVE  Held(drain'[d]) \subseteq Held(s)
    BY <2>1, <2>2
  <2>3. CASE get_products_by_ids(d)
    <3>1. PICK f : drain' = [drain EXCEPT ![d] =
              [s EXCEPT !.pc = "hashes", !.looked = TRUE, !.seen = f]]
      BY <1>1, <2>3 DEF get_products_by_ids
    <3>2. Held([s EXCEPT !.pc = "hashes", !.looked = TRUE, !.seen = f]) = Held(s)
      BY DEF Held, DrainState
    <3> QED  BY <2>2, <3>1, <3>2
  <2>4. CASE all_hashes(d)
    <3>1. PICK f : drain' = [drain EXCEPT ![d] =
                                [s EXCEPT !.pc = "rows", !.hashes = f]]
      BY <1>1, <2>4 DEF all_hashes
    <3>2. Held([s EXCEPT !.pc = "rows", !.hashes = f]) = Held(s)
      BY DEF Held, DrainState
    <3> QED  BY <2>2, <3>1, <3>2
  <2>5. Held(IdleDrain) \subseteq Held(s)
    BY DEF Held, IdleDrain
  <2> QED
    BY <1>1, <1>2, <2>2, <2>3, <2>4, <2>5, LocalsMove DEF Forward
<1>6. ASSUME NEW e \in Drainers, NEW p \in Products, Holds(e, p)'
      PROVE  Holds(e, p)
  <2>1. PICK i \in Held(drain'[e]) : outbox'[i].product = p
    BY <1>6 DEF Holds, Held
  <2>2. i \in Held(drain[e]) /\ i \in RowIds
    BY <1>1, <1>2, <1>4, <1>5 DEF Asks
  <2> QED  BY <1>3, <2>1, <2>2 DEF Holds
<1> QED
  BY <1>6 DEF Overlapping

\* The hash of a table entry, as the refinement mapping sees it.
LEMMA HashOf ==
    ASSUME NEW p \in Products
    PROVE  /\ Hashes(catalog)[p] = content_hash(catalog[p])
           /\ Hashes(vectors)[p] = content_hash(vectors[p])
           /\ Hashes(catalog)'[p] = content_hash(catalog'[p])
           /\ Hashes(vectors)'[p] = content_hash(vectors'[p])
BY DEF Hashes

\* Admin transactions are writes of the source.
LEMMA WriteRefines ==
    ASSUME TypeOK, IInv, Observe, StoresAssumption, NEW p \in Products,
           NEW e \in Entry \cup {Absent}, NEW op \in Op,
           catalog' = [catalog EXCEPT ![p] = e], enqueue(p, op),
           UNCHANGED <<vectors, drain>>
    PROVE  Mirror!Write(p, content_hash(e))
<1>1. /\ outbox \in Seq(Row) /\ Len(outbox) \in Nat
      /\ catalog \in [Products -> Entry \cup {Absent}]
  BY LenProperties DEF TypeOK, StoresTypeOK
<1>2. /\ Len(outbox') = Len(outbox) + 1
      /\ \A j \in RowIds : outbox'[j] = outbox[j]
      /\ outbox'[Len(outbox) + 1] = NewRow(p, op)
  BY <1>1, EnqueueFacts
<1> DEFINE new == Len(outbox) + 1
<1>3. RowIds' = RowIds \cup {new} /\ new \notin RowIds
  BY <1>1, <1>2 DEF RowIds
<1>4. outbox'[new].product = p /\ outbox'[new].status = "pending"
  BY <1>2 DEF NewRow
<1>5. Owed(p)'
  <2>1. \A k \in RowIds' : k <= new
    BY <1>1, <1>2 DEF RowIds
  <2> QED  BY <1>3, <1>4, <2>1 DEF Owed, RowsOf
<1>6. ASSUME NEW q \in Products, q # p
      PROVE  /\ Owed(q)' <=> Owed(q)
             /\ Condemned(q)' <=> Condemned(q)
             /\ catalog'[q] = catalog[q]
  <2>1. catalog'[q] = catalog[q]
    BY <1>1, <1>6
  <2>2. RowsOf(q)' = RowsOf(q) /\ RowsOf(q) \subseteq RowIds
    BY <1>2, <1>3, <1>4, <1>6 DEF RowsOf
  <2>3. \A j \in RowsOf(q) : outbox'[j] = outbox[j]
    BY <1>2, <2>2
  <2>4. Owed(q)' <=> Owed(q)
    BY <2>2, <2>3 DEF Owed
  <2>5. Condemned(q)' <=> Condemned(q)
    BY <2>1, <2>2, <2>3 DEF Condemned
  <2> QED  BY <2>1, <2>4, <2>5
<1>7. Hashes(catalog)' = [Hashes(catalog) EXCEPT ![p] = content_hash(e)]
  <2>1. \A q \in Products :
            catalog'[q] = IF q = p THEN e ELSE catalog[q]
    BY <1>1
  <2>2. \A q \in Products :
            content_hash(catalog'[q])
                = IF q = p THEN content_hash(e) ELSE content_hash(catalog[q])
    BY <2>1
  <2>3. Hashes(catalog)' = [q \in Products |-> content_hash(catalog'[q])]
    BY DEF Hashes, content_hash
  <2>4. Hashes(catalog) = [q \in Products |-> content_hash(catalog[q])]
    BY DEF Hashes
  <2> QED  BY <2>2, <2>3, <2>4
<1>8. OwedKeys' = OwedKeys \cup {p}
  <2>1. \A q \in Products : q \in Overlapping' => q \in Overlapping
    <3>1. \A d \in Drainers : Held(drain[d]) \subseteq RowIds
      <4>1. IInvIn({})
        BY DEF IInv
      <4> QED  BY <4>1 DEF IInvIn, DrainInv, Asks
    <3>2. \A d \in Drainers, q \in Products : Holds(d, q)' => Holds(d, q)
      BY <1>2, <3>1 DEF Holds, Held
    <3> QED  BY <3>2 DEF Overlapping
  <2>2. \A q \in Products : q \in OwedKeys' <=> q \in OwedKeys \/ q = p
    BY <1>5, <1>6, <2>1, KeysAfter DEF OwedKeys, IInv
  <2> QED  BY <2>2 DEF OwedKeys
<1>9. Hashes(vectors)' = Hashes(vectors)
  BY DEF Hashes
<1> QED
  BY <1>7, <1>8, <1>9 DEF Mirror!Write, OwedKeys

\* A step that leaves the catalogue and the outbox alone touches only the
\* vectors of products that are owed: the others agree before and after.
LEMMA CarryRefines ==
    ASSUME TypeOK', DoneMeansMirrored, DoneMeansMirrored',
           UNCHANGED <<catalog, outbox>>, Observe,
           Overlapping' \subseteq contested
    PROVE  Mirror!Carry
<1>1. Hashes(vectors)' \in [Products -> Contents \cup {Absent}]
  <2>1. \A p \in Products : content_hash(vectors'[p]) \in Contents \cup {Absent}
    BY DEF TypeOK, StoresTypeOK, content_hash, Entry
  <2> QED  BY <2>1 DEF Hashes
<1>2. Hashes(catalog)' = Hashes(catalog)
  BY DEF Hashes
<1>3. \A p \in Products : /\ Owed(p)' <=> Owed(p)
                          /\ Condemned(p)' <=> Condemned(p)
  BY DEF Owed, Condemned, RowsOf, RowIds
<1>4. OwedKeys' = OwedKeys
  <2>1. \A p \in Products : p \in OwedKeys' <=> p \in OwedKeys
    BY <1>3, KeysAfter DEF OwedKeys
  <2> QED  BY <2>1 DEF OwedKeys
<1>5. ASSUME NEW p \in Products \ OwedKeys
      PROVE  Hashes(vectors)'[p] = Hashes(vectors)[p]
  <2>1. Mirrored(p) /\ Mirrored(p)'
    BY <1>4 DEF OwedKeys, DoneMeansMirrored
  <2> QED  BY <2>1, HashOf DEF Mirrored
<1> QED
  BY <1>1, <1>2, <1>4, <1>5 DEF Mirror!Carry, OwedKeys

\* A step that only makes more products owed.
LEMMA OweRefines ==
    ASSUME UNCHANGED <<catalog, vectors>>, OwedKeys \subseteq OwedKeys'
    PROVE  Mirror!Next
<1>1. UNCHANGED <<Hashes(catalog), Hashes(vectors)>>
  BY DEF Hashes
<1>2. PICK ks \in SUBSET Products : ks = OwedKeys'
  BY DEF OwedKeys
<1>3. Mirror!Owe(ks)
  BY <1>1, <1>2 DEF Mirror!Owe, OwedKeys
<1> QED
  BY <1>3 DEF Mirror!Next

LEMMA QuietRefines ==
    ASSUME UNCHANGED <<catalog, vectors, outbox>>,
           Observe \/ UNCHANGED contested
    PROVE  Mirror!Next
<1>1. \A p \in Products : /\ Owed(p)' <=> Owed(p)
                          /\ Condemned(p)' <=> Condemned(p)
  BY DEF Owed, Condemned, RowsOf, RowIds
<1>2. OwedKeys \subseteq OwedKeys'
  BY <1>1, KeysAfter DEF OwedKeys
<1> QED
  BY <1>2, OweRefines

\* Marking a row changes what is owed for its product at most, and settles
\* it only when both stores agree.
LEMMA MarkRefines ==
    ASSUME TypeOK, NEW i \in RowIds, DoneMeansMirrored',
           outbox' = MarkedDone(i) \/ outbox' = MarkedFailed(i),
           UNCHANGED <<catalog, vectors>>, Observe,
           Overlapping' \subseteq contested
    PROVE  Mirror!Next
<1>0. PICK p \in Products : p = outbox[i].product
  BY RowProducts
<1>1. outbox \in Seq(Row)
  BY DEF TypeOK, StoresTypeOK
<1>2. SameRowsBut({i}) /\ \A j \in RowIds : j # i => outbox'[j] = outbox[j]
  BY <1>1, MarkedDoneFacts, MarkedFailedFacts DEF SameRowsBut
<1>3. \A q \in Products : RowsOf(q)' = RowsOf(q) /\ RowsOf(q) \subseteq RowIds
  BY <1>2, SameRowsFacts DEF RowsOf
<1>4. ASSUME NEW q \in Products, q # p
      PROVE  q \in OwedKeys' <=> q \in OwedKeys
  <2>1. \A j \in RowsOf(q) : outbox'[j] = outbox[j]
    BY <1>0, <1>2, <1>3, <1>4 DEF RowsOf
  <2>2. Owed(q)' <=> Owed(q)
    BY <1>3, <2>1 DEF Owed
  <2>3. Condemned(q)' <=> Condemned(q)
    BY <1>3, <2>1 DEF Condemned
  <2> QED  BY <2>2, <2>3, KeysAfter DEF OwedKeys
<1>5. CASE p \in OwedKeys => p \in OwedKeys'
  <2>1. OwedKeys \subseteq OwedKeys'
    BY <1>4, <1>5 DEF OwedKeys
  <2> QED  BY <2>1, OweRefines
<1>6. CASE p \in OwedKeys /\ p \notin OwedKeys'
  <2>1. OwedKeys' = OwedKeys \ {p}
    BY <1>4, <1>6 DEF OwedKeys
  <2>2. Mirrored(p)'
    BY <1>1, <1>6 DEF OwedKeys, DoneMeansMirrored
  <2>3. Hashes(vectors)[p] = Hashes(catalog)[p]
    BY <1>1, <2>2, HashOf DEF Mirrored
  <2>4. UNCHANGED <<Hashes(catalog), Hashes(vectors)>>
    BY DEF Hashes
  <2>5. Mirror!Settle(p)
    BY <1>6, <2>1, <2>3, <2>4 DEF Mirror!Settle, OwedKeys
  <2> QED  BY <1>1, <2>5 DEF Mirror!Next
<1> QED  BY <1>5, <1>6

\* Rows inserted by reconcile only make more products owed.
LEMMA EnqueueManyRefines ==
    ASSUME TypeOK, StoresAssumption, NEW ps \in SUBSET Products, NEW op \in Op,
           enqueue_many(ps, op), UNCHANGED <<catalog, vectors>>, Observe
    PROVE  Mirror!Next
<1>1. /\ outbox \in Seq(Row) /\ Len(outbox) \in Nat
      /\ Len(outbox') \in Nat
      /\ Len(outbox) <= Len(outbox')
      /\ \A j \in RowIds : outbox'[j] = outbox[j]
      /\ \A j \in RowIds' \ RowIds : \E p \in ps : outbox'[j] = NewRow(p, op)
      /\ \A j, k \in RowIds' \ RowIds :
            outbox'[j].product = outbox'[k].product => j = k
  BY EnqueueManyFacts, LenProperties DEF TypeOK, StoresTypeOK
<1>2. RowIds \subseteq RowIds'
  BY <1>1 DEF RowIds
<1>3. ASSUME NEW p \in Products, Owed(p)  PROVE  Owed(p)'
  <2>1. PICK i \in RowsOf(p) : /\ outbox[i].status # "done"
                               /\ \A k \in RowsOf(p) : k <= i
    BY <1>3 DEF Owed
  <2>2. CASE \E j \in RowIds' \ RowIds : outbox'[j].product = p
    <3>1. PICK j \in RowIds' \ RowIds : outbox'[j].product = p
      BY <2>2
    <3>2. PICK q \in ps : outbox'[j] = NewRow(q, op)
      BY <1>1
    <3>3. outbox'[j].status = "pending"
      BY <3>2 DEF NewRow
    <3>4. ASSUME NEW k \in RowsOf(p)'  PROVE  k <= j
      <4>1. CASE k \in RowIds
        BY <1>1, <3>1, <4>1 DEF RowIds
      <4>2. CASE k \notin RowIds
        BY <1>1, <3>1, <4>2 DEF RowsOf, RowIds
      <4> QED  BY <4>1, <4>2
    <3> QED  BY <3>1, <3>3, <3>4 DEF Owed, RowsOf
  <2>3. CASE ~\E j \in RowIds' \ RowIds : outbox'[j].product = p
    <3>1. RowsOf(p)' = RowsOf(p) /\ RowsOf(p) \subseteq RowIds
      BY <1>1, <1>2, <2>3 DEF RowsOf
    <3> QED  BY <1>1, <2>1, <3>1 DEF Owed
  <2> QED  BY <2>2, <2>3
<1>4. ASSUME NEW p \in Products, Condemned(p)  PROVE  Condemned(p)'
  BY <1>1, <1>2, <1>4 DEF Condemned, RowsOf
<1>5. OwedKeys \subseteq OwedKeys'
  BY <1>3, <1>4, KeysAfter DEF OwedKeys
<1> QED
  BY <1>5, OweRefines

-----------------------------------------------------------------------------
LEMMA DrainRefines ==
    ASSUME TypeOK, TypeOK', IInv, IInv', Observe, StoresAssumption,
           NEW d \in Drainers, DrainStep(d) \/ CrashDrain(d)
    PROVE  Mirror!Next
<1>1. DoneMeansMirrored /\ DoneMeansMirrored'
  BY InvMirrors, PTL
<1>2. IInvIn({})
  BY DEF IInv
<1>3. CASE UNCHANGED <<catalog, vectors, outbox>>
  BY <1>3, QuietRefines
<1>4. ASSUME ~claim_pending(d)  PROVE  Overlapping' \subseteq contested
  BY <1>2, <1>4, NoNewOverlap DEF IInv
<1>5. CASE UNCHANGED <<catalog, outbox>> /\ ~claim_pending(d)
  BY <1>1, <1>4, <1>5, CarryRefines DEF Mirror!Next
<1>6. ASSUME NEW i \in Held(drain[d]), ~claim_pending(d),
             outbox' = MarkedDone(i) \/ outbox' = MarkedFailed(i),
             UNCHANGED <<catalog, vectors>>
      PROVE  Mirror!Next
  <2>1. i \in RowIds
    BY <1>2 DEF IInvIn, DrainInv, Asks
  <2> QED  BY <1>1, <1>4, <1>6, <2>1, MarkRefines
<1>7. drain[d].marks \subseteq Held(drain[d])
      /\ drain[d].upserts \subseteq Held(drain[d])
  BY <1>2 DEF IInvIn, DrainInv, Shape, Held
<1>8. CASE claim_pending(d)
  BY <1>3, <1>8 DEF claim_pending, storeVars
<1>9. CASE ~claim_pending(d) /\ (RowUnchanged(d) \/ mark_done(d) \/ mark_failed(d))
  BY <1>6, <1>7, <1>9 DEF RowUnchanged, mark_done, mark_failed
<1> QED
  BY <1>5, <1>8, <1>9
     DEF DrainStep, ReturnConnection, PurgeVectors, PurgeFails,
         get_products_by_ids, all_hashes, RowGone, RowGoneFails,
         RowNeedsEmbed, EmbedAndUpsert, EmbedFails, MarkDoneFails, CrashDrain,
         storeVars

LEMMA StepRefines ==
    ASSUME TypeOK, TypeOK', IInv, IInv', [HistoryNext]_hvars, StoresAssumption
    PROVE  [Mirror!Next]_Mirror!mirrorVars
<1>1. CASE UNCHANGED hvars
  BY <1>1, QuietRefines DEF hvars, vars, storeVars, historyVars
<1>2. "upsert" \in Op /\ "delete" \in Op
  BY DEF Op
<1>3. ASSUME NEW p \in Products, NEW e \in Entry, UNCHANGED drain, Observe,
             CreateProduct(p, e) \/ UpdateProduct(p, e)
      PROVE  Mirror!Next
  <2>1. content_hash(e) \in Contents \cup {Absent}
    BY DEF content_hash, Entry
  <2>2. Mirror!Write(p, content_hash(e))
    BY <1>2, <1>3, WriteRefines DEF CreateProduct, UpdateProduct
  <2> QED  BY <2>1, <2>2 DEF Mirror!Next
<1>4. ASSUME NEW p \in Products, RemoveProduct(p), UNCHANGED drain, Observe
      PROVE  Mirror!Next
  <2>1. Mirror!Write(p, content_hash(Absent))
    BY <1>2, <1>4, WriteRefines DEF RemoveProduct
  <2>2. content_hash(Absent) \in Contents \cup {Absent}
    BY DEF content_hash
  <2> QED  BY <2>1, <2>2 DEF Mirror!Next
<1>5. CASE Admin /\ UNCHANGED drainVars /\ Observe
  BY <1>3, <1>4, <1>5 DEF Admin, drainVars
<1>6. ASSUME NEW d \in Drainers, DrainStep(d) \/ CrashDrain(d), Observe
      PROVE  Mirror!Next
  BY <1>6, DrainRefines
<1>7. ASSUME NEW r \in Reconcilers, ReconcileStep(r), Observe
      PROVE  Mirror!Next
  <2>1. CASE UNCHANGED storeVars
    BY <1>7, <2>1, QuietRefines DEF storeVars
  <2>2. recon[r].upserts \in SUBSET Products
        /\ recon[r].orphans \in SUBSET Products
    BY DEF TypeOK, ReconcilerTypeOK, ReconState
  <2>3. CASE EnqueueUpserts(r)
    BY <1>2, <1>7, <2>2, <2>3, EnqueueManyRefines DEF EnqueueUpserts
  <2>4. CASE EnqueueDeletes(r)
    BY <1>2, <1>7, <2>2, <2>4, EnqueueManyRefines DEF EnqueueDeletes
  <2> QED
    BY <1>7, <2>1, <2>3, <2>4
       DEF ReconcileStep, all_product_hashes, DiffHashes, ReconcileDies
<1> QED
  BY <1>1, <1>5, <1>6, <1>7 DEF HistoryNext, Next

LEMMA InitRefines ==
    ASSUME HistoryInit
    PROVE  Mirror!Init
<1>1. /\ RowIds = {} /\ contested = {}
      /\ \A p \in Products : catalog[p] = Absent /\ vectors[p] = Absent
  BY DEF HistoryInit, Init, StoresInit, RowIds
<1>2. \A p \in Products : ~Owed(p) /\ ~Condemned(p)
  BY <1>1 DEF Owed, Condemned, RowsOf
<1> QED
  BY <1>1, <1>2 DEF Mirror!Init, Hashes, content_hash

\* The outbox implements the mirror with any number of drains: the vector of a
\* product changes only while work is owed for it or it is contested, and this
\* ends only at a moment when both stores agree.
THEOREM OutboxMirrorsCatalog == HistorySpec => ImplementsMirror
<1>1. HistoryInit => Mirror!Init
  BY InitRefines
<1>2. TypeOK /\ TypeOK' /\ IInv /\ IInv' /\ [HistoryNext]_hvars
          => [Mirror!Next]_Mirror!mirrorVars
  BY StepRefines, StoresAssumption
<1> QED
  BY <1>1, <1>2, HistoryIsCatalogSync, TypeCorrect, IInvHolds, PTL
     DEF HistorySpec, ImplementsMirror, Mirror!Spec
=============================================================================
