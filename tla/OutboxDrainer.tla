--------------------------- MODULE OutboxDrainer ---------------------------
(***************************************************************************)
(* drain_outbox: any number of concurrent drains (a FastAPI background     *)
(* task after each admin write, the five-minute cron sweep, the admin's    *)
(* reconcile button).  Every database call of the function is a step of    *)
(* its own, because each borrows and returns its own pooled connection.    *)
(*                                                                         *)
(*   idle -> claiming -> purge -> marking | failing                        *)
(*                    -> products -> hashes -> rows (one row at a time)    *)
(*                    -> embed -> marking | failing -> idle                *)
(*                                                                         *)
(* The three try blocks of the function share one shape: an effect on the  *)
(* vector store, then a mark_done per row; any exception sends the whole   *)
(* group of the block to mark_failed, rows already marked done included.   *)
(***************************************************************************)
EXTENDS CatalogStores

CONSTANTS
    Drainers,      \* drains that may run at the same time
    BatchLimit,    \* claim_pending's limit (50, or 200 from the admin page)
    MaxCrashes     \* BOUND: drains that die half way

ASSUME DrainerAssumption ==
    /\ BatchLimit \in Nat \ {0}
    /\ MaxCrashes \in Nat

VARIABLES
    drain,     \* [Drainers -> DrainState], the locals of each drain
    crashes

drainVars == <<drain, crashes>>

DrainPC == {"idle", "claiming", "purge", "products", "hashes", "rows",
            "embed", "marking", "failing"}

DrainState ==
    [pc      : DrainPC,
     deletes : SUBSET (1..MaxRows),   \* delete_rows not purged yet
     upserts : SUBSET (1..MaxRows),   \* upsert_rows not decided yet
     embeds  : SUBSET (1..MaxRows),   \* needs_embed_outbox_ids
     group   : SUBSET (1..MaxRows),   \* rows of the current try block
     marks   : SUBSET (1..MaxRows),   \* those of them still to be marked
     looked  : BOOLEAN,               \* products has been read
     seen    : [Products -> Entry \cup {Absent}],      \* products
     hashes  : [Products -> Contents \cup {Absent}]]   \* existing_hashes

Blank == [p \in Products |-> Absent]

IdleDrain ==
    [pc |-> "idle", deletes |-> {}, upserts |-> {}, embeds |-> {},
     group |-> {}, marks |-> {}, looked |-> FALSE,
     seen |-> Blank, hashes |-> Blank]

DrainerTypeOK ==
    /\ drain \in [Drainers -> DrainState]
    /\ crashes \in 0..MaxCrashes

DrainerInit ==
    /\ drain = [d \in Drainers |-> IdleDrain]
    /\ crashes = 0

-----------------------------------------------------------------------------
ProductsOf(ids) == {outbox[i].product : i \in ids}

\* The loops take their rows in the order of the claim.
First(i, ids) == i \in ids /\ \A j \in ids : i <= j

\* Row locks of SELECT ... FOR UPDATE: held until the borrowed connection is
\* returned, that is, to the end of claim_pending and no longer.
Locked(d) ==
    IF drain[d].pc = "claiming"
    THEN drain[d].deletes \cup drain[d].upserts ELSE {}

LockedByOthers(d) == UNION {Locked(e) : e \in Drainers \ {d}}

\* Where the drain goes when a group or a row is finished.
Resume(s) ==
    IF s.upserts # {}
    THEN [s EXCEPT !.pc = IF s.looked THEN "rows" ELSE "products"]
    ELSE IF s.embeds # {} THEN [s EXCEPT !.pc = "embed"]
    ELSE IdleDrain

\* One row of a marking loop is finished.
Ticked(s, i) ==
    IF s.marks = {i}
    THEN Resume([s EXCEPT !.marks = {}, !.group = {}])
    ELSE [s EXCEPT !.marks = @ \ {i}]

\* A try block over `ids` is entered at its marking or its failing loop.
Enter(s, pc, ids) == [s EXCEPT !.pc = pc, !.group = ids, !.marks = ids]

-----------------------------------------------------------------------------
\* The oldest BatchLimit pending rows nobody has locked.
claim_pending(d) ==
    /\ drain[d].pc = "idle"
    /\ \E ids \in SUBSET (PendingIds \ LockedByOthers(d)) :
          LET rest == (PendingIds \ LockedByOthers(d)) \ ids IN
          /\ ids # {}
          /\ Cardinality(ids) <= BatchLimit
          /\ rest = {} \/ Cardinality(ids) = BatchLimit
          /\ \A i \in ids, j \in rest : i < j
          /\ drain' = [drain EXCEPT ![d] =
                [IdleDrain EXCEPT
                    !.pc = "claiming",
                    !.deletes = {i \in ids : outbox[i].op = "delete"},
                    !.upserts = {i \in ids : outbox[i].op = "upsert"}]]
    /\ UNCHANGED <<storeVars, crashes>>

\* The connection goes back to the pool: commit, locks released, and the rows
\* are exactly as pending as before.
ReturnConnection(d) ==
    /\ drain[d].pc = "claiming"
    /\ drain' = [drain EXCEPT ![d] =
          [drain[d] EXCEPT
              !.pc = IF drain[d].deletes # {} THEN "purge" ELSE "products"]]
    /\ UNCHANGED <<storeVars, crashes>>

\* store.delete(ids) for every delete row of the batch, before any upsert.
PurgeVectors(d) ==
    /\ drain[d].pc = "purge"
    /\ vectors' = [p \in Products |->
          IF p \in ProductsOf(drain[d].deletes) THEN Absent ELSE vectors[p]]
    /\ drain' = [drain EXCEPT ![d] =
          [Enter(drain[d], "marking", drain[d].deletes)
              EXCEPT !.deletes = {}]]
    /\ UNCHANGED <<catalog, minted, outbox, crashes>>

PurgeFails(d) ==
    /\ drain[d].pc = "purge"
    /\ drain' = [drain EXCEPT ![d] =
          [Enter(drain[d], "failing", drain[d].deletes)
              EXCEPT !.deletes = {}]]
    /\ UNCHANGED <<storeVars, crashes>>

get_products_by_ids(d) ==
    /\ drain[d].pc = "products"
    /\ drain' = [drain EXCEPT ![d] =
          [drain[d] EXCEPT
              !.pc = "hashes",
              !.looked = TRUE,
              !.seen = [p \in Products |->
                  IF p \in ProductsOf(drain[d].upserts)
                  THEN catalog[p] ELSE Absent]]]
    /\ UNCHANGED <<storeVars, crashes>>

all_hashes(d) ==
    /\ drain[d].pc = "hashes"
    /\ drain' = [drain EXCEPT ![d] =
          [drain[d] EXCEPT !.pc = "rows", !.hashes = Hashes(vectors)]]
    /\ UNCHANGED <<storeVars, crashes>>

\* The product was deleted after the row was enqueued: converge to a delete.
RowGone(d) ==
    /\ drain[d].pc = "rows"
    /\ \E i \in drain[d].upserts :
          /\ First(i, drain[d].upserts)
          /\ drain[d].seen[outbox[i].product] = Absent
          /\ vectors' = [vectors EXCEPT ![outbox[i].product] = Absent]
          /\ drain' = [drain EXCEPT ![d] =
                [Enter(drain[d], "marking", {i}) EXCEPT !.upserts = @ \ {i}]]
    /\ UNCHANGED <<catalog, minted, outbox, crashes>>

RowGoneFails(d) ==
    /\ drain[d].pc = "rows"
    /\ \E i \in drain[d].upserts :
          /\ First(i, drain[d].upserts)
          /\ drain[d].seen[outbox[i].product] = Absent
          /\ drain' = [drain EXCEPT ![d] =
                [Enter(drain[d], "failing", {i}) EXCEPT !.upserts = @ \ {i}]]
    /\ UNCHANGED <<storeVars, crashes>>

\* Unchanged content: marked done without an embedding call.
RowUnchanged(d) ==
    /\ drain[d].pc = "rows"
    /\ \E i \in drain[d].upserts :
          LET p == outbox[i].product IN
          /\ First(i, drain[d].upserts)
          /\ i \notin LockedByOthers(d)
          /\ drain[d].seen[p] # Absent
          /\ drain[d].hashes[p] = content_hash(drain[d].seen[p])
          /\ outbox' = MarkedDone(i)
          /\ drain' = [drain EXCEPT ![d] =
                Resume([drain[d] EXCEPT !.upserts = @ \ {i}])]
    /\ UNCHANGED <<catalog, minted, vectors, crashes>>

\* SLIP of RowNeedsEmbed: the row is marked when it is queued for embedding.
RowMarkedTooSoon(d) ==
    /\ drain[d].pc = "rows"
    /\ \E i \in drain[d].upserts :
          LET p == outbox[i].product IN
          /\ First(i, drain[d].upserts)
          /\ drain[d].seen[p] # Absent
          /\ drain[d].hashes[p] # content_hash(drain[d].seen[p])
          /\ outbox' = MarkedDone(i)
          /\ drain' = [drain EXCEPT ![d] =
                Resume([drain[d] EXCEPT !.upserts = @ \ {i},
                                        !.embeds = @ \cup {i}])]
    /\ UNCHANGED <<catalog, minted, vectors, crashes>>

RowNeedsEmbed(d) ==
    /\ drain[d].pc = "rows"
    /\ \E i \in drain[d].upserts :
          LET p == outbox[i].product IN
          /\ First(i, drain[d].upserts)
          /\ drain[d].seen[p] # Absent
          /\ drain[d].hashes[p] # content_hash(drain[d].seen[p])
          /\ drain' = [drain EXCEPT ![d] =
                Resume([drain[d] EXCEPT !.upserts = @ \ {i},
                                        !.embeds = @ \cup {i}])]
    /\ UNCHANGED <<storeVars, crashes>>

\* embed_products (a slow external call that writes nothing) and the
\* store.upsert of what it returned, from the products read earlier.
EmbedAndUpsert(d) ==
    /\ drain[d].pc = "embed"
    /\ vectors' = [p \in Products |->
          IF p \in ProductsOf(drain[d].embeds)
          THEN drain[d].seen[p] ELSE vectors[p]]
    /\ drain' = [drain EXCEPT ![d] =
          [Enter(drain[d], "marking", drain[d].embeds) EXCEPT !.embeds = {}]]
    /\ UNCHANGED <<catalog, minted, outbox, crashes>>

\* SLIP of EmbedFails: the exception is swallowed.
EmbedFailsSilently(d) ==
    /\ drain[d].pc = "embed"
    /\ drain' = [drain EXCEPT ![d] =
          [Enter(drain[d], "marking", drain[d].embeds) EXCEPT !.embeds = {}]]
    /\ UNCHANGED <<storeVars, crashes>>

EmbedFails(d) ==
    /\ drain[d].pc = "embed"
    /\ drain' = [drain EXCEPT ![d] =
          [Enter(drain[d], "failing", drain[d].embeds) EXCEPT !.embeds = {}]]
    /\ UNCHANGED <<storeVars, crashes>>

mark_done(d) ==
    /\ drain[d].pc = "marking"
    /\ \E i \in drain[d].marks :
          /\ First(i, drain[d].marks)
          /\ i \notin LockedByOthers(d)
          /\ outbox' = MarkedDone(i)
          /\ drain' = [drain EXCEPT ![d] = Ticked(drain[d], i)]
    /\ UNCHANGED <<catalog, minted, vectors, crashes>>

\* mark_done raises: the except clause fails the whole group, from its start.
MarkDoneFails(d) ==
    /\ drain[d].pc = "marking"
    /\ drain' = [drain EXCEPT ![d] = Enter(drain[d], "failing", drain[d].group)]
    /\ UNCHANGED <<storeVars, crashes>>

mark_failed(d) ==
    /\ drain[d].pc = "failing"
    /\ \E i \in drain[d].marks :
          /\ First(i, drain[d].marks)
          /\ i \notin LockedByOthers(d)
          /\ outbox' = MarkedFailed(i)
          /\ drain' = [drain EXCEPT ![d] = Ticked(drain[d], i)]
    /\ UNCHANGED <<catalog, minted, vectors, crashes>>

\* The process stops, or an exception leaves drain_outbox (a failing
\* mark_failed, the two reads, the mark_done of an unchanged row).
CrashDrain(d) ==
    /\ drain[d].pc # "idle"
    /\ crashes < MaxCrashes
    /\ crashes' = crashes + 1
    /\ drain' = [drain EXCEPT ![d] = IdleDrain]
    /\ UNCHANGED storeVars

\* What a running drain does next; CrashDrain is what may happen to it.
DrainStep(d) ==
    \/ claim_pending(d) \/ ReturnConnection(d)
    \/ PurgeVectors(d) \/ PurgeFails(d)
    \/ get_products_by_ids(d) \/ all_hashes(d)
    \/ RowGone(d) \/ RowGoneFails(d) \/ RowUnchanged(d) \/ RowNeedsEmbed(d)
    \/ EmbedAndUpsert(d) \/ EmbedFails(d)
    \/ mark_done(d) \/ MarkDoneFails(d) \/ mark_failed(d)
=============================================================================
