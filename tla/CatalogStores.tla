--------------------------- MODULE CatalogStores ---------------------------
(***************************************************************************)
(* The three tables that keep the product catalogue and the vector store   *)
(* together, and the transactions that the admin pages run on them:        *)
(*                                                                         *)
(*   catalog  : catalog.products, the source of truth;                     *)
(*   outbox   : catalog.vector_outbox, work owed to the vector store;      *)
(*   vectors  : vectors.product_embeddings, the copy the agent searches.   *)
(*                                                                         *)
(* The two schemas are never written in one transaction, so everything     *)
(* that is interesting happens between an admin transaction and the moment *)
(* a drainer (module OutboxDrainer) has carried it over.                   *)
(*                                                                         *)
(* A product's columns are split by what content_hash covers: `content`    *)
(* stands for title, description, category, level, tags and outcomes,      *)
(* `listing` for price_cents and is_active.                                *)
(***************************************************************************)
EXTENDS Integers, Sequences, FiniteSets, Functions

CONSTANTS
    Products,      \* product ids; each uuid is generated at most once
    Contents,      \* distinguishable values of the hashed columns
    Listings,      \* distinguishable values of price_cents and is_active
    Absent,        \* "no such row"
    MaxAttempts,   \* max_attempts of mark_failed (5 in the code)
    MaxRows        \* BOUND: outbox rows ever inserted

Entry == [content : Contents, listing : Listings]

ASSUME StoresAssumption ==
    /\ MaxAttempts \in Nat
    /\ MaxRows \in Nat
    /\ IsFiniteSet(Products)
    /\ Absent \notin Entry
    /\ Absent \notin Contents

VARIABLES
    catalog,   \* [Products -> Entry \cup {Absent}]
    minted,    \* ids already given to a product, present or deleted
    outbox,    \* the rows in commit order; a row's id is its position
    vectors    \* [Products -> Entry \cup {Absent}]

storeVars == <<catalog, minted, outbox, vectors>>

Op == {"upsert", "delete"}
Status == {"pending", "done", "failed"}
Row == [product : Products, op : Op, status : Status, attempts : Nat]

StoresTypeOK ==
    /\ catalog \in [Products -> Entry \cup {Absent}]
    /\ minted \in SUBSET Products
    /\ outbox \in Seq(Row)
    /\ Len(outbox) <= MaxRows
    /\ vectors \in [Products -> Entry \cup {Absent}]

StoresInit ==
    /\ catalog = [p \in Products |-> Absent]
    /\ minted = {}
    /\ outbox = <<>>
    /\ vectors = [p \in Products |-> Absent]

-----------------------------------------------------------------------------
\* content_hash of a stored row; an absent row has no hash (dict.get -> None).
content_hash(e) == IF e = Absent THEN Absent ELSE e.content

Hashes(table) == [p \in Products |-> content_hash(table[p])]

NewRow(p, op) ==
    [product |-> p, op |-> op, status |-> "pending", attempts |-> 0]

enqueue(p, op) ==
    /\ Len(outbox) < MaxRows
    /\ outbox' = Append(outbox, NewRow(p, op))

\* list(<set>) fixes no order, so the rows may be inserted in any.
enqueue_many(ps, op) ==
    /\ Len(outbox) + Cardinality(ps) <= MaxRows
    /\ \E order \in Bijection(1..Cardinality(ps), ps) :
          outbox' = outbox \o
              [k \in 1..Cardinality(ps) |-> NewRow(order[k], op)]

\* Ids of the rows inserted so far.
RowIds == 1..Len(outbox)

\* SLIP of PendingIds: WHERE status <> 'done'.
PendingIdsNotDone == {i \in RowIds : outbox[i].status # "done"}

\* SLIP of PendingIds: rows that failed once are never picked up again.
PendingIdsUntried ==
    {i \in RowIds : outbox[i].status = "pending" /\ outbox[i].attempts = 0}

PendingIds == {i \in RowIds : outbox[i].status = "pending"}

\* The outbox after mark_done(i) and mark_failed(i): neither looks at the
\* status the row has by then.
MarkedDone(i) == [outbox EXCEPT ![i].status = "done"]

MarkedFailed(i) ==
    [outbox EXCEPT
        ![i].attempts = @ + 1,
        ![i].status = IF outbox[i].attempts + 1 > MaxAttempts
                      THEN "failed" ELSE "pending"]

-----------------------------------------------------------------------------
(* Admin requests: one transaction each, product row and outbox row        *)
(* together.                                                               *)

CreateProduct(p, e) ==
    /\ p \notin minted
    /\ minted' = minted \cup {p}
    /\ catalog' = [catalog EXCEPT ![p] = e]
    /\ enqueue(p, "upsert")
    /\ UNCHANGED vectors

\* SLIP of UpdateProduct: the edit is saved without its outbox row.
UpdateProductUnqueued(p, e) ==
    /\ catalog[p] # Absent
    /\ catalog' = [catalog EXCEPT ![p] = e]
    /\ UNCHANGED <<minted, outbox, vectors>>

\* On a product that is gone the update returns no row, product["id"] raises
\* and the transaction rolls back.
UpdateProduct(p, e) ==
    /\ catalog[p] # Absent
    /\ catalog' = [catalog EXCEPT ![p] = e]
    /\ enqueue(p, "upsert")
    /\ UNCHANGED <<minted, vectors>>

\* The handler does not check that the product still exists: a second click
\* on Delete enqueues a second row.
RemoveProduct(p) ==
    /\ p \in minted
    /\ enqueue(p, "delete")
    /\ catalog' = [catalog EXCEPT ![p] = Absent]
    /\ UNCHANGED <<minted, vectors>>

Admin ==
    \E p \in Products :
        \/ \E e \in Entry : CreateProduct(p, e) \/ UpdateProduct(p, e)
        \/ RemoveProduct(p)

-----------------------------------------------------------------------------
(* Vocabulary of the properties.                                           *)

RowsOf(p) == {i \in RowIds : outbox[i].product = p}

\* The most recent row of p has not been marked done: work is still owed.
Owed(p) ==
    \E i \in RowsOf(p) :
        /\ outbox[i].status # "done"
        /\ \A j \in RowsOf(p) : j <= i

\* The vector store has p with the embedding of p's current content, or
\* neither side has it.
Mirrored(p) == content_hash(vectors[p]) = content_hash(catalog[p])

\* A delete row for a product that exists.
Condemned(p) ==
    /\ catalog[p] # Absent
    /\ \E i \in RowsOf(p) : outbox[i].op = "delete"
=============================================================================
