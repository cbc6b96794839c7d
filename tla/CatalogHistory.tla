--------------------------- MODULE CatalogHistory ---------------------------
(***************************************************************************)
(* CatalogSync with two history variables beside its own, which no step    *)
(* reads: they let its safety properties speak of what overlapping drains  *)
(* did to a product, and of what the vector store has shown.               *)
(***************************************************************************)
EXTENDS CatalogSync

VARIABLES
    contested,   \* products whose rows two drains held at once, see Observe
    wanted       \* per row: what the vector store may show to have served it

historyVars == <<contested, wanted>>

hvars == <<vars, historyVars>>

-----------------------------------------------------------------------------
Held(s) == s.deletes \cup s.upserts \cup s.embeds \cup s.group

Holds(d, p) == \E i \in Held(drain[d]) : outbox[i].product = p

\* Products of which two drains hold rows: the row locks ended with the claim.
Overlapping ==
    {p \in Products :
        \E d, e \in Drainers : d # e /\ Holds(d, p) /\ Holds(e, p)}

\* Products whose work is all still ahead: owed, and in no drain's hands.
Afresh == {p \in Products : Owed(p) /\ \A d \in Drainers : ~Holds(d, p)}

\* A product is contested from the moment two drains hold rows of it until
\* all of them are finished with it and work is owed for it again.  A row wants
\* the contents that its product has had since the row was committed, or
\* the product's absence if it is a delete row; once the vector store has
\* shown one of them the row has been served and wants nothing any more.
Observe ==
    /\ contested' = Overlapping' \cup (contested \ Afresh')
    /\ wanted' = [i \in 1..Len(outbox') |->
          LET p == outbox'[i].product
              now == IF outbox'[i].op = "delete" THEN Absent
                     ELSE content_hash(catalog'[p])
              w == IF i \in RowIds THEN wanted[i] \cup {now} ELSE {now}
          IN  IF \/ i \in RowIds /\ wanted[i] = {}
                 \/ content_hash(vectors'[p]) \in w
              THEN {} ELSE w]

HistoryInit ==
    /\ Init
    /\ contested = {}
    /\ wanted = <<>>

HistoryNext == Next /\ Observe

HistorySpec == HistoryInit /\ [][HistoryNext]_hvars

-----------------------------------------------------------------------------
\* The history variables keep their shape.
HistoryTypeOK ==
    /\ contested \subseteq Products
    /\ wanted \in [RowIds -> SUBSET (Contents \cup {Absent})]

\* Once the most recent outbox row of a product is done, the vector store
\* holds exactly the embedding of the product's current content, and nothing
\* for a product that was removed: no edit made while a drain was between
\* its reads and its writes is lost, with any number of drains.  The two ways
\* in which the code can lose one are named: two drains held rows of this
\* very product at once and no row of it has waited since (contested), or
\* reconcile took it for an orphan (Condemned).
DoneMeansMirrored ==
    \A p \in Products :
        p \in contested \/ Owed(p) \/ Condemned(p) \/ Mirrored(p)

\* A row is marked done only after the vector store has shown the product as
\* the row asked for, or as a later edit did: whatever drains overlap, fail
\* half way or die, no done row was merely skipped.
DoneMeansCarriedOut ==
    \A i \in RowIds : outbox[i].status = "done" => wanted[i] = {}

\* A row that was given up on stays given up, and only a new row for its
\* product brings the product back, unless another drain still holds a row
\* of the product: mark_done and mark_failed look at no status.
FailedIsFinal ==
    [][\A i \in RowIds :
          outbox[i].status = "failed" /\ outbox[i].product \notin contested
              => outbox'[i] = outbox[i]]_hvars

-----------------------------------------------------------------------------
(* What the outbox promises to the rest of the system.                     *)

Mirror == INSTANCE EventualMirror WITH
    Keys <- Products,
    Values <- Contents,
    None <- Absent,
    source <- Hashes(catalog),
    copy <- Hashes(vectors),
    owed <- {p \in Products : p \in contested \/ Owed(p) \/ Condemned(p)}

\* With any number of drains the outbox is an EventualMirror of the hashed
\* columns: the vector of a product changes only while work is owed for it
\* or it is contested, and this ends only at a moment when both stores agree.
ImplementsMirror == Mirror!Spec
=============================================================================
