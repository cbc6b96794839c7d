---------------------------- MODULE Embeddings ----------------------------
(***************************************************************************)
(* Embedding calls of one process: embed sends texts in chunks, one        *)
(* request after the other; embed_products pairs the vectors with its      *)
(* products by position; embed_query_cached keeps vectors of queries by    *)
(* their normalised text.  Coroutines overlap while they wait for Mesh.    *)
(***************************************************************************)
EXTENDS Naturals, Sequences, FiniteSets

CONSTANTS
    Callers,        \* coroutines that embed
    Texts,          \* texts as written, their normal forms among them
    Key,            \* [Texts -> Texts]: text.strip().lower()
    Documents,      \* BOUND: texts of the products of one embed_products call
    Limit,          \* MESH_EMBED_BATCH_LIMIT, 10 in the code
    ProviderLimit,  \* inputs the provider takes; more is a 500
    NoVector

ASSUME EmbeddingsAssumption ==
    /\ IsFiniteSet(Callers)
    /\ Key \in [Texts -> Texts] /\ \A t \in Texts : Key[Key[t]] = Key[t]
    /\ Documents \subseteq Seq(Texts)
    /\ ProviderLimit \in Nat /\ Limit \in 1..ProviderLimit
    /\ NoVector \notin Texts

VARIABLES
    call,           \* [Callers -> CallState], locals of each coroutine
    cache,          \* _query_embed_cache
    paid            \* history: answered requests for a query, by key

vars == <<call, cache, paid>>

\* The embedding of a text is named by that text.
Vector == Texts

CallState ==
    [pc : {"idle", "waiting", "returned", "raised"},
     kind : {"documents", "query"},
     texts : Seq(Texts),
     start : Nat,                       \* of the chunk under way
     vectors : Seq(Vector)]

Idle == [pc |-> "idle", kind |-> "documents", texts |-> <<>>, start |-> 0,
         vectors |-> <<>>]

TypeOK ==
    /\ call \in [Callers -> CallState]
    /\ \A c \in Callers : call[c].start \in 0..Len(call[c].texts)
    /\ \A c \in Callers : call[c].pc = "waiting" =>
          call[c].start < Len(call[c].texts)
    /\ cache \in [Texts -> Vector \cup {NoVector}]
    /\ paid \in [Texts -> Nat]

Init ==
    /\ call = [c \in Callers |-> Idle]
    /\ cache = [t \in Texts |-> NoVector]
    /\ paid = [t \in Texts |-> 0]

-----------------------------------------------------------------------------
Smaller(m, n) == IF m < n THEN m ELSE n

SLIP_ChunkInclusive(s, start) ==
    SubSeq(s, start + 1, Smaller(start + Limit + 1, Len(s)))

\* texts[start : start + MESH_EMBED_BATCH_LIMIT]
Chunk(s, start) == SubSeq(s, start + 1, Smaller(start + Limit, Len(s)))

MayCall(c) == call[c].pc # "waiting"

Begin(c, kind, texts) ==
    call' = [call EXCEPT ![c] =
        [pc |-> IF texts = <<>> THEN "returned" ELSE "waiting", kind |-> kind,
         texts |-> texts, start |-> 0, vectors |-> <<>>]]

embed_products(c, texts) ==
    /\ MayCall(c)
    /\ Begin(c, "documents", texts)
    /\ UNCHANGED <<cache, paid>>

CacheHit(c, text) ==
    /\ MayCall(c)
    /\ cache[Key[text]] # NoVector
    /\ call' = [call EXCEPT ![c] =
          [pc |-> "returned", kind |-> "query", texts |-> <<text>>,
           start |-> 0, vectors |-> <<cache[Key[text]]>>]]
    /\ UNCHANGED <<cache, paid>>

SLIP_MissByText(c, text) ==
    /\ MayCall(c)
    /\ cache[text] = NoVector
    /\ Begin(c, "query", <<text>>)
    /\ UNCHANGED <<cache, paid>>

\* Nothing marks a query as asked for: others may ask for it meanwhile.
CacheMiss(c, text) ==
    /\ MayCall(c)
    /\ cache[Key[text]] = NoVector
    /\ Begin(c, "query", <<text>>)
    /\ UNCHANGED <<cache, paid>>

\* The text is sent as written, and only its vector goes under the key.
Remember(c) ==
    LET t == call[c].texts[1] IN
    IF call[c].kind = "query"
    THEN /\ cache' = [cache EXCEPT ![Key[t]] = t]
         /\ paid' = [paid EXCEPT ![Key[t]] = @ + 1]
    ELSE UNCHANGED <<cache, paid>>

SLIP_ShortStride(c) ==
    LET s == call[c]
        last == s.start + Limit >= Len(s.texts)
    IN
    /\ s.pc = "waiting"
    /\ Len(Chunk(s.texts, s.start)) <= ProviderLimit
    /\ call' = [call EXCEPT ![c] =
          [s EXCEPT !.pc = IF last THEN "returned" ELSE "waiting",
                    !.start = IF last THEN s.start ELSE s.start + Limit - 1,
                    !.vectors = s.vectors \o Chunk(s.texts, s.start)]]
    /\ Remember(c)

\* The provider embeds each input, in order; then the next chunk is sent,
\* or the call returns and a query's vector is kept.
Answered(c) ==
    LET s == call[c]
        last == s.start + Limit >= Len(s.texts)
    IN
    /\ s.pc = "waiting"
    /\ Len(Chunk(s.texts, s.start)) <= ProviderLimit
    /\ call' = [call EXCEPT ![c] =
          [s EXCEPT !.pc = IF last THEN "returned" ELSE "waiting",
                    !.start = IF last THEN s.start ELSE s.start + Limit,
                    !.vectors = s.vectors \o Chunk(s.texts, s.start)]]
    /\ Remember(c)

SLIP_FailureIsPartial(c) ==
    /\ call[c].pc = "waiting"
    /\ call' = [call EXCEPT ![c].pc = "returned"]
    /\ UNCHANGED <<cache, paid>>

\* BalanceExhausted, MeshError, or an error of the connection: vectors of
\* earlier chunks are lost with the call, nothing is kept.
Failed(c) ==
    /\ call[c].pc = "waiting"
    /\ call' = [call EXCEPT ![c].pc = "raised"]
    /\ UNCHANGED <<cache, paid>>

Next ==
    \E c \in Callers :
        \/ \E s \in Documents : embed_products(c, s)
        \/ \E t \in Texts : CacheHit(c, t) \/ CacheMiss(c, t)
        \/ Answered(c)
        \/ Failed(c)

Spec == Init /\ [][Next]_vars

-----------------------------------------------------------------------------
(* Properties                                                              *)

\* zip(products, vectors): product i, with the hash of its text, and vector i
Embedded(c) ==
    [i \in 1..Smaller(Len(call[c].texts), Len(call[c].vectors)) |->
        [content_hash |-> call[c].texts[i], embedding |-> call[c].vectors[i]]]

\* However many chunks it took, a call that returns has embedded every
\* product, and with the vector of its own text: none lost, none shifted.
EveryProductIsEmbedded ==
    \A c \in Callers :
        call[c].pc = "returned" /\ call[c].kind = "documents" =>
            /\ Len(Embedded(c)) = Len(call[c].texts)
            /\ Len(call[c].vectors) = Len(call[c].texts)
            /\ \A i \in 1..Len(call[c].texts) :
                  Embedded(c)[i].embedding = Embedded(c)[i].content_hash

\* No request is larger than the provider takes, so that a call fails only
\* when Mesh does.
RequestsAreAccepted ==
    \A c \in Callers : call[c].pc = "waiting" =>
        Len(Chunk(call[c].texts, call[c].start)) \in 1..ProviderLimit

\* A query gets the vector of some spelling of that query, whoever filled
\* the cache, and whatever failed before.
QueriesGetTheirVector ==
    \A c \in Callers :
        call[c].pc = "returned" /\ call[c].kind = "query" =>
            /\ Len(call[c].vectors) = 1
            /\ Key[call[c].vectors[1]] = Key[call[c].texts[1]]

\* "Repeated searches cost nothing": a query is paid for once by each
\* coroutine that missed it before the first answer, and never again, in
\* any spelling.
PaidByOverlapOnly == \A t \in Texts : paid[t] <= Cardinality(Callers)

-----------------------------------------------------------------------------
(* Why they hold.                                                          *)

\* Between two requests a call holds the vectors of the chunks before.
ChunksSoFar ==
    \A c \in Callers : call[c].pc = "waiting" =>
        /\ call[c].vectors = SubSeq(call[c].texts, 1, call[c].start)
        /\ call[c].kind = "query" => Len(call[c].texts) = 1

WholeWhenReturned ==
    \A c \in Callers :
        call[c].pc = "returned" /\ call[c].kind = "documents" =>
            call[c].vectors = call[c].texts

CacheFitsKeys == \A t \in Texts : cache[t] # NoVector => Key[cache[t]] = t

PaidIsKept == \A t \in Texts : paid[t] > 0 => cache[t] # NoVector

\* Those who missed query t and have no answer yet.
Asking(t) ==
    {c \in Callers : /\ call[c].pc = "waiting"
                     /\ call[c].kind = "query"
                     /\ Key[call[c].texts[1]] = t}

OverlapSoFar ==
    \A t \in Texts :
        paid[t] + Cardinality(Asking(t)) <= Cardinality(Callers)

\* Nobody asks for what is kept, so that after the first answer the answers
\* and those who still wait are together never more than waited then.
IInv ==
    /\ TypeOK
    /\ ChunksSoFar
    /\ WholeWhenReturned
    /\ QueriesGetTheirVector
    /\ CacheFitsKeys
    /\ PaidIsKept
    /\ OverlapSoFar
=============================================================================
