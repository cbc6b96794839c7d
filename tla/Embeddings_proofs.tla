------------------------- MODULE Embeddings_proofs -------------------------
(***************************************************************************)
(* Chunked embedding loses and shifts nothing, and the query cache is      *)
(* right and bounds what is paid: for any number of coroutines, any texts  *)
(* and any notion of spelling, any calls and any limits of the provider.   *)
(***************************************************************************)
EXTENDS Embeddings, SequenceTheorems, FiniteSetTheorems, TLAPS

-----------------------------------------------------------------------------
(* Chunks.                                                                 *)

LEMMA IdleType == Idle \in CallState
BY DEF Idle, CallState, Vector

\* The chunk at start ends before the next multiple of the limit or with the
\* text list; joined to the part before it, it is the part up to there.
LEMMA ChunkFacts ==
  ASSUME NEW s \in Seq(Texts), NEW start \in Nat, start < Len(s)
  PROVE  LET end == Smaller(start + Limit, Len(s)) IN
         /\ end \in Nat /\ start < end /\ end <= Len(s)
         /\ end = IF start + Limit >= Len(s) THEN Len(s) ELSE start + Limit
         /\ Chunk(s, start) \in Seq(Texts)
         /\ Len(Chunk(s, start)) \in 1..ProviderLimit
         /\ SubSeq(s, 1, start) \o Chunk(s, start) = SubSeq(s, 1, end)
<1>. DEFINE end == Smaller(start + Limit, Len(s))
<1>1. /\ Limit \in Nat /\ ProviderLimit \in Nat
      /\ 1 <= Limit /\ Limit <= ProviderLimit
      /\ Len(s) \in Nat
  BY EmbeddingsAssumption
<1>2. /\ end \in Nat /\ start < end /\ end <= Len(s)
      /\ end <= start + Limit
      /\ end = IF start + Limit >= Len(s) THEN Len(s) ELSE start + Limit
  BY <1>1 DEF Smaller
<1>3. Chunk(s, start) = SubSeq(s, start + 1, end)
  BY DEF Chunk
<1>. HIDE DEF end
<1>4. \A i \in (start + 1)..end : s[i] \in Texts
  BY <1>1, <1>2
<1>5. /\ Chunk(s, start) \in Seq(Texts)
      /\ Len(Chunk(s, start)) = end - (start + 1) + 1
  <2>1. start + 1 \in Int /\ end \in Int /\ start + 1 <= end
    BY <1>2
  <2>. QED  BY <1>3, <1>4, <2>1, SubSeqProperties
<1>6. Len(Chunk(s, start)) \in 1..ProviderLimit
  BY <1>1, <1>2, <1>5
<1>7. SubSeq(s, 1, start) \o SubSeq(s, start + 1, end) = SubSeq(s, 1, end)
  <2>1. /\ 1 \in 1..(Len(s) + 1)
        /\ start \in (1 - 1)..Len(s)
        /\ end \in start..Len(s)
    BY <1>1, <1>2
  <2>. QED  BY <2>1, ConcatAdjacentSubSeq
<1>. QED  BY <1>2, <1>3, <1>5, <1>6, <1>7 DEF end

-----------------------------------------------------------------------------
(* The invariant, one call at a time.                                      *)

\* What the invariant says of the locals of one call.
Sound(r) ==
    /\ r.start \in 0..Len(r.texts)
    /\ r.pc = "waiting" =>
          /\ r.start < Len(r.texts)
          /\ r.vectors = SubSeq(r.texts, 1, r.start)
          /\ r.kind = "query" => Len(r.texts) = 1
    /\ r.pc = "returned" /\ r.kind = "documents" => r.vectors = r.texts
    /\ r.pc = "returned" /\ r.kind = "query" =>
          /\ Len(r.vectors) = 1
          /\ Key[r.vectors[1]] = Key[r.texts[1]]

CallsSound == \A c \in Callers : call[c] \in CallState /\ Sound(call[c])

\* What it says of the cache and of what was paid.
CacheSound ==
    /\ cache \in [Texts -> Vector \cup {NoVector}]
    /\ paid \in [Texts -> Nat]
    /\ CacheFitsKeys
    /\ PaidIsKept

LEMMA SoundParts ==
  ASSUME IInv
  PROVE  CallsSound /\ CacheSound
BY DEF IInv, TypeOK, ChunksSoFar, WholeWhenReturned, QueriesGetTheirVector,
       CallsSound, CacheSound, Sound

\* One call changes, soundly, and the rest is taken care of.
LEMMA CallStep ==
  ASSUME IInv, NEW c \in Callers, NEW r \in CallState, Sound(r),
         call' = [call EXCEPT ![c] = r], CacheSound', OverlapSoFar'
  PROVE  IInv'
<1>1. call \in [Callers -> CallState]
  BY DEF IInv, TypeOK
<1>2. call' \in [Callers -> CallState]
  BY <1>1
<1>3. \A d \in Callers : Sound(call'[d])
  BY <1>1, SoundParts DEF CallsSound
<1>. QED
  BY <1>2, <1>3
     DEF IInv, TypeOK, ChunksSoFar, WholeWhenReturned, QueriesGetTheirVector,
         CacheSound, Sound

-----------------------------------------------------------------------------
(* Who asks for what, and what was paid.                                   *)

LEMMA AskingFinite ==
  ASSUME NEW t \in Texts
  PROVE  /\ Asking(t) \subseteq Callers /\ IsFiniteSet(Asking(t))
         /\ Cardinality(Asking(t)) \in Nat
         /\ Cardinality(Callers) \in Nat
         /\ Cardinality(Asking(t)) <= Cardinality(Callers)
<1>1. Asking(t) \subseteq Callers
  BY DEF Asking
<1>. QED  BY <1>1, EmbeddingsAssumption, FS_Subset, FS_CardinalityType

\* The same of the next state.
LEMMA AskingFiniteNext ==
  ASSUME NEW t \in Texts
  PROVE  /\ Asking(t)' \subseteq Callers
         /\ Cardinality(Asking(t)') \in Nat
         /\ Cardinality(Asking(t)') <= Cardinality(Callers)
<1>1. Asking(t)' \subseteq Callers
  BY DEF Asking
<1>. QED  BY <1>1, EmbeddingsAssumption, FS_Subset, FS_CardinalityType

\* A step after which caller c does not ask for t adds nobody who does.
LEMMA FewerAsk ==
  ASSUME NEW c \in Callers, NEW r, NEW t \in Texts,
         call \in [Callers -> CallState], call' = [call EXCEPT ![c] = r],
         ~(r.pc = "waiting" /\ r.kind = "query" /\ Key[r.texts[1]] = t)
  PROVE  /\ Asking(t)' = Asking(t) \ {c}
         /\ Cardinality(Asking(t)') \in Nat
         /\ Cardinality(Asking(t)') <= Cardinality(Asking(t))
<1>1. Asking(t)' = Asking(t) \ {c}
  BY DEF Asking
<1>2. Asking(t) \ {c} \subseteq Asking(t)
  OBVIOUS
<1>. QED  BY <1>1, <1>2, AskingFinite, FS_Subset, FS_CardinalityType

\* A step that pays nothing and after which c asks for nothing.
LEMMA NothingPaid ==
  ASSUME IInv, NEW c \in Callers, NEW r \in CallState, Sound(r),
         call' = [call EXCEPT ![c] = r], UNCHANGED <<cache, paid>>,
         ~(r.pc = "waiting" /\ r.kind = "query")
  PROVE  IInv'
<1>1. CacheSound'
  BY SoundParts DEF CacheSound, CacheFitsKeys, PaidIsKept
<1>2. OverlapSoFar'
  <2>. SUFFICES ASSUME NEW t \in Texts
                PROVE  paid[t] + Cardinality(Asking(t)') <= Cardinality(Callers)
    BY DEF OverlapSoFar
  <2>1. /\ Cardinality(Asking(t)') \in Nat
        /\ Cardinality(Asking(t)') <= Cardinality(Asking(t))
    BY FewerAsk DEF IInv, TypeOK
  <2>2. paid[t] + Cardinality(Asking(t)) <= Cardinality(Callers)
    BY DEF IInv, OverlapSoFar
  <2>3. paid[t] \in Nat
    BY DEF IInv, TypeOK
  <2>. QED  BY <2>1, <2>2, <2>3, AskingFinite
<1>. QED  BY <1>1, <1>2, CallStep

-----------------------------------------------------------------------------
(* The steps.                                                              *)

LEMMA EmbedProductsStep ==
  ASSUME IInv, NEW c \in Callers, NEW s \in Documents, embed_products(c, s)
  PROVE  IInv'
<1>. DEFINE r == [pc |-> IF s = <<>> THEN "returned" ELSE "waiting",
                  kind |-> "documents", texts |-> s, start |-> 0,
                  vectors |-> <<>>]
<1>1. s \in Seq(Texts) /\ <<>> \in Seq(Texts)
  BY EmbeddingsAssumption
<1>2. r \in CallState /\ r.kind = "documents"
  BY <1>1 DEF CallState, Vector
<1>3. Sound(r)
  <2>1. CASE s = <<>>
    BY <1>1, <2>1 DEF Sound
  <2>2. CASE s # <<>>
    <3>1. Len(s) \in Nat /\ 0 < Len(s)
      BY <1>1, <2>2
    <3>2. SubSeq(s, 1, 0) = <<>>
      BY SubSeqEmpty
    <3>. QED  BY <2>2, <3>1, <3>2 DEF Sound
  <2>. QED  BY <2>1, <2>2
<1>4. call' = [call EXCEPT ![c] = r] /\ UNCHANGED <<cache, paid>>
  BY DEF embed_products, Begin
<1>. HIDE DEF r
<1>. QED  BY <1>2, <1>3, <1>4, NothingPaid

LEMMA CacheHitStep ==
  ASSUME IInv, NEW c \in Callers, NEW text \in Texts, CacheHit(c, text)
  PROVE  IInv'
<1>. DEFINE k == Key[text]
            v == cache[k]
            r == [pc |-> "returned", kind |-> "query", texts |-> <<text>>,
                  start |-> 0, vectors |-> <<v>>]
<1>1. k \in Texts /\ Key[k] = k
  BY EmbeddingsAssumption
<1>2. v \in Texts /\ Key[v] = k
  BY <1>1 DEF CacheHit, IInv, TypeOK, CacheFitsKeys, Vector
<1>3. call' = [call EXCEPT ![c] = r] /\ UNCHANGED <<cache, paid>>
  BY DEF CacheHit
<1>. HIDE DEF v
<1>4. r \in CallState /\ r.pc = "returned"
  BY <1>2 DEF CallState, Vector
<1>5. Sound(r)
  BY <1>2 DEF Sound
<1>. HIDE DEF r
<1>. QED  BY <1>3, <1>4, <1>5, NothingPaid

\* The cache has nothing, so nothing was paid, and all may be asking.
LEMMA CacheMissStep ==
  ASSUME IInv, NEW c \in Callers, NEW text \in Texts, CacheMiss(c, text)
  PROVE  IInv'
<1>. DEFINE r == [pc |-> "waiting", kind |-> "query", texts |-> <<text>>,
                  start |-> 0, vectors |-> <<>>]
<1>1. Key[text] \in Texts
  BY EmbeddingsAssumption
<1>2. call' = [call EXCEPT ![c] = r] /\ UNCHANGED <<cache, paid>>
  <2>1. <<text>> # <<>>
    OBVIOUS
  <2>. QED  BY <2>1 DEF CacheMiss, Begin
<1>3. r \in CallState
  BY DEF CallState, Vector
<1>4. Sound(r)
  <2>1. SubSeq(<<text>>, 1, 0) = <<>>
    BY SubSeqEmpty
  <2>. QED  BY <2>1 DEF Sound
<1>5. CacheSound'
  BY <1>2, SoundParts DEF CacheSound, CacheFitsKeys, PaidIsKept
<1>6. r.texts[1] = text
  OBVIOUS
<1>. HIDE DEF r
<1>7. OverlapSoFar'
  <2>. SUFFICES ASSUME NEW t \in Texts
                PROVE  paid[t] + Cardinality(Asking(t)') <= Cardinality(Callers)
    BY <1>2 DEF OverlapSoFar
  <2>1. paid[t] \in Nat
    BY DEF IInv, TypeOK
  <2>2. CASE t = Key[text]
    <3>1. paid[t] = 0
      BY <2>1, <2>2 DEF CacheMiss, IInv, PaidIsKept
    <3>. QED  BY <3>1, AskingFiniteNext
  <2>3. CASE t # Key[text]
    <3>1. /\ Cardinality(Asking(t)') \in Nat
          /\ Cardinality(Asking(t)') <= Cardinality(Asking(t))
      BY <1>2, <1>6, <2>3, FewerAsk DEF IInv, TypeOK
    <3>2. paid[t] + Cardinality(Asking(t)) <= Cardinality(Callers)
      BY DEF IInv, OverlapSoFar
    <3>. QED  BY <2>1, <3>1, <3>2, AskingFinite
  <2>. QED  BY <2>2, <2>3
<1>. QED  BY <1>2, <1>3, <1>4, <1>5, <1>7, CallStep

LEMMA FailedStep ==
  ASSUME IInv, NEW c \in Callers, Failed(c)
  PROVE  IInv'
<1>. DEFINE r == [call[c] EXCEPT !.pc = "raised"]
<1>1. call[c] \in CallState /\ Sound(call[c])
  BY SoundParts DEF CallsSound
<1>2. /\ r \in CallState /\ r.pc = "raised"
      /\ r.start = call[c].start /\ r.texts = call[c].texts
  BY <1>1 DEF CallState
<1>3. call' = [call EXCEPT ![c] = r] /\ UNCHANGED <<cache, paid>>
  BY DEF Failed
<1>. HIDE DEF r
<1>4. Sound(r)
  BY <1>1, <1>2 DEF Sound
<1>. QED  BY <1>2, <1>3, <1>4, NothingPaid

-----------------------------------------------------------------------------
LEMMA ChunkIsNotAll ==
  ASSUME NEW m \in Nat, NEW n \in Nat, NEW l \in Nat, l >= 1, ~(m + l >= n)
  PROVE  m + l < n /\ n # 1
OBVIOUS

\* An answered request: the vectors so far are those of the texts so far.
LEMMA AnsweredCall ==
  ASSUME IInv, NEW c \in Callers, Answered(c)
  PROVE  \E r \in CallState :
            /\ call' = [call EXCEPT ![c] = r]
            /\ Sound(r)
            /\ r.kind = call[c].kind /\ r.texts = call[c].texts
            /\ r.kind = "query" => r.pc = "returned"
<1>. DEFINE s == call[c]
            last == s.start + Limit >= Len(s.texts)
            chunk == Chunk(s.texts, s.start)
            end == Smaller(s.start + Limit, Len(s.texts))
            v == s.vectors \o chunk
            pc == IF last THEN "returned" ELSE "waiting"
            start == IF last THEN s.start ELSE s.start + Limit
            r == [s EXCEPT !.pc = pc, !.start = start, !.vectors = v]
<1>1. /\ s \in CallState /\ Sound(s) /\ s.pc = "waiting"
  BY SoundParts DEF CallsSound, Answered
<1>2. /\ s.texts \in Seq(Texts) /\ s.start \in Nat /\ s.start < Len(s.texts)
      /\ s.vectors = SubSeq(s.texts, 1, s.start)
      /\ s.vectors \in Seq(Texts)
      /\ s.kind \in {"documents", "query"}
      /\ s.kind = "query" => Len(s.texts) = 1
  BY <1>1 DEF CallState, Sound, Vector
<1>3. /\ end \in Nat /\ s.start < end /\ end <= Len(s.texts)
      /\ end = IF last THEN Len(s.texts) ELSE s.start + Limit
      /\ chunk \in Seq(Texts)
      /\ v = SubSeq(s.texts, 1, end)
  BY <1>2, ChunkFacts
<1>4. v \in Seq(Texts)
  BY <1>2, <1>3
<1>5. Limit \in Nat /\ Limit >= 1
  BY EmbeddingsAssumption
<1>6. start \in Nat
  BY <1>2, <1>5
<1>7. call' = [call EXCEPT ![c] = r]
  BY DEF Answered
<1>. HIDE DEF v, pc, start, end, chunk
<1>8. /\ r \in CallState /\ r.pc = pc /\ r.start = start /\ r.vectors = v
      /\ r.kind = s.kind /\ r.texts = s.texts
  <2>1. pc \in {"returned", "waiting"}
    BY DEF pc
  <2>. DEFINE r1 == [s EXCEPT !.pc = pc]
              r2 == [r1 EXCEPT !.start = start]
  <2>2. r1 \in CallState /\ r1.pc = pc /\ r1.kind = s.kind
        /\ r1.texts = s.texts
    BY <1>1, <2>1 DEF CallState
  <2>3. r = [r2 EXCEPT !.vectors = v]
    OBVIOUS
  <2>. HIDE DEF r1
  <2>4. r2 \in CallState /\ r2.pc = pc /\ r2.start = start
        /\ r2.kind = s.kind /\ r2.texts = s.texts
    BY <1>6, <2>2 DEF CallState
  <2>. HIDE DEF r2, r
  <2>. QED  BY <1>4, <2>3, <2>4 DEF CallState, Vector
<1>. HIDE DEF r
<1>9. CASE last
  <2>1. pc = "returned" /\ start = s.start
    BY <1>9 DEF pc, start
  <2>2. v = s.texts
    BY <1>2, <1>3, <1>9, SubSeqFull
  <2>3. Sound(r)
    BY <1>2, <1>8, <2>1, <2>2 DEF Sound
  <2>. QED  BY <1>7, <1>8, <2>1, <2>3
<1>10. CASE ~last
  <2>1. pc = "waiting" /\ start = s.start + Limit /\ end = start
    BY <1>3, <1>10 DEF pc, start
  <2>2. start < Len(s.texts) /\ Len(s.texts) # 1
    <3>1. s.start \in Nat /\ Len(s.texts) \in Nat
      BY <1>2
    <3>. QED  BY <1>5, <1>10, <2>1, <3>1, ChunkIsNotAll
  <2>3. Sound(r)
    BY <1>2, <1>3, <1>6, <1>8, <2>1, <2>2 DEF Sound
  <2>. QED  BY <1>2, <1>7, <1>8, <2>2, <2>3
<1>. QED  BY <1>9, <1>10

LEMMA AnsweredStep ==
  ASSUME IInv, NEW c \in Callers, Answered(c)
  PROVE  IInv'
<1>1. PICK r \in CallState :
        /\ call' = [call EXCEPT ![c] = r]
        /\ Sound(r)
        /\ r.kind = call[c].kind /\ r.texts = call[c].texts
        /\ r.kind = "query" => r.pc = "returned"
  BY AnsweredCall
<1>2. CASE call[c].kind # "query"
  <2>1. UNCHANGED <<cache, paid>>
    BY <1>2 DEF Answered, Remember
  <2>. QED  BY <1>1, <1>2, <2>1, NothingPaid
<1>3. CASE call[c].kind = "query"
  <2>. DEFINE u == call[c].texts[1]
              k == Key[u]
  <2>1. /\ call[c] \in CallState /\ call[c].pc = "waiting"
        /\ Len(call[c].texts) = 1
    BY <1>3, SoundParts DEF CallsSound, Sound, Answered
  <2>2. u \in Texts
    BY <2>1 DEF CallState
  <2>3. k \in Texts /\ Key[k] = k /\ u # NoVector
    BY <2>2, EmbeddingsAssumption
  <2>4. /\ cache' = [cache EXCEPT ![k] = u]
        /\ paid' = [paid EXCEPT ![k] = @ + 1]
    BY <1>3 DEF Answered, Remember
  <2>5. c \in Asking(k)
    BY <1>3, <2>1 DEF Asking
  <2>. HIDE DEF u, k
  <2>6. CacheSound'
    <3>1. cache \in [Texts -> Vector \cup {NoVector}] /\ paid \in [Texts -> Nat]
      BY DEF IInv, TypeOK
    <3>2. cache' \in [Texts -> Vector \cup {NoVector}] /\ paid' \in [Texts -> Nat]
      BY <2>2, <2>3, <2>4, <3>1 DEF Vector
    <3>3. CacheFitsKeys' /\ PaidIsKept'
      BY <2>3, <2>4, <3>1 DEF k, IInv, CacheFitsKeys, PaidIsKept
    <3>. QED  BY <3>2, <3>3 DEF CacheSound
  <2>7. OverlapSoFar'
    <3>. SUFFICES ASSUME NEW t \in Texts
                  PROVE  paid'[t] + Cardinality(Asking(t)')
                            <= Cardinality(Callers)
      BY DEF OverlapSoFar
    <3>1. /\ Asking(t)' = Asking(t) \ {c}
          /\ Cardinality(Asking(t)') \in Nat
          /\ Cardinality(Asking(t)') <= Cardinality(Asking(t))
      BY <1>1, <1>3, FewerAsk DEF IInv, TypeOK
    <3>2. paid[t] + Cardinality(Asking(t)) <= Cardinality(Callers)
      BY DEF IInv, OverlapSoFar
    <3>3. paid[t] \in Nat
      BY DEF IInv, TypeOK
    <3>4. CASE t = k
      <4>1. Cardinality(Asking(t)') = Cardinality(Asking(t)) - 1
        BY <2>5, <3>1, <3>4, AskingFinite, FS_RemoveElement
      <4>2. paid'[t] = paid[t] + 1
        BY <2>4, <3>4 DEF IInv, TypeOK
      <4>. QED  BY <3>1, <3>2, <3>3, <4>1, <4>2, AskingFinite
    <3>5. CASE t # k
      <4>1. paid'[t] = paid[t]
        BY <2>4, <3>5 DEF IInv, TypeOK
      <4>. QED  BY <3>1, <3>2, <3>3, <4>1, AskingFinite
    <3>. QED  BY <3>4, <3>5
  <2>. QED  BY <1>1, <2>6, <2>7, CallStep
<1>. QED  BY <1>2, <1>3

-----------------------------------------------------------------------------
THEOREM InitIInv == Init => IInv
<1>. SUFFICES ASSUME Init  PROVE IInv
  OBVIOUS
<1>1. \A c \in Callers : call[c] = Idle
  BY DEF Init
<1>2. TypeOK
  <2>1. call \in [Callers -> CallState]
    BY IdleType DEF Init
  <2>2. Idle.start = 0 /\ Idle.texts = <<>> /\ Idle.pc = "idle"
    BY DEF Idle
  <2>3. cache \in [Texts -> Vector \cup {NoVector}] /\ paid \in [Texts -> Nat]
    BY DEF Init
  <2>. QED  BY <1>1, <2>1, <2>2, <2>3 DEF TypeOK
<1>3. ChunksSoFar /\ WholeWhenReturned /\ QueriesGetTheirVector
  BY <1>1 DEF Idle, ChunksSoFar, WholeWhenReturned, QueriesGetTheirVector
<1>4. CacheFitsKeys /\ PaidIsKept
  BY DEF Init, CacheFitsKeys, PaidIsKept
<1>5. OverlapSoFar
  <2>. SUFFICES ASSUME NEW t \in Texts
                PROVE  paid[t] + Cardinality(Asking(t)) <= Cardinality(Callers)
    BY DEF OverlapSoFar
  <2>1. paid[t] = 0
    BY DEF Init
  <2>. QED  BY <2>1, AskingFinite
<1>. QED  BY <1>2, <1>3, <1>4, <1>5 DEF IInv

THEOREM NextIInv == IInv /\ [Next]_vars => IInv'
<1>. SUFFICES ASSUME IInv, [Next]_vars  PROVE IInv'
  OBVIOUS
<1>1. CASE UNCHANGED vars
  BY <1>1 DEF vars, IInv, TypeOK, ChunksSoFar, WholeWhenReturned,
              QueriesGetTheirVector, CacheFitsKeys, PaidIsKept, OverlapSoFar,
              Asking
<1>. QED
  BY <1>1, EmbedProductsStep, CacheHitStep, CacheMissStep, FailedStep,
     AnsweredStep DEF Next

\* The inductive invariant, for any number of overlapping coroutines.
THEOREM EmbeddingsInvariant == Spec => []IInv
<1>. QED  BY InitIInv, NextIInv, PTL DEF Spec

\* Every variable keeps its shape.
THEOREM EmbeddingsTypeCorrect == Spec => []TypeOK
<1>1. IInv => TypeOK
  BY DEF IInv
<1>. QED  BY <1>1, EmbeddingsInvariant, PTL

\* A call that returns has a vector for every product, and each product its
\* own, for lists of any length and any size of the chunks.
THEOREM ProductsGetTheirVectors == Spec => []EveryProductIsEmbedded
<1>1. IInv => EveryProductIsEmbedded
  <2>. SUFFICES ASSUME IInv, NEW c \in Callers,
                       call[c].pc = "returned", call[c].kind = "documents"
                PROVE  /\ Len(Embedded(c)) = Len(call[c].texts)
                       /\ Len(call[c].vectors) = Len(call[c].texts)
                       /\ \A i \in 1..Len(call[c].texts) :
                             Embedded(c)[i].embedding
                                = Embedded(c)[i].content_hash
    BY DEF EveryProductIsEmbedded
  <2>. DEFINE n == Len(call[c].texts)
  <2>1. call[c].texts \in Seq(Texts) /\ call[c].vectors = call[c].texts
    BY DEF IInv, TypeOK, CallState, WholeWhenReturned
  <2>2. n \in Nat /\ Smaller(n, Len(call[c].vectors)) = n
    BY <2>1 DEF Smaller
  <2>3. Embedded(c) = [i \in 1..n |-> [content_hash |-> call[c].texts[i],
                                       embedding |-> call[c].texts[i]]]
    BY <2>1, <2>2 DEF Embedded
  <2>4. Len(Embedded(c)) = n
    BY <2>2, <2>3
  <2>. QED  BY <2>1, <2>3, <2>4
<1>. QED  BY <1>1, EmbeddingsInvariant, PTL

\* No request holds more texts than the provider takes, and none is empty.
THEOREM RequestsFit == Spec => []RequestsAreAccepted
<1>1. IInv => RequestsAreAccepted
  <2>. SUFFICES ASSUME IInv, NEW c \in Callers, call[c].pc = "waiting"
                PROVE  Len(Chunk(call[c].texts, call[c].start))
                          \in 1..ProviderLimit
    BY DEF RequestsAreAccepted
  <2>1. /\ call[c].texts \in Seq(Texts) /\ call[c].start \in Nat
        /\ call[c].start < Len(call[c].texts)
    BY DEF IInv, TypeOK, CallState
  <2>. QED  BY <2>1, ChunkFacts
<1>. QED  BY <1>1, EmbeddingsInvariant, PTL

\* A query is answered with the vector of one of its own spellings.
THEOREM QueriesAreAnswered == Spec => []QueriesGetTheirVector
<1>1. IInv => QueriesGetTheirVector
  BY DEF IInv
<1>. QED  BY <1>1, EmbeddingsInvariant, PTL

\* A query is never paid for more often than coroutines can overlap, however
\* often and in however many spellings it is asked.
THEOREM QueriesArePaidByOverlap == Spec => []PaidByOverlapOnly
<1>1. IInv => PaidByOverlapOnly
  <2>. SUFFICES ASSUME IInv, NEW t \in Texts
                PROVE  paid[t] <= Cardinality(Callers)
    BY DEF PaidByOverlapOnly
  <2>1. /\ paid[t] + Cardinality(Asking(t)) <= Cardinality(Callers)
        /\ paid[t] \in Nat
    BY DEF IInv, OverlapSoFar, TypeOK
  <2>. QED  BY <2>1, AskingFinite
<1>. QED  BY <1>1, EmbeddingsInvariant, PTL
=============================================================================
