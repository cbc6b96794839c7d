----------------------------- MODULE AgentGraph -----------------------------
(***************************************************************************)
(* One run of the recommendation graph after another, node by node, while  *)
(* the catalogue, its vector store and the user's own actions change under *)
(* it.  Every chat call to Mesh may be answered, be truncated or invalid   *)
(* (and is then repeated once), or fail; what it cites may be made up.     *)
(*                                                                         *)
(*   load -> load_current -> analyze -> search -> dedupe -> grade          *)
(*                                        ^                 |    |         *)
(*                                        +---- refine <----+    v         *)
(*     idle <- record <- save <- generate <-------------------- rerank     *)
(*              |         |                                                *)
(*              +---------+--- anything raises --> handler -> idle         *)
(*                                                                         *)
(* Similarities, scores and texts are left open: a search returns any few  *)
(* matching products, the grader and the reranker decide freely.           *)
(***************************************************************************)
EXTENDS Integers, FiniteSets

CONSTANTS
    Products,
    MadeUp,          \* ids that belong to no product
    MaxRefineLoops,  \* MAX_REFINE_LOOPS (1 in the code)
    MinCandidates,   \* GRADE_MIN_CANDIDATES
    MaxCandidates,   \* RETRIEVAL_MAX_CANDIDATES
    TopN,            \* RERANK_TOP_N
    MaxItems,        \* items a Recommendation may have (4 in the code)
    Searches,        \* searches per retrieval: queries and interest vector
    MaxEdits         \* BOUND: changes of catalogue, vectors, user during runs

ASSUME AgentAssumption ==
    /\ Products \cap MadeUp = {}
    /\ MaxRefineLoops \in Nat
    /\ MinCandidates \in Nat
    /\ MaxCandidates \in Nat
    /\ TopN \in Nat
    /\ MaxItems \in Nat
    /\ Searches \in Nat \ {0}
    /\ MaxEdits \in Nat

VARIABLES
    catalog,   \* products that exist
    vectors,   \* products a search can return
    taken,     \* products the user dismissed or has in the cart
    current,   \* items of the current recommendation
    run,       \* the state of the run
    edits

vars == <<catalog, vectors, taken, current, run, edits>>

RunPC == {"idle", "load", "load_current", "analyze", "search", "dedupe",
          "grade", "refine", "rerank", "generate", "save", "record",
          "handler", "raised"}

ChatPC == {"analyze", "refine", "generate"}

RunState ==
    [pc         : RunPC,
     count      : BOOLEAN,              \* trigger_reason is "count"
     excluded   : SUBSET Products,
     candidates : SUBSET Products,
     searches   : 0..Searches,          \* left in this retrieval
     loops      : 0..MaxRefineLoops,    \* refine_loops
     reranked   : SUBSET Products,
     cited      : SUBSET (Products \cup MadeUp),
     repeats    : BOOLEAN,              \* some product is cited twice
     noted      : BOOLEAN,              \* violation_note was sent
     again      : BOOLEAN,              \* complete_json is in its retry
     failed     : BOOLEAN,              \* recommendation is None
     calls      : Nat,                  \* CALL_COUNTS["chat"], of this run
     tokens     : Nat,                  \* calls whose usage the state holds
     logged     : Nat]                  \* and that the agent_runs row holds

IdleRun ==
    [pc |-> "idle", count |-> FALSE, excluded |-> {}, candidates |-> {},
     searches |-> 0, loops |-> 0, reranked |-> {}, cited |-> {},
     repeats |-> FALSE, noted |-> FALSE, again |-> FALSE, failed |-> FALSE,
     calls |-> 0, tokens |-> 0, logged |-> 0]

Init ==
    /\ catalog = Products
    /\ vectors \in SUBSET Products
    /\ taken = {}
    /\ current = {}
    /\ run = IdleRun
    /\ edits = 0

-----------------------------------------------------------------------------
(* What changes under a run.                                               *)

Edit ==
    /\ edits < MaxEdits
    /\ edits' = edits + 1

RemoveProduct(p) ==
    /\ Edit
    /\ catalog' = catalog \ {p}
    /\ UNCHANGED <<vectors, taken, current, run>>

\* A drain brings the vector of p up to date: products created since the run
\* began appear, products removed vanish.
DrainProduct(p) ==
    /\ Edit
    /\ vectors' = IF p \in catalog THEN vectors \cup {p} ELSE vectors \ {p}
    /\ UNCHANGED <<catalog, taken, current, run>>

TakeProduct(p) ==
    /\ Edit
    /\ taken' = taken \cup {p}
    /\ UNCHANGED <<catalog, vectors, current, run>>

-----------------------------------------------------------------------------
Stay == UNCHANGED <<catalog, vectors, taken, current, edits>>

StartRun ==
    /\ run.pc \in {"idle", "raised"}
    /\ \E c \in BOOLEAN : run' = [IdleRun EXCEPT !.pc = "load", !.count = c]
    /\ Stay

\* Dismissed and owned products are out, and so is the one just viewed.
load_signals ==
    /\ run.pc = "load"
    /\ \E viewed \in {{}} \cup {{p} : p \in Products} :
          run' = [run EXCEPT
             !.pc = IF run.count THEN "load_current" ELSE "analyze",
             !.excluded = taken \cup viewed]
    /\ Stay

\* After a count trigger the products on display are out, too.
current_recommendation_product_ids ==
    /\ run.pc = "load_current"
    /\ run' = [run EXCEPT !.pc = "analyze", !.excluded = @ \cup current]
    /\ Stay

\* An answer to a chat call of analyze_intent that fits the schema.
analyze_intent ==
    /\ run.pc = "analyze"
    /\ run' = [run EXCEPT
          !.pc = "search", !.searches = Searches, !.again = FALSE,
          !.calls = @ + 1, !.tokens = @ + 1]
    /\ Stay

\* SLIP of retrieve: only the first search is filtered.
SearchUnfiltered ==
    /\ run.pc = "search"
    /\ \E found \in SUBSET vectors :
          /\ run.searches = Searches => found \cap run.excluded = {}
          /\ run' = [run EXCEPT
                !.pc = IF run.searches = 1 THEN "dedupe" ELSE "search",
                !.searches = @ - 1,
                !.candidates = @ \cup found]
    /\ Stay

\* One search of the store, active and not excluded; the results are pooled.
retrieve ==
    /\ run.pc = "search"
    /\ \E found \in SUBSET (vectors \ run.excluded) :
          run' = [run EXCEPT
             !.pc = IF run.searches = 1 THEN "dedupe" ELSE "search",
             !.searches = @ - 1,
             !.candidates = @ \cup found]
    /\ Stay

\* MMR keeps candidates that still have a vector; with none left, or with a
\* single candidate, it keeps what came in.
mmr_dedupe ==
    LET embedded == run.candidates \cap vectors
        pool == IF Cardinality(run.candidates) <= 1 \/ embedded = {}
                THEN run.candidates ELSE embedded
    IN
    /\ run.pc = "dedupe"
    /\ \E kept \in SUBSET pool :
          /\ Cardinality(kept) <= MaxCandidates
          /\ kept = pool \/ Cardinality(kept) = MaxCandidates
          /\ run' = [run EXCEPT !.pc = "grade", !.candidates = kept]
    /\ Stay

\* SLIP of GradeFails: searched again as before, and that is not counted.
GradeFailsUncounted ==
    /\ run.pc = "grade"
    /\ run' = [run EXCEPT
          !.pc = IF run.loops >= MaxRefineLoops THEN "rerank" ELSE "search",
          !.searches = Searches]
    /\ Stay

\* Too few, too dissimilar or too uniform: refined at most MaxRefineLoops times.
GradeFails ==
    /\ run.pc = "grade"
    /\ run' = [run EXCEPT
          !.pc = IF run.loops >= MaxRefineLoops THEN "rerank" ELSE "refine"]
    /\ Stay

GradePasses ==
    /\ run.pc = "grade"
    /\ Cardinality(run.candidates) >= MinCandidates
    /\ run' = [run EXCEPT !.pc = "rerank"]
    /\ Stay

\* New queries; retrieval starts over.
refine ==
    /\ run.pc = "refine"
    /\ run' = [run EXCEPT
          !.pc = "search", !.searches = Searches, !.candidates = {},
          !.loops = @ + 1, !.again = FALSE,
          !.calls = @ + 1, !.tokens = @ + 1]
    /\ Stay

\* The best TopN by fused score, without those deleted in the meantime.
rerank ==
    /\ run.pc = "rerank"
    /\ \E top \in SUBSET run.candidates :
          /\ Cardinality(top) <= TopN
          /\ top = run.candidates \/ Cardinality(top) = TopN
          /\ run' = [run EXCEPT !.pc = "generate", !.reranked = top \cap catalog]
    /\ Stay

\* SLIP of NoCandidates: the state says nothing of the missing answer.
NoCandidatesUnsaid ==
    /\ run.pc = "generate"
    /\ run.reranked = {}
    /\ run' = [run EXCEPT !.pc = "record"]
    /\ Stay

\* Nothing to recommend: no call is made.
NoCandidates ==
    /\ run.pc = "generate"
    /\ run.reranked = {}
    /\ run' = [run EXCEPT !.pc = "record", !.failed = TRUE]
    /\ Stay

\* SLIP of GroundedAnswer: one product of the candidate set is enough.
AnyCandidateWillDo(items, twice) ==
    /\ run.pc = "generate"
    /\ run.reranked # {}
    /\ items \cap run.reranked # {}
    /\ run' = [run EXCEPT
          !.pc = "save", !.cited = items, !.repeats = twice, !.again = FALSE,
          !.calls = @ + 1, !.tokens = @ + 1]
    /\ Stay

\* Every cited id is in the candidate set.
GroundedAnswer(items, twice) ==
    /\ run.pc = "generate"
    /\ run.reranked # {}
    /\ items \subseteq run.reranked
    /\ run' = [run EXCEPT
          !.pc = "save", !.cited = items, !.repeats = twice, !.again = FALSE,
          !.calls = @ + 1, !.tokens = @ + 1]
    /\ Stay

\* SLIP of UngroundedAnswer: the usage of a refused answer is written over.
UngroundedForgotten(items, twice) ==
    /\ run.pc = "generate"
    /\ run.reranked # {}
    /\ ~(items \subseteq run.reranked)
    /\ run' = [run EXCEPT
          !.pc = IF run.noted THEN "record" ELSE "generate",
          !.failed = run.noted, !.noted = TRUE,
          !.cited = items, !.repeats = twice, !.again = FALSE,
          !.calls = @ + 1]
    /\ Stay

\* Some id is not: asked once more with a note, then given up.
UngroundedAnswer(items, twice) ==
    /\ run.pc = "generate"
    /\ run.reranked # {}
    /\ ~(items \subseteq run.reranked)
    /\ run' = [run EXCEPT
          !.pc = IF run.noted THEN "record" ELSE "generate",
          !.failed = run.noted, !.noted = TRUE,
          !.cited = items, !.repeats = twice, !.again = FALSE,
          !.calls = @ + 1, !.tokens = @ + 1]
    /\ Stay

Calling == run.pc \in ChatPC /\ (run.pc = "generate" => run.reranked # {})

\* SLIP of RetryCall: the retry is retried.
RetryForever ==
    /\ Calling
    /\ run' = [run EXCEPT !.again = TRUE, !.calls = @ + 1]
    /\ Stay

\* complete_json: truncated or not the schema; once more, usage forgotten.
RetryCall ==
    /\ Calling
    /\ ~run.again
    /\ run' = [run EXCEPT !.again = TRUE, !.calls = @ + 1]
    /\ Stay

\* The same after the retry: ParseFailure, handled by generate only.
ParseFails ==
    /\ Calling
    /\ run.again
    /\ run' = [run EXCEPT
          !.pc = IF run.pc = "generate" THEN "record" ELSE "handler",
          !.failed = TRUE, !.calls = @ + 1]
    /\ Stay

\* The gateway refuses, times out or has no balance left.
CallFails ==
    /\ Calling
    /\ run' = [run EXCEPT !.pc = "handler", !.calls = @ + 1]
    /\ Stay

\* An embedding or a database call raises inside the graph.
NodeRaises ==
    /\ run.pc \in {"load", "load_current", "search", "dedupe", "rerank",
                   "save", "record"}
    /\ run' = [run EXCEPT !.pc = "handler"]
    /\ Stay

\* The persist transaction; (rec_id, product_id) is the key of the items, so
\* an answer that cites a product twice does not get through.
persist_recommendation ==
    /\ run.pc = "save"
    /\ ~run.repeats
    /\ current' = run.cited
    /\ run' = [run EXCEPT !.pc = "record"]
    /\ UNCHANGED <<catalog, vectors, taken, edits>>

\* The evidence row of a run that came to its end, with what the state holds.
insert_agent_run ==
    /\ run.pc = "record"
    /\ run' = [run EXCEPT !.pc = "idle", !.logged = run.tokens]
    /\ Stay

\* run_agent's handlers: a row with the error and without tokens.
RecordFailure ==
    /\ run.pc = "handler"
    /\ run' = [run EXCEPT !.pc = "idle", !.failed = TRUE]
    /\ Stay

\* That row cannot be written, or reading the profile raised before the try.
run_agent_raises ==
    /\ run.pc \in {"load", "handler"}
    /\ run' = [run EXCEPT !.pc = "raised", !.failed = TRUE]
    /\ Stay

Answers ==
    \E items \in SUBSET (Products \cup MadeUp), twice \in BOOLEAN :
        /\ items # {}
        /\ Cardinality(items) <= MaxItems
        /\ twice => Cardinality(items) < MaxItems
        /\ GroundedAnswer(items, twice) \/ UngroundedAnswer(items, twice)

RunStep ==
    \/ load_signals \/ current_recommendation_product_ids \/ analyze_intent
    \/ retrieve \/ mmr_dedupe \/ GradeFails \/ GradePasses \/ refine \/ rerank
    \/ NoCandidates \/ Answers \/ RetryCall \/ ParseFails \/ CallFails
    \/ NodeRaises \/ persist_recommendation \/ insert_agent_run
    \/ RecordFailure \/ run_agent_raises

Next ==
    \/ StartRun
    \/ RunStep
    \/ \E p \in Products :
          RemoveProduct(p) \/ DrainProduct(p) \/ TakeProduct(p)

Spec == Init /\ [][Next]_vars

\* A run that has started goes on: every call to Mesh has a timeout, and so
\* has every connection.  Nobody has to start one.
FairSpec == Spec /\ WF_vars(RunStep)

-----------------------------------------------------------------------------
(* Properties.                                                             *)

\* Every variable keeps its shape.
TypeOK ==
    /\ catalog \subseteq Products
    /\ vectors \subseteq Products
    /\ taken \subseteq Products
    /\ current \subseteq Products \cup MadeUp
    /\ run \in RunState
    /\ edits \in 0..MaxEdits

\* Whatever the model makes up, in the first answer or in the one after the
\* note: what is shown to the user are products.
NothingMadeUp == current \subseteq Products

\* What is saved was retrieved, and no product that was dismissed, owned, just
\* viewed or (after a count trigger) on display when the run began comes back,
\* through any number of searches and refinements.
ExclusionsHonoured ==
    run.pc = "save" => run.cited \cap run.excluded = {}

\* The most chat calls one run may cost: two for each question asked, which
\* are the intent, the refinements, the answer and the answer after a note.
CallBudget == run.calls <= 2 * (3 + MaxRefineLoops)

\* The usage of a call that complete_json repeats is dropped, that of a refused
\* answer is kept: when the evidence row says that a run succeeded, the calls it
\* accounts for are at least half of those that were paid for.
LogCoversHalf ==
    run.pc = "idle" /\ ~run.failed =>
        run.logged <= run.calls /\ run.calls <= 2 * run.logged

\* Every run ends, however its calls are answered.
EveryRunEnds == run.pc \notin {"idle", "raised"} ~> run.pc \in {"idle", "raised"}

-----------------------------------------------------------------------------
(* What the callers of run_agent may rely on.                              *)

\* How far the call is, as its caller will learn: an exception on its way to
\* the handlers, or past them, can no longer be anything but a failure.
Outcome ==
    IF run.pc \in {"handler", "raised"} THEN "failed"
    ELSE IF run.pc = "record"
    THEN IF run.failed THEN "open" ELSE "replaced"
    ELSE IF run.pc # "idle" THEN "open"
    ELSE IF run.failed THEN "failed"
    ELSE IF run.cited = {} THEN "none" ELSE "succeeded"

Contract == INSTANCE AgentContract WITH shown <- current, call <- Outcome

\* Whatever the gateway, the model and the database do in whichever node: a
\* run replaces the recommendation at most once, never by nothing, and one
\* that is recorded as a success has replaced it.
KeepsContract == Contract!Spec

-----------------------------------------------------------------------------
(* Why they hold.                                                          *)

Preparing == run.pc \in {"load", "load_current", "analyze"}

Retrieving == run.pc \in {"search", "dedupe", "grade", "refine", "rerank"}

\* From the candidates to the answer nothing is added.
Grounded ==
    /\ Preparing => run.candidates = {}
    /\ Retrieving => run.candidates \cap run.excluded = {}
    /\ run.pc \in {"generate", "save"} => run.reranked \cap run.excluded = {}
    /\ run.pc = "save" => run.cited \subseteq run.reranked

\* A retry is under way only in a chat call, a note only in generate.
CallShape ==
    /\ run.again => run.pc \notin {"load", "load_current", "search", "dedupe",
                                  "grade", "rerank"}
    /\ run.noted => ~Preparing /\ ~Retrieving
    /\ run.pc = "refine" => run.loops < MaxRefineLoops
    /\ run.pc = "search" => run.searches > 0

Half == IF run.again THEN 1 ELSE 0

\* The budget, question by question.
BudgetSoFar ==
    /\ Preparing => run.calls <= Half
    /\ Retrieving => run.calls <= 2 * (1 + run.loops) + Half
    /\ run.pc = "generate" =>
          run.calls <= 2 * (1 + run.loops) + (IF run.noted THEN 2 ELSE 0) + Half
    /\ CallBudget

\* While a run may still succeed, one call in two is in its state.
Accounted ==
    /\ run.tokens <= run.calls
    /\ run.failed => run.pc \in {"record", "handler", "raised", "idle"}
    /\ run.pc \notin {"handler", "raised", "idle"} /\ ~run.failed =>
          run.calls <= 2 * run.tokens + Half
    /\ run.pc \in {"save", "record"} /\ ~run.failed => ~run.again
    /\ LogCoversHalf

IInv ==
    TypeOK /\ NothingMadeUp /\ Grounded /\ CallShape /\ BudgetSoFar /\ Accounted

=============================================================================
