-------------------------- MODULE AgentGraph_proofs --------------------------
(***************************************************************************)
(* Grounding, exclusions and the call budget of a run, for any catalogue,  *)
(* any answers of the model and any number of refinements.                 *)
(***************************************************************************)
EXTENDS AgentGraph, TLAPS

-----------------------------------------------------------------------------
(* Types of the run record, field by field.                                *)

LEMMA IdleRunType == IdleRun \in RunState
  BY AgentAssumption DEF IdleRun, RunState, RunPC

LEMMA FieldTypes ==
  ASSUME NEW r \in RunState
  PROVE  /\ \A v \in RunPC : [r EXCEPT !.pc = v] \in RunState
         /\ \A v \in BOOLEAN : /\ [r EXCEPT !.count = v] \in RunState
                             /\ [r EXCEPT !.repeats = v] \in RunState
                             /\ [r EXCEPT !.noted = v] \in RunState
                             /\ [r EXCEPT !.again = v] \in RunState
                             /\ [r EXCEPT !.failed = v] \in RunState
         /\ \A v \in SUBSET Products : /\ [r EXCEPT !.excluded = v] \in RunState
                                     /\ [r EXCEPT !.candidates = v] \in RunState
                                     /\ [r EXCEPT !.reranked = v] \in RunState
         /\ \A v \in SUBSET (Products \cup MadeUp) :
                [r EXCEPT !.cited = v] \in RunState
         /\ \A v \in 0..Searches : [r EXCEPT !.searches = v] \in RunState
         /\ \A v \in 0..MaxRefineLoops : [r EXCEPT !.loops = v] \in RunState
         /\ \A v \in Nat : /\ [r EXCEPT !.calls = v] \in RunState
                         /\ [r EXCEPT !.tokens = v] \in RunState
                         /\ [r EXCEPT !.logged = v] \in RunState
<1>1. \A v \in RunPC : [r EXCEPT !.pc = v] \in RunState
  BY DEF RunState
<1>2. ASSUME NEW v \in BOOLEAN
      PROVE  /\ [r EXCEPT !.count = v] \in RunState
             /\ [r EXCEPT !.repeats = v] \in RunState
             /\ [r EXCEPT !.noted = v] \in RunState
             /\ [r EXCEPT !.again = v] \in RunState
             /\ [r EXCEPT !.failed = v] \in RunState
  <2>1. [r EXCEPT !.count = v] \in RunState
    BY DEF RunState
  <2>2. [r EXCEPT !.repeats = v] \in RunState
    BY DEF RunState
  <2>3. [r EXCEPT !.noted = v] \in RunState
    BY DEF RunState
  <2>4. [r EXCEPT !.again = v] \in RunState
    BY DEF RunState
  <2>5. [r EXCEPT !.failed = v] \in RunState
    BY DEF RunState
  <2>. QED  BY <2>1, <2>2, <2>3, <2>4, <2>5
<1>3. ASSUME NEW v \in SUBSET Products
      PROVE  /\ [r EXCEPT !.excluded = v] \in RunState
             /\ [r EXCEPT !.candidates = v] \in RunState
             /\ [r EXCEPT !.reranked = v] \in RunState
  <2>1. [r EXCEPT !.excluded = v] \in RunState
    BY DEF RunState
  <2>2. [r EXCEPT !.candidates = v] \in RunState
    BY DEF RunState
  <2>3. [r EXCEPT !.reranked = v] \in RunState
    BY DEF RunState
  <2>. QED  BY <2>1, <2>2, <2>3
<1>4. \A v \in SUBSET (Products \cup MadeUp) : [r EXCEPT !.cited = v] \in RunState
  BY DEF RunState
<1>5. \A v \in 0..Searches : [r EXCEPT !.searches = v] \in RunState
  BY DEF RunState
<1>6. \A v \in 0..MaxRefineLoops : [r EXCEPT !.loops = v] \in RunState
  BY DEF RunState
<1>7. ASSUME NEW v \in Nat
      PROVE  /\ [r EXCEPT !.calls = v] \in RunState
             /\ [r EXCEPT !.tokens = v] \in RunState
             /\ [r EXCEPT !.logged = v] \in RunState
  <2>1. [r EXCEPT !.calls = v] \in RunState
    BY DEF RunState
  <2>2. [r EXCEPT !.tokens = v] \in RunState
    BY DEF RunState
  <2>3. [r EXCEPT !.logged = v] \in RunState
    BY DEF RunState
  <2>. QED  BY <2>1, <2>2, <2>3
<1>. QED  BY <1>1, <1>2, <1>3, <1>4, <1>5, <1>6, <1>7

\* Every step of the graph keeps the run's type; the only bound that needs an
\* argument is that of the refinement loop.
LEMMA StepType ==
  ASSUME TypeOK, NothingMadeUp, CallShape, RunStep
  PROVE  run' \in RunState
<1>1. run \in RunState
  BY DEF TypeOK
<1>2. /\ run.calls + 1 \in Nat
      /\ run.tokens + 1 \in Nat
      /\ run.tokens \in Nat
      /\ run.searches \in 0..Searches
      /\ run.loops \in 0..MaxRefineLoops
      /\ run.candidates \in SUBSET Products
      /\ run.excluded \in SUBSET Products
      /\ run.noted \in BOOLEAN
  BY <1>1 DEF RunState
<1>3. /\ TRUE \in BOOLEAN /\ FALSE \in BOOLEAN
      /\ Searches \in 0..Searches
      /\ {} \in SUBSET Products
  BY AgentAssumption
<1>4. \A pc \in RunPC : [run EXCEPT !.pc = pc] \in RunState
  BY <1>1, FieldTypes
<1>5. CASE load_signals
  <2>1. PICK viewed \in {{}} \cup {{p} : p \in Products} :
          run' = [run EXCEPT
                    !.pc = IF run.count THEN "load_current" ELSE "analyze",
                    !.excluded = taken \cup viewed]
    BY <1>5 DEF load_signals
  <2>. DEFINE pc == IF run.count THEN "load_current" ELSE "analyze"
  <2>2. pc \in RunPC /\ taken \cup viewed \in SUBSET Products
    BY DEF RunPC, TypeOK
  <2>3. run' = [[run EXCEPT !.pc = pc] EXCEPT !.excluded = taken \cup viewed]
    BY <2>1
  <2>. HIDE DEF pc
  <2>. QED  BY <1>4, <2>2, <2>3, FieldTypes, Zenon
<1>6. CASE current_recommendation_product_ids
  <2>1. run.excluded \cup current \in SUBSET Products
    BY <1>2, <1>6 DEF current_recommendation_product_ids, NothingMadeUp
  <2>2. run' = [[run EXCEPT !.pc = "analyze"]
                 EXCEPT !.excluded = run.excluded \cup current]
    BY <1>6 DEF current_recommendation_product_ids
  <2>. QED  BY <1>4, <2>1, <2>2, FieldTypes, Zenon DEF RunPC
<1>7. CASE analyze_intent
  <2>1. run' = [[[[[run EXCEPT !.pc = "search"] EXCEPT !.searches = Searches]
                   EXCEPT !.again = FALSE] EXCEPT !.calls = run.calls + 1]
                 EXCEPT !.tokens = run.tokens + 1]
    BY <1>7 DEF analyze_intent
  <2>. QED  BY <1>2, <1>3, <1>4, <2>1, FieldTypes, Zenon DEF RunPC
<1>8. CASE retrieve
  <2>1. PICK found \in SUBSET (vectors \ run.excluded) :
          run' = [run EXCEPT
                    !.pc = IF run.searches = 1 THEN "dedupe" ELSE "search",
                    !.searches = @ - 1,
                    !.candidates = @ \cup found]
    BY <1>8 DEF retrieve
  <2>. DEFINE pc == IF run.searches = 1 THEN "dedupe" ELSE "search"
  <2>2. pc \in RunPC /\ run.candidates \cup found \in SUBSET Products
    BY <1>2 DEF RunPC, TypeOK
  <2>3. run.searches - 1 \in 0..Searches
    BY <1>2, <1>8, AgentAssumption DEF retrieve, CallShape
  <2>4. run' = [[[run EXCEPT !.pc = pc] EXCEPT !.searches = run.searches - 1]
                 EXCEPT !.candidates = run.candidates \cup found]
    BY <2>1
  <2>. HIDE DEF pc
  <2>. QED  BY <1>4, <2>2, <2>3, <2>4, FieldTypes, Zenon
<1>9. CASE mmr_dedupe
  <2>1. PICK kept \in SUBSET run.candidates :
          run' = [run EXCEPT !.pc = "grade", !.candidates = kept]
    BY <1>9 DEF mmr_dedupe
  <2>2. kept \in SUBSET Products
    BY <1>2
  <2>3. run' = [[run EXCEPT !.pc = "grade"] EXCEPT !.candidates = kept]
    BY <2>1
  <2>. QED  BY <1>4, <2>2, <2>3, FieldTypes, Zenon DEF RunPC
<1>10. CASE GradeFails \/ GradePasses
  BY <1>4, <1>10 DEF GradeFails, GradePasses, RunPC
<1>11. CASE refine
  <2>1. run.loops + 1 \in 0..MaxRefineLoops
    BY <1>2, <1>11, AgentAssumption DEF refine, CallShape
  <2>2. run' = [[[[[[[run EXCEPT !.pc = "search"] EXCEPT !.searches = Searches]
                     EXCEPT !.candidates = {}] EXCEPT !.loops = run.loops + 1]
                   EXCEPT !.again = FALSE] EXCEPT !.calls = run.calls + 1]
                 EXCEPT !.tokens = run.tokens + 1]
    BY <1>11 DEF refine
  <2>. QED  BY <1>2, <1>3, <1>4, <2>1, <2>2, FieldTypes, Zenon DEF RunPC
<1>12. CASE rerank
  <2>1. PICK top \in SUBSET run.candidates :
          run' = [run EXCEPT !.pc = "generate", !.reranked = top \cap catalog]
    BY <1>12 DEF rerank
  <2>2. top \cap catalog \in SUBSET Products
    BY <1>2
  <2>3. run' = [[run EXCEPT !.pc = "generate"]
                 EXCEPT !.reranked = top \cap catalog]
    BY <2>1
  <2>. QED  BY <1>4, <2>2, <2>3, FieldTypes, Zenon DEF RunPC
<1>13. CASE NoCandidates
  <2>1. run' = [[run EXCEPT !.pc = "record"] EXCEPT !.failed = TRUE]
    BY <1>13 DEF NoCandidates
  <2>. QED  BY <1>3, <1>4, <2>1, FieldTypes, Zenon DEF RunPC
<1>14. ASSUME NEW items \in SUBSET (Products \cup MadeUp), NEW twice \in BOOLEAN,
              GroundedAnswer(items, twice)
       PROVE  run' \in RunState
  <2>1. run' = [[[[[[run EXCEPT !.pc = "save"] EXCEPT !.cited = items]
                    EXCEPT !.repeats = twice] EXCEPT !.again = FALSE]
                  EXCEPT !.calls = run.calls + 1]
                EXCEPT !.tokens = run.tokens + 1]
    BY <1>14 DEF GroundedAnswer
  <2>. QED  BY <1>2, <1>3, <1>4, <2>1, FieldTypes, Zenon DEF RunPC
<1>15. ASSUME NEW items \in SUBSET (Products \cup MadeUp), NEW twice \in BOOLEAN,
              UngroundedAnswer(items, twice)
       PROVE  run' \in RunState
  <2>. DEFINE pc == IF run.noted THEN "record" ELSE "generate"
  <2>1. run' = [[[[[[[[run EXCEPT !.pc = pc] EXCEPT !.failed = run.noted]
                      EXCEPT !.noted = TRUE] EXCEPT !.cited = items]
                    EXCEPT !.repeats = twice] EXCEPT !.again = FALSE]
                  EXCEPT !.calls = run.calls + 1]
                EXCEPT !.tokens = run.tokens + 1]
    BY <1>15 DEF UngroundedAnswer
  <2>2. pc \in RunPC
    BY DEF RunPC
  <2>. HIDE DEF pc
  <2>. QED  BY <1>2, <1>3, <1>4, <2>1, <2>2, FieldTypes, Zenon
<1>16. CASE RetryCall
  <2>1. [run EXCEPT !.again = TRUE] \in RunState
    BY <1>1, FieldTypes
  <2>2. run' = [[run EXCEPT !.again = TRUE] EXCEPT !.calls = run.calls + 1]
    BY <1>16 DEF RetryCall
  <2>. QED  BY <1>2, <2>1, <2>2, FieldTypes, Zenon
<1>17. CASE ParseFails
  <2>. DEFINE pc == IF run.pc = "generate" THEN "record" ELSE "handler"
  <2>1. run' = [[[run EXCEPT !.pc = pc] EXCEPT !.failed = TRUE]
                EXCEPT !.calls = run.calls + 1]
    BY <1>17 DEF ParseFails
  <2>2. pc \in RunPC
    BY DEF RunPC
  <2>. HIDE DEF pc
  <2>. QED  BY <1>2, <1>3, <1>4, <2>1, <2>2, FieldTypes, Zenon
<1>18. CASE CallFails
  <2>1. run' = [[run EXCEPT !.pc = "handler"] EXCEPT !.calls = run.calls + 1]
    BY <1>18 DEF CallFails
  <2>. QED  BY <1>2, <1>4, <2>1, FieldTypes, Zenon DEF RunPC
<1>19. CASE NodeRaises \/ persist_recommendation
  BY <1>4, <1>19 DEF NodeRaises, persist_recommendation, RunPC
<1>20. CASE insert_agent_run
  <2>1. run' = [[run EXCEPT !.pc = "idle"] EXCEPT !.logged = run.tokens]
    BY <1>20 DEF insert_agent_run
  <2>. QED  BY <1>2, <1>4, <2>1, FieldTypes, Zenon DEF RunPC
<1>21. CASE RecordFailure
  <2>1. run' = [[run EXCEPT !.pc = "idle"] EXCEPT !.failed = TRUE]
    BY <1>21 DEF RecordFailure
  <2>. QED  BY <1>3, <1>4, <2>1, FieldTypes, Zenon DEF RunPC
<1>22. CASE run_agent_raises
  <2>1. run' = [[run EXCEPT !.pc = "raised"] EXCEPT !.failed = TRUE]
    BY <1>22 DEF run_agent_raises
  <2>. QED  BY <1>3, <1>4, <2>1, FieldTypes, Zenon DEF RunPC
<1>. QED  BY <1>5, <1>6, <1>7, <1>8, <1>9, <1>10, <1>11, <1>12, <1>13, <1>14,
             <1>15, <1>16, <1>17, <1>18, <1>19, <1>20, <1>21, <1>22
          DEF RunStep, Answers
-----------------------------------------------------------------------------
(* The inductive invariant.                                                *)

\* Steps outside the graph leave the run alone.
LEMMA EditStep ==
  ASSUME IInv,
         \E p \in Products :
             RemoveProduct(p) \/ DrainProduct(p) \/ TakeProduct(p)
  PROVE  IInv'
<1>1. PICK p \in Products :
        RemoveProduct(p) \/ DrainProduct(p) \/ TakeProduct(p)
  OBVIOUS
<1>2. TypeOK'
  BY <1>1, AgentAssumption
     DEF RemoveProduct, DrainProduct, TakeProduct, Edit, IInv, TypeOK
<1>3. run' = run /\ current' = current
  BY <1>1 DEF RemoveProduct, DrainProduct, TakeProduct
<1>4. NothingMadeUp' /\ Grounded' /\ CallShape' /\ BudgetSoFar' /\ Accounted'
  BY <1>3 DEF IInv, NothingMadeUp, Grounded, CallShape, BudgetSoFar, CallBudget,
              Accounted, LogCoversHalf, Half, Preparing, Retrieving
<1>. QED  BY <1>2, <1>4 DEF IInv

LEMMA StartStep ==
  ASSUME IInv, StartRun
  PROVE  IInv'
<1>1. PICK c \in BOOLEAN : run' = [IdleRun EXCEPT !.pc = "load", !.count = c]
  BY DEF StartRun
<1>2. run' = [[IdleRun EXCEPT !.pc = "load"] EXCEPT !.count = c]
  BY <1>1
<1>3. run' \in RunState
  BY <1>2, IdleRunType, FieldTypes, Zenon DEF RunPC
<1>4. TypeOK' /\ NothingMadeUp'
  BY <1>3 DEF StartRun, Stay, IInv, TypeOK, NothingMadeUp
<1>5. /\ run'.pc = "load" /\ run'.candidates = {} /\ run'.calls = 0
      /\ run'.tokens = 0 /\ run'.failed = FALSE
      /\ run'.again = FALSE /\ run'.noted = FALSE
  BY <1>1 DEF IdleRun
<1>6. Grounded' /\ CallShape' /\ BudgetSoFar' /\ Accounted'
  BY <1>5, AgentAssumption DEF Grounded, CallShape, BudgetSoFar, CallBudget,
                               Accounted, LogCoversHalf, Half, Preparing, Retrieving
<1>. QED  BY <1>4, <1>6 DEF IInv

LEMMA GroundedStep ==
  ASSUME IInv, RunStep
  PROVE  Grounded'
<1>. USE DEF IInv, Grounded, Preparing, Retrieving
<1>1. run \in RunState
  BY DEF TypeOK
<1>2. CASE load_signals
  BY <1>1, <1>2 DEF load_signals, RunState
<1>3. CASE current_recommendation_product_ids
  BY <1>1, <1>3 DEF current_recommendation_product_ids, RunState
<1>4. CASE analyze_intent
  BY <1>1, <1>4 DEF analyze_intent, RunState
<1>5. CASE retrieve
  BY <1>1, <1>5 DEF retrieve, RunState
<1>6. CASE mmr_dedupe
  <2>1. PICK kept \in SUBSET run.candidates :
          run' = [run EXCEPT !.pc = "grade", !.candidates = kept]
    BY <1>6 DEF mmr_dedupe
  <2>. QED  BY <1>1, <1>6, <2>1 DEF mmr_dedupe, RunState
<1>7. CASE GradeFails \/ GradePasses
  BY <1>1, <1>7 DEF GradeFails, GradePasses, RunState
<1>8. CASE refine
  BY <1>1, <1>8 DEF refine, RunState
<1>9. CASE rerank
  <2>1. PICK top \in SUBSET run.candidates :
          run' = [run EXCEPT !.pc = "generate", !.reranked = top \cap catalog]
    BY <1>9 DEF rerank
  <2>. QED  BY <1>1, <1>9, <2>1 DEF rerank, RunState
<1>10. CASE NoCandidates
  BY <1>1, <1>10 DEF NoCandidates, RunState
<1>11. ASSUME NEW items \in SUBSET (Products \cup MadeUp), NEW twice \in BOOLEAN,
              GroundedAnswer(items, twice)
       PROVE  Grounded'
  BY <1>1, <1>11 DEF GroundedAnswer, RunState
<1>12. ASSUME NEW items \in SUBSET (Products \cup MadeUp), NEW twice \in BOOLEAN,
              UngroundedAnswer(items, twice)
       PROVE  Grounded'
  BY <1>1, <1>12 DEF UngroundedAnswer, RunState
<1>13. CASE RetryCall
  BY <1>1, <1>13 DEF RetryCall, RunState
<1>14. CASE ParseFails \/ CallFails \/ NodeRaises
  <2>1. CASE ParseFails
    <3>1. run'.pc \in {"record", "handler"}
      BY <1>1, <2>1 DEF ParseFails, RunState
    <3>. QED  BY <3>1
  <2>2. CASE CallFails
    <3>1. run'.pc = "handler"
      BY <1>1, <2>2 DEF CallFails, RunState
    <3>. QED  BY <3>1
  <2>3. CASE NodeRaises
    <3>1. run'.pc = "handler"
      BY <1>1, <2>3 DEF NodeRaises, RunState
    <3>. QED  BY <3>1
  <2>. QED  BY <1>14, <2>1, <2>2, <2>3
<1>15. CASE persist_recommendation \/ insert_agent_run
  BY <1>1, <1>15 DEF persist_recommendation, insert_agent_run, RunState
<1>16. CASE RecordFailure \/ run_agent_raises
  BY <1>1, <1>16 DEF RecordFailure, run_agent_raises, RunState
<1>. QED  BY <1>2, <1>3, <1>4, <1>5, <1>6, <1>7, <1>8, <1>9, <1>10, <1>11, <1>12,
             <1>13, <1>14, <1>15, <1>16 DEF RunStep, Answers

LEMMA CallShapeStep ==
  ASSUME IInv, RunStep
  PROVE  CallShape'
<1>. USE DEF IInv, CallShape, Preparing, Retrieving
<1>1. run \in RunState
  BY DEF TypeOK
<1>2. CASE load_signals \/ current_recommendation_product_ids
  BY <1>1, <1>2 DEF load_signals, current_recommendation_product_ids, RunState
<1>3. CASE analyze_intent
  BY <1>1, <1>3, AgentAssumption DEF analyze_intent, RunState
<1>4. CASE retrieve
  <2>1. run.searches \in 0..Searches
    BY <1>1 DEF RunState
  <2>. QED  BY <1>1, <1>4, <2>1, AgentAssumption DEF retrieve, RunState
<1>5. CASE mmr_dedupe
  BY <1>1, <1>5 DEF mmr_dedupe, RunState
<1>6. CASE GradeFails \/ GradePasses
  <2>1. run.loops \in 0..MaxRefineLoops
    BY <1>1 DEF RunState
  <2>. QED  BY <1>1, <1>6, <2>1, AgentAssumption DEF GradeFails, GradePasses, RunState
<1>7. CASE refine
  BY <1>1, <1>7, AgentAssumption DEF refine, RunState
<1>8. CASE rerank \/ NoCandidates
  BY <1>1, <1>8 DEF rerank, NoCandidates, RunState
<1>9. ASSUME NEW items \in SUBSET (Products \cup MadeUp), NEW twice \in BOOLEAN,
             GroundedAnswer(items, twice) \/ UngroundedAnswer(items, twice)
      PROVE  CallShape'
  <2>1. CASE GroundedAnswer(items, twice)
    BY <1>1, <2>1 DEF GroundedAnswer, RunState
  <2>2. CASE UngroundedAnswer(items, twice)
    BY <1>1, <2>2 DEF UngroundedAnswer, RunState
  <2>. QED  BY <1>9, <2>1, <2>2
<1>10. CASE RetryCall
  BY <1>1, <1>10 DEF RetryCall, Calling, ChatPC, RunState
<1>11. CASE ParseFails \/ CallFails \/ NodeRaises
  BY <1>1, <1>11 DEF ParseFails, CallFails, NodeRaises, RunState
<1>12. CASE persist_recommendation \/ insert_agent_run
  BY <1>1, <1>12 DEF persist_recommendation, insert_agent_run, RunState
<1>13. CASE RecordFailure \/ run_agent_raises
  BY <1>1, <1>13 DEF RecordFailure, run_agent_raises, RunState
<1>. QED  BY <1>2, <1>3, <1>4, <1>5, <1>6, <1>7, <1>8, <1>9, <1>10, <1>11, <1>12,
             <1>13 DEF RunStep, Answers

LEMMA BudgetStep ==
  ASSUME IInv, RunStep
  PROVE  BudgetSoFar'
<1>. USE DEF IInv, CallShape, BudgetSoFar, CallBudget, Half, Preparing, Retrieving
<1>1. /\ run \in RunState
      /\ run.calls \in Nat
      /\ run.loops \in 0..MaxRefineLoops
      /\ MaxRefineLoops \in Nat
  BY AgentAssumption DEF TypeOK, RunState
<1>2. CASE load_signals \/ current_recommendation_product_ids
  BY <1>1, <1>2 DEF load_signals, current_recommendation_product_ids, RunState
<1>3. CASE analyze_intent
  BY <1>1, <1>3 DEF analyze_intent, RunState
<1>4. CASE retrieve
  <2>1. /\ run.pc = "search" /\ run'.pc \in {"dedupe", "search"}
        /\ run'.loops = run.loops /\ run'.again = run.again
        /\ run'.calls = run.calls
    BY <1>1, <1>4 DEF retrieve, RunState
  <2>. QED  BY <1>1, <2>1
<1>5. CASE mmr_dedupe \/ rerank
  <2>1. /\ run'.pc \in {"grade", "generate"}
        /\ run'.loops = run.loops /\ run'.again = run.again
        /\ run'.calls = run.calls /\ run'.noted = run.noted
    <3>1. CASE mmr_dedupe
      BY <1>1, <3>1 DEF mmr_dedupe, RunState
    <3>2. CASE rerank
      BY <1>1, <3>2 DEF rerank, RunState
    <3>. QED  BY <1>5, <3>1, <3>2
  <2>2. Retrieving
    BY <1>5 DEF mmr_dedupe, rerank
  <2>. QED  BY <1>1, <2>1, <2>2
<1>6. CASE GradeFails \/ GradePasses
  BY <1>1, <1>6 DEF GradeFails, GradePasses, RunState
<1>7. CASE refine
  BY <1>1, <1>7 DEF refine, RunState
<1>8. CASE NoCandidates
  BY <1>1, <1>8 DEF NoCandidates, RunState
<1>9. ASSUME NEW items \in SUBSET (Products \cup MadeUp), NEW twice \in BOOLEAN,
             GroundedAnswer(items, twice)
      PROVE  BudgetSoFar'
  BY <1>1, <1>9 DEF GroundedAnswer, RunState
<1>10. ASSUME NEW items \in SUBSET (Products \cup MadeUp), NEW twice \in BOOLEAN,
              UngroundedAnswer(items, twice)
       PROVE  BudgetSoFar'
  BY <1>1, <1>10 DEF UngroundedAnswer, RunState
<1>11. CASE RetryCall
  BY <1>1, <1>11 DEF RetryCall, Calling, ChatPC, RunState
<1>12. CASE ParseFails
  BY <1>1, <1>12 DEF ParseFails, Calling, ChatPC, RunState
<1>13. CASE CallFails
  BY <1>1, <1>13 DEF CallFails, Calling, ChatPC, RunState
<1>14. CASE NodeRaises
  BY <1>1, <1>14 DEF NodeRaises, RunState
<1>15. CASE persist_recommendation \/ insert_agent_run
  BY <1>1, <1>15 DEF persist_recommendation, insert_agent_run, RunState
<1>16. CASE RecordFailure \/ run_agent_raises
  BY <1>1, <1>16 DEF RecordFailure, run_agent_raises, RunState
<1>. QED  BY <1>2, <1>3, <1>4, <1>5, <1>6, <1>7, <1>8, <1>9, <1>10, <1>11, <1>12,
             <1>13, <1>14, <1>15, <1>16 DEF RunStep, Answers

LEMMA AccountedStep ==
  ASSUME IInv, RunStep
  PROVE  Accounted'
<1>. USE DEF IInv, CallShape, Accounted, LogCoversHalf, Half, Preparing, Retrieving
<1>1. /\ run \in RunState
      /\ run.calls \in Nat
      /\ run.tokens \in Nat
      /\ run.logged \in Nat
      /\ run.failed \in BOOLEAN
  BY DEF TypeOK, RunState
<1>2. CASE load_signals \/ current_recommendation_product_ids
  BY <1>1, <1>2 DEF load_signals, current_recommendation_product_ids, RunState
<1>3. CASE analyze_intent
  BY <1>1, <1>3 DEF analyze_intent, RunState
<1>4. CASE retrieve \/ mmr_dedupe \/ rerank
  <2>1. /\ run.pc \in {"search", "dedupe", "rerank"}
        /\ run'.pc \in {"search", "dedupe", "grade", "generate"}
        /\ run'.failed = run.failed /\ run'.again = run.again
        /\ run'.calls = run.calls /\ run'.tokens = run.tokens
        /\ run'.logged = run.logged
    <3>1. CASE retrieve
      BY <1>1, <3>1 DEF retrieve, RunState
    <3>2. CASE mmr_dedupe
      BY <1>1, <3>2 DEF mmr_dedupe, RunState
    <3>3. CASE rerank
      BY <1>1, <3>3 DEF rerank, RunState
    <3>. QED  BY <1>4, <3>1, <3>2, <3>3
  <2>. QED  BY <1>1, <2>1
<1>6. CASE GradeFails \/ GradePasses
  BY <1>1, <1>6 DEF GradeFails, GradePasses, RunState
<1>7. CASE refine
  BY <1>1, <1>7 DEF refine, RunState
<1>8. CASE NoCandidates
  BY <1>1, <1>8 DEF NoCandidates, RunState
<1>9. ASSUME NEW items \in SUBSET (Products \cup MadeUp), NEW twice \in BOOLEAN,
             GroundedAnswer(items, twice)
      PROVE  Accounted'
  BY <1>1, <1>9 DEF GroundedAnswer, RunState
<1>10. ASSUME NEW items \in SUBSET (Products \cup MadeUp), NEW twice \in BOOLEAN,
              UngroundedAnswer(items, twice)
       PROVE  Accounted'
  <2>1. /\ run.pc = "generate"
        /\ run'.pc = IF run.noted THEN "record" ELSE "generate"
        /\ run'.failed = run.noted /\ run'.again = FALSE
        /\ run'.tokens = run.tokens + 1 /\ run'.calls = run.calls + 1
    BY <1>1, <1>10 DEF UngroundedAnswer, RunState
  <2>2. CASE run.noted
    BY <1>1, <2>1, <2>2
  <2>3. CASE ~run.noted
    BY <1>1, <2>1, <2>3
  <2>. QED  BY <1>1, <2>1, <2>2, <2>3
<1>11. CASE RetryCall
  BY <1>1, <1>11 DEF RetryCall, Calling, ChatPC, RunState
<1>12. CASE ParseFails \/ CallFails
  <2>1. /\ run'.tokens = run.tokens /\ run'.calls = run.calls + 1
        /\ \/ run'.pc = "record" /\ run'.failed = TRUE
           \/ run'.pc = "handler"
    <3>1. CASE ParseFails
      BY <1>1, <3>1 DEF ParseFails, RunState
    <3>2. CASE CallFails
      BY <1>1, <3>2 DEF CallFails, RunState
    <3>. QED  BY <1>12, <3>1, <3>2
  <2>. QED  BY <1>1, <2>1
<1>13. CASE NodeRaises
  <2>1. /\ run'.pc = "handler" /\ run'.failed = run.failed
        /\ run'.tokens = run.tokens /\ run'.calls = run.calls
    BY <1>1, <1>13 DEF NodeRaises, RunState
  <2>. QED  BY <1>1, <2>1
<1>14. CASE persist_recommendation \/ insert_agent_run
  <2>1. CASE persist_recommendation
    <3>1. /\ run.pc = "save" /\ run'.pc = "record"
          /\ run'.failed = run.failed /\ run'.again = run.again
          /\ run'.tokens = run.tokens /\ run'.calls = run.calls
      BY <1>1, <2>1 DEF persist_recommendation, RunState
    <3>. QED  BY <1>1, <3>1
  <2>2. CASE insert_agent_run
    <3>1. /\ run.pc = "record" /\ run'.pc = "idle"
          /\ run'.failed = run.failed /\ run'.logged = run.tokens
          /\ run'.tokens = run.tokens /\ run'.calls = run.calls
      BY <1>1, <2>2 DEF insert_agent_run, RunState
    <3>. QED  BY <1>1, <3>1
  <2>. QED  BY <1>14, <2>1, <2>2
<1>15. CASE RecordFailure \/ run_agent_raises
  BY <1>1, <1>15 DEF RecordFailure, run_agent_raises, RunState
<1>. QED  BY <1>2, <1>3, <1>4, <1>6, <1>7, <1>8, <1>9, <1>10, <1>11, <1>12, <1>13,
             <1>14, <1>15 DEF RunStep, Answers

\* Only a grounded answer becomes the recommendation.
LEMMA PersistStep ==
  ASSUME IInv, RunStep
  PROVE  /\ UNCHANGED <<catalog, vectors, taken, edits>>
         /\ current' \subseteq Products
<1>1. CASE persist_recommendation
  <2>1. run.cited \subseteq run.reranked /\ run.reranked \subseteq Products
    BY <1>1 DEF persist_recommendation, IInv, Grounded, TypeOK, RunState
  <2>. QED  BY <1>1, <2>1 DEF persist_recommendation
<1>2. CASE Stay
  BY <1>2 DEF Stay, IInv, NothingMadeUp
<1>. QED  BY <1>1, <1>2
          DEF RunStep, Answers, load_signals, current_recommendation_product_ids,
              analyze_intent, retrieve, mmr_dedupe, GradeFails, GradePasses,
              refine, rerank, NoCandidates, GroundedAnswer, UngroundedAnswer,
              RetryCall, ParseFails, CallFails, NodeRaises, insert_agent_run,
              RecordFailure, run_agent_raises

THEOREM InitIInv == Init => IInv
<1>. SUFFICES ASSUME Init  PROVE IInv
  OBVIOUS
<1>1. TypeOK /\ NothingMadeUp
  BY IdleRunType, AgentAssumption DEF Init, TypeOK, NothingMadeUp
<1>2. /\ run.pc = "idle" /\ run.again = FALSE /\ run.noted = FALSE
      /\ run.calls = 0 /\ run.tokens = 0 /\ run.logged = 0
  BY DEF Init, IdleRun
<1>3. Grounded /\ CallShape /\ BudgetSoFar /\ Accounted
  BY <1>2, AgentAssumption DEF Grounded, CallShape, BudgetSoFar, CallBudget,
                               Accounted, LogCoversHalf, Half, Preparing, Retrieving
<1>. QED  BY <1>1, <1>3 DEF IInv

THEOREM NextIInv == IInv /\ [Next]_vars => IInv'
<1>. SUFFICES ASSUME IInv, [Next]_vars  PROVE IInv'
  OBVIOUS
<1>1. CASE RunStep
  <2>1. run' \in RunState
    BY <1>1, StepType DEF IInv
  <2>2. TypeOK' /\ NothingMadeUp'
    BY <1>1, <2>1, PersistStep DEF IInv, TypeOK, NothingMadeUp
  <2>. QED  BY <1>1, <2>2, GroundedStep, CallShapeStep, BudgetStep,
               AccountedStep DEF IInv
<1>2. CASE UNCHANGED vars
  BY <1>2 DEF vars, IInv, TypeOK, NothingMadeUp, Grounded, CallShape, BudgetSoFar,
              CallBudget, Accounted, LogCoversHalf, Half, Preparing, Retrieving
<1>. QED  BY <1>1, <1>2, StartStep, EditStep DEF Next

\* The inductive invariant of a run.
THEOREM AgentInvariant == Spec => []IInv
<1>. QED  BY InitIInv, NextIInv, PTL DEF Spec

\* The variables keep their types.
THEOREM AgentTypeCorrect == Spec => []TypeOK
<1>1. IInv => TypeOK
  BY DEF IInv
<1>. QED  BY <1>1, AgentInvariant, PTL

\* Whatever the model answers, only products are ever shown.
THEOREM OnlyProductsAreShown == Spec => []NothingMadeUp
<1>1. IInv => NothingMadeUp
  BY DEF IInv
<1>. QED  BY <1>1, AgentInvariant, PTL

\* Nothing excluded when the run began comes back, for any catalogue and any
\* number of searches and refinements.
THEOREM ExcludedStaysOut == Spec => []ExclusionsHonoured
<1>1. IInv => ExclusionsHonoured
  BY DEF IInv, Grounded, ExclusionsHonoured
<1>. QED  BY <1>1, AgentInvariant, PTL

\* A run never costs more than two calls per question.
THEOREM CallsAreBounded == Spec => []CallBudget
<1>1. IInv => CallBudget
  BY DEF IInv, BudgetSoFar
<1>. QED  BY <1>1, AgentInvariant, PTL

\* The evidence row of a run that succeeded leaves out at most every other call.
THEOREM EvidenceCoversHalf == Spec => []LogCoversHalf
<1>1. IInv => LogCoversHalf
  BY DEF IInv, Accounted
<1>. QED  BY <1>1, AgentInvariant, PTL

-----------------------------------------------------------------------------
(* A run keeps the contract of run_agent.                                  *)

\* An answer that is saved, or was, cites something.
SavedCites ==
    run.pc = "save" \/ (run.pc = "record" /\ ~run.failed) => run.cited # {}

\* The step of the contract that a step of the run makes, if any.
LEMMA OutcomeStep ==
  ASSUME IInv, SavedCites, RunStep
  PROVE  /\ SavedCites'
         /\ \/ Contract!Replace
            \/ Contract!Succeed \/ Contract!Fail
            \/ UNCHANGED Contract!contractVars
<1>1. run \in RunState /\ (run.failed => run.pc # "save")
  BY DEF IInv, TypeOK, Accounted
<1>2. ASSUME run.pc \in RunPC \ {"idle", "record", "handler", "raised"},
             run'.pc \in RunPC \ {"idle", "record", "handler", "raised"},
             run'.pc = "save" => run'.cited # {},
             UNCHANGED current
      PROVE  SavedCites' /\ UNCHANGED Contract!contractVars
  BY <1>2 DEF SavedCites, Contract!contractVars, Outcome
<1>3. CASE load_signals \/ current_recommendation_product_ids
  <2>1. run.pc \in {"load", "load_current"} /\ UNCHANGED current
        /\ run'.pc \in {"load_current", "analyze"}
    BY <1>1, <1>3
       DEF load_signals, current_recommendation_product_ids, Stay, RunState
  <2>. QED  BY <1>2, <2>1 DEF RunPC
<1>4. CASE analyze_intent \/ refine
  <2>1. run.pc \in {"analyze", "refine"} /\ UNCHANGED current
        /\ run'.pc = "search"
    BY <1>1, <1>4 DEF analyze_intent, refine, Stay, RunState
  <2>. QED  BY <1>2, <2>1 DEF RunPC
<1>5. CASE retrieve \/ mmr_dedupe
  <2>1. run.pc \in {"search", "dedupe"} /\ UNCHANGED current
        /\ run'.pc \in {"search", "dedupe", "grade"}
    BY <1>1, <1>5 DEF retrieve, mmr_dedupe, Stay, RunState
  <2>. QED  BY <1>2, <2>1 DEF RunPC
<1>6. CASE GradeFails \/ GradePasses \/ rerank
  <2>1. run.pc \in {"grade", "rerank"} /\ UNCHANGED current
        /\ run'.pc \in {"refine", "rerank", "generate"}
    BY <1>1, <1>6 DEF GradeFails, GradePasses, rerank, Stay, RunState
  <2>. QED  BY <1>2, <2>1 DEF RunPC
<1>7. CASE RetryCall
  <2>1. run.pc \in ChatPC /\ run'.pc = run.pc /\ UNCHANGED current
    BY <1>1, <1>7 DEF RetryCall, Calling, Stay, RunState
  <2>. QED  BY <1>2, <2>1 DEF RunPC, ChatPC
<1>8. ASSUME NEW items \in SUBSET (Products \cup MadeUp), items # {},
             NEW twice \in BOOLEAN,
             GroundedAnswer(items, twice) \/ UngroundedAnswer(items, twice)
      PROVE  SavedCites' /\ UNCHANGED Contract!contractVars
  <2>1. /\ run.pc = "generate" /\ UNCHANGED current
        /\ run'.cited = items
        /\ \/ run'.pc \in {"save", "generate"}
           \/ run'.pc = "record" /\ run'.failed
    BY <1>1, <1>8 DEF GroundedAnswer, UngroundedAnswer, Stay, RunState
  <2>. QED  BY <1>8, <2>1 DEF SavedCites, Contract!contractVars, Outcome
<1>9. CASE NoCandidates \/ ParseFails
  <2>1. /\ run.pc \in ChatPC /\ UNCHANGED current /\ run'.failed
        /\ run'.pc \in {"record", "handler"}
    BY <1>1, <1>9 DEF NoCandidates, ParseFails, Calling, ChatPC, Stay, RunState
  <2>2. Outcome = "open" /\ Outcome' \in {"open", "failed"}
    BY <2>1 DEF Outcome, ChatPC
  <2>3. SavedCites'
    BY <2>1 DEF SavedCites
  <2>. QED  BY <2>1, <2>2, <2>3 DEF Contract!contractVars, Contract!Fail
<1>10. CASE CallFails \/ NodeRaises
  <2>1. /\ run.pc \notin {"idle", "handler", "raised"} /\ UNCHANGED current
        /\ run'.pc = "handler"
    BY <1>1, <1>10 DEF CallFails, Calling, ChatPC, NodeRaises, Stay, RunState
  <2>2. Outcome \in {"open", "replaced"} /\ Outcome' = "failed"
    BY <2>1 DEF Outcome
  <2>3. SavedCites'
    BY <2>1 DEF SavedCites
  <2>. QED  BY <2>1, <2>2, <2>3 DEF Contract!Fail
<1>11. CASE persist_recommendation
  <2>1. /\ run.pc = "save" /\ ~run.failed
        /\ run'.pc = "record" /\ run'.failed = run.failed
        /\ run'.cited = run.cited /\ current' = run.cited
    BY <1>1, <1>11 DEF persist_recommendation, RunState
  <2>2. current' \in (SUBSET Products) \ {{}}
    <3>1. current' \subseteq Products
      BY PersistStep
    <3>2. current' # {}
      BY <2>1 DEF SavedCites
    <3>. QED  BY <3>1, <3>2
  <2>3. Outcome = "open" /\ Outcome' = "replaced"
    BY <2>1 DEF Outcome
  <2>4. SavedCites'
    BY <2>1 DEF SavedCites
  <2>. QED  BY <2>2, <2>3, <2>4 DEF Contract!Replace
<1>12. CASE insert_agent_run
  <2>1. /\ run.pc = "record" /\ run'.pc = "idle" /\ UNCHANGED current
        /\ run'.failed = run.failed /\ run'.cited = run.cited
    BY <1>1, <1>12 DEF insert_agent_run, Stay, RunState
  <2>2. SavedCites'
    BY <2>1 DEF SavedCites
  <2>3. CASE run.failed
    BY <2>1, <2>2, <2>3 DEF Outcome, Contract!Fail
  <2>4. CASE ~run.failed
    <3>1. run.cited # {}
      BY <2>1, <2>4 DEF SavedCites
    <3>2. Outcome = "replaced" /\ Outcome' = "succeeded"
      BY <2>1, <2>4, <3>1 DEF Outcome
    <3>. QED  BY <2>1, <2>2, <3>2 DEF Contract!Succeed
  <2>. QED  BY <2>3, <2>4
<1>13. CASE RecordFailure \/ run_agent_raises
  <2>1. /\ run.pc \in {"load", "handler"} /\ run'.pc \in {"idle", "raised"}
        /\ run'.failed /\ UNCHANGED current
    BY <1>1, <1>13 DEF RecordFailure, run_agent_raises, Stay, RunState
  <2>2. Outcome \in {"open", "failed"} /\ Outcome' = "failed"
    BY <2>1 DEF Outcome
  <2>3. SavedCites'
    BY <2>1 DEF SavedCites
  <2>. QED  BY <2>1, <2>2, <2>3 DEF Contract!contractVars, Contract!Fail
<1>. QED
  BY <1>3, <1>4, <1>5, <1>6, <1>7, <1>8, <1>9, <1>10, <1>11, <1>12, <1>13
     DEF RunStep, Answers

LEMMA StartOutcome ==
  ASSUME IInv, StartRun
  PROVE  SavedCites' /\ Contract!Start
<1>1. /\ run.pc \in {"idle", "raised"} /\ run'.pc = "load"
      /\ UNCHANGED current
  BY IdleRunType DEF StartRun, Stay, IdleRun
<1>2. Outcome \in {"none", "succeeded", "failed"} /\ Outcome' = "open"
  BY <1>1 DEF Outcome
<1>. QED  BY <1>1, <1>2 DEF SavedCites, Contract!Start

LEMMA ContractStep ==
  IInv /\ SavedCites /\ [Next]_vars
      => SavedCites' /\ [Contract!Next]_Contract!contractVars
<1>. SUFFICES ASSUME IInv, SavedCites, [Next]_vars
              PROVE  SavedCites' /\ [Contract!Next]_Contract!contractVars
  OBVIOUS
<1>1. CASE StartRun
  BY <1>1, StartOutcome DEF Contract!Next
<1>2. CASE RunStep
  BY <1>2, OutcomeStep DEF Contract!Next
<1>3. CASE UNCHANGED <<run, current>>
  BY <1>3 DEF SavedCites, Contract!contractVars, Outcome
<1>. QED
  BY <1>1, <1>2, <1>3
     DEF Next, vars, RemoveProduct, DrainProduct, TakeProduct

\* What the callers of run_agent rely on, for any catalogue, any answers and
\* any failures: a run that is recorded as a success has replaced the
\* recommendation, once, by products; nothing else ever does.
THEOREM RunsKeepTheContract == Spec => KeepsContract
<1>1. Init => SavedCites /\ Contract!Init
  BY DEF Init, IdleRun, SavedCites, Contract!Init, Outcome
<1>2. IInv /\ SavedCites /\ [Next]_vars
          => SavedCites' /\ [Contract!Next]_Contract!contractVars
  BY ContractStep
<1>. QED
  BY <1>1, <1>2, AgentInvariant, PTL DEF Spec, KeepsContract, Contract!Spec
=============================================================================
