--------------------------- MODULE WorkflowSearch ---------------------------
(***************************************************************************)
(* AFlowOptimizer.search with its WorkflowValidator                        *)
(* (cogni_flow/aflow.py): an archive of workflows, each proposed from an   *)
(* earlier one, validated, scored by an evaluator and credited to the line *)
(* it descends from.                                                       *)
(*                                                                         *)
(* A workflow is its graph; whether its fields and arguments are what they *)
(* should be is schema, the length of its text is chars.  The draw may     *)
(* take any of the candidates it is made from.  Scores are integers, and   *)
(* sums of them beyond Largest are infinite, as those of floating-point    *)
(* numbers are.  Archive ids count from one.                               *)
(***************************************************************************)
EXTENDS Integers, Sequences, FiniteSets, SequencesExt, Functions

CONSTANTS Workflows,            \* what the proposer may come up with
          Budget,               \* AFlowBudget
          TopK, Scores, Largest

ValidBudget ==
    /\ \A f \in {"max_nodes", "max_edges", "max_actions", "max_iterations"} : Budget[f] \in Nat
    /\ \A f \in {"max_archive_entries", "max_control_chars"} : Budget[f] \in Nat \ {0}

ASSUME AFlowAssumption ==
    /\ ValidBudget
    /\ TopK \in Nat \ {0}
    /\ Largest \in Nat /\ Scores \subseteq -Largest .. Largest
    /\ \A w \in Workflows : w.schema => Len(w.nodes) \in Nat     \* a tuple of nodes

VARIABLES
    at,                         \* "initial", "select", "propose", "returned" or "raised"
    records, seen, best_id, promotions,
    rejected, evaluations,
    iterations_used, parent_id, \* the iteration under way
    stop_reason

aflowVars == <<at, records, seen, best_id, promotions, rejected, evaluations,
               iterations_used, parent_id, stop_reason>>

NoParent == 0

-----------------------------------------------------------------------------
(* WorkflowValidator                                                       *)

Ids(w) == {n.node_id : n \in Range(w.nodes)}
TotalActions(w) == FoldSeq(LAMBDA n, sum : n.actions + sum, 0, w.nodes)

(* A node is queued when the last of its dependencies has been visited. *)
Visited(w) ==
    LET ready[k \in 0 .. Len(w.nodes)] ==
            IF k = 0 THEN {}
            ELSE {n \in Ids(w) : \A e \in Range(w.edges) :
                                     e.target = n => e.source \in ready[k - 1]}
    IN  ready[Len(w.nodes)]

Valid(w) ==
    /\ w.schema
    /\ Len(w.nodes) <= Budget.max_nodes /\ Len(w.edges) <= Budget.max_edges
    /\ Cardinality(Ids(w)) = Len(w.nodes)
    /\ \A n \in Range(w.nodes) : n.actions > 0
    /\ TotalActions(w) <= Budget.max_actions
    /\ \A e \in Range(w.edges) : {e.source, e.target} \subseteq Ids(w)
    /\ IsInjective(w.edges)
    /\ w.chars <= Budget.max_control_chars
    /\ Visited(w) = Ids(w)

-----------------------------------------------------------------------------
(* The archive                                                             *)

Infinity == Largest + 1
Infinite(sum) == sum \in {Infinity, -Infinity}

(* A score is finite, so an infinite sum stays what it is. *)
Plus(sum, score) ==
    LET s == sum + score
    IN  IF Infinite(sum) THEN sum
        ELSE IF s > Largest THEN Infinity ELSE IF s < -Largest THEN -Infinity ELSE s

Record(w, score, parent) ==
    [workflow |-> w, score |-> score, parent_id |-> parent, iteration |-> iterations_used,
     visits |-> 1, value_sum |-> score]

(* The mean of i against that of j. *)
MeanAbove(i, j) ==
    LET r == records[i]  s == records[j]
    IN  IF Infinite(r.value_sum) \/ Infinite(s.value_sum) THEN r.value_sum > s.value_sum
        ELSE r.value_sum * s.visits > s.value_sum * r.visits

Before(i, j) ==
    \/ MeanAbove(i, j)
    \/ /\ ~MeanAbove(j, i)
       /\ \/ records[i].score > records[j].score
          \/ records[i].score = records[j].score /\ i < j

(* The best TopK by their means, and the initial workflow. *)
ParentCandidates ==
    {1} \cup {i \in DOMAIN records :
                  Cardinality({j \in DOMAIN records : Before(j, i)}) < TopK}

Line(i) ==
    LET line[j \in 0 .. Len(records)] ==
            IF j = NoParent THEN {} ELSE {j} \cup line[records[j].parent_id]
    IN  line[i]

Backpropagate_ParentOnly(parent, score) ==
    [i \in DOMAIN records |->
        IF i = parent
        THEN [records[i] EXCEPT !.visits = @ + 1, !.value_sum = Plus(@, score)]
        ELSE records[i]]

Backpropagate(parent, score) ==
    [i \in DOMAIN records |->
        IF i \in Line(parent)
        THEN [records[i] EXCEPT !.visits = @ + 1, !.value_sum = Plus(@, score)]
        ELSE records[i]]

-----------------------------------------------------------------------------
(* search                                                                  *)

AFlowInit ==
    /\ at = "initial"
    /\ records = <<>> /\ seen = {} /\ best_id = 0 /\ promotions = <<>>
    /\ rejected = <<>> /\ evaluations = 0
    /\ iterations_used = 0 /\ parent_id = NoParent
    /\ stop_reason = "none"

(* An initial workflow that is not valid or cannot be scored is the end. *)
Begin(w) ==
    /\ at = "initial"
    /\ \/ at' = "raised" /\ UNCHANGED <<records, seen, best_id, promotions, evaluations>>
       \/ /\ Valid(w)
          /\ at' = "select"
          /\ \E score \in Scores : records' = <<Record(w, score, NoParent)>>
          /\ seen' = {w} /\ best_id' = 1 /\ promotions' = <<1>>
          /\ evaluations' = 1
    /\ UNCHANGED <<rejected, iterations_used, parent_id, stop_reason>>

ArchiveFull == Len(records) >= Budget.max_archive_entries

ReturnResult ==
    /\ at = "select"
    /\ iterations_used = Budget.max_iterations \/ ArchiveFull
    /\ at' = "returned"
    /\ stop_reason' = IF iterations_used < Budget.max_iterations
                      THEN "archive_budget_exhausted" ELSE "iteration_budget_exhausted"
    /\ UNCHANGED <<records, seen, best_id, promotions, rejected, evaluations,
                   iterations_used, parent_id>>

(* The probabilities of the draw are refused when a mean is not finite. *)
SelectParent ==
    /\ at = "select"
    /\ iterations_used < Budget.max_iterations /\ ~ArchiveFull
    /\ iterations_used' = iterations_used + 1
    /\ IF \E i \in ParentCandidates : Infinite(records[i].value_sum)
       THEN at' = "raised" /\ UNCHANGED parent_id
       ELSE at' = "propose" /\ parent_id' \in ParentCandidates
    /\ UNCHANGED <<records, seen, best_id, promotions, rejected, evaluations, stop_reason>>

Reject(reason) ==
    /\ rejected' = Append(rejected, [iteration |-> iterations_used, parent_id |-> parent_id,
                                     reason |-> reason])
    /\ at' = "select"
    /\ UNCHANGED <<records, seen, best_id, promotions, iterations_used, parent_id, stop_reason>>

ProposerFails ==
    /\ at = "propose"
    /\ Reject("proposer_error")
    /\ UNCHANGED evaluations

Refuse(w) ==
    /\ at = "propose"
    /\ \/ ~Valid(w) /\ Reject("invalid_workflow")
       \/ Valid(w) /\ w \in seen /\ Reject("duplicate_workflow")
    /\ UNCHANGED evaluations

EvaluationFails(w) ==
    /\ at = "propose" /\ Valid(w) /\ w \notin seen
    /\ evaluations' = evaluations + 1
    /\ Reject("evaluation_error")

Archive(w, score) ==
    /\ at = "propose" /\ Valid(w) /\ w \notin seen
    /\ evaluations' = evaluations + 1
    /\ records' = Append(Backpropagate(parent_id, score), Record(w, score, parent_id))
    /\ seen' = seen \cup {w}
    /\ IF score > records[best_id].score
       THEN /\ best_id' = Len(records) + 1
            /\ promotions' = Append(promotions, Len(records) + 1)
       ELSE UNCHANGED <<best_id, promotions>>
    /\ at' = "select"
    /\ UNCHANGED <<rejected, iterations_used, parent_id, stop_reason>>

AFlowNext ==
    \/ ReturnResult \/ SelectParent \/ ProposerFails
    \/ \E w \in Workflows :
          \/ Begin(w) \/ Refuse(w) \/ EvaluationFails(w)
          \/ \E score \in Scores : Archive(w, score)

AFlowSpec == AFlowInit /\ [][AFlowNext]_aflowVars

-----------------------------------------------------------------------------
(* Properties                                                              *)

ArchiveTypeOK ==
    /\ at \in {"initial", "select", "propose", "returned", "raised"}
    /\ records \in Seq([workflow : Workflows, score : Scores, parent_id : Nat,
                        iteration : 0 .. Budget.max_iterations, visits : Nat \ {0},
                        value_sum : -Infinity .. Infinity])
    /\ seen \subseteq Workflows
    /\ best_id \in 0 .. Len(records) /\ parent_id \in 0 .. Len(records)
    /\ promotions \in Seq(DOMAIN records)
    /\ rejected \in Seq([iteration : 1 .. Budget.max_iterations, parent_id : DOMAIN records,
                         reason : {"proposer_error", "invalid_workflow",
                                   "duplicate_workflow", "evaluation_error"}])
    /\ evaluations \in 0 .. 1 + Budget.max_iterations
    /\ iterations_used \in 0 .. Budget.max_iterations
    /\ stop_reason \in {"none", "archive_budget_exhausted", "iteration_budget_exhausted"}

(* Of any nodes one depends on none of them.                                 *)
Acyclic(w) ==
    /\ \A e \in Range(w.edges) : {e.source, e.target} \subseteq Ids(w)
    /\ \A S \in SUBSET Ids(w) : S # {} =>
           \E n \in S : \A e \in Range(w.edges) : e.target = n => e.source \notin S

(* What is kept is worth keeping: different workflows, none with a cycle,    *)
(* within the bound, each from an earlier one.                               *)
KeptWorkflows ==
    /\ Len(records) <= Budget.max_archive_entries
    /\ seen = {r.workflow : r \in Range(records)} /\ Cardinality(seen) = Len(records)
    /\ \A w \in seen : Acyclic(w)
    /\ \A i \in DOMAIN records : /\ records[i].parent_id < i
                                 /\ records[i].parent_id = NoParent <=> i = 1

(* What descends from i is in every set that has i and, with a record, those *)
(* proposed from it.                                                         *)
Descendants(archive, i) ==
    {k \in DOMAIN archive :
        \A S \in SUBSET DOMAIN archive :
            i \in S /\ (\A c \in DOMAIN archive : archive[c].parent_id \in S => c \in S)
            => k \in S}

Earned(archive, ids) ==
    LET sum[n \in 0 .. Len(archive)] ==
            IF n = 0 THEN 0
            ELSE sum[n - 1] + (IF n \in ids THEN archive[n].score ELSE 0)
    IN  sum[Len(archive)]

(* A record has been credited with itself and everything that descends from *)
(* it, once, while the sum of it can be represented.                         *)
CreditIsTrue ==
    \A i \in DOMAIN records :
        LET mine == Descendants(records, i)
        IN  /\ records[i].visits = Cardinality(mine)
            /\ \/ Infinite(records[i].value_sum)
               \/ records[i].value_sum = Earned(records, mine)

(* Every iteration came to one end, and the promotions are the records that  *)
(* beat all before them, the last of them the best.                          *)
Accounted ==
    LET open == IF at = "propose" \/ (at = "raised" /\ records # <<>>) THEN 1 ELSE 0
        failed == {i \in DOMAIN rejected : rejected[i].reason = "evaluation_error"}
    IN  records # <<>> =>
            /\ iterations_used = Len(records) - 1 + Len(rejected) + open
            /\ evaluations = Len(records) + Cardinality(failed)
            /\ Range(promotions) = {i \in DOMAIN records :
                                        \A j \in 1 .. i - 1 : records[j].score < records[i].score}
            /\ best_id = Last(promotions)

(* The archive of aflow.py is what its search made of it.                    *)
ArchiveIsSound == ArchiveTypeOK /\ KeptWorkflows /\ CreditIsTrue /\ Accounted

(* A search returns its archive, unless the initial workflow is refused or   *)
(* the credit of a record outgrows the numbers: then nothing of it is kept.  *)
Returns ==
    \/ at = "returned" /\ best_id # 0
    \/ at = "raised" /\ (records = <<>> \/ \E r \in Range(records) : Infinite(r.value_sum))
WorkflowSearchReturns == <>Returns
=============================================================================
