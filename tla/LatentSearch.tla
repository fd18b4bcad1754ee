---------------------------- MODULE LatentSearch ----------------------------
(***************************************************************************)
(* BoundedPUCTSearch.search with its _TreeBuffers and its                  *)
(* SemanticAncestorRetriever (cogni_core/search.py).                       *)
(*                                                                         *)
(* Scores, priors and values are real numbers that only decide which child *)
(* a simulation descends to and how the ancestors of a leaf are ranked:    *)
(* here any child may be chosen.  A latent state is the node that holds    *)
(* it.  A callback that raises ends the search with nothing kept.          *)
(***************************************************************************)
EXTENDS Integers, Sequences, FiniteSets, FiniteSetsExt, SequencesExt

CONSTANTS Width, MaxDepth, MaxNodes, Simulations,
          Capacity              \* ancestor_capacity

(* What PUCTConfig accepts. *)
ValidConfig ==
    /\ Width \in Nat \ {0} /\ MaxDepth \in Nat \ {0} /\ Simulations \in Nat \ {0}
    /\ MaxNodes \in Nat /\ MaxNodes >= 1 + Width
    /\ Capacity \in 1 .. MaxNodes

ASSUME SearchAssumption == ValidConfig

Nodes == 0 .. MaxNodes - 1
Actions == 0 .. Width - 1
RingSlots == 0 .. Capacity - 1
Nil == -1

VARIABLES
    node_count, parents, depths, children, expanded,            \* the tree
    node_visits, action_visits,
    handles, handle_parents, next_handle,                       \* the retriever
    pc, node, path,             \* the simulation under way, as edges taken
    simulations_completed, expansions, frontier_rollouts, capacity_exhausted,
    best_path

tree == <<node_count, parents, depths, children, expanded>>
visits == <<node_visits, action_visits>>
retriever == <<handles, handle_parents, next_handle>>
telemetry == <<simulations_completed, expansions, frontier_rollouts, capacity_exhausted>>
treeVars == <<tree, visits, retriever, pc, node, path, telemetry, best_path>>

-----------------------------------------------------------------------------
(* SemanticAncestorRetriever: a ring of handles                            *)

(* The ring is made for one search and takes its root first. *)
RootInRing ==
    /\ handles = [s \in RingSlots |-> IF s = 0 THEN 0 ELSE Nil]
    /\ handle_parents = [s \in RingSlots |-> Nil]
    /\ next_handle = 1

(* Entries added one after the other, each in the slot of its handle. *)
Add(first, last, parent) ==
    LET newest(s) == {h \in first .. last : h % Capacity = s}
    IN  /\ handles' = [s \in RingSlots |-> IF newest(s) = {} THEN handles[s] ELSE Max(newest(s))]
        /\ handle_parents' = [s \in RingSlots |-> IF newest(s) = {} THEN handle_parents[s]
                                              ELSE parent]
        /\ next_handle' = last + 1

SlotFor_Recycled(handle) == IF handle >= 0 THEN handle % Capacity ELSE Nil

(* Nil for a handle whose slot has been given away. *)
SlotFor(handle) ==
    IF handle >= 0 /\ handles[handle % Capacity] = handle THEN handle % Capacity ELSE Nil

(* The candidates of retrieve, nearest first: the chain of parents up to the *)
(* first one that has been evicted.                                          *)
Candidates(handle) ==
    LET up(s) == IF s = Nil THEN Nil ELSE SlotFor(handle_parents[s])
        chain[i \in 0 .. Capacity] ==
            IF i = 0 THEN SlotFor(handle) ELSE up(chain[i - 1])
    IN  {handles[chain[i]] : i \in {j \in 1 .. Capacity : chain[j] # Nil}}

-----------------------------------------------------------------------------
(* search                                                                  *)

RootOnly ==
    /\ node_count = 1
    /\ parents = [n \in Nodes |-> Nil]
    /\ depths = [n \in Nodes |-> 0]
    /\ children = [n \in Nodes |-> [a \in Actions |-> Nil]]
    /\ expanded = [n \in Nodes |-> FALSE]
    /\ node_visits = [n \in Nodes |-> 0]
    /\ action_visits = [n \in Nodes |-> [a \in Actions |-> 0]]

SearchInit ==
    /\ RootOnly /\ RootInRing
    /\ pc = "select" /\ node = 0 /\ path = <<>>
    /\ simulations_completed = 0 /\ expansions = 0 /\ frontier_rollouts = 0
    /\ capacity_exhausted = FALSE
    /\ best_path = <<>>

can_expand == node_count + Width <= MaxNodes
Inner(n) == expanded[n] /\ depths[n] < MaxDepth

(* One edge down the tree. *)
Select ==
    /\ pc = "select" /\ Inner(node)
    /\ \E a \in Actions :
           /\ path' = Append(path, [node |-> node, action |-> a])
           /\ node' = children[node][a]
    /\ UNCHANGED <<tree, visits, retriever, pc, telemetry, best_path>>

(* add_children *)
AddChildren(parent) ==
    LET new == node_count .. node_count + Width - 1
    IN  /\ parents' = [n \in Nodes |-> IF n \in new THEN parent ELSE parents[n]]
        /\ depths' = [n \in Nodes |-> IF n \in new THEN depths[parent] + 1 ELSE depths[n]]
        /\ children' = [children EXCEPT ![parent] = [a \in Actions |-> node_count + a]]
        /\ node_count' = node_count + Width

(* The children enter the tree and the retriever. *)
Expand ==
    /\ pc = "select" /\ ~expanded[node] /\ depths[node] < MaxDepth /\ can_expand
    /\ AddChildren(node)
    /\ Add(node_count, node_count + Width - 1, node)
    /\ expanded' = [expanded EXCEPT ![node] = TRUE]
    /\ expansions' = expansions + 1
    /\ pc' = "backup"
    /\ UNCHANGED <<visits, node, path, simulations_completed, frontier_rollouts,
                   capacity_exhausted, best_path>>

(* No room, or deep enough: the leaf is evaluated and nothing is added. *)
Rollout ==
    /\ pc = "select" /\ ~expanded[node]
    /\ \/ depths[node] < MaxDepth /\ ~can_expand /\ capacity_exhausted' = TRUE
       \/ depths[node] >= MaxDepth /\ UNCHANGED capacity_exhausted
    /\ frontier_rollouts' = frontier_rollouts + 1
    /\ pc' = "backup"
    /\ UNCHANGED <<tree, visits, retriever, node, path, simulations_completed,
                   expansions, best_path>>

Edges == {path[i] : i \in DOMAIN path}
OnPath == {node} \cup {e.node : e \in Edges}

Backup ==
    /\ pc = "backup"
    /\ node_visits' = [n \in Nodes |-> node_visits[n] + (IF n \in OnPath THEN 1 ELSE 0)]
    /\ action_visits' =
           [n \in Nodes |-> [a \in Actions |->
               action_visits[n][a]
                   + (IF [node |-> n, action |-> a] \in Edges THEN 1 ELSE 0)]]
    /\ simulations_completed' = simulations_completed + 1
    /\ node' = 0 /\ path' = <<>>
    /\ pc' = IF simulations_completed' = Simulations THEN "extract" ELSE "select"
    /\ best_path' = IF simulations_completed' = Simulations THEN <<0>> ELSE best_path
    /\ UNCHANGED <<tree, retriever, expansions, frontier_rollouts, capacity_exhausted>>

(* The most visited child, one of them when there are several. *)
Favourites_Unvisited(n) ==
    {a \in Actions : \A b \in Actions : action_visits[n][b] <= action_visits[n][a]}
Favourites(n) ==
    {a \in Actions : /\ action_visits[n][a] > 0
                     /\ \A b \in Actions : action_visits[n][b] <= action_visits[n][a]}

Goes == Inner(Last(best_path)) /\ Len(best_path) < MaxNodes
            /\ Favourites(Last(best_path)) # {}

Extract ==
    /\ pc = "extract" /\ Goes
    /\ \E a \in Favourites(Last(best_path)) :
           best_path' = Append(best_path, children[Last(best_path)][a])
    /\ UNCHANGED <<tree, visits, retriever, pc, node, path, telemetry>>

Finish ==
    /\ pc = "extract" /\ ~Goes
    /\ pc' = "done"
    /\ UNCHANGED <<tree, visits, retriever, node, path, telemetry, best_path>>

SearchNext == Select \/ Expand \/ Rollout \/ Backup \/ Extract \/ Finish

SearchSpec == SearchInit /\ [][SearchNext]_treeVars /\ WF_treeVars(SearchNext)

-----------------------------------------------------------------------------
(* Properties                                                              *)

TypeOK ==
    /\ node_count \in 1 .. MaxNodes /\ next_handle \in 1 .. MaxNodes
    /\ parents \in [Nodes -> Nodes \cup {Nil}]
    /\ depths \in [Nodes -> 0 .. MaxDepth]
    /\ children \in [Nodes -> [Actions -> Nodes \cup {Nil}]]
    /\ expanded \in [Nodes -> BOOLEAN]
    /\ node_visits \in [Nodes -> 0 .. Simulations]
    /\ action_visits \in [Nodes -> [Actions -> 0 .. Simulations]]
    /\ handles \in [RingSlots -> Nodes \cup {Nil}]
    /\ handle_parents \in [RingSlots -> Nodes \cup {Nil}]
    /\ pc \in {"select", "backup", "extract", "done"} /\ node \in Nodes
    /\ path \in Seq([node : Nodes, action : Actions])
    /\ simulations_completed \in 0 .. Simulations /\ expansions \in 0 .. Simulations
    /\ frontier_rollouts \in 0 .. Simulations /\ capacity_exhausted \in BOOLEAN
    /\ best_path \in Seq(Nodes)

Total(f) ==
    LET sum[k \in 0 .. Width] == IF k = 0 THEN 0 ELSE sum[k - 1] + f[k - 1]
    IN  sum[Width]

Children(n) == {m \in 1 .. node_count - 1 : parents[m] = n}

(* The statistics are those of the simulations that were run: every one of   *)
(* them added to exactly one leaf, every visit of an inner node but the one  *)
(* that expanded it went on over one edge, and an edge was taken as often as *)
(* its child was visited; also when the tree is full or deep enough.         *)
VisitsAreConserved ==
    /\ node_visits[0] = simulations_completed
    /\ expansions + frontier_rollouts
           = simulations_completed + (IF pc = "backup" THEN 1 ELSE 0)
    /\ node_count = 1 + Width * expansions
    /\ capacity_exhausted => ~can_expand
    /\ \A n \in 0 .. node_count - 1 :
           /\ expanded[n] <=> Children(n) # {}
           /\ expanded[n] =>
                  Total(action_visits[n])
                      = node_visits[n] - (IF pc = "backup" /\ n = node THEN 0 ELSE 1)
           /\ \A a \in Actions :
                  IF expanded[n]
                  THEN /\ children[n][a] \in Children(n)
                       /\ action_visits[n][a] = node_visits[children[n][a]]
                  ELSE action_visits[n][a] = 0

(* What may be retrieved for a node are its true ancestors, never a sibling, *)
(* a descendant or whoever has been given the slot of one: all those of the  *)
(* latest Capacity nodes, or none when the node itself is no longer there.   *)
(* A handle is the index of its node.                                        *)
LineageSafe ==
    LET ancestors[n \in Nodes] ==
            IF parents[n] = Nil THEN {} ELSE ancestors[parents[n]] \cup {parents[n]}
        kept(n) == n >= next_handle - Capacity
    IN  /\ next_handle = node_count
        /\ \A n \in 0 .. node_count - 1 :
               Candidates(n) = IF kept(n) THEN {a \in ancestors[n] : kept(a)} ELSE {}

(* The arena of the tree and the ring of the retriever (search.py) hold what *)
(* the simulations did, also when either is full.                            *)
TreeIsSound == TypeOK /\ VisitsAreConserved /\ LineageSafe

(* A search ends, with a path from the root along nodes that were evaluated, *)
(* to one that no simulation went on from: no bound of the loop cuts it.     *)
EndToEnd(route) ==
    /\ route[1] = 0
    /\ \A i \in DOMAIN route :
           /\ node_visits[route[i]] > 0
           /\ i > 1 => parents[route[i]] = route[i - 1]
    /\ Children(Last(route)) = {} \/ node_visits[Last(route)] = 1
SearchCompletes == <>(pc = "done" /\ EndToEnd(best_path))
=============================================================================
