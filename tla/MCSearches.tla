----------------------------- MODULE MCSearches -----------------------------
(***************************************************************************)
(* The two bounded tree searches of the repository on small instances, one *)
(* per behaviour: over latent states and over workflows.                   *)
(***************************************************************************)
EXTENDS LatentSearch, WorkflowSearch

VARIABLE search

searchVars == <<treeVars, aflowVars, search>>

MCBudget == [max_nodes |-> 3, max_edges |-> 3, max_actions |-> 3, max_iterations |-> 4,
             max_archive_entries |-> 3, max_control_chars |-> 9]

Edge(pair, channel) == [source |-> pair[1], target |-> pair[2], channel |-> channel]
Graph(ids, edges) ==
    [nodes |-> [i \in DOMAIN ids |-> [node_id |-> ids[i], actions |-> 1]],
     edges |-> edges, chars |-> Len(ids), schema |-> TRUE]

Chain == Graph(<<"a", "b", "c">>, <<Edge(<<"a", "b">>, "x"), Edge(<<"b", "c">>, "x")>>)
Diamond == Graph(<<"a", "b">>, <<Edge(<<"a", "b">>, "x"), Edge(<<"a", "b">>, "y")>>)
Cycle == Graph(<<"a", "b", "c">>, <<Edge(<<"a", "b">>, "x"), Edge(<<"b", "c">>, "x"),
                                    Edge(<<"c", "b">>, "x")>>)

MCWorkflows ==
    {Graph(<<>>, <<>>), Chain, Diamond, Cycle,
     Graph(<<"a">>, <<Edge(<<"a", "a">>, "x")>>),
     [Graph(<<"a">>, <<>>) EXCEPT !.schema = FALSE],
     Graph(<<"a", "a">>, <<>>), Graph(<<"a">>, <<Edge(<<"a", "b">>, "x")>>)}

MCScores == {-2, 1, 3}

MCInit == SearchInit /\ AFlowInit /\ search \in {"latent", "workflow"}
MCNext ==
    /\ UNCHANGED search
    /\ \/ search = "latent" /\ SearchNext /\ UNCHANGED aflowVars
       \/ search = "workflow" /\ AFlowNext /\ UNCHANGED treeVars

MCSpec == MCInit /\ [][MCNext]_searchVars /\ WF_searchVars(MCNext)

(* Both searches end as they promise. *)
SearchesComplete ==
    /\ search = "latent" => SearchCompletes
    /\ search = "workflow" => WorkflowSearchReturns
=============================================================================
