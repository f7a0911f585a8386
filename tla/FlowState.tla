------------------------------ MODULE FlowState ------------------------------
(***************************************************************************)
(* The flow state engine (runtime/flow_state_engine.rs): the map of one    *)
(* session's task nodes, stored as one row, with a view row per node.       *)
(*                                                                         *)
(* An update reads the map to learn the node's state, reads it again,       *)
(* patches the copy, writes it back, then rewrites the views of all nodes   *)
(* from the copy.  Nothing locks the row: the execution fabric and the      *)
(* decision propagator update it at the same time.                          *)
(***************************************************************************)
EXTENDS Naturals

CONSTANTS Updaters,       \* tasks that update the flow
          FlowNodes,      \* the nodes, one per task
          MaxUpdates      \* bound: updates begun

ASSUME FlowBounds == MaxUpdates \in Nat

VARIABLES map,            \* flow:map:<session>:active
          views,          \* flow:node:<session>:<node>:*
          update,         \* what each updater is doing, with its locals
          updates,        \* updates begun
          followed        \* history: the last write of the map was by an update that
                          \* no other overlapped, and its views are written

flowVars == <<map, views, update, updates, followed>>

Absent == [state |-> "absent", started |-> FALSE, ended |-> FALSE, budget |-> "unset"]
NoUpdate == [at |-> "idle", node |-> "none", to |-> "none", budget |-> FALSE, todo |-> {},
             copy |-> [n \in FlowNodes |-> Absent], alone |-> FALSE]

\* Of the terminal states one stands for all.
IsTerminal(state) == state \in {"Succeeded"}

FlowInit ==
    /\ map = [n \in FlowNodes |-> Absent] /\ views = [n \in FlowNodes |-> Absent]
    /\ update = [u \in Updaters |-> NoUpdate]
    /\ updates = 0 /\ followed = FALSE

-----------------------------------------------------------------------------
\* Mutant: the state of a budget update is the default one.
TargetPending(n, state) == IF state = "keep" THEN "Pending" ELSE state

\* to_state: what was asked for, or the state the node has, Pending if it is new.
Target(n, state) ==
    IF state # "keep" THEN state
    ELSE IF map[n] = Absent THEN "Pending" ELSE map[n].state

\* apply_runtime_update up to its patch; set_budget_state asks for no state.
BeginUpdate(u, n, state) ==
    /\ update[u].at = "idle" /\ updates < MaxUpdates
    /\ updates' = updates + 1
    /\ update' = [v \in Updaters |->
                    IF v = u
                    THEN [NoUpdate EXCEPT !.at = "fetch", !.node = n,
                                          !.to = Target(n, state),
                                          !.budget = (state = "keep"),
                                          !.alone = \A w \in Updaters : update[w].at = "idle"]
                    ELSE [update[v] EXCEPT !.alone = FALSE]]
    /\ UNCHANGED <<map, views, followed>>

\* The node after a patch.  A state other than the expected one is only noted.
Patched(node, to, budget) ==
    [state   |-> to,
     started |-> node.started \/ to = "Running",
     ended   |-> node.ended \/ IsTerminal(to),
     budget  |-> IF budget THEN "set" ELSE node.budget]

\* apply_patch_internal reads the map anew.
FetchMap(u) ==
    /\ update[u].at = "fetch"
    /\ LET n == update[u].node
       IN update' = [update EXCEPT ![u] =
                       [@ EXCEPT !.at = "map",
                                 !.copy = [map EXCEPT ![n] = Patched(@, update[u].to,
                                                                     update[u].budget)]]]
    /\ UNCHANGED <<map, views, updates, followed>>

WriteMap(u) ==
    /\ update[u].at = "map"
    /\ map' = update[u].copy
    /\ update' = [update EXCEPT ![u] =
                    [@ EXCEPT !.at = "views",
                              !.todo = { n \in FlowNodes : update[u].copy[n] # Absent }]]
    /\ followed' = FALSE
    /\ UNCHANGED <<views, updates>>

\* persist_node_views, of one node after the other; then the patch row.
PersistNodeViews(u) ==
    /\ update[u].at = "views"
    /\ \E n \in update[u].todo :
          /\ views' = [views EXCEPT ![n] = update[u].copy[n]]
          /\ update' = [update EXCEPT ![u] =
                          IF update[u].todo = {n} THEN NoUpdate
                          ELSE [update[u] EXCEPT !.todo = @ \ {n}]]
          /\ followed' = (IF update[u].todo = {n} THEN update[u].alone ELSE followed)
    /\ UNCHANGED <<map, updates>>

\* The store fails, and the update ends where it is.
UpdateFails(u) ==
    /\ update[u].at # "idle"
    /\ update' = [update EXCEPT ![u] = NoUpdate]
    /\ UNCHANGED <<map, views, updates, followed>>

FlowNext ==
    \E u \in Updaters :
       \/ \E n \in FlowNodes, state \in {"Running", "Succeeded", "keep"} :
             BeginUpdate(u, n, state)
       \/ FetchMap(u) \/ WriteMap(u) \/ PersistNodeViews(u) \/ UpdateFails(u)

FlowSpec == FlowInit /\ [][FlowNext]_flowVars

-----------------------------------------------------------------------------
(* Properties. *)

\* Shapes; a node that runs has a start, one that is over an end, in the map and
\* in the views, although both may be out of date.
FlowTypeOK ==
    /\ updates \in 0 .. MaxUpdates
    /\ \A n \in FlowNodes : \A node \in {map[n], views[n]} :
          /\ node.state \in {"absent", "Pending", "Running", "Succeeded"}
          /\ node.state = "Running" => node.started
          /\ IsTerminal(node.state) => node.ended

\* An update that no other overlaps changes no node but its own, and one of the
\* budget flag leaves the state of a node that is there as it is.  (Of two that
\* overlap, the second to write takes the first one's node back, and a budget
\* update brings back a state that was left.)
LoneUpdateIsLocal ==
    [][\A u \in Updaters :
          update[u].at = "map" /\ update'[u].at = "views" /\ update[u].alone =>
             \A n \in FlowNodes :
                \/ n = update[u].node /\ ~update[u].budget
                \/ n = update[u].node /\ (map[n] = Absent \/ map'[n].state = map[n].state)
                \/ map'[n] = map[n]]_flowVars

\* Once such an update has gone through, the views of every node in the map are
\* those of the map, whatever was lost or failed before.  (A node that an
\* overlapping update took out of the map keeps its views.)
ViewsFollowMap == followed => \A n \in FlowNodes : map[n] \in {Absent, views[n]}
=============================================================================
