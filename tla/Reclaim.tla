------------------------------ MODULE Reclaim ------------------------------
(***************************************************************************)
(* What deferred reclamation promises its clients, whatever the mechanism: *)
(* readers find nodes that are linked and keep them until they leave their *)
(* section; a writer takes a node out and gives it up; and a node is freed *)
(* only when no reader has it any more.                                    *)
(***************************************************************************)
CONSTANTS Readers, Nodes

VARIABLES held,     \* the nodes each reader has found in its section
          status    \* "linked", "unlinked", "retired" or "freed"

vars == <<held, status>>

Init ==
    /\ held = [r \in Readers |-> {}]
    /\ status = [n \in Nodes |-> "linked"]

Find(r, n) ==
    /\ status[n] = "linked"
    /\ held' = [held EXCEPT ![r] = @ \cup {n}]
    /\ UNCHANGED status

Leave(r) ==
    /\ held' = [held EXCEPT ![r] = {}]
    /\ UNCHANGED status

Becomes(n, from, to) ==
    /\ status[n] \in from
    /\ status' = [status EXCEPT ![n] = to]
    /\ UNCHANGED held

Unlink(n) == Becomes(n, {"linked"}, "unlinked")

Retire(n) == Becomes(n, {"unlinked"}, "retired")

\* A node that was retired, or that its writer kept while it waited.
Free(n) ==
    /\ \A r \in Readers : n \notin held[r]
    /\ Becomes(n, {"unlinked", "retired"}, "freed")

Reuse(n) == Becomes(n, {"freed"}, "linked")

Next ==
    \/ \E r \in Readers : Leave(r) \/ \E n \in Nodes : Find(r, n)
    \/ \E n \in Nodes : Unlink(n) \/ Retire(n) \/ Free(n) \/ Reuse(n)

Spec == Init /\ [][Next]_vars
=============================================================================
