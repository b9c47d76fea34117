----------------------------- MODULE AnswerIndex -----------------------------
(***************************************************************************)
(* What the vector index promises to chat, without documents, messages or  *)
(* consumers: at any time some of the published snapshots are indexed.     *)
(* Chat answers from these (usecase/llm.go, GetRankNodes).  A snapshot     *)
(* enters alone; snapshots leave only in favour of another one of the same *)
(* node that stays, or together with their node.                           *)
(***************************************************************************)
EXTENDS Integers

CONSTANTS Nodes, Releases

VARIABLES live,     \* nodes that are not deleted
          rows,     \* snapshots of live nodes
          relNode,  \* the node of a snapshot
          indexed   \* the snapshots chat can answer from

indexVars == <<live, rows, relNode, indexed>>

IndexInit == live = Nodes /\ rows = {} /\ indexed = {}

Publish ==
    \E new \in SUBSET (Releases \ rows) :
        /\ rows' = rows \cup new
        /\ \A r \in rows : relNode'[r] = relNode[r]
        /\ \A r \in new : relNode'[r] \in live
        /\ UNCHANGED <<live, indexed>>

Enter ==
    \E r \in rows : /\ indexed' = indexed \cup {r}
                    /\ UNCHANGED <<live, rows, relNode>>

Supersede ==
    \E r \in indexed : /\ indexed' = {x \in indexed : relNode[x] = relNode[r] => x = r}
                       /\ UNCHANGED <<live, rows, relNode>>

Remove ==
    \E S \in SUBSET live : /\ live' = live \ S
                           /\ rows' = {r \in rows : relNode[r] \notin S}
                           /\ indexed' = indexed \cap rows'
                           /\ UNCHANGED relNode

IndexSpec == IndexInit /\ [][Publish \/ Enter \/ Supersede \/ Remove]_indexVars
=============================================================================
