-------------------------------- MODULE List --------------------------------
(***************************************************************************)
(* The intrusive doubly linked list, List/List.h and List/src/List.c.      *)
(*                                                                         *)
(* A list is a ring of nodes through a sentinel that is part of the List   *)
(* itself, here the element l of Lists that names it.  None of the         *)
(* functions checks that a node belongs to the list it is given with; what *)
(* their callers have to respect for the lists to stay intact is in the    *)
(* guards marked "caller".  An iteration by LIST_ITER or LIST_REVERSE_ITER *)
(* runs while its body calls the other operations.                         *)
(***************************************************************************)
EXTENDS Sequences, SequencesExt, FiniteSets

CONSTANTS
  Lists,        \* the lists, each named by its sentinel
  Nodes,        \* the addresses memory resources place nodes at
  ResourceOf,   \* the memory resource each list was constructed with
  NULL          \* no node, no resource

ASSUME ListAssumption ==
  /\ Lists \cap Nodes = {}
  /\ NULL \notin Lists \cup Nodes
  /\ IsFiniteSet(Nodes)
  /\ DOMAIN ResourceOf = Lists
  /\ \A l \in Lists : ResourceOf[l] # NULL

VARIABLES
  prev, next,   \* the links of nodes and sentinels
  resource,     \* resource[n]: where the memory of node n was allocated
  open,         \* the lists constructed and not yet destroyed
  iter          \* the loop that runs: [list, at, link], or NULL

vars == <<prev, next, resource, open, iter>>

-----------------------------------------------------------------------------
Links == Lists \cup Nodes \cup {NULL}

(* The nodes met by following a link from list l's sentinel, at most all. *)
Walk(link, l) ==
  LET at[k \in 1 .. Cardinality(Nodes) + 1] ==
        IF k = 1 THEN link[l]
        ELSE IF at[k - 1] \in Nodes THEN link[at[k - 1]] ELSE at[k - 1]
      met == {k \in 1 .. Cardinality(Nodes) : at[k] \in Nodes}
  IN  [k \in 1 .. Cardinality(met) |-> at[k]]

Members(l) == ToSet(Walk(next, l))

Allocated == {n \in Nodes : resource[n] # NULL}

Detached == {n \in Allocated : prev[n] = NULL /\ next[n] = NULL}

Attached == {n \in Allocated : prev[n] # NULL /\ next[n] # NULL}

(* The lists a node may be in when it is given to an operation on l: the   *)
(* README asks for the same memory resource.                               *)
Compatible(l) == {k \in open : ResourceOf[k] = ResourceOf[l]}

(* The body of a loop does not take out the node the loop is at, nor       *)
(* destroy its list.                                                       *)
NotIteratedAt(n) == iter # NULL => iter.at # n

-----------------------------------------------------------------------------
(* The four assignments of list_insert_node_after. *)

\* A bug: reading node->next after it was overwritten.
LinkAfterLate(node, n) ==
  /\ next' = [next EXCEPT ![node] = n, ![n] = next[node]]
  /\ prev' = [prev EXCEPT ![n] = node]

LinkAfter(node, n) ==
  /\ prev' = [prev EXCEPT ![n] = node, ![next[node]] = n]
  /\ next' = [next EXCEPT ![n] = next[node], ![node] = n]

(* The four assignments of list_extract. *)

\* Bugs: leaving one of the node's own links, or its successor's.
UnlinkKeepingPrev(n) ==
  /\ next' = [next EXCEPT ![prev[n]] = next[n], ![n] = NULL]
  /\ prev' = [prev EXCEPT ![next[n]] = prev[n]]

UnlinkForwardOnly(n) ==
  /\ next' = [next EXCEPT ![prev[n]] = next[n], ![n] = NULL]
  /\ prev' = [prev EXCEPT ![n] = NULL]

Unlink(n) ==
  /\ next' = [next EXCEPT ![prev[n]] = next[n], ![n] = NULL]
  /\ prev' = [prev EXCEPT ![next[n]] = prev[n], ![n] = NULL]

-----------------------------------------------------------------------------
Init ==
  /\ prev = [x \in Lists \cup Nodes |-> NULL]
  /\ next = [x \in Lists \cup Nodes |-> NULL]
  /\ resource = [n \in Nodes |-> NULL]
  /\ open = {}
  /\ iter = NULL

(* list_ctor declares a variable: each list is constructed once. *)
Ctor(l) ==
  /\ next[l] = NULL
  /\ prev' = [prev EXCEPT ![l] = l]
  /\ next' = [next EXCEPT ![l] = l]
  /\ open' = open \cup {l}
  /\ UNCHANGED <<resource, iter>>

(* list_insert_after: a new node, placed by the list's resource, is linked *)
(* behind a node of the list or its sentinel.                              *)
InsertNewAfter(l, node, n) ==
  /\ l \in open
  /\ node \in Members(l) \cup {l}                          \* caller
  /\ n \notin Allocated
  /\ resource' = [resource EXCEPT ![n] = ResourceOf[l]]
  /\ LinkAfter(node, n)
  /\ UNCHANGED <<open, iter>>

(* list_insert_before: behind the node's predecessor. *)
InsertNewBefore(l, node, n) ==
  /\ l \in open
  /\ node \in Members(l) \cup {l}                          \* caller
  /\ InsertNewAfter(l, prev[node], n)

(* Either of them when the resource has no memory: NULL, and no change. *)
InsertNothing(l) ==
  /\ l \in open
  /\ UNCHANGED vars

(* list_insert_node_after and list_insert_node_before, of a node taken out *)
(* of a list with the same memory resource.                                *)
InsertNodeAfter(l, node, n) ==
  /\ l \in open
  /\ node \in Members(l) \cup {l}                          \* caller
  /\ n \in Detached /\ resource[n] = ResourceOf[l]         \* caller
  /\ LinkAfter(node, n)
  /\ UNCHANGED <<resource, open, iter>>

InsertNodeBefore(l, node, n) ==
  /\ l \in open
  /\ node \in Members(l) \cup {l}                          \* caller
  /\ InsertNodeAfter(l, prev[node], n)

(* list_extract: nothing of the list but its sentinel is looked at. *)
Extract(l, n) ==
  /\ l \in open
  /\ \E k \in Compatible(l) : n \in Members(k)             \* caller
  /\ NotIteratedAt(n)                                      \* caller
  /\ Unlink(n)
  /\ UNCHANGED <<resource, open, iter>>

(* list_extract and list_erase of a sentinel or of a detached node. *)
ExtractNothing(l, x) ==
  /\ l \in open
  /\ x = l \/ x \in Detached
  /\ UNCHANGED vars

(* list_erase: the node goes back to the list's memory resource. *)
Erase(l, n) ==
  /\ l \in open
  /\ \E k \in Compatible(l) : n \in Members(k)             \* caller
  /\ NotIteratedAt(n)                                      \* caller
  /\ Unlink(n)
  /\ resource' = [resource EXCEPT ![n] = NULL]
  /\ UNCHANGED <<open, iter>>

(* A bug: stopping at the last node instead of at the sentinel. *)
DtorLeavingLast(l) ==
  /\ l \in open
  /\ iter # NULL => iter.list # l
  /\ resource' = [n \in Nodes |-> IF n \in Members(l) /\ next[n] # l
                                  THEN NULL ELSE resource[n]]
  /\ open' = open \ {l}
  /\ UNCHANGED <<prev, next, iter>>

(* list_dtor: all nodes are freed; the sentinel keeps its links to them.   *)
Dtor(l) ==
  /\ l \in open
  /\ iter # NULL => iter.list # l                          \* caller
  /\ resource' = [n \in Nodes |-> IF n \in Members(l) THEN NULL ELSE resource[n]]
  /\ open' = open \ {l}
  /\ UNCHANGED <<prev, next, iter>>

(* LIST_ITER and LIST_REVERSE_ITER: the loop's start, its step after the   *)
(* body, and its end at the sentinel.                                      *)
Begin(l) ==
  /\ l \in open
  /\ iter = NULL
  /\ iter' \in {[list |-> l, at |-> next[l], link |-> "next"],
                [list |-> l, at |-> prev[l], link |-> "prev"]}
  /\ UNCHANGED <<prev, next, resource, open>>

Step ==
  /\ iter # NULL
  /\ iter.at # iter.list
  /\ iter' = [iter EXCEPT !.at = IF iter.link = "next" THEN next[@] ELSE prev[@]]
  /\ UNCHANGED <<prev, next, resource, open>>

End ==
  /\ iter # NULL
  /\ iter.at = iter.list
  /\ iter' = NULL
  /\ UNCHANGED <<prev, next, resource, open>>

Next ==
  \/ \E l \in Lists :
       \/ Ctor(l)
       \/ Dtor(l)
       \/ Begin(l)
       \/ InsertNothing(l)
       \/ \E n \in Nodes : Extract(l, n) \/ Erase(l, n)
       \/ \E x \in Lists \cup Nodes : ExtractNothing(l, x)
       \/ \E node \in Lists \cup Nodes, n \in Nodes :
            \/ InsertNewAfter(l, node, n)
            \/ InsertNewBefore(l, node, n)
            \/ InsertNodeAfter(l, node, n)
            \/ InsertNodeBefore(l, node, n)
  \/ Step
  \/ End

Spec == Init /\ [][Next]_vars

-----------------------------------------------------------------------------
(* The variables hold what the structures hold; a node in memory has both  *)
(* its links or none, which is all list_extract can tell of it.            *)
TypeOK ==
  /\ prev \in [Lists \cup Nodes -> Links]
  /\ next \in [Lists \cup Nodes -> Links]
  /\ \A n \in Allocated : prev[n] = NULL <=> next[n] = NULL
  /\ resource \in [Nodes -> {ResourceOf[l] : l \in Lists} \cup {NULL}]
  /\ open \subseteq Lists

(* Around every node in a list, and around every sentinel, the two links   *)
(* undo each other: both kinds of loop meet the same nodes.                *)
WellLinked ==
  \A x \in Attached \cup open :
    /\ next[x] \in Attached \cup open /\ prev[next[x]] = x
    /\ prev[x] \in Attached \cup open /\ next[prev[x]] = x

(* Every node in memory is in one living list, of the resource its memory  *)
(* came from, or held by the caller that extracted it: none is freed while *)
(* a list links to it, freed to another resource, in two lists, or left    *)
(* behind by its list's destruction.                                       *)
NodesAccounted ==
  /\ UNION {Members(l) : l \in open} = Allocated \ Detached
  /\ \A k, l \in open : k # l => Members(k) \cap Members(l) = {}
  /\ \A l \in open : \A n \in Members(l) : resource[n] = ResourceOf[l]

(* A loop whose body leaves the current node in place stays on its list,   *)
(* whatever else the body inserts, takes out, erases or moves: it never    *)
(* reads the links of a freed node, and can always reach its end.          *)
LoopStaysOnList ==
  iter # NULL => iter.at \in Members(iter.list) \cup {iter.list}

Order == [l \in Lists |-> IF l \in open THEN Walk(next, l) ELSE <<>>]

Sequence == INSTANCE NodeSequences WITH seqs <- Order

(* Place k of the ring of list l: its nodes, its sentinel on both sides.   *)
NodeAt(l, k) == IF k \in DOMAIN Order[l] THEN Order[l][k] ELSE l

(* What each operation does to the sequences: an insertion puts its node   *)
(* next to the one it was given, on the side it is named for, and nothing  *)
(* but the node is taken out, from whichever list it is in.                *)
Means(l) ==
  /\ \A node \in Members(l) \cup {l}, n \in Nodes :
       /\ InsertNewAfter(l, node, n) \/ InsertNodeAfter(l, node, n) =>
            \E i \in 1 .. Len(Order[l]) + 1 :
              NodeAt(l, i - 1) = node /\ Sequence!Insert(l, i, n)
       /\ InsertNewBefore(l, node, n) \/ InsertNodeBefore(l, node, n) =>
            \E i \in 1 .. Len(Order[l]) + 1 :
              NodeAt(l, i) = node /\ Sequence!Insert(l, i, n)
  /\ \A n \in Nodes :
       Extract(l, n) \/ Erase(l, n) =>
         \E k \in Lists : \E i \in DOMAIN Order[k] :
           Order[k][i] = n /\ Sequence!Take(k, i)
  /\ Dtor(l) => Sequence!Clear(l)
  /\ Ctor(l) => UNCHANGED Order

(* The lists behave as sequences of nodes, and every operation does to     *)
(* them what it is for.                                                    *)
ImplementsSequence == Sequence!Spec /\ [][\A l \in Lists : Means(l)]_vars
=============================================================================
