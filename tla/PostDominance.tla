--------------------------- MODULE PostDominance ---------------------------
(***************************************************************************)
(* The postdominator tree of one routine (BasicBlock.H, and                *)
(* buildPostDominanceTree of RoutineGraph.H).                              *)
(*                                                                         *)
(* A search goes backwards from the return node.  A block gets the first   *)
(* block it is met from as its parent; met again from another block, it    *)
(* moves up to the nearest ancestor of that one that is known to           *)
(* postdominate it.  Every block is visited once.                          *)
(*                                                                         *)
(* Blocks are named by starting address, the key of the maps.  A map       *)
(* postDominated[b] has two kinds of key: those with a block, and those    *)
(* that a lookup with operator[] left behind with a NULL.  The dominator   *)
(* tree (deprecated, never built) is left out.                             *)
(***************************************************************************)
EXTENDS Integers, FiniteSetsExt, SequencesExt

CONSTANTS
  Node,       \* every block a routine may have
  Layouts     \* k -> address malloc gives to the k-th block allocated

ReturnNode == 2
NULL == 0
Height == 0 .. Cardinality(Node)

ASSUME NodeAssumption ==
  /\ IsFiniteSet(Node) /\ Node \subseteq Int \ {NULL} /\ ReturnNode \in Node
  /\ Layouts \subseteq Injection(1 .. Cardinality(Node), Nat)

VARIABLES
  phase,          \* "build", "tree", "done", or "failed"
  layout,
  heap,           \* block -> its address, for the blocks allocated
  predecessors,   \* block -> blocks
  currentBlock,   \* the block whose predecessors are added
  edgeTargets,    \* those not yet added
  blockQueue,
  PostDominator,  \* block -> block or NULL; isPostDominated is # NULL
  postDominated, nullKeys, immediatelyPostDominated   \* block -> blocks

graph == <<heap, layout, predecessors>>
maps  == <<PostDominator, postDominated, nullKeys, immediatelyPostDominated>>
tree  == <<edgeTargets, blockQueue, maps>>

InitTree ==
  /\ edgeTargets = {} /\ blockQueue = << >>
  /\ PostDominator = [b \in Node |-> NULL]
  /\ postDominated = [b \in Node |-> {}]
  /\ nullKeys = [b \in Node |-> {}]
  /\ immediatelyPostDominated = [b \in Node |-> {}]
-----------------------------------------------------------------------------
(* The n-th parent of b; the return node and NULL have none.               *)
Parent(b) ==
  LET Step == [x \in Node \cup {NULL} |->
                 IF x \in {NULL, ReturnNode} THEN x ELSE PostDominator[x]]
      Up[n \in Height] == IF n = 0 THEN b ELSE Step[Up[n - 1]]
  IN  Up

Chain(b) == {Parent(b)[n] : n \in Height} \ {NULL}

(* Levels at which getCommonPostDominator, called on b, may return.        *)
Returns(b, sibling) ==
  {n \in Height : LET x == Parent(b)[n] IN
     x # NULL /\ (x = ReturnNode \/ sibling \in postDominated[x])}

getCommonPostDominator(b, sibling) == Parent(b)[Min(Returns(b, sibling))]

(* The blocks whose maps it looks sibling up in, and finds nothing.        *)
Missed(b, sibling) ==
  {x \in {Parent(b)[n] : n \in 0 .. Min(Returns(b, sibling))} :
     sibling \notin postDominated[x]}

(* The blocks deleteDownPostDominanceInfo passes from b on: up to last, or *)
(* to the root if it does not meet last.                                   *)
Below(b, last) ==
  {x \in Chain(b) : \E n \in Height :
     Parent(b)[n] = x /\ \A i \in 0 .. n : Parent(b)[i] # last}

(* Mutant: the information is not passed on to the ancestors.              *)
FirstParent_ToParentOnly(b, p) ==
  /\ PostDominator' = [PostDominator EXCEPT ![p] = b]
  /\ immediatelyPostDominated' =
       [immediatelyPostDominated EXCEPT ![b] = @ \cup {p}]
  /\ postDominated' = [postDominated EXCEPT ![b] = @ \cup {p}]
  /\ nullKeys' = [nullKeys EXCEPT ![b] = @ \ {p}]

(* setPostDominator, addImmediatePostDominator, passDownPostDominanceInfo. *)
FirstParent(b, p) ==
  /\ PostDominator' = [PostDominator EXCEPT ![p] = b]
  /\ immediatelyPostDominated' =
       [immediatelyPostDominated EXCEPT ![b] = @ \cup {p}]
  /\ postDominated' = [x \in Node |->
       IF x \in Chain(b) THEN postDominated[x] \cup {p} ELSE postDominated[x]]
  /\ nullKeys' = [x \in Node |->
       IF x \in Chain(b) THEN nullKeys[x] \ {p} ELSE nullKeys[x]]

(* Mutant: the block it is met from becomes the parent.                    *)
MoveUp_ToSibling(b, p) ==
  /\ PostDominator' = [PostDominator EXCEPT ![p] = b]
  /\ UNCHANGED <<postDominated, nullKeys, immediatelyPostDominated>>

(* p, which has a parent, is met from b.  The entry of the former parent   *)
(* in immediatelyPostDominated is not erased; that of b is.  The blocks    *)
(* erased from the maps in between are all keys of p's map.                *)
MoveUp(b, p) ==
  LET last    == getCommonPostDominator(b, p)
      missed  == Missed(b, p)
      nulls   == [x \in Node |->
                    IF x \in missed THEN nullKeys[x] \cup {p} ELSE nullKeys[x]]
      erased  == {p} \cup postDominated[p] \cup nulls[p]
      passed  == Below(PostDominator[p], last)
  IN  /\ PostDominator' = [PostDominator EXCEPT ![p] = last]
      /\ immediatelyPostDominated' =
           [immediatelyPostDominated EXCEPT ![b] = @ \ {p}, ![last] = @ \cup {p}]
      /\ postDominated' = [x \in Node |->
           IF x \in passed THEN postDominated[x] \ erased ELSE postDominated[x]]
      /\ nullKeys' = [x \in Node |->
           IF x \in passed THEN nulls[x] \ erased ELSE nulls[x]]

(* A walk that meets no return node ends at a NULL or never: the tool      *)
(* crashes.                                                                *)
addPredecessorAsPostDominated(b, p) ==
  IF PostDominator[p] = NULL
  THEN IF ReturnNode \in Chain(b)
       THEN FirstParent(b, p) /\ UNCHANGED phase
       ELSE phase' = "failed" /\ UNCHANGED maps
  ELSE IF Returns(b, p) # {}
       THEN MoveUp(b, p) /\ UNCHANGED phase
       ELSE phase' = "failed" /\ UNCHANGED maps
-----------------------------------------------------------------------------
(* The next predecessor in the order of a std::set<void*>, which is that   *)
(* of the blocks' addresses on the heap.                                   *)
AddNext ==
  LET p == CHOOSE x \in edgeTargets :
             \A y \in edgeTargets \ {x} : heap[x] < heap[y]
  IN  /\ blockQueue' = IF PostDominator[p] = NULL THEN Append(blockQueue, p)
                       ELSE blockQueue
      /\ addPredecessorAsPostDominated(currentBlock, p)
      /\ edgeTargets' = edgeTargets \ {p}

(* buildPostDominanceTree(ReturnNode, ...).                                *)
StartTree ==
  /\ phase' = "tree"
  /\ currentBlock' = ReturnNode
  /\ edgeTargets' = predecessors[ReturnNode]
  /\ UNCHANGED <<blockQueue, maps>>

AddPredecessor ==
  /\ phase = "tree" /\ edgeTargets # {}
  /\ AddNext
  /\ UNCHANGED <<graph, currentBlock>>

(* Mutant: the block visited next stays in the queue.                      *)
NextBlock_NoPop ==
  /\ phase = "tree" /\ edgeTargets = {} /\ blockQueue # << >>
  /\ currentBlock' = Head(blockQueue)
  /\ edgeTargets' = predecessors[Head(blockQueue)]
  /\ UNCHANGED <<phase, graph, blockQueue, maps>>

(* buildPostDominanceTree calls itself for the next block of the queue.    *)
NextBlock ==
  /\ phase = "tree" /\ edgeTargets = {} /\ blockQueue # << >>
  /\ currentBlock' = Head(blockQueue)
  /\ blockQueue' = Tail(blockQueue)
  /\ edgeTargets' = predecessors[Head(blockQueue)]
  /\ UNCHANGED <<phase, graph, maps>>

EndTree ==
  /\ phase = "tree" /\ edgeTargets = {} /\ blockQueue = << >>
  /\ phase' = "done"
  /\ UNCHANGED <<graph, currentBlock, tree>>

TreeStep == AddPredecessor \/ NextBlock \/ EndTree
-----------------------------------------------------------------------------
(* The blocks from which the return node is reached without passing avoid. *)
Returning(avoid) ==
  LET Grow[n \in Height] ==
        IF n = 0 THEN {ReturnNode} \ {avoid}
        ELSE UNION {{x} \cup (predecessors[x] \ {avoid}) : x \in Grow[n - 1]}
  IN  Grow[Cardinality(Node)]

(* The definition: x is on every path from b to the return node.           *)
PostDominates(x, b) == b \in Returning(NULL) /\ b \notin Returning(x)

(* The steps the search may still take: a block without a parent may yet   *)
(* be queued, a block in the queue has predecessors to add.                *)
Work ==
  LET unplaced == {b \in DOMAIN heap : PostDominator[b] = NULL}
  IN  (Cardinality(DOMAIN heap) + 1) * (Cardinality(unplaced) + Len(blockQueue))
        + Cardinality(edgeTargets)

(* No walk towards the root runs into a NULL parent or around a cycle: a   *)
(* block that has a parent has the return node as its last ancestor.       *)
WalksEnd ==
  /\ phase # "failed"
  /\ \A b \in Node : PostDominator[b] # NULL => ReturnNode \in Chain(b)

(* Whatever the order of the search, the blocks that really postdominate b *)
(* stay among its ancestors.  So the block at which control taint of a     *)
(* branch in b ends lies at or before the true immediate postdominator;    *)
(* and in the end every block that can return has a parent.                *)
PostDominatorsKept ==
  \A b \in Node \ {ReturnNode} :
    (PostDominator[b] # NULL \/ phase = "done") =>
      \A x \in DOMAIN heap \ Chain(b) : ~PostDominates(x, b)

(* "The PostDominator is a pointer to the postDominating node of the       *)
(* current one" (BasicBlock.H:47).                                         *)
PostDominatorPostDominates ==
  phase = "done" =>
    \A b \in Node : PostDominator[b] # NULL => PostDominates(PostDominator[b], b)
=============================================================================
