------------------------- MODULE RoutineGraphProofs -------------------------
(***************************************************************************)
(* Theorems about RoutineGraph, for any list of instructions and every     *)
(* layout of the heap.  Where the builder needs an instruction behind the  *)
(* last one (NoNext) they speak of the graph it has made until then.       *)
(***************************************************************************)
EXTENDS RoutineGraph, FiniteSetTheorems, WellFoundedInduction, TLAPS

(* The blocks that have a parent, and with the root those of the tree.     *)
Placed == {b \in Node : PostDominator[b] # NULL}
InTree == Placed \cup {ReturnNode}

(* A block that ends in an edge: it exists and has its own address.        *)
Complete(b) == b \in DOMAIN heap \ {ReturnNode} /\ startingAddress[b] = b

(* The blocks allocated so far have the first addresses of the layout, no  *)
(* two the same.                                                           *)
HeapInv ==
  /\ DOMAIN heap \subseteq Node /\ ReturnNode \in DOMAIN heap
  /\ \A x \in DOMAIN heap :
       \E k \in 1 .. Cardinality(DOMAIN heap) : heap[x] = layout[k]
  /\ \A x, y \in DOMAIN heap : heap[x] = heap[y] => x = y

(* The graph as far as it is built: an address not yet passed is mapped to *)
(* the block named after it, and edges leave complete blocks only.         *)
GraphInv ==
  /\ routine \in Routines /\ layout \in Layouts
  /\ position \in 2 .. Len(routine) + 1
  /\ DOMAIN addressMap \subseteq Int
  /\ addressMap \in [DOMAIN addressMap -> DOMAIN heap]
  /\ \A a \in DOMAIN addressMap :
       /\ addressMap[a] = ReturnNode => a = ReturnNode
       /\ a >= Address(position) => addressMap[a] = a
  /\ predecessors \in [Node -> SUBSET DOMAIN heap]
  /\ successors \in [Node -> SUBSET DOMAIN heap]
  /\ startingAddress \in [Node -> Int]
  /\ \A y \in Node : \A x \in predecessors[y] : Complete(x)
  /\ phase = "build" => currentBlock = NULL \/ Complete(currentBlock)

(* Blocks in the order of their first parents: parents come before their   *)
(* children, and a block before all in its map postDominated.              *)
Ranked(rank) ==
  /\ rank \in [Node -> 0 .. Cardinality(Placed)]
  /\ rank[ReturnNode] = 0
  /\ \A b \in Placed :
       PostDominator[b] \in InTree /\ rank[PostDominator[b]] < rank[b]
  /\ \A x \in Node : \A p \in postDominated[x] :
       p \in Placed /\ x \in InTree /\ rank[x] < rank[p]

TreeInv ==
  /\ phase \in {"build", "tree", "done"}
  /\ PostDominator \in [Node -> DOMAIN heap \cup {NULL}]
  /\ PostDominator[ReturnNode] = NULL
  /\ \A b \in Placed : Complete(b)
  /\ postDominated \in [Node -> SUBSET Node]
  /\ \E rank : Ranked(rank)
  /\ blockQueue \in Seq(Placed)
  /\ phase = "build" => Placed = {}
  /\ phase # "build" =>
       currentBlock \in InTree /\ edgeTargets \subseteq predecessors[currentBlock]

IInv == HeapInv /\ GraphInv /\ TreeInv
-----------------------------------------------------------------------------
(* Every set of natural numbers has a least element.                       *)
LEMMA Least ==
  ASSUME NEW T \in SUBSET Nat, T # {}
  PROVE  \E x \in T : \A y \in T : x <= y
  <1>1. PICK x \in T : \A y \in T : ~(<<y, x>> \in OpToRel(<, Nat))
    BY NatLessThanWellFounded, WFMin
  <1>2. \A y \in T : ~(y < x)
    BY <1>1 DEF OpToRel
  <1> QED BY <1>2

(* Blocks are finitely many.                                               *)
LEMMA HeightIsNat == Cardinality(Node) \in Nat
  BY NodeAssumption, FS_CardinalityType

(* One level up.                                                           *)
Up(x) == IF x \in {NULL, ReturnNode} THEN x ELSE PostDominator[x]

(* Walks of any number of levels exist.                                    *)
LEMMA WalkExists ==
  ASSUME NEW b \in Node \cup {NULL}, NEW N \in Nat,
         \A x \in Node : PostDominator[x] \in Node \cup {NULL}
  PROVE  \E g \in [0 .. N -> Node \cup {NULL}] :
           g[0] = b /\ \A n \in 1 .. N : g[n] = Up(g[n - 1])
  <1> DEFINE Walk(m, g) == g[0] = b /\ \A n \in 1 .. m : g[n] = Up(g[n - 1])
             T == {m \in Nat : ~\E g \in [0 .. m -> Node \cup {NULL}] : Walk(m, g)}
  <1> SUFFICES T = {}
    OBVIOUS
  <1> SUFFICES ASSUME T # {} PROVE FALSE
    OBVIOUS
  <1>1. PICK m \in T : \A y \in T : m <= y
    BY Least
  <1>2. m \in Nat /\ ~\E g \in [0 .. m -> Node \cup {NULL}] : Walk(m, g)
    OBVIOUS
  <1>3. m # 0
    <2> SUFFICES ASSUME m = 0 PROVE FALSE
      OBVIOUS
    <2>1. [n \in 0 .. 0 |-> b] \in [0 .. 0 -> Node \cup {NULL}]
      OBVIOUS
    <2>2. Walk(0, [n \in 0 .. 0 |-> b])
      OBVIOUS
    <2> QED BY <1>2, <2>1, <2>2
  <1>4. m - 1 \in Nat /\ m - 1 \notin T
    BY <1>1, <1>2, <1>3
  <1>5. PICK g \in [0 .. m - 1 -> Node \cup {NULL}] : Walk(m - 1, g)
    BY <1>4
  <1> DEFINE h == [n \in 0 .. m |-> IF n < m THEN g[n] ELSE Up(g[m - 1])]
  <1>6. Up(g[m - 1]) \in Node \cup {NULL}
    <2>1. g[m - 1] \in Node \cup {NULL}
      BY <1>4
    <2> QED BY <2>1 DEF Up
  <1>7. h \in [0 .. m -> Node \cup {NULL}]
    BY <1>2, <1>3, <1>6
  <1>8. Walk(m, h)
    <2>1. h[0] = b
      BY <1>2, <1>3, <1>5
    <2>2. ASSUME NEW n \in 1 .. m PROVE h[n] = Up(h[n - 1])
      <3>1. CASE n < m
        BY <3>1, <1>5, <1>2
      <3>2. CASE n = m
        BY <3>2, <1>2, <1>3
      <3> QED BY <3>1, <3>2, <1>2
    <2> QED BY <2>1, <2>2
  <1> QED BY <1>2, <1>7, <1>8

(* Parent, unfolded.                                                       *)
LEMMA ParentFacts ==
  ASSUME NEW b \in Node \cup {NULL},
         \A x \in Node : PostDominator[x] \in Node \cup {NULL}
  PROVE  /\ Parent(b) \in [Height -> Node \cup {NULL}]
         /\ Parent(b)[0] = b
         /\ \A n \in Height \ {0} : Parent(b)[n] = Up(Parent(b)[n - 1])
  <1>1. PICK g \in [Height -> Node \cup {NULL}] :
          g[0] = b /\ \A n \in 1 .. Cardinality(Node) : g[n] = Up(g[n - 1])
    BY WalkExists, HeightIsNat DEF Height
  <1> DEFINE Step == [x \in Node \cup {NULL} |->
                 IF x \in {NULL, ReturnNode} THEN x ELSE PostDominator[x]]
  <1>2. Parent(b) = CHOOSE f : f = [n \in Height |-> IF n = 0 THEN b ELSE Step[f[n - 1]]]
    BY DEF Parent
  <1>3. g = [n \in Height |-> IF n = 0 THEN b ELSE Step[g[n - 1]]]
    <2>1. ASSUME NEW n \in Height PROVE g[n] = IF n = 0 THEN b ELSE Step[g[n - 1]]
      <3>1. CASE n = 0
        BY <3>1, <1>1
      <3>2. CASE n # 0
        <4>1. n \in 1 .. Cardinality(Node) /\ n - 1 \in Height
          BY <3>2, HeightIsNat DEF Height
        <4>2. g[n] = Up(g[n - 1]) /\ g[n - 1] \in Node \cup {NULL}
          BY <1>1, <4>1
        <4> QED BY <4>2, <3>2 DEF Up
      <3> QED BY <3>1, <3>2
    <2> QED BY <2>1
  <1> HIDE DEF Step
  <1>4. Parent(b) = [n \in Height |-> IF n = 0 THEN b ELSE Step[Parent(b)[n - 1]]]
    BY <1>2, <1>3
  <1>5. ASSUME NEW x \in Node \cup {NULL} PROVE Step[x] = Up(x)
    BY DEF Step, Up
  <1> DEFINE T == {n \in Height : Parent(b)[n] \notin Node \cup {NULL}}
  <1>6. T = {}
    <2> SUFFICES ASSUME T # {} PROVE FALSE
      OBVIOUS
    <2>1. T \subseteq Nat
      BY HeightIsNat DEF Height
    <2>2. PICK n \in T : \A y \in T : n <= y
      BY <2>1, Least
    <2>3. n \in Height /\ n \in Nat /\ Parent(b)[n] \notin Node \cup {NULL}
      BY <2>1
    <2>4. n # 0
      BY <2>3, <1>4
    <2>5. n - 1 \in Height /\ n - 1 \notin T
      BY <2>2, <2>3, <2>4, HeightIsNat DEF Height
    <2>6. Parent(b)[n - 1] \in Node \cup {NULL}
      BY <2>5
    <2>7. Parent(b)[n] = Up(Parent(b)[n - 1])
      BY <1>4, <1>5, <2>3, <2>4, <2>6
    <2>8. Up(Parent(b)[n - 1]) \in Node \cup {NULL}
      BY <2>6 DEF Up
    <2> QED BY <2>3, <2>7, <2>8
  <1>7. \A n \in Height : Parent(b)[n] \in Node \cup {NULL}
    BY <1>6
  <1>8. Parent(b)[0] = b
    BY <1>4, HeightIsNat DEF Height
  <1>9. ASSUME NEW n \in Height \ {0} PROVE Parent(b)[n] = Up(Parent(b)[n - 1])
    <2>1. n - 1 \in Height
      BY HeightIsNat DEF Height
    <2>2. Parent(b)[n] = Step[Parent(b)[n - 1]]
      BY <1>4
    <2> QED BY <2>1, <2>2, <1>5, <1>7
  <1>10. Parent(b) \in [Height -> Node \cup {NULL}]
    BY <1>4, <1>7
  <1> QED BY <1>8, <1>9, <1>10

(* What the invariant says of the tree, in the form the walks use.         *)
LEMMA TreeFacts ==
  ASSUME TreeInv, HeapInv
  PROVE  /\ \A x \in Node : PostDominator[x] \in Node \cup {NULL}
         /\ Placed \subseteq Node /\ InTree \subseteq Node
         /\ ReturnNode \notin Placed /\ NULL \notin Node
         /\ IsFiniteSet(Placed) /\ Cardinality(Placed) \in Nat
         /\ Cardinality(Placed) <= Cardinality(Node)
  <1>1. Placed \subseteq Node /\ InTree \subseteq Node
    BY NodeAssumption DEF Placed, InTree
  <1>2. IsFiniteSet(Placed) /\ Cardinality(Placed) \in Nat
          /\ Cardinality(Placed) <= Cardinality(Node)
    BY <1>1, NodeAssumption, FS_Subset, FS_CardinalityType
  <1>3. \A x \in Node : PostDominator[x] \in Node \cup {NULL}
    BY DEF TreeInv, HeapInv
  <1>4. ReturnNode \notin Placed /\ NULL \notin Node
    BY NodeAssumption DEF TreeInv, Placed
  <1> QED BY <1>1, <1>2, <1>3, <1>4

(* Every level a walk takes comes before the one below it, until the       *)
(* return node is met.                                                     *)
LEMMA WalkDescends ==
  ASSUME TreeInv, HeapInv, NEW rank, Ranked(rank), NEW b \in InTree,
         NEW n \in Height
  PROVE  /\ Parent(b)[n] \in InTree
         /\ Parent(b)[n] = ReturnNode \/ rank[Parent(b)[n]] + n <= rank[b]
  <1> DEFINE Good(m) == /\ Parent(b)[m] \in InTree
                        /\ Parent(b)[m] = ReturnNode \/ rank[Parent(b)[m]] + m <= rank[b]
             T == {m \in Height : ~Good(m)}
  <1> SUFFICES T = {}
    OBVIOUS
  <1> SUFFICES ASSUME T # {} PROVE FALSE
    OBVIOUS
  <1>1. T \subseteq Nat
    BY HeightIsNat DEF Height
  <1>2. PICK m \in T : \A y \in T : m <= y
    BY <1>1, Least
  <1>3. m \in Height /\ m \in Nat /\ ~Good(m)
    BY <1>1
  <1>4. /\ Parent(b)[0] = b
        /\ \A k \in Height \ {0} : Parent(b)[k] = Up(Parent(b)[k - 1])
    BY TreeFacts, ParentFacts
  <1>5. \A x \in InTree : rank[x] \in Nat
    BY TreeFacts DEF Ranked
  <1>6. m # 0
    BY <1>3, <1>4, <1>5
  <1>7. m - 1 \in Height /\ m - 1 \in Nat /\ m - 1 \notin T
    BY <1>2, <1>3, <1>6, HeightIsNat DEF Height
  <1>8. Good(m - 1)
    BY <1>7
  <1> DEFINE x == Parent(b)[m - 1]
  <1>9. Parent(b)[m] = Up(x)
    BY <1>3, <1>4, <1>6
  <1>10. CASE x = ReturnNode
    BY <1>3, <1>9, <1>10 DEF Up, InTree
  <1>11. CASE x # ReturnNode
    <2>1. x \in Placed /\ rank[x] + (m - 1) <= rank[b]
      BY <1>8, <1>11 DEF InTree
    <2>2. x # NULL /\ Up(x) = PostDominator[x]
      BY <2>1, <1>11, TreeFacts DEF Up
    <2>3. Up(x) \in InTree /\ rank[Up(x)] < rank[x]
      BY <2>1, <2>2 DEF Ranked
    <2>4. rank[Up(x)] \in Nat /\ rank[x] \in Nat /\ rank[b] \in Nat
      BY <2>1, <2>3, <1>5 DEF InTree
    <2>5. rank[Up(x)] + m <= rank[b]
      BY <2>1, <2>3, <2>4, <1>3
    <2> QED BY <1>3, <1>9, <2>3, <2>5
  <1> QED BY <1>10, <1>11

(* The walk from a block of the tree meets the return node, and blocks of  *)
(* the tree only.                                                          *)
LEMMA WalkReturns ==
  ASSUME TreeInv, HeapInv, NEW b \in InTree
  PROVE  /\ Chain(b) \subseteq InTree
         /\ \E n \in Height : Parent(b)[n] = ReturnNode
         /\ ReturnNode \in Chain(b)
  <1>1. PICK rank : Ranked(rank)
    BY DEF TreeInv
  <1>2. rank[b] \in Nat /\ rank[b] \in Height
    BY <1>1, TreeFacts, HeightIsNat DEF Ranked, Height
  <1>3. Parent(b)[rank[b]] = ReturnNode
    <2> SUFFICES ASSUME Parent(b)[rank[b]] # ReturnNode PROVE FALSE
      OBVIOUS
    <2> DEFINE x == Parent(b)[rank[b]]
    <2>1. x \in Placed /\ rank[x] + rank[b] <= rank[b]
      BY <1>1, <1>2, WalkDescends DEF InTree
    <2>2. rank[PostDominator[x]] < rank[x] /\ PostDominator[x] \in InTree
      BY <2>1, <1>1 DEF Ranked
    <2>3. rank[x] \in Nat /\ rank[PostDominator[x]] \in Nat
      BY <2>1, <2>2, <1>1, TreeFacts DEF Ranked
    <2> QED BY <2>1, <2>2, <2>3, <1>2
  <1>4. ReturnNode \in Chain(b)
    <2>1. ReturnNode # NULL
      BY DEF ReturnNode, NULL
    <2> QED BY <1>2, <1>3, <2>1 DEF Chain
  <1>5. Chain(b) \subseteq InTree
    BY <1>1, WalkDescends DEF Chain
  <1> QED BY <1>2, <1>3, <1>4, <1>5

(* getCommonPostDominator returns a block of the tree that comes before    *)
(* the block it is asked for.                                              *)
LEMMA CommonFound ==
  ASSUME TreeInv, HeapInv, NEW b \in InTree, NEW p
  PROVE  /\ Returns(b, p) # {}
         /\ getCommonPostDominator(b, p) \in InTree
         /\ \/ getCommonPostDominator(b, p) = ReturnNode
            \/ p \in postDominated[getCommonPostDominator(b, p)]
  <1>1. PICK n \in Height : Parent(b)[n] = ReturnNode
    BY WalkReturns
  <1>2. ReturnNode # NULL
    BY DEF ReturnNode, NULL
  <1>3. n \in Returns(b, p)
    BY <1>1, <1>2 DEF Returns
  <1>4. Returns(b, p) \subseteq Nat /\ Returns(b, p) \subseteq Height
    BY HeightIsNat DEF Returns, Height
  <1>5. \E m \in Returns(b, p) : \A y \in Returns(b, p) : m <= y
    BY <1>3, <1>4, Least
  <1>6. Min(Returns(b, p)) \in Returns(b, p)
    BY <1>5 DEF Min
  <1> DEFINE m == Min(Returns(b, p))
  <1>7. m \in Height /\ Parent(b)[m] # NULL
          /\ (Parent(b)[m] = ReturnNode \/ p \in postDominated[Parent(b)[m]])
    BY <1>6 DEF Returns
  <1>8. PICK rank : Ranked(rank)
    BY DEF TreeInv
  <1>9. Parent(b)[m] \in InTree
    BY <1>7, <1>8, WalkDescends
  <1> QED BY <1>3, <1>7, <1>9 DEF getCommonPostDominator

(* The order of a std::set of pointers has a first element.                *)
LEMMA FirstOnHeap ==
  ASSUME HeapInv, GraphInv, NEW S \in SUBSET DOMAIN heap, S # {}
  PROVE  (CHOOSE x \in S : \A y \in S \ {x} : heap[x] < heap[y]) \in S
  <1>1. layout \in [1 .. Cardinality(Node) -> Nat]
    BY NodeAssumption DEF GraphInv, Injection
  <1>2. Cardinality(DOMAIN heap) \in Nat /\ Cardinality(DOMAIN heap) <= Cardinality(Node)
    BY NodeAssumption, FS_Subset, FS_CardinalityType DEF HeapInv
  <1>3. ASSUME NEW x \in DOMAIN heap PROVE heap[x] \in Nat
    <2>1. PICK k \in 1 .. Cardinality(DOMAIN heap) : heap[x] = layout[k]
      BY DEF HeapInv
    <2>2. k \in 1 .. Cardinality(Node)
      BY <1>2, HeightIsNat
    <2> QED BY <1>1, <2>1, <2>2
  <1>4. {heap[x] : x \in S} \subseteq Nat /\ {heap[x] : x \in S} # {}
    BY <1>3
  <1>5. PICK a \in {heap[x] : x \in S} : \A c \in {heap[x] : x \in S} : a <= c
    BY <1>4, Least
  <1>6. PICK x \in S : a = heap[x]
    BY <1>5
  <1>7. ASSUME NEW y \in S \ {x} PROVE heap[x] < heap[y]
    <2>1. heap[x] # heap[y]
      BY DEF HeapInv
    <2>2. heap[x] <= heap[y]
      BY <1>5, <1>6
    <2> QED BY <2>1, <2>2, <1>3
  <1> QED BY <1>7

(* AddPredecessor adds a block that is complete; the walk it starts does   *)
(* not fail.                                                               *)
LEMMA AddCases ==
  ASSUME IInv, AddPredecessor
  PROVE  \E p \in edgeTargets :
           /\ edgeTargets' = edgeTargets \ {p} /\ Complete(p) /\ p \in Node
           /\ UNCHANGED <<phase, heap, layout, predecessors, currentBlock>>
           /\ \/ /\ p \notin Placed
                 /\ blockQueue' = Append(blockQueue, p)
                 /\ FirstParent(currentBlock, p)
              \/ /\ p \in Placed
                 /\ blockQueue' = blockQueue
                 /\ MoveUp(currentBlock, p)
  <1> USE DEF IInv
  <1> DEFINE p == CHOOSE x \in edgeTargets :
                    \A y \in edgeTargets \ {x} : heap[x] < heap[y]
  <1>1. phase = "tree" /\ edgeTargets # {} /\ UNCHANGED <<graph, currentBlock>>
    BY DEF AddPredecessor
  <1>2. currentBlock \in InTree /\ edgeTargets \subseteq predecessors[currentBlock]
    BY <1>1 DEF TreeInv
  <1>3. currentBlock \in Node
    BY <1>2, TreeFacts
  <1>4. edgeTargets \subseteq DOMAIN heap
    BY <1>2, <1>3 DEF GraphInv
  <1>5. p \in edgeTargets
    BY <1>1, <1>4, FirstOnHeap
  <1>6. Complete(p) /\ p \in Node
    BY <1>2, <1>3, <1>4, <1>5 DEF GraphInv, HeapInv
  <1>7. ReturnNode \in Chain(currentBlock) /\ Returns(currentBlock, p) # {}
    BY <1>2, WalkReturns, CommonFound
  <1> HIDE DEF p
  <1>8. /\ blockQueue' = IF PostDominator[p] = NULL THEN Append(blockQueue, p)
                         ELSE blockQueue
        /\ addPredecessorAsPostDominated(currentBlock, p)
        /\ edgeTargets' = edgeTargets \ {p}
    BY DEF AddPredecessor, AddNext, p
  <1>9. CASE p \notin Placed
    <2>1. PostDominator[p] = NULL
      BY <1>6, <1>9 DEF Placed
    <2> QED BY <2>1, <1>1, <1>5, <1>6, <1>7, <1>8, <1>9
            DEF addPredecessorAsPostDominated, graph
  <1>10. CASE p \in Placed
    <2>1. PostDominator[p] # NULL
      BY <1>10 DEF Placed
    <2> QED BY <2>1, <1>1, <1>5, <1>6, <1>7, <1>8, <1>10
            DEF addPredecessorAsPostDominated, graph
  <1> QED BY <1>9, <1>10

(* A first parent: the block comes after all that are in the tree.         *)
LEMMA FirstParentTree ==
  ASSUME IInv, NEW p \in Node \ Placed, Complete(p), currentBlock \in InTree,
         FirstParent(currentBlock, p)
  PROVE  /\ Placed' = Placed \cup {p}
         /\ PostDominator' \in [Node -> DOMAIN heap \cup {NULL}]
         /\ PostDominator'[ReturnNode] = NULL
         /\ postDominated' \in [Node -> SUBSET Node]
         /\ \E rank : Ranked(rank)'
  <1> USE DEF IInv
  <1>1. PICK rank : Ranked(rank)
    BY DEF TreeInv
  <1>2. /\ InTree \subseteq DOMAIN heap /\ currentBlock \in DOMAIN heap
        /\ currentBlock # NULL /\ p # ReturnNode /\ p \notin InTree
    BY TreeFacts DEF InTree, TreeInv, HeapInv, Complete
  <1>3. PostDominator \in [Node -> DOMAIN heap \cup {NULL}]
    BY DEF TreeInv
  <1>4. PostDominator' = [PostDominator EXCEPT ![p] = currentBlock]
    BY DEF FirstParent
  <1>5. /\ PostDominator' \in [Node -> DOMAIN heap \cup {NULL}]
        /\ PostDominator'[p] = currentBlock
        /\ \A b \in Node \ {p} : PostDominator'[b] = PostDominator[b]
    BY <1>2, <1>3, <1>4
  <1>6. Placed' = Placed \cup {p} /\ InTree' = InTree \cup {p}
    BY <1>2, <1>5 DEF Placed, InTree
  <1>7. PostDominator'[ReturnNode] = NULL
    BY <1>2, <1>5, NodeAssumption DEF TreeInv
  <1>8. Chain(currentBlock) \subseteq InTree
    BY WalkReturns
  <1>9. /\ postDominated' \in [Node -> SUBSET Node]
        /\ \A x \in Node : postDominated'[x] =
             IF x \in Chain(currentBlock) THEN postDominated[x] \cup {p}
             ELSE postDominated[x]
    BY DEF FirstParent, TreeInv
  <1>10. PICK r : r = [rank EXCEPT ![p] = Cardinality(Placed) + 1]
    OBVIOUS
  <1>11. /\ Cardinality(Placed) \in Nat /\ IsFiniteSet(Placed)
         /\ Cardinality(Placed') = Cardinality(Placed) + 1
    BY <1>6, TreeFacts, FS_AddElement
  <1>12. /\ r \in [Node -> 0 .. Cardinality(Placed')]
         /\ \A x \in InTree : r[x] = rank[x] /\ rank[x] \in 0 .. Cardinality(Placed)
         /\ r[p] = Cardinality(Placed) + 1
    BY <1>1, <1>2, <1>11, <1>10, TreeFacts DEF Ranked
  <1>13. r[ReturnNode] = 0
    BY <1>1, <1>12 DEF Ranked, InTree
  <1>14. ASSUME NEW b \in Placed'
         PROVE  PostDominator'[b] \in InTree' /\ r[PostDominator'[b]] < r[b]
    <2>1. CASE b = p
      BY <2>1, <1>5, <1>6, <1>11, <1>12
    <2>2. CASE b # p
      <3>1. b \in Placed /\ PostDominator'[b] = PostDominator[b]
        BY <2>2, <1>5, <1>6, TreeFacts
      <3>2. PostDominator[b] \in InTree /\ rank[PostDominator[b]] < rank[b]
        BY <3>1, <1>1 DEF Ranked
      <3> QED BY <3>1, <3>2, <1>6, <1>12 DEF InTree
    <2> QED BY <2>1, <2>2
  <1>15. ASSUME NEW x \in Node, NEW z \in postDominated'[x]
         PROVE  z \in Placed' /\ x \in InTree' /\ r[x] < r[z]
    <2>1. CASE z \in postDominated[x]
      <3>1. z \in Placed /\ x \in InTree /\ rank[x] < rank[z]
        BY <2>1, <1>1 DEF Ranked
      <3> QED BY <3>1, <1>6, <1>12 DEF InTree
    <2>2. CASE z \notin postDominated[x]
      <3>1. z = p /\ x \in Chain(currentBlock)
        BY <2>2, <1>9
      <3>2. x \in InTree
        BY <3>1, <1>8
      <3> QED BY <3>1, <3>2, <1>6, <1>11, <1>12
    <2> QED BY <2>1, <2>2
  <1>16. Ranked(r)'
    BY <1>12, <1>13, <1>14, <1>15 DEF Ranked
  <1> QED BY <1>5, <1>6, <1>7, <1>9, <1>16

(* A block that moves stays behind its new parent: entries of              *)
(* postDominated are only erased, and each one says which block is first.  *)
LEMMA MoveUpTree ==
  ASSUME IInv, NEW p \in Placed, currentBlock \in InTree, MoveUp(currentBlock, p)
  PROVE  /\ Placed' = Placed
         /\ PostDominator' \in [Node -> DOMAIN heap \cup {NULL}]
         /\ PostDominator'[ReturnNode] = NULL
         /\ postDominated' \in [Node -> SUBSET Node]
         /\ \E rank : Ranked(rank)'
  <1> USE DEF IInv
  <1>1. PICK rank : Ranked(rank)
    BY DEF TreeInv
  <1> DEFINE last == getCommonPostDominator(currentBlock, p)
  <1>2. last \in InTree /\ (last = ReturnNode \/ p \in postDominated[last])
    BY CommonFound
  <1> HIDE DEF last
  <1>3. /\ InTree \subseteq DOMAIN heap /\ last \in DOMAIN heap
        /\ last # NULL /\ p # ReturnNode /\ p \in Node /\ last \in Node
    BY <1>2, TreeFacts DEF InTree, TreeInv, HeapInv, Complete
  <1>4. PostDominator \in [Node -> DOMAIN heap \cup {NULL}]
    BY DEF TreeInv
  <1>5. PostDominator' = [PostDominator EXCEPT ![p] = last]
    BY DEF MoveUp, last
  <1>6. /\ PostDominator' \in [Node -> DOMAIN heap \cup {NULL}]
        /\ PostDominator'[p] = last
        /\ \A b \in Node \ {p} : PostDominator'[b] = PostDominator[b]
    BY <1>3, <1>4, <1>5
  <1>7. Placed' = Placed /\ InTree' = InTree
    BY <1>3, <1>6 DEF Placed, InTree
  <1>8. PostDominator'[ReturnNode] = NULL
    BY <1>3, <1>6, NodeAssumption DEF TreeInv
  <1>9. /\ postDominated' \in [Node -> SUBSET Node]
        /\ \A x \in Node : postDominated'[x] \subseteq postDominated[x]
    BY DEF MoveUp, TreeInv
  <1>10. rank[last] < rank[p]
    <2>1. CASE p \in postDominated[last]
      BY <2>1, <1>1, <1>3 DEF Ranked
    <2>2. CASE last = ReturnNode
      <3>1. rank[PostDominator[p]] < rank[p] /\ PostDominator[p] \in Node
        BY <1>1, TreeFacts DEF Ranked
      <3>2. rank[PostDominator[p]] \in Nat /\ rank[p] \in Nat /\ rank[last] = 0
        BY <3>1, <2>2, <1>1, <1>3, TreeFacts DEF Ranked
      <3> QED BY <3>1, <3>2
    <2> QED BY <2>1, <2>2, <1>2
  <1>11. ASSUME NEW b \in Placed'
         PROVE  PostDominator'[b] \in InTree' /\ rank[PostDominator'[b]] < rank[b]
    <2>1. CASE b = p
      BY <2>1, <1>2, <1>6, <1>7, <1>10
    <2>2. CASE b # p
      <3>1. PostDominator'[b] = PostDominator[b]
        BY <2>2, <1>6, <1>7, TreeFacts
      <3> QED BY <3>1, <1>1, <1>7 DEF Ranked
    <2> QED BY <2>1, <2>2
  <1>12. Ranked(rank)'
    BY <1>1, <1>7, <1>9, <1>11 DEF Ranked
  <1> QED BY <1>6, <1>7, <1>8, <1>9, <1>12

(* The steps of the search preserve what is known of the tree.             *)
LEMMA AddTree ==
  ASSUME IInv, AddPredecessor, UNCHANGED building
  PROVE  IInv'
  <1>1. PICK p \in edgeTargets :
           /\ edgeTargets' = edgeTargets \ {p} /\ Complete(p) /\ p \in Node
           /\ UNCHANGED <<phase, heap, layout, predecessors, currentBlock>>
           /\ \/ /\ p \notin Placed
                 /\ blockQueue' = Append(blockQueue, p)
                 /\ FirstParent(currentBlock, p)
              \/ /\ p \in Placed
                 /\ blockQueue' = blockQueue
                 /\ MoveUp(currentBlock, p)
    BY AddCases
  <1>2. phase = "tree" /\ phase' = "tree"
    BY <1>1 DEF AddPredecessor
  <1>3. currentBlock \in InTree /\ edgeTargets \subseteq predecessors[currentBlock]
    BY <1>2 DEF IInv, TreeInv
  <1>4. /\ Placed' \in {Placed, Placed \cup {p}} /\ Placed \subseteq Placed'
        /\ PostDominator' \in [Node -> DOMAIN heap \cup {NULL}]
        /\ PostDominator'[ReturnNode] = NULL
        /\ postDominated' \in [Node -> SUBSET Node]
        /\ \E rank : Ranked(rank)'
        /\ blockQueue' \in Seq(Placed')
    <2>1. blockQueue \in Seq(Placed)
      BY DEF IInv, TreeInv
    <2>2. CASE p \notin Placed
      <3>1. Placed' = Placed \cup {p} /\ blockQueue' = Append(blockQueue, p)
        BY <1>1, <1>3, <2>2, FirstParentTree
      <3>2. blockQueue \in Seq(Placed') /\ p \in Placed'
        BY <3>1, <2>1
      <3>3. blockQueue' \in Seq(Placed')
        BY <3>1, <3>2
      <3> QED BY <1>1, <1>3, <2>2, <3>1, <3>3, FirstParentTree
    <2>3. CASE p \in Placed
      <3>1. Placed' = Placed
        BY <1>1, <1>3, <2>3, MoveUpTree
      <3> QED BY <1>1, <1>3, <2>1, <2>3, <3>1, MoveUpTree
    <2> QED BY <2>2, <2>3
  <1>5. HeapInv' /\ GraphInv'
    BY <1>1, <1>2 DEF IInv, HeapInv, GraphInv, building, Complete, Address
  <1>6. \A b \in Placed' : Complete(b)'
    BY <1>1, <1>4 DEF IInv, TreeInv, Complete, building
  <1>7. currentBlock' \in InTree' /\ edgeTargets' \subseteq predecessors'[currentBlock']
    BY <1>1, <1>3, <1>4 DEF InTree
  <1>8. TreeInv'
    BY <1>1, <1>2, <1>4, <1>6, <1>7 DEF TreeInv
  <1> QED BY <1>5, <1>8 DEF IInv

(* The block taken from the queue is in the tree.                          *)
LEMMA NextBlockTree ==
  ASSUME IInv, NextBlock, UNCHANGED building
  PROVE  IInv'
  <1>1. /\ phase = "tree" /\ blockQueue # << >> /\ blockQueue \in Seq(Placed)
        /\ currentBlock' = Head(blockQueue) /\ blockQueue' = Tail(blockQueue)
        /\ edgeTargets' = predecessors[Head(blockQueue)]
        /\ UNCHANGED <<phase, heap, layout, predecessors, PostDominator, postDominated>>
    BY DEF NextBlock, IInv, TreeInv, graph, maps
  <1>2. Head(blockQueue) \in Placed /\ Tail(blockQueue) \in Seq(Placed)
    BY <1>1
  <1>3. Placed' = Placed /\ InTree' = InTree
    BY <1>1 DEF Placed, InTree
  <1>4. HeapInv' /\ GraphInv'
    BY <1>1 DEF IInv, HeapInv, GraphInv, building, Complete, Address
  <1>5. \A rank : Ranked(rank) => Ranked(rank)'
    BY <1>1, <1>3 DEF Ranked
  <1>6. \A b \in Placed' : Complete(b)'
    BY <1>1, <1>3 DEF IInv, TreeInv, Complete, building
  <1>7. \E rank : Ranked(rank)'
    BY <1>5 DEF IInv, TreeInv
  <1>8. TreeInv'
    BY <1>1, <1>2, <1>3, <1>6, <1>7 DEF TreeInv, IInv, InTree
  <1> QED BY <1>4, <1>8 DEF IInv

(* Steps that change nothing but the phase and the block to start from.    *)
LEMMA PhaseStep ==
  ASSUME IInv, UNCHANGED <<graph, maps, blockQueue, building>>,
         \/ UNCHANGED <<phase, currentBlock, edgeTargets>>
         \/ phase = "build" /\ StartTree
         \/ phase = "tree" /\ phase' = "done" /\ UNCHANGED <<currentBlock, edgeTargets>>
  PROVE  IInv'
  <1>1. UNCHANGED <<heap, layout, predecessors, PostDominator, postDominated, blockQueue>>
    BY DEF graph, maps
  <1>2. Placed' = Placed /\ InTree' = InTree
    BY <1>1 DEF Placed, InTree
  <1>3. phase' \in {"build", "tree", "done"} /\ (phase' = "build" => phase = "build")
          /\ (phase' = "build" => UNCHANGED currentBlock)
    BY DEF StartTree, IInv, TreeInv
  <1>4. HeapInv' /\ GraphInv'
    BY <1>1, <1>3 DEF IInv, HeapInv, GraphInv, building, Complete, Address
  <1>5. \A rank : Ranked(rank) => Ranked(rank)'
    BY <1>1, <1>2 DEF Ranked
  <1>6. \A b \in Placed' : Complete(b)'
    BY <1>1, <1>2 DEF IInv, TreeInv, Complete, building
  <1>7. \E rank : Ranked(rank)'
    BY <1>5 DEF IInv, TreeInv
  <1>8. phase' # "build" =>
          currentBlock' \in InTree' /\ edgeTargets' \subseteq predecessors'[currentBlock']
    BY <1>1, <1>2 DEF StartTree, IInv, TreeInv, InTree
  <1>9. TreeInv'
    BY <1>1, <1>2, <1>3, <1>6, <1>7, <1>8 DEF TreeInv, IInv
  <1> QED BY <1>4, <1>9 DEF IInv

(* The measure, by its parts.                                              *)
LEMMA WorkFacts ==
  ASSUME IInv
  PROVE  /\ IsFiniteSet(DOMAIN heap) /\ Cardinality(DOMAIN heap) \in Nat
         /\ IsFiniteSet(DOMAIN heap \ Placed)
         /\ Cardinality(DOMAIN heap \ Placed) \in Nat
         /\ Len(blockQueue) \in Nat
         /\ Work = (Cardinality(DOMAIN heap) + 1)
                     * (Cardinality(DOMAIN heap \ Placed) + Len(blockQueue))
                    + Cardinality(edgeTargets)
  <1>1. IsFiniteSet(DOMAIN heap) /\ Cardinality(DOMAIN heap) \in Nat
    BY NodeAssumption, FS_Subset, FS_CardinalityType DEF IInv, HeapInv
  <1>2. IsFiniteSet(DOMAIN heap \ Placed) /\ Cardinality(DOMAIN heap \ Placed) \in Nat
    BY <1>1, FS_Subset, FS_CardinalityType
  <1>3. {b \in DOMAIN heap : PostDominator[b] = NULL} = DOMAIN heap \ Placed
    BY DEF Placed, IInv, HeapInv
  <1>4. Len(blockQueue) \in Nat
    BY DEF IInv, TreeInv
  <1> QED BY <1>1, <1>2, <1>3, <1>4 DEF Work

(* A predecessor is added: it is placed and queued, or was placed before.  *)
LEMMA AddProgress ==
  ASSUME IInv, IInv', AddPredecessor
  PROVE  Work' < Work
  <1>1. PICK p \in edgeTargets :
           /\ edgeTargets' = edgeTargets \ {p} /\ Complete(p) /\ p \in Node
           /\ UNCHANGED <<phase, heap, layout, predecessors, currentBlock>>
           /\ \/ /\ p \notin Placed
                 /\ blockQueue' = Append(blockQueue, p)
                 /\ FirstParent(currentBlock, p)
              \/ /\ p \in Placed
                 /\ blockQueue' = blockQueue
                 /\ MoveUp(currentBlock, p)
    BY AddCases
  <1>2. currentBlock \in InTree /\ edgeTargets \subseteq predecessors[currentBlock]
    BY DEF IInv, TreeInv, AddPredecessor
  <1>3. edgeTargets \subseteq DOMAIN heap
    BY <1>2, TreeFacts DEF IInv, GraphInv
  <1>4. /\ Cardinality(edgeTargets) \in Nat /\ Cardinality(edgeTargets') \in Nat
        /\ Cardinality(edgeTargets') = Cardinality(edgeTargets) - 1
    BY <1>1, <1>3, WorkFacts, FS_Subset, FS_CardinalityType, FS_RemoveElement
  <1> DEFINE u == Cardinality(DOMAIN heap \ Placed) + Len(blockQueue)
  <1>5. Cardinality((DOMAIN heap)' \ Placed') + Len(blockQueue') = u
    <2>1. CASE p \notin Placed
      <3>1. Placed' = Placed \cup {p}
        BY <1>1, <1>2, <2>1, FirstParentTree
      <3>2. (DOMAIN heap)' \ Placed' = (DOMAIN heap \ Placed) \ {p}
              /\ p \in DOMAIN heap \ Placed
        BY <1>1, <2>1, <3>1 DEF Complete
      <3>3. Cardinality((DOMAIN heap)' \ Placed') = Cardinality(DOMAIN heap \ Placed) - 1
        <4>1. IsFiniteSet(DOMAIN heap \ Placed)
          BY WorkFacts
        <4>2. Cardinality((DOMAIN heap \ Placed) \ {p}) = Cardinality(DOMAIN heap \ Placed) - 1
          BY <3>2, <4>1, FS_RemoveElement
        <4> QED BY <3>2, <4>2
      <3>4. Len(blockQueue') = Len(blockQueue) + 1
        BY <1>1, <2>1 DEF IInv, TreeInv
      <3> QED BY <3>3, <3>4, WorkFacts
    <2>2. CASE p \in Placed
      <3>1. Placed' = Placed
        BY <1>1, <1>2, <2>2, MoveUpTree
      <3> QED BY <1>1, <2>2, <3>1
    <2> QED BY <2>1, <2>2
  <1>6. Work = (Cardinality(DOMAIN heap) + 1) * u + Cardinality(edgeTargets)
    BY WorkFacts
  <1>7. Work' = (Cardinality((DOMAIN heap)') + 1)
                  * (Cardinality((DOMAIN heap)' \ Placed') + Len(blockQueue'))
                + Cardinality(edgeTargets')
    <2>1. {b \in (DOMAIN heap)' : PostDominator'[b] = NULL} = (DOMAIN heap)' \ Placed'
      BY DEF Placed, IInv, HeapInv
    <2> QED BY <2>1 DEF Work
  <1>8. PICK k \in Int : k = (Cardinality(DOMAIN heap) + 1) * u
    BY WorkFacts
  <1> HIDE DEF u
  <1> QED BY <1>1, <1>4, <1>5, <1>6, <1>7, <1>8

(* A block leaves the queue, and has no more predecessors than there are   *)
(* blocks.                                                                 *)
LEMMA NextProgress ==
  ASSUME IInv, NextBlock
  PROVE  Work' < Work
  <1>1. /\ edgeTargets = {} /\ blockQueue # << >> /\ blockQueue \in Seq(Placed)
        /\ blockQueue' = Tail(blockQueue)
        /\ edgeTargets' = predecessors[Head(blockQueue)]
        /\ UNCHANGED <<heap, PostDominator>>
    BY DEF NextBlock, IInv, TreeInv, graph, maps
  <1>2. Head(blockQueue) \in Node
    BY <1>1 DEF Placed
  <1>3. edgeTargets' \subseteq DOMAIN heap
    BY <1>1, <1>2 DEF IInv, GraphInv
  <1> DEFINE n == Cardinality(DOMAIN heap)
             u == Cardinality(DOMAIN heap \ Placed)
             q == Len(blockQueue)
             e == Cardinality(edgeTargets')
  <1>4. e \in Nat /\ e <= n /\ Cardinality(edgeTargets) = 0
    BY <1>1, <1>3, WorkFacts, FS_Subset, FS_CardinalityType, FS_EmptySet
  <1>5. Len(blockQueue') = q - 1
    BY <1>1
  <1>6. n \in Nat /\ u \in Nat /\ q \in Nat /\ Work = (n + 1) * (u + q)
    BY WorkFacts, <1>4
  <1>7. Work' = (n + 1) * (u + q - 1) + e
    <2>1. {b \in (DOMAIN heap)' : PostDominator'[b] = NULL} = DOMAIN heap \ Placed
      BY <1>1 DEF Placed, IInv, HeapInv
    <2> QED BY <1>1, <1>5, <2>1 DEF Work
  <1> HIDE DEF n, u, q, e
  <1>8. (n + 1) * (u + q) = (n + 1) * (u + q - 1) + (n + 1)
    BY <1>6
  <1>9. (n + 1) * (u + q - 1) \in Int
    BY <1>6
  <1> QED BY <1>4, <1>6, <1>7, <1>8, <1>9
-----------------------------------------------------------------------------
(* The least and the greatest of one or two numbers.                       *)
LEMMA MinMax ==
  ASSUME NEW x \in Int, NEW y \in Int
  PROVE  /\ Min({x}) = x /\ Max({x}) = x
         /\ Min({x, y}) = IF x <= y THEN x ELSE y
         /\ Max({x, y}) = IF x <= y THEN y ELSE x
  <1>1. Min({x}) = x /\ Max({x}) = x
    BY DEF Min, Max
  <1>2. Min({x, y}) = IF x <= y THEN x ELSE y
    BY DEF Min
  <1>3. Max({x, y}) = IF x <= y THEN y ELSE x
    BY DEF Max
  <1> QED BY <1>1, <1>2, <1>3

(* The elements of a list put together from two.                           *)
LEMMA RangeConcat ==
  ASSUME NEW S, NEW s \in Seq(S), NEW t \in Seq(S)
  PROVE  s \o t \in Seq(S) /\ Range(s \o t) = Range(s) \cup Range(t)
  <1>1. /\ s \o t \in Seq(S) /\ Len(s \o t) = Len(s) + Len(t)
        /\ Len(s) \in Nat /\ Len(t) \in Nat
        /\ DOMAIN (s \o t) = 1 .. Len(s) + Len(t)
        /\ DOMAIN s = 1 .. Len(s) /\ DOMAIN t = 1 .. Len(t)
        /\ \A k \in 1 .. Len(s) + Len(t) :
             (s \o t)[k] = IF k <= Len(s) THEN s[k] ELSE t[k - Len(s)]
    OBVIOUS
  <1>2. ASSUME NEW k \in DOMAIN t
        PROVE  Len(s) + k \in DOMAIN (s \o t) /\ (s \o t)[Len(s) + k] = t[k]
    BY <1>1
  <1>3. ASSUME NEW k \in DOMAIN s PROVE k \in DOMAIN (s \o t) /\ (s \o t)[k] = s[k]
    BY <1>1
  <1>4. ASSUME NEW k \in DOMAIN (s \o t)
        PROVE  (s \o t)[k] \in Range(s) \cup Range(t)
    <2>1. CASE k <= Len(s)
      <3>1. k \in DOMAIN s /\ (s \o t)[k] = s[k]
        BY <1>1, <2>1
      <3> QED BY <3>1 DEF Range
    <2>2. CASE k > Len(s)
      <3>1. k - Len(s) \in DOMAIN t /\ (s \o t)[k] = t[k - Len(s)]
        BY <1>1, <2>2
      <3> QED BY <3>1 DEF Range
    <2> QED BY <2>1, <2>2, <1>1
  <1>5. Range(s \o t) \subseteq Range(s) \cup Range(t)
    BY <1>4 DEF Range
  <1>6. Range(s) \cup Range(t) \subseteq Range(s \o t)
    BY <1>2, <1>3 DEF Range
  <1> QED BY <1>1, <1>5, <1>6

(* Lists of up to two elements.                                            *)
LEMMA ShortLists ==
  ASSUME NEW S
  PROVE  /\ << >> \in Seq(S) /\ Range(<< >>) = {}
         /\ \A x \in S : <<x>> \in Seq(S) /\ Range(<<x>>) = {x}
         /\ \A x, y \in S : <<x>> \o <<y>> \in Seq(S) /\ Range(<<x>> \o <<y>>) = {x, y}
         /\ \A x \in S : <<x>> \o << >> = <<x>>
  <1>1. << >> \in Seq(S) /\ Range(<< >>) = {}
    BY DEF Range
  <1>2. ASSUME NEW x \in S PROVE <<x>> \in Seq(S) /\ Range(<<x>>) = {x}
    <2>1. DOMAIN <<x>> = {1} /\ <<x>>[1] = x /\ <<x>> \in Seq(S)
      OBVIOUS
    <2> QED BY <2>1 DEF Range
  <1>3. ASSUME NEW x \in S, NEW y \in S
        PROVE  <<x>> \o <<y>> \in Seq(S) /\ Range(<<x>> \o <<y>>) = {x, y}
    <2>1. <<x>> \in Seq(S) /\ <<y>> \in Seq(S) /\ Range(<<x>>) = {x} /\ Range(<<y>>) = {y}
      BY <1>2
    <2>2. <<x>> \o <<y>> \in Seq(S)
            /\ Range(<<x>> \o <<y>>) = Range(<<x>>) \cup Range(<<y>>)
      <3>1. PICK s \in Seq(S) : s = <<x>>
        BY <2>1
      <3>2. PICK t \in Seq(S) : t = <<y>>
        BY <2>1
      <3>3. s \o t \in Seq(S) /\ Range(s \o t) = Range(s) \cup Range(t)
        BY RangeConcat
      <3> QED BY <3>1, <3>2, <3>3
    <2> QED BY <2>1, <2>2
  <1>4. ASSUME NEW x \in S PROVE <<x>> \o << >> = <<x>>
    OBVIOUS
  <1> QED BY <1>1, <1>2, <1>3, <1>4

(* The instructions of a routine.                                          *)
LEMMA RoutineFacts ==
  ASSUME routine \in Routines, NEW i \in 1 .. Len(routine)
  PROVE  /\ Base \in Nat /\ Base >= 5 /\ Len(routine) \in Nat /\ i \in DOMAIN routine
         /\ routine[i].op \in {"plain", "jmp", "jcc", "call", "icall", "ijmp", "ret"}
         /\ routine[i].target \in Node /\ routine[i].target \in Nat
         /\ routine[i].target > 5
         /\ Address(i) \in Node /\ Special(i) \in Node
         /\ Address(i) \in Nat /\ Address(i) > 5
         /\ Address(i + 1) = Address(i) + 1 /\ Address(i + 1) \in Node
  <1>1. /\ Base \in Nat /\ Base >= 5
        /\ routine \in Seq(Instruction)
        /\ \A k \in 1 .. Len(routine) :
             /\ {Address(k), Address(k + 1), Special(k), routine[k].target} \subseteq Node
             /\ routine[k].target > 5
    BY RoutineAssumption
  <1>2. routine[i] \in Instruction /\ Len(routine) \in Nat /\ i \in DOMAIN routine
    BY <1>1
  <1>3. /\ routine[i].op \in {"plain", "jmp", "jcc", "call", "icall", "ijmp", "ret"}
        /\ routine[i].target \in Nat
    BY <1>2 DEF Instruction
  <1>4. /\ Address(i) \in Nat /\ Address(i) > 5
        /\ Address(i + 1) = Address(i) + 1
    BY <1>1, <1>2 DEF Address
  <1> QED BY <1>1, <1>2, <1>3, <1>4

(* Where the builder takes an instruction of a block that begins at start  *)
(* to lead.                                                                *)
Goes(i, start) ==
  IF routine[i].op = "jmp" /\ routine[i].target = start
  THEN {routine[i].target, Address(i + 1)} ELSE Steps(i)

(* BranchIns asks for the blocks where the instruction leads, and makes a  *)
(* node of its own for a callee or an unknown target.                      *)
LEMMA AskedFacts ==
  ASSUME routine \in Routines, NEW i \in 1 .. Len(routine), NEW block
  PROVE  /\ branches(i) = {} <=> routine[i].op = "plain"
         /\ branches(i) \ {1, 2, 4, 5} =
              IF routine[i].op \in {"plain", "ret"} THEN {} ELSE Steps(i)
         /\ branches(i) # {} =>
              /\ Asked(i, block) \in Seq(Node)
              /\ Range(Asked(i, block)) = Goes(i, Start(i, block)) \ {ReturnNode}
              /\ Made(i) \in Seq(Node)
              /\ Range(Made(i)) \subseteq {Special(i)}
              /\ Flag(i) = 2 <=> routine[i].op = "ret"
  <1> DEFINE t == routine[i].target
             next == Address(i + 1)
  <1>1. /\ Base \in Nat /\ Base >= 5 /\ t \in Node /\ t \in Nat /\ t > 5
        /\ next \in Nat /\ next > 5 /\ Special(i) \in Node
        /\ next \in Node
    BY RoutineFacts
  <1>2. ReturnNode = 2
    BY DEF ReturnNode
  <1>9. /\ << >> \in Seq(Node) /\ Range(<< >>) = {}
        /\ \A x \in Node : <<x>> \in Seq(Node) /\ Range(<<x>>) = {x}
        /\ \A x, y \in Node :
             <<x>> \o <<y>> \in Seq(Node) /\ Range(<<x>> \o <<y>>) = {x, y}
        /\ \A x \in Node : <<x>> \o << >> = <<x>>
    BY ShortLists
  <1> HIDE DEF t, next
  <1>3. CASE routine[i].op = "plain"
    BY <1>3 DEF branches, Steps, HasFallThrough
  <1>4. CASE routine[i].op = "ret"
    <2>1. branches(i) = {2} /\ Flag(i) = 2
      <3>1. branches(i) = {2}
        BY <1>4 DEF branches, HasFallThrough
      <3>2. Min({2}) = 2
        BY MinMax
      <3> QED BY <3>1, <3>2 DEF Flag
    <2>2. Asked(i, block) = << >> /\ Made(i) = << >> /\ Goes(i, Start(i, block)) = {2}
      BY <2>1, <1>2, <1>4 DEF Asked, Made, Goes, Steps
    <2> QED BY <2>1, <2>2, <1>2, <1>4, <1>9
  <1>5. CASE routine[i].op = "ijmp"
    <2>1. branches(i) = {5} /\ Flag(i) = 5
      <3>1. branches(i) = {5}
        BY <1>5 DEF branches, HasFallThrough
      <3>2. Min({5}) = 5
        BY MinMax
      <3> QED BY <3>1, <3>2 DEF Flag
    <2>2. /\ Asked(i, block) = << >> /\ Made(i) = <<Special(i)>>
          /\ Goes(i, Start(i, block)) = {} /\ Steps(i) = {}
      BY <2>1, <1>5 DEF Asked, Made, Goes, Steps
    <2>3. branches(i) \ {1, 2, 4, 5} = {} /\ Made(i) \in Seq(Node)
            /\ Range(Made(i)) = {Special(i)}
      BY <2>1, <2>2, <1>1, <1>9
    <2> QED BY <2>1, <2>2, <2>3, <1>5, <1>9
  <1>6. CASE routine[i].op \in {"call", "icall"}
    <2>1. \/ branches(i) = {1, next} /\ Flag(i) = 1
          \/ branches(i) = {4, next} /\ Flag(i) = 4
      <3>1. branches(i) \in {{1, next}, {4, next}}
        BY <1>6 DEF branches, HasFallThrough, next
      <3>2. Min({1, next}) = 1 /\ Min({4, next}) = 4
        <4>1. next \in Int /\ 1 \in Int /\ 4 \in Int /\ 1 <= next /\ 4 <= next
          BY <1>1
        <4>2. Min({1, next}) = IF 1 <= next THEN 1 ELSE next
          BY <4>1, MinMax
        <4>3. Min({4, next}) = IF 4 <= next THEN 4 ELSE next
          BY <4>1, MinMax
        <4> QED BY <4>1, <4>2, <4>3
      <3> QED BY <3>1, <3>2 DEF Flag
    <2>2. /\ Asked(i, block) = <<next>> /\ Made(i) = <<Special(i)>>
          /\ Goes(i, Start(i, block)) = {next} /\ Steps(i) = {next}
      BY <2>1, <1>6 DEF Asked, Made, Goes, Steps, next
    <2>3. branches(i) \ {1, 2, 4, 5} = {next}
      BY <2>1, <1>1
    <2>4. Asked(i, block) \in Seq(Node) /\ Range(Asked(i, block)) = {next}
            /\ Made(i) \in Seq(Node) /\ Range(Made(i)) = {Special(i)}
      BY <2>2, <1>1, <1>6, <1>9
    <2>5. Steps(i) = {next} /\ {next} \ {ReturnNode} = {next}
      BY <2>2, <1>1, <1>2
    <2>6. branches(i) # {} /\ Flag(i) # 2
      <3>1. CASE branches(i) = {1, next} /\ Flag(i) = 1
        <4>1. 1 \in branches(i)
          BY <3>1
        <4> QED BY <3>1, <4>1
      <3>2. CASE branches(i) = {4, next} /\ Flag(i) = 4
        <4>1. 4 \in branches(i)
          BY <3>2
        <4> QED BY <3>2, <4>1
      <3> QED BY <2>1, <3>1, <3>2
    <2>7. routine[i].op \notin {"plain", "ret"}
      BY <1>6
    <2>8. Range(Asked(i, block)) = Goes(i, Start(i, block)) \ {ReturnNode}
      BY <2>2, <2>4, <2>5
    <2> QED BY <2>3, <2>4, <2>5, <2>6, <2>7, <2>8
  <1>7. CASE routine[i].op = "jmp"
    <2>1. branches(i) = {t} /\ Flag(i) = t
      BY <1>1, <1>7, MinMax DEF branches, HasFallThrough, Flag, t
    <2>2. /\ Asked(i, block) = <<t>> \o (IF t = Start(i, block) THEN <<next>> ELSE << >>)
          /\ Made(i) = << >>
      BY <2>1, <1>1 DEF Asked, Made, next
    <2>3. Goes(i, Start(i, block)) = IF t = Start(i, block) THEN {t, next} ELSE {t}
      BY <1>7 DEF Goes, Steps, t, next
    <2>4. Steps(i) = {t}
      BY <1>7 DEF Steps, t
    <2>5. Asked(i, block) \in Seq(Node)
            /\ Range(Asked(i, block)) = IF t = Start(i, block) THEN {t, next} ELSE {t}
      <3>1. CASE t = Start(i, block)
        BY <3>1, <2>2, <1>1, <1>7, <1>9
      <3>2. CASE t # Start(i, block)
        BY <3>2, <2>2, <1>1, <1>9
      <3> QED BY <3>1, <3>2
    <2>6. branches(i) \ {1, 2, 4, 5} = {t}
      BY <2>1, <1>1
    <2>7. Goes(i, Start(i, block)) \ {ReturnNode} = Goes(i, Start(i, block))
      BY <2>3, <1>1, <1>2
    <2>8. branches(i) # {} /\ Flag(i) # 2
      BY <2>1, <1>1
    <2>9. routine[i].op \notin {"plain", "ret"}
      BY <1>7
    <2>10. Range(Asked(i, block)) = Goes(i, Start(i, block)) \ {ReturnNode}
      BY <2>3, <2>5, <2>7
    <2>11. Made(i) \in Seq(Node) /\ Range(Made(i)) = {}
      BY <2>2, <1>9
    <2> QED BY <2>4, <2>5, <2>6, <2>8, <2>9, <2>10, <2>11
  <1>8. CASE routine[i].op = "jcc"
    <2>1. branches(i) = {t, next}
      BY <1>1, <1>8 DEF branches, HasFallThrough, t, next
    <2>2. Flag(i) = (IF t <= next THEN t ELSE next) /\ Flag(i) > 5
            /\ Max(branches(i)) = IF t <= next THEN next ELSE t
      <3>1. /\ Min({t, next}) = (IF t <= next THEN t ELSE next)
            /\ Max({t, next}) = (IF t <= next THEN next ELSE t)
        <4>1. t \in Int /\ next \in Int
          BY <1>1
        <4> QED BY <4>1, MinMax
      <3> QED BY <3>1, <2>1, <1>1 DEF Flag
    <2>3. Made(i) = << >> /\ Goes(i, Start(i, block)) = {t, next} /\ Steps(i) = {t, next}
      BY <2>2, <1>8 DEF Made, Goes, Steps, t, next
    <2>6. branches(i) # {} /\ Flag(i) # 2 /\ routine[i].op \notin {"plain", "ret"}
      BY <2>1, <2>2, <1>8
    <2>7. /\ branches(i) \ {1, 2, 4, 5} = Steps(i)
          /\ Goes(i, Start(i, block)) \ {ReturnNode} = {t, next}
      BY <2>1, <2>3, <1>1, <1>2
    <2>8. Made(i) \in Seq(Node) /\ Range(Made(i)) = {}
      BY <2>3, <1>9
    <2>4. CASE t # next
      <3>1. Asked(i, block) = <<Flag(i)>> \o <<Max(branches(i))>>
        BY <2>1, <2>2, <2>4 DEF Asked
      <3>2. Range(Asked(i, block)) = {t, next} /\ Asked(i, block) \in Seq(Node)
        <4>1. Flag(i) \in Node /\ Max(branches(i)) \in Node
                /\ {Flag(i), Max(branches(i))} = {t, next}
          BY <2>2, <1>1, <1>8
        <4> QED BY <3>1, <4>1, <1>9
      <3> QED BY <2>6, <2>7, <2>8, <3>2
    <2>5. CASE t = next
      <3>1. Asked(i, block) = <<next>> \o (IF next = Start(i, block) THEN <<next>> ELSE << >>)
        BY <2>1, <2>2, <2>5 DEF Asked, next
      <3>2. Range(Asked(i, block)) = {t, next} /\ Asked(i, block) \in Seq(Node)
        <4>1. CASE next = Start(i, block)
          BY <3>1, <2>5, <4>1, <1>1, <1>9
        <4>2. CASE next # Start(i, block)
          BY <3>1, <2>5, <4>2, <1>1, <1>9
        <4> QED BY <4>1, <4>2
      <3> QED BY <2>6, <2>7, <2>8, <3>2
    <2> QED BY <2>4, <2>5
  <1> QED BY <1>3, <1>4, <1>5, <1>6, <1>7, <1>8, RoutineFacts

(* New blocks get the next addresses of the layout.                        *)
LEMMA AllocatedFacts ==
  ASSUME HeapInv, layout \in Layouts, NEW nodes \in Seq(Node),
         heap' = Allocated(nodes), UNCHANGED layout
  PROVE  HeapInv' /\ (DOMAIN heap)' = DOMAIN heap \cup Range(nodes)
  <1> DEFINE D == DOMAIN heap
             First(x) == CHOOSE j \in DOMAIN nodes :
                           nodes[j] = x /\ \A k \in 1 .. j - 1 : nodes[k] # x
             Earlier(x) == D \cup {nodes[k] : k \in 1 .. First(x)}
             New == Range(nodes) \ D
             E == D \cup Range(nodes)
  <1>1. heap' = [x \in E |-> IF x \in D THEN heap[x] ELSE layout[Cardinality(Earlier(x))]]
    BY DEF Allocated
  <1>2. /\ DOMAIN nodes = 1 .. Len(nodes) /\ Len(nodes) \in Nat
        /\ \A k \in DOMAIN nodes : nodes[k] \in Node
        /\ Range(nodes) \subseteq Node
    BY DEF Range
  <1>3. ASSUME NEW x \in Range(nodes)
        PROVE  /\ First(x) \in DOMAIN nodes /\ nodes[First(x)] = x
               /\ \A k \in 1 .. First(x) - 1 : nodes[k] # x
    <2> DEFINE T == {j \in DOMAIN nodes : nodes[j] = x}
    <2>1. T # {} /\ T \subseteq Nat
      BY <1>2 DEF Range
    <2>2. PICK j \in T : \A y \in T : j <= y
      BY <2>1, Least
    <2>3. j \in DOMAIN nodes /\ nodes[j] = x /\ \A k \in 1 .. j - 1 : nodes[k] # x
      <3>1. ASSUME NEW k \in 1 .. j - 1, nodes[k] = x PROVE FALSE
        <4>1. k \in T
          BY <3>1, <1>2
        <4>2. j <= k
          BY <4>1, <2>2
        <4> QED BY <4>2, <2>1
      <3> QED BY <3>1
    <2> QED BY <2>3
  <1>4. E \subseteq Node /\ D \subseteq E /\ ReturnNode \in D
    BY <1>2 DEF HeapInv
  <1>5. /\ IsFiniteSet(E) /\ Cardinality(E) \in Nat /\ Cardinality(E) <= Cardinality(Node)
        /\ IsFiniteSet(D) /\ Cardinality(D) \in Nat /\ Cardinality(D) <= Cardinality(E)
    <2>1. IsFiniteSet(E) /\ Cardinality(E) <= Cardinality(Node)
      BY <1>4, NodeAssumption, FS_Subset
    <2> QED BY <1>4, <2>1, FS_Subset, FS_CardinalityType
  <1> HIDE DEF First, E, D
  <1>6. ASSUME NEW x \in New
        PROVE  /\ Earlier(x) \subseteq E /\ IsFiniteSet(Earlier(x))
               /\ Cardinality(Earlier(x)) \in Nat
               /\ Cardinality(Earlier(x)) \in Cardinality(D) + 1 .. Cardinality(E)
    <2>1. Earlier(x) \subseteq E
      BY <1>2, <1>3 DEF Range, E
    <2>2. IsFiniteSet(Earlier(x)) /\ Cardinality(Earlier(x)) <= Cardinality(E)
            /\ Cardinality(Earlier(x)) \in Nat
      BY <2>1, <1>5, FS_Subset, FS_CardinalityType
    <2>3. x \in Earlier(x) /\ x \notin D /\ D \subseteq Earlier(x)
      BY <1>2, <1>3
    <2>4. Cardinality(D) <= Cardinality(Earlier(x))
            /\ Cardinality(D) # Cardinality(Earlier(x))
      BY <2>2, <2>3, FS_Subset
    <2> QED BY <2>1, <2>2, <2>4, <1>5
  <1>7. ASSUME NEW x \in New, NEW y \in New, First(x) < First(y)
        PROVE  Cardinality(Earlier(x)) < Cardinality(Earlier(y))
    <2>1. Earlier(x) \subseteq Earlier(y)
      BY <1>2, <1>3, <1>7
    <2>2. y \in Earlier(y)
      BY <1>2, <1>3
    <2>3. y \notin Earlier(x)
      BY <1>2, <1>3, <1>7
    <2>4. Cardinality(Earlier(x)) <= Cardinality(Earlier(y))
            /\ Cardinality(Earlier(x)) # Cardinality(Earlier(y))
      BY <2>1, <2>2, <2>3, <1>6, FS_Subset
    <2>5. Cardinality(Earlier(x)) \in Nat /\ Cardinality(Earlier(y)) \in Nat
      BY <1>6
    <2> QED BY <2>4, <2>5
  <1>8. ASSUME NEW x \in New, NEW y \in New,
               Cardinality(Earlier(x)) = Cardinality(Earlier(y))
        PROVE  x = y
    <2>1. ~(First(x) < First(y)) /\ ~(First(y) < First(x))
      <3>1. Cardinality(Earlier(x)) \in Nat
        BY <1>6
      <3>2. ~(Cardinality(Earlier(x)) < Cardinality(Earlier(y)))
              /\ ~(Cardinality(Earlier(y)) < Cardinality(Earlier(x)))
        BY <3>1, <1>8
      <3> HIDE DEF Earlier
      <3> QED BY <3>2, <1>7
    <2>2. First(x) = First(y)
      BY <2>1, <1>2, <1>3
    <2> QED BY <2>2, <1>3
  <1> DEFINE index(x) == Cardinality(Earlier(x))
  <1>9. /\ \A x \in New : index(x) \in Cardinality(D) + 1 .. Cardinality(E)
        /\ \A x, y \in New : index(x) = index(y) => x = y
    BY <1>6, <1>8
  <1>10. heap' = [x \in E |-> IF x \in D THEN heap[x] ELSE layout[index(x)]]
    BY <1>1
  <1> HIDE DEF index
  <1>11. /\ layout \in [1 .. Cardinality(Node) -> Nat]
         /\ \A j, k \in 1 .. Cardinality(Node) : layout[j] = layout[k] => j = k
    BY NodeAssumption DEF Injection, IsInjective
  <1>12. ASSUME NEW x \in E
         PROVE  \E k \in 1 .. Cardinality(E) : heap'[x] = layout[k]
                  /\ (k <= Cardinality(D) <=> x \in D)
    <2>1. CASE x \in D
      <3>1. PICK k \in 1 .. Cardinality(D) : heap[x] = layout[k]
        BY <2>1 DEF HeapInv, D
      <3> QED BY <2>1, <3>1, <1>5, <1>10
    <2>2. CASE x \notin D
      <3>1. x \in New
        BY <2>2 DEF E
      <3>2. index(x) \in 1 .. Cardinality(E) /\ ~(index(x) <= Cardinality(D))
        BY <3>1, <1>5, <1>9
      <3> QED BY <2>2, <3>2, <1>10
    <2> QED BY <2>1, <2>2
  <1>13. ASSUME NEW x \in E, NEW y \in E, heap'[x] = heap'[y] PROVE x = y
    <2>1. PICK j \in 1 .. Cardinality(E) : heap'[x] = layout[j]
                  /\ (j <= Cardinality(D) <=> x \in D)
      BY <1>12
    <2>2. PICK k \in 1 .. Cardinality(E) : heap'[y] = layout[k]
                  /\ (k <= Cardinality(D) <=> y \in D)
      BY <1>12
    <2>3. j \in 1 .. Cardinality(Node) /\ k \in 1 .. Cardinality(Node)
      BY <1>5, HeightIsNat
    <2>4. j = k
      BY <2>1, <2>2, <2>3, <1>11, <1>13
    <2>5. x \in D <=> y \in D
      BY <2>1, <2>2, <2>4
    <2>6. CASE x \in D
      BY <2>5, <2>6, <1>10, <1>13 DEF HeapInv, D
    <2>7. CASE x \notin D
      <3>1. x \in New /\ y \in New
        BY <2>5, <2>7 DEF E
      <3>2. heap'[x] = layout[index(x)] /\ heap'[y] = layout[index(y)]
        BY <2>5, <2>7, <1>10
      <3>3. index(x) \in 1 .. Cardinality(Node) /\ index(y) \in 1 .. Cardinality(Node)
        BY <3>1, <1>5, <1>9, HeightIsNat
      <3>4. index(x) = index(y)
        BY <3>2, <3>3, <1>11, <1>13
      <3> QED BY <3>1, <3>4, <1>9
    <2> QED BY <2>6, <2>7
  <1>14. DOMAIN heap' = E
    BY <1>10
  <1>15. HeapInv'
    BY <1>4, <1>12, <1>13, <1>14 DEF HeapInv
  <1> QED BY <1>14, <1>15 DEF E, D

(* The block of the instruction passed next: a new one is named by its     *)
(* address, and one begun before is complete.                              *)
LEMMA BlockFacts ==
  ASSUME IInv, BuildBlock
  PROVE  /\ phase = "build" /\ position \in 2 .. Len(routine)
         /\ routine \in Routines /\ layout \in Layouts
         /\ Starts(position) => BlockOf(position) = Address(position)
         /\ ~Starts(position) =>
              BlockOf(position) = currentBlock /\ Complete(currentBlock)
         /\ BlockOf(position) \in Node \ {ReturnNode}
         /\ Start(position, BlockOf(position)) = BlockOf(position)
  <1>1. /\ phase = "build" /\ position \in 2 .. Len(routine)
        /\ routine \in Routines /\ layout \in Layouts
    BY DEF BuildBlock, IInv, GraphInv
  <1>2. /\ Address(position) \in Node /\ Address(position) \in Nat
        /\ Address(position) # ReturnNode
    <2>1. position \in 1 .. Len(routine)
      BY <1>1
    <2> QED BY <1>1, <2>1, RoutineFacts DEF ReturnNode
  <1>3. CASE Starts(position)
    <2>1. Get_BasicBlock_At(Address(position)) = Address(position)
      BY <1>2 DEF Get_BasicBlock_At, IInv, GraphInv
    <2> QED BY <1>1, <1>2, <1>3, <2>1 DEF BlockOf, Start
  <1>4. CASE ~Starts(position)
    <2>1. currentBlock # NULL
      BY <1>4 DEF Starts
    <2>2. Complete(currentBlock)
      BY <1>1, <2>1 DEF IInv, GraphInv
    <2> QED BY <1>1, <1>4, <2>2 DEF BlockOf, Start, Complete, IInv, HeapInv
  <1> QED BY <1>3, <1>4

(* The parts of one iteration of BlockBuilder: the block of the            *)
(* instruction, whether it ends there, the addresses asked, the node made, *)
(* the blocks reached, and the block before if it falls into a target.     *)
Iteration(block, ends, asked, made, reached, flow) ==
  /\ block = BlockOf(position)
  /\ ends = (branches(position) # {})
  /\ asked = IF ends THEN Range(Asked(position, block)) ELSE {}
  /\ made = IF ends THEN Range(Made(position)) ELSE {}
  /\ reached = IF ends THEN Reached(position, block) ELSE {}
  /\ flow = IF currentBlock # NULL /\ Address(position) \in targets
            THEN {currentBlock} ELSE {}

(* What it adds: blocks for the addresses asked, an edge into a target     *)
(* from the block before, and the edges of an instruction that ends the    *)
(* block.                                                                  *)
Adds(block, ends, asked, made, reached, flow) ==
  /\ HeapInv' /\ asked \subseteq Node /\ \A a \in asked : a > 5
  /\ (DOMAIN heap)' = DOMAIN heap \cup {block} \cup made
                        \cup {Get_BasicBlock_At(a) : a \in asked}
  /\ reached \subseteq (DOMAIN heap)' /\ flow \subseteq DOMAIN heap
  /\ \A x \in flow : Complete(x)
  /\ made \subseteq {Special(position)}
  /\ addressMap' = Entered(Address(position), block, asked)
  /\ predecessors' = [y \in Node |->
       predecessors[y] \cup (IF y = block THEN flow ELSE {})
         \cup (IF y \in reached \cup made THEN {block} ELSE {})]
  /\ successors' \in [Node -> SUBSET (DOMAIN heap)']
  /\ startingAddress' = [startingAddress EXCEPT ![block] = block]
  /\ currentBlock' = IF ends THEN NULL ELSE block
  /\ position' = position + 1
  /\ UNCHANGED <<phase, layout, routine, edgeTargets, blockQueue,
                 PostDominator, postDominated>>

(* One iteration of BlockBuilder.                                          *)
LEMMA BuildFacts ==
  ASSUME IInv, BuildBlock,
         NEW block, NEW ends, NEW asked, NEW made, NEW reached, NEW flow,
         Iteration(block, ends, asked, made, reached, flow)
  PROVE  Adds(block, ends, asked, made, reached, flow)
  <1> USE DEF Iteration
  <1> DEFINE i == position
             preds == Link(predecessors, {block}, flow)
             succs == Link(successors, flow, {block})
             got == [k \in DOMAIN Asked(i, block) |->
                       Get_BasicBlock_At(Asked(i, block)[k])]
             nodes == <<block>> \o Made(i) \o got
  <1>1. /\ position' = i + 1
        /\ startingAddress' = [startingAddress EXCEPT ![block] = Start(i, block)]
        /\ UNCHANGED <<phase, layout, routine, edgeTargets, blockQueue,
                       PostDominator, postDominated>>
    BY DEF BuildBlock, tree, maps
  <1>2. ends => /\ predecessors' = Backward(i, block, preds)
                /\ successors' = Forward(i, block, succs)
                /\ addressMap' = Entered(Address(i), block, Range(Asked(i, block)))
                /\ heap' = Allocated(nodes)
                /\ currentBlock' = NULL
    BY DEF BuildBlock
  <1>3. ~ends => /\ predecessors' = preds
                 /\ successors' = succs
                 /\ addressMap' = Entered(Address(i), block, {})
                 /\ heap' = Allocated(<<block>>)
                 /\ currentBlock' = block
    BY DEF BuildBlock
  <1>4. /\ phase = "build" /\ i \in 2 .. Len(routine) /\ i \in 1 .. Len(routine)
        /\ routine \in Routines /\ layout \in Layouts
        /\ block \in Node /\ Start(i, block) = block
    BY BlockFacts
  <1>5. flow \subseteq DOMAIN heap /\ \A x \in flow : Complete(x)
    BY <1>4 DEF IInv, GraphInv, Complete
  <1>6. /\ DOMAIN heap \subseteq Node /\ ReturnNode \in DOMAIN heap
        /\ predecessors \in [Node -> SUBSET DOMAIN heap]
        /\ successors \in [Node -> SUBSET DOMAIN heap]
    BY DEF IInv, HeapInv, GraphInv
  <1>7. \A a \in Node : Get_BasicBlock_At(a) \in Node
    BY <1>6 DEF Get_BasicBlock_At, IInv, GraphInv
  <1>8. CASE ends
    <2>1. /\ Asked(i, block) \in Seq(Node) /\ Made(i) \in Seq(Node)
          /\ Range(Made(i)) \subseteq {Special(i)}
          /\ Range(Asked(i, block)) = Goes(i, block) \ {ReturnNode}
      BY <1>4, <1>8, AskedFacts
    <2>2. asked \subseteq Node
      BY <1>8, <2>1 DEF Range
    <2>3. \A a \in asked : a > 5
      <3>1. routine[i].target > 5 /\ Address(i + 1) > 5
        <4>1. routine[i].target > 5 /\ Address(i) > 5 /\ Address(i) \in Nat
                /\ Address(i + 1) = Address(i) + 1 /\ Base \in Nat
          BY <1>4, RoutineFacts
        <4> QED BY <4>1
      <3>2. Goes(i, block) \subseteq {routine[i].target, Address(i + 1), ReturnNode}
        BY DEF Goes, Steps
      <3> QED BY <1>8, <2>1, <3>1, <3>2
    <2>4. got \in Seq(Node) /\ Range(got) = {Get_BasicBlock_At(a) : a \in asked}
      <3>1. DOMAIN Asked(i, block) = 1 .. Len(Asked(i, block))
              /\ Len(Asked(i, block)) \in Nat
              /\ \A k \in DOMAIN Asked(i, block) : Asked(i, block)[k] \in Node
        BY <2>1
      <3>2. got \in [1 .. Len(Asked(i, block)) -> Node]
        BY <3>1, <1>7
      <3>3. got \in Seq(Node)
        BY <3>1, <3>2
      <3>4. DOMAIN got = DOMAIN Asked(i, block)
        OBVIOUS
      <3>5. Range(got) = {Get_BasicBlock_At(a) : a \in Range(Asked(i, block))}
        BY <3>4 DEF Range
      <3> QED BY <1>8, <3>3, <3>5
    <2>5. /\ nodes \in Seq(Node)
          /\ Range(nodes) = {block} \cup made \cup {Get_BasicBlock_At(a) : a \in asked}
      <3> HIDE DEF got
      <3>1. PICK first : first = <<block>>
        OBVIOUS
      <3>2. PICK second : second = Made(i)
        OBVIOUS
      <3>3. PICK third : third = got
        OBVIOUS
      <3>4. first \in Seq(Node) /\ second \in Seq(Node) /\ third \in Seq(Node)
              /\ Range(first) = {block}
        BY <3>1, <3>2, <3>3, <1>4, <2>1, <2>4, ShortLists
      <3>5. first \o second \in Seq(Node)
              /\ Range(first \o second) = Range(first) \cup Range(second)
        BY <3>4, RangeConcat
      <3>6. first \o second \o third \in Seq(Node)
              /\ Range(first \o second \o third) = Range(first \o second) \cup Range(third)
        <4>1. PICK both : both = first \o second
          OBVIOUS
        <4>2. both \in Seq(Node)
          BY <3>5, <4>1
        <4>3. both \o third \in Seq(Node)
                /\ Range(both \o third) = Range(both) \cup Range(third)
          BY <4>2, <3>4, RangeConcat
        <4> QED BY <4>1, <4>3
      <3> QED BY <3>1, <3>2, <3>3, <3>4, <3>5, <3>6, <2>4, <1>8
    <2>6. HeapInv' /\ (DOMAIN heap)' = DOMAIN heap \cup Range(nodes)
      <3> HIDE DEF nodes
      <3> QED BY <1>1, <1>2, <1>4, <1>8, <2>5, AllocatedFacts DEF IInv
    <2>7. reached \subseteq (DOMAIN heap)' /\ made \subseteq (DOMAIN heap)'
            /\ {block} \subseteq (DOMAIN heap)' /\ flow \subseteq (DOMAIN heap)'
      <3>1. reached \subseteq {Get_BasicBlock_At(a) : a \in asked} \cup {ReturnNode}
        BY <1>8 DEF Reached
      <3> QED BY <3>1, <2>5, <2>6, <1>5, <1>6
    <2>8. predecessors' = [y \in Node |->
              predecessors[y] \cup (IF y = block THEN flow ELSE {})
                \cup (IF y \in reached \cup made THEN {block} ELSE {})]
      <3>1. predecessors' = Link(preds, reached \cup made, {block})
        BY <1>2, <1>8 DEF Backward
      <3>2. preds = [y \in Node |->
                       IF y \in {block} THEN predecessors[y] \cup flow ELSE predecessors[y]]
        BY DEF Link
      <3> HIDE DEF preds
      <3>3. predecessors' = [y \in Node |->
                IF y \in reached \cup made THEN preds[y] \cup {block} ELSE preds[y]]
        BY <3>1 DEF Link
      <3> QED BY <3>2, <3>3
    <2>9. successors' \in [Node -> SUBSET (DOMAIN heap)']
      <3>1. succs \in [Node -> SUBSET (DOMAIN heap)']
        BY <1>6, <2>6, <2>7 DEF Link
      <3> HIDE DEF succs
      <3>2. \A f \in [Node -> SUBSET (DOMAIN heap)'], S \in SUBSET Node,
               R \in SUBSET (DOMAIN heap)' : Link(f, S, R) \in [Node -> SUBSET (DOMAIN heap)']
        BY DEF Link
      <3>3. {block} \in SUBSET Node /\ {Special(i)} \in SUBSET Node
        BY <1>4, RoutineFacts
      <3>4. Reached(i, block) = reached /\ Range(Made(i)) = made
        BY <1>8
      <3>5. CASE Flag(i) \in {1, 4}
        <4>1. Made(i) = <<Special(i)>>
          BY <3>5 DEF Made
        <4>2. {Special(i)} = made
          BY <4>1, <3>3, <3>4, ShortLists
        <4>3. Link(succs, {block}, {Special(i)}) \in [Node -> SUBSET (DOMAIN heap)']
          BY <3>1, <3>2, <3>3, <4>2, <2>7
        <4>4. successors' = Link(Link(succs, {block}, {Special(i)}), {Special(i)}, reached)
          BY <1>2, <1>8, <3>4, <3>5 DEF Forward
        <4> QED BY <3>2, <3>3, <4>3, <4>4, <2>7
      <3>6. CASE Flag(i) \notin {1, 4}
        <4>1. successors' = Link(succs, {block}, reached \cup made)
          BY <1>2, <1>8, <3>4, <3>6 DEF Forward
        <4>2. reached \cup made \in SUBSET (DOMAIN heap)'
          BY <2>7
        <4> QED BY <3>1, <3>2, <3>3, <4>1, <4>2
      <3> QED BY <3>5, <3>6
    <2>10. made \subseteq {Special(i)} /\ addressMap' = Entered(Address(i), block, asked)
      BY <1>2, <1>8, <2>1
    <2>11. (DOMAIN heap)' = DOMAIN heap \cup {block} \cup made
                               \cup {Get_BasicBlock_At(a) : a \in asked}
      BY <2>5, <2>6
    <2> HIDE DEF nodes, got, preds, succs
    <2> QED BY <1>1, <1>2, <1>4, <1>5, <1>8, <2>2, <2>3, <2>6, <2>7, <2>8, <2>9, <2>10,
               <2>11 DEF Adds
  <1>9. CASE ~ends
    <2>1. asked = {} /\ made = {} /\ reached = {}
      BY <1>9
    <2>2. <<block>> \in Seq(Node) /\ Range(<<block>>) = {block}
      BY <1>4, ShortLists
    <2>3. HeapInv' /\ (DOMAIN heap)' = DOMAIN heap \cup {block}
      BY <1>1, <1>3, <1>4, <1>9, <2>2, AllocatedFacts DEF IInv
    <2>4. predecessors' = [y \in Node |->
              predecessors[y] \cup (IF y = block THEN flow ELSE {})
                \cup (IF y \in reached \cup made THEN {block} ELSE {})]
      BY <1>3, <1>6, <1>9, <2>1 DEF Link
    <2>5. successors' \in [Node -> SUBSET (DOMAIN heap)']
      BY <1>3, <1>6, <1>9, <2>3 DEF Link
    <2> HIDE DEF nodes, got, preds, succs
    <2> QED BY <1>1, <1>3, <1>4, <1>5, <1>9, <2>1, <2>3, <2>4, <2>5 DEF Adds
  <1> QED BY <1>8, <1>9

(* Passing an instruction preserves the invariant.                         *)
LEMMA BuildStep ==
  ASSUME IInv, BuildBlock
  PROVE  IInv'
  <1>1. PICK block, ends, asked, made, reached, flow :
          Iteration(block, ends, asked, made, reached, flow)
    BY DEF Iteration
  <1>adds. Adds(block, ends, asked, made, reached, flow)
    BY <1>1, BuildFacts
  <1>2. /\ HeapInv' /\ asked \subseteq Node /\ \A a \in asked : a > 5
        /\ (DOMAIN heap)' = DOMAIN heap \cup {block} \cup made
                              \cup {Get_BasicBlock_At(a) : a \in asked}
        /\ flow \subseteq DOMAIN heap /\ \A x \in flow : Complete(x)
        /\ addressMap' = Entered(Address(position), block, asked)
        /\ predecessors' = [y \in Node |->
             predecessors[y] \cup (IF y = block THEN flow ELSE {})
               \cup (IF y \in reached \cup made THEN {block} ELSE {})]
        /\ successors' \in [Node -> SUBSET (DOMAIN heap)']
        /\ startingAddress' = [startingAddress EXCEPT ![block] = block]
        /\ currentBlock' = (IF ends THEN NULL ELSE block)
        /\ position' = position + 1
        /\ UNCHANGED <<phase, layout, routine, edgeTargets, blockQueue,
                       PostDominator, postDominated>>
    BY <1>adds DEF Adds
  <1>3. /\ phase = "build" /\ position \in 2 .. Len(routine)
        /\ routine \in Routines /\ layout \in Layouts
        /\ block \in Node \ {ReturnNode}
    BY <1>1, BlockFacts DEF Iteration
  <1>4. /\ Base \in Nat /\ Base >= 5 /\ Len(routine) \in Nat
        /\ Address(position) \in Node /\ Address(position) \in Nat
        /\ Address(position) > 5 /\ Address(position + 1) = Address(position) + 1
    <2>1. position \in 1 .. Len(routine)
      BY <1>3
    <2> QED BY <1>3, <2>1, RoutineFacts
  <1>5. ReturnNode = 2 /\ Node \subseteq Int
    BY NodeAssumption DEF ReturnNode
  <1>6. ASSUME NEW x, Complete(x) PROVE Complete(x)'
    <2>1. x \in Node /\ startingAddress \in [Node -> Int]
      BY <1>6 DEF Complete, IInv, HeapInv, GraphInv
    <2> QED BY <1>2, <1>6, <2>1 DEF Complete
  <1>7. Complete(block)'
    <2>1. startingAddress \in [Node -> Int]
      BY DEF IInv, GraphInv
    <2> QED BY <1>2, <1>3, <2>1 DEF Complete
  <1>8. startingAddress' \in [Node -> Int]
    BY <1>2, <1>3, <1>5 DEF IInv, GraphInv
  <1>9. ASSUME NEW y \in Node, NEW x \in predecessors'[y] PROVE Complete(x)'
    <2>1. x \in predecessors[y] \/ x \in flow \/ x = block
      BY <1>2
    <2>2. x \in predecessors[y] => Complete(x)
      BY DEF IInv, GraphInv
    <2> QED BY <2>1, <2>2, <1>2, <1>6, <1>7
  <1>10. predecessors' \in [Node -> SUBSET (DOMAIN heap)']
    <2>1. \A y \in Node : predecessors'[y] \subseteq (DOMAIN heap)'
      BY <1>9 DEF Complete
    <2> QED BY <1>2, <2>1
  <1>11. /\ DOMAIN addressMap' = {Address(position)} \cup DOMAIN addressMap \cup asked
         /\ \A a \in DOMAIN addressMap' : addressMap'[a] =
              IF a = Address(position) THEN block ELSE Get_BasicBlock_At(a)
    BY <1>2 DEF Entered
  <1>12. /\ DOMAIN addressMap \subseteq Int
         /\ addressMap \in [DOMAIN addressMap -> DOMAIN heap]
         /\ \A a \in DOMAIN addressMap :
              /\ addressMap[a] = ReturnNode => a = ReturnNode
              /\ a >= Address(position) => addressMap[a] = a
    BY DEF IInv, GraphInv
  <1>13. DOMAIN addressMap' \subseteq Int
    BY <1>2, <1>4, <1>5, <1>11, <1>12
  <1>14. ASSUME NEW a \in DOMAIN addressMap'
         PROVE  /\ addressMap'[a] \in (DOMAIN heap)'
                /\ addressMap'[a] = ReturnNode => a = ReturnNode
                /\ a >= Address(position)' => addressMap'[a] = a
    <2>1. Address(position)' = Address(position) + 1
      BY <1>2, <1>4 DEF Address
    <2>2. CASE a = Address(position)
      BY <2>1, <2>2, <1>2, <1>3, <1>4, <1>11
    <2>3. CASE a # Address(position) /\ a \in DOMAIN addressMap
      <3>1. addressMap'[a] = addressMap[a]
        BY <2>3, <1>11 DEF Get_BasicBlock_At
      <3>2. a \in Int
        BY <1>13
      <3> QED BY <2>1, <2>3, <3>1, <3>2, <1>2, <1>4, <1>12
    <2>4. CASE a # Address(position) /\ a \notin DOMAIN addressMap
      <3>1. a \in asked /\ addressMap'[a] = a /\ Get_BasicBlock_At(a) = a
        BY <2>4, <1>11 DEF Get_BasicBlock_At
      <3>2. a \in (DOMAIN heap)'
        BY <3>1, <1>2
      <3> QED BY <3>1, <3>2
    <2> QED BY <2>2, <2>3, <2>4
  <1>15. addressMap' \in [DOMAIN addressMap' -> (DOMAIN heap)']
    BY <1>2, <1>14 DEF Entered
  <1>16. position' \in 2 .. Len(routine') + 1
    BY <1>2, <1>3, <1>4
  <1>17. phase' = "build" => currentBlock' = NULL \/ Complete(currentBlock)'
    BY <1>2, <1>7 DEF Complete
  <1>18. GraphInv'
    BY <1>2, <1>3, <1>8, <1>9, <1>10, <1>13, <1>14, <1>15, <1>16, <1>17 DEF GraphInv
  <1>19. TreeInv'
    <2>1. Placed' = Placed /\ InTree' = InTree
      BY <1>2 DEF Placed, InTree
    <2>2. \A rank : Ranked(rank) => Ranked(rank)'
      BY <1>2, <2>1 DEF Ranked
    <2>3. \A b \in Placed' : Complete(b)'
      BY <2>1, <1>6 DEF IInv, TreeInv
    <2>4. PostDominator' \in [Node -> (DOMAIN heap)' \cup {NULL}]
      BY <1>2 DEF IInv, TreeInv
    <2>5. \E rank : Ranked(rank)'
      BY <2>2 DEF IInv, TreeInv
    <2> QED BY <2>1, <2>3, <2>4, <2>5, <1>2, <1>3 DEF IInv, TreeInv
  <1> QED BY <1>2, <1>18, <1>19 DEF IInv
-----------------------------------------------------------------------------
(* The invariant holds before the second instruction is passed.            *)
LEMMA IInvInit == Init => IInv
  <1> SUFFICES ASSUME Init PROVE IInv
    OBVIOUS
  <1>1. routine \in Routines /\ layout \in Layouts
    BY DEF Init
  <1>2. Len(routine) \in Nat /\ Len(routine) > 0 /\ 1 \in 1 .. Len(routine)
    BY <1>1, RoutineAssumption
  <1>3. Address(1) \in Node /\ Address(1) \in Nat /\ Address(1) > 5
          /\ Address(2) = Address(1) + 1
    BY <1>1, <1>2, RoutineFacts
  <1>4. ReturnNode = 2 /\ NULL = 0 /\ ReturnNode \in Node /\ Node \subseteq Int
    BY NodeAssumption DEF ReturnNode, NULL
  <1> DEFINE D == {Address(1), ReturnNode}
  <1>5. IsFiniteSet(D) /\ Cardinality(D) = 2
    <2>1. D = ({Address(1)} \cup {ReturnNode}) /\ ReturnNode \notin {Address(1)}
      BY <1>3, <1>4
    <2>2. IsFiniteSet({Address(1)}) /\ Cardinality({Address(1)}) = 1
      BY FS_Singleton
    <2> QED BY <2>1, <2>2, FS_AddElement
  <1>6. heap = [b \in D |-> layout[IF b = ReturnNode THEN 2 ELSE 1]]
    BY DEF Init
  <1>7. HeapInv
    <2>1. D \subseteq Node /\ 2 <= Cardinality(Node)
      BY <1>3, <1>4, <1>5, NodeAssumption, FS_Subset
    <2>2. layout[1] # layout[2]
      BY <1>1, <2>1, HeightIsNat, NodeAssumption DEF Injection, IsInjective
    <2>3. DOMAIN heap = D /\ heap[ReturnNode] = layout[2] /\ heap[Address(1)] = layout[1]
      BY <1>3, <1>4, <1>6
    <2> QED BY <2>1, <2>2, <2>3, <1>5 DEF HeapInv
  <1>8. GraphInv
    <2>1. DOMAIN heap = D
      BY <1>6
    <2>2. addressMap = [a \in D |-> a] /\ position = 2 /\ currentBlock = Address(1)
            /\ predecessors = [b \in Node |-> {}] /\ successors = [b \in Node |-> {}]
            /\ startingAddress = [b \in Node |-> IF b \in D THEN b ELSE 0]
      BY DEF Init
    <2>3. Complete(currentBlock)
      BY <2>1, <2>2, <1>3, <1>4 DEF Complete
    <2>4. startingAddress \in [Node -> Int]
      BY <2>2, <1>4
    <2> QED BY <1>1, <1>2, <1>3, <1>4, <2>1, <2>2, <2>3, <2>4 DEF GraphInv
  <1>9. TreeInv
    <2>1. /\ phase = "build" /\ blockQueue = << >>
          /\ PostDominator = [b \in Node |-> NULL]
          /\ postDominated = [b \in Node |-> {}]
      BY DEF Init, InitTree
    <2>2. Placed = {} /\ Cardinality(Placed) = 0
      BY <2>1, FS_EmptySet DEF Placed
    <2>3. Ranked([b \in Node |-> 0])
      BY <2>1, <2>2, <1>4 DEF Ranked
    <2>4. PostDominator \in [Node -> DOMAIN heap \cup {NULL}] /\ PostDominator[ReturnNode] = NULL
      BY <2>1, <1>4
    <2> QED BY <2>1, <2>2, <2>3, <2>4 DEF TreeInv
  <1> QED BY <1>7, <1>8, <1>9 DEF IInv

(* Every step preserves the invariant.                                     *)
LEMMA IInvStep == IInv /\ [Next]_vars => IInv'
  <1> SUFFICES ASSUME IInv, [Next]_vars PROVE IInv'
    OBVIOUS
  <1>1. CASE BuildBlock
    BY <1>1, BuildStep
  <1>2. CASE BuildTree
    BY <1>2, PhaseStep DEF BuildTree, StartTree
  <1>3. CASE AddPredecessor /\ UNCHANGED building
    BY <1>3, AddTree
  <1>4. CASE NextBlock /\ UNCHANGED building
    BY <1>4, NextBlockTree
  <1>5. CASE EndTree /\ UNCHANGED building
    BY <1>5, PhaseStep DEF EndTree, tree
  <1>6. CASE UNCHANGED vars
    BY <1>6, PhaseStep DEF vars, tree
  <1> QED BY <1>1, <1>2, <1>3, <1>4, <1>5, <1>6 DEF Next, TreeStep, Finished

(* The invariant holds in every reachable state.                           *)
LEMMA Invariance == Spec => []IInv
  BY IInvInit, IInvStep, PTL DEF Spec

(* Types for any code and heap: edges join blocks that exist, and a        *)
(* block of the tree has its own starting address, so that the maps keyed  *)
(* by it never mix two blocks up.                                          *)
THEOREM RoutineTypeCorrect == Spec => []TypeOK
  <1>1. ASSUME IInv PROVE TypeOK
    <2>1. currentBlock \in DOMAIN heap \cup {NULL}
      BY <1>1, TreeFacts DEF IInv, GraphInv, TreeInv, InTree, Complete, HeapInv
    <2>2. \A b \in Node : PostDominator[b] # NULL => startingAddress[b] = b
      BY <1>1 DEF IInv, TreeInv, Placed, Complete
    <2> QED BY <1>1, <2>1, <2>2 DEF TypeOK, IInv, HeapInv, GraphInv, TreeInv
  <1> QED BY <1>1, Invariance, PTL

(* No walk of addPredecessorAsPostDominated follows a NULL parent or runs  *)
(* around a cycle, whatever the shape of the routine and the order of the  *)
(* heap.                                                                   *)
THEOREM WalksReachReturn == Spec => []WalksEnd
  <1>1. ASSUME IInv PROVE WalksEnd
    <2>1. phase # "failed"
      BY <1>1 DEF IInv, TreeInv
    <2>2. \A b \in Placed : ReturnNode \in Chain(b)
      BY <1>1, WalkReturns DEF IInv, InTree
    <2> QED BY <2>1, <2>2 DEF WalksEnd, Placed
  <1> QED BY <1>1, Invariance, PTL

(* buildPostDominanceTree ends: every step of it leaves less to do, loops  *)
(* in the routine or not.                                                  *)
THEOREM TreeIsFinished == Spec => SearchProgresses
  <1>1. ASSUME IInv, IInv', [Next]_vars
        PROVE  [phase = "tree" /\ phase' = "tree" => Work' < Work]_vars
    <2> SUFFICES ASSUME Next, phase = "tree", phase' = "tree" PROVE Work' < Work
      BY <1>1
    <2>1. AddPredecessor \/ NextBlock
      BY DEF Next, BuildBlock, BuildTree, TreeStep, EndTree, Finished, NoNext, vars
    <2> QED BY <2>1, <1>1, AddProgress, NextProgress
  <1> QED BY <1>1, Invariance, PTL DEF Spec, SearchProgresses
-----------------------------------------------------------------------------
(* The addresses at which blocks begin: the first instruction, targets,    *)
(* and what follows a branch.                                              *)
BlockHead(b) ==
  \/ b \in {ReturnNode, Address(1)} \cup targets
  \/ \E j \in 2 .. Len(routine) : branches(j) # {} /\ b = Address(j + 1)

(* The edges made so far for instruction i: those of a branch when it is   *)
(* passed, those into a target when the target is.                         *)
Led(i) ==
  IF i >= 2 /\ branches(i) # {} THEN Goes(i, addressMap[Address(i)])
  ELSE IF i + 1 < position THEN {Address(i + 1)} \cap targets ELSE {}

(* What is passed is mapped, to the block it is in; the edges that are     *)
(* made are exactly those of the instructions passed.                      *)
EdgeInv ==
  /\ phase # "build" => position = Len(routine) + 1
  /\ \A i \in 1 .. position - 1 : Address(i) \in DOMAIN addressMap
  /\ \A a \in DOMAIN addressMap :
       BlockHead(addressMap[a]) /\ (a \in targets => addressMap[a] = a)
  /\ \A i \in 2 .. position - 1 : branches(i) # {} =>
       Goes(i, addressMap[Address(i)]) \ {ReturnNode} \subseteq DOMAIN addressMap
  /\ phase = "build" => currentBlock =
       IF position > 2 /\ branches(position - 1) # {} THEN NULL
       ELSE addressMap[Address(position - 1)]
  /\ \A y \in Node : y > 0 => \A x \in Node :
       x \in predecessors[y] <=>
         \E i \in 1 .. position - 1 : addressMap[Address(i)] = x /\ y \in Led(i)

(* A branch leads to targets, to the next instruction or out.              *)
LEMMA GoesFacts ==
  ASSUME routine \in Routines, NEW i \in 1 .. Len(routine), NEW start,
         branches(i) # {}
  PROVE  /\ Goes(i, start) \subseteq targets \cup {Address(i + 1), ReturnNode}
         /\ routine[i].op = "jmp" =>
              routine[i].target \in targets /\ routine[i].target \in Goes(i, start)
         /\ ReturnNode \in Goes(i, start) <=> routine[i].op = "ret"
  <1>1. /\ i \in DOMAIN routine /\ Base \in Nat /\ Base >= 5
        /\ routine[i].target > 5 /\ routine[i].target \in Nat
        /\ Address(i) \in Nat /\ Address(i) > 5 /\ Address(i + 1) = Address(i) + 1
        /\ routine[i].op \in {"plain", "jmp", "jcc", "call", "icall", "ijmp", "ret"}
    BY RoutineFacts
  <1>2. /\ branches(i) \ {1, 2, 4, 5} =
             IF routine[i].op \in {"plain", "ret"} THEN {} ELSE Steps(i)
        /\ routine[i].op # "plain"
    BY AskedFacts
  <1>3. branches(i) \ {1, 2, 4, 5} \subseteq targets
    BY <1>1 DEF targets
  <1>4. CASE routine[i].op = "ret"
    BY <1>4 DEF Goes, Steps
  <1>5. CASE routine[i].op = "jmp"
    <2>1. Steps(i) = {routine[i].target}
      BY <1>5 DEF Steps
    <2>2. Goes(i, start) \in {{routine[i].target}, {routine[i].target, Address(i + 1)}}
      BY <1>5, <2>1 DEF Goes
    <2>3. routine[i].target \in targets
      BY <1>2, <1>3, <1>5, <2>1
    <2> QED BY <1>1, <1>5, <2>2, <2>3 DEF ReturnNode
  <1>6. CASE routine[i].op \in {"jcc", "call", "icall", "ijmp"}
    <2>1. Goes(i, start) = Steps(i)
            /\ Steps(i) \subseteq {routine[i].target, Address(i + 1)}
      BY <1>6 DEF Goes, Steps
    <2> QED BY <1>1, <1>2, <1>3, <1>6, <2>1 DEF ReturnNode
  <1> QED BY <1>1, <1>2, <1>4, <1>5, <1>6

(* Targets and heads of blocks are no special nodes.                       *)
LEMMA HeadsPositive ==
  ASSUME routine \in Routines, NEW b, BlockHead(b)
  PROVE  b \in Nat /\ b > 0
  <1>1. Base \in Nat /\ Base >= 5 /\ 1 \in 1 .. Len(routine) /\ Len(routine) \in Nat
          /\ DOMAIN routine = 1 .. Len(routine)
    BY RoutineAssumption
  <1>2. ASSUME NEW t \in targets PROVE t \in Nat /\ t > 0
    <2>1. PICK i \in 1 .. Len(routine) : t \in branches(i) \ {1, 2, 4, 5}
      BY <1>1 DEF targets
    <2>2. t \in Steps(i) /\ routine[i].op # "ret"
      <3>1. branches(i) \ {1, 2, 4, 5} =
              IF routine[i].op \in {"plain", "ret"} THEN {} ELSE Steps(i)
        BY AskedFacts
      <3> QED BY <2>1, <3>1
    <2>3. t \in {routine[i].target, Address(i + 1)}
      BY <2>2 DEF Steps
    <2>4. routine[i].target \in Nat /\ routine[i].target > 5
            /\ Address(i) \in Nat /\ Address(i + 1) = Address(i) + 1
      BY RoutineFacts
    <2> QED BY <2>3, <2>4, <1>1
  <1>3. \A j \in Nat : Address(j) \in Nat /\ Address(j) > 0
    BY <1>1 DEF Address
  <1>4. CASE b \in {ReturnNode, Address(1)} \cup targets
    BY <1>2, <1>3, <1>4 DEF ReturnNode
  <1>5. CASE \E j \in 2 .. Len(routine) : b = Address(j + 1)
    <2>1. PICK j \in 2 .. Len(routine) : b = Address(j + 1)
      BY <1>5
    <2>2. j + 1 \in Nat
      OBVIOUS
    <2> QED BY <2>1, <2>2, <1>3
  <1> QED BY <1>4, <1>5 DEF BlockHead

(* The edges before the second instruction is passed: none.                *)
LEMMA EdgeInit == Init => EdgeInv
  <1> SUFFICES ASSUME Init PROVE EdgeInv
    OBVIOUS
  <1>1. /\ phase = "build" /\ position = 2 /\ currentBlock = Address(1)
        /\ addressMap = [a \in {Address(1), ReturnNode} |-> a]
        /\ predecessors = [b \in Node |-> {}]
    BY DEF Init
  <1>2. \A i \in 1 .. position - 1 : i = 1
    BY <1>1
  <1>3. Led(1) = {}
    BY <1>1 DEF Led
  <1> QED BY <1>1, <1>2, <1>3 DEF EdgeInv, BlockHead

(* Passing an instruction adds its edges, and the edge into it when it is  *)
(* a target: those of the instructions passed before stay.                 *)
LEMMA EdgeBuild ==
  ASSUME IInv, EdgeInv, BuildBlock
  PROVE  EdgeInv'
  <1>1. PICK block, ends, asked, made, reached, flow :
          Iteration(block, ends, asked, made, reached, flow)
    BY DEF Iteration
  <1>2. Adds(block, ends, asked, made, reached, flow)
    BY <1>1, BuildFacts
  <1> DEFINE p == position
  <1>3. /\ phase = "build" /\ p \in 2 .. Len(routine)
        /\ p \in 1 .. Len(routine) /\ p - 1 \in 1 .. Len(routine)
        /\ routine \in Routines /\ block \in Node \ {ReturnNode}
        /\ Starts(p) => block = Address(p)
        /\ ~Starts(p) => block = currentBlock
        /\ Start(p, block) = block
    BY <1>1, BlockFacts DEF Iteration
  <1>4. /\ Base \in Nat /\ Base >= 5 /\ Len(routine) \in Nat
        /\ \A i \in Nat : Address(i) = Base + i /\ Special(i) = -(Base + i)
        /\ ReturnNode = 2 /\ Node \subseteq Int \ {NULL}
    BY <1>3, RoutineFacts, NodeAssumption DEF Address, Special, ReturnNode
  <1>5. /\ DOMAIN addressMap \subseteq Int
        /\ \A a \in DOMAIN addressMap :
             addressMap[a] \in Node /\ (a >= Address(p) => addressMap[a] = a)
    BY DEF IInv, GraphInv, HeapInv
  (* the addresses mapped *)
  <1>6. /\ phase' = "build" /\ position' = p + 1
        /\ currentBlock' = (IF ends THEN NULL ELSE block)
        /\ DOMAIN addressMap' = {Address(p)} \cup DOMAIN addressMap \cup asked
        /\ \A a \in DOMAIN addressMap' : addressMap'[a] =
             IF a = Address(p) THEN block
             ELSE IF a \in DOMAIN addressMap THEN addressMap[a] ELSE a
    BY <1>2, <1>3 DEF Adds, Entered, Get_BasicBlock_At
  <1>7. /\ targets' = targets /\ routine' = routine
        /\ \A i : branches(i)' = branches(i)
        /\ \A i, start : Goes(i, start)' = Goes(i, start)
        /\ \A b : BlockHead(b)' <=> BlockHead(b)
    <2>1. routine' = routine
      BY <1>2 DEF Adds
    <2>2. \A i : branches(i)' = branches(i)
      BY <2>1 DEF branches
    <2>3. targets' = targets
      BY <2>1, <2>2 DEF targets
    <2>4. \A i, start : Goes(i, start)' = Goes(i, start)
      BY <2>1 DEF Goes, Steps
    <2> QED BY <2>1, <2>2, <2>3, <2>4 DEF BlockHead
  <1>8. ASSUME NEW i \in 1 .. p - 1
        PROVE  Address(i) \in DOMAIN addressMap /\ addressMap'[Address(i)] = addressMap[Address(i)]
    <2>1. Address(i) \in DOMAIN addressMap
      BY DEF EdgeInv
    <2>2. i \in Nat /\ p \in Nat /\ i < p
      BY <1>3
    <2>3. Address(i) # Address(p)
      BY <2>2, <1>4
    <2> QED BY <2>1, <2>3, <1>6
  <1>9. addressMap'[Address(p)] = block
    BY <1>6
  (* the edges added *)
  <1>10. ends => asked = Goes(p, block) \ {ReturnNode}
    BY <1>1, <1>3, AskedFacts DEF Iteration
  <1>11. ASSUME NEW a \in asked PROVE Get_BasicBlock_At(a) = a /\ BlockHead(a)
    <2>1. ends /\ a \in Goes(p, block) \ {ReturnNode}
      BY <1>10, <1>11, <1>1 DEF Iteration
    <2>2. branches(p) # {}
      BY <2>1, <1>1 DEF Iteration
    <2>3. a \in targets \/ a = Address(p + 1)
      BY <2>1, <2>2, <1>3, GoesFacts
    <2>4. BlockHead(a)
      BY <2>2, <2>3, <1>3 DEF BlockHead
    <2>5. a \in DOMAIN addressMap => addressMap[a] = a
      <3>1. a = Address(p + 1) => a >= Address(p)
        BY <1>3, <1>4
      <3> QED BY <2>3, <3>1, <1>5 DEF EdgeInv
    <2> QED BY <2>4, <2>5 DEF Get_BasicBlock_At
  <1>12. reached = IF ends THEN Goes(p, block) ELSE {}
    <2>1. CASE ends
      <3>1. branches(p) # {}
        BY <2>1, <1>1 DEF Iteration
      <3>2. reached = {Get_BasicBlock_At(a) : a \in asked}
                        \cup (IF Flag(p) = 2 THEN {ReturnNode} ELSE {})
        BY <2>1, <1>1 DEF Iteration, Reached
      <3>3. {Get_BasicBlock_At(a) : a \in asked} = asked
        BY <1>11
      <3>4. Flag(p) = 2 <=> ReturnNode \in Goes(p, block)
        BY <3>1, <1>3, AskedFacts, GoesFacts
      <3> QED BY <2>1, <3>2, <3>3, <3>4, <1>10
    <2> QED BY <2>1, <1>1 DEF Iteration
  <1>13. currentBlock = IF p > 2 /\ branches(p - 1) # {} THEN NULL
                        ELSE addressMap[Address(p - 1)]
    BY <1>3 DEF EdgeInv
  <1>before. addressMap[Address(p - 1)] # NULL /\ p - 1 \in 1 .. p - 1
    <2>1. p - 1 \in 1 .. p - 1
      BY <1>3
    <2>2. addressMap[Address(p - 1)] \in Node
      BY <2>1, <1>5, <1>8
    <2> QED BY <2>1, <2>2, <1>4
  <1>14. BlockHead(block)
    <2>1. CASE Address(p) \in targets
      BY <2>1, <1>3 DEF BlockHead, Starts
    <2>2. CASE currentBlock = NULL
      <3>1. p > 2 /\ branches(p - 1) # {}
        BY <2>2, <1>13, <1>before
      <3>2. p - 1 \in 2 .. Len(routine)
        BY <3>1, <1>3
      <3>3. Address((p - 1) + 1) = Address(p)
        BY <1>3
      <3> QED BY <2>2, <3>1, <3>2, <3>3, <1>3 DEF BlockHead, Starts
    <2>3. CASE ~Starts(p)
      <3>1. block = addressMap[Address(p - 1)] /\ p - 1 \in 1 .. p - 1
        BY <2>3, <1>3, <1>13 DEF Starts
      <3> QED BY <3>1, <1>8 DEF EdgeInv
    <2> QED BY <2>1, <2>2, <2>3 DEF Starts
  (* the parts of the invariant *)
  <1>15. \A i \in 1 .. p : Address(i) \in DOMAIN addressMap'
    BY <1>3, <1>6, <1>8
  <1>16. ASSUME NEW a \in DOMAIN addressMap'
         PROVE  BlockHead(addressMap'[a]) /\ (a \in targets => addressMap'[a] = a)
    <2>1. CASE a = Address(p)
      BY <2>1, <1>3, <1>6, <1>14 DEF Starts
    <2>2. CASE a # Address(p) /\ a \in DOMAIN addressMap
      BY <2>2, <1>6 DEF EdgeInv
    <2>3. CASE a # Address(p) /\ a \notin DOMAIN addressMap
      BY <2>3, <1>6, <1>11
    <2> QED BY <2>1, <2>2, <2>3
  <1>17. ASSUME NEW i \in 2 .. p, branches(i) # {}
         PROVE  Goes(i, addressMap'[Address(i)]) \ {ReturnNode} \subseteq DOMAIN addressMap'
    <2>1. CASE i = p
      BY <2>1, <1>17, <1>1, <1>6, <1>9, <1>10 DEF Iteration
    <2>2. CASE i # p
      <3>1. i \in 2 .. p - 1 /\ i \in 1 .. p - 1
        BY <2>2, <1>3
      <3> QED BY <3>1, <1>17, <1>6, <1>8 DEF EdgeInv
    <2> QED BY <2>1, <2>2
  <1>18. currentBlock' = IF p + 1 > 2 /\ branches(p) # {} THEN NULL ELSE addressMap'[Address(p)]
    <2>1. p + 1 > 2
      BY <1>3
    <2>2. ends <=> branches(p) # {}
      BY <1>1 DEF Iteration
    <2> QED BY <2>1, <2>2, <1>6, <1>9
  <1> DEFINE Now(i) ==
        IF i >= 2 /\ branches(i) # {} THEN Goes(i, addressMap'[Address(i)])
        ELSE IF i + 1 < p + 1 THEN {Address(i + 1)} \cap targets ELSE {}
  <1>19. \A i : Led(i)' = Now(i)
    BY <1>6, <1>7 DEF Led, Address
  <1>20. ASSUME NEW i \in 1 .. p - 1
         PROVE  Now(i) = Led(i) \cup
                  (IF i = p - 1 /\ ~(i >= 2 /\ branches(i) # {})
                   THEN {Address(p)} \cap targets ELSE {})
    <2>1. CASE i >= 2 /\ branches(i) # {}
      BY <2>1, <1>8 DEF Led
    <2>2. CASE ~(i >= 2 /\ branches(i) # {}) /\ i = p - 1
      <3>1. ~(i + 1 < p) /\ i + 1 < p + 1 /\ i + 1 = p
        BY <2>2, <1>3
      <3> QED BY <2>2, <3>1 DEF Led
    <2>3. CASE ~(i >= 2 /\ branches(i) # {}) /\ i # p - 1
      <3>1. i + 1 < p /\ i + 1 < p + 1
        BY <2>3, <1>3
      <3> QED BY <2>3, <3>1 DEF Led
    <2> QED BY <2>1, <2>2, <2>3
  <1>21. Now(p) = reached
    <2>1. ~(p + 1 < p + 1) /\ p >= 2
      BY <1>3
    <2>2. ends <=> branches(p) # {}
      BY <1>1 DEF Iteration
    <2> QED BY <2>1, <2>2, <1>9, <1>12
  <1> HIDE DEF Now
  <1>22. ASSUME NEW y \in Node, y > 0, NEW x \in Node
         PROVE  x \in predecessors'[y] <=>
                  \E i \in 1 .. p : addressMap'[Address(i)] = x /\ y \in Now(i)
    <2>1. y \notin made
      <3>1. made \subseteq {Special(p)}
        BY <1>2 DEF Adds
      <3>2. p \in Nat
        BY <1>3
      <3>3. Special(p) < 0
        BY <3>2, <1>4
      <3> QED BY <3>1, <3>3, <1>22, <1>4
    <2>2. x \in predecessors'[y] <=>
            \/ x \in predecessors[y]
            \/ y = block /\ x \in flow
            \/ y \in reached /\ x = block
      BY <2>1, <1>2 DEF Adds
    <2>3. x \in predecessors[y] <=>
            \E i \in 1 .. p - 1 : addressMap[Address(i)] = x /\ y \in Led(i)
      BY <1>22 DEF EdgeInv
    <2>4. (y = block /\ x \in flow) <=>
            /\ ~(p - 1 >= 2 /\ branches(p - 1) # {})
            /\ y \in {Address(p)} \cap targets /\ addressMap[Address(p - 1)] = x
      <3>1. addressMap[Address(p - 1)] # NULL
        BY <1>before
      <3>2. (p > 2) <=> (p - 1 >= 2)
        BY <1>3
      <3>3. x \in flow <=>
              /\ ~(p - 1 >= 2 /\ branches(p - 1) # {})
              /\ Address(p) \in targets /\ addressMap[Address(p - 1)] = x
        BY <3>1, <3>2, <1>1, <1>13 DEF Iteration
      <3>4. Address(p) \in targets => block = Address(p)
        BY <1>3 DEF Starts
      <3> QED BY <3>3, <3>4
    <2>5. \A i \in 1 .. p - 1 : y \in Now(i) <=>
            \/ y \in Led(i)
            \/ i = p - 1 /\ ~(i >= 2 /\ branches(i) # {}) /\ y \in {Address(p)} \cap targets
      BY <1>20
    <2>6. (\E i \in 1 .. p : addressMap'[Address(i)] = x /\ y \in Now(i)) <=>
            \/ \E i \in 1 .. p - 1 : addressMap[Address(i)] = x /\ y \in Now(i)
            \/ y \in reached /\ x = block
      <3>1. 1 .. p = (1 .. p - 1) \cup {p}
        BY <1>3
      <3> QED BY <3>1, <1>8, <1>9, <1>21
    <2>7. (\E i \in 1 .. p - 1 : addressMap[Address(i)] = x /\ y \in Now(i)) <=>
            \/ \E i \in 1 .. p - 1 : addressMap[Address(i)] = x /\ y \in Led(i)
            \/ /\ ~(p - 1 >= 2 /\ branches(p - 1) # {})
               /\ y \in {Address(p)} \cap targets /\ addressMap[Address(p - 1)] = x
      <3>1. p - 1 \in 1 .. p - 1
        BY <1>3
      <3> QED BY <3>1, <2>5
    <2> QED BY <2>2, <2>3, <2>4, <2>6, <2>7
  <1>23. position' - 1 = p /\ position' > 2
    BY <1>3, <1>6
  <1>24. \A i : Address(i)' = Address(i)
    BY DEF Address
  <1> HIDE DEF p
  <1> QED BY <1>6, <1>7, <1>15, <1>16, <1>17, <1>18, <1>19, <1>22, <1>23, <1>24, <1>3
          DEF EdgeInv

(* The other steps leave what BlockBuilder made alone.                     *)
LEMMA EdgeStep == IInv /\ EdgeInv /\ [Next]_vars => EdgeInv'
  <1> SUFFICES ASSUME IInv, EdgeInv, [Next]_vars PROVE EdgeInv'
    OBVIOUS
  <1>1. CASE BuildBlock
    BY <1>1, EdgeBuild
  <1>2. ASSUME UNCHANGED <<routine, position, addressMap, predecessors>>,
               phase' = "build" => phase = "build" /\ UNCHANGED currentBlock,
               phase' # "build" => position = Len(routine) + 1
        PROVE  EdgeInv'
    <2>1. /\ \A i : branches(i)' = branches(i) /\ Address(i)' = Address(i)
          /\ \A i, start : Goes(i, start)' = Goes(i, start)
      BY <1>2 DEF branches, Goes, Steps, Address
    <2>2. targets' = targets
      BY <1>2, <2>1 DEF targets
    <2>3. /\ \A b : BlockHead(b)' <=> BlockHead(b)
          /\ \A i : Led(i)' = Led(i)
      BY <1>2, <2>1, <2>2 DEF BlockHead, Led
    <2> QED BY <1>2, <2>1, <2>2, <2>3 DEF EdgeInv
  <1>3. CASE BuildTree
    <2>1. position = Len(routine) + 1
      <3>1. position \in 2 .. Len(routine) + 1 /\ routine \in Routines
        BY DEF IInv, GraphInv
      <3>2. Len(routine) \in Nat
        BY <3>1, RoutineAssumption
      <3> QED BY <1>3, <3>1, <3>2 DEF BuildTree
    <2>2. phase' # "build"
      BY <1>3 DEF BuildTree, StartTree
    <2> QED BY <1>2, <1>3, <2>1, <2>2 DEF BuildTree, graph, building
  <1>4. CASE TreeStep /\ UNCHANGED building
    <2>1. phase # "build" /\ phase' # "build" /\ UNCHANGED predecessors
      <3>1. phase = "tree" /\ UNCHANGED predecessors
        BY <1>4 DEF TreeStep, AddPredecessor, NextBlock, EndTree, graph
      <3>2. AddPredecessor => phase' \in {"tree", "failed"}
        BY <3>1 DEF AddPredecessor, AddNext, addPredecessorAsPostDominated
      <3> QED BY <1>4, <3>1, <3>2 DEF TreeStep, NextBlock, EndTree
    <2>2. position = Len(routine) + 1
      BY <2>1 DEF EdgeInv
    <2> QED BY <1>2, <1>4, <2>1, <2>2 DEF building
  <1>5. CASE UNCHANGED vars
    <2>1. UNCHANGED <<routine, position, addressMap, predecessors, phase, currentBlock>>
      BY <1>5 DEF vars, building, graph
    <2> QED BY <1>2, <2>1 DEF EdgeInv
  <1> QED BY <1>1, <1>3, <1>4, <1>5 DEF Next, Finished

(* The graph the postdominators are computed on has exactly the edges of   *)
(* the code, up to the three departures of Assumed, for any list of        *)
(* instructions the builder gets to the end of: mapper flags every target, *)
(* BlockBuilder joins a block to the target it falls into, and BranchIns   *)
(* leaves no edge out and adds none.                                       *)
THEOREM EdgesAreThoseOfTheCode == Spec => []EdgesExact
  <1>1. ASSUME IInv, EdgeInv PROVE EdgesExact
    <2> SUFFICES ASSUME phase # "build", NEW x \in Range(addressMap),
                        NEW y \in Range(addressMap)
                 PROVE  x \in predecessors[y] <=>
                          \E i \in DOMAIN routine :
                            addressMap[Address(i)] = x /\ y \in Assumed(i)
      BY DEF EdgesExact
    <2>1. /\ routine \in Routines /\ position = Len(routine) + 1
      BY <1>1 DEF IInv, GraphInv, EdgeInv
    <2>2. /\ DOMAIN routine = 1 .. Len(routine) /\ Len(routine) \in Nat /\ Len(routine) > 0
          /\ position - 1 = Len(routine)
          /\ Base \in Nat /\ Base >= 5 /\ \A i \in Nat : Address(i) = Base + i
      BY <2>1, RoutineAssumption DEF Address
    <2>3. x \in Node /\ y \in Node /\ BlockHead(y)
      BY <1>1 DEF IInv, GraphInv, HeapInv, EdgeInv, Range
    <2>4. y > 0
      BY <2>1, <2>3, HeadsPositive
    <2>5. x \in predecessors[y] <=>
            \E i \in 1 .. Len(routine) : addressMap[Address(i)] = x /\ y \in Led(i)
      BY <1>1, <2>2, <2>3, <2>4 DEF EdgeInv
    <2>6. ASSUME NEW i \in 1 .. Len(routine) PROVE y \in Led(i) <=> y \in Assumed(i)
      <3>1. CASE i >= 2 /\ branches(i) # {}
        <4>1. Led(i) = Goes(i, addressMap[Address(i)]) /\ i # 1
          BY <3>1 DEF Led
        <4>2. routine[i].op # "plain"
          BY <3>1, <2>1, AskedFacts
        <4>3. CASE routine[i].op = "jmp"
          <5>1. routine[i].target \in targets
                  /\ routine[i].target \in Goes(i, addressMap[Address(i)])
            BY <2>1, <3>1, <4>3, GoesFacts
          <5>2. routine[i].target # ReturnNode
            <6>1. routine[i].target \in Nat /\ routine[i].target > 5
              BY <2>1, RoutineFacts
            <6> QED BY <6>1 DEF ReturnNode
          <5>3. i \in 2 .. position - 1
            BY <2>2, <3>1
          <5>4. routine[i].target \in DOMAIN addressMap
            BY <1>1, <3>1, <5>1, <5>2, <5>3 DEF EdgeInv
          <5>5. addressMap[routine[i].target] = routine[i].target
            BY <1>1, <5>1, <5>4 DEF EdgeInv
          <5> QED BY <4>1, <4>2, <4>3, <5>5 DEF Assumed, Goes
        <4>4. CASE routine[i].op # "jmp"
          BY <4>1, <4>2, <4>4 DEF Assumed, Goes
        <4> QED BY <4>3, <4>4
      <3>2. CASE ~(i >= 2 /\ branches(i) # {})
        <4>1. Led(i) = IF i + 1 < position THEN {Address(i + 1)} \cap targets ELSE {}
          BY <3>2 DEF Led
        <4>2. y = Address(i + 1) => y \in targets
          <5> SUFFICES ASSUME y = Address(i + 1), y \notin targets PROVE FALSE
            OBVIOUS
          <5>1. y = Base + (i + 1) /\ Address(1) = Base + 1 /\ ReturnNode = 2
            BY <2>2 DEF ReturnNode
          <5>2. y # Address(1) /\ y # ReturnNode
            <6>1. i \in Nat /\ i > 0
              OBVIOUS
            <6>2. Base \in Nat /\ Base >= 5
              BY <2>2
            <6> QED BY <5>1, <6>1, <6>2
          <5>3. PICK j \in 2 .. Len(routine) : branches(j) # {} /\ y = Address(j + 1)
            BY <5>2, <2>3 DEF BlockHead
          <5>4. j = i
            BY <5>1, <5>3, <2>2, SMTT(30)
          <5> QED BY <5>3, <5>4, <3>2
        <4>3. i = 1 \/ routine[i].op = "plain"
          <5>1. i # 1 => branches(i) = {}
            BY <3>2
          <5> QED BY <5>1, <2>1, AskedFacts
        <4>4. i + 1 < position <=> i < Len(routine)
          <5>1. PICK n \in Nat : n = Len(routine) /\ position = n + 1 /\ i \in 1 .. n
            BY <2>1, <2>2
          <5> QED BY <5>1
        <4> QED BY <4>1, <4>2, <4>3, <4>4 DEF Assumed
      <3> QED BY <3>1, <3>2
    <2> QED BY <2>2, <2>5, <2>6
  <1>2. Spec => []EdgeInv
    BY EdgeInit, EdgeStep, Invariance, PTL DEF Spec
  <1> QED BY <1>1, <1>2, Invariance, PTL
=============================================================================
