------------------------ MODULE PostDominanceProofs ------------------------
(***************************************************************************)
(* The true postdominators of a block stay among its ancestors, for any    *)
(* list of instructions and every layout of the heap.                      *)
(***************************************************************************)
EXTENDS RoutineGraphProofs

(* The ancestors of b in the tree of the parents P, b itself included: the *)
(* least set with b in it that a walk to the root does not leave.          *)
ClimbsIn(P, S) == \A x \in S \ {ReturnNode} : P[x] \in S
Ancestors(P, b) ==
  {x \in Node : \A S \in SUBSET Node : b \in S /\ ClimbsIn(P, S) => x \in S}

(* Parents with an order in which they come before their children.         *)
Grown(P) == {b \in Node : P[b] # NULL} \cup {ReturnNode}
Rooted(P) ==
  /\ P \in [Node -> Node \cup {NULL}] /\ P[ReturnNode] = NULL
  /\ \E rank \in [Node -> Nat] :
       \A b \in Grown(P) \ {ReturnNode} : P[b] \in Grown(P) /\ rank[P[b]] < rank[b]

(* What holds of b and is passed on to parents holds of every ancestor.    *)
LEMMA Climb ==
  ASSUME NEW P, NEW b \in Node, NEW S \in SUBSET Node, b \in S, ClimbsIn(P, S)
  PROVE  Ancestors(P, b) \subseteq S
  BY DEF Ancestors

(* The ancestors of a block of the tree are in the tree, and a walk does   *)
(* not leave them.                                                         *)
LEMMA AncestorsClimb ==
  ASSUME NEW P, Rooted(P), NEW b \in Grown(P)
  PROVE  /\ Ancestors(P, b) \subseteq Grown(P) /\ Ancestors(P, b) \subseteq Node
         /\ b \in Ancestors(P, b)
         /\ \A x \in Ancestors(P, b) \ {ReturnNode} : P[x] \in Ancestors(P, b)
  <1>1. Grown(P) \subseteq Node /\ ClimbsIn(P, Grown(P))
    BY NodeAssumption DEF Grown, Rooted, ClimbsIn
  <1>2. Ancestors(P, b) \subseteq Grown(P) /\ Ancestors(P, b) \subseteq Node
    BY <1>1, Climb
  <1>3. ASSUME NEW x \in Ancestors(P, b) \ {ReturnNode} PROVE P[x] \in Ancestors(P, b)
    <2>1. P[x] \in Node
      BY <1>1, <1>2 DEF ClimbsIn
    <2>2. ASSUME NEW S \in SUBSET Node, b \in S, ClimbsIn(P, S) PROVE P[x] \in S
      BY <2>2 DEF Ancestors, ClimbsIn
    <2> QED BY <2>1, <2>2 DEF Ancestors
  <1>4. b \in Ancestors(P, b)
    BY <1>1 DEF Ancestors
  <1> QED BY <1>2, <1>3, <1>4

(* The ancestors of an ancestor are ancestors.                             *)
LEMMA AncestorsNest ==
  ASSUME NEW P, Rooted(P), NEW b \in Grown(P), NEW x \in Ancestors(P, b)
  PROVE  Ancestors(P, x) \subseteq Ancestors(P, b)
  BY DEF Ancestors

(* A block is its own ancestor, the others are those of its parent.        *)
LEMMA AncestorsStep ==
  ASSUME NEW P, Rooted(P), NEW b \in Grown(P)
  PROVE  /\ Ancestors(P, ReturnNode) = {ReturnNode}
         /\ b # ReturnNode => /\ Ancestors(P, b) = {b} \cup Ancestors(P, P[b])
                              /\ b \notin Ancestors(P, P[b])
  <1>1. Grown(P) \subseteq Node /\ ReturnNode \in Grown(P)
    BY NodeAssumption DEF Grown
  <1>2. Ancestors(P, ReturnNode) = {ReturnNode}
    <2>1. ClimbsIn(P, {ReturnNode})
      BY DEF ClimbsIn
    <2> QED BY <1>1, <2>1, Climb, AncestorsClimb
  <1>3. ASSUME b # ReturnNode
        PROVE  Ancestors(P, b) = {b} \cup Ancestors(P, P[b]) /\ b \notin Ancestors(P, P[b])
    <2>1. P[b] \in Grown(P)
      BY <1>3 DEF Rooted
    <2> DEFINE S == {b} \cup Ancestors(P, P[b])
    <2>2. S \subseteq Node /\ b \in S /\ ClimbsIn(P, S)
      BY <1>1, <2>1, AncestorsClimb DEF ClimbsIn
    <2>3. Ancestors(P, b) \subseteq S
      BY <1>1, <2>2, Climb
    <2>4. P[b] \in Ancestors(P, b) /\ b \in Ancestors(P, b)
      BY <1>3, AncestorsClimb
    <2>5. Ancestors(P, P[b]) \subseteq Ancestors(P, b)
      BY <2>4, AncestorsNest
    <2>6. PICK rank \in [Node -> Nat] :
            \A x \in Grown(P) \ {ReturnNode} : P[x] \in Grown(P) /\ rank[P[x]] < rank[x]
      BY DEF Rooted
    <2> DEFINE R == {x \in Grown(P) : rank[x] < rank[b]}
    <2>7. R \subseteq Node /\ P[b] \in R
      BY <1>1, <1>3, <2>1, <2>6
    <2>8. ClimbsIn(P, R)
      <3> SUFFICES ASSUME NEW x \in R \ {ReturnNode} PROVE P[x] \in R
        BY DEF ClimbsIn
      <3>1. P[x] \in Grown(P) /\ rank[P[x]] < rank[x] /\ rank[x] < rank[b]
        BY <2>6
      <3>2. rank[P[x]] \in Nat /\ rank[x] \in Nat /\ rank[b] \in Nat
        BY <1>1, <2>6, <3>1
      <3> QED BY <3>1, <3>2
    <2>9. Ancestors(P, P[b]) \subseteq R
      BY <1>1, <2>1, <2>7, <2>8, Climb
    <2>10. b \notin R
      BY <1>1, <2>6
    <2> QED BY <2>3, <2>4, <2>5, <2>9, <2>10
  <1> QED BY <1>2, <1>3

(* The ancestors of a block are in line, and the line has no loop.         *)
LEMMA AncestorsInLine ==
  ASSUME NEW P, Rooted(P), NEW b \in Grown(P),
         NEW x \in Ancestors(P, b), NEW y \in Ancestors(P, b)
  PROVE  /\ x \in Ancestors(P, y) \/ y \in Ancestors(P, x)
         /\ x \in Ancestors(P, y) /\ y \in Ancestors(P, x) => x = y
  <1>1. x \in Grown(P) /\ y \in Grown(P) /\ b \in Node /\ Grown(P) \subseteq Node
    BY AncestorsClimb, NodeAssumption DEF Grown
  <1> DEFINE S == {z \in Ancestors(P, b) : y \in Ancestors(P, z)} \cup Ancestors(P, y)
  <1>2. S \subseteq Node /\ b \in S
    BY <1>1, AncestorsClimb
  <1>3. ClimbsIn(P, S)
    <2> SUFFICES ASSUME NEW z \in S \ {ReturnNode} PROVE P[z] \in S
      BY DEF ClimbsIn
    <2>1. CASE z \in Ancestors(P, y)
      BY <2>1, <1>1, AncestorsClimb
    <2>2. CASE z \in Ancestors(P, b) /\ y \in Ancestors(P, z) /\ z # y
      <3>1. z \in Grown(P) /\ P[z] \in Ancestors(P, b)
        BY <2>2, AncestorsClimb
      <3>2. y \in Ancestors(P, P[z])
        BY <2>2, <3>1, AncestorsStep
      <3> QED BY <3>1, <3>2
    <2>3. CASE z = y
      BY <2>3, <1>1, AncestorsClimb
    <2> QED BY <2>1, <2>2, <2>3
  <1>4. x \in S
    BY <1>1, <1>2, <1>3, Climb
  <1>5. ASSUME x \in Ancestors(P, y), y \in Ancestors(P, x) PROVE x = y
    <2> SUFFICES ASSUME x # y PROVE FALSE
      OBVIOUS
    <2>1. y # ReturnNode
      BY <1>1, <1>5, AncestorsStep
    <2>2. x \in Ancestors(P, P[y]) /\ P[y] \in Grown(P)
      BY <1>1, <1>5, <2>1, AncestorsStep DEF Rooted
    <2>3. y \in Ancestors(P, P[y])
      BY <1>5, <2>2, AncestorsNest
    <2> QED BY <1>1, <2>1, <2>3, AncestorsStep
  <1> QED BY <1>4, <1>5

(* The root is an ancestor of every block of the tree.                     *)
LEMMA RootAbove ==
  ASSUME NEW P, Rooted(P), NEW b \in Grown(P)
  PROVE  ReturnNode \in Ancestors(P, b)
  <1>1. PICK rank \in [Node -> Nat] :
          \A x \in Grown(P) \ {ReturnNode} : P[x] \in Grown(P) /\ rank[P[x]] < rank[x]
    BY DEF Rooted
  <1>2. Ancestors(P, b) \subseteq Grown(P) /\ Ancestors(P, b) \subseteq Node
          /\ b \in Ancestors(P, b)
    BY AncestorsClimb
  <1> DEFINE T == {rank[x] : x \in Ancestors(P, b)}
  <1>3. T \subseteq Nat /\ T # {}
    BY <1>2
  <1>4. PICK n \in T : \A k \in T : n <= k
    BY <1>3, Least
  <1>5. PICK x \in Ancestors(P, b) : n = rank[x]
    BY <1>4
  <1>6. CASE x # ReturnNode
    <2>1. P[x] \in Ancestors(P, b) /\ rank[P[x]] < rank[x]
      BY <1>1, <1>2, <1>6, AncestorsClimb
    <2>2. rank[P[x]] \in T /\ rank[P[x]] \in Nat /\ rank[x] \in Nat
      BY <2>1, <1>2
    <2> QED BY <2>1, <2>2, <1>4, <1>5
  <1> QED BY <1>5, <1>6

(* Ancestors that keep their parents stay the ancestors.                   *)
LEMMA AncestorsKept ==
  ASSUME NEW P, NEW Q, Rooted(P), NEW b \in Grown(P),
         \A x \in Ancestors(P, b) \ {ReturnNode} : Q[x] = P[x]
  PROVE  Ancestors(Q, b) = Ancestors(P, b)
  <1>1. /\ Ancestors(P, b) \subseteq Node /\ b \in Ancestors(P, b) /\ b \in Node
        /\ \A x \in Ancestors(P, b) \ {ReturnNode} : P[x] \in Ancestors(P, b)
    BY AncestorsClimb
  <1>2. ClimbsIn(Q, Ancestors(P, b))
    BY <1>1 DEF ClimbsIn
  <1>3. Ancestors(Q, b) \subseteq Ancestors(P, b)
    BY <1>1, <1>2, Climb
  <1>4. ASSUME NEW S \in SUBSET Node, b \in S, ClimbsIn(Q, S)
        PROVE  Ancestors(P, b) \subseteq S
    <2>1. ClimbsIn(P, S \cap Ancestors(P, b))
      BY <1>1, <1>4 DEF ClimbsIn
    <2>2. S \cap Ancestors(P, b) \in SUBSET Node /\ b \in S \cap Ancestors(P, b)
      BY <1>1, <1>4
    <2> QED BY <1>1, <2>1, <2>2, Climb
  <1>5. Ancestors(P, b) \subseteq Ancestors(Q, b)
    BY <1>1, <1>4 DEF Ancestors
  <1> QED BY <1>3, <1>5

(* The parents P, with b in place of that of p.                            *)
Reparented(P, p, b) == [P EXCEPT ![p] = b]

(* A block p gets its first parent b: it comes under the ancestors of b.   *)
LEMMA FirstAncestors ==
  ASSUME NEW P, NEW Q, Rooted(P), Rooted(Q), NEW b \in Grown(P),
         NEW p \in Node \ Grown(P), Q = Reparented(P, p, b)
  PROVE  /\ \A d \in Grown(P) : Ancestors(Q, d) = Ancestors(P, d)
         /\ Ancestors(Q, p) = {p} \cup Ancestors(P, b)
         /\ p \notin Ancestors(P, b)
         /\ Grown(Q) = Grown(P) \cup {p}
  <1>1. /\ P \in [Node -> Node \cup {NULL}] /\ Grown(P) \subseteq Node
        /\ ReturnNode \in Grown(P) /\ NULL \notin Node /\ b \in Node
    <2>1. Grown(P) \subseteq Node /\ ReturnNode \in Grown(P) /\ NULL \notin Node
      BY NodeAssumption DEF Grown
    <2> QED BY <2>1 DEF Rooted
  <1>2. Q[p] = b /\ \A x \in Node \ {p} : Q[x] = P[x]
    BY <1>1 DEF Reparented
  <1>3. Grown(Q) = Grown(P) \cup {p}
    BY <1>1, <1>2 DEF Grown
  <1>4. ASSUME NEW d \in Grown(P) PROVE Ancestors(Q, d) = Ancestors(P, d)
    <2>1. Ancestors(P, d) \subseteq Grown(P)
      BY AncestorsClimb
    <2>2. \A x \in Ancestors(P, d) \ {ReturnNode} : Q[x] = P[x]
      BY <1>1, <1>2, <2>1
    <2> QED BY <2>2, AncestorsKept
  <1>5. p \notin Ancestors(P, b)
    BY AncestorsClimb
  <1>6. Ancestors(Q, p) = {p} \cup Ancestors(P, b)
    <2>1. p \in Grown(Q) /\ p # ReturnNode
      BY <1>1, <1>3
    <2>2. Ancestors(Q, p) = {p} \cup Ancestors(Q, Q[p])
      BY <2>1, AncestorsStep
    <2> QED BY <1>2, <1>4, <2>2
  <1> QED BY <1>3, <1>4, <1>5, <1>6

(* A block q moves up to one of its ancestors, last: it and those below it *)
(* lose the ancestors in between.                                          *)
LEMMA MovedAncestors ==
  ASSUME NEW P, NEW Q, Rooted(P), Rooted(Q), NEW q \in Grown(P) \ {ReturnNode},
         NEW last \in Ancestors(P, q) \ {q}, Q = Reparented(P, q, last)
  PROVE  /\ Grown(Q) = Grown(P)
         /\ \A d \in Grown(P) : q \notin Ancestors(P, d) =>
              Ancestors(Q, d) = Ancestors(P, d)
         /\ \A d \in Grown(P) : q \in Ancestors(P, d) =>
              Ancestors(Q, d) =
                Ancestors(P, d) \ (Ancestors(P, P[q]) \ Ancestors(P, last))
         /\ q \notin Ancestors(P, P[q])
         /\ last \in Ancestors(P, P[q]) /\ P[q] \in Grown(P)
  <1>1. /\ P \in [Node -> Node \cup {NULL}] /\ Grown(P) \subseteq Node
        /\ ReturnNode \in Grown(P) /\ NULL \notin Node /\ q \in Node
        /\ last \in Grown(P) /\ last \in Node
    BY NodeAssumption, AncestorsClimb DEF Rooted, Grown
  <1>2. Q[q] = last /\ \A x \in Node \ {q} : Q[x] = P[x]
    BY <1>1 DEF Reparented
  <1>3. Grown(Q) = Grown(P)
    BY <1>1, <1>2 DEF Grown
  <1>4. /\ P[q] \in Grown(P) /\ q \notin Ancestors(P, P[q])
        /\ Ancestors(P, q) = {q} \cup Ancestors(P, P[q])
    BY AncestorsStep DEF Rooted
  <1>5. last \in Ancestors(P, P[q]) /\ q \notin Ancestors(P, last)
          /\ Ancestors(P, last) \subseteq Ancestors(P, P[q])
    <2>1. last \in Ancestors(P, P[q])
      BY <1>4
    <2> QED BY <1>4, <2>1, AncestorsNest
  <1>6. ASSUME NEW d \in Grown(P), q \notin Ancestors(P, d)
        PROVE  Ancestors(Q, d) = Ancestors(P, d)
    <2>1. Ancestors(P, d) \subseteq Node
      BY AncestorsClimb
    <2>2. \A x \in Ancestors(P, d) \ {ReturnNode} : Q[x] = P[x]
      BY <1>2, <1>6, <2>1
    <2> QED BY <2>2, AncestorsKept
  <1>7. Ancestors(Q, last) = Ancestors(P, last)
    BY <1>1, <1>5, <1>6
  <1> DEFINE passed == Ancestors(P, P[q]) \ Ancestors(P, last)
  <1>8. ASSUME NEW d \in Grown(P), q \in Ancestors(P, d)
        PROVE  Ancestors(Q, d) = Ancestors(P, d) \ passed
    <2> DEFINE A == Ancestors(P, d)
    <2>1. /\ A \subseteq Node /\ A \subseteq Grown(P) /\ d \in A /\ d \in Node
          /\ \A x \in A \ {ReturnNode} : P[x] \in A
      BY AncestorsClimb
    <2>2. Ancestors(P, q) \subseteq A
      BY <1>8, AncestorsNest
    <2>3. \A x \in passed : q \notin Ancestors(P, x)
      BY <1>4, AncestorsNest
    <2>4. d \notin passed
      BY <2>3, <1>8
    <2>5. ClimbsIn(Q, A \ passed)
      <3> SUFFICES ASSUME NEW x \in (A \ passed) \ {ReturnNode} PROVE Q[x] \in A \ passed
        BY DEF ClimbsIn
      <3>1. CASE x = q
        <4>1. last \in Ancestors(P, last)
          BY <1>1, AncestorsClimb
        <4> QED BY <3>1, <4>1, <1>2, <2>2
      <3>2. CASE x # q /\ x \in Ancestors(P, last)
        <4>1. P[x] \in Ancestors(P, last)
          BY <3>2, <1>1, AncestorsClimb
        <4> QED BY <3>2, <4>1, <1>2, <2>1
      <3>3. CASE x # q /\ x \notin Ancestors(P, last)
        <4>1. x \notin Ancestors(P, q)
          BY <3>3, <1>4
        <4>2. q \in Ancestors(P, x) /\ x \in Grown(P)
          BY <4>1, <1>8, <2>1, AncestorsInLine
        <4>3. q \in Ancestors(P, P[x]) /\ P[x] \in A
          BY <3>3, <4>2, <2>1, AncestorsStep
        <4>4. P[x] \notin passed
          BY <4>3, <2>3
        <4> QED BY <3>3, <4>3, <4>4, <1>2, <2>1
      <3> QED BY <3>1, <3>2, <3>3
    <2>6. Ancestors(Q, d) \subseteq A \ passed
      <3>1. A \ passed \in SUBSET Node /\ d \in A \ passed
        BY <2>1, <2>4
      <3> QED BY <3>1, <2>1, <2>5, Climb
    <2>7. /\ d \in Grown(Q) /\ d \in Ancestors(Q, d)
          /\ \A x \in Ancestors(Q, d) \ {ReturnNode} : Q[x] \in Ancestors(Q, d)
      BY <1>3, AncestorsClimb
    <2>8. q \in Ancestors(Q, d)
      <3> DEFINE W == {x \in A : q \in Ancestors(P, x) => x \in Ancestors(Q, d)}
      <3>1. ClimbsIn(P, W)
        <4> SUFFICES ASSUME NEW x \in W \ {ReturnNode}, q \in Ancestors(P, P[x])
                     PROVE  P[x] \in Ancestors(Q, d)
          BY <2>1 DEF ClimbsIn
        <4>1. x \in Grown(P) /\ q \in Ancestors(P, x) /\ x # q
          BY <2>1, <1>4, AncestorsStep
        <4> QED BY <4>1, <1>2, <2>1, <2>7
      <3>2. W \in SUBSET Node /\ d \in W
        BY <2>1, <2>7
      <3>3. A \subseteq W
        BY <2>1, <3>1, <3>2, Climb
      <3>4. q \in Ancestors(P, q)
        BY AncestorsClimb
      <3> QED BY <3>3, <3>4, <1>8
    <2>9. Ancestors(P, last) \subseteq Ancestors(Q, d)
      <3>1. last \in Ancestors(Q, d)
        BY <1>2, <2>7, <2>8
      <3> QED BY <3>1, <1>7, <2>7, AncestorsNest
    <2>10. A \subseteq Ancestors(Q, d) \cup passed
      <3> DEFINE W == {x \in A : x \in Ancestors(Q, d) \/ x \in passed}
      <3>1. ClimbsIn(P, W)
        <4> SUFFICES ASSUME NEW x \in W \ {ReturnNode}
                     PROVE  P[x] \in Ancestors(Q, d) \/ P[x] \in passed
          BY <2>1 DEF ClimbsIn
        <4>1. CASE x = q
          <5>1. P[q] \in Ancestors(P, P[q])
            BY <1>4, AncestorsClimb
          <5> QED BY <4>1, <5>1, <2>9
        <4>2. CASE x # q /\ x \in Ancestors(Q, d)
          BY <4>2, <1>2, <2>1, <2>7
        <4>3. CASE x \in passed
          <5>1. P[x] \in Ancestors(P, P[q])
            BY <4>3, <1>4, AncestorsClimb
          <5> QED BY <5>1, <2>9
        <4> QED BY <4>1, <4>2, <4>3
      <3>2. W \in SUBSET Node /\ d \in W
        BY <2>1, <2>7
      <3> QED BY <2>1, <3>1, <3>2, Climb
    <2> QED BY <2>6, <2>10
  <1> QED BY <1>3, <1>4, <1>5, <1>6, <1>8
-----------------------------------------------------------------------------
(* The blocks that reach the return node without passing avoid, by the     *)
(* edges E: the least set that has it and is closed under predecessors.    *)
LeadsIn(E, avoid, S) ==
  /\ {ReturnNode} \ {avoid} \subseteq S
  /\ \A y \in S : E[y] \ {avoid} \subseteq S
Reaching(E, avoid) ==
  {b \in Node : \A S \in SUBSET Node : LeadsIn(E, avoid, S) => b \in S}

(* A predecessor of a block that reaches the return node does so too.      *)
LEMMA ReachingStep ==
  ASSUME NEW E \in [Node -> SUBSET Node], NEW avoid
  PROVE  /\ avoid # ReturnNode => ReturnNode \in Reaching(E, avoid)
         /\ \A y \in Reaching(E, avoid) :
              E[y] \ {avoid} \subseteq Reaching(E, avoid)
  <1>1. ReturnNode \in Node
    BY NodeAssumption
  <1>2. ASSUME NEW y \in Reaching(E, avoid), NEW p \in E[y] \ {avoid}
        PROVE  p \in Reaching(E, avoid)
    <2>1. y \in Node /\ p \in Node
      BY DEF Reaching
    <2>2. ASSUME NEW S \in SUBSET Node, LeadsIn(E, avoid, S) PROVE p \in S
      <3>1. y \in S
        BY <2>2 DEF Reaching
      <3> QED BY <2>2, <3>1 DEF LeadsIn
    <2> QED BY <2>1, <2>2 DEF Reaching
  <1>3. avoid # ReturnNode => ReturnNode \in Reaching(E, avoid)
    BY <1>1 DEF Reaching, LeadsIn
  <1> QED BY <1>2, <1>3

(* g is the first values of F iterated from a.                             *)
Iterated(g, F, a, N) == g[0] = a /\ \A n \in 1 .. N : g[n] = F[g[n - 1]]

(* A function can be iterated any number of times.                         *)
LEMMA Iterates ==
  ASSUME NEW T, NEW F \in [T -> T], NEW a \in T, NEW N \in Nat
  PROVE  \E g \in [0 .. N -> T] : Iterated(g, F, a, N)
  <1> USE DEF Iterated
  <1> DEFINE Is(m, g) == Iterated(g, F, a, m)
             M == {m \in Nat : ~\E g \in [0 .. m -> T] : Is(m, g)}
  <1> SUFFICES ASSUME M # {} PROVE FALSE
    OBVIOUS
  <1>1. PICK m \in M : \A y \in M : m <= y
    BY Least
  <1>2. m \in Nat /\ ~\E g \in [0 .. m -> T] : Is(m, g)
    OBVIOUS
  <1>3. m # 0
    <2> SUFFICES ASSUME m = 0 PROVE FALSE
      OBVIOUS
    <2>1. [n \in 0 .. 0 |-> a] \in [0 .. 0 -> T]
      OBVIOUS
    <2>2. Is(0, [n \in 0 .. 0 |-> a])
      OBVIOUS
    <2> QED BY <1>2, <2>1, <2>2
  <1>4. m - 1 \in Nat /\ m - 1 \notin M
    <2>1. m - 1 \in Nat
      BY <1>2, <1>3
    <2>2. m - 1 \in M => m <= m - 1
      BY <1>1
    <2> QED BY <1>2, <2>1, <2>2
  <1>5. PICK g \in [0 .. m - 1 -> T] : Is(m - 1, g)
    BY <1>4
  <1> DEFINE h == [n \in 0 .. m |-> IF n < m THEN g[n] ELSE F[g[m - 1]]]
  <1>6. F[g[m - 1]] \in T
    <2>1. g[m - 1] \in T
      BY <1>4
    <2> QED BY <2>1
  <1>7. h \in [0 .. m -> T]
    BY <1>2, <1>3, <1>6
  <1>8. Is(m, h)
    <2>1. h[0] = a
      BY <1>2, <1>3, <1>5
    <2>2. ASSUME NEW n \in 1 .. m PROVE h[n] = F[h[n - 1]]
      <3>1. CASE n < m
        BY <3>1, <1>5, <1>2
      <3>2. CASE n = m
        BY <3>2, <1>2, <1>3
      <3> QED BY <3>1, <3>2, <1>2
    <2> QED BY <2>1, <2>2
  <1> QED BY <1>2, <1>7, <1>8

(* The blocks reached in one step more.                                    *)
Wider(E, avoid, S) == UNION {{x} \cup (E[x] \ {avoid}) : x \in S}

(* Returning, unfolded.                                                    *)
LEMMA ReturningUnfolds ==
  ASSUME predecessors \in [Node -> SUBSET Node], NEW avoid
  PROVE  \E g \in [Height -> SUBSET Node] :
           /\ g[0] = {ReturnNode} \ {avoid}
           /\ \A n \in Height \ {0} : g[n] = Wider(predecessors, avoid, g[n - 1])
           /\ Returning(avoid) = g[Cardinality(Node)]
  <1> DEFINE F == [S \in SUBSET Node |-> Wider(predecessors, avoid, S)]
  <1>1. F \in [SUBSET Node -> SUBSET Node]
    BY DEF Wider
  <1>2. {ReturnNode} \ {avoid} \in SUBSET Node
    BY NodeAssumption
  <1> HIDE DEF F
  <1>3. PICK g \in [Height -> SUBSET Node] :
          /\ g[0] = {ReturnNode} \ {avoid}
          /\ \A n \in 1 .. Cardinality(Node) : g[n] = F[g[n - 1]]
    <2>1. PICK T : T = SUBSET Node
      OBVIOUS
    <2>2. PICK a : a = {ReturnNode} \ {avoid}
      OBVIOUS
    <2>3. F \in [T -> T] /\ a \in T
      BY <1>1, <1>2, <2>1, <2>2
    <2>4. \E g \in [0 .. Cardinality(Node) -> T] : Iterated(g, F, a, Cardinality(Node))
      BY <2>3, HeightIsNat, Iterates
    <2> QED BY <2>1, <2>2, <2>4 DEF Height, Iterated
  <1>4. ASSUME NEW n \in Height \ {0} PROVE g[n] = Wider(predecessors, avoid, g[n - 1])
    <2>1. n \in 1 .. Cardinality(Node) /\ n - 1 \in Height
      BY HeightIsNat DEF Height
    <2>2. g[n] = F[g[n - 1]] /\ g[n - 1] \in SUBSET Node
      BY <1>3, <2>1
    <2> QED BY <2>2 DEF F
  <1> DEFINE Is(f) == f = [n \in Height |->
               IF n = 0 THEN {ReturnNode} \ {avoid}
               ELSE UNION {{x} \cup (predecessors[x] \ {avoid}) : x \in f[n - 1]}]
             Grow == CHOOSE f : Is(f)
  <1>5. Returning(avoid) = Grow[Cardinality(Node)]
    BY DEF Returning
  <1>6. Is(g)
    <2>1. ASSUME NEW n \in Height
          PROVE  g[n] = IF n = 0 THEN {ReturnNode} \ {avoid}
                        ELSE UNION {{x} \cup (predecessors[x] \ {avoid}) : x \in g[n - 1]}
      <3>1. CASE n = 0
        BY <3>1, <1>3
      <3>2. CASE n # 0
        BY <3>2, <1>4 DEF Wider
      <3> QED BY <3>1, <3>2
    <2> QED BY <2>1
  <1>7. Is(Grow)
    BY <1>6
  <1>8. Grow = g
    <2>1. ASSUME NEW n \in Height \ {0} PROVE Grow[n] = Wider(predecessors, avoid, Grow[n - 1])
      BY <1>7 DEF Wider
    <2>2. Grow[0] = g[0]
      <3>1. 0 \in Height
        BY HeightIsNat DEF Height
      <3>2. ASSUME NEW f, Is(f) PROVE f[0] = {ReturnNode} \ {avoid}
        BY <3>1, <3>2
      <3> HIDE DEF Is, Grow
      <3> QED BY <3>2, <1>3, <1>7
    <2>3. Grow = [n \in Height |-> Grow[n]]
      BY <1>7
    <2> HIDE DEF Grow, Is
    <2> DEFINE M == {n \in Height : Grow[n] # g[n]}
    <2>4. M = {}
      <3> SUFFICES ASSUME M # {} PROVE FALSE
        OBVIOUS
      <3>1. M \subseteq Nat
        BY HeightIsNat DEF Height
      <3>2. PICK n \in M : \A k \in M : n <= k
        BY <3>1, Least
      <3>3. n \in Height \ {0} /\ n \in Nat
        BY <2>2, <3>1
      <3>4. n - 1 \in Height /\ n - 1 \notin M
        BY <3>2, <3>3, HeightIsNat DEF Height
      <3> QED BY <3>2, <3>3, <3>4, <2>1, <1>4
    <2> QED BY <2>3, <2>4
  <1> QED BY <1>3, <1>4, <1>5, <1>8

(* Returning computes them: it grows by one block a step at least, or not  *)
(* any more, so that as many steps as there are blocks are enough.         *)
LEMMA ReturningReaches ==
  ASSUME predecessors \in [Node -> SUBSET Node], NEW avoid
  PROVE  Returning(avoid) = Reaching(predecessors, avoid)
  <1>1. PICK g \in [Height -> SUBSET Node] :
           /\ g[0] = {ReturnNode} \ {avoid}
           /\ \A n \in Height \ {0} : g[n] = Wider(predecessors, avoid, g[n - 1])
           /\ Returning(avoid) = g[Cardinality(Node)]
    BY ReturningUnfolds
  <1>2. Cardinality(Node) \in Nat /\ Height = 0 .. Cardinality(Node)
    BY HeightIsNat DEF Height
  <1> DEFINE Closed(n) == Wider(predecessors, avoid, g[n]) \subseteq g[n]
             Good(n) == /\ {ReturnNode} \ {avoid} \subseteq g[n]
                        /\ g[n] \subseteq Reaching(predecessors, avoid)
                        /\ Closed(n) \/ Cardinality(g[n]) >= n
             M == {n \in Height : ~Good(n)}
  <1>3. ASSUME NEW n \in Height
        PROVE  g[n] \subseteq Node /\ IsFiniteSet(g[n]) /\ Cardinality(g[n]) \in Nat
                 /\ Cardinality(g[n]) <= Cardinality(Node)
    BY NodeAssumption, FS_Subset, FS_CardinalityType
  <1>4. {ReturnNode} \ {avoid} \subseteq Reaching(predecessors, avoid)
    BY ReachingStep
  <1>5. Good(0)
    <2>1. 0 \in Height
      BY <1>2
    <2>2. Cardinality(g[0]) >= 0
      BY <2>1, <1>3
    <2> QED BY <2>2, <1>1, <1>4
  <1>6. ASSUME NEW n \in Height \ {0}, Good(n - 1) PROVE Good(n)
    <2> DEFINE S == g[n - 1]
    <2>1. n - 1 \in Height /\ n \in Nat /\ g[n] = Wider(predecessors, avoid, S)
      BY <1>1, <1>2
    <2>2. S \subseteq Node /\ S \subseteq g[n]
      BY <2>1 DEF Wider
    <2>3. g[n] \subseteq Reaching(predecessors, avoid)
      BY <2>1, <1>6, ReachingStep DEF Wider
    <2>4. CASE Closed(n - 1)
      <3>1. g[n] = S
        BY <2>1, <2>2, <2>4
      <3> QED BY <3>1, <2>3, <2>4, <1>6
    <2>5. CASE ~Closed(n - 1)
      <3>1. Cardinality(S) >= n - 1 /\ S # g[n]
        BY <2>1, <2>5, <1>6
      <3>2. Cardinality(S) <= Cardinality(g[n]) /\ Cardinality(S) # Cardinality(g[n])
        BY <2>1, <2>2, <3>1, <1>3, FS_Subset
      <3>3. Cardinality(g[n]) >= n
        BY <2>1, <3>1, <3>2, <1>3
      <3> QED BY <2>2, <2>3, <3>3, <1>6
    <2> QED BY <2>4, <2>5
  <1>7. M = {}
    <2> SUFFICES ASSUME M # {} PROVE FALSE
      OBVIOUS
    <2>1. M \subseteq Nat
      BY <1>2
    <2>2. PICK n \in M : \A k \in M : n <= k
      BY <2>1, Least
    <2>3. n \in Height \ {0} /\ n \in Nat
      BY <1>5, <2>1
    <2>4. n - 1 \in Height /\ n - 1 \notin M
      BY <2>2, <2>3, <1>2
    <2> HIDE DEF Good
    <2> QED BY <2>2, <2>3, <2>4, <1>6
  <1>8. Good(Cardinality(Node))
    BY <1>2, <1>7
  <1>9. Closed(Cardinality(Node))
    <2>1. ASSUME Cardinality(g[Cardinality(Node)]) >= Cardinality(Node)
          PROVE  g[Cardinality(Node)] = Node
      BY <2>1, <1>2, <1>3, NodeAssumption, FS_Subset
    <2>2. Wider(predecessors, avoid, Node) \subseteq Node
      BY DEF Wider
    <2> QED BY <1>8, <2>1, <2>2
  <1>10. LeadsIn(predecessors, avoid, Returning(avoid)) /\ Returning(avoid) \subseteq Node
    BY <1>1, <1>2, <1>8, <1>9 DEF LeadsIn, Wider
  <1>11. Reaching(predecessors, avoid) \subseteq Returning(avoid)
    BY <1>10 DEF Reaching
  <1> QED BY <1>1, <1>8, <1>11
-----------------------------------------------------------------------------
(* The tree of the program is one.                                         *)
LEMMA TreeIsRooted == IInv => Rooted(PostDominator) /\ Grown(PostDominator) = InTree
  <1> SUFFICES ASSUME IInv
               PROVE  Rooted(PostDominator) /\ Grown(PostDominator) = InTree
    OBVIOUS
  <1>1. TreeInv /\ HeapInv
    BY DEF IInv
  <1>2. Grown(PostDominator) = InTree
    BY DEF Grown, InTree, Placed
  <1>3. PICK rank : Ranked(rank)
    BY <1>1 DEF TreeInv
  <1>4. rank \in [Node -> Nat]
    BY <1>1, <1>3, TreeFacts DEF Ranked
  <1>5. PostDominator \in [Node -> Node \cup {NULL}] /\ PostDominator[ReturnNode] = NULL
    BY <1>1 DEF TreeInv, HeapInv
  <1>6. \A b \in InTree \ {ReturnNode} :
          PostDominator[b] \in InTree /\ rank[PostDominator[b]] < rank[b]
    BY <1>3 DEF Ranked, InTree
  <1> QED BY <1>2, <1>4, <1>5, <1>6 DEF Rooted

(* A walk goes up by ancestors.                                            *)
LEMMA LevelsAbove ==
  ASSUME IInv, NEW b \in InTree, NEW i \in Height, NEW n \in Height, i <= n
  PROVE  Parent(b)[n] \in Ancestors(PostDominator, Parent(b)[i])
  <1> DEFINE T == {m \in Height : i <= m
                     /\ Parent(b)[m] \notin Ancestors(PostDominator, Parent(b)[i])}
  <1> SUFFICES ASSUME T # {} PROVE FALSE
    OBVIOUS
  <1>1. T \subseteq Nat /\ i \in Nat /\ n \in Nat
    BY HeightIsNat DEF Height
  <1>2. PICK m \in T : \A y \in T : m <= y
    BY <1>1, Least
  <1>3. /\ Rooted(PostDominator) /\ Grown(PostDominator) = InTree
        /\ TreeInv /\ HeapInv
    BY TreeIsRooted DEF IInv
  <1>4. PICK rank : Ranked(rank)
    BY <1>3 DEF TreeInv
  <1>5. \A k \in Height : Parent(b)[k] \in InTree
    BY <1>3, <1>4, WalkDescends
  <1>6. \A k \in Height \ {0} : Parent(b)[k] = Up(Parent(b)[k - 1])
    BY <1>3, TreeFacts, ParentFacts
  <1>7. m # i
    BY <1>3, <1>5, AncestorsClimb
  <1>8. m \in Height \ {0} /\ m - 1 \in Height /\ i <= m - 1 /\ m - 1 \notin T
    <2>1. m \in Nat /\ m \in Height /\ i <= m
      BY <1>1
    <2>2. m \in Height \ {0} /\ m - 1 \in Height /\ i <= m - 1
      BY <2>1, <1>1, <1>7, HeightIsNat DEF Height
    <2>3. m - 1 \in T => m <= m - 1
      BY <1>2
    <2> QED BY <2>1, <2>2, <2>3
  <1> DEFINE x == Parent(b)[m - 1]
  <1>9. x \in Ancestors(PostDominator, Parent(b)[i]) /\ x # NULL
    BY <1>3, <1>5, <1>8, TreeFacts
  <1>10. Parent(b)[m] = IF x = ReturnNode THEN x ELSE PostDominator[x]
    BY <1>6, <1>8, <1>9 DEF Up
  <1>11. Parent(b)[m] \in Ancestors(PostDominator, Parent(b)[i])
    BY <1>3, <1>5, <1>9, <1>10, AncestorsClimb
  <1> QED BY <1>11

(* Chain collects the ancestors.                                           *)
LEMMA ChainIsAncestors ==
  ASSUME IInv, NEW b \in InTree
  PROVE  Chain(b) = Ancestors(PostDominator, b)
  <1>1. /\ Rooted(PostDominator) /\ Grown(PostDominator) = InTree
        /\ TreeInv /\ HeapInv
    BY TreeIsRooted DEF IInv
  <1>2. PICK rank : Ranked(rank)
    BY <1>1 DEF TreeInv
  <1>3. /\ 0 \in Height /\ Parent(b)[0] = b
        /\ \A k \in Height \ {0} : Parent(b)[k] = Up(Parent(b)[k - 1])
    BY <1>1, TreeFacts, ParentFacts, HeightIsNat DEF Height
  <1>4. Chain(b) \subseteq Ancestors(PostDominator, b)
    <2>1. \A n \in Height : 0 <= n
      BY HeightIsNat DEF Height
    <2> QED BY <1>3, <2>1, LevelsAbove DEF Chain
  <1>5. Chain(b) \subseteq InTree /\ InTree \subseteq Node /\ NULL \notin Node
    BY <1>1, WalkReturns, TreeFacts
  <1>6. ClimbsIn(PostDominator, Chain(b))
    <2> SUFFICES ASSUME NEW x \in Chain(b) \ {ReturnNode}
                 PROVE  PostDominator[x] \in Chain(b)
      BY DEF ClimbsIn
    <2>1. PICK n \in Height : x = Parent(b)[n]
      BY DEF Chain
    <2>2. x \in Placed /\ PostDominator[x] \in InTree /\ rank[PostDominator[x]] < rank[x]
      BY <1>2, <1>5 DEF InTree, Ranked
    <2>3. rank[x] + n <= rank[b]
      BY <1>1, <1>2, <2>1, WalkDescends
    <2>4. /\ rank[x] \in Nat /\ rank[PostDominator[x]] \in Nat /\ rank[b] \in Nat
          /\ rank[b] <= Cardinality(Node)
      BY <1>1, <1>2, <1>5, <2>2, TreeFacts, HeightIsNat DEF Ranked
    <2>5. n + 1 \in Height \ {0} /\ (n + 1) - 1 = n
      BY <2>2, <2>3, <2>4, HeightIsNat DEF Height
    <2>6. Parent(b)[n + 1] = PostDominator[x]
      BY <1>3, <1>5, <2>1, <2>5 DEF Up
    <2> QED BY <1>5, <2>2, <2>5, <2>6 DEF Chain
  <1>7. b \in Chain(b)
    BY <1>3, <1>5 DEF Chain
  <1>8. Ancestors(PostDominator, b) \subseteq Chain(b)
    BY <1>5, <1>6, <1>7, Climb
  <1> QED BY <1>4, <1>8

(* deleteDownPostDominanceInfo passes the blocks that are no ancestors of  *)
(* the one it stops at.                                                    *)
LEMMA BelowIsPassed ==
  ASSUME IInv, NEW b \in InTree, NEW last \in Ancestors(PostDominator, b)
  PROVE  Below(b, last) =
           Ancestors(PostDominator, b) \ Ancestors(PostDominator, last)
  <1>1. /\ Rooted(PostDominator) /\ Grown(PostDominator) = InTree
        /\ Chain(b) = Ancestors(PostDominator, b)
    BY TreeIsRooted, ChainIsAncestors
  <1>2. \A i, n \in Height :
          i <= n => Parent(b)[n] \in Ancestors(PostDominator, Parent(b)[i])
    BY LevelsAbove
  <1>3. PICK m \in Height : last = Parent(b)[m]
    BY <1>1 DEF Chain
  <1>4. Height \subseteq Nat
    BY HeightIsNat DEF Height
  <1>5. ASSUME NEW x \in Below(b, last)
        PROVE  x \in Ancestors(PostDominator, b) \ Ancestors(PostDominator, last)
    <2>1. PICK n \in Height : Parent(b)[n] = x /\ \A i \in 0 .. n : Parent(b)[i] # last
      BY DEF Below
    <2>2. n < m
      BY <2>1, <1>3, <1>4
    <2>3. last \in Ancestors(PostDominator, x)
      BY <2>1, <2>2, <1>2, <1>3, <1>4
    <2>4. x # last /\ x \in Ancestors(PostDominator, b)
      BY <2>1, <1>1, <1>4 DEF Below
    <2> QED BY <2>3, <2>4, <1>1, AncestorsInLine
  <1>6. ASSUME NEW x \in Ancestors(PostDominator, b) \ Ancestors(PostDominator, last)
        PROVE  x \in Below(b, last)
    <2>1. PICK n \in Height : x = Parent(b)[n]
      BY <1>1 DEF Chain
    <2>2. ASSUME NEW i \in 0 .. n, Parent(b)[i] = last PROVE FALSE
      <3>1. i \in Height /\ i <= n
        BY <1>4, HeightIsNat DEF Height
      <3> QED BY <3>1, <2>1, <2>2, <1>2
    <2> QED BY <2>1, <2>2, <1>1 DEF Below
  <1> QED BY <1>5, <1>6

(* getCommonPostDominator returns the nearest ancestor that has p in its   *)
(* map, or the root.                                                       *)
LEMMA CommonIsNearest ==
  ASSUME IInv, NEW b \in InTree, NEW p, NEW last, last = getCommonPostDominator(b, p)
  PROVE  /\ last \in Ancestors(PostDominator, b)
         /\ last = ReturnNode \/ p \in postDominated[last]
         /\ \A x \in Ancestors(PostDominator, b) \ Ancestors(PostDominator, last) :
              x # ReturnNode /\ p \notin postDominated[x]
  <1>1. /\ TreeInv /\ HeapInv
        /\ Chain(b) = Ancestors(PostDominator, b)
    BY ChainIsAncestors DEF IInv
  <1>2. Returns(b, p) # {} /\ Returns(b, p) \subseteq Height /\ Height \subseteq Nat
    BY <1>1, CommonFound, HeightIsNat DEF Returns, Height
  <1>3. \E m \in Returns(b, p) : \A y \in Returns(b, p) : m <= y
    BY <1>2, Least
  <1> DEFINE m == Min(Returns(b, p))
  <1>4. m \in Returns(b, p) /\ \A y \in Returns(b, p) : m <= y
    BY <1>3 DEF Min
  <1>5. last = Parent(b)[m]
    BY DEF getCommonPostDominator
  <1> HIDE DEF m
  <1>6. m \in Height /\ last # NULL /\ (last = ReturnNode \/ p \in postDominated[last])
    BY <1>4, <1>5 DEF Returns
  <1>7. last \in Ancestors(PostDominator, b)
    BY <1>1, <1>5, <1>6 DEF Chain
  <1>8. ASSUME NEW x \in Ancestors(PostDominator, b) \ Ancestors(PostDominator, last)
        PROVE  x # ReturnNode /\ p \notin postDominated[x]
    <2>1. PICK n \in Height : x = Parent(b)[n] /\ x # NULL
      BY <1>1 DEF Chain
    <2>2. ~(m <= n)
      BY <2>1, <1>5, <1>6, LevelsAbove
    <2>3. n \notin Returns(b, p)
      BY <2>2, <1>4
    <2> QED BY <2>1, <2>3 DEF Returns
  <1> QED BY <1>6, <1>7, <1>8
-----------------------------------------------------------------------------
(* Where BlockBuilder begins a block, and that it gives every instruction  *)
(* it passes the block before otherwise.  Nodes made for callees and       *)
(* unknown targets never become blocks of the tree.                        *)
Begins(i) == (i > 2 /\ branches(i - 1) # {}) \/ Address(i) \in targets

Grouped ==
  /\ addressMap[Address(1)] = Address(1)
  /\ \A i \in 2 .. position - 1 : addressMap[Address(i)] =
       IF Begins(i) THEN Address(i) ELSE addressMap[Address(i - 1)]
  /\ \A b \in Node : startingAddress[b] = b => b > 0

(* Only the first instruction has been passed.                             *)
LEMMA GroupedInit == Init => Grouped
  <1> SUFFICES ASSUME Init PROVE Grouped
    OBVIOUS
  <1>1. /\ routine \in Routines /\ position = 2
        /\ addressMap = [a \in {Address(1), ReturnNode} |-> a]
        /\ startingAddress =
             [b \in Node |-> IF b \in {Address(1), ReturnNode} THEN b ELSE 0]
    BY DEF Init
  <1>2. 1 \in 1 .. Len(routine)
    BY <1>1, RoutineAssumption
  <1>3. Address(1) \in Nat /\ Address(1) > 0
    BY <1>1, <1>2, RoutineFacts
  <1>4. \A b \in Node : startingAddress[b] = b => b > 0
    BY <1>1, <1>3, NodeAssumption DEF ReturnNode, NULL
  <1>5. \A i \in 2 .. position - 1 : FALSE
    BY <1>1
  <1> QED BY <1>1, <1>4, <1>5 DEF Grouped

(* An instruction passed gets the block begun for it or the current one,   *)
(* which is that of the instruction before.                                *)
LEMMA GroupedBuild ==
  ASSUME IInv, EdgeInv, Grouped, BuildBlock
  PROVE  Grouped'
  <1>1. PICK block, ends, asked, made, reached, flow :
          Iteration(block, ends, asked, made, reached, flow)
    BY DEF Iteration
  <1>2. Adds(block, ends, asked, made, reached, flow)
    BY <1>1, BuildFacts
  <1> DEFINE p == position
  <1>3. /\ phase = "build" /\ p \in 2 .. Len(routine) /\ p \in Nat
        /\ p \in 1 .. Len(routine) /\ p - 1 \in 1 .. p - 1
        /\ routine \in Routines /\ block \in Node \ {ReturnNode}
        /\ Starts(p) => block = Address(p)
        /\ ~Starts(p) => block = currentBlock /\ Complete(currentBlock)
    BY <1>1, BlockFacts DEF Iteration
  <1>4. /\ Base \in Nat /\ Base >= 5 /\ Len(routine) \in Nat
        /\ \A i \in Nat : Address(i) = Base + i
        /\ Node \subseteq Int \ {NULL}
    BY <1>3, RoutineFacts, NodeAssumption DEF Address
  <1>5. /\ position' = p + 1
        /\ DOMAIN addressMap' = {Address(p)} \cup DOMAIN addressMap \cup asked
        /\ \A a \in DOMAIN addressMap' : addressMap'[a] =
             IF a = Address(p) THEN block
             ELSE IF a \in DOMAIN addressMap THEN addressMap[a] ELSE a
    BY <1>2, <1>3 DEF Adds, Entered, Get_BasicBlock_At
  <1>6. \A i : Begins(i)' = Begins(i) /\ Address(i)' = Address(i)
    <2>1. routine' = routine
      BY <1>2 DEF Adds
    <2>2. \A i : branches(i)' = branches(i)
      BY <2>1 DEF branches
    <2>3. targets' = targets
      BY <2>1, <2>2 DEF targets
    <2> QED BY <2>2, <2>3 DEF Begins, Address
  <1>7. ASSUME NEW i \in 1 .. p - 1
        PROVE  /\ addressMap'[Address(i)] = addressMap[Address(i)]
               /\ addressMap[Address(i)] \in Node
    <2>1. Address(i) \in DOMAIN addressMap
      BY DEF EdgeInv
    <2>2. Address(i) # Address(p)
      BY <1>3, <1>4
    <2> QED BY <2>1, <2>2, <1>5 DEF IInv, GraphInv, HeapInv
  <1>8. addressMap'[Address(p)] =
          IF Begins(p) THEN Address(p) ELSE addressMap[Address(p - 1)]
    <2>1. addressMap'[Address(p)] = block
      BY <1>5
    <2>2. currentBlock = IF p > 2 /\ branches(p - 1) # {} THEN NULL
                         ELSE addressMap[Address(p - 1)]
      BY <1>3 DEF EdgeInv
    <2>3. addressMap[Address(p - 1)] # NULL
      BY <1>3, <1>4, <1>7
    <2>4. Starts(p) <=> Begins(p)
      BY <2>2, <2>3 DEF Starts, Begins
    <2> QED BY <2>1, <2>2, <2>4, <1>3 DEF Begins
  <1>9. ASSUME NEW b \in Node, startingAddress'[b] = b PROVE b > 0
    <2>1. startingAddress' = [startingAddress EXCEPT ![block] = block]
            /\ startingAddress \in [Node -> Int]
      BY <1>2 DEF Adds, IInv, GraphInv
    <2>2. CASE b # block
      BY <1>9, <2>1, <2>2 DEF Grouped
    <2>3. CASE b = block /\ Starts(p)
      BY <2>3, <1>3, <1>4
    <2>4. CASE b = block /\ ~Starts(p)
      BY <2>4, <1>3 DEF Grouped, Complete
    <2> QED BY <2>2, <2>3, <2>4
  <1>10. 1 \in 1 .. p - 1 /\ position' - 1 = p
    BY <1>3, <1>5
  <1>11. ASSUME NEW i \in 2 .. p
         PROVE  addressMap'[Address(i)] =
                  IF Begins(i) THEN Address(i) ELSE addressMap'[Address(i - 1)]
    <2>1. CASE i = p
      BY <2>1, <1>3, <1>7, <1>8
    <2>2. CASE i # p
      <3>1. i \in 2 .. p - 1 /\ i \in 1 .. p - 1 /\ i - 1 \in 1 .. p - 1
        BY <2>2, <1>3
      <3>2. addressMap[Address(i)] =
              IF Begins(i) THEN Address(i) ELSE addressMap[Address(i - 1)]
        BY <3>1 DEF Grouped
      <3> QED BY <3>1, <3>2, <1>7
    <2> QED BY <2>1, <2>2
  <1>12. addressMap'[Address(1)] = Address(1)
    BY <1>7, <1>10 DEF Grouped
  <1> HIDE DEF p
  <1> QED BY <1>6, <1>9, <1>10, <1>11, <1>12 DEF Grouped

(* The other steps leave the blocks alone.                                 *)
LEMMA GroupedStep == IInv /\ EdgeInv /\ Grouped /\ [Next]_vars => Grouped'
  <1> SUFFICES ASSUME IInv, EdgeInv, Grouped, [Next]_vars PROVE Grouped'
    OBVIOUS
  <1>1. CASE BuildBlock
    BY <1>1, GroupedBuild
  <1>2. CASE UNCHANGED building
    <2>1. \A i : branches(i)' = branches(i) /\ Address(i)' = Address(i)
      BY <1>2 DEF building, branches, Address
    <2>2. targets' = targets
      BY <1>2, <2>1 DEF building, targets
    <2>3. \A i : Begins(i)' = Begins(i)
      BY <2>1, <2>2 DEF Begins
    <2> QED BY <1>2, <2>1, <2>3 DEF building, Grouped
  <1> QED BY <1>1, <1>2 DEF Next, BuildTree, Finished, vars

(* Instructions of one block: only the last of them leads to other blocks. *)
LEMMA OneEnd ==
  ASSUME IInv, EdgeInv, Grouped, phase # "build",
         NEW i \in 1 .. Len(routine), NEW j \in 1 .. Len(routine), i < j,
         addressMap[Address(i)] = addressMap[Address(j)]
  PROVE  Led(i) = {}
  <1>1. /\ routine \in Routines /\ position = Len(routine) + 1
        /\ Len(routine) \in Nat /\ Base \in Nat
        /\ \A k \in Nat : Address(k) = Base + k
    BY RoutineAssumption DEF IInv, GraphInv, EdgeInv, Address
  <1> DEFINE m(k) == addressMap[Address(k)]
             Good(k) == /\ m(k) \in Int /\ m(k) <= Address(k)
                        /\ \A l \in 1 .. k - 1 : m(l) = m(k) => ~Begins(l + 1)
             T == {k \in 1 .. Len(routine) : ~Good(k)}
  <1>2. m(1) = Address(1)
          /\ \A k \in 2 .. Len(routine) : m(k) = IF Begins(k) THEN Address(k) ELSE m(k - 1)
    BY <1>1 DEF Grouped
  <1>3. /\ \A k \in Nat : Address(k) \in Int
        /\ \A k, l \in Nat : l < k => Address(l) < Address(k)
    <2>1. \A k \in Nat : Address(k) = Base + k
      BY <1>1
    <2>2. Base \in Nat
      BY <1>1
    <2>3. ASSUME NEW k \in Nat PROVE Address(k) \in Int
      BY <2>1, <2>2
    <2>4. ASSUME NEW k \in Nat, NEW l \in Nat, l < k PROVE Address(l) < Address(k)
      <3>1. Address(k) = Base + k /\ Address(l) = Base + l
        BY <2>1
      <3>2. Base + l < Base + k
        BY <2>2, <2>4
      <3> QED BY <3>1, <3>2
    <2> QED BY <2>3, <2>4
  <1>4. Good(1)
    <2>1. m(1) \in Int /\ m(1) <= Address(1)
      BY <1>2, <1>3
    <2> QED BY <2>1
  <1> HIDE DEF m
  <1>5. ASSUME NEW k \in 2 .. Len(routine), \A l \in 1 .. k - 1 : Good(l) PROVE Good(k)
    <2>1. k \in Nat /\ k - 1 \in 1 .. k - 1 /\ Good(k - 1)
            /\ Address(k - 1) < Address(k) /\ Address(k) \in Int /\ Address(k - 1) \in Int
      <3>1. k \in Nat /\ k - 1 \in Nat /\ k - 1 \in 1 .. k - 1 /\ k - 1 < k
        BY <1>1
      <3> HIDE DEF Good
      <3> QED BY <3>1, <1>3, <1>5
    <2>2. CASE Begins(k)
      <3>1. m(k) = Address(k)
        BY <1>2, <2>2
      <3>2. ASSUME NEW l \in 1 .. k - 1 PROVE m(l) # m(k)
        <4>1. m(l) \in Int /\ m(l) <= Address(l) /\ Address(l) < Address(k)
                /\ Address(l) \in Int
          <5>1. l \in Nat /\ l < k
            BY <2>1
          <5>2. Good(l)
            BY <1>5
          <5> QED BY <5>1, <5>2, <2>1, <1>3
        <4> QED BY <4>1, <3>1, <2>1
      <3> QED BY <3>1, <3>2, <2>1
    <2>3. CASE ~Begins(k)
      <3>1. m(k) = m(k - 1)
        BY <1>2, <2>3
      <3>2. ASSUME NEW l \in 1 .. k - 1, m(l) = m(k) PROVE ~Begins(l + 1)
        <4>1. CASE l = k - 1
          BY <4>1, <2>1, <2>3
        <4>2. CASE l # k - 1
          <5>1. l \in 1 .. (k - 1) - 1
            BY <4>2, <2>1
          <5> QED BY <5>1, <3>1, <3>2, <2>1
        <4> QED BY <4>1, <4>2
      <3> QED BY <3>1, <3>2, <2>1
    <2> QED BY <2>2, <2>3
  <1>6. T = {}
    <2> SUFFICES ASSUME T # {} PROVE FALSE
      OBVIOUS
    <2>1. T \subseteq Nat
      BY <1>1
    <2>2. PICK k \in T : \A y \in T : k <= y
      BY <2>1, Least
    <2>3. k \in 1 .. Len(routine) /\ ~Good(k) /\ k \in Nat
      BY <2>1
    <2>4. k # 1
      BY <2>3, <1>4
    <2>5. k \in 2 .. Len(routine)
      BY <2>3, <2>4, <1>1
    <2>6. ASSUME NEW l \in 1 .. k - 1 PROVE Good(l)
      <3>1. l \in 1 .. Len(routine) /\ ~(k <= l)
        BY <2>3, <1>1
      <3>2. l \notin T
        BY <3>1, <2>2
      <3> HIDE DEF Good
      <3> QED BY <3>1, <3>2
    <2> HIDE DEF Good
    <2> QED BY <2>3, <2>5, <2>6, <1>5
  <1>7. Good(j)
    BY <1>6
  <1>8. i \in 1 .. j - 1
    BY <1>1
  <1>9. ~Begins(i + 1)
    BY <1>7, <1>8 DEF m
  <1>10. i >= 2 => i + 1 > 2 /\ (i + 1) - 1 = i
    BY <1>1
  <1> QED BY <1>9, <1>10 DEF Led, Begins

(* A block leads to two others at most.                                    *)
LEMMA TwoSuccessors ==
  ASSUME IInv, EdgeInv, Grouped, phase # "build", NEW x \in Node
  PROVE  \E s, t : \A y \in Node : y > 0 /\ x \in predecessors[y] => y \in {s, t}
  <1>1. /\ routine \in Routines /\ position - 1 = Len(routine)
        /\ Len(routine) \in Nat
    BY RoutineAssumption DEF IInv, GraphInv, EdgeInv
  <1>2. ASSUME NEW y \in Node, y > 0, x \in predecessors[y]
        PROVE  \E i \in 1 .. Len(routine) : addressMap[Address(i)] = x /\ y \in Led(i)
    BY <1>1, <1>2 DEF EdgeInv
  <1>3. CASE ~\E i \in 1 .. Len(routine) : addressMap[Address(i)] = x /\ Led(i) # {}
    BY <1>2, <1>3
  <1>4. CASE \E i \in 1 .. Len(routine) : addressMap[Address(i)] = x /\ Led(i) # {}
    <2>1. PICK i \in 1 .. Len(routine) : addressMap[Address(i)] = x /\ Led(i) # {}
      BY <1>4
    <2>2. ASSUME NEW y \in Node, y > 0, x \in predecessors[y] PROVE y \in Led(i)
      <3>1. PICK j \in 1 .. Len(routine) : addressMap[Address(j)] = x /\ y \in Led(j)
        BY <1>2, <2>2
      <3>2. ~(i < j) /\ ~(j < i)
        BY <2>1, <3>1, OneEnd
      <3>3. i = j
        BY <3>2
      <3> QED BY <3>1, <3>3
    <2>3. \E s, t : Led(i) \subseteq {s, t}
      <3>1. CASE i >= 2 /\ branches(i) # {}
        <4>1. Led(i) = Goes(i, addressMap[Address(i)])
          BY <3>1 DEF Led
        <4>2. \/ Led(i) \subseteq {ReturnNode}
              \/ Led(i) \subseteq {routine[i].target, Address(i + 1)}
          BY <4>1 DEF Goes, Steps
        <4> QED BY <4>2
      <3>2. CASE ~(i >= 2 /\ branches(i) # {})
        <4>1. Led(i) \subseteq {Address(i + 1)}
          BY <3>2 DEF Led
        <4> QED BY <4>1
      <3> QED BY <3>1, <3>2
    <2> QED BY <2>2, <2>3
  <1> QED BY <1>3, <1>4
-----------------------------------------------------------------------------
(* The blocks whose turn came, and those of them from which a block has    *)
(* been met.                                                               *)
Visited == InTree \ Range(blockQueue)
Met(p) ==
  {y \in Visited : p \in predecessors[y] /\ ~(y = currentBlock /\ p \in edgeTargets)}
Twice(p) == \E y, z \in Met(p) : y # z

(* A block has its first parent as long as it was met from that one only.  *)
(* A NULL is looked up only for a block that moves, so met twice.          *)
SearchInv ==
  /\ nullKeys \in [Node -> SUBSET Node]
  /\ \A i, j \in DOMAIN blockQueue : blockQueue[i] = blockQueue[j] => i = j
  /\ phase = "build" => \A x \in Node : nullKeys[x] = {}
  /\ phase = "done" => blockQueue = << >> /\ edgeTargets = {}
  /\ phase # "build" =>
       /\ currentBlock \in Visited
       /\ \A p \in Node \ Placed : Met(p) = {}
       /\ \A p \in Placed : Met(p) = {PostDominator[p]} \/ Twice(p)
       /\ \A x \in Node : \A p \in nullKeys[x] : p \in Placed /\ Twice(p)

(* Before the search nothing is met.                                       *)
LEMMA SearchInit == Init => SearchInv
  BY DEF Init, InitTree, SearchInv

(* The search starts at the return node.                                   *)
LEMMA SearchStart ==
  ASSUME IInv, SearchInv, BuildTree
  PROVE  SearchInv'
  <1>1. /\ phase = "build" /\ phase' = "tree" /\ currentBlock' = ReturnNode
        /\ edgeTargets' = predecessors[ReturnNode]
        /\ UNCHANGED <<blockQueue, PostDominator, nullKeys, predecessors>>
    BY DEF BuildTree, StartTree, maps, graph
  <1>2. Placed = {} /\ Placed' = {} /\ InTree' = {ReturnNode} /\ blockQueue \in Seq({})
    BY <1>1 DEF IInv, TreeInv, Placed, InTree
  <1>3. Visited' = {ReturnNode}
    BY <1>1, <1>2 DEF Visited, Range
  <1>4. \A p \in Node : Met(p)' = {}
    BY <1>1, <1>3 DEF Met
  <1> QED BY <1>1, <1>2, <1>3, <1>4 DEF SearchInv

(* The next block of the queue becomes the current one.                    *)
LEMMA SearchNext ==
  ASSUME IInv, SearchInv, NextBlock
  PROVE  SearchInv' /\ Placed' = Placed /\ \A p : Met(p)' = Met(p)
  <1>1. /\ phase = "tree" /\ edgeTargets = {} /\ blockQueue # << >>
        /\ currentBlock' = Head(blockQueue) /\ blockQueue' = Tail(blockQueue)
        /\ edgeTargets' = predecessors[Head(blockQueue)]
        /\ UNCHANGED <<phase, predecessors, PostDominator, nullKeys>>
    BY DEF NextBlock, maps, graph
  <1>2. Placed' = Placed /\ InTree' = InTree /\ blockQueue \in Seq(Placed)
    BY <1>1 DEF IInv, TreeInv, Placed, InTree
  <1> DEFINE h == Head(blockQueue)
  <1>3. /\ Len(blockQueue) \in Nat /\ Len(blockQueue) > 0 /\ h = blockQueue[1] /\ h \in Placed
        /\ DOMAIN blockQueue = 1 .. Len(blockQueue)
        /\ DOMAIN blockQueue' = 1 .. Len(blockQueue) - 1
        /\ \A i \in DOMAIN blockQueue' : blockQueue'[i] = blockQueue[i + 1]
    BY <1>1, <1>2
  <1>4. \A i, j \in DOMAIN blockQueue : blockQueue[i] = blockQueue[j] => i = j
    BY DEF SearchInv
  <1>5. \A i, j \in DOMAIN blockQueue' : blockQueue'[i] = blockQueue'[j] => i = j
    <2> SUFFICES ASSUME NEW i \in DOMAIN blockQueue', NEW j \in DOMAIN blockQueue',
                        blockQueue'[i] = blockQueue'[j]
                 PROVE  i = j
      OBVIOUS
    <2>1. i \in Nat /\ j \in Nat /\ i + 1 \in DOMAIN blockQueue /\ j + 1 \in DOMAIN blockQueue
      BY <1>3
    <2>2. i + 1 = j + 1
      BY <2>1, <1>3, <1>4
    <2> QED BY <2>1, <2>2
  <1>6. Range(blockQueue)' = Range(blockQueue) \ {h} /\ h \in Range(blockQueue)
    <2>1. ASSUME NEW i \in DOMAIN blockQueue'
          PROVE  blockQueue'[i] \in Range(blockQueue) \ {h}
      <3>1. i + 1 \in DOMAIN blockQueue /\ 1 \in DOMAIN blockQueue /\ i + 1 # 1
        BY <1>3
      <3> QED BY <3>1, <1>3, <1>4 DEF Range
    <2>2. ASSUME NEW i \in DOMAIN blockQueue, blockQueue[i] # h
          PROVE  \E k \in DOMAIN blockQueue' : blockQueue'[k] = blockQueue[i]
      <3>1. i # 1
        BY <2>2, <1>3
      <3>2. i - 1 \in DOMAIN blockQueue' /\ (i - 1) + 1 = i
        BY <3>1, <1>3
      <3> QED BY <3>2, <1>3
    <2>3. 1 \in DOMAIN blockQueue
      BY <1>3
    <2> QED BY <2>1, <2>2, <2>3, <1>3 DEF Range
  <1> HIDE DEF h
  <1>7. Visited' = Visited \cup {h} /\ h \notin Visited
    BY <1>2, <1>3, <1>6 DEF Visited, InTree
  <1>8. currentBlock' = h /\ edgeTargets' = predecessors'[h]
    BY <1>1 DEF h
  <1>9. ASSUME NEW p PROVE Met(p)' = Met(p)
    BY <1>1, <1>7, <1>8 DEF Met
  <1>10. \A p : Twice(p)' = Twice(p)
    BY <1>9 DEF Twice
  <1>11. currentBlock' \in Visited'
    BY <1>7, <1>8
  <1> QED BY <1>1, <1>2, <1>5, <1>9, <1>10, <1>11 DEF SearchInv

(* A predecessor p of the current block has been met from that one, too,   *)
(* and no other block has been met.                                        *)
LEMMA MetAdds ==
  ASSUME IInv, SearchInv, phase = "tree", NEW p \in edgeTargets, p \in Node,
         edgeTargets' = edgeTargets \ {p}, UNCHANGED <<predecessors, currentBlock>>,
         Visited' = Visited
  PROVE  /\ Met(p)' = Met(p) \cup {currentBlock} /\ currentBlock \notin Met(p)
         /\ \A r : r # p => Met(r)' = Met(r)
  <1>1. currentBlock \in Visited /\ p \in predecessors[currentBlock]
    BY DEF SearchInv, IInv, TreeInv
  <1> QED BY <1>1 DEF Met

(* A block that is met for the first time is placed and queued.            *)
LEMMA SearchFirst ==
  ASSUME IInv, SearchInv, phase = "tree", phase' = "tree",
         NEW p \in edgeTargets, p \in Node \ Placed, Complete(p),
         edgeTargets' = edgeTargets \ {p},
         UNCHANGED <<predecessors, currentBlock>>,
         blockQueue' = Append(blockQueue, p), FirstParent(currentBlock, p)
  PROVE  /\ SearchInv'
         /\ \A r : r # p => Met(r)' = Met(r)
  <1>1. currentBlock \in InTree /\ blockQueue \in Seq(Placed) /\ p \notin InTree
    BY DEF IInv, TreeInv, Complete, InTree
  <1>2. Placed' = Placed \cup {p} /\ InTree' = InTree \cup {p}
    BY <1>1, FirstParentTree DEF InTree
  <1>3. /\ Len(blockQueue) \in Nat /\ DOMAIN blockQueue = 1 .. Len(blockQueue)
        /\ DOMAIN blockQueue' = 1 .. Len(blockQueue) + 1
        /\ \A i \in DOMAIN blockQueue : blockQueue'[i] = blockQueue[i] /\ blockQueue[i] \in Placed
        /\ blockQueue'[Len(blockQueue) + 1] = p
    BY <1>1
  <1>4. \A i, j \in DOMAIN blockQueue' : blockQueue'[i] = blockQueue'[j] => i = j
    <2> SUFFICES ASSUME NEW i \in DOMAIN blockQueue', NEW j \in DOMAIN blockQueue',
                        blockQueue'[i] = blockQueue'[j]
                 PROVE  i = j
      OBVIOUS
    <2>1. \A k \in DOMAIN blockQueue' : k \in DOMAIN blockQueue \/ k = Len(blockQueue) + 1
      BY <1>3
    <2>2. p \notin Placed
      OBVIOUS
    <2> QED BY <2>1, <2>2, <1>3 DEF SearchInv
  <1>5. Range(blockQueue)' = Range(blockQueue) \cup {p}
    <2>1. \A k \in DOMAIN blockQueue' : k \in DOMAIN blockQueue \/ k = Len(blockQueue) + 1
      BY <1>3
    <2>2. \A k \in DOMAIN blockQueue : k \in DOMAIN blockQueue'
      BY <1>3
    <2>3. Len(blockQueue) + 1 \in DOMAIN blockQueue'
      BY <1>3
    <2> QED BY <2>1, <2>2, <2>3, <1>3 DEF Range
  <1>6. Visited' = Visited
    BY <1>1, <1>2, <1>5 DEF Visited
  <1>7. /\ Met(p)' = Met(p) \cup {currentBlock}
        /\ \A r : r # p => Met(r)' = Met(r)
    BY <1>6, MetAdds
  <1>8. /\ PostDominator' = [PostDominator EXCEPT ![p] = currentBlock]
        /\ PostDominator \in [Node -> DOMAIN heap \cup {NULL}]
    BY DEF FirstParent, IInv, TreeInv
  <1>9. nullKeys' \in [Node -> SUBSET Node] /\ \A x \in Node : nullKeys'[x] \subseteq nullKeys[x]
    BY DEF FirstParent, SearchInv
  <1>10. Met(p)' = {PostDominator'[p]}
    BY <1>7, <1>8 DEF SearchInv
  <1>11. \A r : r # p => Twice(r)' = Twice(r)
    BY <1>7 DEF Twice
  <1>12. \A r \in Placed' : Met(r)' = {PostDominator'[r]} \/ Twice(r)'
    <2> SUFFICES ASSUME NEW r \in Placed, r # p
                 PROVE  Met(r)' = {PostDominator'[r]} \/ Twice(r)'
      BY <1>2, <1>10
    <2>1. PostDominator'[r] = PostDominator[r]
      BY <1>8 DEF Placed
    <2> QED BY <2>1, <1>7, <1>11 DEF SearchInv
  <1>13. \A x \in Node : \A r \in nullKeys'[x] : r \in Placed' /\ Twice(r)'
    <2> SUFFICES ASSUME NEW x \in Node, NEW r \in nullKeys'[x]
                 PROVE  r \in Placed' /\ Twice(r)'
      OBVIOUS
    <2>1. r \in Placed /\ Twice(r)
      BY <1>9 DEF SearchInv
    <2> QED BY <2>1, <1>2, <1>11
  <1>14. \A r \in Node \ Placed' : Met(r)' = {}
    BY <1>2, <1>7 DEF SearchInv
  <1>15. currentBlock' \in Visited'
    BY <1>6 DEF SearchInv
  <1> QED BY <1>4, <1>7, <1>9, <1>12, <1>13, <1>14, <1>15 DEF SearchInv

(* A block that moves is met a second time.                                *)
LEMMA SearchMove ==
  ASSUME IInv, SearchInv, phase = "tree", phase' = "tree",
         NEW p \in edgeTargets, p \in Placed, p \in Node,
         edgeTargets' = edgeTargets \ {p},
         UNCHANGED <<predecessors, currentBlock, blockQueue>>,
         MoveUp(currentBlock, p)
  PROVE  /\ SearchInv' /\ Twice(p)'
         /\ \A r : r # p => Met(r)' = Met(r)
  <1>1. currentBlock \in InTree
    BY DEF IInv, TreeInv
  <1>2. Placed' = Placed /\ InTree' = InTree /\ Visited' = Visited
    BY <1>1, MoveUpTree DEF InTree, Visited
  <1>3. /\ Met(p)' = Met(p) \cup {currentBlock} /\ currentBlock \notin Met(p)
        /\ \A r : r # p => Met(r)' = Met(r)
    BY <1>2, MetAdds
  <1>4. Twice(p)'
    <2>1. \E y : y \in Met(p)
      BY DEF SearchInv, Twice
    <2> QED BY <2>1, <1>3 DEF Twice
  <1>5. \A r : Twice(r) => Twice(r)'
    BY <1>3 DEF Twice
  <1>6. \A r \in Node : r # p => PostDominator'[r] = PostDominator[r]
    <2>1. PostDominator \in [Node -> DOMAIN heap \cup {NULL}]
      BY DEF IInv, TreeInv
    <2> QED BY <2>1 DEF MoveUp
  <1>7. \A r \in Placed' : Met(r)' = {PostDominator'[r]} \/ Twice(r)'
    <2> SUFFICES ASSUME NEW r \in Placed, r # p
                 PROVE  Met(r)' = {PostDominator'[r]} \/ Twice(r)'
      BY <1>2, <1>4
    <2>1. r \in Node
      BY DEF Placed
    <2> QED BY <2>1, <1>3, <1>5, <1>6 DEF SearchInv
  <1>8. /\ nullKeys' \in [Node -> SUBSET Node]
        /\ \A x \in Node : nullKeys'[x] \subseteq nullKeys[x] \cup {p}
    <2>1. nullKeys \in [Node -> SUBSET Node] /\ p \in Node
      BY DEF SearchInv
    <2> QED BY <2>1 DEF MoveUp
  <1>9. \A x \in Node : \A r \in nullKeys'[x] : r \in Placed' /\ Twice(r)'
    <2> SUFFICES ASSUME NEW x \in Node, NEW r \in nullKeys'[x]
                 PROVE  r \in Placed' /\ Twice(r)'
      OBVIOUS
    <2>1. r = p \/ (r \in Placed /\ Twice(r))
      BY <1>8 DEF SearchInv
    <2> QED BY <2>1, <1>2, <1>4, <1>5
  <1>10. \A r \in Node \ Placed' : Met(r)' = {}
    BY <1>2, <1>3 DEF SearchInv
  <1>11. currentBlock' \in Visited'
    BY <1>2 DEF SearchInv
  <1> QED BY <1>3, <1>4, <1>7, <1>8, <1>9, <1>10, <1>11 DEF SearchInv
-----------------------------------------------------------------------------
(* A block met once is in the maps of exactly its ancestors: the walks     *)
(* that look it up stop at the nearest common one.                         *)
MapsExact ==
  \A z \in Placed : ~Twice(z) =>
    \A x \in Node :
      z \in postDominated[x] <=> x \in Ancestors(PostDominator, z) \ {z}

(* A block has a path to the return node around each block that is no      *)
(* ancestor of it.                                                         *)
PathsAround ==
  \A b \in InTree : \A x \in Node \ Ancestors(PostDominator, b) :
    b \in Reaching(predecessors, x)

(* So has a block below one that has a path around an ancestor of both.    *)
PathsPassDown ==
  \A d \in InTree : \A b \in Ancestors(PostDominator, d) :
    \A x \in Ancestors(PostDominator, b) \ {b} :
      b \in Reaching(predecessors, x) => d \in Reaching(predecessors, x)

KeepInv == MapsExact /\ PathsAround /\ PathsPassDown

(* The root alone.                                                         *)
LEMMA KeepEmpty == IInv /\ Placed = {} => KeepInv
  <1> SUFFICES ASSUME IInv, Placed = {} PROVE KeepInv
    OBVIOUS
  <1>1. /\ Rooted(PostDominator) /\ InTree = {ReturnNode}
        /\ Grown(PostDominator) = InTree
    BY TreeIsRooted DEF InTree
  <1>2. Ancestors(PostDominator, ReturnNode) = {ReturnNode}
    BY <1>1, AncestorsStep
  <1>3. predecessors \in [Node -> SUBSET Node]
    BY DEF IInv, GraphInv, HeapInv
  <1> QED BY <1>1, <1>2, <1>3, ReachingStep DEF KeepInv, MapsExact, PathsAround, PathsPassDown

(* A first parent.                                                         *)
LEMMA KeepFirst ==
  ASSUME IInv, IInv', SearchInv, KeepInv, Rooted(PostDominator'),
         NEW p \in Node \ Placed, Complete(p),
         currentBlock \in InTree, p \in predecessors[currentBlock],
         \A r : r # p => Met(r)' = Met(r),
         UNCHANGED predecessors, FirstParent(currentBlock, p)
  PROVE  KeepInv'
  <1> DEFINE b == currentBlock
             P == PostDominator
             Q == PostDominator'
             E == predecessors
  <1>1. /\ Rooted(P) /\ Grown(P) = InTree /\ Chain(b) = Ancestors(P, b)
        /\ p \notin InTree /\ E \in [Node -> SUBSET Node]
    <2>1. E \in [Node -> SUBSET Node]
      BY DEF IInv, GraphInv, HeapInv
    <2> QED BY <2>1, TreeIsRooted, ChainIsAncestors DEF InTree, Complete
  <1>2. /\ Placed' = Placed \cup {p} /\ InTree' = InTree \cup {p}
        /\ InTree \subseteq Node /\ Placed \subseteq Node
    BY FirstParentTree, TreeFacts DEF InTree, IInv
  <1>3. Q = Reparented(P, p, b)
    BY DEF FirstParent, Reparented
  <1>4. /\ \A d \in InTree : Ancestors(Q, d) = Ancestors(P, d)
        /\ Ancestors(Q, p) = {p} \cup Ancestors(P, b)
        /\ p \notin Ancestors(P, b)
    <2>1. p \in Node \ Grown(P) /\ b \in Grown(P) /\ Rooted(P) /\ Rooted(Q)
      BY <1>1
    <2> HIDE DEF P, Q, b
    <2>2. /\ \A d \in Grown(P) : Ancestors(Q, d) = Ancestors(P, d)
          /\ Ancestors(Q, p) = {p} \cup Ancestors(P, b)
          /\ p \notin Ancestors(P, b)
      BY <2>1, <1>3, FirstAncestors
    <2> QED BY <2>2, <1>1
  <1>5. \A d \in InTree : Ancestors(P, d) \subseteq InTree
    BY <1>1, AncestorsClimb
  <1>6. MapsExact'
    <2> SUFFICES ASSUME NEW z \in Placed', ~Twice(z)', NEW x \in Node
                 PROVE  z \in postDominated'[x] <=> x \in Ancestors(Q, z) \ {z}
      BY DEF MapsExact
    <2>1. postDominated'[x] =
            IF x \in Ancestors(P, b) THEN postDominated[x] \cup {p} ELSE postDominated[x]
      BY <1>1 DEF FirstParent
    <2>2. CASE z = p
      <3>1. p \notin postDominated[x]
        BY DEF IInv, TreeInv, Ranked
      <3> QED BY <2>1, <2>2, <3>1, <1>4
    <2>3. CASE z # p
      <3>1. z \in Placed /\ z \in InTree /\ ~Twice(z)
        BY <2>3, <1>2 DEF Twice, InTree
      <3> QED BY <2>1, <2>3, <3>1, <1>4 DEF KeepInv, MapsExact
    <2> QED BY <2>2, <2>3
  <1>7. PathsAround'
    <2> SUFFICES ASSUME NEW d \in InTree', NEW x \in Node \ Ancestors(Q, d)
                 PROVE  d \in Reaching(E, x)
      BY DEF PathsAround
    <2>1. CASE d \in InTree
      BY <2>1, <1>4 DEF KeepInv, PathsAround
    <2>2. CASE d = p
      <3>1. b \in Reaching(E, x) /\ x # p
        BY <2>2, <1>4 DEF KeepInv, PathsAround
      <3> QED BY <2>2, <3>1, <1>1, ReachingStep
    <2> QED BY <2>1, <2>2, <1>2
  <1>8. PathsPassDown'
    <2> SUFFICES ASSUME NEW d \in InTree', NEW c \in Ancestors(Q, d),
                        NEW x \in Ancestors(Q, c) \ {c}, c \in Reaching(E, x)
                 PROVE  d \in Reaching(E, x)
      BY DEF PathsPassDown
    <2>1. CASE d \in InTree
      <3>1. c \in Ancestors(P, d) /\ c \in InTree
        BY <2>1, <1>4, <1>5
      <3> QED BY <2>1, <3>1, <1>4 DEF KeepInv, PathsPassDown
    <2>2. CASE d = p /\ c \in Ancestors(P, b)
      <3>1. c \in InTree /\ x \in Ancestors(P, c) \ {c}
        BY <2>2, <1>4, <1>5
      <3>2. b \in Reaching(E, x)
        BY <2>2, <3>1 DEF KeepInv, PathsPassDown
      <3>3. x # p
        BY <3>1, <1>1, <1>5
      <3> QED BY <2>2, <3>2, <3>3, <1>1, ReachingStep
    <2>3. CASE d = p /\ c = p
      BY <2>3
    <2> QED BY <2>1, <2>2, <2>3, <1>2, <1>4
  <1> QED BY <1>6, <1>7, <1>8 DEF KeepInv

(* A block moves: this is its second successor, and there is no third.     *)
LEMMA KeepMove ==
  ASSUME IInv, IInv', SearchInv, KeepInv, Rooted(PostDominator'),
         NEW p \in Placed, p \in Node, ~Twice(p), Twice(p)',
         currentBlock \in InTree, p \in predecessors[currentBlock],
         \A r : r # p => Met(r)' = Met(r),
         UNCHANGED predecessors, MoveUp(currentBlock, p)
  PROVE  KeepInv'
  <1> DEFINE b == currentBlock
             P == PostDominator
             Q == PostDominator'
             E == predecessors
             A(d) == Ancestors(P, d)
             last == getCommonPostDominator(b, p)
             passed == A(P[p]) \ A(last)
  <1>1. /\ Rooted(P) /\ Grown(P) = InTree
        /\ p \in InTree /\ p # ReturnNode /\ E \in [Node -> SUBSET Node]
        /\ p \in A(p)
    <2>1. E \in [Node -> SUBSET Node]
      BY DEF IInv, GraphInv, HeapInv
    <2>2. p \in InTree /\ p # ReturnNode
      BY TreeFacts DEF IInv, InTree
    <2>3. Rooted(P) /\ Grown(P) = InTree
      BY TreeIsRooted
    <2> QED BY <2>1, <2>2, <2>3, AncestorsClimb
  <1>2. Placed' = Placed /\ InTree' = InTree /\ InTree \subseteq Node
    BY MoveUpTree, TreeFacts DEF InTree, IInv
  <1>3. /\ last \in A(b) /\ (last = ReturnNode \/ p \in postDominated[last])
        /\ \A x \in A(b) \ A(last) : x # ReturnNode /\ p \notin postDominated[x]
    BY CommonIsNearest
  <1> HIDE DEF last
  <1>4. last \in A(p) \ {p} /\ last \in Node
    <2>1. last \in Node
      BY <1>3 DEF Ancestors
    <2>2. ReturnNode \in A(p)
      BY <1>1, RootAbove
    <2> QED BY <2>1, <2>2, <1>1, <1>3 DEF KeepInv, MapsExact
  <1>5. Q = Reparented(P, p, last)
    BY DEF MoveUp, last, Reparented
  <1>6. /\ \A d \in InTree : p \notin A(d) => Ancestors(Q, d) = A(d)
        /\ \A d \in InTree : p \in A(d) => Ancestors(Q, d) = A(d) \ passed
        /\ p \notin A(P[p]) /\ last \in A(P[p]) /\ P[p] \in InTree
    <2>1. /\ p \in Grown(P) \ {ReturnNode} /\ last \in A(p) \ {p}
          /\ Rooted(P) /\ Rooted(Q)
      BY <1>1, <1>4
    <2> HIDE DEF P, Q
    <2>2. /\ \A d \in Grown(P) : p \notin A(d) => Ancestors(Q, d) = A(d)
          /\ \A d \in Grown(P) : p \in A(d) => Ancestors(Q, d) = A(d) \ passed
          /\ p \notin A(P[p]) /\ last \in A(P[p]) /\ P[p] \in Grown(P)
      BY <2>1, <1>5, MovedAncestors
    <2> QED BY <2>2, <1>1
  <1>7. A(p) = {p} \cup A(P[p])
    BY <1>1, AncestorsStep
  <1>8. Below(P[p], last) = passed
    BY <1>6, BelowIsPassed
  <1>9. \A d \in InTree : Ancestors(Q, d) \subseteq A(d)
    BY <1>6
  <1>10. MapsExact'
    <2> SUFFICES ASSUME NEW z \in Placed', ~Twice(z)', NEW x \in Node
                 PROVE  z \in postDominated'[x] <=> x \in Ancestors(Q, z) \ {z}
      BY DEF MapsExact
    <2>1. z \in Placed /\ z # p /\ ~Twice(z) /\ z \in InTree
      BY <1>2 DEF Twice, InTree
    <2>2. \A y \in Node : z \notin nullKeys[y]
      BY <2>1 DEF SearchInv, IInv, TreeInv, Twice
    <2>3. \A y \in Node : z \in postDominated[y] <=> y \in A(z) \ {z}
      BY <2>1 DEF KeepInv, MapsExact
    <2>4. PICK nulls : nulls = [y \in Node |->
              IF y \in Missed(b, p) THEN nullKeys[y] \cup {p} ELSE nullKeys[y]]
      OBVIOUS
    <2>5. postDominated'[x] =
            IF x \in passed THEN postDominated[x] \ ({p} \cup postDominated[p] \cup nulls[p])
            ELSE postDominated[x]
      BY <2>4, <1>8 DEF MoveUp, last
    <2>6. z \notin nulls[p]
      BY <2>1, <2>2, <2>4
    <2>7. z \in postDominated[p] <=> p \in A(z)
      BY <2>1, <2>3
    <2>8. z \in postDominated'[x] <=> x \in A(z) \ {z} /\ ~(x \in passed /\ p \in A(z))
      BY <2>1, <2>3, <2>5, <2>6, <2>7
    <2> QED BY <2>1, <2>8, <1>6
  (* the ancestors p loses do not postdominate it *)
  <1>11. ASSUME NEW x \in Node \ Ancestors(Q, p) PROVE p \in Reaching(E, x)
    <2>1. x # p
      BY <1>1, <1>6
    <2>2. CASE x \notin A(b)
      <3>1. b \in Reaching(E, x)
        BY <2>2 DEF KeepInv, PathsAround
      <3> QED BY <2>1, <3>1, <1>1, ReachingStep
    <2>3. CASE x \in A(b) /\ x \notin A(last)
      <3>1. p \notin postDominated[x]
        BY <2>3, <1>3
      <3>2. x \notin A(p)
        BY <2>1, <3>1 DEF KeepInv, MapsExact
      <3> QED BY <3>2, <1>1 DEF KeepInv, PathsAround
    <2>4. CASE x \in A(last)
      <3>1. A(last) \subseteq A(p)
        BY <1>1, <1>4, AncestorsNest
      <3> QED BY <2>4, <3>1, <1>1, <1>6
    <2> QED BY <2>2, <2>3, <2>4
  <1>12. PathsAround'
    <2> SUFFICES ASSUME NEW d \in InTree, NEW x \in Node \ Ancestors(Q, d)
                 PROVE  d \in Reaching(E, x)
      BY <1>2 DEF PathsAround
    <2>1. CASE x \notin A(d)
      BY <2>1 DEF KeepInv, PathsAround
    <2>2. CASE x \in A(d)
      <3>1. p \in A(d) /\ x \in passed
        BY <2>2, <1>6
      <3>2. x \in A(p) \ {p} /\ x \notin Ancestors(Q, p)
        BY <3>1, <1>1, <1>6, <1>7
      <3>3. p \in Reaching(E, x)
        BY <3>2, <1>11
      <3> QED BY <3>1, <3>2, <3>3 DEF KeepInv, PathsPassDown
    <2> QED BY <2>1, <2>2
  <1>13. PathsPassDown'
    <2> SUFFICES ASSUME NEW d \in InTree, NEW c \in Ancestors(Q, d),
                        NEW x \in Ancestors(Q, c) \ {c}, c \in Reaching(E, x)
                 PROVE  d \in Reaching(E, x)
      BY <1>2 DEF PathsPassDown
    <2>1. c \in A(d) /\ c \in InTree
      BY <1>1, <1>9, AncestorsClimb
    <2>2. x \in A(c) \ {c}
      BY <2>1, <1>9
    <2> QED BY <2>1, <2>2 DEF KeepInv, PathsPassDown
  <1> QED BY <1>10, <1>12, <1>13 DEF KeepInv
-----------------------------------------------------------------------------
(* The tree is one after a step, too.                                      *)
LEMMA RootedNext == IInv' => Rooted(PostDominator)'
  BY TreeIsRooted, PTL

(* The same of the root alone.                                             *)
LEMMA KeepEmptyNext == IInv' /\ (Placed = {})' => KeepInv'
  BY KeepEmpty, PTL

(* A block that moves has been met from its parent only.                   *)
LEMMA MetOnce ==
  ASSUME IInv, EdgeInv, Grouped, SearchInv, phase = "tree", NEW p \in edgeTargets
  PROVE  ~Twice(p)
  <1>1. /\ currentBlock \in Visited /\ currentBlock \in InTree
        /\ edgeTargets \subseteq predecessors[currentBlock]
    BY DEF SearchInv, IInv, TreeInv
  <1>2. ASSUME NEW y \in Visited PROVE y \in Node /\ y > 0
    <2>1. y \in InTree
      BY DEF Visited
    <2>2. y \in Node
      BY <2>1, TreeFacts DEF IInv
    <2>3. CASE y \in Placed
      BY <2>2, <2>3 DEF IInv, TreeInv, Complete, Grouped
    <2>4. CASE y = ReturnNode
      BY <2>4, <2>2 DEF ReturnNode
    <2> QED BY <2>1, <2>2, <2>3, <2>4 DEF InTree
  <1>3. p \in Node
    BY <1>1, <1>2 DEF IInv, GraphInv, HeapInv
  <1>4. PICK s, t : \A y \in Node : y > 0 /\ p \in predecessors[y] => y \in {s, t}
    BY <1>3, TwoSuccessors
  <1>5. currentBlock \notin Met(p) /\ currentBlock \in {s, t}
    BY <1>1, <1>2, <1>4 DEF Met
  <1>6. \A y \in Met(p) : y \in {s, t} \ {currentBlock}
    BY <1>2, <1>4, <1>5 DEF Met
  <1> QED BY <1>5, <1>6 DEF Twice

(* Adding a predecessor.                                                   *)
LEMMA KeepAdd ==
  ASSUME IInv, IInv', EdgeInv, Grouped, SearchInv, KeepInv, AddPredecessor
  PROVE  SearchInv' /\ KeepInv'
  <1>1. PICK p \in edgeTargets :
           /\ edgeTargets' = edgeTargets \ {p} /\ Complete(p) /\ p \in Node
           /\ UNCHANGED <<phase, heap, layout, predecessors, currentBlock>>
           /\ \/ /\ p \notin Placed
                 /\ blockQueue' = Append(blockQueue, p)
                 /\ FirstParent(currentBlock, p)
              \/ /\ p \in Placed
                 /\ blockQueue' = blockQueue
                 /\ MoveUp(currentBlock, p)
    BY AddCases
  <1>2. /\ phase = "tree" /\ phase' = "tree" /\ UNCHANGED <<predecessors, currentBlock>>
        /\ currentBlock \in InTree /\ p \in predecessors[currentBlock]
    BY <1>1 DEF AddPredecessor, IInv, TreeInv
  <1>3. Rooted(PostDominator')
    BY RootedNext
  <1>4. CASE p \notin Placed
    <2>1. SearchInv' /\ \A r : r # p => Met(r)' = Met(r)
      BY <1>1, <1>2, <1>4, SearchFirst
    <2> QED BY <2>1, <1>1, <1>2, <1>3, <1>4, KeepFirst
  <1>5. CASE p \in Placed
    <2>1. UNCHANGED blockQueue /\ MoveUp(currentBlock, p)
      BY <1>1, <1>5
    <2>2. SearchInv' /\ Twice(p)' /\ \A r : r # p => Met(r)' = Met(r)
      BY <2>1, <1>1, <1>2, <1>5, SearchMove
    <2>3. ~Twice(p)
      BY <1>2, MetOnce
    <2> QED BY <2>1, <2>2, <2>3, <1>1, <1>2, <1>3, <1>5, KeepMove
  <1> QED BY <1>4, <1>5

(* Every step preserves what the search and the tree keep.                 *)
LEMMA KeepStep ==
  IInv /\ IInv' /\ EdgeInv /\ Grouped /\ SearchInv /\ KeepInv /\ [Next]_vars
    => SearchInv' /\ KeepInv'
  <1> SUFFICES ASSUME IInv, IInv', EdgeInv, Grouped, SearchInv, KeepInv, [Next]_vars
               PROVE  SearchInv' /\ KeepInv'
    OBVIOUS
  <1>1. CASE BuildBlock
    <2>1. phase = "build" /\ phase' = "build" /\ UNCHANGED <<blockQueue, nullKeys>>
      BY <1>1 DEF BuildBlock, tree, maps
    <2>2. SearchInv'
      BY <2>1 DEF SearchInv
    <2>3. Placed' = {}
      BY <2>1 DEF IInv, TreeInv
    <2> QED BY <2>2, <2>3, KeepEmptyNext
  <1>2. CASE BuildTree
    <2>1. phase = "build" /\ UNCHANGED PostDominator
      BY <1>2 DEF BuildTree, StartTree, maps
    <2>2. Placed' = {}
      BY <2>1 DEF IInv, TreeInv, Placed
    <2> QED BY <1>2, <2>2, SearchStart, KeepEmptyNext
  <1>3. CASE AddPredecessor
    BY <1>3, KeepAdd
  <1>4. ASSUME UNCHANGED <<predecessors, PostDominator, postDominated>>,
               \A p : Met(p)' = Met(p)
        PROVE  KeepInv'
    <2>1. Placed' = Placed /\ InTree' = InTree
      BY <1>4 DEF Placed, InTree
    <2>2. \A p : Twice(p)' = Twice(p)
      BY <1>4 DEF Twice
    <2> QED BY <1>4, <2>1, <2>2 DEF KeepInv, MapsExact, PathsAround, PathsPassDown
  <1>5. CASE NextBlock
    <2>1. UNCHANGED <<predecessors, PostDominator, postDominated>>
      BY <1>5 DEF NextBlock, graph, maps
    <2> QED BY <1>4, <1>5, <2>1, SearchNext
  <1>6. ASSUME UNCHANGED <<predecessors, PostDominator, postDominated, nullKeys,
                           currentBlock, edgeTargets, blockQueue>>,
               \/ UNCHANGED phase
               \/ phase = "tree" /\ phase' = "done" /\ blockQueue = << >> /\ edgeTargets = {}
        PROVE  SearchInv' /\ KeepInv'
    <2>1. Placed' = Placed /\ Visited' = Visited
      BY <1>6 DEF Placed, InTree, Visited
    <2>2. \A p : Met(p)' = Met(p)
      BY <1>6, <2>1 DEF Met
    <2>3. \A p : Twice(p)' = Twice(p)
      BY <2>2 DEF Twice
    <2>4. SearchInv'
      BY <1>6, <2>1, <2>2, <2>3 DEF SearchInv
    <2> QED BY <1>4, <1>6, <2>2, <2>4
  <1>7. CASE EndTree
    BY <1>6, <1>7 DEF EndTree, graph, tree, maps
  <1>8. CASE UNCHANGED vars
    BY <1>6, <1>8 DEF vars, graph, tree, maps
  <1> QED BY <1>1, <1>2, <1>3, <1>5, <1>7, <1>8 DEF Next, TreeStep, Finished

(* The blocks that really postdominate a block stay among its ancestors,   *)
(* whatever the shape of the routine and the order of the heap; and when   *)
(* the search is over, every block that can return is in the tree.         *)
THEOREM PostDominatorsStay == Spec => []PostDominatorsKept
  <1>1. ASSUME IInv, SearchInv, KeepInv PROVE PostDominatorsKept
    <2> SUFFICES ASSUME NEW b \in Node \ {ReturnNode},
                        PostDominator[b] # NULL \/ phase = "done",
                        NEW x \in DOMAIN heap \ Chain(b)
                 PROVE  ~PostDominates(x, b)
      BY DEF PostDominatorsKept
    <2>1. /\ predecessors \in [Node -> SUBSET Node] /\ x \in Node
          /\ InTree \subseteq Node /\ Placed \subseteq InTree
      BY <1>1, TreeFacts DEF IInv, GraphInv, HeapInv, InTree
    <2>2. /\ Returning(x) = Reaching(predecessors, x)
          /\ Returning(NULL) = Reaching(predecessors, NULL)
      BY <2>1, ReturningReaches
    <2>3. CASE b \in Placed
      <3>1. x \notin Ancestors(PostDominator, b)
        BY <1>1, <2>1, <2>3, ChainIsAncestors
      <3> QED BY <1>1, <2>1, <2>2, <2>3, <3>1 DEF KeepInv, PathsAround, PostDominates
    <2>4. CASE b \notin Placed
      <3>1. phase = "done" /\ b \notin InTree
        BY <2>4 DEF Placed, InTree
      <3>2. blockQueue = << >> /\ edgeTargets = {}
        BY <1>1, <3>1 DEF SearchInv
      <3>3. Visited = InTree
        BY <3>2 DEF Visited, Range
      <3>4. ASSUME NEW y \in InTree, NEW p \in predecessors[y] PROVE p \in InTree
        <4>1. p \in Node /\ y \in Met(p)
          BY <2>1, <3>2, <3>3 DEF Met
        <4> QED BY <1>1, <2>1, <3>1, <4>1 DEF SearchInv
      <3>5. LeadsIn(predecessors, NULL, InTree)
        BY <3>4 DEF LeadsIn, InTree
      <3>6. Reaching(predecessors, NULL) \subseteq InTree
        BY <2>1, <3>5 DEF Reaching
      <3> QED BY <2>2, <3>1, <3>6 DEF PostDominates
    <2> QED BY <2>3, <2>4
  <1>2. Init => KeepInv
    <2>1. Init => Placed = {}
      BY DEF Init, InitTree, Placed
    <2> QED BY <2>1, IInvInit, KeepEmpty
  <1>3. Spec => [](IInv /\ EdgeInv /\ Grouped /\ SearchInv /\ KeepInv)
    BY <1>2, IInvInit, IInvStep, EdgeInit, EdgeStep, GroupedInit, GroupedStep,
       SearchInit, KeepStep, PTL DEF Spec
  <1> QED BY <1>1, <1>3, PTL
=============================================================================
