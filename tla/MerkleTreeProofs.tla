-------------------------- MODULE MerkleTreeProofs --------------------------
(***************************************************************************)
(* Proofs about the Merkle tree's operators: what the level-by-level       *)
(* computation of a batch (Calculate, Patch, Traces) finds is the tree of  *)
(* the state after the writes, for every depth and every batch.            *)
(***************************************************************************)
EXTENDS MerkleTree, WellFoundedInduction, TLAPS

-----------------------------------------------------------------------------
(* Numbers. *)

\* A set of numbers with a member has a least one.
LEMMA LeastOf ==
    ASSUME NEW S \in SUBSET Nat, S # {}
    PROVE  \E x \in S : \A y \in S : x <= y
<1>1. PICK x \in S : \A y \in S : ~ (<< y, x >> \in OpToRel(<, Nat))
  BY NatLessThanWellFounded, WFMin, Zenon
<1>2. \A y \in S : ~ (y < x)
  BY <1>1, Zenon DEF OpToRel
<1> QED BY <1>2

\* A set with 0, and with n + 1 for each n in it, has all numbers up to a bound.
LEMMA Upward ==
    ASSUME NEW N \in Nat, NEW S, 0 \in S, \A n \in 0..(N - 1) : n \in S => n + 1 \in S
    PROVE  \A n \in 0..N : n \in S
<1> DEFINE Bad == {n \in 0..N : n \notin S}
<1>1. SUFFICES ASSUME Bad # {} PROVE FALSE
  OBVIOUS
<1>2. PICK n \in Bad : \A m \in Bad : n <= m
  BY <1>1, Bad \in SUBSET Nat, LeastOf
<1>3. n # 0 /\ n - 1 \in 0..(N - 1) /\ n - 1 \notin Bad
  BY <1>2
<1> QED BY <1>2, <1>3

\* The same from the bound down.
LEMMA Downward ==
    ASSUME NEW N \in Nat, NEW S, N \in S, \A n \in 0..(N - 1) : n + 1 \in S => n \in S
    PROVE  \A n \in 0..N : n \in S
<1> DEFINE T == {n \in 0..N : N - n \in S}
<1>1. 0 \in T
  OBVIOUS
<1>2. ASSUME NEW n \in 0..(N - 1), n \in T PROVE n + 1 \in T
  <2>1. N - n - 1 \in 0..(N - 1) /\ (N - n - 1) + 1 = N - n /\ N - (n + 1) = N - n - 1
    OBVIOUS
  <2> QED BY <2>1, <1>2
<1>3. \A n \in 0..N : n \in T
  <2> HIDE DEF T
  <2> QED BY <1>1, <1>2, Upward
<1>4. ASSUME NEW n \in 0..N PROVE n \in S
  <2>1. N - n \in 0..N /\ N - (N - n) = n
    OBVIOUS
  <2> QED BY <2>1, <1>3
<1> QED BY <1>4

\* The largest element.
LEMMA MaxIs ==
    ASSUME NEW S, S \subseteq Int, NEW m \in S, \A y \in S : y <= m
    PROVE  Max(S) = m
<1>1. \A x \in S : (\A y \in S : x >= y) => x = m
  OBVIOUS
<1>2. Max(S) \in S /\ \A y \in S : Max(S) >= y
  BY Zenon, \A y \in S : m >= y DEF Max
<1> QED BY <1>1, <1>2

\* A set of numbers up to n has a largest element.
LEMMA MaxExists ==
    ASSUME NEW n \in Int, NEW S \in SUBSET Int, S # {}, \A y \in S : y <= n
    PROVE  Max(S) \in S /\ \A y \in S : y <= Max(S)
<1> DEFINE T == {n - y : y \in S}
<1>1. T \in SUBSET Nat /\ T # {}
  <2>1. \A y \in S : n - y \in Nat
    OBVIOUS
  <2> QED BY <2>1
<1>2. PICK x \in T : \A y \in T : x <= y
  BY <1>1, LeastOf
<1>3. PICK m \in S : x = n - m
  BY <1>2
<1>4. \A y \in S : y <= m
  <2> SUFFICES ASSUME NEW y \in S PROVE y <= m
    OBVIOUS
  <2>1. n - y \in T
    OBVIOUS
  <2> QED BY <1>2, <1>3, <2>1
<1>5. Max(S) = m
  BY <1>4, MaxIs, S \subseteq Int
<1> QED BY <1>4, <1>5

-----------------------------------------------------------------------------
(* The recursive functions exist. *)

WidthRows(f, n) == [l \in 0..n |-> IF l = 0 THEN 1 ELSE 2 * f[l - 1]]

\* The number of nodes doubles from level to level.
LEMMA Widths ==
    /\ Width[0] = 1
    /\ \A l \in 1..Depth : Width[l] = 2 * Width[l - 1]
    /\ \A l \in 0..Depth : Width[l] \in Nat /\ Width[l] >= 1
<1> USE MerkleTreeAssumption
<1> DEFINE S == {n \in 0..Depth : \E f : f = WidthRows(f, n)}
<1>1. 0 \in S
  <2> DEFINE f == [l \in 0..0 |-> 1]
  <2>1. f = WidthRows(f, 0)
    BY DEF WidthRows
  <2> QED BY <2>1
<1>2. ASSUME NEW n \in 0..(Depth - 1), n \in S PROVE n + 1 \in S
  <2>1. PICK f : f = WidthRows(f, n)
    BY <1>2
  <2> DEFINE g == WidthRows(f, n + 1)
  <2>2. \A l \in 0..n : g[l] = f[l]
    <3>1. \A l \in 0..n : f[l] = WidthRows(f, n)[l]
      BY <2>1, Zenon
    <3> QED BY <3>1 DEF WidthRows
  <2>3. g = WidthRows(g, n + 1)
    <3>1. \A l \in 0..(n + 1) : l # 0 => g[l - 1] = f[l - 1]
      <4> HIDE DEF g
      <4> QED BY <2>2
    <3> QED BY <3>1, Zenon DEF WidthRows
  <2> QED BY <2>3
<1>3. Depth \in S
  <2> HIDE DEF S
  <2> QED BY <1>1, <1>2, Upward
<1>4. \E f : f = WidthRows(f, Depth)
  BY <1>3
<1>5. Width = WidthRows(Width, Depth)
  BY <1>4, Zenon DEF Width, WidthRows
<1>6. \A l \in 0..Depth : Width[l] = IF l = 0 THEN 1 ELSE 2 * Width[l - 1]
  <2>1. \A l \in 0..Depth : Width[l] = WidthRows(Width, Depth)[l]
    BY <1>5
  <2> QED BY <2>1 DEF WidthRows
<1> DEFINE P == {n \in 0..Depth : Width[n] \in Nat /\ Width[n] >= 1}
<1>7. 0 \in P
  BY <1>6
<1>8. \A n \in 0..(Depth - 1) : n \in P => n + 1 \in P
  BY <1>6
<1>9. \A n \in 0..Depth : n \in P
  <2> HIDE DEF P
  <2> QED BY <1>7, <1>8, Upward
<1> QED BY <1>6, <1>9


\* Shifting a key, one bit at a time.
ShrRows(idx, f, n) == [i \in 0..n |-> IF i = 0 THEN idx ELSE f[i - 1] \div 2]

\* What Shr computes.
LEMMA Shifts ==
    ASSUME NEW idx
    PROVE  /\ Shr(idx)[0] = idx
           /\ \A n \in 1..Depth : Shr(idx)[n] = Shr(idx)[n - 1] \div 2
<1> USE MerkleTreeAssumption
<1> DEFINE S == {n \in 0..Depth : \E f : f = ShrRows(idx, f, n)}
<1>1. 0 \in S
  <2> DEFINE f == [l \in 0..0 |-> idx]
  <2>1. f = ShrRows(idx, f, 0)
    BY DEF ShrRows
  <2> QED BY <2>1
<1>2. ASSUME NEW n \in 0..(Depth - 1), n \in S PROVE n + 1 \in S
  <2>1. PICK f : f = ShrRows(idx, f, n)
    BY <1>2
  <2> DEFINE g == ShrRows(idx, f, n + 1)
  <2>2. \A l \in 0..n : g[l] = f[l]
    <3>1. \A l \in 0..n : f[l] = ShrRows(idx, f, n)[l]
      BY <2>1, Zenon
    <3>2. \A l \in 0..n : l \in 0..(n + 1)
      OBVIOUS
    <3> QED BY <3>1, <3>2, Zenon DEF ShrRows
  <2>3. g = ShrRows(idx, g, n + 1)
    <3>1. \A l \in 0..(n + 1) : l # 0 => g[l - 1] = f[l - 1]
      <4> HIDE DEF g
      <4> QED BY <2>2
    <3> QED BY <3>1, Zenon DEF ShrRows
  <2> QED BY <2>3
<1>3. Depth \in S
  <2> HIDE DEF S
  <2> QED BY <1>1, <1>2, Upward
<1>4. \E f : f = ShrRows(idx, f, Depth)
  BY <1>3
<1>5. Shr(idx) = ShrRows(idx, Shr(idx), Depth)
  BY <1>4, Zenon DEF Shr, ShrRows
<1>6. \A n \in 0..Depth : Shr(idx)[n] = IF n = 0 THEN idx ELSE Shr(idx)[n - 1] \div 2
  <2> DEFINE s == Shr(idx)
  <2>1. s = ShrRows(idx, s, Depth)
    BY <1>5
  <2> HIDE DEF s
  <2>2. \A n \in 0..Depth : s[n] = ShrRows(idx, s, Depth)[n]
    BY <2>1, Zenon
  <2>3. \A n \in 0..Depth : s[n] = IF n = 0 THEN idx ELSE s[n - 1] \div 2
    BY <2>2, Zenon DEF ShrRows
  <2> USE DEF s
  <2> QED BY <2>3
<1> HIDE DEF S
<1>7. 0 \in 0..Depth /\ \A n \in 1..Depth : n \in 0..Depth /\ n # 0
  OBVIOUS
<1> QED BY <1>6, <1>7, Zenon

\* A level of the empty tree from the one below it.
EmptyRow(l, row) ==
    IF l = Depth THEN 0 ELSE Compress(row, row)

EmptyRows(f, n) == [l \in n..Depth |-> EmptyRow(l, f[l + 1])]

\* The recursion has a solution.
LEMMA EmptyExists ==
    \E f : f = EmptyRows(f, 0)
<1> USE MerkleTreeAssumption
<1> DEFINE S == {n \in 0..Depth : \E f : f = EmptyRows(f, n)}
<1>1. Depth \in S
  <2> DEFINE f == [l \in Depth..Depth |-> EmptyRow(Depth, 0)]
  <2>1. \A x, y : EmptyRow(Depth, x) = EmptyRow(Depth, y)
    BY Zenon DEF EmptyRow
  <2>2. \A l \in Depth..Depth : l = Depth
    OBVIOUS
  <2>3. f = EmptyRows(f, Depth)
    BY <2>1, <2>2, Zenon DEF EmptyRows
  <2> QED BY <2>3
<1>2. ASSUME NEW n \in 0..(Depth - 1), n + 1 \in S PROVE n \in S
  <2>1. PICK f : f = EmptyRows(f, n + 1)
    BY <1>2
  <2> DEFINE g == EmptyRows(f, n)
  <2>2. \A l \in (n + 1)..Depth : g[l] = f[l]
    <3>1. \A l \in (n + 1)..Depth : f[l] = EmptyRows(f, n + 1)[l]
      BY <2>1, Zenon
    <3>2. \A l \in (n + 1)..Depth : l \in n..Depth
      OBVIOUS
    <3> QED BY <3>1, <3>2, Zenon DEF EmptyRows
  <2>3. g = EmptyRows(g, n)
    <3>1. \A l \in n..Depth : l # Depth => g[l + 1] = f[l + 1]
      <4> HIDE DEF g
      <4> QED BY <2>2
    <3>2. \A x, y : EmptyRow(Depth, x) = EmptyRow(Depth, y)
      BY Zenon DEF EmptyRow
    <3>3. \A l \in n..Depth : EmptyRow(l, g[l + 1]) = EmptyRow(l, f[l + 1])
      BY <3>1, <3>2, Zenon
    <3> QED BY <3>3, Zenon DEF EmptyRows
  <2> QED BY <2>3
<1>3. 0 \in S
  <2> HIDE DEF S
  <2> QED BY <1>1, <1>2, Downward
<1> QED BY <1>3

\* The hashes above the writes on a level from those on the level below it.
HashRow(nodes, ops, l, row) ==
    [j \in 1..Len(ops) |->
       IF l = Depth THEN ops[j].value
       ELSE LET child == Ancestor(ops[j].key, l + 1)
            IN  Parent(child, row[j], HashBefore(nodes, ops, row, j, l + 1, Neighbour(child)))]

HashRows(nodes, ops, f, n) == [l \in n..Depth |-> HashRow(nodes, ops, l, f[l + 1])]

\* The recursion has a solution.
LEMMA HashExists ==
    ASSUME NEW nodes, NEW ops
    PROVE  \E f : f = HashRows(nodes, ops, f, 0)
<1> USE MerkleTreeAssumption
<1> DEFINE S == {n \in 0..Depth : \E f : f = HashRows(nodes, ops, f, n)}
<1>1. Depth \in S
  <2> DEFINE f == [l \in Depth..Depth |-> HashRow(nodes, ops, Depth, 0)]
  <2>1. \A x, y : HashRow(nodes, ops, Depth, x) = HashRow(nodes, ops, Depth, y)
    BY Zenon DEF HashRow
  <2>2. \A l \in Depth..Depth : l = Depth
    OBVIOUS
  <2>3. f = HashRows(nodes, ops, f, Depth)
    BY <2>1, <2>2, Zenon DEF HashRows
  <2> QED BY <2>3
<1>2. ASSUME NEW n \in 0..(Depth - 1), n + 1 \in S PROVE n \in S
  <2>1. PICK f : f = HashRows(nodes, ops, f, n + 1)
    BY <1>2
  <2> DEFINE g == HashRows(nodes, ops, f, n)
  <2>2. \A l \in (n + 1)..Depth : g[l] = f[l]
    <3>1. \A l \in (n + 1)..Depth : f[l] = HashRows(nodes, ops, f, n + 1)[l]
      BY <2>1, Zenon
    <3>2. \A l \in (n + 1)..Depth : l \in n..Depth
      OBVIOUS
    <3> QED BY <3>1, <3>2, Zenon DEF HashRows
  <2>3. g = HashRows(nodes, ops, g, n)
    <3>1. \A l \in n..Depth : l # Depth => g[l + 1] = f[l + 1]
      <4> HIDE DEF g
      <4> QED BY <2>2
    <3>2. \A x, y : HashRow(nodes, ops, Depth, x) = HashRow(nodes, ops, Depth, y)
      BY Zenon DEF HashRow
    <3>3. \A l \in n..Depth : HashRow(nodes, ops, l, g[l + 1]) = HashRow(nodes, ops, l, f[l + 1])
      BY <3>1, <3>2, Zenon
    <3> QED BY <3>3, Zenon DEF HashRows
  <2> QED BY <2>3
<1>3. 0 \in S
  <2> HIDE DEF S
  <2> QED BY <1>1, <1>2, Downward
<1> QED BY <1>3

\* A level of the tree of a state from the one below it.
NodeRow(state, l, row) ==
    [index \in Index(l) |->
       IF l = Depth THEN state[index] ELSE Compress(row[2 * index], row[2 * index + 1])]

NodeRows(state, f, n) == [l \in n..Depth |-> NodeRow(state, l, f[l + 1])]

\* The recursion has a solution.
LEMMA NodeExists ==
    ASSUME NEW state
    PROVE  \E f : f = NodeRows(state, f, 0)
<1> USE MerkleTreeAssumption
<1> DEFINE S == {n \in 0..Depth : \E f : f = NodeRows(state, f, n)}
<1>1. Depth \in S
  <2> DEFINE f == [l \in Depth..Depth |-> NodeRow(state, Depth, 0)]
  <2>1. \A x, y : NodeRow(state, Depth, x) = NodeRow(state, Depth, y)
    BY Zenon DEF NodeRow
  <2>2. \A l \in Depth..Depth : l = Depth
    OBVIOUS
  <2>3. f = NodeRows(state, f, Depth)
    BY <2>1, <2>2, Zenon DEF NodeRows
  <2> QED BY <2>3
<1>2. ASSUME NEW n \in 0..(Depth - 1), n + 1 \in S PROVE n \in S
  <2>1. PICK f : f = NodeRows(state, f, n + 1)
    BY <1>2
  <2> DEFINE g == NodeRows(state, f, n)
  <2>2. \A l \in (n + 1)..Depth : g[l] = f[l]
    <3>1. \A l \in (n + 1)..Depth : f[l] = NodeRows(state, f, n + 1)[l]
      BY <2>1, Zenon
    <3>2. \A l \in (n + 1)..Depth : l \in n..Depth
      OBVIOUS
    <3> QED BY <3>1, <3>2, Zenon DEF NodeRows
  <2>3. g = NodeRows(state, g, n)
    <3>1. \A l \in n..Depth : l # Depth => g[l + 1] = f[l + 1]
      <4> HIDE DEF g
      <4> QED BY <2>2
    <3>2. \A x, y : NodeRow(state, Depth, x) = NodeRow(state, Depth, y)
      BY Zenon DEF NodeRow
    <3>3. \A l \in n..Depth : NodeRow(state, l, g[l + 1]) = NodeRow(state, l, f[l + 1])
      BY <3>1, <3>2, Zenon
    <3> QED BY <3>3, Zenon DEF NodeRows
  <2> QED BY <2>3
<1>3. 0 \in S
  <2> HIDE DEF S
  <2> QED BY <1>1, <1>2, Downward
<1> QED BY <1>3


\* calc_default_hashes, level by level.
LEMMA EmptyIs ==
    \A l \in 0..Depth : EmptyTree[l] = EmptyRow(l, EmptyTree[l + 1])
<1>1. \E f : f = EmptyRows(f, 0)
  BY EmptyExists
<1> DEFINE s == EmptyTree
<1>2. s = EmptyRows(s, 0)
  BY <1>1, Zenon DEF EmptyTree, EmptyRows, EmptyRow
<1> HIDE DEF s
<1>3. \A l \in 0..Depth : s[l] = EmptyRows(s, 0)[l]
  BY <1>2, Zenon
<1>4. \A l \in 0..Depth : s[l] = EmptyRow(l, s[l + 1])
  BY <1>3, Zenon DEF EmptyRows
<1> QED BY <1>4 DEF s

\* UpdatesBatch::calculate, level by level.
LEMMA HashesAre ==
    ASSUME NEW nodes, NEW ops
    PROVE  \A l \in 0..Depth : Calculate(nodes, ops)[l] = HashRow(nodes, ops, l, Calculate(nodes, ops)[l + 1])
<1>1. \E f : f = HashRows(nodes, ops, f, 0)
  BY HashExists
<1> DEFINE s == Calculate(nodes, ops)
<1>2. s = HashRows(nodes, ops, s, 0)
  BY <1>1, Zenon DEF Calculate, HashRows, HashRow
<1> HIDE DEF s
<1>3. \A l \in 0..Depth : s[l] = HashRows(nodes, ops, s, 0)[l]
  BY <1>2, Zenon
<1>4. \A l \in 0..Depth : s[l] = HashRow(nodes, ops, l, s[l + 1])
  BY <1>3, Zenon DEF HashRows
<1> QED BY <1>4 DEF s

\* The tree of a state, level by level.
LEMMA NodesAre ==
    ASSUME NEW state
    PROVE  \A l \in 0..Depth : NodeOf(state)[l] = NodeRow(state, l, NodeOf(state)[l + 1])
<1>1. \E f : f = NodeRows(state, f, 0)
  BY NodeExists
<1> DEFINE s == NodeOf(state)
<1>2. s = NodeRows(state, s, 0)
  BY <1>1, Zenon DEF NodeOf, NodeRows, NodeRow
<1> HIDE DEF s
<1>3. \A l \in 0..Depth : s[l] = NodeRows(state, s, 0)[l]
  BY <1>2, Zenon
<1>4. \A l \in 0..Depth : s[l] = NodeRow(state, l, s[l + 1])
  BY <1>3, Zenon DEF NodeRows
<1> QED BY <1>4 DEF s


\* The path of a key: each node is half of the one below it.
LEMMA Paths ==
    ASSUME NEW key \in Key
    PROVE  /\ Ancestor(key, Depth) = key
           /\ \A l \in 0..(Depth - 1) : Ancestor(key, l) = Ancestor(key, l + 1) \div 2
           /\ \A l \in 0..Depth : Ancestor(key, l) \in Index(l)
           /\ Ancestor(key, 0) = 0
<1> USE MerkleTreeAssumption
<1>1. Ancestor(key, Depth) = key
  BY Shifts, Depth - Depth = 0 DEF Ancestor
<1>2. ASSUME NEW l \in 0..(Depth - 1)
      PROVE  Ancestor(key, l) = Ancestor(key, l + 1) \div 2
  <2>1. Depth - l \in 1..Depth /\ (Depth - l) - 1 = Depth - (l + 1)
    OBVIOUS
  <2>2. Shr(key)[Depth - l] = Shr(key)[(Depth - l) - 1] \div 2
    BY <2>1, Shifts
  <2> QED BY <2>1, <2>2 DEF Ancestor
<1> DEFINE S == {l \in 0..Depth : Ancestor(key, l) \in Index(l)}
<1>3. Depth \in S
  BY <1>1 DEF Key
<1>4. ASSUME NEW l \in 0..(Depth - 1), l + 1 \in S PROVE l \in S
  <2>1. PICK a, w : a = Ancestor(key, l + 1) /\ w = Width[l]
    OBVIOUS
  <2>2. w \in Nat /\ Width[l + 1] = 2 * w
    BY Widths, <2>1, l + 1 \in 1..Depth, (l + 1) - 1 = l, l \in 0..Depth
  <2>3. a \in 0..(2 * w - 1)
    BY <1>4, <2>1, <2>2 DEF Index
  <2>4. a \div 2 \in 0..(w - 1)
    BY <2>2, <2>3
  <2>5. Ancestor(key, l) \in Index(l)
    BY <1>2, <2>1, <2>4 DEF Index
  <2> QED BY <2>5
<1>5. \A l \in 0..Depth : l \in S
  <2> HIDE DEF S
  <2> QED BY <1>3, <1>4, Downward
<1>6. Ancestor(key, 0) = 0
  <2>1. Ancestor(key, 0) \in 0..(1 - 1)
    BY <1>5, Widths DEF Index
  <2> QED BY <2>1
<1> QED BY <1>1, <1>2, <1>5, <1>6

\* A node is one of the two children of its parent, and its neighbour is the
\* other one.
LEMMA Children ==
    ASSUME NEW l \in 0..(Depth - 1), NEW c \in Index(l + 1)
    PROVE  /\ c \div 2 \in Index(l) /\ Neighbour(c) \in Index(l + 1) /\ Neighbour(c) # c
           /\ Neighbour(c) \div 2 = c \div 2
           /\ \/ /\ c = 2 * (c \div 2) /\ Neighbour(c) = 2 * (c \div 2) + 1
                 /\ \A h, n : Parent(c, h, n) = Compress(h, n)
              \/ /\ c = 2 * (c \div 2) + 1 /\ Neighbour(c) = 2 * (c \div 2)
                 /\ \A h, n : Parent(c, h, n) = Compress(n, h)
<1> USE MerkleTreeAssumption
<1>1. PICK w : w = Width[l]
  OBVIOUS
<1>2. w \in Nat /\ Width[l + 1] = 2 * w
  BY Widths, <1>1, l + 1 \in 1..Depth, (l + 1) - 1 = l, l \in 0..Depth
<1>3. c \in 0..(2 * w - 1)
  BY <1>2 DEF Index
<1>4. CASE c % 2 = 0
  <2>1. Neighbour(c) = c + 1 /\ \A h, n : Parent(c, h, n) = Compress(h, n)
    BY <1>4 DEF Neighbour, Parent
  <2>2. /\ c \div 2 \in 0..(w - 1) /\ c + 1 \in 0..(2 * w - 1)
        /\ c = 2 * (c \div 2) /\ (c + 1) \div 2 = c \div 2
    BY <1>2, <1>3, <1>4
  <2> QED BY <1>1, <1>2, <1>3, <2>1, <2>2 DEF Index
<1>5. CASE c % 2 # 0
  <2>1. Neighbour(c) = c - 1 /\ \A h, n : Parent(c, h, n) = Compress(n, h)
    BY <1>5 DEF Neighbour, Parent
  <2>2. /\ c \div 2 \in 0..(w - 1) /\ c - 1 \in 0..(2 * w - 1)
        /\ c = 2 * (c \div 2) + 1 /\ (c - 1) \div 2 = c \div 2
    BY <1>2, <1>3, <1>5
  <2> QED BY <1>1, <1>2, <1>3, <2>1, <2>2 DEF Index
<1> QED BY <1>4, <1>5

\* The children of a node are on the level below it.
LEMMA ChildIndex ==
    ASSUME NEW l \in 0..(Depth - 1), NEW i \in Index(l)
    PROVE  /\ 2 * i \in Index(l + 1) /\ 2 * i + 1 \in Index(l + 1)
           /\ (2 * i) \div 2 = i /\ (2 * i + 1) \div 2 = i
<1> USE MerkleTreeAssumption
<1>1. PICK w : w = Width[l]
  OBVIOUS
<1>2. w \in Nat /\ Width[l + 1] = 2 * w
  BY Widths, <1>1, l + 1 \in 1..Depth, (l + 1) - 1 = l, l \in 0..Depth
<1>3. i \in 0..(w - 1)
  BY <1>1 DEF Index
<1> QED BY <1>2, <1>3 DEF Index

-----------------------------------------------------------------------------
(* The computation of a batch. *)

\* A sequence of writes.
IsWrites(ops) == Len(ops) \in Nat /\ \A j \in 1..Len(ops) : ops[j].key \in Key

\* The first j writes of a batch on top of a state; the last one of a key counts.
Writers(ops, j, k) == {m \in 1..j : ops[m].key = k}
After(state, ops, j) ==
    [k \in Key |-> IF Writers(ops, j, k) = {} THEN state[k] ELSE ops[Max(Writers(ops, j, k))].value]

\* A store of nodes holds the tree of a state.
IsTreeOf(nodes, state) ==
    \A l \in 0..Depth : \A i \in Index(l) : Stored(nodes, l, i) = NodeOf(state)[l][i]

\* A node of the tree and its children.
LEMMA NodeIs ==
    ASSUME NEW state
    PROVE  /\ \A i \in Index(Depth) : NodeOf(state)[Depth][i] = state[i]
           /\ \A l \in 0..(Depth - 1) : \A i \in Index(l) :
                 NodeOf(state)[l][i] = Compress(NodeOf(state)[l + 1][2 * i], NodeOf(state)[l + 1][2 * i + 1])
<1> USE MerkleTreeAssumption
<1> DEFINE N == NodeOf(state)
<1>1. \A l \in 0..Depth : N[l] = NodeRow(state, l, N[l + 1])
  BY NodesAre
<1> HIDE DEF N
<1>2. \A l \in 0..Depth : \A i \in Index(l) : N[l][i] = NodeRow(state, l, N[l + 1])[i]
  BY <1>1, Zenon
<1>3. \A l \in 0..Depth : \A i \in Index(l) :
         N[l][i] = IF l = Depth THEN state[i] ELSE Compress(N[l + 1][2 * i], N[l + 1][2 * i + 1])
  BY <1>2, Zenon DEF NodeRow
<1>4. Depth \in 0..Depth /\ \A l \in 0..(Depth - 1) : l \in 0..Depth /\ l # Depth
  OBVIOUS
<1>5. /\ \A i \in Index(Depth) : N[Depth][i] = state[i]
      /\ \A l \in 0..(Depth - 1) : \A i \in Index(l) :
            N[l][i] = Compress(N[l + 1][2 * i], N[l + 1][2 * i + 1])
  BY <1>3, <1>4, Zenon
<1> QED BY <1>5 DEF N

\* A node depends on the leaves below it only.
LEMMA NodeIsLocal ==
    ASSUME NEW s, NEW t, NEW l \in 0..Depth, NEW i \in Index(l),
           \A k \in Key : Ancestor(k, l) = i => s[k] = t[k]
    PROVE  NodeOf(s)[l][i] = NodeOf(t)[l][i]
<1> USE MerkleTreeAssumption
<1> DEFINE Same(m, x) == \A k \in Key : Ancestor(k, m) = x => s[k] = t[k]
           S == {m \in 0..Depth : \A x \in Index(m) : Same(m, x) => NodeOf(s)[m][x] = NodeOf(t)[m][x]}
<1>1. Depth \in S
  <2> SUFFICES ASSUME NEW x \in Index(Depth), Same(Depth, x)
               PROVE  NodeOf(s)[Depth][x] = NodeOf(t)[Depth][x]
    OBVIOUS
  <2>1. x \in Key /\ Ancestor(x, Depth) = x
    BY Paths DEF Key
  <2>2. s[x] = t[x]
    BY <2>1
  <2> HIDE DEF Same
  <2> QED BY <2>2, NodeIs
<1>2. ASSUME NEW m \in 0..(Depth - 1), m + 1 \in S PROVE m \in S
  <2> SUFFICES ASSUME NEW x \in Index(m), Same(m, x)
               PROVE  NodeOf(s)[m][x] = NodeOf(t)[m][x]
    OBVIOUS
  <2>1. /\ 2 * x \in Index(m + 1) /\ 2 * x + 1 \in Index(m + 1)
        /\ (2 * x) \div 2 = x /\ (2 * x + 1) \div 2 = x
    BY ChildIndex
  <2>2. \A k \in Key : Ancestor(k, m) = Ancestor(k, m + 1) \div 2
    BY Paths
  <2>3. Same(m + 1, 2 * x) /\ Same(m + 1, 2 * x + 1)
    BY <2>1, <2>2
  <2>4. /\ NodeOf(s)[m + 1][2 * x] = NodeOf(t)[m + 1][2 * x]
        /\ NodeOf(s)[m + 1][2 * x + 1] = NodeOf(t)[m + 1][2 * x + 1]
    <3> HIDE DEF Same
    <3> QED BY <1>2, <2>1, <2>3
  <2>5. /\ NodeOf(s)[m][x] = Compress(NodeOf(s)[m + 1][2 * x], NodeOf(s)[m + 1][2 * x + 1])
        /\ NodeOf(t)[m][x] = Compress(NodeOf(t)[m + 1][2 * x], NodeOf(t)[m + 1][2 * x + 1])
    BY NodeIs
  <2> QED BY <2>4, <2>5, Zenon
<1>3. l \in S
  <2> HIDE DEF S
  <2> QED BY <1>1, <1>2, Downward
<1> QED BY <1>3

\* Writes elsewhere leave a node as it is.
LEMMA WritesElsewhere ==
    ASSUME NEW state, NEW ops, NEW l \in 0..Depth, NEW i \in Index(l), IsWrites(ops),
           NEW j \in 0..Len(ops), NEW n \in j..Len(ops),
           \A m \in (j + 1)..n : Ancestor(ops[m].key, l) # i
    PROVE  NodeOf(After(state, ops, j))[l][i] = NodeOf(After(state, ops, n))[l][i]
<1>1. ASSUME NEW k \in Key, Ancestor(k, l) = i
      PROVE  After(state, ops, j)[k] = After(state, ops, n)[k]
  <2>1. Writers(ops, j, k) = Writers(ops, n, k)
    BY <1>1 DEF Writers, IsWrites
  <2> QED BY <2>1 DEF After
<1> HIDE DEF After
<1> QED BY <1>1, NodeIsLocal

\* The value of a written leaf.
LEMMA WrittenLeaf ==
    ASSUME NEW state, NEW ops, IsWrites(ops), NEW j \in 1..Len(ops)
    PROVE  After(state, ops, j)[ops[j].key] = ops[j].value
<1> DEFINE W == Writers(ops, j, ops[j].key)
<1>1. W \subseteq Int /\ j \in W /\ \A y \in W : y <= j
  BY DEF Writers, IsWrites
<1>2. Max(W) = j
  <2> HIDE DEF W
  <2> QED BY <1>1, MaxIs
<1>3. W # {}
  BY <1>1
<1> QED BY <1>2, <1>3 DEF After, IsWrites

\* Nothing is written yet.
LEMMA BeforeWrites ==
    ASSUME NEW state, NEW ops, NEW l \in 0..Depth, NEW i \in Index(l)
    PROVE  NodeOf(After(state, ops, 0))[l][i] = NodeOf(state)[l][i]
<1>1. \A k \in Key : After(state, ops, 0)[k] = state[k]
  <2>1. \A k : Writers(ops, 0, k) = {}
    BY DEF Writers
  <2> QED BY <2>1 DEF After
<1> HIDE DEF After
<1> QED BY <1>1, NodeIsLocal

\* The hashes above the writes on a level are those of the trees after each.
RowIsTree(row, state, ops, l) ==
    \A m \in 1..Len(ops) : row[m] = NodeOf(After(state, ops, m))[l][Ancestor(ops[m].key, l)]

\* What merge_join_with_max_predecessor finds for a node is the node in the
\* tree before the write.
LEMMA HashBeforeIs ==
    ASSUME NEW nodes, NEW state, IsTreeOf(nodes, state), NEW ops, IsWrites(ops),
           NEW l \in 0..Depth, NEW row, RowIsTree(row, state, ops, l),
           NEW j \in 1..(Len(ops) + 1), NEW i \in Index(l)
    PROVE  HashBefore(nodes, ops, row, j, l, i) = NodeOf(After(state, ops, j - 1))[l][i]
<1> DEFINE E == Earlier(ops, j, l, i)
<1>0. Len(ops) \in Nat
  BY DEF IsWrites
<1>1. CASE E = {}
  <2>1. HashBefore(nodes, ops, row, j, l, i) = NodeOf(state)[l][i]
    BY <1>1 DEF HashBefore, IsTreeOf
  <2>2. \A m \in (0 + 1)..(j - 1) : Ancestor(ops[m].key, l) # i
    BY <1>1 DEF Earlier
  <2>3. 0 \in 0..Len(ops) /\ j - 1 \in 0..Len(ops)
    BY <1>0
  <2>4. NodeOf(After(state, ops, 0))[l][i] = NodeOf(After(state, ops, j - 1))[l][i]
    <3> HIDE DEF E
    <3> QED BY <2>2, <2>3, WritesElsewhere
  <2> QED BY <2>1, <2>4, BeforeWrites
<1>2. CASE E # {}
  <2> DEFINE m == Max(E)
  <2>1. E \in SUBSET Int /\ j - 1 \in Int /\ \A y \in E : y <= j - 1
    BY <1>0 DEF Earlier
  <2>2. m \in E /\ \A y \in E : y <= m
    <3> HIDE DEF E
    <3> QED BY <1>2, <2>1, MaxExists
  <2>3. HashBefore(nodes, ops, row, j, l, i) = row[m]
    BY <1>2 DEF HashBefore
  <2>4. m \in 1..(j - 1) /\ Ancestor(ops[m].key, l) = i
    BY <2>2 DEF Earlier
  <2>5. \A x \in (m + 1)..(j - 1) : Ancestor(ops[x].key, l) # i
    <3> SUFFICES ASSUME NEW x \in (m + 1)..(j - 1), Ancestor(ops[x].key, l) = i PROVE FALSE
      OBVIOUS
    <3> HIDE DEF m
    <3>1. x \in 1..(j - 1) /\ ~ (x <= m)
      BY <1>0, <2>4
    <3>2. x \in E
      BY <3>1 DEF Earlier
    <3> HIDE DEF E
    <3> QED BY <2>2, <3>1, <3>2
  <2> HIDE DEF m, E
  <2>6. m \in 0..Len(ops) /\ m \in 1..Len(ops) /\ j - 1 \in m..Len(ops)
    BY <1>0, <2>4
  <2>7. row[m] = NodeOf(After(state, ops, m))[l][i]
    BY <2>4, <2>6 DEF RowIsTree
  <2>8. NodeOf(After(state, ops, m))[l][i] = NodeOf(After(state, ops, j - 1))[l][i]
    BY <2>5, <2>6, WritesElsewhere
  <2> QED BY <2>3, <2>7, <2>8
<1> QED BY <1>1, <1>2

\* A node of the tree from one of its children and that child's neighbour.
LEMMA ParentIs ==
    ASSUME NEW s, NEW l \in 0..(Depth - 1), NEW c \in Index(l + 1)
    PROVE  Parent(c, NodeOf(s)[l + 1][c], NodeOf(s)[l + 1][Neighbour(c)]) = NodeOf(s)[l][c \div 2]
<1>1. c \div 2 \in Index(l)
  BY Children
<1>2. NodeOf(s)[l][c \div 2] =
        Compress(NodeOf(s)[l + 1][2 * (c \div 2)], NodeOf(s)[l + 1][2 * (c \div 2) + 1])
  BY <1>1, NodeIs
<1>3. \/ /\ c = 2 * (c \div 2) /\ Neighbour(c) = 2 * (c \div 2) + 1
         /\ \A h, n : Parent(c, h, n) = Compress(h, n)
      \/ /\ c = 2 * (c \div 2) + 1 /\ Neighbour(c) = 2 * (c \div 2)
         /\ \A h, n : Parent(c, h, n) = Compress(n, h)
  BY Children
<1> QED BY <1>2, <1>3, Zenon

\* One level of the computation from the one below it.
LEMMA RowFromBelow ==
    ASSUME NEW nodes, NEW state, IsTreeOf(nodes, state), NEW ops, IsWrites(ops),
           NEW l \in 0..(Depth - 1), NEW row, RowIsTree(row, state, ops, l + 1)
    PROVE  RowIsTree(HashRow(nodes, ops, l, row), state, ops, l)
<1> USE MerkleTreeAssumption
<1> SUFFICES ASSUME NEW j \in 1..Len(ops)
             PROVE  HashRow(nodes, ops, l, row)[j] = NodeOf(After(state, ops, j))[l][Ancestor(ops[j].key, l)]
  BY DEF RowIsTree
<1> DEFINE c == Ancestor(ops[j].key, l + 1)
           near == Neighbour(c)
           t == After(state, ops, j)
<1>0. Len(ops) \in Nat /\ ops[j].key \in Key
  BY DEF IsWrites
<1>1. l # Depth /\ l + 1 \in 0..Depth
  OBVIOUS
<1>2. c \in Index(l + 1) /\ Ancestor(ops[j].key, l) = c \div 2
  BY <1>0, <1>1, Paths
<1>3. HashRow(nodes, ops, l, row)[j] = Parent(c, row[j], HashBefore(nodes, ops, row, j, l + 1, near))
  BY <1>1 DEF HashRow
<1>4. row[j] = NodeOf(t)[l + 1][c]
  BY DEF RowIsTree
<1>5. near \in Index(l + 1) /\ near # c
  <2> HIDE DEF c
  <2> QED BY <1>2, Children
<1>6. HashBefore(nodes, ops, row, j, l + 1, near) = NodeOf(After(state, ops, j - 1))[l + 1][near]
  <2>1. j \in 1..(Len(ops) + 1)
    BY <1>0
  <2> HIDE DEF near
  <2> QED BY <1>1, <1>5, <2>1, HashBeforeIs
<1>7. NodeOf(After(state, ops, j - 1))[l + 1][near] = NodeOf(t)[l + 1][near]
  <2>0. PICK p, q, x : p = j - 1 /\ q = l + 1 /\ x = near
    OBVIOUS
  <2>1. p \in 0..Len(ops) /\ j \in p..Len(ops) /\ \A m \in (p + 1)..j : m = j
    BY <1>0, <2>0
  <2>2. \A m \in (p + 1)..j : Ancestor(ops[m].key, q) # x
    BY <1>5, <2>0, <2>1
  <2>3. q \in 0..Depth /\ x \in Index(q)
    BY <1>1, <1>5, <2>0
  <2>4. NodeOf(After(state, ops, p))[q][x] = NodeOf(After(state, ops, j))[q][x]
    <3> HIDE DEF c, near, t
    <3> QED BY <2>1, <2>2, <2>3, WritesElsewhere
  <2> QED BY <2>0, <2>4
<1> HIDE DEF c, t
<1>8. Parent(c, NodeOf(t)[l + 1][c], NodeOf(t)[l + 1][near]) = NodeOf(t)[l][c \div 2]
  BY <1>2, ParentIs
<1>9. HashRow(nodes, ops, l, row)[j] = NodeOf(t)[l][c \div 2]
  <2> HIDE DEF near
  <2> QED BY <1>3, <1>4, <1>6, <1>7, <1>8
<1> QED BY <1>2, <1>9 DEF t

\* UpdatesBatch::calculate, which handles all writes of a batch together, finds
\* above each written leaf the nodes of the tree after that write.
THEOREM CalculateIsTree ==
    ASSUME NEW nodes, NEW state, IsTreeOf(nodes, state), NEW ops, IsWrites(ops)
    PROVE  \A l \in 0..Depth : RowIsTree(Calculate(nodes, ops)[l], state, ops, l)
<1> USE MerkleTreeAssumption
<1> DEFINE H == Calculate(nodes, ops)
           S == {l \in 0..Depth : RowIsTree(H[l], state, ops, l)}
<1>1. \A l \in 0..Depth : H[l] = HashRow(nodes, ops, l, H[l + 1])
  BY HashesAre
<1> HIDE DEF H
<1>2. Depth \in S
  <2>1. Depth \in 0..Depth
    OBVIOUS
  <2>2. H[Depth] = HashRow(nodes, ops, Depth, H[Depth + 1])
    BY <1>1, <2>1
  <2>3. ASSUME NEW m \in 1..Len(ops)
        PROVE  H[Depth][m] = NodeOf(After(state, ops, m))[Depth][Ancestor(ops[m].key, Depth)]
    <3>1. H[Depth][m] = ops[m].value
      BY <2>2 DEF HashRow
    <3>2. ops[m].key \in Key /\ ops[m].key \in Index(Depth) /\ Ancestor(ops[m].key, Depth) = ops[m].key
      BY Paths DEF IsWrites, Key
    <3>3. NodeOf(After(state, ops, m))[Depth][ops[m].key] = After(state, ops, m)[ops[m].key]
      BY <3>2, NodeIs
    <3> QED BY <3>1, <3>2, <3>3, WrittenLeaf
  <2> QED BY <2>1, <2>3 DEF RowIsTree
<1>3. ASSUME NEW l \in 0..(Depth - 1), l + 1 \in S PROVE l \in S
  <2>1. l \in 0..Depth /\ RowIsTree(H[l + 1], state, ops, l + 1)
    BY <1>3
  <2>2. RowIsTree(HashRow(nodes, ops, l, H[l + 1]), state, ops, l)
    BY <2>1, RowFromBelow
  <2> QED BY <1>1, <2>1, <2>2
<1>4. \A l \in 0..Depth : l \in S
  <2> HIDE DEF S
  <2> QED BY <1>2, <1>3, Downward
<1> QED BY <1>4 DEF H

\* A store without nodes is the tree of the empty state (calc_default_hashes).
LEMMA EmptyIsTree ==
    ASSUME NEW nodes, DOMAIN nodes = {}
    PROVE  IsTreeOf(nodes, [k \in Key |-> 0])
<1> USE MerkleTreeAssumption
<1> DEFINE zero == [k \in Key |-> 0]
           S == {l \in 0..Depth : \A i \in Index(l) : NodeOf(zero)[l][i] = EmptyTree[l]}
<1>1. \A l \in 0..Depth : EmptyTree[l] = EmptyRow(l, EmptyTree[l + 1])
  BY EmptyIs
<1>2. Depth \in S
  <2>1. EmptyTree[Depth] = 0
    BY <1>1 DEF EmptyRow
  <2>2. \A i \in Index(Depth) : NodeOf(zero)[Depth][i] = zero[i]
    <3> HIDE DEF zero
    <3> QED BY NodeIs
  <2> QED BY <2>1, <2>2 DEF Key
<1>3. ASSUME NEW l \in 0..(Depth - 1), l + 1 \in S PROVE l \in S
  <2> HIDE DEF zero
  <2> SUFFICES ASSUME NEW i \in Index(l) PROVE NodeOf(zero)[l][i] = EmptyTree[l]
    OBVIOUS
  <2>1. EmptyTree[l] = Compress(EmptyTree[l + 1], EmptyTree[l + 1])
    BY <1>1 DEF EmptyRow
  <2>2. 2 * i \in Index(l + 1) /\ 2 * i + 1 \in Index(l + 1)
    BY ChildIndex
  <2>3. NodeOf(zero)[l + 1][2 * i] = EmptyTree[l + 1] /\ NodeOf(zero)[l + 1][2 * i + 1] = EmptyTree[l + 1]
    BY <1>3, <2>2
  <2>4. NodeOf(zero)[l][i] = Compress(NodeOf(zero)[l + 1][2 * i], NodeOf(zero)[l + 1][2 * i + 1])
    BY NodeIs
  <2> QED BY <2>1, <2>3, <2>4, Zenon
<1>4. \A l \in 0..Depth : l \in S
  <2> HIDE DEF S
  <2> QED BY <1>2, <1>3, Downward
<1>5. \A l \in 0..Depth : \A i \in Index(l) : NodeOf(zero)[l][i] = EmptyTree[l]
  BY <1>4
<1> HIDE DEF S, zero
<1>6. IsTreeOf(nodes, zero)
  BY <1>5 DEF IsTreeOf, Stored
<1> QED BY <1>6 DEF zero

\* The nodes of a batch's patch.
Touched(ops) == {<<l, Ancestor(ops[j].key, l)>> : l \in 0..Depth, j \in 1..Len(ops)}

\* apply_patch: the patch holds the nodes above the written leaves as they are
\* after the whole batch, and the other nodes do not change.
THEOREM PatchIs ==
    ASSUME NEW nodes, NEW state, IsTreeOf(nodes, state), NEW ops, IsWrites(ops)
    PROVE  LET patch == Patch(ops, Calculate(nodes, ops))
               tree  == NodeOf(After(state, ops, Len(ops)))
           IN  /\ DOMAIN patch = Touched(ops)
               /\ \A l \in 0..Depth : \A i \in Index(l) :
                     IF <<l, i>> \in Touched(ops) THEN patch[<<l, i>>] = tree[l][i]
                     ELSE NodeOf(state)[l][i] = tree[l][i]
<1> USE MerkleTreeAssumption
<1> DEFINE H == Calculate(nodes, ops)
           patch == Patch(ops, H)
           N == Len(ops)
<1>0. N \in Nat
  BY DEF IsWrites
<1>1. \A l \in 0..Depth : RowIsTree(H[l], state, ops, l)
  BY CalculateIsTree
<1> HIDE DEF H
<1>2. DOMAIN patch = Touched(ops)
  BY DEF Patch, Touched
<1>3. ASSUME NEW l \in 0..Depth, NEW i \in Index(l)
      PROVE  IF <<l, i>> \in Touched(ops) THEN patch[<<l, i>>] = NodeOf(After(state, ops, N))[l][i]
             ELSE NodeOf(state)[l][i] = NodeOf(After(state, ops, N))[l][i]
  <2> DEFINE E == Earlier(ops, N + 1, l, i)
  <2>1. HashBefore(nodes, ops, H[l], N + 1, l, i) = NodeOf(After(state, ops, N))[l][i]
    <3>1. N + 1 \in 1..(Len(ops) + 1) /\ (N + 1) - 1 = N
      BY <1>0
    <3>2. HashBefore(nodes, ops, H[l], N + 1, l, i) = NodeOf(After(state, ops, (N + 1) - 1))[l][i]
      BY <1>1, <3>1, HashBeforeIs
    <3> QED BY <3>1, <3>2
  <2>2. <<l, i>> \in Touched(ops) <=> E # {}
    <3>1. E = {k \in 1..N : Ancestor(ops[k].key, l) = i}
      BY <1>0 DEF Earlier
    <3>2. <<l, i>> \in Touched(ops) <=> \E k \in 1..N : Ancestor(ops[k].key, l) = i
      BY DEF Touched
    <3> QED BY <3>1, <3>2
  <2>3. CASE <<l, i>> \in Touched(ops)
    <3>1. patch[<<l, i>>] = H[l][Max(E)]
      <4>1. <<l, i>> \in {<<level, Ancestor(ops[j].key, level)>> : level \in 0..Depth, j \in 1..Len(ops)}
        BY <2>3 DEF Touched
      <4> QED BY <4>1 DEF Patch
    <3> QED BY <2>1, <2>2, <2>3, <3>1 DEF HashBefore
  <2>4. CASE <<l, i>> \notin Touched(ops)
    <3>1. HashBefore(nodes, ops, H[l], N + 1, l, i) = NodeOf(state)[l][i]
      BY <2>2, <2>4 DEF HashBefore, IsTreeOf
    <3> QED BY <2>1, <2>4, <3>1
  <2> QED BY <2>3, <2>4
<1> QED BY <1>2, <1>3 DEF H

\* compose_witness: the topmost rows of the traces lead from the root before a
\* write to the root after it.
THEOREM TracesAre ==
    ASSUME NEW nodes, NEW state, IsTreeOf(nodes, state), NEW ops, IsWrites(ops), NEW j \in 1..Len(ops)
    PROVE  LET t == Traces(nodes, ops, Calculate(nodes, ops))[j]
           IN  t.pre_hash = RootOf(After(state, ops, j - 1)) /\ t.hash = RootOf(After(state, ops, j))
<1> USE MerkleTreeAssumption
<1> DEFINE H == Calculate(nodes, ops)
           c == Ancestor(ops[j].key, 1)
           near == Neighbour(c)
           s == After(state, ops, j - 1)
<1>0. Len(ops) \in Nat /\ ops[j].key \in Key
  BY DEF IsWrites
<1>1. RowIsTree(H[0], state, ops, 0) /\ RowIsTree(H[1], state, ops, 1)
  BY CalculateIsTree, 0 \in 0..Depth, 1 \in 0..Depth
<1> HIDE DEF H
<1>2. /\ Traces(nodes, ops, H)[j].pre_hash =
           Parent(c, HashBefore(nodes, ops, H[1], j, 1, c), HashBefore(nodes, ops, H[1], j, 1, near))
      /\ Traces(nodes, ops, H)[j].hash = H[0][j]
  BY DEF Traces
<1>3. /\ 0 \in 0..(Depth - 1) /\ 0 + 1 = 1 /\ 1 \in 0..Depth /\ 0 \in 0..Depth
      /\ c \in Index(0 + 1) /\ Ancestor(ops[j].key, 0) = 0
  BY <1>0, Paths
<1>4. c \div 2 = 0
  <2>1. Ancestor(ops[j].key, 0) = Ancestor(ops[j].key, 0 + 1) \div 2
    BY <1>0, <1>3, Paths
  <2> QED BY <1>3, <2>1
<1>5. near \in Index(1)
  <2> HIDE DEF c
  <2>1. Neighbour(c) \in Index(0 + 1)
    BY <1>3, Children
  <2> QED BY <1>3, <2>1
<1>6. H[0][j] = RootOf(After(state, ops, j))
  BY <1>1, <1>3 DEF RowIsTree, RootOf
<1>7. ASSUME NEW i \in Index(1)
      PROVE  HashBefore(nodes, ops, H[1], j, 1, i) = NodeOf(s)[1][i]
  <2>1. j \in 1..(Len(ops) + 1)
    BY <1>0
  <2> QED BY <1>1, <1>3, <2>1, HashBeforeIs
<1> HIDE DEF c, s
<1>8. Parent(c, NodeOf(s)[0 + 1][c], NodeOf(s)[0 + 1][Neighbour(c)]) = NodeOf(s)[0][c \div 2]
  BY <1>3, ParentIs
<1>9. Traces(nodes, ops, H)[j].pre_hash = RootOf(s)
  BY <1>2, <1>3, <1>4, <1>5, <1>7, <1>8 DEF RootOf
<1> QED BY <1>2, <1>6, <1>9 DEF H, s

\* A node above a leaf that is not zero is not that of the empty tree.
LEMMA EmptyNode ==
    ASSUME NEW s, NEW l \in 0..Depth, NEW i \in Index(l), NodeOf(s)[l][i] = EmptyTree[l]
    PROVE  \A k \in Key : Ancestor(k, l) = i => s[k] = 0
<1> USE MerkleTreeAssumption
<1> DEFINE S == {m \in 0..Depth : \A x \in Index(m) :
                    NodeOf(s)[m][x] = EmptyTree[m] => \A k \in Key : Ancestor(k, m) = x => s[k] = 0}
<1>1. \A m \in 0..Depth : EmptyTree[m] = EmptyRow(m, EmptyTree[m + 1])
  BY EmptyIs
<1>2. Depth \in S
  <2>1. EmptyTree[Depth] = 0
    BY <1>1 DEF EmptyRow
  <2>2. \A x \in Index(Depth) : NodeOf(s)[Depth][x] = s[x]
    BY NodeIs
  <2>3. \A k \in Key : Ancestor(k, Depth) = k
    BY Paths
  <2> QED BY <2>1, <2>2, <2>3
<1>3. ASSUME NEW m \in 0..(Depth - 1), m + 1 \in S PROVE m \in S
  <2> SUFFICES ASSUME NEW x \in Index(m), NodeOf(s)[m][x] = EmptyTree[m],
                      NEW k \in Key, Ancestor(k, m) = x
               PROVE  s[k] = 0
    OBVIOUS
  <2>1. EmptyTree[m] = Compress(EmptyTree[m + 1], EmptyTree[m + 1])
    BY <1>1 DEF EmptyRow
  <2>2. NodeOf(s)[m][x] = Compress(NodeOf(s)[m + 1][2 * x], NodeOf(s)[m + 1][2 * x + 1])
    BY NodeIs
  <2>3. NodeOf(s)[m + 1][2 * x] = EmptyTree[m + 1] /\ NodeOf(s)[m + 1][2 * x + 1] = EmptyTree[m + 1]
    BY <2>1, <2>2 DEF Compress
  <2> DEFINE c == Ancestor(k, m + 1)
  <2>4. c \in Index(m + 1) /\ c \div 2 = x
    BY Paths, m + 1 \in 0..Depth
  <2>5. c = 2 * x \/ c = 2 * x + 1
    <3> HIDE DEF c
    <3>1. c = 2 * (c \div 2) \/ c = 2 * (c \div 2) + 1
      BY <2>4, Children
    <3> QED BY <2>4, <3>1
  <2>6. NodeOf(s)[m + 1][c] = EmptyTree[m + 1]
    <3> HIDE DEF c
    <3> QED BY <2>3, <2>5
  <2> QED BY <1>3, <2>4, <2>6
<1>4. l \in S
  <2> HIDE DEF S
  <2> QED BY <1>2, <1>3, Downward
<1> QED BY <1>4

\* The nodes above the writes of values are not those of the empty tree, whatever
\* was stored: a tree that was written to is not taken for an empty one.
LEMMA CalculateIsNotEmpty ==
    ASSUME NEW nodes, NEW ops, NEW j \in 1..Len(ops), ops[j].value # 0
    PROVE  \A l \in 0..Depth : Calculate(nodes, ops)[l][j] # EmptyTree[l]
<1> USE MerkleTreeAssumption
<1> DEFINE H == Calculate(nodes, ops)
           S == {l \in 0..Depth : H[l][j] # EmptyTree[l]}
<1>1. \A l \in 0..Depth : H[l] = HashRow(nodes, ops, l, H[l + 1])
  BY HashesAre
<1>2. \A l \in 0..Depth : EmptyTree[l] = EmptyRow(l, EmptyTree[l + 1])
  BY EmptyIs
<1> HIDE DEF H
<1>3. Depth \in S
  <2>1. H[Depth][j] = ops[j].value
    BY <1>1, Depth \in 0..Depth DEF HashRow
  <2>2. EmptyTree[Depth] = 0
    BY <1>2 DEF EmptyRow
  <2> QED BY <2>1, <2>2
<1>4. ASSUME NEW l \in 0..(Depth - 1), l + 1 \in S PROVE l \in S
  <2>1. PICK n, c : H[l][j] = Parent(c, H[l + 1][j], n)
    <3>1. l \in 0..Depth /\ l # Depth
      OBVIOUS
    <3>2. H[l] = HashRow(nodes, ops, l, H[l + 1])
      BY <1>1, <3>1
    <3>3. H[l][j] = Parent(Ancestor(ops[j].key, l + 1), H[l + 1][j],
                HashBefore(nodes, ops, H[l + 1], j, l + 1, Neighbour(Ancestor(ops[j].key, l + 1))))
      BY <3>1, <3>2 DEF HashRow
    <3> QED BY <3>3, Zenon
  <2>2. EmptyTree[l] = Compress(EmptyTree[l + 1], EmptyTree[l + 1])
    BY <1>2 DEF EmptyRow
  <2>3. H[l + 1][j] # EmptyTree[l + 1]
    BY <1>4
  <2> QED BY <2>1, <2>2, <2>3 DEF Parent, Compress
<1>5. \A l \in 0..Depth : l \in S
  <2> HIDE DEF S
  <2> QED BY <1>3, <1>4, Downward
<1> QED BY <1>5 DEF H
=============================================================================
