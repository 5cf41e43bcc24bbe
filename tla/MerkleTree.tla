---------------------------- MODULE MerkleTree ----------------------------
(***************************************************************************)
(* The sparse Merkle tree of the state (merkle_tree/src): how the nodes    *)
(* touched by a batch of writes are computed, and what the tree is to be.  *)
(*                                                                         *)
(* A node has a level, 0 for the root, and an index on its level.  A store *)
(* of nodes is a function on some of them; all others are those of the     *)
(* empty tree.  The writes of a batch are a sequence `ops'.  The code      *)
(* computes the trees after each of them together, level by level from the *)
(* leaves, instead of one write after the other.                           *)
(***************************************************************************)
EXTENDS Integers, Sequences, FiniteSets, FiniteSetsExt

CONSTANTS
    Depth,  \* ROOT_TREE_DEPTH
    Value   \* values that transactions write

ASSUME MerkleTreeAssumption ==
    /\ Depth \in Nat \ {0}
    /\ Value \subseteq Nat \ {0}

\* The number of nodes of a level; the leaves are the keys.
Width[level \in 0..Depth] == IF level = 0 THEN 1 ELSE 2 * Width[level - 1]

Index(level) == 0..(Width[level] - 1)
Key == Index(Depth)

\* `ZkHasher::compress', without collisions.
Compress(left, right) == <<left, right>>

\* calc_default_hashes.
EmptyTree[level \in 0..Depth] ==
    IF level = Depth THEN 0 ELSE Compress(EmptyTree[level + 1], EmptyTree[level + 1])

\* The node above a key on a level (idx_to_merkle_path), and its neighbour.
Shr(idx) == LET shr[n \in 0..Depth] == IF n = 0 THEN idx ELSE shr[n - 1] \div 2 IN shr
Ancestor(key, level) == Shr(key)[Depth - level]
Neighbour(index) == IF index % 2 = 0 THEN index + 1 ELSE index - 1

\* Storage::hashes with the empty tree as default.
Stored(nodes, level, index) ==
    IF <<level, index>> \in DOMAIN nodes THEN nodes[<<level, index>>] ELSE EmptyTree[level]

\* The writes before write j that are below a node.
Earlier(ops, j, level, index) == {k \in 1..(j - 1) : Ancestor(ops[k].key, level) = index}

\* Mutant: earlier writes of the batch are not seen.
HashBefore_Stored(nodes, ops, hashes, j, level, index) == Stored(nodes, level, index)

\* The hash of a node just before write j: left by the last earlier write below
\* the node (merge_join_with_max_predecessor, cur_changes), or stored.  `hashes'
\* gives for each write the hash above it on that level.
HashBefore(nodes, ops, hashes, j, level, index) ==
    LET earlier == Earlier(ops, j, level, index)
    IN  IF earlier = {} THEN Stored(nodes, level, index) ELSE hashes[Max(earlier)]

\* compress_node: the parent of a node and its neighbour.
Parent(index, hash, neighbour) ==
    IF index % 2 = 0 THEN Compress(hash, neighbour) ELSE Compress(neighbour, hash)

\* UpdatesBatch::calculate: for every level and every write, the hash of the
\* node above the written leaf after that write.
Calculate(nodes, ops) ==
    LET hashes[level \in 0..Depth] ==
          [j \in 1..Len(ops) |->
             IF level = Depth THEN ops[j].value
             ELSE LET child == Ancestor(ops[j].key, level + 1)
                  IN  Parent(child, hashes[level + 1][j],
                             HashBefore(nodes, ops, hashes[level + 1], j, level + 1, Neighbour(child)))]
    IN  hashes

\* Mutant: of several writes below a node the first one stays.
Patch_First(ops, hashes) ==
    [node \in {<<level, Ancestor(ops[j].key, level)>> : level \in 0..Depth, j \in 1..Len(ops)} |->
        hashes[node[1]][Min(Earlier(ops, Len(ops) + 1, node[1], node[2]))]]

\* apply_patch: the nodes on all paths, each after the last write below it.
Patch(ops, hashes) ==
    [node \in {<<level, Ancestor(ops[j].key, level)>> : level \in 0..Depth, j \in 1..Len(ops)} |->
        hashes[node[1]][Max(Earlier(ops, Len(ops) + 1, node[1], node[2]))]]

\* The topmost row of each write's hash trace: `pre_hash', from the node as it
\* was before the write (pre_path), and `hash'.  compose_witness chains them.
Traces(nodes, ops, hashes) ==
    [j \in 1..Len(ops) |->
        LET child == Ancestor(ops[j].key, 1)
            Before(index) == HashBefore(nodes, ops, hashes[1], j, 1, index)
        IN  [pre_hash |-> Parent(child, Before(child), Before(Neighbour(child))),
             hash     |-> hashes[0][j]]]

-----------------------------------------------------------------------------
(* What the tree is to be: the tree of a state, from its leaves. *)

NodeOf(state) ==
    LET node[level \in 0..Depth] ==
          [index \in Index(level) |->
             IF level = Depth THEN state[index]
             ELSE Compress(node[level + 1][2 * index], node[level + 1][2 * index + 1])]
    IN  node

RootOf(state) == NodeOf(state)[0][0]
=============================================================================
