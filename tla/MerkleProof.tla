----------------------------- MODULE MerkleProof -----------------------------
(* getProof of src/src/bitcoin.ts: the inclusion proof that a script attaches *)
(* to a contract call, for a block of `size` transactions of which the one to *)
(* be proved has the index `i` (counted from 0, the coinbase).  Hashes are    *)
(* symbolic: a node of the tree is the record of its two children.            *)
EXTENDS Integers, Sequences

Leaf(i) == [tx |-> i]
Node(l, r) == [left |-> l, right |-> r]

(* MerkleTree(blockTxs, sha256, {isBitcoinTree: true}): a layer of odd length *)
(* pairs its last node with itself.                                           *)
Above(layer) ==
    [j \in 1 .. (Len(layer) + 1) \div 2 |->
        Node(layer[2 * j - 1], layer[IF 2 * j <= Len(layer) THEN 2 * j ELSE 2 * j - 1])]

Depth(size) == CHOOSE d \in 0 .. size : 2 ^ d >= size /\ \A e \in 0 .. d - 1 : 2 ^ e < size

Layers(size) ==
    LET layer[d \in 0 .. Depth(size)] ==
            IF d = 0 THEN [j \in 1 .. size |-> Leaf(j - 1)] ELSE Above(layer[d - 1])
    IN  layer

Root(size) == Layers(size)[Depth(size)][1]

SiblingsInFullLayers(size, index) ==
    LET layer == Layers(size)
        at(d) == index \div 2 ^ d
        sibling(d) == IF at(d) % 2 = 1 \/ at(d) + 1 = Len(layer[d]) THEN at(d) - 1 ELSE at(d) + 1
    IN  [d \in 1 .. Depth(size) |-> layer[d - 1][sibling(d - 1) + 1]]

(* tree.getProof(leaf, index): the siblings on the way up from `index`; the   *)
(* last node of an odd layer is its own sibling.                              *)
Siblings(size, index) ==
    LET layer == Layers(size)
        at(d) == index \div 2 ^ d
        sibling(d) == IF at(d) % 2 = 1 THEN at(d) - 1
                      ELSE IF at(d) + 1 < Len(layer[d]) THEN at(d) + 1 ELSE at(d)
    IN  [d \in 1 .. Depth(size) |-> layer[d - 1][sibling(d - 1) + 1]]

(* The second argument of getProof is meant for the index of the leaf; the    *)
(* code hands over the depth of the tree.  tx-index is found by a search.     *)
GetProof(size, i) ==
    [hashes |-> Siblings(size, Depth(size)), txIndex |-> i, depth |-> Depth(size)]

(* verify-merkle-proof of the contract clarity-bitcoin: fold the siblings     *)
(* over the leaf, on the side the bits of tx-index tell.                      *)
Verifies(size, i, proof) ==
    LET side(d) == (proof.txIndex \div 2 ^ (d - 1)) % 2
        fold[d \in 0 .. proof.depth] ==
            IF d = 0 THEN Leaf(i)
            ELSE IF side(d) = 1 THEN Node(proof.hashes[d], fold[d - 1])
                 ELSE Node(fold[d - 1], proof.hashes[d])
    IN  fold[proof.depth] = Root(size)
=============================================================================
