------------------------------ MODULE MerkleTree ------------------------------
(****************************************************************************)
(* The Merkle tree over the hashes of receipts (eth/types/merkletree.go): a  *)
(* pure algorithm, checked over all lists of up to MaxLeaves hashes.         *)
(*                                                                           *)
(* A hash is a number.  Keccak256 is external: a pairing of numbers, so that *)
(* two inputs have two hashes.  The pointers of a node to its parent and to  *)
(* the one sibling it has are only followed by NewMerkleProof; a tree is     *)
(* therefore its root's hash and the hashes met on the way up from each      *)
(* leaf.                                                                     *)
(****************************************************************************)
EXTENDS Naturals, Sequences, FiniteSets

MaxLeaves == 5

Keccak256(a, b) == ((a + b) * (a + b + 1)) \div 2 + b + MaxLeaves

\* Hashes are ordered before they are hashed again.
combinedHash(first, second) ==
    IF first < second THEN Keccak256(first, second) ELSE Keccak256(second, first)

\* Whether no hash is there twice
checkHashDups(hashes) == \A i, j \in 1 .. Len(hashes) : hashes[i] = hashes[j] => i = j

\* A proof grows by the sibling of each node on the way to the root.
Climb(proofs, sibling) == [i \in DOMAIN proofs |-> Append(proofs[i], sibling)]

buildMerkleTree[hashes \in Seq(Nat)] ==
    IF Len(hashes) = 1 THEN [root |-> hashes[1], proofs |-> << <<>> >>]
    ELSE
      LET half == (Len(hashes) + 1) \div 2
          first == buildMerkleTree[SubSeq(hashes, 1, half)]
          second == buildMerkleTree[SubSeq(hashes, half + 1, Len(hashes))]
      IN
      [root |-> combinedHash(first.root, second.root),
       proofs |-> Climb(first.proofs, second.root) \o Climb(second.proofs, first.root)]

NoTree == [root |-> "nil", proofs |-> <<>>]

\* ErrDuplicatedHash, or a tree; there is none, and no error, of no hashes.
NewMerkleTree(hashes) ==
    IF ~checkHashDups(hashes) THEN [err |-> TRUE, tree |-> NoTree]
    ELSE [err |-> FALSE, tree |-> IF hashes = <<>> THEN NoTree ELSE buildMerkleTree[hashes]]

VerifyProof(rootHash, hash, proof) ==
    LET h[i \in 0 .. Len(proof)] == IF i = 0 THEN hash ELSE combinedHash(h[i - 1], proof[i])
    IN  h[Len(proof)] = rootHash

-----------------------------------------------------------------------------
Lists == UNION {[1 .. n -> 1 .. MaxLeaves] : n \in 0 .. MaxLeaves}

\* NewMerkleTree, VerifyProof: a list with a hash twice is refused; of every other one,
\* whatever its length and order, each proof verifies the leaf it is of and no other leaf,
\* and is no longer than the tree is high.
ProofsVerify(hashes) ==
    LET res == NewMerkleTree(hashes)
        proofs == res.tree.proofs
    IN
    IF Cardinality({hashes[i] : i \in 1 .. Len(hashes)}) < Len(hashes) THEN res.err
    ELSE /\ ~res.err /\ Len(proofs) = Len(hashes)
         /\ \A i, j \in 1 .. Len(hashes) : VerifyProof(res.tree.root, hashes[j], proofs[i]) <=> i = j
         /\ \A i \in 1 .. Len(hashes) : proofs[i] # <<>> => 2 ^ (Len(proofs[i]) - 1) < Len(hashes)

ASSUME MerkleProofsVerify == \A hashes \in Lists : ProofsVerify(hashes)
===============================================================================
