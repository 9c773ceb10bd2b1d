----------------------------- MODULE MerkleTree -----------------------------
(***************************************************************************)
(* The Merkle tree builder of core/merkle.c: leaves are added as raw data  *)
(* (hashed with the 0x00 leaf prefix) or as pre-computed digests (stored   *)
(* unchanged), then `build` folds the leaf level bottom-up, pairing an odd *)
(* last node with itself.  Inclusion proofs are created and verified by    *)
(* the operators at the end.                                               *)
(*                                                                         *)
(* Hashes are abstracted by injective constructors: a leaf hash is         *)
(* <<"leaf", data>>, an internal hash is <<"node", left, right>>, and a    *)
(* pre-computed digest is a model value, which no constructor can produce. *)
(***************************************************************************)
EXTENDS Naturals, Sequences, SequencesExt

CONSTANTS
    Data,       \* raw leaf payloads (scribe_merkle_add_field)
    Digests,    \* pre-computed digests (scribe_merkle_add_hash)
    MaxLeaves   \* bound: leaves added to one tree

VARIABLES
    leaves,     \* tree->leaves[0 .. leaf_count-1], as their hashes
    built,      \* tree->built
    root        \* hash of tree->root; NoRoot while tree->root is NULL

vars == <<leaves, built, root>>

Zero == <<>>
NoRoot == "NULL"

\* scribe_hash_leaf: SHA256(0x00 || data).
HashLeaf(d) == <<"leaf", d>>

\* scribe_hash_combine: SHA256(0x01 || left || right).
HashCombine(l, r) == <<"node", l, r>>

LeafHashes == {HashLeaf(d) : d \in Data} \cup Digests

(***************************************************************************)
(* scribe_merkle_build, as the code computes it                            *)
(***************************************************************************)
\* Mutant: an odd last node is promoted to the next level unchanged.
NextLevelPromote(lvl) ==
    [i \in 1..((Len(lvl) + 1) \div 2) |->
        IF 2 * i <= Len(lvl) THEN HashCombine(lvl[2 * i - 1], lvl[2 * i])
        ELSE lvl[2 * i - 1]]

\* One pass of the `while (level_size > 1)` loop: parent i combines nodes
\* 2i-1 and 2i; when 2i is past the end it combines 2i-1 with itself.
NextLevel(lvl) ==
    [i \in 1..((Len(lvl) + 1) \div 2) |->
        LET left  == lvl[2 * i - 1]
            right == IF 2 * i <= Len(lvl) THEN lvl[2 * i] ELSE left
        IN  HashCombine(left, right)]

RECURSIVE FoldLevels(_)
FoldLevels(lvl) == IF Len(lvl) = 1 THEN lvl[1] ELSE FoldLevels(NextLevel(lvl))

\* Empty tree: a calloc'd node, i.e. the zero hash.  One leaf: that leaf.
BuildRoot(ls) == IF ls = <<>> THEN Zero ELSE FoldLevels(ls)

(***************************************************************************)
(* Inclusion proofs, as the code computes and checks them                  *)
(***************************************************************************)
\* scribe_merkle_proof_create: depth = number of halvings of leaf_count.
RECURSIVE ProofDepth(_)
ProofDepth(n) == IF n <= 1 THEN 0 ELSE 1 + ProofDepth((n + 1) \div 2)

\* The proof arrays are calloc'd and never filled: every sibling is the
\* zero hash and every position 0.
ProofCreate(ls, i) ==
    [k \in 1..ProofDepth(Len(ls)) |-> [hash |-> Zero, pos |-> 0]]

\* Mutant: the sides chosen by the position bit are swapped.
ProofVerifySwapped(proof, leaf, rt) ==
    FoldLeft(LAMBDA cur, st : IF st.pos = 0 THEN HashCombine(st.hash, cur)
                                            ELSE HashCombine(cur, st.hash),
             leaf, proof) = rt

\* scribe_merkle_proof_verify: position 0 means the sibling is on the right.
ProofVerify(proof, leaf, rt) ==
    FoldLeft(LAMBDA cur, st : IF st.pos = 0 THEN HashCombine(cur, st.hash)
                                            ELSE HashCombine(st.hash, cur),
             leaf, proof) = rt

(***************************************************************************)
(* Reference definitions (top-down), independent of the level loop         *)
(***************************************************************************)
RefDepth(n) == CHOOSE d \in 0..n : 2^d >= n /\ (d = 0 \/ 2^(d - 1) < n)

\* The subtree of height d over s: the left half covers the first 2^(d-1)
\* leaves; a right half with no leaves repeats the left one.
RECURSIVE Subtree(_, _)
Subtree(s, d) ==
    IF d = 0 THEN s[1]
    ELSE LET k == 2^(d - 1) IN
         IF Len(s) <= k
         THEN HashCombine(Subtree(s, d - 1), Subtree(s, d - 1))
         ELSE HashCombine(Subtree(SubSeq(s, 1, k), d - 1),
                          Subtree(SubSeq(s, k + 1, Len(s)), d - 1))

RefRoot(s) == IF s = <<>> THEN Zero ELSE Subtree(s, RefDepth(Len(s)))

\* The sibling path of leaf i, leaf first.
RECURSIVE RefPath(_, _, _)
RefPath(s, i, d) ==
    IF d = 0 THEN <<>>
    ELSE LET k == 2^(d - 1) IN
         IF Len(s) <= k
         THEN RefPath(s, i, d - 1) \o <<[hash |-> Subtree(s, d - 1), pos |-> 0]>>
         ELSE IF i <= k
              THEN RefPath(SubSeq(s, 1, k), i, d - 1)
                   \o <<[hash |-> Subtree(SubSeq(s, k + 1, Len(s)), d - 1), pos |-> 0]>>
              ELSE RefPath(SubSeq(s, k + 1, Len(s)), i - k, d - 1)
                   \o <<[hash |-> Subtree(SubSeq(s, 1, k), d - 1), pos |-> 1]>>

RefProof(s, i) == RefPath(s, i, RefDepth(Len(s)))

(***************************************************************************)
(* The builder                                                             *)
(***************************************************************************)
Init ==
    /\ leaves = <<>>
    /\ built = FALSE
    /\ root = NoRoot

\* scribe_merkle_add_field (rejected with INVALID_ARG once built).
AddField(d) ==
    /\ ~built
    /\ Len(leaves) < MaxLeaves
    /\ leaves' = Append(leaves, HashLeaf(d))
    /\ UNCHANGED <<built, root>>

\* scribe_merkle_add_hash: the digest itself becomes the leaf hash.
AddHash(h) ==
    /\ ~built
    /\ Len(leaves) < MaxLeaves
    /\ leaves' = Append(leaves, h)
    /\ UNCHANGED <<built, root>>

\* Mutant: tree->built is set before the root's allocation is checked.
BuildMarksBuiltFirst ==
    /\ ~built
    /\ \/ /\ root' = BuildRoot(leaves)
          /\ built' = TRUE
       \/ /\ Len(leaves) # 1
          /\ built' = TRUE
          /\ UNCHANGED root
    /\ UNCHANGED leaves

\* scribe_merkle_build (a second call returns SCRIBE_OK and changes nothing).
\* Unless there is exactly one leaf it allocates (the empty root, or each
\* level and parent); any NULL returns SCRIBE_ERR_NOMEM with tree->root
\* still NULL and tree->built still 0, so the caller may build again.
Build ==
    /\ ~built
    /\ \/ /\ root' = BuildRoot(leaves)
          /\ built' = TRUE
       \/ /\ Len(leaves) # 1
          /\ UNCHANGED <<built, root>>
    /\ UNCHANGED leaves

Next ==
    \/ \E d \in Data : AddField(d)
    \/ \E h \in Digests : AddHash(h)
    \/ Build

Spec == Init /\ [][Next]_vars

(***************************************************************************)
(* Properties                                                              *)
(***************************************************************************)
\* A tree is built exactly when it has a root: scribe_merkle_root returns
\* NULL before a successful build and a node after, whichever allocation
\* of build failed on the way.
TypeOK ==
    /\ leaves \in Seq(LeafHashes)
    /\ built \in BOOLEAN
    /\ built = (root # NoRoot)

\* The root the level-by-level loop builds is the root of the balanced
\* tree that spec 4.3 describes (empty: zero; one leaf: the leaf; an odd
\* node paired with itself at its own level), for every leaf sequence.
RootMatchesReference == built => root = RefRoot(leaves)

\* scribe_merkle_proof_verify accepts, for every leaf of a built tree, the
\* sibling path of the reference tree: the fold reaches the built root.
ReferenceProofsVerify ==
    built => \A i \in 1..Len(leaves) :
                ProofVerify(RefProof(leaves, i), leaves[i], root)

\* Spec 8.4: a proof made by scribe_merkle_proof_create for leaf i verifies
\* against the root.
CreatedProofsVerify ==
    built => \A i \in 1..Len(leaves) :
                ProofVerify(ProofCreate(leaves, i), leaves[i], root)

=============================================================================
