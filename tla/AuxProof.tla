------------------------------ MODULE AuxProof ------------------------------
(***************************************************************************)
(* Merged-mining proofs (core/auxpow.py, core/block.py and the coinbase of *)
(* the pool, pool/scarlet_pool/coinbase.py): how a proof is built and when *)
(* validate_auxpow accepts it.  The hash of two nodes is the pair of them. *)
(***************************************************************************)
EXTENDS Integers, Sequences, SequencesExt

CONSTANTS
    ChainId,        \* auxpow_chain_id
    MaxDepth,       \* MAX_MERKLE_BRANCH_DEPTH, 30
    SizeBits,       \* bits of the tree_size of a commitment, 32
    Nonces,         \* nonces of a commitment
    Sizes,          \* sizes of a tree, as a miner writes them
    Indices,        \* positions in a tree, as a miner writes them
    TreeHeights,    \* heights of the tree of auxiliary chains
    Transactions    \* how many other transactions the parent block has

VARIABLES
    proof,          \* the AuxPoW object
    parent,         \* the parent block it is about: its transactions and its work
    slots,          \* the auxiliary chains' blocks, as the parent commits to them
    accepted        \* what validate_auxpow said

proofVars == <<proof, parent, slots, accepted>>

\* The block that is to be proved.
Ours == <<"aux", 0>>

\* Powers of two, to shift numbers by.
Power[k \in 0..MaxDepth + SizeBits] == IF k = 0 THEN 1 ELSE 2 * Power[k - 1]

\* A tree fits a branch of the greatest depth, and a size its bits.
ASSUME ProofAssumption ==
    /\ MaxDepth \in Nat /\ SizeBits \in Nat \ {0} /\ ChainId \in Nat
    /\ Indices \subseteq Nat /\ Sizes \subseteq 0..Power[SizeBits] - 1
    /\ TreeHeights \subseteq 0..MaxDepth
    /\ Transactions \subseteq 0..Power[MaxDepth] - 1

-----------------------------------------------------------------------------
(* Merkle trees.                                                           *)

\* A level of the tree above a level; an odd one repeats its last node.
Level(nodes) ==
    LET even == IF Len(nodes) % 2 = 0 THEN nodes ELSE Append(nodes, Last(nodes))
    IN [i \in 1..(Len(even) \div 2) |-> <<"pair", even[2 * i - 1], even[2 * i]>>]

\* The levels above the leaves, and the first of them that is a single node.
Levels(leaves) ==
    LET level[d \in 0..Len(leaves)] == IF d = 0 THEN leaves ELSE Level(level[d - 1]) IN level

Depth(leaves) ==
    CHOOSE d \in 0..Len(leaves) :
        Len(Levels(leaves)[d]) = 1 /\ \A e \in 0..d - 1 : Len(Levels(leaves)[e]) > 1

\* merkle_root
MerkleRoot(leaves) == Levels(leaves)[Depth(leaves)][1]

\* coinbase_merkle_branch, starting from a placeholder for the coinbase.
CoinbaseMerkleBranch(txids) ==
    LET leaves == <<<<"placeholder">>>> \o txids
    IN [d \in 1..Depth(leaves) |-> Levels(leaves)[d - 1][2]]

\* The branch of any leaf, for a tree of auxiliary chains.
BranchAt(leaves, slot) ==
    [d \in 1..Depth(leaves) |->
        LET i == slot \div Power[d - 1] IN Levels(leaves)[d - 1][IF i % 2 = 0 THEN i + 2 ELSE i]]

\* Mutant: the side of the sibling is not looked at.
CheckMerkleBranchLeft(leaf, branch, index) ==
    LET at[d \in 0..Len(branch)] == IF d = 0 THEN leaf ELSE <<"pair", at[d - 1], branch[d]>>
    IN at[Len(branch)]

\* check_merkle_branch
CheckMerkleBranch(leaf, branch, index) ==
    LET at[d \in 0..Len(branch)] ==
            IF d = 0 THEN leaf
            ELSE IF (index \div Power[d - 1]) % 2 = 1 THEN <<"pair", branch[d], at[d - 1]>>
            ELSE <<"pair", at[d - 1], branch[d]>>
    IN at[Len(branch)]

-----------------------------------------------------------------------------
(* The commitment.                                                         *)

\* parse_auxpow_commitment: where one with a size is.
ParseCommitment(data) == {i \in 1..Len(data) : data[i].size >= 1}

\* aux_tree_height
AuxTreeHeight(size) == CHOOSE h \in 0..SizeBits - 1 : Power[h] <= size /\ size < Power[h + 1]

\* get_expected_index, modulo the size of the tree from the start: the code's
\* 64 bits are a multiple of it.
GetExpectedIndex(nonce, height) ==
    LET size == Power[height]
        shuffled(x) == (x * (1103515245 % size) + 12345) % size
    IN shuffled((shuffled(nonce % size) + ChainId) % size)

\* validate_auxpow; more than one commitment is an error.
ValidateAuxpow(p, work) ==
    /\ ChainId # 0
    /\ Len(p.coinbaseBranch) <= MaxDepth /\ Len(p.auxBranch) <= MaxDepth
    /\ p.isCoinbase
    /\ \E i \in 1..Len(p.data) :
        LET c == p.data[i]
        IN /\ ParseCommitment(p.data) = {i}
           /\ c.root = CheckMerkleBranch(Ours, p.auxBranch, p.auxIndex)
           /\ c.size = Power[AuxTreeHeight(c.size)]
           /\ p.auxIndex = GetExpectedIndex(c.nonce, AuxTreeHeight(c.size))
    /\ p.parentRoot = CheckMerkleBranch(<<"coinbase", p.data>>, p.coinbaseBranch, p.coinbaseIndex)
    /\ work

-----------------------------------------------------------------------------
(* Proofs that are offered.                                                *)

Others(n) == [i \in 1..n |-> <<"tx", i>>]

\* What a pool's or another miner's coinbase holds: the commitment, behind an
\* extranonce that may look like the beginning of one.
CoinbaseData(commitment, looks) ==
    IF looks THEN <<[commitment EXCEPT !.root = <<"other">>], commitment>> ELSE <<commitment>>

\* JobManager.refresh and submit_sct_block: one auxiliary chain, the coinbase
\* first.
PoolProof(txs, data, root) ==
    [data |-> data, isCoinbase |-> TRUE, coinbaseBranch |-> CoinbaseMerkleBranch(txs), coinbaseIndex |-> 0,
     auxBranch |-> <<>>, auxIndex |-> 0, parentRoot |-> root]

\* A pool's share that met the target.
BuildPoolProof ==
    /\ proof = <<>>
    /\ \E n \in Transactions, nonce \in Nonces, looks, works \in BOOLEAN :
        LET data == CoinbaseData([root |-> Ours, size |-> 1, nonce |-> nonce], looks)
            nodes == <<<<"coinbase", data>>>> \o Others(n)
        IN /\ slots' = <<Ours>> /\ parent' = [nodes |-> nodes, works |-> works]
           /\ proof' = PoolProof(Others(n), data, MerkleRoot(nodes))
    /\ UNCHANGED accepted

\* What may be sent for a branch: itself, with a node replaced, cut short, or too long.
Distorted(branch) ==
    {[d \in 1..n |-> IF d <= Len(branch) /\ d # e THEN branch[d] ELSE <<"other">>] :
        n \in {Len(branch) - 1, Len(branch), Len(branch) + 1} \cap Nat, e \in 0..Len(branch)}

\* Bound: a proof lies about one of the branches, or about the first transaction being a coinbase.
Offers(aux, first) ==
    (Distorted(aux) \X {first} \X {TRUE}) \cup ({aux} \X Distorted(first) \X {TRUE}) \cup {<<aux, first, FALSE>>}

\* Any other miner's: several auxiliary chains, ours in a slot; indices, sizes
\* and branches are whatever the miner says.
BuildProof ==
    /\ proof = <<>>
    /\ \E height \in TreeHeights, n \in Transactions, nonce \in Nonces, size \in Sizes :
       \E slot \in 0..Power[height] - 1, auxIndex, index \in Indices :
        LET tree == [i \in 1..Power[height] |-> IF i = slot + 1 THEN Ours ELSE <<"aux", i>>]
            data == <<[root |-> MerkleRoot(tree), size |-> size, nonce |-> nonce]>>
            nodes == <<<<"coinbase", data>>>> \o Others(n)
        IN /\ slots' = tree /\ parent' = [nodes |-> nodes, works |-> TRUE]
           /\ \E o \in Offers(BranchAt(tree, slot), CoinbaseMerkleBranch(Others(n))) :
                proof' = [data |-> data, isCoinbase |-> o[3], coinbaseBranch |-> o[2], coinbaseIndex |-> index,
                          auxBranch |-> o[1], auxIndex |-> auxIndex, parentRoot |-> MerkleRoot(nodes)]
    /\ UNCHANGED accepted

\* _validate_block_auxpow
Validate ==
    /\ proof # <<>> /\ accepted = "new"
    /\ accepted' = IF ValidateAuxpow(proof, parent.works) THEN "yes" ELSE "no"
    /\ UNCHANGED <<proof, parent, slots>>

ProofInit == proof = <<>> /\ parent = <<>> /\ slots = <<>> /\ accepted = "new"

ProofNext == BuildPoolProof \/ BuildProof \/ Validate

\* Merged mining, apart from the other rules.
ProofSpec == ProofInit /\ [][ProofNext]_proofVars

-----------------------------------------------------------------------------
(* Properties.                                                             *)

\* The bits of an index that a branch looks at.
Position(index, branch) == index % Power[Len(branch)]

\* What a proof has to show: the parent's coinbase is its first transaction, it
\* commits to one tree, this block is in the slot of the tree that its nonce
\* asks for, the branches are those of the two trees, and the work was done.
Shown(p, block, tree) ==
    /\ ChainId # 0 /\ block.works /\ p.isCoinbase /\ Len(p.data) = 1
    /\ Len(p.auxBranch) = Depth(tree)
    /\ tree[Position(p.auxIndex, p.auxBranch) + 1] = Ours
    /\ p.auxBranch = BranchAt(tree, Position(p.auxIndex, p.auxBranch))
    /\ \E height \in 0..SizeBits - 1 :
        /\ p.data[1].size = Power[height]
        /\ p.auxIndex = GetExpectedIndex(p.data[1].nonce, height)
    /\ Position(p.coinbaseIndex, p.coinbaseBranch) = 0 /\ p.coinbaseBranch = BranchAt(block.nodes, 0)

\* A proof is accepted exactly if it shows what it has to.  In particular every
\* share of the pool that met the target is a block, however many transactions
\* the parent has, unless its extranonce looks like a commitment
\* (validate_auxpow, coinbase_merkle_branch, submit_sct_block).
ProofIsExact == accepted # "new" => (accepted = "yes" <=> Shown(proof, parent, slots))
=============================================================================
