------------------------------- MODULE HashTree -------------------------------
(***************************************************************************)
(* blake3_32 of scripts/deploy-pay-page.py, which names every asset of the  *)
(* page: chunks are merged into a stack of finished subtrees as they are    *)
(* read, while the number of chunks so far can be halved, and the root      *)
(* flag goes to the last compression.  A compression is symbolic: it is the *)
(* record of what it is applied to.                                         *)
(***************************************************************************)
EXTENDS Integers, Sequences, SequencesExt

CONSTANTS ChunkBlocks,   \* blocks of a chunk: 16 in the code
          MaxBlocks      \* bound on the input

ASSUME HashAssumption == ChunkBlocks \in Nat \ {0} /\ MaxBlocks \in Nat

VARIABLES
    length,    \* blocks of the input
    counter,   \* chunks on the stack
    total,     \* what is left of their number in the merging loop, 0 outside it
    merged,    \* the subtree being merged
    stack,     \* chaining values of finished subtrees, the largest first
    out,       \* the output node, once the last chunk was read
    root       \* the hash
hashVars == <<length, counter, total, merged, stack, out, root>>

NoNode == [kind |-> "none"]

\* _B3Output: a node whose root flag is not decided yet.
Compress(node, flag) == [node |-> node, root |-> flag]
ChainingValue(node) == Compress(node, FALSE)
RootBytes(node)     == Compress(node, TRUE)

\* The flags of the chained blocks of one chunk; an empty chunk has one block.
ChunkNode(c, blocks) ==
    LET last == IF blocks = 0 THEN 1 ELSE blocks IN
    [kind |-> "chunk", counter |-> c, blocks |-> blocks,
     flags |-> [j \in 1..last |-> {f \in {"start", "end"} :
                                    (f = "start" /\ j = 1) \/ (f = "end" /\ j = last)}]]
ParentNode(left, right) == [kind |-> "parent", left |-> left, right |-> right]

BlocksOf(len, c) ==
    LET left == len - c * ChunkBlocks IN IF left > ChunkBlocks THEN ChunkBlocks ELSE left
LastChunk(c) == (c + 1) * ChunkBlocks >= length

ReadChunk ==
    /\ out = NoNode /\ total = 0
    /\ LET node == ChunkNode(counter, BlocksOf(length, counter)) IN
       IF LastChunk(counter)
       THEN out' = node /\ UNCHANGED <<total, merged>>
       ELSE total' = counter + 1 /\ merged' = ChainingValue(node) /\ UNCHANGED out
    /\ UNCHANGED <<length, counter, stack, root>>

\* DEFECT: only the first halving merges.
MergesOnce(n) == n = counter + 1 /\ n % 2 = 0
Merges(n) == n % 2 = 0

\* The newest subtree on the stack becomes the left sibling of this one.
MergeSubtree ==
    /\ total # 0 /\ Merges(total)
    /\ merged' = ChainingValue(ParentNode(Last(stack), merged))
    /\ stack' = Front(stack)
    /\ total' = total \div 2
    /\ UNCHANGED <<length, counter, out, root>>

KeepSubtree ==
    /\ total # 0 /\ ~Merges(total)
    /\ stack' = Append(stack, merged)
    /\ counter' = counter + 1
    /\ total' = 0
    /\ UNCHANGED <<length, merged, out, root>>

Unwind ==
    /\ out # NoNode /\ stack # <<>>
    /\ out' = ParentNode(Last(stack), ChainingValue(out))
    /\ stack' = Front(stack)
    /\ UNCHANGED <<length, counter, total, merged, root>>

Finish ==
    /\ out # NoNode /\ stack = <<>> /\ root = NoNode
    /\ root' = RootBytes(out)
    /\ UNCHANGED <<length, counter, total, merged, stack, out>>

HashInit ==
    /\ length \in 0..MaxBlocks
    /\ counter = 0 /\ total = 0 /\ merged = NoNode
    /\ stack = <<>> /\ out = NoNode /\ root = NoNode
HashNext == ReadChunk \/ MergeSubtree \/ KeepSubtree \/ Unwind \/ Finish
HashSpec == HashInit /\ [][HashNext]_hashVars
----------------------------------------------------------------------------
(* The definition of BLAKE3: the left subtree of n chunks is the largest    *)
(* complete one that leaves a chunk to its right.                           *)

Chunks(len) == IF len = 0 THEN 1 ELSE (len + ChunkBlocks - 1) \div ChunkBlocks
LeftSize(n) == CHOOSE p \in {2^k : k \in 0..n} : p < n /\ 2 * p >= n

\* The nodes over n chunks of an input, by the chunk they start at.
TreeOver(len) ==
    LET node[n \in 1..Chunks(len)] ==
        [from \in Nat |->
            IF n = 1 THEN ChunkNode(from, BlocksOf(len, from))
            ELSE ParentNode(ChainingValue(node[LeftSize(n)][from]),
                            ChainingValue(node[n - LeftSize(n)][from + LeftSize(n)]))]
    IN  node

(* Merging while the count is even builds the tree of the definition for    *)
(* every length: at a chunk boundary, one chunk past a power of two, and    *)
(* for the empty input.                                                     *)
RootIsTree == root # NoNode => root = RootBytes(TreeOver(length)[Chunks(length)][0])
=============================================================================
