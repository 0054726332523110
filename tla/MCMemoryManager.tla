-------------------------- MODULE MCMemoryManager ----------------------------
(* MemoryManager for TLC: malloc may give any large cell, and what is left   *)
(* in blocks and cells not in use is written before it is read.              *)
EXTENDS MemoryManager, TLC

Symmetry == Permutations(Larges)

Block(b) ==
    IF mm.block[b].used = 0 THEN <<mm.block[b].next, mm.block[b].prev>>
    ELSE <<mm.block[b], [i \in 0..(mm.block[b].maxused - 1) |->
                             <<mm.size[<<b, i>>], mm.inUse[<<b, i>>]>>]>>

Readable ==
    <<mm.unfill, mm.batches, mm.large, mm.usage, [b \in Blocks |-> Block(b)],
      [c \in live \cap Larges |-> <<mm.before[c], mm.after[c], mm.size[c]>>],
      live, outstanding, asked>>
=============================================================================
