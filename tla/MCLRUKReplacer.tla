--------------------------- MODULE MCLRUKReplacer ---------------------------
(* Frame ids are interchangeable: the replacer only compares them.          *)
EXTENDS LRUKReplacer, TLC

FrameSymmetry == Permutations(Frames)
=============================================================================
