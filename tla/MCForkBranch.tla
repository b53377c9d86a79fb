---------------------------- MODULE MCForkBranch ----------------------------
(* The fork database and its branch walks over the tree of MCTree.         *)
EXTENDS ForkBranch, MCTree
=============================================================================
