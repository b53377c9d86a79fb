---------------------------- MODULE MCMappedFile ----------------------------
(* The database file with model values for processes.                      *)
EXTENDS MappedFile, TLC

MCSymmetry == Permutations(Page) \union Permutations(Proc)
=============================================================================
