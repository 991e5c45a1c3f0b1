--------------------------- MODULE MCFactJournal ---------------------------
(* Instances of FactJournal for TLC.                                       *)
EXTENDS FactJournal, TLC

FactSymmetry == Permutations(Layer) \cup Permutations(Value)
                  \cup Permutations(Generation)
=============================================================================
