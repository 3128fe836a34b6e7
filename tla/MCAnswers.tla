------------------------------- MODULE MCAnswers -------------------------------
(* Small instances of Answers for TLC.                                        *)
EXTENDS Answers, TLC

CONSTANTS bA, bB, some, all

Alike == Permutations(KeepSets) \cup Permutations(Batches)
==============================================================================
