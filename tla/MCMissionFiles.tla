--------------------------- MODULE MCMissionFiles ---------------------------
EXTENDS MissionFiles, TLC

CONSTANTS save0, joker, viper

(* A file that is excluded, between two that are not.                      *)
SomeNames == <<joker, save0, viper>>
RequestSymmetry == Permutations(Requests)
=============================================================================
