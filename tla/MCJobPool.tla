------------------------------ MODULE MCJobPool ------------------------------
(* One request with up to three files, numbered by age.                         *)
EXTENDS JobPool, TLC

CONSTANT h1

ThreeFiles == {1, 2, 3}
TwoFiles == {1, 2}
OneFile == {1}
MCFilesOf == (h1 :> Sources)

MixedKinds == [s \in Sources |-> IF s = 1 THEN "printed" ELSE "untitled"]
UntitledKinds == [s \in Sources |-> "untitled"]

WorkerSymmetry == Permutations(Workers)
=============================================================================
