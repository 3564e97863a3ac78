------------------------------ MODULE MCUpload ------------------------------
(* Upload on small instances.  Workers and localState objects are          *)
(* interchangeable.                                                        *)
EXTENDS Upload, TLC

Symmetry == Permutations(Worker) \cup Permutations(State)
=============================================================================
