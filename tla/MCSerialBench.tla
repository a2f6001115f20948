---------------------------- MODULE MCSerialBench ----------------------------
(* The bench with interchangeable instances of the script and signals. *)
EXTENDS SerialBench, TLC

Symmetry == Permutations(Instances) \cup Permutations(Signals)
=============================================================================
