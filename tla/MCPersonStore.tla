---------------------------- MODULE MCPersonStore ----------------------------
(* PersonStore for TLC: savers are interchangeable. *)
EXTENDS PersonStore, TLC

CONSTANTS s1, s2, s3, l1

ThreeSavers == {s1, s2, s3}
OneLoader == {l1}
Interchangeable == Permutations(ThreeSavers)
=============================================================================
