--------------------------- MODULE MCEventStream ---------------------------
(* Instances of EventStream for TLC.                                        *)
EXTENDS EventStream, TLC

CONSTANTS s1, s2

S2 == {s1, s2}
StreamSymmetry == Permutations(S2)
============================================================================
