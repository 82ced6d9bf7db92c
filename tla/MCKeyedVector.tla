--------------------------- MODULE MCKeyedVector ---------------------------
(* KeyedVector with a handful of keys and values. *)
EXTENDS KeyedVector, TLC

CONSTANTS k1, k2, k3, k4, v1, v2

MCKey == {k1, k2, k3, k4}
MCVal == {v1, v2}

=============================================================================
