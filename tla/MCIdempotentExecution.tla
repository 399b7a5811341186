----------------------- MODULE MCIdempotentExecution -----------------------
(* Two handler calls at a time, three over a behaviour, two keys and two    *)
(* requests.                                                                *)
EXTENDS IdempotentExecution

CONSTANTS a, b, k1, k2, q1, q2, i1, i2, i3

MCCallers == {a, b}
MCKeys == {k1, k2}
MCRequests == {q1, q2}
MCIds == {i1, i2, i3}
=============================================================================
