------------------------------ MODULE MCDispatch -------------------------------
(* Dispatch on a small instance: callers are interchangeable unless only some *)
(* of them have a context that can expire.                                    *)
EXTENDS Dispatch, TLC

CONSTANTS c1, c2

TwoCallers == {c1, c2}
OneCaller  == {c1}
Symmetry   == Permutations(Callers)
================================================================================
