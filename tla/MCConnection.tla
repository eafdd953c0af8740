----------------------------- MODULE MCConnection ------------------------------
(* Connection on a small instance, and what the documentation says of it that *)
(* the code does not do (README.md lists these).                              *)
EXTENDS Connection, TLC

CONSTANTS c1, c2, k1, k2, s1, s2

None       == {}
OneCaller  == {c1}
TwoCallers == {c1, c2}
OneCloser  == {k1}
TwoClosers == {k1, k2}
OneSpawn   == {s1}
TwoSpawns  == {s1, s2}
Symmetry   == Permutations(Callers) \cup Permutations(Spawns)

\* Without the history that neither a guard nor an invariant looks at.
WithoutHistory ==
  <<linkVars, errVars, flagVars, faults, late, connected, loopVars, rpc,
    callVars, kpc, panic>>

--------------------------------------------------------------------------------
\* README.md "Read/Write operations will wait for the connection to be
\* restored": who waits when it is restored goes on.  The waiter holds the
\* channel of its own disconnection, which RcSignal never closes.
WaitersResume ==
  \A c \in Callers : (cpc[c] = "wait" /\ connected)
                       ~> cpc[c] # "wait" \/ ~connected \/ panic # "none"
================================================================================
