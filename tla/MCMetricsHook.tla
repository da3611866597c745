--------------------------- MODULE MCMetricsHook ----------------------------
(* A small instance of MetricsHook.                                         *)
EXTENDS MetricsHook, TLC

CONSTANTS r1, r2, r3, i1, i2

\* Two of the three requests drew the same identifier.
CollidingIDs == (r1 :> i1) @@ (r2 :> i1) @@ (r3 :> i2)

=============================================================================
