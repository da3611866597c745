--------------------------- MODULE MCDatabaseHook ---------------------------
(* Small instances of DatabaseHook.                                         *)
EXTENDS DatabaseHook, TLC

\* Request identifiers drawn without a collision.
DistinctIDs == [r \in Requests |-> r]

\* The requests are interchangeable in the runs without liveness where none
\* is a thinker or calls tools.
Symmetry == Permutations(Requests)

\* State constraint of the runs that are not about the shutdown.
BeforeShutdown == proc = "running"

=============================================================================
