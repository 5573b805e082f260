------------------------------- MODULE MCEdge -------------------------------
EXTENDS Edge, TLC

EdgeSymmetry == Permutations(Workers) \cup Permutations(Networks)
                  \cup Permutations(Tokens) \cup Permutations(Endpoints)
=============================================================================
