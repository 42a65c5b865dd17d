-------------------------- MODULE MCMonoStoreEngine --------------------------
EXTENDS MonoStoreEngine, TLC

CONSTANTS k1, k2, v1, c1, c2

MCKeys == {k1, k2}
MCClients == {c1, c2}

\* Keys and clients are interchangeable model values: nothing in the
\* engine orders them.  Used in the safety runs only.
Symmetry == Permutations(MCKeys) \cup Permutations(MCClients)

=============================================================================
