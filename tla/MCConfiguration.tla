-------------------------- MODULE MCConfiguration --------------------------
\* Two terminals.
EXTENDS Configuration, TLC

CONSTANTS r1, r2

MCRuns == {r1, r2}
Symmetry == Permutations(MCRuns)

=============================================================================
