-------------------------- MODULE MCModelicaBuild --------------------------
EXTENDS ModelicaBuild, TLC

CONSTANTS b1, b2

MCBuilds == {b1, b2}
BuildSymmetry == Permutations(MCBuilds)
=============================================================================
