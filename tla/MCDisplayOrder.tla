--------------------------- MODULE MCDisplayOrder ---------------------------
EXTENDS DisplayOrder, TLC

CONSTANTS q1, q2

MCSymmetry == Permutations({q1, q2})
=============================================================================
