---------------------------- MODULE MCTableDefs ----------------------------
EXTENDS TableDefs, TLC

CONSTANTS n1, n2, a, b, g1, q1, q2

MCSymmetry == Permutations({q1, q2}) \cup Permutations({n1, n2}) \cup Permutations({a, b})
=============================================================================
