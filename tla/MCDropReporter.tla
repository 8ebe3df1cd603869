---------------------------- MODULE MCDropReporter ----------------------------
EXTENDS DropReporter, TLC

Symmetry == Permutations(Workers)
=============================================================================
