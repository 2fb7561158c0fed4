--------------------------- MODULE MCCaseWriters ----------------------------
EXTENDS CaseWriters, TLC

Symmetry == Permutations(Clients) \cup Permutations(Digests) \cup Permutations(Keys)

=============================================================================
