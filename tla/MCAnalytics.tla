---------------------------- MODULE MCAnalytics ----------------------------
EXTENDS AnalyticsRevisions, TLC

Symmetry == Permutations(Clients) \cup Permutations(Wallets)

=============================================================================
