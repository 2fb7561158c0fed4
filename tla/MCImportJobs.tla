---------------------------- MODULE MCImportJobs ----------------------------
(* ImportJobs on small instances.  Worker identities are interchangeable.  *)
EXTENDS ImportJobs, TLC

Symmetry == Permutations(Workers)

=============================================================================
