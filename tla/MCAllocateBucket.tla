-------------------------- MODULE MCAllocateBucket --------------------------
(* Buckets of a few entries for TLC.                                        *)
EXTENDS AllocateBucket

CONSTANTS d1, d2

MCDomains == {d1, d2}

\* The entries' domains are an argument of allocate_bucket.
MCDomainMap == [id \in {} |-> d1]
=============================================================================
