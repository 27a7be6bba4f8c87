--------------------------- MODULE MCInstanceStore ---------------------------
EXTENDS InstanceStore, TLC

CONSTANT l  \* a long original

MCBytes == [S \in SUBSET Tokens |-> IF l \in S THEN 3 ELSE 0]

Request(bytes, ttl, tier, ccr) ==
  [max_entries |-> 1, max_bytes |-> bytes, ttl |-> ttl, ccr_durable |-> tier, ccr_enabled |-> ccr]

MCRequests == {Request(2, NoTtl, TRUE, TRUE), Request(4, 1, TRUE, TRUE), Request(4, 1, FALSE, FALSE),
               Request(4, 0, TRUE, TRUE)}

Symmetric == Permutations(Callers)
=============================================================================
