---------------------------- MODULE MCGlobalStore ----------------------------
EXTENDS GlobalStore, SequencesExt

CONSTANTS s, l  \* a short and a long original

MCBytes == [S \in SUBSET Tokens |-> MapThenSumSet(LAMBDA t : IF t = l THEN 3 ELSE 1, S)]

Limits(entries, bytes, ttl) == [max_entries |-> entries, max_bytes |-> bytes, ttl |-> ttl]

MCLimits == {Limits(2, 2, NoTtl), Limits(1, 4, 1)}

(* gc_dir_protecting's loop, entry by entry over the kept in their order.  *)
SweepLoop(queue, kept, empty, removable, max_bytes) ==
  FoldLeft(LAMBDA sweep, t :
             IF t \in kept \cap removable /\ sweep.total > max_bytes
             THEN [gone |-> sweep.gone \cup {t},
                   total |-> sweep.total - (IF t \in empty THEN 0 ELSE ContentLen(t))]
             ELSE sweep,
           [gone |-> {}, total |-> Bytes[kept \ empty]], queue).gone

(* What Evicted says in one go is what the loop does.                      *)
ASSUME EvictedIsTheLoop ==
  \A kept, empty, removable \in SUBSET Tokens, max_bytes \in 0 .. 4 :
    \A queue \in SetToSeqs(Tokens) :
      Evicted(queue, kept, empty, removable, max_bytes)
        = SweepLoop(queue, kept, empty, removable, max_bytes)
=============================================================================
