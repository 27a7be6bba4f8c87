-------------------------- MODULE MCMemoryCcrStore --------------------------
EXTENDS MemoryCcrStore, FiniteSetsExt

CONSTANTS s, m, l  \* a short, a middling and a long original

MCLen(t) == CASE t = s -> 1 [] t = m -> 2 [] t = l -> 4

MCBytes == [S \in SUBSET {s, m, l} |-> MapThenSumSet(MCLen, S)]

(* Without is order.retain on every queue this run can build.              *)
ASSUME WithoutIsRetain ==
  \A n \in 0 .. 4 : \A q \in [1 .. n -> Tokens], t \in Tokens :
    Without(q, t) = SelectSeq(q, LAMBDA u : u # t)
=============================================================================
