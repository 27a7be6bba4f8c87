------------------------------ MODULE CcrContract ------------------------------
(***************************************************************************)
(* What the compressors may rely on in any CcrStore (src/cache/store.rs):  *)
(* a store may forget any original at any time, it never holds one nobody  *)
(* put, and `retained` says whether the original is there to be retrieved  *)
(* at the moment put returns, so that retrieval may be advertised.         *)
(***************************************************************************)
CONSTANT Tokens  \* the tokens of the originals callers may offload

VARIABLES
  held,  \* the originals get would answer
  reply  \* the answer of the last put

NoReply == [op |-> "none"]

Init == held = {} /\ reply = NoReply

Put(t) ==
  /\ held' \in SUBSET (held \cup {t})
  /\ reply' \in {[op |-> "put", token |-> t, retained |-> TRUE],
                 [op |-> "put", token |-> t, retained |-> FALSE]}
  /\ reply'.retained <=> t \in held'

Forget ==
  /\ held' \in SUBSET held
  /\ reply' = NoReply

Next == Forget \/ \E t \in Tokens : Put(t)

Spec == Init /\ [][Next]_<<held, reply>>
=============================================================================
