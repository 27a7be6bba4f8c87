--------------------------- MODULE MCConversation ---------------------------
EXTENDS Conversation

MCProtections ==
  {[protect_system_prompt |-> TRUE, protect_first_n_messages |-> n, decay_head |-> TRUE] :
     n \in {0, 2}}

MCBudgets == {[tokens |-> 20, min_tail |-> 1], [tokens |-> 30, min_tail |-> 0]}

MCChars == [c \in {"short", "long", "digest"} |->
              CASE c = "short" -> 1 [] c = "long" -> 9 [] OTHER -> 3]

MCDigestOptions == [max_full : {4}, keep_recent : {0, 1}]
=============================================================================
