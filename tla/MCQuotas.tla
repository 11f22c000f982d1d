------------------------------ MODULE MCQuotas ------------------------------
(***************************************************************************)
(* Two calls of agent a.  Tokens and memories are limited for the          *)
(* namespace, tokens for the agent by a row that is inserted later: a call *)
(* is charged on up to three rows, with two SELECTs, and may be refused on *)
(* any of them.  Together the calls fit neither of the first two rows, so  *)
(* that what one gives back decides about the other.                       *)
(***************************************************************************)
EXTENDS Quotas, TLC

CONSTANTS c1, c2, nsTokens, aTokens, nsMemories, a

\* llm_tokens and memory_count
MCTypes == {1, 2}
MCResource ==
  nsTokens :> 1 @@ aTokens :> 1 @@ nsMemories :> 2
MCAgent == nsTokens :> AnyAgent @@ aTokens :> a @@ nsMemories :> AnyAgent
MCCallAgent == [c \in Calls |-> a]
MCCost ==
     c1 :> (1 :> 2 @@ 2 :> 1)
  @@ c2 :> (1 :> 1 @@ 2 :> 1)
MCBase == nsTokens :> 1 @@ aTokens :> 0 @@ nsMemories :> 0
MCFirstLimit == nsTokens :> 3 @@ aTokens :> NoLimit @@ nsMemories :> 1
=============================================================================
