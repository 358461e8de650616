------------------------ MODULE MCDegradedRetrieval -------------------------
(* Two retrievers that replace each other, as structured and sql do in     *)
(* base.yaml, or one retriever and the eRanker.                            *)
EXTENDS DegradedRetrieval, TLC

CONSTANTS r1, r2

MCOne == {r1}
MCTwo == {r1, r2}
Pair == {"structured", "sql"}
PairFallbacks == "structured" :> <<"sql">> @@ "sql" :> <<"structured">>
Ranked == {"vector", "eranker"}
Vector == {"vector"}
NoFallbacks == "vector" :> <<>>
Sql == {"sql"}

RequestSymmetry == Permutations(Requests)

=============================================================================
