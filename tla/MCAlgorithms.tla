---------------------------- MODULE MCAlgorithms ----------------------------
(* The bounded inputs of Algorithms. *)
EXTENDS Algorithms

AllAsks ==
    [mode : {"local", "global", "hybrid", "mix"}, query : {"q"}, ll : {"", "low"}, hl : {"", "high"},
     byVector : BOOLEAN, vdb : BOOLEAN, embeds : BOOLEAN]

Names == SeqsUpTo({"", "x", "y", "z"}, 3)

Edges == SeqsUpTo({<<"a", "b">>, <<"b", "a">>, <<"a", "c">>}, 3)

Relations ==
    SeqsUpTo([edge : {<<"a", "b">>, <<"b", "a">>, <<"a", "c">>, <<"", "a">>},
              hits : {0, 2}, score : {0, 1}], 3)

Limits3 == [minHits : {1}, minScore : {0, 50}, topK : {1, 2}]

Chunks ==
    SeqsUpTo([len : {0, 1, 3}, path : BOOLEAN,
              refs : {<<>>, <<"url", "p">>, <<"missing", "p">>, <<"p", "r">>}], 2)

Blocks == SeqsUpTo(1 .. 5, 3)

FourNodes == 1 .. 4

\* a graph: for each pair no edge or one of these weights
GraphsOf(weights) ==
    LET pairs == SetToSeq({p \in FourNodes \X FourNodes : p[1] < p[2]})
    IN {SelectSeq([i \in 1 .. 6 |-> <<pairs[i][1], pairs[i][2], w[i]>>], LAMBDA e : e[3] # NoWeight) :
           w \in [1 .. 6 -> weights \cup {NoWeight}]}

SmallGraphs ==
    GraphsOf({1, 2}) \cup GraphsOf({0})
        \cup SeqsUpTo({1, 3} \X {2} \X {NoWeight, 0, 2}, 2)

Partitions4 ==
    {<<{1, 2}, {3}, {4}>>, <<{1, 2}, {4}, {3}>>, <<{3, 4}, {1, 2}>>, <<{1, 2, 3}, {4}>>,
     <<{1}, {2}, {3}, {4}>>, <<{2}, {1, 3, 4}>>, <<{3}, {1, 2}, {4}>>, <<{1, 2, 3, 4}>>}

\* as the resolution grows, Leiden splits communities: of two and more nodes
\* there are 1, 2, 1 and none
Finer ==
    LET chain == << <<1 .. 4>>, <<{3, 4}, {1, 2}>>, <<{1, 2}, {3}, {4}>>, <<{1}, {2}, {3}, {4}>> >>
        grain == {c \in [1 .. 7 -> 1 .. 4] : \A i \in 1 .. 6 : c[i] <= c[i + 1]}
    IN {[r \in 1 .. 7 |-> chain[c[r]]] : c \in grain}

FewGolds == SeqsUpTo({0, 1, 2}, 2)
FewRankings == SeqsUpTo(0 .. 3, 3)
SomeMatches ==
    {{}, {<<1, 1>>}, {<<1, 1>>, <<1, 2>>}, {<<1, 1>>, <<2, 2>>}, {<<1, 3>>, <<2, 1>>, <<2, 3>>}}
SomeSources == {{}, {<<1, 2>>}, {<<1, 1>>, <<2, 1>>}}

\* the judge failed for a row, for one metric or the other, or for none
SomeJudged ==
    {[m \in JudgedMetrics |-> NA], [m \in JudgedMetrics |-> 0]} \cup
        {[m \in JudgedMetrics |-> IF m = "faithfulness" THEN f ELSE r] :
            <<f, r>> \in {<<NA, 1000>>, <<1000, NA>>}}

SomeRows ==
    {r \in [gold : {<<>>, <<1>>}, ranked : {<<1>>, <<2, 1>>}, k : {NA, 0}, judged : SomeJudged,
            label : {"", "in_corpus", "out_of_corpus"}, answer : {"ok", "refusal"}, text : BOOLEAN] :
        /\ r.gold = <<>> => r.ranked = <<1>> /\ r.k = NA
        /\ r.label = "" => r.answer = "ok"
        /\ r.label # "" => r.judged["faithfulness"] # 1000}

SomeBundles ==
    {b \in [mode : {"naive", "mix"}, found : {0, 1}, relations : {0, 1}, merged : {0, 3}, final : {1, 3},
            before : {0, 4}, after : {2}, candidates : {0, 2}, returned : {0, 1}, below : {0, 1}] :
        b.below <= b.returned /\ b.relations <= b.found}

FewLetters == {" ", "<", "/", "o", "x"}

Streams == SeqsUpTo(FewLetters, 5) \cup {<<"<", "o">> \o t : t \in SeqsUpTo({"<", "/", "o", "x"}, 4)}

SomeRates == {[rate |-> 1, capacity |-> 1, unit |-> 2], [rate |-> 3, capacity |-> 2, unit |-> 2]}

ThreeCallers == {"c1", "c2", "c3"}
=============================================================================
