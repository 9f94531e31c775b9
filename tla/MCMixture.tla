------------------------------- MODULE MCMixture -------------------------------
\* Layers of two or three experts, in each layout, and layers that only look like one of them.
EXTENDS Mixture

Plain(place, leads, reads) ==
    [entries |-> 0, alike |-> FALSE, rows |-> 0, shard |-> "modules", sources |-> <<>>, leads |-> leads,
     reads |-> reads, quantized |-> FALSE, place |-> place, routed |-> FALSE]
Experts3(sources) == [e \in 0..2 |-> sources]
ExpertList == [Plain(1, 9, FALSE) EXCEPT !.entries = 3, !.alike = TRUE, !.sources = Experts3({1, 2}), !.routed = TRUE]
Batched(shard, sources) ==
    [Plain(1, 3, FALSE) EXCEPT !.rows = 3, !.shard = shard, !.sources = Experts3(sources), !.routed = TRUE]

Stack(n) == [operations |-> IF n = 1 THEN <<"stack">> ELSE <<"stack", "dim 1">>, sources |-> n, targets |-> 1]
NoTransform == [operations |-> <<>>, sources |-> 0, targets |-> 0]
Layer(experts, scorer, others, topk, transform, hint) ==
    LET names == {"experts", "gate"} \cup DOMAIN others
    IN  [block |-> [n \in names |-> CASE n = "experts" -> experts [] n = "gate" -> scorer [] OTHER -> others[n]],
         scorer |-> "gate", called |-> TRUE, declared |-> topk, transform |-> transform, hint |-> hint]

Gate == Plain(2, 3, TRUE)
Shared == [n \in {"shared"} |-> Plain(3, 7, TRUE)]
Beside(child) == [n \in {"beside"} |-> child]
MCLayers == {
    Layer(ExpertList, Gate, Shared, 2, NoTransform, NoName),
    \* no single router to be seen, then no width declared: the experts still stream one by one
    Layer(ExpertList, Gate, Beside(Plain(3, 3, FALSE)), 2, NoTransform, NoName),
    Layer(ExpertList, Gate, Shared, Absent, NoTransform, NoName),
    \* experts that are not alike, or stored together, with and without a name for them
    Layer([ExpertList EXCEPT !.alike = FALSE], Gate, Shared, 2, NoTransform, "experts"),
    Layer([ExpertList EXCEPT !.alike = FALSE, !.routed = FALSE], Gate, Shared, 2, NoTransform, NoName),
    Layer([ExpertList EXCEPT !.sources = [e \in 0..2 |-> IF e = 1 THEN {} ELSE {1}]], Gate, Shared, 1, NoTransform, NoName),
    Layer(Batched("fused", {1}), Gate, Shared, 2, NoTransform, NoName),
    Layer(Batched("fused", {1}), Gate, Shared, Absent, NoTransform, NoName),
    [Layer(Batched("fused", {1}), Gate, Shared, 2, NoTransform, NoName) EXCEPT !.called = FALSE],
    Layer([Batched("fused", {1}) EXCEPT !.quantized = TRUE], Gate, Shared, 1, NoTransform, NoName),
    Layer(Batched("per expert", {1, 2}), Gate, Shared, 1, Stack(2), NoName),
    Layer(Batched("per expert", {1, 2}), Gate, Shared, 1, Stack(1), NoName),
    \* a depthwise convolution beside a projection of as many channels
    [Layer([Batched("fused", {1}) EXCEPT !.routed = FALSE], Plain(2, 3, FALSE), Shared, 1, NoTransform, NoName)
        EXCEPT !.scorer = NoName]}

TwoLists == {Layer([ExpertList EXCEPT !.sources = Experts3({1})], Gate,
                   Beside([ExpertList EXCEPT !.sources = Experts3({1}), !.routed = FALSE, !.place = 3]), 1, NoTransform, NoName)}
===============================================================================
