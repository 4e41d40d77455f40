---- MODULE MCQueueCond ----
EXTENDS QueueCond, TLC
CONSTANTS p1, p2, c1, c2

TwoProducers == {p1, p2}
TwoConsumers == {c1, c2}
MakeOrder == <<p1, c1, c2, p2>>
LoopBounds == (p1 :> 2) @@ (p2 :> 2) @@ (c1 :> 1) @@ (c2 :> 3)
====
