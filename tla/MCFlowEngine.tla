----------------------------- MODULE MCFlowEngine -----------------------------
(* Graphs for the model checker: one of each gateway, the ways they combine. *)
EXTENDS FlowEngine

\* Links: unconditional, with a condition that holds, with one that does not.
To(n)  == [to |-> n, when |-> "empty"]
Yes(n) == [to |-> n, when |-> "yes"]
No(n)  == [to |-> n, when |-> "no"]
G(type, links, loopItems) ==
    [type |-> type, links |-> links,
     items |-> [n \in DOMAIN type |-> IF type[n] \in {"loopOut", "loopIn"} THEN loopItems ELSE 0]]

Exclusive == G(<<"start", "exclusive", "activity", "activity", "activity", "end">>,
    <<<<To(2)>>, <<To(3), No(3), Yes(4), Yes(5)>>, <<To(5)>>, <<To(5)>>, <<To(6)>>, <<>>>>, 0)
ExclusiveDefault == G(<<"start", "exclusive", "activity", "activity", "end">>,
    <<<<To(2)>>, <<To(3), No(3), To(4)>>, <<To(5)>>, <<To(5)>>, <<>>>>, 0)
Parallel == G(<<"start", "parallel", "activity", "activity", "parallel", "end">>,
    <<<<To(2)>>, <<To(3), No(4)>>, <<To(5)>>, <<To(5)>>, <<To(6)>>, <<>>>>, 0)
ParallelNested == G(<<"start", "parallel", "parallel", "activity", "activity", "parallel",
                      "activity", "parallel", "end">>,
    <<<<To(2)>>, <<To(3), To(7)>>, <<To(4), To(5)>>, <<To(6)>>, <<To(6)>>, <<To(8)>>,
      <<To(8)>>, <<To(9)>>, <<>>>>, 0)
Inclusive == G(<<"start", "inclusive", "activity", "activity", "activity", "inclusive",
                 "activity", "end">>,
    <<<<To(2)>>, <<Yes(3), No(4), Yes(5)>>, <<To(6)>>, <<To(6)>>, <<To(6)>>, <<To(7)>>,
      <<To(8)>>, <<>>>>, 0)
InclusiveTwice == G(<<"start", "inclusive", "activity", "activity", "inclusive",
                      "activity", "activity", "inclusive", "end">>,
    <<<<To(2)>>, <<Yes(3), To(4)>>, <<To(5)>>, <<To(5)>>, <<Yes(6), Yes(7)>>, <<To(8)>>,
      <<To(8)>>, <<To(9)>>, <<>>>>, 0)
InclusiveInParallel == G(<<"start", "parallel", "inclusive", "activity", "activity",
                           "inclusive", "activity", "parallel", "end">>,
    <<<<To(2)>>, <<To(3), To(7)>>, <<Yes(4), Yes(5)>>, <<To(6)>>, <<To(6)>>, <<To(8)>>,
      <<To(8)>>, <<To(9)>>, <<>>>>, 0)
Loop == G(<<"start", "loopOut", "activity", "loopIn", "activity", "end">>,
    <<<<To(2)>>, <<To(3)>>, <<To(4)>>, <<To(5)>>, <<To(6)>>, <<>>>>, 3)
LoopNested == G(<<"start", "loopOut", "loopOut", "activity", "loopIn", "loopIn", "end">>,
    <<<<To(2)>>, <<To(3)>>, <<To(4)>>, <<To(5)>>, <<To(6)>>, <<To(7)>>, <<>>>>, 2)
LoopOfParallel == G(<<"start", "loopOut", "parallel", "activity", "activity", "parallel",
                      "loopIn", "end">>,
    <<<<To(2)>>, <<To(3)>>, <<To(4), To(5)>>, <<To(6)>>, <<To(6)>>, <<To(7)>>, <<To(8)>>,
      <<>>>>, 2)
LoopOfNone == G(<<"start", "loopOut", "activity", "loopIn", "end">>,
    <<<<To(2)>>, <<To(3)>>, <<To(4)>>, <<To(5)>>, <<>>>>, 0)
Cycle == G(<<"start", "activity", "exclusive", "end">>,
    <<<<To(2)>>, <<To(3)>>, <<Yes(2), To(4)>>, <<>>>>, 0)

MCBudgets == {-1, 3, 7}
MCUnlimited == {-1}

MCGraphs == {Exclusive, ExclusiveDefault, Parallel, ParallelNested, Inclusive, InclusiveTwice,
             InclusiveInParallel, Loop, LoopNested, LoopOfParallel, LoopOfNone, Cycle}

\* The conditions of the theorems about all graphs, of these.
ASSUME SelectingGraphs == \A g \in MCGraphs : Selects(g)
ASSUME OnceGraphs == \A g \in {Exclusive, ExclusiveDefault, Parallel, ParallelNested} : RunsOnce(g)

\* An inclusive gateway in a branch of another, and in the body of a loop.
InclusiveNested == G(<<"start", "inclusive", "inclusive", "activity", "activity", "inclusive",
                       "activity", "inclusive", "end">>,
    <<<<To(2)>>, <<Yes(3), Yes(7)>>, <<Yes(4), Yes(5)>>, <<To(6)>>, <<To(6)>>, <<To(8)>>,
      <<To(8)>>, <<To(9)>>, <<>>>>, 0)
LoopOfInclusive == G(<<"start", "loopOut", "inclusive", "activity", "activity", "inclusive",
                       "loopIn", "end">>,
    <<<<To(2)>>, <<To(3)>>, <<Yes(4), Yes(5)>>, <<To(6)>>, <<To(6)>>, <<To(7)>>, <<To(8)>>,
      <<>>>>, 2)
MCNested == {InclusiveNested, LoopOfInclusive}
=============================================================================
