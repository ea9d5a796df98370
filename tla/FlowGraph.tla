------------------------------- MODULE FlowGraph -------------------------------
(***************************************************************************)
(* The graphs of flow/graph.go, as data that never changes: the type of    *)
(* each node, its links in the order in which they are tried, and the      *)
(* number of items of a loop.  Node 1 is the start and, in an acyclic      *)
(* graph, links lead to higher numbers.  A link's condition is "empty", or *)
(* evaluates to "yes" or "no" for the whole life of an instance.           *)
(***************************************************************************)
EXTENDS Integers, Sequences, FiniteSets, SequencesExt, FiniteSetsExt

Types == {"start", "end", "activity", "exclusive", "inclusive", "parallel", "loopOut", "loopIn"}

Nodes(g) == DOMAIN g.type
Positions(g) == UNION {{m} \X DOMAIN g.links[m] : m \in Nodes(g)}

\* The links that lead to n, each as the node it leaves and its place there.
PrevLinks(g, n) == {p \in Positions(g) : g.links[p[1]][p[2]].to = n}
Indegree(g, n)  == Cardinality(PrevLinks(g, n))

IsGraph(g) ==
    /\ g.type \in Seq(Types) /\ g.type # <<>>
    /\ g.links \in [Nodes(g) -> Seq([to : Nodes(g), when : {"empty", "yes", "no"}])]
    /\ g.items \in [Nodes(g) -> Nat]

Acyclic(g) == \A n \in Nodes(g) : \A i \in DOMAIN g.links[n] : g.links[n][i].to > n

\* conditionTest with default true, and the exclusive gateway's choice: the
\* first condition that holds, else the last link that has none.
Matched(g, n) == SelectSeq(g.links[n], LAMBDA l : l.when # "no")
Chosen(g, n)  ==
    LET yes == SelectSeq(g.links[n], LAMBDA l : l.when = "yes")
        def == SelectSeq(g.links[n], LAMBDA l : l.when = "empty")
    IN IF yes # <<>> THEN <<Head(yes)>>
       ELSE IF def # <<>> THEN <<def[Len(def)]>> ELSE <<>>

Followed(g, n) == CASE g.type[n] = "exclusive" -> Chosen(g, n)
                    [] g.type[n] = "parallel"  -> g.links[n]
                    [] OTHER                   -> Matched(g, n)

\* Both choose among the links of the node.
Selects(g) == \A n \in Nodes(g) : {Matched(g, n), Chosen(g, n)} \subseteq Seq(Range(g.links[n]))

\* How often the documentation has each node run when nothing halts: a join
\* once for all that arrives in one round, a loop's body once per item.
Times(g) ==
    LET times[n \in Nodes(g)] ==
          LET in   == {p \in PrevLinks(g, n) :
                         \E i \in DOMAIN Followed(g, p[1]) :
                            Followed(g, p[1])[i] = g.links[p[1]][p[2]]}
              from(p) == IF g.type[p[1]] = "loopOut"
                         THEN times[p[1]] * g.items[p[1]] ELSE times[p[1]]
              flow == MapThenSumSet(from, in)
          IN CASE n = 1 -> 1
               [] n # 1 /\ flow = 0 -> 0
               [] n # 1 /\ flow > 0 /\ g.type[n] \in {"parallel", "inclusive"} ->
                    Max({from(p) : p \in in})
               [] n # 1 /\ flow > 0 /\ g.type[n] = "loopIn" -> flow \div g.items[n]
               [] OTHER -> flow
    IN times

\* Where several arrivals are one passage: a resume here repeats what led here.
Joins(g) == {n \in Nodes(g) : \/ g.type[n] = "loopIn"
                              \/ g.type[n] \in {"parallel", "inclusive"} /\ Indegree(g, n) > 1}

\* What arrives at a node when nothing halts: the start's call, and one for
\* each link that a node which runs follows.
Arrivals(g) == {<<0, 1>>} \cup UNION {{m} \X DOMAIN Followed(g, m) : m \in Nodes(g)}
LeadsTo(g, e) == IF e[1] = 0 THEN 1 ELSE Followed(g, e[1])[e[2]].to
Arriving(g, n) == {e \in Arrivals(g) : LeadsTo(g, e) = n /\ (e[1] # 0 => Times(g)[e[1]] = 1)}

\* The graphs in which a node runs once or not at all: of the alternatives of
\* an exclusive gateway one arrives where they meet, and every branch arrives at
\* a parallel join.
RunsOnce(g) ==
    /\ Acyclic(g) /\ Selects(g) /\ Times(g) \in [Nodes(g) -> {0, 1}]
    /\ \A n \in Nodes(g) :
          /\ g.type[n] \in {"start", "end", "activity", "exclusive", "parallel"}
          /\ Times(g)[n] = 1 <=> Arriving(g, n) # {}
          /\ n \notin Joins(g) => \A e, f \in Arriving(g, n) : e = f
          /\ n \in Joins(g) /\ Times(g)[n] = 1 =>
                /\ Cardinality(Arriving(g, n)) = Indegree(g, n)
                /\ \A p \in PrevLinks(g, n) : \E e \in Arriving(g, n) : e[1] = p[1]
=============================================================================
