--------------------------- MODULE FlowEngineProofs ---------------------------
(* Proofs about FlowEngine: an instance that is halted and evaluated again is,   *)
(* at each of its tasks, where an evaluation that was never halted would be, for *)
(* any graph and any number of halts.                                            *)
EXTENDS FlowEngine, FiniteSetTheorems, SequenceTheorems, WellFoundedInduction, TLAPS

(* A walk is an evaluation that nothing halts.  Its state is what nodeRun works  *)
(* with: the calls that are left, the Temporary, what has been done, and how    *)
(* many tasks have cut their branch.                                             *)
Start(g) == [todo |-> <<Call(1)>>, count |-> [n \in Nodes(g) |-> 0], branches |-> <<>>,
             loops |-> <<>>, items |-> <<>>, done |-> [n \in Nodes(g) |-> 0], cuts |-> 0]

At(s) == /\ todo = s.todo /\ count = s.count /\ branches = s.branches
         /\ loops = s.loops /\ items = s.items

(* What the node at the head of s adds to the calls, when its task goes on.      *)
Onward(g, s) ==
    LET n == Head(s.todo).node
    IN CASE g.type[n] = "exclusive" -> Calls(Chosen(g, n))
         [] g.type[n] = "parallel"  -> Calls(g.links[n])
         [] g.type[n] = "loopOut"   -> <<[call |-> "iterate", node |-> n, it |-> Len(s.items) + 1]>>
         [] OTHER                 -> Calls(Matched(g, n))

Joining(g, s) == Indegree(g, Head(s.todo).node) > 1 /\ s.branches # <<>>

WaitsAt(g, s) ==
    LET n == Head(s.todo).node
    IN \/ g.type[n] = "inclusive" /\ Joining(g, s) /\ s.branches[Len(s.branches)] > s.count[n] + 1
       \/ g.type[n] = "parallel" /\ Indegree(g, n) > s.count[n] + 1
       \/ g.type[n] = "loopIn" /\ s.loops # <<>> /\ s.items[s.loops[Len(s.loops)]] > 0

(* The walk after the node at the head of s: it waits, its task goes on, or its  *)
(* task cuts the branch.                                                         *)
CountAfter(g, s, how) ==
    LET n == Head(s.todo).node
    IN IF g.type[n] = "inclusive"
       THEN [s.count EXCEPT ![n] = IF Joining(g, s) THEN s.count[n] + 1 ELSE s.count[n]]
       ELSE IF g.type[n] = "parallel"
       THEN [s.count EXCEPT ![n] = IF how = "goes on" THEN 0 ELSE s.count[n] + 1]
       ELSE s.count

BranchesAfter(g, s, how) ==
    LET n == Head(s.todo).node
        popped == IF Joining(g, s) THEN Front(s.branches) ELSE s.branches
    IN IF g.type[n] # "inclusive" \/ how = "waits" THEN s.branches
       ELSE IF how = "goes on" /\ Len(Matched(g, n)) > 0 THEN Append(popped, Len(Matched(g, n)))
       ELSE popped

LoopsAfter(g, s, how) ==
    LET n == Head(s.todo).node
    IN IF g.type[n] = "loopIn" /\ how # "waits" /\ s.loops # <<>> THEN Front(s.loops)
       ELSE IF g.type[n] = "loopOut" /\ how = "goes on" THEN Append(s.loops, Len(s.items) + 1)
       ELSE s.loops

ItemsAfter(g, s, how) ==
    LET n == Head(s.todo).node
    IN IF g.type[n] = "loopOut" /\ how = "goes on" THEN Append(s.items, g.items[n]) ELSE s.items

Ran(g, s, how) ==
    LET n == Head(s.todo).node
    IN [todo |-> IF how = "goes on" THEN Onward(g, s) \o Tail(s.todo) ELSE Tail(s.todo),
        count |-> CountAfter(g, s, how), branches |-> BranchesAfter(g, s, how),
        loops |-> LoopsAfter(g, s, how), items |-> ItemsAfter(g, s, how),
        done |-> IF how = "goes on" THEN [s.done EXCEPT ![n] = Min({@ + 1, MaxDone})] ELSE s.done,
        cuts |-> IF how = "cuts" THEN s.cuts + 1 ELSE s.cuts]

Iterated(g, s) ==
    LET it == Head(s.todo).it
        n  == Head(s.todo).node
        more == s.items[it] > 0
    IN [todo |-> IF more THEN Calls(Matched(g, n)) \o s.todo ELSE Tail(s.todo),
        count |-> s.count, branches |-> s.branches, loops |-> s.loops,
        items |-> IF more THEN [s.items EXCEPT ![it] = @ - 1] ELSE s.items,
        done |-> s.done, cuts |-> s.cuts]

Go(g, s) == IF Head(s.todo).call = "iterate" THEN Iterated(g, s)
         ELSE IF WaitsAt(g, s) THEN Ran(g, s, "waits") ELSE Ran(g, s, "goes on")

(* A set of states that walks do not leave.                                      *)
Closed(g, W) ==
    /\ Start(g) \in W
    /\ \A s \in W : s.todo # <<>> =>
          /\ Go(g, s) \in W
          /\ \A n \in Nodes(g) : Head(s.todo) = Call(n) /\ ~WaitsAt(g, s) /\ Times(g)[n] = 1
                => Ran(g, s, "cuts") \in W

(* What is asked of a walk: the three properties of FlowEngine, in its state.    *)
SoundState(g, s) ==
    /\ \A j \in Joins(g) : \A p \in PrevLinks(g, j) :
          s.done[j] * Times(g)[p[1]] <= s.done[p[1]] * Times(g)[j]
    /\ \A n \in Nodes(g) : s.done[n] <= Times(g)[n]
    /\ s.todo = <<>> /\ s.cuts = 0 => s.done = Times(g)

WalksAreSound(g) == \E W : Closed(g, W) /\ \A s \in W : SoundState(g, s)

-------------------------------------------------------------------------------
(* The steps of an evaluation are those of a walk, but for the halts, and but    *)
(* for what is not done while reverting.                                         *)
Becomes(t) == /\ todo' = t.todo /\ count' = t.count /\ branches' = t.branches
              /\ loops' = t.loops /\ items' = t.items

LEMMA IterateIsGo ==
    ASSUME NEW s, At(s), Iterate
    PROVE  /\ s.todo # <<>> /\ Head(s.todo).call = "iterate" /\ Becomes(Go(graph, s))
           /\ Go(graph, s).done = s.done /\ Go(graph, s).cuts = s.cuts
<1>1. /\ s.todo # <<>> /\ Head(s.todo).call = "iterate" /\ Go(graph, s) = Iterated(graph, s)
      /\ UNCHANGED <<count, branches, loops>>
    BY DEF At, Iterate, Go
<1>2. /\ Go(graph, s).count = s.count /\ Go(graph, s).branches = s.branches /\ Go(graph, s).loops = s.loops
      /\ Go(graph, s).done = s.done /\ Go(graph, s).cuts = s.cuts
    BY <1>1 DEF Iterated
<1>3. todo' = Iterated(graph, s).todo /\ items' = Iterated(graph, s).items
    BY <1>1 DEF At, Iterate, Iterated, HasNext
<1> QED
    BY <1>1, <1>2, <1>3 DEF At, Becomes

(* What a visit does with the state of a walk.                                   *)
Does(s, n) ==
    \/ WaitsAt(graph, s) /\ Waits /\ Becomes(Ran(graph, s, "waits"))
    \/ ~WaitsAt(graph, s) /\ (\E next : TaskOk(n, next)) /\ Becomes(Ran(graph, s, "goes on"))
    \/ TaskHalts(n)
    \/ ~WaitsAt(graph, s) /\ TaskInterrupts(n) /\ Becomes(Ran(graph, s, "cuts"))

LEMMA PlainDoes ==
    ASSUME NEW s, At(s), NEW n, Head(s.todo).node = n, PlainRun(n) PROVE Does(s, n)
<1>1. ~WaitsAt(graph, s)
    BY DEF PlainRun, WaitsAt
<1>2. \A h \in {"goes on", "cuts"} :
         /\ Ran(graph, s, h).todo = IF h = "goes on" THEN Calls(Matched(graph, n)) \o Tail(s.todo)
                             ELSE Tail(s.todo)
         /\ Ran(graph, s, h).count = s.count /\ Ran(graph, s, h).branches = s.branches
         /\ Ran(graph, s, h).loops = s.loops /\ Ran(graph, s, h).items = s.items
    BY DEF PlainRun, Ran, Onward, CountAfter, BranchesAfter, LoopsAfter, ItemsAfter
<1>3. temporary' = temporary
    BY DEF PlainRun
<1>4. CASE TaskOk(n, Calls(Matched(graph, n)))
  <2>1. Becomes(Ran(graph, s, "goes on"))
      BY <1>2, <1>3, <1>4 DEF TaskOk, At, Becomes, temporary
  <2> QED
      BY <1>1, <1>4, <2>1 DEF Does
<1>5. CASE TaskInterrupts(n)
  <2>1. Becomes(Ran(graph, s, "cuts"))
      BY <1>2, <1>3, <1>5 DEF TaskInterrupts, At, Becomes, temporary
  <2> QED
      BY <1>1, <1>5, <2>1 DEF Does
<1> QED
    BY <1>4, <1>5 DEF PlainRun, TaskCuts, Does

LEMMA ExclusiveDoes ==
    ASSUME NEW s, At(s), NEW n, Head(s.todo).node = n, ExclusiveRun(n) PROVE Does(s, n)
<1>1. ~WaitsAt(graph, s)
    BY DEF ExclusiveRun, WaitsAt
<1>2. \A h \in {"goes on", "cuts"} :
         /\ Ran(graph, s, h).todo = IF h = "goes on" THEN Calls(Chosen(graph, n)) \o Tail(s.todo)
                             ELSE Tail(s.todo)
         /\ Ran(graph, s, h).count = s.count /\ Ran(graph, s, h).branches = s.branches
         /\ Ran(graph, s, h).loops = s.loops /\ Ran(graph, s, h).items = s.items
    BY DEF ExclusiveRun, Ran, Onward, CountAfter, BranchesAfter, LoopsAfter, ItemsAfter
<1>3. temporary' = temporary
    BY DEF ExclusiveRun
<1>4. CASE TaskOk(n, Calls(Chosen(graph, n)))
  <2>1. Becomes(Ran(graph, s, "goes on"))
      BY <1>2, <1>3, <1>4 DEF TaskOk, At, Becomes, temporary
  <2> QED
      BY <1>1, <1>4, <2>1 DEF Does
<1>5. CASE TaskInterrupts(n)
  <2>1. Becomes(Ran(graph, s, "cuts"))
      BY <1>2, <1>3, <1>5 DEF TaskInterrupts, At, Becomes, temporary
  <2> QED
      BY <1>1, <1>5, <2>1 DEF Does
<1> QED
    BY <1>4, <1>5 DEF ExclusiveRun, TaskCuts, Does

LEMMA ParallelDoes ==
    ASSUME NEW s, At(s), NEW n, Head(s.todo).node = n, ParallelRun(n) PROVE Does(s, n)
<1>1. WaitsAt(graph, s) <=> Indegree(graph, n) > count[n] + 1
    BY DEF ParallelRun, WaitsAt, At
<1>2. \A h \in {"waits", "goes on", "cuts"} :
         /\ Ran(graph, s, h).todo = IF h = "goes on" THEN Calls(graph.links[n]) \o Tail(s.todo)
                             ELSE Tail(s.todo)
         /\ Ran(graph, s, h).count = [s.count EXCEPT ![n] = IF h = "goes on" THEN 0 ELSE s.count[n] + 1]
         /\ Ran(graph, s, h).branches = s.branches
         /\ Ran(graph, s, h).loops = s.loops /\ Ran(graph, s, h).items = s.items
    BY DEF ParallelRun, Ran, Onward, CountAfter, BranchesAfter, LoopsAfter, ItemsAfter
<1>3. UNCHANGED <<branches, loops, items>>
    BY DEF ParallelRun
<1>4. CASE Indegree(graph, n) > count[n] + 1 /\ Waits /\ count' = [count EXCEPT ![n] = count[n] + 1]
  <2>1. Becomes(Ran(graph, s, "waits"))
      BY <1>2, <1>3, <1>4 DEF Waits, At, Becomes
  <2> QED
      BY <1>1, <1>4, <2>1 DEF Does
<1>5. CASE /\ ~(Indegree(graph, n) > count[n] + 1)
           /\ TaskOk(n, Calls(graph.links[n])) /\ count' = [count EXCEPT ![n] = 0]
  <2>1. Becomes(Ran(graph, s, "goes on"))
      BY <1>2, <1>3, <1>5 DEF TaskOk, At, Becomes
  <2> QED
      BY <1>1, <1>5, <2>1 DEF Does
<1>6. CASE /\ ~(Indegree(graph, n) > count[n] + 1)
           /\ TaskInterrupts(n) /\ count' = [count EXCEPT ![n] = count[n] + 1]
  <2>1. Becomes(Ran(graph, s, "cuts"))
      BY <1>2, <1>3, <1>6 DEF TaskInterrupts, At, Becomes
  <2> QED
      BY <1>1, <1>6, <2>1 DEF Does
<1> QED
    BY <1>4, <1>5, <1>6 DEF ParallelRun, TaskCuts, Does

LEMMA InclusiveDoes ==
    ASSUME NEW s, At(s), NEW n, Head(s.todo).node = n, InclusiveRun(n) PROVE Does(s, n)
<1> DEFINE joins   == Indegree(graph, n) > 1 /\ branches # <<>>
           arrived == IF joins THEN count[n] + 1 ELSE count[n]
           waits   == joins /\ branches[Len(branches)] > arrived
           popped  == IF joins THEN Front(branches) ELSE branches
           out     == Len(Matched(graph, n))
<1>1. Joining(graph, s) <=> joins
    BY DEF Joining, At
<1>2. WaitsAt(graph, s) <=> waits
    BY <1>1 DEF InclusiveRun, WaitsAt, At
<1>3. \A h \in {"waits", "goes on", "cuts"} :
         /\ Ran(graph, s, h).todo = IF h = "goes on" THEN Calls(Matched(graph, n)) \o Tail(s.todo)
                             ELSE Tail(s.todo)
         /\ Ran(graph, s, h).count = [count EXCEPT ![n] = arrived]
         /\ Ran(graph, s, h).branches = IF h = "waits" THEN branches
                                 ELSE IF h = "goes on" /\ out > 0 THEN Append(popped, out)
                                 ELSE popped
         /\ Ran(graph, s, h).loops = s.loops /\ Ran(graph, s, h).items = s.items
  <2>1. graph.type[n] = "inclusive"
      BY DEF InclusiveRun
  <2> QED
      BY <1>1, <2>1 DEF Ran, Onward, CountAfter, BranchesAfter, LoopsAfter, ItemsAfter, At
<1>4. /\ UNCHANGED <<loops, items>> /\ count' = [count EXCEPT ![n] = arrived]
      /\ \/ waits /\ Waits /\ UNCHANGED branches
         \/ /\ ~waits /\ TaskOk(n, Calls(Matched(graph, n)))
            /\ branches' = IF out > 0 THEN Append(popped, out) ELSE popped
         \/ ~waits /\ TaskCuts(n) /\ branches' = popped
    BY DEF InclusiveRun
<1> HIDE DEF joins, arrived, waits, popped, out
<1>5. CASE waits /\ Waits /\ UNCHANGED branches
  <2>1. Becomes(Ran(graph, s, "waits"))
      BY <1>3, <1>4, <1>5 DEF Waits, At, Becomes
  <2> QED
      BY <1>2, <1>5, <2>1 DEF Does
<1>6. CASE /\ ~waits /\ TaskOk(n, Calls(Matched(graph, n)))
           /\ branches' = IF out > 0 THEN Append(popped, out) ELSE popped
  <2>1. Becomes(Ran(graph, s, "goes on"))
      BY <1>3, <1>4, <1>6 DEF TaskOk, At, Becomes
  <2> QED
      BY <1>2, <1>6, <2>1 DEF Does
<1>7. CASE ~waits /\ TaskInterrupts(n) /\ branches' = popped
  <2>1. Becomes(Ran(graph, s, "cuts"))
      BY <1>3, <1>4, <1>7 DEF TaskInterrupts, At, Becomes
  <2> QED
      BY <1>2, <1>7, <2>1 DEF Does
<1> QED
    BY <1>4, <1>5, <1>6, <1>7 DEF TaskCuts, Does

LEMMA LoopInDoes ==
    ASSUME NEW s, At(s), NEW n, Head(s.todo).node = n, LoopInRun(n) PROVE Does(s, n)
<1> DEFINE waits  == loops # <<>> /\ HasNext(loops[Len(loops)])
           popped == IF loops = <<>> THEN loops ELSE Front(loops)
<1>1. WaitsAt(graph, s) <=> waits
    BY DEF LoopInRun, WaitsAt, HasNext, At
<1>2. \A h \in {"waits", "goes on", "cuts"} :
         /\ Ran(graph, s, h).todo = IF h = "goes on" THEN Calls(Matched(graph, n)) \o Tail(s.todo)
                             ELSE Tail(s.todo)
         /\ Ran(graph, s, h).count = s.count /\ Ran(graph, s, h).branches = s.branches
         /\ Ran(graph, s, h).loops = IF h = "waits" THEN loops ELSE popped
         /\ Ran(graph, s, h).items = s.items
  <2>1. graph.type[n] = "loopIn"
      BY DEF LoopInRun
  <2> QED
      BY <2>1 DEF Ran, Onward, CountAfter, BranchesAfter, LoopsAfter, ItemsAfter, At
<1>3. /\ UNCHANGED <<count, branches, items>>
      /\ \/ waits /\ Waits /\ UNCHANGED loops
         \/ ~waits /\ TaskOk(n, Calls(Matched(graph, n))) /\ loops' = popped
         \/ ~waits /\ TaskCuts(n) /\ loops' = popped
    BY DEF LoopInRun
<1> HIDE DEF waits, popped
<1>4. CASE waits /\ Waits /\ UNCHANGED loops
  <2>1. Becomes(Ran(graph, s, "waits"))
      BY <1>2, <1>3, <1>4 DEF Waits, At, Becomes
  <2> QED
      BY <1>1, <1>4, <2>1 DEF Does
<1>5. CASE ~waits /\ TaskOk(n, Calls(Matched(graph, n))) /\ loops' = popped
  <2>1. Becomes(Ran(graph, s, "goes on"))
      BY <1>2, <1>3, <1>5 DEF TaskOk, At, Becomes
  <2> QED
      BY <1>1, <1>5, <2>1 DEF Does
<1>6. CASE ~waits /\ TaskInterrupts(n) /\ loops' = popped
  <2>1. Becomes(Ran(graph, s, "cuts"))
      BY <1>2, <1>3, <1>6 DEF TaskInterrupts, At, Becomes
  <2> QED
      BY <1>1, <1>6, <2>1 DEF Does
<1> QED
    BY <1>3, <1>4, <1>5, <1>6 DEF TaskCuts, Does

LEMMA LoopOutDoes ==
    ASSUME NEW s, At(s), NEW n, Head(s.todo).node = n, LoopOutRun(n) PROVE Does(s, n)
<1> DEFINE it   == Len(items) + 1
           next == <<[call |-> "iterate", node |-> n, it |-> it]>>
<1>1. graph.type[n] = "loopOut" /\ UNCHANGED <<count, branches>>
    BY DEF LoopOutRun
<1>2. ~WaitsAt(graph, s)
    BY <1>1 DEF WaitsAt
<1>3. \A h \in {"goes on", "cuts"} :
         /\ Ran(graph, s, h).todo = IF h = "goes on" THEN next \o Tail(s.todo) ELSE Tail(s.todo)
         /\ Ran(graph, s, h).count = s.count /\ Ran(graph, s, h).branches = s.branches
         /\ Ran(graph, s, h).loops = IF h = "goes on" THEN Append(loops, it) ELSE loops
         /\ Ran(graph, s, h).items = IF h = "goes on" THEN Append(items, graph.items[n]) ELSE items
    BY <1>1 DEF Ran, Onward, CountAfter, BranchesAfter, LoopsAfter, ItemsAfter, At
<1>4. \/ /\ TaskOk(n, next)
         /\ items' = Append(items, graph.items[n]) /\ loops' = Append(loops, it)
      \/ TaskCuts(n) /\ UNCHANGED <<items, loops>>
    BY DEF LoopOutRun
<1> HIDE DEF it, next
<1>5. CASE /\ TaskOk(n, next)
           /\ items' = Append(items, graph.items[n]) /\ loops' = Append(loops, it)
  <2>1. Becomes(Ran(graph, s, "goes on"))
      BY <1>1, <1>3, <1>5 DEF TaskOk, At, Becomes
  <2> QED
      BY <1>2, <1>5, <2>1 DEF Does
<1>6. CASE TaskInterrupts(n) /\ UNCHANGED <<items, loops>>
  <2>1. Becomes(Ran(graph, s, "cuts"))
      BY <1>1, <1>3, <1>6 DEF TaskInterrupts, At, Becomes
  <2> QED
      BY <1>2, <1>6, <2>1 DEF Does
<1> QED
    BY <1>4, <1>5, <1>6 DEF TaskCuts, Does

LEMMA VisitDoes ==
    ASSUME NEW s, At(s), NEW n \in Nodes(graph), Visit(n), ~OutOfSteps(n)
    PROVE  /\ s.todo # <<>> /\ Head(s.todo) = Call(n) /\ Head(s.todo).node = n
           /\ NodeRun(n) /\ Does(s, n)
<1>1. NodeRun(n)
    BY DEF Visit, PlainRun, ExclusiveRun, InclusiveRun, ParallelRun, LoopInRun, LoopOutRun
<1>2. s.todo # <<>> /\ Head(s.todo) = Call(n) /\ Head(s.todo).node = n
    BY <1>1 DEF NodeRun, Entered, At, Call
<1> QED
    BY <1>1, <1>2, PlainDoes, ExclusiveDoes, InclusiveDoes, ParallelDoes, LoopInDoes, LoopOutDoes
       DEF Visit

-------------------------------------------------------------------------------
(* The graph.                                                                    *)
LEMMA Incoming ==
    ASSUME NEW g \in Graphs, NEW n
    PROVE  IsFiniteSet(PrevLinks(g, n)) /\ Indegree(g, n) \in Nat
<1>1. IsGraph(g) /\ IsFiniteSet(Nodes(g))
  <2>1. IsGraph(g)
      BY FlowGraphs
  <2>2. g.type \in Seq(Types)
      BY <2>1 DEF IsGraph
  <2>3. Nodes(g) = 1..Len(g.type) /\ Len(g.type) \in Nat
      BY <2>2 DEF Nodes
  <2> QED
      BY <2>1, <2>3, FS_Interval
<1>2. \A m \in Nodes(g) : IsFiniteSet({m} \X DOMAIN g.links[m])
  <2> SUFFICES ASSUME NEW m \in Nodes(g) PROVE IsFiniteSet({m} \X DOMAIN g.links[m])
      OBVIOUS
  <2>1. \E k \in Nat : DOMAIN g.links[m] = 1..k
      BY <1>1 DEF IsGraph
  <2>2. IsFiniteSet(DOMAIN g.links[m])
      BY <2>1, FS_Interval
  <2> QED
      BY <2>2, FS_Singleton, FS_Product
<1>3. IsFiniteSet(Positions(g))
  <2> DEFINE sets == {{m} \X DOMAIN g.links[m] : m \in Nodes(g)}
             f == [m \in Nodes(g) |-> {m} \X DOMAIN g.links[m]]
  <2>1. IsFiniteSet(sets)
    <3>1. f \in Surjection(Nodes(g), sets)
        BY DEF Surjection
    <3> QED
        BY <1>1, <3>1, FS_Surjection
  <2>2. \A x \in sets : IsFiniteSet(x)
      BY <1>2
  <2> QED
      BY <2>1, <2>2, FS_UNION DEF Positions
<1> QED
    BY <1>3, FS_Subset, FS_CardinalityType DEF PrevLinks, Indegree

LEMMA MinOfTwo ==
    ASSUME NEW a \in Nat, NEW b \in Nat
    PROVE  Min({a, b}) = IF a <= b THEN a ELSE b
    BY DEF Min

-------------------------------------------------------------------------------
(* What a walk does to its counters and to the history.                          *)
Typed(g, s) == s.count \in [Nodes(g) -> Nat] /\ s.done \in [Nodes(g) -> 0 .. MaxDone]

LEMMA RanTyped ==
    ASSUME NEW g \in Graphs, NEW s, Typed(g, s), NEW h
    PROVE  /\ Typed(g, Ran(g, s, h))
           /\ \A m \in Nodes(g) : s.done[m] <= Ran(g, s, h).done[m]
           /\ h = "goes on" /\ Head(s.todo).node \in Nodes(g) =>
                 Ran(g, s, h).done[Head(s.todo).node] =
                    Min({s.done[Head(s.todo).node] + 1, MaxDone})
<1> DEFINE n == Head(s.todo).node
<1>1. /\ Ran(g, s, h).count = CountAfter(g, s, h)
      /\ Ran(g, s, h).done = IF h = "goes on" THEN [s.done EXCEPT ![n] = Min({s.done[n] + 1, MaxDone})]
                             ELSE s.done
    BY DEF Ran
<1> HIDE DEF n
<1>2. CountAfter(g, s, h) \in [Nodes(g) -> Nat]
  <2>1. \A m : \A k \in Nat : [s.count EXCEPT ![m] = k] \in [Nodes(g) -> Nat]
      BY DEF Typed
  <2>2. CASE n \in Nodes(g)
    <3>1. s.count[n] \in Nat /\ s.count[n] + 1 \in Nat /\ s.count \in [Nodes(g) -> Nat]
        BY <2>2 DEF Typed
    <3> QED
        BY <2>1, <3>1 DEF CountAfter, n
  <2>3. CASE n \notin Nodes(g)
    <3>1. s.count \in [Nodes(g) -> Nat] /\ \A k : [s.count EXCEPT ![n] = k] = s.count
        BY <2>3 DEF Typed
    <3> QED
        BY <3>1 DEF CountAfter, n
  <2> QED
      BY <2>2, <2>3
<1>3. MaxDone \in Nat /\ s.done \in [Nodes(g) -> 0 .. MaxDone]
    BY FlowBounds DEF Typed
<1>4. \A m \in Nodes(g) : /\ Min({s.done[m] + 1, MaxDone}) \in 0 .. MaxDone
                          /\ s.done[m] <= Min({s.done[m] + 1, MaxDone})
    BY <1>3, MinOfTwo
<1>5. /\ Ran(g, s, h).done \in [Nodes(g) -> 0 .. MaxDone]
      /\ \A m \in Nodes(g) : s.done[m] <= Ran(g, s, h).done[m]
  <2> DEFINE k == Min({s.done[n] + 1, MaxDone})
             t == [s.done EXCEPT ![n] = k]
  <2>1. CASE h = "goes on" /\ n \in Nodes(g)
    <3>1. k \in 0 .. MaxDone /\ s.done[n] <= k
        BY <1>4, <2>1
    <3>2. Ran(g, s, h).done = t
        BY <1>1, <2>1
    <3> HIDE DEF k
    <3>3. /\ t \in [Nodes(g) -> 0 .. MaxDone]
          /\ \A m \in Nodes(g) : t[m] = IF m = n THEN k ELSE s.done[m]
        BY <1>3, <3>1
    <3> QED
        BY <1>3, <3>1, <3>2, <3>3
  <2>2. CASE h # "goes on" \/ n \notin Nodes(g)
    <3>1. t = s.done \/ h # "goes on"
        BY <1>3, <2>2
    <3>2. Ran(g, s, h).done = s.done
        BY <1>1, <3>1
    <3> QED
        BY <1>3, <3>2
  <2> QED
      BY <2>1, <2>2
<1> QED
    BY <1>1, <1>2, <1>3, <1>5 DEF Typed, n

LEMMA GoTyped ==
    ASSUME NEW g \in Graphs, NEW s, Typed(g, s)
    PROVE  /\ Typed(g, Go(g, s))
           /\ \A m \in Nodes(g) : s.done[m] <= Go(g, s).done[m]
<1>1. /\ Iterated(g, s).count = s.count /\ Iterated(g, s).done = s.done
    BY DEF Iterated
<1>2. Typed(g, Iterated(g, s)) /\ \A m \in Nodes(g) : s.done[m] <= Iterated(g, s).done[m]
    BY <1>1, FlowBounds DEF Typed
<1> QED
    BY <1>2, RanTyped DEF Go

LEMMA GoAtCall ==
    ASSUME NEW g, NEW s, NEW n, Head(s.todo) = Call(n)
    PROVE  /\ Head(s.todo).node = n
           /\ WaitsAt(g, s) => Go(g, s) = Ran(g, s, "waits")
           /\ ~WaitsAt(g, s) => Go(g, s) = Ran(g, s, "goes on")
<1>1. Head(s.todo).node = n /\ Head(s.todo).call # "iterate"
    BY DEF Call
<1> QED
    BY <1>1 DEF Go

Bumped(d, n) == [d EXCEPT ![n] = Min({@ + 1, MaxDone})]

LEMMA RanWaits ==
    ASSUME NEW g, NEW s
    PROVE  Ran(g, s, "waits").cuts = s.cuts /\ Ran(g, s, "waits").done = s.done
    BY DEF Ran

LEMMA RanGoesOn ==
    ASSUME NEW g, NEW s
    PROVE  /\ Ran(g, s, "goes on").cuts = s.cuts
           /\ Ran(g, s, "goes on").done = Bumped(s.done, Head(s.todo).node)
    BY DEF Ran, Bumped

LEMMA RanCuts ==
    ASSUME NEW g, NEW s
    PROVE  Ran(g, s, "cuts").cuts = s.cuts + 1 /\ Ran(g, s, "cuts").done = s.done
    BY DEF Ran

(* A node that is no join is never waited at.                                    *)
LEMMA OnlyJoinsWait ==
    ASSUME NEW g \in Graphs, NEW s, Typed(g, s), NEW n \in Nodes(g) \ Joins(g),
           Head(s.todo) = Call(n)
    PROVE  Go(g, s) = Ran(g, s, "goes on") /\ Head(s.todo).node = n
<1>1. Head(s.todo).node = n /\ Head(s.todo).call # "iterate"
    BY DEF Call
<1>2. /\ g.type[n] # "loopIn"
      /\ g.type[n] \in {"parallel", "inclusive"} => ~(Indegree(g, n) > 1)
      /\ Indegree(g, n) \in Nat /\ s.count[n] \in Nat
    BY Incoming DEF Joins, Typed
<1>3. ~WaitsAt(g, s)
    BY <1>1, <1>2 DEF WaitsAt, Joining
<1> QED
    BY <1>1, <1>3 DEF Go

LEMMA PassedIsCounted ==
    ASSUME NEW g \in Graphs, NEW s, Typed(g, s), NEW n \in Nodes(g) \ Joins(g),
           Head(s.todo) = Call(n)
    PROVE  /\ Go(g, s).done[n] = IF s.done[n] < MaxDone THEN s.done[n] + 1 ELSE MaxDone
           /\ s.done[n] \in Nat /\ MaxDone \in Nat
<1>1. Go(g, s) = Ran(g, s, "goes on") /\ Head(s.todo).node = n
    BY OnlyJoinsWait
<1>2. Ran(g, s, "goes on").done[n] = Min({s.done[n] + 1, MaxDone})
    BY <1>1, RanTyped
<1>3. s.done[n] \in Nat /\ s.done[n] + 1 \in Nat /\ MaxDone \in Nat
    BY FlowBounds DEF Typed
<1>4. Min({s.done[n] + 1, MaxDone}) = IF s.done[n] + 1 <= MaxDone THEN s.done[n] + 1 ELSE MaxDone
    BY <1>3, MinOfTwo
<1>5. Go(g, s).done[n] = Min({s.done[n] + 1, MaxDone})
    BY <1>1, <1>2
<1>6. \A d \in Nat, m \in Nat :
         (IF d + 1 <= m THEN d + 1 ELSE m) = (IF d < m THEN d + 1 ELSE m)
    OBVIOUS
<1> QED
    BY <1>3, <1>4, <1>5, <1>6

-------------------------------------------------------------------------------
(* A stretch of a walk.  A node that is no join and was passed is in the history *)
(* of all that follows.                                                          *)
Stretch(g, W, tr) ==
    /\ tr \in Seq(W) /\ tr # <<>>
    /\ \A i \in 1 .. Len(tr) : Typed(g, tr[i])
    /\ \A i \in 1 .. (Len(tr) - 1) : tr[i].todo # <<>> /\ tr[i + 1] = Go(g, tr[i])
    /\ \A i \in 1 .. (Len(tr) - 1), n \in Nodes(g) \ Joins(g) :
          Head(tr[i].todo) = Call(n) => tr[Len(tr)].done[n] > 0

LEMMA StretchOfOne ==
    ASSUME NEW g, NEW W, NEW s \in W, Typed(g, s)
    PROVE  Stretch(g, W, <<s>>) /\ Len(<<s>>) = 1 /\ <<s>>[1] = s
    BY DEF Stretch

LEMMA StretchGrows ==
    ASSUME NEW g \in Graphs, NEW W, Closed(g, W), NEW tr, Stretch(g, W, tr),
           tr[Len(tr)].todo # <<>>, MaxDone > 0
    PROVE  LET s == tr[Len(tr)]
               t == Append(tr, Go(g, s))
           IN  /\ Stretch(g, W, t) /\ Len(t) = Len(tr) + 1 /\ t[Len(t)] = Go(g, s) /\ t[1] = tr[1]
               /\ \A i \in 1 .. Len(tr) : t[i] = tr[i]
<1> DEFINE s == tr[Len(tr)]
           u == Go(g, s)
           t == Append(tr, u)
<1>1. /\ tr \in Seq(W) /\ Len(tr) \in Nat \ {0} /\ Len(tr) \in 1 .. Len(tr) /\ 1 \in 1 .. Len(tr)
      /\ s \in W /\ Typed(g, s)
    BY DEF Stretch
<1>2. u \in W /\ Typed(g, u) /\ \A m \in Nodes(g) : s.done[m] <= u.done[m]
    BY <1>1, GoTyped DEF Closed
<1>3. \A n \in Nodes(g) \ Joins(g) : Head(s.todo) = Call(n) => u.done[n] > 0
  <2> SUFFICES ASSUME NEW n \in Nodes(g) \ Joins(g), Head(s.todo) = Call(n) PROVE u.done[n] > 0
      OBVIOUS
  <2>1. /\ u.done[n] = IF s.done[n] < MaxDone THEN s.done[n] + 1 ELSE MaxDone
        /\ s.done[n] \in Nat
      BY <1>1, PassedIsCounted
  <2> QED
      BY <2>1
<1> HIDE DEF u
<1>4. /\ t \in Seq(W) /\ Len(t) = Len(tr) + 1 /\ t[Len(t)] = u /\ t # <<>>
      /\ \A i \in 1 .. Len(tr) : t[i] = tr[i]
    BY <1>1, <1>2
<1> HIDE DEF t
<1>5. \A i \in 1 .. Len(t) : Typed(g, t[i])
    BY <1>1, <1>2, <1>4 DEF Stretch
<1>6. \A i \in 1 .. (Len(t) - 1) : t[i].todo # <<>> /\ t[i + 1] = Go(g, t[i])
  <2> SUFFICES ASSUME NEW i \in 1 .. Len(tr) PROVE t[i].todo # <<>> /\ t[i + 1] = Go(g, t[i])
      BY <1>1, <1>4
  <2>1. CASE i = Len(tr)
      BY <1>1, <1>4, <2>1 DEF u
  <2>2. CASE i # Len(tr)
    <3>1. i \in 1 .. (Len(tr) - 1) /\ i + 1 \in 1 .. Len(tr)
        BY <1>1, <2>2
    <3> QED
        BY <1>4, <3>1 DEF Stretch
  <2> QED
      BY <2>1, <2>2
<1>7. \A i \in 1 .. (Len(t) - 1), n \in Nodes(g) \ Joins(g) :
         Head(t[i].todo) = Call(n) => t[Len(t)].done[n] > 0
  <2> SUFFICES ASSUME NEW i \in 1 .. Len(tr), NEW n \in Nodes(g) \ Joins(g),
                      Head(t[i].todo) = Call(n)
               PROVE  u.done[n] > 0
      BY <1>1, <1>4
  <2>1. CASE i = Len(tr)
      BY <1>3, <1>4, <2>1
  <2>2. CASE i # Len(tr)
    <3>1. i \in 1 .. (Len(tr) - 1)
        BY <1>1, <2>2
    <3>2. s.done[n] > 0
        BY <1>4, <3>1 DEF Stretch
    <3>3. s.done[n] \in Nat /\ u.done[n] \in Nat
        BY <1>1, <1>2, FlowBounds DEF Typed
    <3> QED
        BY <1>2, <3>2, <3>3
  <2> QED
      BY <2>1, <2>2
<1>8. Stretch(g, W, t)
    BY <1>4, <1>5, <1>6, <1>7 DEF Stretch
<1> QED
    BY <1>1, <1>4, <1>8 DEF t, u

-------------------------------------------------------------------------------
(* What is between a clean instance and a walk: a stretch of a walk that starts  *)
(* at Start and ends where the instance came to before it was last evaluated,    *)
(* and then goes with it.  A re-walk is somewhere on that stretch, and meets its *)
(* end when, and only when, it meets the node to revert to.                      *)
Sound(g, W) == Closed(g, W) /\ \A s \in W : SoundState(g, s)
Walks(g)    == CHOOSE W : Sound(g, W)

End(tr) == tr[Len(tr)]

(* Where the stretch met, for the first time, the node that was recorded last:   *)
(* what had been done there is what has been done, but for that node.            *)
Single(g, n) == Times(g)[n] = 1 /\ n \notin Joins(g)
Recent(tr)   == \E k \in 1 .. (Len(tr) - 1) :
                   /\ Head(tr[k].todo) = Call(Point) /\ tr[k].cuts = 0
                   /\ tr[k].done = [done EXCEPT ![Point] = 0]
                   /\ \A i \in 1 .. (k - 1) : Head(tr[i].todo) # Call(Point)

Unstarted(tr) == /\ evals = 0 /\ phase = "idle" /\ last = 0 /\ interrupts = 0
                 /\ tr = <<Start(graph)>>
Back(tr)   == /\ evals > 0 /\ phase = "running" /\ reverting /\ outcome = "ran"
              /\ interrupts = 0 /\ startNode = Point
              /\ End(tr).todo # <<>> /\ Head(End(tr).todo) = Call(startNode)
              /\ \A i \in 1 .. (Len(tr) - 1) : Head(tr[i].todo) # Call(startNode)
              /\ \E k \in 1 .. Len(tr) : At(tr[k])
On(tr)     == /\ evals > 0 /\ ~reverting /\ outcome = "ran" /\ At(End(tr))
              /\ interrupts = 0 /\ Single(graph, Point) => Recent(tr)
Halted(tr) == /\ evals > 0 /\ outcome # "ran" /\ todo = <<>>
              /\ End(tr).todo # <<>> /\ Head(End(tr).todo) = Call(Point)

Traced(tr) ==
    /\ Stretch(graph, Walks(graph), tr)
    /\ done = End(tr).done /\ interrupts = End(tr).cuts
    /\ interrupts = 0 => tr[1] = Start(graph)
    /\ Unstarted(tr) \/ Back(tr) \/ On(tr) \/ Halted(tr)

EngineTypes == /\ graph \in Graphs /\ last \in Nodes(graph) \cup {0}
               /\ interrupts \in Nat /\ evals \in Nat
               /\ phase = "idle" => todo = <<>>

ReWalkInv == /\ EngineTypes
             /\ clean => Sound(graph, Walks(graph)) /\ \E tr : Traced(tr)

LEMMA NodesAreNumbers ==
    ASSUME NEW g \in Graphs PROVE 0 \notin Nodes(g) /\ 1 \in Nodes(g)
<1>1. IsGraph(g)
    BY FlowGraphs
<1>2. g.type \in Seq(Types) /\ g.type # <<>>
    BY <1>1 DEF IsGraph
<1>3. Nodes(g) = 1..Len(g.type) /\ Len(g.type) \in Nat \ {0}
    BY <1>2 DEF Nodes
<1> QED
    BY <1>3

MetFirst(g, tr, n) ==
    /\ End(tr).done[n] = 0 /\ End(tr).done = [Go(g, End(tr)).done EXCEPT ![n] = 0]
    /\ \A i \in 1 .. (Len(tr) - 1) : Head(tr[i].todo) # Call(n)

(* A stretch that comes to a node that runs once comes to it for the first time: *)
(* it would pass it twice.                                                       *)
LEMMA MetOnce ==
    ASSUME NEW g \in Graphs, NEW W, Sound(g, W), MaxDone > 1, NEW tr, Stretch(g, W, tr),
           NEW n \in Nodes(g), Single(g, n), End(tr).todo # <<>>, Head(End(tr).todo) = Call(n)
    PROVE  MetFirst(g, tr, n)
<1> DEFINE s == End(tr)
<1>1. s \in W /\ Typed(g, s)
    BY DEF Stretch, End
<1>2. n \in Nodes(g) \ Joins(g) /\ Times(g)[n] = 1
    BY DEF Single
<1>3. s.done[n] = 0
  <2>1. /\ Go(g, s).done[n] = IF s.done[n] < MaxDone THEN s.done[n] + 1 ELSE MaxDone
        /\ s.done[n] \in Nat /\ MaxDone \in Nat
      BY <1>1, <1>2, PassedIsCounted
  <2>2. SoundState(g, Go(g, s))
      BY <1>1 DEF Sound, Closed
  <2>3. Go(g, s).done[n] <= 1
      BY <1>2, <2>2 DEF SoundState
  <2> QED
      BY <2>1, <2>3
<1>4. \A i \in 1 .. (Len(tr) - 1) : Head(tr[i].todo) # Call(n)
  <2>1. \A i \in 1 .. (Len(tr) - 1) : Head(tr[i].todo) = Call(n) => s.done[n] > 0
      BY <1>2 DEF Stretch, End
  <2> QED
      BY <1>3, <2>1
<1>5. s.done = [Go(g, s).done EXCEPT ![n] = 0]
  <2>0. Go(g, s) = Ran(g, s, "goes on") /\ Head(s.todo).node = n
      BY <1>1, <1>2, OnlyJoinsWait
  <2>1. Go(g, s).done = Bumped(s.done, n)
      BY <2>0, RanGoesOn
  <2>2. s.done \in [Nodes(g) -> 0 .. MaxDone]
      BY <1>1 DEF Typed
  <2>3. \A v : \A f \in [Nodes(g) -> 0 .. MaxDone] :
           f[n] = 0 => f = [[f EXCEPT ![n] = v] EXCEPT ![n] = 0]
      OBVIOUS
  <2>4. PICK v : Go(g, s).done = [s.done EXCEPT ![n] = v]
      BY <2>1 DEF Bumped
  <2> QED
      BY <1>3, <2>2, <2>3, <2>4
<1> QED
    BY <1>3, <1>4, <1>5 DEF MetFirst

(* A visit that is not skipped continues the stretch, halts the evaluation at    *)
(* its end, or cuts a branch.                                                    *)
LEMMA VisitContinues ==
    ASSUME EngineTypes, Sound(graph, Walks(graph)), MaxDone > 1,
           NEW tr, Stretch(graph, Walks(graph), tr), At(End(tr)),
           done = End(tr).done, interrupts = End(tr).cuts, interrupts = 0 => tr[1] = Start(graph),
           evals > 0, outcome = "ran",
           NEW n \in Nodes(graph), Visit(n), ~reverting', Point' = n, clean'
    PROVE  \E t : Traced(t)'
<1> DEFINE s == End(tr)
<1>1. /\ tr # <<>> /\ s \in Walks(graph) /\ Typed(graph, s) /\ Closed(graph, Walks(graph))
      /\ MaxDone > 0
    BY FlowBounds DEF Stretch, Sound, End
<1>2. CASE OutOfSteps(n)
  <2>1. /\ UNCHANGED <<graph, done, interrupts, evals>> /\ outcome' = "stopped" /\ todo' = <<>>
        /\ s.todo # <<>> /\ Head(s.todo) = Call(n)
      BY <1>2 DEF OutOfSteps, Entered, At, history
  <2>2. Halted(tr)'
      BY <2>1 DEF Halted, End
  <2> QED
      BY <2>1, <2>2 DEF Traced, End
<1>3. CASE ~OutOfSteps(n)
  <2>1. /\ s.todo # <<>> /\ Head(s.todo) = Call(n) /\ Head(s.todo).node = n
        /\ NodeRun(n) /\ Does(s, n)
      BY <1>3, VisitDoes
  <2>2. UNCHANGED <<graph, evals, phase>>
      BY <2>1 DEF NodeRun
  <2>3. CASE Becomes(Go(graph, s)) /\ UNCHANGED <<outcome, interrupts>>
             /\ done' = Go(graph, s).done /\ Go(graph, s).cuts = s.cuts
    <3>0. PICK t : t = Append(tr, Go(graph, s))
        OBVIOUS
    <3>1. /\ Stretch(graph, Walks(graph), t) /\ End(t) = Go(graph, s) /\ t[1] = tr[1]
        BY <1>1, <2>1, <3>0, StretchGrows DEF End, EngineTypes
    <3>2. At(End(t))'
        BY <2>3, <3>1, <2>2 DEF At, Becomes, End
    <3>3. On(t)'
      <4>1. ASSUME (interrupts = 0 /\ Single(graph, Point))' PROVE Recent(t)'
        <5>1. graph \in Graphs /\ Single(graph, n) /\ Point' = n /\ s.cuts = 0
            BY <2>2, <2>3, <4>1 DEF EngineTypes
        <5>2. s.done = [done' EXCEPT ![n] = 0] /\ \A i \in 1 .. (Len(tr) - 1) : Head(tr[i].todo) # Call(n)
          <6>1. /\ s.done = [Go(graph, s).done EXCEPT ![n] = 0]
                /\ \A i \in 1 .. (Len(tr) - 1) : Head(tr[i].todo) # Call(n)
            <7>1. MetFirst(graph, tr, n)
                BY <2>1, <5>1, MetOnce
            <7> QED
                BY <7>1 DEF MetFirst
          <6>2. done' = Go(graph, s).done
              BY <2>3
          <6> QED
              BY <6>1, <6>2, Zenon
        <5>3. /\ Len(tr) \in Nat \ {0} /\ Len(t) = Len(tr) + 1 /\ t[Len(tr)] = s
              /\ \A i \in 1 .. Len(tr) : t[i] = tr[i]
          <6>1. Len(tr) \in Nat \ {0}
              BY DEF Stretch
          <6>2. Len(t) = Len(tr) + 1 /\ \A i \in 1 .. Len(tr) : t[i] = tr[i]
              BY <1>1, <2>1, <3>0, StretchGrows DEF End, EngineTypes
          <6> QED
              BY <6>1, <6>2 DEF End
        <5> QED
            BY <2>1, <5>1, <5>2, <5>3 DEF Recent
      <4> QED
          BY <2>2, <2>3, <3>2, <4>1 DEF On
    <3>4. End(t)' = End(t)
        BY DEF End
    <3>5. Stretch(graph, Walks(graph), t)'
        BY <2>2, <3>1
    <3>6. (interrupts = End(t).cuts /\ (interrupts = 0 => t[1] = Start(graph)))'
        BY <2>2, <2>3, <3>1, <3>4
    <3> QED
        BY <2>3, <3>1, <3>3, <3>4, <3>5, <3>6 DEF Traced
  <2>4. CASE WaitsAt(graph, s) /\ Waits /\ Becomes(Ran(graph, s, "waits"))
    <3>1. Go(graph, s) = Ran(graph, s, "waits")
        BY <2>1, <2>4, GoAtCall
    <3>2. Go(graph, s).done = s.done /\ Go(graph, s).cuts = s.cuts
        BY <3>1, RanWaits
    <3> QED
        BY <2>3, <2>4, <3>1, <3>2 DEF Waits
  <2>5. CASE /\ ~WaitsAt(graph, s) /\ (\E next : TaskOk(n, next))
             /\ Becomes(Ran(graph, s, "goes on"))
    <3>1. Go(graph, s) = Ran(graph, s, "goes on")
        BY <2>1, <2>5, GoAtCall
    <3>2. /\ Go(graph, s).cuts = s.cuts
          /\ Go(graph, s).done = Bumped(s.done, n)
        BY <2>1, <3>1, RanGoesOn
    <3>3. done' = Bumped(done, n) /\ UNCHANGED <<outcome, interrupts>>
        BY <2>5 DEF TaskOk, Bumped
    <3> QED
        BY <2>3, <2>5, <3>1, <3>2, <3>3
  <2>6. CASE TaskHalts(n)
    <3>1. UNCHANGED <<done, interrupts>> /\ outcome' # "ran" /\ todo' = <<>>
        BY <2>6 DEF TaskHalts
    <3>2. Halted(tr)'
        BY <2>1, <2>2, <3>1 DEF Halted, End
    <3> QED
        BY <2>2, <3>1, <3>2 DEF Traced, End
  <2>7. CASE ~WaitsAt(graph, s) /\ TaskInterrupts(n) /\ Becomes(Ran(graph, s, "cuts"))
    <3>0. PICK u : u = Ran(graph, s, "cuts")
        OBVIOUS
    <3>1. /\ interrupts' # 0 /\ interrupts' = interrupts + 1
          /\ Times(graph)[n] = 1 /\ UNCHANGED <<outcome, done>>
      <4>1. interrupts' = interrupts + 1 /\ UNCHANGED <<outcome, done>>
          BY <2>7 DEF TaskInterrupts
      <4>2. Times(graph)[n] = 1
          BY <2>7 DEF TaskInterrupts
      <4> QED
          BY <4>1, <4>2 DEF EngineTypes
    <3>2. u \in Walks(graph) /\ Typed(graph, u) /\ u.done = s.done /\ u.cuts = s.cuts + 1
      <4>1. u \in Walks(graph)
          BY <1>1, <2>1, <2>7, <3>0, <3>1 DEF Closed
      <4>2. Typed(graph, u)
          BY <1>1, <3>0, RanTyped DEF EngineTypes
      <4> QED
          BY <3>0, <4>1, <4>2, RanCuts
    <3>3. Stretch(graph, Walks(graph), <<u>>) /\ End(<<u>>) = u
        BY <3>2, StretchOfOne DEF End
    <3>4. At(u)'
        BY <2>7, <3>0 DEF At, Becomes
    <3>5. On(<<u>>)' /\ End(<<u>>)' = u
      <4>1. End(<<u>>)' = u
          BY DEF End
      <4> QED
          BY <2>2, <3>1, <3>4, <4>1 DEF On
    <3> QED
        BY <2>2, <3>1, <3>2, <3>3, <3>5 DEF Traced
  <2> QED
      BY <2>1, <2>4, <2>5, <2>6, <2>7 DEF Does
<1> QED
    BY <1>2, <1>3

(* The first evaluation starts where a walk does.  One that follows a halt       *)
(* reverts to the end of the stretch, which is not met before.                   *)
LEMMA StartTyped == ASSUME NEW g \in Graphs PROVE Typed(g, Start(g))
    BY FlowBounds DEF Typed, Start

LEMMA EvalTraces ==
    ASSUME EngineTypes, Sound(graph, Walks(graph)), MaxDone > 1, NEW tr, Traced(tr), Eval, clean'
    PROVE  \E t : Traced(t)'
<1>1. /\ evals' > 0 /\ phase' = "running" /\ outcome' = "ran" /\ reverting' = TRUE
      /\ startNode' = Point' /\ startNode' = Point
      /\ UNCHANGED <<graph, last, done, interrupts>>
    BY DEF Eval, EngineTypes, Point
<1>2. \A s : s = Start(graph) => At(s)' /\ s.todo # <<>> /\ Head(s.todo) = Call(1)
    BY DEF Eval, NewTemporary, At, Start
<1>3. CASE Unstarted(tr)
  <2>1. PICK s : s = Start(graph) /\ tr = <<s>>
      BY <1>3 DEF Unstarted
  <2>2. /\ End(tr) = s /\ Len(tr) = 1 /\ interrupts = 0 /\ last = 0
      BY <1>3, <2>1 DEF End, Unstarted
  <2>3. At(s)' /\ s.todo # <<>> /\ Head(s.todo) = Call(1)
      BY <1>2, <2>1
  <2>4. Back(tr)'
    <3>1. startNode' = 1
        BY <1>1, <2>2 DEF Point
    <3>2. End(tr)' = s /\ tr[1] = s
        BY <2>1 DEF End
    <3> QED
        BY <1>1, <2>2, <2>3, <3>1, <3>2 DEF Back
  <2> QED
      BY <1>1, <2>4 DEF Traced, End
<1>4. CASE Halted(tr)
  <2> DEFINE n == startNode'
             s == End(tr)
  <2>1. /\ interrupts = 0 /\ Times(graph)[n] = 1 /\ n \notin Joins(graph) /\ n \in Nodes(graph)
    <3>1. interrupts = 0 /\ Times(graph)[n] = 1 /\ n \notin Joins(graph)
        BY <1>4 DEF Eval, Halted
    <3>2. Point \in Nodes(graph)
        BY NodesAreNumbers DEF EngineTypes, Point
    <3> QED
        BY <1>1, <3>1, <3>2
  <2>2. /\ s.todo # <<>> /\ Head(s.todo) = Call(n)
      BY <1>1, <1>4 DEF Halted
  <2>3. Stretch(graph, Walks(graph), tr) /\ tr # <<>> /\ tr[1] = Start(graph)
      BY <2>1 DEF Traced, Stretch
  <2>4. /\ Len(tr) \in Nat \ {0} /\ 1 \in 1 .. Len(tr) /\ s \in Walks(graph)
        /\ Typed(graph, s)
      BY <2>3 DEF Stretch, End
  <2>6. \A i \in 1 .. (Len(tr) - 1) : Head(tr[i].todo) # Call(n)
    <3>1. /\ graph \in Graphs /\ Single(graph, n) /\ End(tr).todo # <<>>
          /\ Head(End(tr).todo) = Call(n) /\ n \in Nodes(graph)
        BY <2>1, <2>2 DEF EngineTypes, Single
    <3>2. MetFirst(graph, tr, n)
      <4> HIDE DEF n, s
      <4> QED
          BY <2>3, <3>1, MetOnce
    <3> QED
        BY <3>2 DEF MetFirst
  <2>7. At(tr[1])'
      BY <1>2, <2>3
  <2>8. Back(tr)'
    <3>1. End(tr)' = s
        BY DEF End
    <3> QED
        BY <1>1, <2>1, <2>2, <2>4, <2>6, <2>7, <3>1 DEF Back
  <2> QED
      BY <1>1, <2>8 DEF Traced, End
<1>5. ~Back(tr) /\ ~On(tr)
  <2>1. phase = "idle" /\ (evals > 0 => outcome # "ran")
      BY DEF Eval
  <2> QED
      BY <2>1 DEF Back, On
<1> QED
    BY <1>3, <1>4, <1>5 DEF Traced

LEMMA IterateTraces ==
    ASSUME EngineTypes, Sound(graph, Walks(graph)), MaxDone > 1, NEW tr, Traced(tr), Iterate
    PROVE  \E t : Traced(t)'
<1>1. /\ phase = "running" /\ todo # <<>> /\ Head(todo).call = "iterate"
      /\ UNCHANGED <<graph, phase, outcome, reverting, startNode, last, done, interrupts, evals>>
    BY DEF Iterate, history
<1>2. /\ tr # <<>> /\ Stretch(graph, Walks(graph), tr) /\ Len(tr) \in Nat \ {0}
    BY DEF Traced, Stretch
<1>3. CASE On(tr)
  <2>1. At(End(tr)) /\ End(tr).todo # <<>>
      BY <1>1, <1>3 DEF On, At
  <2>2. /\ Becomes(Go(graph, End(tr)))
        /\ Go(graph, End(tr)).done = End(tr).done /\ Go(graph, End(tr)).cuts = End(tr).cuts
      BY <2>1, IterateIsGo
  <2>3. PICK t : t = Append(tr, Go(graph, End(tr)))
      OBVIOUS
  <2>4. /\ Stretch(graph, Walks(graph), t) /\ End(t) = Go(graph, End(tr)) /\ t[1] = tr[1]
        /\ Len(t) = Len(tr) + 1 /\ \A i \in 1 .. Len(tr) : t[i] = tr[i]
    <3>1. MaxDone > 0 /\ Closed(graph, Walks(graph)) /\ graph \in Graphs
        BY FlowBounds DEF Sound, EngineTypes
    <3> QED
        BY <1>2, <2>1, <2>3, <3>1, StretchGrows DEF End
  <2>5. End(t)' = End(t)
      BY DEF End
  <2>6. At(End(t))'
      BY <2>2, <2>4, <2>5 DEF At, Becomes
  <2>7. On(t)'
    <3>1. interrupts' = interrupts /\ Point' = Point
        BY <1>1 DEF Iterate, history, Point
    <3>2. ASSUME Recent(tr) PROVE Recent(t)'
      <4>1. PICK k \in 1 .. (Len(tr) - 1) :
                    /\ Head(tr[k].todo) = Call(Point) /\ tr[k].cuts = 0
                /\ tr[k].done = [done EXCEPT ![Point] = 0]
                    /\ \A i \in 1 .. (k - 1) : Head(tr[i].todo) # Call(Point)
          BY <3>2 DEF Recent
      <4>2. /\ k \in 1 .. (Len(t) - 1) /\ t[k] = tr[k]
            /\ \A i \in 1 .. (k - 1) : t[i] = tr[i]
          BY <1>2, <2>4
      <4> QED
          BY <1>1, <3>1, <4>1, <4>2 DEF Recent
    <3> QED
        BY <1>1, <1>3, <2>6, <3>1, <3>2 DEF On
  <2>8. interrupts = End(t).cuts /\ done = End(t).done /\ (interrupts = 0 => t[1] = Start(graph))
      BY <2>2, <2>4 DEF Traced
  <2> QED
      BY <1>1, <2>4, <2>5, <2>7, <2>8 DEF Traced
<1>4. CASE Back(tr)
  <2>1. PICK k \in 1 .. Len(tr) : At(tr[k])
      BY <1>4 DEF Back
  <2>2. Head(tr[k].todo).call = "iterate" /\ Becomes(Go(graph, tr[k]))
      BY <2>1, IterateIsGo
  <2>3. k # Len(tr)
    <3>1. Head(End(tr).todo) = Call(startNode)
        BY <1>4 DEF Back
    <3> QED
        BY <2>2, <3>1 DEF End, Call
  <2>4. k \in 1 .. (Len(tr) - 1) /\ k + 1 \in 1 .. Len(tr) /\ tr[k + 1] = Go(graph, tr[k])
      BY <1>2, <2>3 DEF Stretch
  <2>5. At(tr[k + 1])'
      BY <2>2, <2>4 DEF At, Becomes
  <2>6. Back(tr)'
      BY <1>1, <1>4, <2>4, <2>5 DEF Back, End, Point
  <2> QED
      BY <1>1, <2>6 DEF Traced, End
<1> QED
    BY <1>1, <1>3, <1>4 DEF Traced, Unstarted, Halted

(* A visit on the way back repeats the stretch, and leaves no other mark, until  *)
(* it is at the end; from there on an evaluation does what a walk would do.      *)
LEMMA VisitTraces ==
    ASSUME EngineTypes, Sound(graph, Walks(graph)), MaxDone > 1, NEW tr, Traced(tr),
           NEW n \in Nodes(graph), Visit(n), clean'
    PROVE  \E t : Traced(t)'
<1>1. /\ phase = "running" /\ todo # <<>> /\ Head(todo) = Call(n)
      /\ reverting' = (reverting /\ n # startNode)
      /\ last' = IF reverting THEN last ELSE n
    BY DEF Visit, OutOfSteps, PlainRun, ExclusiveRun, InclusiveRun, ParallelRun, LoopInRun,
           LoopOutRun, NodeRun, Entered
<1>2. /\ Stretch(graph, Walks(graph), tr) /\ Len(tr) \in Nat \ {0}
      /\ done = End(tr).done /\ interrupts = End(tr).cuts
      /\ interrupts = 0 => tr[1] = Start(graph)
    BY DEF Traced, Stretch
<1>3. CASE On(tr)
  <2>1. ~reverting' /\ Point' = n
      BY <1>1, <1>3, NodesAreNumbers DEF On, EngineTypes, Point
  <2> QED
      BY <1>2, <1>3, <2>1, VisitContinues DEF On
<1>4. CASE Back(tr)
  <2>1. PICK k \in 1 .. Len(tr) : At(tr[k])
      BY <1>4 DEF Back
  <2>2. Head(tr[k].todo) = Call(n)
      BY <1>1, <2>1 DEF At
  <2>3. CASE n = startNode
    <3>1. k = Len(tr)
        BY <1>2, <1>4, <2>2, <2>3 DEF Back
    <3>2. ~reverting' /\ Point' = n
        BY <1>1, <1>4, <2>3 DEF Back, Point
    <3>3. At(End(tr)) /\ evals > 0 /\ outcome = "ran"
        BY <1>4, <2>1, <3>1 DEF Back, End
    <3> QED
        BY <1>2, <3>2, <3>3, VisitContinues
  <2>4. CASE n # startNode
    <3>1. reverting' = TRUE /\ last' = last
        BY <1>1, <1>4, <2>4 DEF Back
    <3>2. k # Len(tr)
      <4>1. Head(End(tr).todo) = Call(startNode)
          BY <1>4 DEF Back
      <4> QED
          BY <2>2, <2>4, <4>1 DEF End, Call
    <3>3. k \in 1 .. (Len(tr) - 1) /\ k + 1 \in 1 .. Len(tr) /\ tr[k + 1] = Go(graph, tr[k])
        BY <1>2, <3>2 DEF Stretch
    <3>4. NodeRun(n) /\ Does(tr[k], n)
      <4>1. ~OutOfSteps(n)
          BY <3>1 DEF OutOfSteps
      <4> QED
          BY <2>1, <4>1, VisitDoes
    <3>5. /\ Becomes(Go(graph, tr[k])) /\ UNCHANGED <<outcome, done, interrupts>>
      <4>1. CASE WaitsAt(graph, tr[k]) /\ Waits /\ Becomes(Ran(graph, tr[k], "waits"))
        <5>1. Go(graph, tr[k]) = Ran(graph, tr[k], "waits")
            BY <2>2, <4>1, GoAtCall
        <5> QED
            BY <4>1, <5>1 DEF Waits
      <4>2. CASE /\ ~WaitsAt(graph, tr[k]) /\ (\E next : TaskOk(n, next))
                 /\ Becomes(Ran(graph, tr[k], "goes on"))
        <5>1. Go(graph, tr[k]) = Ran(graph, tr[k], "goes on")
            BY <2>2, <4>2, GoAtCall
        <5>2. UNCHANGED <<outcome, done, interrupts>>
            BY <3>1, <4>2 DEF TaskOk
        <5> QED
            BY <4>2, <5>1, <5>2
      <4>3. ~TaskHalts(n) /\ ~TaskInterrupts(n)
          BY <3>1 DEF TaskHalts, TaskInterrupts
      <4> QED
          BY <3>4, <4>1, <4>2, <4>3 DEF Does
    <3>6. UNCHANGED <<graph, phase, startNode, evals>>
        BY <3>4 DEF NodeRun
    <3>7. At(tr[k + 1])'
        BY <3>3, <3>5 DEF At, Becomes
    <3>8. Back(tr)'
        BY <1>4, <3>1, <3>3, <3>5, <3>6, <3>7 DEF Back, End, Point
    <3> QED
        BY <1>2, <3>5, <3>6, <3>8 DEF Traced, End
  <2> QED
      BY <2>3, <2>4
<1>5. ~Unstarted(tr) /\ ~Halted(tr)
    BY <1>1 DEF Unstarted, Halted
<1> QED
    BY <1>3, <1>4, <1>5 DEF Traced

LEMMA EvalReturnsTraces ==
    ASSUME EngineTypes, NEW tr, Traced(tr), EvalReturns PROVE Traced(tr)'
<1>1. /\ phase = "running" /\ todo = <<>>
      /\ UNCHANGED <<graph, outcome, todo, reverting, startNode, last, count, branches, loops, items,
                     done, interrupts, evals>>
    BY DEF EvalReturns, temporary, history
<1>2. ~Unstarted(tr)
    BY <1>1 DEF Unstarted
<1>3. ~Back(tr)
  <2> SUFFICES ASSUME Back(tr) PROVE FALSE
      OBVIOUS
  <2>1. PICK k \in 1 .. Len(tr) : At(tr[k])
      BY DEF Back
  <2>2. tr[k].todo # <<>>
    <3>1. k = Len(tr) \/ k \in 1 .. (Len(tr) - 1)
        BY DEF Traced, Stretch
    <3> QED
        BY <3>1 DEF Traced, Stretch, Back, End
  <2> QED
      BY <1>1, <2>1, <2>2 DEF At
<1>4. CASE On(tr)
  <2>1. On(tr)'
      BY <1>1, <1>4 DEF On, At, End, Recent, Point
  <2> QED
      BY <1>1, <2>1 DEF Traced, End
<1>5. CASE Halted(tr)
  <2>1. Halted(tr)'
      BY <1>1, <1>5 DEF Halted, End, Point
  <2> QED
      BY <1>1, <2>1 DEF Traced, End
<1> QED
    BY <1>2, <1>3, <1>4, <1>5 DEF Traced

(* A condition that fails on the way back leaves the instance where it was       *)
(* halted; one that fails further on halts it where the stretch met the node     *)
(* that was recorded last, whose task is going to be executed again.             *)
LEMMA LinkFailsTraces ==
    ASSUME EngineTypes, Sound(graph, Walks(graph)), NEW tr, Traced(tr), LinkFails, clean'
    PROVE  \E t : Traced(t)'
<1>1. /\ phase = "running" /\ outcome = "ran" /\ outcome' # "ran" /\ todo' = <<>>
      /\ UNCHANGED <<graph, last, interrupts, evals>>
      /\ done' = IF reverting THEN done ELSE [done EXCEPT ![Point] = 0]
      /\ ~reverting => interrupts = 0 /\ Single(graph, Point)
    BY DEF LinkFails, Single
<1>2. Point' = Point
    BY <1>1 DEF Point
<1>3. CASE Back(tr)
  <2>1. Halted(tr)'
    <3>1. End(tr)' = End(tr)
        BY DEF End
    <3> QED
        BY <1>1, <1>2, <1>3, <3>1 DEF Back, Halted
  <2> QED
      BY <1>1, <1>3, <2>1 DEF Traced, Back, End
<1>4. CASE On(tr)
  <2>1. /\ Stretch(graph, Walks(graph), tr) /\ Len(tr) \in Nat \ {0} /\ done = End(tr).done
        /\ interrupts = 0 /\ End(tr).cuts = 0 /\ tr[1] = Start(graph) /\ Recent(tr)
      BY <1>1, <1>4 DEF Traced, Stretch, On
  <2>2. PICK k \in 1 .. (Len(tr) - 1) :
                /\ Head(tr[k].todo) = Call(Point) /\ tr[k].cuts = 0
                /\ tr[k].done = [done EXCEPT ![Point] = 0]
                /\ \A i \in 1 .. (k - 1) : Head(tr[i].todo) # Call(Point)
      BY <2>1 DEF Recent
  <2>3. PICK t : t = SubSeq(tr, 1, k)
      OBVIOUS
  <2>4. /\ t \in Seq(Walks(graph)) /\ Len(t) = k /\ k \in Nat \ {0}
        /\ \A i \in 1 .. k : t[i] = tr[i]
      BY <2>1, <2>3 DEF Stretch
  <2>5. Stretch(graph, Walks(graph), t)
    <3>1. \A i \in 1 .. Len(t) : Typed(graph, t[i])
        BY <2>1, <2>4 DEF Stretch
    <3>2. \A i \in 1 .. (Len(t) - 1) : t[i].todo # <<>> /\ t[i + 1] = Go(graph, t[i])
      <4>1. \A i \in 1 .. (k - 1) : i \in 1 .. (Len(tr) - 1) /\ i \in 1 .. k /\ i + 1 \in 1 .. k
          BY <2>1, <2>4
      <4> QED
          BY <2>1, <2>4, <4>1 DEF Stretch
    <3>3. ASSUME NEW i \in 1 .. (Len(t) - 1), NEW n \in Nodes(graph) \ Joins(graph),
                 Head(t[i].todo) = Call(n)
          PROVE  t[Len(t)].done[n] > 0
      <4>1. i \in 1 .. (k - 1) /\ i \in 1 .. (Len(tr) - 1) /\ t[i] = tr[i] /\ t[Len(t)] = tr[k]
          BY <2>1, <2>4
      <4>2. n # Point
          BY <2>2, <3>3, <4>1
      <4>3. done[n] > 0
          BY <2>1, <3>3, <4>1 DEF Stretch, End
      <4>4. tr[k].done[n] = done[n]
          BY <2>1, <2>2, <4>2 DEF Stretch, End, Typed
      <4> QED
          BY <4>1, <4>3, <4>4
    <3> QED
        BY <2>4, <3>1, <3>2, <3>3 DEF Stretch
  <2>6. End(t) = tr[k] /\ End(t)' = tr[k] /\ t[1] = Start(graph)
      BY <2>1, <2>4 DEF End
  <2>7. Halted(t)'
    <3>1. tr[k].todo # <<>>
        BY <2>1 DEF Stretch
    <3> QED
        BY <1>1, <1>2, <1>4, <2>2, <2>6, <3>1 DEF On, Halted
  <2> QED
      BY <1>1, <1>4, <2>1, <2>2, <2>5, <2>6, <2>7 DEF Traced, On
<1> QED
    BY <1>1, <1>3, <1>4 DEF Traced, Unstarted, Halted

-------------------------------------------------------------------------------
LEMMA EngineInit ==
    ASSUME Init, \A g \in Graphs : Acyclic(g) => WalksAreSound(g)
    PROVE  ReWalkInv
<1>1. EngineTypes
    BY DEF Init, EngineTypes
<1>2. ASSUME clean PROVE Sound(graph, Walks(graph)) /\ \E tr : Traced(tr)
  <2>1. Sound(graph, Walks(graph))
    <3>1. \E W : Sound(graph, W)
        BY <1>2 DEF Init, WalksAreSound, Sound
    <3> QED
        BY <3>1 DEF Walks
  <2>2. PICK s : s = Start(graph)
      OBVIOUS
  <2>3. s \in Walks(graph) /\ Typed(graph, s) /\ s.done = done /\ s.cuts = interrupts
      BY <1>1, <2>1, <2>2, StartTyped DEF Sound, Closed, EngineTypes, Start, Init
  <2>4. Unstarted(<<s>>) /\ Stretch(graph, Walks(graph), <<s>>) /\ End(<<s>>) = s
      BY <2>2, <2>3, StretchOfOne DEF Init, Unstarted, End
  <2>5. Traced(<<s>>)
      BY <2>2, <2>3, <2>4 DEF Traced
  <2> QED
      BY <2>1, <2>5
<1> QED
    BY <1>1, <1>2 DEF ReWalkInv

LEMMA EngineStep ==
    ASSUME ReWalkInv, [Next]_vars, MaxDone > 1
    PROVE  ReWalkInv'
<1>1. CASE UNCHANGED vars
  <2>1. UNCHANGED <<graph, phase, outcome, todo, reverting, startNode, last, count, branches, loops,
                    items, done, interrupts, evals, clean>>
      BY <1>1 DEF vars, temporary, history
  <2>2. ASSUME NEW tr, Traced(tr) PROVE Traced(tr)'
      BY <2>1, <2>2 DEF Traced, Unstarted, Back, On, Halted, At, End, Point, Recent
  <2> QED
      BY <2>1, <2>2 DEF ReWalkInv, EngineTypes
<1>2. CASE Next
  <2>1. EngineTypes'
    <3>1. CASE Eval
        BY <3>1 DEF ReWalkInv, EngineTypes, Eval
    <3>2. CASE EvalReturns
        BY <3>2 DEF ReWalkInv, EngineTypes, EvalReturns, history
    <3>3. CASE Iterate
        BY <3>3 DEF ReWalkInv, EngineTypes, Iterate, history
    <3>5. CASE LinkFails
        BY <3>5 DEF ReWalkInv, EngineTypes, LinkFails
    <3>4. ASSUME NEW n \in Nodes(graph), Visit(n) PROVE EngineTypes'
      <4>1. /\ UNCHANGED <<graph, evals>> /\ last' \in {last, n} /\ phase' = "running"
            /\ interrupts' \in {interrupts, interrupts + 1}
          BY <3>4 DEF Visit, OutOfSteps, PlainRun, ExclusiveRun, InclusiveRun, ParallelRun,
             LoopInRun, LoopOutRun, NodeRun, Entered, TaskOk, TaskCuts, TaskHalts, TaskInterrupts,
             Waits, history
      <4> QED
          BY <4>1 DEF ReWalkInv, EngineTypes
    <3> QED
        BY <1>2, <3>1, <3>2, <3>3, <3>4, <3>5 DEF Next
  <2>2. graph' = graph /\ (clean' => clean)
    <3>1. CASE Eval
        BY <3>1 DEF Eval
    <3>2. CASE EvalReturns \/ Iterate
        BY <3>2 DEF EvalReturns, Iterate, history
    <3>4. CASE LinkFails
        BY <3>4 DEF LinkFails
    <3>3. ASSUME NEW n \in Nodes(graph), Visit(n) PROVE graph' = graph /\ (clean' => clean)
      <4>1. graph' = graph
          BY <3>3 DEF Visit, OutOfSteps, PlainRun, ExclusiveRun, InclusiveRun, ParallelRun,
             LoopInRun, LoopOutRun, NodeRun
      <4>2. clean' = clean \/ TaskInterrupts(n)
          BY <3>3 DEF Visit, OutOfSteps, PlainRun, ExclusiveRun, InclusiveRun, ParallelRun,
             LoopInRun, LoopOutRun, TaskOk, TaskCuts, TaskHalts, Waits, history
      <4>3. TaskInterrupts(n) /\ clean' => clean
          BY DEF TaskInterrupts
      <4> QED
          BY <4>1, <4>2, <4>3
    <3> QED
        BY <1>2, <3>1, <3>2, <3>3, <3>4 DEF Next
  <2>3. ASSUME clean' PROVE Sound(graph, Walks(graph)) /\ \E tr : Traced(tr)'
    <3>1. EngineTypes /\ Sound(graph, Walks(graph))
        BY <2>2, <2>3 DEF ReWalkInv
    <3>2. PICK tr : Traced(tr)
        BY <2>2, <2>3 DEF ReWalkInv
    <3> QED
        BY <1>2, <2>3, <3>1, <3>2, EvalTraces, EvalReturnsTraces, IterateTraces,
           LinkFailsTraces, VisitTraces DEF Next
  <2>4. ASSUME clean' PROVE (Sound(graph, Walks(graph)) /\ \E tr : Traced(tr))'
      BY <2>2, <2>3, <2>4
  <2> QED
      BY <2>1, <2>4 DEF ReWalkInv
<1> QED
    BY <1>1, <1>2

(* The state an instance is in is, in what it has done, one of a walk.           *)
LEMMA ReWalkIsSound ==
    ASSUME ReWalkInv PROVE JoinWaits /\ NeverTwice /\ EndIsComplete
<1> SUFFICES ASSUME clean PROVE JoinWaits /\ NeverTwice /\ EndIsComplete
    BY DEF JoinWaits, NeverTwice, EndIsComplete
<1>1. PICK tr : Traced(tr)
    BY DEF ReWalkInv
<1>2. SoundState(graph, End(tr)) /\ done = End(tr).done /\ interrupts = End(tr).cuts
  <2>1. Sound(graph, Walks(graph)) /\ End(tr) \in Walks(graph)
      BY <1>1 DEF ReWalkInv, Traced, Stretch, End
  <2> QED
      BY <1>1, <2>1 DEF Traced, Sound
<1>3. JoinWaits /\ NeverTwice
    BY <1>2 DEF SoundState, JoinWaits, NeverTwice
<1>4. EndIsComplete
  <2> SUFFICES ASSUME phase = "idle", evals > 0, outcome = "ran", interrupts = 0 PROVE done = Times(graph)
      BY DEF EndIsComplete
  <2>1. On(tr)
      BY <1>1 DEF Traced, Unstarted, Back, Halted, ReWalkInv, EngineTypes
  <2> QED
      BY <1>2, <2>1 DEF On, SoundState, At, ReWalkInv, EngineTypes
<1> QED
    BY <1>3, <1>4

(* Halting an instance and evaluating it again, at tasks of its own and as often *)
(* as one likes, does nothing that a walk would not do: where walks pass a join  *)
(* only after what leads to it, do nothing twice and leave nothing out, so do    *)
(* the evaluations of the instance (reverting in nodeRun and taskExec, the trace *)
(* of RecordNode, a new Temporary for each evaluation).                          *)
THEOREM ResumeIsTransparent ==
    ASSUME MaxDone > 1, \A g \in Graphs : Acyclic(g) => WalksAreSound(g)
    PROVE  Spec => [](JoinWaits /\ NeverTwice /\ EndIsComplete)
<1>1. Init => ReWalkInv
    BY EngineInit
<1>2. ReWalkInv /\ [Next]_vars => ReWalkInv'
    BY EngineStep
<1>3. ReWalkInv => JoinWaits /\ NeverTwice /\ EndIsComplete
    BY ReWalkIsSound
<1> QED
    BY <1>1, <1>2, <1>3, PTL DEF Spec

-------------------------------------------------------------------------------
(* Walks in the graphs whose nodes run once.  The calls of todo are arrivals E,  *)
(* each sent by a node that is done; those that were sent and are not waiting in *)
(* todo have been used.                                                          *)
Held(E)        == {E[k] : k \in 1..Len(E)}
Sent(g, d)     == {e \in Arrivals(g) : e[1] # 0 => d[e[1]] = 1}
Used(g, d, E)  == Sent(g, d) \ Held(E)
NodeCalls(g)   == {Call(n) : n \in Nodes(g)}

Carries(g, calls, d, E) ==
    /\ calls \in Seq(NodeCalls(g)) /\ E \in Seq(Sent(g, d)) /\ Len(E) = Len(calls)
    /\ \A k \in 1..Len(E) : calls[k] = Call(LeadsTo(g, E[k]))
    /\ \A j, k \in 1..Len(E) : E[j] = E[k] => j = k

(* Used arrivals are counted by a join until it is passed, and lead to a node    *)
(* that is done, except where a task has cut the branch.                         *)
Settled(g, s, U, n) ==
    /\ s.done[n] = 1 => Times(g)[n] = 1 /\ Arriving(g, n) \subseteq U
    /\ n \in Joins(g) /\ s.done[n] = 0 => s.count[n] = Cardinality(Arriving(g, n) \cap U)
    /\ s.cuts = 0 /\ Arriving(g, n) # {} /\ Arriving(g, n) \subseteq U => s.done[n] = 1

OnceWalk(g, s, E) == /\ Carries(g, s.todo, s.done, E)
                     /\ \A n \in Nodes(g) : Settled(g, s, Used(g, s.done, E), n)

OnceStates(g) ==
    [todo : Seq(NodeCalls(g)), count : [Nodes(g) -> Nat], branches : {<<>>}, loops : {<<>>},
     items : {<<>>}, done : [Nodes(g) -> {0, 1}], cuts : Nat]

OnceWalks(g) == {s \in OnceStates(g) : \E E : OnceWalk(g, s, E)}

LEMMA LinksAreLinks ==
    ASSUME NEW g \in Graphs, NEW n \in Nodes(g)
    PROVE  g.links[n] \in Seq(Range(g.links[n]))
<1>1. g.links[n] \in Seq([to : Nodes(g), when : {"empty", "yes", "no"}])
    BY FlowGraphs DEF IsGraph
<1>2. \A S : \A f \in Seq(S) : f \in Seq(Range(f))
    BY DEF Range
<1> QED
    BY <1>1, <1>2

LEMMA FollowedLinks ==
    ASSUME NEW g \in Graphs, RunsOnce(g), NEW n \in Nodes(g)
    PROVE  /\ n \in Nat \ {0}
           /\ \E k \in Nat : DOMAIN Followed(g, n) = 1..k
           /\ \A i \in DOMAIN Followed(g, n) : /\ Followed(g, n)[i].to \in Nodes(g)
                                               /\ Followed(g, n)[i].to > n
<1>1. /\ IsGraph(g) /\ Acyclic(g) /\ Followed(g, n) \in Seq(Range(g.links[n]))
  <2>1. Followed(g, n) \in {Matched(g, n), Chosen(g, n), g.links[n]}
      BY DEF Followed
  <2>2. Followed(g, n) \in Seq(Range(g.links[n]))
      BY <2>1, LinksAreLinks DEF RunsOnce, Selects
  <2> QED
      BY <2>2, FlowGraphs DEF RunsOnce
<1>2. n \in Nat \ {0}
  <2>1. g.type \in Seq(Types)
      BY <1>1 DEF IsGraph
  <2> QED
      BY <2>1 DEF Nodes
<1>3. g.links[n] \in Seq([to : Nodes(g), when : {"empty", "yes", "no"}])
    BY <1>1 DEF IsGraph
<1>4. \A l \in Range(g.links[n]) : l.to \in Nodes(g) /\ l.to > n
  <2> TAKE l \in Range(g.links[n])
  <2>1. PICK i \in DOMAIN g.links[n] : l = g.links[n][i]
      BY DEF Range
  <2>2. l.to \in Nodes(g)
    <3>1. \A S : \A q \in Seq(S) : \A j \in DOMAIN q : q[j] \in S
        OBVIOUS
    <3>2. l \in [to : Nodes(g), when : {"empty", "yes", "no"}]
        BY <1>3, <2>1, <3>1, Zenon
    <3> QED
        BY <3>2
  <2>3. l.to > n
      BY <1>1, <2>1 DEF Acyclic
  <2> QED
      BY <2>2, <2>3
<1>5. \E k \in Nat : DOMAIN Followed(g, n) = 1..k
  <2> DEFINE f == Followed(g, n)
  <2>1. f \in Seq(Range(g.links[n]))
      BY <1>1
  <2> HIDE DEF f
  <2>2. Len(f) \in Nat /\ DOMAIN f = 1..Len(f)
      BY <2>1, LenProperties
  <2> QED
      BY <2>2 DEF f
<1>6. \A i \in DOMAIN Followed(g, n) : Followed(g, n)[i] \in Range(g.links[n])
    BY <1>1, ElementOfSeq, LenProperties
<1> QED
    BY <1>2, <1>4, <1>5, <1>6

LEMMA ArrivalsLead ==
    ASSUME NEW g \in Graphs, RunsOnce(g), NEW e \in Arrivals(g)
    PROVE  /\ LeadsTo(g, e) \in Nodes(g)
           /\ e[1] # 0 => e[1] \in Nodes(g) /\ e[1] \in Nat /\ LeadsTo(g, e) > e[1]
<1>1. CASE e = <<0, 1>>
    BY <1>1, NodesAreNumbers DEF LeadsTo
<1>2. ASSUME NEW m \in Nodes(g), e \in {m} \X DOMAIN Followed(g, m)
      PROVE  /\ LeadsTo(g, e) \in Nodes(g)
             /\ e[1] # 0 => e[1] \in Nodes(g) /\ e[1] \in Nat /\ LeadsTo(g, e) > e[1]
  <2>1. e[1] = m /\ e[2] \in DOMAIN Followed(g, m) /\ m \in Nat \ {0}
      BY <1>2, FollowedLinks
  <2> QED
      BY <2>1, FollowedLinks DEF LeadsTo
<1> QED
    BY <1>1, <1>2 DEF Arrivals

LEMMA ArrivalsAreFinite ==
    ASSUME NEW g \in Graphs, RunsOnce(g), NEW n PROVE IsFiniteSet(Arriving(g, n))
<1>1. IsFiniteSet(Nodes(g))
  <2>1. g.type \in Seq(Types)
      BY FlowGraphs DEF IsGraph
  <2>2. Nodes(g) = 1..Len(g.type) /\ Len(g.type) \in Nat
      BY <2>1 DEF Nodes
  <2> QED
      BY <2>2, FS_Interval
<1> DEFINE Out(m) == {m} \X DOMAIN Followed(g, m)
           outs == {Out(m) : m \in Nodes(g)}
<1>2. \A m \in Nodes(g) : IsFiniteSet(Out(m))
  <2> TAKE m \in Nodes(g)
  <2> DEFINE d == DOMAIN Followed(g, m)
  <2>1. PICK k \in Nat : d = 1..k
      BY FollowedLinks
  <2> HIDE DEF d
  <2>2. IsFiniteSet(d)
      BY <2>1, FS_Interval
  <2> QED
      BY <2>2, FS_Singleton, FS_Product DEF d
<1>3. IsFiniteSet(outs)
  <2> DEFINE f == [m \in Nodes(g) |-> Out(m)]
  <2>1. f \in Surjection(Nodes(g), outs)
      BY DEF Surjection
  <2> QED
      BY <1>1, <2>1, FS_Surjection
<1>4. IsFiniteSet(UNION outs)
    BY <1>2, <1>3, FS_UNION
<1>5. IsFiniteSet(Arrivals(g))
    BY <1>4, FS_Singleton, FS_Union DEF Arrivals
<1> QED
    BY <1>5, FS_Subset DEF Arriving

LEMMA TailElements ==
    ASSUME NEW S, NEW q \in Seq(S), q # <<>>
    PROVE  /\ Len(q) \in Nat \ {0} /\ Head(q) = q[1] /\ Head(q) \in S
           /\ Tail(q) \in Seq(S) /\ Len(Tail(q)) = Len(q) - 1
           /\ \A i \in 1..Len(Tail(q)) : Tail(q)[i] = q[i + 1] /\ i + 1 \in 1..Len(q)
<1>1. Len(q) \in Nat \ {0} /\ Head(q) = q[1] /\ Head(q) \in S
    BY EmptySeq, HeadTailProperties
<1>2. /\ Tail(q) \in Seq(S) /\ Len(Tail(q)) = Len(q) - 1
      /\ \A i \in 1..Len(Tail(q)) : Tail(q)[i] = q[i + 1]
    BY HeadTailProperties
<1>3. \A i \in 1..Len(Tail(q)) : i + 1 \in 1..Len(q)
    BY <1>1, <1>2
<1> QED
    BY <1>1, <1>2, <1>3

(* The first call is taken: its arrival, and no other, has then been used.       *)
Uses(g, calls, d, E) ==
    /\ Head(E) \in Sent(g, d) /\ Head(calls) = Call(LeadsTo(g, Head(E)))
    /\ Head(E) \notin Used(g, d, E)
    /\ Carries(g, Tail(calls), d, Tail(E))
    /\ Used(g, d, Tail(E)) = Used(g, d, E) \cup {Head(E)}

LEMMA FirstIsUsed ==
    ASSUME NEW g, NEW d, NEW calls, NEW E, Carries(g, calls, d, E), calls # <<>>
    PROVE  Uses(g, calls, d, E)
<1> DEFINE S == Sent(g, d)
           C == NodeCalls(g)
           T == Tail(E)
           ct == Tail(calls)
<1>1. E \in Seq(S) /\ calls \in Seq(C) /\ Len(E) = Len(calls)
    BY DEF Carries
<1>2. E # <<>>
    BY <1>1, EmptySeq
<1>3. /\ Len(E) \in Nat \ {0} /\ Head(E) = E[1] /\ Head(E) \in S
      /\ T \in Seq(S) /\ Len(T) = Len(E) - 1
      /\ \A i \in 1..Len(T) : T[i] = E[i + 1] /\ i + 1 \in 1..Len(E)
    BY <1>1, <1>2, TailElements
<1>4. /\ Head(calls) = calls[1] /\ ct \in Seq(C) /\ Len(ct) = Len(calls) - 1
      /\ \A i \in 1..Len(ct) : ct[i] = calls[i + 1]
    BY <1>1, TailElements
<1> HIDE DEF S, C, T, ct
<1>5. 1 \in 1..Len(E) /\ Len(T) \in Nat
    BY <1>3
<1>6. /\ \A k \in 1..Len(E) : calls[k] = Call(LeadsTo(g, E[k]))
      /\ \A j, k \in 1..Len(E) : E[j] = E[k] => j = k
    BY DEF Carries
<1>7. Head(calls) = Call(LeadsTo(g, Head(E)))
    BY <1>3, <1>4, <1>5, <1>6
<1>8. /\ \A k \in 1..Len(T) : ct[k] = Call(LeadsTo(g, T[k]))
      /\ \A j, k \in 1..Len(T) : T[j] = T[k] => j = k
  <2>1. \A k \in 1..Len(T) : ct[k] = Call(LeadsTo(g, T[k]))
      BY <1>1, <1>3, <1>4, <1>6
  <2>2. ASSUME NEW j \in 1..Len(T), NEW k \in 1..Len(T), T[j] = T[k] PROVE j = k
    <3>1. j + 1 \in 1..Len(E) /\ k + 1 \in 1..Len(E) /\ E[j + 1] = E[k + 1]
        BY <1>3, <2>2
    <3>2. j + 1 = k + 1
        BY <1>6, <3>1
    <3> QED
        BY <3>2
  <2> QED
      BY <2>1, <2>2
<1>9. Carries(g, ct, d, T)
    BY <1>1, <1>3, <1>4, <1>8 DEF Carries, S, C
<1>10. Held(E) = Held(T) \cup {Head(E)} /\ Head(E) \notin Held(T)
  <2>1. ASSUME NEW k \in 1..Len(E) PROVE E[k] \in Held(T) \cup {Head(E)}
    <3>1. CASE k = 1
        BY <1>3, <3>1
    <3>2. CASE k # 1
      <4>1. k - 1 \in 1..Len(T) /\ T[k - 1] = E[k]
        <5>1. k - 1 \in 1..Len(T) /\ (k - 1) + 1 = k
            BY <1>3, <3>2
        <5> QED
            BY <1>3, <5>1
      <4> QED
          BY <4>1 DEF Held
    <3> QED
        BY <3>1, <3>2
  <2>2. ASSUME NEW k \in 1..Len(T) PROVE T[k] \in Held(E) /\ T[k] # Head(E)
    <3>1. k + 1 \in 1..Len(E) /\ T[k] = E[k + 1] /\ k + 1 # 1
        BY <1>3
    <3>2. E[k + 1] # E[1]
        BY <1>5, <1>6, <3>1
    <3> QED
        BY <1>3, <3>1, <3>2 DEF Held
  <2>3. Head(E) \in Held(E)
      BY <1>3, <1>5 DEF Held
  <2> QED
      BY <2>1, <2>2, <2>3 DEF Held
<1> QED
    BY <1>3, <1>7, <1>9, <1>10 DEF Uses, Used, S, T, ct

(* The node runs: it sends one arrival for each link it follows.                 *)
Outgoing(g, n) == [i \in DOMAIN Followed(g, n) |-> <<n, i>>]

Sends(g, n, calls, d, d2, E) ==
    /\ Carries(g, Calls(Followed(g, n)) \o calls, d2, Outgoing(g, n) \o E)
    /\ Used(g, d2, Outgoing(g, n) \o E) = Used(g, d, E)

LEMMA NodeSends ==
    ASSUME NEW g \in Graphs, RunsOnce(g), NEW n \in Nodes(g), NEW calls, NEW E,
           NEW d \in [Nodes(g) -> {0, 1}], d[n] = 0, Carries(g, calls, d, E),
           NEW d2 \in [Nodes(g) -> {0, 1}], \A m \in Nodes(g) : d2[m] = IF m = n THEN 1 ELSE d[m]
    PROVE  Sends(g, n, calls, d, d2, E)
<1> DEFINE F == Followed(g, n)
           O == Outgoing(g, n)
           c == Calls(F)
           S == Sent(g, d)
           S2 == Sent(g, d2)
           C == NodeCalls(g)
<1>1. PICK k \in Nat : DOMAIN F = 1..k
    BY FollowedLinks
<1>2. n \in Nat \ {0}
    BY FollowedLinks
<1>3. \A i \in 1..k : /\ O[i] = <<n, i>> /\ O[i] \in Arrivals(g) /\ O[i] \in S2 /\ O[i] \notin S
                      /\ c[i] = Call(LeadsTo(g, O[i])) /\ c[i] \in C
  <2> TAKE i \in 1..k
  <2>1. i \in DOMAIN F /\ O[i] = <<n, i>> /\ c[i] = Call(F[i].to)
      BY <1>1 DEF Outgoing, Calls
  <2>2. <<n, i>> \in Arrivals(g) /\ <<n, i>>[1] = n /\ <<n, i>>[2] = i
      BY <2>1 DEF Arrivals
  <2>3. LeadsTo(g, <<n, i>>) = F[i].to
      BY <1>2 DEF LeadsTo
  <2>4. <<n, i>> \in S2 /\ <<n, i>> \notin S
      BY <1>2, <2>2 DEF Sent
  <2>5. c[i] \in C
      BY <2>1, FollowedLinks DEF NodeCalls
  <2> QED
      BY <2>1, <2>2, <2>3, <2>4, <2>5
<1>4. S2 = S \cup {O[i] : i \in 1..k}
  <2>1. \A e \in S : e \in S2
    <3> TAKE e \in S
    <3>1. e \in Arrivals(g) /\ (e[1] # 0 => e[1] \in Nodes(g) /\ d[e[1]] = 1)
        BY ArrivalsLead DEF Sent
    <3> QED
        BY <3>1 DEF Sent
  <2>2. ASSUME NEW e \in S2, e \notin S PROVE e \in {O[i] : i \in 1..k}
    <3>1. e \in Arrivals(g) /\ e[1] # 0 /\ e[1] \in Nodes(g) /\ d2[e[1]] = 1 /\ d[e[1]] # 1
        BY <2>2, ArrivalsLead DEF Sent
    <3>2. e[1] = n
        BY <3>1
    <3>3. PICK m \in Nodes(g) : e \in {m} \X DOMAIN Followed(g, m)
        BY <3>1 DEF Arrivals
    <3>4. e[1] = m /\ e[2] \in DOMAIN F /\ e = <<n, e[2]>>
        BY <3>2, <3>3
    <3> QED
        BY <1>1, <1>3, <3>4
  <2> QED
      BY <1>3, <2>1, <2>2
<1>5. O \in Seq(S2) /\ Len(O) = k /\ c \in Seq(C) /\ Len(c) = k
  <2>1. DOMAIN O = 1..k /\ DOMAIN c = 1..k
      BY <1>1 DEF Outgoing, Calls
  <2>2. O = [i \in 1..k |-> O[i]] /\ c = [i \in 1..k |-> c[i]]
      BY <2>1 DEF Outgoing, Calls
  <2> HIDE DEF O, c, S2, C
  <2>3. O \in [1..k -> S2] /\ c \in [1..k -> C]
      BY <1>3, <2>2
  <2>4. \A V : \A f \in [1..k -> V] : f \in Seq(V) /\ Len(f) = k
      OBVIOUS
  <2> QED
      BY <2>3, <2>4, Zenon
<1> HIDE DEF F, O, c, S, S2, C
<1>6. E \in Seq(S2) /\ calls \in Seq(C) /\ Len(E) = Len(calls) /\ Len(E) \in Nat
  <2>1. E \in Seq(S) /\ calls \in Seq(C) /\ Len(E) = Len(calls)
      BY DEF Carries, S, C
  <2> QED
      BY <1>4, <2>1, SeqMonotonic, LenProperties
<1> DEFINE OE == O \o E
           cc == c \o calls
<1>7. /\ OE \in Seq(S2) /\ Len(OE) = k + Len(E)
      /\ \A i \in 1..(k + Len(E)) : OE[i] = IF i <= k THEN O[i] ELSE E[i - k]
  <2>1. O \in Seq(S2) /\ E \in Seq(S2) /\ Len(O) = k
      BY <1>5, <1>6
  <2>2. /\ OE \in Seq(S2) /\ Len(OE) = Len(O) + Len(E)
        /\ \A i \in 1..(Len(O) + Len(E)) : OE[i] = IF i <= Len(O) THEN O[i] ELSE E[i - Len(O)]
      BY <2>1, ConcatProperties
  <2> QED
      BY <2>1, <2>2
<1>8. /\ cc \in Seq(C) /\ Len(cc) = k + Len(E)
      /\ \A i \in 1..(k + Len(E)) : cc[i] = IF i <= k THEN c[i] ELSE calls[i - k]
    BY <1>5, <1>6, ConcatProperties
<1> HIDE DEF OE, cc
<1>9. /\ \A j \in 1..Len(E) : calls[j] = Call(LeadsTo(g, E[j])) /\ E[j] \in S
      /\ \A i, j \in 1..Len(E) : E[i] = E[j] => i = j
  <2>1. E \in Seq(S)
      BY DEF Carries, S
  <2> QED
      BY <2>1, ElementOfSeq DEF Carries
<1>10. \A i \in 1..(k + Len(E)) : \/ i \in 1..k /\ OE[i] = O[i] /\ cc[i] = c[i]
                                  \/ /\ i - k \in 1..Len(E) /\ ~(i \in 1..k)
                                     /\ OE[i] = E[i - k] /\ cc[i] = calls[i - k]
    BY <1>6, <1>7, <1>8
<1>11. \A i \in 1..(k + Len(E)) : cc[i] = Call(LeadsTo(g, OE[i]))
    BY <1>3, <1>9, <1>10
<1>12. ASSUME NEW i \in 1..(k + Len(E)), NEW j \in 1..(k + Len(E)), OE[i] = OE[j] PROVE i = j
  <2>1. CASE i \in 1..k /\ j \in 1..k
    <3>1. <<n, i>> = <<n, j>>
        BY <1>3, <1>10, <1>12, <2>1
    <3> QED
        BY <3>1
  <2>2. CASE ~(i \in 1..k) /\ ~(j \in 1..k)
    <3>1. i - k = j - k
        BY <1>9, <1>10, <1>12, <2>2
    <3> QED
        BY <3>1
  <2>3. CASE i \in 1..k /\ ~(j \in 1..k)
    <3>1. O[i] \notin S /\ OE[i] = O[i] /\ OE[j] \in S
        BY <1>3, <1>9, <1>10, <2>3
    <3> QED
        BY <1>12, <3>1
  <2>4. CASE j \in 1..k /\ ~(i \in 1..k)
    <3>1. O[j] \notin S /\ OE[j] = O[j] /\ OE[i] \in S
        BY <1>3, <1>9, <1>10, <2>4
    <3> QED
        BY <1>12, <3>1
  <2> QED
      BY <2>1, <2>2, <2>3, <2>4
<1>13. Carries(g, cc, d2, OE)
    BY <1>7, <1>8, <1>11, <1>12 DEF Carries, S2, C
<1>14. Held(OE) = Held(E) \cup {O[i] : i \in 1..k}
  <2>1. \A i \in 1..k : O[i] \in Held(OE)
    <3> TAKE i \in 1..k
    <3>1. i \in 1..(k + Len(E)) /\ i <= k
        BY <1>6
    <3> QED
        BY <1>7, <3>1 DEF Held
  <2>2. \A j \in 1..Len(E) : E[j] \in Held(OE)
    <3> TAKE j \in 1..Len(E)
    <3>1. PICK i \in 1..(k + Len(E)) : i = j + k /\ ~(i <= k) /\ i - k = j
        BY <1>6
    <3>2. OE[i] = E[j]
        BY <1>7, <3>1
    <3> QED
        BY <1>7, <3>2 DEF Held
  <2>3. \A i \in 1..(k + Len(E)) : OE[i] \in Held(E) \cup {O[j] : j \in 1..k}
      BY <1>10 DEF Held
  <2>4. Held(OE) = {OE[i] : i \in 1..(k + Len(E))}
      BY <1>7 DEF Held
  <2>5. Held(OE) \subseteq Held(E) \cup {O[i] : i \in 1..k}
      BY <2>3, <2>4
  <2>6. Held(E) \subseteq Held(OE)
      BY <2>2 DEF Held
  <2> QED
      BY <2>1, <2>5, <2>6
<1>15. Used(g, d2, OE) = Used(g, d, E)
    BY <1>3, <1>4, <1>14 DEF Used, S, S2
<1> QED
    BY <1>13, <1>15 DEF Sends, OE, cc, O, c, F

LEMMA OnceTypes ==
    ASSUME NEW g \in Graphs, NEW s \in OnceStates(g)
    PROVE  /\ s.todo \in Seq(NodeCalls(g)) /\ s.count \in [Nodes(g) -> Nat] /\ s.cuts \in Nat
           /\ s.done \in [Nodes(g) -> {0, 1}]
           /\ s.branches = <<>> /\ s.loops = <<>> /\ s.items = <<>>
    BY DEF OnceStates

LEMMA OneMoreArrival ==
    \A c \in Nat : c + 1 \in Nat /\ \A i \in Nat : i > c + 1 => i > 1
    OBVIOUS

(* What a node of such a graph does, but for what it has done and sends.         *)
Acts(g, s, n, h) ==
    /\ Ran(g, s, h).branches = <<>> /\ Ran(g, s, h).loops = <<>>
    /\ Ran(g, s, h).items = <<>> /\ Ran(g, s, h).count \in [Nodes(g) -> Nat]
    /\ \A m \in Nodes(g) \ {n} : Ran(g, s, h).count[m] = s.count[m]
    /\ n \in Joins(g) /\ h # "goes on" => Ran(g, s, h).count[n] = s.count[n] + 1
    /\ h = "goes on" => Ran(g, s, h).todo = Calls(Followed(g, n)) \o Tail(s.todo)
    /\ h # "goes on" => Ran(g, s, h).todo = Tail(s.todo)
    /\ WaitsAt(g, s) => n \in Joins(g)
    /\ n \in Joins(g) => (WaitsAt(g, s) <=> Indegree(g, n) > s.count[n] + 1)

LEMMA OnceRan ==
    ASSUME NEW g \in Graphs, RunsOnce(g), NEW s \in OnceStates(g), NEW n \in Nodes(g),
           Head(s.todo) = Call(n), NEW h
    PROVE  Acts(g, s, n, h)
<1> DEFINE r == Ran(g, s, h)
<1>1. Head(s.todo).node = n
    BY GoAtCall
<1>2. g.type[n] \in {"start", "end", "activity", "exclusive", "parallel"}
    BY DEF RunsOnce
<1>3. /\ s.count \in [Nodes(g) -> Nat]
      /\ s.branches = <<>> /\ s.loops = <<>> /\ s.items = <<>>
    BY OnceTypes
<1>0. s.count[n] \in Nat
    BY <1>3
<1>4. r.branches = <<>> /\ r.loops = <<>> /\ r.items = <<>>
    BY <1>1, <1>2, <1>3 DEF Ran, BranchesAfter, LoopsAfter, ItemsAfter
<1>5. r.count = CountAfter(g, s, h)
    BY DEF Ran
<1>6. CountAfter(g, s, h) = IF g.type[n] # "parallel" THEN s.count
                            ELSE [s.count EXCEPT ![n] = IF h = "goes on" THEN 0 ELSE s.count[n] + 1]
    BY <1>1, <1>2 DEF CountAfter
<1>7. g.type[n] = "parallel" <=> g.type[n] \in {"parallel", "inclusive"}
    BY <1>2
<1>8. /\ r.count \in [Nodes(g) -> Nat]
      /\ \A m \in Nodes(g) \ {n} : r.count[m] = s.count[m]
      /\ g.type[n] = "parallel" /\ h # "goes on" => r.count[n] = s.count[n] + 1
  <2> DEFINE k == IF h = "goes on" THEN 0 ELSE s.count[n] + 1
  <2>1. k \in Nat /\ (h # "goes on" => k = s.count[n] + 1)
      BY <1>0, OneMoreArrival, Zenon
  <2> HIDE DEF k
  <2>2. CASE g.type[n] = "parallel"
    <3>1. r.count = [s.count EXCEPT ![n] = k]
        BY <1>5, <1>6, <2>2 DEF k
    <3> HIDE DEF r
    <3> QED
        BY <1>3, <2>1, <3>1
  <2>3. CASE g.type[n] # "parallel"
    <3>1. r.count = s.count
        BY <1>5, <1>6, <2>3
    <3> HIDE DEF r
    <3> QED
        BY <1>3, <2>3, <3>1
  <2> QED
      BY <2>2, <2>3
<1>9. Onward(g, s) = Calls(Followed(g, n))
    BY <1>1, <1>2 DEF Onward, Followed
<1>10. /\ h = "goes on" => r.todo = Onward(g, s) \o Tail(s.todo)
       /\ h # "goes on" => r.todo = Tail(s.todo)
    BY DEF Ran
<1>11. WaitsAt(g, s) <=> g.type[n] = "parallel" /\ Indegree(g, n) > s.count[n] + 1
    BY <1>1, <1>2 DEF WaitsAt
<1>12. /\ n \in Joins(g) <=> g.type[n] = "parallel" /\ Indegree(g, n) > 1
       /\ Indegree(g, n) \in Nat
    BY <1>2, Incoming DEF Joins
<1>13. WaitsAt(g, s) => n \in Joins(g)
    BY <1>0, <1>11, <1>12, OneMoreArrival, Zenon
<1> QED
    BY <1>4, <1>8, <1>9, <1>10, <1>11, <1>12, <1>13 DEF Acts

(* The arrival e is used: what is settled of the other nodes stays so.           *)
LEMMA OthersStaySettled ==
    ASSUME NEW g, NEW s, NEW t, NEW U, NEW e, NEW m, Settled(g, s, U, m),
           e \notin Arriving(g, m), t.done[m] = s.done[m], t.count[m] = s.count[m],
           t.cuts = 0 => s.cuts = 0
    PROVE  Settled(g, t, U \cup {e}, m)
<1> DEFINE A == Arriving(g, m)
<1>1. A \cap (U \cup {e}) = A \cap U /\ (A \subseteq U \cup {e} <=> A \subseteq U)
    OBVIOUS
<1> HIDE DEF A
<1> QED
    BY <1>1 DEF Settled, A

(* What the first call of a walk finds at its node.                              *)
Arrives(g, s, e, n, U) ==
    /\ n \in Nodes(g) /\ Head(s.todo) = Call(n) /\ e \in Arriving(g, n) /\ e \notin U
    /\ s.done[n] = 0 /\ Times(g)[n] = 1
    /\ \A m \in Nodes(g) \ {n} : e \notin Arriving(g, m)
    /\ n \in Joins(g) => Cardinality(Arriving(g, n) \cap (U \cup {e})) = s.count[n] + 1

LEMMA FirstArrives ==
    ASSUME NEW g \in Graphs, RunsOnce(g), NEW s \in OnceStates(g), NEW E, OnceWalk(g, s, E),
           s.todo # <<>>, NEW e, e = Head(E), NEW n, n = LeadsTo(g, e),
           NEW U, U = Used(g, s.done, E)
    PROVE  Arrives(g, s, e, n, U)
<1>1. e \in Sent(g, s.done) /\ e \notin U /\ Head(s.todo) = Call(n)
  <2>1. Uses(g, s.todo, s.done, E)
      BY FirstIsUsed DEF OnceWalk
  <2> QED
      BY <2>1 DEF Uses
<1>2. e \in Arrivals(g) /\ n \in Nodes(g) /\ (e[1] # 0 => e[1] \in Nodes(g) /\ s.done[e[1]] = 1)
    BY <1>1, ArrivalsLead DEF Sent
<1>3. e[1] # 0 => Times(g)[e[1]] = 1
    BY <1>2 DEF OnceWalk, Settled
<1>4. e \in Arriving(g, n)
    BY <1>2, <1>3 DEF Arriving
<1>5. Times(g)[n] = 1
    BY <1>2, <1>4 DEF RunsOnce
<1>6. s.done[n] = 0
  <2>1. s.done[n] \in {0, 1}
      BY <1>2, OnceTypes
  <2> QED
      BY <1>1, <1>2, <1>4, <2>1 DEF OnceWalk, Settled
<1>7. \A m \in Nodes(g) \ {n} : e \notin Arriving(g, m)
    BY DEF Arriving
<1>8. ASSUME n \in Joins(g)
      PROVE  Cardinality(Arriving(g, n) \cap (U \cup {e})) = s.count[n] + 1
  <2> DEFINE A == Arriving(g, n)
             V == A \cap U
  <2>1. s.count[n] = Cardinality(V)
      BY <1>2, <1>6, <1>8 DEF OnceWalk, Settled
  <2>2. IsFiniteSet(V) /\ e \notin V
      BY <1>1, ArrivalsAreFinite, FS_Subset
  <2>3. A \cap (U \cup {e}) = V \cup {e}
      BY <1>4
  <2> HIDE DEF V, A
  <2>4. Cardinality(V \cup {e}) = Cardinality(V) + 1
      BY <2>2, FS_AddElement
  <2> QED
      BY <2>1, <2>3, <2>4 DEF A
<1> QED
    BY <1>1, <1>2, <1>4, <1>5, <1>6, <1>7, <1>8 DEF Arrives

(* The states that a step from s leads to are again those of such a walk.        *)
Records(g, s, n, h) ==
    /\ Ran(g, s, h) \in OnceStates(g)
    /\ \A m \in Nodes(g) : Ran(g, s, h).done[m] = IF m = n /\ h = "goes on" THEN 1 ELSE s.done[m]
    /\ Ran(g, s, h).cuts = IF h = "cuts" THEN s.cuts + 1 ELSE s.cuts

LEMMA OnceRecords ==
    ASSUME NEW g \in Graphs, RunsOnce(g), MaxDone > 1, NEW s \in OnceStates(g), NEW n \in Nodes(g),
           Head(s.todo) = Call(n), s.done[n] = 0, NEW h, Ran(g, s, h).todo \in Seq(NodeCalls(g))
    PROVE  Records(g, s, n, h)
<1> DEFINE r == Ran(g, s, h)
<1>1. r.done \in [Nodes(g) -> {0, 1}] /\ \A m \in Nodes(g) : r.done[m] =
                                            IF m = n /\ h = "goes on" THEN 1 ELSE s.done[m]
  <2>1. s.done \in [Nodes(g) -> {0, 1}]
      BY OnceTypes
  <2>2. CASE h = "goes on"
    <3>1. r.done = Bumped(s.done, n)
      <4>1. Head(s.todo).node = n
          BY GoAtCall
      <4> QED
          BY <2>2, <4>1, RanGoesOn
    <3>2. Min({s.done[n] + 1, MaxDone}) = 1
      <4>1. MaxDone \in Nat /\ 0 + 1 \in Nat /\ 0 + 1 <= MaxDone
          BY FlowBounds
      <4> QED
          BY <4>1, MinOfTwo
    <3>3. Bumped(s.done, n) = [s.done EXCEPT ![n] = 1]
        BY <3>2 DEF Bumped
    <3> HIDE DEF r
    <3> QED
        BY <2>1, <2>2, <3>1, <3>3
  <2>3. CASE h # "goes on"
    <3>1. r.done = s.done
        BY <2>3 DEF Ran
    <3> HIDE DEF r
    <3> QED
        BY <2>1, <2>3, <3>1
  <2> QED
      BY <2>2, <2>3
<1>2. r.cuts = (IF h = "cuts" THEN s.cuts + 1 ELSE s.cuts) /\ r.cuts \in Nat
  <2>1. r.cuts = IF h = "cuts" THEN s.cuts + 1 ELSE s.cuts
      BY DEF Ran
  <2>2. s.cuts \in Nat
      BY OnceTypes
  <2> HIDE DEF r
  <2> QED
      BY <2>1, <2>2
<1>3. /\ r.branches = <<>> /\ r.loops = <<>> /\ r.items = <<>>
      /\ r.count \in [Nodes(g) -> Nat]
  <2>1. Acts(g, s, n, h)
      BY OnceRan
  <2> QED
      BY <2>1 DEF Acts
<1>4. r = [todo |-> r.todo, count |-> r.count, branches |-> r.branches, loops |-> r.loops,
           items |-> r.items, done |-> r.done, cuts |-> r.cuts]
    BY DEF Ran
<1> HIDE DEF r
<1>5. r \in OnceStates(g)
    BY <1>1, <1>2, <1>3, <1>4 DEF OnceStates, r
<1> QED
    BY <1>1, <1>2, <1>5 DEF Records, r

(* A join waits, or a task cuts the branch.                                      *)
LEMMA OnceStops ==
    ASSUME NEW g \in Graphs, RunsOnce(g), MaxDone > 1, NEW s \in OnceWalks(g), s.todo # <<>>,
           NEW h, (h = "waits" /\ WaitsAt(g, s)) \/ h = "cuts"
    PROVE  Ran(g, s, h) \in OnceWalks(g)
<1> PICK E : OnceWalk(g, s, E)
    BY DEF OnceWalks
<1> PICK e : e = Head(E)
    OBVIOUS
<1> PICK n : n = LeadsTo(g, e)
    OBVIOUS
<1> PICK U : U = Used(g, s.done, E)
    OBVIOUS
<1> PICK r : r = Ran(g, s, h)
    OBVIOUS
<1>0. s \in OnceStates(g)
    BY DEF OnceWalks
<1>1. Arrives(g, s, e, n, U)
    BY <1>0, FirstArrives
<1>2. Uses(g, s.todo, s.done, E)
    BY FirstIsUsed DEF OnceWalk
<1>3. /\ r.todo = Tail(s.todo)
      /\ \A m \in Nodes(g) \ {n} : r.count[m] = s.count[m]
      /\ n \in Joins(g) => r.count[n] = s.count[n] + 1
      /\ WaitsAt(g, s) => n \in Joins(g) /\ Indegree(g, n) > s.count[n] + 1
  <2>1. Acts(g, s, n, h)
      BY <1>0, <1>1, OnceRan DEF Arrives
  <2> QED
      BY <2>1 DEF Acts
<1>4. /\ r \in OnceStates(g)
      /\ \A m \in Nodes(g) : r.done[m] = s.done[m]
      /\ h = "cuts" => r.cuts = s.cuts + 1
      /\ h = "waits" => r.cuts = s.cuts
  <2>1. r.todo \in Seq(NodeCalls(g))
      BY <1>2, <1>3 DEF Uses, Carries
  <2>2. Records(g, s, n, h)
      BY <1>0, <1>1, <2>1, OnceRecords DEF Arrives
  <2> QED
      BY <2>2 DEF Records
<1>5. r.done = s.done /\ s.cuts \in Nat /\ s.done \in [Nodes(g) -> {0, 1}]
  <2>1. r.done \in [Nodes(g) -> {0, 1}] /\ s.done \in [Nodes(g) -> {0, 1}] /\ s.cuts \in Nat
      BY <1>0, <1>4, OnceTypes
  <2> QED
      BY <1>4, <2>1
<1>6. Carries(g, r.todo, r.done, Tail(E)) /\ Used(g, r.done, Tail(E)) = U \cup {e}
    BY <1>2, <1>3, <1>5 DEF Uses
<1>7. \A m \in Nodes(g) : Settled(g, s, U, m)
    BY DEF OnceWalk
<1>8. \A m \in Nodes(g) \ {n} : Settled(g, r, U \cup {e}, m)
  <2>1. r.cuts = 0 => s.cuts = 0
      BY <1>4, <1>5
  <2> QED
      BY <1>1, <1>3, <1>5, <1>7, <2>1, OthersStaySettled DEF Arrives
<1>9. Settled(g, r, U \cup {e}, n)
  <2>1. r.done[n] = 0
      BY <1>1, <1>5 DEF Arrives
  <2>2. n \in Joins(g) => r.count[n] = Cardinality(Arriving(g, n) \cap (U \cup {e}))
      BY <1>1, <1>3 DEF Arrives
  <2>3. ASSUME r.cuts = 0, Arriving(g, n) \subseteq U \cup {e} PROVE FALSE
    <3>1. h = "waits"
        BY <1>4, <1>5, <2>3
    <3>2. n \in Joins(g) /\ Indegree(g, n) > s.count[n] + 1
        BY <1>3, <3>1
    <3>3. Cardinality(Arriving(g, n)) = Indegree(g, n)
        BY <1>1, <3>2 DEF RunsOnce, Arrives
    <3>4. Arriving(g, n) \cap (U \cup {e}) = Arriving(g, n)
        BY <2>3
    <3>5. Indegree(g, n) = s.count[n] + 1 /\ Indegree(g, n) \in Nat
        BY <1>1, <3>2, <3>3, <3>4, Incoming DEF Arrives
    <3> QED
        BY <3>2, <3>5
  <2> QED
      BY <2>1, <2>2, <2>3 DEF Settled
<1>10. OnceWalk(g, r, Tail(E))
    BY <1>6, <1>8, <1>9 DEF OnceWalk
<1> QED
    BY <1>4, <1>10 DEF OnceWalks

(* The task of a node goes on.                                                   *)
LEMMA OnceGoesOn ==
    ASSUME NEW g \in Graphs, RunsOnce(g), MaxDone > 1, NEW s \in OnceWalks(g), s.todo # <<>>,
           ~WaitsAt(g, s)
    PROVE  Ran(g, s, "goes on") \in OnceWalks(g)
<1> PICK E : OnceWalk(g, s, E)
    BY DEF OnceWalks
<1> PICK e : e = Head(E)
    OBVIOUS
<1> PICK n : n = LeadsTo(g, e)
    OBVIOUS
<1> PICK U : U = Used(g, s.done, E)
    OBVIOUS
<1>a. PICK r : r = Ran(g, s, "goes on")
    OBVIOUS
<1> DEFINE F == Outgoing(g, n) \o Tail(E)
<1>0. s \in OnceStates(g)
    BY DEF OnceWalks
<1>1. Arrives(g, s, e, n, U)
    BY <1>0, FirstArrives
<1>2. Uses(g, s.todo, s.done, E)
    BY FirstIsUsed DEF OnceWalk
<1>3. /\ r.todo = Calls(Followed(g, n)) \o Tail(s.todo)
      /\ \A m \in Nodes(g) \ {n} : r.count[m] = s.count[m]
      /\ n \in Joins(g) => ~(Indegree(g, n) > s.count[n] + 1)
  <2>1. Acts(g, s, n, "goes on")
      BY <1>0, <1>1, OnceRan DEF Arrives
  <2> QED
      BY <1>a, <2>1 DEF Acts
<1>4. /\ s.done \in [Nodes(g) -> {0, 1}] /\ s.count \in [Nodes(g) -> Nat]
      /\ Carries(g, Tail(s.todo), s.done, Tail(E)) /\ Used(g, s.done, Tail(E)) = U \cup {e}
    BY <1>0, <1>2, OnceTypes DEF Uses
<1>5. /\ Carries(g, r.todo, [s.done EXCEPT ![n] = 1], F)
      /\ Used(g, [s.done EXCEPT ![n] = 1], F) = U \cup {e}
  <2> DEFINE d2 == [s.done EXCEPT ![n] = 1]
  <2>1. d2 \in [Nodes(g) -> {0, 1}] /\ \A m \in Nodes(g) : d2[m] = IF m = n THEN 1 ELSE s.done[m]
      BY <1>4
  <2> HIDE DEF d2
  <2>2. n \in Nodes(g) /\ s.done[n] = 0
      BY <1>1 DEF Arrives
  <2>3. Sends(g, n, Tail(s.todo), s.done, d2, Tail(E))
      BY <1>4, <2>1, <2>2, NodeSends
  <2> QED
      BY <1>3, <1>4, <2>3 DEF Sends, d2
<1>6. /\ r \in OnceStates(g) /\ r.cuts = s.cuts
      /\ \A m \in Nodes(g) : r.done[m] = IF m = n THEN 1 ELSE s.done[m]
  <2>1. r.todo \in Seq(NodeCalls(g))
      BY <1>5 DEF Carries
  <2>2. Records(g, s, n, "goes on")
      BY <1>0, <1>1, <1>a, <2>1, OnceRecords DEF Arrives
  <2> QED
      BY <1>a, <2>2 DEF Records
<1>7. r.done = [s.done EXCEPT ![n] = 1]
  <2>1. r.done \in [Nodes(g) -> {0, 1}]
      BY <1>6, OnceTypes
  <2> QED
      BY <1>4, <1>6, <2>1
<1> HIDE DEF F
<1>8. \A m \in Nodes(g) : Settled(g, s, U, m)
    BY DEF OnceWalk
<1>9. \A m \in Nodes(g) \ {n} : Settled(g, r, U \cup {e}, m)
    BY <1>1, <1>3, <1>6, <1>8, OthersStaySettled DEF Arrives
<1>10. Arriving(g, n) \subseteq U \cup {e}
  <2>1. CASE n \notin Joins(g)
    <3>1. \A f \in Arriving(g, n) : e = f
      <4>1. n \in Nodes(g) /\ e \in Arriving(g, n)
          BY <1>1 DEF Arrives
      <4> QED
          BY <2>1, <4>1 DEF RunsOnce
    <3> QED
        BY <3>1
  <2>2. CASE n \in Joins(g)
    <3> DEFINE A == Arriving(g, n)
               V == A \cap (U \cup {e})
    <3>1. Cardinality(A) = Indegree(g, n)
        BY <1>1, <2>2 DEF RunsOnce, Arrives
    <3>2. Cardinality(V) = s.count[n] + 1 /\ s.count[n] \in Nat /\ Indegree(g, n) \in Nat
        BY <1>1, <1>4, <2>2, Incoming DEF Arrives
    <3>3. IsFiniteSet(A) /\ V \in SUBSET A
        BY ArrivalsAreFinite
    <3> HIDE DEF V
    <3>4. Cardinality(V) <= Cardinality(A)
        BY <3>3, FS_Subset
    <3>5. Cardinality(A) = Cardinality(V)
      <4>1. ~(Cardinality(A) > Cardinality(V))
          BY <1>3, <2>2, <3>1, <3>2
      <4>2. Cardinality(A) \in Nat /\ Cardinality(V) \in Nat
          BY <3>1, <3>2
      <4> HIDE DEF A
      <4> QED
          BY <3>4, <4>1, <4>2
    <3>6. A = V
        BY <3>3, <3>5, FS_Subset
    <3> QED
        BY <3>6 DEF V
  <2> QED
      BY <2>1, <2>2
<1>11. Settled(g, r, U \cup {e}, n)
  <2>1. r.done[n] = 1 /\ Times(g)[n] = 1
      BY <1>1, <1>6 DEF Arrives
  <2> QED
      BY <1>10, <2>1 DEF Settled
<1>12. OnceWalk(g, r, F)
  <2>1. \A m \in Nodes(g) : Settled(g, r, U \cup {e}, m)
      BY <1>9, <1>11
  <2>2. Carries(g, r.todo, r.done, F) /\ Used(g, r.done, F) = U \cup {e}
      BY <1>5, <1>7
  <2> QED
      BY <2>1, <2>2 DEF OnceWalk
<1> QED
    BY <1>6, <1>12, <1>a DEF OnceWalks

LEMMA OnceStarts ==
    ASSUME NEW g \in Graphs, RunsOnce(g) PROVE Start(g) \in OnceWalks(g)
<1> DEFINE s == Start(g)
           E == <<<<0, 1>>>>
           zero == [n \in Nodes(g) |-> 0]
<1>1. /\ s.todo = <<Call(1)>> /\ s.count = zero /\ s.branches = <<>> /\ s.loops = <<>>
      /\ s.items = <<>> /\ s.done = zero /\ s.cuts = 0
    BY DEF Start
<1>2. s \in OnceStates(g)
  <2>1. Call(1) \in NodeCalls(g)
      BY NodesAreNumbers DEF NodeCalls
  <2>2. <<Call(1)>> \in Seq(NodeCalls(g))
      BY <2>1
  <2>3. zero \in [Nodes(g) -> Nat] /\ zero \in [Nodes(g) -> {0, 1}]
      OBVIOUS
  <2> QED
      BY <2>2, <2>3 DEF Start, OnceStates
<1>3. Sent(g, zero) = {<<0, 1>>}
  <2>1. <<0, 1>> \in Sent(g, zero)
      BY DEF Sent, Arrivals
  <2>2. ASSUME NEW e \in Sent(g, zero) PROVE e = <<0, 1>>
    <3>1. e \in Arrivals(g) /\ e[1] = 0
        BY ArrivalsLead DEF Sent
    <3>2. ASSUME NEW m \in Nodes(g), e \in {m} \X DOMAIN Followed(g, m) PROVE FALSE
      <4>1. e[1] = m
          BY <3>2
      <4> QED
          BY <3>1, <4>1, NodesAreNumbers
    <3> QED
        BY <3>1, <3>2 DEF Arrivals
  <2> QED
      BY <2>1, <2>2
<1>4. Carries(g, s.todo, s.done, E)
  <2>1. E \in Seq(Sent(g, zero)) /\ Len(E) = 1 /\ Len(<<Call(1)>>) = 1
      BY <1>3
  <2>2. \A k \in 1..1 : <<Call(1)>>[k] = Call(LeadsTo(g, E[k]))
      BY DEF LeadsTo
  <2>3. <<Call(1)>> \in Seq(NodeCalls(g))
      BY <1>1, <1>2, OnceTypes
  <2>4. \A j, k \in 1..1 : j = k
      OBVIOUS
  <2> HIDE DEF E
  <2> QED
      BY <1>1, <2>1, <2>2, <2>3, <2>4 DEF Carries
<1>5. Used(g, zero, E) = {}
  <2>1. Held(E) = {<<0, 1>>}
      BY DEF Held
  <2> QED
      BY <1>3, <2>1 DEF Used
<1>6. \A n \in Nodes(g) : Settled(g, s, {}, n)
  <2> TAKE n \in Nodes(g)
  <2>1. s.done[n] = 0 /\ s.count[n] = 0
      BY <1>1
  <2>2. Arriving(g, n) \cap {} = {} /\ Cardinality({}) = 0
      BY FS_EmptySet
  <2>3. Arriving(g, n) # {} => ~(Arriving(g, n) \subseteq {})
      OBVIOUS
  <2> QED
      BY <2>1, <2>2, <2>3 DEF Settled
<1>7. OnceWalk(g, s, E)
  <2>1. Used(g, s.done, E) = {}
      BY <1>1, <1>5
  <2> QED
      BY <1>4, <1>6, <2>1 DEF OnceWalk
<1> QED
    BY <1>2, <1>7 DEF OnceWalks

LEMMA OnceClosed ==
    ASSUME NEW g \in Graphs, RunsOnce(g), MaxDone > 1 PROVE Closed(g, OnceWalks(g))
<1>1. ASSUME NEW s \in OnceWalks(g), s.todo # <<>> PROVE Go(g, s) \in OnceWalks(g)
  <2>1. PICK n \in Nodes(g) : Head(s.todo) = Call(n)
    <3>1. s.todo \in Seq(NodeCalls(g))
        BY OnceTypes DEF OnceWalks
    <3>2. Head(s.todo) \in NodeCalls(g)
        BY <1>1, <3>1, TailElements
    <3> QED
        BY <3>2 DEF NodeCalls
  <2>2. CASE WaitsAt(g, s)
    <3>1. Go(g, s) = Ran(g, s, "waits")
        BY <2>1, <2>2, GoAtCall
    <3> QED
        BY <1>1, <2>2, <3>1, OnceStops
  <2>3. CASE ~WaitsAt(g, s)
    <3>1. Go(g, s) = Ran(g, s, "goes on")
        BY <2>1, <2>3, GoAtCall
    <3> QED
        BY <1>1, <2>3, <3>1, OnceGoesOn
  <2> QED
      BY <2>2, <2>3
<1>2. \A s \in OnceWalks(g) : s.todo # <<>> => Ran(g, s, "cuts") \in OnceWalks(g)
    BY OnceStops
<1> QED
    BY <1>1, <1>2, OnceStarts DEF Closed

LEMMA LeastNumber ==
    ASSUME NEW S, S \subseteq Nat, S # {} PROVE \E n \in S : \A m \in S : ~(m < n)
<1>1. IsWellFoundedOn(OpToRel(<, Nat), Nat)
    BY NatLessThanWellFounded
<1>2. PICK n \in S : \A m \in S : ~(<<m, n>> \in OpToRel(<, Nat))
    BY <1>1, WFMin, Zenon
<1> QED
    BY <1>2, Zenon DEF OpToRel

(* A walk that has come to its end has run what it should: the first node that   *)
(* it left out would have been led to by nodes before it, which it did run.      *)
LEMMA OnceComplete ==
    ASSUME NEW g \in Graphs, RunsOnce(g), NEW s \in OnceWalks(g), s.todo = <<>>, s.cuts = 0
    PROVE  s.done = Times(g)
<1> PICK E : OnceWalk(g, s, E)
    BY DEF OnceWalks
<1> PICK U : U = Used(g, s.done, E)
    OBVIOUS
<1>1. s.done \in [Nodes(g) -> {0, 1}] /\ Times(g) \in [Nodes(g) -> {0, 1}]
    BY OnceTypes DEF OnceWalks, RunsOnce
<1>2. U = Sent(g, s.done)
  <2>1. Len(E) = 0
      BY EmptySeq DEF OnceWalk, Carries
  <2>2. Held(E) = {}
      BY <2>1 DEF Held
  <2> QED
      BY <2>2 DEF Used
<1>3. \A n \in Nodes(g) : Settled(g, s, U, n)
    BY DEF OnceWalk
<1> DEFINE missing == {n \in Nodes(g) : Times(g)[n] = 1 /\ s.done[n] = 0}
<1>4. missing = {}
  <2> SUFFICES ASSUME missing # {} PROVE FALSE
      OBVIOUS
  <2>1. missing \subseteq Nat
      BY FollowedLinks
  <2>2. PICK n \in missing : \A m \in missing : ~(m < n)
    <3> HIDE DEF missing
    <3> QED
        BY <2>1, LeastNumber
  <2>3. Arriving(g, n) \subseteq U
    <3> SUFFICES ASSUME NEW e \in Arriving(g, n), e[1] # 0 PROVE s.done[e[1]] = 1
        BY <1>2 DEF Sent, Arriving
    <3>1. e \in Arrivals(g) /\ LeadsTo(g, e) = n /\ Times(g)[e[1]] = 1
        BY DEF Arriving
    <3>2. e[1] \in Nodes(g) /\ e[1] < n
        BY <3>1, ArrivalsLead
    <3>3. e[1] \notin missing
        BY <2>2, <3>2
    <3> QED
        BY <1>1, <3>1, <3>2, <3>3
  <2>4. n \in Nodes(g) /\ Times(g)[n] = 1 /\ s.done[n] = 0
      OBVIOUS
  <2> HIDE DEF missing
  <2>5. Arriving(g, n) # {} /\ Settled(g, s, U, n)
      BY <1>3, <2>4 DEF RunsOnce
  <2>6. s.done[n] = 1
      BY <2>3, <2>5 DEF Settled
  <2> QED
      BY <2>4, <2>6
<1>5. \A n \in Nodes(g) : s.done[n] = Times(g)[n]
  <2> TAKE n \in Nodes(g)
  <2>1. s.done[n] = 1 => Times(g)[n] = 1
      BY <1>3 DEF Settled
  <2> QED
      BY <1>1, <1>4, <2>1
<1> QED
    BY <1>1, <1>5

LEMMA OnceSound ==
    ASSUME NEW g \in Graphs, RunsOnce(g), NEW s \in OnceWalks(g) PROVE SoundState(g, s)
<1> PICK E : OnceWalk(g, s, E)
    BY DEF OnceWalks
<1>1. s.done \in [Nodes(g) -> {0, 1}] /\ Times(g) \in [Nodes(g) -> {0, 1}]
    BY OnceTypes DEF OnceWalks, RunsOnce
<1>2. \A n \in Nodes(g) : s.done[n] = 1 => Times(g)[n] = 1 /\ Arriving(g, n) \subseteq Sent(g, s.done)
    BY DEF OnceWalk, Settled, Used
<1>3. \A n \in Nodes(g) : s.done[n] <= Times(g)[n]
    BY <1>1, <1>2
<1>4. ASSUME NEW j \in Joins(g), NEW p \in PrevLinks(g, j)
      PROVE  s.done[j] * Times(g)[p[1]] <= s.done[p[1]] * Times(g)[j]
  <2>1. j \in Nodes(g) /\ p[1] \in Nodes(g)
      BY DEF Joins, PrevLinks, Positions
  <2>2. /\ s.done[j] \in {0, 1} /\ s.done[p[1]] \in {0, 1}
        /\ Times(g)[j] \in {0, 1} /\ Times(g)[p[1]] \in {0, 1}
      BY <1>1, <2>1
  <2>3. s.done[j] = 1 => s.done[p[1]] = 1 /\ Times(g)[j] = 1
    <3> SUFFICES ASSUME s.done[j] = 1 PROVE s.done[p[1]] = 1 /\ Times(g)[j] = 1
        OBVIOUS
    <3>1. Times(g)[j] = 1 /\ Arriving(g, j) \subseteq Sent(g, s.done)
        BY <1>2, <2>1
    <3>2. PICK e \in Arriving(g, j) : e[1] = p[1]
        BY <2>1, <3>1 DEF RunsOnce
    <3>3. p[1] # 0
        BY <2>1, NodesAreNumbers
    <3> QED
        BY <3>1, <3>2, <3>3 DEF Sent
  <2> QED
      BY <2>2, <2>3
<1>5. s.todo = <<>> /\ s.cuts = 0 => s.done = Times(g)
    BY OnceComplete
<1> QED
    BY <1>3, <1>4, <1>5 DEF SoundState

LEMMA OnceGraphsResume ==
    ASSUME MaxDone > 1, \A g \in Graphs : Acyclic(g) => RunsOnce(g)
    PROVE  Spec => [](JoinWaits /\ NeverTwice /\ EndIsComplete)
<1>1. \A g \in Graphs : Acyclic(g) => WalksAreSound(g)
  <2> SUFFICES ASSUME NEW g \in Graphs, Acyclic(g) PROVE WalksAreSound(g)
      OBVIOUS
  <2>1. RunsOnce(g)
      OBVIOUS
  <2>2. Closed(g, OnceWalks(g)) /\ \A s \in OnceWalks(g) : SoundState(g, s)
      BY <2>1, OnceClosed, OnceSound
  <2> QED
      BY <2>2 DEF WalksAreSound
<1> QED
    BY <1>1, ResumeIsTransparent

(* In an instance of a graph whose nodes run once, halted and continued at tasks *)
(* of its own as often as one likes, no join is passed before all that leads to  *)
(* it has been: parallelRun counts anew in each re-walk, and counts right.       *)
THEOREM JoinsWait ==
    ASSUME MaxDone > 1, \A g \in Graphs : Acyclic(g) => RunsOnce(g) PROVE Spec => []JoinWaits
    BY OnceGraphsResume, PTL

(* Nor is a task of such an instance done twice: the re-walk runs nothing before *)
(* the node at which it ends, and nothing after it that was done before the halt.*)
THEOREM NothingTwice ==
    ASSUME MaxDone > 1, \A g \in Graphs : Acyclic(g) => RunsOnce(g) PROVE Spec => []NeverTwice
    BY OnceGraphsResume, PTL

(* And when an evaluation of it comes to its end, all that the graph asks for    *)
(* has been run, by it or before it: no branch is lost in a halt.                *)
THEOREM NothingLeftOut ==
    ASSUME MaxDone > 1, \A g \in Graphs : Acyclic(g) => RunsOnce(g) PROVE Spec => []EndIsComplete
    BY OnceGraphsResume, PTL

-------------------------------------------------------------------------------
(* The types of the state.                                                       *)

Entries(g, k) == {c \in [call : {"nodeRun", "iterate"}, node : Nodes(g), it : Nat] :
                    c.call = "iterate" => c.it \in 1..k}

Stacks(g, calls, bs, ls, its) ==
    /\ its \in Seq(Nat) /\ calls \in Seq(Entries(g, Len(its)))
    /\ bs \in Seq(Nat \ {0}) /\ ls \in Seq(1..Len(its))

Counters == /\ steps \in Nat /\ (budget >= 0 => steps <= budget)
            /\ count \in [Nodes(graph) -> Nat] /\ done \in [Nodes(graph) -> 0 .. MaxDone]

Control == /\ graph \in Graphs /\ budget \in Int
           /\ phase \in {"idle", "running"} /\ outcome \in {"ran", "stopped", "failed"}
           /\ reverting \in BOOLEAN /\ startNode \in Nodes(graph)
           /\ last \in Nodes(graph) \cup {0}

TypeInv == Control /\ Counters /\ Stacks(graph, todo, branches, loops, items)

LEMMA TypeInvIsTypeOK == ASSUME TypeInv PROVE TypeOK
<1>1. /\ items \in Seq(Nat) /\ todo \in Seq(Entries(graph, Len(items)))
      /\ branches \in Seq(Nat \ {0}) /\ loops \in Seq(1..Len(items))
    BY DEF TypeInv, Stacks
<1>2. DOMAIN items = 1..Len(items)
    BY <1>1
<1>3. \A i \in DOMAIN todo : todo[i] \in Entries(graph, Len(items))
    BY <1>1
<1>4. \A i \in DOMAIN todo : /\ todo[i].node \in Nodes(graph)
                             /\ todo[i].call = "iterate" => todo[i].it \in DOMAIN items
    BY <1>2, <1>3 DEF Entries
<1>5. /\ \A i \in DOMAIN branches : branches[i] \in Nat \ {0}
      /\ \A i \in DOMAIN loops : loops[i] \in DOMAIN items
      /\ \A i \in DOMAIN items : items[i] \in Nat
    BY <1>1, <1>2
<1> QED
    BY <1>4, <1>5 DEF TypeInv, Control, Counters, TypeOK

LEMMA CallsTyped ==
    ASSUME NEW g \in Graphs, NEW n \in Nodes(g), NEW q \in Seq(Range(g.links[n])), NEW k
    PROVE  Calls(q) \in Seq(Entries(g, k)) /\ Len(Calls(q)) = Len(q)
<1>1. \A l \in Range(g.links[n]) : l.to \in Nodes(g)
  <2>1. g.links[n] \in Seq([to : Nodes(g), when : {"empty", "yes", "no"}])
      BY FlowGraphs DEF IsGraph
  <2>2. \A S : \A f \in Seq(S) : \A j \in DOMAIN f : f[j] \in S
      OBVIOUS
  <2>3. \A j \in DOMAIN g.links[n] : g.links[n][j] \in [to : Nodes(g), when : {"empty", "yes", "no"}]
      BY <2>1, <2>2, Zenon
  <2> QED
      BY <2>3 DEF Range
<1>2. Len(q) \in Nat /\ DOMAIN q = 1..Len(q) /\ \A i \in 1..Len(q) : q[i] \in Range(g.links[n])
    BY LenProperties, ElementOfSeq
<1>3. \A i \in 1..Len(q) : Call(q[i].to) \in Entries(g, k)
    BY <1>1, <1>2 DEF Call, Entries
<1>4. Calls(q) \in [1..Len(q) -> Entries(g, k)]
    BY <1>2, <1>3 DEF Calls
<1>5. \A V : \A f \in [1..Len(q) -> V] : f \in Seq(V) /\ Len(f) = Len(q)
    BY <1>2
<1> QED
    BY <1>4, <1>5, Zenon

LEMMA EntriesGrow ==
    ASSUME NEW g, NEW j \in Nat, NEW k \in Nat, j <= k, NEW q \in Seq(Entries(g, j))
    PROVE  q \in Seq(Entries(g, k))
<1>1. 1..j \subseteq 1..k
    OBVIOUS
<1>2. Entries(g, j) \subseteq Entries(g, k)
    BY <1>1 DEF Entries
<1> QED
    BY <1>2, SeqMonotonic

(* What the head of nodeRun leaves.                                              *)
LEMMA HeadTyped ==
    ASSUME TypeInv, NEW n \in Nodes(graph), Entered(n)
    PROVE  /\ reverting' \in BOOLEAN /\ last' \in Nodes(graph) \cup {0}
           /\ Tail(todo) \in Seq(Entries(graph, Len(items)))
<1>1. todo \in Seq(Entries(graph, Len(items))) /\ todo # <<>>
    BY DEF TypeInv, Stacks, Entered
<1>2. Tail(todo) \in Seq(Entries(graph, Len(items)))
    BY <1>1, HeadTailProperties
<1>3. reverting \in BOOLEAN /\ last \in Nodes(graph) \cup {0}
    BY DEF TypeInv, Control
<1> QED
    BY <1>2, <1>3 DEF Entered

LEMMA StepsTyped ==
    ASSUME TypeInv, NEW n \in Nodes(graph), NodeRun(n)
    PROVE  steps' \in Nat /\ (budget >= 0 => steps' <= budget)
<1>1. steps \in Nat /\ budget \in Int /\ (budget >= 0 => steps <= budget)
    BY DEF TypeInv, Control, Counters
<1>2. steps' = Counted /\ (~reverting' => ~Exhausted)
    BY DEF NodeRun
<1>3. CASE reverting' \/ budget < 0
    BY <1>1, <1>2, <1>3 DEF Counted
<1>4. CASE ~reverting' /\ ~(budget < 0)
  <2>1. steps' = steps + 1 /\ ~(steps >= budget)
      BY <1>1, <1>2, <1>4 DEF Counted, Exhausted
  <2> QED
      BY <1>1, <2>1
<1> QED
    BY <1>3, <1>4

(* What the task of the node, or waiting at it, leaves.                          *)
Tasked(k) == /\ todo' \in Seq(Entries(graph, k)) /\ done' \in [Nodes(graph) -> 0 .. MaxDone]
             /\ outcome' \in {"ran", "stopped", "failed"}

LEMMA TaskOkTyped ==
    ASSUME TypeInv, NEW n \in Nodes(graph), Entered(n), NEW k \in Nat, Len(items) <= k,
           NEW next \in Seq(Entries(graph, k)), TaskOk(n, next)
    PROVE  Tasked(k)
<1>1. Tail(todo) \in Seq(Entries(graph, k))
  <2>1. Tail(todo) \in Seq(Entries(graph, Len(items))) /\ Len(items) \in Nat
      BY HeadTyped, LenProperties DEF TypeInv, Stacks
  <2> QED
      BY <2>1, EntriesGrow
<1>2. todo' \in Seq(Entries(graph, k))
    BY <1>1, ConcatProperties DEF TaskOk
<1>3. done' \in [Nodes(graph) -> 0 .. MaxDone]
  <2>1. done \in [Nodes(graph) -> 0 .. MaxDone] /\ MaxDone \in Nat
      BY FlowBounds DEF TypeInv, Counters
  <2>2. Min({done[n] + 1, MaxDone}) \in 0 .. MaxDone
      BY <2>1, MinOfTwo
  <2>3. done' = done \/ done' = [done EXCEPT ![n] = Min({done[n] + 1, MaxDone})]
      BY DEF TaskOk
  <2> QED
      BY <2>1, <2>2, <2>3
<1> QED
    BY <1>2, <1>3 DEF Tasked, TaskOk, TypeInv, Control

LEMMA CutTyped ==
    ASSUME TypeInv, NEW n \in Nodes(graph), Entered(n), TaskCuts(n) \/ Waits
    PROVE  Tasked(Len(items))
<1>1. Tail(todo) \in Seq(Entries(graph, Len(items))) /\ <<>> \in Seq(Entries(graph, Len(items)))
    BY HeadTyped, EmptySeq
<1>2. todo' = Tail(todo) \/ todo' = <<>>
    BY DEF TaskCuts, TaskHalts, TaskInterrupts, Waits
<1>3. done' = done /\ (outcome' = outcome \/ outcome' \in {"stopped", "failed"})
    BY DEF TaskCuts, TaskHalts, TaskInterrupts, Waits
<1>4. done \in [Nodes(graph) -> 0 .. MaxDone] /\ outcome \in {"ran", "stopped", "failed"}
    BY DEF TypeInv, Control, Counters
<1> QED
    BY <1>1, <1>2, <1>3, <1>4 DEF Tasked

(* What a run of a node leaves of the calls and of the Temporary.                *)
Left == /\ Tasked(Len(items')) /\ items' \in Seq(Nat) /\ branches' \in Seq(Nat \ {0})
        /\ loops' \in Seq(1..Len(items')) /\ count' \in [Nodes(graph) -> Nat]

LEMMA TemporaryTyped ==
    ASSUME TypeInv
    PROVE  /\ items \in Seq(Nat) /\ branches \in Seq(Nat \ {0}) /\ loops \in Seq(1..Len(items))
           /\ count \in [Nodes(graph) -> Nat] /\ Len(items) \in Nat /\ graph \in Graphs
    BY LenProperties DEF TypeInv, Stacks, Control, Counters

(* The task goes on to links of the node, or it ends, or the node waits.         *)
LEMMA LinksTasked ==
    ASSUME TypeInv, Selects(graph), NEW n \in Nodes(graph), Entered(n),
           NEW q \in {Matched(graph, n), Chosen(graph, n), graph.links[n]},
           TaskOk(n, Calls(q)) \/ TaskCuts(n) \/ Waits
    PROVE  Tasked(Len(items))
<1>1. CASE TaskCuts(n) \/ Waits
    BY <1>1, CutTyped
<1>2. CASE TaskOk(n, Calls(q))
  <2>1. q \in Seq(Range(graph.links[n]))
    <3>1. graph.links[n] \in Seq(Range(graph.links[n]))
        BY LinksAreLinks, TemporaryTyped
    <3> QED
        BY <3>1 DEF Selects
  <2>2. Calls(q) \in Seq(Entries(graph, Len(items))) /\ Len(items) \in Nat
      BY <2>1, CallsTyped, TemporaryTyped
  <2> QED
      BY <1>2, <2>2, TaskOkTyped
<1> QED
    BY <1>1, <1>2

LEMMA FrontTyped ==
    ASSUME NEW S, NEW q \in Seq(S), q # <<>> PROVE Front(q) \in Seq(S)
<1>1. Len(q) \in Nat \ {0} /\ \A i \in 1..Len(q) : q[i] \in S
    BY EmptySeq, ElementOfSeq
<1>2. Front(q) = [i \in 1..(Len(q) - 1) |-> q[i]]
    BY <1>1 DEF Front
<1> QED
    BY <1>1, <1>2

LEMMA PlainTyped ==
    ASSUME TypeInv, Selects(graph), NEW n \in Nodes(graph), PlainRun(n) \/ ExclusiveRun(n)
    PROVE  Left
<1>1. UNCHANGED temporary /\ Entered(n)
    BY DEF PlainRun, ExclusiveRun, NodeRun
<1>2. Tasked(Len(items))
    BY <1>1, LinksTasked DEF PlainRun, ExclusiveRun
<1> QED
    BY <1>1, <1>2, TemporaryTyped DEF Left, temporary

LEMMA ParallelTyped ==
    ASSUME TypeInv, Selects(graph), NEW n \in Nodes(graph), ParallelRun(n) PROVE Left
<1>1. Entered(n) /\ UNCHANGED <<branches, loops, items>>
    BY DEF ParallelRun, NodeRun
<1>2. TaskOk(n, Calls(graph.links[n])) \/ TaskCuts(n) \/ Waits
    BY DEF ParallelRun
<1>3. Tasked(Len(items))
    BY <1>1, <1>2, LinksTasked
<1>4. count[n] + 1 \in Nat /\ count \in [Nodes(graph) -> Nat]
    BY TemporaryTyped
<1>5. count' \in [Nodes(graph) -> Nat]
  <2>1. count' = [count EXCEPT ![n] = count[n] + 1] \/ count' = [count EXCEPT ![n] = 0]
      BY DEF ParallelRun
  <2> QED
      BY <1>4, <2>1
<1> QED
    BY <1>1, <1>3, <1>5, TemporaryTyped DEF Left

LEMMA InclusiveTyped ==
    ASSUME TypeInv, Selects(graph), NEW n \in Nodes(graph), InclusiveRun(n) PROVE Left
<1> DEFINE joins  == Indegree(graph, n) > 1 /\ branches # <<>>
           popped == IF joins THEN Front(branches) ELSE branches
           out    == Len(Matched(graph, n))
<1>1. Entered(n) /\ UNCHANGED <<loops, items>>
    BY DEF InclusiveRun, NodeRun
<1>2. TaskOk(n, Calls(Matched(graph, n))) \/ TaskCuts(n) \/ Waits
    BY DEF InclusiveRun
<1>3. Tasked(Len(items))
    BY <1>1, <1>2, LinksTasked
<1>4. count' \in [Nodes(graph) -> Nat]
  <2>1. count[n] + 1 \in Nat /\ count[n] \in Nat /\ count \in [Nodes(graph) -> Nat]
      BY TemporaryTyped
  <2>2. count' = [count EXCEPT ![n] = count[n] + 1] \/ count' = [count EXCEPT ![n] = count[n]]
      BY DEF InclusiveRun
  <2> QED
      BY <2>1, <2>2
<1>5. branches' \in Seq(Nat \ {0})
  <2>1. popped \in Seq(Nat \ {0}) /\ branches \in Seq(Nat \ {0})
      BY FrontTyped, TemporaryTyped
  <2>2. out \in Nat
      BY LenProperties DEF Selects
  <2>3. \/ branches' = branches \/ branches' = popped
        \/ out > 0 /\ branches' = Append(popped, out)
      BY DEF InclusiveRun
  <2> HIDE DEF popped, out
  <2> QED
      BY <2>1, <2>2, <2>3
<1> QED
    BY <1>1, <1>3, <1>4, <1>5, TemporaryTyped DEF Left

LEMMA LoopInTyped ==
    ASSUME TypeInv, Selects(graph), NEW n \in Nodes(graph), LoopInRun(n) PROVE Left
<1>1. Entered(n) /\ UNCHANGED <<count, branches, items>>
    BY DEF LoopInRun, NodeRun
<1>2. TaskOk(n, Calls(Matched(graph, n))) \/ TaskCuts(n) \/ Waits
    BY DEF LoopInRun
<1>3. Tasked(Len(items))
    BY <1>1, <1>2, LinksTasked
<1>4. loops' \in Seq(1..Len(items))
  <2>1. loops' = loops \/ (loops # <<>> /\ loops' = Front(loops))
      BY DEF LoopInRun
  <2> QED
      BY <2>1, FrontTyped, TemporaryTyped
<1> QED
    BY <1>1, <1>3, <1>4, TemporaryTyped DEF Left

LEMMA LoopOutTyped ==
    ASSUME TypeInv, Selects(graph), NEW n \in Nodes(graph), LoopOutRun(n) PROVE Left
<1> DEFINE k == Len(items) + 1
           entry == [call |-> "iterate", node |-> n, it |-> k]
<1>1. Entered(n) /\ UNCHANGED <<count, branches>>
    BY DEF LoopOutRun, NodeRun
<1>2. CASE TaskCuts(n) /\ UNCHANGED <<items, loops>>
  <2>1. Tasked(Len(items))
      BY <1>1, <1>2, CutTyped
  <2> QED
      BY <1>1, <1>2, <2>1, TemporaryTyped DEF Left
<1>3. CASE /\ TaskOk(n, <<entry>>) /\ items' = Append(items, graph.items[n])
           /\ loops' = Append(loops, k)
  <2>1. k \in Nat /\ k \in 1..k /\ Len(items) <= k /\ 1..Len(items) \subseteq 1..k
      BY TemporaryTyped
  <2>2. graph.items[n] \in Nat
      BY TemporaryTyped, FlowGraphs DEF IsGraph
  <2>3. items' \in Seq(Nat) /\ Len(items') = k
      BY <1>3, <2>2, TemporaryTyped
  <2>4. loops' \in Seq(1..k)
    <3>1. loops \in Seq(1..k)
        BY <2>1, TemporaryTyped, SeqMonotonic
    <3> HIDE DEF k
    <3> QED
        BY <1>3, <2>1, <3>1
  <2>5. <<entry>> \in Seq(Entries(graph, k))
    <3>1. entry \in Entries(graph, k)
        BY <2>1 DEF Entries
    <3> QED
        BY <3>1
  <2> HIDE DEF k, entry
  <2>6. Tasked(k)
      BY <1>1, <1>3, <2>1, <2>5, TaskOkTyped
  <2> QED
      BY <1>1, <2>3, <2>4, <2>6, TemporaryTyped DEF Left
<1> QED
    BY <1>2, <1>3 DEF LoopOutRun

LEMMA VisitTyped ==
    ASSUME TypeInv, Selects(graph), NEW n \in Nodes(graph), Visit(n) PROVE TypeInv'
<1>1. CASE OutOfSteps(n)
  <2>1. reverting' \in BOOLEAN /\ last' \in Nodes(graph) \cup {0}
      BY <1>1, HeadTyped DEF OutOfSteps
  <2>2. <<>> \in Seq(Entries(graph, Len(items)))
      BY EmptySeq
  <2> QED
      BY <1>1, <2>1, <2>2 DEF OutOfSteps, temporary, history, TypeInv, Control, Counters, Stacks
<1>2. CASE ~OutOfSteps(n)
  <2>1. NodeRun(n) /\ Entered(n) /\ Left
    <3>1. NodeRun(n)
        BY <1>2 DEF Visit, PlainRun, ExclusiveRun, InclusiveRun, ParallelRun, LoopInRun, LoopOutRun
    <3> QED
        BY <1>2, <3>1, PlainTyped, ParallelTyped, InclusiveTyped, LoopInTyped, LoopOutTyped
           DEF Visit, NodeRun
  <2>2. /\ reverting' \in BOOLEAN /\ last' \in Nodes(graph) \cup {0}
        /\ steps' \in Nat /\ (budget >= 0 => steps' <= budget)
      BY <2>1, HeadTyped, StepsTyped
  <2>3. UNCHANGED <<graph, budget, phase, startNode>>
      BY <2>1 DEF NodeRun
  <2>4. Control'
      BY <2>1, <2>2, <2>3 DEF Control, TypeInv, Left, Tasked
  <2>5. Counters'
      BY <2>1, <2>2, <2>3 DEF Counters, Left, Tasked
  <2>6. Stacks(graph, todo, branches, loops, items)'
      BY <2>1, <2>3 DEF Stacks, Left, Tasked
  <2> QED
      BY <2>4, <2>5, <2>6 DEF TypeInv
<1> QED
    BY <1>1, <1>2

LEMMA IterateTyped ==
    ASSUME TypeInv, Selects(graph), Iterate PROVE TypeInv'
<1> PICK head : head = Head(todo)
    OBVIOUS
<1>1. /\ items \in Seq(Nat) /\ todo \in Seq(Entries(graph, Len(items)))
      /\ Len(items) \in Nat /\ graph \in Graphs
    BY TemporaryTyped DEF TypeInv, Stacks
<1>2. head \in Entries(graph, Len(items)) /\ Tail(todo) \in Seq(Entries(graph, Len(items)))
    BY <1>1, HeadTailProperties DEF Iterate
<1>3. head.node \in Nodes(graph) /\ head.it \in 1..Len(items)
    BY <1>2 DEF Iterate, Entries
<1>4. Stacks(graph, todo, branches, loops, items)'
  <2>1. UNCHANGED <<graph, branches, loops>>
      BY DEF Iterate
  <2>2. CASE ~HasNext(head.it)
    <3>1. todo' = Tail(todo) /\ items' = items
        BY <2>2 DEF Iterate
    <3> QED
        BY <1>2, <2>1, <3>1 DEF TypeInv, Stacks
  <2>3. CASE HasNext(head.it)
    <3> DEFINE q == Matched(graph, head.node)
    <3>1. todo' = Calls(q) \o todo /\ items' = [items EXCEPT ![head.it] = items[head.it] - 1]
        BY <2>3 DEF Iterate
    <3>2. items[head.it] - 1 \in Nat
      <4>1. items[head.it] \in Nat
          BY <1>1, <1>3, ElementOfSeq
      <4> QED
          BY <2>3, <4>1 DEF HasNext
    <3>3. items' \in Seq(Nat) /\ Len(items') = Len(items)
        BY <1>1, <1>3, <3>1, <3>2, ExceptSeq
    <3>4. Calls(q) \in Seq(Entries(graph, Len(items)))
        BY <1>1, <1>3, CallsTyped DEF Selects
    <3>5. todo' \in Seq(Entries(graph, Len(items)))
        BY <1>1, <3>1, <3>4, ConcatProperties
    <3> QED
        BY <2>1, <3>3, <3>5 DEF TypeInv, Stacks
  <2> QED
      BY <2>2, <2>3
<1> QED
    BY <1>4 DEF Iterate, TypeInv, Control, Counters, history

LEMMA FreshTyped ==
    ASSUME NEW g \in Graphs, NEW its, its = <<>>, NEW calls, calls = <<>> \/ calls = <<Call(1)>>,
           NEW bs, bs = <<>>, NEW ls, ls = <<>>
    PROVE  Stacks(g, calls, bs, ls, its)
<1>1. Call(1) \in Entries(g, 0)
    BY NodesAreNumbers DEF Call, Entries
<1>2. <<>> \in Seq(Entries(g, 0)) /\ <<Call(1)>> \in Seq(Entries(g, 0))
    BY <1>1
<1>3. its \in Seq(Nat) /\ Len(its) = 0 /\ bs \in Seq(Nat \ {0}) /\ ls \in Seq(1..0)
    BY EmptySeq
<1> QED
    BY <1>2, <1>3 DEF Stacks

LEMMA EvalTyped ==
    ASSUME TypeInv, Eval PROVE TypeInv'
<1>1. graph \in Graphs /\ graph' = graph /\ budget' = budget /\ last' = last /\ done' = done
    BY DEF TypeInv, Control, Eval
<1>2. Stacks(graph, todo, branches, loops, items)'
    BY <1>1, FreshTyped DEF Eval, NewTemporary
<1>3. Control'
  <2>1. startNode' \in Nodes(graph)
      BY <1>1, NodesAreNumbers DEF Eval, Point, TypeInv, Control
  <2> QED
      BY <1>1, <2>1 DEF Eval, TypeInv, Control
<1>4. Counters'
  <2>1. steps' = 0 /\ count' = [n \in Nodes(graph) |-> 0]
      BY DEF Eval, NewTemporary
  <2> QED
      BY <1>1, <2>1 DEF TypeInv, Control, Counters
<1> QED
    BY <1>2, <1>3, <1>4 DEF TypeInv

LEMMA LinkFailsTyped ==
    ASSUME TypeInv, LinkFails PROVE TypeInv'
<1>1. /\ UNCHANGED <<graph, budget, phase, reverting, startNode, last, steps, count, branches,
                     loops, items>>
      /\ outcome' = "failed" /\ todo' = <<>>
    BY DEF LinkFails, temporary
<1>2. Stacks(graph, todo, branches, loops, items)'
    BY <1>1, EmptySeq DEF TypeInv, Stacks
<1>3. done' \in [Nodes(graph) -> 0 .. MaxDone]
  <2>1. done \in [Nodes(graph) -> 0 .. MaxDone] /\ 0 \in 0 .. MaxDone
      BY FlowBounds DEF TypeInv, Counters
  <2>2. done' = done \/ done' = [done EXCEPT ![Point] = 0]
      BY DEF LinkFails
  <2> QED
      BY <2>1, <2>2
<1>4. Control' /\ Counters'
    BY <1>1, <1>3 DEF TypeInv, Control, Counters
<1> QED
    BY <1>2, <1>4 DEF TypeInv

LEMMA InitTyped == ASSUME Init PROVE TypeInv
<1>1. graph \in Graphs /\ budget \in Int
    BY FlowBounds DEF Init
<1>2. Stacks(graph, todo, branches, loops, items)
    BY <1>1, FreshTyped DEF Init
<1>3. Control
    BY <1>1, NodesAreNumbers DEF Init, Control
<1>4. Counters
  <2>1. 0 \in 0 .. MaxDone
      BY FlowBounds
  <2> QED
      BY <1>1, <2>1 DEF Init, Counters
<1> QED
    BY <1>2, <1>3, <1>4 DEF TypeInv

(* The types of the state; the calls and the stack of loops name iterators that  *)
(* exist, and an evaluation counts no more steps than its budget (nextStep), on  *)
(* any graph, with cycles or without.                                            *)
THEOREM TypeCorrect ==
    ASSUME \A g \in Graphs : Selects(g) PROVE Spec => []TypeOK
<1>1. Init => TypeInv
    BY InitTyped
<1>2. TypeInv /\ [Next]_vars => TypeInv'
  <2> SUFFICES ASSUME TypeInv, [Next]_vars PROVE TypeInv'
      OBVIOUS
  <2>1. Selects(graph)
      BY DEF TypeInv, Control
  <2>2. CASE Eval
      BY <2>2, EvalTyped
  <2>3. CASE EvalReturns
      BY <2>3 DEF EvalReturns, temporary, history, TypeInv, Control, Counters
  <2>4. CASE Iterate
      BY <2>1, <2>4, IterateTyped
  <2>5. CASE \E n \in Nodes(graph) : Visit(n)
      BY <2>1, <2>5, VisitTyped
  <2>6. CASE LinkFails
      BY <2>6, LinkFailsTyped
  <2>7. CASE UNCHANGED vars
      BY <2>7 DEF vars, temporary, history, TypeInv, Control, Counters
  <2> QED
      BY <2>2, <2>3, <2>4, <2>5, <2>6, <2>7 DEF Next
<1>3. TypeInv => TypeOK
    BY TypeInvIsTypeOK
<1> QED
    BY <1>1, <1>2, <1>3, PTL DEF Spec
===============================================================================
