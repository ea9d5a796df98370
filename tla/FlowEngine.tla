------------------------------ MODULE FlowEngine ------------------------------
(***************************************************************************)
(* The graph traversal of flow/engine.go: one flow instance is evaluated,  *)
(* halted (Stop, an error, an exhausted step budget), and evaluated again  *)
(* from its trace.                                                         *)
(*                                                                         *)
(* nodeRun is recursive and runs on one goroutine; todo is its call stack, *)
(* flattened: the nodes still to be run, the innermost first.  A step is   *)
(* one nodeRun up to the calls it makes for the next nodes.  A loop leaves *)
(* an "iterate" entry, which is the head of its for statement.             *)
(***************************************************************************)
EXTENDS FlowGraph

CONSTANTS
    Graphs,         \* the graphs an instance may run
    Budgets,        \* the step budgets of an evaluation, -1 is unlimited
    MaxEvals,       \* bound: evaluations of an instance
    MaxHalts,       \* bound: tasks that stop the flow or fail, conditions that fail
    MaxInterrupts,  \* bound: tasks that interrupt their branch
    MaxDone         \* bound: where the history counter of a node saturates

ASSUME FlowBounds ==
    /\ Graphs # {} /\ Budgets \subseteq Int /\ Budgets # {}
    /\ {MaxEvals, MaxHalts, MaxInterrupts, MaxDone} \subseteq Nat

ASSUME FlowGraphs == \A g \in Graphs : IsGraph(g)

VARIABLES
    graph,      \* the graph and the budget of the instance: never change
    budget,
    phase,      \* "idle", "running"
    outcome,    \* how the evaluation went so far: "ran", "stopped", "failed"
    todo,       \* the calls that are still to be made
    reverting,  \* Exchanger.reverting
    startNode,  \* the node the evaluation reverts to
    last,       \* Trace: the last recorded node, 0 when there is none
    steps,      \* Exchanger.stepCnt
    count,      \* Temporary: the counter of each node
    branches,   \* Temporary: the stack "inclusive_run"
    loops,      \* Temporary: the stack "loop_run", of indices into items
    items,      \* the items each iterator still has
    done,       \* history: how often each node was passed, tasks and all; not
                \* yet when a resume is going to execute its task again
    halts, interrupts, evals,
    clean       \* history: each resume follows a halt, at a node that runs once

temporary == <<count, branches, loops, items>>
history   == <<done, halts, interrupts, evals, clean>>
vars == <<graph, budget, phase, outcome, todo, reverting, startNode, last,
          steps, temporary, history>>

Call(n)     == [call |-> "nodeRun", node |-> n, it |-> 0]
Calls(ls)   == [i \in DOMAIN ls |-> Call(ls[i].to)]
-----------------------------------------------------------------------------
Init ==
    /\ graph \in Graphs /\ budget \in Budgets
    /\ budget < 0 => Acyclic(graph)
    /\ phase = "idle" /\ outcome = "ran" /\ todo = <<>>
    /\ reverting = FALSE /\ startNode = 1 /\ last = 0 /\ steps = 0
    /\ count = [n \in Nodes(graph) |-> 0] /\ branches = <<>> /\ loops = <<>> /\ items = <<>>
    /\ done = [n \in Nodes(graph) |-> 0]
    /\ halts = 0 /\ interrupts = 0 /\ evals = 0 /\ clean = Acyclic(graph)

\* Eval: a new Exchanger, with a new Temporary, reverts to the last node of
\* the trace.  The caller does not evaluate an instance again that has ended.
Resumable == last # 0 => graph.type[last] # "end"
Point     == IF last = 0 THEN 1 ELSE last

\* Mutant: the counters and stacks outlive the evaluation.
NewTemporaryKept == UNCHANGED temporary

NewTemporary == /\ count' = [n \in Nodes(graph) |-> 0] /\ branches' = <<>>
                /\ loops' = <<>> /\ items' = <<>>

Eval ==
    /\ phase = "idle" /\ evals < MaxEvals /\ Resumable
    /\ phase' = "running" /\ outcome' = "ran" /\ evals' = evals + 1
    /\ todo' = <<Call(1)>> /\ reverting' = TRUE
    /\ startNode' = Point
    /\ steps' = 0
    /\ NewTemporary
    /\ clean' = /\ clean
                /\ evals > 0 => /\ outcome # "ran" /\ interrupts = 0
                                /\ Times(graph)[startNode'] = 1 /\ startNode' \notin Joins(graph)
    /\ UNCHANGED <<graph, budget, last, done, halts, interrupts>>

EvalReturns ==
    /\ phase = "running" /\ todo = <<>>
    /\ phase' = "idle"
    /\ UNCHANGED <<graph, budget, outcome, todo, reverting, startNode, last, steps,
                   temporary, history>>

\* The head of nodeRun.  While reverting a node is neither recorded nor
\* counted; the node to revert to ends it.
\*
\* Mutant: steps that are refunded.
CountedNever == steps

Exhausted == budget >= 0 /\ steps >= budget
Counted == IF reverting' \/ budget < 0 THEN steps ELSE steps + 1

Entered(n) ==
    /\ phase = "running" /\ todo # <<>> /\ Head(todo) = Call(n)
    /\ reverting' = (reverting /\ n # startNode)
    /\ last' = IF reverting THEN last ELSE n

OutOfSteps(n) ==
    /\ Entered(n) /\ ~reverting' /\ Exhausted
    /\ todo' = <<>> /\ outcome' = "stopped"
    /\ UNCHANGED <<graph, budget, phase, startNode, steps, temporary, history>>

NodeRun(n) ==
    /\ Entered(n)
    /\ ~reverting' => ~Exhausted
    /\ steps' = Counted
    /\ UNCHANGED <<graph, budget, phase, startNode, evals>>

\* taskExec: the hooks and the task of the node, skipped while reverting.  It
\* goes on to the calls of next, or it ends the flow, or only this branch.
\*
\* Mutant: tasks are run while reverting.
TaskOkReverting(n, next) ==
    /\ todo' = next \o Tail(todo)
    /\ done' = [done EXCEPT ![n] = Min({@ + 1, MaxDone})]
    /\ UNCHANGED <<outcome, halts, interrupts, clean>>

TaskOk(n, next) ==
    /\ todo' = next \o Tail(todo)
    /\ done' = IF reverting' THEN done
               ELSE [done EXCEPT ![n] = Min({@ + 1, MaxDone})]
    /\ UNCHANGED <<outcome, halts, interrupts, clean>>

TaskHalts(n) ==
    /\ ~reverting' /\ halts < MaxHalts
    /\ halts' = halts + 1 /\ todo' = <<>>
    /\ outcome' \in {"stopped", "failed"}
    /\ UNCHANGED <<done, interrupts, clean>>

TaskInterrupts(n) ==
    /\ ~reverting' /\ interrupts < MaxInterrupts
    /\ interrupts' = interrupts + 1 /\ todo' = Tail(todo)
    /\ clean' = (clean /\ Times(graph)[n] = 1)
    /\ UNCHANGED <<outcome, done, halts>>

TaskCuts(n) == TaskHalts(n) \/ TaskInterrupts(n)

Waits == todo' = Tail(todo) /\ UNCHANGED <<outcome, done, halts, interrupts, clean>>

\* startRun, endRun, activityRun
PlainRun(n) ==
    /\ graph.type[n] \in {"start", "end", "activity"} /\ NodeRun(n)
    /\ TaskOk(n, Calls(Matched(graph, n))) \/ TaskCuts(n)
    /\ UNCHANGED temporary

ExclusiveRun(n) ==
    /\ graph.type[n] = "exclusive" /\ NodeRun(n)
    /\ TaskOk(n, Calls(Chosen(graph, n))) \/ TaskCuts(n)
    /\ UNCHANGED temporary

\* A gateway with several incoming links waits for as many arrivals as the
\* top of the stack says.  Its counter is never reset, and it pushes the
\* number of its own outgoing branches when it is passed.
InclusiveRun(n) ==
    LET joins   == Indegree(graph, n) > 1 /\ branches # <<>>
        arrived == IF joins THEN count[n] + 1 ELSE count[n]
        waits   == joins /\ branches[Len(branches)] > arrived
        popped  == IF joins THEN Front(branches) ELSE branches
        out     == Len(Matched(graph, n))
    IN /\ graph.type[n] = "inclusive" /\ NodeRun(n)
       /\ count' = [count EXCEPT ![n] = arrived]
       /\ \/ /\ waits /\ Waits
             /\ UNCHANGED branches
          \/ /\ ~waits /\ TaskOk(n, Calls(Matched(graph, n)))
             /\ branches' = IF out > 0 THEN Append(popped, out) ELSE popped
          \/ /\ ~waits /\ TaskCuts(n)
             /\ branches' = popped
       /\ UNCHANGED <<loops, items>>

ParallelRun(n) ==
    LET arrived == count[n] + 1
        waits   == Indegree(graph, n) > arrived
    IN /\ graph.type[n] = "parallel" /\ NodeRun(n)
       /\ \/ waits /\ Waits /\ count' = [count EXCEPT ![n] = arrived]
          \/ ~waits /\ TaskOk(n, Calls(graph.links[n])) /\ count' = [count EXCEPT ![n] = 0]
          \/ ~waits /\ TaskCuts(n) /\ count' = [count EXCEPT ![n] = arrived]
       /\ UNCHANGED <<branches, loops, items>>

\* Mutant: the iterator stops an item early.
HasNextShort(it) == items[it] > 1

HasNext(it) == items[it] > 0

\* The end of a loop's body waits while the innermost iterator has items.
LoopInRun(n) ==
    LET waits == loops # <<>> /\ HasNext(loops[Len(loops)])
        popped == IF loops = <<>> THEN loops ELSE Front(loops)
    IN /\ graph.type[n] = "loopIn" /\ NodeRun(n)
       /\ \/ waits /\ Waits /\ UNCHANGED loops
          \/ ~waits /\ TaskOk(n, Calls(Matched(graph, n))) /\ loops' = popped
          \/ ~waits /\ TaskCuts(n) /\ loops' = popped
       /\ UNCHANGED <<count, branches, items>>

LoopOutRun(n) ==
    LET it == Len(items) + 1
    IN /\ graph.type[n] = "loopOut" /\ NodeRun(n)
       /\ \/ /\ TaskOk(n, <<[call |-> "iterate", node |-> n, it |-> it]>>)
             /\ items' = Append(items, graph.items[n])
             /\ loops' = Append(loops, it)
          \/ TaskCuts(n) /\ UNCHANGED <<items, loops>>
       /\ UNCHANGED <<count, branches>>

Iterate ==
    /\ phase = "running" /\ todo # <<>> /\ Head(todo).call = "iterate"
    /\ LET it == Head(todo).it
           n  == Head(todo).node
       IN \/ /\ HasNext(it)
             /\ items' = [items EXCEPT ![it] = @ - 1]
             /\ todo' = Calls(Matched(graph, n)) \o todo
          \/ /\ ~HasNext(it)
             /\ todo' = Tail(todo)
             /\ UNCHANGED items
    /\ UNCHANGED <<graph, budget, phase, outcome, reverting, startNode, last, steps,
                   count, branches, loops, history>>

\* The condition of a link fails, between two nodes: at any moment of a walk in
\* which the graph has conditions, reverting or not.  The next evaluation goes
\* back to the node that was recorded last, and executes its task again.
HasConditions(g) ==
    \E p \in Positions(g) : /\ g.type[p[1]] # "parallel"
                            /\ g.links[p[1]][p[2]].when # "empty"

LinkFails ==
    /\ phase = "running" /\ outcome = "ran" /\ halts < MaxHalts
    /\ HasConditions(graph)
    /\ outcome' = "failed" /\ todo' = <<>> /\ halts' = halts + 1
    /\ done' = IF reverting THEN done ELSE [done EXCEPT ![Point] = 0]
    /\ clean' = (clean /\ \/ reverting
                           \/ /\ interrupts = 0
                              /\ Times(graph)[Point] = 1 /\ Point \notin Joins(graph))
    /\ UNCHANGED <<graph, budget, phase, reverting, startNode, last, steps, temporary,
                   interrupts, evals>>

Visit(n) == \/ OutOfSteps(n) \/ PlainRun(n) \/ ExclusiveRun(n) \/ InclusiveRun(n)
            \/ ParallelRun(n) \/ LoopInRun(n) \/ LoopOutRun(n)

Next == Eval \/ EvalReturns \/ Iterate \/ LinkFails \/ \E n \in Nodes(graph) : Visit(n)

\* The goroutine that evaluates is not abandoned in the middle of a traversal.
Spec == Init /\ [][Next]_vars /\ WF_vars(EvalReturns \/ Iterate \/ \E n \in Nodes(graph) : Visit(n))
-----------------------------------------------------------------------------
(* Properties. *)

\* The types of the state; the calls and the stack of loops name iterators that
\* exist, and an evaluation never counts more steps than its budget (nextStep).
TypeOK ==
    /\ phase \in {"idle", "running"} /\ outcome \in {"ran", "stopped", "failed"}
    /\ \A i \in DOMAIN todo : /\ todo[i].node \in Nodes(graph)
                              /\ todo[i].call = "iterate" => todo[i].it \in DOMAIN items
    /\ reverting \in BOOLEAN /\ startNode \in Nodes(graph) /\ last \in Nodes(graph) \cup {0}
    /\ steps \in Nat /\ (budget >= 0 => steps <= budget)
    /\ count \in [Nodes(graph) -> Nat] /\ done \in [Nodes(graph) -> 0 .. MaxDone]
    /\ \A i \in DOMAIN branches : branches[i] \in Nat \ {0}
    /\ \A i \in DOMAIN loops : loops[i] \in DOMAIN items
    /\ \A i \in DOMAIN items : items[i] \in Nat

\* A join is passed only when all that lead to it have been: no gateway lets
\* the flow go on while a branch it has to wait for has not arrived, in this
\* evaluation or in one it continues.  (The joins of inclusiveRun, parallelRun
\* and loopRun, with the counters that a re-walk builds up again.)
JoinWaits ==
    clean => \A j \in Joins(graph) : \A p \in PrevLinks(graph, j) :
                done[j] * Times(graph)[p[1]] <= done[p[1]] * Times(graph)[j]

\* An instance that is halted and continued at a node of its own does no task
\* twice: the re-walk runs nothing before the point of resumption, and the
\* traversal runs each node as often as the graph asks for.
NeverTwice == clean => \A n \in Nodes(graph) : done[n] <= Times(graph)[n]

\* An evaluation that comes to its end, halted before or not, has run all the
\* graph asks for: no branch is forgotten by a join or by a re-walk.
EndIsComplete ==
    phase = "idle" /\ evals > 0 /\ outcome = "ran" /\ interrupts = 0 /\ clean
        => done = Times(graph)

\* Every evaluation returns, in a graph with a cycle because of its budget.
Finishes == phase = "running" ~> phase = "idle"
=============================================================================
