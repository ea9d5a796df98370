-------------------------- MODULE FlowWorkflowProofs --------------------------
(* Proofs about FlowWorkflow: the types, and that a task is done once, for any   *)
(* graph, any users and any number of failures and other submissions.            *)
EXTENDS FlowWorkflow, FiniteSetTheorems, SequenceTheorems, TLAPS

(* What makes a second run impossible: a node that was run stays COMPLETED until *)
(* it is sent back, or is overwritten by someone who had read another state.     *)
DoneIsCompleted == \A n \in done : state[n] = "COMPLETED" \/ n \in torn

(* What is written is the first of the nodes still to run.                       *)
PuttingHasNode == \A u \in Users : pc[u] = "putting" => todo[u] # <<>>

OnceInv == TypeOK /\ PuttingHasNode /\ DoneIsCompleted /\ HandledOnce

-------------------------------------------------------------------------------
(* A walk starts at First with fresh counts, or with those of the submission.    *)
LEMMA WalkTypes ==
    ASSUME TypeOK, NEW u \in Users, NEW i \in {"claim", "find", "findNext", "submit"},
           Walk(u, i)
    PROVE  /\ pc' \in [Users -> {"idle", "walking", "putting", "forwarding", "reverting"}]
           /\ intent' \in [Users -> {"claim", "find", "findNext", "submit"}]
           /\ todo' \in [Users -> Seq(Nodes)]
           /\ count' \in [Users -> [{"own", "submission"} -> [Gateways -> Nat]]]
           /\ seen' \in [Users -> {"UNKNOWN", "WAITING"}]
           /\ last' \in [Users -> Nodes \cup {NoNode}]
<1>1. Zero \in [Gateways -> Nat]
    BY DEF Zero
<1>2. count' \in [Users -> [{"own", "submission"} -> [Gateways -> Nat]]]
    BY <1>1 DEF TypeOK, Walk
<1> QED
    BY <1>2, WorkflowAssumption DEF TypeOK, Walk, Goto

(* The three ways in which a walk goes on from the node it is at.                *)
LEMMA TodoTypes ==
    ASSUME TypeOK, NEW u \in Users, NEW n \in Nodes, todo[u] # <<>>,
           GoOn(u, n) \/ Interrupt(u) \/ Stop(u)
    PROVE  todo' \in [Users -> Seq(Nodes)]
<1>1. todo[u] \in Seq(Nodes) /\ Tail(todo[u]) \in Seq(Nodes)
    BY DEF TypeOK
<1>2. Links[n] \in Seq(Nodes) /\ Links[n] \o Tail(todo[u]) \in Seq(Nodes)
    BY <1>1, WorkflowAssumption
<1>3. \E t \in Seq(Nodes) : todo' = [todo EXCEPT ![u] = t]
  <2>1. CASE GoOn(u, n)
      BY <1>1, <1>2, <2>1 DEF GoOn
  <2>2. CASE Interrupt(u)
      BY <1>1, <2>2 DEF Interrupt
  <2>3. CASE Stop(u)
    <3>1. <<>> \in Seq(Nodes)
        OBVIOUS
    <3> QED
        BY <2>3, <3>1 DEF Stop
  <2> QED
      BY <2>1, <2>2, <2>3
<1> QED
    BY <1>3 DEF TypeOK

LEMMA CountTypes ==
    ASSUME TypeOK, NEW u \in Users, NEW n \in Nodes, NEW k \in Nat, Counted(u, n, k)
    PROVE  count' \in [Users -> [{"own", "submission"} -> [Gateways -> Nat]]]
    BY DEF TypeOK, Counted, Key

LEMMA ArrivedNat ==
    ASSUME TypeOK, NEW u \in Users, NEW n \in Gateways
    PROVE  Arrived(u, n) \in Nat
    BY DEF TypeOK, Arrived, Key

LEMMA FaultTypes ==
    ASSUME TypeOK, Fault
    PROVE  faults' \in 0..MaxFaults
    BY WorkflowAssumption DEF TypeOK, Fault

-------------------------------------------------------------------------------
THEOREM OnceInit == Init => OnceInv
<1> SUFFICES ASSUME Init PROVE OnceInv
    OBVIOUS
<1>1. Zero \in [Gateways -> Nat]
    BY DEF Zero
<1>2. count \in [Users -> [{"own", "submission"} -> [Gateways -> Nat]]]
    BY <1>1 DEF Init
<1>3. TypeOK
    BY <1>2, WorkflowAssumption DEF Init, TypeOK, States
<1> QED
    BY <1>3 DEF Init, OnceInv, PuttingHasNode, DoneIsCompleted, HandledOnce

(* What a step may do to a state and to the history of its node; the three ways  *)
(* it is done cover every action but those that only read.                       *)
Ran(n)      == Run(n) /\ torn \subseteq torn' /\ (state[n] = "COMPLETED" => n \in torn')
Rewrites(n) == /\ \E s \in States : state' = [state EXCEPT ![n] = s]
               /\ done' = done /\ twice' = twice /\ torn \subseteq torn'
               /\ (state[n] = "COMPLETED" => n \in torn')
Kept        == UNCHANGED <<state, done, twice, torn>>

LEMMA RanOnce ==
    ASSUME OnceInv, NEW n \in Nodes, Ran(n)
    PROVE  DoneIsCompleted' /\ HandledOnce'
    BY DEF OnceInv, TypeOK, DoneIsCompleted, HandledOnce, Ran, Run

LEMMA RewritesOnce ==
    ASSUME OnceInv, NEW n \in Nodes, Rewrites(n)
    PROVE  DoneIsCompleted' /\ HandledOnce'
    BY DEF OnceInv, TypeOK, DoneIsCompleted, HandledOnce, Rewrites

LEMMA RemovedOnce ==
    ASSUME OnceInv, NEW S, StateRemove(S)
    PROVE  DoneIsCompleted' /\ HandledOnce'
    BY DEF OnceInv, TypeOK, DoneIsCompleted, HandledOnce, StateRemove

LEMMA KeptOnce ==
    ASSUME OnceInv, Kept
    PROVE  DoneIsCompleted' /\ HandledOnce'
    BY DEF OnceInv, DoneIsCompleted, HandledOnce, Kept

LEMMA StepOnce ==
    ASSUME OnceInv, NEW u \in Users, NEW n \in Nodes,
           \/ RunsAuto(u, n) \/ Parks(u, n) \/ SubmitForward(u, n)
           \/ SubmitTerminate(u, n) \/ SubmitRestart(u, n)
    PROVE  DoneIsCompleted' /\ HandledOnce'
<1>1. CASE RunsAuto(u, n)
  <2>1. Ran(n)
      BY <1>1 DEF RunsAuto, Tear, Ran, OnceInv, TypeOK
  <2> QED
      BY <2>1, RanOnce
<1>2. CASE SubmitForward(u, n)
  <2>1. Ran(n)
      BY <1>2 DEF SubmitForward, Permitted, Ran
  <2> QED
      BY <2>1, RanOnce
<1>3. CASE Parks(u, n)
  <2>1. Rewrites(n)
      BY <1>3 DEF Parks, Tear, Rewrites, OnceInv, TypeOK, States
  <2> QED
      BY <2>1, RewritesOnce
<1>4. CASE SubmitTerminate(u, n)
  <2>1. Rewrites(n)
      BY <1>4 DEF SubmitTerminate, Permitted, Rewrites, history, States
  <2> QED
      BY <2>1, RewritesOnce
<1>5. CASE SubmitRestart(u, n)
    BY <1>5, RemovedOnce DEF SubmitRestart
<1> QED
    BY <1>1, <1>2, <1>3, <1>4, <1>5

-------------------------------------------------------------------------------
(* The steps of a walk at node n, and those that start or end one.               *)
LEMMA WalkStepTypes ==
    ASSUME TypeOK, NEW u \in Users, NEW n \in Nodes,
           \/ JoinWaits(u, n) \/ Passes(u, n) \/ MeetsTerminated(u, n)
           \/ NotOperatable(u, n) \/ FindsWaiting(u, n) \/ Reads(u, n)
    PROVE  TypeOK'
<1> USE DEF At, Meets, Gives, Human
<1>0. todo[u] # <<>>
    BY DEF JoinWaits, Passes, MeetsTerminated, NotOperatable, FindsWaiting, Reads
<1>1. CASE JoinWaits(u, n)
  <2>1. Arrived(u, n) \in Nat
      BY <1>1, ArrivedNat DEF JoinWaits, Open
  <2>2. count' \in [Users -> [{"own", "submission"} -> [Gateways -> Nat]]]
      BY <1>1, <2>1, CountTypes DEF JoinWaits
  <2>3. todo' \in [Users -> Seq(Nodes)]
      BY <1>0, <1>1, TodoTypes DEF JoinWaits
  <2> QED
      BY <1>1, <2>2, <2>3 DEF JoinWaits, TypeOK, history
<1>2. CASE Passes(u, n)
  <2>1. count' \in [Users -> [{"own", "submission"} -> [Gateways -> Nat]]]
      BY <1>2, CountTypes DEF Passes
  <2>2. todo' \in [Users -> Seq(Nodes)]
      BY <1>0, <1>2, TodoTypes DEF Passes
  <2> QED
      BY <1>2, <2>1, <2>2 DEF Passes, TypeOK, history
<1>3. CASE MeetsTerminated(u, n)
  <2>1. todo' \in [Users -> Seq(Nodes)]
      BY <1>0, <1>3, TodoTypes DEF MeetsTerminated
  <2>2. next' \in [Users -> Seq(Nodes)]
    <3>1. <<>> \in Seq(Nodes)
        OBVIOUS
    <3> QED
        BY <1>3, <3>1 DEF MeetsTerminated, TypeOK
  <2> QED
      BY <1>3, <2>1, <2>2 DEF MeetsTerminated, TypeOK, history
<1>4. CASE NotOperatable(u, n)
  <2>1. todo' \in [Users -> Seq(Nodes)]
      BY <1>0, <1>4, TodoTypes DEF NotOperatable
  <2> QED
      BY <1>4, <2>1 DEF NotOperatable, TypeOK, history
<1>5. CASE FindsWaiting(u, n)
  <2>1. todo' \in [Users -> Seq(Nodes)]
      BY <1>0, <1>5, TodoTypes DEF FindsWaiting
  <2> QED
      BY <1>5, <2>1 DEF FindsWaiting, TypeOK, history
<1>6. CASE Reads(u, n)
  <2>1. count' \in [Users -> [{"own", "submission"} -> [Gateways -> Nat]]]
      BY <1>6, CountTypes DEF Reads
  <2>2. state[n] \in {"UNKNOWN", "WAITING"}
      BY <1>6 DEF Reads
  <2> QED
      BY <1>6, <2>1, <2>2 DEF Reads, TypeOK, Goto, history
<1> QED
    BY <1>1, <1>2, <1>3, <1>4, <1>5, <1>6

LEMMA WriteTypes ==
    ASSUME TypeOK, NEW u \in Users, NEW n \in Nodes, todo[u] # <<>>,
           RunsAuto(u, n) \/ AutoFails(u, n) \/ Parks(u, n)
    PROVE  TypeOK'
<1>1. todo' \in [Users -> Seq(Nodes)]
    BY TodoTypes DEF RunsAuto, AutoFails, Parks
<1>2. CASE RunsAuto(u, n)
    BY <1>1, <1>2 DEF RunsAuto, Run, Tear, Goto, TypeOK, States
<1>3. CASE AutoFails(u, n)
    BY <1>1, <1>3, FaultTypes DEF AutoFails, Goto, TypeOK, history
<1>4. CASE Parks(u, n)
  <2>1. found' \in [Users -> SUBSET Nodes] /\ torn' \subseteq Nodes /\ undone' \subseteq Nodes
      BY <1>4 DEF Parks, Tear, Gives, TypeOK
  <2>2. state' \in [Nodes -> States]
      BY <1>4 DEF Parks, TypeOK, States
  <2>3. pc' \in [Users -> {"idle", "walking", "putting", "forwarding", "reverting"}]
      BY <1>4 DEF Parks, Goto, TypeOK
  <2> QED
      BY <1>1, <1>4, <2>1, <2>2, <2>3 DEF Parks, TypeOK
<1> QED
    BY <1>2, <1>3, <1>4

(* What concerns no node, and the submissions.                                   *)
LEMMA UserStepTypes ==
    ASSUME TypeOK, NEW u \in Users,
           \/ Asks(u) \/ WalkEnds(u) \/ Forward(u) \/ ForwardEnds(u)
           \/ Reverts(u) \/ BackEnds(u)
    PROVE  TypeOK'
<1>1. CASE Asks(u)
  <2>1. PICK i \in {"claim", "find", "findNext"} : Ask(u, i)
      BY <1>1, WorkflowAssumption DEF Asks
  <2> QED
      BY <2>1, WalkTypes DEF Ask, TypeOK, history
<1>2. CASE WalkEnds(u)
  <2>1. CASE Walk(u, "submit")
      BY <1>2, <2>1, WalkTypes DEF WalkEnds, TypeOK, history
  <2>2. CASE UNCHANGED walks /\ (Goto(u, "idle") \/ Goto(u, "forwarding"))
      BY <1>2, <2>2 DEF WalkEnds, Goto, TypeOK, history, walks
  <2> QED
      BY <1>2, <2>1, <2>2 DEF WalkEnds
<1>3. CASE Forward(u)
  <2>1. next' \in [Users -> Seq(Nodes)]
    <3>1. next[u] \in Seq(Nodes) /\ Tail(next[u]) \in Seq(Nodes)
        BY <1>3 DEF Forward, TypeOK
    <3> QED
        BY <1>3, <3>1 DEF Forward, TypeOK
  <2>2. CASE Walk(u, "find") \/ Walk(u, "submit")
      BY <1>3, <2>1, <2>2, WalkTypes DEF Forward, TypeOK, history
  <2>3. CASE UNCHANGED <<pc, walks>>
      BY <1>3, <2>1, <2>3 DEF Forward, TypeOK, history, walks
  <2> QED
      BY <1>3, <2>2, <2>3 DEF Forward
<1>4. CASE ForwardEnds(u)
    BY <1>4 DEF ForwardEnds, Goto, TypeOK, history, walks
<1>5. CASE Reverts(u)
    BY <1>5 DEF Reverts, StateRemove, TypeOK, States, walks
<1>6. CASE BackEnds(u)
    BY <1>6 DEF BackEnds, Goto, TypeOK, history, walks
<1> QED
    BY <1>1, <1>2, <1>3, <1>4, <1>5, <1>6

LEMMA SubmitTypes ==
    ASSUME TypeOK, NEW u \in Users, NEW n \in Nodes,
           \/ Refused(u, n) \/ SubmitForward(u, n) \/ SubmitFails(u, n)
           \/ SubmitBack(u, n) \/ SubmitTerminate(u, n) \/ SubmitRestart(u, n)
    PROVE  TypeOK'
<1>1. CASE Refused(u, n)
    BY <1>1 DEF Refused, TypeOK, history, walks
<1>2. CASE SubmitForward(u, n)
  <2>1. Zero \in [Gateways -> Nat]
      BY DEF Zero
  <2>2. count' \in [Users -> [{"own", "submission"} -> [Gateways -> Nat]]]
      BY <1>2, <2>1 DEF SubmitForward, TypeOK
  <2>3. next' \in [Users -> Seq(Nodes)]
      BY <1>2, WorkflowAssumption DEF SubmitForward, TypeOK
  <2> QED
      BY <1>2, <2>2, <2>3 DEF SubmitForward, Run, Goto, TypeOK, States
<1>3. CASE SubmitFails(u, n)
    BY <1>3, FaultTypes DEF SubmitFails, TypeOK, history, walks
<1>4. CASE SubmitBack(u, n)
  <2>1. Back(n) \subseteq Nodes
      BY DEF Back
  <2> QED
      BY <1>4, <2>1, FaultTypes DEF SubmitBack, Goto, TypeOK, history, walks
<1>5. CASE SubmitTerminate(u, n)
    BY <1>5, FaultTypes DEF SubmitTerminate, TypeOK, States, history, walks
<1>6. CASE SubmitRestart(u, n)
    BY <1>6, FaultTypes DEF SubmitRestart, StateRemove, TypeOK, States, walks
<1> QED
    BY <1>1, <1>2, <1>3, <1>4, <1>5, <1>6

-------------------------------------------------------------------------------
LEMMA PuttingStep ==
    ASSUME TypeOK, PuttingHasNode, NEW u \in Users,
           \/ Asks(u) \/ Step(u) \/ Submits(u) \/ Other(u)
    PROVE  PuttingHasNode'
<1> USE DEF PuttingHasNode, TypeOK, Goto, At, walks
<1>1. CASE Asks(u)
    BY <1>1 DEF Asks, Ask, Walk
<1>2. CASE \E n \in Nodes : JoinWaits(u, n) \/ Passes(u, n) \/ MeetsTerminated(u, n)
    BY <1>2 DEF JoinWaits, Passes, MeetsTerminated, GoOn, Interrupt, Stop
<1>3. CASE \E n \in Nodes : NotOperatable(u, n) \/ FindsWaiting(u, n) \/ Reads(u, n)
    BY <1>3 DEF NotOperatable, FindsWaiting, Reads, Human, Interrupt, Stop
<1>4. CASE \E n \in Nodes : RunsAuto(u, n) \/ AutoFails(u, n) \/ Parks(u, n)
  <2>1. \E l \in {"walking", "idle"} : pc' = [pc EXCEPT ![u] = l]
      BY <1>4 DEF RunsAuto, AutoFails, Parks
  <2>2. \E t : todo' = [todo EXCEPT ![u] = t]
    <3>1. PICK n \in Nodes : GoOn(u, n) \/ Interrupt(u) \/ Stop(u)
        BY <1>4 DEF RunsAuto, AutoFails, Parks
    <3> QED
        BY <3>1 DEF GoOn, Interrupt, Stop
  <2> QED
      BY <2>1, <2>2
<1>5. CASE WalkEnds(u) \/ Forward(u) \/ ForwardEnds(u) \/ Reverts(u) \/ BackEnds(u)
    BY <1>5 DEF WalkEnds, Forward, ForwardEnds, Reverts, BackEnds, Walk
<1>6. CASE Submits(u)
    BY <1>6 DEF Submits, Refused, SubmitForward
<1>7. CASE \E n \in Nodes : \/ SubmitFails(u, n) \/ SubmitBack(u, n)
                            \/ SubmitTerminate(u, n) \/ SubmitRestart(u, n)
    BY <1>7 DEF SubmitFails, SubmitBack, SubmitTerminate, SubmitRestart
<1> QED
    BY <1>1, <1>2, <1>3, <1>4, <1>5, <1>6, <1>7 DEF Step, Other

LEMMA TypeStep ==
    ASSUME TypeOK, PuttingHasNode, NEW u \in Users,
           \/ Asks(u) \/ Step(u) \/ Submits(u) \/ Other(u)
    PROVE  TypeOK'
<1>1. CASE \E n \in Nodes : RunsAuto(u, n) \/ AutoFails(u, n) \/ Parks(u, n)
  <2>1. todo[u] # <<>>
      BY <1>1 DEF PuttingHasNode, RunsAuto, AutoFails, Parks, Writing
  <2> QED
      BY <1>1, <2>1, WriteTypes
<1>2. CASE Step(u)
    BY <1>1, <1>2, WalkStepTypes, UserStepTypes DEF Step
<1>3. CASE Asks(u)
    BY <1>3, UserStepTypes
<1>4. CASE Submits(u)
    BY <1>4, SubmitTypes DEF Submits
<1>5. CASE Other(u)
    BY <1>1, <1>5, SubmitTypes DEF Other
<1> QED
    BY <1>2, <1>3, <1>4, <1>5

LEMMA OnceStep ==
    ASSUME OnceInv, NEW u \in Users,
           \/ Asks(u) \/ Step(u) \/ Submits(u) \/ Other(u)
    PROVE  DoneIsCompleted' /\ HandledOnce'
<1> USE DEF Kept, history
<1>1. CASE Asks(u)
    BY <1>1, KeptOnce DEF Asks, Ask
<1>2. CASE \E n \in Nodes : \/ JoinWaits(u, n) \/ Passes(u, n) \/ MeetsTerminated(u, n)
                            \/ NotOperatable(u, n) \/ FindsWaiting(u, n) \/ Reads(u, n)
                            \/ AutoFails(u, n)
  <2>1. Kept
      BY <1>2 DEF JoinWaits, Passes, MeetsTerminated, NotOperatable, FindsWaiting, Reads,
                  AutoFails
  <2> QED
      BY <2>1, KeptOnce
<1>3. CASE \E n \in Nodes : \/ RunsAuto(u, n) \/ Parks(u, n) \/ SubmitForward(u, n)
                            \/ SubmitTerminate(u, n) \/ SubmitRestart(u, n)
    BY <1>3, StepOnce
<1>4. CASE WalkEnds(u) \/ Forward(u) \/ ForwardEnds(u) \/ BackEnds(u)
    BY <1>4, KeptOnce DEF WalkEnds, Forward, ForwardEnds, BackEnds
<1>5. CASE Reverts(u)
    BY <1>5, RemovedOnce DEF Reverts
<1>6. CASE \E n \in Nodes : Refused(u, n) \/ SubmitFails(u, n) \/ SubmitBack(u, n)
    BY <1>6, KeptOnce DEF Refused, SubmitFails, SubmitBack
<1> QED
    BY <1>1, <1>2, <1>3, <1>4, <1>5, <1>6 DEF Step, Submits, Other

(* The inductive invariant of the workflow, over any graph without inclusive     *)
(* gateways, conditions or loops.                                                *)
THEOREM Invariance == Spec => []OnceInv
<1>1. ASSUME OnceInv, [Next]_vars PROVE OnceInv'
  <2>1. CASE UNCHANGED vars
      BY <1>1, <2>1 DEF vars, walks, history, OnceInv, TypeOK, PuttingHasNode,
                        DoneIsCompleted, HandledOnce
  <2>2. CASE Next
    <3>1. PICK u \in Users : Asks(u) \/ Step(u) \/ Submits(u) \/ Other(u)
        BY <2>2 DEF Next
    <3>2. TypeOK' /\ PuttingHasNode'
        BY <1>1, <3>1, TypeStep, PuttingStep DEF OnceInv
    <3>3. DoneIsCompleted' /\ HandledOnce'
        BY <1>1, <3>1, OnceStep
    <3> QED
        BY <3>2, <3>3 DEF OnceInv
  <2> QED
      BY <1>1, <2>1, <2>2
<1> QED
    BY <1>1, OnceInit, PTL DEF Spec

(* Type correctness of the workflow's state, its walks and its submissions.      *)
THEOREM TypeCorrect == Spec => []TypeOK
<1>1. OnceInv => TypeOK
    BY DEF OnceInv
<1> QED
    BY <1>1, Invariance, PTL

(* SubmitTaskIfWaiting and the walks run a task once, unless it is sent back, or *)
(* its node is overwritten by one who had read another state of it.              *)
THEOREM TasksAreHandledOnce == Spec => []HandledOnce
<1>1. OnceInv => HandledOnce
    BY DEF OnceInv
<1> QED
    BY <1>1, Invariance, PTL

-------------------------------------------------------------------------------
(* The order of the tasks.  A walk arrives at a node by an edge, from the start  *)
(* (NoNode) or from the node that it has gone on from.                           *)
From(n) == Preds(n) \cup (IF n \in ToSet(First) THEN {NoNode} ELSE {})

Edges == {e \in (Nodes \cup {NoNode}) \X Nodes : e[1] \in From(e[2])}

(* The graphs in which the order is kept: only gateways join, no node is linked  *)
(* twice by another, and a task is followed by at most one automatic node (with  *)
(* two of them the run flow_workflow_fan shows what happens).                    *)
Repeats(s) == \E i, j \in 1..Len(s) : i # j /\ s[i] = s[j]
SimpleGraph ==
    /\ IsFiniteSet(Nodes)
    /\ \A n \in Activities : \A p, q \in From(n) : p = q
    /\ ~Repeats(First)
    /\ \A n \in Nodes : ~Repeats(Links[n])
    /\ \A n \in Nodes : \A i, j \in 1..Len(Links[n]) :
           Links[n][i] \in Automatic /\ Links[n][j] \in Automatic => i = j

(* A walk that has still to take the edges E and has taken those in gone, with   *)
(* the arrivals c, over a graph of which the nodes in ok have been done: no edge *)
(* is taken twice, an edge is taken from a node when all the edges to that node  *)
(* are gone, and a gateway that waits has counted those that are.                *)
Came(gone, n) == {p \in From(n) : <<p, n>> \in gone}

Sound(E, gone, c, ok) ==
    /\ E \in Seq(Edges) /\ gone \subseteq Edges
    /\ ~Repeats(E) /\ \A i \in 1..Len(E) : E[i] \notin gone
    /\ \A e \in gone \cup ToSet(E) :
           e[1] # NoNode => e[1] \in ok /\ Came(gone, e[1]) = From(e[1])
    /\ \A g \in Gateways : \/ Came(gone, g) = From(g)
                           \/ c[g] = Cardinality(Came(gone, g))

(* Nothing has been taken from n yet.                                            *)
Unused(E, gone, n) == \A e \in gone \cup ToSet(E) : e[1] # n

LEMMA FromIsFinite ==
    ASSUME SimpleGraph, NEW n \in Nodes
    PROVE  IsFiniteSet(From(n)) /\ Cardinality(From(n)) = Indegree(n)
<1>1. Preds(n) \subseteq Nodes /\ NoNode \notin Preds(n)
    BY WorkflowAssumption DEF Preds
<1>2. IsFiniteSet(Preds(n))
    BY <1>1, FS_Subset DEF SimpleGraph
<1>3. Cardinality(Preds(n)) \in Nat
    BY <1>2, FS_CardinalityType
<1>4. IsFiniteSet(Preds(n) \cup {NoNode}) /\ Cardinality(Preds(n) \cup {NoNode}) = Cardinality(Preds(n)) + 1
    BY <1>1, <1>2, FS_AddElement
<1>5. CASE n \in ToSet(First)
    BY <1>4, <1>5 DEF From, Indegree
<1>6. CASE n \notin ToSet(First)
  <2>1. From(n) = Preds(n)
      BY <1>6 DEF From
  <2> QED
      BY <1>2, <1>3, <1>6, <2>1 DEF Indegree
<1> QED
    BY <1>5, <1>6

(* The nodes that are left when the first edge is gone.                          *)
LEMMA TailOfEdges ==
    ASSUME NEW E \in Seq(Edges), E # <<>>
    PROVE  /\ Head(E) \in Edges /\ Head(E) = E[1] /\ Head(E) \in ToSet(E)
           /\ Tail(E) \in Seq(Edges) /\ Len(Tail(E)) = Len(E) - 1 /\ Len(E) \in Nat \ {0}
           /\ \A i \in 1..Len(Tail(E)) : Tail(E)[i] = E[i + 1] /\ i + 1 \in 1..Len(E)
           /\ ToSet(Tail(E)) \subseteq ToSet(E)
<1>1. Len(E) \in Nat \ {0} /\ DOMAIN E = 1..Len(E)
    BY EmptySeq, LenProperties
<1>2. Head(E) \in Edges /\ Head(E) = E[1] /\ Head(E) \in ToSet(E)
    BY <1>1, HeadTailProperties, ElementOfSeq DEF ToSet
<1>3. /\ Tail(E) \in Seq(Edges) /\ Len(Tail(E)) = Len(E) - 1
      /\ \A i \in 1..Len(Tail(E)) : Tail(E)[i] = E[i + 1]
    BY HeadTailProperties
<1>4. \A i \in 1..Len(Tail(E)) : i + 1 \in 1..Len(E)
    BY <1>1, <1>3
<1>5. DOMAIN Tail(E) = 1..Len(Tail(E))
    BY <1>3, LenProperties
<1> QED
    BY <1>1, <1>2, <1>3, <1>4, <1>5 DEF ToSet

(* Arriving by the first edge: one more of the edges to its node has been taken. *)
LEMMA OneMore ==
    ASSUME SimpleGraph, NEW E, NEW gone, NEW c, NEW ok, Sound(E, gone, c, ok), E # <<>>,
           NEW n \in Nodes, n = Head(E)[2]
    PROVE  /\ Head(E)[1] \in From(n) /\ Head(E)[1] \notin Came(gone, n)
           /\ Came(gone \cup {Head(E)}, n) = Came(gone, n) \cup {Head(E)[1]}
           /\ Cardinality(Came(gone \cup {Head(E)}, n)) = Cardinality(Came(gone, n)) + 1
           /\ IsFiniteSet(Came(gone \cup {Head(E)}, n))
           /\ Unused(E, gone, n)
<1> DEFINE h == Head(E)
<1>1. h \in Edges /\ h \in ToSet(E) /\ h = E[1] /\ 1 \in 1..Len(E)
    BY TailOfEdges DEF Sound
<1>2. h = <<h[1], n>> /\ h[1] \in From(n)
    BY <1>1 DEF Edges
<1>3. h \notin gone
    BY <1>1 DEF Sound
<1>4. h[1] \notin Came(gone, n)
    BY <1>2, <1>3 DEF Came
<1>5. Came(gone \cup {h}, n) = Came(gone, n) \cup {h[1]}
    BY <1>2 DEF Came
<1>7. IsFiniteSet(Came(gone, n))
    BY FromIsFinite, FS_Subset DEF Came
<1>8. Cardinality(Came(gone \cup {h}, n)) = Cardinality(Came(gone, n)) + 1
      /\ IsFiniteSet(Came(gone \cup {h}, n))
  <2> DEFINE S == Came(gone, n)
  <2>1. IsFiniteSet(S) /\ h[1] \notin S
      BY <1>4, <1>7
  <2> HIDE DEF S
  <2>2. IsFiniteSet(S \cup {h[1]}) /\ Cardinality(S \cup {h[1]}) = Cardinality(S) + 1
      BY <2>1, FS_AddElement
  <2> QED
      BY <1>5, <2>2 DEF S
<1>9. Unused(E, gone, n)
  <2> SUFFICES ASSUME NEW e \in gone \cup ToSet(E), e[1] = n PROVE FALSE
      BY DEF Unused
  <2>1. Came(gone, n) = From(n)
      BY WorkflowAssumption DEF Sound
  <2> QED
      BY <2>1, <1>2, <1>4
<1> QED
    BY <1>2, <1>4, <1>5, <1>8, <1>9

(* The walk without its first edge, which is gone or dropped.                    *)
LEMMA Dropped ==
    ASSUME NEW E, NEW gone, NEW c, NEW ok, Sound(E, gone, c, ok), E # <<>>
    PROVE  Sound(Tail(E), gone, c, ok)
<1>1. E \in Seq(Edges)
    BY DEF Sound
<1>2. /\ Tail(E) \in Seq(Edges) /\ Len(Tail(E)) = Len(E) - 1 /\ Len(E) \in Nat
      /\ \A i \in 1..Len(Tail(E)) : Tail(E)[i] = E[i + 1] /\ i + 1 \in 1..Len(E)
      /\ ToSet(Tail(E)) \subseteq ToSet(E)
    BY <1>1, TailOfEdges
<1>3. ~Repeats(Tail(E))
  <2> SUFFICES ASSUME NEW i \in 1..Len(Tail(E)), NEW j \in 1..Len(Tail(E)),
                      i # j, Tail(E)[i] = Tail(E)[j]
               PROVE  FALSE
      BY DEF Repeats
  <2>1. i + 1 \in 1..Len(E) /\ j + 1 \in 1..Len(E) /\ i + 1 # j + 1 /\ E[i + 1] = E[j + 1]
      BY <1>2
  <2> QED
      BY <2>1 DEF Sound, Repeats
<1>4. \A i \in 1..Len(Tail(E)) : Tail(E)[i] \notin gone
    BY <1>2 DEF Sound
<1> QED
    BY <1>2, <1>3, <1>4 DEF Sound

LEMMA Arrives ==
    ASSUME SimpleGraph, NEW E, NEW gone, NEW c, NEW ok, Sound(E, gone, c, ok), E # <<>>,
           NEW n \in Nodes, n = Head(E)[2], NEW d,
           \A g \in Gateways : g # n => d[g] = c[g],
           n \in Gateways => \/ Came(gone \cup {Head(E)}, n) = From(n)
                             \/ d[n] = Cardinality(Came(gone \cup {Head(E)}, n))
    PROVE  Sound(Tail(E), gone \cup {Head(E)}, d, ok)
<1> DEFINE more == gone \cup {Head(E)}
<1>1. E \in Seq(Edges) /\ gone \subseteq Edges
    BY DEF Sound
<1>2. /\ Tail(E) \in Seq(Edges) /\ Len(Tail(E)) = Len(E) - 1 /\ Len(E) \in Nat \ {0}
      /\ \A i \in 1..Len(Tail(E)) : Tail(E)[i] = E[i + 1] /\ i + 1 \in 1..Len(E)
      /\ ToSet(Tail(E)) \subseteq ToSet(E) /\ Head(E) \in ToSet(E)
      /\ Head(E) \in Edges /\ Head(E) = E[1]
    BY <1>1, TailOfEdges
<1>3. Sound(Tail(E), gone, c, ok)
    BY Dropped
<1>4. \A i \in 1..Len(Tail(E)) : Tail(E)[i] \notin more
  <2> SUFFICES ASSUME NEW i \in 1..Len(Tail(E)), E[i + 1] = E[1] PROVE FALSE
      BY <1>2, <1>3 DEF Sound
  <2>1. i + 1 \in 1..Len(E) /\ 1 \in 1..Len(E) /\ i + 1 # 1
      BY <1>2
  <2> QED
      BY <2>1 DEF Sound, Repeats
<1>5. \A m : Came(gone, m) = From(m) => Came(more, m) = From(m)
    BY DEF Came
<1>6. \A e \in more \cup ToSet(Tail(E)) :
        e[1] # NoNode => e[1] \in ok /\ Came(more, e[1]) = From(e[1])
    BY <1>2, <1>5 DEF Sound
<1>7. \A g \in Gateways : Came(more, g) = From(g) \/ d[g] = Cardinality(Came(more, g))
  <2> SUFFICES ASSUME NEW g \in Gateways, g # n
               PROVE  Came(more, g) = From(g) \/ d[g] = Cardinality(Came(more, g))
      OBVIOUS
  <2>1. Came(more, g) = Came(gone, g)
    <3>1. \A p : <<p, g>> # Head(E)
        OBVIOUS
    <3> QED
        BY <3>1 DEF Came
  <2> QED
      BY <2>1 DEF Sound
<1> QED
    BY <1>1, <1>2, <1>3, <1>4, <1>6, <1>7 DEF Sound

(* A node that is entered: the walk has come by all the edges to it.             *)
LEMMA Enters ==
    ASSUME SimpleGraph, NEW E, NEW gone, NEW c, NEW ok, Sound(E, gone, c, ok), E # <<>>,
           NEW n \in Nodes, n = Head(E)[2],
           n \in Gateways => c[n] + 1 >= Indegree(n)
    PROVE  /\ Came(gone \cup {Head(E)}, n) = From(n)
           /\ Unused(Tail(E), gone \cup {Head(E)}, n)
<1> DEFINE more == gone \cup {Head(E)}
<1>1. /\ Head(E)[1] \in From(n) /\ Head(E)[1] \notin Came(gone, n)
      /\ Came(more, n) = Came(gone, n) \cup {Head(E)[1]}
      /\ Cardinality(Came(more, n)) = Cardinality(Came(gone, n)) + 1
      /\ Unused(E, gone, n)
    BY OneMore
<1>2. Came(more, n) \subseteq From(n)
    BY DEF Came
<1>3. Unused(Tail(E), more, n)
  <2>1. E \in Seq(Edges)
      BY DEF Sound
  <2>2. ToSet(Tail(E)) \subseteq ToSet(E) /\ Head(E) \in ToSet(E)
      BY <2>1, TailOfEdges
  <2> QED
      BY <1>1, <2>2 DEF Unused
<1>4. CASE n \in Gateways
  <2>1. c[n] = Cardinality(Came(gone, n))
      BY <1>1, <1>4 DEF Sound
  <2>2. IsFiniteSet(From(n)) /\ Cardinality(From(n)) = Indegree(n)
      BY FromIsFinite
  <2>3. Cardinality(Came(more, n)) >= Cardinality(From(n))
      BY <1>1, <1>4, <2>1, <2>2
  <2>4. Cardinality(Came(more, n)) \in Nat /\ Cardinality(From(n)) \in Nat
        /\ Cardinality(Came(more, n)) <= Cardinality(From(n))
      BY <1>2, <2>2, FS_Subset, FS_CardinalityType
  <2>5. Cardinality(Came(more, n)) = Cardinality(From(n))
      BY <2>3, <2>4
  <2> QED
      BY <1>2, <1>3, <2>2, <2>5, FS_Subset
<1>5. CASE n \in Activities
    BY <1>1, <1>2, <1>3, <1>5 DEF SimpleGraph
<1> QED
    BY <1>4, <1>5 DEF Nodes

(* Going on from a node: the edges to those that follow it are new.              *)
Out(n) == [i \in 1..Len(Links[n]) |-> <<n, Links[n][i]>>]

LEMMA OutEdges ==
    ASSUME SimpleGraph, NEW n \in Nodes
    PROVE  /\ Out(n) \in Seq(Edges) /\ Len(Out(n)) = Len(Links[n]) /\ ~Repeats(Out(n))
           /\ \A i \in 1..Len(Out(n)) : Out(n)[i] = <<n, Links[n][i]>>
<1>1. Links[n] \in Seq(Nodes)
    BY WorkflowAssumption
<1>2. Len(Links[n]) \in Nat /\ \A i \in 1..Len(Links[n]) : Links[n][i] \in Nodes
    BY <1>1, LenProperties, ElementOfSeq
<1>3. \A i \in 1..Len(Links[n]) : <<n, Links[n][i]>> \in Edges
  <2> SUFFICES ASSUME NEW i \in 1..Len(Links[n]) PROVE n \in From(Links[n][i])
      BY <1>2 DEF Edges
  <2>1. Links[n][i] \in ToSet(Links[n])
      BY <1>1, LenProperties DEF ToSet
  <2> QED
      BY <2>1 DEF From, Preds
<1>4. Out(n) \in Seq(Edges) /\ Len(Out(n)) = Len(Links[n])
    BY <1>2, <1>3 DEF Out
<1>5. \A i \in 1..Len(Out(n)) : Out(n)[i] = <<n, Links[n][i]>>
    BY <1>4 DEF Out
<1> QED
    BY <1>4, <1>5 DEF SimpleGraph, Repeats

LEMMA GoesOn ==
    ASSUME SimpleGraph, NEW E, NEW gone, NEW c, NEW ok, Sound(E, gone, c, ok),
           NEW n \in Nodes, n \in ok, Came(gone, n) = From(n), Unused(E, gone, n)
    PROVE  Sound(Out(n) \o E, gone, c, ok)
<1> DEFINE F == Out(n) \o E
<1>1. /\ Out(n) \in Seq(Edges) /\ ~Repeats(Out(n))
      /\ \A i \in 1..Len(Out(n)) : Out(n)[i][1] = n
    BY OutEdges
<1>2. E \in Seq(Edges) /\ gone \subseteq Edges /\ ~Repeats(E)
      /\ \A i \in 1..Len(E) : E[i] \notin gone
    BY DEF Sound
<1>3. /\ F \in Seq(Edges) /\ Len(F) = Len(Out(n)) + Len(E)
      /\ Len(Out(n)) \in Nat /\ Len(E) \in Nat
      /\ \A i \in 1..Len(F) : F[i] = IF i <= Len(Out(n)) THEN Out(n)[i] ELSE E[i - Len(Out(n))]
    BY <1>1, <1>2, ConcatProperties, LenProperties
<1> HIDE DEF F
<1>4. \A i \in 1..Len(E) : E[i] \in ToSet(E)
    BY <1>2, LenProperties DEF ToSet
<1>5. \A i \in 1..Len(F) : \/ i \in 1..Len(Out(n)) /\ F[i] = Out(n)[i]
                           \/ /\ i - Len(Out(n)) \in 1..Len(E) /\ i > Len(Out(n))
                              /\ F[i] = E[i - Len(Out(n))]
    BY <1>3
<1>6. ~Repeats(F)
  <2> SUFFICES ASSUME NEW i \in 1..Len(F), NEW j \in 1..Len(F), i < j, F[i] = F[j]
               PROVE  FALSE
    <3>1. \A i, j \in 1..Len(F) : i # j => i < j \/ j < i
        BY <1>3
    <3> QED
        BY <3>1 DEF Repeats
  <2>0. i # j
      BY <1>3
  <2>1. CASE j \in 1..Len(Out(n))
    <3>1. i \in 1..Len(Out(n)) /\ F[i] = Out(n)[i] /\ F[j] = Out(n)[j]
        BY <1>3, <2>1
    <3> QED
        BY <1>1, <2>0, <2>1, <3>1 DEF Repeats
  <2>2. CASE i \in 1..Len(Out(n)) /\ j > Len(Out(n))
    <3>1. F[i][1] = n
        BY <1>1, <1>3, <2>2
    <3>2. F[j] \in ToSet(E)
        BY <1>3, <1>4, <1>5, <2>2
    <3> QED
        BY <3>1, <3>2 DEF Unused
  <2>3. CASE i > Len(Out(n)) /\ j > Len(Out(n))
    <3>1. /\ i - Len(Out(n)) \in 1..Len(E) /\ j - Len(Out(n)) \in 1..Len(E)
          /\ E[i - Len(Out(n))] = E[j - Len(Out(n))] /\ i - Len(Out(n)) # j - Len(Out(n))
        BY <1>3, <1>5, <2>3
    <3> QED
        BY <1>2, <3>1 DEF Repeats
  <2> QED
      BY <1>3, <2>1, <2>2, <2>3
<1>7. \A i \in 1..Len(F) : F[i] \notin gone
    BY <1>1, <1>2, <1>5 DEF Unused
<1>8. \A e \in gone \cup ToSet(F) :
        e[1] # NoNode => e[1] \in ok /\ Came(gone, e[1]) = From(e[1])
  <2> SUFFICES ASSUME NEW i \in 1..Len(F), F[i][1] # NoNode
               PROVE  F[i][1] \in ok /\ Came(gone, F[i][1]) = From(F[i][1])
      BY <1>3, LenProperties DEF Sound, ToSet
  <2> QED
      BY <1>1, <1>4, <1>5 DEF Sound
<1> QED
    BY <1>2, <1>3, <1>6, <1>7, <1>8 DEF Sound, F

LEMMA Begins ==
    ASSUME SimpleGraph, NEW c, \A g \in Gateways : c[g] = 0, NEW ok
    PROVE  LET E == [i \in 1..Len(First) |-> <<NoNode, First[i]>>]
           IN /\ E \in Seq(Edges) /\ Len(E) = Len(First)
              /\ \A i \in 1..Len(First) : E[i][2] = First[i]
              /\ Sound(E, {}, c, ok)
<1> DEFINE E == [i \in 1..Len(First) |-> <<NoNode, First[i]>>]
<1>1. Len(First) \in Nat /\ \A i \in 1..Len(First) : First[i] \in Nodes
    BY WorkflowAssumption, LenProperties, ElementOfSeq
<1>2. \A i \in 1..Len(First) : First[i] \in ToSet(First)
    BY WorkflowAssumption, LenProperties DEF ToSet
<1>3. E \in Seq(Edges) /\ Len(E) = Len(First)
    BY <1>1, <1>2 DEF Edges, From
<1>4. \A i \in 1..Len(First) : E[i] = <<NoNode, First[i]>>
    OBVIOUS
<1>5. \A e \in ToSet(E) : e[1] = NoNode
    BY <1>3, <1>4, LenProperties DEF ToSet
<1>6. ~Repeats(E)
    BY <1>3, <1>4 DEF SimpleGraph, Repeats
<1>7. \A g \in Gateways : c[g] = Cardinality(Came({}, g))
  <2>1. \A g : Came({}, g) = {}
      BY DEF Came
  <2> QED
      BY <2>1, FS_EmptySet
<1>8. Sound(E, {}, c, ok)
    BY <1>3, <1>5, <1>6, <1>7 DEF Sound
<1> QED
    BY <1>3, <1>4, <1>8

LEMMA Grows ==
    ASSUME NEW E, NEW gone, NEW c, NEW ok, NEW more, Sound(E, gone, c, ok), ok \subseteq more
    PROVE  Sound(E, gone, c, more)
    BY DEF Sound

-------------------------------------------------------------------------------
(* What has been done, or was and is to be done again.                           *)
Reached  == {n \in Nodes : state[n] = "COMPLETED" \/ n \in undone}
Ready(n) == Preds(n) \subseteq Reached

(* A walk that writes the state of its first node has arrived there.             *)
Rest(u)   == IF pc[u] = "putting" THEN Tail(todo[u]) ELSE todo[u]
Counts(u) == count[u][Key(intent[u])]
Leads(E, t) == Len(E) = Len(t) /\ \A i \in 1..Len(t) : E[i][2] = t[i]

Entered(E, gone, n) == Came(gone, n) = From(n) /\ Unused(E, gone, n)

Tracks(u, E, gone) ==
    /\ Leads(E, Rest(u)) /\ Sound(E, gone, Counts(u), Reached)
    /\ pc[u] = "putting" => Entered(E, gone, Head(todo[u]))
WalkIsSound(u) ==
    pc[u] \in {"walking", "putting"} =>
        \E E \in Seq(Edges) : \E gone \in SUBSET Edges : Tracks(u, E, gone)

(* A submission holds the lock, and evaluates the graph once: the arrivals in    *)
(* its Temporary are those of one walk.                                          *)
Fresh(u)   == count[u].submission = Zero
NoAuto(s)  == \A i \in 1..Len(s) : s[i] \notin Automatic
OneAuto(s) == \A i, j \in 1..Len(s) : s[i] \in Automatic /\ s[j] \in Automatic => i = j

EvaluatesOnce(u) ==
    /\ OneAuto(next[u])
    /\ pc[u] \in {"forwarding", "reverting"} => lock = u
    /\ lock = u => pc[u] # "idle"
    /\ pc[u] = "forwarding" => Fresh(u) \/ NoAuto(next[u])
    /\ pc[u] \in {"walking", "putting"} =>
           IF lock = u
           THEN /\ NoAuto(next[u]) /\ intent[u] \in {"find", "submit"}
                /\ intent[u] = "find" => Fresh(u)
           ELSE intent[u] # "submit"

WaitingIsReady == \A n \in Nodes : state[n] = "WAITING" => Ready(n)

OrderInv ==
    /\ WaitingIsReady
    /\ \A u \in Users : EvaluatesOnce(u) /\ WalkIsSound(u)

(* A state is COMPLETED, or remembered as undone, for good.                      *)
LEMMA ReachedGrows ==
    ASSUME TypeOK, NEW u \in Users, Asks(u) \/ Step(u) \/ Submits(u) \/ Other(u)
    PROVE  Reached \subseteq Reached'
<1>1. CASE UNCHANGED <<state, undone>>
    BY <1>1 DEF Reached
<1>2. CASE \E n \in Nodes : Run(n)
    BY <1>2 DEF Run, Reached, TypeOK
<1>3. CASE \E n \in Nodes : Parks(u, n)
    BY <1>3 DEF Parks, Reached, TypeOK
<1>4. CASE \E S \in SUBSET Nodes : StateRemove(S)
    BY <1>4 DEF StateRemove, Reached, TypeOK
<1>5. CASE \E n \in Nodes : SubmitTerminate(u, n)
    BY <1>5 DEF SubmitTerminate, Permitted, Reached, TypeOK, history
<1>6. \/ UNCHANGED <<state, undone>> \/ \E n \in Nodes : Run(n) \/ Parks(u, n) \/ SubmitTerminate(u, n)
      \/ \E S \in SUBSET Nodes : StateRemove(S)
  <2> USE DEF history
  <2>1. CASE Asks(u)
      BY <2>1 DEF Asks, Ask
  <2>2. CASE \E n \in Nodes : \/ JoinWaits(u, n) \/ Passes(u, n) \/ MeetsTerminated(u, n)
                              \/ NotOperatable(u, n) \/ FindsWaiting(u, n) \/ Reads(u, n)
                              \/ AutoFails(u, n) \/ RunsAuto(u, n) \/ Parks(u, n)
      BY <2>2 DEF JoinWaits, Passes, MeetsTerminated, NotOperatable, FindsWaiting, Reads,
                  AutoFails, RunsAuto
  <2>3. CASE WalkEnds(u) \/ Forward(u) \/ ForwardEnds(u) \/ BackEnds(u)
      BY <2>3 DEF WalkEnds, Forward, ForwardEnds, BackEnds
  <2>4. CASE Reverts(u)
    <3>1. PICK n \in left[u] : StateRemove({n})
        BY <2>4 DEF Reverts
    <3>2. {n} \in SUBSET Nodes
        BY DEF TypeOK
    <3> QED
        BY <3>1, <3>2
  <2>5. CASE \E n \in Nodes : \/ Refused(u, n) \/ SubmitForward(u, n) \/ SubmitFails(u, n)
                              \/ SubmitBack(u, n) \/ SubmitTerminate(u, n)
      BY <2>5 DEF Refused, SubmitForward, SubmitFails, SubmitBack
  <2>6. CASE \E n \in Nodes : SubmitRestart(u, n)
      BY <2>6 DEF SubmitRestart
  <2> QED
      BY <2>1, <2>2, <2>3, <2>4, <2>5, <2>6 DEF Step, Submits, Other
<1> QED
    BY <1>1, <1>2, <1>3, <1>4, <1>5, <1>6

(* What a step of u leaves alone of the others.                                  *)
Still(v) ==
    /\ pc'[v] = pc[v] /\ todo'[v] = todo[v] /\ count'[v] = count[v]
    /\ intent'[v] = intent[v] /\ next'[v] = next[v]
    /\ lock' = v <=> lock = v

LEMMA OthersAreStill ==
    ASSUME TypeOK, NEW u \in Users, EvaluatesOnce(u), NEW v \in Users, u # v,
           Asks(u) \/ Step(u) \/ Submits(u) \/ Other(u)
    PROVE  Still(v)
<1> USE DEF Still, TypeOK, Goto, walks
<1>0. \A l : (pc' = [pc EXCEPT ![u] = l]) => pc'[v] = pc[v]
    OBVIOUS
<1>1. CASE Asks(u)
    BY <1>1 DEF Asks, Ask, Walk
<1>2. CASE \E n \in Nodes : \/ JoinWaits(u, n) \/ Passes(u, n) \/ MeetsTerminated(u, n)
                            \/ NotOperatable(u, n) \/ FindsWaiting(u, n) \/ Reads(u, n)
  <2> USE DEF Counted, GoOn, Interrupt, Stop
  <2>1. CASE \E n \in Nodes : JoinWaits(u, n)
      BY <2>1 DEF JoinWaits
  <2>2. CASE \E n \in Nodes : Passes(u, n)
      BY <2>2 DEF Passes
  <2>3. CASE \E n \in Nodes : MeetsTerminated(u, n)
      BY <2>3 DEF MeetsTerminated
  <2>4. CASE \E n \in Nodes : NotOperatable(u, n)
      BY <2>4 DEF NotOperatable
  <2>5. CASE \E n \in Nodes : FindsWaiting(u, n)
      BY <2>5 DEF FindsWaiting
  <2>6. CASE \E n \in Nodes : Reads(u, n)
      BY <2>6 DEF Reads
  <2> QED
      BY <1>2, <2>1, <2>2, <2>3, <2>4, <2>5, <2>6
<1>3. CASE \E n \in Nodes : RunsAuto(u, n) \/ AutoFails(u, n) \/ Parks(u, n)
  <2> USE DEF GoOn, Interrupt, Stop
  <2>1. CASE \E n \in Nodes : RunsAuto(u, n)
      BY <2>1 DEF RunsAuto
  <2>2. CASE \E n \in Nodes : AutoFails(u, n)
      BY <2>2, WorkflowAssumption DEF AutoFails
  <2>3. CASE \E n \in Nodes : Parks(u, n)
      BY <2>3 DEF Parks
  <2> QED
      BY <1>3, <2>1, <2>2, <2>3
<1>4. CASE WalkEnds(u)
    BY <1>4 DEF WalkEnds, Walk
<1>5. CASE Forward(u)
    BY <1>5 DEF Forward, Walk
<1>6. CASE ForwardEnds(u) \/ BackEnds(u) \/ Reverts(u)
  <2>1. CASE Reverts(u)
      BY <2>1 DEF Reverts
  <2>2. CASE ForwardEnds(u) \/ BackEnds(u)
      BY <2>2, WorkflowAssumption DEF ForwardEnds, BackEnds, EvaluatesOnce
  <2> QED
      BY <1>6, <2>1, <2>2
<1>7. CASE \E n \in Nodes : \/ Refused(u, n) \/ SubmitFails(u, n)
                            \/ SubmitTerminate(u, n) \/ SubmitRestart(u, n)
    BY <1>7 DEF Refused, SubmitFails, SubmitTerminate, SubmitRestart
<1>8. CASE \E n \in Nodes : SubmitForward(u, n)
    BY <1>8, WorkflowAssumption DEF SubmitForward, Permitted, Mine
<1>9. CASE \E n \in Nodes : SubmitBack(u, n)
    BY <1>9, WorkflowAssumption DEF SubmitBack, Permitted, Mine
<1> QED
    BY <1>1, <1>2, <1>3, <1>4, <1>5, <1>6, <1>7, <1>8, <1>9 DEF Step, Submits, Other

LEMMA StillKeeps ==
    ASSUME NEW v \in Users, EvaluatesOnce(v), WalkIsSound(v), Still(v), Reached \subseteq Reached'
    PROVE  EvaluatesOnce(v)' /\ WalkIsSound(v)'
<1>1. EvaluatesOnce(v)'
    BY DEF EvaluatesOnce, Still, Fresh, Zero
<1>2. Rest(v)' = Rest(v) /\ Counts(v)' = Counts(v)
    BY DEF Rest, Counts, Still
<1>3. WalkIsSound(v)'
  <2> SUFFICES ASSUME pc'[v] \in {"walking", "putting"}
               PROVE  \E E \in Seq(Edges) : \E gone \in SUBSET Edges : Tracks(v, E, gone)'
      BY DEF WalkIsSound
  <2>1. PICK E \in Seq(Edges), gone \in SUBSET Edges : Tracks(v, E, gone)
      BY DEF WalkIsSound, Still
  <2>2. Sound(E, gone, Counts(v), Reached')
      BY <2>1, Grows DEF Tracks
  <2>3. Tracks(v, E, gone)'
      BY <1>2, <2>1, <2>2 DEF Tracks, Still
  <2> QED
      BY <2>3
<1> QED
    BY <1>1, <1>3

-------------------------------------------------------------------------------
LEMMA TailOfNodes ==
    ASSUME NEW t \in Seq(Nodes), t # <<>>
    PROVE  /\ Head(t) = t[1] /\ Head(t) \in Nodes /\ 1 \in 1..Len(t)
           /\ Tail(t) \in Seq(Nodes) /\ Len(Tail(t)) = Len(t) - 1 /\ Len(t) \in Nat \ {0}
           /\ \A i \in 1..Len(Tail(t)) : Tail(t)[i] = t[i + 1] /\ i + 1 \in 1..Len(t)
<1>1. Len(t) \in Nat \ {0}
    BY EmptySeq, LenProperties
<1>2. Head(t) = t[1] /\ Head(t) \in Nodes
    BY <1>1, HeadTailProperties
<1>3. /\ Tail(t) \in Seq(Nodes) /\ Len(Tail(t)) = Len(t) - 1
      /\ \A i \in 1..Len(Tail(t)) : Tail(t)[i] = t[i + 1]
    BY HeadTailProperties
<1> QED
    BY <1>1, <1>2, <1>3

LEMMA AutoInTail ==
    ASSUME NEW t \in Seq(Nodes), t # <<>>, OneAuto(t)
    PROVE  /\ OneAuto(Tail(t)) /\ (NoAuto(t) => NoAuto(Tail(t)))
           /\ Head(t) \in Automatic => NoAuto(Tail(t)) /\ ~NoAuto(t)
<1>1. /\ Head(t) = t[1] /\ 1 \in 1..Len(t) /\ Len(t) \in Nat \ {0} /\ Len(Tail(t)) \in Nat
      /\ \A i \in 1..Len(Tail(t)) : Tail(t)[i] = t[i + 1] /\ i + 1 \in 1..Len(t)
    BY TailOfNodes
<1>2. OneAuto(Tail(t))
  <2> SUFFICES ASSUME NEW i \in 1..Len(Tail(t)), NEW j \in 1..Len(Tail(t)),
                      Tail(t)[i] \in Automatic, Tail(t)[j] \in Automatic
               PROVE  i = j
      BY DEF OneAuto
  <2>1. i + 1 = j + 1
      BY <1>1 DEF OneAuto
  <2> QED
      BY <1>1, <2>1
<1>3. NoAuto(t) => NoAuto(Tail(t))
    BY <1>1 DEF NoAuto
<1>4. Head(t) \in Automatic => NoAuto(Tail(t)) /\ ~NoAuto(t)
  <2> SUFFICES ASSUME t[1] \in Automatic PROVE NoAuto(Tail(t)) /\ ~NoAuto(t)
      BY <1>1
  <2>1. ASSUME NEW i \in 1..Len(Tail(t)), Tail(t)[i] \in Automatic PROVE FALSE
    <3>1. i + 1 = 1
        BY <1>1, <2>1 DEF OneAuto
    <3> QED
        BY <1>1, <3>1
  <2> QED
      BY <1>1, <2>1 DEF NoAuto
<1> QED
    BY <1>2, <1>3, <1>4

(* A step of the submitter, or of who walks beside him.                          *)
LEMMA EvaluatesOnceStep ==
    ASSUME SimpleGraph, TypeOK, NEW u \in Users, EvaluatesOnce(u),
           Asks(u) \/ Step(u) \/ Submits(u) \/ Other(u)
    PROVE  EvaluatesOnce(u)'
<1> USE DEF EvaluatesOnce, Fresh, TypeOK, Goto, walks, Zero
<1>1. CASE Asks(u)
    BY <1>1, WorkflowAssumption DEF Asks, Ask, Walk
<1>2. CASE \E n \in Nodes : JoinWaits(u, n) \/ Passes(u, n)
  <2>1. CASE \E n \in Nodes : JoinWaits(u, n)
      BY <2>1 DEF JoinWaits, At, Counted, Key
  <2>2. CASE \E n \in Nodes : Passes(u, n)
      BY <2>2 DEF Passes, At, Counted, Key
  <2> QED
      BY <1>2, <2>1, <2>2
<1>3. CASE \E n \in Nodes : MeetsTerminated(u, n)
  <2>1. NoAuto(<<>>) /\ OneAuto(<<>>)
      BY DEF NoAuto, OneAuto
  <2> QED
      BY <1>3, <2>1 DEF MeetsTerminated, At
<1>4. CASE \E n \in Nodes : NotOperatable(u, n) \/ FindsWaiting(u, n)
    BY <1>4 DEF NotOperatable, FindsWaiting, Human, At
<1>5. CASE \E n \in Nodes : Reads(u, n)
    BY <1>5 DEF Reads, At, Counted, Key
<1>6. CASE \E n \in Nodes : RunsAuto(u, n) \/ Parks(u, n)
    BY <1>6 DEF RunsAuto, Parks, Writing
<1>7. CASE \E n \in Nodes : AutoFails(u, n)
    BY <1>7, WorkflowAssumption DEF AutoFails
<1>8. CASE WalkEnds(u)
    BY <1>8 DEF WalkEnds, Walk
<1>9. CASE Forward(u)
  <2>1. next[u] \in Seq(Nodes) /\ next[u] # <<>> /\ next'[u] = Tail(next[u])
      BY <1>9 DEF Forward
  <2>2. /\ OneAuto(Tail(next[u])) /\ (NoAuto(next[u]) => NoAuto(Tail(next[u])))
        /\ Head(next[u]) \in Automatic => NoAuto(Tail(next[u])) /\ ~NoAuto(next[u])
      BY <2>1, AutoInTail
  <2>3. pc[u] = "forwarding" /\ lock' = lock
      BY <1>9 DEF Forward
  <2>4. CASE Head(next[u]) \in Automatic
    <3>1. Walk(u, "find") \/ Walk(u, "submit")
        BY <1>9, <2>4 DEF Forward
    <3> QED
        BY <2>1, <2>2, <2>3, <2>4, <3>1 DEF Walk
  <2>5. CASE Head(next[u]) \notin Automatic
    <3>1. UNCHANGED <<pc, walks>>
        BY <1>9, <2>5, WorkflowAssumption DEF Forward
    <3> QED
        BY <2>1, <2>2, <2>3, <3>1
  <2> QED
      BY <2>4, <2>5
<1>10. CASE ForwardEnds(u) \/ BackEnds(u) \/ Reverts(u)
    BY <1>10, WorkflowAssumption DEF ForwardEnds, BackEnds, Reverts
<1>11. CASE \E n \in Nodes : SubmitForward(u, n)
  <2>1. PICK n \in Nodes : SubmitForward(u, n)
      BY <1>11
  <2>2. OneAuto(Links[n])
      BY DEF SimpleGraph, OneAuto
  <2> QED
      BY <2>1, <2>2 DEF SubmitForward
<1>12. CASE \E n \in Nodes : SubmitBack(u, n)
    BY <1>12 DEF SubmitBack
<1>13. CASE \E n \in Nodes : \/ Refused(u, n) \/ SubmitFails(u, n)
                             \/ SubmitTerminate(u, n) \/ SubmitRestart(u, n)
    BY <1>13 DEF Refused, SubmitFails, SubmitTerminate, SubmitRestart
<1> QED
    BY <1>1, <1>2, <1>3, <1>4, <1>5, <1>6, <1>7, <1>8, <1>9, <1>10, <1>11, <1>12, <1>13
       DEF Step, Submits, Other

-------------------------------------------------------------------------------
(* The edges of the walk and the nodes they lead to.                             *)
LEMMA LeadsTail ==
    ASSUME NEW E \in Seq(Edges), NEW t \in Seq(Nodes), Leads(E, t), t # <<>>
    PROVE  /\ E # <<>> /\ Head(E)[2] = Head(t) /\ Leads(Tail(E), Tail(t))
           /\ Tail(E) \in Seq(Edges) /\ Head(E) \in Edges
<1>1. Len(t) \in Nat \ {0} /\ 1 \in 1..Len(t) /\ Head(t) = t[1]
      /\ Len(Tail(t)) = Len(t) - 1
      /\ \A i \in 1..Len(Tail(t)) : Tail(t)[i] = t[i + 1] /\ i + 1 \in 1..Len(t)
    BY TailOfNodes
<1>2. E # <<>>
    BY <1>1, EmptySeq DEF Leads
<1>3. Head(E) = E[1] /\ Head(E) \in Edges /\ Tail(E) \in Seq(Edges)
      /\ Len(Tail(E)) = Len(E) - 1
      /\ \A i \in 1..Len(Tail(E)) : Tail(E)[i] = E[i + 1] /\ i + 1 \in 1..Len(E)
    BY <1>2, TailOfEdges
<1> QED
    BY <1>1, <1>2, <1>3 DEF Leads

LEMMA LeadsOn ==
    ASSUME SimpleGraph, NEW E \in Seq(Edges), NEW t \in Seq(Nodes), Leads(E, t), NEW n \in Nodes
    PROVE  Leads(Out(n) \o E, Links[n] \o t)
<1>1. /\ Out(n) \in Seq(Edges) /\ Len(Out(n)) = Len(Links[n])
      /\ \A i \in 1..Len(Out(n)) : Out(n)[i] = <<n, Links[n][i]>>
    BY OutEdges
<1>2. Links[n] \in Seq(Nodes)
    BY WorkflowAssumption
<1>3. Len(Out(n)) \in Nat /\ Len(E) \in Nat /\ Len(t) = Len(E)
    BY <1>1, LenProperties DEF Leads
<1>4. /\ Len(Out(n) \o E) = Len(Out(n)) + Len(E)
      /\ \A i \in 1..(Len(Out(n)) + Len(E)) :
            (Out(n) \o E)[i] = IF i <= Len(Out(n)) THEN Out(n)[i] ELSE E[i - Len(Out(n))]
  <2>1. Out(n) \in Seq(Edges)
      BY <1>1
  <2> QED
      BY <2>1, ConcatProperties
<1>5. /\ Len(Links[n] \o t) = Len(Links[n]) + Len(t)
      /\ \A i \in 1..(Len(Links[n]) + Len(t)) :
            (Links[n] \o t)[i] = IF i <= Len(Links[n]) THEN Links[n][i] ELSE t[i - Len(Links[n])]
    BY <1>2, ConcatProperties
<1>6. ASSUME NEW i \in 1..(Len(Out(n)) + Len(E))
      PROVE  (Out(n) \o E)[i][2] = (Links[n] \o t)[i]
  <2>1. CASE i <= Len(Out(n))
    <3>1. i \in 1..Len(Out(n)) /\ i <= Len(Links[n]) /\ i \in 1..(Len(Links[n]) + Len(t))
        BY <1>1, <1>3, <2>1
    <3>2. (Out(n) \o E)[i] = Out(n)[i] /\ (Links[n] \o t)[i] = Links[n][i]
        BY <1>4, <1>5, <2>1, <3>1
    <3> QED
        BY <1>1, <3>1, <3>2
  <2>2. CASE ~(i <= Len(Out(n)))
    <3>1. i - Len(Out(n)) \in 1..Len(t)
        BY <1>3, <2>2
    <3>2. E[i - Len(Out(n))][2] = t[i - Len(Out(n))]
        BY <3>1 DEF Leads
    <3>3. (Out(n) \o E)[i] = E[i - Len(Out(n))] /\ (Links[n] \o t)[i] = t[i - Len(Out(n))]
      <4>1. ~(i <= Len(Out(n))) /\ i \in 1..(Len(Links[n]) + Len(t))
          BY <1>1, <1>3, <2>2
      <4> QED
          BY <1>1, <1>4, <1>5, <4>1
    <3> QED
        BY <3>2, <3>3
  <2> QED
      BY <2>1, <2>2
<1> QED
    BY <1>1, <1>3, <1>4, <1>5, <1>6 DEF Leads

LEMMA EnteredIsReady ==
    ASSUME NEW E, NEW gone, NEW c, NEW n \in Nodes, Sound(E, gone, c, Reached),
           Came(gone, n) = From(n)
    PROVE  Ready(n)
<1> SUFFICES ASSUME NEW p \in Preds(n) PROVE p \in Reached
    BY DEF Ready
<1>1. p \in From(n) /\ p # NoNode
    BY WorkflowAssumption DEF From, Preds
<1>2. <<p, n>> \in gone
    BY <1>1 DEF Came
<1> QED
    BY <1>1, <1>2 DEF Sound

LEMMA Stops ==
    ASSUME NEW E, NEW gone, NEW c, NEW ok, Sound(E, gone, c, ok)
    PROVE  Sound(<<>>, gone, c, ok) /\ <<>> \in Seq(Edges) /\ Leads(<<>>, <<>>)
<1>1. ToSet(<<>>) = {} /\ <<>> \in Seq(Edges)
    BY DEF ToSet
<1> QED
    BY <1>1 DEF Sound, Repeats, Leads

LEMMA WalkBegins ==
    ASSUME SimpleGraph, TypeOK, NEW u \in Users, NEW i \in {"claim", "find", "findNext", "submit"},
           Walk(u, i), i = "submit" => Fresh(u)
    PROVE  WalkIsSound(u)'
<1>1. pc'[u] = "walking" /\ todo'[u] = First /\ intent'[u] = i
    BY DEF Walk, Goto, TypeOK
<1>2. \A g \in Gateways : Counts(u)'[g] = 0
  <2>1. CASE i = "submit"
      BY <1>1, <2>1 DEF Walk, Counts, Key, Fresh, Zero
  <2>2. CASE i # "submit"
      BY <1>1, <2>2 DEF Walk, Counts, Key, Zero, TypeOK
  <2> QED
      BY <2>1, <2>2
<1> DEFINE E == [k \in 1..Len(First) |-> <<NoNode, First[k]>>]
<1>3. /\ E \in Seq(Edges) /\ Len(E) = Len(First)
      /\ \A k \in 1..Len(First) : E[k][2] = First[k]
      /\ Sound(E, {}, Counts(u)', Reached')
    BY <1>2, Begins
<1> HIDE DEF E
<1>4. Tracks(u, E, {})'
    BY <1>1, <1>3 DEF Tracks, Rest, Leads
<1> QED
    BY <1>3, <1>4 DEF WalkIsSound

(* A walk at a node that it does not write.                                      *)
LEMMA WalkMoves ==
    ASSUME SimpleGraph, TypeOK, NEW u \in Users, NEW n \in Nodes, WalkIsSound(u),
           Reached \subseteq Reached',
           \/ JoinWaits(u, n) \/ Passes(u, n) \/ MeetsTerminated(u, n)
           \/ NotOperatable(u, n) \/ FindsWaiting(u, n) \/ Reads(u, n)
    PROVE  WalkIsSound(u)'
<1>1. At(u, n) /\ intent' = intent
    BY DEF JoinWaits, Passes, MeetsTerminated, NotOperatable, FindsWaiting, Reads, Human
<1>2. PICK E \in Seq(Edges), gone \in SUBSET Edges : Tracks(u, E, gone)
    BY <1>1 DEF WalkIsSound, At
<1>3. pc[u] = "walking" /\ todo[u] \in Seq(Nodes) /\ todo[u] # <<>> /\ n = Head(todo[u])
    BY <1>1 DEF At, TypeOK
<1>4. Leads(E, todo[u]) /\ Sound(E, gone, Counts(u), Reached')
    BY <1>2, <1>3, Grows DEF Tracks, Rest
<1>5. E # <<>> /\ n = Head(E)[2] /\ Leads(Tail(E), Tail(todo[u])) /\ Tail(E) \in Seq(Edges)
      /\ Head(E) \in Edges
    BY <1>3, <1>4, LeadsTail
<1> DEFINE more == gone \cup {Head(E)}
<1>6. more \in SUBSET Edges
    BY <1>5
<1>7. CASE JoinWaits(u, n)
  <2>1. n \in Gateways /\ todo'[u] = Tail(todo[u]) /\ pc'[u] = "walking"
      BY <1>3, <1>7 DEF JoinWaits, Open, Interrupt, TypeOK
  <2>2. /\ Counts(u)'[n] = Counts(u)[n] + 1
        /\ \A g \in Gateways : g # n => Counts(u)'[g] = Counts(u)[g]
      BY <1>1, <1>7, <2>1 DEF JoinWaits, Counted, Arrived, Counts, Key, TypeOK
  <2>3. /\ Head(E)[1] \in From(n) /\ Head(E)[1] \notin Came(gone, n)
        /\ Cardinality(Came(more, n)) = Cardinality(Came(gone, n)) + 1
      BY <1>4, <1>5, OneMore
  <2>4. Counts(u)[n] = Cardinality(Came(gone, n))
      BY <1>4, <2>1, <2>3 DEF Sound
  <2>5. Sound(Tail(E), more, Counts(u)', Reached')
      BY <1>4, <1>5, <2>2, <2>3, <2>4, Arrives
  <2>6. Tracks(u, Tail(E), more)'
      BY <1>5, <2>1, <2>5 DEF Tracks, Rest
  <2> QED
      BY <1>5, <1>6, <2>6 DEF WalkIsSound
<1>8. CASE Passes(u, n) \/ Reads(u, n)
  <2>1. n \in Gateways => Counts(u)[n] + 1 >= Indegree(n)
      BY <1>8 DEF Passes, Reads, Open, Arrived, Counts
  <2>2. Entered(Tail(E), more, n)
      BY <1>4, <1>5, <2>1, Enters DEF Entered
  <2>3. \A g \in Gateways : g # n => Counts(u)'[g] = Counts(u)[g]
    <3>1. Counted(u, n, 0)
        BY <1>8 DEF Passes, Reads
    <3> QED
        BY <1>1, <3>1 DEF Counted, Counts, Key, TypeOK
  <2>4. Sound(Tail(E), more, Counts(u)', Reached')
      BY <1>4, <1>5, <2>2, <2>3, Arrives DEF Entered
  <2>5. CASE Passes(u, n)
    <3>1. n \in Reached'
        BY <2>5 DEF Passes, Reached
    <3>2. Sound(Out(n) \o Tail(E), more, Counts(u)', Reached')
        BY <2>2, <2>4, <3>1, GoesOn DEF Entered
    <3>3. Tail(todo[u]) \in Seq(Nodes)
        BY <1>3, TailOfNodes
    <3>4. Leads(Out(n) \o Tail(E), Links[n] \o Tail(todo[u]))
        BY <1>5, <3>3, LeadsOn
    <3>5. todo'[u] = Links[n] \o Tail(todo[u]) /\ pc'[u] = "walking"
        BY <1>3, <2>5 DEF Passes, GoOn, TypeOK
    <3>6. Tracks(u, Out(n) \o Tail(E), more)'
        BY <3>2, <3>4, <3>5 DEF Tracks, Rest
    <3>7. Out(n) \o Tail(E) \in Seq(Edges)
        BY <3>2 DEF Sound
    <3> QED
        BY <1>6, <3>6, <3>7 DEF WalkIsSound
  <2>6. CASE Reads(u, n)
    <3>1. todo'[u] = todo[u] /\ pc'[u] = "putting"
        BY <2>6 DEF Reads, Goto, TypeOK
    <3>2. Tracks(u, Tail(E), more)'
        BY <1>3, <1>5, <2>2, <2>4, <3>1 DEF Tracks, Rest
    <3> QED
        BY <1>5, <1>6, <3>2 DEF WalkIsSound
  <2> QED
      BY <1>8, <2>5, <2>6
<1>9. CASE MeetsTerminated(u, n) \/ NotOperatable(u, n) \/ FindsWaiting(u, n)
  <2>1. Counts(u)' = Counts(u) /\ pc'[u] = "walking"
      BY <1>3, <1>9 DEF MeetsTerminated, NotOperatable, FindsWaiting, Counts
  <2>2. todo'[u] = Tail(todo[u]) \/ todo'[u] = <<>>
      BY <1>9 DEF MeetsTerminated, NotOperatable, FindsWaiting, Interrupt, Stop, TypeOK
  <2>3. Sound(Tail(E), gone, Counts(u), Reached')
      BY <1>4, <1>5, Dropped
  <2>4. Sound(<<>>, gone, Counts(u), Reached') /\ <<>> \in Seq(Edges) /\ Leads(<<>>, <<>>)
      BY <1>4, Stops
  <2>5. Tracks(u, Tail(E), gone)' \/ Tracks(u, <<>>, gone)'
      BY <1>5, <2>1, <2>2, <2>3, <2>4 DEF Tracks, Rest
  <2> QED
      BY <1>5, <2>4, <2>5 DEF WalkIsSound
<1> QED
    BY <1>7, <1>8, <1>9

(* A walk that writes its node goes on from there, is parked, or fails.          *)
LEMMA WalkWrites ==
    ASSUME SimpleGraph, TypeOK, PuttingHasNode, NEW u \in Users, NEW n \in Nodes, WalkIsSound(u),
           Reached \subseteq Reached',
           RunsAuto(u, n) \/ AutoFails(u, n) \/ Parks(u, n)
    PROVE  WalkIsSound(u)' /\ Ready(n)
<1>1. pc[u] = "putting" /\ n = Head(todo[u]) /\ todo[u] \in Seq(Nodes) /\ todo[u] # <<>>
    BY DEF RunsAuto, AutoFails, Parks, Writing, PuttingHasNode, TypeOK
<1>2. PICK E \in Seq(Edges), gone \in SUBSET Edges : Tracks(u, E, gone)
    BY <1>1 DEF WalkIsSound
<1>3. Leads(E, Tail(todo[u])) /\ Sound(E, gone, Counts(u), Reached) /\ Entered(E, gone, n)
    BY <1>1, <1>2 DEF Tracks, Rest
<1>4. Ready(n)
    BY <1>3, EnteredIsReady DEF Entered
<1>5. Sound(E, gone, Counts(u), Reached')
    BY <1>3, Grows
<1>6. Counts(u)' = Counts(u)
    BY DEF RunsAuto, AutoFails, Parks, Counts
<1>7. CASE RunsAuto(u, n)
  <2>1. n \in Reached'
      BY <1>7 DEF RunsAuto, Run, Reached, TypeOK
  <2>2. Sound(Out(n) \o E, gone, Counts(u)', Reached')
      BY <1>3, <1>5, <1>6, <2>1, GoesOn DEF Entered
  <2>3. Tail(todo[u]) \in Seq(Nodes)
      BY <1>1, TailOfNodes
  <2>4. Leads(Out(n) \o E, Links[n] \o Tail(todo[u]))
      BY <1>3, <2>3, LeadsOn
  <2>5. todo'[u] = Links[n] \o Tail(todo[u]) /\ pc'[u] = "walking"
      BY <1>7 DEF RunsAuto, GoOn, Goto, TypeOK
  <2>6. Tracks(u, Out(n) \o E, gone)'
      BY <2>2, <2>4, <2>5 DEF Tracks, Rest
  <2>7. Out(n) \o E \in Seq(Edges)
      BY <2>2 DEF Sound
  <2> QED
      BY <1>4, <2>6, <2>7 DEF WalkIsSound
<1>8. CASE AutoFails(u, n)
  <2>1. pc'[u] = "idle"
      BY <1>8 DEF AutoFails, Goto, TypeOK
  <2> QED
      BY <1>4, <2>1 DEF WalkIsSound
<1>9. CASE Parks(u, n)
  <2>1. (todo'[u] = Tail(todo[u]) \/ todo'[u] = <<>>) /\ pc'[u] = "walking"
      BY <1>9 DEF Parks, Interrupt, Stop, Goto, TypeOK
  <2>2. Sound(<<>>, gone, Counts(u), Reached') /\ <<>> \in Seq(Edges) /\ Leads(<<>>, <<>>)
      BY <1>5, Stops
  <2>3. Tracks(u, E, gone)' \/ Tracks(u, <<>>, gone)'
      BY <1>3, <1>5, <1>6, <2>1, <2>2 DEF Tracks, Rest
  <2> QED
      BY <1>4, <2>2, <2>3 DEF WalkIsSound
<1> QED
    BY <1>7, <1>8, <1>9

LEMMA WalkStep ==
    ASSUME SimpleGraph, TypeOK, PuttingHasNode, NEW u \in Users,
           EvaluatesOnce(u), WalkIsSound(u), Reached \subseteq Reached',
           Asks(u) \/ Step(u) \/ Submits(u) \/ Other(u)
    PROVE  WalkIsSound(u)'
<1>1. CASE Asks(u)
  <2>1. PICK i \in {"claim", "find", "findNext"} : Walk(u, i)
      BY <1>1, WorkflowAssumption DEF Asks, Ask
  <2> QED
      BY <2>1, WalkBegins
<1>2. CASE \E n \in Nodes : \/ JoinWaits(u, n) \/ Passes(u, n) \/ MeetsTerminated(u, n)
                            \/ NotOperatable(u, n) \/ FindsWaiting(u, n) \/ Reads(u, n)
    BY <1>2, WalkMoves
<1>3. CASE \E n \in Nodes : RunsAuto(u, n) \/ AutoFails(u, n) \/ Parks(u, n)
    BY <1>3, WalkWrites
<1>4. CASE WalkEnds(u)
  <2>1. CASE Walk(u, "submit")
    <3>1. Fresh(u)
        BY <1>4, <2>1 DEF WalkEnds, EvaluatesOnce, Walk, walks, Goto, TypeOK
    <3> QED
        BY <2>1, <3>1, WalkBegins
  <2>2. CASE Goto(u, "idle") \/ Goto(u, "forwarding")
      BY <2>2 DEF Goto, TypeOK, WalkIsSound
  <2> QED
      BY <1>4, <2>1, <2>2 DEF WalkEnds
<1>5. CASE Forward(u)
  <2>1. next[u] \in Seq(Nodes) /\ next[u] # <<>> /\ pc[u] = "forwarding"
      BY <1>5 DEF Forward, TypeOK
  <2>2. CASE Walk(u, "find")
      BY <2>2, WalkBegins
  <2>3. CASE Walk(u, "submit") /\ Head(next[u]) \in Automatic
    <3>1. ~NoAuto(next[u])
        BY <2>1, <2>3, AutoInTail DEF EvaluatesOnce
    <3>2. Fresh(u)
        BY <2>1, <3>1 DEF EvaluatesOnce
    <3> QED
        BY <2>3, <3>2, WalkBegins
  <2>4. CASE UNCHANGED <<pc, walks>>
      BY <2>1, <2>4 DEF WalkIsSound
  <2> QED
      BY <1>5, <2>2, <2>3, <2>4 DEF Forward
<1>6. CASE ForwardEnds(u) \/ BackEnds(u) \/ Reverts(u)
    BY <1>6 DEF ForwardEnds, BackEnds, Reverts, Goto, TypeOK, WalkIsSound
<1>7. CASE \E n \in Nodes : SubmitForward(u, n) \/ SubmitBack(u, n)
    BY <1>7 DEF SubmitForward, SubmitBack, Goto, TypeOK, WalkIsSound
<1>8. CASE \E n \in Nodes : \/ Refused(u, n) \/ SubmitFails(u, n)
                            \/ SubmitTerminate(u, n) \/ SubmitRestart(u, n)
    BY <1>8 DEF Refused, SubmitFails, SubmitTerminate, SubmitRestart, Permitted, Mine, TypeOK,
                WalkIsSound
<1> QED
    BY <1>1, <1>2, <1>3, <1>4, <1>5, <1>6, <1>7, <1>8 DEF Step, Submits, Other

(* A task is parked, and run, when what comes before it has been done.           *)
LEMMA WaitingStep ==
    ASSUME SimpleGraph, TypeOK, PuttingHasNode, OrderInv, NEW u \in Users,
           Reached \subseteq Reached',
           Asks(u) \/ Step(u) \/ Submits(u) \/ Other(u)
    PROVE  /\ WaitingIsReady'
           /\ \A n \in done' \ done : Ready(n)
<1> SUFFICES \/ UNCHANGED <<state, done>>
             \/ \E n \in Nodes : Run(n) /\ Ready(n)
             \/ \E n \in Nodes : Parks(u, n) /\ Ready(n)
             \/ \E n \in Nodes : state' = [state EXCEPT ![n] = "TERMINATED"] /\ done' = done
             \/ \E S \in SUBSET Nodes : StateRemove(S)
  <2>1. /\ \A n \in Nodes : state'[n] = "WAITING" => state[n] = "WAITING" \/ Ready(n)
        /\ \A n \in done' \ done : Ready(n)
    <3>1. CASE UNCHANGED <<state, done>>
        BY <3>1
    <3>2. CASE \E n \in Nodes : Run(n) /\ Ready(n)
        BY <3>2 DEF Run, TypeOK
    <3>3. CASE \E n \in Nodes : Parks(u, n) /\ Ready(n)
        BY <3>3 DEF Parks, TypeOK
    <3>4. CASE \E n \in Nodes : state' = [state EXCEPT ![n] = "TERMINATED"] /\ done' = done
        BY <3>4 DEF TypeOK
    <3>5. CASE \E S \in SUBSET Nodes : StateRemove(S)
        BY <3>5 DEF StateRemove
    <3> QED
        BY <3>1, <3>2, <3>3, <3>4, <3>5
  <2>2. \A n \in Nodes : Ready(n) => Ready(n)'
      BY DEF Ready
  <2> QED
      BY <2>1, <2>2 DEF WaitingIsReady, OrderInv
<1> USE DEF history
<1>1. CASE Asks(u)
    BY <1>1 DEF Asks, Ask
<1>2. CASE \E n \in Nodes : \/ JoinWaits(u, n) \/ Passes(u, n) \/ MeetsTerminated(u, n)
                            \/ NotOperatable(u, n) \/ FindsWaiting(u, n) \/ Reads(u, n)
                            \/ AutoFails(u, n)
    BY <1>2 DEF JoinWaits, Passes, MeetsTerminated, NotOperatable, FindsWaiting, Reads, AutoFails
<1>3. CASE \E n \in Nodes : RunsAuto(u, n) \/ Parks(u, n)
    BY <1>3, WalkWrites DEF RunsAuto, OrderInv
<1>4. CASE WalkEnds(u) \/ Forward(u) \/ ForwardEnds(u) \/ BackEnds(u)
    BY <1>4 DEF WalkEnds, Forward, ForwardEnds, BackEnds
<1>5. CASE Reverts(u)
  <2>1. PICK n \in left[u] : StateRemove({n})
      BY <1>5 DEF Reverts
  <2>2. {n} \in SUBSET Nodes
      BY DEF TypeOK
  <2> QED
      BY <2>1, <2>2
<1>6. CASE \E n \in Nodes : SubmitForward(u, n)
    BY <1>6 DEF SubmitForward, Permitted, OrderInv, WaitingIsReady
<1>7. CASE \E n \in Nodes : Refused(u, n) \/ SubmitFails(u, n) \/ SubmitBack(u, n)
    BY <1>7 DEF Refused, SubmitFails, SubmitBack
<1>8. CASE \E n \in Nodes : SubmitTerminate(u, n)
    BY <1>8 DEF SubmitTerminate
<1>9. CASE \E n \in Nodes : SubmitRestart(u, n)
    BY <1>9 DEF SubmitRestart
<1> QED
    BY <1>1, <1>2, <1>3, <1>4, <1>5, <1>6, <1>7, <1>8, <1>9 DEF Step, Submits, Other

LEMMA OrderInit == ASSUME Init PROVE OrderInv
<1>1. \A u \in Users : WalkIsSound(u)
    BY DEF Init, WalkIsSound
<1>2. \A u \in Users : EvaluatesOnce(u)
    BY WorkflowAssumption DEF Init, EvaluatesOnce, OneAuto
<1> QED
    BY <1>1, <1>2 DEF Init, OrderInv, WaitingIsReady

LEMMA OrderStep ==
    ASSUME SimpleGraph, OnceInv, OrderInv, [Next]_vars
    PROVE  /\ OrderInv'
           /\ \A n \in done' \ done : Ready(n)
<1>1. CASE UNCHANGED vars
  <2>1. Reached' = Reached
      BY <1>1 DEF vars, history, Reached
  <2>2. \A v \in Users : Still(v)
      BY <1>1 DEF vars, walks, Still
  <2>3. \A v \in Users : EvaluatesOnce(v)' /\ WalkIsSound(v)'
      BY <2>1, <2>2, StillKeeps DEF OrderInv
  <2>4. WaitingIsReady'
      BY <1>1, <2>1 DEF vars, OrderInv, WaitingIsReady, Ready
  <2> QED
      BY <1>1, <2>3, <2>4 DEF vars, history, OrderInv
<1>2. CASE Next
  <2>1. PICK u \in Users : Asks(u) \/ Step(u) \/ Submits(u) \/ Other(u)
      BY <1>2 DEF Next
  <2>2. TypeOK /\ PuttingHasNode /\ EvaluatesOnce(u) /\ WalkIsSound(u)
      BY DEF OnceInv, OrderInv
  <2>3. Reached \subseteq Reached'
      BY <2>1, <2>2, ReachedGrows
  <2>4. EvaluatesOnce(u)' /\ WalkIsSound(u)'
      BY <2>1, <2>2, <2>3, EvaluatesOnceStep, WalkStep
  <2>5. ASSUME NEW v \in Users, v # u PROVE EvaluatesOnce(v)' /\ WalkIsSound(v)'
    <3>1. Still(v)
        BY <2>1, <2>2, <2>5, OthersAreStill
    <3> QED
        BY <2>3, <3>1, StillKeeps DEF OrderInv
  <2>6. WaitingIsReady' /\ \A n \in done' \ done : Ready(n)
      BY <2>1, <2>2, <2>3, WaitingStep
  <2> QED
      BY <2>4, <2>5, <2>6 DEF OrderInv
<1> QED
    BY <1>1, <1>2

(* Tasks are done in the order of the graph, by any users and with any number of *)
(* failures, terminations, restarts and tasks sent back: a join waits for its    *)
(* branches although walks are cut, repeated and overtaken, and two users walk   *)
(* and submit at once.  Each walk counts for itself, and its counts are exact    *)
(* (WalkIsSound); that a submission evaluates the graph once is what a second    *)
(* automatic node after one task breaks (flow_workflow_fan).                     *)
THEOREM TasksInOrder ==
    ASSUME SimpleGraph
    PROVE  Spec => InOrder
<1>1. Init => OrderInv
    BY OrderInit
<1>2. OnceInv /\ OrderInv /\ [Next]_vars => OrderInv'
    BY OrderStep
<1>3. OnceInv /\ OnceInv' /\ OrderInv /\ [Next]_vars =>
        [\A n \in done' \ done : \A p \in Preds(n) : state[p] = "COMPLETED" \/ p \in undone]_vars
    BY OrderStep DEF Ready, Reached
<1> QED
    BY <1>1, <1>2, <1>3, Invariance, PTL DEF Spec, InOrder
===============================================================================
