------------------------------ MODULE FlowWorkflow ------------------------------
(* Human tasks over a graph (flow/workflow): several users, each with a context  *)
(* of its own, claim, find and submit the tasks of one instance through one      *)
(* Executor.  Every operation walks the graph from its start and asks the        *)
(* StateRepository, node by node, what is done: the walk is not locked, only     *)
(* submitting is, and the state of a node is read and written in two calls.      *)
(*                                                                               *)
(* The graph has activities and parallel gateways, whose branches are walked one *)
(* after the other; an activity is operated by some users (ActorStateController) *)
(* or forwards automatically.  A walk is the stack of the nodes it has still to  *)
(* run.                                                                          *)
EXTENDS Naturals, FiniteSets, Sequences, SequencesExt

CONSTANTS
    Users,
    Activities, Gateways,
    First,       \* the nodes after the start
    Links,       \* Links[n]: the sequence of the nodes after n; the graph has no cycle
    Automatic,   \* the nodes that forward automatically, all gateways among them
    Operates,    \* Operates[u]: the nodes that u may operate
    Actions,     \* the actions that users submit
    Intents,     \* Intents[u]: the operations of u that walk: "claim", "find", "findNext"
    MaxFaults,   \* bound: failures of tasks, and submissions other than FORWARD
    NoNode, Nobody

Nodes == Activities \cup Gateways

ASSUME WorkflowAssumption ==
    /\ Activities \cap Gateways = {}
    /\ First \in Seq(Nodes)
    /\ Links \in [Nodes -> Seq(Nodes)]
    /\ Gateways \subseteq Automatic /\ Automatic \subseteq Nodes
    /\ Operates \in [Users -> SUBSET Nodes]
    /\ Actions \subseteq {"FORWARD", "BACK", "TERMINATE", "RESTART"}
    /\ Intents \in [Users -> SUBSET {"claim", "find", "findNext"}]
    /\ MaxFaults \in Nat
    /\ NoNode \notin Nodes /\ Nobody \notin Users

States == {"UNKNOWN", "WAITING", "COMPLETED", "TERMINATED"}

VARIABLES
    state,    \* state[n]: the repository's state of node n
    lock,     \* who holds e.mu
    pc,       \* pc[u]: "idle", "walking", "putting", "forwarding" or "reverting"
    intent,   \* intent[u]: what u walks for; "submit" when it evaluates what follows
    todo,     \* todo[u]: the nodes u has still to run
    count,    \* count[u]: arrivals at the gateways, of a fresh walk and of the submission
    seen,     \* seen[u]: the state u has read of the node it is about to write
    found,    \* found[u]: the tasks u has been given, WAITING when it got them
    last,     \* last[u]: the node of the task that findTaskEx returns
    next,     \* next[u]: the nodes forwardHandle has still to look at
    left,     \* left[u]: the nodes backHandle has still to remove
    faults,   \* how many there have been
    done,     \* nodes whose task has run and was not sent back since
    twice,    \* nodes whose task has run again although it was not sent back
    torn,     \* nodes written by someone who had read another state
    undone    \* nodes that were COMPLETED, are not now, and were not run since

walks   == <<intent, todo, count, seen, last>>
history == <<done, twice, torn, undone>>
vars    == <<state, lock, pc, walks, found, next, left, faults, history>>

Zero == [g \in Gateways |-> 0]

Init ==
    /\ state = [n \in Nodes |-> "UNKNOWN"]
    /\ lock = Nobody
    /\ pc = [u \in Users |-> "idle"]
    /\ intent = [u \in Users |-> "claim"]
    /\ todo = [u \in Users |-> <<>>]
    /\ count = [u \in Users |-> [own |-> Zero, submission |-> Zero]]
    /\ seen = [u \in Users |-> "UNKNOWN"]
    /\ found = [u \in Users |-> {}]
    /\ last = [u \in Users |-> NoNode]
    /\ next = [u \in Users |-> <<>>]
    /\ left = [u \in Users |-> {}]
    /\ faults = 0
    /\ done = {} /\ twice = {} /\ torn = {} /\ undone = {}

Preds(n) == {m \in Nodes : n \in ToSet(Links[m])}
Indegree(g) == Cardinality(Preds(g)) + (IF g \in ToSet(First) THEN 1 ELSE 0)

Goto(u, l) == pc' = [pc EXCEPT ![u] = l]
Fault == faults < MaxFaults /\ faults' = faults + 1

(* PostHandleTask has run the task of n, and n is COMPLETED. *)
Run(n) ==
    /\ state' = [state EXCEPT ![n] = "COMPLETED"]
    /\ done' = done \cup {n}
    /\ twice' = IF n \in done THEN twice \cup {n} ELSE twice
    /\ undone' = undone \ {n}

(* The states of nodes S are removed: they are to be done again. *)
StateRemove(S) ==
    /\ state' = [n \in Nodes |-> IF n \in S THEN "UNKNOWN" ELSE state[n]]
    /\ done' = done \ S
    /\ undone' = undone \cup {n \in S : state[n] = "COMPLETED"}
    /\ UNCHANGED <<twice, torn>>

-------------------------------------------------------------------------------
(* Walks.  Those of claims and probes, and of findTaskEx, count arrivals in a   *)
(* Temporary of their own; the evaluations of one submission share one.         *)

Key(i) == IF i = "submit" THEN "submission" ELSE "own"

Walk(u, i) ==
    /\ intent' = [intent EXCEPT ![u] = i]
    /\ todo' = [todo EXCEPT ![u] = First]
    /\ count' = IF i = "submit" THEN count ELSE [count EXCEPT ![u].own = Zero]
    /\ last' = [last EXCEPT ![u] = NoNode]
    /\ Goto(u, "walking")
    /\ UNCHANGED seen

(* ClaimTask, FindTask and FindNextTasks. *)
Ask(u, i) ==
    /\ pc[u] = "idle"
    /\ Walk(u, i)
    /\ found' = [found EXCEPT ![u] = {}]
    /\ UNCHANGED <<state, lock, next, left, faults, history>>

At(u, n) == pc[u] = "walking" /\ todo[u] # <<>> /\ n = Head(todo[u])
Arrived(u, n) == count[u][Key(intent[u])][n] + 1
(* Mutant: a join is passed at the first arrival. *)
OpenAtOnce(u, n) == n \in Gateways => Arrived(u, n) >= 1

Open(u, n) == n \in Gateways => Arrived(u, n) >= Indegree(n)
Counted(u, n, k) ==
    count' = IF n \in Gateways THEN [count EXCEPT ![u][Key(intent[u])][n] = k] ELSE count

(* The walk goes on with what follows n, with the next branch, or not at all. *)
GoOn(u, n)    == todo' = [todo EXCEPT ![u] = Links[n] \o Tail(@)]
Interrupt(u)  == todo' = [todo EXCEPT ![u] = Tail(@)]
Stop(u)       == todo' = [todo EXCEPT ![u] = <<>>]

Meets(u, n) == last' = IF lock = u THEN [last EXCEPT ![u] = n] ELSE last
Gives(u, n) == found' = IF lock = u THEN found ELSE [found EXCEPT ![u] = @ \cup {n}]

JoinWaits(u, n) ==
    /\ At(u, n) /\ ~Open(u, n)
    /\ Counted(u, n, Arrived(u, n))
    /\ Interrupt(u)
    /\ UNCHANGED <<state, lock, pc, intent, seen, last, found, next, left, faults, history>>

Passes(u, n) ==
    /\ At(u, n) /\ Open(u, n) /\ state[n] = "COMPLETED"
    /\ Counted(u, n, 0) /\ Meets(u, n) /\ GoOn(u, n)
    /\ UNCHANGED <<state, lock, pc, intent, seen, found, next, left, faults, history>>

(* A TERMINATED node stops the walk, and the submission that looks for a task.  *)
MeetsTerminated(u, n) ==
    /\ At(u, n) /\ Open(u, n) /\ state[n] = "TERMINATED"
    /\ Stop(u)
    /\ last' = [last EXCEPT ![u] = NoNode]
    /\ next' = IF lock = u /\ intent[u] = "find" THEN [next EXCEPT ![u] = <<>>] ELSE next
    /\ UNCHANGED <<state, lock, pc, intent, count, seen, found, left, faults, history>>

Human(u, n) == At(u, n) /\ n \notin Automatic /\ state[n] \in {"UNKNOWN", "WAITING"}

NotOperatable(u, n) ==
    /\ Human(u, n) /\ n \notin Operates[u]
    /\ IF intent[u] = "find" THEN Stop(u) ELSE Interrupt(u)
    /\ Meets(u, n)
    /\ UNCHANGED <<state, lock, pc, intent, count, seen, found, next, left, faults, history>>

FindsWaiting(u, n) ==
    /\ Human(u, n) /\ n \in Operates[u] /\ state[n] = "WAITING"
    /\ Gives(u, n) /\ Meets(u, n)
    /\ IF intent[u] = "findNext" THEN Interrupt(u) ELSE Stop(u)
    /\ UNCHANGED <<state, lock, pc, intent, count, seen, next, left, faults, history>>

(* What has to be written is read first (StateGet). *)
Reads(u, n) ==
    /\ At(u, n) /\ Open(u, n)
    /\ \/ n \in Automatic /\ state[n] \in {"UNKNOWN", "WAITING"}
       \/ n \notin Automatic /\ n \in Operates[u] /\ state[n] = "UNKNOWN"
    /\ seen' = [seen EXCEPT ![u] = state[n]]
    /\ Counted(u, n, 0) /\ Meets(u, n)
    /\ Goto(u, "putting")
    /\ UNCHANGED <<state, lock, intent, todo, found, next, left, faults, history>>

Writing(u, n) == pc[u] = "putting" /\ n = Head(todo[u])
Tear(u, n) == torn' = IF state[n] # seen[u] THEN torn \cup {n} ELSE torn

RunsAuto(u, n) ==
    /\ Writing(u, n) /\ n \in Automatic
    /\ Run(n) /\ Tear(u, n)
    /\ GoOn(u, n) /\ Goto(u, "walking")
    /\ UNCHANGED <<lock, intent, count, seen, last, found, next, left, faults>>

AutoFails(u, n) ==
    /\ Writing(u, n) /\ n \in Activities \cap Automatic
    /\ Fault
    /\ lock' = IF lock = u THEN Nobody ELSE lock
    /\ found' = IF lock = u THEN found ELSE [found EXCEPT ![u] = {}]
    /\ Stop(u) /\ Goto(u, "idle")
    /\ UNCHANGED <<state, intent, count, seen, last, next, left, history>>

(* Mutant: the task is given out and not put to WAITING. *)
ParksNot(u, n) ==
    /\ Writing(u, n) /\ n \notin Automatic
    /\ Gives(u, n) /\ Goto(u, "walking")
    /\ IF intent[u] = "findNext" THEN Interrupt(u) ELSE Stop(u)
    /\ UNCHANGED <<state, lock, intent, count, seen, last, next, left, faults, history>>

Parks(u, n) ==
    /\ Writing(u, n) /\ n \notin Automatic
    /\ state' = [state EXCEPT ![n] = "WAITING"]
    /\ Tear(u, n)
    /\ undone' = IF state[n] = "COMPLETED" THEN undone \cup {n} ELSE undone
    /\ Gives(u, n) /\ Goto(u, "walking")
    /\ IF intent[u] = "findNext" THEN Interrupt(u) ELSE Stop(u)
    /\ UNCHANGED <<lock, intent, count, seen, last, next, left, faults, done, twice>>

WalkEnds(u) ==
    /\ pc[u] = "walking" /\ todo[u] = <<>>
    /\ IF lock # u THEN Goto(u, "idle") /\ UNCHANGED walks
       ELSE IF intent[u] = "find" /\ last[u] \in Automatic THEN Walk(u, "submit")
       ELSE Goto(u, "forwarding") /\ UNCHANGED walks
    /\ UNCHANGED <<state, lock, found, next, left, faults, history>>

-------------------------------------------------------------------------------
(* SubmitTaskIfWaiting: the task was WAITING when it was claimed, and is looked *)
(* up again under the lock.                                                     *)

Mine(u, n) == pc[u] = "idle" /\ n \in found[u] /\ lock = Nobody

(* Mutant: only the state of the claimed task is looked at. *)
PermittedOnce(u, n) == Mine(u, n)

Permitted(u, n) == Mine(u, n) /\ state[n] = "WAITING"

Refused(u, n) ==
    /\ Mine(u, n) /\ ~Permitted(u, n)
    /\ found' = [found EXCEPT ![u] = @ \ {n}]
    /\ UNCHANGED <<state, lock, pc, walks, next, left, faults, history>>

SubmitForward(u, n) ==
    /\ "FORWARD" \in Actions /\ Permitted(u, n)
    /\ Run(n)
    /\ lock' = u /\ Goto(u, "forwarding")
    /\ next' = [next EXCEPT ![u] = Links[n]]
    /\ count' = [count EXCEPT ![u].submission = Zero]
    /\ found' = [found EXCEPT ![u] = @ \ {n}]
    /\ UNCHANGED <<intent, todo, seen, last, left, faults, torn>>

SubmitFails(u, n) ==
    /\ "FORWARD" \in Actions /\ Permitted(u, n)
    /\ Fault
    /\ UNCHANGED <<state, lock, pc, walks, found, next, left, history>>

(* forwardHandle: what follows a gateway is found by a walk of its own; a node  *)
(* that forwards automatically is run by a walk from the start.                 *)
Forward(u) ==
    /\ pc[u] = "forwarding" /\ next[u] # <<>>
    /\ next' = [next EXCEPT ![u] = Tail(@)]
    /\ LET n == Head(next[u])
       IN IF n \in Gateways THEN Walk(u, "find")
          ELSE IF n \in Automatic THEN Walk(u, "submit")
          ELSE UNCHANGED <<pc, walks>>
    /\ UNCHANGED <<state, lock, found, left, faults, history>>

ForwardEnds(u) ==
    /\ pc[u] = "forwarding" /\ next[u] = <<>>
    /\ lock' = Nobody /\ Goto(u, "idle")
    /\ UNCHANGED <<state, walks, found, next, left, faults, history>>

(* backHandle: n, the activities before it, and behind gateways before it also  *)
(* the activities that follow them.                                             *)
Behind[n \in Nodes] ==
    UNION {{g} \cup Behind[g] : g \in Preds(n) \cap Gateways}
Back(n) ==
    LET gates == Behind[n]
    IN {m \in Nodes :
          \/ m \in {n} \cup gates
          \/ m \in Activities /\ \E k \in {n} \cup gates : m \in Preds(k)
          \/ m \in Activities /\ \E g \in gates : m \in ToSet(Links[g])}

SubmitBack(u, n) ==
    /\ "BACK" \in Actions /\ Permitted(u, n)
    /\ Fault
    /\ left' = [left EXCEPT ![u] = Back(n)]
    /\ lock' = u /\ Goto(u, "reverting")
    /\ found' = [found EXCEPT ![u] = @ \ {n}]
    /\ UNCHANGED <<state, walks, next, history>>

Reverts(u) ==
    /\ pc[u] = "reverting"
    /\ \E n \in left[u] : StateRemove({n}) /\ left' = [left EXCEPT ![u] = @ \ {n}]
    /\ UNCHANGED <<lock, pc, walks, found, next, faults>>

BackEnds(u) ==
    /\ pc[u] = "reverting" /\ left[u] = {}
    /\ lock' = Nobody /\ Goto(u, "idle")
    /\ UNCHANGED <<state, walks, found, next, left, faults, history>>

SubmitTerminate(u, n) ==
    /\ "TERMINATE" \in Actions /\ Permitted(u, n)
    /\ Fault
    /\ state' = [state EXCEPT ![n] = "TERMINATED"]
    /\ found' = [found EXCEPT ![u] = @ \ {n}]
    /\ UNCHANGED <<lock, pc, walks, next, left, history>>

SubmitRestart(u, n) ==
    /\ "RESTART" \in Actions /\ Permitted(u, n)
    /\ Fault
    /\ StateRemove(Nodes)
    /\ found' = [found EXCEPT ![u] = @ \ {n}]
    /\ UNCHANGED <<lock, pc, walks, next, left>>

-------------------------------------------------------------------------------
Step(u) ==
    \/ \E n \in Nodes : \/ JoinWaits(u, n) \/ Passes(u, n) \/ MeetsTerminated(u, n)
                        \/ NotOperatable(u, n) \/ FindsWaiting(u, n) \/ Reads(u, n)
                        \/ RunsAuto(u, n) \/ Parks(u, n)
    \/ WalkEnds(u) \/ Forward(u) \/ ForwardEnds(u) \/ Reverts(u) \/ BackEnds(u)

Asks(u) == \E i \in Intents[u] : Ask(u, i)

Submits(u) == \E n \in Nodes : Refused(u, n) \/ SubmitForward(u, n)

Other(u) ==
    \E n \in Nodes : \/ AutoFails(u, n) \/ SubmitFails(u, n) \/ SubmitBack(u, n)
                     \/ SubmitTerminate(u, n) \/ SubmitRestart(u, n)

Next ==
    \E u \in Users : Asks(u) \/ Step(u) \/ Submits(u) \/ Other(u)

Spec == Init /\ [][Next]_vars

(* An operation that has begun goes on, and every user asks for tasks, and      *)
(* submits FORWARD what he has been given, again and again.                     *)
FairSpec ==
    Spec /\ \A u \in Users : WF_vars(Step(u)) /\ SF_vars(Asks(u)) /\ SF_vars(Submits(u))

-------------------------------------------------------------------------------
TypeOK ==
    /\ state \in [Nodes -> States]
    /\ lock \in Users \cup {Nobody}
    /\ pc \in [Users -> {"idle", "walking", "putting", "forwarding", "reverting"}]
    /\ intent \in [Users -> {"claim", "find", "findNext", "submit"}]
    /\ todo \in [Users -> Seq(Nodes)] /\ next \in [Users -> Seq(Nodes)]
    /\ count \in [Users -> [{"own", "submission"} -> [Gateways -> Nat]]]
    /\ seen \in [Users -> {"UNKNOWN", "WAITING"}]
    /\ found \in [Users -> SUBSET Nodes] /\ left \in [Users -> SUBSET Nodes]
    /\ last \in [Users -> Nodes \cup {NoNode}]
    /\ faults \in 0..MaxFaults
    /\ done \subseteq Nodes /\ twice \subseteq Nodes /\ torn \subseteq Nodes /\ undone \subseteq Nodes

(* A task that is submitted only if it is WAITING, or that forwards             *)
(* automatically, is done once, however many users work at the instance, unless *)
(* it is sent back or the state of its node was overwritten by a walk that had  *)
(* read it before (Reads and Parks, or RunsAuto, of another user in between).   *)
HandledOnce == twice \subseteq torn

(* A task is done only after those before it: a join waits for all its branches,*)
(* nothing follows a TERMINATED node, and a task that the user may not operate  *)
(* is not passed.  Only a node that was COMPLETED and is to be done again may    *)
(* be overtaken, by one who has passed it before.                               *)
InOrder ==
    [][\A n \in done' \ done : \A p \in Preds(n) : state[p] = "COMPLETED" \/ p \in undone]_vars

(* As long as users ask and submit, an instance ends, one way or the other.     *)
InstanceEnds ==
    <>(\A n \in Nodes : state[n] = "COMPLETED") \/ <>(\E n \in Nodes : state[n] = "TERMINATED")
===============================================================================
