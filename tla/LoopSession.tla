------------------------------ MODULE LoopSession ------------------------------
(* A session of the loop engine (ai/loop/engine.go): the goroutine of execute()  *)
(* and the callers of Pause, Resume, Stop and WaitForCompletion around it.       *)
(*                                                                               *)
(* A step is a critical section of s.mu0 together with what the goroutine does   *)
(* in private after it, or a read of s.running that the code makes without the   *)
(* lock.  The strategy, the iteration's work and the validator are choices.      *)
EXTENDS Naturals

CONSTANTS
    Sessions,       \* the sessions of the engine
    MaxIterations,  \* Config.MaxIterations, the fuse of every strategy
    None            \* s.result is nil

ASSUME SessionAssumption ==
    /\ MaxIterations \in Nat
    /\ None \notin {"COMPLETED", "FAILED"}

Active   == {"PLANNING", "EXECUTING", "VERIFYING", "FIXING"}
Terminal == {"COMPLETED", "FAILED"}

VARIABLES
    state,    \* s.state
    running,  \* s.running
    paused,   \* s.paused
    result,   \* s.result.FinalState, or None
    pc,       \* where the goroutine of execute() is
    iters,    \* ctx.IterationCount
    over,     \* ctx.CurrentState is terminal; only the goroutine writes it
    stopped,  \* history: Stop has been called
    late      \* history: iterations begun after that

sessionVars == <<state, running, paused, result, pc, iters, over, stopped, late>>

Init ==
    /\ state = [s \in Sessions |-> "IDLE"]
    /\ running = [s \in Sessions |-> FALSE]
    /\ paused = [s \in Sessions |-> FALSE]
    /\ result = [s \in Sessions |-> None]
    /\ pc = [s \in Sessions |-> "none"]
    /\ iters = [s \in Sessions |-> 0]
    /\ over = [s \in Sessions |-> FALSE]
    /\ stopped = [s \in Sessions |-> FALSE]
    /\ late = [s \in Sessions |-> 0]

Started(s) == pc[s] # "none"
Done(s)    == pc[s] = "done"
Goto(s, l) == pc' = [pc EXCEPT ![s] = l]

(* The fuse of ShouldContinueFuse: whatever the strategy says, it does not      *)
(* continue at the limit nor in a terminal state.                               *)
MayContinue(s, ended) == iters[s] < MaxIterations /\ ~ended

--------------------------------------------------------------------------------
(* Callers of the engine. *)

(* Start: the session is PLANNING and running before its goroutine exists. *)
Start(s) ==
    /\ ~Started(s)
    /\ state' = [state EXCEPT ![s] = "PLANNING"]
    /\ running' = [running EXCEPT ![s] = TRUE]
    /\ Goto(s, "begin")
    /\ UNCHANGED <<paused, result, iters, over, stopped, late>>

Pause(s) ==
    /\ Started(s)
    /\ state[s] \in Active
    /\ state' = [state EXCEPT ![s] = "PAUSED"]
    /\ paused' = [paused EXCEPT ![s] = TRUE]
    /\ UNCHANGED <<running, result, pc, iters, over, stopped, late>>

(* Broadcast: a goroutine in pauseCond.Wait() becomes runnable again. *)
Woken(s) == IF pc[s] = "waiting" THEN "woken" ELSE pc[s]

Resume(s) ==
    /\ state[s] = "PAUSED"
    /\ state' = [state EXCEPT ![s] = "EXECUTING"]
    /\ paused' = [paused EXCEPT ![s] = FALSE]
    /\ Goto(s, Woken(s))
    /\ UNCHANGED <<running, result, iters, over, stopped, late>>

(* Mutant: running stays. *)
StopStillRunning(s) ==
    /\ Started(s)
    /\ state' = [state EXCEPT ![s] = IF @ \in Terminal THEN @ ELSE "FAILED"]
    /\ paused' = [paused EXCEPT ![s] = FALSE]
    /\ Goto(s, Woken(s))
    /\ stopped' = [stopped EXCEPT ![s] = TRUE]
    /\ UNCHANGED <<running, result, iters, over, late>>

(* Mutant: no Broadcast. *)
StopUnheard(s) ==
    /\ Started(s)
    /\ state' = [state EXCEPT ![s] = IF @ \in Terminal THEN @ ELSE "FAILED"]
    /\ running' = [running EXCEPT ![s] = FALSE]
    /\ paused' = [paused EXCEPT ![s] = FALSE]
    /\ stopped' = [stopped EXCEPT ![s] = TRUE]
    /\ UNCHANGED <<pc, result, iters, over, late>>

Stop(s) ==
    /\ Started(s)
    /\ state' = [state EXCEPT ![s] = IF @ \in Terminal THEN @ ELSE "FAILED"]
    /\ running' = [running EXCEPT ![s] = FALSE]
    /\ paused' = [paused EXCEPT ![s] = FALSE]
    /\ Goto(s, Woken(s))
    /\ stopped' = [stopped EXCEPT ![s] = TRUE]
    /\ UNCHANGED <<result, iters, over, late>>

(* Mutant: the state alone ends the wait. *)
CompletedByState(s) == state[s] \in Terminal

(* What WaitForCompletion polls for. *)
Completed(s) == state[s] \in Terminal /\ result[s] # None

--------------------------------------------------------------------------------
(* The goroutine of execute(). *)

(* setState writes whatever the state is by then, and no flag with it. *)
SetState(s, to) ==
    /\ state' = [state EXCEPT ![s] = to]
    /\ UNCHANGED <<running, result>>

(* Mutant: running stays. *)
FinishRunning(s, to) ==
    /\ result' = [result EXCEPT ![s] = to]
    /\ state' = [state EXCEPT ![s] = to]
    /\ UNCHANGED running

Finish(s, to) ==
    /\ result' = [result EXCEPT ![s] = to]
    /\ running' = [running EXCEPT ![s] = FALSE]
    /\ state' = [state EXCEPT ![s] = to]

Begin(s) ==
    /\ pc[s] = "begin"
    /\ SetState(s, "PLANNING")
    /\ Goto(s, "top")
    /\ UNCHANGED <<paused, iters, over, stopped, late>>

(* The top of the loop: the flags and the state are read in one critical       *)
(* section, and the strategy decides on the context.                           *)
Top(s) ==
    /\ pc[s] = "top"
    /\ over' = [over EXCEPT ![s] = state[s] \in Terminal]
    /\ \/ running[s] /\ MayContinue(s, state[s] \in Terminal)
          /\ Goto(s, IF paused[s] THEN "pausing" ELSE "check")
       \/ Goto(s, "leave")
    /\ UNCHANGED <<state, running, paused, result, iters, stopped, late>>

(* for paused && s.running: the flag is read without the lock. *)
Pausing(s) ==
    /\ pc[s] = "pausing"
    /\ Goto(s, IF running[s] THEN "lock" ELSE "check")
    /\ UNCHANGED <<state, running, paused, result, iters, over, stopped, late>>

(* Mutant: the flags are not read again. *)
WaitAtOnce(s) ==
    /\ pc[s] = "lock"
    /\ Goto(s, "waiting")
    /\ UNCHANGED <<state, running, paused, result, iters, over, stopped, late>>

(* Under the lock both flags are read again; Wait releases it. *)
LockAndWait(s) ==
    /\ pc[s] = "lock"
    /\ Goto(s, IF paused[s] /\ running[s] THEN "waiting" ELSE "check")
    /\ UNCHANGED <<state, running, paused, result, iters, over, stopped, late>>

(* After Wait only paused is read again, and the inner loop goes round. *)
WakeUp(s) ==
    /\ pc[s] = "woken"
    /\ Goto(s, IF paused[s] THEN "pausing" ELSE "check")
    /\ UNCHANGED <<state, running, paused, result, iters, over, stopped, late>>

(* if !s.running, again without the lock. *)
Check(s) ==
    /\ pc[s] = "check"
    /\ Goto(s, IF running[s] THEN "iterate" ELSE "leave")
    /\ UNCHANGED <<state, running, paused, result, iters, over, stopped, late>>

(* Mutant: the iteration is not counted. *)
IterateUncounted(s) ==
    /\ pc[s] = "iterate"
    /\ late' = [late EXCEPT ![s] = IF stopped[s] THEN @ + 1 ELSE @]
    /\ Goto(s, "working")
    /\ UNCHANGED <<state, running, paused, result, iters, over, stopped>>

(* ExecuteIteration up to the strategy's work. *)
Iterate(s) ==
    /\ pc[s] = "iterate"
    /\ iters' = [iters EXCEPT ![s] = @ + 1]
    /\ late' = [late EXCEPT ![s] = IF stopped[s] THEN @ + 1 ELSE @]
    /\ Goto(s, "working")
    /\ UNCHANGED <<state, running, paused, result, over, stopped>>

(* The iteration's result; a stopped or terminal session does not look at it. *)
Iterated(s) ==
    /\ pc[s] = "working"
    /\ IF ~running[s] \/ state[s] \in Terminal
         THEN Goto(s, "leave")
         ELSE Goto(s, "verify") \/ Goto(s, "failed")
    /\ UNCHANGED <<state, running, paused, result, iters, over, stopped, late>>

IterationFailed(s) ==
    /\ pc[s] = "failed"
    /\ Finish(s, "FAILED")
    /\ Goto(s, "done")
    /\ UNCHANGED <<paused, iters, over, stopped, late>>

Verify(s) ==
    /\ pc[s] = "verify"
    /\ SetState(s, "VERIFYING")
    /\ Goto(s, "verdict")
    /\ UNCHANGED <<paused, iters, over, stopped, late>>

(* updateState: the validator passes (and the strategy goes on or is done),     *)
(* asks for a fix, or refuses.  The context still has the state of the top.     *)
Verdict(s) ==
    /\ pc[s] = "verdict"
    /\ UNCHANGED <<paused, iters, over, stopped, late>>
    /\ \/ MayContinue(s, over[s]) /\ SetState(s, "EXECUTING")
       \/ SetState(s, "FIXING")
       \/ \E to \in Terminal: Finish(s, to)
    /\ Goto(s, IF over[s] THEN "done" ELSE "top")

(* Mutant: a loop that has been left without a verdict has no result. *)
LeaveSilently(s) ==
    /\ pc[s] = "leave"
    /\ Goto(s, "done")
    /\ UNCHANGED <<state, running, paused, result, iters, over, stopped, late>>

(* After the loop: the state is read in one critical section ... *)
Leave(s) ==
    /\ pc[s] = "leave"
    /\ Goto(s, IF state[s] \in Terminal THEN "done" ELSE "finish")
    /\ UNCHANGED <<state, running, paused, result, iters, over, stopped, late>>

(* ... and overwritten in another. *)
FinishLoop(s) ==
    /\ pc[s] = "finish"
    /\ Finish(s, "COMPLETED")
    /\ Goto(s, "done")
    /\ UNCHANGED <<paused, iters, over, stopped, late>>

Execute(s) ==
    \/ Begin(s) \/ Top(s) \/ Pausing(s) \/ LockAndWait(s) \/ WakeUp(s) \/ Check(s)
    \/ Iterate(s) \/ Iterated(s) \/ IterationFailed(s) \/ Verify(s) \/ Verdict(s)
    \/ Leave(s) \/ FinishLoop(s)

Control(s) == Pause(s) \/ Resume(s) \/ Stop(s)

Next == \E s \in Sessions: Start(s) \/ Execute(s) \/ Control(s)

Spec == Init /\ [][Next]_sessionVars

(* Go runs a goroutine that can run. *)
FairSpec == Spec /\ \A s \in Sessions: WF_sessionVars(Execute(s))

--------------------------------------------------------------------------------
(* Properties. *)

Locations == {"none", "begin", "top", "pausing", "lock", "waiting", "woken", "check",
              "iterate", "working", "failed", "verify", "verdict", "leave", "finish", "done"}
States    == {"IDLE", "PAUSED"} \cup Active \cup Terminal

(* Type invariant; the count of iterations never passes the fuse. *)
TypeOK ==
    /\ state \in [Sessions -> States]
    /\ running \in [Sessions -> BOOLEAN]
    /\ paused \in [Sessions -> BOOLEAN]
    /\ result \in [Sessions -> Terminal \cup {None}]
    /\ pc \in [Sessions -> Locations]
    /\ iters \in [Sessions -> 0..MaxIterations]
    /\ over \in [Sessions -> BOOLEAN]
    /\ stopped \in [Sessions -> BOOLEAN]
    /\ late \in [Sessions -> Nat]

(* No wakeup is lost: the goroutine sleeps in pauseCond.Wait() only while the   *)
(* session is paused and running, whatever order Pause, Resume, Stop and the    *)
(* goroutine's locked and unlocked reads of the two flags come in.              *)
NoLostWakeup == \A s \in Sessions: pc[s] = "waiting" => paused[s] /\ running[s]

(* Once a session has a result, its state is the result's FinalState for good:  *)
(* nothing that was under way in another goroutine, or in a later step of       *)
(* execute(), overwrites the one without the other.                             *)
ResultIsState == \A s \in Sessions: result[s] # None => state[s] = result[s] /\ ~running[s]

(* Stop lets at most one more iteration begin: the one whose check of running   *)
(* came before it.                                                              *)
AtMostOneLate == \A s \in Sessions: late[s] <= 1

(* "resume 真续跑": a goroutine that sleeps in Wait can be resumed, which       *)
(* Resume does only to a session whose state is PAUSED.                         *)
SleeperCanResume == \A s \in Sessions: pc[s] = "waiting" => state[s] = "PAUSED"

(* A session that is not paused for ever runs out of iterations: the fuse ends  *)
(* every loop, also one whose validator asks for a fix after every iteration.   *)
LoopEnds == \A s \in Sessions: (<>[]~paused[s]) => (Started(s) ~> Done(s))

(* Stop ends the goroutine from wherever it is, asleep in Wait included. *)
StopEnds == \A s \in Sessions: stopped[s] ~> Done(s)

(* "WaitForCompletion blocks until the terminal state": it returns once the     *)
(* session has reached one.                                                     *)
WaitReturns == \A s \in Sessions: (state[s] \in Terminal) ~> Completed(s)

================================================================================
