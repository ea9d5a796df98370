---------------------------- MODULE AutopilotProofs ----------------------------
(* What holds of the sessions of LoopSession, and of a pipeline of Autopilot over *)
(* them, for every set of sessions, every number of stages and every limit of     *)
(* iterations.                                                                    *)
EXTENDS Autopilot, TLAPS

(* The sessions, LoopSession alone.                                               *)

(* The inductive invariant of one session.  A result exists only on the way out  *)
(* of the loop, running is never true in a terminal state, and a late iteration  *)
(* is followed by nothing but the end.                                           *)
SessionInv(s) ==
    /\ running[s] => state[s] \notin Terminal
    /\ result[s] # None => /\ state[s] = result[s]
                           /\ ~running[s]
                           /\ pc[s] \in {"top", "leave", "done"}
    /\ pc[s] = "none" => state[s] = "IDLE" /\ result[s] = None /\ ~stopped[s] /\ late[s] = 0
    /\ pc[s] = "waiting" => paused[s] /\ running[s]
    /\ pc[s] \in {"pausing", "lock", "waiting", "woken", "check", "iterate"}
           => iters[s] < MaxIterations
    /\ stopped[s] => ~running[s]
    /\ late[s] \in {0, 1}
    /\ late[s] = 1 => stopped[s] /\ pc[s] \in {"working", "leave", "finish", "done"}

LoopInv == TypeOK /\ \A s \in Sessions: SessionInv(s)

LEMMA InitLoopInv == Init => LoopInv
BY SessionAssumption DEF Init, LoopInv, TypeOK, SessionInv, States, Locations, Active, Terminal

(* A step of session s leaves every other session as it is. *)
Untouched(s, t) ==
    /\ state'[t] = state[t] /\ running'[t] = running[t] /\ paused'[t] = paused[t]
    /\ result'[t] = result[t] /\ pc'[t] = pc[t] /\ iters'[t] = iters[t] /\ over'[t] = over[t]
    /\ stopped'[t] = stopped[t] /\ late'[t] = late[t]

LEMMA UntouchedKeeps ==
    ASSUME NEW s \in Sessions, NEW t \in Sessions, SessionInv(t), Untouched(s, t)
    PROVE  SessionInv(t)'
BY DEF SessionInv, Untouched

LEMMA CallersKeepInv ==
    ASSUME LoopInv, NEW s \in Sessions, Start(s) \/ Control(s)
    PROVE  /\ TypeOK'
           /\ SessionInv(s)'
           /\ \A t \in Sessions \ {s}: Untouched(s, t)
<1> USE SessionAssumption DEF LoopInv, TypeOK, SessionInv, Untouched, Goto, Woken, States,
        Locations, Active, Terminal
<1>1. CASE Start(s)
  BY <1>1 DEF Start, Started
<1>2. CASE Pause(s)
  BY <1>2 DEF Pause, Started
<1>3. CASE Resume(s)
  BY <1>3 DEF Resume
<1>4. CASE Stop(s)
  BY <1>4 DEF Stop, Started
<1> QED BY <1>1, <1>2, <1>3, <1>4 DEF Control

LEMMA ExecuteKeepsInv ==
    ASSUME LoopInv, NEW s \in Sessions, Execute(s)
    PROVE  /\ TypeOK'
           /\ SessionInv(s)'
           /\ \A t \in Sessions \ {s}: Untouched(s, t)
<1> USE SessionAssumption DEF LoopInv, TypeOK, SessionInv, Untouched, Goto, States,
        Locations, Active, Terminal
<1>1. CASE Begin(s)
  BY <1>1 DEF Begin, SetState
<1>2. CASE Top(s)
  BY <1>2 DEF Top, MayContinue
<1>3. CASE Pausing(s)
  BY <1>3 DEF Pausing
<1>4. CASE LockAndWait(s)
  BY <1>4 DEF LockAndWait
<1>5. CASE WakeUp(s)
  BY <1>5 DEF WakeUp
<1>6. CASE Check(s)
  BY <1>6 DEF Check
<1>7. CASE Iterate(s)
  BY <1>7 DEF Iterate
<1>8. CASE Iterated(s)
  BY <1>8 DEF Iterated
<1>9. CASE IterationFailed(s)
  BY <1>9 DEF IterationFailed, Finish
<1>10. CASE Verify(s)
  BY <1>10 DEF Verify, SetState
<1>11. CASE Verdict(s)
  <2>1. ASSUME NEW to \in {"EXECUTING", "FIXING"}, SetState(s, to)
        PROVE  TypeOK' /\ SessionInv(s)' /\ \A t \in Sessions \ {s}: Untouched(s, t)
    BY <1>11, <2>1 DEF Verdict, SetState
  <2>2. ASSUME NEW to \in Terminal, Finish(s, to)
        PROVE  TypeOK' /\ SessionInv(s)' /\ \A t \in Sessions \ {s}: Untouched(s, t)
    BY <1>11, <2>2 DEF Verdict, Finish
  <2> QED BY <1>11, <2>1, <2>2 DEF Verdict
<1>12. CASE Leave(s)
  BY <1>12 DEF Leave
<1>13. CASE FinishLoop(s)
  BY <1>13 DEF FinishLoop, Finish
<1> QED BY <1>1, <1>2, <1>3, <1>4, <1>5, <1>6, <1>7, <1>8, <1>9, <1>10, <1>11, <1>12, <1>13 DEF Execute

LEMMA NextLoopInv == LoopInv /\ [Next]_sessionVars => LoopInv'
<1> SUFFICES ASSUME LoopInv, [Next]_sessionVars PROVE LoopInv'
  OBVIOUS
<1>1. CASE UNCHANGED sessionVars
  BY <1>1 DEF sessionVars, LoopInv, TypeOK, SessionInv
<1>2. CASE Next
  <2>1. PICK s \in Sessions: Start(s) \/ Execute(s) \/ Control(s)
    BY <1>2 DEF Next
  <2>2. /\ TypeOK'
        /\ SessionInv(s)'
        /\ \A t \in Sessions \ {s}: Untouched(s, t)
    BY <2>1, CallersKeepInv, ExecuteKeepsInv
  <2>3. ASSUME NEW t \in Sessions PROVE SessionInv(t)'
    <3>1. CASE t = s
      BY <2>2, <3>1
    <3>2. CASE t # s
      BY <2>2, <3>2, UntouchedKeeps DEF LoopInv
    <3> QED BY <3>1, <3>2
  <2> QED BY <2>2, <2>3 DEF LoopInv
<1> QED BY <1>1, <1>2

THEOREM LoopInvariant == Spec => []LoopInv
BY InitLoopInv, NextLoopInv, PTL DEF Spec

(* The fuse: no session ever begins more than MaxIterations iterations, and     *)
(* every variable of a session keeps to its type.                               *)
THEOREM TypeCorrect == Spec => []TypeOK
BY LoopInvariant, PTL DEF LoopInv

(* No wakeup is lost: execute() sleeps in Wait only while the session is paused *)
(* and running.                                                                 *)
THEOREM WakeupsArrive == Spec => []NoLostWakeup
<1>1. LoopInv => NoLostWakeup
  BY DEF LoopInv, SessionInv, NoLostWakeup
<1> QED BY <1>1, LoopInvariant, PTL

(* The state of a session that has a result is the result's. *)
THEOREM ResultHolds == Spec => []ResultIsState
<1>1. LoopInv => ResultIsState
  BY DEF LoopInv, SessionInv, ResultIsState
<1> QED BY <1>1, LoopInvariant, PTL

(* At most one iteration begins after Stop. *)
THEOREM StopIsPrompt == Spec => []AtMostOneLate
<1>1. ASSUME LoopInv, NEW s \in Sessions PROVE late[s] <= 1
  <2>1. late[s] = 0 \/ late[s] = 1
    BY <1>1 DEF LoopInv, SessionInv
  <2> QED BY <2>1
<1>2. LoopInv => AtMostOneLate
  BY <1>1 DEF AtMostOneLate
<1> QED BY <1>2, LoopInvariant, PTL

(* finish() is reached only by a goroutine whose session has no result yet. *)
LEMMA OneResult ==
    ASSUME LoopInv, NEW s \in Sessions, Start(s) \/ Execute(s) \/ Control(s), result[s] # None
    PROVE  result'[s] = result[s]
<1>1. pc[s] \in {"top", "leave", "done"} /\ result \in [Sessions -> Terminal \cup {None}]
  BY DEF LoopInv, SessionInv, TypeOK
<1> QED BY <1>1 DEF Start, Started, Control, Pause, Resume, Stop, Execute, Begin, Top, Pausing,
        LockAndWait, WakeUp, Check, Iterate, Iterated, IterationFailed, Verify, Verdict, Leave,
        FinishLoop

(* A result is given once and never changes. *)
ResultStays == \A s \in Sessions: result[s] # None => result'[s] = result[s]

THEOREM ResultIsFinal == Spec => [][ResultStays]_sessionVars
<1>1. ASSUME LoopInv, [Next]_sessionVars PROVE ResultStays
  <2> SUFFICES ASSUME NEW t \in Sessions, result[t] # None PROVE result'[t] = result[t]
    BY DEF ResultStays
  <2>1. CASE UNCHANGED sessionVars
    BY <2>1 DEF sessionVars
  <2>2. CASE Next
    <3>1. PICK s \in Sessions: Start(s) \/ Execute(s) \/ Control(s)
      BY <2>2 DEF Next
    <3>2. CASE s # t
      BY <3>1, <3>2, <1>1, CallersKeepInv, ExecuteKeepsInv DEF Untouched
    <3>3. CASE s = t
      BY <3>1, <3>3, <1>1, OneResult
    <3> QED BY <3>2, <3>3
  <2> QED BY <1>1, <2>1, <2>2
<1> QED BY <1>1, LoopInvariant, PTL DEF Spec


-------------------------------------------------------------------------------
(* The pipeline.                                                                  *)

(* The shape of the pipeline's own state. *)
Shape ==
    /\ stage \in Stages
    /\ step \in {"stage", "register", "wait", "returned"}
    /\ step \in {"register", "wait"} => stage \in Sessions
    /\ sessions \subseteq Sessions
    /\ toStop \subseteq Sessions

(* The stages behind the current one are complete, and so is the current one    *)
(* when the pipeline has answered Success.                                      *)
InOrder ==
    /\ answer = "ok" => step = "returned"
    /\ \A s \in Sessions: s < stage \/ answer = "ok" => result[s] = "COMPLETED"

PipelineInv == LoopInv /\ Shape /\ StageIsAwaited /\ InOrder

LEMMA InitPipelineInv == PipelineInit => PipelineInv
<1> SUFFICES ASSUME PipelineInit PROVE PipelineInv
  OBVIOUS
<1>1. LoopInv
  BY InitLoopInv DEF PipelineInit
<1>2. Shape /\ InOrder
  BY AutopilotAssumption DEF PipelineInit, Shape, InOrder, Stages
<1>3. StageIsAwaited
  BY DEF PipelineInit, Init, StageIsAwaited, Started
<1> QED BY <1>1, <1>2, <1>3 DEF PipelineInv

(* A step of the pipeline is a step of the sessions or leaves them alone. *)
LEMMA StepImplements == Shape /\ [PipelineNext]_vars => [Next]_sessionVars
<1> SUFFICES ASSUME Shape, [PipelineNext]_vars PROVE [Next]_sessionVars
  OBVIOUS
<1>1. CASE UNCHANGED vars
  BY <1>1 DEF vars
<1>2. CASE AdapterStage \/ RegisterStage \/ StageCompletes \/ Cancel \/ CancelCompletes
  BY <1>2 DEF AdapterStage, RegisterStage, StageCompletes, Cancel, CancelCompletes
<1>3. CASE StartStage
  BY <1>3 DEF StartStage, Next
<1>4. CASE CancelStops
  BY <1>4 DEF CancelStops, Next, Control, Shape
<1>5. CASE Session
  BY <1>5 DEF Session, Next
<1> QED BY <1>1, <1>2, <1>3, <1>4, <1>5 DEF PipelineNext, Pipeline, Canceller

(* The steps of the sessions that StartPipeline does not make itself start none *)
(* and take no result away.                                                     *)
LEMMA OthersKeep ==
    ASSUME LoopInv, NEW s \in Sessions, Execute(s) \/ Control(s)
    PROVE  \A t \in Sessions: /\ Started(t)' => Started(t)
                              /\ result[t] # None => result'[t] = result[t]
<1>1. \A t \in Sessions \ {s}: Untouched(s, t)
  BY CallersKeepInv, ExecuteKeepsInv
<1>2. Started(s)
  BY DEF LoopInv, SessionInv, Started, Execute, Control, Begin, Top, Pausing, LockAndWait, WakeUp,
         Check, Iterate, Iterated, IterationFailed, Verify, Verdict, Leave, FinishLoop, Pause,
         Resume, Stop
<1>3. result[s] # None => result'[s] = result[s]
  BY OneResult
<1> QED BY <1>1, <1>2, <1>3 DEF Untouched, Started

LEMMA SessionsKeepInv ==
    ASSUME PipelineInv, NEW s \in Sessions, Execute(s) \/ Control(s), UNCHANGED <<stage, step, answer>>
    PROVE  StageIsAwaited' /\ InOrder'
<1>1. \A t \in Sessions: /\ Started(t)' => Started(t)
                         /\ result[t] # None => result'[t] = result[t]
  BY OthersKeep DEF PipelineInv
<1>2. StageIsAwaited'
  BY <1>1 DEF PipelineInv, StageIsAwaited, Started
<1>3. InOrder'
  BY <1>1, SessionAssumption DEF PipelineInv, InOrder
<1> QED BY <1>2, <1>3

(* Advance moves on from a stage that has no session or a completed one. *)
LEMMA AdvanceKeepsInv ==
    ASSUME PipelineInv, UNCHANGED sessionVars, step \in {"stage", "wait"},
           NEW success \in BOOLEAN, Advance(success),
           \A s \in Sessions: Started(s) => result[s] # None,
           success /\ stage \in Sessions => result[stage] = "COMPLETED"
    PROVE  /\ stage' \in Stages
           /\ step' \in {"stage", "returned"}
           /\ sessions' = sessions
           /\ StageIsAwaited' /\ InOrder'
<1> USE AutopilotAssumption DEF PipelineInv, Shape, Stages, sessionVars
<1>1. StageIsAwaited'
  BY DEF StageIsAwaited, Started
<1>2. CASE ~success
  BY <1>1, <1>2 DEF Advance, Return, InOrder
<1>3. CASE success /\ stage = LastStage
  <2>1. \A s \in Sessions: s < stage \/ s = stage
    BY <1>3
  <2> QED BY <1>1, <1>3, <2>1 DEF Advance, Return, InOrder
<1>4. CASE success /\ stage # LastStage
  <2>1. /\ stage' = stage + 1 /\ step' = "stage" /\ UNCHANGED <<answer, sessions>>
        /\ stage' \in Stages
    BY <1>4 DEF Advance
  <2>2. \A s \in Sessions: s < stage' => s < stage \/ s = stage
    BY <2>1
  <2>3. \A s \in Sessions: s < stage' => result'[s] = "COMPLETED"
    BY <1>4, <2>2 DEF InOrder
  <2>4. answer # "ok"
    BY DEF InOrder
  <2> QED BY <1>1, <2>1, <2>3, <2>4 DEF InOrder
<1> QED BY <1>2, <1>3, <1>4

LEMMA NextPipelineInv == PipelineInv /\ [PipelineNext]_vars => PipelineInv'
<1> SUFFICES ASSUME PipelineInv, [PipelineNext]_vars PROVE PipelineInv'
  OBVIOUS
<1>1. LoopInv'
  BY StepImplements, NextLoopInv DEF PipelineInv
<1>2. Shape' /\ StageIsAwaited' /\ InOrder'
  <2>1. CASE UNCHANGED vars
    BY <2>1 DEF vars, pipelineVars, sessionVars, PipelineInv, Shape, StageIsAwaited, Started, InOrder
  <2>2. CASE AdapterStage
    <3>1. PICK success \in BOOLEAN: Advance(success)
      BY <2>2 DEF AdapterStage
    <3>2. \A s \in Sessions: Started(s) => result[s] # None
      BY <2>2 DEF AdapterStage, PipelineInv, StageIsAwaited
    <3>3. stage \notin Sessions
      BY <2>2, AutopilotAssumption DEF AdapterStage
    <3> QED BY <2>2, <3>1, <3>2, <3>3, AdvanceKeepsInv DEF AdapterStage, PipelineInv, Shape
  <2>3. CASE StartStage
    <3>1. /\ step = "stage" /\ stage \in Sessions /\ Start(stage) /\ step' = "register"
          /\ UNCHANGED <<stage, answer, sessions, toStop>>
      BY <2>3 DEF StartStage
    <3>2. result' = result /\ \A s \in Sessions: s # stage => pc'[s] = pc[s]
      BY <3>1 DEF Start, Goto, PipelineInv, LoopInv, TypeOK
    <3>3. StageIsAwaited'
      BY <3>1, <3>2 DEF PipelineInv, StageIsAwaited, Started
    <3> QED BY <3>1, <3>2, <3>3 DEF PipelineInv, Shape, InOrder
  <2>4. CASE RegisterStage
    BY <2>4 DEF RegisterStage, sessionVars, PipelineInv, Shape, StageIsAwaited, Started, InOrder
  <2>5. CASE StageCompletes
    <3>1. \A s \in Sessions: Started(s) => result[s] # None
      BY <2>5 DEF StageCompletes, Completed, PipelineInv, StageIsAwaited
    <3> QED BY <2>5, <3>1, AdvanceKeepsInv DEF StageCompletes, PipelineInv, Shape
  <2>6. CASE Cancel \/ CancelCompletes
    BY <2>6 DEF Cancel, CancelCompletes, sessionVars, PipelineInv, Shape, StageIsAwaited, Started, InOrder
  <2>7. CASE CancelStops
    <3>1. PICK s \in toStop: Stop(s) /\ toStop' = toStop \ {s}
      BY <2>7 DEF CancelStops
    <3> QED BY <2>7, <3>1, SessionsKeepInv DEF CancelStops, Control, PipelineInv, Shape
  <2>8. CASE Session
    BY <2>8, SessionsKeepInv DEF Session, pipelineVars, PipelineInv, Shape
  <2> QED BY <2>1, <2>2, <2>3, <2>4, <2>5, <2>6, <2>7, <2>8 DEF PipelineNext, Pipeline, Canceller
<1> QED BY <1>1, <1>2 DEF PipelineInv

THEOREM PipelineInvariant == PipelineSpec => []PipelineInv
BY InitPipelineInv, NextPipelineInv, PTL DEF PipelineSpec

(* The pipeline implements the specification of the sessions, so whatever is    *)
(* proved of them holds of its stages.                                          *)
THEOREM PipelineImplementsSessions == PipelineSpec => Spec
<1>1. PipelineInit => Init
  BY DEF PipelineInit
<1>2. PipelineInv /\ [PipelineNext]_vars => [Next]_sessionVars
  BY StepImplements DEF PipelineInv
<1> QED BY <1>1, <1>2, PipelineInvariant, PTL DEF PipelineSpec, Spec

(* Any started session without a result is the one the pipeline waits for. *)
THEOREM OneStageAtATime == PipelineSpec => []StageIsAwaited
BY PipelineInvariant, PTL DEF PipelineInv

(* A pipeline that answers Success has completed every stage. *)
THEOREM SuccessMeansComplete == PipelineSpec => []SuccessIsComplete
<1>1. PipelineInv => SuccessIsComplete
  BY DEF PipelineInv, InOrder, SuccessIsComplete
<1> QED BY <1>1, PipelineInvariant, PTL

================================================================================
