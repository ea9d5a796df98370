------------------------------- MODULE Autopilot -------------------------------
(* A pipeline of ai/loop/autopilot.go over the sessions of the loop engine: one  *)
(* goroutine runs StartPipeline through its stages, each an adapter or a session *)
(* it waits for, while others call CancelPipeline, or pause, resume and stop the *)
(* session of a stage through the engine.  The tracking record, which Status and *)
(* Summary show and no step reads, is left out.                                  *)
EXTENDS LoopSession

CONSTANTS
    LastStage,  \* the enabled stages are 1..LastStage, in this order
    Adapted     \* those with an adapter; a session runs each of the others

Stages == 1..LastStage

ASSUME AutopilotAssumption ==
    /\ LastStage \in Nat \ {0}
    /\ Adapted \subseteq Stages
    /\ Sessions = Stages \ Adapted

VARIABLES
    stage,      \* the stage that StartPipeline is at
    step,       \* and what it does there
    answer,     \* PipelineResult: "running", "ok" or "failed"
    sessions,   \* a.sessions[SessionID], the stages whose session is registered
    cancel,     \* where CancelPipeline is: "idle" or "stopping"
    toStop      \* its stageSessions

pipelineVars == <<stage, step, answer, sessions, cancel, toStop>>
vars == <<sessionVars, pipelineVars>>

PipelineInit ==
    /\ Init
    /\ stage = 1
    /\ step = "stage"
    /\ answer = "running"
    /\ sessions = {}
    /\ cancel = "idle"
    /\ toStop = {}

--------------------------------------------------------------------------------
(* StartPipeline. *)

Return(a) ==
    /\ answer' = a
    /\ step' = "returned"
    /\ UNCHANGED <<stage, sessions>>

(* A stage has ended: on to the next one, or to the end of the pipeline. *)
Advance(success) ==
    IF ~success THEN Return("failed")
    ELSE IF stage = LastStage THEN Return("ok")
    ELSE /\ stage' = stage + 1
         /\ step' = "stage"
         /\ UNCHANGED <<answer, sessions>>

(* The adapter of the stage answers or fails. *)
AdapterStage ==
    /\ step = "stage"
    /\ stage \in Adapted
    /\ \E success \in BOOLEAN: Advance(success)
    /\ UNCHANGED <<sessionVars, cancel, toStop>>

(* executeStageWithEngine: the session is started first ... *)
StartStage ==
    /\ step = "stage"
    /\ stage \in Sessions
    /\ Start(stage)
    /\ step' = "register"
    /\ UNCHANGED <<stage, answer, sessions, cancel, toStop>>

(* ... and then entered where CancelPipeline finds it. *)
RegisterStage ==
    /\ step = "register"
    /\ sessions' = sessions \cup {stage}
    /\ step' = "wait"
    /\ UNCHANGED <<sessionVars, stage, answer, cancel, toStop>>

(* WaitForCompletion returns. *)
StageCompletes ==
    /\ step = "wait"
    /\ Completed(stage)
    /\ Advance(result[stage] = "COMPLETED")
    /\ UNCHANGED <<sessionVars, cancel, toStop>>

--------------------------------------------------------------------------------
(* CancelPipeline, which any goroutine may call at any time. *)

Cancel ==
    /\ cancel = "idle"
    /\ cancel' = "stopping"
    /\ toStop' = sessions
    /\ sessions' = {}
    /\ UNCHANGED <<sessionVars, stage, step, answer>>

CancelStops ==
    /\ cancel = "stopping"
    /\ \E s \in toStop: Stop(s) /\ toStop' = toStop \ {s}
    /\ UNCHANGED <<stage, step, answer, sessions, cancel>>

CancelCompletes ==
    /\ cancel = "stopping"
    /\ toStop = {}
    /\ cancel' = "idle"
    /\ UNCHANGED <<sessionVars, stage, step, answer, sessions, toStop>>

--------------------------------------------------------------------------------
(* The engine's callers and the goroutines of its sessions. *)
Session ==
    /\ \E s \in Sessions: Execute(s) \/ Control(s)
    /\ UNCHANGED pipelineVars

Pipeline == AdapterStage \/ StartStage \/ RegisterStage \/ StageCompletes
Canceller == Cancel \/ CancelStops \/ CancelCompletes

PipelineNext == Pipeline \/ Canceller \/ Session

PipelineSpec == PipelineInit /\ [][PipelineNext]_vars

(* Go runs every goroutine that can run: the pipeline's, and one per session. *)
PipelineFairSpec ==
    /\ PipelineSpec
    /\ WF_vars(Pipeline)
    /\ \A s \in Sessions: WF_vars(Execute(s) /\ UNCHANGED pipelineVars)

--------------------------------------------------------------------------------
(* Properties. *)

PipelineTypeOK ==
    /\ TypeOK
    /\ stage \in Stages
    /\ step \in {"stage", "register", "wait", "returned"}
    /\ answer \in {"running", "ok", "failed"}
    /\ sessions \subseteq Sessions
    /\ cancel \in {"idle", "stopping"}
    /\ toStop \subseteq Sessions

(* The pipeline never walks away from a stage: a session without a result is   *)
(* the one it waits for, so two stages never work at once and none is left      *)
(* running behind a pipeline that has returned, whatever is cancelled, stopped  *)
(* or paused.                                                                   *)
StageIsAwaited ==
    \A s \in Sessions: Started(s) /\ result[s] = None => stage = s /\ step \in {"register", "wait"}

(* A pipeline that answers Success has completed every stage. *)
SuccessIsComplete == answer = "ok" => \A s \in Sessions: result[s] = "COMPLETED"

(* A pipeline whose stages nobody stops or pauses for ever returns. *)
PipelineReturns ==
    (\A s \in Sessions: []~stopped[s] /\ <>[]~paused[s]) => <>(answer # "running")

================================================================================
