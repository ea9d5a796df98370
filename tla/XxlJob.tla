-------------------------------- MODULE XxlJob --------------------------------
(* The executor of plugins/xxljob: /run, /kill and /idleBeat requests of the     *)
(* scheduling centre under e.mu (executor.go), the goroutine of each run         *)
(* (task.go), the registration heartbeat, Stop, and the list of running tasks    *)
(* (task_list.go), whose operations are atomic.                                  *)
(*                                                                               *)
(* There is one Task object for each registered handler.  A request overwrites   *)
(* its fields, while the goroutines of earlier runs may still read them, so the  *)
(* model keeps the order of every write and read of a field.                     *)
EXTENDS Naturals, FiniteSets

CONSTANTS
    Runs,        \* /run requests of the scheduling centre, each with its own LogID
    Jobs,
    Handlers,
    HandlerOf,   \* HandlerOf[j]: the handler that job j names (ExecutorHandler)
    Covered,     \* the jobs that may be run with COVER_EARLY, not only with the others
    Killed,      \* the jobs that the scheduling centre sends /kill requests for
    NoRun, NoJob, NoTask

ASSUME XxlJobAssumption ==
    /\ HandlerOf \in [Jobs -> Handlers]
    /\ Covered \subseteq Jobs
    /\ Killed \subseteq Jobs
    /\ NoRun \notin Runs
    /\ NoJob \notin Jobs
    /\ NoTask \notin Handlers

VARIABLES
    job,        \* job[r]: the job of request r
    pc,         \* pc[r]: where request r, and later its goroutine, is
    arg,        \* arg[r]: the request whose parameters the goroutine hands to TaskFunc
    ext,        \* ext[r]: the request whose context it hands to TaskFunc
    panicked,   \* the runs whose TaskFunc has panicked
    cancelled,  \* the requests whose contexts are cancelled
    posted,     \* posted[l]: how many results the centre has got under the LogID of l
    task,       \* task[h]: the fields Id, Param and Ext (with Cancel) of the Task of h
    runList,    \* runList[j]: the Task listed as running for job j
    server,     \* the handler that holds e.mu: its step, run and job
    crashed,    \* a handler has dereferenced nil
    phase,      \* life cycle of the executor
    registered  \* the scheduling centre has the executor in its registry

requests == <<job, posted, panicked, arg, ext>>
life     == <<phase, registered>>
vars     == <<job, pc, arg, ext, panicked, cancelled, posted, task, runList,
              server, crashed, phase, registered>>

NoRequest == [at |-> "idle", run |-> NoRun, job |-> NoJob]

Init ==
    /\ job = [r \in Runs |-> NoJob]
    /\ pc = [r \in Runs |-> "none"]
    /\ arg = [r \in Runs |-> NoRun]
    /\ ext = [r \in Runs |-> NoRun]
    /\ panicked = {}
    /\ cancelled = {}
    /\ posted = [r \in Runs |-> 0]
    /\ task = [h \in Handlers |-> [id |-> NoJob, param |-> NoRun, ext |-> NoRun]]
    /\ runList = [j \in Jobs |-> NoTask]
    /\ server = NoRequest
    /\ crashed = FALSE
    /\ phase = "starting"
    /\ registered = FALSE

(* ExecutorBlockStrategy: "cover" is COVER_EARLY, "reject" stands for the others. *)
Strategies(j) == IF j \in Covered THEN {"cover", "reject"} ELSE {"reject"}

(* The Task that the goroutine of run r works on. *)
TaskOf(r) == HandlerOf[job[r]]

(* From the start of the goroutine until it has left the list. *)
Going == {"launched", "starting", "executing", "delisting"}

Del(j) == [runList EXCEPT ![j] = NoTask]

-------------------------------------------------------------------------------
(* /run.  The first step takes e.mu and looks for the job in the list.         *)

Refuse(r, j) ==
    /\ job' = [job EXCEPT ![r] = j]
    /\ pc' = [pc EXCEPT ![r] = "rejected"]
    /\ UNCHANGED <<server, arg, ext, posted, panicked>>

Begin(r, j, at) ==
    /\ job' = [job EXCEPT ![r] = j]
    /\ pc' = [pc EXCEPT ![r] = "accepting"]
    /\ server' = [at |-> at, run |-> r, job |-> j]
    /\ UNCHANGED <<arg, ext, posted, panicked>>

(* Mutant: whether the job runs already is not looked at. *)
RunRequestUnchecked(r, j, strategy) ==
    /\ phase \in {"serving", "removed"}
    /\ server = NoRequest
    /\ pc[r] = "none"
    /\ Begin(r, j, "write")
    /\ UNCHANGED <<cancelled, task, runList, crashed, life>>

RunRequest(r, j, strategy) ==
    /\ phase \in {"serving", "removed"}
    /\ server = NoRequest
    /\ pc[r] = "none"
    /\ IF runList[j] = NoTask THEN Begin(r, j, "write")
       ELSE IF strategy = "cover" THEN Begin(r, j, "cover")
       ELSE Refuse(r, j)
    /\ UNCHANGED <<cancelled, task, runList, crashed, life>>

(* COVER_EARLY: cancel the listed Task and delete its entry, unless a callback *)
(* has deleted it meanwhile.                                                   *)
Cover ==
    /\ server.at = "cover"
    /\ LET old == runList[server.job] IN
       IF old = NoTask THEN UNCHANGED <<cancelled, runList>>
       ELSE /\ cancelled' = cancelled \cup {task[old].ext}
            /\ runList' = Del(task[old].id)
    /\ server' = [server EXCEPT !.at = "write"]
    /\ UNCHANGED <<requests, pc, task, crashed, life>>

(* task.Ext and task.Cancel, then task.Id and task.Param, then the entry in    *)
(* the list and the goroutine.                                                 *)
WriteContext ==
    /\ server.at = "write"
    /\ task' = [task EXCEPT ![HandlerOf[server.job]].ext = server.run]
    /\ server' = [server EXCEPT !.at = "fields"]
    /\ UNCHANGED <<requests, pc, cancelled, runList, crashed, life>>

WriteFields ==
    /\ server.at = "fields"
    /\ task' = [task EXCEPT ![HandlerOf[server.job]].id = server.job,
                            ![HandlerOf[server.job]].param = server.run]
    /\ server' = [server EXCEPT !.at = "list"]
    /\ UNCHANGED <<requests, pc, cancelled, runList, crashed, life>>

(* Mutant: the goroutine is started and the entry forgotten. *)
LaunchUnlisted ==
    /\ server.at = "list"
    /\ pc' = [pc EXCEPT ![server.run] = "launched"]
    /\ server' = NoRequest
    /\ UNCHANGED <<requests, cancelled, task, runList, crashed, life>>

Launch ==
    /\ server.at = "list"
    /\ runList' = [runList EXCEPT ![server.job] = HandlerOf[server.job]]
    /\ pc' = [pc EXCEPT ![server.run] = "launched"]
    /\ server' = NoRequest
    /\ UNCHANGED <<requests, cancelled, task, crashed, life>>

(* /kill: an Exists, then a Get whose result is used unchecked. *)
KillRequest(j) ==
    /\ j \in Killed
    /\ phase \in {"serving", "removed"}
    /\ server = NoRequest
    /\ runList[j] # NoTask
    /\ server' = [at |-> "kill", run |-> NoRun, job |-> j]
    /\ UNCHANGED <<requests, pc, cancelled, task, runList, crashed, life>>

Kill ==
    /\ server.at = "kill"
    /\ LET old == runList[server.job] IN
       IF old = NoTask THEN crashed' = TRUE /\ UNCHANGED <<cancelled, runList>>
       ELSE /\ cancelled' = cancelled \cup {task[old].ext}
            /\ runList' = Del(server.job)
            /\ UNCHANGED crashed
    /\ server' = NoRequest
    /\ UNCHANGED <<requests, pc, task, life>>

(* /idleBeat says whether the job is idle. *)
IdleBeat(j) == runList[j] = NoTask

-------------------------------------------------------------------------------
(* Task.Run in a goroutine of its own, without e.mu. *)

(* Mutant: the entry goes when the run starts. *)
ReadContextDelists(r) ==
    /\ pc[r] = "launched"
    /\ ext' = [ext EXCEPT ![r] = task[TaskOf(r)].ext]
    /\ pc' = [pc EXCEPT ![r] = "starting"]
    /\ runList' = Del(task[TaskOf(r)].id)
    /\ UNCHANGED <<job, arg, panicked, posted, cancelled, task, server, crashed, life>>

ReadContext(r) ==
    /\ pc[r] = "launched"
    /\ ext' = [ext EXCEPT ![r] = task[TaskOf(r)].ext]
    /\ pc' = [pc EXCEPT ![r] = "starting"]
    /\ UNCHANGED <<job, arg, panicked, posted, cancelled, task, runList, server, crashed, life>>

Execute(r) ==
    /\ pc[r] = "starting"
    /\ arg' = [arg EXCEPT ![r] = task[TaskOf(r)].param]
    /\ pc' = [pc EXCEPT ![r] = "executing"]
    /\ UNCHANGED <<job, ext, panicked, posted, cancelled, task, runList, server, crashed, life>>

(* TaskFunc is the user's: it may return at any time, whether cancelled or not. *)
Return(r) ==
    /\ pc[r] = "executing"
    /\ pc' = [pc EXCEPT ![r] = "delisting"]
    /\ UNCHANGED <<requests, cancelled, task, runList, server, crashed, life>>

(* Mutant: a panic ends the goroutine without a callback. *)
PanicUnhandled(r) ==
    /\ pc[r] = "executing"
    /\ pc' = [pc EXCEPT ![r] = "crashed"]
    /\ panicked' = panicked \cup {r}
    /\ UNCHANGED <<job, arg, ext, posted, cancelled, task, runList, server, crashed, life>>

Panic(r) ==
    /\ pc[r] = "executing"
    /\ pc' = [pc EXCEPT ![r] = "delisting"]
    /\ panicked' = panicked \cup {r}
    /\ UNCHANGED <<job, arg, ext, posted, cancelled, task, runList, server, crashed, life>>

(* ExecutorTimeout: the context of a request cancels itself. *)
Expire(r) ==
    /\ pc[r] \in Going
    /\ r \notin cancelled
    /\ cancelled' = cancelled \cup {r}
    /\ UNCHANGED <<requests, pc, task, runList, server, crashed, life>>

(* Mutant: the entry stays after a panic. *)
DelistReturned(r) ==
    /\ pc[r] = "delisting"
    /\ runList' = IF r \in panicked THEN runList ELSE Del(task[TaskOf(r)].id)
    /\ pc' = [pc EXCEPT ![r] = "posting"]
    /\ UNCHANGED <<requests, cancelled, task, server, crashed, life>>

(* callback: delete the entry of the job that the Task names now, then post    *)
(* under the LogID of the request that it names then.                          *)
Delist(r) ==
    /\ pc[r] = "delisting"
    /\ runList' = Del(task[TaskOf(r)].id)
    /\ pc' = [pc EXCEPT ![r] = "posting"]
    /\ UNCHANGED <<requests, cancelled, task, server, crashed, life>>

(* A post that fails is logged and not made again. *)
Post(r) ==
    /\ pc[r] = "posting"
    /\ \/ posted' = [posted EXCEPT ![task[TaskOf(r)].param] = @ + 1]
       \/ UNCHANGED posted
    /\ pc' = [pc EXCEPT ![r] = IF r \in panicked THEN "releasing" ELSE "done"]
    /\ UNCHANGED <<job, arg, ext, panicked, cancelled, task, runList, server, crashed, life>>

(* The deferred function calls the Cancel that it was given at the start. *)
Release(r) ==
    /\ pc[r] = "releasing"
    /\ cancelled' = cancelled \cup {ext[r]}
    /\ pc' = [pc EXCEPT ![r] = "done"]
    /\ UNCHANGED <<requests, task, runList, server, crashed, life>>

-------------------------------------------------------------------------------
(* Life cycle.  The registry goroutine starts before the server listens and    *)
(* has no end; Stop posts registryRemove and then shuts the server down, which *)
(* waits for requests but not for tasks.                                       *)

Listen ==
    /\ phase = "starting"
    /\ phase' = "serving"
    /\ UNCHANGED <<requests, pc, cancelled, task, runList, server, crashed, registered>>

Registry ==
    /\ ~registered
    /\ registered' = TRUE
    /\ UNCHANGED <<requests, pc, cancelled, task, runList, server, crashed, phase>>

RegistryRemove ==
    /\ phase = "serving"
    /\ phase' = "removed"
    /\ registered' = FALSE
    /\ UNCHANGED <<requests, pc, cancelled, task, runList, server, crashed>>

Shutdown ==
    /\ phase = "removed"
    /\ server = NoRequest
    /\ phase' = "stopped"
    /\ UNCHANGED <<requests, pc, cancelled, task, runList, server, crashed, registered>>

(* The scheduling centre loses its registry (external). *)
AdminForgets ==
    /\ registered
    /\ registered' = FALSE
    /\ UNCHANGED <<requests, pc, cancelled, task, runList, server, crashed, phase>>

-------------------------------------------------------------------------------
Request ==
    \/ \E r \in Runs, j \in Jobs : \E s \in Strategies(j) : RunRequest(r, j, s)
    \/ \E j \in Jobs : KillRequest(j)

Serve == Cover \/ WriteContext \/ WriteFields \/ Launch \/ Kill

Run(r) ==
    \/ ReadContext(r) \/ Execute(r) \/ Return(r) \/ Panic(r)
    \/ Delist(r) \/ Post(r) \/ Release(r)

Next ==
    \/ Request \/ Serve
    \/ \E r \in Runs : Run(r) \/ Expire(r)
    \/ Listen \/ Registry \/ RegistryRemove \/ Shutdown \/ AdminForgets

Spec == Init /\ [][Next]_vars

(* Handlers run to their end, every TaskFunc returns, and the registry timer   *)
(* fires every 20 seconds.                                                     *)
FairSpec ==
    /\ Spec
    /\ WF_vars(Serve)
    /\ \A r \in Runs : WF_vars(Run(r))
    /\ WF_vars(Listen) /\ WF_vars(Registry)

-------------------------------------------------------------------------------
TypeOK ==
    /\ job \in [Runs -> Jobs \cup {NoJob}]
    /\ pc \in [Runs -> Going \cup {"none", "accepting", "rejected", "posting",
                                   "releasing", "done"}]
    /\ arg \in [Runs -> Runs \cup {NoRun}]
    /\ ext \in [Runs -> Runs \cup {NoRun}]
    /\ panicked \subseteq Runs
    /\ cancelled \subseteq Runs
    /\ posted \in [Runs -> Nat]
    /\ task \in [Handlers -> [id : Jobs \cup {NoJob}, param : Runs \cup {NoRun},
                              ext : Runs \cup {NoRun}]]
    /\ runList \in [Jobs -> Handlers \cup {NoTask}]
    /\ server \in [at : {"idle", "cover", "write", "fields", "list", "kill"},
                   run : Runs \cup {NoRun}, job : Jobs \cup {NoJob}]
    /\ crashed \in BOOLEAN
    /\ phase \in {"starting", "serving", "removed", "stopped"}
    /\ registered \in BOOLEAN

(* A job that names a handler of its own, and so has a Task of its own. *)
OwnHandler(j) == \A k \in Jobs : HandlerOf[k] = HandlerOf[j] => k = j

(* Such a job whose runs nobody kills or covers. *)
Calm(j) == j \in Jobs \ (Covered \cup Killed) /\ OwnHandler(j)

(* The block strategy: a calm job has at most one run that is going on,        *)
(* whatever is done to the runs of other jobs.                                 *)
OneRunPerJob ==
    \A r, q \in Runs :
        r # q /\ pc[r] \in Going /\ pc[q] \in Going /\ Calm(job[r]) => job[r] # job[q]

(* With kills and COVER_EARLY, at most one that has not been cancelled. *)
OneLiveRunPerJob ==
    \A r, q \in Runs \ cancelled :
        r # q /\ pc[r] \in Going /\ pc[q] \in Going => job[r] # job[q]

(* idleBeat does not call a calm job idle that has a run going on, and so no   *)
(* request is accepted beside it: no callback, kill or cover of another job     *)
(* takes its entry.                                                            *)
IdleBeatIsTrue ==
    \A r \in Runs : pc[r] \in Going /\ Calm(job[r]) => ~IdleBeat(job[r])

(* An entry of the list stands for a run that will remove it: no job with a    *)
(* handler of its own is busy for ever, whoever kills or covers its runs.      *)
NoStuckJob ==
    \A j \in Jobs :
        OwnHandler(j) /\ ~IdleBeat(j) => \E r \in Runs : job[r] = j /\ pc[r] \in Going

(* Although all runs of a handler share one Task, TaskFunc of a calm job gets  *)
(* the parameters and the context of the request it runs for.                  *)
OwnArguments ==
    \A r \in Runs : pc[r] = "executing" /\ Calm(job[r]) => arg[r] = r /\ ext[r] = r

(* No request has two results, and none has a result without having run. *)
OneResultPerRequest ==
    \A r \in Runs : posted[r] <= IF pc[r] \in {"releasing", "done"} THEN 1 ELSE 0

(* Every run that has been started comes to its callback and to its end, one   *)
(* that panics or that is killed or covered as well.  (Whether the centre gets *)
(* the result depends on the post.)                                            *)
EveryRunCallsBack ==
    \A r \in Runs : pc[r] = "launched" ~> pc[r] = "done"

(* /kill always answers. *)
KillAnswers == ~crashed

(* Stop takes the executor out of the registry. *)
StaysRemoved == phase = "stopped" => ~registered

(* The heartbeat brings a serving executor back into a registry that lost it. *)
HeartbeatRegisters == phase = "serving" ~> (registered \/ phase # "serving")

-------------------------------------------------------------------------------
(* Invariants that the proofs rest on. *)

Busy == {"cover", "write", "fields", "list"}

(* A request is served for a run and a job of its own. *)
ServedIsNamed ==
    /\ server.at = "idle" => server = NoRequest
    /\ server.at \in Busy => /\ server.run \in Runs /\ server.job \in Jobs
                             /\ pc[server.run] = "accepting"
                             /\ job[server.run] = server.job
    /\ server.at = "kill" => server.job \in Jobs

(* A Task that is listed or worked on has a context, and so has its run. *)
ContextsExist ==
    /\ server.at \in {"fields", "list"} => task[HandlerOf[server.job]].ext \in Runs
    /\ \A j \in Jobs : runList[j] # NoTask => task[runList[j]].ext \in Runs
    /\ \A r \in Runs : pc[r] \in Going \cup {"accepting", "posting", "releasing"} =>
          job[r] \in Jobs
    /\ \A r \in Runs : pc[r] \in Going => task[TaskOf(r)].ext \in Runs
    /\ \A r \in Runs : pc[r] \in {"starting", "executing", "delisting", "posting", "releasing"} =>
          ext[r] \in Runs

(* A Task bears the name of a job of its handler, and is listed under such. *)
TaskIsOfHandler ==
    /\ \A h \in Handlers : task[h].id # NoJob => HandlerOf[task[h].id] = h
    /\ \A j \in Jobs : runList[j] \in {NoTask, HandlerOf[j]}

(* The Task of a run bears the name of its job until the run deletes the entry *)
(* of that name, unless the job shares its handler.                            *)
TaskIsNamed ==
    /\ \A r \in Runs : pc[r] \in Going /\ OwnHandler(job[r]) => task[TaskOf(r)].id = job[r]
    /\ server.at = "list" => task[HandlerOf[server.job]].id = server.job

(* A run of a calm job is listed, and a request that is being served for a     *)
(* calm job found no entry.                                                    *)
ListIsTrue ==
    /\ server.at \in {"cover", "kill"} => ~Calm(server.job)
    /\ \A r \in Runs : pc[r] \in Going /\ Calm(job[r]) => runList[job[r]] # NoTask
    /\ server.at \in Busy /\ Calm(server.job) => runList[server.job] = NoTask

(* Its Task bears the fields of the run that works on it, and of the request   *)
(* that is being served as far as that has come.                               *)
TaskIsOwn ==
    /\ \A r \in Runs : pc[r] \in Going /\ Calm(job[r]) =>
          task[TaskOf(r)] = [id |-> job[r], param |-> r, ext |-> r]
    /\ server.at \in {"fields", "list"} => task[HandlerOf[server.job]].ext = server.run
    /\ server.at = "list" => task[HandlerOf[server.job]].param = server.run

(* A run of it has read the fields of its own request. *)
ReadOwn ==
    \A r \in Runs :
        Calm(job[r]) => /\ pc[r] \in {"starting", "executing"} => ext[r] = r
                        /\ pc[r] = "executing" => arg[r] = r

TypeInv == TypeOK /\ ServedIsNamed /\ ContextsExist /\ TaskIsOfHandler
ListInv == NoStuckJob /\ TaskIsNamed
CalmInv == OneRunPerJob /\ ListIsTrue /\ TaskIsOwn /\ ReadOwn
===============================================================================
