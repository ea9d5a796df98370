----------------------------- MODULE XxlJobProofs -----------------------------
(* Proofs about XxlJob: type correctness for any requests, jobs, handlers and  *)
(* block strategies; that no job with a handler of its own stays busy; and     *)
(* that such a job has one run at a time, with its own arguments, when nobody  *)
(* kills or covers its runs, whatever is done to the runs of other jobs.       *)
EXTENDS XxlJob, TLAPS

(* Writing a field of a Task keeps the types of its fields. *)
LEMMA WriteTyped ==
    ASSUME NEW A, NEW I, NEW P, NEW E, NEW t \in [A -> [id : I, param : P, ext : E]],
           NEW a \in A, NEW e \in E
    PROVE  [t EXCEPT ![a].ext = e] \in [A -> [id : I, param : P, ext : E]]
  OBVIOUS

(* So does counting a result, under the LogID of no request as well. *)
LEMMA CountTyped ==
    ASSUME NEW A, NEW n \in [A -> Nat], NEW x
    PROVE  [n EXCEPT ![x] = @ + 1] \in [A -> Nat]
<1>1. CASE x \in A
  BY <1>1
<1>2. CASE x \notin A
  BY <1>2
<1> QED
  BY <1>1, <1>2

(* A state that only the life cycle has left keeps its invariants. *)
LEMMA TypeInvStutters ==
    ASSUME TypeInv, UNCHANGED <<requests, pc, cancelled, task, runList, server>>,
           crashed' \in BOOLEAN, phase' \in {"starting", "serving", "removed", "stopped"},
           registered' \in BOOLEAN
    PROVE  TypeInv'
  BY DEF TypeInv, TypeOK, ServedIsNamed, ContextsExist, TaskIsOfHandler, requests, Going, Busy,
         TaskOf, NoRequest

(* The invariant of the types holds initially. *)
LEMMA InitTypeInv == Init => TypeInv
<1> SUFFICES ASSUME Init PROVE TypeInv
  OBVIOUS
<1> USE XxlJobAssumption DEF Init, Going, Busy, NoRequest
<1>1. TypeOK
  <2>1. task \in [Handlers -> [id : Jobs \cup {NoJob}, param : Runs \cup {NoRun},
                                ext : Runs \cup {NoRun}]]
    OBVIOUS
  <2>2. posted \in [Runs -> Nat]
    OBVIOUS
  <2> QED
    BY <2>1, <2>2 DEF TypeOK
<1>2. ServedIsNamed /\ ContextsExist /\ TaskIsOfHandler
  BY DEF ServedIsNamed, ContextsExist, TaskIsOfHandler
<1> QED
  BY <1>1, <1>2 DEF TypeInv

-------------------------------------------------------------------------------
(* Every action preserves TypeInv: the types, then who is served, then the     *)
(* contexts.                                                                   *)

(* A request is accepted or refused for a run that has none yet. *)
LEMMA RunRequestKeepsTypeInv ==
    ASSUME TypeInv, NEW r \in Runs, NEW j \in Jobs, NEW s \in Strategies(j), RunRequest(r, j, s)
    PROVE  TypeInv'
<1> USE XxlJobAssumption
    DEF TypeInv, TypeOK, ServedIsNamed, ContextsExist, TaskIsOfHandler, Going, Busy, TaskOf,
                RunRequest, Begin, Refuse, life, NoRequest
<1>1. TypeOK'
  OBVIOUS
<1>2. ServedIsNamed'
  OBVIOUS
<1>3. ContextsExist' /\ TaskIsOfHandler'
  OBVIOUS
<1> QED
  BY <1>1, <1>2, <1>3

(* A kill names a job. *)
LEMMA KillRequestKeepsTypeInv ==
    ASSUME TypeInv, NEW j \in Jobs, KillRequest(j)
    PROVE  TypeInv'
<1> USE XxlJobAssumption
    DEF TypeInv, TypeOK, ServedIsNamed, ContextsExist, TaskIsOfHandler, Going, Busy, TaskOf,
                KillRequest, requests, life, NoRequest
<1>1. TypeOK'
  OBVIOUS
<1>2. ServedIsNamed'
  OBVIOUS
<1>3. ContextsExist' /\ TaskIsOfHandler'
  OBVIOUS
<1> QED
  BY <1>1, <1>2, <1>3

(* A listed Task has a context to cancel. *)
LEMMA CoverKeepsTypeInv ==
    ASSUME TypeInv, Cover
    PROVE  TypeInv'
<1> USE XxlJobAssumption
    DEF TypeInv, TypeOK, ServedIsNamed, ContextsExist, TaskIsOfHandler, Going, Busy, TaskOf,
                Cover, Del, requests, life
<1>1. TypeOK'
  OBVIOUS
<1>2. ServedIsNamed'
  OBVIOUS
<1>3. ContextsExist' /\ TaskIsOfHandler'
  OBVIOUS
<1> QED
  BY <1>1, <1>2, <1>3

(* The context is that of the request. *)
LEMMA WriteContextKeepsTypeInv ==
    ASSUME TypeInv, WriteContext
    PROVE  TypeInv'
<1> USE XxlJobAssumption
    DEF TypeInv, TypeOK, ServedIsNamed, ContextsExist, TaskIsOfHandler, Going, Busy, TaskOf,
                WriteContext, requests, life
<1>1. TypeOK'
  <2>1. server.at = "write" /\ server.run \in Runs /\ server.job \in Jobs
    OBVIOUS
  <2>2. task' \in [Handlers -> [id : Jobs \cup {NoJob}, param : Runs \cup {NoRun},
                                 ext : Runs \cup {NoRun}]]
    <3> HIDE DEF TypeInv, ServedIsNamed, ContextsExist, TaskIsOfHandler, Going, Busy, TaskOf
    <3>1. HandlerOf[server.job] \in Handlers /\ server.run \in Runs \cup {NoRun}
      BY <2>1
    <3>2. task' = [task EXCEPT ![HandlerOf[server.job]].ext = server.run]
      OBVIOUS
    <3>3. task \in [Handlers -> [id : Jobs \cup {NoJob}, param : Runs \cup {NoRun},
                                ext : Runs \cup {NoRun}]]
      BY DEF TypeInv
    <3> QED
      BY ONLY <3>1, <3>2, <3>3, WriteTyped
  <2>3. server' \in [at : {"idle", "cover", "write", "fields", "list", "kill"},
                      run : Runs \cup {NoRun}, job : Jobs \cup {NoJob}]
    OBVIOUS
  <2> QED
    BY <2>2, <2>3
<1>2. ServedIsNamed'
  OBVIOUS
<1>3. ContextsExist' /\ TaskIsOfHandler'
  OBVIOUS
<1> QED
  BY <1>1, <1>2, <1>3

(* The fields are those of the request; the context stays. *)
LEMMA WriteFieldsKeepsTypeInv ==
    ASSUME TypeInv, WriteFields
    PROVE  TypeInv'
<1> USE XxlJobAssumption
    DEF TypeInv, TypeOK, ServedIsNamed, ContextsExist, TaskIsOfHandler, Going, Busy, TaskOf,
                WriteFields, requests, life
<1>1. TypeOK'
  OBVIOUS
<1>2. ServedIsNamed'
  OBVIOUS
<1>3. ContextsExist' /\ TaskIsOfHandler'
  OBVIOUS
<1> QED
  BY <1>1, <1>2, <1>3

(* The Task that is listed has been written. *)
LEMMA LaunchKeepsTypeInv ==
    ASSUME TypeInv, Launch
    PROVE  TypeInv'
<1> USE XxlJobAssumption
    DEF TypeInv, TypeOK, ServedIsNamed, ContextsExist, TaskIsOfHandler, Going, Busy, TaskOf,
                Launch, requests, life, NoRequest
<1>1. TypeOK'
  OBVIOUS
<1>2. ServedIsNamed'
  OBVIOUS
<1>3. ContextsExist' /\ TaskIsOfHandler'
  OBVIOUS
<1> QED
  BY <1>1, <1>2, <1>3

(* A listed Task has a context to cancel. *)
LEMMA KillKeepsTypeInv ==
    ASSUME TypeInv, Kill
    PROVE  TypeInv'
<1> USE XxlJobAssumption
    DEF TypeInv, TypeOK, ServedIsNamed, ContextsExist, TaskIsOfHandler, Going, Busy, TaskOf,
                Kill, Del, requests, life, NoRequest
<1>1. TypeOK'
  <2>1. cancelled' \subseteq Runs
    BY DEF TypeInv
  <2>2. runList' \in [Jobs -> Handlers \cup {NoTask}] /\ crashed' \in BOOLEAN
    OBVIOUS
  <2>3. server' \in [at : {"idle", "cover", "write", "fields", "list", "kill"},
                      run : Runs \cup {NoRun}, job : Jobs \cup {NoJob}]
    OBVIOUS
  <2> QED
    BY <2>1, <2>2, <2>3
<1>2. ServedIsNamed'
  OBVIOUS
<1>3. ContextsExist' /\ TaskIsOfHandler'
  OBVIOUS
<1> QED
  BY <1>1, <1>2, <1>3

(* A run goes on with the context that its Task had. *)
LEMMA RunKeepsTypeInv ==
    ASSUME TypeInv, NEW r \in Runs, Run(r) \/ Expire(r)
    PROVE  TypeInv'
<1> USE XxlJobAssumption
    DEF TypeInv, TypeOK, ServedIsNamed, ContextsExist, TaskIsOfHandler, Going, Busy, TaskOf,
                Del, requests, life
<1>1. CASE ReadContext(r)
  <2>1. TypeOK'
    BY <1>1 DEF ReadContext
  <2>2. ServedIsNamed'
    BY <1>1 DEF ReadContext
  <2>3. ContextsExist' /\ TaskIsOfHandler'
    BY <1>1 DEF ReadContext
  <2> QED
    BY <2>1, <2>2, <2>3
<1>2. CASE Execute(r)
  <2>1. TypeOK'
    BY <1>2 DEF Execute
  <2>2. ServedIsNamed'
    BY <1>2 DEF Execute
  <2>3. ContextsExist' /\ TaskIsOfHandler'
    BY <1>2 DEF Execute
  <2> QED
    BY <2>1, <2>2, <2>3
<1>3. CASE Return(r)
  <2>1. TypeOK'
    BY <1>3 DEF Return
  <2>2. ServedIsNamed'
    BY <1>3 DEF Return
  <2>3. ContextsExist' /\ TaskIsOfHandler'
    BY <1>3 DEF Return
  <2> QED
    BY <2>1, <2>2, <2>3
<1>4. CASE Panic(r)
  <2>1. TypeOK'
    BY <1>4 DEF Panic
  <2>2. ServedIsNamed'
    BY <1>4 DEF Panic
  <2>3. ContextsExist' /\ TaskIsOfHandler'
    BY <1>4 DEF Panic
  <2> QED
    BY <2>1, <2>2, <2>3
<1>5. CASE Delist(r)
  <2>1. TypeOK'
    BY <1>5 DEF Delist
  <2>2. ServedIsNamed'
    BY <1>5 DEF Delist
  <2>3. ContextsExist' /\ TaskIsOfHandler'
    BY <1>5 DEF Delist
  <2> QED
    BY <2>1, <2>2, <2>3
<1>6. CASE Post(r)
  <2>1. TypeOK'
    <3>1. /\ posted \in [Runs -> Nat]
          /\ posted' \in {posted, [posted EXCEPT ![task[TaskOf(r)].param] = @ + 1]}
      BY <1>6 DEF Post
    <3>2. posted' \in [Runs -> Nat]
      BY ONLY <3>1, CountTyped
    <3>3. pc' \in [Runs -> Going \cup {"none", "accepting", "rejected", "posting",
                                   "releasing", "done"}]
      BY <1>6 DEF Post
    <3> QED
      BY <1>6, <3>2, <3>3 DEF Post
  <2>2. ServedIsNamed'
    BY <1>6 DEF Post
  <2>3. ContextsExist' /\ TaskIsOfHandler'
    BY <1>6 DEF Post
  <2> QED
    BY <2>1, <2>2, <2>3
<1>7. CASE Release(r)
  <2>1. TypeOK'
    BY <1>7 DEF Release
  <2>2. ServedIsNamed'
    BY <1>7 DEF Release
  <2>3. ContextsExist' /\ TaskIsOfHandler'
    BY <1>7 DEF Release
  <2> QED
    BY <2>1, <2>2, <2>3
<1>8. CASE Expire(r)
  <2>1. TypeOK'
    BY <1>8 DEF Expire
  <2>2. ServedIsNamed'
    BY <1>8 DEF Expire
  <2>3. ContextsExist' /\ TaskIsOfHandler'
    BY <1>8 DEF Expire
  <2> QED
    BY <2>1, <2>2, <2>3
<1> QED
  BY <1>1, <1>2, <1>3, <1>4, <1>5, <1>6, <1>7, <1>8 DEF Run

(* Every step preserves TypeInv. *)
LEMMA NextTypeInv == TypeInv /\ [Next]_vars => TypeInv'
<1> SUFFICES ASSUME TypeInv, [Next]_vars PROVE TypeInv'
  OBVIOUS
<1>1. CASE Request
  BY <1>1, RunRequestKeepsTypeInv, KillRequestKeepsTypeInv DEF Request
<1>2. CASE Serve
  BY <1>2, CoverKeepsTypeInv, WriteContextKeepsTypeInv, WriteFieldsKeepsTypeInv,
     LaunchKeepsTypeInv, KillKeepsTypeInv DEF Serve
<1>3. CASE \E r \in Runs : Run(r) \/ Expire(r)
  BY <1>3, RunKeepsTypeInv
<1>4. CASE Listen \/ Registry \/ RegistryRemove \/ Shutdown \/ AdminForgets
  <2>1. UNCHANGED <<requests, pc, cancelled, task, runList, server>> /\ crashed' = crashed
    BY <1>4 DEF Listen, Registry, RegistryRemove, Shutdown, AdminForgets
  <2>2. /\ phase' \in {"starting", "serving", "removed", "stopped"}
        /\ registered' \in BOOLEAN
    BY <1>4 DEF Listen, Registry, RegistryRemove, Shutdown, AdminForgets, TypeInv, TypeOK
  <2> QED
    BY <2>1, <2>2, TypeInvStutters DEF TypeInv, TypeOK
<1>5. CASE UNCHANGED vars
  BY <1>5, TypeInvStutters DEF vars, requests, TypeInv, TypeOK
<1> QED
  BY <1>1, <1>2, <1>3, <1>4, <1>5 DEF Next

(* Type correctness of the executor under every block strategy and with kills: *)
(* in particular nobody cancels a context that does not exist.                 *)
THEOREM TypeCorrect == Spec => []TypeOK
<1>1. Spec => []TypeInv
  BY InitTypeInv, NextTypeInv, PTL DEF Spec
<1> QED
  BY <1>1, PTL DEF TypeInv
-------------------------------------------------------------------------------
(* No job with a handler of its own stays busy: a run deletes the entry of the *)
(* name that its Task bears, and that is its own job's.                        *)

(* Nobody else writes into the Task of such a job. *)
LEMMA OwnTask ==
    ASSUME NEW j \in Jobs, OwnHandler(j), NEW k \in Jobs, HandlerOf[k] = HandlerOf[j]
    PROVE  k = j
  BY DEF OwnHandler

(* The invariant holds initially. *)
LEMMA InitListInv ==
    ASSUME Init
    PROVE  ListInv
  BY XxlJobAssumption
     DEF Init, ListInv, NoStuckJob, TaskIsNamed, IdleBeat, Going, NoRequest

(* Requests take no entry away and write into no Task before the last steps.   *)
LEMMA ServeKeepsListInv ==
    ASSUME TypeInv, ListInv,
           \/ \E r \in Runs, j \in Jobs : \E s \in Strategies(j) : RunRequest(r, j, s)
           \/ \E j \in Jobs : KillRequest(j)
           \/ Cover \/ WriteContext \/ Kill
    PROVE  ListInv'
<1> USE XxlJobAssumption
    DEF TypeInv, TypeOK, ServedIsNamed, ContextsExist, ListInv, NoStuckJob, TaskIsNamed, IdleBeat,
        Going, Busy, TaskOf, NoRequest, Del, requests, life
<1>1. ASSUME NEW r \in Runs, NEW j \in Jobs, NEW s \in Strategies(j), RunRequest(r, j, s)
      PROVE  ListInv'
  <2>1. NoStuckJob'
    BY <1>1 DEF RunRequest, Begin, Refuse
  <2>2. TaskIsNamed'
    <3>1. task' = task /\ server'.at # "list"
      BY <1>1 DEF RunRequest, Begin, Refuse
    <3>2. \A q \in Runs : pc'[q] \in Going => pc[q] \in Going /\ job'[q] = job[q]
      BY <1>1 DEF RunRequest, Begin, Refuse
    <3> HIDE DEF Going, TypeInv
    <3> QED
      BY <3>1, <3>2
  <2> QED
    BY <2>1, <2>2
<1>2. ASSUME NEW j \in Jobs, KillRequest(j) PROVE ListInv'
  BY <1>2 DEF KillRequest
<1>3. CASE Cover
  BY <1>3 DEF Cover
<1>4. CASE WriteContext
  <2>1. NoStuckJob'
    BY <1>4 DEF WriteContext
  <2>2. TaskIsNamed'
    BY <1>4 DEF WriteContext
  <2> QED
    BY <2>1, <2>2
<1>5. CASE Kill
  BY <1>5 DEF Kill
<1> QED
  BY <1>1, <1>2, <1>3, <1>4, <1>5

(* The last steps name the Task and list it together with its run.             *)
LEMMA LaunchKeepsListInv ==
    ASSUME TypeInv, ListInv, WriteFields \/ Launch
    PROVE  ListInv'
<1> USE XxlJobAssumption
    DEF TypeInv, TypeOK, ServedIsNamed, ContextsExist, ListInv, NoStuckJob, TaskIsNamed, IdleBeat,
        Going, Busy, TaskOf, NoRequest, requests, life
<1>1. CASE WriteFields
  <2>1. NoStuckJob'
    BY <1>1 DEF WriteFields
  <2>2. TaskIsNamed'
    BY <1>1, OwnTask DEF WriteFields
  <2> QED
    BY <2>1, <2>2
<1>2. CASE Launch
  <2>1. NoStuckJob'
    BY <1>2 DEF Launch
  <2>2. TaskIsNamed'
    BY <1>2 DEF Launch
  <2> QED
    BY <2>1, <2>2
<1> QED
  BY <1>1, <1>2

(* A run leaves with the entry of its job, and with no entry of another one.   *)
LEMMA RunKeepsListInv ==
    ASSUME TypeInv, ListInv, NEW r \in Runs, Run(r) \/ Expire(r)
    PROVE  ListInv'
<1> USE XxlJobAssumption
    DEF TypeInv, TypeOK, ServedIsNamed, ContextsExist, ListInv, NoStuckJob, TaskIsNamed, IdleBeat,
        Going, Busy, TaskOf, Del, requests, life
<1>1. CASE Delist(r)
  <2>1. NoStuckJob'
    BY <1>1 DEF Delist
  <2>2. TaskIsNamed'
    BY <1>1 DEF Delist
  <2> QED
    BY <2>1, <2>2
<1>2. CASE ReadContext(r) \/ Execute(r) \/ Return(r) \/ Panic(r) \/ Post(r) \/ Release(r) \/ Expire(r)
  <2>1. UNCHANGED <<job, task, runList, server>>
    BY <1>2 DEF ReadContext, Execute, Return, Panic, Post, Release, Expire
  <2>2. \A q \in Runs : pc'[q] \in Going <=> pc[q] \in Going
    BY <1>2 DEF ReadContext, Execute, Return, Panic, Post, Release, Expire
  <2> HIDE DEF Going, TypeInv
  <2> QED
    BY <2>1, <2>2
<1> QED
  BY <1>1, <1>2 DEF Run

(* Every step preserves ListInv. *)
LEMMA NextListInv ==
    ASSUME TypeInv, ListInv, [Next]_vars
    PROVE  ListInv'
<1>1. CASE Request \/ Serve
  BY <1>1, ServeKeepsListInv, LaunchKeepsListInv DEF Request, Serve
<1>2. CASE \E r \in Runs : Run(r) \/ Expire(r)
  BY <1>2, RunKeepsListInv
<1>3. CASE \/ Listen \/ Registry \/ RegistryRemove \/ Shutdown \/ AdminForgets
           \/ UNCHANGED vars
  <2>1. UNCHANGED <<requests, pc, task, runList, server>>
    BY <1>3 DEF Listen, Registry, RegistryRemove, Shutdown, AdminForgets, requests, vars
  <2> QED
    BY <2>1 DEF ListInv, NoStuckJob, TaskIsNamed, IdleBeat, Going, TaskOf, requests
<1> QED
  BY <1>1, <1>2, <1>3 DEF Next

(* Both invariants together are inductive. *)
LEMMA ListInvariance == Spec => [](TypeInv /\ ListInv)
<1>1. Init => TypeInv /\ ListInv
  BY InitTypeInv, InitListInv
<1>2. (TypeInv /\ ListInv) /\ [Next]_vars => (TypeInv /\ ListInv)'
  BY NextTypeInv, NextListInv
<1> QED
  BY <1>1, <1>2, PTL DEF Spec

(* No job with a handler of its own is busy without a run that will free it,   *)
(* whatever the block strategies and whoever kills its runs.                   *)
THEOREM BusyIsBusy == Spec => []NoStuckJob
<1>1. TypeInv /\ ListInv => NoStuckJob
  BY DEF ListInv
<1> QED
  BY <1>1, ListInvariance, PTL
-------------------------------------------------------------------------------
(* A calm job has one run at a time, with its own arguments.  The list is the  *)
(* heart of it: a request is served for a job that is not listed, so that no   *)
(* run of it is going on, and nobody else works on the Task it writes.         *)

(* What is calm is neither covered nor killed, and is alone with its handler.  *)
LEMMA CalmIsAlone ==
    ASSUME NEW j, Calm(j)
    PROVE  /\ j \in Jobs /\ j \notin Covered /\ j \notin Killed /\ OwnHandler(j)
           /\ \A k \in Jobs : HandlerOf[k] = HandlerOf[j] => k = j
  BY DEF Calm, OwnHandler

(* The invariant holds initially. *)
LEMMA InitCalmInv ==
    ASSUME Init
    PROVE  CalmInv
  BY XxlJobAssumption
     DEF Init, CalmInv, OneRunPerJob, ListIsTrue, TaskIsOwn, ReadOwn, Going, Busy, NoRequest

(* A calm job is neither covered nor killed, and accepted if it is not listed. *)
LEMMA RequestKeepsCalmInv ==
    ASSUME TypeInv, CalmInv, Request
    PROVE  CalmInv'
<1> USE XxlJobAssumption
    DEF TypeInv, TypeOK, ServedIsNamed, ContextsExist, TaskIsOfHandler, TaskIsNamed, ListInv,
        CalmInv, OneRunPerJob, ListIsTrue, TaskIsOwn, ReadOwn, Going, Busy, TaskOf, NoRequest, requests, life
<1>1. ASSUME NEW r \in Runs, NEW j \in Jobs, NEW s \in Strategies(j), RunRequest(r, j, s)
      PROVE  CalmInv'
  <2>1. \A q \in Runs : /\ pc'[q] \in Going <=> pc[q] \in Going
                        /\ pc'[q] \in Going => job'[q] = job[q] /\ pc'[q] = pc[q]
    BY <1>1 DEF RunRequest, Begin, Refuse
  <2>2. UNCHANGED <<task, runList, arg, ext>>
    BY <1>1 DEF RunRequest, Begin, Refuse
  <2>3. s = "cover" => ~Calm(j)
    BY CalmIsAlone DEF Strategies
  <2>4. \/ server' = server
        \/ server'.at = "write" /\ server'.job = j /\ runList[j] = NoTask
        \/ server'.at = "cover" /\ server'.job = j /\ ~Calm(j)
    BY <1>1, <2>3 DEF RunRequest, Begin, Refuse
  <2>5. \A q \in Runs : pc'[q] \in {"starting", "executing"} => pc'[q] \in Going
    OBVIOUS
  <2> HIDE DEF Going, TypeInv
  <2>6. OneRunPerJob'
    BY <2>1
  <2>7. ListIsTrue'
    BY <2>1, <2>2, <2>4
  <2>8. TaskIsOwn'
    BY <2>1, <2>2, <2>4
  <2>9. ReadOwn'
    BY <2>1, <2>2, <2>5
  <2> QED
    BY <2>6, <2>7, <2>8, <2>9
<1>2. ASSUME NEW j \in Jobs, KillRequest(j) PROVE CalmInv'
  BY <1>2, CalmIsAlone DEF KillRequest
<1> QED
  BY <1>1, <1>2 DEF Request

(* A cover or a kill deletes an entry that is not of a calm job. *)
LEMMA DeleteKeepsCalmInv ==
    ASSUME TypeInv, CalmInv, Cover \/ Kill
    PROVE  CalmInv'
<1> USE XxlJobAssumption
    DEF TypeInv, TypeOK, ServedIsNamed, ContextsExist, TaskIsOfHandler, TaskIsNamed, ListInv,
        CalmInv, OneRunPerJob, ListIsTrue, TaskIsOwn, ReadOwn, Going, Busy, TaskOf, NoRequest, Del, requests, life
<1>1. \A j \in Jobs : Calm(j) => runList'[j] = runList[j]
  <2>1. CASE Cover
    <3>1. server.job \in Jobs /\ ~Calm(server.job)
      BY <2>1 DEF Cover
    <3>2. CASE runList[server.job] # NoTask
      <4>1. runList[server.job] = HandlerOf[server.job] /\ runList[server.job] \in Handlers
        BY <3>1, <3>2
      <4>2. task[HandlerOf[server.job]].id # NoJob =>
               HandlerOf[task[HandlerOf[server.job]].id] = HandlerOf[server.job]
        BY <4>1
      <4>3. ~Calm(task[runList[server.job]].id)
        BY <3>1, <4>1, <4>2, CalmIsAlone
      <4> QED
        BY <2>1, <3>1, <3>2, <4>3 DEF Cover
    <3> QED
      BY <2>1, <3>2 DEF Cover
  <2>2. CASE Kill
    BY <2>2 DEF Kill
  <2> QED
    BY <2>1, <2>2
<1>2. UNCHANGED <<job, pc, task, arg, ext>>
  BY DEF Cover, Kill
<1>3. server'.at \notin {"cover", "kill", "fields", "list"}
      /\ (server'.at \in Busy => server.at \in Busy /\ server'.job = server.job)
  BY DEF Cover, Kill
<1> HIDE DEF TypeInv, Going, Busy
<1>4. OneRunPerJob' /\ TaskIsOwn' /\ ReadOwn'
  BY <1>2, <1>3
<1>5. ListIsTrue'
  BY <1>1, <1>2, <1>3, CalmIsAlone
<1> QED
  BY <1>4, <1>5

(* The fields are written into a Task that no run of a calm job works on. *)
LEMMA WriteKeepsCalmInv ==
    ASSUME TypeInv, ListInv, CalmInv, WriteContext \/ WriteFields
    PROVE  CalmInv'
<1> USE XxlJobAssumption
    DEF TypeInv, TypeOK, ServedIsNamed, ContextsExist, TaskIsOfHandler, TaskIsNamed, ListInv,
        CalmInv, OneRunPerJob, ListIsTrue, TaskIsOwn, ReadOwn, Going, Busy, TaskOf, NoRequest, requests, life
<1>1. \A q \in Runs : pc[q] \in Going /\ Calm(job[q]) => TaskOf(q) # HandlerOf[server.job]
  <2> SUFFICES ASSUME NEW q \in Runs, pc[q] \in Going, Calm(job[q]),
                      HandlerOf[server.job] = HandlerOf[job[q]]
               PROVE  FALSE
    OBVIOUS
  <2>1. server.at \in Busy /\ server.job \in Jobs
    BY DEF WriteContext, WriteFields
  <2>2. server.job = job[q]
    BY <2>1, CalmIsAlone
  <2> QED
    BY <2>1, <2>2
<1>2. UNCHANGED <<job, pc, runList, arg, ext>>
  BY DEF WriteContext, WriteFields
<1>3. /\ server.job \in Jobs /\ HandlerOf[server.job] \in Handlers
      /\ server'.job = server.job /\ server'.run = server.run
      /\ server.at \in Busy /\ server'.at \in {"fields", "list"}
  BY DEF WriteContext, WriteFields
<1>4. \A q \in Runs : pc[q] \in Going /\ Calm(job[q]) => task'[TaskOf(q)] = task[TaskOf(q)]
  BY <1>1, <1>3, CalmIsAlone DEF WriteContext, WriteFields
<1>5. task'[HandlerOf[server.job]].ext = server.run
  BY <1>3 DEF WriteContext, WriteFields
<1>6. server'.at = "list" => task'[HandlerOf[server.job]].param = server.run
  <2>1. server'.at = "list" => WriteFields
    BY DEF WriteContext
  <2>2. WriteFields => task'[HandlerOf[server.job]].param = server.run
    BY <1>3 DEF WriteFields
  <2> QED
    BY <2>1, <2>2
<1> HIDE DEF TypeInv, ListInv, Going
<1>7. OneRunPerJob' /\ ListIsTrue' /\ ReadOwn'
  BY <1>2, <1>3
<1>8. TaskIsOwn'
  BY <1>2, <1>3, <1>4, <1>5, <1>6
<1> QED
  BY <1>7, <1>8

(* The run that is listed is the only one of a calm job. *)
LEMMA LaunchKeepsCalmInv ==
    ASSUME TypeInv, ListInv, CalmInv, Launch
    PROVE  CalmInv'
<1> USE XxlJobAssumption
    DEF TypeInv, TypeOK, ServedIsNamed, ContextsExist, TaskIsOfHandler, TaskIsNamed, ListInv,
        CalmInv, OneRunPerJob, ListIsTrue, TaskIsOwn, ReadOwn, Going, Busy, TaskOf, NoRequest, requests, life
<1>1. /\ server.run \in Runs /\ server.job \in Jobs /\ job[server.run] = server.job
      /\ server'.at = "idle" /\ UNCHANGED <<job, task, arg, ext>>
      /\ HandlerOf[server.job] \in Handlers
  BY DEF Launch
<1>2. \A q \in Runs : /\ pc'[q] \in Going <=> pc[q] \in Going \/ q = server.run
                      /\ q # server.run => pc'[q] = pc[q]
  BY DEF Launch
<1>3. pc'[server.run] \notin {"starting", "executing"}
  BY DEF Launch
<1>4. /\ runList'[server.job] # NoTask
      /\ \A k \in Jobs \ {server.job} : runList'[k] = runList[k]
  BY <1>1 DEF Launch
<1>5. Calm(server.job) => \A q \in Runs : pc[q] \in Going => job[q] # server.job
  BY DEF Launch
<1>6. task[HandlerOf[server.job]] = [id |-> server.job, param |-> server.run, ext |-> server.run]
  <2>1. task[HandlerOf[server.job]] \in [id : Jobs \cup {NoJob}, param : Runs \cup {NoRun},
                                         ext : Runs \cup {NoRun}]
    BY <1>1
  <2>2. /\ task[HandlerOf[server.job]].id = server.job
        /\ task[HandlerOf[server.job]].param = server.run
        /\ task[HandlerOf[server.job]].ext = server.run
    BY DEF Launch
  <2> QED
    BY ONLY <2>1, <2>2
<1> HIDE DEF TypeInv, ListInv, Going
<1>7. OneRunPerJob'
  BY <1>1, <1>2, <1>5
<1>8. ListIsTrue'
  BY <1>1, <1>2, <1>4, CalmIsAlone
<1>9. TaskIsOwn'
  BY <1>1, <1>2, <1>6
<1>10. ReadOwn'
  BY <1>1, <1>2, <1>3
<1> QED
  BY <1>7, <1>8, <1>9, <1>10

(* The entry that a run deletes is of its own job, or not of a calm one. *)
LEMMA DelistKeepsCalmInv ==
    ASSUME TypeInv, CalmInv, NEW r \in Runs, Delist(r)
    PROVE  CalmInv'
<1> USE XxlJobAssumption
    DEF TypeInv, TypeOK, ServedIsNamed, ContextsExist, TaskIsOfHandler, TaskIsNamed, ListInv,
        CalmInv, OneRunPerJob, ListIsTrue, TaskIsOwn, ReadOwn, Going, Busy, TaskOf, NoRequest, Del, requests, life
<1>1. /\ job[r] \in Jobs /\ TaskOf(r) \in Handlers /\ UNCHANGED <<job, task, arg, ext, server>>
      /\ runList' = [runList EXCEPT ![task[TaskOf(r)].id] = NoTask]
  BY DEF Delist
<1>2. \A q \in Runs : /\ pc'[q] \in Going <=> pc[q] \in Going /\ q # r
                      /\ q # r => pc'[q] = pc[q]
  BY DEF Delist
<1>3. pc[r] \in Going /\ pc'[r] \notin {"starting", "executing"}
  BY DEF Delist
<1>4. Calm(task[TaskOf(r)].id) => task[TaskOf(r)].id = job[r]
  BY <1>1, CalmIsAlone
<1>5. \A k \in Jobs : Calm(k) /\ k # job[r] => runList'[k] = runList[k]
  BY <1>1, <1>4
<1>6. \A q \in Runs \ {r} : pc[q] \in Going /\ Calm(job[q]) => job[q] # job[r]
  BY <1>3
<1>7. \A k \in Jobs : runList[k] = NoTask => runList'[k] = NoTask
  BY <1>1
<1> HIDE DEF TypeInv, Going, Busy
<1>8. OneRunPerJob' /\ TaskIsOwn' /\ ReadOwn'
  BY <1>1, <1>2, <1>3
<1>9. ListIsTrue'
  BY <1>1, <1>2, <1>5, <1>6, <1>7, CalmIsAlone
<1> QED
  BY <1>8, <1>9

(* What a run of a calm job reads are the fields of its own request. *)
LEMMA RunKeepsCalmInv ==
    ASSUME TypeInv, CalmInv, NEW r \in Runs, (Run(r) /\ ~Delist(r)) \/ Expire(r)
    PROVE  CalmInv'
<1> USE XxlJobAssumption
    DEF TypeInv, TypeOK, ServedIsNamed, ContextsExist, TaskIsOfHandler, TaskIsNamed, ListInv,
        CalmInv, OneRunPerJob, ListIsTrue, TaskIsOwn, ReadOwn, Going, Busy, TaskOf, NoRequest, requests, life
<1>1. UNCHANGED <<job, task, runList, server>>
  BY DEF Run, ReadContext, Execute, Return, Panic, Post, Release, Expire
<1>2. \A q \in Runs : pc'[q] \in Going <=> pc[q] \in Going
  BY DEF Run, ReadContext, Execute, Return, Panic, Post, Release, Expire
<1>3. ReadOwn'
  <2>0. Calm(job[r]) /\ pc[r] \in Going =>
           task[TaskOf(r)].ext = r /\ task[TaskOf(r)].param = r
    <3> SUFFICES ASSUME Calm(job[r]), pc[r] \in Going
                 PROVE  task[TaskOf(r)].ext = r /\ task[TaskOf(r)].param = r
      OBVIOUS
    <3>1. task[TaskOf(r)] = [id |-> job[r], param |-> r, ext |-> r]
      OBVIOUS
    <3> QED
      BY ONLY <3>1
  <2>1. CASE ReadContext(r)
    <3>1. ext' = [ext EXCEPT ![r] = task[TaskOf(r)].ext] /\ UNCHANGED <<job, arg>>
      BY <2>1 DEF ReadContext
    <3>2. pc[r] \in Going /\ pc' = [pc EXCEPT ![r] = "starting"]
      BY <2>1 DEF ReadContext
    <3> HIDE DEF Going, TaskOf
    <3> QED
      BY <2>0, <3>1, <3>2
  <2>2. CASE Execute(r)
    <3>1. arg' = [arg EXCEPT ![r] = task[TaskOf(r)].param] /\ UNCHANGED <<job, ext>>
      BY <2>2 DEF Execute
    <3>2. pc[r] = "starting" /\ pc[r] \in Going /\ pc' = [pc EXCEPT ![r] = "executing"]
      BY <2>2 DEF Execute
    <3> HIDE DEF Going, TaskOf
    <3> QED
      BY <2>0, <3>1, <3>2
  <2>3. CASE Return(r) \/ Panic(r) \/ Post(r) \/ Release(r) \/ Expire(r)
    BY <2>3 DEF Return, Panic, Post, Release, Expire
  <2> QED
    BY <2>1, <2>2, <2>3 DEF Run
<1> HIDE DEF TypeInv, Going, ReadOwn
<1>4. OneRunPerJob' /\ ListIsTrue' /\ TaskIsOwn'
  BY <1>1, <1>2
<1> QED
  BY <1>3, <1>4

(* Every step preserves CalmInv. *)
LEMMA NextCalmInv ==
    ASSUME TypeInv, ListInv, CalmInv, [Next]_vars
    PROVE  CalmInv'
<1>1. CASE Request \/ Serve
  BY <1>1, RequestKeepsCalmInv, DeleteKeepsCalmInv, WriteKeepsCalmInv, LaunchKeepsCalmInv DEF Serve
<1>2. CASE \E r \in Runs : Run(r) \/ Expire(r)
  BY <1>2, DelistKeepsCalmInv, RunKeepsCalmInv
<1>3. CASE \/ Listen \/ Registry \/ RegistryRemove \/ Shutdown \/ AdminForgets
           \/ UNCHANGED vars
  <2>1. UNCHANGED <<requests, pc, task, runList, server>>
    BY <1>3 DEF Listen, Registry, RegistryRemove, Shutdown, AdminForgets, requests, vars
  <2> QED
    BY <2>1 DEF CalmInv, OneRunPerJob, ListIsTrue, TaskIsOwn, ReadOwn, Going, Busy, TaskOf, requests
<1> QED
  BY <1>1, <1>2, <1>3 DEF Next

(* All three invariants together are inductive. *)
LEMMA Invariance == Spec => [](TypeInv /\ ListInv /\ CalmInv)
<1>1. Init => TypeInv /\ ListInv /\ CalmInv
  BY InitTypeInv, InitListInv, InitCalmInv
<1>2. (TypeInv /\ ListInv /\ CalmInv) /\ [Next]_vars => (TypeInv /\ ListInv /\ CalmInv)'
  BY NextTypeInv, NextListInv, NextCalmInv
<1> QED
  BY <1>1, <1>2, PTL DEF Spec

(* The block strategy refuses: a calm job never has two runs that go on at     *)
(* once, whatever is done to the runs of other jobs.                           *)
THEOREM NoOverlap == Spec => []OneRunPerJob
<1>1. CalmInv => OneRunPerJob
  BY DEF CalmInv
<1> QED
  BY <1>1, Invariance, PTL

(* Although all runs of a handler share one Task, TaskFunc of a calm job gets  *)
(* the parameters and the context of the request it runs for.                  *)
THEOREM NoMixup == Spec => []OwnArguments
<1>1. CalmInv => OwnArguments
  BY DEF CalmInv, ReadOwn, OwnArguments
<1> QED
  BY <1>1, Invariance, PTL

(* idleBeat calls no calm job idle that has a run going on.                    *)
THEOREM IdleIsIdle == Spec => []IdleBeatIsTrue
<1>1. CalmInv => IdleBeatIsTrue
  BY DEF CalmInv, ListIsTrue, IdleBeatIsTrue, IdleBeat
<1> QED
  BY <1>1, Invariance, PTL
===============================================================================
