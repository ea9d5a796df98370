# Verification of aifei-go

aifei-go is a Go framework of some 100,000 lines: a web core, a template engine,
database access, a message bus (dami), a flow engine, an MCP client and server,
an AI stack (chat, agents, loops, retrieval) and plugins that bind third-party
clients. Most of those lines are conversions: dialects of model providers, SQL,
templates. What is hard to test is a smaller part, in which goroutines share
tables, channels and slots, or in which a traversal is cut and continued. This
directory models that part in TLA+, checks the models with TLC, and proves the
central ones with TLAPS.

Contents: [inventory](#1-inventory), [modules](#2-modules-and-the-code-they-model),
[runs](#3-runs), [bounds](#4-bounds-and-why-they-are-enough),
[fairness](#5-fairness), [proofs](#6-proofs), [what the runs found](#7-what-the-runs-found),
[what is not modelled](#8-what-is-not-modelled), [plan](#9-plan).

## 1. Inventory

"Hard" names the behaviour that tests hardly reach; the lines are in
`PROJECT.json` under `hazards`.

### Components that are modelled

| Component | State | Operations | Interacts with | Hard |
|---|---|---|---|---|
| MCP session, `mcp/session.go` | table of pending replies, id counter, `closed`, `closeOnce`, handler tables | `SendRequest`, `pump`, `dispatch*`, `Close` | the `Transport` (frames in and out), the client (handlers make calls on the session) | responses late, repeated, reordered or without id; a timeout racing the reply; the end of the transport racing the start of a call; calls made by handlers that the pump dispatched |
| MCP client, `mcp/client.go`, with `ai/mcp/provider.go` | current session, `closed`, mutex `c.mu`, heartbeat | `ensureInitialized`, `Reset`, `Close`, heartbeat, the typed operations, `executeWithRetry` | makes sessions through the transport factory | a reset that hits a newer session; `Close` during a handshake; self-healing by several goroutines |
| xxl-job executor, `plugins/xxljob` | one `Task` per handler, list of running tasks, registration | `/run`, `/kill`, `/idleBeat`, goroutine of a run, `callback`, registry heartbeat, `Stop` | the scheduling centre (HTTP both ways) | runs share a `Task` whose fields requests overwrite; the callback deletes without the lock; a killed or covered run that returns late; a panic |
| dami stream, `dami/stream.go` | channel of capacity 16, `done`, `once` | `Push`, `Complete`, the canceller, `StreamOn` | the dispatcher calls the listeners within `StreamOn` | close against push, a push after the close among them; a full buffer before anybody reads; the error as the last item |
| dami lpc, `dami/lpc.go` | slot per provider type | `RegisterProvider`, `UnregisterProvider` | adds and removes listeners on the bus | registration of the listeners outside the lock |
| dami routers, `dami/router_tag.go`, `router_path.go` | a slice per bucket | `Add`, `Remove`, `Match` | `Match` serves every send of the bus | `slices.DeleteFunc` works in place in the array that a `Match` reads without the lock |
| dami bus, call and Future, `dami/bus.go`, `dispatcher.go`, `call.go`, `future.go`, `lpc_call.go` | the listeners that a `Match` returned; the Future's channel of capacity 1 | `ListenOn`, `CallOn`, `Settle`, `Get` | lpc and routers below it; listeners reply within the distribution or keep the `Sink` | several replies, some late; several holders of one Future; an error that ends the distribution |
| flow engine, `flow/engine.go`, `exchanger.go`, `temporary.go`, `trace.go` | counters and stacks of the gateways, trace, step counter, flags | `Eval`, `nodeRun` and one `*Run` per node type | drivers run tasks and conditions; the workflow evaluates with its own driver | joins that count arrivals; halt and resume by a re-walk; cycles ended by a budget |
| flow workflow, `flow/workflow/executor.go`, `driver.go`, `repository.go` | a state per instance and node; the mutex `e.mu` | `ClaimTask`, `FindTask`, `FindNextTasks`, `SubmitTaskIfWaiting` with FORWARD, BACK, TERMINATE, RESTART | every operation walks the graph with the engine and a driver of its own | walks read and write states without the mutex that submit holds; the walks of one submission share their counters |
| AI loop, `ai/loop/engine.go`, `autopilot.go` | state, `running`, `paused`, result and goroutine of a session; sessions of a pipeline | `Start`, `Pause`, `Resume`, `Stop`, `WaitForCompletion`; `StartPipeline`, `CancelPipeline` | the pipeline starts sessions and waits for them; anyone may stop them | flags read without the lock, and copied; a state written over the one that `Stop` or `Pause` has set; a cancel that comes before the session is registered |

### Components that are not modelled yet and deserve it

| Component | State and operations | Hard | Properties that would make it correct |
|---|---|---|---|
| dami hash router, `dami/router_hash.go` | pipelines by topic; `Add`, `Remove` | an emptied pipeline removed while one is added to it | a listener that was added is reached |
| MCP server session, `mcp/server_session.go` | listening sink, pending reverse requests, `closed` | `setListening` after close, responses after close, end of input in `RunStdio` | reverse requests return once; nothing is sent after close |
| db transactions, `db/transaction.go`, `tx_context.go` | transaction in the context | nesting, a nested request to roll back, a panic in the callback | a nested failure rolls back the whole; no transaction stays open |
| cache, kafka, nami, config | cached values; offsets; list of servers; layers | load against remove; commit against crash; a list changing under round robin; reload under readers | no stale value is stored after a remove; at least once; every choice is a live server; readers see one version |
| AI stream, router, agent, harness | event accumulator; cool-down of models; suspended runs; permission requests | abort during tool rounds; fail-over against recovery; a resume by a human | well-formed event sequence; no model starved; nothing run twice |

### Components that are left out

SQL building and the rewriting of SQL (`db`, `plugins/dataisolate`), the template
engine (`enjoy`), provider dialects, retrieval, talents and UI (`ai/...`), the
builder of sandbox command lines, the code generators (`tools`), the `net/http`
adapters, `log`, `json`, and the wrappers of client libraries (`storage`,
`elasticsearch`, `swagger`, `nacos`) are pure conversions or I/O: a test reaches
what a model would say of them. The radix-tree router of `aifei` is built before
it serves and only read afterwards. `PROJECT.json` lists each with its reason.

## 2. Modules and the code they model

| Module | Models | Its steps |
|---|---|---|
| `McpCalls` | the promise of `SendRequest`, abstractly: a call returns once, with a reply only if the peer answered that call, told "closed" only when it is | one call is one variable; `Answer` and `Drop` are the peer and the network |
| `McpSession` | `session.go`, every goroutine at its atomic steps; implements `McpCalls` | see below |
| `MCMcpSession` | instances for TLC | |
| `McpSessionProofs` | the theorems about `McpSession` | |
| `McpClient` | `client.go` around its mutex, and the retry of `provider.go`; a session is only "handshake", "ready" or "done" here | one action per section of code between two acquisitions of `c.mu`, or between two blocking calls |
| `MCMcpClient` | instances | |
| `McpClientProofs` | the theorems about `McpClient` | |
| `XxlJob` | `executor.go`, `task.go`, `task_list.go` | one action per read or write of a shared `Task` field or of the list |
| `MCXxlJob` | instances | |
| `XxlJobProofs` | the theorems about `XxlJob` | |
| `DamiStream` | `stream.go` and the part of the dispatcher that calls the listeners | one action per channel operation |
| `DamiStreamProofs` | the theorems about `DamiStream` | |
| `DamiLpc` | `lpc.go` | one action per locked section and per listener added or removed |
| `DamiTagRouter` | one bucket of the `TagRouter`; the patterns of the `PathRouter` are kept the same way | one action per element that `DeleteFunc` moves or clears and that `Match` reads |
| `DamiBus` | `bus.go`, `dispatcher.go`, `call.go`, `future.go`, `lpc_call.go`, on top of `DamiLpc` and `DamiTagRouter`, whose actions it composes | one action per listener that is run and per channel operation |
| `MCDamiBus` | instances | |
| `DamiBusProofs` | the theorems about `DamiLpc`, `DamiTagRouter` and `DamiBus` | |
| `FlowGraph` | `graph.go`, `node.go`: the graphs, as data; which links a node follows, how often it should run | none: operators over a graph |
| `FlowEngine` | `engine.go`, with `exchanger.go`, `temporary.go`, `trace.go` | one `nodeRun` up to the calls it makes |
| `MCFlowEngine` | the graphs that are traversed | |
| `FlowEngineProofs` | the theorems about `FlowEngine` | |
| `FlowWorkflow` | `flow/workflow`, on graphs of activities and parallel gateways | one node of a walk; two at a node that is written: `StateGet`, then `StatePut` |
| `MCFlowWorkflow` | two graphs and their users | |
| `FlowWorkflowProofs` | the theorems about `FlowWorkflow` | |
| `LoopSession` | a session of `ai/loop/engine.go` | one critical section of `s.mu0` with what follows in private, or one read of `running` without it |
| `Autopilot` | a pipeline of `autopilot.go` over the sessions of `LoopSession` | one action per call that the pipeline or the canceller makes |
| `AutopilotProofs` | the theorems about `LoopSession` and `Autopilot` | |

Some definitions are preceded by the word "Mutant": they are wrong on purpose, a
bug that the code could plausibly have, and are used by no specification. Each
property names (in `PROJECT.json`, `mutants`) one that it must detect when it
takes the place of the right definition.

**McpSession.** `pc[c]` walks `SendRequest`: `begin` takes an id from the atomic
counter, `store` puts the reply channel into the table, `send` writes the frame
or fails, `select` waits for reply, context or session end, `return` runs the
deferred delete. The pump reads a frame; a response takes its entry out of the
table (`PumpResponse`) and delivers in a second step (`PumpDeliver`), because the
code does `LoadAndDelete` and then sends into the channel; notifications and
requests start goroutines. `Close` runs the body of `closeOnce`, and then visits
the ids that the table had (`doomed`), one per step; the pump's end uses the
same once. The peer is external: it may answer a request that it has received
late, repeatedly, out of order, without id, or never.

**McpClient.** A goroutine that executes a tool is `ensure`, `handshake` (with
`c.mu`), `request`, and, after a transport error, `reset` and once more `ensure`.
The heartbeat is one more process with the same steps, which begins and ends in
`wait`. The session it got from `ensureInitialized` may since have been replaced.

**XxlJob.** A request holds `e.mu` (`server`) from `Begin` to `Launch`. A run's
goroutine reads the shared `Task` step by step (`ReadContext`, `Execute`,
`Return`), deletes the entry of the list under whatever id the `Task` bears by
then (`Delist`), and posts the result under whatever LogID it bears by then
(`Post`, which may fail: the code only logs that). That order, not the lock, is what the
properties are about.

**DamiStream.** `StreamOn` returns the channel only after the dispatch, so a
listener that pushes more than the buffer holds waits in `Push` with nobody to
read; the end of the context is its only way out. The canceller starts after. A
listener goes on after `Complete`, its own or another's, and may push: `done` and the
channel are closed by then, and the `select` of such a push may take either (`Push`). A
`Next` of another type is a `Complete` with an error.

**DamiLpc.** `Reserve` takes the slot under the lock; listeners are then added
one at a time without it, and the list is stored in the slot under the lock again
(`Store`). `RegisterProvider` is refused when the slot is taken.

**DamiTagRouter.** A slice is a length and a position in `array`, the sequence of
backing arrays; `append` writes behind the length or moves to a larger array.
The result of a `Match` is local to it and empty when it begins.

**DamiBus.** A call is one of the `Matchers` of `DamiTagRouter`; `Match` reads
element by element, then the listeners run in order in the caller's goroutine.
A method of the provider settles the Future before it returns; another listener
may keep the `Sink` and settle it at any time, or fail, which ends the
distribution. Registering a method is an `Add` to the bucket and unlistening a
`Remove` from it, so steps of the three modules are one step here.

**FlowEngine.** `nodeRun` recurses on one goroutine. `todo` is the call stack,
flattened: the calls that the loops of its frames still have to make, innermost
first. Returning early from all frames (a stop, an error) is `todo' = <<>>`;
dropping a branch (an interrupt) is `Tail(todo)`. A loop's `for` statement stays
on `todo` as an "iterate" entry. Graphs are data chosen in the initial state,
with conditions that do not change in the life of an instance; the test of a link's
condition may fail (`LinkFails`), on the way back too. It may do so between any two nodes
of a graph with conditions, which is more often than in the code, where it is
tested just before its branch. `done` then takes back the node recorded last, whose task
the next evaluation executes again, as `docs/guide/flow.md:252` says. `Times` says how
often the documentation of the gateways has each node run; it is a recursive
function over the graph, independent of counters and stacks.

**FlowWorkflow.** A user is a goroutine with a context of its own. `todo[u]` is the
call stack of his walk as in `FlowEngine`; `count[u]` has the arrivals in the
Temporary of a walk of its own (`own`) and in the one that the evaluations of a
submission share (`submission`), since `CopyFor` keeps it. `found[u]` are the tasks
that a claim or find has returned with state WAITING; a submission looks at the
state once more under `e.mu` (`Permitted`), writes, and goes through the nodes
that follow (`Forward`): behind a gateway it finds the next task by a walk, and
for every automatic node it evaluates the graph from its start. `done`, `twice`,
`torn` and `undone` record the past for the properties.

**LoopSession.** `pc[s]` follows `execute()`: `top` copies `paused` and reads `running`
in one critical section, `pausing` and `check` read `running` without one, `lock` reads
both again before `Wait`. `setState` and `finish` write over whatever is there. The
strategy's decision, the iteration's outcome and the validator's verdict are
choices; only the limit of iterations is not. In `Autopilot` a session that has
been started is registered in a second step, between which a cancel misses it.

## 3. Runs

| Run | Instance | Shows |
|---|---|---|
| `mcp_session` | 1 call, 1 call of a handler, 1 `Close`, 1 request of the peer, 3 frames; 176,741 states | a call never gets another call's reply; the pump never finds a reply channel full; a returned call leaves no entry; the end of the session releases every call, and a response under way the call that waits for it although handlers wait too; the fair specification implements the fair `McpCalls` |
| `mcp_client` | 2 tool calls, heartbeat, `Close`, 2 faults; 185,356 states | no open session but the current one or the one in handshake; none after `Close`; resets of one goroutine do not make others reconnect for ever; every call ends; the heartbeat reconnects an open client |
| `xxljob` | 2 requests, 2 jobs, of which one may be killed and covered; 81,336 states | one run per calm job, whatever is done to the other job; `idleBeat` is true; a run gets its own parameters and context; no entry of the list without a run that will remove it; every started run tries to report its result |
| `xxljob_two_live` | 3 requests, `COVER_EARLY`; expected violation | two runs of a job, neither cancelled (section 7) |
| `dami_stream` | a listener that pushes from a goroutine and one that does not, 2 items of each, buffer of 2; 47,068 states | a full buffer loses nothing; an error is followed by nothing but what a concurrent listener had under way; no waiting push is caught by the close; completion and the end of the context end the stream |
| `dami_bus` | 2 registrations, 1 removal, 2 methods, 2 other listeners of the topic, 1 call, 2 holders of its Future; 4,025,473 states | one registration wins; the slot lists what listens; an undisturbed `Match` misses nobody that is registered throughout; the first reply is the first one got; a registered provider's call is answered |
| `flow_engine` | 12 graphs, budgets none, 3 and 7, 3 evaluations, 2 halts, 1 interrupt; 70,811 states | joins wait; a resume repeats and forgets nothing; every evaluation returns |
| `flow_nested` | nested inclusive gateways; expected violation | an inclusive join that does not wait (section 7) |
| `flow_workflow` | 2 users who both may do the first task and each one of two parallel ones, 1 failure or other submission; 94,894 states | a task is done once; nothing is done before what precedes it; the instance ends |
| `flow_workflow_fan` | a task followed by two automatic ones; expected violation | a parallel join that does not wait (section 7) |
| `ai_loop` | a pipeline of an adapter and 2 sessions of 2 iterations each; 112,436 states | no wakeup is lost; a result and the state stay together; one iteration at most begins after `Stop`; one stage at a time; loops, stopped sessions and the pipeline end |
| `ai_loop_resume` | 1 session; expected violation | a paused session that `Resume` refuses (section 7) |

Deadlock is checked in `flow_workflow`, whose users can always ask again. Elsewhere
the calls, runs, listeners or evaluations come to an end, and the system may
stop there; that nobody waits for ever is stated by the liveness properties.

Some properties hold under a condition that is part of what they say:

- `Calm` in `XxlJob`: a job with a handler of its own whose runs nobody kills or
  covers. Kills and covers of other jobs are in the run; for the job itself the
  code does not keep the properties (section 7).
- `DamiLpc` with `Careful` has nobody unregister a type that is being registered: its
  `Next` takes `MayUnregister` for `UnregisterProvider`, which does not check that.
- `MatchIsRegular` speaks of a `Match` during which no removal runs.
- `clean` in `FlowEngine`: the instance was resumed only after a halt, at a node
  that runs once and is no join, with no interrupt before. A link whose condition
  fails is such a halt too.
- `torn` in `FlowWorkflow`: a walk has overwritten a state that it had not read.
  `HandledOnce` says that nothing else runs a task twice; section 7 says what a
  torn node does.
- `undone` in `FlowWorkflow`: a node that BACK or a torn write has reset may be
  overtaken by who has passed it before.
- `CancelEndsStream` and `CompletionEndsStream` end with the consumer, or with a panic of
  a push that began after the close (section 7); that no other push panics is
  `OnlyLatePushPanics`.
- `CallIsAnswered` speaks of a call that no removal disturbs and no listener's
  error ends, with a provider that is registered throughout.

## 4. Bounds, and why they are enough

- `MaxFrames`, 3: one response, one repetition of it and one response to
  another call are the shortest way to each hazard of the pump. With a call of the
  application and one of a handler there is "my reply" and "yours"; `Close` and
  the pump contend for one once.
- `MaxFaults` of `McpClient`, 2: one for the session in use and one for the
  handshake that replaces it, or for the retry. `MaxSessions` is larger than
  `ReconnectsAreBounded` permits, so it never stops a behaviour.
- Runs of `XxlJob`: two for what refuses, one on each job or both on one; three
  for the violation: one that is covered, the one that covers it, and one that
  finds the list wrong.
- `Capacity`, 2 for 16 in the code, with 2 items of each of 2 listeners: full, one more,
  and the error. The dispatch reaches the listener with the goroutine first, so that it
  pushes and completes before, while and after the other one does, and while the
  consumer reads.
- One call with two holders: the second holder is the one that may find the
  channel empty, or a second reply. Calls do not share a Future.
- `MaxCapacity` is the number of listeners: the growth of `append` to 1, 2 and 4.
- Graphs: each gateway alone, merged, in sequence and in each other's branches as
  far as the engine supports that. `MaxEvals` 3 gives two resumes. `MaxDone`, 5,
  is only where a history counter saturates; acyclic graphs stay below it.
- `FlowWorkflow`: with two users every race is between one who reads and one who
  writes. `MaxFaults` is 1; with 2 the safety properties hold as well.
- `MaxIterations`, 2: one iteration before and one after a pause or `Stop`. Two
  sessions and an adapter: a stage before, between and behind.

The theorems of section 6 hold for all values; the runs of what they state find a
wrong formula before one tries to prove it.

## 5. Fairness

Weak fairness stands for Go's scheduler: a goroutine that can go on does.

- **Session.** Calls, pump, started goroutines and a `Close` that has begun. None
  for the peer, for contexts, or for `Close` being called, and none for which
  ready case of a `select` is taken: what holds does so for every choice.
- **Client.** Strong fairness for acquiring `c.mu`, since Go's mutex hands itself
  to a waiter that has starved. Handshakes and requests end because both have
  timeouts (`initTimeout`, `requestTimeout`). Faults are finite in number.
- **Executor.** Handlers of the HTTP server finish, every `TaskFunc` returns
  (an assumption on the user's code: a cancelled one should), and the registry
  timer fires.
- **Stream.** Listeners go on and return; the consumer reads what there is, but it
  may leave; the context need not end. `HandlerReturns` is strongly fair because
  a full buffer can enable and disable it.
- **Bus.** None: its properties are invariants, `CallIsAnswered` included, which says
  that the reply is there when `CallOn` returns.
- **Workflow.** A walk or submission that has begun goes on. That users ask, and
  submit what they were given, is an assumption about them and needs strong
  fairness, since another user's submission disables it.
- **AI loop.** The goroutines of sessions and pipeline go on; what the strategy does
  in an iteration returns. Nobody need call `Resume`, `Stop` or cancel: `LoopEnds`
  and `PipelineReturns` say so in their premises.
- **Flow.** The evaluating goroutine is not abandoned in the middle of a traversal.
  Nothing makes a caller resume an instance.

## 6. Proofs

### The MCP session

`McpSessionProofs` proves for any sets of calls, handler calls, closers and
inbound requests and any `MaxFrames`:

| Theorem | States |
|---|---|
| `Invariance` | `Spec => []Inv` |
| `TypeCorrect` | `Spec => []TypeOK` |
| `RepliesAreMatched` | `Spec => []ReplyIsMine` |
| `PumpIsNeverBlocked` | `Spec => []PumpNeverBlocks` |
| `TableIsClean` | `Spec => []NoPendingLeak` |
| `Refinement` | `Spec => KeepsPromise`: the session implements `McpCalls!Spec`; `mcp_session` checks the stronger fair one |

The only assumptions are those of `McpSession`: application and handler calls
are disjoint, `NoCall` is neither, and `MaxFrames` is a natural number.

None of the three properties is inductive. That a reply is mine depends on what
is in the channel, which depends on the entry the pump took, which depends on
the id in the frame, which depends on ids being unique. `Inv` states each link:

- `IdsAreOwn`: ids are not shared, and a call has one exactly when it has begun;
- `ResponsesAreTrue`: a response in transit carries the id of its call;
- `EntriesAreOpen`: an entry belongs to a call that has not returned, whose
  channel is empty, and that is not the one the pump is delivering to;
- `ChannelsAreOwn`: a channel holds nothing, or the one reply meant for it, and
  the channel the pump is about to fill is empty;
- `HandlersWait`: a notification in transit starts a call that has not begun;
- `OutcomesAreTrue`: an outcome is set once the select is left, and is no false one.

There is one lemma per action (`TakeIDKeepsInv`, ..., `CloseKeepsInv`) and one
step per conjunct in it; `NextInv` puts them together. The capacity of 1 is where
`EntriesAreOpen` and `ChannelsAreOwn` meet: a channel can only be filled by
whoever took its entry, and the entry exists once. `Refinement` maps the state to
`McpCalls` (`CallStatus`, `Answered`: a call is answered while a reply to it is in
transit, in the pump, in a channel, or returned) and shows for every action that
it is an abstract step or a stutter; a return with a reply is a step because
`Inv` says that the reply was that call's own.

### The MCP client

`McpClientProofs` proves for any finite set of callers, with or without the
heartbeat, and any number of faults and sessions, under `ClientAssumption`:

| Theorem | States |
|---|---|
| `NoSessionIsLeft` | `Spec => []NoSessionLeft` |
| `ClosedIsForGood` | `Spec => []ClosedForGood` |
| `ReconnectingEnds` | `Spec => []ReconnectsAreBounded` |

The first two rest on `ClientInv`: `c.mu` is held over several steps by exactly the
goroutine in the handshake (`LockIsHandshake`), and while it is held no session is
current and the client is open (`LockedClient`), so that nothing can close the
client or connect beside the handshake. The third is a count (`PaidFor`). A fault, or
the retry of a user, costs at most two connections: the session it ends (`Lost`), and
the one that the heartbeat, which met the dead session too, tears down late (`Owed`).
An open client has never made more connections than have been paid for, what it
still owes included; `Charged` and `Free` say so of a step that is paid for and of one
that is not, and making the connection settles the loss (`ConnectIsPaid`). That the
retry of a user is paid for once needs `ResetsOnce`, and that a new session does not
make the heartbeat owe anything needs `AtOpened` and `CurrentOpened`. The theorem also
says from where on `MaxSessions` cuts nothing off.

### The xxl-job executor

`XxlJobProofs` proves for any requests, jobs, handlers and block strategies, under
nothing but `XxlJobAssumption`:

| Theorem | States |
|---|---|
| `TypeCorrect` | `Spec => []TypeOK` |
| `BusyIsBusy` | `Spec => []NoStuckJob` |
| `NoOverlap` | `Spec => []OneRunPerJob` |
| `NoMixup` | `Spec => []OwnArguments` |
| `IdleIsIdle` | `Spec => []IdleBeatIsTrue` |

The last three speak of calm jobs, whatever happens to others. That cannot be
dropped: `xxljob_two_live` shows what a cover does, section 7 what a shared
handler does. There are three invariants, each resting on the one before.

- `TypeInv`: `cancelled` is a set of requests only if no Task is cancelled before a
  context was written to it, so `TypeOK` needs `ServedIsNamed`, `ContextsExist` and
  `TaskIsOfHandler` beside it.
- `ListInv`: a run deletes the entry under the name that its Task bears, so that the
  entry of a busy job has a run that will remove it needs `TaskIsNamed`: a Task of a
  handler with one job keeps the job's name.
- `CalmInv`, the argument why a Task without a lock is safe for the jobs it speaks
  of: a run that goes on is listed, and a request that is served found no entry
  (`ListIsTrue`); so the Task that `WriteContext` and `WriteFields` overwrite is one that
  no run works on; so the Task of a run bears its fields until it leaves the list
  (`TaskIsOwn`), it has read its own (`ReadOwn`), and the entry it deletes is its own.

After `Delist` nothing is promised: `Post` may read a later request's LogID.

### dami stream

`DamiStreamProofs` proves, for any number of listeners, whichever of them push from
goroutines of their own, any number of items and any capacity:

| Theorem | States |
|---|---|
| `TypeCorrect` | `Spec => []TypeOK` |
| `NothingLost` | `Spec => []NothingIsLost` |
| `OnlyLatePushesPanic` | `Spec => OnlyLatePushPanics` |
| `ErrorsAreLast` | `Spec => []ErrorIsLast` |

Control and data are separate invariants. `ControlInv` says where everybody is: the
dispatch has come as far as `turn` (`Dispatched`), the canceller starts with its end
(`CancellerWaits`), and `s.once` admits one goroutine, which closes `done` and then
`s.ch` (`OnceHolds`). That order is what `OnlyLatePushPanics` rests on: when the channel is
closed `done` is, so that whoever waits in a push has been woken by it
(`NobodyStranded`), and only a push that begins later can choose the closed channel.
`DataInv` relates what has been delivered to what was pushed, one listener at a time;
its step lemmas know only that `Append` adds one position and that a receive moves the
first one from `ch` to `received`. `accepted` counts the items that were sent while the
stream had not been ended, and `ReadToTheEnd` says that the consumer's loop ends with an
empty, closed channel. `ErrorInv` follows who may still send behind an error: a listener
that is in its `once` sends nothing, the dispatch has not gone on to another
synchronous one, and so who sends, or who failed, is in `Async`.

### dami lpc, the bucket and the bus

`DamiBusProofs` proves for any registrations, removals, methods, listeners, calls and
holders:

| Theorem | States | Assumes |
|---|---|---|
| `SlotIsExact` | `Spec => []SlotListsListeners` (`DamiLpc`) | `Careful` |
| `OneRegistration` | `Spec => []RegisteredOnce` (`DamiLpc`) | `Careful` |
| `BusRegisters` | `BusSpec => Spec`: the bus implements the registration of `DamiLpc` | nothing |
| `BusSlotIsExact`, `BusOneRegistration` | the first two, of the bus | `Careful` |
| `FirstWins` | `BusSpec => []FirstReplyWins` | nothing |
| `MatchRegular` | `BusSpec => []MatchIsRegular` | nothing |
| `CallAnswered` | `BusSpec => []CallIsAnswered` | nothing |
| `PanicNeedsRemove` | `BusSpec => []PanicIsDisturbed`: only a `Match` that a `Remove` has disturbed reads a cleared element | nothing |
| `BusTypeCorrect` | `BusSpec => []BusTypeOK` | `Careful` |

`Careful`: nobody unregisters a type while it is being registered (section 7 says
what happens otherwise). The invariant of the registration accounts for every
listener (`Accounted`): it is on the bus because the slot lists it, because a
registration under way has added it, or because a removal has still to take it off.
With `Reserved` (one registration at a time, its slot empty) and `Settled` (what a
removal has taken is no longer listed, and no other removal has it) each action
moves listeners from one of the three to another.

`StepIsLpc` shows that every step of the bus does to the slot and the listeners
what `DamiLpc` allows, or nothing, so its theorems carry over. For the Future,
`FirstReplyWins` is inductive with the types and `GotIsReply`, that who has got
something got a reply: a full channel is never written, so until the first `Get`
it holds the first reply.

`MatchRegular` is about memory that is read without the lock that guards its writes.
`TagInv` says what the backing arrays hold: the cells of the bucket are the listeners,
each once, but for the one cell that `DeleteFunc` is about to overwrite
(`BucketExact`, `LeftOver`); and the slice that a `Match` copied is as it was as long as
no `Remove` has disturbed it, for `append` writes behind it or elsewhere (`AsItWas`).
`CallInv` carries that from the scan to the dispatch: a call has run or has still to
run every method that was registered throughout (`Runs`), unless somebody has replied.

### The flow engine

`FlowEngineProofs` proves for any set of graphs, any budgets and any number of
evaluations, halts and interrupts:

| Theorem | States | Assumes |
|---|---|---|
| `TypeCorrect` | `Spec => []TypeOK`; an evaluation stays within its budget | `Selects` of every graph |
| `ResumeIsTransparent` | the three properties below, of any instance | `WalksAreSound` of the acyclic graphs |
| `JoinsWait`, `NothingTwice`, `NothingLeftOut` | `Spec => []JoinWaits`, `[]NeverTwice`, `[]EndIsComplete` | `RunsOnce` of the acyclic graphs |

The last four need `MaxDone > 1`: `done` has to tell once from twice. `Selects` says
that `SelectSeq` yields links of the node, which is so of every graph but is a fact
about a recursive definition; TLC evaluates it (`SelectingGraphs`). Of a graph with a
cycle the properties say nothing, since `clean` is false there.

The argument compares an instance with a *walk*: one evaluation that nothing halts, as
data (`Start`, `Go`, `Ran`). What a step of the engine does to the calls and to the
Temporary is what a step of a walk does, whether it is reverting or not (`VisitDoes`,
`IterateIsGo`); only `done` differs. The invariant `ReWalkInv` says that what has been
done since the first evaluation is a *stretch* of a single walk. An evaluation is in one
of four modes with respect to its trace `tr`: it has not begun; it is on its way back,
in an earlier state of the trace, before the node it looks for (`Back`); it goes on at
the end of the trace (`On`); or it has been halted there (`Halted`). A condition that fails
on the way back leaves the trace alone; one that fails further on cuts it where it met the
node that was recorded last (`Recent`), which is met once (`MetOnce`). When the re-walk meets the
start node it is in the trace's last state, because that node ran once and there is
only one place where it was reached: this is where the proof needs that the start node
of a clean resume has `Times` 1 and is no join, and it is where resumes at other nodes do
repeat work.

So a halt changes nothing that the graph itself does not do wrong, and it remains to
say which graphs do nothing wrong. `WalksAreSound(g)` asks for a set of states that no
step of a walk leaves and in which the three properties hold. It fails for the nested
inclusive gateways of `flow_nested`. For one class of graphs it is proved: those of which no
node should run more than once (`RunsOnce`), built of activities, exclusive and parallel
gateways. Exclusive alternatives may meet anywhere as long as one arrives; every branch
must arrive at a parallel join that is reached at all. Each call on the stack is then an
*arrival*, sent by a node that is done, and an arrival is either still in `todo` or
used; a join that is not yet done has counted those that were used, a node that is done
has used all of its own (`Settled`). A join that is passed has the count of a set as large as
all of its arrivals, so it is all of them; and the first node that a finished walk left
out would have been sent for by earlier nodes, which it did run (`OnceComplete`). TLC
evaluates `RunsOnce` on the four graphs of the run that belong to the class
(`OnceGraphs`); for inclusive gateways and loops `WalksAreSound` is left to the runs.

### The flow workflow

`FlowWorkflowProofs` proves for any graph of activities and parallel gateways, any
users and any number of failures, under `WorkflowAssumption`:

| Theorem | States | Assumes |
|---|---|---|
| `TypeCorrect` | `Spec => []TypeOK` | nothing more |
| `TasksAreHandledOnce` | `Spec => []HandledOnce` | nothing more |
| `TasksInOrder` | `Spec => InOrder` | `SimpleGraph` |

`HandledOnce` alone is not inductive: that a submission of a WAITING node, or a walk
that has read UNKNOWN, runs nothing twice needs `DoneIsCompleted`: a node that has
run is COMPLETED until it is sent back, or torn. Every action but the readers
either runs a node, rewrites its state, or removes states (`Ran`, `Rewrites`,
`StateRemove`), and there is one lemma for each. `PuttingHasNode` is there for the
types: a walk that writes has a node it writes.

`SimpleGraph`: the graph is finite, only gateways join, no node is linked twice from
one node, and a node is followed by at most one automatic one. It holds of the graph
of `flow_workflow`; the last part fails for the one of `flow_workflow_fan`, where
`InOrder` fails too, and without the second an activity with two incoming links is a
merge, which the code runs at the first arrival. Nothing is assumed of cycles.

`OrderInv` says three things. A WAITING node is ready, its predecessors done or undone
since (`WaitingIsReady`). A submission holds the lock and evaluates the graph once, so
that its Temporary is fresh when it does (`EvaluatesOnce`, which is where the graph of
`flow_workflow_fan` breaks it). And a walk is sound (`WalkIsSound`): there is a sequence
of edges by which it will arrive at the nodes of `todo`, and a set of those by which it
has arrived, such that no edge is taken twice, a node's outgoing edges are taken when
all its incoming ones have been, and a join has counted exactly those that are gone
(`Sound`). A join that is passed has then been reached by all its edges, because the
count of a set that has the size of the set of all is the set of all (`Enters`). `Sound`
is a formula about data, so what a walk does to it is proved without the state
(`Arrives`, `GoesOn`, `Dropped`, `Begins`); that other users only add to what is done
is `ReachedGrows`.

### The AI loop

`AutopilotProofs` proves

| Theorem | States |
|---|---|
| `TypeCorrect` | `Spec => []TypeOK`; no session begins more than `MaxIterations` iterations |
| `WakeupsArrive` | `Spec => []NoLostWakeup` |
| `ResultHolds` | `Spec => []ResultIsState` |
| `StopIsPrompt` | `Spec => []AtMostOneLate` |
| `ResultIsFinal` | a result is given once: `Spec => [][ResultStays]_sessionVars` |
| `PipelineImplementsSessions` | `PipelineSpec => Spec`, so all of the above holds of a pipeline's stages |
| `OneStageAtATime` | `PipelineSpec => []StageIsAwaited` |
| `SuccessMeansComplete` | a pipeline that answers Success has completed every stage |

for any sessions, stages, adapters and limits. `SessionInv` carries them: `running`
is never true in a terminal state, a result exists only on the way out of the
loop, and after `Stop` only an iteration whose check came before it begins. Sessions
do not disturb each other (`UntouchedKeeps`), so the invariant is shown of the one
that moves. `PipelineInv` adds that the stages behind the current one have completed,
which is why the next may start.

### What is only model-checked

All liveness, and the fair refinement (`KeepsFairPromise`), since the prover
reasons neither about fairness nor about `ENABLED`. Of `FlowEngine`'s safety properties,
the part that says what an unhalted evaluation of a graph with inclusive gateways or
loops does: that compares the counters and stacks with `Times`, a recursive function
over the graph, and what it computes for every graph takes an induction over data,
which is out of the prover's reach. `RunsOnce` states what the proof needs of `Times`
as a condition on the graph instead.

## 7. What the runs found

Four disagreements between code and documentation, each shown by a run:

1. **Two live runs of one job** (`xxljob_two_live`; `plugins/xxljob/executor.go:334`).
   `callback` deletes the list's entry of the job, whichever run it stands for. A
   covered run that returns late deletes the entry of the run that covered it, and
   a third request is accepted and runs beside it; `docs/guide/xxljob.md:222` says
   that a job in progress refuses or covers.
2. **Inclusive joins that do not wait** (`flow_nested`; `flow/engine.go:368`). All
   inclusive gateways of a graph share one stack and a gateway pushes also when
   it is passed as a join. The join of an inner gateway leaves its own 1 on top
   of the outer fork's number, so the outer join is passed at its first arrival,
   and what follows it runs twice. In a loop the join's counter is not reset and
   the second round is let through early. `docs/guide/flow.md:211` says that it
   counts and waits until all have arrived.
3. **A parallel join that does not wait** (`flow_workflow_fan`;
   `flow/workflow/executor.go:240`). After a submission `forwardHandle` evaluates the
   graph from its start once for every automatic node that follows, each time
   with `ex.CopyFor`, which keeps the Temporary with the counters of the joins. The
   arrival that the first evaluation leaves at a join is still there in the second,
   which arrives by the same branch, and the join is passed although the human
   task of the other branch was never done. `docs/guide/flow.md:212` has it wait for
   all, and `docs/arch/flow/01-go-comparison.md:394` says that the copy has a new
   Temporary. One user and no concurrency are enough; the graph needs an automatic
   task directly after the submitted one for each of two branches.
4. **A paused session that cannot be resumed** (`ai_loop_resume`; `ai/loop/engine.go:322`).
   A `Pause` during an iteration sets PAUSED; the iteration's `setState` writes
   VERIFYING and the next phase over it, while `paused` stays. The goroutine then
   waits, and `Resume` does nothing for a session that is not PAUSED. Only `Stop`, or
   a second `Pause` and `Resume`, wakes it;
   `ai/loop/state.go:9` says that resume really goes on.

Seen while modelling, without a run of their own. Some are stated by definitions
that no run checks, since the code does not keep them:

- A claim reads UNKNOWN, another user claims and submits the task, and the claim's
  WAITING overwrites COMPLETED: the task is given out and submitted once more,
  although `docs/guide/flow.md:306` says that `SubmitTaskIfWaiting` prevents it. Two
  walks may both find an automatic node UNKNOWN and both run it (`torn`).
- A `Stop` that the goroutine notices leaves the session without a result, and
  `WaitForCompletion` waits for one for ever, a pipeline with it
  (`WaitReturns`; `ai/loop/engine.go:342` has it wait for the terminal state). One that
  it does not notice, since `setState` overwrites FAILED, may end COMPLETED.
- A session's state listeners run with its lock held; one that asks for the state
  waits for itself. A cancel between two stages stops nothing.
- A run that ends between the `Exists` and the `Get` of `/kill` makes it panic
  (`KillAnswers`). A request that is accepted while a run's callback is between its
  delete and its post gets two results and the run's request none
  (`OneResultPerRequest`). The heartbeat has no end and registers a stopped executor
  again (`StaysRemoved`).
- Two calls that see one dead session of `McpClient` both reset: the slower one
  closes the session that the faster one has reconnected, whose only retry then
  fails (`OneFaultIsHidden`).
- A Future that is read twice: the second reader waits for its context, or gets a
  late second reply, although `dami/future.go:53` says that the channel stays
  readable.
- A listener that pushes more items than the channel of a stream holds blocks
  `StreamOn`, which has not returned the channel yet, until the context ends.
- A push that begins when the stream has been completed may send on the closed channel
  and panic, although `dami/stream.go:63` says that it yields to termination: its `select`
  finds the send and `done` both ready (lines 65-69). One listener on its own is enough,
  since `Next` completes the stream by itself when it is given a value of another type
  (lines 28-33), and nothing keeps the listener from pushing on.
- The error item is not the last one, as `dami/stream.go:9` says, when another listener
  that pushes from a goroutine sends between `Complete`'s error and its close of `done`.
- Jobs that name the same handler share its `Task`: parameters of one run reach
  the other, and a result is posted under the wrong id.
- A `Match` of the `TagRouter` during a `Remove` may miss a listener that stays,
  or read a cleared element: it copies the slice's header, not its elements,
  although `docs/guide/dami.md:158` promises a snapshot.
- `UnregisterProvider` during the registration of the same type removes the slot
  and leaves listeners on the bus.
- If the transport ends before `Close` is called, the once is used up and
  `Close` does not close the transport (`CloseClosesTransport` in `McpSession`).
- A flow that was halted at a join reached by a second branch, or in a loop's
  body, resumes at the first arrival or item and repeats what comes after it;
  `docs/guide/flow.md:252` has only the halted task run again. A branch that was
  interrupted counts as arrived after a resume. A loop over no items ends the
  flow without an error, since what follows a loop is reached from its body only.
- Steps are not counted while reverting, so with conditions that have changed the
  re-walk of a cyclic graph need not end.

## 8. What is not modelled

- **Session:** the JSON of frames, `SendNotification` (no state), logging.
- **Client:** payloads and capabilities of the typed operations (they differ in
  nothing else), paging (a page is an operation), roots, change consumers, the
  handlers of reverse requests during a handshake, the provider's tool cache.
- **Transports:** only the channel and its end, as `Transport` is used.
- **Executor:** `/beat`, `/log`, HTTP encoding, requests for unknown handlers.
- **Stream, lpc, bus, routers:** matching of topics, patterns and tags, reflection,
  `RemoveAll`, the exact part of the `PathRouter`, the `HashRouter`, interceptors, the
  order by index, the fallback of a call that nobody handles, payload types.
- **Flow:** `#graphId` subgraphs and their shared budget, the `when` of a node,
  registration of drivers and interceptors (the hooks' stop and interrupt are in
  the task outcomes), conditions that change, a disabled trace.
- **Workflow:** `SubmitTask` without a look at the state, BACK_JUMP and FORWARD_JUMP,
  gateways other than parallel ones, conditions and the variables they read, tasks
  that stop or interrupt the flow, subgraphs, `Task.Run`, the MySQL repository.
- **AI loop:** strategies and validators (their decisions are choices), state
  listeners, the state on disk, the guard, the pipeline's tracking record, which no
  step reads.

## 9. Plan

What is left, in this order; each step ends with its runs, mutants and map. The
number of runs is kept small, so a new question joins an existing run of its
module where the instance fits, and takes the place of a shallower one where it
does not.

1. **MCP server session** `McpServerSession`, with `sendRequest` as a second
   implementation of `McpCalls`, and its composition with `McpSession` in place of
   the external peer. Reverse requests during the client's handshake.
2. **flow** conditions that change between a halt and a resume in `FlowEngine`; the
   jumps and the other gateways in `FlowWorkflow`.
3. **db transactions** `DbTransaction`: nesting, commit, rollback, panic; abstract
   specification: all or nothing.
4. **AI stream, router, agent; cache, kafka, nami, config**: one module each, with
   the properties of section 1.
5. **Open questions of section 7** as runs, where they are worth more than a run
   that is there.

Proofs, in order: `WalksAreSound` for graphs with one inclusive gateway and its join,
and with a loop whose body is such a graph; then of each new module its types and what
its runs check.
