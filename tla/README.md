# Verification of industrial-ams

TLA+ specifications of the agent framework *iams*, model-checked with TLC, and theorems
about them checked by TLAPS.  Every definition is translated from the Python source; the
lines each one stands for are in `PROJECT.json` under `map`.

## 1. The system

An **agent** is a process with one asyncio event loop.  `Manager` runs its **coroutines**
(gRPC server, MQTT, OPC-UA, TCP, InfluxDB, Zeebe, event coroutines of its own) from their
setup to their stop.  Agents talk to each other over gRPC.  A **server** (framework,
directory facilitator, certificate authority) manages agents as services of a container
runtime.  A **simulation** runs many agents in one thread on a discrete-event kernel, and a
**scheduler** plans an agent's events.

| Part | Source | State | Operations | What is hard |
|---|---|---|---|---|
| Coroutine manager | `aio/manager.py`, `aio/interfaces.py` | table of coroutines, stop future, one setup, start and call task per coroutine | register, main, stop; setup, start, wait, loop, stop of a coroutine | interleaved tasks, exceptions, cancellation at every await, the ten-second limit |
| Event coroutine | `aio/interfaces.py` | event flag, stop future, `periodic` | run, stop, loop | a call during main or with the timer, cancels, TimeoutError of main |
| gRPC client | `aio/grpc.py` (`Channel`, `GRPCCoroutine`) | table of channels with reference counts, options, stubs | `channel`, `stub` | the await of a close, callers that differ, exceptions |
| gRPC connection | `aio/grpc.py` (`GRPCConnectionCoroutine`) | task, `connected`, wait | call, stop, stream, callbacks | reconnects, stop and restart at any time |
| gRPC server | `aio/grpc.py` | server, servicers | add, setup, start, loop, stop | as a coroutine of the manager |
| Zeebe | `aio/zeebe.py` | `_jobs`, `_watch` | job callback, start, cancel, message | jobs delivered again, watchdogs, retries after lost answers |
| TCP | `aio/tcp.py` | reader, writer, heartbeat task, stop future, time of the last write | start, loop, heartbeat, write, stop | stop from several tasks, a timer computed before writes that go on |
| OPC-UA | `aio/opcua.py` | client, caches of nodes, subscriptions | start, loop, read, write, subscribe, stop | caches filled across an await, several stops at once |
| MQTT, InfluxDB | `aio/mqtt.py`, `aio/influx.py` | client in a thread | start, publish or write, stop | callbacks from another thread |
| Simulation kernel | `interfaces/simulation.py` | heap, clock, counter, agents | schedule, cancel, register, unregister, run loop | ties, limits, user code that changes the kernel |
| Simulation runner | `simulation.py` | list of runs, pool of processes, result files | generate, skip and run configurations, load agents | a dictionary shared by all runs, kills while files are written |
| Scheduler | `interfaces/scheduler.py`, `utils/scheduler.py` | events, states, time windows, horizon | save, get_events, state changes, solve | unguarded state changes, a lazy generator, failed attempts |
| Container runtime | `runtime.py` | services, secrets, configs (external) | create, update, delete, sleep, wake | several requests per operation, each may fail; handlers that overlap |
| Framework server | `server.py`, `servicer.py` | none | handlers over the runtime in a pool of threads | no lock, order of checks and effects |
| Directory facilitator, CA, plugins, helpers | `df.py`, `ca.py`, `plugins/`, `utils/` | none or external | | |

How they interact: the manager calls the coroutines and cancels them; a gRPC connection
opens channels of the agent's gRPC coroutine, whose close cancels its stream; callbacks of
the protocol coroutines call the agent; the servicer calls runtime and CA; the kernel calls
the agents of the simulation and they call the kernel.

What makes each part correct is listed as properties below; what is hard to test in each,
with its line, under `hazards` in `PROJECT.json`.

## 2. Modules

An action is the code between two awaits: asyncio switches tasks nowhere else.  The
simulation kernel is one thread; there an action is the code between two calls of user code.

| Module | Models | Main correspondence |
|---|---|---|
| `AgentLifecycle` | abstract: an agent boots, serves, stops, is down | |
| `CoroutineManager` | `Manager.main` with all coroutines | `phase` is the await of `main`; `setup`, `start`, `call` the tasks; `cancel` what `main` cancelled; `todo`, `reports` the loop over `as_completed` |
| `EventCoroutine` | `EventCoroutine` | `pc` is the await of the task; `event`, `stopped`, `periodic` are its fields |
| `EventSimulation` | abstract: a queue of events with a clock | |
| `SimulationKernel` | `SimulationInterface` | `pc` says whose code runs; `queue` is the heap, `at`, `prio`, `dt` the events |
| `ZeebeJobs` | job callback and watchdogs | `jobs`, `watch` are the two dictionaries; the gateway is external |
| `ZeebeRequests` | start, cancel, message | one retry loop per call; the gateway is external |
| `GrpcChannels` | `channel`, `stub`, `_channel` | the fields of every `Channel` object, by its number |
| `GrpcConnection` | `GRPCConnectionCoroutine` | `stage` is the await of `_main` |
| `SchedulerEvent` | `ETX`, `Event` and `get_variables`, as operators on records | an event is a record of its fields; `None` is a time that is not set |
| `BufferScheduler` | `SchedulerInterface`, `BufferScheduler` and the agent that uses them | `event` are the events created, `events` is `_events`; a request is one action with the sweep of `get_events`, the constraint problem and what is written back |
| `SwarmRuntime` | `DockerSwarmRuntime` under concurrent handlers of `FrameworkServicer` | `service`, `secrets`, `configs` are the swarm; `handler[h]` the local variables of a call, `pc` its next request; `view` says whether the version it has read is still that of the swarm |
| `TcpCoroutine` | `TCPCoroutine` with its heartbeat | `call` and `hb` are the awaits of the two tasks; `last`, `left` count ticks since `_last` and to the end of the sleep |
| `OpcuaCoroutine` | `OPCUACoroutine`, its status callback, subscriptions and look-ups of nodes | `call` is the await of the task; `subscriptions`, `nodes`, `paths` are the tables; `created` is what the server has |
| `SimulationRuns` | `main`, `process_config`, `run_simulation` of the runner | `settings` is the dictionary of the configuration, `list` is `kwarg_list`, `files` the result files |
| `BufferScheduler_proofs`, `SwarmRuntime_proofs`, `TcpCoroutine_proofs`, `OpcuaCoroutine_proofs` | theorems about the module of the same name | |
| `CoroutineManager_proofs` | theorems about `CoroutineManager` and `EventCoroutine` | |
| `Zeebe_proofs` | theorems about `ZeebeJobs` and `ZeebeRequests` | |
| `Grpc_proofs` | theorems about `GrpcChannels` and `GrpcConnection` | |
| `Simulation_proofs` | theorems about `SimulationKernel` and `SimulationRuns` | |
| `MC*` | values for TLC | |

Code of users (setup, start, loop, main, callbacks, event hooks) is nondeterministic: it may
return, raise or never end, and where it may call the library it does so in any order.
Definitions with a suffix such as `WaitDone_NoAwait` are faulty variants: they occur in no
specification and show which property notices the fault (`mutants` in `PROJECT.json`).

Where the models assume something of what is outside the code:

- The agent of `BufferScheduler` saves an event before it reports anything of it and reports
  states in their order; what it may do at any time, in whatever state an event is, is to
  cancel it, to give it another date (`Appoint`, `Move`: the event is SCHEDULED again, even if
  it has departed) and to ask.  The solver is any function that returns an optimum.  Margins
  of time windows are zero.
- `CoroutineManager`, `EventCoroutine` and `TcpCoroutine` have both versions of
  `asyncio.wait_for`: before Python 3.12 (`setup.cfg` asks for 3.8) it loses a cancel that
  arrives together with its result.  `Lossy` are the coroutines of the manager whose start or
  loop awaits one: they go on as if nothing had happened.
- `GrpcChannels` has one stub per channel.  A `KeyError` of the body of a context is taken for
  a missing stub if the stub came from the table (`cached`): it is made anew.
- `SwarmRuntime`: the preconfigured secrets (`runtime.py:317`) and the request for the image's
  labels in `delete_agent_plugins` (line 134) are no steps of their own; they change nothing,
  and that they fail is part of `Fails`.
- `OpcuaCoroutine`: the client hands a cancel on, and the server forgets the subscriptions of a
  session that ends (`SessionEnds`).
- `SimulationRuns`: who kills the runner kills its worker processes, too.  Workers that outlive
  it, and write while the next invocation runs, are not modelled.

Two specifications are refined: `CoroutineManager` implements `AgentLifecycle`
(`ImplementsLifecycle`), `SimulationKernel` implements `EventSimulation`
(`ImplementsEventSimulation`).

## 3. Runs

| Run | Shows | Bounds and why they are enough |
|---|---|---|
| `CoroutineManager_Agent` | every order of setups, starts, loops, failures and cancels of all four kinds of coroutines: no loop before its start, none begins during a shutdown unless its cancel was lost, no start beside a setup, the gRPC coroutine waits for all starts before its server's end counts, an orderly shutdown leaves nothing running, a shutdown always ends, the life cycle is implemented | at most three coroutines and the agent (`AtMostThree`): a fault needs one that ends, one that is cancelled and, for the gRPC coroutine, one that starts; the cancels of the base and the event coroutine can be lost (`Lossy`) |
| `SimulationKernel_Order` | accounting, and the refinement of the abstract event queue with its order of events and its clock | three events: two that tie while a third is run; delays 0, 1, 2 and a limit of 2 reach ties between events scheduled at different times and events beyond the limit |
| `EventCoroutine_Loop` | no call of `run` is lost, no main after stop, a cancelled coroutine ends | none; all fields are finite |
| `ZeebeJobs_Pool` | one task per job at a time, always supervised, completed only by a result | two jobs, two deliveries each |
| `ZeebeRequests_Retry` | what the calls report is true, they return when the gateway is back | one start, one cancel, two sends of the same message, one lost answer each, longest wait 1 |
| `GrpcChannels_Callers` | who closes an instance on leaving is the last one inside, for all callers and however contexts end; callers that agree never lose their instance and leave nothing behind but what an exception left counted | three callers, two contexts each; five mixtures of wishes |
| `GrpcConnection_Retry` | connect and disconnect alternate, the first wait is short, a stopped task ends, a lost connection comes back | longest wait 3 |
| `BufferScheduler_Plan` | every plan can be carried out by one processor and an input buffer, no waiting event is planned over one that has departed, no event gets lost | two events, one with an appointment; two clock values (with three, and one registration of each event, the properties hold as well); horizon 3, buffer 1; two registrations of each event, so that one that was cleaned up can be given another date and saved again; one of the events is cancelled or given other dates in any state: enough for an early, a late, a departed but kept and a refused event; `Resolution` 1, the default of the code, as the theorems assume it: with another one `PlanFeasible` is false (`BufferScheduler_Resolution.cfg`) |
| `SwarmRuntime_Handlers` | certificate and key of a service belong together; a call that is alone succeeds; an update of a service that exists, or its destruction, that is alone leaves exactly the secrets that are referenced, whatever failed or concurrent calls have left; overlapping updates never put a running agent to sleep | two handlers, one agent, three certificates, one configuration: two calls that overlap find what a third has left; certificates that are not in use any more are issued again; symmetric in handlers and certificates, which no property tells apart |
| `TcpCoroutine_Connection` | the heartbeat is in time whatever is written meanwhile, none begins after a stop, a cancel ends loop and heartbeat | interval of two ticks: a write falls before, on and after the middle of a sleep; longest wait 2 |
| `OpcuaCoroutine_Connection` | a connection is closed before anybody believes it to be, the coroutine ends when it is cancelled or its server goes | one callback beside the loop and the cancel; two tasks with one request each for one interval, one name and two paths: enough to meet in every table |
| `SimulationRuns_Results` | every complete result belongs to the settings it is named for, complete results are not touched again | two products of two values, one of which replaces a default; two processes; three invocations: one is killed, one finds its files, one forces |

Invariants and properties that are not part of a run hold in the same instances; TLC confirms
them when their names are added to the run's configuration: `TypeOK` of every module,
`AbortOnlyWhileStarting` (`CoroutineManager_Agent.cfg`), `TimeNeverGoesBack`
(`SimulationKernel_Order.cfg`), `Coalesced`, `RunServed`, `StopEnds`
(`EventCoroutine_Loop.cfg`), `AbandonedEnds` (`ZeebeJobs_Pool.cfg`), `PersistentStays`
(`GrpcChannels_Callers.cfg`), `PeerGoneEnds` (`TcpCoroutine_Connection.cfg`).
`SimulationKernel_Hooks.cfg` checks `Accounting` with two agents, negative delays and hooks
that change the queue, where it is a theorem as well.

What the code does where its documentation says otherwise (`findings` in `PROJECT.json`) can
be shown with configurations that are kept beside the runs; each property below is violated.
TLC stops at the first violation; with `-continue` it shows those of all properties of a
configuration.

| Configuration (module) | Property | What the code does |
|---|---|---|
| `CoroutineManager_Divergences.cfg` (`MCCoroutineManager`) | `StopAfterCancel` | the loop of a gRPC coroutine swallows the cancel and its stop is not called (`grpc.py:121`); so does one whose `wait_for` loses the cancel and that ends by itself then (`tcp.py:95`) |
| | `ThreadReleases` | what an MQTT or InfluxDB coroutine opened is not released (`interfaces.py:101`) |
| | `AllCancelledInTime` | a CancelledError leaves `main` (`manager.py:110`) and the other coroutines are abandoned at once |
| | `StartAfterSetup` | if the last setup to end is the one that fails, the agent starts anyway (`manager.py:56`) |
| | `GrpcServesLast` | the gRPC server serves from its start (`grpc.py:129`), while other coroutines are starting |
| `EventCoroutine_Timeout.cfg` (`EventCoroutine`) | `WaitsForEvent` | a `TimeoutError` of main starts the next main at once (`interfaces.py:157`) |
| `BufferScheduler_Planning.cfg` (`MCBufferScheduler`) | `CanScheduleMeansSave` | an event that can be scheduled is refused by the save that follows (`utils/scheduler.py:543`) |
| | `StaysValid` | a state that was just planned is not valid: planning changes the order of the events |
| `BufferScheduler_Divergences.cfg` (`MCBufferScheduler`) | `Answered` | a departed event that is cancelled makes the next request raise (`utils/scheduler.py:252`) |
| | `OutputBufferHolds` | the output buffer has the size of the input buffer (`utils/scheduler.py:518`) |
| `BufferScheduler_Resolution.cfg` (`MCBufferScheduler`) | `PlanFeasible` | reported starts and ends are stored and read in the wrong unit if a step is not a second (`utils/scheduler.py:157`) |
| | `BoundsInOrder` | the upper bound of an arrival is the lower one, converted twice (`utils/scheduler.py:64`): with longer steps it is below it, and the event is refused |
| `BufferScheduler_Zero.cfg` (`MCBufferScheduler`) | `PlansAroundDeparted` | times of zero count as not set (`interfaces/scheduler.py:275`) |
| `SimulationKernel_Divergences.cfg` (`MCSimulationKernel`) | `ProcessedEvents` | cancelled events are counted as processed (`simulation.py:210`) |
| | `StateAvailable` | `unregister` does not tell the directory facilitator |
| `EventCoroutine_Swallow.cfg` (`EventCoroutine`) | `EveryCancelEnds` | before Python 3.12 `wait_for` may lose the cancel |
| `ZeebeJobs_Stale.cfg` (`ZeebeJobs`) | `RefusedWhileProcessed` | a job whose task has failed is refused for ever (`zeebe.py:114`) |
| `ZeebeRequests_Divergences.cfg` (`ZeebeRequests`) | `SendFailure` | a message whose answer was lost is reported as not sent (`zeebe.py:192`) |
| | `CancelReports` | `cancel_process` returns nothing, its docstring says True or False |
| `GrpcConnection_Divergences.cfg` (`GrpcConnection`) | `StopDisconnects` | after a stop `connected` stays True |
| | `CallStarts` | a call before the cancelled task has ended is ignored |
| `SwarmRuntime_NotFound.cfg` (`MCSwarmRuntime`) | `NotFoundChangesNothing` | update is reported as NOT_FOUND after it has written the service (`runtime.py:379`) |
| `SwarmRuntime_Alone.cfg` (`MCSwarmRuntime`) | `OnlyOwn` | a call for one agent finds the service of another whose name begins with its name (`runtime.py:160`) |
| | `CreateCleans` | an update that creates the service does not remove the secrets that failed calls have left (`runtime.py:363`) |
| | `DestroyCleans` | a destruction that finds no service succeeds and leaves the secrets of one that failed half-way (`runtime.py:129`) |
| `TcpCoroutine_Divergences.cfg` (`TcpCoroutine`) | `ErrorStops` | stop is called and not awaited (`tcp.py:108`) |
| | `HeartbeatEnds` | a loop that ends by itself leaves its heartbeat running (`tcp.py:102`) |
| `OpcuaCoroutine_Divergences.cfg` (`OpcuaCoroutine`) | `StartReleases` | a start that fails leaves the connection open (`opcua.py:184`) |
| | `OneSubscription` | two subscriptions are created for one interval (`opcua.py:246`) |
| | `NamesAgree` | one name stands for two nodes (`opcua.py:257`) |
| `SimulationRuns_Divergences.cfg` (`MCSimulationRuns`) | `OwnResults` | a formatter that does not mention every product gives two runs one name (`simulation.py:61`) |
| | `FailedRepeated` | the file of a run that failed counts as its result (`simulation.py:77`) |

## 4. Fairness

- `CoroutineManager`: only `main` and the timer of `as_completed` are fair.  The event loop
  resumes a ready task; setup, start, loop and stop methods may await for ever.
- `EventCoroutine`: the task goes on when it can, and main ends some time.
- `ZeebeJobs`: an arrived delivery is handled, callbacks go on, a cancelled task ends, the
  watchdog of a job that is not delivered any more fires.  The agent's own code need not end.
- `ZeebeRequests`: an attempt ends and a sleep is over.  That the gateway comes back is a
  premise of the property.
- `BufferScheduler`, `GrpcChannels`, `SwarmRuntime`, `SimulationRuns`, `SimulationKernel`:
  none; their properties are safety properties.
- `TcpCoroutine`: the loop goes on, its read and `tcp_process_data` return, a cancelled task
  notices it, and of a closed connection the end is read some time (strong fairness: data that
  was on its way comes first).  `tcp_heartbeat` need not return, except by a cancel; a peer
  that is silent or sends for ever is never assumed to do anything else.
- `OpcuaCoroutine`: the start or call task goes on, for the client's requests return or time
  out.  Callbacks and the agent's tasks are not fair.
- `GrpcConnection`: the task goes on, callbacks return, an agent that answers sends a response.

## 5. Proofs

For every value of the constants that satisfies the modules' assumptions:

- `CoroutineManager_proofs`: type correctness, the inductive invariant, all four safety
  invariants, `NoLoopAfterShutdown`, and the refinement of `AgentLifecycle`.  The invariants
  are not inductive alone: what a cancelled task may do next depends on which phase `main` is
  in, which outcomes `as_completed` still has to report, why a task was cancelled and whether
  the cancel was lost (`lost`).  A coroutine that lost its cancel in its start may enter its
  loop while the agent stops: `NoLoopAfterShutdown` names that exception, and the life cycle
  has it as `Late`.  It tells the ways to go down apart: an orderly one leaves nothing running,
  a boot that was given up has served nothing.  The
  inductive invariant states these relations as named conjuncts, one proof step per action.
  About `EventCoroutine`: type correctness, `NoLostWakeup`, `Coalesced`, `NoMainAfterStop`; the
  invariant is that the event flag stands for exactly the unserved calls.
- `Simulation_proofs`, about `SimulationKernel`: type correctness and `Accounting` without any
  assumption on delays; `TimeNeverGoesBack` and the refinement of `EventSimulation`, which
  takes the notices in their order, under `Forward` (no negative delay, no hook that changes the queue), without which they are
  false.  The accounting is carried by an invariant that also counts the events in the heap.
- The same module about `SimulationRuns`: type correctness, `OwnResults` and `ResultsKept`
  for all products, pools and kills, under `Distinct`: the names tell the runs apart.  Without
  it two runs write one file, and `OwnResults` is false (`SimulationRuns_Divergences.cfg`);
  `NamesTellApart` shows that it holds of every format that mentions the number of the run, as
  the default one does, or every key.  The invariant: a run of the list has the settings of its
  own row, no two of them have one name, the file of a run that is executed is empty, and
  without `--force` a run that has not begun has no file.
- `Zeebe_proofs`, about `ZeebeJobs`: type correctness, `OneTask`, `Supervised` and
  `CompletedByResult`.  The table `_jobs` alone decides whether a delivery starts a task, so
  the invariant relates it to the tasks: the entry of a job says how many tasks of it run, and
  a completion is under way only for a job with a result.  About `ZeebeRequests`: type
  correctness, `StartReported` and `SendReported` for any number of calls and lost answers,
  because only a process that is known was ever started, so that a rejection tells that no lost
  attempt was executed.
- `Grpc_proofs`, about `GrpcChannels`: `LastCloses` for all callers, however their contexts
  end, by arithmetic on the set of those inside (`Counted`: an exception makes the count of
  connections too large, never too small), and `PersistentStays`; for callers that agree on
  their wishes, `InUse` and `NothingLeft`.  Their invariant (`Agreed`) says what a differing
  caller would destroy: every Channel has the options wished for, whoever is inside uses the
  instance of the table's Channel, no other instance is open, and the Channel stays in the
  table while anybody needs it.  About `GrpcConnection`: type correctness, `PromptRetry` and
  `Alternating`; the flag `connected` and what the agent has heard agree at every await, and a
  connection that is established or has answered has reset the wait.
- `SwarmRuntime_proofs`: type correctness and `KeyPair` for any number of handlers and agents.
  The certificate and the key that a handler has collected are always those the authority
  issued for its own call, and a service takes its references from one handler; the lemma
  `Frame` says that this stays true of every handler when one of them takes a step.
  `NeverPutToSleep` needs that a handler whose version is current knows the number of replicas
  of the service (`Current`); one whose version is not is refused by the swarm.
  `AloneSucceeds` and `AloneCleans` rest on `AloneCalls`: a call that has met no other one has
  seen the swarm as it is, so that what it is about to create is not there, what it is about to
  remove is, and what it leaves is listed in its local variables.  `AloneCleans` is about
  calls that have found a service; for the others it is false (`CreateCleans`,
  `DestroyCleans`).  These two theorems assume `Longer = {}`, that no agent's name begins with
  another's: without it a call works on another agent's service (`OnlyOwn` in
  `SwarmRuntime_Alone.cfg`).
- `OpcuaCoroutine_proofs`: type correctness; and `LoopReleases`, because nobody can stop the
  coroutine before the connection is established and nothing opens it again.
- `TcpCoroutine_proofs`: type correctness; `HeartbeatInTime` for every interval, from the sum
  of the silence and of what is left of the sleep, which no write and no tick can bring above
  the interval; and `NoHeartbeatAfterStop`.
- `BufferScheduler_proofs`: type correctness, `NeverForgotten`, `PlanFeasible` and
  `PlansAroundDeparted` for any number of events with any times, any buffer, horizon and clock.
  `NeverForgotten` counts: the occurrences of an event in the registered ones fall by what the
  sweep cleans up and grow by what is saved (`Accounted`), and the sweep takes only what is
  over at that time (`RemovesOver`), whatever date it is given later.
  `PlanFeasible` follows request by request from the constraints: `get_variables` leaves what
  has happened already only its own times (`PlannedTimes`), so that the intervals of which
  `AddCumulative` allows one at a time are those of the events as they are written back
  (`PlannedApart`, `OneAtATime`); who waits at an arrival is in the input buffer of the plan
  at the time that the plan begins the wait (`InputHolds`); and whoever arrives earlier stands
  before the later one in the queue (`Sorted`).  That the queue is sorted, free of duplicates
  and complete for every registration is an induction over its length, made from a least
  counterexample (`Induction`).  `PlansAroundDeparted` says
  more than one plan: that `get_events` keeps every departed event whose stay overlaps with
  one that waits (`OverlappingKept`), for which the invariant `AllTimed` relates the states of
  an event to the times it has.
  Two hypotheses.  `Resolution = 1` is the default of the code (`utils/scheduler.py:264`); with
  another one `start` and `finish` store times in the wrong unit and `PlanFeasible` is false
  (`BufferScheduler_Resolution.cfg`).  `TimesPositive`, for `PlansAroundDeparted` only: the
  clock and the dates are not zero, as seconds since an epoch are not; zero counts as not set
  and the property is false (`BufferScheduler_Zero.cfg`).

Assumptions about constants are those of the modules, each justified by the code: bounds and
capacities are numbers, `None` (Python's) is not a value of the kind it stands beside (a time,
a path, a service, settings, a file), the products of a configuration are finite.

`CoroutineManager_proofs`, `Zeebe_proofs`, `Grpc_proofs` and `Simulation_proofs` extend two
components each; constants that both of them declare are shared by the proofs only, as no
theorem speaks of both.

Only model-checked:

- liveness and everything else under fairness (`ShutdownTerminates`, `CancelEnds`,
  `CallEnds`, `CallsReturn`, `StopEnds`, `Reconnects`, ...), which the prover does not reach;
- that the cost of a plan is what `SumFunction` computes: the theorems about `BufferScheduler`
  hold for every plan that satisfies the constraints, the optimum or another one;
- `PlanFeasible` and `PlansAroundDeparted` where a step of the solver is not a second: both are
  about seconds, and false there.

## 6. Not modelled, and the plan

Names and reasons are under `components` in `PROJECT.json`.  Not modelled on purpose: the
topology in ArangoDB, whose steps are queries in a language of its own that an external
database executes; the certificate authority and the plugins, which keep no state; plots,
certificates and other helpers; who may call the servicer.

Left, in this order:

1. Composition of `GrpcConnection` with `GrpcChannels`: the close of a channel by another
   caller instead of the abstract `ChannelClosed`.
2. Theorems: type correctness of `GrpcChannels`, whose bound on the number of Channels needs
   the sum of the uses of all users.
3. Reads, writes and data changes of `OpcuaCoroutine`; the loop of the framework server.
