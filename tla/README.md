# TLA+ models of the vertice request-dispatch and pipeline core

This directory holds TLA+ specifications of the control-plane code under
`src/`, the TLC configurations that check them, and `PROJECT.json`. It lists
the components, runs, mutants, the source lines behind each definition,
findings and hazards.

## 1. Inventory

| Component | Source | State it keeps | Operations |
|---|---|---|---|
| Request parser and operation taxonomy | `src/carton/req_parser.go` | none: a pure function of (CatId, category, action) | `ParseRequest`, `parseState`, `parseControl`, `parseOperations`, `parseDone`, `parseBackups`, `parseSnapshot`, `parseDisks`, `newParseError` |
| Pipeline executor | the `action` package. Its code is **not in this repository**; spec.md 4.2 describes it. | per run: the step index, `ctx.Previous`, each step's captured result | `Execute` (forward in order), `rollback` (reverse compensation) |
| Provisioning actions | `src/provision/one/actions.go` | none of their own. They act on the box's machine, its route in the router and its status. | Forward/Backward of `update-status-riak`, `create-machine`, `remove-old-machine`, `add-new-routes`, `remove-old-routes`, `follow-logs`, and the `rollbackNotice` hook |
| Coordinator | `src/coordinator/coordinator.go` | none. It spawns goroutines. | `NewCoordinator` (per queue message), `requestHandler` (create/delete), `eventsHandler`, `pluginAdministrator` |
| Daemon start/shutdown | `src/cmd/megamd/run/command.go` | signal channel, `cmd.Closed` | `Start.Run` (parse config, start, wait for a signal, Close, then wait for a 2nd signal, a 30 s timeout or Closed), `ParseConfig` |
| Assembly client | `src/carton/assembly.go` | the `Assembly` record fetched over REST | `get`, `dig`, `mkCarton`, `mkBoxes`, `SetStatus`, `SetState`, `trigger_event`, `NukeAndSetOutputs`, `Delete`, and input lookups |
| Docker image cluster | `src/provision/docker/cluster/image_test.go` | none | only a test file, commented out entirely |

**How the parts interact.** The coordinator receives a queue message and
fetches the request. It then starts `LaunchApp` or `DeleteApp` in a new
goroutine. Elsewhere, a request's (category, action) pair is classified by
the parser into a process variant. That variant is then executed as one or
more pipelines of actions. A pipeline passes each step's result to the next
step as `ctx.Previous`. When a step fails, the pipeline calls the Backward
of the steps already done, in reverse order, and gives each its own captured
result. The actions call external collaborators: the Machine (Create,
Remove, Logs, SetStatus) and the Router (AddRoute, RemoveRoute). Each of
these calls can fail.

**What is hard.**
- The pipeline has to be safe under partial failure, with no orphaned
  machine or route. It must also compensate in the right order, each step
  exactly once.
- Results are untyped (`interface{}`). Each step casts `ctx.Previous` or
  `ctx.FWResult` with a type assertion, so a bad composition panics at run
  time, sometimes in the middle of a rollback.
- Errors in Backward calls are only logged.
- Concurrent pipelines on one box are not locked.
- The coordinator starts goroutines without any ordering between them.
- Shutdown races a timeout against Close.

**What makes each part correct.**
- Parser: it is total and exact against the table in spec.md 4.1. Its
  errors report the pair that was sent and the allow-list of the scope that
  was matched.
- Pipeline: the caller sees either full success or a fully compensated
  failure. Compensation covers exactly the completed steps, in reverse.
  Execute always returns. A committed run leaves the box's route consistent
  with its machine.
- Coordinator: every create that fetched its assemblies gets them all
  launched, and a delete is never overtaken by an earlier create.
- Shutdown: Run eventually returns after a signal, and it honours a second
  signal.
- Assembly status: a status that SetStatus reports as recorded is what the
  catalog holds and what the latest event announces.

## 2. Modules

### ReqParser (`ReqParser.tla`, `MC_ReqParser.tla`)
The parser's code is translated into operators:
- `ParseRequest` is the category switch. Go's constant `STATE` is a TLA+
  keyword, so it is renamed `STATECAT`.
- There is one operator per handler (`parseState` ...). Each handler's switch
  becomes a table from action literal to `[variant, hard]`, and `Classify`
  looks the action up in that table or returns the handler's default error.
- `newParseError` joins `found` with `","`, using `FoldLeft`.

The state machine has one action, `Receive`, which classifies any request
from the bounded input sets. Those sets are the seven categories plus
`"nope"`, the 23 action literals plus `"bogus"`, and two CatIds. That gives
every category/action cross pair, including the spec's test inputs. The
checking reference is `SpecTable`, the table of spec.md 4.1 written out.

### Pipeline (`Pipeline.tla`, `MC_Pipeline.tla`)
Several `Execute` calls at once on one box. `Runs` is a set of model values,
one per goroutine calling Execute with its own Context. The executor state
is a function over `Runs`; the box is shared.

**Executor (modelled from spec.md 4.2).**
- `pc[r]` is `forward`, `backward`, `committed`, `compensated`,
  `misconfigured` or `crashed`.
- `params[r]` is `len(ctx.Params)`, 0 or 1. `MinParams` is what each action
  declares: 1 for remove-old-machine, remove-old-routes and follow-logs, 0
  otherwise. `configurationError` is the executor's check failing: Execute
  returns a ConfigurationError with no compensation. `paramsIndexPanic` is
  the check passing on an empty Params: the Forward's `ctx.Params[0]`
  panics.
- `i` is the current step.
- `previous` is `ctx.Previous`, and `results[j]` is the captured result of
  step j.
- `Succeed`, `Fail` and `BackwardDone` are the executor's transitions.
  `Fail` stands for OnError followed by rollback from i-1.
- `Panic` is a failed type assertion or a nil dereference: the goroutine dies
  and Execute never returns.

**Actions (translated from actions.go).** There is one TLA+ action per
Forward or Backward body:
- Each external call is a nondeterministic success or failure.
- Each `x.(machine.Machine)` assertion panics when `x` is not a machine.
- A result is `Nil`, `ImageId` or `MachineResult(routable)`.

The world is the box: `machine` (its VM exists), `route` (the router routes
to it) and `status`. `before` keeps the box as the run found it.

**Readings of code that does not compile.** Several lines of actions.go do
not type-check. They are read as the nearest compiling code:
- `return err` / `return nil` in add-new-routes is read as `(nil, err)` /
  `(nil, nil)`.
- create-machine's `return cont, nil` returns the machine.
- remove-old-routes' `ctx.FWResult` in Forward is read as `ctx.Previous`,
  the only machine a forward context has.
- The various `ctx.Params[0]` argument types are taken to be one value that
  satisfies every assertion, when a parameter is given at all.

**No abstract specification.** An earlier version refined the executor onto
a caller's-view specification (running, then committed, compensated or
rejected). It was dropped: the executor is modelled from spec.md, so the
refinement held by construction of `Succeed`, `Fail` and `BackwardDone`,
and nothing in actions.go could break it. For the same reason there is no
property about the order of the Backward calls. What the actions can
break is checked instead: that a run returns (`ReturnsToCaller`), leaves
no dangling route, and is compensated when its Backward calls succeed.

**Fairness.** The fairness is `WF_vars(RunStep(r))` for each run. A run is
one goroutine making blocking calls, and the spec says these calls are not
preempted. Whenever one of its steps is enabled, the goroutine eventually
takes it, whatever the other runs do. Terminal states really
are final, because Execute has returned, so the cfgs say
`CHECK_DEADLOCK FALSE`.

**Compositions.** The code that builds pipelines is not in the repository.
`MC_Pipeline` checks the compositions spec.md names:
- Launch `<<US, CM, ANR>>` on a fresh box (scenario C).
- Launch and follow logs `<<US, CM, FL>>`.
- Replace `<<US, ROR, ROM, CM, ANR>>` from a fresh, a running and an
  unrouted box.
- A step after add-new-routes `<<US, CM, ANR, FL>>` (spec.md 8, property 6).
- Decommission `<<US, ROR, ROM>>` of a running box.
- Launch built with no parameter, and `<<ROR, ROM>>` (unrouting a running
  box) built with no parameter. The first reaches `paramsIndexPanic`, the
  second `configurationError`.

Concurrent runs that both touch the box (one run's Backward removing the
machine another run committed) are reachable, and `NoDanglingRoute` fails
with two runs (every cfg uses `Runs = {r1}`). spec.md 5 calls this a known sharp edge that an external
scheduler must serialise, so no run asserts it; it is a hazard in
`PROJECT.json`.

Every Forward and Backward that some composition can reach fires in a
passing run. With six steps and every external call free to fail, each
failure position and each compensation path is explored.

### Coordinator (`Coordinator.tla`, `MC_Coordinator.tla`)
This module models the message dispatch of `coordinator.go`.
- `Queue` is a sequence of message records. Each record gives the queue
  name, whether `json.Unmarshal` succeeds, the request type, the assembly
  ids named, and the event name.
- `next` is the next message `NewCoordinator` is called with. `outcome[m]`
  records how its handler returned.
- There is one action for each way a handler returns:
  - `requestHandlerEarlyReturn`: the parse fails, or `request.Get` fails.
  - `createAssembliesFetchError`.
  - `createFetchErrorAt`: the i-th fetch fails after the goroutines of
    positions 1..i-1 were spawned.
  - `createRequest`, `deleteRequest`, `otherRequest`, `eventsHandler` and
    `otherQueue`.
- The create loop's `len(id) > 1` check is `LongId`, on a constant length
  table.
- A handler runs as one atomic step. The goroutines it spawns cannot change
  what the handler does next, because a fetch reads nothing they write. So
  only the order of goroutines relative to one another and to later messages
  matters.
- `tasks` holds the spawned goroutines that are still running, and `spawned`
  holds every goroutine ever spawned. `LaunchApp`, `DeleteApp` and
  `pluginAdministrator` finish one task each.
  - The bodies of these calls are outside the repository, so each call may
    fail, and a failure is recorded in `failed`.
  - The world is `deployed[a]`, `watched` and `notified`.
- The MC queue holds:
  - a create of `a1`, `x` and `a2` (`x` is one character long);
  - a delete of `a1`;
  - a notify event and an unparsable event;
  - an `update` request;
  - a message on another queue.
- `Handle` is one call of `NewCoordinator`; `RunTask(t)` is goroutine `t`
  running its body to the end.
- Fairness is `WF_vars(Handle)` and, for each goroutine `t`,
  `WF_vars(RunTask(t))`. The transport keeps delivering messages, and the Go
  scheduler eventually runs each runnable goroutine whatever the others do.
  Nothing stronger is assumed: a goroutine's progress does not depend on
  another one's.

### Shutdown (`Shutdown.tla`, `DaemonLifecycle.tla`)
This module models `Start.Run` as a program counter that goes through
`parse`, `megd`, `notify`, `wait` and `drain`.
- `dry` is the `--dry` flag (`DryFlag`), and `ConfigDecodes` is whether
  the TOML decode succeeds.
- `ParseConfig`: `log.Fatal` exits the process, so the `return fmt.Errorf`
  after it never runs. `--dry` returns nil.
- `Megd`, then `Notify`.
- `wait` is the stretch between `signal.Notify` and the first select
  (lines 94-98); `blocked` is Run waiting in the first select; `drain` is
  Run waiting in the second.
- `Signal` is the environment's action. Before `Notify`, a signal kills the
  process. In `wait` it fills the capacity-1 `signalCh`, or it is dropped
  (counted in `lost`) when the channel is full. A receiver already waiting
  in a select takes a signal directly from the sender (Go hands a value to
  a waiting receiver without using the buffer): in `blocked` the signal
  starts `Close`, and in `drain` it makes Run return. The steps between a
  receive and the next select (`go Close`, a log line) are taken with the
  receive.
- `Block` is the first select finding the channel empty; `FirstSignal` is
  it finding a buffered signal and starting `Close`. `CloseDone` is `Close`
  finishing.
- `Drain` is the second select ending on the timer or on `Closed`.
  `time.After(30 s)` is `Timeout` clock ticks (`Tick`).
- There is weak fairness on Run's own steps and on the clock. There is none
  on `Signal` or on `CloseDone`: nobody has to send a signal, and `Close`
  belongs to a type outside the repository and may hang.
- `DaemonLifecycle.tla` is what the comments of `Run` promise: `starting`
  (parse, `--dry`, Megd), then `serving` until a signal is received, then
  `stopping`, then `stopped`; a signal while starting ends the process.
  `Shutdown` maps `pc` onto the phase, `sent` onto the signals sent, and a
  signal buffered in `signalCh` onto `signalled`. A signal sent while
  serving is recorded or acted on at once, and one sent while stopping ends
  the shutdown, as the comment at lines 106-107 says. `LifecycleSpec` checks
  that Run implements it, its fairness included: the daemon never hangs
  while starting, acts on a received signal, and returns once stopping,
  even when `Close` hangs.
- The bounds are `MaxSignals = 4` and `Timeout = 4` in `shutdown_liveness`.
  They are enough for two signals in the `wait` window (one lost), one more
  in the drain, and a spare. `shutdown_signal_lost` uses 3.

### AssemblyStatus (`AssemblyStatus.tla`, `MC_AssemblyStatus.tla`)
This module models the status writers of `assembly.go`.
- Each goroutine in `Handles` holds its own `*Assembly` (`local[h]`).
- `remote` is the catalog's record, abstracted to `status`, `state` and the
  set of output keys.
- `NewAssembly` refetches, with the `get` and `dig` outcomes (a failed `dig`
  still returns the record).
- `SetStatus` assigns `a.Status` and POSTs the whole record (`updateAsm`).
  `trigger_event` then writes the event, and that event write returns
  SetStatus's result. The two are separate steps, so other goroutines can
  interleave between the POST and the event.
- `SetState` and `NukeAndSetOutputs` also POST the whole record.
  `NukeAndSetOutputs` with an empty map returns `ErrNoOutputsFound`.
- `Delete` removes the record (`remote = Gone`); `DoneNotify` writes a
  machine event (`done`).
- `GetOutcomes` is what `get` can come to. For a deleted record the GET
  fails or returns no results, and `ac.Results[0]` panics: `crashed` ends
  every goroutine.
- Every POST and every event write may fail. `MaxCalls = 4` bounds the
  calls, and two output keys let a later `NukeAndSetOutputs` differ from
  an earlier one.
- Two history variables serve only the properties. `saved` holds the output
  keys of calls to `NukeAndSetOutputs` that returned nil. `unannounced`
  is set when a status event write failed and `SetStatus` reported it.

## 3. Runs

| Run | Checks | Result |
|---|---|---|
| `parser_table` | `TypeOK`, `ParseAgreesWithTable` | holds: the 22 listed pairs are classified exactly, and everything else is an error |
| `parser_errors` | `ParseErrorDescribesRequest` | **violated**: `done,create` is reported as `operations,create`, and the disks errors say `snapshot`. State offers `stateup` and done offers `upgrade`, and neither is accepted. The unknown-category list omits `done`. |
| `pipeline_safety` | `TypeOK`, `NoDanglingRoute`, `CompensationRestoresWorld` | holds on all passing compositions plus the after-routes one (a crash is not a compensated return) |
| `pipeline_returns` | `ReturnsToCaller` | holds for launch, launch+logs, replace from every box and the parameterless unroute (refused with a ConfigurationError): whichever external call fails, every value a Forward or Backward asserts to be a machine is one |
| `pipeline_after_routes` | `ReturnsToCaller` | **violated**: follow-logs gets nil from add-new-routes and fails, then add-new-routes' Backward panics on its nil result |
| `pipeline_no_params` | `ReturnsToCaller` | **violated**: update-status-riak declares no MinParams, so a launch with no parameter passes the check and panics on `ctx.Params[0]` instead of returning a ConfigurationError |
| `pipeline_decommission` | `NoDanglingRoute` | **violated**: the route stays while the machine is removed, because no step ever hands on a Routable machine |
| `coordinator_dispatch` | `TypeOK` | holds: the task bookkeeping stays consistent under every interleaving of handlers and goroutines (5,214 states) |
| `shutdown_liveness` | `TypeOK`, `LifecycleSpec` | holds: Run implements `DaemonLifecycle`; serving ends only on a signal, and after it Run returns even if Close hangs, because of the timer (114 states) |
| `shutdown_signal_lost` | `NoSignalLost` | **violated**: two signals before the first select; the second is dropped by the capacity-1 channel, so Run waits for Close or the timer |
| `assembly_status_one_goroutine` | `TypeOK`, `OutputsKept` | holds: with one writer, output keys a NukeAndSetOutputs call reported saved survive every later whole-record POST until the record is deleted (12,247 states) |
| `assembly_status_two_goroutines` | `CatalogStatusIsLastAnnounced` | **violated**: a failed SetStatus POST leaves `a.Status` set, and the next SetState POSTs it with no event. With two writers, a stale whole-record POST also reverts an announced status. A failed event write that SetStatus reported is exempt. |

Every property of a passing run has a mutant in `PROJECT.json` that TLC
catches. The mutants cover:
- a dropped `Hard: true` or a dropped `Name` in the parser;
- an off-by-one commit test;
- an ignored Create error;
- a Backward that never calls Remove;
- create-machine handing on nil instead of its machine;
- a goroutine that records an error and keeps running;
- the second select without its timer;
- a first select with a default case, which starts Close with no signal;
- a timer with no deadline;
- the POST made before `a.Status` is assigned;
- a failed fetch that hands on a zero-value Assembly;
- NukeAndSetOutputs replacing every output instead of the matching keys.

## 4. Not modelled, and why
- The `rollbackNotice` banner and all other progress-stream output are
  abstracted away, because no property is about wording.
- `mkCarton`, `mkBoxes` and the input/output lookups of assembly.go
  (`domain`, `vnets`, `getHDD`, and so on) copy fields and apply string
  defaults. They change no state that the rest of the code reads back.
- The TOML decode in `ParseConfig` is reduced to success or failure. `Info`
  only builds CLI metadata.
- `LaunchApp`, `DeleteApp`, `plugins.Watcher` and `plugins.Notify` are
  called by the coordinator but live outside the repository. They are opaque
  calls that may fail. Composing the coordinator with the launch pipeline
  would need LaunchApp's body, which is not here.
- Orders the code never promises are reached but not asserted: a failed
  create request launches the earlier assemblies; a LaunchApp of an earlier
  create can finish after the delete's DeleteApp; two pipelines on one box
  undo each other. spec.md 5 leaves cross-request ordering to an external
  scheduler. `PROJECT.json` lists each as a hazard.
- The docker image cluster exists only as a commented-out test.

## 5. Properties dropped
- `BackwardOnceInReverse` (the order of Backward calls) and the executor
  refinement held by construction of the spec-modelled executor.
- `CreateEventuallyLaunched` restated the create handler's spawn set plus
  per-goroutine fairness: nothing in the model can stop a spawned goroutine.
- `StatusAgreesWhenNil` (one writer) held only at the instant SetStatus
  returned and restated its three writes.

## 6. What is left
The remaining unmapped lines are CLI metadata (`Info`, `Flags` help text),
argument structs, and assembly.go's field copies (`mkCarton`, `mkBoxes`,
the input/output lookups). None of them changes state that other code reads
back, so no property could tell a model of them from its absence. The
hazards without a property are orders the code never promises, or data
races inside calls whose bodies are outside the repository; `PROJECT.json`
says why for each.
