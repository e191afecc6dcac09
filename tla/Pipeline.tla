------------------------------ MODULE Pipeline ------------------------------
(***************************************************************************)
(* Runs of the action pipeline with the provisioning actions of           *)
(* src/provision/one/actions.go.  The executor (Execute and rollback of   *)
(* the action package, which is not part of this repository) is modelled *)
(* from spec.md 4.2: forward steps in order, each step's result captured *)
(* and handed to the next as ctx.Previous; on the failure of step k the  *)
(* Backward of steps k-1 .. 1 in reverse order, each with its own        *)
(* captured result, then the error of step k is returned.  The actions'  *)
(* Forward and Backward bodies are modelled from actions.go, with every  *)
(* external call (Machine.Create/Remove/Logs, getRouterForBox,           *)
(* Router.AddRoute/RemoveRoute) free to fail, and every type assertion   *)
(* on ctx.Previous or ctx.FWResult panicking when the value is not a     *)
(* machine.Machine: a panic ends the goroutine and Execute never returns.*)
(*                                                                         *)
(* Runs is the set of Execute calls made on the same box, each in its own *)
(* goroutine with its own Context; nothing serialises them (spec.md 5).   *)
(* The unit acted on is the box: `machine` is whether the virtual machine *)
(* named after it exists (Create and Remove name it box.GetName()),       *)
(* `route` whether the router has a route for it, `status` the status     *)
(* last written for it.                                                   *)
(***************************************************************************)
EXTENDS Naturals, Sequences

CONSTANTS
    Runs,        \* the concurrent Execute calls on the box
    Scenarios    \* set of [steps: a pipeline, params: len(ctx.Params),
                 \*         machine, route: the box before it]

US  == "update-status-riak"
CM  == "create-machine"
ROM == "remove-old-machine"
ANR == "add-new-routes"
ROR == "remove-old-routes"
FL  == "follow-logs"

\* Values an action returns as its action.Result.
Nil == [kind |-> "nil"]
MachineResult(routable) == [kind |-> "machine", routable |-> routable]
ImageId == [kind |-> "image"]
Results == {Nil, ImageId} \cup {MachineResult(b) : b \in BOOLEAN}

\* The MinParams each action declares (0 when it declares none).
MinParams(name) == IF name \in {ROM, ROR, FL} THEN 1 ELSE 0

\* The type assertion v.(machine.Machine) succeeds.
IsMachine(v) == v.kind = "machine"

VARIABLES
    steps,     \* steps[r]: run r's actions, in declared order
    params,    \* params[r]: len(ctx.Params) of run r
    pc,        \* pc[r]: "forward", "backward", "committed", "compensated", "crashed"
    i,         \* i[r]: forward: the step to run; backward: the step to compensate
    previous,  \* previous[r]: run r's ctx.Previous
    results,   \* results[r][j]: the captured Forward result of r's step j
    failedAt,  \* failedAt[r]: the step whose Forward failed, 0 while none has
    bwFailed,  \* bwFailed[r]: an external call made by r's Backward failed
    status,    \* the status written for the box
    machine,   \* the box's machine exists
    route,     \* the router holds a route to the box
    before     \* the box as it was when the runs started

exec == <<i, previous, results, failedAt, bwFailed>>
world == <<status, machine, route>>
vars == <<steps, params, pc, exec, world, before>>

\* Every run starts on the box as it is: the scenarios chosen for the runs
\* agree on the machine and the route.
Init ==
    \E box \in {[machine |-> s.machine, route |-> s.route] : s \in Scenarios} :
    \E sc \in [Runs -> {s \in Scenarios : s.machine = box.machine
                                          /\ s.route = box.route}] :
        /\ steps = [r \in Runs |-> sc[r].steps]
        /\ params = [r \in Runs |-> sc[r].params]
        /\ pc = [r \in Runs |-> "forward"]
        /\ i = [r \in Runs |-> 1]
        /\ previous = [r \in Runs |-> Nil]
        /\ results = [r \in Runs |-> [j \in 1..Len(sc[r].steps) |-> Nil]]
        /\ failedAt = [r \in Runs |-> 0]
        /\ bwFailed = [r \in Runs |-> FALSE]
        /\ status = "none"
        /\ machine = box.machine
        /\ route = box.route
        /\ before = box

-----------------------------------------------------------------------------
(* The executor.                                                           *)

\* Step i of run r is `name`, the executor's MinParams check passed, and
\* the Forward's first statement, ctx.Params[0], finds a parameter.
AtForward(r, name) ==
    /\ pc[r] = "forward" /\ steps[r][i[r]] = name
    /\ params[r] >= MinParams(name)
    /\ params[r] > 0
AtBackward(r, name) == pc[r] = "backward" /\ steps[r][i[r]] = name

\* Forward of step i returned (res, nil): res is captured for its Backward
\* and becomes ctx.Previous; after the last step Execute returns nil.
SucceedLateCommit(r, res) ==
    /\ results' = [results EXCEPT ![r][i[r]] = res]
    /\ previous' = [previous EXCEPT ![r] = res]
    /\ i' = [i EXCEPT ![r] = @ + 1]
    /\ pc' = [pc EXCEPT ![r] = IF i[r] > Len(steps[r]) THEN "committed" ELSE "forward"]
    /\ UNCHANGED <<failedAt, bwFailed, steps, params, before>>
Succeed(r, res) ==
    /\ results' = [results EXCEPT ![r][i[r]] = res]
    /\ previous' = [previous EXCEPT ![r] = res]
    /\ i' = [i EXCEPT ![r] = @ + 1]
    /\ pc' = [pc EXCEPT ![r] = IF i[r] = Len(steps[r]) THEN "committed" ELSE "forward"]
    /\ UNCHANGED <<failedAt, bwFailed, steps, params, before>>

\* Forward of step i returned an error: its OnError hook runs (it only
\* writes the rollback banner), then rollback from step i-1 down to 1.
Fail(r) ==
    /\ failedAt' = [failedAt EXCEPT ![r] = i[r]]
    /\ i' = [i EXCEPT ![r] = @ - 1]
    /\ pc' = [pc EXCEPT ![r] = IF i[r] = 1 THEN "compensated" ELSE "backward"]
    /\ UNCHANGED <<previous, results, bwFailed, steps, params, before>>

\* The Backward of step i returned; after step 1 Execute returns the error.
BackwardDone(r) ==
    /\ i' = [i EXCEPT ![r] = @ - 1]
    /\ pc' = [pc EXCEPT ![r] = IF i[r] = 1 THEN "compensated" ELSE "backward"]
    /\ UNCHANGED <<previous, results, failedAt, steps, params, before>>

\* A failed type assertion or a nil dereference panics the goroutine.
Panic(r) ==
    /\ pc' = [pc EXCEPT ![r] = "crashed"]
    /\ UNCHANGED <<exec, steps, params, before>>

\* len(ctx.Params) < MinParams of step i: Execute returns a
\* ConfigurationError at once, with no compensation.
configurationError(r) ==
    /\ pc[r] = "forward"
    /\ params[r] < MinParams(steps[r][i[r]])
    /\ pc' = [pc EXCEPT ![r] = "misconfigured"]
    /\ UNCHANGED <<exec, world, steps, params, before>>

\* The check passed, but every Forward begins with ctx.Params[0], which
\* panics on an empty Params.
paramsIndexPanic(r) ==
    /\ pc[r] = "forward"
    /\ params[r] >= MinParams(steps[r][i[r]])
    /\ params[r] = 0
    /\ Panic(r)
    /\ UNCHANGED world

\* A Backward's external call failed: only logged.
LogBackwardError(r, failed) ==
    bwFailed' = [bwFailed EXCEPT ![r] = @ \/ failed]

-----------------------------------------------------------------------------
(* The actions of actions.go.                                              *)

\* update-status-riak: SetStatus(BuildingImage) on a fresh Machine value.
updateStatusForward(r) ==
    /\ AtForward(r, US)
    /\ status' = "building"
    /\ Succeed(r, MachineResult(FALSE))
    /\ UNCHANGED <<machine, route>>

\* Backward: SetStatus(StatusError) on the captured machine.
updateStatusBackward(r) ==
    /\ AtBackward(r, US)
    /\ status' = "error"
    /\ BackwardDone(r)
    /\ UNCHANGED <<machine, route, bwFailed>>

\* create-machine with the `if err != nil` check of Create dropped.
createMachineForwardIgnoreErr(r) ==
    /\ AtForward(r, CM)
    /\ \/ /\ ~IsMachine(previous[r])
          /\ Panic(r)
          /\ UNCHANGED world
       \/ /\ IsMachine(previous[r])
          /\ \E created \in BOOLEAN :
                /\ machine' = (machine \/ created)
                /\ Succeed(r, previous[r])
                /\ UNCHANGED <<status, route>>

\* create-machine handing on nil instead of the machine it created.
createMachineForwardNilResult(r) ==
    /\ AtForward(r, CM)
    /\ \/ /\ ~IsMachine(previous[r])
          /\ Panic(r)
          /\ UNCHANGED world
       \/ /\ IsMachine(previous[r])
          /\ \/ /\ machine' = TRUE
                /\ Succeed(r, Nil)
                /\ UNCHANGED <<status, route>>
             \/ /\ Fail(r)
                /\ UNCHANGED world

\* create-machine: Previous must be a machine; Machine.Create may fail.
createMachineForward(r) ==
    /\ AtForward(r, CM)
    /\ \/ /\ ~IsMachine(previous[r])
          /\ Panic(r)
          /\ UNCHANGED world
       \/ /\ IsMachine(previous[r])
          /\ \/ /\ machine' = TRUE
                /\ Succeed(r, previous[r])
                /\ UNCHANGED <<status, route>>
             \/ /\ Fail(r)
                /\ UNCHANGED world

\* create-machine's Backward printing its banner and never calling Remove.
createMachineBackwardNoRemove(r) ==
    /\ AtBackward(r, CM)
    /\ BackwardDone(r)
    /\ UNCHANGED <<world, bwFailed>>

\* Backward: Remove the machine named after the box; an error is only
\* logged.
createMachineBackward(r) ==
    /\ AtBackward(r, CM)
    /\ \E ok \in BOOLEAN :
          /\ machine' = (machine /\ ~ok)
          /\ LogBackwardError(r, ~ok)
    /\ BackwardDone(r)
    /\ UNCHANGED <<status, route>>

\* remove-old-machine: removes the machine handed on as Previous, ignores
\* a Remove error and returns Previous.
removeOldMachineForward(r) ==
    /\ AtForward(r, ROM)
    /\ \/ /\ ~IsMachine(previous[r])
          /\ Panic(r)
          /\ UNCHANGED world
       \/ /\ IsMachine(previous[r])
          /\ \E ok \in BOOLEAN : machine' = (machine /\ ~ok)
          /\ Succeed(r, previous[r])
          /\ UNCHANGED <<status, route>>

\* The empty Backward of remove-old-machine (removal is not undone) and of
\* follow-logs.
EmptyBackward(r) ==
    /\ pc[r] = "backward"
    /\ steps[r][i[r]] \in {ROM, FL}
    /\ BackwardDone(r)
    /\ UNCHANGED <<world, bwFailed>>

\* add-new-routes: getRouterForBox or AddRoute may fail; on success the
\* route exists, Routable is set on a local copy only and nil is returned.
addNewRoutesForward(r) ==
    /\ AtForward(r, ANR)
    /\ \/ /\ ~IsMachine(previous[r])
          /\ Panic(r)
          /\ UNCHANGED world
       \/ /\ IsMachine(previous[r])
          /\ \/ /\ route' = TRUE
                /\ Succeed(r, Nil)
                /\ UNCHANGED <<status, machine>>
             \/ /\ Fail(r)
                /\ UNCHANGED world

\* Backward: asserts FWResult is a machine; if it is Routable, calls
\* RemoveRoute on the router, which is nil when getRouterForBox failed.
addNewRoutesBackward(r) ==
    /\ AtBackward(r, ANR)
    /\ LET m == results[r][i[r]] IN
       \/ /\ ~IsMachine(m)
          /\ Panic(r)
          /\ UNCHANGED world
       \/ /\ IsMachine(m)
          /\ \E routerOK, ok \in BOOLEAN :
                \/ /\ m.routable /\ ~routerOK
                   /\ Panic(r)
                   /\ UNCHANGED world
                \/ /\ ~(m.routable /\ ~routerOK)
                   /\ route' = IF m.routable /\ ok THEN FALSE ELSE route
                   /\ LogBackwardError(r, ~routerOK \/ (m.routable /\ ~ok))
                   /\ BackwardDone(r)
                   /\ UNCHANGED <<status, machine>>

\* remove-old-routes: fails when getRouterForBox fails; otherwise, if the
\* machine is Routable, RemoveRoute (an error is only logged); returns the
\* machine, its Routable flag untouched.
removeOldRoutesForward(r) ==
    /\ AtForward(r, ROR)
    /\ \/ /\ ~IsMachine(previous[r])
          /\ Panic(r)
          /\ UNCHANGED world
       \/ /\ IsMachine(previous[r])
          /\ \/ /\ Fail(r)
                /\ UNCHANGED world
             \/ /\ \E ok \in BOOLEAN :
                      route' = IF previous[r].routable /\ ok THEN FALSE ELSE route
                /\ Succeed(r, previous[r])
                /\ UNCHANGED <<status, machine>>

\* Backward: if the captured machine is Routable, AddRoute it back on the
\* router, which is nil when getRouterForBox failed.
removeOldRoutesBackward(r) ==
    /\ AtBackward(r, ROR)
    /\ LET m == results[r][i[r]] IN
       \E routerOK, ok \in BOOLEAN :
          \/ /\ m.routable /\ ~routerOK
             /\ Panic(r)
             /\ UNCHANGED world
          \/ /\ ~(m.routable /\ ~routerOK)
             /\ route' = IF m.routable /\ ok THEN TRUE ELSE route
             /\ LogBackwardError(r, ~routerOK \/ (m.routable /\ ~ok))
             /\ BackwardDone(r)
             /\ UNCHANGED <<status, machine>>

\* follow-logs: an error when Previous is not a machine (checked assertion)
\* or when Logs fails; otherwise returns the image id.
followLogsForward(r) ==
    /\ AtForward(r, FL)
    /\ \/ Fail(r)
       \/ /\ IsMachine(previous[r])
          /\ Succeed(r, ImageId)
    /\ UNCHANGED world

\* One step of run r's goroutine.
RunStep(r) ==
    \/ configurationError(r) \/ paramsIndexPanic(r)
    \/ updateStatusForward(r) \/ updateStatusBackward(r)
    \/ createMachineForward(r) \/ createMachineBackward(r)
    \/ removeOldMachineForward(r) \/ EmptyBackward(r)
    \/ addNewRoutesForward(r) \/ addNewRoutesBackward(r)
    \/ removeOldRoutesForward(r) \/ removeOldRoutesBackward(r)
    \/ followLogsForward(r)

Next == \E r \in Runs : RunStep(r)

\* Each run is a goroutine making blocking calls that return, and the Go
\* scheduler runs every runnable goroutine: while a run can take a step it
\* eventually does, whatever the other runs do.
Spec == Init /\ [][Next]_vars /\ \A r \in Runs : WF_vars(RunStep(r))

-----------------------------------------------------------------------------
(* Properties.                                                             *)

TypeOK ==
    \A r \in Runs :
        /\ pc[r] \in {"forward", "backward", "committed", "compensated",
                     "misconfigured", "crashed"}
        /\ params[r] \in Nat
        /\ pc[r] \in {"forward", "backward"} => i[r] \in 1..Len(steps[r])
        /\ previous[r] \in Results
        /\ results[r] \in [1..Len(steps[r]) -> Results]
        /\ failedAt[r] \in 0..Len(steps[r])
        /\ bwFailed[r] \in BOOLEAN
        /\ {machine, route} \subseteq BOOLEAN
        /\ status \in {"none", "building", "error"}

\* A run that returned nil leaves no route to a machine that does not exist:
\* the router never sends traffic for the box to a removed or never created
\* machine.
NoDanglingRoute == \A r \in Runs : pc[r] = "committed" => (route => machine)

\* A run that returned an error, whose Backward calls all succeeded and
\* that ran no irreversible step (remove-old-machine), leaves the box as it
\* found it, with status "error": no orphaned machine or route.
CompensationRestoresWorld ==
    \A r \in Runs :
        LET ranIrreversible == \E j \in 1..(failedAt[r] - 1) : steps[r][j] = ROM
        IN  (pc[r] = "compensated" /\ ~bwFailed[r] /\ ~ranIrreversible) =>
                /\ machine = before.machine
                /\ route = before.route
                /\ status = "error"

\* Execute returns to its caller (nil, a step's error or a
\* ConfigurationError), never panics or hangs.  Every later step and every
\* Backward but follow-logs asserts unchecked that the value handed to it
\* is a machine (lines 58, 67, 84, 98, 129, 150, 175, 197), so this fails
\* as soon as a step hands on another kind of result and some external
\* call's failure leads a later Forward or a Backward to it.
ReturnsToCaller ==
    \A r \in Runs : <>(pc[r] \in {"committed", "compensated", "misconfigured"})
=============================================================================
