---------------------------- MODULE Coordinator ----------------------------
(***************************************************************************)
(* The queue-message dispatcher of src/coordinator/coordinator.go.        *)
(* NewCoordinator is called with one queue message after another; it      *)
(* dispatches on the queue name to requestHandler or eventsHandler.  A    *)
(* create request fetches its assemblies one by one and, for each id      *)
(* longer than one character, spawns `go app.LaunchApp` and `go           *)
(* pluginAdministrator`; a delete request spawns `go app.DeleteApp`.  The *)
(* handler returns at the first failed fetch.  Spawned goroutines run in  *)
(* any order, concurrently with the handling of later messages.          *)
(*                                                                         *)
(* LaunchApp, DeleteApp, plugins.Watcher and plugins.Notify live outside  *)
(* this repository: each is an opaque call that may fail, whose effect is *)
(* that the assembly is deployed, removed, watched or notified.  Every    *)
(* Riak fetch (request.Get, assemblies.Get, GetAssemblyWithComponents)   *)
(* may fail.                                                              *)
(***************************************************************************)
EXTENDS Naturals, Sequences

CONSTANTS
    Queue,      \* the messages delivered, in order: a sequence of records
    AsmIds,     \* assembly ids that can occur in a request
    IdLength    \* [AsmIds -> Nat]: len() of each id string

\* A message: the queue it came on, whether json.Unmarshal succeeds, the
\* request's ReqType, the assembly ids it names (for a delete, the one id
\* in AssembliesId) and, on the events queue, the Event field.
Msgs == 1..Len(Queue)

\* len(asm.Assemblies[i]) > 1
LongId(a) == IdLength[a] > 1

Task == [kind : {"launch", "plugin", "delete"}, msg : Msgs, asm : AsmIds]

VARIABLES
    next,      \* the index of the next message NewCoordinator is called with
    outcome,   \* outcome[m]: how the handler for message m returned
    tasks,     \* goroutines spawned and not yet finished
    spawned,   \* every goroutine ever spawned (history)
    failed,    \* the finished goroutines whose call returned an error
    deployed,  \* deployed[a]: the assembly is launched and not deleted
    watched,   \* assemblies a plugin watcher has been set up for
    notified   \* event messages plugins.Notify was called for

vars == <<next, outcome, tasks, spawned, failed, deployed, watched, notified>>

Init ==
    /\ next = 1
    /\ outcome = [m \in Msgs |-> "pending"]
    /\ tasks = {}
    /\ spawned = {}
    /\ failed = {}
    /\ deployed = [a \in AsmIds |-> FALSE]
    /\ watched = {}
    /\ notified = {}

-----------------------------------------------------------------------------
(* NewCoordinator and its handlers: one action per way a handler returns.  *)

Msg == Queue[next]

\* The handler for Queue[next] returns with outcome o.
Return(o) ==
    /\ outcome' = [outcome EXCEPT ![next] = o]
    /\ next' = next + 1

Arriving(queue) == next <= Len(Queue) /\ Msg.queue = queue

\* The launch and plugin goroutines of a create request for the ids of
\* positions 1..n of its assembly list that pass the length check.
LaunchTasks(m, n) ==
    UNION {{[kind |-> "launch", msg |-> m, asm |-> Queue[m].asms[j]],
            [kind |-> "plugin", msg |-> m, asm |-> Queue[m].asms[j]]} :
              j \in {k \in 1..n : LongId(Queue[m].asms[k])}}

Spawn(new) ==
    /\ tasks' = tasks \cup new
    /\ spawned' = spawned \cup new

\* requestHandler: json.Unmarshal fails; or request.Get fails.
requestHandlerEarlyReturn ==
    /\ Arriving("cloudstandup")
    /\ \/ ~Msg.parses /\ Return("parse_error")
       \/ Msg.parses /\ Return("fetch_error")
    /\ UNCHANGED <<tasks, spawned, failed, deployed, watched, notified>>

\* case "create": assemblies.Get fails before the loop.
createAssembliesFetchError ==
    /\ Arriving("cloudstandup")
    /\ Msg.parses /\ Msg.reqType = "create"
    /\ Return("fetch_error")
    /\ UNCHANGED <<tasks, spawned, failed, deployed, watched, notified>>

\* The loop over asm.Assemblies: GetAssemblyWithComponents of the long id at
\* position j fails, after the goroutines of positions 1..j-1 were spawned.
createFetchErrorAt ==
    /\ Arriving("cloudstandup")
    /\ Msg.parses /\ Msg.reqType = "create"
    /\ \E j \in 1..Len(Msg.asms) :
          /\ LongId(Msg.asms[j])
          /\ Spawn(LaunchTasks(next, j - 1))
    /\ Return("fetch_error")
    /\ UNCHANGED <<failed, deployed, watched, notified>>

\* The loop fetches every long id and spawns its two goroutines.
createRequest ==
    /\ Arriving("cloudstandup")
    /\ Msg.parses /\ Msg.reqType = "create"
    /\ Spawn(LaunchTasks(next, Len(Msg.asms)))
    /\ Return("ok")
    /\ UNCHANGED <<failed, deployed, watched, notified>>

\* case "delete": fetch AssembliesId, then `go app.DeleteApp`.
deleteRequest ==
    /\ Arriving("cloudstandup")
    /\ Msg.parses /\ Msg.reqType = "delete"
    /\ \/ /\ Spawn({[kind |-> "delete", msg |-> next, asm |-> Msg.asms[1]]})
          /\ Return("ok")
       \/ /\ Return("fetch_error")
          /\ UNCHANGED <<tasks, spawned>>
    /\ UNCHANGED <<failed, deployed, watched, notified>>

\* A ReqType the switch does not list: the handler falls through.
otherRequest ==
    /\ Arriving("cloudstandup")
    /\ Msg.parses /\ Msg.reqType \notin {"create", "delete"}
    /\ Return("ignored")
    /\ UNCHANGED <<tasks, spawned, failed, deployed, watched, notified>>

\* NewCoordinator: a queue other than cloudstandup and events matches no case.
otherQueue ==
    /\ next <= Len(Queue)
    /\ Msg.queue \notin {"cloudstandup", "events"}
    /\ Return("ignored")
    /\ UNCHANGED <<tasks, spawned, failed, deployed, watched, notified>>

\* eventsHandler: parse, then plugins.Notify for a "notify" event; a Notify
\* error is only logged.
eventsHandler ==
    /\ Arriving("events")
    /\ \/ /\ ~Msg.parses
          /\ Return("parse_error")
          /\ UNCHANGED notified
       \/ /\ Msg.parses /\ Msg.event = "notify"
          /\ Return("ok")
          /\ \E ok \in BOOLEAN :
                notified' = (IF ok THEN notified \cup {next} ELSE notified)
       \/ /\ Msg.parses /\ Msg.event # "notify"
          /\ Return("ignored")
          /\ UNCHANGED notified
    /\ UNCHANGED <<tasks, spawned, failed, deployed, watched>>

-----------------------------------------------------------------------------
(* The spawned goroutines.  Each may fail; a failure is only logged.      *)

\* A goroutine that records its error and keeps running.
FinishKeepTask(t, ok) ==
    /\ UNCHANGED tasks
    /\ failed' = IF ok THEN failed ELSE failed \cup {t}

\* Goroutine t returns; ok is whether its call succeeded.
Finish(t, ok) ==
    /\ tasks' = tasks \ {t}
    /\ failed' = IF ok THEN failed ELSE failed \cup {t}

LaunchApp(t) ==
    /\ t \in tasks /\ t.kind = "launch"
    /\ \E ok \in BOOLEAN : Finish(t, ok) /\ deployed' = [deployed EXCEPT ![t.asm] = @ \/ ok]
    /\ UNCHANGED <<next, outcome, spawned, watched, notified>>

DeleteApp(t) ==
    /\ t \in tasks /\ t.kind = "delete"
    /\ \E ok \in BOOLEAN : Finish(t, ok) /\ deployed' = [deployed EXCEPT ![t.asm] = @ /\ ~ok]
    /\ UNCHANGED <<next, outcome, spawned, watched, notified>>

\* pluginAdministrator: plugins.Watcher(asm); an error is only logged.
pluginAdministrator(t) ==
    /\ t \in tasks /\ t.kind = "plugin"
    /\ \E ok \in BOOLEAN : Finish(t, ok) /\ watched' = (IF ok THEN watched \cup {t.asm} ELSE watched)
    /\ UNCHANGED <<next, outcome, spawned, deployed, notified>>

\* One call of NewCoordinator, for the message Queue[next].
Handle ==
    \/ requestHandlerEarlyReturn
    \/ createAssembliesFetchError
    \/ createFetchErrorAt
    \/ createRequest
    \/ deleteRequest
    \/ otherRequest
    \/ eventsHandler
    \/ otherQueue

\* Goroutine t runs its body to the end.
RunTask(t) == LaunchApp(t) \/ DeleteApp(t) \/ pluginAdministrator(t)

Next == Handle \/ \E t \in tasks : RunTask(t)

\* The transport keeps calling NewCoordinator while messages arrive, and
\* the Go scheduler eventually runs each runnable goroutine, whatever the
\* others do.
Fairness == WF_vars(Handle) /\ \A t \in Task : WF_vars(RunTask(t))

Spec == Init /\ [][Next]_vars /\ Fairness

-----------------------------------------------------------------------------
Outcomes == {"pending", "ok", "parse_error", "fetch_error", "ignored"}

TypeOK ==
    /\ next \in 1..Len(Queue) + 1
    /\ outcome \in [Msgs -> Outcomes]
    /\ tasks \subseteq spawned /\ spawned \subseteq Task
    /\ failed \subseteq spawned \ tasks
    /\ deployed \in [AsmIds -> BOOLEAN]
    /\ watched \subseteq AsmIds /\ notified \subseteq Msgs
=============================================================================
