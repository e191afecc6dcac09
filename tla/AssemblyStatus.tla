--------------------------- MODULE AssemblyStatus ---------------------------
(***************************************************************************)
(* The status-writing methods of *Assembly in src/carton/assembly.go.      *)
(* Each goroutine that reports on an assembly holds its own *Assembly,     *)
(* fetched with NewAssembly (get, then dig).  SetStatus writes a.Status    *)
(* locally, POSTs the WHOLE record to /assembly/update (updateAsm), and    *)
(* only then writes a status event (trigger_event).  SetState and          *)
(* NukeAndSetOutputs write their field and POST the whole record too.  The *)
(* catalog keeps the last record POSTed.  Every REST call and the event    *)
(* write may fail.  The record is abstracted to the fields written here:   *)
(* status, state and the set of output keys.  Delete removes the record   *)
(* from the catalog; a later GET of it may fail or return no results, and *)
(* get then indexes Results[0] of an empty list: the runtime panic ends   *)
(* the whole daemon.  DoneNotify writes a machine event for a box.        *)
(***************************************************************************)
EXTENDS Naturals, Sequences, SequencesExt

CONSTANTS
    Handles,     \* goroutines, each with its own *Assembly
    Statuses,    \* utils.Status values a caller may set
    States,      \* utils.State values a caller may set
    OutKeys,     \* output keys NukeAndSetOutputs may be given
    InitRecord,  \* the record in the catalog at the start
    MaxCalls     \* bound on the method calls made

NoPending == "none"
Gone == [deleted |-> TRUE]   \* the catalog holds no record for the assembly

VARIABLES
    remote,    \* the assembly record held by the catalog
    local,     \* local[h]: goroutine h's *Assembly
    pending,   \* pending[h]: the status SetStatus has POSTed, event not yet written
    events,    \* the status events written, in order
    last,      \* last[h]: the method h called last and whether it returned nil
    calls,     \* method calls made so far
    done,      \* machine events DoneNotify has written
    crashed,   \* a goroutine panicked: the daemon is gone
    saved,     \* history: output keys a NukeAndSetOutputs that returned nil wrote
    unannounced \* history: the last status event write failed, and SetStatus said so

vars == <<remote, local, pending, events, last, calls, done, crashed,
          saved, unannounced>>

Record == [status : Statuses, state : States, outputs : SUBSET OutKeys]

Init ==
    /\ remote = InitRecord
    /\ local = [h \in Handles |-> InitRecord]
    /\ pending = [h \in Handles |-> NoPending]
    /\ events = <<>>
    /\ last = [h \in Handles |-> [op |-> "get", ok |-> TRUE]]
    /\ calls = 0
    /\ done = 0
    /\ crashed = FALSE
    /\ saved = {}
    /\ unannounced = FALSE

\* Goroutine h is between calls and may start one.
Idle(h) == pending[h] = NoPending /\ calls < MaxCalls /\ ~crashed

\* h's method op returns; ok: it returned nil.
Returns(h, op, ok) ==
    /\ last' = [last EXCEPT ![h] = [op |-> op, ok |-> ok]]

\* updateAsm: POST the whole record r; on success the catalog holds r.
updateAsm(r, ok) == remote' = IF ok THEN r ELSE remote

-----------------------------------------------------------------------------
\* What get(args, id) can come to: the GET or the JSON decode fails (nil,
\* err); dig fails on a component (the record, err); or it succeeds.  For a
\* deleted assembly the GET fails or the reply has no results, and
\* ac.Results[0] panics.
GetOutcomes ==
    IF remote = Gone THEN {"get_error", "no_results"}
                     ELSE {"ok", "get_error", "dig_error"}

\* A NewAssembly that on error hands on a zero-value Assembly{}.
NewAssemblyZero(h) ==
    /\ Idle(h)
    /\ \E outcome \in GetOutcomes :
          \/ /\ outcome = "no_results"
             /\ crashed' = TRUE
             /\ UNCHANGED <<local, last>>
          \/ /\ outcome # "no_results"
             /\ local' = [local EXCEPT ![h] = IF outcome = "ok" THEN remote
                                             ELSE [status |-> "", state |-> "",
                                                   outputs |-> {}]]
             /\ Returns(h, "get", outcome = "ok")
             /\ UNCHANGED crashed
    /\ calls' = calls + 1
    /\ UNCHANGED <<remote, pending, events, done, saved, unannounced>>

\* NewAssembly: get fetches the record and dig loads its components; a
\* failed dig returns the fetched record along with the error; a nil
\* *Assembly leaves the caller's copy as it was.
NewAssembly(h) ==
    /\ Idle(h)
    /\ \E outcome \in GetOutcomes :
          \/ /\ outcome = "no_results"
             /\ crashed' = TRUE
             /\ UNCHANGED <<local, last>>
          \/ /\ outcome # "no_results"
             /\ local' = IF outcome = "get_error" THEN local
                         ELSE [local EXCEPT ![h] = remote]
             /\ Returns(h, "get", outcome = "ok")
             /\ UNCHANGED crashed
    /\ calls' = calls + 1
    /\ UNCHANGED <<remote, pending, events, done, saved, unannounced>>

\* SetStatus, with the POST made before a.Status is assigned.
SetStatusPostBeforeAssign(h) ==
    /\ Idle(h)
    /\ \E s \in Statuses, ok \in BOOLEAN :
          /\ local' = [local EXCEPT ![h].status = s]
          /\ updateAsm(local[h], ok)
          /\ IF ok THEN pending' = [pending EXCEPT ![h] = s] /\ UNCHANGED last
                   ELSE Returns(h, "SetStatus", FALSE) /\ UNCHANGED pending
    /\ calls' = calls + 1
    /\ UNCHANGED <<events, done, crashed, saved, unannounced>>

\* SetStatus up to updateAsm: a.Status = status, then the POST; an error
\* is returned with a.Status already changed.
SetStatus(h) ==
    /\ Idle(h)
    /\ \E s \in Statuses, ok \in BOOLEAN :
          /\ local' = [local EXCEPT ![h].status = s]
          /\ updateAsm(local'[h], ok)
          /\ IF ok THEN pending' = [pending EXCEPT ![h] = s] /\ UNCHANGED last
                   ELSE Returns(h, "SetStatus", FALSE) /\ UNCHANGED pending
    /\ calls' = calls + 1
    /\ UNCHANGED <<events, done, crashed, saved, unannounced>>

\* The rest of SetStatus: trigger_event writes the status event, and its
\* error is SetStatus's result.
trigger_event(h) ==
    /\ pending[h] # NoPending /\ ~crashed
    /\ \E ok \in BOOLEAN :
          /\ events' = IF ok THEN Append(events, pending[h]) ELSE events
          /\ Returns(h, "SetStatus", ok)
          /\ unannounced' = ~ok
    /\ pending' = [pending EXCEPT ![h] = NoPending]
    /\ UNCHANGED <<remote, local, calls, done, crashed, saved>>

\* SetState: a.State = state, then the POST of the whole record.
SetState(h) ==
    /\ Idle(h)
    /\ \E t \in States, ok \in BOOLEAN :
          /\ local' = [local EXCEPT ![h].state = t]
          /\ updateAsm(local'[h], ok)
          /\ Returns(h, "SetState", ok)
    /\ calls' = calls + 1
    /\ UNCHANGED <<pending, events, done, crashed, saved, unannounced>>

\* NukeAndSetOutputs replacing every output with the keys given.
NukeAndSetOutputsReplace(h) ==
    /\ Idle(h)
    /\ \E m \in SUBSET OutKeys, ok \in BOOLEAN :
          IF m = {}
          THEN Returns(h, "NukeAndSetOutputs", FALSE) /\ UNCHANGED <<local, remote, saved>>
          ELSE /\ local' = [local EXCEPT ![h].outputs = m]
               /\ updateAsm(local'[h], ok)
               /\ Returns(h, "NukeAndSetOutputs", ok)
               /\ saved' = IF ok THEN saved \cup m ELSE saved
    /\ calls' = calls + 1
    /\ UNCHANGED <<pending, events, done, crashed, unannounced>>

\* NukeAndSetOutputs: an empty map is ErrNoOutputsFound; otherwise the
\* keys are set in a.Outputs and the whole record is POSTed.
NukeAndSetOutputs(h) ==
    /\ Idle(h)
    /\ \E m \in SUBSET OutKeys, ok \in BOOLEAN :
          IF m = {}
          THEN Returns(h, "NukeAndSetOutputs", FALSE) /\ UNCHANGED <<local, remote, saved>>
          ELSE /\ local' = [local EXCEPT ![h].outputs = @ \cup m]
               /\ updateAsm(local'[h], ok)
               /\ Returns(h, "NukeAndSetOutputs", ok)
               /\ saved' = IF ok THEN saved \cup m ELSE saved
    /\ calls' = calls + 1
    /\ UNCHANGED <<pending, events, done, crashed, unannounced>>

\* Delete: DELETE /assembly/<id>; on success the catalog drops the record.
Delete(h) ==
    /\ Idle(h)
    /\ \E ok \in BOOLEAN :
          /\ remote' = IF ok THEN Gone ELSE remote
          /\ Returns(h, "Delete", ok)
    /\ calls' = calls + 1
    /\ UNCHANGED <<local, pending, events, done, crashed, saved, unannounced>>

\* DoneNotify: the machine event announcing a box is done; its Write error
\* is returned.
DoneNotify(h) ==
    /\ Idle(h)
    /\ \E ok \in BOOLEAN :
          /\ done' = IF ok THEN done + 1 ELSE done
          /\ Returns(h, "DoneNotify", ok)
    /\ calls' = calls + 1
    /\ UNCHANGED <<remote, local, pending, events, crashed, saved, unannounced>>

Next ==
    \E h \in Handles :
        \/ NewAssembly(h)
        \/ SetStatus(h)
        \/ trigger_event(h)
        \/ SetState(h)
        \/ NukeAndSetOutputs(h)
        \/ Delete(h)
        \/ DoneNotify(h)

Spec == Init /\ [][Next]_vars

-----------------------------------------------------------------------------
TypeOK ==
    /\ remote \in Record \cup {Gone}
    /\ local \in [Handles -> Record]
    /\ pending \in [Handles -> Statuses \cup {NoPending}]
    /\ events \in Seq(Statuses)
    /\ calls \in 0..MaxCalls
    /\ done \in 0..calls /\ crashed \in BOOLEAN
    /\ saved \subseteq OutKeys /\ unannounced \in BOOLEAN

\* Output keys a NukeAndSetOutputs call reported saved stay in the catalog
\* record until it is deleted, although every later SetStatus, SetState and
\* NukeAndSetOutputs POSTs the caller's whole *Assembly over it (line 128):
\* a goroutine that refetched after an error must not POST a copy that
\* has lost them.
OutputsKept == remote # Gone => saved \subseteq remote.outputs

\* Between calls, the catalog holds the status the latest status event
\* announced (or its first status, before any event): trigger_event follows
\* every status write, so a reader of the events knows the status.  A
\* failed event write that SetStatus reported is exempt until the next
\* event is written.
CatalogStatusIsLastAnnounced ==
    (remote # Gone /\ ~unannounced /\ \A h \in Handles : pending[h] = NoPending) =>
        remote.status = IF events = <<>> THEN InitRecord.status ELSE Last(events)
=============================================================================
