----------------------------- MODULE ReqParser -----------------------------
(***************************************************************************)
(* The request parser of src/carton/req_parser.go.  ParseRequest          *)
(* classifies an inbound (category, action) pair, for the unit named by   *)
(* the request's CatId, into a process variant or a *ParseError.  The     *)
(* parser is a pure function; the state machine below receives one        *)
(* request after another and records the result of classifying it, so    *)
(* that TLC checks the classifier on every input in the bounded sets.     *)
(***************************************************************************)
EXTENDS Sequences, SequencesExt

CONSTANTS
    OtherCategories,   \* category strings that are none of the seven
    OtherActions,      \* action strings that no handler lists
    CatIds             \* target unit ids (Requests.CatId)

\* The string constants of req_parser.go, lines 25-70.
\* STATE is a TLA+ keyword: the Go constant STATE is named STATECAT here.
STATECAT == "state"
CREATE == "create"
BOOTSTRAPPED == "bootstrapped"
DESTROY == "destroy"
STATEUP == "stateup"
STATEDOWN == "statedown"
DONE == "done"
RUNNING == "running"
FAILURE == "failure"
CONTROL == "control"
STOP == "stop"
START == "start"
RESTART == "restart"
HARD_RESTART == "hard-restart"
HARD_STOP == "hard-stop"
SUSPEND == "suspend"
OPERATIONS == "operations"
UPGRADE == "upgrade"
SNAPSHOT == "snapshot"
SNAPCREATE == "snapcreate"
SNAPRESTORE == "snaprestore"
SNAPDELETE == "snapremove"
SNAPSAVE == "snapsave"
BACKUPS == "backup"
IMAGECREATE == "backupcreate"
IMAGEDESTROY == "backupremove"
NETWORK_UPDATE == "assembly.network.update"
DISKS == "disks"
ATTACHDISK == "attachdisk"
DETACHDISK == "detachdisk"

Categories == {STATECAT, CONTROL, OPERATIONS, BACKUPS, SNAPSHOT, DISKS, DONE}

ActionLiterals ==
    {CREATE, BOOTSTRAPPED, DESTROY, STATEUP, STATEDOWN, RUNNING, FAILURE,
     STOP, START, RESTART, HARD_RESTART, HARD_STOP, SUSPEND, UPGRADE,
     SNAPCREATE, SNAPRESTORE, SNAPDELETE, SNAPSAVE, IMAGECREATE,
     IMAGEDESTROY, NETWORK_UPDATE, ATTACHDISK, DETACHDISK}

\* A handler's table entry: the process struct it builds and its Hard field.
Soft(variant) == [variant |-> variant, hard |-> FALSE]
Hard(variant) == [variant |-> variant, hard |-> TRUE]

\* A process literal with its Name field left out (Go's zero value).
ProcessNoName(e, name) == [kind |-> "process", variant |-> e.variant,
                           name |-> "", hard |-> e.hard]

\* The process value returned for the entry e of a handler, Name: p.name.
Process(e, name) == [kind |-> "process", variant |-> e.variant,
                     name |-> name, hard |-> e.hard]

\* strings.Join(found, ",")
JoinComma(s) == FoldLeft(LAMBDA acc, x : acc \o "," \o x, Head(s), Tail(s))

\* newParseError: Found is the joined found slice, Expected kept in order.
newParseError(found, expected) ==
    [kind |-> "error", found |-> JoinComma(found), expected |-> expected]

\* A handler: the action's entry if its switch lists it, else the error
\* of its default branch.
Classify(table, name, action, default) ==
    IF action \in DOMAIN table THEN Process(table[action], name) ELSE default

parseState(name, action) ==
    Classify((CREATE :> Soft("CreateProcess")) @@ (DESTROY :> Soft("DestroyProcess"))
             @@ (BOOTSTRAPPED :> Soft("StateupProcess"))
             @@ (STATEDOWN :> Soft("StateupProcess")),
             name, action,
             newParseError(<<STATECAT, action>>, <<CREATE, DESTROY, STATEUP, STATEDOWN>>))

ControlTable ==
    (START :> Soft("StartProcess")) @@ (STOP :> Soft("StopProcess"))
    @@ (SUSPEND :> Soft("SuspendProcess")) @@ (RESTART :> Soft("RestartProcess"))
    @@ (HARD_STOP :> Hard("StopProcess")) @@ (HARD_RESTART :> Hard("RestartProcess"))

\* hard-stop built as a plain StopProcess: the Hard: true field left out.
parseControlNoHard(name, action) ==
    Classify([ControlTable EXCEPT ![HARD_STOP] = Soft("StopProcess")], name, action,
             newParseError(<<CONTROL, action>>, <<START, STOP, RESTART>>))
parseControl(name, action) ==
    Classify(ControlTable, name, action,
             newParseError(<<CONTROL, action>>, <<START, STOP, RESTART>>))

parseOperations(name, action) ==
    Classify((UPGRADE :> Soft("UpgradeProcess"))
             @@ (NETWORK_UPDATE :> Soft("UpdateNetworkProcess")),
             name, action, newParseError(<<OPERATIONS, action>>, <<UPGRADE>>))

parseDone(name, action) ==
    Classify((RUNNING :> Soft("RunningProcess")) @@ (FAILURE :> Soft("FailureProcess")),
             name, action, newParseError(<<OPERATIONS, action>>, <<UPGRADE>>))

parseBackups(name, action) ==
    Classify((IMAGECREATE :> Soft("ImageCreateProcess"))
             @@ (IMAGEDESTROY :> Soft("ImageDestroyProcess")),
             name, action,
             newParseError(<<BACKUPS, action>>, <<IMAGECREATE, IMAGEDESTROY>>))

parseSnapshot(name, action) ==
    Classify((SNAPCREATE :> Soft("SnapCreateProcess"))
             @@ (SNAPRESTORE :> Soft("SnapRestoreProcess"))
             @@ (SNAPDELETE :> Soft("SnapDestroyProcess"))
             @@ (SNAPSAVE :> Soft("SnapSaveAsProcess")),
             name, action,
             newParseError(<<SNAPSHOT, action>>, <<SNAPCREATE, SNAPDELETE>>))

parseDisks(name, action) ==
    Classify((ATTACHDISK :> Soft("DiskAttachProcess"))
             @@ (DETACHDISK :> Soft("DiskDetachProcess")),
             name, action,
             newParseError(<<SNAPSHOT, action>>, <<ATTACHDISK, DETACHDISK>>))

\* (*ReqParser).ParseRequest with p.name = name: the two-level dispatch.
ParseRequest(name, category, action) ==
    CASE category = STATECAT      -> parseState(name, action)
      [] category = CONTROL    -> parseControl(name, action)
      [] category = OPERATIONS -> parseOperations(name, action)
      [] category = BACKUPS    -> parseBackups(name, action)
      [] category = SNAPSHOT   -> parseSnapshot(name, action)
      [] category = DISKS      -> parseDisks(name, action)
      [] category = DONE       -> parseDone(name, action)
      [] OTHER -> newParseError(<<category, action>>,
                    <<STATECAT, CONTROL, OPERATIONS, SNAPSHOT, DISKS, BACKUPS>>)

-----------------------------------------------------------------------------
NoRequest == [category |-> "", action |-> "", catId |-> ""]

VARIABLES req,     \* the last request received (Requests)
          result   \* what ParseRequest(r) returned for it

vars == <<req, result>>

Init == /\ req = NoRequest
        /\ result = [kind |-> "none"]

\* ParseRequest(r *Requests): a request arrives and is classified.
Receive ==
    \E c \in Categories \cup OtherCategories, a \in ActionLiterals \cup OtherActions,
       id \in CatIds :
        /\ req' = [category |-> c, action |-> a, catId |-> id]
        /\ result' = ParseRequest(id, c, a)

Next == Receive

Spec == Init /\ [][Next]_vars

-----------------------------------------------------------------------------
\* Every result is a process value naming the request's unit, or a parse
\* error whose Found is one string and whose Expected is a list of strings.
TypeOK ==
    \/ result = [kind |-> "none"]
    \/ /\ result.kind = "process"
       /\ result.name \in CatIds
       /\ result.hard \in BOOLEAN
    \/ /\ result.kind = "error"
       /\ result.found \in STRING
       /\ result.expected \in Seq(STRING)

\* The classification table of the specification (spec.md section 4.1):
\* the variant each listed (category, action) pair yields.
SpecTable ==
    (<<STATECAT, CREATE>> :> Soft("CreateProcess"))
    @@ (<<STATECAT, DESTROY>> :> Soft("DestroyProcess"))
    @@ (<<STATECAT, BOOTSTRAPPED>> :> Soft("StateupProcess"))
    @@ (<<STATECAT, STATEDOWN>> :> Soft("StateupProcess"))
    @@ (<<CONTROL, START>> :> Soft("StartProcess"))
    @@ (<<CONTROL, STOP>> :> Soft("StopProcess"))
    @@ (<<CONTROL, SUSPEND>> :> Soft("SuspendProcess"))
    @@ (<<CONTROL, RESTART>> :> Soft("RestartProcess"))
    @@ (<<CONTROL, HARD_STOP>> :> Hard("StopProcess"))
    @@ (<<CONTROL, HARD_RESTART>> :> Hard("RestartProcess"))
    @@ (<<OPERATIONS, UPGRADE>> :> Soft("UpgradeProcess"))
    @@ (<<OPERATIONS, NETWORK_UPDATE>> :> Soft("UpdateNetworkProcess"))
    @@ (<<BACKUPS, IMAGECREATE>> :> Soft("ImageCreateProcess"))
    @@ (<<BACKUPS, IMAGEDESTROY>> :> Soft("ImageDestroyProcess"))
    @@ (<<SNAPSHOT, SNAPCREATE>> :> Soft("SnapCreateProcess"))
    @@ (<<SNAPSHOT, SNAPRESTORE>> :> Soft("SnapRestoreProcess"))
    @@ (<<SNAPSHOT, SNAPDELETE>> :> Soft("SnapDestroyProcess"))
    @@ (<<SNAPSHOT, SNAPSAVE>> :> Soft("SnapSaveAsProcess"))
    @@ (<<DISKS, ATTACHDISK>> :> Soft("DiskAttachProcess"))
    @@ (<<DISKS, DETACHDISK>> :> Soft("DiskDetachProcess"))
    @@ (<<DONE, RUNNING>> :> Soft("RunningProcess"))
    @@ (<<DONE, FAILURE>> :> Soft("FailureProcess"))

\* ParseRequest is total and exact against the table: a listed pair yields
\* its variant with Name = CatId and Hard only for hard-stop/hard-restart,
\* and every other pair is a parse error, never a silent default.
ParseAgreesWithTable ==
    req # NoRequest =>
        LET pair == <<req.category, req.action>>
        IN  IF pair \in DOMAIN SpecTable
            THEN result = Process(SpecTable[pair], req.catId)
            ELSE result.kind = "error"

\* The actions ParseRequest accepts in category c.
AcceptedActions(c) ==
    {a \in ActionLiterals : ParseRequest("", c, a).kind = "process"}

\* A parse error describes the request it rejects (spec.md 4.1 and 8,
\* tests 2 and 3): Found is the request's own "<category>,<action>" pair,
\* every action offered as Expected for a known category is one the parser
\* accepts there, and an unknown category is answered with all seven.
ParseErrorDescribesRequest ==
    result.kind = "error" =>
        /\ result.found = req.category \o "," \o req.action
        /\ IF req.category \in Categories
           THEN ToSet(result.expected) \subseteq AcceptedActions(req.category)
           ELSE ToSet(result.expected) = Categories
=============================================================================
