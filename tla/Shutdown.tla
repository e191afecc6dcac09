----------------------------- MODULE Shutdown -----------------------------
(***************************************************************************)
(* Start.Run of src/cmd/megamd/run/command.go: parse the config, return   *)
(* on --dry, start the daemon (Megd), register signalCh (buffer 1) for    *)
(* SIGINT/SIGTERM, block for a first signal, start cmd.Close() in a       *)
(* goroutine, then block for a second signal, the 30 s timer or           *)
(* cmd.Closed, and return.                                                 *)
(*                                                                         *)
(* Signals are sent by the environment at any time, at most MaxSignals of *)
(* them.  Before signal.Notify a signal has Go's default action: the      *)
(* process dies.  After it, signal delivery never blocks: a signal goes   *)
(* straight to Run when Run is waiting in a select on signalCh, into the  *)
(* buffer when it is not, and is dropped when the buffer is full.  The    *)
(* steps between a receive and the next select (go Close, a log line) are *)
(* taken with the receive.  log.Fatal (logrus) exits the process.         *)
(* Close and Megd belong to the Command type, not in this repository:     *)
(* Megd may fail; Close may finish (closing cmd.Closed) or hang.          *)
(***************************************************************************)
EXTENDS Naturals

CONSTANTS
    MaxSignals,   \* bound on the signals the environment sends
    Timeout       \* the 30 s of time.After, in clock ticks

VARIABLES
    pc,        \* where Run is; "wait": between Notify and the first select,
               \* "blocked": in the first select, "drain": in the second;
               \* "exited" / "killed": the process ended
    dry,       \* the --dry flag
    buf,       \* signals buffered in signalCh (capacity 1)
    sent,      \* signals sent to the process so far
    lost,      \* signals dropped because signalCh was full
    closing,   \* the Close goroutine: "none", "running" or "done"
    reason,    \* why Run returned
    elapsed    \* ticks since the second select started waiting

vars == <<pc, dry, buf, sent, lost, closing, reason, elapsed>>

\* Flags: --dry / -d is a boolean flag, false unless given.
DryFlag == BOOLEAN

\* ParseConfig(path): toml.DecodeFile into NewConfig() either fails,
\* returning (nil, err), or returns the decoded config.
ConfigDecodes == BOOLEAN

Init ==
    /\ pc = "parse"
    /\ dry \in DryFlag
    /\ buf = 0
    /\ sent = 0
    /\ lost = 0
    /\ closing = "none"
    /\ reason = "none"
    /\ elapsed = 0

Ended == pc \in {"returned", "exited", "killed"}

\* Run returns with reason r.
ReturnWith(r) == pc' = "returned" /\ reason' = r

-----------------------------------------------------------------------------
\* ParseConfig: toml.DecodeFile may fail; the error branch logs with Fatal,
\* which exits the process before `return fmt.Errorf(...)`.  With --dry
\* Run returns nil.
ParseConfig ==
    /\ pc = "parse"
    /\ \E ok \in ConfigDecodes :
          \/ /\ ~ok /\ pc' = "exited" /\ reason' = "config"
          \/ /\ ok /\ dry /\ ReturnWith("dry")
          \/ /\ ok /\ ~dry /\ pc' = "megd" /\ UNCHANGED reason
    /\ UNCHANGED <<dry, buf, sent, lost, closing, elapsed>>

\* cmd.Megd(config, version): an error is returned as "run: ...".
Megd ==
    /\ pc = "megd"
    /\ \/ ReturnWith("megd")
       \/ pc' = "notify" /\ UNCHANGED reason
    /\ UNCHANGED <<dry, buf, sent, lost, closing, elapsed>>

\* signalCh := make(chan os.Signal, 1); signal.Notify(signalCh, ...).
Notify ==
    /\ pc = "notify"
    /\ pc' = "wait"
    /\ UNCHANGED <<dry, buf, sent, lost, closing, reason, elapsed>>

\* The environment sends SIGINT or SIGTERM.
Signal ==
    /\ ~Ended
    /\ sent < MaxSignals
    /\ sent' = sent + 1
    /\ \/ /\ pc \in {"parse", "megd", "notify"}
          /\ pc' = "killed"
          /\ UNCHANGED <<buf, lost, closing, reason>>
       \/ /\ pc = "wait"
          /\ buf' = 1
          /\ lost' = IF buf = 1 THEN lost + 1 ELSE lost
          /\ UNCHANGED <<pc, closing, reason>>
       \/ /\ pc = "blocked"
          /\ closing' = "running"
          /\ pc' = "drain"
          /\ UNCHANGED <<buf, lost, reason>>
       \/ /\ pc = "drain"
          /\ ReturnWith("second signal")
          /\ UNCHANGED <<buf, lost, closing>>
    /\ UNCHANGED <<dry, elapsed>>

\* The first select with a default case: Close starts without a signal.
FirstSignalNoWait ==
    /\ pc = "wait"
    /\ buf' = 0
    /\ closing' = "running"
    /\ pc' = "drain"
    /\ UNCHANGED <<dry, sent, lost, reason, elapsed>>

\* The first select finds signalCh empty and blocks.
Block ==
    /\ pc = "wait" /\ buf = 0
    /\ pc' = "blocked"
    /\ UNCHANGED <<dry, buf, sent, lost, closing, reason, elapsed>>

\* The first select finds a buffered signal and starts Close.
FirstSignal ==
    /\ pc = "wait" /\ buf = 1
    /\ buf' = 0
    /\ closing' = "running"
    /\ pc' = "drain"
    /\ UNCHANGED <<dry, sent, lost, reason, elapsed>>

\* cmd.Close() returns and cmd.Closed becomes ready.
CloseDone ==
    /\ closing = "running" /\ ~Ended
    /\ closing' = "done"
    /\ UNCHANGED <<pc, dry, buf, sent, lost, reason, elapsed>>

\* A timer that is not bounded by its deadline.
TickUnbounded ==
    /\ pc = "drain"
    /\ elapsed' = elapsed + 1
    /\ UNCHANGED <<pc, dry, buf, sent, lost, closing, reason>>

\* Time passes while the second select waits.
Tick ==
    /\ pc = "drain" /\ elapsed < Timeout
    /\ elapsed' = elapsed + 1
    /\ UNCHANGED <<pc, dry, buf, sent, lost, closing, reason>>

\* The second select without its time.After case.
DrainNoTimer ==
    /\ pc = "drain"
    /\ closing = "done" /\ ReturnWith("closed")
    /\ UNCHANGED <<dry, buf, sent, lost, closing, elapsed>>

\* The second select ends on the 30 s timer or on cmd.Closed (a second
\* signal reaches it directly, in Signal).
Drain ==
    /\ pc = "drain"
    /\ \/ elapsed = Timeout /\ ReturnWith("timeout")
       \/ closing = "done" /\ ReturnWith("closed")
    /\ UNCHANGED <<dry, buf, sent, lost, closing, elapsed>>

Next ==
    \/ ParseConfig
    \/ Megd
    \/ Notify
    \/ Signal
    \/ Block
    \/ FirstSignal
    \/ CloseDone
    \/ Drain
    \/ Tick

\* Run's own steps are taken and time passes: WF on Run and the clock.
\* Nothing forces a signal to come or Close to return.
RunSteps == ParseConfig \/ Megd \/ Notify \/ Block \/ FirstSignal \/ Drain \/ Tick

Spec == Init /\ [][Next]_vars /\ WF_vars(RunSteps)

-----------------------------------------------------------------------------
TypeOK ==
    /\ pc \in {"parse", "megd", "notify", "wait", "blocked", "drain",
               "returned", "exited", "killed"}
    /\ dry \in BOOLEAN
    /\ buf \in 0..1 /\ sent \in 0..MaxSignals /\ lost \in 0..sent
    /\ closing \in {"none", "running", "done"}
    /\ reason \in {"none", "config", "dry", "megd", "second signal",
                   "timeout", "closed"}
    /\ elapsed \in 0..Timeout

\* A signal sent after signal.Notify is received by Run: the comment at
\* lines 106-107 says Run blocks "until another signal is received", so a
\* second SIGINT must cut the wait short.
NoSignalLost == lost = 0

\* Run implements the lifecycle its comments describe (DaemonLifecycle):
\* parse, --dry and Megd are the starting phase, the first select is
\* serving, the second select is stopping, and a received signal is one
\* buffered in signalCh.  So serving ends only on a signal, and stopping
\* ends whether Close returns or not (command.go lines 65-119).
Lifecycle == INSTANCE DaemonLifecycle WITH
    phase <- CASE pc \in {"parse", "megd", "notify"} -> "starting"
               [] pc \in {"wait", "blocked"} -> "serving"
               [] pc = "drain" -> "stopping"
               [] OTHER -> "stopped",
    signals <- sent,
    signalled <- pc = "wait" /\ buf = 1
LifecycleSpec == Lifecycle!Spec
=============================================================================
