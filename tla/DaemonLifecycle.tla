--------------------------- MODULE DaemonLifecycle ---------------------------
(***************************************************************************)
(* What `megamd start` promises, as the comments of Start.Run state it:    *)
(* the daemon starts (or gives up while starting), then blocks until a     *)
(* signal is received, then shuts down, and eventually returns.  A signal  *)
(* that comes while it is still starting ends the process.  `signalled`    *)
(* is a signal delivered and not yet acted on.                            *)
(***************************************************************************)
EXTENDS Naturals

CONSTANT MaxSignals

VARIABLES phase, signals, signalled

vars == <<phase, signals, signalled>>

Init == phase = "starting" /\ signals = 0 /\ signalled = FALSE

\* The environment sends a signal: fatal while starting; while serving it
\* is recorded or acted on at once; while stopping it ends the shutdown.
Send ==
    /\ phase # "stopped" /\ signals < MaxSignals
    /\ signals' = signals + 1
    /\ \/ phase = "starting" /\ phase' = "stopped" /\ UNCHANGED signalled
       \/ phase = "serving" /\ signalled' = TRUE /\ UNCHANGED phase
       \/ phase = "serving" /\ phase' = "stopping" /\ signalled' = FALSE
       \/ phase = "stopping" /\ phase' = "stopped" /\ signalled' = FALSE

Started == phase = "starting" /\ phase' = "serving" /\ UNCHANGED <<signals, signalled>>

\* A config error, --dry, or a failed start.
GiveUp == phase = "starting" /\ phase' = "stopped" /\ UNCHANGED <<signals, signalled>>

\* Only a signal ends serving.
Interrupt ==
    /\ phase = "serving" /\ signalled
    /\ phase' = "stopping" /\ signalled' = FALSE
    /\ UNCHANGED signals

\* Shutting down ends, however it ends.
Stop == phase = "stopping" /\ phase' = "stopped" /\ signalled' = FALSE
        /\ UNCHANGED signals

Next == Send \/ Started \/ GiveUp \/ Interrupt \/ Stop

\* Nobody has to send a signal; the daemon itself does not hang.
Spec == Init /\ [][Next]_vars
        /\ WF_vars(Started \/ GiveUp) /\ WF_vars(Interrupt) /\ WF_vars(Stop)
=============================================================================
