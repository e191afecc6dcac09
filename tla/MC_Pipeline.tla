---------------------------- MODULE MC_Pipeline -----------------------------
(* Pipelines of the provisioning actions for TLC.  The compositions are    *)
(* the ones spec.md names: launching a box (scenario C), launching and     *)
(* following its logs, replacing a running box's machine, a step after     *)
(* add-new-routes (spec.md 8, property 6) and decommissioning a box, each *)
(* given its one parameter (the box); and the same compositions built     *)
(* with no parameter, which the executor's MinParams check should refuse. *)
EXTENDS Pipeline

Fresh == [machine |-> FALSE, route |-> FALSE]
Running == [machine |-> TRUE, route |-> TRUE]
Unrouted == [machine |-> TRUE, route |-> FALSE]
On(p, box) == [steps |-> p, params |-> 1, machine |-> box.machine, route |-> box.route]
NoParams(sc) == [sc EXCEPT !.params = 0]

Launch == On(<<US, CM, ANR>>, Fresh)
LaunchAndFollow == On(<<US, CM, FL>>, Fresh)
Replace(box) == On(<<US, ROR, ROM, CM, ANR>>, box)
LaunchThenFollow == On(<<US, CM, ANR, FL>>, Fresh)
Decommission == On(<<US, ROR, ROM>>, Running)

MC_Scenarios == {Launch, LaunchAndFollow} \cup
                {Replace(box) : box \in {Fresh, Running, Unrouted}}
MC_ScenariosAll == MC_Scenarios \cup {LaunchThenFollow}
MC_ScenariosAfterRoutes == {LaunchThenFollow}
MC_ScenariosDecommission == {Decommission}

\* Unrouting a running box, built without the box: remove-old-routes
\* declares MinParams 1, so Execute refuses it.
UnrouteUnbound == NoParams(On(<<ROR, ROM>>, Running))
MC_ScenariosSafety == MC_ScenariosAll \cup {NoParams(Launch), UnrouteUnbound}
MC_ScenariosReturning == MC_Scenarios \cup {UnrouteUnbound}
MC_ScenariosNoParams == {NoParams(Launch)}
=============================================================================
