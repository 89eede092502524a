---------------------------- MODULE TestbedUser ----------------------------
(***************************************************************************)
(* The testbed under the scripts of Experiments or, from initial states of *)
(* its own, in the hands of a program of its user (README.md:118 to 179),  *)
(* which calls the functions of testbeds.py and scenarios.py in any order, *)
(* with testbed_up too, and stops and starts the simulation in the         *)
(* OpenSAND window between the calls.  The two never run in the same       *)
(* behaviour.                                                              *)
(***************************************************************************)
EXTENDS Experiments

CONSTANTS
  UserLosses,  \* packet loss rates and levels the program sets
  UserLevels,
  Orbits,      \* of the testbed object: BasicTestbed is GEO, LeoTestbed LEO
  Chosen,      \* kinds of scenario the program has, among Kinds
  MaxCalls     \* bound: calls made

ASSUME UserAssumption ==
  /\ UserLosses \subseteq Losses /\ UserLevels \subseteq Levels
  /\ Orbits \subseteq {"GEO", "LEO"} /\ Chosen \subseteq Kinds

VARIABLES
  calls,       \* calls made so far
  last,        \* the scenario deployed last, if that was the last call
  stopped      \* the simulation has been stopped since the testbed was started

userVars == <<calls, last, stopped>>
scriptVars == <<script, benchVars, starts>>
allVars == <<vars, userVars>>

\* No script is ever started.
ByUser == starts = 0

Nothing == [kind |-> None, up |-> FALSE, orbit |-> "GEO", level |-> 0]

UserInit ==
  /\ todo = <<>> /\ outcome = "running" /\ bed = Fresh
  /\ calls = 0 /\ last = Nothing /\ stopped = FALSE
  /\ script = <<"none">> /\ bench = <<>> /\ errors = 0 /\ results = <<>> /\ starts = 0

Free == todo = <<>> /\ outcome = "running"

Calls(commands) ==
  /\ Free /\ calls < MaxCalls /\ calls' = calls + 1
  /\ todo' = commands /\ UNCHANGED <<outcome, bed>>

\* With testbed_up, the testbed has been started before.
CallDeploy ==
  \E kind \in Chosen, up \in BOOLEAN, orbit \in Orbits, level \in UserLevels :
    /\ up => bed.up
    /\ Calls(deploy_scenario(kind, up, orbit, level))
    /\ last' = [kind |-> kind, up |-> up, orbit |-> orbit, level |-> level]
    /\ UNCHANGED stopped

CallOther ==
  /\ \/ Calls(stop_testbed)
     \/ bed.up /\ Calls(connect_sitespeed_workstation)
     \/ bed.up /\ Calls(launch_wireshark)
     \/ \E plr \in UserLosses, st_out, gw_out \in BOOLEAN :
          bed.up /\ Calls(set_plr_percentage(plr, st_out, gw_out))
  /\ last' = Nothing /\ UNCHANGED stopped

CallAttenuation ==
  /\ bed.up /\ Calls(run_attenuation_scenario)
  /\ last' = Nothing /\ stopped' = TRUE

\* The user, in the window of OpenSAND: stop, then start.
RestartSimulation ==
  /\ bed.up /\ Calls(<<Cmd("stop", "window", ""), Cmd("start", "window", "")>>)
  /\ last' = Nothing /\ stopped' = TRUE

Executing ==
  /\ Command \/ Outside \/ ConnectionLost
  /\ stopped' = (stopped /\ ~(At("compose down") /\ todo' # todo))
  /\ UNCHANGED <<calls, last>>

UserNext ==
  /\ CallDeploy \/ CallOther \/ CallAttenuation \/ RestartSimulation \/ Executing
  /\ UNCHANGED scriptVars

ScriptInit == Init /\ calls = 0 /\ last = Nothing /\ stopped = FALSE

ByScript(A) == ~ByUser /\ A /\ UNCHANGED userVars

TestbedInit == ScriptInit \/ UserInit

TestbedNext == ByScript(Next) \/ (ByUser /\ UserNext)

TestbedSpec == TestbedInit /\ [][TestbedNext]_allVars

\* The fairness of FairSpec; a user calls when it likes.
TestbedFairSpec == TestbedSpec /\ WF_allVars(ByScript(Working))
-----------------------------------------------------------------------------
\* The last call has deployed a scenario and all that it has launched runs.
Deployed ==
  /\ Free /\ last.kind # None
  /\ \A c \in Proxied : bed.building[c] = <<>>

(* Whatever the program and the user did before, deploy_scenario without   *)
(* testbed_up leaves exactly the scenario it names, and the path without a *)
(* tunnel passes traffic; OpenVPN has been launched (scenarios.py:48).     *)
CleanSlate ==
  (Deployed /\ ~last.up) =>
    /\ Reaches
    /\ Setting = Promised(last.kind, last.orbit, last.level, None)

(* The terminal is routed over the tunnel only while all components run,   *)
(* as long as nobody stops the simulation; the scripts never do.           *)
RoutedUnlessStopped == stopped \/ RoutedWhenRunning

(* Ends is about the scripts alone.                                        *)
ScriptsEnd == ~ByUser => Ends
=============================================================================
