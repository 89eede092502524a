------------------------------ MODULE Testbed -------------------------------
(***************************************************************************)
(* The satellite testbed of opensand-testbed: the docker containers, the   *)
(* OpenSAND simulation, routes, packet loss and proxies in them, and the   *)
(* Python scripts that set them up (testbeds.py, scenarios.py).  A script  *)
(* is a sequence of commands that it executes one by one, so each function *)
(* of these files is the sequence of its commands.  Meanwhile hosts come   *)
(* up, programs are built and connections break on their own.              *)
(***************************************************************************)
EXTENDS Integers, Sequences, FiniteSets

CONSTANTS
  Losses,       \* packet loss rates a script sets
  Levels,       \* ack_level of QPEPAckScenario, congestion_window of the other
  OtherWords,   \* 'RUNNING' in a status of the simulator that is no host's
  None

\* The options QPEP is started with, those that a scenario sets.
Programs ==
  {<<>>, <<"decimation">>} \cup {<<"acks", n>> : n \in Levels}
                           \cup {<<"congestion", n>> : n \in Levels}

ASSUME TestbedAssumption ==
  OtherWords \in Nat /\ None \notin Losses \cup Programs

VARIABLES
  todo,         \* commands the script has still to execute
  outcome,      \* how the script ended
  bed           \* the containers and all that runs in them

testbedVars == <<todo, outcome, bed>>

Hosts == {"SAT", "GW0", "ST1"}
Routed == {"terminal", "ws-st", "sitespeed"}
Lossy == {"gateway", "terminal"}
Proxied == {"terminal", "ws-gw"}       \* where QPEP runs

\* Containers as docker-compose makes them.
Fresh ==
  [up |-> FALSE, scenario |-> "default", hosts |-> {}, started |-> FALSE, running |-> {},
   route |-> [c \in Routed |-> "docker"], gui |-> FALSE,
   loss |-> [c \in Lossy |-> None],
   tproxy |-> {}, qpep |-> [c \in Proxied |-> None], building |-> [c \in Proxied |-> <<>>],
   pepsal |-> {}, vpn |-> "off", apps |-> {}]

Cmd(op, at, arg) == [op |-> op, at |-> at, arg |-> arg]
Plainly(op) == Cmd(op, "", "")

\* The script is at a command "op", and executes it.
At(op) == outcome = "running" /\ todo # <<>> /\ Head(todo).op = op
Executes(op) == At(op) /\ todo' = Tail(todo) /\ UNCHANGED outcome
this == Head(todo)
-----------------------------------------------------------------------------
(* Commands: docker-compose and the simulator's command line.              *)

\* Mutant: the old containers are kept.
ComposeDownKept == Executes("compose down") /\ UNCHANGED bed

ComposeDown == Executes("compose down") /\ bed' = Fresh

ComposeUp == Executes("compose up") /\ bed' = [bed EXCEPT !.up = TRUE]

\* Polls until the simulator answers and knows all hosts; a NetcatError makes
\* it connect anew.  run_attenuation_scenario polls for the answer only.
AwaitHosts == Executes("await hosts") /\ bed.hosts = Hosts /\ UNCHANGED bed

AwaitAnswer == Executes("await answer") /\ bed.up /\ UNCHANGED bed

LoadScenario ==
  Executes("scenario") /\ bed' = [bed EXCEPT !.scenario = this.arg]

StartSimulation == Executes("start") /\ bed' = [bed EXCEPT !.started = TRUE]

\* Stopping takes the tunnel away, its queue discipline and the route over it.
StopSimulation ==
  /\ Executes("stop")
  /\ bed' = [bed EXCEPT !.started = FALSE, !.running = {},
                        !.loss = [c \in Lossy |-> None],
                        !.route["terminal"] = IF @ = "space" THEN "none" ELSE @]

\* Mutant: two components will do.
AwaitRunningTwo ==
  /\ Executes("await running")
  /\ Cardinality(bed.running) + OtherWords > 2
  /\ UNCHANGED bed

\* Mutant: all hosts and one more word.
AwaitRunningFive ==
  /\ Executes("await running")
  /\ Cardinality(bed.running) + OtherWords > 4
  /\ UNCHANGED bed

\* Polls until the status has the word RUNNING more than three times.
AwaitRunning ==
  /\ Executes("await running")
  /\ Cardinality(bed.running) + OtherWords > 3
  /\ UNCHANGED bed

\* Once the simulator has answered, no NetcatError is caught any more.
ConnectionLost ==
  /\ \E op \in {"stop", "scenario", "start", "await running"} : At(op)
  /\ this.at # "window"
  /\ outcome' = "NetcatError" /\ todo' = <<>>
  /\ UNCHANGED bed

\* The simulator's own steps: hosts find it, and run once it has started.
HostRegisters ==
  \E h \in Hosts \ bed.hosts :
    bed.up /\ bed' = [bed EXCEPT !.hosts = @ \cup {h}] /\ UNCHANGED <<todo, outcome>>

HostRuns ==
  \E h \in bed.hosts \ bed.running :
    bed.started /\ bed' = [bed EXCEPT !.running = @ \cup {h}] /\ UNCHANGED <<todo, outcome>>
-----------------------------------------------------------------------------
(* Commands executed inside a container.                                   *)

RouteDelete ==
  Executes("route delete") /\ bed' = [bed EXCEPT !.route[this.at] = "none"]

\* "File exists" if there is a default route already.
RouteAdd ==
  /\ Executes("route add")
  /\ bed' = [bed EXCEPT !.route[this.at] = IF @ = "none" THEN "space" ELSE @]

GuiRoute == Executes("gui route") /\ bed' = [bed EXCEPT !.gui = TRUE]

\* change, and add if there is nothing to change; neither without the tunnel.
SetLoss ==
  /\ Executes("loss")
  /\ bed' = IF bed.running = {} THEN bed ELSE [bed EXCEPT !.loss[this.at] = this.arg]

ConfigureQpep ==
  Executes("configure qpep") /\ bed' = [bed EXCEPT !.tproxy = @ \cup {this.at}]

\* Kills the program main, not the go run that still builds one.
KillMain == Executes("pkill main") /\ bed' = [bed EXCEPT !.qpep[this.at] = None]

\* go run, detached: docker does not wait for it.
LaunchQpep ==
  /\ Executes("go run")
  /\ bed' = [bed EXCEPT !.building[this.at] = Append(@, this.arg)]

\* A program that has been built runs, if the port is free.
BuildEnds ==
  \E c \in Proxied : \E i \in DOMAIN bed.building[c] :
    /\ bed' = [bed EXCEPT !.qpep[c] = IF @ = None THEN bed.building[c][i] ELSE @,
                          !.building[c] = SubSeq(@, 1, i - 1) \o SubSeq(@, i + 1, Len(@))]
    /\ UNCHANGED <<todo, outcome>>

LaunchPepsal ==
  Executes("pepsal") /\ bed' = [bed EXCEPT !.pepsal = @ \cup {this.at}]

LaunchOpenVpn == Executes("openvpn") /\ bed' = [bed EXCEPT !.vpn = "launched"]

\* A sleep of 20 seconds: nobody asks whether OpenVPN has connected.
AwaitVpn == Executes("await vpn") /\ UNCHANGED bed

LaunchApp == Executes("app") /\ bed' = [bed EXCEPT !.apps = @ \cup {this.arg}]

KillApp == Executes("pkill app") /\ bed' = [bed EXCEPT !.apps = @ \ {this.arg}]

Command ==
  \/ ComposeDown \/ ComposeUp \/ AwaitHosts \/ AwaitAnswer \/ LoadScenario
  \/ StartSimulation \/ StopSimulation \/ AwaitRunning
  \/ RouteDelete \/ RouteAdd \/ GuiRoute \/ SetLoss \/ ConfigureQpep
  \/ KillMain \/ LaunchQpep \/ LaunchPepsal
  \/ LaunchOpenVpn \/ AwaitVpn \/ LaunchApp \/ KillApp

Outside == HostRegisters \/ HostRuns \/ BuildEnds
-----------------------------------------------------------------------------
(* testbeds.py: what each function executes.                               *)

Default(c) == <<Cmd("route delete", c, ""), Cmd("route add", c, "")>>

start_testbed(orbit) ==
  <<Plainly("compose down"), Plainly("compose up"), Plainly("await hosts")>>
  \o (IF orbit = "LEO" THEN <<Cmd("scenario", "", "delay")>> ELSE <<>>)
  \o <<Plainly("start"), Plainly("await running")>>
  \o Default("terminal")

stop_testbed == <<Plainly("compose down")>>

connect_terminal_workstation == <<Plainly("gui route")>> \o Default("ws-st")

connect_sitespeed_workstation == Default("sitespeed")

launch_wireshark == <<Cmd("app", "satellite", "wireshark")>>

launch_web_browser == <<Cmd("app", "ws-st", "qupzilla")>>

set_plr_percentage(plr, st_out, gw_out) ==
  (IF st_out THEN <<Cmd("loss", "terminal", plr)>> ELSE <<>>)
  \o (IF gw_out THEN <<Cmd("loss", "gateway", plr)>> ELSE <<>>)

run_attenuation_scenario ==
  <<Plainly("await answer"), Plainly("stop"), Cmd("scenario", "", "attenuation"),
    Plainly("start"), Cmd("route add", "terminal", "")>>
-----------------------------------------------------------------------------
(* scenarios.py: deploy_scenario of each class.  A scenario has a kind and *)
(* the options its QPEP is started with.                                   *)

Base(orbit) == start_testbed(orbit) \o connect_terminal_workstation

BaseUnless(up, orbit) == IF up THEN <<>> ELSE Base(orbit)

Both(op, first, second) == <<Cmd(op, first, ""), Cmd(op, second, "")>>
Configured == Both("configure qpep", "terminal", "ws-gw")
Launched(client, gateway) ==
  <<Cmd("go run", "terminal", client), Cmd("go run", "ws-gw", gateway)>>

DeployQPEP(up, orbit) ==
  BaseUnless(up, orbit) \o Configured
  \o (IF up THEN Both("pkill main", "ws-gw", "terminal") ELSE <<>>)
  \o Launched(<<>>, <<>>)

KilledOrConfigured(up) ==
  IF up THEN Both("pkill main", "terminal", "ws-gw") ELSE Configured

\* Mutant: -acks is the last word of the command line.
DeployQPEPAckUnset(up, orbit, level) ==
  BaseUnless(up, orbit) \o KilledOrConfigured(up)
  \o Launched(<<"acks">>, <<"decimation">>)

DeployQPEPAck(up, orbit, level) ==
  BaseUnless(up, orbit) \o KilledOrConfigured(up)
  \o Launched(<<"acks", level>>, <<"decimation">>)

DeployQPEPCongestion(up, orbit, window) ==
  BaseUnless(up, orbit) \o KilledOrConfigured(up)
  \o Launched(<<"congestion", window>>, <<"congestion", window>>)

DeployPlain(up, orbit) == BaseUnless(up, orbit)

DeployOpenVPN(up, orbit) ==
  BaseUnless(up, orbit) \o <<Cmd("openvpn", "ws-st", ""), Plainly("await vpn")>>

DeployPEPsal(up, orbit, gateway) ==
  BaseUnless(up, orbit) \o <<Cmd("pepsal", "terminal", "")>>
  \o (IF gateway THEN <<Cmd("pepsal", "gateway", "")>> ELSE <<>>)

deploy_scenario(kind, up, orbit, level) ==
  CASE kind = "Plain" -> DeployPlain(up, orbit)
    [] kind = "OpenVPN" -> DeployOpenVPN(up, orbit)
    [] kind = "QPEP" -> DeployQPEP(up, orbit)
    [] kind = "QPEP Ack" -> DeployQPEPAck(up, orbit, level)
    [] kind = "QPEP Congestion" -> DeployQPEPCongestion(up, orbit, level)
    [] kind = "PEPSal" -> DeployPEPsal(up, orbit, FALSE)
    [] kind = "Distributed PEPsal" -> DeployPEPsal(up, orbit, TRUE)

\* browser_examples.py: the scenario chosen by --scenario, and its windows.
BrowserExample(kind, orbit, wireshark) ==
  deploy_scenario(kind, FALSE, orbit, 0) \o launch_web_browser
  \o (IF wireshark THEN launch_wireshark ELSE <<>>)

Kinds == {"Plain", "OpenVPN", "QPEP", "QPEP Ack", "QPEP Congestion", "PEPSal",
          "Distributed PEPsal"}
-----------------------------------------------------------------------------
(* What traffic meets on its way now, and what a scenario promises.        *)

Setting ==
  [orbit |-> IF bed.scenario = "delay" THEN "LEO" ELSE "GEO", loss |-> bed.loss,
   proxied |-> bed.tproxy, qpep |-> bed.qpep, pepsal |-> bed.pepsal, vpn |-> bed.vpn]

Promised(kind, orbit, level, plr) ==
  LET qpep == kind \in {"QPEP", "QPEP Ack", "QPEP Congestion"}
      Pair(client, gateway) ==
        [c \in Proxied |-> IF c = "terminal" THEN client ELSE gateway]
  IN  [orbit |-> orbit,
       loss |-> [c \in Lossy |-> IF c = "gateway" THEN plr ELSE None],
       proxied |-> IF qpep THEN Proxied ELSE {},
       qpep |-> CASE kind = "QPEP" -> Pair(<<>>, <<>>)
                  [] kind = "QPEP Ack" -> Pair(<<"acks", level>>, <<"decimation">>)
                  [] kind = "QPEP Congestion" ->
                       Pair(<<"congestion", level>>, <<"congestion", level>>)
                  [] OTHER -> Pair(None, None),
       pepsal |-> CASE kind = "PEPSal" -> {"terminal"}
                    [] kind = "Distributed PEPsal" -> Lossy
                    [] OTHER -> {},
       vpn |-> IF kind = "OpenVPN" THEN "launched" ELSE "off"]

-----------------------------------------------------------------------------
(* The state of the containers is one they can be in. *)
TypeOK ==
  /\ bed.hosts \subseteq Hosts /\ bed.running \subseteq bed.hosts
  /\ bed.route \in [Routed -> {"docker", "space", "none"}]
  /\ bed.loss \in [Lossy -> Losses \cup {None}]
  /\ bed.tproxy \subseteq Proxied /\ bed.qpep \in [Proxied -> Programs \cup {None}]
  /\ \A c \in Proxied : bed.building[c] \in Seq(Programs)
  /\ bed.pepsal \subseteq Lossy /\ bed.apps \subseteq {"wireshark", "qupzilla", "iperf3"}
  /\ {bed.up, bed.started, bed.gui} \subseteq BOOLEAN
  /\ bed.vpn \in {"off", "launched"}

(* A transfer from the workstation reaches the other side. *)
Reaches ==
  /\ bed.running = Hosts
  /\ bed.route["terminal"] = "space" /\ bed.route["ws-st"] = "space"
  /\ bed.tproxy # {} => \A c \in Proxied : bed.qpep[c] # None

(* start_testbed gives the terminal its route over the tunnel only once    *)
(* all three components run (testbeds.py:50, 53).                          *)
RoutedWhenRunning == bed.route["terminal"] = "space" => bed.running = Hosts
=============================================================================
