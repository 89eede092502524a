-------------------------- MODULE SpeedtestCallers --------------------------
(***************************************************************************)
(* The Speedtest object of speedtest.py in the hands of its two callers:   *)
(* shell(), or, from initial states of its own, a program that imports the *)
(* file and calls the public methods in any order after the constructor.   *)
(* The two never run in the same behaviour.                                *)
(***************************************************************************)
EXTENDS SpeedtestShell

CONSTANTS
  Filters,      \* arguments the program gives to get_servers
  MaxCalls      \* bound: calls the program makes

ASSUME CallersAssumption ==
  Filters \subseteq [servers : SUBSET Server, exclude : SUBSET Server]

VARIABLE calls  \* calls the program has made

callersVars == <<vars, calls>>

\* The process is the program's own and has no command line.
ByProgram == exit = "none"

ProgramInit ==
  /\ Blank /\ todo = <<"config">>
  /\ args = Defaults /\ plan = <<>> /\ stmt = "options" /\ shown = FALSE /\ exit = "none"

\* The object exists once its configuration has arrived.
Ready == todo = <<>> /\ config /\ calls < MaxCalls /\ calls' = calls + 1

CallGetServers ==
  /\ Ready
  /\ filter' \in Filters
  /\ Call("servers")
  /\ UNCHANGED <<url, left, tried>> /\ UNCHANGED objectVars /\ UNCHANGED historyVars

CallOther ==
  /\ Ready
  /\ \E m \in {"badid", "mini", "closest", "best", "download", "upload", "share"} : Call(m)
  /\ UNCHANGED localVars /\ UNCHANGED objectVars /\ UNCHANGED historyVars

ProgramNext ==
  (CallGetServers \/ CallOther \/ (ClientNext /\ UNCHANGED calls)) /\ UNCHANGED shellVars

CallersInit == (Init \/ ProgramInit) /\ calls = 0

CallersNext ==
  \/ ~ByProgram /\ Next /\ UNCHANGED calls
  \/ ByProgram /\ ProgramNext

CallersSpec == CallersInit /\ [][CallersNext]_callersVars

\* shell() runs in a single thread whose requests end, by their timeout if
\* nothing else; a program calls when it likes.
CallersFairSpec ==
  CallersSpec /\ WF_callersVars(~ByProgram /\ (Shell \/ Method) /\ UNCHANGED calls)
-----------------------------------------------------------------------------
(* OneServer and Ends are about shell(), Ends with its exception of a      *)
(* measurement that hangs: a program may choose again after a measurement, *)
(* and calls as often as it likes.                                         *)
OneServerInShell == ~ByProgram => OneServer
ShellEnds == ~ByProgram => Ends
=============================================================================
