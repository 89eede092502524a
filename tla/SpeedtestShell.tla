--------------------------- MODULE SpeedtestShell ---------------------------
(***************************************************************************)
(* shell() and main() of speedtest.py: the options, the statements they    *)
(* make shell() run, each a call of the Speedtest object, and how the      *)
(* process ends.                                                           *)
(***************************************************************************)
EXTENDS SpeedtestClient

CONSTANT Args      \* the parsed command lines

CommandLines ==
  [usage : BOOLEAN, version : BOOLEAN, csvHeader : BOOLEAN, delimiter : BOOLEAN,
   missing : BOOLEAN, download : BOOLEAN, upload : BOOLEAN, list : BOOLEAN,
   server : SUBSET Server, exclude : SUBSET Server, mini : BOOLEAN,
   share : BOOLEAN, simple : BOOLEAN, machine : {"none", "csv", "json"}]

ASSUME ShellAssumption == Args \subseteq CommandLines

\* Of an empty command line.
Defaults ==
  [usage |-> FALSE, version |-> FALSE, csvHeader |-> FALSE, delimiter |-> FALSE,
   missing |-> FALSE, download |-> TRUE, upload |-> TRUE, list |-> FALSE,
   server |-> {}, exclude |-> {}, mini |-> FALSE, share |-> FALSE,
   simple |-> FALSE, machine |-> "none"]

VARIABLES
  args,       \* what parse_args returned
  plan,       \* statements still to be run
  stmt,       \* the statement that runs
  shown,      \* the link of the shared result has been displayed
  exit        \* how the process ended

shellVars == <<args, plan, stmt, shown, exit>>
vars == <<clientVars, shellVars>>

SpeedtestExceptions ==
  Exceptions \ {"KeyError", "TypeError", "AttributeError", "HTTPError"}

Init ==
  /\ Blank /\ todo = <<>>
  /\ args \in Args
  /\ plan = <<>> /\ stmt = "options" /\ shown = FALSE /\ exit = "running"

\* argparse has printed its message, or --version or --csv-header has printed
\* its own: main takes the exit codes 0 and 2 for a success.
EndsInOptions == args.usage \/ args.version \/ args.csvHeader

\* No test left to do or a delimiter of several characters, which comes before
\* --csv-header, or a module missing, which comes behind it.
BadOptions ==
  /\ ~ args.usage /\ ~ args.version
  /\ \/ ~ args.download /\ ~ args.upload
     \/ args.delimiter
     \/ args.missing /\ ~ args.csvHeader

If(condition, statement) == IF condition THEN <<statement>> ELSE <<>>

\* Mutant: the link is made before the upload.
PlanShareFirst ==
  IF args.list THEN <<"config", "list">>
  ELSE <<"config", IF args.mini THEN "mini" ELSE "servers">>
       \o If(~ args.mini, "best") \o If(args.download, "download")
       \o If(~ args.simple /\ args.share, "share")
       \o If(args.upload, "upload")
       \o <<"report">> \o If(args.share /\ args.machine = "none", "show")

\* The statements behind the options, in their order.
Plan ==
  IF args.list THEN <<"config", "list">>
  ELSE <<"config", IF args.mini THEN "mini" ELSE "servers">>
       \o If(~ args.mini, "best")
       \o If(args.download, "download") \o If(args.upload, "upload")
       \o If(~ args.simple /\ args.share, "share")
       \o <<"report">> \o If(args.share /\ args.machine = "none", "show")

Options ==
  /\ stmt = "options" /\ exit = "running"
  /\ exit' = IF BadOptions THEN "error" ELSE IF EndsInOptions THEN "ok" ELSE exit
  /\ plan' = IF exit' = "running" THEN Plan ELSE <<>>
  /\ stmt' = "started"
  /\ UNCHANGED <<args, shown>> /\ UNCHANGED clientVars

Statement(s) ==
  /\ exit = "running" /\ todo = <<>> /\ raised = None
  /\ plan # <<>> /\ Head(plan) = s
  /\ stmt' = s /\ plan' = Tail(plan)

\* --list and the normal run retrieve the servers, filtered or not.
RetrieveServers ==
  /\ Statement("servers") \/ Statement("list")
  /\ filter' = IF args.list THEN NoFilter
               ELSE [servers |-> args.server, exclude |-> args.exclude]
  /\ Call("servers")
  /\ UNCHANGED <<url, left, tried>> /\ UNCHANGED historyVars
  /\ UNCHANGED objectVars /\ UNCHANGED <<args, shown, exit>>

\* The other statements are calls; "show" calls share() again.
CallMethod ==
  /\ \E s \in {"config", "mini", "best", "download", "upload", "share", "show"} :
       Statement(s) /\ Call(IF s = "show" THEN "share" ELSE s)
  /\ UNCHANGED objectVars /\ UNCHANGED localVars /\ UNCHANGED historyVars
  /\ UNCHANGED <<args, shown, exit>>

\* The result in one of its forms; a CSV row has the link in it.
Report ==
  /\ Statement("report")
  /\ shown' = (~ args.simple /\ args.machine # "none" /\ results.share # None)
  /\ UNCHANGED <<args, exit>> /\ UNCHANGED clientVars

\* Behind the last statement: the list or the link is printed, if any.
Finish ==
  /\ exit = "running" /\ todo = <<>> /\ raised = None
  /\ plan = <<>> /\ stmt # "options"
  /\ shown' = (shown \/ stmt = "show")
  /\ exit' = "ok"
  /\ UNCHANGED <<args, plan, stmt>> /\ UNCHANGED clientVars

\* What the handlers of shell() and main() make of an exception.  The one for
\* NoMatchedServers lists args.server, which is None without --server.
Outcome ==
  IF \/ raised = "NoMatchedServers" /\ args.server # {}
     \/ raised \in SpeedtestExceptions \ {"NoMatchedServers"}
     \/ raised = "HTTPError" /\ stmt \in {"servers", "list"}
  THEN "error" ELSE "traceback"

Fail ==
  /\ exit = "running" /\ raised # None
  /\ exit' = Outcome
  /\ UNCHANGED <<args, plan, stmt, shown>> /\ UNCHANGED clientVars

\* The handler of ctrl_c exits with the code 0 wherever the thread is.
CtrlC ==
  /\ exit = "running"
  /\ exit' = "cancelled"
  /\ UNCHANGED <<args, plan, stmt, shown>> /\ UNCHANGED clientVars

Method == exit = "running" /\ ClientNext /\ UNCHANGED shellVars

Shell == Options \/ RetrieveServers \/ CallMethod \/ Report \/ Finish \/ Fail

Next == Shell \/ Method \/ CtrlC

Spec == Init /\ [][Next]_vars

\* A single thread whose requests end, by their timeout if nothing else; what
\* waits without a limit is MeasureHangs.
FairSpec == Spec /\ WF_vars(Shell \/ Method)
-----------------------------------------------------------------------------
(* The server tested is one that was asked for: in --server if given, not  *)
(* in --exclude and not ignored by the configuration, although an empty    *)
(* list makes get_closest_servers retrieve a list without these arguments. *)
ChosenAllowed ==
  results.server \in Server =>
    /\ results.server \notin args.exclude \cup Ignored
    /\ args.server # {} => results.server \in args.server
    /\ ~ args.mini

(* The numbers reported and the link were measured against the server they *)
(* name, and the link shows the numbers of the report.                     *)
OneServer ==
  /\ tested.download # None => tested.download = results.server
  /\ tested.upload # None => tested.upload = results.server
  /\ results.share # None => results.share = Posted

(* A run that exits as a success without having been interrupted has made  *)
(* every measurement that was not switched off.                            *)
Delivered ==
  exit = "ok" /\ ~ EndsInOptions /\ ~ args.list =>
    /\ args.download <=> tested.download # None
    /\ args.upload <=> tested.upload # None
    /\ results.share # None => args.share

(* Every run ends, the list being retrieved at most twice, by four URLs    *)
(* each, unless a measurement waits for ever for a producer or a consumer. *)
Ends == <>(exit # "running" \/ Doing("hang"))
=============================================================================
