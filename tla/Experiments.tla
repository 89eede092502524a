---------------------------- MODULE Experiments ----------------------------
(***************************************************************************)
(* The experiment scripts of simulation_examples.py on the testbed, with   *)
(* the benchmarks of benchmarks.py, browser_examples.py, and the program   *)
(* the README builds from them.  A script may be killed, its connection to *)
(* the simulator may break, and it is then started again on whatever the   *)
(* earlier run has left of the testbed.                                    *)
(***************************************************************************)
EXTENDS Testbed, SequencesExt

CONSTANTS
  Sizes,          \* iperf_file_sizes
  Sites,          \* hosts a SitespeedBenchmark loads
  Plrs,           \* plr_levels
  AckLevels,      \* ack_bundling_numbers
  Iterations,     \* IPERF_ITERATIONS and PLT_ITERATIONS
  SubIterations,  \* PLT_SUB_ITERATIONS and PLR_PLT_ITERATIONS
  MetaIterations, \* PLR_META_ITERATIONS
  Scripts,        \* <<script, SCENARIO_NAME, orbit>> that are run
  MaxStarts       \* bound: times the script is started

ScriptNames ==
  {"ack bundling", "iperf", "plt", "plr plt", "plr", "browser", "readme plt",
   "readme speedtest"}

ASSUME ExperimentsAssumption ==
  /\ {Iterations, SubIterations, MetaIterations, MaxStarts} \subseteq Nat \ {0}
  /\ Sizes \in Seq(STRING) /\ Sites \in Seq(STRING)
  /\ Plrs \in Seq(Losses) /\ AckLevels \in Seq(Levels) /\ 0 \in Levels
  /\ Scripts \subseteq ScriptNames \X Kinds \X {"GEO", "LEO"}

VARIABLES
  script,         \* the script, its SCENARIO_NAME and its orbit
  bench,          \* what the benchmark object has measured
  errors,         \* page loads that failed
  results,        \* what the script has collected, a batch per entry
  starts          \* times the script has been started

vars == <<testbedVars, script, bench, errors, results, starts>>
benchVars == <<bench, errors, results>>

-----------------------------------------------------------------------------
(* Loops.                                                                  *)

Times(n, body) == FlattenSeq([i \in 1..n |-> body])
Each(items, Body(_)) == FlattenSeq([i \in DOMAIN items |-> Body(items[i])])

(* benchmarks.py: what run executes.                                       *)

run_iperf_test(size) ==
  <<Cmd("pkill app", "ws-gw", "iperf3"), Cmd("app", "ws-gw", "iperf3"),
    Cmd("iperf", "ws-st", size)>>

IperfRun(iterations) == Times(iterations, Each(Sizes, run_iperf_test))

\* Between two iterations it deploys its scenario anew, as "redeploy" does.
Browse(site) == <<Cmd("browse", "ws-st", site)>>

SitespeedRun(iterations, redeploy) ==
  Default("ws-st") \o Each(Sites, Browse)
  \o Times(iterations - 1, redeploy \o Default("ws-st") \o Each(Sites, Browse))

SpeedtestRun == <<Plainly("speedtest")>>

Fault(exception) == <<Cmd("raise", "", exception)>>

\* A script's scenario; run_benchmarks deploys before each benchmark unless told.
Deploy(s, level) == deploy_scenario(s[2], FALSE, s[3], level)
run_benchmarks(s, deployed, run) == (IF deployed THEN <<>> ELSE Deploy(s, 0)) \o run
-----------------------------------------------------------------------------
(* simulation_examples.py.  "fresh" is copy.deepcopy(benchmarks), "record" *)
(* the append of benchmark.results under a label.                          *)

Label(s, level, plr) == [kind |-> s[2], orbit |-> s[3], level |-> level, plr |-> plr]
Record(s, level, plr) == <<Cmd("record", "", Label(s, level, plr))>>
Loss(plr) == set_plr_percentage(plr, FALSE, TRUE)

\* Mutant: one benchmark object serves all levels.
AckBundlingShared(s) ==
  LET AtPlr(level, plr) ==
        Loss(plr) \o run_benchmarks(s, TRUE, IperfRun(Iterations)) \o Record(s, level, plr)
      AtLevel(level) ==
        Deploy(s, level) \o Each(Plrs, LAMBDA plr : AtPlr(level, plr))
  IN  Each(AckLevels, AtLevel)

ack_bundling_iperf_scenario(s) ==
  LET AtPlr(level, plr) ==
        Loss(plr) \o <<Plainly("fresh")>>
        \o run_benchmarks(s, TRUE, IperfRun(Iterations)) \o Record(s, level, plr)
      AtLevel(level) ==
        Deploy(s, level) \o Each(Plrs, LAMBDA plr : AtPlr(level, plr))
  IN  Each(AckLevels, AtLevel)

iperf_test_scenario(s) ==
  <<Plainly("fresh")>> \o run_benchmarks(s, FALSE, IperfRun(Iterations)) \o Record(s, 0, None)

plt_test_scenario(s) ==
  <<Plainly("fresh")>> \o Deploy(s, 0)
  \o run_benchmarks(s, TRUE, SitespeedRun(Iterations, Deploy(s, 0))) \o Record(s, 0, None)

\* Mutant: the loss is set on the containers that the deployment replaces.
PlrPltEarly(s) ==
  LET Batch(plr) ==
        <<Plainly("fresh")>> \o Loss(plr) \o Deploy(s, 0)
        \o run_benchmarks(s, TRUE, SitespeedRun(1, Deploy(s, 0))) \o Record(s, 0, plr)
  IN  Each(Plrs, LAMBDA plr : Times(MetaIterations, Batch(plr)))

plr_plt_scenario(s) ==
  LET Batch(plr) ==
        <<Plainly("fresh")>> \o Deploy(s, 0) \o Loss(plr)
        \o run_benchmarks(s, TRUE, SitespeedRun(1, Deploy(s, 0))) \o Record(s, 0, plr)
  IN  Each(Plrs, LAMBDA plr : Times(MetaIterations, Batch(plr)))

plr_test_scenario(s) ==
  LET Run(plr) == <<Plainly("fresh")>> \o run_benchmarks(s, TRUE, IperfRun(1))
                  \o Record(s, 0, plr) \o <<Cmd("check link", "", plr)>>
      Batch(plr) == Deploy(s, 0) \o Loss(plr) \o Times(Iterations, Run(plr))
  IN  Each(Plrs, LAMBDA plr : Times(MetaIterations, Batch(plr)))

\* README.md:135 to 152, with a benchmark made without a scenario.
ReadmeExample(s, run) == <<Plainly("fresh")>> \o run_benchmarks(s, FALSE, run) \o Record(s, 0, None)

Commands(s) ==
  CASE s[1] = "ack bundling" -> ack_bundling_iperf_scenario(s)
    [] s[1] = "iperf" -> iperf_test_scenario(s)
    [] s[1] = "plt" -> plt_test_scenario(s)
    [] s[1] = "plr plt" -> plr_plt_scenario(s)
    [] s[1] = "plr" -> plr_test_scenario(s)
    [] s[1] = "browser" -> BrowserExample(s[2], s[3], TRUE)
    [] s[1] = "readme plt" ->
         ReadmeExample(s, SitespeedRun(Iterations, Fault("AttributeError")))
    [] s[1] = "readme speedtest" -> ReadmeExample(s, SpeedtestRun)

Program == [s \in Scripts |-> Commands(s)]
-----------------------------------------------------------------------------
(* Steps.                                                                  *)

Init ==
  /\ script \in Scripts /\ todo = Program[script] /\ outcome = "running"
  /\ bed = Fresh /\ bench = <<>> /\ errors = 0 /\ results = <<>> /\ starts = 1

Deploying == Command /\ UNCHANGED <<script, benchVars, starts>>

Happens == Outside /\ UNCHANGED <<script, benchVars, starts>>

FreshBench ==
  /\ Executes("fresh") /\ bench' = <<>> /\ errors' = 0
  /\ UNCHANGED <<bed, script, results, starts>>

\* What one transfer yields: a failed one is a result of zeros.
Sample(of, ok) == [of |-> of, ok |-> ok, setting |-> IF ok THEN Setting ELSE None]

Iperf ==
  /\ Executes("iperf")
  /\ \E ok \in {FALSE} \cup {Reaches /\ "iperf3" \in bed.apps} :
       bench' = Append(bench, Sample(this.arg, ok))
  /\ UNCHANGED <<bed, script, errors, results, starts>>

\* Of the loads of a page those that succeed are found in the output.
BrowseSite ==
  /\ Executes("browse")
  /\ \E n \in 0..SubIterations :
       /\ n > 0 => Reaches
       /\ bench' = bench \o [i \in 1..n |-> Sample(this.arg, TRUE)]
       /\ errors' = errors + SubIterations - n
  /\ UNCHANGED <<bed, script, results, starts>>

\* Its result is returned and kept nowhere; without one json.loads raises.
Speedtest ==
  /\ At("speedtest")
  /\ \/ Reaches /\ todo' = Tail(todo) /\ UNCHANGED outcome
     \/ todo' = <<>> /\ outcome' = "JSONDecodeError"
  /\ UNCHANGED <<bed, script, benchVars, starts>>

RecordBatch ==
  /\ Executes("record")
  /\ results' = Append(results, [label |-> this.arg, batch |-> bench])
  /\ UNCHANGED <<bed, script, bench, errors, starts>>

\* results[key]["sent_bps"] is a list, and no list equals 0.
EqualsZero(list) == FALSE

CheckLink ==
  /\ At("check link")
  /\ todo' = (IF \E i \in DOMAIN bench : EqualsZero(<<bench[i]>>)
              THEN Deploy(script, 0) \o Loss(this.arg) ELSE <<>>) \o Tail(todo)
  /\ UNCHANGED <<outcome, bed, script, benchVars, starts>>

Raise ==
  /\ At("raise") /\ outcome' = this.arg /\ todo' = <<>>
  /\ UNCHANGED <<bed, script, benchVars, starts>>

Finish ==
  /\ outcome = "running" /\ todo = <<>> /\ outcome' = "finished"
  /\ UNCHANGED <<todo, bed, script, benchVars, starts>>

\* The results were in the memory of the process, the containers stay.
Forgotten == bench' = <<>> /\ errors' = 0 /\ results' = <<>>

Kill ==
  /\ outcome = "running" /\ outcome' = "killed" /\ todo' = <<>>
  /\ Forgotten /\ UNCHANGED <<bed, script, starts>>

Dies == ConnectionLost /\ Forgotten /\ UNCHANGED <<script, starts>>

Restart ==
  /\ outcome # "running" /\ starts < MaxStarts /\ starts' = starts + 1
  /\ script' \in Scripts /\ todo' = Program[script'] /\ outcome' = "running"
  /\ Forgotten /\ UNCHANGED bed

Working ==
  \/ Deploying \/ FreshBench \/ Iperf \/ BrowseSite \/ Speedtest \/ RecordBatch
  \/ CheckLink \/ Raise \/ Finish

Next == Working \/ Happens \/ Dies \/ Kill \/ Restart

Spec == Init /\ [][Next]_vars

\* A command that can end does (iperf is given 600 seconds).  Nothing makes a
\* container come up, so its loops in testbeds.py need not end.
FairSpec == Spec /\ WF_vars(Working)
-----------------------------------------------------------------------------
(* What a script files under a label was measured on the network of that   *)
(* label: this scenario's proxies with its options at both ends, at this   *)
(* packet loss and orbit, and nothing left of an earlier run.  Zeros for a *)
(* transfer that failed are possible everywhere.  For OpenVPN it says that *)
(* it has been launched, not that it has connected (scenarios.py:48).      *)
Labelled ==
  \A i \in DOMAIN results :
    LET label == results[i].label
    IN  \A j \in DOMAIN results[i].batch :
          results[i].batch[j].ok =>
            results[i].batch[j].setting =
              Promised(label.kind, label.orbit, label.level, label.plr)

(* An iperf script that finishes has, for every label, each batch with one *)
(* result per transfer and no result of another batch.                     *)
Complete ==
  (outcome = "finished" /\ script[1] \in {"ack bundling", "iperf", "plr"}) =>
    /\ Len(results) =
         CASE script[1] = "ack bundling" -> Len(AckLevels) * Len(Plrs)
           [] script[1] = "iperf" -> 1
           [] script[1] = "plr" -> Len(Plrs) * MetaIterations * Iterations
    /\ \A i \in DOMAIN results :
         Len(results[i].batch) =
           Len(Sizes) * (IF script[1] = "plr" THEN 1 ELSE Iterations)

(* Where a script can wait for ever: the loops of start_testbed have no    *)
(* limit, one until the simulator knows all hosts (testbeds.py:32), one    *)
(* until its status says RUNNING more than three times (testbeds.py:47).   *)
Unknown == At("await hosts") /\ bed.hosts # Hosts
NotRunning ==
  At("await running") /\ (bed.running # Hosts \/ OtherWords = 0)

(* A script ends, unless it waits for a host that never comes up or for a  *)
(* fourth RUNNING where the three components are all that say it; whatever *)
(* else fails, and whoever kills or restarts it.                           *)
Ends == <>[](outcome # "running") \/ <>[]Unknown \/ <>[]NotRunning
=============================================================================
