---------------------------- MODULE Configurator ---------------------------
(***************************************************************************)
(* configurator.py: rewrites sixteen lines in ten files that configure the *)
(* containers, one at a time, with the network addresses of .env.  Each    *)
(* line costs a whole read and a whole write of its file, and the process  *)
(* may die between the two; .env may be edited at any time.                *)
(***************************************************************************)
EXTENDS Integers, Sequences, FiniteSets

CONSTANTS
  Heads,      \* values of an address variable of .env
  MaxEdits,   \* bound: edits of .env
  MaxRuns     \* bound: runs of the script

ASSUME ConfiguratorAssumption == {MaxEdits, MaxRuns} \subseteq Nat /\ Heads # {}

VARIABLES
  env,        \* .env
  read,       \* the values the process has read from it
  pc,         \* the line it is at, of Entries
  step,       \* "idle", or what change_line does next: "read", "open", "write"
  lines,      \* change_line: the lines read
  files,      \* the files: the value that each line was written with
  outcome,    \* how the last run ended
  edits, runs

vars == <<env, read, pc, step, lines, files, outcome, edits, runs>>

EnvVars == {"EMU", "GW", "ST", "GUI", "GW_IP6", "ST_IP6"}

\* The calls of change_line in the functions' order, a group for each container:
\* file, line number and variable.
All ==
  <<<<"gw.conf", 22, "EMU">>, <<"gw.conf", 25, "GW">>, <<"gw.conf", 29, "GW_IP6">>,
    <<"gateway/launch_pepsal.sh", 5, "ST">>,
    <<"proxy-st/client.ovpn", 6, "GW">>, <<"proxy-st/launch_firefox.sh", 4, "ST">>,
    <<"proxy-st/launch_firefox.sh", 5, "GUI">>,
    <<"sat.conf", 17, "EMU">>,
    <<"term.conf", 18, "EMU">>, <<"term.conf", 20, "ST">>, <<"term.conf", 21, "ST_IP6">>,
    <<"ovpn_env.sh", 24, "GW">>,
    <<"ws-st/client.ovpn", 6, "GW">>, <<"ws-st/launch_firefox.sh", 4, "ST">>,
    <<"ws-st/launch_firefox.sh", 5, "GUI">>,
    <<"ws-gw/Dockerfile", 15, "GW">>>>

\* Mutant: a container is forgotten.
EntriesForgetful == SubSeq(All, 1, 12) \o SubSeq(All, 16, 16)

Entries == All

Files == {All[i][1] : i \in DOMAIN All}
Numbers(f) == {All[i][2] : i \in {i \in DOMAIN All : All[i][1] = f}}
Variable(f, n) == LET i == CHOOSE i \in DOMAIN All : All[i][1] = f /\ All[i][2] = n
                  IN  All[i][3]

\* A file: the lines that the script knows, and the others as line 0.  An
\* empty file has none.
Empty == [n \in {} |-> 0]
Lines(f, values) == [n \in {0} \cup Numbers(f) |->
                       IF n = 0 THEN "as shipped" ELSE values[Variable(f, n)]]
file == Entries[pc][1]
-----------------------------------------------------------------------------
Init ==
  /\ env \in {[v \in EnvVars |-> h] : h \in Heads}
  /\ files = [f \in Files |-> Lines(f, env)]
  /\ read = env /\ pc = 1 /\ step = "idle" /\ lines = Empty
  /\ outcome = "none" /\ edits = 0 /\ runs = 0

\* The user.
EditEnv ==
  /\ edits < MaxEdits /\ edits' = edits + 1
  /\ \E v \in EnvVars, h \in Heads : env' = [env EXCEPT ![v] = h]
  /\ UNCHANGED <<read, pc, step, lines, files, outcome, runs>>

\* load_dotenv as the module is imported.
Start ==
  /\ step = "idle" /\ runs < MaxRuns /\ runs' = runs + 1
  /\ read' = env /\ pc' = 1 /\ step' = "read" /\ outcome' = "running"
  /\ UNCHANGED <<env, lines, files, edits>>

Stops(how) == step' = "idle" /\ lines' = Empty /\ pc' = 1 /\ outcome' = how

\* Mutant: a line that is not there is added.
ReadLinesAdding ==
  /\ step = "read"
  /\ lines' = [n \in DOMAIN files[file] \cup {Entries[pc][2]} |->
                 IF n = Entries[pc][2] THEN read[Entries[pc][3]] ELSE files[file][n]]
  /\ step' = "open" /\ UNCHANGED <<pc, outcome>>
  /\ UNCHANGED <<env, read, files, edits, runs>>

\* A line number beyond the end of the file is an IndexError.
ReadLines ==
  /\ step = "read"
  /\ IF Entries[pc][2] \in DOMAIN files[file]
       THEN /\ lines' = [files[file] EXCEPT ![Entries[pc][2]] = read[Entries[pc][3]]]
            /\ step' = "open" /\ UNCHANGED <<pc, outcome>>
       ELSE Stops("IndexError")
  /\ UNCHANGED <<env, read, files, edits, runs>>

\* open(filename, "w") empties the file.
OpenToWrite ==
  /\ step = "open"
  /\ files' = [files EXCEPT ![file] = Empty] /\ step' = "write"
  /\ UNCHANGED <<env, read, pc, lines, outcome, edits, runs>>

WriteLines ==
  /\ step = "write"
  /\ files' = [files EXCEPT ![file] = lines]
  /\ IF pc = Len(Entries) THEN Stops("finished")
                          ELSE /\ pc' = pc + 1 /\ step' = "read" /\ lines' = Empty
                               /\ UNCHANGED outcome
  /\ UNCHANGED <<env, read, edits, runs>>

Crash ==
  /\ step # "idle" /\ Stops("crashed")
  /\ UNCHANGED <<env, read, files, edits, runs>>

change_line == ReadLines \/ OpenToWrite \/ WriteLines

Next == EditEnv \/ Start \/ change_line \/ Crash

Spec == Init /\ [][Next]_vars
-----------------------------------------------------------------------------
(* Whatever run dies where, every file is whole, with an address in each   *)
(* line the script knows and all its other lines, or empty.                *)
TypeOK ==
  /\ pc \in 1 .. Len(Entries) /\ step \in {"idle", "read", "open", "write"}
  /\ env \in [EnvVars -> Heads] /\ read \in [EnvVars -> Heads]
  /\ \A f \in Files : files[f] # Empty =>
       /\ DOMAIN files[f] = {0} \cup Numbers(f) /\ files[f][0] = "as shipped"
       /\ \A n \in Numbers(f) : files[f][n] \in Heads

(* A run that finishes leaves every file whole and with the addresses it   *)
(* has read from .env, whatever earlier runs have left: over a file that a *)
(* dead run has emptied, none finishes.                                    *)
Consistent ==
  outcome = "finished" => \A f \in Files : files[f] = Lines(f, read)
=============================================================================
