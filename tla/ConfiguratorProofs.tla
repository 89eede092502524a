------------------------- MODULE ConfiguratorProofs -------------------------
(***************************************************************************)
(* Proof that a run of the configurator that finishes leaves all files     *)
(* whole and in agreement with the addresses it has read.                  *)
(***************************************************************************)
EXTENDS Configurator, TLAPS

USE ConfiguratorAssumption

\* File, line number and variable of the i-th call of change_line.
F(i) == All[i][1]
N(i) == All[i][2]
V(i) == All[i][3]

-----------------------------------------------------------------------------
(* The sixteen calls: no line is changed twice.                            *)
LEMMA Rows ==
  /\ Len(All) = 16
  /\ F(1) = "gw.conf" /\ N(1) = 22 /\ V(1) = "EMU"
  /\ F(2) = "gw.conf" /\ N(2) = 25 /\ V(2) = "GW"
  /\ F(3) = "gw.conf" /\ N(3) = 29 /\ V(3) = "GW_IP6"
  /\ F(4) = "gateway/launch_pepsal.sh" /\ N(4) = 5 /\ V(4) = "ST"
  /\ F(5) = "proxy-st/client.ovpn" /\ N(5) = 6 /\ V(5) = "GW"
  /\ F(6) = "proxy-st/launch_firefox.sh" /\ N(6) = 4 /\ V(6) = "ST"
  /\ F(7) = "proxy-st/launch_firefox.sh" /\ N(7) = 5 /\ V(7) = "GUI"
  /\ F(8) = "sat.conf" /\ N(8) = 17 /\ V(8) = "EMU"
  /\ F(9) = "term.conf" /\ N(9) = 18 /\ V(9) = "EMU"
  /\ F(10) = "term.conf" /\ N(10) = 20 /\ V(10) = "ST"
  /\ F(11) = "term.conf" /\ N(11) = 21 /\ V(11) = "ST_IP6"
  /\ F(12) = "ovpn_env.sh" /\ N(12) = 24 /\ V(12) = "GW"
  /\ F(13) = "ws-st/client.ovpn" /\ N(13) = 6 /\ V(13) = "GW"
  /\ F(14) = "ws-st/launch_firefox.sh" /\ N(14) = 4 /\ V(14) = "ST"
  /\ F(15) = "ws-st/launch_firefox.sh" /\ N(15) = 5 /\ V(15) = "GUI"
  /\ F(16) = "ws-gw/Dockerfile" /\ N(16) = 15 /\ V(16) = "GW"
BY DEF All, F, N, V

LEMMA OnePlace ==
  \A i, j \in 1 .. 16 : F(i) = F(j) /\ N(i) = N(j) => i = j
BY Rows

LEMMA EachRow ==
  ASSUME NEW i \in 1 .. 16
  PROVE  /\ N(i) \in Nat \ {0} /\ V(i) \in EnvVars
         /\ F(i) \in Files /\ N(i) \in Numbers(F(i))
         /\ Variable(F(i), N(i)) = V(i)
<1>1. N(i) \in Nat \ {0} /\ V(i) \in EnvVars
  BY Rows DEF EnvVars
<1>2. DOMAIN All = 1 .. 16
  BY Rows DEF All
<1>3. F(i) \in Files /\ N(i) \in Numbers(F(i))
  BY <1>2 DEF F, N, Files, Numbers
<1>4. Variable(F(i), N(i)) = V(i)
  <2> DEFINE P(j) == j \in DOMAIN All /\ All[j][1] = F(i) /\ All[j][2] = N(i)
             k == CHOOSE j \in DOMAIN All : All[j][1] = F(i) /\ All[j][2] = N(i)
  <2>1. k \in DOMAIN All /\ All[k][1] = F(i) /\ All[k][2] = N(i)
    BY <1>2 DEF F, N
  <2>2. k = i
    BY <1>2, <2>1, OnePlace DEF F, N
  <2>3. Variable(F(i), N(i)) = All[k][3]
    BY DEF Variable
  <2> QED
    BY <2>2, <2>3 DEF V
<1> QED
  BY <1>1, <1>3, <1>4

LEMMA HasRow ==
  ASSUME NEW f \in Files
  PROVE  /\ \E i \in 1 .. 16 : F(i) = f
         /\ \A n \in Numbers(f) : \E i \in 1 .. 16 : F(i) = f /\ N(i) = n
         /\ 0 \notin Numbers(f)
<1>1. DOMAIN All = 1 .. 16
  BY Rows DEF All
<1>2. \E i \in 1 .. 16 : F(i) = f
  BY <1>1 DEF Files, F
<1>3. \A n \in Numbers(f) : \E i \in 1 .. 16 : F(i) = f /\ N(i) = n
  BY <1>1 DEF Numbers, F, N
<1>4. \A i \in 1 .. 16 : N(i) # 0
  BY EachRow
<1> QED
  BY <1>2, <1>3, <1>4

-----------------------------------------------------------------------------
(* g is what file f may hold: a known line for each number, and the rest.  *)
Contents(g, f) ==
  /\ g \in [{0} \cup Numbers(f) -> Heads \cup {"as shipped"}]
  /\ g[0] = "as shipped" /\ \A n \in Numbers(f) : g[n] \in Heads

(* The line of call i is in its file, with the address that was read.      *)
Written(i) == files[F(i)] # Empty /\ files[F(i)][N(i)] = read[V(i)]

Types ==
  /\ pc \in 1 .. 16 /\ step \in {"idle", "read", "open", "write"}
  /\ env \in [EnvVars -> Heads] /\ read \in [EnvVars -> Heads]
  /\ DOMAIN files = Files
  /\ \A f \in Files : files[f] = Empty \/ Contents(files[f], f)

(* The lines of all calls so far are in the files, but for those of the    *)
(* file that is open, which the process has in its hands.                  *)
Progress ==
  /\ step \in {"read", "open"} => \A i \in 1 .. pc - 1 : Written(i)
  /\ step = "write" => \A i \in 1 .. pc - 1 : F(i) # F(pc) => Written(i)
  /\ step \in {"open", "write"} =>
       /\ Contents(lines, F(pc))
       /\ \A i \in 1 .. pc : F(i) = F(pc) => lines[N(i)] = read[V(i)]

ConfiguratorInv ==
  /\ Types /\ Progress
  /\ outcome = "finished" => step = "idle" /\ \A i \in 1 .. 16 : Written(i)

LEMMA AtFile == Entries[pc][2] = N(pc) /\ Entries[pc][3] = V(pc) /\ file = F(pc)
BY DEF Entries, N, V, F, file

LEMMA EmptyHasNoLines ==
  /\ DOMAIN Empty = {}
  /\ \A g, f : Contents(g, f) => g # Empty /\ DOMAIN g = {0} \cup Numbers(f)
BY DEF Empty, Contents

LEMMA InitInv == Init => ConfiguratorInv
<1> SUFFICES ASSUME Init PROVE ConfiguratorInv
  OBVIOUS
<1>1. env \in [EnvVars -> Heads] /\ read = env
  BY DEF Init
<1>2. ASSUME NEW f \in Files PROVE Contents(files[f], f)
  <2>1. files[f] = Lines(f, env)
    BY DEF Init
  <2>2. 0 \notin Numbers(f)
    BY HasRow
  <2>3. ASSUME NEW n \in Numbers(f) PROVE env[Variable(f, n)] \in Heads
    <3>1. PICK i \in 1 .. 16 : F(i) = f /\ N(i) = n
      BY HasRow
    <3> QED
      BY <1>1, <3>1, EachRow
  <2> QED
    BY <2>1, <2>2, <2>3 DEF Lines, Contents
<1> QED
  BY <1>1, <1>2 DEF Init, ConfiguratorInv, Types, Progress

-----------------------------------------------------------------------------
LEMMA ReadInv ==
  ASSUME ConfiguratorInv, ReadLines
  PROVE  ConfiguratorInv'
<1> USE DEF ConfiguratorInv
<1>0. /\ pc \in 1 .. 16 /\ F(pc) \in Files /\ N(pc) \in Numbers(F(pc))
      /\ read[V(pc)] \in Heads /\ step = "read"
      /\ UNCHANGED <<env, read, files>>
  BY EachRow DEF Types, ReadLines
<1>1. CASE N(pc) \in DOMAIN files[F(pc)]
  <2>1. /\ lines' = [files[F(pc)] EXCEPT ![N(pc)] = read[V(pc)]]
        /\ step' = "open" /\ UNCHANGED <<pc, outcome>>
    BY <1>1, AtFile DEF ReadLines
  <2>2. Contents(files[F(pc)], F(pc))
    BY <1>0, <1>1, EmptyHasNoLines DEF Types
  <2>3. Contents(lines', F(pc))
    <3>1. 0 \notin Numbers(F(pc))
      BY <1>0, HasRow
    <3> QED
      BY <1>0, <2>1, <2>2, <3>1 DEF Contents
  <2>4. ASSUME NEW i \in 1 .. pc, F(i) = F(pc)
        PROVE  lines'[N(i)] = read[V(i)]
    <3>1. CASE i = pc
      BY <1>0, <1>1, <2>1, <3>1
    <3>2. CASE i # pc
      <4>1. i \in 1 .. 16 /\ i \in 1 .. pc - 1
        BY <1>0, <3>2
      <4>2. N(i) # N(pc)
        BY <1>0, <2>4, <3>2, <4>1, OnePlace
      <4>3. files[F(pc)][N(i)] = read[V(i)]
        BY <1>0, <2>4, <4>1 DEF Progress, Written
      <4>4. N(i) \in DOMAIN files[F(pc)]
        BY <2>2, <2>4, <4>1, EachRow, EmptyHasNoLines
      <4> QED
        BY <2>1, <4>2, <4>3, <4>4
    <3> QED
      BY <3>1, <3>2
  <2>5. Progress'
    BY <1>0, <2>1, <2>3, <2>4 DEF Progress, Written
  <2> QED
    BY <1>0, <2>1, <2>5 DEF Types
<1>2. CASE N(pc) \notin DOMAIN files[F(pc)]
  BY <1>0, <1>2, AtFile DEF ReadLines, Stops, Types, Progress
<1> QED
  BY <1>1, <1>2

LEMMA OpenInv ==
  ASSUME ConfiguratorInv, OpenToWrite
  PROVE  ConfiguratorInv'
<1> USE DEF ConfiguratorInv
<1>1. /\ pc \in 1 .. 16 /\ F(pc) \in Files /\ DOMAIN files = Files
      /\ step = "open" /\ step' = "write"
      /\ files' = [files EXCEPT ![F(pc)] = Empty]
      /\ UNCHANGED <<env, read, pc, lines, outcome>>
  BY EachRow, AtFile DEF Types, OpenToWrite
<1>2. Types'
  BY <1>1 DEF Types
<1>3. ASSUME NEW i \in 1 .. pc - 1, F(i) # F(pc) PROVE Written(i)'
  <2>1. Written(i) /\ files'[F(i)] = files[F(i)]
    BY <1>1, <1>3, EachRow DEF Progress
  <2> QED
    BY <1>1, <2>1 DEF Written
<1> QED
  BY <1>1, <1>2, <1>3 DEF Progress

LEMMA WriteInv ==
  ASSUME ConfiguratorInv, WriteLines
  PROVE  ConfiguratorInv'
<1> USE DEF ConfiguratorInv
<1>1. /\ pc \in 1 .. 16 /\ F(pc) \in Files /\ DOMAIN files = Files
      /\ step = "write" /\ Len(Entries) = 16
      /\ files' = [files EXCEPT ![F(pc)] = lines]
      /\ UNCHANGED <<env, read>>
  BY EachRow, AtFile, Rows DEF Types, WriteLines, Entries
<1>2. /\ Contents(lines, F(pc)) /\ lines # Empty
      /\ \A i \in 1 .. pc : F(i) = F(pc) => lines[N(i)] = read[V(i)]
  BY <1>1, EmptyHasNoLines DEF Progress
<1>3. /\ DOMAIN files' = Files
      /\ \A f \in Files : files'[f] = Empty \/ Contents(files'[f], f)
  BY <1>1, <1>2 DEF Types
<1>4. ASSUME NEW i \in 1 .. pc PROVE Written(i)'
  <2>1. F(i) \in Files /\ i \in 1 .. 16
    BY <1>1, EachRow
  <2>2. CASE F(i) = F(pc)
    BY <1>1, <1>2, <2>1, <2>2 DEF Written
  <2>3. CASE F(i) # F(pc)
    <3>1. Written(i)
      BY <1>1, <2>3 DEF Progress
    <3> QED
      BY <1>1, <2>1, <2>3, <3>1 DEF Written
  <2> QED
    BY <2>2, <2>3
<1>5. CASE pc = 16
  <2>1. step' = "idle" /\ pc' = 1
    BY <1>1, <1>5 DEF WriteLines, Stops
  <2> QED
    BY <1>1, <1>3, <1>4, <1>5, <2>1 DEF Types, Progress
<1>6. CASE pc # 16
  <2>1. step' = "read" /\ pc' = pc + 1 /\ outcome' = outcome
    BY <1>1, <1>6 DEF WriteLines
  <2>2. pc' \in 1 .. 16 /\ pc' - 1 = pc
    BY <1>1, <1>6, <2>1
  <2>3. Progress'
    BY <1>4, <2>1, <2>2 DEF Progress
  <2> QED
    BY <1>1, <1>3, <2>1, <2>2, <2>3 DEF Types
<1> QED
  BY <1>5, <1>6

LEMMA NextInv ==
  ASSUME ConfiguratorInv, [Next]_vars
  PROVE  ConfiguratorInv'
<1>1. CASE EditEnv
  BY <1>1 DEF EditEnv, ConfiguratorInv, Types, Progress, Written
<1>2. CASE Start
  BY <1>2 DEF Start, ConfiguratorInv, Types, Progress
<1>3. CASE Crash
  BY <1>3 DEF Crash, Stops, ConfiguratorInv, Types, Progress
<1>4. CASE UNCHANGED vars
  BY <1>4 DEF vars, ConfiguratorInv, Types, Progress, Written
<1> QED
  BY <1>1, <1>2, <1>3, <1>4, ReadInv, OpenInv, WriteInv DEF Next, change_line

THEOREM InvHolds == Spec => []ConfiguratorInv
BY InitInv, NextInv, PTL DEF Spec

(* A file is whole or empty, whatever run dies at whatever line.           *)
THEOREM FilesWholeOrEmpty == Spec => []TypeOK
<1>1. ConfiguratorInv => TypeOK
  BY EmptyHasNoLines, Rows DEF ConfiguratorInv, Types, TypeOK, Contents, Entries
<1> QED
  BY <1>1, InvHolds, PTL

(* A run that finishes leaves every file with the addresses it has read,   *)
(* for any number of runs that died before and edits of .env meanwhile.    *)
THEOREM FinishedIsConsistent == Spec => []Consistent
<1>1. ConfiguratorInv => Consistent
  <2> SUFFICES ASSUME ConfiguratorInv, outcome = "finished", NEW f \in Files
               PROVE  files[f] = Lines(f, read)
    BY DEF Consistent
  <2>1. \A i \in 1 .. 16 : Written(i)
    BY DEF ConfiguratorInv
  <2>2. Contents(files[f], f)
    BY <2>1, HasRow DEF ConfiguratorInv, Types, Written
  <2>3. ASSUME NEW n \in Numbers(f) PROVE files[f][n] = read[Variable(f, n)] /\ n # 0
    <3>1. PICK i \in 1 .. 16 : F(i) = f /\ N(i) = n
      BY HasRow
    <3> QED
      BY <2>1, <3>1, EachRow DEF Written
  <2> QED
    BY <2>2, <2>3 DEF Contents, Lines
<1> QED
  BY <1>1, InvHolds, PTL
=============================================================================
