--------------------------- MODULE SpeedtestClient --------------------------
(***************************************************************************)
(* The Speedtest object of speedtest.py: its configuration, server list,   *)
(* closest servers, chosen server and results, as its methods leave them.  *)
(* "todo" holds what the methods called so far have still to do, the       *)
(* innermost first; an exception empties it, since no method catches what  *)
(* another one raises.  Each HTTP request is one step with every outcome.  *)
(***************************************************************************)
EXTENDS Integers, Sequences, FiniteSets

CONSTANTS
  Server,       \* servers speedtest.net may list
  Distance,     \* distance of each, in km
  Ignored,      \* ignoreids of the configuration
  Lists,        \* the lists a URL may answer with
  Limit,        \* limit of get_closest_servers
  Latency,      \* what a ping may take
  Failed,       \* what a failed ping counts as
  Rate,         \* rates a measurement may come to
  FastRate,     \* rates above this one are uploaded with FastThreads
  Threads,      \* threads/upload of the configuration
  FastThreads,  \* the 8 of download()
  Mini,         \* the server of set_mini_server
  None

\* What a call may end with.
Exceptions ==
  {"ConfigRetrievalError", "SpeedtestConfigError", "SpeedtestServersError",
   "NoMatchedServers", "SpeedtestMiniConnectFailure", "InvalidSpeedtestMiniServer",
   "SpeedtestBestServerFailure", "ShareResultsConnectFailure",
   "ShareResultsSubmitFailure", "InvalidServerIDType", "SpeedtestCLIError", "KeyError", "TypeError", "AttributeError", "HTTPError"}

ASSUME ClientAssumption ==
  /\ Distance \in [Server -> Nat] /\ Ignored \subseteq Server
  /\ Lists \subseteq SUBSET Server /\ IsFiniteSet(Server)
  /\ Limit \in Nat \ {0}
  /\ Latency \subseteq Nat /\ Failed \in Nat
  /\ Rate \subseteq Nat /\ FastRate \in Nat
  /\ {Threads, FastThreads} \subseteq Nat \ {0}
  /\ Mini \notin Server /\ None \notin Server \cup {Mini} \cup Nat \cup Exceptions

VARIABLES
  todo,         \* steps the running methods have still to take
  raised,       \* the exception the last call ended with, or None
  config,       \* self.config has been filled
  upThreads,    \* self.config['threads']['upload']
  servers,      \* self.servers, and whether it is the list of a mini server
  closest,      \* self.closest
  best,         \* self._best
  results,      \* self.results
  url,          \* get_servers: the URL it is at, of urls
  filter,       \* get_servers: servers and exclude
  left,         \* get_best_server: servers still to be tried
  tried,        \* get_best_server: server and sum of each one tried
  got,          \* a list has arrived since get_servers was last called
  tested        \* the servers the rates in results were measured against

objectVars == <<config, upThreads, servers, closest, best, results>>
localVars == <<url, filter, left, tried>>
historyVars == <<got, tested>>
clientVars == <<todo, raised, objectVars, localVars, historyVars>>

Urls == 1 .. 4
NoFilter == [servers |-> {}, exclude |-> {}]
AnyServer == Server \cup {Mini}

Blank ==
  /\ raised = None /\ config = FALSE /\ upThreads = Threads
  /\ servers = [mini |-> FALSE, ids |-> {}] /\ closest = <<>> /\ best = None
  /\ results = [server |-> None, ping |-> 0, download |-> 0, upload |-> 0,
                share |-> None]
  /\ url = 1 /\ filter = NoFilter /\ left = <<>> /\ tried = <<>>
  /\ got = FALSE /\ tested = [download |-> None, upload |-> None]

Doing(step) == todo # <<>> /\ Head(todo) = step

\* The step is done, and "more" is to be done before the rest.
Then(more) == todo' = more \o Tail(todo) /\ UNCHANGED raised

Raise(exception) == todo' = <<>> /\ raised' = exception

\* A caller may call a method when no other runs; the exception of the last
\* one is then gone.
Call(step) == todo = <<>> /\ todo' = <<step>> /\ raised' = None
-----------------------------------------------------------------------------
(* get_config, called by the constructor.                                  *)

\* A connection or read error, or XML that is none or lacks the location.
ConfigFails ==
  /\ Doing("config")
  /\ Raise("ConfigRetrievalError") \/ Raise("SpeedtestConfigError")
  /\ UNCHANGED objectVars /\ UNCHANGED localVars
  /\ UNCHANGED historyVars

\* A successful status other than 200: get_config returns None and the
\* constructor looks for self.config['client'].  So it does, with a message
\* of its own, when an attribute of the XML is missing.
ConfigIsNone ==
  /\ Doing("config")
  /\ Raise("KeyError")
  /\ UNCHANGED objectVars /\ UNCHANGED localVars
  /\ UNCHANGED historyVars

ConfigArrives ==
  /\ Doing("config")
  /\ config' = TRUE
  /\ Then(<<>>)
  /\ UNCHANGED <<upThreads, servers, closest, best, results>>
  /\ UNCHANGED localVars
  /\ UNCHANGED historyVars

GetConfig == ConfigFails \/ ConfigIsNone \/ ConfigArrives
-----------------------------------------------------------------------------
(* get_servers.                                                            *)

\* The list is cleared before the arguments are looked at.
StartServers ==
  /\ Doing("servers")
  /\ servers' = [servers EXCEPT !.ids = {}] /\ url' = 1
  /\ Then(<<"fetch">>)
  /\ UNCHANGED <<config, upThreads, closest, best, results, filter, left, tried>>
  /\ got' = FALSE /\ UNCHANGED tested

\* An id that is no number, which argparse lets no command line contain: the
\* list is cleared all the same.
BadServerID ==
  /\ Doing("badid")
  /\ servers' = [servers EXCEPT !.ids = {}]
  /\ Raise("InvalidServerIDType")
  /\ UNCHANGED <<config, upThreads, closest, best, results>> /\ UNCHANGED localVars
  /\ got' = FALSE /\ UNCHANGED tested

\* Mutant: the ignored servers are kept.
KeptIgnored(list) ==
  {s \in list \ filter.exclude : filter.servers = {} \/ s \in filter.servers}

\* Mutant: the exclusion is forgotten.
KeptUnlessIgnored(list) ==
  {s \in list \ Ignored : filter.servers = {} \/ s \in filter.servers}

Kept(list) ==
  {s \in list \ (Ignored \cup filter.exclude) :
     filter.servers = {} \/ s \in filter.servers}

\* Behind the loop: nothing left of a filtered list is an error.
EndServers(ids) ==
  IF filter # NoFilter /\ ids = {} THEN Raise("NoMatchedServers") ELSE Then(<<>>)

ListArrives ==
  /\ Doing("fetch")
  /\ \E list \in Lists :
       IF servers.mini /\ Kept(list) # {}
         THEN Raise("TypeError") /\ UNCHANGED servers
         ELSE /\ servers' = [servers EXCEPT !.ids = Kept(list)]
              /\ EndServers(Kept(list))
  /\ got' = TRUE /\ UNCHANGED tested
  /\ UNCHANGED <<config, upThreads, closest, best, results>>
  /\ UNCHANGED localVars

\* Mutant: behind the last URL comes the first.
ListFailsRetried ==
  /\ Doing("fetch")
  /\ url' = IF url = 4 THEN 1 ELSE url + 1
  /\ UNCHANGED <<todo, raised>>
  /\ UNCHANGED objectVars /\ UNCHANGED <<filter, left, tried>>
  /\ UNCHANGED historyVars

\* No connection, an error while reading, or another status: the next URL.
\* ServersRetrievalError never leaves get_servers.
ListFails ==
  /\ Doing("fetch")
  /\ IF url = 4 THEN UNCHANGED url /\ EndServers(servers.ids)
                ELSE url' = url + 1 /\ UNCHANGED <<todo, raised>>
  /\ UNCHANGED objectVars /\ UNCHANGED <<filter, left, tried>>
  /\ UNCHANGED historyVars

\* Malformed XML, or a compressed answer that cannot be read to its end,
\* leaves get_servers at once.
ListBreaks ==
  /\ Doing("fetch")
  /\ Raise("SpeedtestServersError") \/ Raise("HTTPError")
  /\ UNCHANGED objectVars /\ UNCHANGED localVars
  /\ UNCHANGED historyVars

GetServers == StartServers \/ BadServerID \/ ListArrives \/ ListFails \/ ListBreaks
-----------------------------------------------------------------------------
(* set_mini_server.                                                        *)

\* Not reachable, a page that cannot be read to its end, or no upload.php,
\* .asp, .aspx or .jsp behind it.
MiniFails ==
  /\ Doing("mini")
  /\ \/ Raise("SpeedtestMiniConnectFailure") \/ Raise("InvalidSpeedtestMiniServer")
     \/ Raise("HTTPError")
  /\ UNCHANGED objectVars /\ UNCHANGED localVars
  /\ UNCHANGED historyVars

\* The caller hands the list to get_best_server.  One that does not is left as
\* by PingBreaks.
MiniFound ==
  /\ Doing("mini")
  /\ servers' = [mini |-> TRUE, ids |-> {Mini}]
  /\ left' = <<Mini>> /\ tried' = <<>>
  /\ Then(<<"ping">>)
  /\ UNCHANGED <<config, upThreads, closest, best, results, url, filter>>
  /\ UNCHANGED historyVars

SetMiniServer == MiniFails \/ MiniFound
-----------------------------------------------------------------------------
(* get_closest_servers.                                                    *)

StartClosest ==
  /\ Doing("closest")
  /\ Then(IF servers.ids = {} THEN <<"servers", "limit">> ELSE <<"limit">>)
  /\ filter' = NoFilter
  /\ UNCHANGED objectVars /\ UNCHANGED <<url, left, tried>>
  /\ UNCHANGED historyVars

\* How many servers are appended: the loop ends only when the length is the
\* limit, which a list that is too long already never meets.
Room == IF Len(closest) < Limit THEN Limit - Len(closest) ELSE Cardinality(servers.ids)

Least(m, n) == IF m < n THEN m ELSE n

\* The nearest ones in order of distance, equal ones in any order.
Nearest(ids, n) ==
  {q \in [1 .. Least(n, Cardinality(ids)) -> ids] :
     \A i \in DOMAIN q :
       /\ \A j \in DOMAIN q : i < j => q[i] # q[j] /\ Distance[q[i]] <= Distance[q[j]]
       /\ \A s \in ids \ {q[j] : j \in DOMAIN q} : Distance[q[i]] <= Distance[s]}

LimitServers ==
  /\ Doing("limit")
  /\ IF servers.mini
       THEN Raise("AttributeError") /\ UNCHANGED closest
       ELSE /\ \E q \in Nearest(servers.ids, Room) : closest' = closest \o q
            /\ Then(<<>>)
  /\ UNCHANGED <<config, upThreads, servers, best, results>>
  /\ UNCHANGED localVars
  /\ UNCHANGED historyVars

GetClosestServers == StartClosest \/ LimitServers
-----------------------------------------------------------------------------
(* get_best_server.                                                        *)

StartBest ==
  /\ Doing("best")
  /\ Then(IF closest = <<>> THEN <<"closest", "choose">> ELSE <<"choose">>)
  /\ UNCHANGED objectVars /\ UNCHANGED localVars
  /\ UNCHANGED historyVars

ChooseAmong ==
  /\ Doing("choose")
  /\ left' = closest /\ tried' = <<>>
  /\ Then(<<"ping">>)
  /\ UNCHANGED objectVars /\ UNCHANGED <<url, filter>>
  /\ UNCHANGED historyVars

\* Three pings, a failed or wrong answer counting as Failed.  The code keeps
\* the sum divided by a constant.
PingServer ==
  /\ Doing("ping") /\ left # <<>>
  /\ \E ping \in [1 .. 3 -> Latency \cup {Failed}] :
       tried' = Append(tried, [server |-> Head(left),
                               sum |-> ping[1] + ping[2] + ping[3]])
  /\ left' = Tail(left)
  /\ UNCHANGED <<todo, raised, url, filter>> /\ UNCHANGED objectVars
  /\ UNCHANGED historyVars

\* Mutant: the error ends the round with what there is.
PingBreaksOff ==
  /\ Doing("ping") /\ left # <<>>
  /\ left' = <<>>
  /\ UNCHANGED <<todo, raised, url, filter, tried>> /\ UNCHANGED objectVars
  /\ UNCHANGED historyVars

\* An answer is read outside the try, so an error there leaves the method.
PingBreaks ==
  /\ Doing("ping") /\ left # <<>>
  /\ Raise("HTTPError")
  /\ UNCHANGED objectVars /\ UNCHANGED localVars
  /\ UNCHANGED historyVars

\* Of servers with the same average the dictionary has the last.
Fastest ==
  CHOOSE i \in DOMAIN tried :
    \A j \in DOMAIN tried : \/ tried[i].sum < tried[j].sum
                            \/ tried[i].sum = tried[j].sum /\ j <= i

PickBest ==
  /\ Doing("ping") /\ left = <<>>
  /\ IF tried = <<>>
       THEN Raise("SpeedtestBestServerFailure") /\ UNCHANGED <<best, results>>
       ELSE /\ best' = tried[Fastest].server
            /\ results' = [results EXCEPT !.server = best', !.ping = tried[Fastest].sum]
            /\ Then(<<>>)
  /\ UNCHANGED <<config, upThreads, servers, closest>>
  /\ UNCHANGED localVars
  /\ UNCHANGED historyVars

GetBestServer == StartBest \/ ChooseAmong \/ PingServer \/ PingBreaks \/ PickBest
-----------------------------------------------------------------------------
(* download and upload, as SpeedtestPool has them inside, and share.       *)

WithBest == IF best = None THEN <<"best">> ELSE <<>>

\* The property "best" chooses a server if there is none yet.
StartMeasuring ==
  /\ \/ Doing("download") /\ Then(WithBest \o <<"downloading">>)
     \/ Doing("upload") /\ Then(WithBest \o <<"uploading">>)
  /\ UNCHANGED objectVars /\ UNCHANGED localVars
  /\ UNCHANGED historyVars

\* A fast download raises the number of threads for the upload.
Downloaded ==
  /\ Doing("downloading")
  /\ \E rate \in Rate :
       /\ results' = [results EXCEPT !.download = rate]
       /\ upThreads' = IF rate > FastRate THEN FastThreads ELSE upThreads
  /\ tested' = [tested EXCEPT !.download = best]
  /\ Then(<<>>)
  /\ UNCHANGED <<config, servers, closest, best, got>> /\ UNCHANGED localVars

\* Mutant: the exception is swallowed.
UploadedAnyhow ==
  /\ Doing("uploading")
  /\ Then(<<>>)
  /\ \/ \E rate \in Rate : /\ results' = [results EXCEPT !.upload = rate]
                           /\ tested' = [tested EXCEPT !.upload = best]
     \/ UNCHANGED <<results, tested>>
  /\ UNCHANGED <<config, upThreads, servers, closest, best, got>> /\ UNCHANGED localVars

Uploaded ==
  /\ Doing("uploading")
  /\ \E rate \in Rate : results' = [results EXCEPT !.upload = rate]
  /\ tested' = [tested EXCEPT !.upload = best]
  /\ Then(<<>>)
  /\ UNCHANGED <<config, upThreads, servers, closest, best, got>> /\ UNCHANGED localVars

\* There is no memory for a body, or a thread that died has left None among
\* the results that are summed up.
UploadFails ==
  /\ Doing("uploading")
  /\ Raise("SpeedtestCLIError") \/ Raise("TypeError")
  /\ UNCHANGED objectVars /\ UNCHANGED localVars
  /\ UNCHANGED historyVars

\* Producer and consumer are joined without a limit, and one of them may wait
\* for ever, as the property Ends of SpeedtestPool tells.
MeasureHangs ==
  /\ Doing("downloading") \/ Doing("uploading")
  /\ Then(<<"hang">>)
  /\ UNCHANGED objectVars /\ UNCHANGED localVars
  /\ UNCHANGED historyVars

\* Without a server there is no id to send; the answer is read outside any try.
ShareFails ==
  /\ Doing("share") /\ results.share = None
  /\ IF results.server = None
       THEN Raise("KeyError")
       ELSE \/ Raise("ShareResultsConnectFailure") \/ Raise("ShareResultsSubmitFailure")
            \/ Raise("HTTPError")
  /\ UNCHANGED objectVars /\ UNCHANGED localVars
  /\ UNCHANGED historyVars

\* The link shows what was posted; it is asked for only once.
Posted == [results EXCEPT !.share = None]

Share ==
  /\ Doing("share")
  /\ results.share # None \/ results.server # None
  /\ results' = IF results.share = None THEN [results EXCEPT !.share = Posted]
                                        ELSE results
  /\ Then(<<>>)
  /\ UNCHANGED <<config, upThreads, servers, closest, best>> /\ UNCHANGED localVars
  /\ UNCHANGED historyVars

Measure ==
  \/ StartMeasuring \/ Downloaded \/ Uploaded \/ UploadFails \/ MeasureHangs
  \/ ShareFails \/ Share

ClientNext ==
  \/ GetConfig \/ GetServers \/ SetMiniServer \/ GetClosestServers
  \/ GetBestServer \/ Measure
-----------------------------------------------------------------------------
(* Types, and that the locals of a method are about known servers.         *)
TypeOK ==
  /\ todo \in Seq({"config", "servers", "badid", "fetch", "mini", "closest", "limit",
                   "best", "choose", "ping", "download", "downloading", "upload",
                   "uploading", "hang", "share"})
  /\ config \in BOOLEAN /\ upThreads \in {Threads, FastThreads}
  /\ servers.ids \subseteq IF servers.mini THEN {Mini} ELSE Server \ Ignored
  /\ closest \in Seq(Server \ Ignored)
  /\ best \in AnyServer \cup {None}
  /\ results.server \in AnyServer \cup {None}
  /\ url \in Urls
  /\ filter \in [servers : SUBSET Server, exclude : SUBSET Server]
  /\ left \in Seq(AnyServer) /\ tested \in [{"download", "upload"} -> AnyServer \cup {None}]

(* The server measured against, the one reported and its latency change    *)
(* together and only at the end of a whole round: every server of the list *)
(* has been tried, in its order, and none was faster.  A round that breaks *)
(* off with an error changes nothing of an earlier choice, in whatever     *)
(* order a program calls the methods.                                      *)
Named == <<best, results.server, results.ping>>

RoundEnds ==
  /\ \E list \in {closest, <<Mini>>} :
       /\ Len(tried) = Len(list)
       /\ \A i \in DOMAIN tried : tried[i].server = list[i]
  /\ \E i \in DOMAIN tried :
       /\ Named' = <<tried[i].server, tried[i].server, tried[i].sum>>
       /\ \A j \in DOMAIN tried : tried[i].sum <= tried[j].sum

WholeRound == [][RoundEnds]_Named
=============================================================================
