# QPEP in TLA+

QPEP is a performance enhancing proxy for satellite links: a client takes the
TCP connections of its network, carries each of them over a QUIC stream to a
server on the other side of the satellite, and the server opens the TCP
connection to the real destination. The repository also has a testbed: Python
scripts that run QPEP and its rivals in containers around a simulated satellite
and measure them. This directory holds TLA+ models of both, their TLC
configurations, and proofs checked by TLAPS.

## Inventory

| Component | Source | State | Operations |
|---|---|---|---|
| Client session manager | `client.go:64-118, 164-181` | `quicSession` (global, no lock), per handler: stream, retries | accept, nil check, `OpenStream`, dial with retries, store, `OpenStreamSync` |
| Client relay | `client.go:120-162` | TCP connection, stream, two copying goroutines, wait group | write the header, copy both ways, close |
| Server relay | `server.go:82-130` | the same, and the dialed connection | read the header, dial, copy both ways, cancel the stream |
| Server listeners | `server.go:55-80` | one accept loop per session, one for sessions | accept sessions and streams, a goroutine for each |
| Header codec | `qpep_header.go` | none | `ToBytes`, `GetQpepHeader`, `QpepHeaderFromBytes`, `GetHeaderLength` |
| Options, start-up | `quic_optimizations.go`, `main.go` | flags, read once | parse, start client or server |
| Transparent listener | `client_proxy_listener.go` | a listening socket | socket options, accept |
| Testbed control | `testbeds.py`, `scenarios.py` | containers, routes, packet loss, proxies, the simulator | start, stop, attenuation, loss, deploy a scenario |
| Benchmarks, scripts | `benchmarks.py`, `simulation_examples.py`, `browser_examples.py` | results of a benchmark object, results of a script | run iperf, sitespeed, speedtest; loops over loss and options; redeploy |
| Configurator | `configurator.py` | ten files, `.env` | read a file, change a line, write it |
| speedtest: threads | `speedtest.py:786-919, 1503-1668` | `in_flight` (no lock), a queue, threads, results | producer, consumer, workers, caller, Ctrl-C |
| speedtest: object | `speedtest.py:922-1501` | config, servers, closest, best, results | get the lists, choose a server, measure, share |
| speedtest: command line | `speedtest.py:1671-2000` | options | the order of the calls, what becomes of exceptions |
| speedtest: sizes | `speedtest.py:822-873, 1177-1213, 1585-1614` | sizes, counts, a body | derive, build, read |
| speedtest: connections | `speedtest.py:367-610` | a socket | wrap the library's |

How they interact. Every accepted TCP connection is a goroutine; all of them
share `quicSession` by plain reads and writes. A connection's two copying
goroutines share one TCP connection and one stream, and each closes the whole
TCP connection when it ends. Client and server meet only in the stream: the
header, the data, FIN (client), RESET and STOP_SENDING (server), and the life
of the session. QUIC (`quic-go`), TCP (`net`) and the peers are external.

A script of the testbed drives containers one command at a time: it builds a
scenario (`scenarios.py`) on a testbed (`testbeds.py`) and runs benchmarks
(`benchmarks.py`), which may deploy the scenario anew. What they set up lives in
the containers and outlives the script. `SpeedtestBenchmark` runs `speedtest.py`
in a container; inside it, the command line calls the `Speedtest` object, whose
`download` and `upload` start the threads. The files the configurator writes
configure the containers.

What is hard:

- the unlocked global: check and use in two steps, two words per store, a
  failed dial that wipes a session others use;
- closing: half-closes, resets, two goroutines closing for each other, the
  client's end that is never told to the server, a reset that overtakes data;
- the header read with two `Read`s that may be short;
- streams abandoned by the server (no header, failed dial), limits on streams,
  and the idle timeout as the only way out;
- all of this while the session may be lost on either side at any moment;
- a testbed that comes up on its own time, keeps what earlier scripts left, and
  takes commands that fail silently or return before they have had their effect;
- speedtest's unlocked count, its caller that waits without a limit, server
  lists and results that outlive the call that made them;
- a configurator that may die between emptying a file and writing it.

`PROJECT.json` lists every such hazard at its line with the properties that
look at it, and says why where no property does.

What makes each component correct:

- relay: transparent (in order, once, no header), no close without a cause,
  data reaches the other socket, everything is released in the end;
- session manager: every connection gets a stream or is closed, one
  connection's failure is its own;
- header: what is parsed is what was written, or an error;
- listeners: every stream is accepted, one session's end is not another's;
- testbed: a deployment leaves its scenario and nothing else, the terminal is
  routed only over a running network;
- experiments: a number stands under the conditions it was measured in, none is
  missing or counted twice, a script ends unless the testbed never comes up;
- speedtest: every request counted once, no more connections than allowed but
  for lost updates of the count, the server in the report is the one measured and
  one the user allowed, the run does not succeed with less than was asked for, and
  ends unless a measurement waits for ever;
- configurator: all files agree with one reading of `.env`.

## Modules

| Module | What it is |
|---|---|
| `Relay` | one TCP connection through the tunnel, both handlers, after the client has its stream |
| `TcpSplice` | what the relay promises to the two TCP hosts |
| `RelayProperties` | type invariant, safety, inductive invariants, liveness of `Relay`, its refinement of `TcpSplice`, and the claim it refutes |
| `MCRelay` | traffic patterns for TLC |
| `RelayProofs` | type correctness; every close has a cause; the tunnel is transparent; the relay implements `TcpSplice` |
| `QpepHeader` | the header's bytes, written, read in two Reads and parsed, with its properties |
| `MCQpepHeader` | addresses of every kind for TLC |
| `QpepHeaderProofs` | the header reaches the server; what short reads ask for and lose |
| `ClientSession` | how the client's handlers come by a stream, with its properties |
| `MCClientSession` | instances for TLC |
| `ClientSessionProofs` | type correctness; a nil session needs a rival |
| `Testbed` | containers and simulator, the commands scripts execute, and every function of `testbeds.py` and `scenarios.py` as a sequence of them |
| `Experiments` | the scripts of `simulation_examples.py` and the benchmarks, killed and restarted |
| `TestbedUser` | the testbed under those scripts or in the hands of a program that calls its functions in any order |
| `MCTestbed` | scripts, scenarios, loss rates and sizes for TLC |
| `TestbedProofs` | routes, clean deployments, labels and complete results, for every script and every program |
| `Configurator` | the configurator, line by line, dying anywhere |
| `ConfiguratorProofs` | a finished run leaves consistent files |
| `TransferPool` | what a measurement of speedtest promises to its caller |
| `SpeedtestPool` | the threads of `download` and `upload` |
| `MCSpeedtestPool` | instances for TLC |
| `SpeedtestPoolProofs` | the pool's invariant; it implements `TransferPool` |
| `SpeedtestClient` | the `Speedtest` object's methods |
| `SpeedtestShell` | the command line on top of it |
| `SpeedtestCallers` | the object called by the command line, or by a program in any order |
| `MCSpeedtest` | command lines, distances and filters for TLC |
| `SpeedtestProofs` | the server that is chosen, measured and reported; success means measured |
| `SpeedtestSizes`, `MCSpeedtestSizes` | request sizes, counts and bodies |
| `SpeedtestSizesProofs` | no body is longer than announced, none much shorter; the counts agree |

### Relay

A side is `"client"` or `"server"`; the two programs relay alike, so their
copies are written once for a side `e`. `peer[e]` is the TCP host there.

| Model | Code |
|---|---|
| `sock[e]`, `inq[e]`, `outq[e]` | the `*net.TCPConn` of that side and the kernel's two buffers |
| `strm[e]`, `ended[e]`, `stop` | the stream's direction written by `e`: bytes not yet read, FIN or RESET, `CancelRead` |
| `t2q[e]`, `tbuf[e]` | `streamTCPtoQUIC`: in `Read`, in `Write`, returned; the piece between |
| `q2t[e]`, `qbuf[e]` | `streamQUICtoTCP` likewise |
| `phase[e]` | the handler: `"open"` to `"relay"` and `"end"` on the client; `"wait"`, `"preamble"`, `"address"`, `"dial"`, `"relay"`, `"end"` or `"abandoned"` on the server |
| `sess[e]` | the session as side `e` sees it |
| `garbled` | the server has acted on a short read of the header |

One action is one turn of `io.Copy` (a `Read` or a `Write`) or one step of a
handler between two blocking calls. `CloseTcp` is what both goroutines do when
their copy returns: `SetLinger(3)` and `Close` of the whole connection, which
also makes the other goroutine's next call fail. `CloseStream` is the client's
`quicStream.Close()` (FIN) after `streamWait.Wait()`; `CancelStream` the
server's `CancelRead` and `CancelWrite`. `HeaderFails` and `DialFails` leave the
stream as it is, as the code does. On a dead session closing calls do nothing.

A unit stands for a piece of payload or header of any size. Payload units are
numbered by the peer that wrote them and header units are 0, so order, loss,
duplication and a leaking header can all be told apart. A short read takes any
part of what it asked for. What a truncated preamble reads as is one fact: the
missing type byte is not `0x04`, so the longer address length is expected.

`TcpSplice` has none of this: two hosts, what each has written and received, the
sides on which the proxy has hung up, and whether the path is lost. It allows a
host to receive only the next unit, and a hang-up only when a host has ended its
side or the path is lost. The one thing of the tunnel it must admit is that the
header may be misread, but only before the destination has received anything;
from then on the destination receives pieces of the header and of the data.
`OneConnection` maps the relay to it: `hung` is the sides whose socket is
closed, `lost` that a side has lost the session, and the copies, the stream, the
handlers and the kernel's buffers are internal.

### QpepHeader

`Relay` counts header units; this module has their values. `header` is what the
client wrote, `wire` the bytes of the stream not yet read, `preamble` and
`byteInput` the two buffers of `GetQpepHeader`, zeros where `Read` has put
nothing; `stage` says which of its Reads is next. A Read takes any number of
bytes up to its buffer's size; `whole` remembers whether all have filled their
buffers. `Parsed` is the header `GetQpepHeader` returns from its buffers.
`To4`, `To16` and `Equal` are those of package `net`. An address is IPv4 in
four bytes, IPv4 mapped into sixteen, or IPv6; type `0x00` cannot occur, for a
TCP connection has an address. Zones of link-local addresses are not in
the header and not in the model. `QpepHeaderFromBytes` is called by nobody:
`ReadersAgree` says that it agrees with `GetQpepHeader` except for an IPv4
source, where it slices beyond the header.

The two modules fit: a short preamble makes the second Read ask for
`LongAddressLen >= AddressLen` in `Relay`, which is `NeverAsksForLess` here.

### ClientSession

| Model | Code |
|---|---|
| `itab`, `data` | the two words of the interface `quicSession` |
| `pc[c]` | where `handleTCPConn` of connection `c` is between two calls |
| `tries[c]`, `ret[c]`, `todo[c]` | the loop of `openQuicSession`, its result, the words of the assignment still to store |
| `on[c]` | the session of the stream |
| `status[s]`, `used[s]` | a session's life, and the streams the server has not completed |

The race on `quicSession` is modelled as the outcomes a build can produce: a
store is two single-word stores in either order, the nil check looks at the
type word, a call needs both. A read is one step: a read split around a store
uses a nil word, which is a panic, or the session in the data word, which are
the two outcomes of the model. A panic ends the process, so nothing happens
after it. `RelayEnds` gives the stream back to the server's limit or not: the
server never completes a stream it has abandoned.

### Testbed, Experiments, TestbedUser

A function of the Python files is straight-line code but for its polling loops,
so it is modelled as the sequence of the commands it executes, `<<Cmd(op, at,
arg), ...>>`, and calling it is executing them: `todo` holds those still to come.
`Testbed` has one action per kind of command and the steps the containers take on
their own; `Experiments` puts the scripts together from these sequences and adds
commands for the benchmarks; `TestbedUser` has them run under these scripts or, from
initial states of its own, called by a program in any order.

| Model | Code |
|---|---|
| `bed.hosts`, `started`, `running` | what the simulator answers to `status`, and whether it was told to start |
| `bed.route[c]` | default route of a container: docker's, over the satellite, or none |
| `bed.loss[c]` | the netem queue discipline on `opensand_tun`, which dies with the tunnel |
| `bed.tproxy`, `qpep[c]`, `building[c]` | `configure_qpep.sh` has been run; the QPEP that has the port, with its options; each `go run` still building |
| `bed.pepsal`, `vpn`, `apps` | the other proxies, and windows and servers |
| `todo`, `outcome` | the running script and how it ended |
| `bench`, `errors`, `results` | `benchmark.results`, `benchmark.errors`, the script's own dictionary |

A polling loop is a command whose guard is the loop's condition. `AwaitRunning`
counts the word RUNNING as the code does: `OtherWords` is how often it occurs
beyond the three components, and one is what the loop needs to end. A sample in
`bench` is tagged with `Setting`, all that its traffic met on its way, so that
`Labelled` can compare it with what the label promises. OpenVPN is launched, given
20 seconds and never asked whether it has connected (`scenarios.py:48`), so all that
can be said of a sample filed under its name is that it had been launched: whether
the traffic went through it is not in the model, and no property claims it.
`ConnectionLost` is a netcat error that nothing catches, after the first loop of
`start_testbed`; OpenSAND's own window, from which the user may stop and start the
simulation as well, does not use netcat. `QPEPAckScenario`'s other options are
constants of the code and go with `"acks"` and `"decimation"`.

### Configurator

A file is a function from the line numbers the script knows (and 0 for all the
others) to the value each line was written with, and an emptied file has no
lines. `ReadLines`, `OpenToWrite` and `WriteLines` are `change_line`; the process
may die before each of them. A value is the network head of an address; the text
around it is a constant of each line.

### SpeedtestPool and TransferPool

| Model | Code |
|---|---|
| `prod`, `next`, `held` | the producer's place in its loop, its request, `in_flight` as it has read it |
| `cons`, `cur`, `kept` | the consumer's likewise |
| `inFlight`, `queue` | `in_flight['threads']`, `q` |
| `worker[i]`, `moved[i]`, `result[i]` | thread `i`, the sum of its `result` or `total` list, `HTTPUploader.result` |
| `finished` | the list that the caller sums up |
| `expired`, `interrupted`, `main` | the deadline has passed, Ctrl-C was pressed, the caller |

One module stands for both measurements; the variable `upload`, chosen at the
start, says which one it is. Producer and consumer change the count without a lock,
so each `+=` and `-=` is a read (`CountUp`, `CountDown`) and a store (`StoreUp`,
`StoreDown`), and the one that stores last overwrites what the other has stored in
between. `lostUps` and `lostDowns` are histories of such stores; the properties use
them to say how far the limit may be missed and when the two may wait for ever.
Time is the one fact `expired`. A thread looks at it
where the code does, before each read. A body has `Body` units or more: one that
has moved `Body` may go on without being counted any further, so that bodies
may outlast the test. `TransferPool` has four actions, begin, slip, collect and close;
`KeepsPromise` maps the pool to it: a request is begun when its thread starts,
and over when its place in `in_flight` is given back. A lost `+=` is a request that
slips through uncounted (`Slip`), each of which lets one more be in flight.

### SpeedtestClient, SpeedtestShell, SpeedtestCallers

The object's methods call each other and let exceptions through, so `todo` is
the stack of what the running methods have still to do and `Raise` empties it.
Each HTTP request is one step with every outcome the code tells apart: no
connection, another status, a malformed or truncated answer, an answer. `servers`,
`closest`, `best` and `results` are the attributes. Servers have distances, and
two are equally near; a list is one of `Lists`, and `Ignored` are the
configuration's `ignoreids`. A server's sum of three pings stands for the average.
`tested` is a history variable: the server each rate was measured against.
`PingBreaks` is the error of a ping's `r.read` (1478), which is outside the `try`,
`MeasureHangs` a measurement whose producer or consumer waits for ever, as
`SpeedtestPool` says when. `set_mini_server` is only ever called with
`get_best_server` after it; without it the object is as `PingBreaks` leaves it.
`SpeedtestShell` has the statements of `shell()` as `plan`, in their order, with
the handlers of `shell()` and `main()` in `Outcome`; `SpeedtestCallers` adds a
program that calls the same methods in any order.

### SpeedtestSizes

The numbers are the real ones: seven sizes, `ratio`, `maxchunkcount`, ceiling,
rounding half to even, the body's 36 characters and its name `content1=`, read in
blocks of 8192 bytes.

## Runs

Nine runs pass; three check a sentence of the repository and find it violated.

| Run | Question | Instance |
|---|---|---|
| `MCRelaySafety` | types, order, causes; does the relay implement `TcpSplice` | two units from the application and one from the destination, socket buffers of 1, header of 2+2 units (3 when misread), window 4, session loss at any time |
| `MCRelayLive` | what releases both ends; does written data reach the other socket | two units from the destination and one from the application, header of 1+1 (so never read short), window 2 |
| `MCClient` | nil sessions; does every connection settle | three connections, two sessions, two dials each, one stream per session |
| `MCQpepHeader` | round trip, lengths, what short reads do | IPs of 4 and 16 bytes as in `net`, four addresses each way (IPv4, the same mapped, almost mapped, bytes that look like types), ports using either or both bytes, payloads of 0, 3 and 20 bytes |
| `MCPool` | limits, accounts, refinement of `TransferPool`, with lost updates; do all threads end | three requests, one or two threads, download and upload, bodies of one unit or more, a thread that fails to start, Ctrl-C with the event shared |
| `MCSpeedtest` | chosen server, whole rounds, one server in a report, success means measured; does every run end | three servers, one ignored, two equally near, one latency and failed pings, limit 2, lists that are empty, partial, complete; 38 command lines, and a program of three calls with three filters |
| `MCSizes` | counts agree, no body too long | ratios -1 to 9, three `maxchunkcount`s, all sizes |
| `MCTestbed` | labels and completeness of results; is a deployment clean, is the terminal routed over a running network; does a script end | nine scripts with scenarios of every class, two loss rates, two ack levels, two sizes, two sites, two iterations, killed or cut off anywhere and started twice; a user with three calls of any function, all scenarios, both orbits |
| `MCConfigurator` | are files whole, do they agree | sixteen lines in ten files as in the code, two values, two edits, two runs |
| `MCRelayHandshake` | `client.go:124`: the header lets the server generate the correct TCP handshake | violated: a header that arrives in two pieces is parsed from zero bytes and the server dials that |
| `MCClientPanic` | `client.go:105`: a failed dial drops the TCP connection | violated: the nil it stores over the session another handler has just dialed takes the whole client down |
| `MCPoolSingle` | `speedtest.py:1720`: `--single` uses one connection | violated: one thread allowed; a lost update lets two run |

Two specifications have two sets of initial states that share variables but no
behaviour: `TestbedSpec` starts either a script or a user's program, `CallersSpec`
either `shell()` or a program that uses the object. A property that speaks of one of
them only is guarded by which it is (`ByUser`, `ByProgram`).

Why these bounds are enough to meet the interesting cases. With buffers of one
unit and two units in a direction, every copy can be blocked on a full buffer,
and a close can fall between any two of socket, copy, stream and socket while a
unit is in one of them and the next behind it; a header of two and two units can
be read short in both reads, and the window lets data queue behind the header
while the server dials. Three handlers are one to pass the check, one to wipe
and one to store; two dials are a retry and a last failure; one stream per
session reaches the limit that is 40000 in the code. With two sessions two dials
can succeed, and the third can only fail, as on a path that is down. The
header's addresses cover each branch of its functions, and 20 bytes of payload
are more than a misread can swallow. `Units` bounds what peers write, nothing
else is cut off.

In the testbed two of each loop variable are needed to see one batch leak into
the next, and two starts to see what a dead script leaves; `MaxStarts` and
`MaxCalls` bound the length of a history. Ratios below 1 and above 7 reach the
ends of Python's slices. In the pool the third request
waits for a place while the first is collected, which is where count, queue and
threads can disagree. Servers 1 and 2 are a tie in distance, server 3 is ignored,
and a limit of 2 is met and passed. `MaxEdits` and `MaxRuns` let one run die over
the files of another and `.env` change in between.

Deadlock is not checked where the system may simply be finished (all handlers
done, the client stopped, a script, a run or a measurement at its end).

### What the code does not do

Beyond the three runs above, modelling showed these sentences of the repository
not to describe its code. They follow from the definitions named and have no run.

| The sentence | What happens | Where |
|---|---|---|
| `client.go:158`, `server.go:125`: close once both streams are done copying | the first copy to end closes the TCP connection for both directions | `CloseTcp` |
| `README.md:4`: TCP traffic is encapsulated and decapsulated | the application's close is not passed on while the session lives and nothing comes from the destination | `Fairness` of `Relay` without `QuietTimeout` |
| `quic_optimizations.go:27`: `-multistream` enables several streams in a session | with the flag off two connections can still share one, for `quicSession` is read again | `OpenStreamSync` |
| `README.md:135`: a benchmark with `iterations=3` and no scenario | raises after its first iteration | `"readme plt"` |
| `README.md:152`: benchmarks have a results dictionary | the one for speedtest never fills it | `"readme speedtest"` |
| `simulation_examples.py:184`: restart the routes if the link breaks | a list is compared with 0, so never | `plr_test_scenario` |
| `scenarios.py:89`: killing any prior QPEP | one still being built survives and takes the port | `building` |
| `scenarios.py:78`: QPEP running | it is still being built | `building` |
| `README.md:179`: deploying with `testbed_up=True` repairs broken routes | it touches none | `Testbed` |
| `speedtest.py:354`: the upload halts | lost updates the other way leave the count at its limit and the producer waiting for ever | `StoreUp`, `WaitsByLoss` |
| `speedtest.py:1672`: Ctrl-C sets an event for threaded operations | `shell()` passes its event to `print_dots` only; the threads have another one | `EventShared` |
| `speedtest.py:1885`: cannot retrieve the server list | `--list` succeeds with nothing | `SpeedtestShell` |
| `speedtest.py:1491`: unable to connect to servers | a server that answered no ping is tested | `PickBest` |
| `speedtest.py:1909`: no matched servers | a traceback if only `--exclude` was given | `SpeedtestShell` |
| `speedtest.py:1729`: the link is shown, but not with `--csv` | it is in the CSV row, and lost in other combinations | `SpeedtestShell` |
| `speedtest.py:1408`: limit to the closest servers | a second call goes past the limit | `GetClosestServers` |
| `speedtest.py:928`: the server the test was run against | replaced by a later choice | `PickBest`, `tested` |
| `speedtest.py:1607`: Content-length is the size | a body may be up to nine bytes short | `NeverMore` |

### Fairness

`Relay`: each copying goroutine, each handler, and a peer that is there and has
something to read are weakly fair: goroutines are scheduled, the kernel
delivers, the dial returns within its ten seconds. The configuration sets an idle
timeout (300 s) and no keep-alive, so a session whose other end is gone dies:
`DeadTimeout` is fair. A session that carries nothing at all dies too, but other
streams may keep one alive for ever; `QuietTimeout` is therefore not assumed, it
is the premise of `GoneReleases` alone. No peer has to write, to close or to
stay, and nothing has to fail.
`ClientSession`: a handler that can step does, a dial ends one way or the
other, and a session nobody relays on goes idle. Connections need not come and
relays need not end.
`Experiments`: a script executes its next command if it can, and nothing else is
fair. Hosts need not register nor start: the code waits for them without a limit,
so `ScriptsEnd` excepts a script that is in one of those two loops for good, because a
host is missing or because the status says RUNNING three times only. For OpenVPN
the code only sleeps, and for what `go run` builds it does not even do that. Nobody
has to kill or restart a script.
`SpeedtestPool`: producer, consumer, caller and each worker are weakly fair
(threads are scheduled, and each request and read has a timeout of ten seconds).
Neither the end of the test nor Ctrl-C has to come: `Ends` starts from one of them.
`SpeedtestShell`: one thread that can go on, its requests ending by their timeout.
A measurement is joined without a limit (1564, 1658), so it may also hang for good
(`MeasureHangs`), and `ShellEnds` excepts that: `Ends` of `SpeedtestPool` says what it
takes, a producer that died or as many lost `-=` as threads may run.

## Proofs

For every value of the constants that satisfies the assumptions named in the
modules (sizes are positive, the window holds the header, at least one dial):

| Theorem | Statement |
|---|---|
| `RelayProofs!TypeCorrect` | `Spec => []TypeOK`, buffers and windows respected |
| `RelayProofs!EveryCloseHasACause` | `Spec => []CloseHasCause` |
| `RelayProofs!EveryEndHasACause` | `Spec => []CauseInv` |
| `RelayProofs!Transparent` | `Spec => []InOrder` |
| `RelayProofs!OrderInvariant` | `Spec => []OrderInv` |
| `RelayProofs!RelayIsOneConnection` | `Spec => OneConnection` |
| `QpepHeaderProofs!HeaderTypeCorrect` | `Spec => []TypeOK` |
| `QpepHeaderProofs!HeaderReachesServer` | `Spec => []HeaderDelivered` |
| `QpepHeaderProofs!AsksForEnough` | `Spec => []NeverAsksForLess` |
| `QpepHeaderProofs!PayloadLossBounded` | `Spec => []LossBounded` |
| `QpepHeaderProofs!ReadsLeaveTheRest` | `Spec => []ReadInv` |
| `QpepHeaderProofs!ReadersMostlyAgree` | `IPv4len > 2 => (Spec => []ReadersAgree)` |
| `ClientSessionProofs!SessionTypeCorrect` | `Spec => []TypeOK` |
| `ClientSessionProofs!NilOnlyByARival` | `Spec => []NilNeedsRival` |
| `ClientSessionProofs!NilInvariant` | `Spec => []NilInv` |
| `SpeedtestPoolProofs!PoolTypeCorrect` | `Spec => []TypeOK` |
| `SpeedtestPoolProofs!PoolInvariant` | `Spec => []PoolInv` |
| `SpeedtestPoolProofs!PoolAccounts` | `Spec => []Accounted` |
| `SpeedtestPoolProofs!PoolPutBlocks` | `Spec => []PutBlocksByLoss` |
| `SpeedtestPoolProofs!PoolWaits` | `Spec => []WaitsByLoss` |
| `SpeedtestPoolProofs!PoolAtMostMax` | `Spec => []AtMostMax` |
| `SpeedtestPoolProofs!PoolKeepsPromise` | `Spec => KeepsPromise` |
| `SpeedtestSizesProofs!BodyFitsLength` | `Spec => []NeverMore` |
| `SpeedtestSizesProofs!AsManyAsCounted` | `Spec => []CountsAgree` |
| `SpeedtestProofs!Invariant` | `CallersSpec => []Inv` |
| `SpeedtestProofs!TypeCorrect` | `CallersSpec => []TypeOK` |
| `SpeedtestProofs!WholeRounds` | `CallersSpec => WholeRound` |
| `SpeedtestProofs!OnlyAllowed` | `CallersSpec => []ChosenAllowed` |
| `SpeedtestProofs!OneServerNamed` | `CallersSpec => []OneServerInShell` |
| `SpeedtestProofs!SuccessDelivers` | `CallersSpec => []Delivered` |
| `TestbedProofs!AlwaysTyped` | `TestbedSpec => []Typed` |
| `TestbedProofs!TypeCorrect` | `TestbedSpec => []TypeOK` |
| `TestbedProofs!Followed` | `OtherWords <= 1 => (TestbedSpec => [](Typed /\ Tracked))` |
| `TestbedProofs!RoutedOnlyRunning` | `OtherWords <= 1 => (TestbedSpec => []RoutedUnlessStopped)` |
| `TestbedProofs!DeploysCleanly` | `OtherWords <= 1 => (TestbedSpec => []CleanSlate)` |
| `TestbedProofs!FiledRightly` | `OtherWords <= 1 => (TestbedSpec => []Labelled)` |
| `TestbedProofs!AllFiled` | `TestbedSpec => []Complete` |
| `ConfiguratorProofs!FilesWholeOrEmpty` | `Spec => []TypeOK` |
| `ConfiguratorProofs!FinishedIsConsistent` | `Spec => []Consistent` |

*Causes.* `CloseHasCause` is not inductive: a copy ends because of a closed
socket, an ended stream or a dead session, each of which some other step left
behind. `CauseInv` adds `Control` (what a finished copy or an ended stream says
of the handlers) and that every end so far has an outer cause; causes never go
away, and a step that ends something finds one.

*Order.* `InOrder` speaks of what a peer has received, which says nothing of
what is still on its way. `OrderInv` follows each direction from end to end:
what the far socket holds continues what was received, the reading copy holds
the next unit, the stream holds the rest of the header and then the units after
that, and so on back to the near socket. This is only so while the direction is
whole: after the far connection is closed, or a header is garbled, a unit may
be lost, but then nothing more gets through. Hence the guards `Clean`, `Whole`
and `sess[e] = "up"` of its parts. The proof takes the two directions apart and
has one lemma per step that touches one.

*One connection.* The refinement takes its steps from the two invariants:
`OrderInv` says which unit is at the head of the queue a peer receives from,
`CauseInv'` that a step which closes a socket finds a cause. What they lack is
the destination behind a misread header; `Fresh` says that nothing is on its way
out to the destination before it has been dialed, so that a header is misread
only before anything has come out, and that what comes out later was written by
somebody.

*Header.* The round trip is a fact about operators (`RoundTrip`), from lemmas on
one address: its bytes have the announced length, its IP is the same in sixteen
bytes, its port is its two bytes, and `AddrAfter` reads an address wherever its
bytes lie. `ReadInv` says what is in buffers and stream at each stage; after a
short Read it keeps only the length of the stream, which is what `LossBounded`
counts with. The lengths of an IP are any two that leave room for the mapped
prefix.

*Nil sessions.* `NilNeedsRival` needs to know who stored which word:
`Words` says that a word stored by some handler can be nil again only after
another one's dial has failed, `Places` what a handler has done so far.

*Pool.* None of its properties is inductive alone. `PoolInv` lays the requests out
along the pool: `Len(finished)` collected, one in the consumer's hands, those in
the queue in order, one perhaps started and not yet queued, the rest new
(`QueueOrder`, `TakenInv`, `ThreadInv`). That alone gives `Accounted`: no lost update
reaches a result. `CountInv` bounds the count, which is not the number of requests
between the two ends but near it: `Near` says below by at most `lostUps`, above by at
most `lostDowns`, and says it of the values that producer and consumer hold between
their read and their store too, which is what makes it inductive. A thread alive is
such a request, so the threads exceed the limit by the lost `+=` at most; the queue
is full, or the two wait for each other, only with a count that far off. The
refinement then maps each step to one of `TransferPool` or a stutter.

*Body.* Rounding to a multiple of 36 moves a size by 18 at most (`RoundNear`), so
a body is between nine bytes less than its size and its size (`BodyNear`), and
what is read is never more than the body, and all of it when no read gives more.

*Counts.* The requests are summed by a fold, whose definition is a recursive
function chosen by `CHOOSE`. All its terms are equal here, and number times value
satisfies its recursion (`IterExists`). Nothing else does, or there would be a
smallest set at which another one differs (`IterUnique`). At most seven sizes
share the requests, so rounding up is proved size by size (`CeilNear`).

*Files.* `ConfiguratorInv` follows the calls: the lines of all calls so far are in
the files with the address that was read, but for those of the file that is open,
which are in the lines the process holds. No two calls change the same line
(`OnePlace`), so a later call takes nothing back, and a file an earlier run has
emptied stops the run at its first call for it.

*Object and command line.* An exception may end any method at any request, so the
invariant is about the stack: `Types` keeps it one that the methods can build
(`Under` says who may call whom), `Tried` finds a fastest among the pings, `Round`
says that those tried and those left are the list that was given, and `Choice` which
server is reported and that a method about to measure has one. With that,
`WholeRound` holds for any caller, since nothing but the end of a round changes the
choice. What the command line adds is about its
statements: the plan is in their order (`Ordered`, by `Rank`), the calls on the
stack are those of the statement that runs (`Calls`), what lies behind it has been
done (`Done`, `Measured`), and what is listed, tried or chosen is allowed
(`Allowing`). The last is where an induction could have failed:
`get_closest_servers` retrieves a list without the user's filter when there is
none. It does so only when the filter was empty, for with one `get_servers` has
raised `NoMatchedServers` before.

*Testbed.* A state of the testbed says little about the commands that will follow,
so the invariant looks ahead. `Known` is what can be known of a testbed: whether
the containers are in a known state at all (`sure`), all components run, somebody
may stop them (`loose`), which network traffic meets, how it is routed, and which
networks the benchmark has met. `Effect` is what a command makes of it, and
`Allowed` what a command may rely on: a terminal is
routed only over running components, a batch filed only if its network alone was
met. `Leads(p, a, b)` says that commands `p` are allowed one after another from `a`
to `b`, and `Tracked`, the invariant, that something known of the testbed now is true
(`Describes`) and leads, along the commands still to come, to the goal of the call
that is under way. The proof has two halves. One is about the source alone: each
function of `testbeds.py`, `scenarios.py` and `benchmarks.py` and each script is
shown to lead from whatever was there to where it should (`Takes`), command after
command, with any number of levels, losses, sizes, sites and rounds. The other is
about the containers: each command, and whatever happens on its own, keeps what is
known true (`CommandDescribes`, `OutsideDescribes`). There lie the hazards: a status
that counts words (`AllRun`, where `OtherWords <= 1` is needed, as with two other
words the loop would end too early), a `tc` that fails without a tunnel
(`LossMatches`) and a program still being built (`LaunchMatches`). After a command
whose outcome is open, such as a `pkill` of what may still be built, nothing is known
until the next `compose down`; a script never measures then.

The one hypothesis is the code's: `testbeds.py:51` waits for more than three RUNNING
and its comment speaks of three components, so it counts on one other. With none it
waits for ever, which does no harm to safety; with more it may end too early.

*Complete results.* The same look ahead, with another thing to know: a tally is how
many results the benchmark holds and how many batches are filed (`Tallied`), and a batch may
be filed only when it is full (`Counts`). `Counting`, the invariant, says that from the
tally now the commands to come lead to the batches that are due. About the source, it
takes what each part adds: deploying nothing (`NeutralDeploy`), an iperf run one
result per size and iteration (`IperfMeasures`), each round of a script one batch
(`FilesBatch`). No hypothesis is needed: the network may be whatever it likes, a transfer
that fails counts too. Both looks ahead share what they say of sequences of commands
(`Walks`).

The loops of scripts are `FlattenSeq`, a recursive function on sequences of any
length. What it returns is proved without an induction rule: if the sequences so far
(`JoinedUpTo`) left a set closed under concatenation, there would be a least number
at which they do (`NatLeast`). So a loop keeps what its rounds keep (`Flattened`), and
adds as often what its rounds add (`FlattenedSum`).

Only model-checked: the liveness properties (TLAPS does not reach fairness) and the
violated sentences. The inductive invariants were checked by TLC before they were
proved, except for `Tracked` and `Counting`, which speak of all sequences of states: for
those TLC checks what they imply.

## Not modelled

The session accept loop and relays that share a session are planned
(below). QUIC's own protocol, its congestion control and the flags that tune it
belong to the forked library. The transparent listener sets socket options and
passes `AcceptTCP` on. `openQuicStream` (`client.go:183-199`) is never called.
`generateTLSConfig` runs once.

Of the testbed: `set_downlink_attenuation` rewrites two XML files that the
repository does not have; `print_results` and the parsing of tool output are
formatting; the `wget` that warms a proxy up leaves no state; `validate_ip`
checks an option; `replace_string` in the configurator is never called and refers to names
that do not exist; `configurator.py` leaves the networks in the delay scenario's
`topology.conf` alone, which is data. Of `speedtest.py`: output, the opener and
the connection classes around the standard library's, support for Python 2.

## Plan

1. `ServerAccept` and the composition of `ClientSession` with several relays:
   streams of one session end together, abandoned streams eat the limit and the
   session's window, session accept loop.
2. More theorems: which streams of the composed system a session's end takes along.
