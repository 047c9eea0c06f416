# TLA+ verification of udp-crasher

udp-crasher is a UDP variant of toxiproxy: a server that proxies datagrams
between clients and upstreams and degrades them with *toxics* that an HTTP API
adds, changes and removes while data flows. This directory holds TLA+ models of
the server, from the bytes in a link to the life of the process, and of its
command line client, TLC configurations that check them on small instances, and
TLAPS proofs of all of their safety properties for every instance.

All source references are to the Go code of this repository.

## The system

| Component | State | Operations | Talks to |
|---|---|---|---|
| `ToxicLink` (`link.go`), one per client and direction | `stubs`, channels, direction | `Start`, `read`, `write`, `AddToxic`, `UpdateToxic`, `RemoveToxic` | toxics over channels, collection through `RemoveLink` |
| toxics (`toxics/*.go`) | `ToxicStub`: `Input`, `Output`, `Interrupt`, `running`, `closed`; attributes | `Pipe` of noop, latency, bandwidth, slicer, reset_peer; `InterruptToxic`, `WriteOutput`, `Close`, `Run` | the previous and the next stub |
| `stream` (`stream/io_chan.go`) | the rest of a chunk that did not fit | `ChanWriter.Write`, `ChanReader.Read` | `io.Copy` in `read` and `write` |
| `ToxicCollection` (`toxic_collection.go`), one per proxy | `chain` of each direction, `links` | `AddToxicJson`, `UpdateToxicJson`, `RemoveToxic`, `ResetToxics`, `StartLink`, `RemoveLink` | its links, in parallel, under one mutex |
| `Proxy` (`proxy.go`) | addresses, `Enabled`, listener, tomb, `connections`, `portToClient` | `Start`, `Stop`, `Update`, the goroutines `server` and `freeBlocker` | links, OS sockets |
| `ProxyCollection` (`proxy_collection.go`) | name to proxy | `Add`, `AddOrReplace`, `PopulateJson`, `Remove`, `Clear`, `Get`, `Proxies` | proxies, under one mutex |
| `ApiServer` (`api.go`) | none of its own | one handler per route, concurrent | collections and proxies |
| server command (`cmd/server`; `Listen`, `Shutdown`, `PopulateConfig` of `api.go`) | `server.http`, the signal channel | read the configuration, listen, wait for a signal, shut down | the API server, the operating system |
| command line client (`cmd/cli`) | none between two commands | `list`, `inspect`, `create`, `toggle`, `delete`, `toxic add`, `update`, `remove`: one or two requests each | the API over HTTP |
| metrics, examples, test helpers | counters | | not modelled |

What is hard here: a call that changes a chain interrupts goroutines that may
be receiving, waiting for a timer, blocked in a send or closing, and rewires
their channels while the source may end; a datagram must survive that. `stop`
waits for goroutines that may be blocked. Handlers keep pointers to proxies
after the collection's lock is gone. An update decodes JSON into the fields of a
toxic whose `Pipe` is using them. A command of the client is two requests, with
other clients, a timeout or a restart in between. What must be true of each part:

* a link delivers bytes in order, at most once, and loses them only where the
  code gives them up; no channel is closed twice or written after its close;
  calls return; the end of the source reaches the destination after the data;
* a toxic cuts a chunk within its bounds and into pieces that make up the chunk,
  and the bandwidth toxic keeps its rate, while its fields hold documented values
  and are not written in use;
* a collection's Index fields, names, chains and links agree;
* a stopped proxy leaves nothing behind, an updated one leaves no client on the
  old upstream, and calls return;
* every listening proxy is reachable through the API, addresses are released,
  a request changes what it names and nothing else;
* a command reports what happened, ends although handlers may hang, and a signal
  ends the process without cutting off answers.

`PROJECT.json` lists the hazards line by line with the properties that cover
them.

## Modules

| Module | Models | Properties |
|---|---|---|
| `LossyPipe` | the promise of one direction: a FIFO pipe of bytes that may lose a contiguous run | abstract specification |
| `ToxicLink` | one link, goroutine by goroutine and channel by channel | below |
| `ToxicCollection` | one collection, call by call, over abstract links | below |
| `SequenceLemmas`, `ToxicCollectionProofs`, `DataPathProofs`, `ProxyProofs`, `ApiProofs`, `ConsoleProofs`, `ToxicLinkProofs`, `PipeProofs` | | theorems |
| `Proxy` | one proxy with its server goroutine and clients | below |
| `Api` | concurrent requests over a proxy collection | below |
| `GoSlice` | Go's slices: length, capacity, reslicing (external) | |
| `Slicer`, `Bandwidth`, `ChanReader` | the arithmetic of two toxics and of the reader, step by step | in `DataPath` |
| `DataPath` | these three in one link, and `UpdateToxicJson` writing into them | below |
| `Console` | the server process and the command line client | below |
| `MC*` | constants for TLC | |

Operators introduced by a comment `Mutant:` are not part of a model. Each is a
plausible bug in the definition that follows it; putting it in that
definition's place must make TLC report the property it is paired with in
`PROJECT.json`.

### ToxicLink

Stub `k` is an identifier that is never reused; it reads from channel `k`, and
channel 0 is `link.output`. `buf[c]` contains what is buffered in a channel and,
last, the chunk of a sender blocked on it; a `select` that gives up takes that
chunk back. This makes a Go send two steps (`Push`, then `Sent` when the channel
has taken the chunk), which is where interrupts, closes and removals interleave.
A chunk is a sequence of numbered bytes, so that reordering, loss and
duplication are visible.

* `ReadSource`, `ReaderSent`, `SourceEnds`: `ToxicLink.read` with `io.Copy`.
* `NoopReceive`, `HoldReceive`, `SlicerReceive`, `ResetReceive`, `Timer`,
  `SlicerNext`, `Sent`, `InputEnds`, `ResetFires`, `WriteTimeout`: the `Pipe`
  loops. Timers may fire at any time. A toxic with toxicity below 1 runs as
  itself or as noop, chosen at every run.
* `WriterReceive`, `WriterWrites`, `WriterFails`, `WriterEnds`, `RemoveLink`:
  `ToxicLink.write`.
* `AddToxic`, `UpdateToxic`, `RemoveToxic` begin a call (`op`),
  `InterruptToxic` is its `select` on `Interrupt`, and `AddResumes`,
  `AddToClosed`, `UpdateResumes`, `ClosedAlready`, `RemoveInterrupted` ...
  `RemoveResumes` are the rest of it; `StopInterrupts` and `StopAnswers` are the
  goroutine that `RemoveToxic` starts to interrupt the previous stub.
* `panic` is set by a send on a closed channel, a second close, or
  `chain[direction][i-1]` out of range, and stops everything.

The refinement `ImplementsPipe` maps `transit` to the bytes found in the writer,
the channels and the stubs from the destination back to the source, and `lost`
to `dropped`.

### ToxicCollection

`toxic[w]` are the fields of a `ToxicWrapper`, `chain[d]` the chain of a
direction, `stubs[l]` what each stub of a link runs and whether it is closed. A
call is one step, because it holds the mutex throughout; `ResetToxics` is one
step per removal, with stubs closing in between. The effect of a call on a link
(`LinkAdd`, `LinkUpdate`, `LinkRemove`) summarises what `ToxicLink` does in many
steps. `StubCloses` lets stubs close on their own: the first when the source
ends, a later one after its predecessor or when it runs a reset_peer.

### Proxy

The calls `Start`, `Stop` and `Update` hold the mutex from their first step to
`StartReturns` or `StopReturns`; the server goroutine (`ListenSucceeds`,
`ListenRefused`, `Receive`, `Queued`, `Dialled`, `DialFails`, `ServerReturns`)
and `freeBlocker` (`CloseListener`, `TombDone`) run meanwhile. For each client
there are the entry in `portToClient`, the length of `UDPReader.incoming`, the
socket, the entries in `connections` and the state of its two links.
`Forward`, `ForwardFails`, `Swallow` and `DownEnds` are what links do to these.
`ListenSucceeds` is one step from opening the socket to spawning `freeBlocker`; in
the code `started <- nil` (`proxy.go:144`) comes a little before the `go` statement
(`proxy.go:187`), so that `EnabledServes` is to be read as "has or is about to spawn
its freeBlocker".

### Api

`conf` holds the exported fields of proxy objects, `proxies` the map, `lock` and
`held` the mutexes, `owner` the open listener of each address. `ProxyUpdate` is
`Collection.Get`, three unprotected reads, and the steps of `Proxy.Update`;
`Populate` is one `AddOrReplace` after the other, with the stop of the old
proxy and the start of the new one as steps of their own; `ResetState` is a
snapshot followed by `Start` and `ResetToxics` of each proxy. `Remove` covers
`ProxyDelete` and `Clear`. `Start`, `Stop` and `ResetToxics` are single steps here
that return; that they may not is the subject of `proxy_hang` and `link_hang`.

### DataPath

`ToxicLink` has every goroutine and channel but no numbers: its slicer cuts
anywhere and its timers fire at any time. `DataPath` has the numbers of one
chain, a slicer and a bandwidth toxic between source and reader, and gives up
what `ToxicLink` has already shown: the channels are unbuffered and a chunk is
handed over in one step of its sender and its receiver.

* `Slicer`: the recursion of `chunk` is a stack `todo` of calls to be made, with
  their depth; each call reads `AverageSize` and `SizeVariation` in a step that
  tests for the base case (`ChunkReturns`, `ChunkSplits`) and again in a step
  that moves the middle (`ChunkRecurses`). More than `MaxDepth` calls overflow
  the stack. `FirstPiece`, `NextPiece`, `SlicerSent` and `SlicerInterrupted` are
  the loop of `Pipe`.
* `Bandwidth`: `Rate` is read once to compute `sleep` (`BandwidthReceive`), once
  to test the loop (`LoopTest`), once to cut the piece (`PieceDue`) and, after
  the send, once to cut the rest (`Reslice`). `Tick` lets time pass while a timer
  runs, so that a timer fires when due or later. `meter` is history.
* `ChanReader`: `Read` with a buffer smaller than a chunk. `ReadBuffered` is the
  early return and the `default` of the `select`, `ReadChunk` the receive.
* `UpdateToxicJson`, `Decode`, `DecodeEnds`, `InterruptToxic`, `RunToxic`: the
  decoder writes field after field into the live toxic, in the order of the
  request's body, then fails or goes on to interrupt the stub.

`raced` records what a client has done that the toxics do not expect: sizes or a
rate that the fields' comments exclude, and writes to a field while a loop is
using it. The properties say that bytes, bounds and rate are safe unless one of
these happened. Each exception is needed. Without it TLC finds, among others:

* with average and variation 0, the values of a request that gives none, `chunk`
  does not end (`slicer.go:36`);
* between two documented pairs of sizes there is one with the variation above
  the average, and a `chunk` that runs meanwhile cuts out of bounds
  (`slicer.go:43`, `65`);
* a `Rate` raised while a piece is being sent makes the rest skip bytes that were
  never sent, or panics (`bandwidth.go:48`); a negative `Rate` panics
  (`bandwidth.go:45`);
* chunks longer than the read buffer lose bytes, because `io_chan.go:67` compares
  the residue with the length of the buffer and not with zero: of 3 and then 4
  bytes read into a buffer of 2 the last one is lost. Here both calls of `io.Copy`,
  the one that makes the chunks (`link.go:115`) and the one that reads them
  (`link.go:137`), have buffers of 32 KB, so no chunk is longer. `Fits` says this,
  and admits longer chunks while the stream is within two buffers, where the
  residue is still safe.

### Console

`phase` and `notified` are the process: `PopulateConfig`, then `Listen` in a
goroutine of its own and `Notify` in the main one, in either order; `Signal`
ends it at once, starts `Shutdown`, or finds no server to shut down. `conn[c]` is
the request of client `c` as the HTTP server sees it: its header being read, in
its handler, answered, or broken off. The time of a handler runs from `Routed`,
when the header is there, and includes the decoding of the body (`BodyTimesOut`:
`ReadTimeout` counts from the beginning of the request). A handler takes effect in
one step (`Handled`; `Api` has its inside). `TimeoutMiddleware` answers 503, an
error to the client, while the handler goes on: `late[i]` is the request of command
`i`, and `LateHandled` its effect, which may come when the command has long exited.
`Restart` is a supervisor: proxies are lost, and those of the configuration come
back.

A command (`Command`) sends its first request (`FirstRequests`); `toggle` and
`delete` send a second one made from the answer to the first (`SecondRequest`).
An error at any point ends it with a message and status 1. The history `log[i]` has,
for the command with number `i`, what it undertakes (`duty`), how many times a
request of it has changed its proxy (`made`, which goes on counting after the
command has exited), and what it was told in the end: "ok", "error" (an answer of
the API), "unavailable" (503) or "cut" (no answer). A `toggle` that saves what is no
longer so (`Stale`) has its duty reduced to "try".

## Runs

`tlc -config <cfg> <module>`; TLC finishes each in well under five minutes.

| Run | Checks | Instance |
|---|---|---|
| `link_safety` | `TypeOK`, `NoChannelPanic`, `OpenLinkFollowsChain`, `StubsCoverChain`, `ImplementsPipe` | 2 datagrams of 2 bytes, up to 4 stubs, 2 calls, all five toxic types, failing writes |
| `link_liveness` | `EndAfterData`, `OpCompletes`, `BytesLeave`, `EndedLinkRemoved` | no reset_peer, no failing writes |
| `collection` | `IndexIsPosition`, `UniqueNames`, `OpenLinksFollowChain`, `LinksCoverChain`, `ResetClears`, `ResetRemovesFirst` | 3 wrappers, both directions, 1 link |
| `proxy` | `TypeOK`, `StoppedIsQuiet`, `EnabledServes`, `SocketsFollowUpstream`, `OneServer`, `CallsReturn` | 2 clients, 3 calls, fewer datagrams than a queue holds |
| `api` | `TypeOK`, `PortsFollowProxies`, `UpdatesDoNotMix`, `RequestsEnd`; while requests do not overlap also `SequentialNoOrphans`, `ResetRestores` | 3 requests, two handlers, 2 names |
| `data_path` | `TypeOK`, `ChunksTile`, `BytesIntact`, `SlicerSafe`, `BandwidthSafe`, `RateRespected` | a datagram of 4 bytes, a read buffer of 2, three pairs of sizes, four rates, one update |
| `console` | `TypeOK`, `ShutdownAnswers`, `ReportsAreTrue`, `CommandsEnd`, `SignalEnds` | 2 clients, 2 commands of 8 kinds (one client runs `create`, `toggle` and `delete` only), 1 signal |

What some of these say, and what they do not:

* `ResetRemovesFirst` is about what a round of `ResetToxics` does. That it returns is
  not claimed: a round waits for the `RemoveToxic` of every link, and `link_hang`
  shows that this may block for ever, with the mutex held.
* `UpdatesDoNotMix` holds for every interleaving: an update that ends has left its
  proxy with the upstream, listen address and enabled state of its own input. The
  input may be stale. `ProxyUpdate` reads the fields that a PATCH does not give
  without the proxy's mutex (`api.go:309`), so the later of two overlapping PATCHes
  of different fields writes back what it read before the earlier. The model has
  these executions; the code does nothing against them, and no property excludes
  them.
* `ChunksTile`: the parts of a packet run forward from its first byte to its last,
  each begins where the one before it ends, and none is empty. It assumes what
  `SlicerSafe` does: a variation below the average, and neither written while
  `chunk` runs. With a greater variation parts do run backward.
* `ReportsAreTrue` is an invariant over all commands, those that have exited
  included. A command changes its proxy at most once; one that exits with 0 has
  done so; one that the API answered with an error has not and never will. Of a
  command that was answered 503 only the first is true: it exits with an error
  and its change may be made later. A stale toggle (`cli.go:388-390`) undoes another
  change or finds its own made, and an update that fails halfway has changed
  something (`toxic_collection.go:155`); these, too, are held to the first only.
* `BytesIntact`, `SlicerSafe`, `BandwidthSafe` and `RateRespected` say nothing of what
  follows a write to a field in use; see the list under DataPath.

These runs pass. The following state what a comment or a test of the repository
says, and TLC shows an execution in which it is false:

| Run | Statement | What happens |
|---|---|---|
| `link_index_panic` | `NoIndexPanic`: toxics are added to the end of the chain (`link.go:17-19`) | while a link drains after the end of its source, removals leave stubs behind and shorten the chain; `AddToxic` then reads past the chain (`link.go:171`) and the process dies |
| `link_hang` | `OpCompletes`: `InterruptToxic` returns (`toxic.go:109`) | the stub before a reset_peer that fired is blocked in `Output <- c`; the interrupt waits for ever with the collection's mutex held |
| `proxy_hang` | `CallsReturn`: closing the listener frees the server (`proxy.go:159`) | the server is blocked on the full queue of a client whose link ended (`proxy.go:213`); `stop` waits for ever |
| `proxy_unlinked` | `AcceptedClientsLinked`: the server links its clients to upstreams (`proxy.go:174`) | a client stays in `portToClient` after a failed dial or an ended link and is not linked again |
| `api_orphan` | `NoOrphans`: a deleted proxy is down (`api_test.go:641`) | a reset or update that fetched the proxy before the deletion starts it again |

One more divergence is plain to see and has no run: `AddToxic` sets the toxicity
to 1.0 (`toxic_collection.go:87`; `Full` in `ToxicCollection`), although
`api_test.go:947` asks for 0.2 and `api_test.go:955` expects it back.

### Bounds

Every bound is a constant with a `bound:` comment. Two datagrams of two bytes
are the least for which a chunk can be split, overtaken by another, and lost in
part. Latency's channel of 1024 chunks is scaled to 1, and the client queue of
1000 datagrams to 2: full, empty and in-between all occur. Two calls on a link
let a call meet what an earlier one left behind (a stub of a removed toxic, a
closed link); the index panic takes three. Three wrappers are the least for
which a removal renumbers a toxic other than the last, with one left in the
other direction. Proxy objects in `Api` are as many as the requests can create,
so that no request waits for one.

In `data_path`, `Interval` scales the 100 milliseconds between two pieces to 2, so
that a datagram of 4 bytes is sent in one, two or more pieces at the rates 2 and
1, and not at all at 0. Four bytes are split once or twice by an average of 2 and
a variation of 1, and are twice the read buffer, the most that `Fits` admits of
chunks longer than it. `MaxTime` leaves room for both
timers of a packet and for one of them to be late. `MaxDepth` is just above the
depth that documented sizes can reach (one less than the length, plus one). In
`console`, the timeouts of 15, 25 and 30 seconds are 1, 1 and 2 units of 25
seconds: rounding up keeps the handler's timeout below that of `Shutdown`. Two
commands let one come between the requests of the other, and a signal with a
restart between the requests of either. `Uses` says which commands each client
runs: clients differ in nothing else, so one of them runs all kinds, and the
other those of two requests and `create`, which brings back what the first
deleted. Pairs of the remaining kinds do not come between each other's requests,
as they have one each.

Deadlock is not checked: inputs are bounded, and a server that waits for the
next request or datagram may wait for ever. That calls, requests and data do
come through is checked as liveness instead.

### Fairness

Weak fairness for every goroutine that can take a step: Go's scheduler runs
every runnable goroutine, timers fire, and listening, dialling and writing
return. Strong fairness only for the delivery of an interrupt: Go's `select`
chooses at random among ready cases, so an interrupt offered again and again is
taken. `ToxicCollection` has no fairness: its calls wait for links, which may hang.
In `Console` timers fire, clients read their answers and the main goroutine
goes on; nothing is assumed of handlers, which may hang, of clients sending
slowly, of signals or of the supervisor. Elsewhere, too, nothing is assumed of
clients, of the source's data or its end, or of failures.

## Proofs

`ToxicCollectionProofs` proves for every set of toxics, names, types, links and
directions, and every sequence of calls:

* `IndexIsAlwaysPosition`, `LinksAlwaysCoverChain`,
  `OpenLinksAlwaysFollowChain`, `TypeCorrect`;
* `NamesAreAlwaysUnique`;
* `ResetAlwaysClears` and `ResetAlwaysRemovesFirst`, action properties. The second
  needs `IndexIsPosition`: the toxic that a round names is removed at the Index it
  keeps, which is where the first toxic is only because Index is position.

They rest on `ConstantsAssumption` of `ToxicCollection`: the noop and "no toxic"
are not wrappers, default names are names, 1.0 is a toxicity, and there is at
least one direction, type and attribute value.

The inductive invariant `IndInv` (theorem `Consistent`) is the conjunction of
`TypeOK`, `IndexIsPosition`, `LinksInStep` and "a reset in progress excludes a
panic". No part is inductive alone. A removal takes position and direction from
the toxic's own fields, so that even `TypeOK` needs `IndexIsPosition`; that the
renumbering assigns each toxic its own position needs that no wrapper is in two
places, which `IndexIsPosition` gives because Index and Direction are functions
of the wrapper; and a removal on a link that is closing keeps the stub, so
`LinksInStep` must allow a link to be longer than its chain and require equality
only of open links. The lemmas `LinkAddInStep`, `LinkUpdateInStep` and
`LinkRemoveInStep` say that each call keeps one link in step with its chain;
`RemoveAtProperties` is the fact about sequences they use.

`DataPathProofs` proves about `DataPath`, for datagrams, sizes and rates of any
value and any number of datagrams and updates, first of the slicer:

* `ChunksAlwaysTile`: unless the history `raced` has an undocumented size or a write
  while `chunk` runs, the parts that `chunk` has cut and has yet to cut run forward
  from the first byte to the last, each beginning where the one before it ends,
  and none of a packet with bytes is empty;
* `SlicerAlwaysSafe`: under the same condition `Pipe` does not cut out of bounds and `chunk` does
  not overflow the stack.

They rest on `SlicerAssumption` (sizes are naturals) and `DataPathAssumption`,
which says that the stack has room for as many calls of `chunk` as a datagram
has bytes (a datagram has at most 65,507). That adjacent parts meet
(`ChunksMeet`) holds for any sizes and is inductive together with the types, with
which calls and pieces exist at each point of `Pipe`, and with the types of what an
update will write (`TileInv`). That they run forward, and `SlicerSafe`, need
`SafeInv` besides: while clients do what is expected, every part lies in the
packet and is not empty, and the depth of a call plus the length of its part is at most the
length of the packet plus one. A part is split only if it is longer than
average plus variation, so at least twice the variation plus two: its middle,
moved by the variation, lies strictly inside it (`MiddleIsInside`), and each
half is shorter by at least the one that its depth is greater. The test and the
move are two steps, so the invariant also keeps that the part about to be split
is still too long, which a write in between would break.

It goes on from there, with `BandwidthAssumption` (rates are
integers, the interval between two pieces is positive) and `ReaderAssumption`
(buffers are not empty):

* `SlicesInRange` (`PathInv`) and `TypeCorrect`: every slice that the slicer, the
  bandwidth toxic and the reader hold lies within the bytes the source has sent.
  Go's reslicing may reach beyond the length up to the capacity, so that the
  invariant bounds the capacity, and it holds for any rate and any update;
* `BandwidthAlwaysSafe`: unless `raced` has a rate that is not positive or a
  write while a packet is being sent, the toxic does not cut out of bounds. The
  strengthening (`RateInv`) is that from the loop's test to the second cut the
  packet is longer than a piece;
* `RateAlwaysRespected`: since it was started with a positive rate, the toxic has
  not sent more bytes than the rate allows for the time waited, but for one
  rounding per packet. `MeterInv` says what is in hand at each point of the loop:
  the credit (time waited times rate, less bytes sent) and the time `sleep` that
  is still to be waited pay for the rest of the packet, and a timer that fires
  late makes `sleep` smaller by exactly what it adds to the credit. The proof
  treats rate times interval as a quantity of its own; that the time of a piece
  buys exactly a piece is the one fact about the product it needs
  (`Rate*100` bytes every 100 ms);
* `BytesAlwaysIntact`: while no chunk is longer than the read buffer (or the
  stream is within two buffers) and the rate is not written in use, the bytes at
  the destination, in the reader, in the bandwidth toxic and in the slicer are in
  this order the bytes sent, less those given up. What a slice stands for is a
  span of consecutive numbers (`BytesSpan`), and cutting one makes two that meet
  (`SpanJoin`, `BytesSplit`). A step either moves nothing (`SlicerKeeps`,
  `BandwidthKeeps`, `ReaderKeeps`) or moves the front of what one part holds to the
  back of the next (`SlicerPasses`, `BandwidthPasses`, `ReaderTakes`, `CopyPasses`),
  and concatenation is associative; a flush takes a part out of the middle
  (`ListsWithout`). The invariant `IntactInv` adds what makes those lemmas true:
  the slicer's pieces lie in a packet without spare capacity (`SlicerCuts`); the
  rest is cut off where the piece ended (`PieceInv`); and the reader's residue
  fits its buffer (`Room`), because there is none, or because it begins after
  the first buffer's worth of bytes. The last needs the order of the bytes, so
  `Room` and `Intact` are proved together. An attempt to prove it for chunks of up
  to two buffers in a stream of any length failed at this point, and led to the
  counterexample above.

`ProxyProofs` proves, for any number of clients, addresses, datagrams and calls,
`TypeCorrect`, `StoppedIsAlwaysQuiet`, `EnabledAlwaysServes`,
`SocketsAlwaysFollowUpstream` and `AlwaysOneServer`, an action property, from
`ProxyAssumption` (names resolve to addresses, the marks for "no socket" are not
upstreams, a queue holds at least one datagram). What is true between two calls
is not inductive: `Phase` says which of the server goroutine, `freeBlocker`,
the listener and the tomb exist at each point of a call, among them the three
stages of a stop (serving; listener closed; tomb done). `Sockets` says that an
open socket is in `connections`, which is why closing that list leaves none
behind, and leads to the current upstream, which an update changes only when the
list was closed.

`ApiProofs` proves for any number of handlers, proxies, names and addresses:

* `PortsAlwaysFollowProxies` and `TypeCorrect` for every interleaving. `IndInv`
  adds that a proxy nobody has created is disabled, that requests refer to
  created proxies, and that an update between its stop and its start holds the
  proxy's mutex and has stopped a proxy that is to move;
* `UpdatesNeverMix`, an action property, for every interleaving, from the same
  invariant: between its steps the update holds the proxy's mutex, and everyone who
  writes to the proxy needs it;
* `SequentialNeverOrphans` and `ResetAlwaysRestores` for requests that do not
  overlap. `SeqInv` (`OneAtATime`) adds what a request that
  is alone may rely on: its proxy stays registered, the fields it has read stay
  as they were, a proxy about to be replaced is stopped, and a reset has restored
  every proxy that it has already visited.

They rest on `ApiAssumption`: resolving an address twice changes nothing, the
marks for "none" and "not given" are no values, and there is at least one name
and address.

`ConsoleProofs` proves, for any number of clients, proxies, commands and signals,
`TypeCorrect`, `ShutdownAlwaysAnswers` and `ReportsAlwaysTrue` from
`ConsoleAssumption` (the mark "none" is no client, proxy or value, and the
configuration file holds proxies). `Draining` says that a handler that runs
during a shutdown has run at least as long as the shutdown, so that its timeout of
one unit comes before the deadline of two; that needs that no request is still
being read, the exception of the property. `Fits` ties a connection to the command
that waits for it, and `Distinct` gives each command to one client. `Keeps` and
`Record` are the strengthening of `ReportsAreTrue`, for commands in progress and for
all commands: a command has changed nothing before its last request was answered;
a change is made either by the handler that answers, and then the answer says so
(`AnswerTells`), or by one that goes on after a 503, and then nothing has been
changed before and the command is not told "ok" or "error" (`late[i] # None` implies
`made = 0`). That no request is sent again after a 503 is what keeps both from
happening. The lemma `Bystander` says that a step of anyone else leaves a client's
part of this alone, and `ClientStep` and `AppliedLog` that an outcome is entered for
one command only.

`ToxicLinkProofs` proves about `ToxicLink`, for any toxics, buffer sizes, chains,
datagrams and API calls and every interleaving of the goroutines, from the three
assumptions of that module (the noop starts every chain, a chain has no toxic
twice, sizes are naturals):

* `ChannelsNeverPanic`, `StubsReachChain`, `OpenLinkIsChain` and `TypeCorrect`.

`NoChannelPanic` is about one step; why no step can break it is the history of the
wiring. While the process is alive (`Sound`):

* `Structure` and `Wiring`: the stubs are distinct; one that is not closed sends on
  the Input of the next, and that channel is open. A stub that is being added is
  not yet part of the link: it shares the Output of the last stub and nobody runs
  it (`Fresh`), which is what lets `AddResumes` hand the channel over;
* `Runs` and `Queues`: only a stub that is part of the link and not closed runs its
  Pipe, and a channel holds more than its buffer only while someone is sending
  on it. With `Wiring` this gives each channel a single sender (`LiveSends`,
  `OwnChannel`), so the one that closes it neither meets a blocked sender nor
  comes second;
* `CallShape` and `Interruption`: where a call is, and that the stubs it has
  interrupted are not closed and have left their Pipe, so that `RemoveToxic` may
  send in the place of the stub it removes;
* `Holds`: a stub that has left its Pipe holds no data, so running it with another
  toxic starts clean.

`Cover` adds what the stubs run. A call that meets a closed stub leaves the link
longer than its chain, so equality is kept only while every stub is open, and
during a removal the chain is one shorter than the link. The index panic of
`AddResumes` (run `link_index_panic`) is possible only in a link with a closed stub; it
ends the process halfway through a call, which is why `Sound` is claimed only of a
live process. The lemmas `FlowStep`, `CloseStep`, `CallStep` and `EndStep` say once
what a step on a channel may do; each action is shown to be one of them, but for
the three that change the wiring.

`PipeProofs` proves two more results about the same specification:

* `LinkIsPipe`: every execution of a link is one of `LossyPipe`, with the bytes
  found from the writer back to the reader (`InTransit`) as its transit. These are
  the concatenation of one sequence of chunks per place (`Places`: the writer, the
  channels and the stubs), so the proof is about which places a step changes. A
  step that hands a chunk on moves it between two neighbours, or recuts it, and the
  concatenation of the two stays the same; a write takes the front off, a read
  appends at the back; a flush, a reset and a removal take a contiguous run out of
  the middle; an added or removed stub is an empty place. `SequenceLemmas` has
  what `FlattenSeq` does in each of these cases, from its recursion and induction
  over the length. Which places are empty comes from `Sound`: a stub that has left
  its Pipe holds nothing, a stub that is being added has an empty channel;
* `EndFollowsData`: if no toxic is a reset_peer and writes do not fail, the link ends
  only when nothing is in transit. With a reset_peer or a failing write the
  property is false by design: these end a link with data in it. The invariant
  (`EndInv`) is `Drained`: behind a stub that is closed, everything nearer to the
  source is closed and empty too. A stub closes only when its Input is
  closed and empty, so that `Drained` passes from stub to stub until it reaches the
  writer; a call that rewires closed stubs (`AddToClosed`, a removal that finds its
  stub closed) must leave no data behind them, and a call that interrupts running
  ones must not close them.

Only model-checked is all liveness (`OpCompletes`, `BytesLeave`,
`EndedLinkRemoved`, `CallsReturn`, `RequestsEnd`, `CommandsEnd`,
`SignalEnds`): fairness and `ENABLED` are outside the prover's reach. Every safety
property of a passing run is also a theorem.

## Not modelled

* The lengths of `latency`'s delay and of `reset_peer`'s timeout: timers of
  `ToxicLink` fire at any time, so that no property depends on them.
* Negative sizes of the slicer, and the overflow of `Rate*100` beyond 64 bits.
* Toxicity below 1 in `DataPath` (a toxic may run as noop; `ToxicLink` has that),
  and chains other than slicer, bandwidth.
* Torn reads under a data race: each field is read and written whole.
* JSON, logging, the browser filter (`stopBrowsersMiddleware`), flags, printing:
  no state that the properties are about.
* `ChanReader.SetInterrupt`, which has no caller.
* Metrics (counters handed to the Prometheus library; no decision depends on
  them), and the examples and test helpers, which are programs of their own.

## Plan

1. Done: link, collection, proxy, API, data path and console models with their
   runs; proofs of every safety property that these runs check, and of the
   refinement of `LossyPipe` by `ToxicLink`.
2. Composition: `ToxicCollection`'s abstract links as a refinement of
   `ToxicLink`, so that the step summary of a call is itself checked.
