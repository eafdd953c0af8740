# gofins in TLA+

`gofins` is a Go client (and a simulator) for the OMRON FINS protocol.  This
directory holds its specifications in TLA+, the instances that TLC checks, and
theorems about them that TLAPS proves.  Line numbers are those of the
repository's files, `client.go` unless another one is named.

| module | what it is |
|---|---|
| `Rpc` | abstract: what a request/response layer with a small id promises |
| `Dispatch` | service ids, `sendCommand`, the delivery of responses; implements `Rpc` |
| `Connection` | `listenLoop`, `reconnect`, `triggerReconnect`, waiting callers, `Close`, `Shutdown` |
| `WordReads` | abstract: what `ReadWords` promises |
| `Coalescer` | the bulk read coalescer; implements `WordReads` |
| `Plugins` | `Use`, the notifications of a lost and restored connection, the watchdog, the chain of interceptors |
| `Server` | the life of the simulator: loops, connections, the error channel, `Close`, and its peers |
| `Memory` | the simulator's memory accesses with their `uint16` bounds |
| `Interceptors` | what the interceptors admit, retry and count |
| `Codec` | headers, commands, FINS/TCP frames, BCD, the clock |
| `Operations` | every operation of both clients, over `Memory`, `Interceptors` and `Codec` |
| `DispatchProofs`, `ConnectionProofs`, `CoalescerProofs`, `PluginsProofs`, `ServerProofs`, `OperationsProofs` | theorems about the six machines |
| `CodecProofs`, `RequestProofs` | theorems about the codec; lemmas about a request, its execution and the chains, for `OperationsProofs` |
| `MCDispatch`, `MCConnection`, `MCCoalescer`, `MCPlugins`, `MCServer`, `MCOperations` | small instances for TLC |

To check: `tlc -config MCConnTimeouts.cfg MCConnection`; to prove:
`tlapm CoalescerProofs.tla`.

## 1. The system

### Components

**Request dispatch** (841-906, 908-991).
State: `sid` (a byte), `resp` (256 response channels, each with a buffer of one),
`done`.  Operations: `incrementSid`, `sendCommand`, the part of `listenLoop` that
delivers.  Any number of goroutines call; one listener delivers; the PLC and the
network are between them.  Hard: the id wraps; responses are lost, late or
duplicated; a caller may time out or be cancelled at any step; the caller reads
its channel only after it sent.  Right when an operation gets its own answer or
an error, and no answer that came in is lost.

**Connection life cycle** (300-526, 908-991).
State: `tr`, `connected` (a channel, closed when the connection is up),
`listenErr`, `autoReconnect`, `reconnecting`, `closed`, `done`.  Operations:
`listenLoop`, `reconnect`, `triggerReconnect`, `waitForConnection`,
`sendCommand`'s use of `tr`, `Close`, `Shutdown`.  Listeners, reconnects in
goroutines of their own, callers and closers share the fields; some are under
a mutex of their own, `tr` and `listenErr` under none.  Plugin hooks are called
in between.  Hard: everything here is a race.  Right when one reconnect runs at
a time, no socket leaks, a lost connection comes back, `Close` ends everything
and nobody meets a nil transport or a closed channel.

**Bulk read coalescer** (plugin_coalescer.go).
State: the channel `requests`, one result channel a request, the batch and its
bounds (`uint16`).  Operations: the interceptor in each caller's goroutine; `run`,
`processBatch` and `flushBatch` in one goroutine; `Stop`.  Hard: contexts that
expire anywhere, addresses that wrap, a batch that is ended by the request that
starts the next one, one blocked send stopping everyone.  Right when batching is
invisible: each call gets its own words, not older than the call, or an error.

**Operations** (528-839): `ReadWords` to `ToggleBit`, each a command through
`waitForConnection` and `sendCommand`, some through the interceptors.  Hard: the
item counts and the packing; `ToggleBit` is a read and a write.  Right when an
operation touches the cells it names, and no others, once.

**Plugin manager** (plugin.go).
State: a map of names, an ordered list.  Operations: `use`, `notifyConnected`,
`notifyDisconnected`.  Names are reserved over `Initialize`, and the hooks run over
a snapshot of the list.  Hard: `Use` races with itself and with a reconnect; a
failure undoes what it did by position.  Right when each name is registered once and
every plugin knows whether the client is connected.

**Watchdog** (plugin_watchdog.go): connected flag, downtime, a lossy channel of
events.  Hard: the hooks do not alternate.  Right when its downtimes add up.

**Interceptors** (interceptor*.go): chaining, retry, validation, address ranges,
read-only; logging, metrics and tracing only observe.  Hard: `uint16` limits; a retry
of a write that was executed.  Right when what they refuse is never executed.

**Transports** (transport.go): UDP datagrams; FINS/TCP frames and the handshake.
**Codec** (driver.go, header.go): headers, commands, BCD, clock.  Right when every
conversion is undone by its inverse.

**Simulator** (server.go).
State: memory areas under `memMu`, `closed`, `done`, the listener, `errChan` with a
buffer of one.  Operations: `udpLoop`, or `tcpAcceptLoop` with a `handleTCPConn` for
each connection; `handler`; `Close`; `Err`.  Hard: `uint16` bounds, word addresses
used as byte offsets; errors sent by many goroutines to a channel that need not be
read and that the accept loop closes; connections that outlive `Close`.
**Inline client** (inline_client.go): the same operations on the same memory, in the
caller's goroutine.

**Names, errors, doubles, examples**: no behaviour of their own.

### How they interact

An operation runs the interceptors (the coalescer is one); the innermost
invocation waits for `connected`, takes a service id, sends on `tr` and waits on
its channel.  A `listenLoop` reads `tr` and fills the channels.  When it fails it
replaces `connected`, calls the plugins' hooks and reconnects itself; a response
timeout does the same from the caller's side in a new goroutine.  `reconnect`
closes `tr`, dials, installs `tr`, `connected` and `listenErr`, starts a listener
and calls the hooks.  `Close` sets `closed`, closes `done` and `tr`.
The simulator answers a command that came over its socket with `handler`, which
reads or writes the memory under `memMu`; an inline client does so itself.

The modules cut along these lines.  `Dispatch` sees a lossy network and no
reconnects; `Connection` sees who waits on what and no messages; `Plugins` sees
that the connection is lost or restored, at any time and by the goroutines that
`Connection` has for it; `Operations` sees attempts that are answered or given up.
`Operations` composes `Interceptors`, `Codec` and `Memory`, which are operators, with
callers, the network and the simulator's process; `Server` has that process's goroutines
with the commands opaque.

## 2. The plan

In the order of importance; 1 to 7 are done.

1. `Rpc`, `Dispatch`, `DispatchProofs`: request/response matching.
2. `Connection`, `ConnectionProofs`: the life cycle.
3. `WordReads`, `Coalescer`, `CoalescerProofs`.
4. `Plugins`, `PluginsProofs`: the plugin manager with the watchdog.
5. `Server`, `ServerProofs`: the simulator's goroutines and `Close`.
6. `Memory`, `Interceptors`, `Codec`, `Operations`: what operations do to the memory.
7. `CodecProofs`, `RequestProofs`, `OperationsProofs`: which cells change, that a second
   execution needs an attempt given up, what the chains promise, what ends a process,
   toggles, the codec for every input; `OnlySuspectsDropped` in `ConnectionProofs`.
8. An abstract register file that `Operations` implements for calls that fit.

## 3. Dispatch

| model | code |
|---|---|
| `Begin`, `NotIssued` | the operation's `waitForConnection` (365-386) and the tests at the head of `sendCommand` (861-868) |
| `IncrementSid` | `nextHeader`, `incrementSid` (841-859): id and channel in one step |
| `Send`, `SendFails` | `tr.Send` (870-875) |
| `FetchChannel` | `c.resp[header.serviceID]` after the send (877-880) |
| `ReturnResponse`, `ReturnError` | the select of 882-906 |
| `Receive`, `Deliver` | `listenLoop` (917-932, 976-989), a non-blocking send |
| `Answer`, `Lose` | the PLC and the network |
| `CloseDone` | `Close` closes `done` (341) |

`incrementSid` takes `sidMutex` and then `respMutex`; it is one step because `sidMutex`
is held (`defer`) until it returns: no other id is issued in between, and what else
touches the slot (a delivery of an old response, an older caller that reads its
channel back) commutes with the first half.
An operation is named by its number, which stands for its bytes, and a
channel by the operation that made it.  The replacement of the transport loses
messages and nothing else that `Dispatch` sees: `sid` and `resp` survive it.

`Rpc` says: an operation ends with an error, or with the answer to a command that
was executed; the answer is its own unless `Window` operations were issued in
between.  `Dispatch` implements it with `Window <- NSid`.

* `MisdeliveryNeedsWrap`: `sendCommand` returns the answer of another operation
  only if at least 256 operations lie between them.
* `OwnChannelUnlessWrapped`: the channel read back after the send is one's own.
* `NoLostResponse`: on a lossless network a command is answered, although its
  response may come before the caller looks for it.
* `ImplementsRpc`: all of it together.

## 4. Connection

Transports are numbered by the dials that made them; the listener and the error
channel of a dial carry its number.  A channel `connected` is installed open and
never closed, or installed and closed at once, so it is a Boolean.

| model | code |
|---|---|
| `LoopStart`, `LoopRead` | `listenLoop` captures `errChan` (908-915), looks at `done`, reads `c.tr` (917-932) |
| `LoopPayload`, `LoopError` | `Recv` returns a payload (976-990) or an error: a broken or closed transport, or the read deadline (929-938) |
| `LoopMark`, `LoopHook`, `LoopSend` | the open `connected` (940-943), `notifyDisconnected` and the send of its error (945-948), the last send (960, 969) |
| `LoopReconnect`, `LoopGiveUp`, `LoopClose` | 950-972 and the deferred `close(errChan)` |
| `RcEnter`, `RcAlready` | the test and set of `reconnecting` (404-416) |
| `RcStop`, `RcAttempt` | the tests of `closed`, `autoReconnect`, `maxReconnect` (427-444), back-off |
| `RcDrop` | close and clear `tr` (460-466) |
| `RcDial`, `RcDialFails`, `RcUnreachable` | the dial and its installation (468-504) |
| `RcSignal`, `RcListen`, `RcHook`, `RcLeave` | 506-524 and the deferred reset (418-422) |
| `CallBegin`, `CallCapture`, `CallReady`, `CallAbort` | `waitForConnection` (365-386): `IsClosed`, the capture of `connected`, the select |
| `CallCheck`, `CallSend`, `CallSendFails` | `c.tr == nil`, `c.tr.Send` (866-875) |
| `CallResponse`, `CallTimeout` | the select (882-906) |
| `CallTrigger`, `CallMark`, `CallHook`, `CallSpawn` | `triggerReconnect` (300-329) |
| `DisableAutoReconnect`, `CloseMark` .. `CloseDrain` | `Shutdown`, `Close` (331-363) |
| `NilTransport`, `SendOnClosed`, `DoubleClose` | what ends the process |

What is merged.  `RcDrop` is a close and a store of nil, `RcStop` and `CallTrigger`
each look at two or three fields under different mutexes: the states in between
are either reached by other orders of the same steps or lead to the same
decision.  A read of `c.tr` while it is stored (an interface is two words) may see
half of it; the model has the case that this is nil, which ends the process as
well.  `CallSpawn` waits for a free slot: the number of concurrent goroutines is a
bound.  The constructor is Init, in the state in which it returns.

`suspect` (transports that failed a read, or left a call without an answer),
`late` (installations after `closed`), `refused` (a listener was told "already
reconnecting"), `faults` and `panic` are history for the properties.

* `ReconnectExclusive`: at most one goroutine is past the test of `reconnecting`.
* `NoLeakedTransport`: only `c.tr` is ever open: the port can be bound again.
* `AtMostOneLateInstall`: of all reconnects that race with `Close`, at most one
  installs a transport after it.
* `ConnectedHasTransport`: without response timeouts, connected means `tr # nil`.
* `OnlySuspectsDropped`: an open client drops only transports that failed.
* `NoPanic`: without auto-reconnect, no nil transport, no misused channel.
* `CloseReleasesCallers`, `CloseEndsListeners`: after `Close`, every caller returns
  and every listener ends.  The second has three exceptions, which the code
  has: a late installation starts a new listener; a listener whose error channel
  still holds the error of a hook blocks on sending a second one (`Unheard`); a panic.
* `Restored`: with unlimited attempts the connection comes back, unless `refused`.

**Fairness** (`FairSpec`).  Goroutines that can run do (the Go scheduler is fair
enough); hooks return; a read on a closed transport fails; a dial returns (UDP: at
once; TCP: a timeout of 5 s; the handshake that follows has no deadline unless its
context has one, and is assumed to return); a select with `done` ready is left.
Nothing is assumed of the PLC, the timers, the contexts or the users.  Under
`FairSpec` a dial that the bound `MaxTr` forbids fails for ever, and `MaxFaults`
bounds the failures of the network: the run has more transports than faults plus
one can use up.  No caller is cancellable in the fair runs.

## 5. Coalescer

Addresses are 0..`Space`-1 with `uint16` arithmetic modulo `Space`.  The PLC's
memory is a version; what a read returns is named by the request that would read
just these words and by the version read, so that words from the wrong place,
the wrong area or the wrong time differ from the right ones.

| model | code |
|---|---|
| `Call`, `Direct` | the bypass test and `ic.Invoke` (105-116) |
| `Enqueue`, `Receive`, `Abandon` | the two selects (126-141) |
| `Take`, `StopRun` | `run` (158-170), `stop` in `processBatch` (182-183) |
| `Timer`, `SkipExpired`, `Join`, `Split` | the select of `processBatch` (184-231) |
| `Filter`, `Filtered` | the loop over the batch that drops expired requests (235-247), one at a time |
| `ReadBatch`, `ReadBatchFails` | the combined read and its slices (249-308) |
| `Continue` | `processBatch` returns or starts the next batch |
| `Stop`, `Expire`, `Write` | `Stop`; contexts; the PLC |

A send blocks on a full channel: it is a guard of `Send`.  The sends after the
read are one step, because none of them can block (`AnsweredOnce`).  `Expire` is
restricted to calls under way: nothing looks at a context before or after.
Errors are one answer, `failed`.  The connection is assumed to let the combined
read return; the interceptors around it observe and are left out.

* `AnsweredOnce`: nobody is owed two results, or one after a result: no send blocks.
* `ReadWithinSpan`: the combined read is of 1..`maxSpan` words.
* `BatchCovered`: it covers every request of the batch, unless one of them reaches
  the last address.
* `NoneForgotten`: until `Stop`, who waits has a result or is on the books.
* `ImplementsWordReads`: an answer is an error or the caller's own words, all of
  one moment between call and return.

## 6. Plugins

Users call `Use` with a sequence of plugins; three threads notify them: a listener and
a caller (whose response timed out) that mark the client disconnected, and a
reconnect.  They are those of `Connection`, each run at any time; `restorable` says
that somebody who marked the client down has come to its reconnect.

| model | code |
|---|---|
| `UseRefused`, `UseReserve` | plugin.go:35-53 |
| `UseInitialize`, `UseChain`, `UseInitFails` | `Initialize` (55-60), of the coalescer plugin_coalescer.go:83-114 |
| `UseJoin` | 62-65 |
| `UseSilent`, `UseTell`, `UseHook`, `UseHookFails`, `UseUndo` | 68-76: the look at `isConnected`, the hook, its undoing |
| `Drop`, `Restore` | client.go:939-946, 311-318 and 506-519 |
| `Snapshot`, `Notify`, `NotifyFails`, `Notified` | plugin.go:82-110 |
| `OnConnected`, `OnDisconnected`, `CurrentDowntime`, `Emit` | plugin_watchdog.go:72-138 |
| `SetInterceptor` | client.go:262-268 |

The map from names to plugins is the set `taken`: its values are never read.  A
watchdog updates its state under its lock and offers the event after it: `Emit` is
a step of its own, and `last` stands for the channel, whose capacity is left out.

* `NameHeldByOne`, `RegistryConsistent`: a name is of one registration; the names
  taken are those in `order`, each once, and those on their way, unless a plugin
  that failed removed another's entry (plugin.go:72 cuts the last one).
* `RemovalInRange`: that cut never finds `order` empty.
* `PluginsAgree`: when all is quiet and no notification overlapped another, plugins,
  watchdog and last event know whether the client is connected.  With overlaps they
  need not: a plugin that joins `order` before the look at `isConnected` is told twice,
  or hears "up" after "down".
* `DowntimeAccounted`: downtimes are the time the watchdog was told down, but for
  what a second `OnDisconnected` in a row makes it forget.
* `InterceptorKept`: the coalescer's chain keeps the interceptor that was set, unless
  it was set between the halves of `Initialize`.

## 7. Server

The two loops are one variable `loop`; a connection has the stage of its handler.
Peers are clients of this package (dial, handshake, a request at a time, close) and
strangers, who send what they like.  Of a message it matters what the simulator can do
with it: a handshake; a command it answers ("data"); one on which `decodeRequest`
(driver.go:103-109) or `handler` (server.go:253-287) slices out of range ("fatal": less
than 12 bytes, fewer items than its count says, bounds that wrap), which ends the process;
a datagram of no bytes; bytes that are no frame ("bad").  Clients may send fatal commands,
too: `Operations` has the calls for which this package does.  When the process ends,
the system closes its sockets (`Ends`): a TCP peer is cut off, a UDP peer is not told.

| model | code |
|---|---|
| `UdpTop`, `UdpRead`, `UdpReply` | `udpLoop` (server.go:212-250) |
| `UdpDies`, `HandleDies`, `Ends` | a fatal command (236-237, 358-359), and what the end of the process leaves |
| `Accept` | `tcpAcceptLoop` (309-323) |
| `LoopFails`, `LoopJudge`, `LoopReport`, `EndLoop` | their errors, the look at `IsClosed`, the send, the deferred close of `errChan` |
| `HandleFirst`, `Greet`, `HandleNext`, `Reply` | `handleTCPConn` (325-368) |
| `ConnReadFails`, `ConnWriteFails`, `ConnJudge`, `ConnReport`, `ConnPanics` | its errors; a send on `errChan` blocks when it is full and ends the process when it is closed |
| `CloseMark`, `CloseDone`, `CloseSocket` | `Close` (117-138) |
| `ReadErr` | the reader of `Err()`: always, once (as examples/server does), or never |
| `DialUdp` .. `Hangup` | transport.go |

* `ErrChannelKept`: `errChan` is closed after `Close` or after the loop's error was put
  in it; a handler sends on the closed channel only if the loop ended by an error, or if
  it had looked at `closed` before `Close`.  It is about this way to end the process; a
  fatal command does so at any time, on accepted connections also after `Close`.
* `ClosedIsClosed`: after `Close` a UDP server answers nobody, and a TCP server takes no
  connection; the accepted ones live on (nothing in `Close` ends them).
* `GoroutinesEnd`: `Close` ends the loop, and the end of a peer its handler, unless the
  error channel is full and unread.
* `ClientsAnswered`: who waits for an answer gets it or is cut off, also if a fatal command
  of anybody ends the process in the meantime.  The exceptions: a connection that queues at
  a listener which the accept loop left open when it ended on an error, or which blocks
  on a full error channel (`Deaf`); and UDP, when the loop has ended, by `Close`, an error
  or a fatal command: nothing tells a UDP client, and its timeout is all it has
  (`Dispatch`, `Operations`).

**Fairness** (`FairSpec`).  The server's goroutines, a `Close` under way, a reader of
`Err()` that reads, and a client that has sent go on; a closed socket fails the read
that is pending on it (that is Go's net package).  Nobody need dial, ask, hang up or
close, and no error of its own need happen (`MaxFaults`).  Clients go on when the
server's process has ended: they live in another.  UDP loses no datagram between
peer and loop here; where it does is a timeout in `Operations` and a loss in `Dispatch`.

## 8. Operations, Memory, Interceptors, Codec

`Memory` is the simulator's memory as operators on a request: the slices that the code
takes, with every sum modulo `Wrap` (2^16), and their verdict: done, refused with an
end code, or a slice out of range, which ends the process.  `Interceptors` says whom a
chain admits and how often it tries.  `Codec` has the conversions.  `Operations` is the
state machine: each caller has a kind of client, a chain and one call.

| model | code |
|---|---|
| `Invoke`, `Refuse`, `Fail` | interceptors outside and inside of a retry, the tests at the head of an operation; interceptor_retry.go:17-134 |
| `Count`, `Payload`, `Request` | the packing of each operation, client.go:528-839, inline_client.go |
| `Send`, `Serve` | `sendCommand` (861-906), `handler` (server.go:253-287) under `memMu` |
| `Access` | an inline client's operation on the memory |
| `ReturnError`, `Return`, `ReturnPanics`, `ToggleOn` | end codes, the decoding, the second half of `ToggleBit` (776-788) |
| `Timeout`, `GiveUp`, `Expire` | 893-906 and contexts |
| `Close` | of the simulator, in one step (its stages are in `Server`) |

`Client` runs `SetBit`, `ResetBit`, `ToggleBit`'s write, `WriteString` and `WriteBytes`
without its interceptor (`Bare`); `InlineClient` intercepts them.  The data of a write is
one byte value, so byte order is left out.  The datagram buffers are `UdpRoom` and
`ReadRoom`; what is behind a short payload in the receive buffer is `Junk`.  The client
reads through a `bufio.Reader` (transport.go:36): the rest of a response that is larger
than `ReadRoom` is what the next `Recv` returns (`Tailed`), and if it is shorter than a
response's 14 bytes `decodeResponse` slices out of range and ends the process.  No rest
in the run is as long; `ReturnPanics` allows that end for longer ones, too, which are
decoded as another response instead (section 12).

* `NamedCellsOnly`: a step changes only cells its call names, to bytes of the call; the
  exceptions are in `Strays`.
* `RetryDiscipline`: a success was executed on all of its cells; a second execution, or
  one after the return, needs an attempt given up; the metrics count what happened.
* `ChecksHold`: what the simulator executes of a call that an interceptor saw satisfies
  what that promises.  Read-only: nothing is written.  Range: no address outside is used,
  and no read goes past the end, unless its start wraps around, too; the extent of a write
  is not promised.  Validator: no call is of no items, none has more than the limit, and
  the count of its command is within the limit; the exception is a write of 2^16 items and
  more, whose length is compared as a `uint16` (interceptor_validation.go:55, 72, 81) and
  of which the command carries the remainder.  (The count of `WriteString`'s command is in
  words, its limit in bytes.)
* `PanicsOnlyWhen`: which calls end a process: none that fits its area, but for
  `WriteBytes` over a network and a read larger than the client's UDP buffer.
* `ToggleFlips`: a toggle's write leaves the complement of the bit that was there before
  the step, unless somebody else wrote it since the toggle read it.
* `WireExact`: the commands in flight decode to what was meant, and `CodecExact`: each
  conversion is undone by its inverse.  Headers, places, bodies and dates are the sets of
  the instance; BCD goes over all numbers below twice `Word64`.

## 9. The runs

| run | question | bounds, and why they are enough |
|---|---|---|
| `dispatch_lossy` | are answers ever crossed, and does `Dispatch` implement `Rpc`, with loss, duplicates, timeouts, cancellations and `Close`? | 2 callers, 2 ids, 3 operations: the third wraps onto the first, and both callers may still hold it |
| `dispatch_reliable` | is a response ever lost when the network loses none? | 2 callers, 2 ids, 4 operations: two rounds of ids, one caller that may be cancelled |
| `conn_listener` | leaks, transports and drops when listeners alone reconnect | 3 transports, 2 attempts, 2 faults, read deadlines, failing hooks, one `Shutdown`: a reconnect may fail, run out, or be followed by a second |
| `conn_timeouts` | exclusion and late installations when timed-out callers reconnect as well | 3 transports, a caller and 2 slots of spawned reconnects, one `Close`: three reconnects may meet; 3.7 million states, with a `VIEW` that leaves out `suspect` and `refused`, which no guard and no invariant of the run reads |
| `conn_manual` | does anything panic without auto-reconnect? | 2 callers, a `Close` and a `Shutdown`, failing hooks and reads: every pair of goroutines there is |
| `conn_liveness` | does the connection come back, does `Close` end everything? | 4 transports, 2 faults: two lost connections in a row, and `Close` at any step |
| `coalescer` | is batching invisible? | 3 calls, 2 per batch, 8 addresses, span 3, 5 requests: they touch, overlap, leave a gap, are in another area, end at the last address, or are too large; one call has a deadline; one change of the memory; a queue of one; 2.3 million states |
| `plugins` | are registry, plugins, watchdog and chain consistent? | 2 users: one registers the watchdog and a coalescer, the other a plugin of the coalescer's name whose `Initialize` and hooks fail; 2 losses, 1 `SetInterceptor`, time 0..1: a removal, a late joiner and a doubled notification all happen; 2.1 million states |
| `server` | when is `errChan` closed or fatal, who is served after `Close`, does everything end? | a client and a stranger, 2 messages each, one error of the server's own, one `Close` at any step, a buffer of one, readers of `Err()` of three kinds, both transports, fatal commands of either: two handlers and a loop compete for the buffer, and the process ends under a waiting client; 0.5 million states |
| `operations` | which cells, how often, through which checks? | 2^16 is 16, an area has 8 bytes, buffers 6, the validator's limits 3 and 2 with words of 2 bits, so that every kind of call has a case on both sides of its limit or of 0, and a write of 17 items is one of 1 in `uint16`; one retry, 2^64 is 1024; the first caller makes one of 39 calls around these sizes with any of 3 clients and 5 chains, the second one that contends for the same bit; 2.4 million states |
| `find_*` | see section 11 | the smallest instance that shows it |

`CHECK_DEADLOCK FALSE` is set throughout: these systems may stop (every caller is
done and the bounds are used up; the process ended).  Bounds that are not in the
code: `MaxIssue`, `MaxTr`, `MaxFaults`, `MaxWrites`, `MaxDrops`, `MaxSets`, `MaxTime`,
`MaxSent`, and the sets of callers, closers, users, peers and slots.  The definitions marked "faulty" in the modules are not part of any
specification: each is a plausible bug, put in the place of a definition to see
that the property it is meant for catches it.

## 10. What is proved

For every value of the constants under the modules' assumptions, by TLAPS.

`DispatchProofs`, under `DispatchAssumption`: `TypeCorrect`, `NoMisdelivery`,
`OwnChannel`, `DispatchImplementsRpc`.  None of the properties is inductive: that an
answer is not crossed rests on which operation's answers a channel may hold.
`Inv` adds: `WindowInv` (the id of operation k is the one issued k-th, counted
around), hence `DistinctInv` (two operations less than `NSid` apart have different
ids); `SlotInv` (a slot of `resp` holds the channel of the last operation with that
id); `NetInv`; `ChanInv` (a channel holds an answer with its own id); `CallInv` and
`LastInv` (the same for the channel captured and for the answer returned).

`ConnectionProofs`, under `ConnectionAssumption`: `TypeCorrect`, `OneReconnect`,
`NoLeak`, `OneLateInstall`.  The inductive invariant `LinkInv` is the exclusion itself
with: `LoopInv` (a listener runs `reconnect` only at its stage for that, and exists
only for a transport that was dialled), `DropInv` (who is about to dial has dropped
the transport there was), `LateInv` (after one late installation nobody is between
the test of `closed` and another dial).  `ManualNoPanic` assumes
`AutoReconnect = FALSE`: then (`ManualInv`) nobody reconnects, the one transport is
never nil and the one error channel is closed by its listener's last step.
Its premise is the constant, so it says nothing of a client that reconnects.
`ConnectedMeansTransport` assumes `ResponseTimeout = FALSE`: then (`SoleInv`) only
listeners reconnect, only the one of the last dial is on the way to a new transport,
and it marked the client disconnected before it dropped `tr`.  `DropsOnlySuspects` states
`OnlySuspectsDropped` under the same premise and needs `SuspectInv` as well: the newest
listener reads the newest transport, and from its failed read to its next dial that
transport is a suspect; whoever is past the mark of `Close` finds `closed` set.

`CoalescerProofs`, under `CoalescerAssumption`: `TypeCorrect`, `OneResult`,
`Covered`, `Remembered`, `CoalescerImplementsWordReads`; and `SpanBounded`, with the
further assumption that `maxSpan` is at most half of the address space (at most 32768
words): with more, two long requests whose ends both wrap can join into a read of no
words.  The inductive
invariant relates the books to the stages: `StageInv` (which of them are empty when),
`BooksInv` (no request occurs twice in active, batch, next and queue), `OwingInv`
(who is there has no result), `AskedInv` (who is there asked for 1..`maxSpan` words),
`ResultInv` (a result waiting in a channel is the caller's own words of a moment since
its call, or an error), `AreaInv` (a batch is of one area and lies between its bounds).
`WaitInv` (who waits is on the books) and `SpanInv` (the bounds of the batch) are
inductive beside it.  For the refinement, a combined read answers every one of its
requests without a step of `WordReads`: the answer is made when it is received, and
`ResultInv` says it is still right then.

`PluginsProofs`, under `PluginsAssumption`: `TypeCorrect`, `NamesHeld`,
`RemovalsInRange`, `Registered`, `DowntimesAddUp`, `InterceptorStays`, `PluginsKnow`.  A
removal is in range by counting (`HoldInv`: `order` is at least as long as there are
users that hold an entry of it, a set whose cardinality changes by one with each append
and removal).
For the registry, `OrderInv` adds that a plugin on its way has no entry's name, from
`NameHeldByOne`; `InFront` says what a cut of the last entry leaves.  The watchdog's sum
is inductive with its types; the chain with `ChainInv`, that what `Initialize` read is
a chain.  `PluginsKnow` states `PluginsAgree` and needs `KnownInv`: while no hook failed
no entry is removed, and whoever is told anything is in `order` (`QuietInv`); unless
notifications overlapped there is one notifier (`AloneInv`), what it tells is how the
connection is (`NewsInv`), and a plugin whose first call is still to come was told
nothing (`FreshInv`).  From these, each registered plugin knows the connection's state or
is yet to be told (`ToldInv`), and the watchdog's last event, or the one about to be
emitted, is its state (`EventInv`).

`ServerProofs`, under `ServerAssumption`: `TypeCorrect`, `ErrChannel`, `CloseStops`.
`ErrInv`: `Close` sets `closed` before `done`, and whoever is at its report when it does
is remembered, so nobody else can come to a report after it; the end of the process leaves
no handler at its report (`Ends`).  `ShutInv`: a `Close` that is done has closed the
socket, and a UDP server has no connections.

`CodecProofs`, under `CodecAssumption` and `InputsAssumption`: `HeadersRead`,
`CommandsExchanged`, `FramesRead`, `NumbersRead`, `ClockRead`, and `CodecRead`, which is
all of `CodecExact`.  The sets of inputs are constants, so the theorems are about every
node address, service id, place, body that a frame's length field can hold, and date of
the century that two digits name.  `NumbersRead` is about numbers of any length and every
even `Word64` over 100 (2^64 in the code): the encoder's digits and the decoder's
accumulator are recursive functions, and the induction over them takes the least
counterexample, which exists as the order of the naturals is well founded (`Least`).
What the decoder's test catches is an overflow below twice 2^64, and the theorem
claims no more.

`RequestProofs` has no theorem of its own to list.  Its lemmas are about the operators of
`Memory` and `Interceptors`: sums of `uint16` (`Wraps`), the bounds of an access and the
cells it can reach (`Bounds`, `DoneInBounds`), what each verdict needs, the request made
of a call, a chain cut into what is around its retries and what is within them.

`OperationsProofs`, under `MemoryAssumption`, `InterceptorsAssumption`,
`OperationsAssumption` and those of the codec: `TypeCorrect`, `NamedOnly`, `RetriesKept`,
`ChecksKept`, `PanicsKnown`, `FlipsKept`, `WiredWell`, for any callers, calls, areas and
sizes, a width of at most 2^16, and any chains without repetition in which one interceptor
retries at most.
`Invariance` is the inductive invariant `IInv`, for
each caller:

* `NetInv` (each of its requests, under way or executed, is what its call asks for, with
  the number of one of its attempts), `OnceInv` (each attempt is one request), `PairInv`
  (the answer is to the last attempt, and says ok if and only if that was executed);
* `StageInv`, `TriesInv` (there are as many attempts as the retries allow, in both phases
  of a toggle), `FreshInv`, `DoneInv`; these make `try` the service id of a command and
  bound it for `WireExact`;
* `CalmInv` (unless an attempt was given up only the last one is under way), `SingleInv`
  (then, or without retries, there is one read and one write at most) and `TurnInv` (a
  toggle writes once): what `RetryDiscipline` follows from.  That `did` has at most two
  elements is a matter of cardinality, from `SingleInv`;
* `LocalInv`: an inline client's toggle, whose write is retried by its own chain, tries
  twice at most, as what lies in the area succeeds and what does not never will;
* `MetricsInv` (what a collector has counted at each stage) and `CheckInv` (the chain
  admitted every request that was made through it).  `ChecksKept` needs beside it what an
  admission says of the command: the limit computed in `uint16` is at most the one meant
  (`LimitIs`), and the length compared is the count sent (`ValidatedIs`);
* `BitInv`: until somebody else writes the bit, what a toggle read is what it is.  It is
  about the memory and so can be disturbed by every caller's execution.

`PanicsOnlyWhen` is inductive with these.  `NamedCellsOnly` and `ToggleFlips` are proved of
each step from `IInv`.

Only model-checked: `NoLostResponse`, `Restored`, `CloseReleasesCallers`,
`CloseEndsListeners`, `GoroutinesEnd` and `ClientsAnswered`: liveness under fairness and
`ENABLED` are beyond the prover.

## 11. Disagreements between the code and its documentation

Each of these has a run that TLC ends with a counterexample.

* `find_waiter`: who waits for the connection keeps waiting after it is restored.
  `reconnect` replaces `connected` (508-509) and closes the new channel, and the
  waiter selects on the old one.  README.md:356 says operations wait "for the
  connection to be restored".
* `find_nil`: `c.tr` is tested at 866 and used at 873; a reconnect clears it in
  between (465).

Others that the models show or allow, without a run:

* more than 256 operations under way at once may cross (doc.go:234 says all methods
  may be called concurrently): the window in `Rpc` is the exact statement;
* a reconnect that runs out of attempts (442) tells nobody: waiting operations do not
  "return an error" (README.md:358) but wait for their context;
* after a response timeout a new transport may be dropped by the old listener,
  which fails late and reconnects again (957): `OnlySuspectsDropped` is
  therefore stated for reconnects by listeners only;
* a hook's error is `reconnect`'s (519), with the connection left up;
* a request that reaches the last address hides its end from its batch (end 0), and
  a longer request batched with it gets "coalesced read response too short"
  (plugin_coalescer.go:300): the exception in `BatchCovered`;
* the earliest deadline of a batch fails all of its requests (plugin_coalescer.go:257);
* a transport that fails while the hooks of the last reconnect run is never replaced: its
  listener is told "already reconnecting" (405) and ends: `refused` in `Restored`;
* a reconnect past its tests (429-439) opens a transport after `Shutdown` returned:
  `AtMostOneLateInstall` is what is left;
* the read deadline (932), meant for shutdown, ends the listener of an idle line; without
  auto-reconnect the client is then down for good (README.md:288-302);
* a plugin whose `OnConnected` fails removes the last entry of `order`, which is another's
  when one joined meanwhile (plugin.go:72): the premise of `RegistryConsistent`;
* `RetryInterceptor` retries every error, a refusal or an end code included; the condition
  that interceptor_retry.go:98 gives as an example compares with a `ResponseTimeoutError`
  of no duration, which no timeout of the client is equal to;
* `ReadOnlyInterceptor` does not see the writes that `Client` makes without its
  interceptor (`Bare`), and `AddressRangeValidator` does not look at the extent of a write:
  the premises of `ChecksHold`;
* `ValidationInterceptor` compares `uint16` of a length (interceptor_validation.go:55, 72,
  81), so a write of 2^16 items and a few is not "too large" (56) but passes as one of a few,
  its command carries those few (client.go:688), and it is reported as a success: the
  exception in `ChecksHold` and, as `Overflows`, in `RetryDiscipline`;
* a command that the simulator cannot take apart ends its process, and with it everybody's
  calls: a datagram of 1 to 11 bytes (server.go:236, driver.go:107), a frame as short, a
  write with fewer items than its count (server.go:266, 272), also on a connection that
  was accepted before `Close`: the fatal commands of `Server`;
* `WriteBytes` gives its number of bytes as the number of words (client.go:724): over UDP
  the simulator stores what is left in its buffer behind them, over TCP its slice is out
  of range and it ends;
* bounds near 65535 wrap (server.go:147, 163, 180, 197) and end the simulator's process
  by a slice out of range; an inline client that recovers from it holds `memMu` still;
* a word's address is a byte offset in the simulator (server.go:151): words at neighbouring
  addresses share a byte, which the model has and no document contradicts;
* a connection that fails after the accept loop ended on an error sends on the closed
  `errChan` (server.go:310, 351) and ends the process; and connections accepted before
  `Close` are served after it;
* `decodeHeader` reads both flags from the lowest bit (`icf&1<<6`), which the headers the
  package makes do not show; the BCD decoder misses an overflow of more than twice 2^64.

## 12. What is not modelled

Names, end codes and error types, which have no behaviour; the mocks; the examples,
but for the example server's reading of `Err()`; the text of logs, the metrics' durations
and `Reset`, the spans of a trace.  interceptor_examples.go is excluded from the build.

Data that no property tells apart: byte order and the bytes of a write beyond one value;
`ReadString`, which is `ReadBytes` cut at a zero byte, and `ReadClock`, whose command is
one of `Codec` and goes the way of a read.  The capacity of the watchdog's event channel.
Frames of 2^16 bytes and more.  A response over UDP of more than
2048 bytes, whose rest is long enough to be decoded as a response with whatever service id
its data spell: `Dispatch` has answers to requests only, so its properties say nothing of a
client that reads as much (FINS responses are smaller).  A panic in a slice under `memMu` is the end of the process:
what a caller that recovers would find is not modelled.

The composition of `Dispatch` with `Connection` is not a module: the first has the network
lose messages wherever the second replaces a transport, and the second has a response come
to whoever waits on a transport that works.  Nor is that of `Plugins` with `Connection`:
the first has one listener, one timed-out caller and one reconnect notify at a time, in
every order, and leaves out why the connection was lost.  Setters are constants: the
documentation calls them before use.  Time is only an order of events: back-off,
`CLOSE_TIMEOUT` and windows are steps that may happen; the watchdog's clock is a counter, read in the step that
updates its statistics: plugin_watchdog.go:97 takes `now` before it locks (99), and the time
waited for that lock, held by a handful of assignments, is not told apart.
