# A TLA+ model of bine

bine is a Go library that starts a Tor process, talks to it over its control
port, and builds dialers and onion services on that connection. This directory
models the parts in which goroutines, messages, processes and failures meet,
checks them with TLC on small instances, and proves the properties that matter
most for all instances with TLAPS. Source paths below are relative to the
repository; line numbers are in the comments of the modules.

| file | content |
| --- | --- |
| `ControlConn.tla` | package control: one control connection shared by goroutines |
| `MCControlConn.tla`, `conn_*.cfg` | its small instances |
| `ControlConnProofs.tla` | its typing and its inductive invariant |
| `ControlConnOrderProofs.tla` | replies reach the callers they answer, closed channels are out of reach, every channel gets its events once and in order |
| `TorLifecycle.tla` | package tor: Start and Close over process and connection |
| `MCTorLifecycle.tla`, `tor_lifecycle.cfg`, `tor_close_again.cfg` | its small instances |
| `TorLifecycleProofs.tla` | its inductive invariant and five theorems |
| `TorNetwork.tla` | package tor: EnableNetwork, Listen, Forward, Close, Dialer on one Tor |
| `MCTorNetwork.tla`, `tor_network.cfg`, `tor_bootstrap_missed.cfg` | its small instances |
| `TorNetworkProofs.tla` | its typing, its inductive invariants and eight theorems |
| `Text.tla` | texts as token sequences; torutil's partitioning and quoting |
| `ControlReply.tla` | lines become responses |
| `ControlCommands.tla` | the line of every command, the result of every response |
| `EventDecode.tla` | events become values |
| `ControlWire.tla` | a session: the four above with a Tor that answers and emits |
| `ConfStore.tla` | abstract: SetConf and GetConf as a map |
| `MCControlWire.tla`, `control_wire.cfg` | the sessions checked |
| `TextProofs.tla` | what the helpers on texts return, for every text: unescaping undoes escaping, splitting undoes joining |
| `ControlWireProofs.tla` | framing, for any messages |
| `ControlConfProofs.tla` | a session implements `ConfStore`; what calls return and what events become |
| `ControlAuth.tla` | goroutines that authenticate on one connection |
| `MCControlAuth.tla`, `control_auth.cfg` | its small instance |
| `ControlAuthProofs.tla` | its inductive invariant and three theorems |
| `PROJECT.json` | components, runs, mutants, the map to the source, findings, hazards, theorems |

Run `tlc -config conn_safety.cfg MCControlConn.tla` (or another `.cfg`) and
`tlapm ControlConnProofs.tla`.

## Inventory

### Control connection (`control/conn.go`, `control/cmd_event.go` 100-306)

*State*: the textproto connection with its request and response sequencers and
its buffered writer; `readLock`; the map `eventListeners` and its lock; for each
`EventWait` a channel of ten slots, a derived context, an error channel and a
goroutine running `HandleEvents`.
*Operations*: `SendRequest`, `Close`, `AddEventListener`,
`RemoveEventListener`, `EventWait`, `HandleEvents`, `HandleNextEvent`.
*Interaction*: every command of the package is a `SendRequest`. Replies and
asynchronous events come back on one stream; who holds `readLock` reads whatever
is next and, if it is an event, sends it to all registered channels before
releasing the lock.
*Hard*: numbers are taken before `readLock`; channels are looked up under one
lock and sent to under another; `close(eventCh)` against a send; a bounded
channel under a mutex; a goroutine blocked in `Peek` with the lock; SETEVENTS
composed in one order and written in another.
*Correct when*: a reply goes to the caller it answers; a listener gets each of
its events once and in order; no send on a closed channel; Tor's subscription
covers the map; requests and waits return.

### Replies and events (`control/response.go`, `status.go`, `cmd_event.go` 270-300 and 308-1218)

*State*: none beyond the stream; a response accumulates lines.
*Operations*: `ReadResponse`, `statusCodeToError`, `ParseEvent` and one
`Parse` function per event type.
*Hard*: after a protocol error the rest of a response stays in the stream; a
connection that ends within a line; dot-encoded payloads; fifteen parsers that repeat
one loop over attributes in any order. *Correct when*: framing is the inverse of what
Tor writes, no response mixes two messages, a field of an event has what Tor said, and
what a newer Tor adds does no harm.
*Model*: `ControlReply`, `EventDecode`.

### Authentication (`control/cmd_authenticate.go`, `cmd_protocolinfo.go`)

*State*: `Authenticated` and the cached `protocolInfo`, neither locked.
*Operations*: `Authenticate`, `ProtocolInfo`. *Hard*: method selection, two
goroutines that authenticate at once. *Correct when*: the best method that both
sides have is used, and the cookie's proof is sent only to a server that proved
to know the cookie. *Model*: `ControlAuth`.

### Other commands (`control/cmd_*.go`, `keyval.go`)

Stateless: format one line, `SendRequest`, parse the reply. *Hard*: values are
escaped and unescaped on both sides. *Correct when*: Tor can tell what was asked,
and the result says what Tor answered. *Model*: `ControlCommands`, `Text`, and
`ConfStore` for what SETCONF and GETCONF promise together.

### Tor instance (`tor/tor.go`)

*State*: `Process`, `Control`, `ProcessCancelFunc`, `DataDir`,
`DeleteDataDirOnClose`, `StopProcessOnClose`; outside it the data directory, the
process and its connection. *Operations*: `Start`, `EnableNetwork`, `Close`.
*Hard*: each step of `Start` can fail with the earlier ones done; `Close` runs on
whatever `Start` left; the wait for the process has a timeout; `Close` may be
called again. *Correct when*: nothing that was started is forgotten silently,
the user's directory is never removed, and both calls return.

### Onion services and dialer (`tor/listen.go`, `forward.go`, `dialer.go`)

*State*: `ID`, `Key`, the local listener; in Tor the service and its descriptor
uploads; in the dialer two channels per `DialContext`. *Operations*: `Listen`,
`Forward`, `Close`, `Dialer`, `DialContext`. *Hard*: the subscription to an event
starts after the command that causes it; counting uploads and failures; undoing
on error; the context racing the dial. *Correct when*: a returned service is
published, a failed call leaves nothing in Tor unseen, and a lost race leaks
nothing. *Model*: `TorNetwork`.

### Processes (`process/process.go`, `process/embedded/*`)

*State*: `exec.Cmd`, or `doneCh` of one slot and the process context.
*Operations*: `New`, `Start`, `Wait`, `EmbeddedControlConn`. An executable is
killed when its context is done; an embedded Tor is not, only `Wait` returns.

### torutil, geoip, examples

`torutil/string.go` (quoted strings, `PartitionString`) is pure: `Text`.
`torutil/key.go` and `torutil/ed25519` are cryptographic arithmetic and
encodings; `geoipembed` is generated data; examples and tests are users of the
library. None of these has state worth a model.

## Plan

Done, in this order: `ControlConn`, `TorLifecycle`, `TorNetwork`, the wire
(`Text`, `ControlReply`, `ControlCommands`, `EventDecode`, composed in
`ControlWire` and refined to `ConfStore`), `ControlAuth`; theorems for the four
modules with interleavings; theorems for texts, framing, the refinement, results and
events.

How the modules fit together: `ControlWire` composes the modules of one
connection's data and has one caller; `ControlConn` has the goroutines and takes a
message as one thing; `ControlAuth`, `TorLifecycle` and `TorNetwork` take an
exchange as one step, which is what `ControlConn` shows of a `SendRequest`
(`ReplyMatch`, `RequestReturns`), and `TorNetwork` takes of `EventWait` what
`InOrderDelivery` and `EventArrives` say.

Left: abstract specifications of a request/reply service (one outstanding request
for each caller, replies in the order of the requests) and of an event stream (a log
and one cursor per listener), refined by `ControlConn`. What they would say is proved
of `ControlConn` itself (`ReplyMatch`, `InOrderDelivery`). Also left: proofs that the
decoders of single commands (`GetInfo`, `MapAddresses`, ...) return what Tor wrote, for
any texts, as `AnswerDecoded` proves it of GETCONF; `ResultsRight` takes it as its
hypothesis.

Runs stay small enough for a minute or two each; one passing run per module, and
a second one only where liveness needs another instance than safety.

## ControlConn

### Correspondence

| model | code |
| --- | --- |
| `nextId`, `respTurn` | textproto's pipeline: the next request's number, the response sequencer |
| `readLock` | `Conn.readLock`, with its holder |
| `broken` | the error `bufio.Writer` keeps after a failed write |
| `wire`, `inbox`, `linkUp` | commands sent, messages received, the socket |
| `subs`, `log` | Tor's SETEVENTS list, the events it emitted (event `n` has code `log[n]`) |
| `listeners` | `eventListeners`: a list of channels for each key |
| `wait[w]` | an `EventWait`: its channel `buf`, `eventCtx` (`done`), `errCh` (`err`), what its predicate saw (`taken`) |
| `call[p]` | the command a caller is at, its number, the keys of its SETEVENTS, its reply |
| `relay[p]` | the event in the loop of `relayAsyncEvents` and the channels left to send to |
| `pc` | where each caller and each `HandleEvents` goroutine stands |
| `seen`, `unbarriered`, `start` | history, read by no action of the code |

A step runs from one point at which another goroutine can interfere to the next.

| actions | code |
| --- | --- |
| `Request`, `Cmd`, `CmdFails` | `SendRequest` up to the write; `Conn.Close` starts like a request (`quit`) |
| `LockForResponse`, `StartResponse` | `readLock.Lock()`, then `StartResponse(id)`, which waits with the lock held |
| `ReadReply`, `ReadFails` | the loop's exit with the deferred `EndResponse` and `Unlock` |
| `ReadEvent`, `Send`, `SendPanics`, `EndRelay` | `relayAsyncEvents`: the look-up, one blocking send per channel, a send on a closed channel |
| `HandleEvents`, `LockForEvent`, `PeekReply`, `PeekFails` | `HandleEvents` and `HandleNextEvent` |
| `EventWait`, `ComposeSetEvents`, `RollBack`, `StartHandler` | `EventWait`, `AddEventListener`, `sendSetEvents` |
| `SelectEvent`, `SelectEnd` | the select loop; the predicate's answer is arbitrary |
| `RemoveEventListener`, `ReturnRemove`, `CloseChan` | the deferred calls, in the order Go runs them |
| `Close` | `conn.Close()` after QUIT |
| `CtxDone`, `Answer*`, `Emit`, `TorExits` | the user's context and Tor |

### Abstractions

* `textproto.Cmd` is one step: textproto's request sequencer lets the writes
  happen in the order of the numbers, so between numbering and writing there is
  nothing another goroutine could observe out of order.
* A message is read whole. On a lost link what had arrived stays readable up to
  some message; a message cut in two is the end of the input, or, cut in its last
  line, read as if it were whole: what it lacks then, malformed replies and the code
  of a multi-line event are `ControlReply`'s and `EventDecode`'s. An event torn within
  its code, which is read as one of another code, is left out.
* A write may succeed after Tor is gone, as it may on a socket. Once a write has
  failed all later ones do.
* Every channel belongs to one `EventWait`. `AddEventListener` with a channel of
  the user's own is not modelled: what the user does with it is unknown.
* An element of `WaitSets` is a set of codes: one call lists a code once.
* A panic in one goroutine ends the program: nothing happens after `crashed`.

### Runs

| run | instance | result |
| --- | --- | --- |
| `conn_safety` | 2 callers, 2 waits, a code Tor knows and `EventCodeUnrecognized`, channel of 1, up to 2 commands begun before further calls stop, 2 events | `TypeOK`, `ReplyMatch`, `InOrderDelivery`, `SafeClose` hold |
| `conn_liveness` | 1 caller, 2 waits, channel of 2, 3 commands, 2 events, fair | `RequestReturns`, `WaitReturns`, `EventArrives` hold; no deadlock |
| `conn_closed_send` | as `conn_safety` | `NoPanic` violated |
| `conn_lost_setevents` | 2 callers, 2 waits for different codes | `Subscribed` violated |
| `conn_request_stall` | 2 callers with plain requests, fair | `RequestReturns` violated |
| `conn_wait_stall` | 1 caller, 1 wait, channel of 1, 2 events, fair | `WaitReturns` violated |

Why the bounds are enough. What goes wrong in this code needs two goroutines
between the same two points, one more event than a channel holds, a command
written before and after a failure, or two SETEVENTS: two callers with two
handlers, one slot with two events and two keys give all of them. `MaxIds` bounds
when a *new* call may start; calls that have begun send as many commands as they
need. A recognised and an unrecognised key differ in how `Targets` looks them up;
Tor refuses the second, so the same instance has accepted and refused SETEVENTS.
Callers and waits are interchangeable, so `conn_safety` uses symmetry.

`conn_safety` does not check deadlock: with two callers the program can stop for
good, and `conn_request_stall` shows how. `conn_liveness` does check it: with one
caller, and channels that hold every event, only `Quiescent` is left at the end.

Fairness (`FairSpec`): goroutines run and Tor answers what it has received (weak
fairness per goroutine and kind of step). A goroutine that waits for `readLock`
gets it if it is free again and again (strong fairness): Go's `sync.Mutex` hands
the lock to its first waiter after a millisecond of starvation. Nothing is assumed
of events, contexts, new calls or Tor's exit. `RequestReturns` and `WaitReturns`
are about the same formulas in the passing and in the violated runs; what differs
is the number of concurrent callers and the room in the channel.

### What it shows

*Holds*: whoever reads a reply sent the command it answers; a registered channel
has received exactly the matching events read since its registration, in order,
but for the one event that its reader is still distributing; a channel that
`EventWait` has closed is in no list, and nobody is about to send on it if the
closing call took `readLock` after removing it from the map. That exchange with
Tor, which `RemoveEventListener` needs for SETEVENTS, is what waits out a relay in
progress; nothing in the code says so.

*Does not hold*, four findings:

1. `conn_closed_send`: when the SETEVENTS of `AddEventListener` is refused, or that
   of the removal cannot be written, there is no such exchange after the removal
   from the map, and the relay sends on a closed channel.
2. `conn_lost_setevents`: `sendSetEvents` releases the map's lock before it sends.
3. `conn_request_stall`: the request with the later number takes `readLock` first
   and waits in `StartResponse` for one that waits for `readLock`.
4. `conn_wait_stall`: a full channel blocks the handler with `readLock` held, and
   `EventWait` needs that lock to return.

## TorLifecycle

### Correspondence

| model | code |
| --- | --- |
| `conf` | `StartConf`: creator, kind of control connection, directory, eager authentication |
| `t` | `Process` and `Control` set or nil, `Authenticated`, `DeleteDataDirOnClose`, `StopProcessOnClose` |
| `polls`, `errs`, `sentHalt` | local variables of `startProcess` and `Close` |
| `waiter`, `waited` | the goroutine of `Close` with `errCh`; whether an exit status was taken |
| `ctxDone`, `cancelled` | Start's context, `ProcessCancelFunc` |
| `dir`, `proc`, `ready`, `link` | data directory, process, port file and listener, connection |
| `started`, `closes`, `halted`, `reported`, `clean` | history |

The actions follow `Start` (`CreateDataDir` to `Authenticate`) and `Close` (`Halt`,
`HaltFails`, `SkipHalt`, `CloseController`, `StopProcess`, `WaitDone`,
`WaitTimeout`, `RemoveDataDir`) step by step; a failed step of `Start` continues in
`Close`. `EvalProcess` and `Wait` are the goroutine that waits, for both kinds of
process; `User*` is what the user may do with the returned value in between;
`Kill`, `TorReady`, `TorExits` and `CtxDone` are os/exec, Tor and the context.

### Abstractions

* An exchange on the control connection is one step with the outcomes answered or
  broken; authentication, several exchanges in the code, is one. Their
  interleavings are `ControlConn`'s. The user's goroutine is alone on the
  connection, so the stall of `conn_request_stall` cannot occur here.
* Time: 300 ms may pass at any moment, also before the process could have exited.
* The unsynchronised read of `t.Process` in the goroutine may see the old value or
  nil after the timeout; nil ends the program (`crashed`).
* After a failed `Start` the user only calls `Close`. Another Tor on a given
  control port, and calls of `Process` by the user, are left out.

### Runs

`tor_lifecycle` takes all 36 configurations (retaining a directory makes a
difference only for a temporary one), two reads of the port file and two calls of
`Close` after the one `Start` may have made: enough for a first read that fails
and a last one, and for a `Close` on what each `Close` can leave. It checks
`TypeOK`, `Reported`, `HaltedNotKilled`, `CloseIdempotent`, `DirRemoval` and
`CallReturns`. Deadlock is not checked because the program is done when `Close`
has returned. Fairness is that of one goroutine, and of a Tor that serves the
embedded connection it was started with (an exchange on it would otherwise wait
for ever, with no regard to the context). It is not assumed that Tor opens a port,
exits after HALT or that a killed process is gone in time.

`tor_close_again` shows the finding: a `Close` that gives up after 300 ms sets
`Process` to nil (`waitErr` is nil), so the next one returns nil although the
process runs. The other way round a `Close` that had to kill Tor always returns an
error and keeps `Process`: each later one reports an error too.

## TorNetwork

### Correspondence

`c \in Calls` names one call (of `EnableNetwork`, `Listen`, `Forward` or `Dialer`), the
goroutine that makes it and the value it returns.

| model | code |
| --- | --- |
| `conf[c]` | what differs between calls: wait or not, a given listener or proxy address, a valid key and ports, `Detach` |
| `id`, `local` | `OnionService.ID` and `OnionForward.ID` set or not, the local listener |
| `waiting`, `events` | the `EventWait` of the call and its channel |
| `attempted`, `failures` | `uploadsAttempted`, `len(failures)` |
| `dial`, `conn`, `held` | the goroutine of `DialContext`, the connection it made, whether the caller has it |
| `control`, `crashed` | `Tor.Control`; a use of it after `Tor.Close` panics |
| `link`, `netOff`, `boot`, `service`, `upload`, `tries` | Tor: connection, DisableNetwork, bootstrap, services, uploads |
| `lost`, `closeErr`, `published`, `enabled`, `open`, `missed` | history |

| actions | code |
| --- | --- |
| `Listen`, `Forward`, `AddOnion`, `AddOnionLost`, `AddOnionFails` | up to the use of ADD_ONION's answer |
| `GetConf`, `SetConf`, `SetConfFails`, `SubscribeBoot`, `BootEvent` | `EnableNetwork`, also inside `Listen`, `Forward` and `Dialer` |
| `SubscribeDesc`, `SkipOther`, `SeeUpload`, `SeeFailure`, `SeeSuccess` | the wait for publication, event by event |
| `SubscribeFails`, `WaitFails` | an `EventWait` that ends with an error |
| `Undo`, `Close` | `Close` of what was made, by `Listen` after an error or by the user, twice if he likes; `NilClose` is one after `Tor.Close` |
| `GetInfo`, `DialContext`, `DialEnds`, `CheckCtx`, `HandOver`, `SelectDial` | `Dialer` and `DialContext` with its goroutine |
| `NilControl`, `CloseTor` | `Tor.Close` and what it does to calls in progress |
| `Bootstrap`, `StartUpload`, `UploadFails`, `UploadDone`, `LinkLost`, `TorExits`, `CtxDone` | environment |

### Abstractions

* An exchange is one step, with the outcomes answered, refused or broken. A refusal
  needs no reason: Tor may be out of memory. A command that a call has begun while
  `Tor.Close` runs fails; one that it begins afterwards finds nil and panics, be it a
  call in progress (`NilControl`) or the `Close` of a service that still has its ID
  (`NilClose`, `listen.go:268`, `forward.go:214`). A service without one is closed
  without `Control`.
* An answer to GETCONF that the connection's end tears may lack the `1` of
  `DisableNetwork=1`, and the network is taken to be on (`GetConf`; see `ReadTorn`).
* An `EventWait` receives the events emitted from its SETEVENTS on, in order. The
  stalls and the panic that `ControlConn` shows are not repeated here.
* Services without `Detach` end with the connection, all of them with Tor.
* A bootstrap may report ERR once on its way. A directory gets the descriptor again
  after a failure, up to `MaxTries` uploads in all.
* A call has one context and a dialer one `DialContext`; the context may end at any
  time until the wait is over, or, for a dialer, ever after. The SOCKS dial is
  external: it ends with a connection or an error.

### Runs

`tor_network`: six pairs of calls whose interleavings differ (two services, one of
which the other hears of; a service and a call that turns the network on at the same
time; calls that find the network on or off; a dialer with a proxy given or asked
for), two directories, two uploads of the first service's descriptor. Two
directories and two uploads give one failure before another upload starts, a failure
before a success, and all failures. Deadlock is not checked: calls end.

`FairSpec` is weak fairness for each goroutine as long as no other one may be at an
exchange on the connection (`Alone(c) /\ Step(c)`), for the end of a wait whose
context or connection has ended, because `select` picks any ready case and events end
some time, and for the dial's goroutine, which uses no command. The commands of two
goroutines that share a `Conn` may stall for ever: `conn_request_stall` and
`conn_wait_stall` show it, and `RequestReturns` and `WaitReturns` hold for one caller.
So `CallReturns` promises that a call whose context has ended returns, or the program
has ended, or another goroutine has come to the connection. Another call is at the
connection while it is busy, and, because its `Close` may come at any time, as long as it
has a service. Nothing is assumed of Tor, so a wait without a context may last for ever.
`tor_bootstrap_missed` has the same with a Tor that finishes its bootstrap
(`BootFairSpec`): even so a wait for it may never end.

### What it shows

*Holds*: a service that Tor still has after a failed `Listen` or a `Close` was
reported by an error or never had an ID in the program; the listener `Listen` made is
closed whatever fails; a call that waits returns only a published service, and only
after a bootstrap it asked for; the wait gives up only when every upload it saw has
failed and goes on only while one it saw may succeed, provided that none was under
way as it subscribed (`missed`; otherwise the counts are off, and no property can be
saved); `DialContext` loses a connection only to a context that ended between the
goroutine's check (`dialer.go:97`) and its hand-over; a call that is alone on the
connection returns once its context has ended.

Closing a service after its `Tor` ends the program with a nil dereference. Nothing in
the repository promises otherwise, so no property is about it.

*Does not hold*: `tor_bootstrap_missed`. `EnableNetwork` subscribes after SETCONF has
returned, and a bootstrap that is complete by then is never reported to it.

## The wire: ControlWire

### Correspondence

A text is a sequence of tokens: words, and each character that the code looks at
(space, quote, backslash, line breaks, `=`, `,`, `:`, `%`) by itself.

| module | code |
| --- | --- |
| `Text` | `torutil/string.go`, function by function; `Split` and `Join` of package strings |
| `ControlReply` | `ReadResponse` (`ReadMid`, `ReadDot`, `ReadLast`, `ReadTorn`, `ReadError`, `ReadEOF`), `Response`'s methods, `status.go`; how Tor writes a message |
| `ControlCommands` | each method of `cmd_*.go`: `Command` is the line that it writes, `Result` what it returns; `Refused` is the request that `AddOnion` refuses |
| `EventDecode` | `SplitEvent` is the first half of `relayAsyncEvents`, `ParseEvent` its `switch`, each `Parse…Event` a list of rules for positional words and attributes |
| `ControlWire` | `SendRequest` with one caller, a handler of events when no call is under way, and Tor |
| `ConfStore` | none: what SetConf and GetConf promise |

`ReadData` and `RelayEvent` are the loop of `SendRequest` and of the handler;
`ReturnResponse`, `ReturnError` and `RefuseRequest` a call's ends; `HandlerFails` that
of the handler. `Cut` ends the connection behind any line that was written or within
the next one: `partial` is what has come of that. `ReadLine` returns such a line without
an error (`response.go:58`), so that `ReadTorn` takes a torn last line for a whole one,
and `torn` notes it; a torn line of the data is followed by the end (`ReadEOF`).
`TorSetConf` and `TorGetConf` are Tor's own reading and writing of values, which
quotes when it must or when it likes.

### Abstractions

* The parsers are one operator, `Parse`, applied to each event's rules, because their
  loops are alike; where one differs (CIRC's path, HS_DESC's descriptor ID, STATUS's
  arguments, CELL_STATS's `InboundTime`) the rules say so.
* `Atoi`, the times and the floats accept some tokens and give zero for others. Keys
  are blobs: one of an RSA key is decoded and parsed, one of an ED25519 key is only
  decoded, so that a short one is accepted.
* A line is torn between two tokens, or between the two characters of its line break.
  A word cut in half would be another word, and what is lost is the end of the reply
  in either case.
* Who reads when is `ControlConn`'s subject: here one goroutine calls, and the handler
  starts with an event only, as its `Peek` makes sure of.

### Run

`control_wire` enumerates sessions: every event, with its attributes as they are,
reversed, and with a new one among them; values of up to two special tokens (and
some longer ones) through SETCONF and GETCONF; every command, with every kind of
answer the parsers tell apart, and a request without a key; a malformed line of every
kind at the start, in the middle and at the end of a reply or an event; a connection
that ends behind any line or within one, also in a session of SETCONF and GETCONF.
Tor's answers and events interleave with the reading in every way: 4006 states. Two
tokens suffice for escaping because the escape and unescape loops remember one token.
Deadlock is not checked: a session ends.

*Holds*:

* `Framed`: until a protocol error the responses are the messages Tor wrote, whole and
  in order; only the one that a torn line completes lacks the end of its reply.
* `NoMix`: none ever mixes two messages, not even after an error.
* `Understood`: what is written begins with the keyword by which Tor knows the command,
  and requests that mean different things are written differently. HSPOST with an
  address is excepted, for it has neither.
* `ResultRight`: a result says what Tor said.
* `EventKept`: each field of an event has what Tor said of it (`means`, given by hand for
  each event of the sessions), and every other field is zero. `Lossy` names the fields
  in which the parsers lose something, and these only are excepted.
* `AttributesCommute`: the fields do not depend on the order of the attributes or on
  what is new among them.
* `ConfKept` is the refinement: with `conf` for the store, `SetConf` and `GetConf` behave
  as `ConfStore` says, a map that keeps nil, empty and any other value, for whatever
  values without a `%`. Of the one GetConf whose answer is torn nothing is promised: it
  returns a value without its end, or no value, and no error.

`ResultRight`, `EventKept` and `AttributesCommute` are about what is read before a
protocol error and before a torn line is taken for a whole one (`Intact`).

### Noticed on the way

The model has these as the code has them (but for `RawLines` and `Listen`'s nil
`conf`); the inputs above, or a condition of a property, leave them out because
nothing in the repository promises otherwise or a property of its own would say no
more than the line does:

* a connection that ends within the last line of a reply: the call returns the part of
  the reply that has come as its result, without an error (`response.go:58`; `torn` in
  `Framed` and `ConfKept`);
* every command's text is a format of `Printf`: a `%` in a value is garbled
  (`conn.go:59`; `NoPercent` in `ConfKept`);
* CELL_STATS's `InboundTime` is stored in `OutboundTime` (`cmd_event.go:1063-1064`);
* values with spaces are cut at the space although they are quoted: ADDRMAP's EXPIRES
  and CLIENTS_SEEN's TimeStarted are always zero, STATUS's SUMMARY and WARNING are
  cut; BUILDTIMEOUT_SET skips TOTAL_TIMES (809): `Lossy`
  has the fields;
* CIRC takes an unknown attribute right after the status for the path, and cuts a
  path at its first `=` (446-449);
* a multi-line event with a space on its first line has a garbled code (274);
* HSADDRESS of HSPOST has no space before it (`cmd_hiddenservice.go:19`), so that with
  an address and no server Tor reads no command it knows, and with both takes the address
  for a part of the server; `Understood` excepts it;
* the bodies of LOADCONF, POSTDESCRIPTOR and HSPOST are not dot-stuffed;
* empty lines at the end of a dot-encoded payload are dropped, `RawLines` lacks its
  last line (`response.go:97`); a GETINFO value with a payload starts with a line
  break;
* a lone backslash at the end of a quoted string is dropped (`string.go:111`);
* `Listen` uses `conf` before it could be given a default (`listen.go:95-103`), and
  `Dialer` fails when Tor has several SOCKS listeners.

## ControlAuth

### Correspondence

| model | code |
| --- | --- |
| `protocolInfo`, `Authenticated` | the two fields of `Conn`, read and written without a lock |
| `info`, `cookie`, `nonces`, `proof` | `pi`, `cookie`, the two nonces, `authBytes` of a call |
| `methods`, `challenge`, `accepted`, `connOpen` | Tor: allowed methods, its last AUTHCHALLENGE, the connection |
| `serverHashes`, `proofs`, `overlap`, `fault` | history |

`Authenticate`, `CheckCache`, `sendProtocolInfo`, `StoreInfo` and `ReadCache` are the
flag and the cache, one access per step: `ProtocolInfo` reads the field three times.
`ChooseMethod`, `ReadCookieFile`, `AuthChallenge`, `ClientHash` and `sendAuthenticate`
follow `Authenticate`; `UseNilInfo` is the call of a method on a nil result.

A hash is a term made of its prefix, the cookie and the nonces: two are equal when
these are. The server's nonce is a number that grows, the client's names its call.
PROTOCOLINFO's answer has the methods or, when its AUTH line cannot be read, none
(`ControlCommands!AuthLine`); either is cached for good.

### Run

`control_auth`: two goroutines, two calls each, a right and a stale cookie, every set
of methods, a right, a wrong or no password. With two goroutines one can change
the cache, Tor's challenge or the connection between any two steps of the other; a
second call meets what the first has left. Deadlock is not checked: calls end.

*Holds*: `CredentialSafe` and `NeverMistaken`, both also when the goroutines race. The
race costs an error to a call that would have succeeded (the other's AUTHCHALLENGE
replaces the nonces), and when the other's PROTOCOLINFO fails, its nil overwrites the
cache between two reads: `ProtocolInfo` returns nil without an error and
`HasAuthMethod` panics. `NeverMistaken` states that only a concurrent call can do so.

## Proofs

The proofs assume of the constants what the modules' ASSUMEs say:
`ProcAssumption` (callers and waits differ, nobody is neither),
`CodeAssumption` (which sets of codes contain which) and `BoundAssumption` for
`ControlConn`; `ConfAssumption` and `LimitAssumption` for `TorLifecycle`;
`ConfAssumption` and `BoundAssumption` for `TorNetwork`; `CookieAssumption` and
`BoundAssumption` for `ControlAuth`; `SessionAssumption` and `ConfAssumption` for
`ControlWire`. Three theorems about events and one about results add hypotheses of their own,
given below. Any number of callers, waits, codes, commands, events, reads, Closes,
calls, directories, uploads, goroutines, cookies, sessions, texts and payload lines is
covered.

`SessionAssumption` says what a session is: any calls, whose answers are messages of
any texts without line breaks and payloads of any lines (the last one not empty, see
*Noticed on the way*), well-formed or malformed in one of five ways, and any events.
SETCONF has one entry and GETCONF one key, of `Keys`, and any value.
`ConfAssumption` says that Tor keeps to the protocol in the sessions with a SETCONF or
GETCONF: after a malformed line the code reads on in the middle of a message, so an
answer may be taken for a later call's, and no map would be kept. Other sessions may
have malformed lines, and `Framed` and `NoMix` are about these too. Every session's
connection may end within a line.

`ControlConnProofs`: `TypeOK` is not inductive alone: that a caller's `on` is an
open channel when it selects, or that the head of a relay is a channel, depends on
who owns what. `Inv` adds

* `CallInv`: a caller in an `EventWait` has a channel of its own, open until the
  call closes it;
* `LockInv`: `readLock` is held exactly by the goroutine between its lock and
  unlock, so one goroutine at most reads;
* `MapInv`: a channel is listed at most once for an event, and only while the
  `EventWait` that made it has yet to remove it;
* `LogInv`: the event messages in `inbox` refer to events that were emitted.

`InvHolds` is its theorem, `TypeCorrect` a consequence.

`ControlConnOrderProofs` has three theorems. `RepliesMatch` (`Spec => []ReplyMatch`): `ReplyInv` has
three parts. The replies in `inbox` carry the consecutive numbers from `respTurn`
on, in that order (`RepliesInv`). While the link is up no write has failed, the
commands in `wire` carry the last numbers handed out, and every earlier one is
answered, in `inbox` or already read (`WireInv`). A caller past `StartResponse`
has the number `respTurn` (`TurnInv`), which is therefore the number of the first
reply in the stream. No number is skipped: a write fails only when the link is
down, the failure is sticky, and Tor answers nothing from then on.

`ClosedSafely` (`Spec => []SafeClose`): an `EventWait`
owns its channel until it removes it from `listeners` (`Owns`). Having removed it,
it is still barred from closing it until it has taken `readLock` for the SETEVENTS
that follows (`Barred`). `SendInv` says that a channel some goroutine still has to
send on is barred in this way, or is in `unbarriered`, the channels whose
`EventWait` returned without taking the lock. The relay holds `readLock` for as
long as it sends, so the call that removes a channel waits for it to end.

`DeliveredInOrder` (`Spec => []InOrderDelivery`):
`InOrderDelivery` is inductive with three more facts. The event messages in `inbox`
are numbered from `seen + 1` on without a gap, and while the link is up up to the last
event Tor emitted (`EventsInv`): the next event read is the next one for every listener.
A goroutine has a channel in line once at most, and only the holder of `readLock` has
any (`RelayInv` with `LockInv`), so that what was taken, what is in the channel and
what is about to be sent, in this order, is all of it (`Delivered`); a send and a
receive move an event within it. A registered channel is in the list of every code it
asked for (`ListInv`), so it is among the targets exactly of the events that match. The
theorem assumes that no `EventWait` asks for `EventCodeUnrecognized` together with an
unrecognized event by name (`Distinct`): `relayAsyncEvents` appends the second list to
the first (`cmd_event.go:292-293`) and would send such an event twice.

`TorLifecycleProofs`: `Inv` is again needed in parts. `Reported` alone does not
survive a second `Close`; it needs that a running Tor is still in `Process` or was
given up with an error (`RunningInv`). `HaltedNotKilled` needs that nothing is
cancelled while the connection is up (`ControlInv`), and that a later `Close` finds
no `Process` (`HaltInv`). `CloseIdempotent` needs that whatever `Close` leaves set
has put an error into `errs` (`CleanInv`). The theorems are `TypeCorrect`,
`OutlivingReported`, `HaltRespected`, `Idempotent` and, for the action property,
`RemovalSafe`.

`TorNetworkProofs`: `Inv` is `TypeOK` with, for each call, `CallInv` and
`EventsTrue`. `CallInv` says what a call at a given place knows: only an onion call
is where onion calls are (`OfKind`); a service in Tor has its ID in the program, or
the ID was lost, or a Close returned an error (`ServiceKnown`, from which `NoOrphan`
follows because `CloseService` leaves no ID, and a `Close` without `Control` does not
return); a listener is closed exactly when the
call made it and ended (`LocalClosed`); a call past its wait that turned the network
on has a complete bootstrap (`NetworkOn`); what `DialContext` has returned is what
its goroutine made (`Dialed`); a returned service was published (`PublishedBy`).
`NetworkReady` and `Published` are true of a step that takes an event from a channel
only if the event is: `EventsTrue` says that a `100` in a channel means that the
bootstrap is complete, and an `UPLOADED` for a service that its descriptor was
accepted. Both facts are stable, which is why an event may be read late. The
theorems are `TypeCorrect`, `NoServiceOrphaned`, `ListenersReleased`,
`PublishedTruly`, `NetworkReadyTruly` and `DialSound`.

Two more theorems there are about uploads, `WaitsForUpload` and `VerdictSoundTruly`.
For a wait that did not
subscribe while an upload was under way, `CountInv` relates the two counters to
`open[c]`, the uploads whose start it has seen and whose end it has not: the uploads it
saw are its failures and those in `open[c]` (`Counted`), so the equality of the two
counters at `listen.go:220` means that `open[c]` is empty. That needs each start to come
when none is under way in its directory, and each end when one is: the events still in
the channel lead step by step from `open[c]` to what Tor is uploading now (`Followed`).
The first event of the channel is then a legal one, and taking it, or Tor's adding one
at the other end, keeps the chain.

`ControlAuthProofs`: `CredentialSafe` speaks of what was sent, the invariant of what
is about to be sent (`ProofInv`): a goroutine at `respond` holds nonces for which Tor's hash of
the same cookie is in `serverHashes`, and the proof of one at `send` is for a method
that it found in what Tor once said, which is `methods` or nothing. `NeverMistaken`
needs more: a goroutine that is alone (`overlap` is false) still has the last
challenge at Tor, finds the cache filled, and has a fault to name if its cookie or
password is wrong (`Undisturbed`); `Authenticated` implies `accepted`. The theorems are
`TypeCorrect`, `CredentialsSafe` and `OutcomeSound`.

`TextProofs`: the helpers of `Text` are recursive functions and folds, so its lemmas
say what each step of them does and get to the whole by a least counterexample
(`LeastNumber`, `Induction` over a set of numbers, which is a set and not an operator).
`RoundTrip` is its theorem: `UnescapeSimpleQuotedString` of
`EscapeSimpleQuotedString(str)` is `str`, for every text. The loop that unescapes is at
the end of what the first `i` tokens were escaped to exactly when it has returned these
`i` tokens and is not escaping (`UnescapeWritten`): an escaped token is read back
within its own part of the text, so nothing carries over to the next. Other lemmas give
the layout of a concatenation, where a text is partitioned (`PartitionFirst`), and that
splitting a line of words without spaces at the spaces gives the words (`SplitJoined`),
also when the line is first cut behind its first word, as `SplitEvent` does (`LineSplit`).

`ControlWireProofs`: `TypeCorrect`, `NoMixing` and `FramesRight`. `TypeOK` with
`Framed` is not inductive: a line says nothing of its message, and a response begun
nothing of the lines it was begun with. `Inv` is `SessionOK` (types, and the line of
the call in progress), `ConfOK` (every stored value is a text) and `WireInv`: there is
a function `pos` from the unread lines to places in their messages (`Placed`). The
unread lines are consecutive lines of consecutive messages, from `pos[1]` of the first
one's message up to the last line sent, or less after the connection has ended. All this
is said of the lines and responses as they would be without the tear: `Seen` makes of
`partial` the line it is the beginning of, and of a response that lacks the end of its
reply the whole one. If the reader is in a message, what it has read of it is the
response begun, with that message's number alone in `from` (`InMessage`): hence `NoMix`.
Unless a protocol error occurred, the responses are the messages before, in order, and
the response begun is what the lines before `pos[1]` mean (`Framing`, `Exact`): hence
`Framed`. After a torn line nothing is read, and the response it completed is the last
one. A write appends a whole message (`Written`); a line, a payload up to its dot or a
last line moves `pos[1]` on by what it took (`DotRead` shows that the payload ends at the
dot Tor wrote and at no earlier line that begins with a dot, because those are stuffed);
an error drops the line and the response, and only `Framing` is lost (`ErrorRead`).

`ControlConfProofs`: `ConfRefines` (`Spec => ConfKept`). Two facts about texts carry
it: reading the line `sendSetConf` writes stores the entry's value, or something else
if there is a `%` in it, because Tor's unescaping undoes bine's escaping and neither a
space, a quote nor a second `=` is misread (`SetConfRead`); and bine decodes either form in
which Tor may answer GETCONF to the value that Tor has (`AnswerDecoded`). `ConfInv` says
which answer a call gets: as long as nobody breaks the protocol, every unread line that
is not of an event is of one message, and that message answers the call in progress,
from the configuration as it still is (`Pending`, `AnswersCall`). That needs `Framed`'s
invariant twice: the response a call takes means the message Tor wrote for it, and once
it is taken no other line of an answer is left (`AnswerTaken`, by `Ascending`). A torn line is the last one (`AnswerTorn`): the call that takes it is excepted once, and later
calls end with the error of `ReadResponse`. It also
needs that nothing is both nil and set (`NilOrSet`), for the decoder tells the two apart
by the `=`. `StoreStep` then maps each action: `SendCommand` to `Ask`, `TorAnswers` to
`TakeEffect`, `ReturnResponse` and `ReturnError` to `Return`, `RefuseRequest` to
`Refuse`, every other one to a stutter.

The same module proves what a session hands to its user.

* `OwnAnswers`: up to a protocol error or a torn line the `n`-th result is what the
  decoder of the `n`-th command makes of Tor's answer to it, or the refusal of a request
  that is not written. This is for any sessions, with no map in
  them: the answer on its way is the answer to the call in progress.
* `ResultsRight` (`Spec => []ResultRight`): `ResultRight` compares a result with what the
  session says it should be (`means`), so the theorem assumes `MeansSaid`: that each
  answer, taken by itself, decodes to it, and that a refused request is said to be. What is proved is that interleaving, framing and
  the order of the calls add nothing to that. Given `OwnAnswers`, the run's check of
  `ResultRight` in a session without protocol errors is a check of `MeansSaid` for every
  call that returned.
* `EventsInOrder`: the `i`-th event handled is what `relayAsyncEvents` makes of the `i`-th
  event emitted. It assumes `RepliesAreNoEvents`: an answer with code 650 would be taken
  for an event (`response.go:50`, `conn.go:70`).
* `AttributesInAnyOrder` (`Spec => []AttributesCommute`): a parser's loop over the
  attributes is a recursive function, of which a first lemma shows that it exists
  (`AttrsReadExists`). Induction over the number of attributes then gives what each field
  is after them (`AttributesSet`): what the one attribute that sets it has, or what it was
  before. Two lines with the same attributes agree on that (`AttrsAgree`). The
  hypothesis `AttributeLines` says that events which differ in attributes only are lines of
  words and attributes without spaces in which no key comes twice, and leaves out the
  cases in which the code does not do as `AttributesCommute` says: CELL_STATS's two times
  share a field, CIRC takes an unknown attribute after the status for the path, and a
  STATUS event keeps every argument, a new one too. That a STATUS event keeps the known
  ones in any order is `StatusCommutes`.
* `CodesKept` (`Spec => []CodeKept`): the `i`-th event handled has the code of the `i`-th
  one emitted, whatever it comes in, a line, a line with a payload or several lines. It
  is that part of `EventKept` that is about codes. It assumes `RepliesAreNoEvents` and
  `EventsReadable`: a payload behind a code alone has no space, which would be taken for
  the one behind the code (`cmd_event.go:274`). The fields of single events are left to
  the run.

`RepliesAreNoEvents`, `EventsReadable` and `AttributeLines` are in `ControlWire`;
`MCControlWire` has TLC check that its sessions satisfy them (`ProtocolAssumption`).

Only model-checked:

* all liveness (`RequestReturns`, `WaitReturns`, `EventArrives`, `CallReturns` of both
  modules, `DialerEnds`), which is out of the prover's reach because of fairness and
  ENABLED;
* `Understood` of `ControlWire`: for arbitrary texts it does not hold (a key with a
  space in it looks like two), and which calls mean the same is said by the sessions of
  `MCControlWire` (`same`), so it is true of these;
* that each answer and each event by itself is decoded into what the session says it
  means (`MeansSaid`, and the fields in `EventKept`), except for GETCONF and for an
  event's code.

## Mutants

Next to an action the modules define mutants of it (`SendOrDrop`,
`StartResponseAtOnce`, `LaunchUnset`, …): the action as a plausible bug would have
it. Replacing the action by its mutant makes the property named in `PROJECT.json`
fail in the same run, which shows that the property depends on that code. Mutants
are used nowhere else.

## Not modelled

* Keys and service identifiers (`torutil/key.go`, `torutil/ed25519`) and the vendored
  curve arithmetic below them: computations on 256-bit numbers without state or
  control flow to speak of; a model would have to compute with small numbers, and
  what could be wrong in them shows only in large ones.
* `torutil/geoipembed`: generated data. The examples and the integration tests: users
  of the library.
* The C side of embedded Tor, and what `os/exec` does besides starting, awaiting and
  killing. `Process` is *partly* modelled for that reason: its operations appear as
  `Start` and `Close` use them.
* `DebugWriter` and logs, `RawLines` and the `Raw` responses, which nothing reads.
* `Accept`, `Addr`, `Network` and `String` of the onion services.
