# spiderw in TLA+

spiderw is a Go library (and a command line tool on top of it) for iwd, the
Linux wireless daemon. It talks to iwd over one D-Bus connection: method calls
and property reads one way, `PropertiesChanged` signals and agent callbacks the
other. This directory holds TLA+ models of the parts of it in which several
goroutines, the bus and iwd meet, of what each layer makes of every property and
call, and of every command of the command line as the exchanges it has with a
world that changes under it; TLC configurations that check them; and TLAPS proofs
of every safety property that those check, for every value of the constants.

1. [The system](#1-the-system): components, state, operations, hard behaviour
2. [Modules](#2-modules): which module models what, and how to read it
3. [Runs](#3-runs): what each check asks, its bounds, what it shows
4. [Fairness](#4-fairness)
5. [Proofs](#5-proofs)
6. [Where code and documents disagree](#6-where-code-and-documents-disagree)
7. [Only model-checked, and not modelled](#7-only-model-checked-and-not-modelled)
8. [Plan](#8-plan)

## 1. The system

The layers, from the bus up: `internal/iwdbus` (one wrapper per iwd interface,
over godbus), `internal/core` (validation, typed values, error kinds),
`internal/connect` (opens the connection, builds core objects from paths), the
public package (`client.go`, one handle type per iwd interface) and
`cmd/spiderw` (the command line). Most wrappers are stateless: a call goes down
as a D-Bus request and its reply comes up as a value or an error. The state is
in few places.

| component | state it keeps | operations | what is hard about it |
|---|---|---|---|
| signal dispatch, `internal/iwdbus/introspect.go` | signal channel, handler tables, WaitGroup, `closing`, two locks, two `sync.Once` | register, unsubscribe, dispatch, run a handler, `Close` | five kinds of goroutine; `wg.Add` against `wg.Wait`; waits of 100 ms that give up; a full channel; a handler resolved before its unsubscribe |
| credentials agent, `agent.go`, `internal/core/agent.go`, `internal/iwdbus/agent.go` | `registered`, `currentCancel`, `clearOnce`; the exported object; iwd's registration | `RegisterAgent`, `Unregister`, requests, `Cancel`, `Release` | three parties must agree who the agent is; every D-Bus call may fail after it took effect; iwd's calls each run in a goroutine of their own |
| client, `client.go`, `clientgeneric.go` | `closed`, `daemon`, `agent`, `closeMu`, the connection | one constructor and one enumeration per kind, `RegisterAgent`, `Close` | readers hold `closeMu` over series of D-Bus calls while objects vanish; `Close` calls out to a callback that takes the same lock |
| signal-level monitor, `signalagent.go`, `internal/core/signalagent.go` | `registered`, the exported object at a path made from the station's | `MonitorSignalLevel`, `Unregister`, `Changed`, `Release` | all monitors of a station share one path; an old handle may be unregistered late or twice |
| wiring, `internal/connect` | none beyond the connection | `New<Kind>`, `NewAgent`, `NewSignalLevelAgent` | export, register and bind are three steps, each of which can fail |
| daemon enumeration, `internal/iwdbus/daemon.go`, `internal/core/daemon.go` | none | `Get<Kind>s` | one snapshot from iwd, used while the world moves on |
| public handles and their core and iwdbus wrappers | a path and a name | properties, methods, `Subscribe...Changed` | typed subscriptions: what reaches the application's callback |
| error translation, `errors.go` in three packages, `iwderrors.go` | none | classify, wrap | a failure must keep its kind over three layers |
| command line, `cmd/spiderw/cli` | flags, output locks, the scan wait's `done` channel | one command per operation; scan wait, monitors | read-then-subscribe, waits with timeouts, signals about somebody else's scan |
| values, logging | none | conversions, log lines | none |
| mock iwd, `tools/test-mocks/iwdmock` | iwd's registries, for the tests | iwd's D-Bus interface | it is the reference used here for iwd's side |

How they interact. A handle is built on an `IntrospectedObject`, which registers
a channel on the shared connection; a `Subscribe` call of any handle ends in
`RegisterSignalHandlerWithUnsubscribe` of that object. `Client.RegisterAgent`
and `Station.MonitorSignalLevel` export an object at a path and tell iwd about
it; iwd calls that path. `Client.Close` unregisters the agent and closes the
connection, under everybody.

What makes each part correct, in short:

- dispatch: no handler starts behind a `Close` that has begun to wait; the
  counter is exact; nothing runs after a `Close` that did not time out; an ended
  registration is never resolved again; `Close` returns even if handlers hang;
  a signal that was received for a live handler gets its call.
- credentials agent: the client's slot, the exported object and iwd's
  registration agree; a call that leaves them apart says so with an error; a
  closed client owns nothing; `Unregister` cancels the request in flight.
- client: an enumeration is complete as of one moment or an error; the
  connection outlives the calls that use it; later calls are refused; `Close`
  comes to its end.
- errors: a failure below ends in its documented public kind, once, and what iwd
  called it can still be told at the top.
- scan wait and property monitor: the wait ends when the scan it started has, and
  then does end; a printed value is the one the property had.
- handles: the three ways to a property (a getter, `Properties`, a subscription)
  are written separately in three layers and must mean the same.
- commands: what is printed was so; what is asked of iwd is asked of the object
  that was named; an overview leaves nothing out; a connection wants for an agent
  only if the network changed.
- signal-level monitor: a callback hears of its own station only; one monitor's end never
  silences another; nothing stays exported without an owner.

`PROJECT.json` lists the hazards by line, with the properties that cover each.

## 2. Modules

### SignalContract and SignalDispatch

`SignalContract` states what an `IntrospectedObject` promises, with no channel,
goroutine or lock: registrations are active, then retired, for good; a signal is
matched once, against the registrations active then; the handler calls found are
admitted while the object is open or dropped otherwise; once it is shut it
settles as *drained* (every admitted call has finished) or *abandoned*. It is
the "Concurrency & Lifecycle Contract" comment of `introspect.go` as a state
machine.

`SignalDispatch` is the code. `chan` is `sigCh` (capacity `Cap`), `overflow` the
goroutines godbus parks when it is full, `handlers` both handler tables (their
four lookup keys amount to the match `Wants`), `ruled` the match rules the bus
holds, `disp`, `cur` and `found` the program counter and locals of
`dispatchLoop`, `running` the handler goroutines, `wg` the counter, `closePC`
where each caller of `Close` is. Critical sections that block on nothing are
single steps. `Close` holds `handlerMu` while it waits, so that lock is a
variable.

| code | actions |
|---|---|
| godbus delivery | `Emit`, `LateDeliver`, `Terminate` |
| `RegisterSignalHandlerWithUnsubscribe` | `BeginRegister` (starts the dispatcher), `Store`, `AddMatchOK` or `AddMatchFails`, `Unsubscribe` |
| `dispatchLoop` | `Quit`, `Take`, `Resolve`, `Admit`, `Spawn` |
| handler goroutine | `Finish` (a return or a recovered panic) |
| `Close` | `CallClose`, `FollowerReturns`, `Cancel`, `RemoveSignal`, `WaitDispatcher`, `Lock`, `HandlersDone` or `HandlersTimeout`, `CloseReturns` |
| the builder's context ends | `CallerCancels` |

A timeout is a step that may happen at any time while the wait lasts: the model
has no clock, so it covers every relation of 100 ms to the rest. Handlers may
never return. `Contract` at the end of the module instantiates `SignalContract`
with the refinement mapping: a registration is active while its handler is
stored, the offer is `found` before it is admitted, what is owed is `running`
plus what is yet to be spawned, and the status follows `closing`, `abandoned`
and the end of the wait.

### ClientAgent

One client's credentials agent with `closeMu`, `RegisterAgent`, `Unregister` and
`Close`. A goroutine's call is a path through `pc`: `RegisterLocks` (checks,
lock, export), `ManagerFound`, `RegisterReplies` or `RegisterFails`, then `Bind`
or `Undo`; and `Unregister` (the critical section), `Abort` (the cancel func it
copied), `UnregisterReplies` or `UnregisterFails`, `Unexport`, `Clear`.
`CloseTakes` enters the same path from `Client.Close`. A failing D-Bus call may
have taken effect at iwd or not: both are outcomes. iwd asks one thing at a time
(`pending`), but its calls and its `Cancel` are each handled by a goroutine of
godbus, so `Dispatch` (the lookup of the object at the path), `BeginRequest`,
`EndRequest` and `HandleCancel` interleave freely. `reported`, `overlap`,
`crowded`, `toAbort` and `revoked` (the unanswered requests whose `Cancel` was
handled) are history variables: the properties read them, no action is guarded by
them.

### SignalLevelAgent

Monitors on several stations. `Path` is the object path made from a station's
path, the same for each monitor of that station. `exported` maps paths to the
object there, `iwd` maps stations to the agent iwd has for them, `calls` are
`Changed` calls under way. The actions follow `Station.MonitorSignalLevel` and
`SignalLevelAgent.Unregister` statement by statement as above.

### Inventory

Enumerations and lookups of a client against a changing world and `Close`.
`world` maps each path to the set of interfaces of the object there. All seven
enumerations of `client.go` have one body, so have the lookups (through
`clientObject`); the kind is a parameter. `Enter` is `RLock` and the checks,
`List` the one `GetManagedObjects` call, `Build` one `New<Kind>` with its
introspection and its signal channel, `BuildMissing` the case in which the
object answers without the interface, `NameDone` the second listing that
`Client.Station` and `Client.AccessPoint` make after the lock is released.
`closeMu` is Go's reader-writer lock: once `Close` waits, new readers wait too.
`views`, `passed` and `late` are history variables.

### Errors

What happens to an error on its way up, as operators; there is no state. An
error is a record of what `errors.Is` and `errors.As` can find out about it: the
D-Bus name it carries, the sentinels in its chain, the kind of its outermost
core error and its public kind. `DBus` and `WrapIwd` are the wrappers of the
D-Bus layer, `WrapUnavailable` the classification in core with its two policies,
`WrapPublic` the translation at the public surface. `Inventory` computes with
them how a failed call ends; `iwd`'s table of named errors is the constant
`IwdName`.

### StationWatch

`station scan` and `station monitor network` of the command line, with the typed
subscriptions they use, at all three layers. `About`, `ParsePath`, `Scanning` and
`ConnectedNetwork` are what a subscription makes of one `PropertiesChanged`: the
set of values its callback is given, empty or of one. `changes` are the signals
iwd has sent at the station's path, `since` where a command's subscription
begins, `handled` the ones its handler has run for, in any order. `done` is the
channel of capacity one that `runStationScan` waits on, `lines` what the monitor
has printed.

| code | actions |
|---|---|
| iwd's station and the change of mode | `OtherScans`, `ScanEnds`, `Connects`, `Disconnects`, `SendsMalformed`, `BecomesAccessPoint`, `AccessPointScans` |
| the callbacks | `ScanHandler`, `MonitorHandler` |
| `runStationScan` | `ScanSubscribes`, `ScanStarts`, `ScanWaits`, `WaitEnds` or `WaitTimesOut`, `ScanLists` |
| `streamStationProperty`, `monitorStation` | `MonitorReads`, `MonitorSubscribes` |
| an early return of either, Ctrl-C | `CommandEnds` |

A behavior watches one command; `scanner` says who iwd scans for, so another
client, or the other command in a process of its own, is the value "other".
`was`, `finished` and `shared` are history variables.

### IwdObjects and Handles

The tables between iwd and the application: per kind of object and way to a
property what each layer does with a value. `IwdObjects` is the D-Bus layer:
which values a parser takes (`Parser`: a type, and which values of it are none),
whether a missing property is an error or has a default (`Required`, `Optional`,
`Default`), for the getters (`StationGet`), `GetProperties` and the typed
subscriptions (`StationSignals`), and the calls with their replies. `Handles` adds
core (`CoreStation`, `CoreStationProperties`, `CoreStationSubscriptions`) and the
public package (`Station`, ...), and composes them: `Get`, `GetAll`, `Subscribed`
and `Do` are what an application is given, with the error computed by `Errors`.
`Listing` and `Unopened` are a listing of the daemon and the opening of a handle.

A value is the class of those the code treats alike: two good ones, a padded
text, a text of blanks, an empty text, the path `/`, an empty list, a list with a
type that is unknown, a value of the wrong type, and no value. Each table is
written from its own function, so a difference between two of them is one in
the code. `refs` are functions from a path to a name, as only the
name is looked at.

### Cli and Commands

`Cli` has each command as a sequence of steps (`list`, `match`, `open`, `get`,
`all`, `call`, ...), at most one exchange with the bus each, in the order of the
code. `Commands` runs one: `left` are the steps to come and each step is an action
(`ListObjects`, `Match`, `Open`, `OpenAll`, `Each`, `GetOne`, `ReadAll`,
`ReadTree`, `ParseArgument`, `LookUp`, `Register`, `CallFails`, `CallSucceeds`,
`Echo`, `Enter`, `PrintLine`, `Subscribe`, `Interrupt`), whose outcome `Handles`
computes. A monitor that streams is told of a change by a handler call of its own
(`calls`), which may print at any later time and in any order (`HandlerPrints`), as
each is a goroutine that may first ask the bus for a name to show; `lines` are the
values printed, each with the change it is as of. `Programs` states what all commands have in common as sequences
of steps, such as that nothing is read before a set. Between any two the world
may move: a property gets another value, or none (`Change`), an object gets another name or goes away (`Rename`, `Vanish`), the
bus is lost (`BusLost`), and iwd applies what it has accepted (`Applied`). A failed
step ends the command with that error. `cause`, `held`, `meant` and `stale` are
history variables: why a command failed, which values a property has had, which
objects the argument has named, and whether what was read has changed.

### Where a definition named `Bad...` comes from

Next to an action there may be one named `Bad<Action>`: the action with a
plausible mistake (a forgotten guard, a flag not reset, an unlock left out). No
specification uses it. `PROJECT.json` pairs each with the property that fails
when it takes the action's place, which shows that the property can fail.

## 3. Runs

| configuration | module | what it asks | instance |
|---|---|---|---|
| `MCSignalDispatch.cfg` | MCSignalDispatch | `TypeOK`, `WaitGroupExact`, `QuietAfterClose`, `NoAdmissionOnceClosing`, `EndedStaysQuiet`, and the refinement `ImplementsContract` | 2 registrations (one exact, one wildcard), 3 signals, capacity 1, 2 callers of `Close` |
| `MCSignalDispatchLive.cfg` | MCSignalDispatch | `EveryCloseReturns`, `EverySignalHandled`, under fairness | 2 registrations (one refused), 3 signals, 2 callers of `Close` |
| `MCSignalDispatchOwn.cfg` | MCSignalDispatch | `OwnObjectOnly`: violated, see section 6 | 2 registrations, 2 signals |
| `MCClientAgent.cfg` | MCClientAgent | `TypeOK`, `ClosedOwnsNothing`, `RegisteredIsServed`, `NoSilentLeak`, `SlotReleased`, `SerialAborts`, `NoOrphan`, and `CloseCompletes` under fairness | 2 goroutines, 2 agents, 1 request, `Close` |
| `MCClientAgentServed.cfg` | MCClientAgent | `AlwaysServed`: violated | 2 goroutines, 2 agents, 1 request |
| `MCClientAgentAborts.cfg` | MCClientAgent | `AbortedIsTold`: violated | 2 goroutines, 2 agents, 2 requests |
| `MCSignalLevelAgent.cfg` | MCSignalLevelAgent | `TypeOK`, `OwnStationOnly`, `AloneServed`, `NoOrphan`, `LeakReported` | 2 goroutines, 2 stations, 3 monitors |
| `MCSignalLevelAgentServed.cfg` | MCSignalLevelAgent | `MonitorServed`: violated | 1 goroutine, 1 station, 2 monitors |
| `MCInventory.cfg` | MCInventory | `TypeOK`, `EnumerationIsSnapshot`, `ConnOutlivesCalls`, `ClosedIsInvalid`, `ChannelsAccounted`, `CloseReturns` | 2 goroutines, 2 paths, 2 kinds of interface, of which a device loses one with its mode |
| `MCStationWatch.cfg` | MCStationWatch | `TypeOK`, `AloneWaitOutlastsScan`, `LinesTrue`, `ScanEndSeen`, `EveryChangePrinted` | 1 network, 4 signals |
| `MCCommands.cfg` | MCCommands | `TypeOK`, `WaysAgree`, `PrintedTrue`, `MonitorKeepsUp`, `ActedOnNamed`, `OverviewComplete`, `NoAgentMeansChanged`, `UnavailableElsewhere` | every command of the seven kinds, 2 objects, 4 classes of name, 2 changes of the world |
| `MCCommandsUnreachable.cfg` | MCCommands | `UnreachableIsUnavailable`: violated | the same with 1 change |

Why the bounds are enough for the cases that matter:

- *Dispatch.* Capacity 1 and three signals fill the channel while the dispatcher
  holds a signal and one more is parked, which is every kind of place a signal
  can be in. An exact and a wildcard registration give a signal with two
  handlers, so an admission of two, a half-spawned batch, and one unsubscribed
  between resolve and spawn. Two callers of `Close` give the one that runs the
  body and one that waits on the `Once`. The proofs remove the bounds.
- *Agents.* A second agent is what can collide with the first at the shared
  path, and a second goroutine what can overlap an `Unregister`. A second
  request, which can overwrite `currentCancel`, is in the run of `AbortedIsTold`; the
  proofs of the safety properties are for any number. The third monitor lets an old
  handle meet a new monitor on its own station while another runs elsewhere.
- *Inventory.* Two paths make a listing that is overtaken half-way. `MaxLinks`
  only bounds how many calls follow each other: no call begins once so many
  channels are open, calls under way may exceed it.
- *Scan wait and monitor.* To end a wait wrongly takes three signals, another
  scan's begin and end and the begin of the command's own; the fourth is the end of
  that. One network makes a property with two values, so a connect and a disconnect
  that overtake each other. The proofs remove both bounds.

- *Commands.* Two objects make an ambiguous argument, an object that takes over
  another's name, and an overview with one of its objects gone half-way. Two
  changes make a value that changes and changes back, a renaming followed by
  the loss of the object, or one change on either side of a read. `MaxChanges` is the
  only bound on the behaviours; the commands themselves end. The two objects and
  the initial values of the properties are alike, which the symmetry uses.

Deadlock checking is off in the runs about goroutines: signals, agents and
requests are finite sets, and a system in which all are used up and all calls
have returned stops. The progress claims are the liveness properties. In the two
runs of `Commands` it is on: a command can always take a step until it has ended
(`Ended`), so each step has an outcome whatever the world is like by then.

What each property says is in the comment above it in its module.

## 4. Fairness

- `SignalDispatch`: the dispatcher, the godbus goroutine that holds a parked
  signal, and a `Close` that has been called. They are goroutines that the Go
  scheduler runs whenever they can; the waits in `Close` end by their timeouts.
  Nothing is assumed of the bus, of callers, or of handlers, which may hang.
- `ClientAgent`: a call that was begun goes on. This rests on the bus: godbus
  completes a call when a reply or an error comes or when the connection ends.
  `Close` uses `context.Background()`, so a bus that stays silent for ever is
  outside the claim. Nothing is assumed of iwd's requests or of callbacks.
- `Inventory`: a call that was begun goes on, for the same reason (the
  introspection takes no context either), and so does `Close` once it has the
  lock. Callers may call for ever, so `CloseReturns` says that the lock's
  preference for a waiting writer is enough.
- `StationWatch`: handlers run, as the dispatcher starts each in a goroutine
  (`EverySignalHandled` of `SignalDispatch`), and the scan command goes from the
  start of its scan to the wait and out of it. Nothing is assumed of iwd, which
  may scan for ever, of the timeout, or of when a command ends.

## 5. Proofs

### The dispatcher

`SignalDispatch_proofs` proves, for every finite set of registrations and
signals, every set of callers of `Close`, every channel capacity above zero and
any patterns:

| theorem | says |
|---|---|
| `TypeCorrect` | `Spec => []TypeOK`; the counter never goes below zero |
| `WaitGroupCorrect` | `Spec => []WaitGroupExact` |
| `CloseQuiesces` | `Spec => []QuietAfterClose` |
| `ClosingIsFinal` | `Spec => NoAdmissionOnceClosing` |
| `EndedIsFinal` | `Spec => EndedStaysQuiet` |
| `DispatchImplementsContract` | `Spec => Contract!Spec` |

The assumptions are those of `DispatchAssumption` in the module: the two sets
are finite (counting needs it), the capacity is positive, and the two marker
values are not members of the sets they mark.

The argument. None of the invariants is inductive by itself. `Finish` takes one
from `wg`, so `TypeOK` needs `WaitGroupExact`; `Spawn` adds a call to `running`,
so `WaitGroupExact` needs that the call was not there yet; and that holds since
a signal is resolved once, for it is in one place at a time. `IInv` is the
conjunction that closes this chain:

- `CurShape`: which locals of `dispatchLoop` are set at which point of it;
- `SignalsOnce`: a signal is unsent, parked, in the channel, in the dispatcher's
  hand or resolved, and the channel has no duplicates;
- `CallsOnce`: calls belong to resolved signals, and none arises twice;
- `HandlersLive`: a stored handler belongs to a registration that is not over;
- `CloseShape`: at most one caller is inside the body of the `Once`, who holds
  `handlerMu`, and when `closing` is set;
- and `TypeOK`, `WaitGroupExact` and `QuietAfterClose` themselves.

Each conjunct has a lemma of its own that says a step preserves it (`CurStep`,
`SignalsStep`, `CallsStep`, `HandlersStep`, `CloseStep`, `CountStep`, `TypeStep`,
`QuietStep`), with a step for each action that can disturb it. The two action properties and the refinement follow from
`IInv` with one case per action; the refinement maps `Store` to `Subscribe`,
`AddMatchFails` and `Unsubscribe` to `Retire`, `Resolve` to `Offer`, `Admit` to
`Admit` or `Drop`, `Finish` to `Give`, `Lock` to `Shut`, `HandlersDone` and
`HandlersTimeout` to `Settle`, and every other action to a stutter.

### Errors

`Errors_proofs` is about every error, whatever names iwd uses:

| theorem | says |
|---|---|
| `WrapPublicOnce` | `wrapPublicError` gives every error a public kind and leaves its own result alone, so entry points may wrap what others have wrapped |
| `CategorizedIsUnavailable` | a failure that has a D-Bus category ends as *unavailable*, except a property access below a policy that reads no properties |
| `UncategorizedIsInternal` | a failure that was given no category ends as an *internal error* |
| `NamedErrorSurvives` | the sentinel of an error iwd names is found at the public surface, under every category and policy |

They assume that `None` is none of the kinds, and rest on `WrapAdds`: wrapping
adds to what can be asked of an error and takes nothing away.

`UncategorizedIsInternal` is about a real case. `New<Kind>` returns an error
without a category when an object answers but lacks the interface
(`internal/iwdbus/station.go:65` and its siblings), as after a change of mode.
The public kind is then internal; the run of `UnreachableIsUnavailable` shows a
command that ends so (section 6).

### The agents

`ClientAgent_proofs` is about any sets of callers, agents and requests, from
`ClientAssumption` (the closer is not a caller, `None` marks nothing else):

| theorem | says |
|---|---|
| `TypeCorrect` | `Spec => []TypeOK` |
| `ClosedIsEmpty` | `Spec => []ClosedOwnsNothing` |
| `RegisteredServes` | `Spec => []RegisteredIsServed` |
| `LeaksAreReported` | `Spec => []NoSilentLeak` |
| `SlotIsReleased` | `Spec => []SlotReleased` |
| `AbortsSerialRequests` | `Spec => []SerialAborts` |
| `Owned` | `Spec => []NoOrphan` |

The inductive invariant says who may do what. `LockInv`: whoever registers holds
`closeMu`, the client is open and the slot empty. `OwnInv`: an agent being
registered is nobody else's, one being torn down is registered no more and is torn
down by one call; the only registered agent is the one in the slot. `ServedInv`:
unless an `Unregister` returned early under another, an agent keeps the slot until
it is torn down, so nothing takes the shared path from the next one. `OrphanInv`
and `LeakInv` name who will take away the object and account for iwd's
registration. `CancelInv` and `AbortInv` follow the cancel func: as long as one
callback of an agent runs at a time, it is in `currentCancel` or in the hands of
the `Unregister` that copied it.

`SignalLevelAgent_proofs` is about any callers, stations and monitors
(`MonitorAssumption`): `TypeCorrect`, `OwnStation` (`OwnStationOnly`), `Owned`
(`NoOrphan`), `AloneIsServed` (`AloneServed`) and `LeaksAreReported`
(`LeakReported`). `PlaceInv` ties an object to its station, `WorkInv` says that a
call works on a monitor alone, `AloneInv` that a station that is not shared has
one unsettled monitor, which keeps path and registration, and `LeakInv` that a
call which still holds something of iwd's hands it on, asks for it back or
returns an error.

### Enumerations and Close

`Inventory_proofs` is about any callers, finite sets of paths, kinds and shapes
(`InventoryAssumption`): `TypeCorrect`, `Snapshot` (`EnumerationIsSnapshot`),
`ConnectionOutlives` (`ConnOutlivesCalls`), `ClosedRefuses`
(`ClosedIsInvalid`) and `ChannelsBelong` (`ChannelsAccounted`). `SeenInv` says of a call what is only promised of its end:
what it has built together with what it has still to build was the listing at a
moment of the call. `CloseInv` says that nobody holds the lock once `Close`
has it, `LateInv` that a call begun after that gets no further than the check.
The outcomes rest on the theorems about errors, which the module extends.

`ChannelsAccounted` counts, and the set it counts is `Pending`: the pairs of a call
and a path for which it has built a handle that it has not passed on yet. A build
adds one pair and one channel; a call that ends takes its own pairs out of the set
and adds as many to `passed`. `CountInv` adds what this needs: what a call has
built it does not build again, and `Pending` is finite although the callers need
not be.

### The scan wait and the monitor

`StationWatch_proofs` proves, for every set of networks and any number of
signals, from `WatchAssumption` (the marker values are distinct and not
networks):

| theorem | says |
|---|---|
| `TypeCorrect` | `Spec => []TypeOK` |
| `AloneScanOutlasted` | `Spec => []AloneWaitOutlastsScan` |
| `LinesAreTrue` | `Spec => []LinesTrue` |

`AloneWaitOutlastsScan` speaks of the moment of listing; what makes it so comes
earlier. `WaitInv` says of a command that has subscribed, while iwd scans for
nobody else, that every `Scanning = FALSE` since the subscription is about its
own scan, handled or not, and so is the token in `done`. `LinesInv` likewise ties
each signal, not only each line, to the value after it: that is what a handler
relies on, however late it runs. `Sends` lists the signals iwd can send and
`Decoded` what the subscriptions make of each; `Grows` combines them for all
the actions that send, so that `WaitStep` and `LinesStep` treat those as one.

### The ways to a property

`Handles_proofs` is about the tables of `IwdObjects` and `Handles`, for every kind,
property and object:

| theorem | says |
|---|---|
| `ReadsAgree` | a property read alone and in a batch is told alike, and the batch fails exactly if one of the reads does |
| `ToldAsRead` | what a typed subscription tells of a change is what a read would then give; when it tells nothing, that read fails, or the property is the access point's `Scanning` |
| `UnreachableTells` | a read of an object that is gone or out of reach, and a call, subscription, listing or opening that the bus fails, come up as unavailable |

The tables are data, so the argument is in two halves. One looks at each entry of
each table, kind by kind (`Tables`, from `StationTables`, `NetworkTables` and so
on): `SameReads` compares the getter with the batch, `SameSignals` with the
subscription, layer by layer. The other is about any entry that passed the
comparison, whatever the value: what a missing property, a parser, a refusal in
core and one in the public package do to it. `HandlesAssumption` says that `None`
is none of the values and kinds, and no object.

### The commands

`Commands_proofs` is about any objects and names, any set of the commands and any
number of changes of the world:

| theorem | says |
|---|---|
| `TypeCorrect` | `Spec => []TypeOK` |
| `ReadsAlike` | `Spec => []WaysAgree` |
| `PrintsTrue` | `Spec => []PrintedTrue` |
| `KeepsUp` | `Spec => []MonitorKeepsUp` |
| `OverviewEnds` | `Spec => []OverviewComplete` |
| `ConnectsWithAgent` | `Spec => []NoAgentMeansChanged` |
| `ActsOnNamed` | `Spec => []ActedOnNamed` |
| `UnreachableTold` | `Spec => UnavailableElsewhere` |

There are 81 commands and each is a sequence of its own. A proof that went
through all of them would be one about tables; what the properties rest on is the
order of the steps, which the commands share. `Programs` states that order: what may
be left of a command at some moment (`Rests`), and what holds of every such rest
(`FindsFirst`, `AsksRight`, `OverviewOrder`, `ConnectOrder`, `AssignOrder`,
`StreamOrder`). `ProgramsAssumption` and `OrderAssumption` say that the commands of
`Run` have it. They speak of the table `Command`, which has no parameter, so they
are facts and no conditions: TLC evaluates them for every command there is, in both
runs of `Commands`. A command written in another order, say one that prints before
it sets, falsifies them, whether or not a property then fails. `AbsenceAssumption`
says what `None` is not.

`CommandInv` is the invariant. `RestInv` says that what is left is a rest of the
command, so each other part may say "while such a step is still to come" (`Yet`)
and get from the order what the step at hand can be. The parts, by the theorem they
are for:

- `TypeCorrect`: `ObjectsInv`, `ObjectTypes` and `OwnTypes`. An object keeps exactly
  the properties of its kind; what iwd has yet to apply is what was asked for, and
  only of the one command for which it applies late.
- `OverviewEnds`: `OverviewInv`. What was listed is what has an entry, what is still
  to come and the object at hand; an object leaves `todo` only for `path`, and `path`
  only for an entry. `EarlyInv` begins it: nothing before the listing.
- `ConnectsWithAgent`: `KnowsNetwork` and `HasAgent`. From the read to the call the
  connection knows the network's type and whether it is known, unless that has
  changed since; after the step that may register it has an agent or has seen that
  it needs none. What iwd then decides by its own values cannot differ, by
  `NetworkIsTold`: the layers hand on the type as it is, and an absent known
  network as none.
- `PrintsTrue`: `HeldInv` says that `held`, the values a property has had since the
  beginning or the last set, contains what a reader would be told now. `FoundInv` takes
  this over to what was read, `LineTrue` and `EntriesTrue` to what was printed. A set
  begins `held` anew, so `AssignInv` says that nothing was read or printed before it;
  a monitor's line is true by `ToldAsRead`.
- `KeepsUp`: `StreamInv`. From the read to the stream, what was read and then printed is
  what the property is, unless it changed (`stale`). While streaming, it is about
  `Heard`, the lines printed together with those that handler calls have yet to print:
  the newest of them is what the property is (`NewestIsSo`), as each change is told as
  a read would tell it, by `ToldAsRead` again, and is newer than all before
  (`ChangeTells`). A handler call that prints leaves `Heard` as it is
  (`PrintingKeepsTold`), so the order in which they do does not matter; once none is
  under way, `Heard` is what was printed.
- `ReadsAlike` is `ReadsAgree`, with `ObjectsInv` for its hypothesis.
- `UnreachableTold` goes through the steps (`WorkReaches`) with `UnreachableTells`
  for what each fails with; the order gives that what is read or called is a
  property or a call of the kind.

The steps are met in two forms. `WorkMoves` says what every step of the command
does to `left`, `result` and `agent`: it proceeds, begins on the next object of an
overview, or stops. `WorldFrame` and `WorldObjects` say what the world can do. Each
part of the invariant then has a lemma for the steps of the command and, named
`...Apart`, one for the world.

`ActsOnNamed` has an invariant of its own, as it follows not values but a name,
from the listing to the call: `MatchInv` says that the listed objects with the path
or name given are a set it has named, `PathInv` that in a command that calls, the
object picked was the only one of such a set, and `LeftInv` that the steps to come
are the command's own. Of the commands it needs that one that goes through all
objects calls none of them (`ProgramsAssumption`), as that loop puts each in turn in
`path` without asking for its name.

## 6. Where code and documents disagree

Five runs end in a counterexample; each is a statement of the repository that
the code does not keep. `PROJECT.json` quotes the lines.

- `OwnObjectOnly`: a typed subscription on one object also runs for a
  `PropertiesChanged` of another object of that kind. `resolveHandlers` does not
  look at the signal's path, and a match rule added for one object feeds every
  channel on the connection.
- `AlwaysServed`: a second `Unregister` that overlaps the first returns early
  and frees the slot; the agent registered next is at the same path and the
  first `Unregister` unexports it. `RegisteredIsServed`, which excludes the
  overlap, holds.
- `AbortedIsTold`: `agent.go:22-24` has a callback's context canceled when its
  request is aborted, "for example by iwd's Cancel or by Agent.Unregister". godbus
  handles each call in a goroutine of its own: a `Cancel` that is handled when the
  object was found for the request but `beginRequest` has not stored a cancel func
  yet finds nothing to cancel, and the callback then runs on a context that nobody
  cancels. There is a second way, which needs two requests: one that iwd canceled
  begins its callback after the next one has and takes its place in `currentCancel`,
  so that `Unregister` ("canceling any in-flight credential request first",
  `internal/core/agent.go:98-99`) misses the request iwd waits for. `SerialAborts`,
  the second half for callbacks of an agent that run one at a time, holds.
- `MonitorServed`: a second `MonitorSignalLevel` on a station exports over the
  first monitor's object, is refused by iwd, and its undo removes the object.
  `AloneServed`, for one monitor at a time on a station, holds.
- `UnreachableIsUnavailable`: a command that fails as its object is gone, or
  the bus, should end with the public kind `unavailable`: `errors.go:24-25` says of
  it "could not be reached or did not expose the expected API". An object that lost
  its interface fails `New<Kind>` with an error of no category, and the object
  tree read by `src/resolve.go` fails with an error that has not been through
  core; either ends as an internal error. No other
  step of a command does so: `UnavailableElsewhere`, checked by `MCCommands.cfg` and
  proved as `UnreachableTold`.

## 7. Only model-checked, and not modelled

Only model-checked: the liveness properties (`EveryCloseReturns`,
`EverySignalHandled`, `CloseCompletes`, `CloseReturns`, `ScanEndSeen`,
`EveryChangePrinted`), since the prover does no liveness under fairness, and the
order of the commands (`ProgramsAssumption`, `OrderAssumption`), which TLC evaluates
on the table and the proofs take from there. Every invariant and every safety
property of a step that a passing run checks is also a theorem.

Abstracted: payloads and passwords, wording of errors, logs, the length of
timeouts (a timeout may fire at any time), the four tables behind `Wants`, the
sorting of listings. `external` entries of the map are godbus and iwd, modelled
as the code uses them; for iwd's agent registries the mock in `tools/test-mocks`
is the reference.

Not modelled, of parts that otherwise are:

- the refusal of a malformed path from iwd in core's `OrderedNetworks`
  (`internal/core/station.go:284`), and the empty path, "no path" like `/` to
  the D-Bus layer (`internal/iwdbus/station.go:645`);
- what a monitor's handler calls print after Ctrl-C;
- `newConn` and what a failed dial leaves behind; `GetInfo` of the daemon;
- the bundles of several properties that `SubscribePropertiesChanged` passes on
  (its typed siblings are modelled);
- the names and references resolved from an object tree: a tree read can fail, and
  what it resolves is for show;
- `access-point scan`, which has the code of `station scan` with another object;
  `station <ref> monitor-signal`, whose agent is `SignalLevelAgent`; the daemon and version
  commands; flags, prompts, output formats;
- logging, tests, scripts and examples.

Where a property stops short of what one might wish:

- `RegisteredIsServed`, `AloneServed` and `SerialAborts` exclude what their violated
  siblings show (section 6); the last excludes two callbacks of one agent at once.
- `AloneWaitOutlastsScan` excludes scans for others: the end of one, handled late,
  makes the scan command list while its own scan runs (`WaitOutlastsScan` states it
  without that). No document promises otherwise.
- `NoAgentMeansChanged` does not exclude a connection that fails for want of an agent:
  a network that iwd forgets while the passphrase is asked for makes one. It says
  that such a change is the only way.
- `MonitorKeepsUp` says that the newest change is among the lines, not that its line
  is the last: handler calls overtake each other, so a monitor's last line can be an
  older value. It exempts a change between the first read and the subscription, which
  is never printed, and the access point's `Scanning`, whose invalidation the
  subscription does not tell.
- `ChannelsAccounted` is about the channels of handles' objects. `NewAgentManager`
  (`internal/connect/wiring.go:469`) and the station that `NewSignalLevelAgent` opens
  (519) have channels too, which are not counted.
- `LinesTrue` says that each line was true at its change, not that the lines come
  in order.
- An object whose name is malformed fails the listing of its kind: the model has
  that, and no property says whether it should.

## 8. Plan

Done: `SignalContract`, `SignalDispatch`, `ClientAgent`, `SignalLevelAgent`,
`Inventory`, `Errors` and `StationWatch`, each with its proofs; `IwdObjects`,
`Handles` with the proof that its ways to a property agree, `Cli`; `Commands` with
proofs of all its properties. What would come next:

1. The agents with outcomes computed by `Errors`: how a half-done registration is
   reported.
2. An abstract exported agent (owner, object, iwd's registration) that
   `ClientAgent` and `SignalLevelAgent` both implement where their properties
   hold.
3. The object tree and the resolver as operators, against a reference definition;
   the bundles of `SubscribePropertiesChanged`.
4. `Client.daemon` as a variable of `Inventory`: `Client.Station` reads it twice
   after the lock is released.
