---------------------------- MODULE StationWatch ----------------------------
(***************************************************************************)
(* Two commands that watch a station through typed subscriptions: `station *)
(* scan`, which subscribes to Scanning, starts a scan and waits for it to  *)
(* end, and `station monitor network`, which prints ConnectedNetwork and   *)
(* then its changes (src/cmd/spiderw/cli/station.go).  Each is a process   *)
(* with a connection of its own.  iwd serves other clients too, connects,  *)
(* disconnects, and may be told to turn the device into an access point,   *)
(* which has a Scanning property of its own at the same object path.       *)
(* The signals' way through godbus and the dispatcher is SignalDispatch;   *)
(* here every signal that matches may reach its handler in any order.      *)
(***************************************************************************)
EXTENDS Naturals, Sequences

CONSTANTS
    Network,     \* networks the station may be connected to
    None,
    NullPath,    \* the path "/", which stands for no object
    Malformed,   \* a value that does not parse
    MaxChanges   \* bounds the PropertiesChanged signals of a behavior

ASSUME WatchAssumption ==
    /\ None \notin Network /\ NullPath \notin Network /\ Malformed \notin Network
    /\ Malformed # NullPath /\ None \notin {"command", "other"}
    /\ MaxChanges \in Nat

VARIABLES
    mode,      \* the device's mode
    scanner,   \* who the station is scanning for
    network,   \* iwd's ConnectedNetwork, or None
    changes,   \* the PropertiesChanged signals at the station's path so far
    pc,        \* where each command is
    since,     \* signals sent before the bus had the command's match rule
    handled,   \* the signals each command's handler has run for
    done,      \* the token in the scan command's channel of capacity one
    lines,     \* what the monitor has printed, with the signal it is about
    was,       \* history: ConnectedNetwork after each signal, the first before all
    finished,  \* history: the scan that the command started has ended
    shared     \* history: the station scanned for others during the wait

iwdVars == <<mode, scanner, network, changes, was>>
scanVars == <<done, finished, shared>>
subVars == <<since, handled>>
vars == <<iwdVars, pc, subVars, scanVars, lines>>

Command == {"scan", "monitor"}
Live(c) == pc[c] \notin {"start", "read", "end"}

\* The commands share nothing but iwd, and each other's part in it can be played
\* by other clients: a behavior watches one of them.
Init ==
    /\ mode = "station" /\ scanner = None
    /\ network \in Network \cup {None} /\ was = <<network>>
    /\ changes = <<>>
    /\ \E run \in Command :
           pc = [c \in Command |-> IF c = run THEN "start" ELSE "end"]
    /\ since = [c \in Command |-> 0] /\ handled = [c \in Command |-> {}]
    /\ done = FALSE /\ lines = {}
    /\ finished = FALSE /\ shared = FALSE

-----------------------------------------------------------------------------
(* A typed subscription: what its callback is given for a signal, a set of *)
(* at most one value.                                                      *)

BadAbout(iface, change) == TRUE

\* The handlers of SubscribePropertiesChanged drop the changes of the other
\* interfaces of the object.
About(iface, change) == change.iface = iface

BadParsePath(raw) == IF raw \in Network THEN {raw} ELSE {None}

\* parseStationObjectPath: a path that does not parse is skipped.
ParsePath(raw) == IF raw = NullPath THEN {None} ELSE {raw} \cap Network

Scanning(change) ==
    IF About("Station", change) /\ "Scanning" \in DOMAIN change.changed
    THEN {change.changed["Scanning"]}
    ELSE {}

BadConnectedNetwork(change) ==
    IF ~About("Station", change) THEN {}
    ELSE IF "ConnectedNetwork" \in DOMAIN change.changed
         THEN ParsePath(change.changed["ConnectedNetwork"])
         ELSE {}

\* iwd clears the property by invalidating it.
ConnectedNetwork(change) ==
    IF ~About("Station", change) THEN {}
    ELSE IF "ConnectedNetwork" \in DOMAIN change.changed
         THEN ParsePath(change.changed["ConnectedNetwork"])
         ELSE {None : p \in {"ConnectedNetwork"} \cap change.invalidated}

-----------------------------------------------------------------------------
(* iwd.                                                                    *)

Emit(iface, changed, invalidated) ==
    /\ Len(changes) < MaxChanges
    /\ changes' = Append(changes,
            [iface |-> iface, changed |-> changed, invalidated |-> invalidated])
    /\ was' = Append(was, network')

Property(name, value) == [p \in {name} |-> value]

\* A scan for another client, or one of iwd's own.
OtherScans ==
    /\ mode = "station" /\ scanner = None
    /\ scanner' = "other"
    /\ shared' = Live("scan")
    /\ UNCHANGED <<mode, network, pc, subVars, done, finished, lines>>
    /\ Emit("Station", Property("Scanning", TRUE), {})

ScanEnds ==
    /\ scanner # None
    /\ scanner' = None
    /\ finished' = (finished \/ (scanner = "command"))
    /\ UNCHANGED <<mode, network, pc, subVars, done, shared, lines>>
    /\ Emit("Station", Property("Scanning", FALSE), {})

Connects(n) ==
    /\ mode = "station" /\ network # n
    /\ network' = n
    /\ UNCHANGED <<mode, scanner, pc, subVars, scanVars, lines>>
    /\ Emit("Station", Property("ConnectedNetwork", n), {})

\* iwd invalidates the property, other daemons may send the null path.
Disconnects ==
    /\ mode = "station" /\ network # None
    /\ network' = None
    /\ UNCHANGED <<mode, scanner, pc, subVars, scanVars, lines>>
    /\ \/ Emit("Station", [p \in {} |-> None], {"ConnectedNetwork"})
       \/ Emit("Station", Property("ConnectedNetwork", NullPath), {})

\* A value that does not parse says nothing of the property.
SendsMalformed ==
    /\ mode = "station"
    /\ UNCHANGED <<mode, scanner, network, pc, subVars, scanVars, lines>>
    /\ Emit("Station", Property("ConnectedNetwork", Malformed), {})

\* The station's interface and its properties go without a PropertiesChanged.
BecomesAccessPoint ==
    /\ mode = "station"
    /\ mode' = "ap" /\ scanner' = None
    /\ UNCHANGED <<network, changes, was, pc, subVars, scanVars, lines>>

AccessPointScans(on) ==
    /\ mode = "ap"
    /\ UNCHANGED <<mode, scanner, network, pc, subVars, scanVars, lines>>
    /\ Emit("AccessPoint", Property("Scanning", on), {})

-----------------------------------------------------------------------------
(* The handlers of the subscriptions, each call in a goroutine of its own. *)

Pending(c) == IF Live(c) THEN (since[c] + 1 .. Len(changes)) \ handled[c] ELSE {}

Handled(c, i) ==
    /\ i \in Pending(c)
    /\ handled' = [handled EXCEPT ![c] = @ \cup {i}]
    /\ UNCHANGED <<iwdVars, pc, since, finished, shared>>

\* A channel without room, from which only a command that waits can take.
BadScanHandler(i) ==
    /\ Handled("scan", i)
    /\ done' = (done \/ (pc["scan"] = "waiting" /\ FALSE \in Scanning(changes[i])))
    /\ UNCHANGED lines

\* A send that finds no room is dropped.
ScanHandler(i) ==
    /\ Handled("scan", i)
    /\ done' = (done \/ FALSE \in Scanning(changes[i]))
    /\ UNCHANGED lines

MonitorHandler(i) ==
    /\ Handled("monitor", i)
    /\ lines' = lines \cup
           {[at |-> i, value |-> v] : v \in ConnectedNetwork(changes[i])}
    /\ UNCHANGED done

-----------------------------------------------------------------------------
(* The commands.  One that fails or returns ends, and its process with it; *)
(* what is left of it is reset.                                            *)

Goes(c, from, to) == pc[c] = from /\ pc' = [pc EXCEPT ![c] = to]

Ends(c) ==
    /\ pc' = [pc EXCEPT ![c] = "end"]
    /\ since' = [since EXCEPT ![c] = 0] /\ handled' = [handled EXCEPT ![c] = {}]
    /\ IF c = "scan" THEN done' = FALSE /\ shared' = FALSE /\ UNCHANGED lines
                     ELSE lines' = {} /\ UNCHANGED <<done, shared>>
    /\ UNCHANGED <<iwdVars, finished>>

\* AddMatch: from now on the bus sends the command the station's signals.
Subscribe(c, from, to) ==
    /\ Goes(c, from, to)
    /\ since' = [since EXCEPT ![c] = Len(changes)]
    /\ UNCHANGED handled

ScanSubscribes ==
    /\ Subscribe("scan", "start", "subscribed")
    /\ shared' = (scanner # None)
    /\ UNCHANGED <<iwdVars, done, finished, lines>>

\* iwd accepts one scan at a time.
ScanStarts ==
    /\ Goes("scan", "subscribed", "started")
    /\ mode = "station" /\ scanner = None
    /\ scanner' = "command"
    /\ UNCHANGED <<mode, network, subVars, scanVars, lines>>
    /\ Emit("Station", Property("Scanning", TRUE), {})

\* The line that says the scan has started is printed before the wait.
ScanWaits ==
    /\ Goes("scan", "started", "waiting")
    /\ UNCHANGED <<iwdVars, subVars, scanVars, lines>>

WaitEnds ==
    /\ Goes("scan", "waiting", "list") /\ done
    /\ done' = FALSE
    /\ UNCHANGED <<iwdVars, subVars, finished, shared, lines>>

WaitTimesOut ==
    /\ pc["scan"] = "waiting"
    /\ Ends("scan")

\* The function returns without its deferred Unsubscribe.
BadScanLists ==
    /\ Goes("scan", "list", "end")
    /\ UNCHANGED <<iwdVars, subVars, scanVars, lines>>

\* printStationNetworks: iwd's results as they are now; then Unsubscribe.
ScanLists ==
    /\ pc["scan"] = "list"
    /\ Ends("scan")

MonitorReads ==
    /\ Goes("monitor", "start", "read") /\ mode = "station"
    /\ lines' = {[at |-> Len(changes), value |-> network]}
    /\ UNCHANGED <<iwdVars, subVars, scanVars>>

MonitorSubscribes ==
    /\ Subscribe("monitor", "read", "streaming")
    /\ UNCHANGED <<iwdVars, scanVars, lines>>

\* A call that fails, output that cannot be written, or for the monitor Ctrl-C.
CommandEnds(c) ==
    /\ pc[c] \notin {"waiting", "end"}
    /\ Ends(c)

-----------------------------------------------------------------------------
Iwd ==
    \/ OtherScans \/ ScanEnds \/ (\E n \in Network : Connects(n)) \/ Disconnects
    \/ SendsMalformed \/ BecomesAccessPoint
    \/ \E on \in BOOLEAN : AccessPointScans(on)

Handlers(i) == ScanHandler(i) \/ MonitorHandler(i)

Commands ==
    \/ ScanSubscribes \/ ScanStarts \/ ScanWaits \/ WaitEnds \/ WaitTimesOut \/ ScanLists
    \/ MonitorReads \/ MonitorSubscribes
    \/ \E c \in Command : CommandEnds(c)

Next == Iwd \/ (\E i \in 1 .. MaxChanges : Handlers(i)) \/ Commands

Spec == Init /\ [][Next]_vars

\* Handlers run, and the scan command goes on.  Nothing is assumed of iwd, of
\* the timeout, or of when the commands are begun or end.
Fairness ==
    /\ WF_vars(\E i \in 1 .. MaxChanges : ScanHandler(i))
    /\ WF_vars(\E i \in 1 .. MaxChanges : MonitorHandler(i))
    /\ WF_vars(ScanWaits) /\ WF_vars(WaitEnds)

FairSpec == Spec /\ Fairness

-----------------------------------------------------------------------------
(* Properties.                                                             *)

Prop == {"Scanning", "ConnectedNetwork"}
Value == BOOLEAN \cup Network \cup {NullPath, Malformed}
Change ==
    [iface : {"Station", "AccessPoint"}, changed : UNION {[P -> Value] : P \in SUBSET Prop},
     invalidated : SUBSET Prop]

TypeOK ==
    /\ mode \in {"station", "ap"} /\ scanner \in {None, "command", "other"}
    /\ mode = "ap" => scanner = None
    /\ network \in Network \cup {None}
    /\ changes \in Seq(Change) /\ Len(changes) <= MaxChanges
    /\ was \in Seq(Network \cup {None}) /\ Len(was) = Len(changes) + 1
    /\ pc \in [Command -> {"start", "read", "subscribed", "started", "waiting", "list",
                           "streaming", "end"}]
    /\ since \in [Command -> Nat]
    /\ handled \in [Command -> SUBSET (1 .. MaxChanges)]
    /\ \A c \in Command : ~Live(c) => handled[c] = {}
    /\ done \in BOOLEAN /\ finished \in BOOLEAN /\ shared \in BOOLEAN
    /\ lines \subseteq [at : 0 .. Len(changes), value : Network \cup {None}]

\* `station scan` "waits for completion, then lists results": when it comes to
\* list, the scan it started is over.
WaitOutlastsScan == pc["scan"] = "list" => finished

\* So it is while the station scans for nobody else: neither the other
\* properties and interfaces of the object nor the start of the scan end the
\* wait.
AloneWaitOutlastsScan == ~shared => WaitOutlastsScan

\* "Subscribing before Scan avoids missing the transition": a wait whose scan
\* is over ends, and not by its timeout.
ScanEndSeen == (pc["scan"] = "waiting" /\ finished) ~> pc["scan"] # "waiting"

\* A line of the monitor gives the value the property had right after the
\* change it is printed for, whatever form the change came in and however the
\* handlers overtook each other.
LinesTrue == \A line \in lines : line.value = was[line.at + 1]

\* Every connect and every disconnect after the subscription gets its line,
\* unless the monitor is ended first.
EveryChangePrinted ==
    \A i \in 1 .. MaxChanges :
        (/\ pc["monitor"] = "streaming" /\ i \in since["monitor"] + 1 .. Len(changes)
         /\ was[i] # was[i + 1])
        ~> (pc["monitor"] = "end" \/ \E line \in lines : line.at = i)

=============================================================================
