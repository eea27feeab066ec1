-------------------------- MODULE SignalLevelAgent --------------------------
(***************************************************************************)
(* The signal-level monitors of one Client, on every station at once:      *)
(*   src/signalagent.go               Station.MonitorSignalLevel           *)
(*   src/internal/connect/wiring.go   NewSignalLevelAgent                  *)
(*   src/internal/core/signalagent.go Bind and Unregister                  *)
(* with iwd's one-agent-per-station registry, as the repository's mock     *)
(* mirrors it.  Unlike the credentials agent a monitor is guarded by no    *)
(* slot and no lock of the client.                                         *)
(***************************************************************************)
EXTENDS FiniteSets

CONSTANTS
    Caller,   \* application goroutines
    Station,  \* stations, named by their object paths
    Agent,    \* monitors: each call of MonitorSignalLevel makes one
    None

ASSUME MonitorAssumption == None \notin Agent \cup Station

VARIABLES
    pc, work,    \* goroutine -> where it is, and the monitor it works on
    failed,      \* goroutine -> the Unregister it runs will return an error
    at,          \* Agent -> the station it was made for
    registered,  \* monitors whose core.SignalLevelAgent.registered is true
    handles,     \* monitors the application holds
    exported,    \* object path -> the monitor exported there, or None
    iwd,         \* station -> the monitor whose RegisterSignalLevelAgent holds
    calls,       \* stations iwd has sent a Changed for that is not handled yet
    connUp,      \* the D-Bus connection
    heard,       \* history: <<a, st>>: a's Changed callback ran for station st
    settled,     \* history: monitors whose setup failed or teardown ended
    shared,      \* history: stations monitored with another one not settled
    reported     \* history: stations an error was returned for

threadVars == <<pc, work, failed>>
agentVars  == <<at, registered, handles>>
history    == <<heard, settled, shared, reported>>
vars == <<threadVars, agentVars, exported, iwd, calls, connUp, history>>

BadPath(st) == CHOOSE other \in Station : TRUE

\* signalLevelAgentObjectPath: the station path is appended to the prefix.
Path(st) == st

Init ==
    /\ pc = [t \in Caller |-> "idle"] /\ work = [t \in Caller |-> None]
    /\ failed = [t \in Caller |-> FALSE]
    /\ at = [a \in Agent |-> None] /\ registered = {} /\ handles = {}
    /\ exported = [p \in Station |-> None] /\ iwd = [st \in Station |-> None]
    /\ calls = {} /\ connUp = TRUE
    /\ heard = {} /\ settled = {} /\ shared = {} /\ reported = {}

Moves(t, from, to) == pc[t] = from /\ pc' = [pc EXCEPT ![t] = to]
Place(t) == at[work[t]]
MadeFor(st) == {a \in Agent : at[a] = st}

-----------------------------------------------------------------------------
(* MonitorSignalLevel, with Wiring.NewSignalLevelAgent.                    *)

\* A bad configuration or a missing station is refused with no effect before
\* this.  Exporting replaces whatever object stands at the path.
Export(t, a, st) ==
    /\ Moves(t, "idle", "register")
    /\ at[a] = None
    /\ at' = [at EXCEPT ![a] = st]
    /\ work' = [work EXCEPT ![t] = a]
    /\ exported' = [exported EXCEPT ![Path(st)] = a]
    /\ shared' = IF MadeFor(st) \subseteq settled THEN shared ELSE shared \cup {st}
    /\ UNCHANGED <<failed, registered, handles, iwd, calls, connUp, heard, settled, reported>>

\* RegisterSignalLevelAgent succeeds, and Bind.  iwd refuses a second agent on
\* the station (AlreadyExists).
Register(t) ==
    /\ Moves(t, "register", "bind")
    /\ connUp /\ iwd[Place(t)] = None
    /\ iwd' = [iwd EXCEPT ![Place(t)] = work[t]]
    /\ reported' = reported \ {Place(t)}
    /\ UNCHANGED <<work, failed, agentVars, exported, calls, connUp, heard, settled, shared>>

BadBind(t) ==
    /\ Moves(t, "bind", "idle")
    /\ registered' = registered \cup {work[t]}
    /\ work' = [work EXCEPT ![t] = None]
    /\ UNCHANGED <<handles, failed, at, exported, iwd, calls, connUp, history>>

Bind(t) ==
    /\ Moves(t, "bind", "idle")
    /\ registered' = registered \cup {work[t]}
    /\ handles' = handles \cup {work[t]}
    /\ work' = [work EXCEPT ![t] = None]
    /\ UNCHANGED <<failed, at, exported, iwd, calls, connUp, history>>

\* The call fails: refused, the connection gone, or its context over, perhaps
\* with the registration done.
RegisterFails(t) ==
    /\ Moves(t, "register", "undo")
    /\ \/ UNCHANGED iwd
       \/ /\ connUp /\ iwd[Place(t)] = None
          /\ iwd' = [iwd EXCEPT ![Place(t)] = work[t]]
    /\ UNCHANGED <<work, failed, agentVars, exported, calls, connUp, history>>

BadUndo(t) ==
    /\ Moves(t, "undo", "idle")
    /\ work' = [work EXCEPT ![t] = None]
    /\ settled' = settled \cup {work[t]}
    /\ reported' = reported \cup {Place(t)}
    /\ UNCHANGED <<failed, agentVars, exported, iwd, calls, connUp, heard, shared>>

\* "On any failure after export the object is unexported before returning":
\* the object at the path goes, whichever it is.
Undo(t) ==
    /\ Moves(t, "undo", "idle")
    /\ exported' = [exported EXCEPT ![Path(Place(t))] = None]
    /\ work' = [work EXCEPT ![t] = None]
    /\ settled' = settled \cup {work[t]}
    /\ reported' = reported \cup {Place(t)}
    /\ UNCHANGED <<failed, agentVars, iwd, calls, connUp, heard, shared>>

-----------------------------------------------------------------------------
(* SignalLevelAgent.Unregister.                                            *)

BadUnregister(t, a) ==
    /\ a \in handles
    /\ Moves(t, "idle", "call")
    /\ UNCHANGED registered
    /\ work' = [work EXCEPT ![t] = a]
    /\ failed' = [failed EXCEPT ![t] = FALSE]
    /\ UNCHANGED <<at, handles, exported, iwd, calls, connUp, history>>

\* A call that finds the monitor not registered returns nil at once, also when
\* the Unregister that cleared the flag is still under way.
Unregister(t, a) ==
    /\ a \in registered
    /\ Moves(t, "idle", "call")
    /\ registered' = registered \ {a}
    /\ work' = [work EXCEPT ![t] = a]
    /\ failed' = [failed EXCEPT ![t] = FALSE]
    /\ UNCHANGED <<at, handles, exported, iwd, calls, connUp, history>>

\* iwd knows an agent by its path, the same for every monitor of a station.
UnregisterReplies(t) ==
    /\ Moves(t, "call", "unexport")
    /\ connUp /\ iwd[Place(t)] # None
    /\ iwd' = [iwd EXCEPT ![Place(t)] = None]
    /\ UNCHANGED <<work, failed, agentVars, exported, calls, connUp, history>>

BadUnregisterFails(t) ==
    /\ Moves(t, "call", "unexport")
    /\ iwd' \in {iwd, [iwd EXCEPT ![Place(t)] = None]}
    /\ UNCHANGED <<work, failed, agentVars, exported, calls, connUp, history>>

\* NotFound, a context that ended, the connection gone: the teardown goes on.
UnregisterFails(t) ==
    /\ Moves(t, "call", "unexport")
    /\ iwd' \in {iwd, [iwd EXCEPT ![Place(t)] = None]}
    /\ failed' = [failed EXCEPT ![t] = TRUE]
    /\ UNCHANGED <<work, agentVars, exported, calls, connUp, history>>

Unexport(t) ==
    /\ Moves(t, "unexport", "idle")
    /\ exported' = [exported EXCEPT ![Path(Place(t))] = None]
    /\ reported' = IF failed[t] THEN reported \cup {Place(t)} ELSE reported
    /\ settled' = settled \cup {work[t]}
    /\ work' = [work EXCEPT ![t] = None]
    /\ UNCHANGED <<failed, agentVars, iwd, calls, connUp, heard, shared>>

-----------------------------------------------------------------------------
(* iwd, and the connection.                                                *)

\* The signal of the station crosses a threshold: iwd calls Changed on the
\* path it was given, without waiting for a reply.
IwdReports(st) ==
    /\ connUp /\ iwd[st] # None
    /\ calls' = calls \cup {st}
    /\ UNCHANGED <<threadVars, agentVars, exported, iwd, connUp, history>>

\* godbus looks the object up in the goroutine that handles the call.
HandleChanged(st) ==
    /\ st \in calls
    /\ calls' = calls \ {st}
    /\ heard' = IF exported[Path(st)] = None THEN heard
                ELSE heard \cup {<<exported[Path(st)], st>>}
    /\ UNCHANGED <<threadVars, agentVars, exported, iwd, connUp, settled, shared, reported>>

\* The station goes away and iwd calls Release: the monitor stays registered
\* in the client, only the Released callback runs.
IwdReleases(st) ==
    /\ iwd[st] # None
    /\ iwd' = [iwd EXCEPT ![st] = None]
    /\ UNCHANGED <<threadVars, agentVars, exported, calls, connUp, history>>

\* Client.Close, or the bus, ends the connection; iwd forgets its agents.
ConnectionEnds ==
    /\ connUp
    /\ connUp' = FALSE
    /\ iwd' = [st \in Station |-> None]
    /\ UNCHANGED <<threadVars, agentVars, exported, calls, history>>

-----------------------------------------------------------------------------
Monitor(t) ==
    \/ \E a \in Agent, st \in Station : Export(t, a, st)
    \/ Register(t) \/ Bind(t) \/ RegisterFails(t) \/ Undo(t)

Teardown(t) ==
    \/ \E a \in Agent : Unregister(t, a)
    \/ UnregisterReplies(t) \/ UnregisterFails(t) \/ Unexport(t)

Next ==
    \/ \E t \in Caller : Monitor(t) \/ Teardown(t)
    \/ \E st \in Station : IwdReports(st) \/ HandleChanged(st) \/ IwdReleases(st)
    \/ ConnectionEnds

Spec == Init /\ [][Next]_vars

-----------------------------------------------------------------------------
(* Properties.                                                             *)

\* The type invariant; a goroutine has a monitor in hand exactly while it is
\* inside a call.
TypeOK ==
    /\ pc \in [Caller -> {"idle", "register", "bind", "undo", "call", "unexport"}]
    /\ work \in [Caller -> Agent \cup {None}] /\ failed \in [Caller -> BOOLEAN]
    /\ \A t \in Caller : work[t] = None <=> pc[t] = "idle"
    /\ at \in [Agent -> Station \cup {None}]
    /\ registered \subseteq handles /\ handles \subseteq {a \in Agent : at[a] # None}
    /\ exported \in [Station -> Agent \cup {None}]
    /\ iwd \in [Station -> Agent \cup {None}]
    /\ calls \subseteq Station /\ connUp \in BOOLEAN
    /\ heard \subseteq Agent \X Station /\ settled \subseteq Agent
    /\ shared \subseteq Station /\ reported \subseteq Station

\* "Concurrent agents on different stations occupy distinct objects": whatever
\* monitors come and go, a callback hears of its own station only.
OwnStationOnly == \A h \in heard : at[h[1]] = h[2]

\* "MonitorSignalLevel starts monitoring ..., invoking cfg.Changed": from its
\* return to its Unregister a monitor is the object iwd's calls reach, at least
\* while no other call on its station is under way.
Serves(a) == exported[Path(at[a])] = a
MonitorServed ==
    \A a \in registered : (\A t \in Caller : work[t] \notin MadeFor(at[a])) => Serves(a)

\* It is, on a station where the application lets the teardown of one monitor
\* end before it asks for the next: no later or repeated Unregister of an old
\* handle, and no failure, takes the object or iwd's registration away.
AloneServed ==
    \A a \in registered :
        at[a] \notin shared => Serves(a) /\ iwd[at[a]] \in {a, None}

\* Every object on the connection belongs to a monitor that is registered or
\* that a call still works on: no failed or finished call leaves one behind.
NoOrphan ==
    \A p \in Station : exported[p] # None =>
        exported[p] \in registered \/ \E t \in Caller : work[t] = exported[p]

\* iwd keeps a station's only monitor slot for an agent the client has let go
\* only when some call on that station has returned an error since.
LeakReported ==
    \A st \in Station :
        /\ connUp /\ iwd[st] # None
        /\ MadeFor(st) \cap registered = {}
        /\ \A t \in Caller : pc[t] # "idle" => Place(t) # st
        => st \in reported

=============================================================================
