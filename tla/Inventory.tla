------------------------------ MODULE Inventory ------------------------------
(***************************************************************************)
(* How a Client turns iwd's objects into handles while iwd's objects come  *)
(* and go and Close may be called at any moment:                           *)
(*   src/client.go          All<Kinds>, Station, AccessPoint, Close        *)
(*   src/clientgeneric.go   the single-object lookups                      *)
(*   src/internal/iwdbus/daemon.go    getRefs, one GetManagedObjects call  *)
(*   src/internal/connect/wiring.go   New<Kind>, one introspection each    *)
(* All enumerations have the same body, and so have all lookups: the kind  *)
(* is a parameter.  closeMu is the reader-writer lock of the Go library: a *)
(* writer that waits keeps new readers out.                                *)
(***************************************************************************)
EXTENDS Integers, FiniteSets, Errors

CONSTANTS
    Caller,    \* application goroutines
    Path,      \* object paths, numbered in the order of their strings
    Kind,      \* iwd interfaces with a handle of their own
    Shape,     \* the sets of interfaces an object may have
    Named,     \* kinds that Client.Station and AccessPoint look a name up for
    MaxLinks   \* bound: no call begins while so many signal channels are open

ASSUME InventoryAssumption ==
    /\ Path \subseteq Nat /\ IsFiniteSet(Path)
    /\ Shape \subseteq SUBSET Kind /\ {} \in Shape
    /\ Named \subseteq Kind /\ None \notin Kind \cup PublicKind \cup {"operation failed"}
    /\ MaxLinks \in Nat

VARIABLES
    world,      \* Path -> the interfaces of the object there; {} if there is none
    connUp,     \* the D-Bus connection
    readers,    \* callers that hold closeMu for reading
    closed,     \* Client.closed; Client.daemon is nil from then on
    closePC,    \* where Close is: "idle", "wait", "cleanup" or "closed"
    pc,         \* Caller -> where its call is
    call,       \* Caller -> [kind, all]: which constructor it called
    todo,       \* Caller -> references it has still to build a handle for
    built,      \* Caller -> objects it has built a handle for
    outcome,    \* Caller -> what its last call returned
    links,      \* signal channels registered and not taken back
    passed,     \* history: handles given to the application, or dropped by an
                \* enumeration that failed after building them
    views,      \* history: Caller -> the listings of its kind since it began to enumerate
    late        \* history: callers whose call began on a closed client

callVars  == <<pc, call, todo, built, outcome>>
closeVars == <<connUp, readers, closed, closePC>>
linkVars  == <<links, passed>>
history   == <<views, late>>
vars == <<world, closeVars, callVars, linkVars, history>>

Init ==
    /\ world \in [Path -> Shape]
    /\ connUp = TRUE /\ readers = {} /\ closed = FALSE /\ closePC = "idle"
    /\ pc = [t \in Caller |-> "idle"]
    /\ call = [t \in Caller |-> [kind |-> None, all |-> FALSE]]
    /\ todo = [t \in Caller |-> {}] /\ built = [t \in Caller |-> {}]
    /\ outcome = [t \in Caller |-> "none"]
    /\ links = 0 /\ passed = 0
    /\ views = [t \in Caller |-> {}] /\ late = {}

\* getRefs: the objects of one ObjectManager reply that have the interface.
Listing(w, k) == {p \in Path : k \in w[p]}
Active(t) == pc[t] # "idle"

-----------------------------------------------------------------------------
(* iwd.                                                                    *)

\* A device is plugged in or pulled, changes its mode, a network goes away.
WorldChanges(p, shape) ==
    /\ world[p] # shape
    /\ world' = [world EXCEPT ![p] = shape]
    /\ views' = [t \in Caller |->
                    IF Active(t) /\ call[t].all
                    THEN views[t] \cup {Listing(world', call[t].kind)}
                    ELSE views[t]]
    /\ UNCHANGED <<closeVars, callVars, linkVars, late>>

-----------------------------------------------------------------------------
(* The calls.                                                              *)

Begins(t, k, all, refs) ==
    /\ pc[t] = "idle" /\ links < MaxLinks
    /\ pc' = [pc EXCEPT ![t] = "lock"]
    /\ call' = [call EXCEPT ![t] = [kind |-> k, all |-> all]]
    /\ todo' = [todo EXCEPT ![t] = refs] /\ built' = [built EXCEPT ![t] = {}]
    /\ outcome' = [outcome EXCEPT ![t] = "none"]
    /\ views' = [views EXCEPT ![t] = IF all THEN {Listing(world, k)} ELSE {}]
    /\ late' = IF closed THEN late \cup {t} ELSE late \ {t}
    /\ UNCHANGED <<world, closeVars, linkVars>>

CallAll(t, k) == Begins(t, k, TRUE, {})
CallOne(t, k, p) == Begins(t, k, FALSE, {p})

\* The call returns an error; the deferred RUnlock runs and what an enumeration
\* has built so far is dropped, each handle with its channel.
Fails(t, err) ==
    /\ pc' = [pc EXCEPT ![t] = "idle"]
    /\ outcome' = [outcome EXCEPT ![t] = WrapPublic(err).public]
    /\ readers' = readers \ {t}
    /\ passed' = passed + Cardinality(built[t])
    /\ todo' = [todo EXCEPT ![t] = {}] /\ built' = [built EXCEPT ![t] = {}]
    /\ views' = [views EXCEPT ![t] = {}]
    /\ UNCHANGED <<world, connUp, closed, closePC, call, late>>

BadEnter(t) ==
    /\ pc[t] = "lock" /\ closePC # "wait"
    /\ readers' = readers \cup {t}
    /\ pc' = [pc EXCEPT ![t] = IF call[t].all THEN "list" ELSE "build"]
    /\ UNCHANGED <<world, connUp, closed, closePC, call, todo, built, outcome, linkVars, history>>

\* RLock, then the checks under it.
Enter(t) ==
    /\ pc[t] = "lock" /\ closePC # "wait"
    /\ IF closed THEN Fails(t, NewPublic("invalid state", Plain)) /\ UNCHANGED links
       ELSE /\ readers' = readers \cup {t}
            /\ pc' = [pc EXCEPT ![t] = IF call[t].all THEN "list" ELSE "build"]
            /\ UNCHANGED <<world, connUp, closed, closePC, call, todo, built,
                           outcome, linkVars, history>>

List(t) ==
    /\ pc[t] = "list" /\ connUp
    /\ todo' = [todo EXCEPT ![t] = Listing(world, call[t].kind)]
    /\ pc' = [pc EXCEPT ![t] = "build"]
    /\ UNCHANGED <<world, closeVars, call, built, outcome, linkVars, history>>

BadListFails(t) ==
    /\ pc[t] = "list"
    /\ pc' = [pc EXCEPT ![t] = "idle"]
    /\ outcome' = [outcome EXCEPT ![t] = "unavailable"]
    /\ UNCHANGED <<world, closeVars, call, todo, built, linkVars, history>>

\* No reply, a context that ended, or an object whose required name is missing.
ListFails(t) ==
    /\ pc[t] = "list"
    /\ \E category \in {"introspection", "variant"} :
           Fails(t, WrapUnavailable(FALSE, DBus(category, Plain)))
    /\ UNCHANGED links

\* References come sorted by path and are built in that order.
First(t) == CHOOSE p \in todo[t] : \A q \in todo[t] : p <= q
Building(t) == pc[t] = "build" /\ todo[t] # {}

\* The introspection shows the interface; NewIntrospectedObject has registered
\* a channel for the handle's signals.
Build(t) ==
    /\ Building(t) /\ connUp /\ call[t].kind \in world[First(t)]
    /\ links' = links + 1
    /\ built' = [built EXCEPT ![t] = @ \cup {First(t)}]
    /\ todo' = [todo EXCEPT ![t] = @ \ {First(t)}]
    /\ UNCHANGED <<world, closeVars, pc, call, outcome, passed, history>>

BadBuildMissing(t) ==
    /\ Building(t) /\ connUp
    /\ world[First(t)] # {} /\ call[t].kind \notin world[First(t)]
    /\ links' = links + 1
    /\ Fails(t, WrapUnavailable(TRUE, Plain))

\* The object answers but lacks the interface: its channel is taken back.
\* The error of New<Kind> has none of the D-Bus layer's categories.
BuildMissing(t) ==
    /\ Building(t) /\ connUp
    /\ world[First(t)] # {} /\ call[t].kind \notin world[First(t)]
    /\ Fails(t, WrapUnavailable(TRUE, Plain)) /\ UNCHANGED links

BadBuildFails(t) ==
    /\ Building(t)
    /\ todo' = [todo EXCEPT ![t] = @ \ {First(t)}]
    /\ UNCHANGED <<world, closeVars, pc, call, built, outcome, linkVars, history>>

\* The introspection fails, before a channel is registered.
BuildFails(t) ==
    /\ Building(t)
    /\ Fails(t, WrapUnavailable(TRUE, DBus("introspection", Plain))) /\ UNCHANGED links

\* Everything is built.  Client.Station and Client.AccessPoint go on to look
\* the name up, after the lock is released.
Return(t) ==
    /\ pc[t] = "build" /\ todo[t] = {}
    /\ readers' = readers \ {t}
    /\ IF ~call[t].all /\ call[t].kind \in Named
       THEN pc' = [pc EXCEPT ![t] = "name"] /\ UNCHANGED <<outcome, passed>>
       ELSE /\ pc' = [pc EXCEPT ![t] = "idle"]
            /\ outcome' = [outcome EXCEPT ![t] = "ok"]
            /\ passed' = passed + Cardinality(built[t])
    /\ UNCHANGED <<world, connUp, closed, closePC, call, todo, built, links, history>>

\* resolveStationName: a second listing, by c.daemon as it is by now.  However
\* it ends the handle is returned, perhaps without a name.
NameDone(t) ==
    /\ pc[t] = "name"
    /\ pc' = [pc EXCEPT ![t] = "idle"]
    /\ outcome' = [outcome EXCEPT ![t] = "ok"]
    /\ passed' = passed + Cardinality(built[t])
    /\ UNCHANGED <<world, closeVars, call, todo, built, links, history>>

-----------------------------------------------------------------------------
(* Client.Close.                                                           *)

CallClose ==
    /\ closePC = "idle"
    /\ closePC' = "wait"
    /\ UNCHANGED <<world, connUp, readers, closed, callVars, linkVars, history>>

BadCloseLocks ==
    /\ closePC = "wait"
    /\ closed' = TRUE
    /\ closePC' = "cleanup"
    /\ UNCHANGED <<world, connUp, readers, callVars, linkVars, history>>

\* Lock, the section under it, and Unlock; the agent is in ClientAgent.
CloseLocks ==
    /\ closePC = "wait" /\ readers = {}
    /\ closed' = TRUE
    /\ closePC' = "cleanup"
    /\ UNCHANGED <<world, connUp, readers, callVars, linkVars, history>>

\* Wiring.Cleanup closes the connection; its channels end with it.
Cleanup ==
    /\ closePC = "cleanup"
    /\ connUp' = FALSE
    /\ closePC' = "closed"
    /\ UNCHANGED <<world, readers, closed, callVars, linkVars, history>>

-----------------------------------------------------------------------------
Steps(t) ==
    \/ Enter(t) \/ List(t) \/ ListFails(t)
    \/ Build(t) \/ BuildMissing(t) \/ BuildFails(t) \/ Return(t) \/ NameDone(t)

Next ==
    \/ \E p \in Path, shape \in Shape : WorldChanges(p, shape)
    \/ \E t \in Caller, k \in Kind : CallAll(t, k) \/ \E p \in Path : CallOne(t, k, p)
    \/ \E t \in Caller : Steps(t)
    \/ CallClose \/ CloseLocks \/ Cleanup

Spec == Init /\ [][Next]_vars

\* A call that was begun goes on, since D-Bus answers or fails each of its
\* calls; so does Close.  Callers may go on calling for ever.
Fairness ==
    /\ \A t \in Caller : WF_vars(Steps(t))
    /\ WF_vars(CloseLocks) /\ WF_vars(Cleanup)

FairSpec == Spec /\ Fairness

-----------------------------------------------------------------------------
(* Properties.                                                             *)

TypeOK ==
    /\ world \in [Path -> Shape] /\ connUp \in BOOLEAN
    /\ readers \subseteq Caller
    /\ \A t \in Caller : t \in readers <=> pc[t] \in {"list", "build"}
    /\ closed \in BOOLEAN /\ closePC \in {"idle", "wait", "cleanup", "closed"}
    /\ pc \in [Caller -> {"idle", "lock", "list", "build", "name"}]
    /\ call \in [Caller -> [kind : Kind \cup {None}, all : BOOLEAN]]
    /\ todo \in [Caller -> SUBSET Path] /\ built \in [Caller -> SUBSET Path]
    /\ outcome \in [Caller -> {"none", "ok"} \cup PublicKind]
    /\ links \in Nat /\ passed \in Nat
    /\ views \in [Caller -> SUBSET SUBSET Path] /\ late \subseteq Caller

\* All<Kinds> "mints live handles for every ... iwd currently exposes": what a
\* successful enumeration returns is the complete listing of one moment of the
\* call, although each handle is built at a moment of its own.
EnumerationIsSnapshot ==
    \A t \in Caller : outcome[t] = "ok" /\ call[t].all => built[t] \in views[t]

\* A call that talks to iwd under the lock never finds that this client has
\* closed the connection under its feet.
ConnOutlivesCalls == readers # {} => connUp

\* "After Close, ... Adapter returns an invalid-state error": every call begun
\* once the client is closed returns it, and no other call does unless Close
\* overtook it.
ClosedIsInvalid ==
    \A t \in Caller : pc[t] = "idle" =>
        /\ t \in late => outcome[t] = "invalid state"
        /\ outcome[t] = "invalid state" => closed

\* Handles a call has built and not yet passed on.
Pending == UNION {{t} \X built[t] : t \in {u \in Caller : pc[u] \in {"build", "name"}}}

\* Each signal channel of a handle's object belongs to a handle the application
\* was given, to one a call is still building, or to an enumeration that failed
\* half-way: no failed lookup leaves a channel that nothing will drain.  The
\* channels of NewAgentManager and of the station that NewSignalLevelAgent opens
\* are not of a handle, nor of this module.
ChannelsAccounted == links = passed + Cardinality(Pending)

\* Close ends however many calls are under way and however many follow.
CloseReturns == closePC = "wait" ~> closePC = "closed"

=============================================================================
