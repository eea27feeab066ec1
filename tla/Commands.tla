-------------------------------- MODULE Commands --------------------------------
(***************************************************************************)
(* One run of the command line against iwd's objects of one kind, while    *)
(* those change, come to bear other names, go away, and while the bus may  *)
(* be lost.  A command lists the objects, picks one by its path or name,   *)
(* opens it and acts on it, each by an exchange of its own with the bus    *)
(* (src/cmd/spiderw/cli over src, src/internal/core, src/internal/iwdbus): *)
(* what one step has seen need not be so at the next.                      *)
(***************************************************************************)
EXTENDS Cli, Naturals

CONSTANTS
    Object,      \* the paths of the objects
    Run,         \* the commands run: pairs of a kind and a command of it
    Name,        \* what may name an object, of the classes of IwdObjects
    MaxChanges   \* bound: how often the world changes during a command

ASSUME CommandsAssumption ==
    /\ Run \subseteq {<<k, c>> : k \in DOMAIN Command, c \in UNION {DOMAIN Command[l] : l \in DOMAIN Command}}
    /\ \A r \in Run : r[2] \in DOMAIN Command[r[1]]
    /\ Name \subseteq Text /\ MaxChanges \in Nat

\* What is absent is told from an object and from a cause.
ASSUME AbsenceAssumption == None \notin Object /\ None # "no agent"

VARIABLES
    kind, command,  \* what is run
    ref,            \* the argument that names an object: a path, or the name "v1"
    good,           \* the command's other argument is a valid one
    on,             \* the property the command prints, of an overview any one
    names, objects, \* the world: path -> name, path -> values of the properties
    bus,            \* the connection is up
    changes,        \* how often the world has changed
    left,           \* the steps still to take
    listed,         \* path -> name, as of the listing
    path, todo,     \* the object worked on; those of an overview still to come
    found,          \* what was read last: a function of properties
    entries,        \* of an overview, path -> value of "on"
    lines,          \* the values printed, with the change each is as of
    calls,          \* the handler calls of the stream that have yet to print theirs
    result,         \* "running", "ok", "cli" (an error of the command line), or
                    \* the kind of the public error the command ends with
    agent,          \* the command has a credentials agent registered
    sent,           \* the object a method or a set was sent to
    applying,       \* a set that iwd has accepted and not yet applied
    cause,          \* history: why the command failed
    held,           \* history: path -> the values "on" has had, for a reader
    meant,          \* history: the sets of objects "ref" has named
    stale           \* history: what was read last has changed since

input == <<kind, command, ref, good, on>>
world == <<names, objects, bus, changes, applying>>
told == <<entries, lines, calls>>
past == <<held, meant>>
vars == <<input, world, left, listed, path, todo, found, told, result, agent, sent,
          cause, past, stale>>

\* What iwd may send for a property.  LastConnectedTime is a date.
Raw(k, p) ==
    LET entry == Handle[k].get[p] IN
    (IF p = "LastConnectedTime" THEN Good ELSE entry.parser.type)
        \cup {"bad"} \cup (IF entry.absent = {} THEN {} ELSE {None})

Steps(k, c) == {Command[k][c][i] : i \in DOMAIN Command[k][c]}

Overview(c) == c \in {"status", "oneStatus"}
Takes(k, c) ==
    c # "clearAffinities" /\ \E s \in Steps(k, c) :
        \/ s.do \in {"parse", "look up"}
        \/ s.do = "register" /\ s.of = "unknown"
        \/ s.do = "call" /\ s.of \in Checked

Prints(k, c) ==
    IF Overview(c) THEN Properties(k)
    ELSE LET ps == {s.of : s \in {t \in Steps(k, c) : t.do = "print"}} \ {None} IN
         IF ps = {} THEN {None} ELSE ps

\* The properties iwd changes during the command: what it prints, or what it
\* decides by.
Varied == IF command = "connect" THEN {"Type", "KnownNetwork"} ELSE {on} \ {None}

View(objs, o) ==
    IF on = None \/ o \notin DOMAIN objs THEN {}
    ELSE LET read == Get(kind, on, objs[o]) IN
         IF read.errors = {} THEN {Seen(read.value)} ELSE {}

Named(ns) == {o \in DOMAIN ns : o = ref \/ TrimSpace(ns[o]) = ref}

Init ==
    /\ \E r \in Run : kind = r[1] /\ command = r[2]
    /\ ref \in IF command \in {"list", "status"} THEN {None} ELSE Object \cup {"v1"}
    /\ good \in IF Takes(kind, command) THEN BOOLEAN ELSE {TRUE}
    /\ on \in Prints(kind, command)
    /\ names \in [Object -> Name \cap Good]
    /\ \E type \in IF command = "connect" THEN Good ELSE {"v1"},
          known \in IF command = "connect" THEN {"v1", None} ELSE {"v1"} :
           objects = [o \in Object |-> [p \in Properties(kind) |->
               CASE p = "Type" -> type [] p = "KnownNetwork" -> known [] OTHER -> "v1"]]
    /\ bus = TRUE /\ changes = 0 /\ applying = {}
    /\ left = Command[kind][command]
    /\ listed = <<>> /\ path = None /\ todo = {} /\ found = <<>>
    /\ entries = <<>> /\ lines = {} /\ calls = {}
    /\ result = "running" /\ agent = FALSE /\ sent = None /\ cause = None
    /\ held = [o \in Object |-> View(objects, o)]
    /\ meant = {Named(names)} /\ stale = FALSE

-----------------------------------------------------------------------------
(* The world.                                                              *)

At(s) == result = "running" /\ left # <<>> /\ Head(left).do = s
Streaming == At("stream")

\* The objects the command may yet look at.
InView(o) ==
    /\ o \in DOMAIN objects
    /\ listed = <<>> \/ (path = None /\ o \in DOMAIN listed) \/ o = path \/ o \in todo

Changes ==
    /\ result = "running" /\ changes < MaxChanges
    /\ changes' = changes + 1
    /\ UNCHANGED <<input, left, listed, path, todo, found, entries, result, agent, sent, cause>>

Line(at, value) == [at |-> at, value |-> Seen(value)]

\* A property gets another value, or none.  The streaming subscription is told,
\* by a handler call of its own.
Becomes(o, p, raw) ==
    /\ objects' = [objects EXCEPT ![o][p] = raw]
    /\ held' = [held EXCEPT ![o] = @ \cup View(objects', o)]
    /\ stale' = (stale \/ (o = path /\ ~Streaming))
    /\ LET heard == IF Streaming /\ bus /\ o = path /\ p = on
                    THEN Subscribed(kind, p, raw) ELSE {} IN
       calls' = calls \cup {Line(changes', v) : v \in heard}
    /\ UNCHANGED lines

Change(o, p, raw) ==
    /\ InView(o) /\ p \in Varied
    /\ raw \in Raw(kind, p) \ {objects[o][p]}
    /\ Changes /\ Becomes(o, p, raw)
    /\ UNCHANGED <<names, bus, applying, meant>>

\* An object is named anew; the name is looked at when the objects are listed.
Rename(o, name) ==
    /\ InView(o) /\ path = None /\ names[o] # name
    /\ Changes
    /\ names' = [names EXCEPT ![o] = name]
    /\ meant' = meant \cup {Named(names')}
    /\ UNCHANGED <<objects, bus, applying, held, stale, lines, calls>>

Without(f, o) == [q \in DOMAIN f \ {o} |-> f[q]]

\* An object goes away, or loses the interface with a change of mode.
Vanish(o) ==
    /\ InView(o) /\ Changes
    /\ objects' = Without(objects, o) /\ names' = Without(names, o)
    /\ meant' = meant \cup {Named(names')}
    /\ applying' = {v \in applying : o # path}
    /\ UNCHANGED <<bus, held, stale, lines, calls>>

BusLost ==
    /\ bus /\ Changes
    /\ bus' = FALSE
    /\ UNCHANGED <<names, objects, applying, past, stale, lines, calls>>

\* iwd applies what it has accepted.
Applied ==
    /\ result = "running"
    /\ \E v \in applying :
           /\ objects' = [objects EXCEPT ![path][on] = v]
           /\ held' = [held EXCEPT ![path] = @ \cup {v}]
    /\ applying' = {}
    /\ UNCHANGED <<input, names, bus, changes, left, listed, path, todo, found, told,
                   result, agent, sent, cause, meant, stale>>

-----------------------------------------------------------------------------
(* The steps.                                                              *)

BadGoes ==
    /\ left' = Tail(left)
    /\ agent' = (agent /\ Tail(left) # <<>>)
    /\ UNCHANGED <<result, cause>>

\* The step was taken.  After the last the deferred calls run: the agent is
\* unregistered and the client closed.
Goes ==
    /\ left' = Tail(left)
    /\ result' = IF Tail(left) = <<>> THEN "ok" ELSE "running"
    /\ agent' = (agent /\ Tail(left) # <<>>)
    /\ UNCHANGED cause

\* The step failed, with one of these errors, and the command with it.
FailsWith(kinds, why) ==
    /\ result' \in kinds
    /\ left' = <<>> /\ agent' = FALSE /\ cause' = why

FailsBy(errors, why) == FailsWith({e.public : e \in errors}, why)

Keep == UNCHANGED <<input, world, past>>
Now == Head(left)

\* Daemon.<Kinds>.
ListObjects ==
    /\ At("list")
    /\ LET refs == Listing(kind, names) IN
       IF ~bus THEN FailsBy({Unlisted}, "lost") /\ UNCHANGED <<listed, todo>>
       ELSE IF refs.errors # {} THEN FailsBy(refs.errors, "value") /\ UNCHANGED <<listed, todo>>
       ELSE Goes /\ listed' = refs.value /\ todo' = DOMAIN refs.value
    /\ Keep /\ UNCHANGED <<path, found, told, sent, stale>>

Matches == {o \in DOMAIN listed : o = ref \/ listed[o] = ref}

BadMatch ==
    /\ At("match")
    /\ IF Matches = {} THEN FailsWith({"cli"}, "argument") /\ UNCHANGED path
       ELSE Goes /\ path' \in Matches
    /\ todo' = {}
    /\ Keep /\ UNCHANGED <<listed, found, told, sent, stale>>

\* <kind>ByRef: no object, or several, of this path or name is an error.
Match ==
    /\ At("match")
    /\ \/ Matches = {} /\ FailsWith({"cli"}, "argument") /\ UNCHANGED path
       \/ \E o \in Matches : Matches = {o} /\ Goes /\ path' = o
       \/ \E o, q \in Matches : o # q /\ FailsWith({"cli"}, "argument") /\ UNCHANGED path
    /\ todo' = {}
    /\ Keep /\ UNCHANGED <<listed, found, told, sent, stale>>

Live == path \in DOMAIN objects

\* Client.<Kind>, and Station.SimpleConfiguration, which a driver may lack.
Open ==
    /\ At("open")
    /\ \/ bus /\ Live /\ Goes
       \/ ~bus /\ FailsBy(Unopened(TRUE), "lost")
       \/ bus /\ ~Live /\ FailsBy(Unopened(FALSE), "gone")
       \/ bus /\ Live /\ Now.of = "wsc" /\ FailsBy(Unopened(FALSE), "no wsc")
    /\ Keep /\ UNCHANGED <<listed, path, todo, found, told, sent, stale>>

BadOpenAll ==
    /\ At("open all")
    /\ IF ~bus THEN FailsBy(Unopened(TRUE), "lost") /\ UNCHANGED todo
       ELSE Goes /\ todo' = todo \cap DOMAIN objects
    /\ Keep /\ UNCHANGED <<listed, path, found, told, sent, stale>>

\* Client.All<Kinds>, after its listing: the first that fails fails all.  That
\* the handles are built one by one is in module Inventory.
OpenAll ==
    /\ At("open all")
    /\ \/ ~bus /\ FailsBy(Unopened(TRUE), "lost")
       \/ bus /\ ~(todo \subseteq DOMAIN objects) /\ FailsBy(Unopened(FALSE), "gone")
       \/ bus /\ todo \subseteq DOMAIN objects /\ Goes
    /\ Keep /\ UNCHANGED <<listed, path, todo, found, told, sent, stale>>

\* The overview's next object, or its end.
Each ==
    /\ At("each")
    /\ IF todo = {} THEN Goes /\ path' = None /\ UNCHANGED todo
       ELSE /\ \E o \in todo : path' = o /\ todo' = todo \ {o}
            /\ left' = Now.of \o left
            /\ UNCHANGED <<result, agent, cause>>
    /\ Keep /\ UNCHANGED <<listed, found, told, sent, stale>>

\* What a read finds of the object: nothing of one that is gone.
Here == IF bus /\ Live THEN objects[path] ELSE None
Absence == IF ~bus THEN "lost" ELSE IF ~Live THEN "gone" ELSE "value"

GetOne ==
    /\ At("get")
    /\ LET read == Get(kind, Now.of, Here) IN
       IF read.errors # {} THEN FailsBy(read.errors, Absence) /\ UNCHANGED <<found, stale>>
       ELSE /\ Goes /\ stale' = FALSE
            /\ found' = [p \in {Now.of} |-> read.value]
    /\ Keep /\ UNCHANGED <<listed, path, todo, told, sent>>

ReadAll ==
    /\ At("all")
    /\ LET read == GetAll(kind, Here) IN
       IF read.errors # {} THEN FailsBy(read.errors, Absence) /\ UNCHANGED <<found, stale>>
       ELSE Goes /\ stale' = FALSE /\ found' = read.value
    /\ Keep /\ UNCHANGED <<listed, path, todo, told, sent>>

\* resolveTree.  What it resolves is for show; an object that is gone by now
\* stays unresolved.
ReadTree ==
    /\ At("tree")
    /\ IF bus THEN Goes ELSE FailsBy(resolveTree.errors, "lost")
    /\ Keep /\ UNCHANGED <<listed, path, todo, found, told, sent, stale>>

ParseArgument ==
    /\ At("parse")
    /\ IF good THEN Goes ELSE FailsWith({"cli"}, "argument")
    /\ Keep /\ UNCHANGED <<listed, path, todo, found, told, sent, stale>>

\* resolveAffinityRefs.  An empty argument is refused before the objects are
\* listed, one that names none of them after.
LookUp ==
    /\ At("look up")
    /\ \/ ~good /\ FailsWith({"cli"}, "argument")
       \/ ~bus /\ FailsBy({Unlisted}, "lost")
       \/ bus /\ good /\ Goes
    /\ Keep /\ UNCHANGED <<listed, path, todo, found, told, sent, stale>>

-----------------------------------------------------------------------------
(* Calls, the agent, and what is printed.                                  *)

BadNeedsAgent == found["Type"] = "v1" /\ found["KnownNetwork"] = None

\* networkNeedsAgent, by what Properties returned: not an open network, nor one
\* that iwd knows.
NeedsAgent == found["Type"] # "v1" /\ found["KnownNetwork"] = None

AgentUnavailable == WrapPublic(WrapUnavailable(FALSE, DBus("method", Plain)))

\* The passphrase is asked for, then the agent registered (in module ClientAgent).
Register ==
    /\ At("register")
    /\ IF Now.of = "unknown" /\ ~NeedsAgent
       THEN Goes
       ELSE \/ ~good /\ Now.of = "unknown" /\ FailsWith({"cli"}, "argument")
            \/ ~bus /\ FailsBy({AgentUnavailable}, "lost")
            \/ bus /\ FailsBy({AgentUnavailable}, "refused")
            \/ /\ bus /\ (good \/ Now.of = "always")
               /\ agent' = TRUE /\ left' = Tail(left) /\ UNCHANGED <<result, cause>>
    /\ Keep /\ UNCHANGED <<listed, path, todo, found, told, sent, stale>>

\* The property a call sets, to "v2".
AssignedBy ==
    [SetPowered |-> "Powered", SetMode |-> "Mode", SetAffinities |-> "Affinities",
     SetAutoConnect |-> "AutoConnect"]
Asked == "v2"

\* iwd cannot connect a secured network that is new to it without an agent.
Wants(object) ==
    Now.of = "Connect" /\ object["Type"] = "v2" /\ object["KnownNetwork"] \in {None, "/"} /\ ~agent

CallFails ==
    /\ At("call")
    /\ \/ /\ ~good /\ Now.of \in Checked
          /\ FailsBy(Refused.errors, "argument") /\ UNCHANGED sent
       \/ /\ ~bus
          /\ FailsBy(Do(kind, Now.of, TRUE, None).errors, "lost") /\ UNCHANGED sent
       \/ /\ bus /\ (good \/ Now.of \notin Checked)
          /\ FailsBy(Do(kind, Now.of, TRUE, None).errors,
                     IF ~Live THEN "gone" ELSE IF Wants(Here) THEN "no agent" ELSE "refused")
          /\ sent' = path
    /\ Keep /\ UNCHANGED <<listed, path, todo, found, told, stale>>

\* iwd does what it is asked; a set of AutoConnect it applies later.
Does(call) ==
    CASE call = "Forget" ->
            /\ objects' = Without(objects, path) /\ names' = Without(names, path)
            /\ meant' = meant \cup {Named(names')}
            /\ UNCHANGED <<applying, held>>
      [] call = "SetAutoConnect" ->
            /\ applying' = {Asked}
            /\ held' = [held EXCEPT ![path] = {Asked}]
            /\ UNCHANGED <<names, objects, meant>>
      [] call \in DOMAIN AssignedBy \ {"SetAutoConnect"} ->
            /\ objects' = [objects EXCEPT ![path][AssignedBy[call]] = Asked]
            /\ held' = [held EXCEPT ![path] = {Asked}]
            /\ UNCHANGED <<names, applying, meant>>
      [] OTHER -> UNCHANGED <<names, objects, applying, past>>

\* The call succeeds, with a reply that the code may not understand.
CallSucceeds ==
    /\ At("call") /\ bus /\ Live /\ ~Wants(Here)
    /\ good \/ Now.of \notin Checked
    /\ \E answer \in Handle[kind].calls[Now.of].replies
                        \cup (IF Handle[kind].calls[Now.of].asks THEN {"bad", "odd"} ELSE {}) :
           LET reply == Do(kind, Now.of, FALSE, answer) IN
           IF reply.errors = {} THEN Goes ELSE FailsBy(reply.errors, "value")
    /\ sent' = path
    /\ Does(Now.of)
    /\ UNCHANGED <<input, bus, changes, listed, path, todo, found, told, stale>>

Echo ==
    /\ At("echo") /\ Goes
    /\ found' = [p \in {Now.of} |-> Asked]
    /\ Keep /\ UNCHANGED <<listed, path, todo, told, sent, stale>>

Enter ==
    /\ At("enter") /\ Goes
    /\ entries' = [o \in DOMAIN entries \cup {path} |->
                      IF o = path THEN Seen(found[on]) ELSE entries[o]]
    /\ Keep /\ UNCHANGED <<listed, path, todo, found, lines, calls, sent, stale>>

\* A value, an overview of one object, or what there is no value of.
PrintLine ==
    /\ At("print") /\ Goes
    /\ lines' = IF on \in DOMAIN found THEN {Line(changes, found[on])} ELSE lines
    /\ Keep /\ UNCHANGED <<listed, path, todo, found, entries, calls, sent, stale>>

Subscribe ==
    /\ At("subscribe")
    /\ IF bus THEN Goes
       ELSE FailsBy(Delegate(Raise(Fails(DBus("method", Plain)))).errors, "lost")
    /\ Keep /\ UNCHANGED <<listed, path, todo, found, told, sent, stale>>

\* The callback of the stream prints.  Each call is a goroutine of its own, which
\* may first ask the bus for the name of what it prints, for show: calls overtake
\* each other.  What one prints after Ctrl-C is left out.
HandlerPrints(call) ==
    /\ Streaming /\ call \in calls
    /\ calls' = calls \ {call}
    /\ lines' = lines \cup {call}
    /\ UNCHANGED <<input, world, left, listed, path, todo, found, entries, result, agent, sent,
                   cause, past, stale>>

\* Ctrl-C is all that ends a monitor: not a lost bus, nor an object that is gone.
Interrupt ==
    /\ Streaming /\ Goes
    /\ Keep /\ UNCHANGED <<listed, path, todo, found, told, sent, stale>>

-----------------------------------------------------------------------------
Work ==
    \/ ListObjects \/ Match \/ Open \/ OpenAll \/ Each
    \/ GetOne \/ ReadAll \/ ReadTree \/ ParseArgument \/ LookUp
    \/ Register \/ CallFails \/ CallSucceeds \/ Echo
    \/ Enter \/ PrintLine \/ Subscribe \/ Interrupt

Ended == result # "running" /\ UNCHANGED vars

Next ==
    \/ \E o \in Object, p \in Varied : \E raw \in Raw(kind, p) : Change(o, p, raw)
    \/ \E o \in Object, name \in Name : Rename(o, name)
    \/ \E o \in Object : Vanish(o)
    \/ BusLost \/ Applied \/ Work \/ (\E call \in calls : HandlerPrints(call)) \/ Ended

Spec == Init /\ [][Next]_vars

-----------------------------------------------------------------------------
(* Properties.                                                             *)

TypeOK ==
    /\ <<kind, command>> \in Run /\ good \in BOOLEAN
    /\ ref \in Object \cup {None, "v1"} /\ on \in Properties(kind) \cup {None}
    /\ DOMAIN objects \subseteq Object /\ DOMAIN names = DOMAIN objects
    /\ \A o \in DOMAIN objects :
           /\ names[o] \in Name
           /\ \A p \in Properties(kind) : objects[o][p] \in Raw(kind, p) \cup {"v1"}
    /\ bus \in BOOLEAN /\ changes \in 0..MaxChanges /\ applying \subseteq {Asked}
    /\ DOMAIN listed \subseteq Object /\ todo \subseteq Object
    /\ path \in Object \cup {None} /\ sent \in Object \cup {None}
    /\ DOMAIN entries \subseteq DOMAIN listed
    /\ \A l \in lines \cup calls : l.at \in 0..changes
    /\ result \in {"running", "ok", "cli"} \cup PublicKind
    /\ result = "running" <=> left # <<>>
    /\ agent \in BOOLEAN /\ stale \in BOOLEAN
    /\ cause # None => result \notin {"running", "ok"}

\* A property means the same whichever way a command goes on to read it: Get
\* and Properties give equal values, and Properties fails only when one of the
\* properties does.
WaysAgree ==
    Live /\ (At("get") \/ At("all")) =>
        LET all == GetAll(kind, objects[path])
            one == [p \in Properties(kind) |-> Get(kind, p, objects[path])] IN
        IF all.errors = {}
        THEN \A p \in Properties(kind) :
                 one[p].errors = {} /\ Seen(one[p].value) = Seen(all.value[p])
        ELSE \E p \in Properties(kind) : one[p].errors # {}

\* Whatever a command prints of an object was so at some moment of the command:
\* of a set, at some moment since iwd accepted it.  An object that is gone is
\* never told for one without the property.
PrintedTrue ==
    /\ path # None => \A l \in lines : l.value \in held[path]
    /\ \A o \in DOMAIN entries : entries[o] \in held[o]

\* docs/cli.md has a monitor "stream each change until interrupted".  When no
\* handler call is under way, the line of the newest change printed is what the
\* property is: none since is missing, in whatever order the calls printed.  It need
\* not be the last line, as calls overtake each other.  Exempt are a change between
\* the read that seeds the monitor and its subscription, and the invalidated
\* Scanning of an access point that stops, which that subscription does not tell.
Newest(ls) == {l \in ls : \A m \in ls : m.at <= l.at}
MonitorKeepsUp ==
    Streaming /\ bus /\ ~stale /\ <<kind, on>> # <<"AccessPoint", "Scanning">> /\ calls = {} =>
        \E l \in Newest(lines) : View(objects, path) \in {{}, {l.value}}

\* What is asked of iwd is asked of an object that was, at some moment of the
\* command, the only one of the path or name given.
ActedOnNamed == sent # None => {sent} \in meant

\* An overview that ends well has an entry for every object of the listing.
OverviewComplete ==
    command = "status" /\ result = "ok" => DOMAIN entries = DOMAIN listed

\* A connection fails for want of an agent only if the network's security or
\* its being known changed after the command looked at it.
NoAgentMeansChanged == cause = "no agent" => stale

\* errors.go: "KindUnavailable indicates that the requested resource or
\* subsystem could not be reached or did not expose the expected API."
UnreachableIsUnavailable == cause \in {"lost", "gone"} => result = "unavailable"

\* The same, of each step that does not reach its object, but for two: opening an
\* object that is gone, which New<Kind> refuses by an error of no category, and
\* reading the object tree, whose error does not pass through core.
ReachedStep ==
    cause' # cause /\ cause' \in {"lost", "gone"} =>
        \/ result' = "unavailable"
        \/ cause' = "gone" /\ (At("open") \/ At("open all"))
        \/ cause' = "lost" /\ At("tree")
UnavailableElsewhere == [][ReachedStep]_vars

=============================================================================
