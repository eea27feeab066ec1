----------------------------- MODULE Commands_proofs -----------------------------
(***************************************************************************)
(* Theorems about the commands of the command line, for any commands,      *)
(* objects and names, and however often the world changes: what a command  *)
(* asks of iwd, what it prints, what a monitor shows, what an overview     *)
(* covers and when a connection registers the agent.                       *)
(***************************************************************************)
EXTENDS Programs, Handles_proofs, SequenceTheorems, TLAPS

-----------------------------------------------------------------------------
(* The invariant of a run, but for what is asked of iwd.                   *)

\* A step of this kind is still to come.
Yet(step) == step \in Doing(left)

\* What is left is an end of the command, and its arguments are the command's.
RestInv ==
    /\ <<kind, command>> \in Run /\ left \in Rests(kind, command) \cup {<<>>}
    /\ on \in Prints(kind, command)

\* What iwd has of each object, and what it has yet to apply.
ObjectsInv ==
    /\ DOMAIN objects \subseteq Object /\ DOMAIN held = Object
    /\ \A o \in DOMAIN objects : objects[o] \in [Properties(kind) -> Value \cup {None}]
    /\ applying \subseteq {Asked} /\ (applying # {} => command = "setAutoConnect")

\* The objects keep their names, and what iwd may have for each property.
ObjectTypes ==
    /\ DOMAIN names = DOMAIN objects
    /\ \A o \in DOMAIN objects :
           /\ names[o] \in Name
           /\ \A p \in Properties(kind) : objects[o][p] \in Raw(kind, p) \cup {"v1"}

\* What is printed and what handler calls are under way to print.
Heard == lines \cup calls

\* The types of what the command itself keeps.
OwnTypes ==
    /\ good \in BOOLEAN /\ ref \in Object \cup {None, "v1"}
    /\ bus \in BOOLEAN /\ changes \in 0..MaxChanges
    /\ DOMAIN listed \subseteq Object
    /\ path \in Object \cup {None} /\ sent \in Object \cup {None}
    /\ \A l \in Heard : l.at \in 0..changes
    /\ result \in {"running", "ok", "cli"} \cup PublicKind
    /\ result = "running" <=> left # <<>>
    /\ agent \in BOOLEAN /\ stale \in BOOLEAN
    /\ cause # None => result \notin {"running", "ok"}

\* Before the listing there is nothing to go through, before an object is
\* picked nothing of one.
EarlyInv ==
    /\ Yet("list") => listed = <<>> /\ todo = {} /\ entries = <<>>
    /\ Yet("match") => path = None /\ found = <<>> /\ Heard = {}

\* An overview has, or will come to, every object of the listing, and prints
\* nothing before it has been through them.
OverviewInv ==
    /\ todo \subseteq DOMAIN listed /\ DOMAIN entries \subseteq DOMAIN listed
    /\ Yet("enter") => command = "status" /\ path \in DOMAIN listed
    /\ Yet("enter") /\ ~Yet("all") => DOMAIN found = Properties(kind)
    /\ Yet("each") => Heard = {}
    /\ command = "status" /\ ~Yet("list") /\ result \in {"running", "ok"} =>
           /\ DOMAIN listed = DOMAIN entries \cup todo \cup (IF Yet("enter") THEN {path} ELSE {})
           /\ ~Yet("each") => todo = {}

\* What a connection knows of its network.
KnowsNetwork ==
    command = "connect" /\ Yet("call") /\ ~Yet("all") /\ ~stale /\ Live =>
        GetAll(kind, objects[path]).errors = {} /\ found = GetAll(kind, objects[path]).value

\* What a connection has seen to.
HasAgent ==
    command = "connect" /\ Yet("call") /\ ~Yet("register") => agent \/ ~NeedsAgent

\* A set that iwd applies late is of a command that reads nothing.
Telling == {"list", "match", "open", "parse", "call", "echo", "print"}

\* What a property has, a reader could have been told; a set begins anew.
HeldInv ==
    /\ command = "setAutoConnect" => Doing(left) \subseteq Telling
    /\ command # "setAutoConnect" => \A o \in DOMAIN objects : View(objects, o) \subseteq held[o]

\* Nothing is read or printed before a set, and its echo is what was asked for.
AssignInv ==
    /\ Assigning(left) => found = <<>> /\ Heard = {} /\ entries = <<>>
    /\ Yet("echo") /\ ~Yet("call") => path \in Object /\ Asked \in held[path]

\* What was read last was so, unless it is of the object before.
FoundInv ==
    on \in DOMAIN found /\ path # None /\ left # <<>> /\ Head(left).do # "all" =>
        Seen(found[on]) \in held[path]

\* Whatever is printed of the object worked on, and entered of the others.
LineTrue == path # None => \A l \in Heard : l.value \in held[path]
EntriesTrue == \A o \in DOMAIN entries : entries[o] \in held[o]

\* The newest of what is told is what the property is, if a reader can be told it.
NewestIsSo == \E l \in Newest(Heard) : View(objects, path) \in {{}, {l.value}}

\* What a monitor has read is so until it changes, and then what it was told.
StreamInv ==
    Yet("stream") =>
        /\ Yet("print") /\ ~Yet("get") /\ ~Yet("all") => on \in DOMAIN found
        /\ Yet("print") /\ on \in DOMAIN found /\ ~stale =>
               View(objects, path) \subseteq {Seen(found[on])}
        /\ ~Yet("print") /\ ~stale /\ bus /\ <<kind, on>> # <<"AccessPoint", "Scanning">> =>
               NewestIsSo

\* The invariant of every run of a command.
CommandInv ==
    /\ RestInv /\ ObjectsInv /\ ObjectTypes /\ OwnTypes /\ EarlyInv /\ OverviewInv
    /\ KnowsNetwork /\ HasAgent /\ NoAgentMeansChanged
    /\ HeldInv /\ AssignInv /\ FoundInv /\ LineTrue /\ EntriesTrue /\ StreamInv

-----------------------------------------------------------------------------
(* What is left of a command.                                              *)

LEMMA DoingOf ==
    ASSUME NEW S, NEW rest \in Seq(S), rest # <<>>
    PROVE  /\ Doing(rest) = {Head(rest).do} \cup Doing(Tail(rest))
           /\ Assigning(Tail(rest)) => Assigning(rest)
           /\ Head(rest).do = "call" /\ Head(rest).of \in DOMAIN AssignedBy => Assigning(rest)
  <1>1. /\ Len(rest) \in Nat \ {0} /\ DOMAIN rest = 1..Len(rest) /\ Head(rest) = rest[1]
        /\ DOMAIN Tail(rest) = 1..(Len(rest) - 1)
        /\ \A i \in 1..(Len(rest) - 1) : Tail(rest)[i] = rest[i + 1]
    BY HeadTailProperties, LenProperties, EmptySeq
  <1>2. \A i \in DOMAIN rest : i = 1 \/ (i - 1 \in DOMAIN Tail(rest) /\ rest[i] = Tail(rest)[i - 1])
    BY <1>1
  <1>3. \A i \in DOMAIN Tail(rest) : i + 1 \in DOMAIN rest /\ Tail(rest)[i] = rest[i + 1]
    BY <1>1
  <1>4. 1 \in DOMAIN rest
    BY <1>1
  <1>5. Doing(rest) \subseteq {Head(rest).do} \cup Doing(Tail(rest))
    BY <1>1, <1>2 DEF Doing
  <1>6. {Head(rest).do} \cup Doing(Tail(rest)) \subseteq Doing(rest)
    BY <1>1, <1>3, <1>4 DEF Doing
  <1>7. Assigning(Tail(rest)) => Assigning(rest)
    BY <1>3 DEF Assigning
  <1>8. Head(rest).do = "call" /\ Head(rest).of \in DOMAIN AssignedBy => Assigning(rest)
    BY <1>1, <1>4 DEF Assigning
  <1> QED
    BY <1>5, <1>6, <1>7, <1>8

LEMMA NothingLeft ==
    Doing(<<>>) = {} /\ ~Assigning(<<>>)
  BY DEF Doing, Assigning

\* What is left keeps the order.
LEMMA LeftIsOrdered ==
    ASSUME RestInv
    PROVE  /\ kind \in DOMAIN Handle
           /\ Unfolds(kind, command)
           /\ \A rest \in Rests(kind, command) \ {<<>>} :
                  /\ Ordered(kind, command, rest)
                  /\ Doing(rest) = {Head(rest).do} \cup Doing(Tail(rest))
           /\ left # <<>> => /\ Ordered(kind, command, left)
                             /\ Tail(left) \in Rests(kind, command)
                             /\ Doing(left) = {Head(left).do} \cup Doing(Tail(left))
                             /\ Assigning(Tail(left)) => Assigning(left)
                             /\ Head(left).do = "call" /\ Head(left).of \in DOMAIN AssignedBy => Assigning(left)
                             /\ Head(left).do = "each" =>
                                    /\ Head(left).of \o left \in Rests(kind, command) \ {<<>>}
                                    /\ Head(Head(left).of \o left).do = "all"
                                    /\ {"enter", "each"} \subseteq Doing(Head(left).of \o left)
  <1>1. <<kind, command>>[1] = kind /\ <<kind, command>>[2] = command /\ <<kind, command>> \in Run
    BY DEF RestInv
  <1>2. /\ Unfolds(kind, command)
        /\ \A rest \in Rests(kind, command) \ {<<>>} : Ordered(kind, command, rest)
    BY <1>1, OrderAssumption
  <1>3. kind \in DOMAIN Handle
    <2>1. Run \subseteq {<<k, c>> : k \in DOMAIN Command, c \in UNION {DOMAIN Command[l] : l \in DOMAIN Command}}
      BY CommandsAssumption
    <2>2. kind \in DOMAIN Command
      BY <1>1, <2>1
    <2> QED
      BY <2>2 DEF Command, Handle
  <1>4. ASSUME left # <<>>
        PROVE  /\ Tail(left) \in Rests(kind, command) /\ left \in Seq(Within(kind, command))
               /\ Head(left).do = "each" =>
                      /\ Head(left).of \o left \in Rests(kind, command) \ {<<>>}
                      /\ Head(Head(left).of \o left).do = "all"
                      /\ {"enter", "each"} \subseteq Doing(Head(left).of \o left)
    BY <1>2, <1>4 DEF Unfolds, RestInv
  <1>5. \A rest \in Rests(kind, command) \ {<<>>} :
            Doing(rest) = {Head(rest).do} \cup Doing(Tail(rest))
    BY <1>2, DoingOf DEF Unfolds
  <1> QED
    BY <1>2, <1>3, <1>4, <1>5, DoingOf DEF RestInv

-----------------------------------------------------------------------------
(* What a step changes.                                                    *)

LEMMA WorkFrame ==
    ASSUME Work
    PROVE  LET do == Head(left).do IN
           /\ result = "running" /\ left # <<>>
           /\ UNCHANGED <<kind, command, ref, good, on, bus, changes>>
           /\ do # "call" => UNCHANGED <<names, objects, applying, held, meant, sent>>
           /\ do \notin {"get", "all"} => stale' = stale
           /\ do \notin {"get", "all", "echo"} => found' = found
           /\ do \notin {"match", "each"} => path' = path
           /\ do # "list" => listed' = listed
           /\ do \notin {"list", "match", "each"} => todo' = todo
           /\ do # "enter" => entries' = entries
           /\ do # "print" => Heard' = Heard
  <1> DEFINE do == Head(left).do
             Frame == /\ result = "running" /\ left # <<>>
                      /\ UNCHANGED <<kind, command, ref, good, on, bus, changes>>
                      /\ do # "call" => UNCHANGED <<names, objects, applying, held, meant, sent>>
                      /\ do \notin {"get", "all"} => stale' = stale
                      /\ do \notin {"get", "all", "echo"} => found' = found
                      /\ do \notin {"match", "each"} => path' = path
                      /\ do # "list" => listed' = listed
                      /\ do \notin {"list", "match", "each"} => todo' = todo
                      /\ do # "enter" => entries' = entries
                      /\ do # "print" => Heard' = Heard
  <1> USE DEF At, Keep, input, world, past, told, Heard
  <1>1. ListObjects => Frame
    BY DEF ListObjects
  <1>2. Match => Frame
    BY DEF Match
  <1>3. Open => Frame
    BY DEF Open
  <1>4. OpenAll => Frame
    BY DEF OpenAll
  <1>5. Each => Frame
    BY DEF Each
  <1>6. GetOne => Frame
    BY DEF GetOne
  <1>7. ReadAll => Frame
    BY DEF ReadAll
  <1>8. (ReadTree \/ ParseArgument \/ LookUp \/ Subscribe \/ Interrupt) => Frame
    BY DEF ReadTree, ParseArgument, LookUp, Subscribe, Interrupt, Streaming
  <1>9. Register => Frame
    BY DEF Register
  <1>10. CallFails => Frame
    BY DEF CallFails
  <1>11. CallSucceeds => Frame
    BY DEF CallSucceeds
  <1>12. Echo => Frame
    BY DEF Echo
  <1>13. Enter => Frame
    BY DEF Enter
  <1>14. PrintLine => Frame
    BY DEF PrintLine
  <1> HIDE DEF do, Frame
  <1>15. Frame
    BY <1>1, <1>2, <1>3, <1>4, <1>5, <1>6, <1>7, <1>8, <1>9, <1>10, <1>11, <1>12, <1>13, <1>14
       DEF Work
  <1> QED
    BY <1>15 DEF Frame, do

\* A step is taken, or begins on the next object, or fails and with it the command.
Proceeds ==
    /\ left' = Tail(left) /\ cause' = cause
    /\ result' = IF Tail(left) = <<>> THEN "ok" ELSE "running"
    /\ agent' = (agent /\ Tail(left) # <<>>) \/ (Head(left).do = "register" /\ agent' = TRUE)

BeginsAgain ==
    /\ Head(left).do = "each" /\ left' = Head(left).of \o left
    /\ UNCHANGED <<result, cause, agent>>

Stops ==
    /\ left' = <<>> /\ agent' = FALSE
    /\ result' \in {"cli"} \cup PublicKind
    /\ cause' = "no agent" => Head(left).do = "call"

LEMMA FailureStops ==
    ASSUME NEW errors, \A e \in errors : e.public \in PublicKind, NEW why, FailsBy(errors, why),
           why = "no agent" => Head(left).do = "call"
    PROVE  Stops
  BY DEF FailsBy, FailsWith, Stops

LEMMA LostStops ==
    ASSUME NEW why \in {"lost", "gone", "value", "argument", "no wsc", "refused"}
    PROVE  /\ FailsWith({"cli"}, why) => Stops
           /\ FailsBy({Unlisted}, why) => Stops
  BY OthersPublish DEF FailsBy, FailsWith, Stops

LEMMA ListMoves ==
    ASSUME ListObjects
    PROVE  \/ Stops /\ UNCHANGED <<listed, todo>>
           \/ Proceeds /\ DOMAIN listed' = DOMAIN names /\ todo' = DOMAIN listed'
  <1> DEFINE refs == Listing(kind, names)
  <1>1. \/ FailsBy({Unlisted}, "lost") /\ UNCHANGED <<listed, todo>>
        \/ FailsBy(refs.errors, "value") /\ UNCHANGED <<listed, todo>>
        \/ Goes /\ listed' = refs.value /\ todo' = DOMAIN refs.value
    BY DEF ListObjects
  <1>2. \A e \in refs.errors : e.public \in PublicKind
    BY ListingPublishes DEF Published
  <1>3. DOMAIN refs.value = DOMAIN names
    BY ListingPublishes
  <1>4. FailsBy(refs.errors, "value") => Stops
    BY <1>2, FailureStops
  <1>5. Goes => Proceeds
    BY DEF Goes, Proceeds
  <1> QED
    BY <1>1, <1>3, <1>4, <1>5, LostStops

\* Of an object that is gone, or out of reach, nothing is read.
LEMMA NothingReads ==
    ASSUME NEW k \in DOMAIN Handle
    PROVE  /\ GetAll(k, None).errors # {}
           /\ \A p \in Properties(k) : Get(k, p, None).errors # {}
  <1>1. GetAll(k, None).errors # {}
    <2> DEFINE raw == Raise(GetProperties(Handle[k].all, None))
    <2>1. GetProperties(Handle[k].all, None) = Fails(DBus("property", Plain))
      BY DEF GetProperties
    <2>2. Outcome(Fails(DBus("property", Plain)))
      BY DEF Outcome, Fails
    <2>3. Fails(DBus("property", Plain)).errors # {}
      BY DEF Fails
    <2>4. raw.errors # {} /\ Outcome(raw)
      BY <2>1, <2>2, <2>3, WrappingKeeps
    <2>5. GetAll(k, None) = Delegate(raw)
      BY <2>4 DEF GetAll
    <2> HIDE DEF raw
    <2> QED
      BY <2>4, <2>5, WrappingKeeps
  <1>2. ASSUME NEW p \in Properties(k) PROVE Get(k, p, None).errors # {}
    <2> DEFINE raw == GetProperty(Handle[k].get, p, None)
    <2>1. raw = Fails(DBus("property", Plain))
      BY DEF GetProperty, Missing, isUnknownPropertyError
    <2>2. raw.errors # {}
      BY <2>1 DEF Fails
    <2> QED
      BY <2>2, GetFails
  <1> QED
    BY <1>1, <1>2

LEMMA GetMoves ==
    ASSUME RestInv, GetOne
    PROVE  /\ Now.of \in Properties(kind)
           /\ \/ Stops
              \/ /\ Proceeds /\ bus /\ Live /\ objects[path] # None /\ stale' = FALSE
                 /\ Get(kind, Now.of, objects[path]).errors = {}
                 /\ found' = [p \in {Now.of} |-> Get(kind, Now.of, objects[path]).value]
  <1> DEFINE read == Get(kind, Now.of, Here)
  <1>1. left # <<>> /\ Head(left).do = "get"
    BY DEF GetOne, At
  <1>2. kind \in DOMAIN Handle /\ Now.of \in Properties(kind)
    BY <1>1, LeftIsOrdered DEF Ordered, AsksRight, Now
  <1>3. \A e \in read.errors : e.public \in PublicKind
    BY <1>2, ReadsPublish DEF Published
  <1>4. \/ FailsBy(read.errors, Absence)
        \/ Goes /\ read.errors = {} /\ stale' = FALSE /\ found' = [p \in {Now.of} |-> read.value]
    BY DEF GetOne
  <1>5. FailsBy(read.errors, Absence) => Stops
    BY <1>3, FailureStops DEF Absence
  <1>6. read.errors = {} => bus /\ Live /\ Here = objects[path] /\ Here # None
    BY <1>2, NothingReads DEF Here
  <1>7. Goes => Proceeds
    BY DEF Goes, Proceeds
  <1> QED
    BY <1>2, <1>4, <1>5, <1>6, <1>7

LEMMA AllMoves ==
    ASSUME RestInv, ReadAll
    PROVE  \/ Stops
           \/ /\ Proceeds /\ bus /\ Live /\ objects[path] # None /\ stale' = FALSE
              /\ GetAll(kind, objects[path]).errors = {}
              /\ found' = GetAll(kind, objects[path]).value
  <1> DEFINE read == GetAll(kind, Here)
  <1>1. kind \in DOMAIN Handle
    BY LeftIsOrdered
  <1>2. \A e \in read.errors : e.public \in PublicKind
    BY <1>1, ReadsPublish DEF Published
  <1>3. \/ FailsBy(read.errors, Absence)
        \/ Goes /\ read.errors = {} /\ stale' = FALSE /\ found' = read.value
    BY DEF ReadAll
  <1>4. FailsBy(read.errors, Absence) => Stops
    BY <1>2, FailureStops DEF Absence
  <1>5. read.errors = {} => bus /\ Live /\ Here = objects[path] /\ Here # None
    BY <1>1, NothingReads DEF Here
  <1>6. Goes => Proceeds
    BY DEF Goes, Proceeds
  <1> QED
    BY <1>3, <1>4, <1>5, <1>6

LEMMA WorkMoves ==
    ASSUME RestInv, Work
    PROVE  Proceeds \/ BeginsAgain \/ Stops
  <1>0. left # <<>> /\ result = "running"
    BY WorkFrame
  <1>1. /\ kind \in DOMAIN Handle
        /\ Head(left).do = "call" => Head(left).of \in DOMAIN Handle[kind].calls
        /\ Head(left).do = "register" => Tail(left) # <<>>
    BY <1>0, LeftIsOrdered DEF Ordered, AsksRight
  <1>2. Goes => Proceeds
    BY DEF Goes, Proceeds
  <1>3. /\ \A lost \in BOOLEAN : \A e \in Unopened(lost) : e.public \in PublicKind
        /\ \A e \in resolveTree.errors : e.public \in PublicKind
        /\ \A e \in Refused.errors : e.public \in PublicKind
        /\ \A e \in Delegate(Raise(Fails(DBus("method", Plain)))).errors : e.public \in PublicKind
    BY OthersPublish DEF Published
  <1>4. AgentUnavailable.public \in PublicKind
    <2>1. "method" \in Category /\ "unavailable" \in CoreKind /\ "unavailable" \in PublicKind
      BY DEF Category, CoreKind, PublicKind
    <2>2. DBus("method", Plain) \in Error
      BY <2>1, MadeErrors
    <2>3. WrapUnavailable(FALSE, DBus("method", Plain)) \in Error
      BY <2>2, WrapsStay
    <2> QED
      BY <2>3, WrapsStay DEF AgentUnavailable
  <1>5. ASSUME ListObjects \/ GetOne \/ ReadAll PROVE Proceeds \/ Stops
    BY <1>5, ListMoves, GetMoves, AllMoves
  <1>6. ASSUME Match \/ ParseArgument PROVE Proceeds \/ Stops
    BY <1>2, <1>6, LostStops DEF Match, ParseArgument
  <1>7. ASSUME Open \/ OpenAll PROVE Proceeds \/ Stops
    <2>1. Goes \/ \E lost \in BOOLEAN, why \in {"lost", "gone", "no wsc"} : FailsBy(Unopened(lost), why)
      BY <1>7 DEF Open, OpenAll
    <2> QED
      BY <1>2, <1>3, <2>1, FailureStops
  <1>8. ASSUME Each PROVE Proceeds \/ BeginsAgain
    BY <1>2, <1>8 DEF Each, BeginsAgain, At, Now
  <1>9. ASSUME ReadTree \/ LookUp \/ Subscribe PROVE Proceeds \/ Stops
    <2>1. \/ Goes \/ FailsBy(resolveTree.errors, "lost") \/ FailsBy({Unlisted}, "lost")
          \/ FailsWith({"cli"}, "argument")
          \/ FailsBy(Delegate(Raise(Fails(DBus("method", Plain)))).errors, "lost")
      BY <1>9 DEF ReadTree, LookUp, Subscribe
    <2> QED
      BY <1>2, <1>3, <2>1, FailureStops, LostStops
  <1>10. ASSUME Register PROVE Proceeds \/ Stops
    <2>1. \/ Goes \/ FailsWith({"cli"}, "argument")
          \/ \E why \in {"lost", "refused"} : FailsBy({AgentUnavailable}, why)
          \/ agent' = TRUE /\ left' = Tail(left) /\ UNCHANGED <<result, cause>>
      BY <1>10 DEF Register
    <2>2. CASE agent' = TRUE /\ left' = Tail(left) /\ UNCHANGED <<result, cause>>
      BY <1>0, <1>1, <1>10, <2>2 DEF Register, At, Proceeds
    <2> QED
      BY <1>2, <1>4, <2>1, <2>2, FailureStops, LostStops
  <1>11. ASSUME CallFails PROVE Stops
    <2>1. Head(left).do = "call"
      BY <1>11 DEF CallFails, At
    <2>2. \A e \in Do(kind, Now.of, TRUE, None).errors : e.public \in PublicKind
      BY <1>1, <2>1, CallsPublish DEF Published, Now
    <2>3. \E errors \in {Refused.errors, Do(kind, Now.of, TRUE, None).errors},
             why \in {"argument", "lost", "gone", "no agent", "refused"} : FailsBy(errors, why)
      BY <1>11 DEF CallFails
    <2> QED
      BY <1>3, <2>1, <2>2, <2>3, FailureStops
  <1>12. ASSUME CallSucceeds PROVE Proceeds \/ Stops
    <2>1. Head(left).do = "call"
      BY <1>12 DEF CallSucceeds, At
    <2>2. PICK answer : Goes \/ FailsBy(Do(kind, Now.of, FALSE, answer).errors, "value")
      BY <1>12 DEF CallSucceeds
    <2>3. \A e \in Do(kind, Now.of, FALSE, answer).errors : e.public \in PublicKind
      BY <1>1, <2>1, CallsPublish DEF Published, Now
    <2> DEFINE errors == Do(kind, Now.of, FALSE, answer).errors
    <2> HIDE DEF errors
    <2>4. FailsBy(errors, "value") => Stops
      BY <2>1, <2>3, FailureStops DEF errors
    <2> QED
      BY <1>2, <2>2, <2>4 DEF errors
  <1>13. ASSUME Echo \/ Enter \/ PrintLine \/ Interrupt PROVE Proceeds
    BY <1>2, <1>13 DEF Echo, Enter, PrintLine, Interrupt
  <1> QED
    BY <1>5, <1>6, <1>7, <1>8, <1>9, <1>10, <1>11, <1>12, <1>13 DEF Work

\* What is left after a step: nothing, the rest, or the steps for one more object.
LEMMA LeftMoves ==
    ASSUME RestInv, Work
    PROVE  /\ RestInv' /\ Ordered(kind, command, left)
           /\ Doing(left) = {Head(left).do} \cup Doing(Tail(left))
           /\ left' # <<>> => /\ Ordered(kind, command, left')
                              /\ Doing(left') = {Head(left').do} \cup Doing(Tail(left'))
           /\ left' = <<>> => Doing(left') = {} /\ ~Assigning(left')
           /\ left' = Tail(left) => (Assigning(left') => Assigning(left))
           /\ BeginsAgain => /\ left' # <<>> /\ Head(left').do = "all"
                             /\ {"enter", "each"} \subseteq Doing(left')
           /\ Proceeds \/ BeginsAgain \/ Stops
  <1>1. /\ left # <<>> /\ UNCHANGED <<kind, command, on>>
        /\ Proceeds \/ BeginsAgain \/ Stops
        /\ left' \in {<<>>, Tail(left)} \/ BeginsAgain
        /\ BeginsAgain => Head(left).do = "each" /\ left' = Head(left).of \o left
    BY WorkFrame, WorkMoves DEF Proceeds, BeginsAgain, Stops
  <1>2. left' \in Rests(kind, command) \cup {<<>>}
    BY <1>1, LeftIsOrdered
  <1> QED
    BY <1>1, <1>2, LeftIsOrdered, NothingLeft DEF RestInv

\* What the world does to a command.
WorldStep ==
    \/ \E o \in Object, p \in Varied : \E raw \in Raw(kind, p) : Change(o, p, raw)
    \/ \E o \in Object, name \in Name : Rename(o, name)
    \/ \E o \in Object : Vanish(o)
    \/ BusLost \/ Applied \/ (\E call \in calls : HandlerPrints(call)) \/ Ended \/ UNCHANGED vars

LEMMA NextSplits == [Next]_vars => Work \/ WorldStep
  BY DEF Next, WorldStep

\* A handler call that prints changes nothing else, and nothing of what is told.
LEMMA PrintingKeepsTold ==
    ASSUME NEW call \in calls, HandlerPrints(call)
    PROVE  /\ UNCHANGED <<input, world, left, listed, path, todo, found, entries, result, agent,
                          sent, cause, past, stale>>
           /\ Heard' = Heard
  <1>1. lines' = lines \cup {call} /\ calls' = calls \ {call}
    BY DEF HandlerPrints
  <1>2. Heard' = Heard
    BY <1>1 DEF Heard
  <1> QED
    BY <1>2 DEF HandlerPrints

LEMMA WorldFrame ==
    ASSUME WorldStep
    PROVE  /\ UNCHANGED <<kind, command, ref, good, on>>
           /\ UNCHANGED <<left, listed, path, todo, found, entries, result, agent, sent, cause>>
           /\ Heard' = Heard \/ Streaming
           /\ (stale => stale') /\ (bus' => bus) /\ applying' \subseteq applying
  <1> DEFINE Frame ==
                 /\ UNCHANGED <<kind, command, ref, good, on>>
                 /\ UNCHANGED <<left, listed, path, todo, found, entries, result, agent, sent, cause>>
                 /\ Heard' = Heard \/ Streaming
                 /\ (stale => stale') /\ (bus' => bus) /\ applying' \subseteq applying
  <1> USE DEF Changes, input
  <1>1. ASSUME NEW o, NEW p, NEW raw, Change(o, p, raw) PROVE Frame
    <2>1. Heard' = Heard \/ Streaming
      BY <1>1 DEF Change, Becomes, Heard
    <2> QED
      BY <1>1, <2>1 DEF Change, Becomes
  <1>2. ASSUME NEW o, NEW name, Rename(o, name) PROVE Frame
    BY <1>2 DEF Rename, Heard
  <1>3. ASSUME NEW o, Vanish(o) PROVE Frame
    BY <1>3 DEF Vanish, Heard
  <1>4. BusLost => Frame
    BY DEF BusLost, past, Heard
  <1>5. Applied => Frame
    BY DEF Applied, told, Heard
  <1>6. UNCHANGED vars => Frame
    BY DEF vars, input, world, told, past, Heard
  <1>7. ASSUME NEW call \in calls, HandlerPrints(call) PROVE Frame
    BY <1>7, PrintingKeepsTold DEF world
  <1> HIDE DEF Frame
  <1>8. Frame
    BY <1>1, <1>2, <1>3, <1>4, <1>5, <1>6, <1>7 DEF WorldStep, Ended
  <1> QED
    BY <1>8 DEF Frame

\* What the world does to the objects.
LEMMA WorldObjects ==
    ASSUME WorldStep
    PROVE  \/ UNCHANGED <<objects, held, Heard, stale>>
           \/ \E o \in DOMAIN objects, p \in Varied : \E raw \in Raw(kind, p) :
                  Becomes(o, p, raw) /\ changes' = changes + 1
           \/ \E o \in Object : objects' = Without(objects, o) /\ UNCHANGED <<held, Heard, stale>>
           \/ \E v \in applying : /\ objects' = [objects EXCEPT ![path][on] = v]
                                  /\ held' = [held EXCEPT ![path] = @ \cup {v}]
                                  /\ UNCHANGED <<Heard, stale>>
  <1> DEFINE Fixed == UNCHANGED <<objects, held, Heard, stale>>
             Moved == \E o \in DOMAIN objects, p \in Varied : \E raw \in Raw(kind, p) :
                          Becomes(o, p, raw) /\ changes' = changes + 1
             Gone == \E o \in Object : objects' = Without(objects, o) /\ UNCHANGED <<held, Heard, stale>>
             Late == \E v \in applying : /\ objects' = [objects EXCEPT ![path][on] = v]
                                         /\ held' = [held EXCEPT ![path] = @ \cup {v}]
                                         /\ UNCHANGED <<Heard, stale>>
  <1>1. ASSUME NEW o \in Object, NEW p \in Varied, NEW raw \in Raw(kind, p), Change(o, p, raw)
        PROVE  Moved
    BY <1>1 DEF Change, Changes, InView
  <1>2. ASSUME NEW o, NEW name, Rename(o, name) PROVE Fixed
    BY <1>2 DEF Rename, Heard
  <1>3. ASSUME NEW o \in Object, Vanish(o) PROVE Gone
    BY <1>3 DEF Vanish, Heard
  <1>4. BusLost => Fixed
    BY DEF BusLost, past, Heard
  <1>5. Applied => Late
    BY DEF Applied, told, Heard
  <1>6. UNCHANGED vars => Fixed
    BY DEF vars, world, told, past, Heard
  <1>7. ASSUME NEW call \in calls, HandlerPrints(call) PROVE Fixed
    BY <1>7, PrintingKeepsTold DEF world, past
  <1> HIDE DEF Fixed, Moved, Gone, Late
  <1>8. Fixed \/ Moved \/ Gone \/ Late
    BY <1>1, <1>2, <1>3, <1>4, <1>5, <1>6, <1>7 DEF WorldStep, Ended
  <1> QED
    BY <1>8 DEF Fixed, Moved, Gone, Late

-----------------------------------------------------------------------------
(* Before the listing and the picking.                                     *)

LEMMA EarlyStays ==
    ASSUME RestInv, EarlyInv, Work \/ WorldStep
    PROVE  EarlyInv'
  <1>1. CASE Work
    <2> DEFINE do == Head(left).do
    <2>1. /\ UNCHANGED <<kind, command>>
          /\ do = "parse" => UNCHANGED <<listed, todo, entries>>
          /\ do \in {"parse", "list"} => UNCHANGED <<path, found, Heard>>
      BY <1>1, WorkFrame
    <2>2. /\ "list" \in Doing(Tail(left)) => do = "parse"
          /\ "match" \in Doing(Tail(left)) => do \in {"parse", "list"}
          /\ Doing(Tail(left)) \subseteq Doing(left)
      BY <1>1, LeftMoves DEF Ordered, FindsFirst
    <2>3. CASE left' \in {<<>>, Tail(left)}
      BY <2>1, <2>2, <2>3, NothingLeft DEF EarlyInv, Yet
    <2>4. CASE left' # <<>> /\ Head(left').do = "all"
      <3>1. "list" \notin Doing(left') /\ "match" \notin Doing(left')
        BY <1>1, <2>4, LeftMoves DEF Ordered, FindsFirst
      <3> QED
        BY <3>1 DEF EarlyInv, Yet
    <2> QED
      BY <1>1, <2>3, <2>4, LeftMoves DEF Proceeds, Stops
  <1>2. CASE WorldStep
    <2>1. /\ UNCHANGED <<left, listed, todo, entries, path, found>>
          /\ Heard' = Heard \/ Streaming
      BY <1>2, WorldFrame
    <2>2. Streaming => ~Yet("match")
      <3>1. left # <<>> => Ordered(kind, command, left) /\ Doing(left) = {Head(left).do} \cup Doing(Tail(left))
        BY LeftIsOrdered
      <3> QED
        BY <3>1 DEF Streaming, At, Ordered, FindsFirst, Yet
    <2> QED
      BY <2>1, <2>2 DEF EarlyInv, Yet
  <1> QED
    BY <1>1, <1>2

-----------------------------------------------------------------------------
(* An overview goes through all objects.                                   *)

LEMMA EachMoves ==
    ASSUME Each
    PROVE  \/ Proceeds /\ todo = {} /\ todo' = todo /\ path' = None
           \/ BeginsAgain /\ \E o \in todo : path' = o /\ todo' = todo \ {o}
  BY DEF Each, At, Now, Goes, Proceeds, BeginsAgain

\* The steps that a work of this kind can be.
LEMMA WorkIs ==
    ASSUME Work
    PROVE  LET do == Head(left).do IN
           /\ do = "list" => ListObjects
           /\ do = "match" => Match
           /\ do = "each" => Each
           /\ do = "get" => GetOne
           /\ do = "all" => ReadAll
           /\ do = "register" => Register
           /\ do = "call" => CallFails \/ CallSucceeds
           /\ do = "echo" => Echo
           /\ do = "enter" => Enter
           /\ do = "print" => PrintLine
  BY DEF Work, ListObjects, Match, Open, OpenAll, Each, GetOne, ReadAll, ReadTree, ParseArgument,
         LookUp, Register, CallFails, CallSucceeds, Echo, Enter, PrintLine, Subscribe, Interrupt,
         Streaming, At

LEMMA OverviewStays ==
    ASSUME RestInv, EarlyInv, OverviewInv, Work
    PROVE  OverviewInv'
  <1> DEFINE do == Head(left).do
  <1>1. /\ UNCHANGED <<kind, command>>
        /\ do \notin {"get", "all", "echo"} => found' = found
        /\ do \notin {"match", "each"} => path' = path
        /\ do # "list" => listed' = listed
        /\ do \notin {"list", "match", "each"} => todo' = todo
        /\ do # "enter" => entries' = entries
        /\ do # "print" => Heard' = Heard
        /\ result = "running"
    BY WorkFrame
  <1>2. /\ "each" \in Doing(left) => command = "status" /\ do \notin {"print", "stream"}
        /\ "enter" \in Doing(left) => do \in {"all", "tree", "enter"}
        /\ do = "enter" => "enter" \notin Doing(Tail(left))
        /\ command = "status" => "match" \notin Doing(left) /\ (do = "list" => "each" \in Doing(Tail(left)))
        /\ "list" \in Doing(Tail(left)) => do = "parse"
        /\ Doing(left) = {do} \cup Doing(Tail(left))
    BY LeftMoves DEF Ordered, OverviewOrder, FindsFirst
  <1>3. /\ Proceeds \/ BeginsAgain \/ Stops
        /\ Proceeds => left' = Tail(left) /\ result' \in {"ok", "running"}
        /\ Stops => left' = <<>> /\ Doing(left') = {} /\ result' \notin {"ok", "running"}
        /\ BeginsAgain => do = "each" /\ {"all", "enter", "each"} \subseteq Doing(left') /\ result' = "running"
    BY <1>1, LeftMoves DEF Proceeds, BeginsAgain, Stops, PublicKind
  <1>4. /\ do = "list" => \/ Stops /\ UNCHANGED <<listed, todo>>
                          \/ Proceeds /\ todo' = DOMAIN listed'
        /\ do = "match" => todo' = {}
        /\ do = "each" => \/ Proceeds /\ todo = {} /\ todo' = todo
                          \/ BeginsAgain /\ \E o \in todo : path' = o /\ todo' = todo \ {o}
        /\ do = "enter" => DOMAIN entries' = DOMAIN entries \cup {path}
    BY WorkIs, ListMoves, EachMoves DEF Match, Enter
  <1>5. do = "all" => Stops \/ DOMAIN found' = Properties(kind)
    <2>1. kind \in DOMAIN Handle
      BY LeftIsOrdered
    <2>2. do = "all" => \/ Stops
                        \/ /\ GetAll(kind, objects[path]).errors = {} /\ objects[path] # None
                           /\ found' = GetAll(kind, objects[path]).value
      BY WorkIs, AllMoves
    <2>3. ASSUME NEW object, GetAll(kind, object).errors = {}, object # None
          PROVE  DOMAIN GetAll(kind, object).value = Properties(kind)
      <3>1. GetAll(kind, object).value = [p \in Properties(kind) |-> Batched(kind, p, object).value]
        BY <2>1, <2>3, GetAllFails
      <3> QED
        BY <3>1
    <2> QED
      BY <2>2, <2>3
  <1> HIDE DEF do
  <1>6. todo' \subseteq DOMAIN listed' /\ DOMAIN entries' \subseteq DOMAIN listed'
    BY <1>1, <1>2, <1>3, <1>4 DEF OverviewInv, EarlyInv, Yet
  <1>7. Yet("enter")' => command' = "status" /\ path' \in DOMAIN listed'
    BY <1>1, <1>2, <1>3, <1>4 DEF OverviewInv, Yet
  <1>8. Yet("enter")' /\ ~Yet("all")' => DOMAIN found' = Properties(kind')
    BY <1>1, <1>2, <1>3, <1>4, <1>5 DEF OverviewInv, Yet
  <1>9. Yet("each")' => Heard' = {}
    BY <1>1, <1>2, <1>3, <1>4 DEF OverviewInv, Yet
  <1>10. command' = "status" /\ ~Yet("list")' /\ result' \in {"running", "ok"} =>
           /\ DOMAIN listed' = DOMAIN entries' \cup todo' \cup (IF Yet("enter")' THEN {path'} ELSE {})
           /\ ~Yet("each")' => todo' = {}
    <2> SUFFICES ASSUME command = "status", "list" \notin Doing(left'), ~Stops
                 PROVE  /\ DOMAIN listed' =
                               DOMAIN entries' \cup todo' \cup (IF "enter" \in Doing(left') THEN {path'} ELSE {})
                        /\ "each" \notin Doing(left') => todo' = {}
      BY <1>1, <1>3 DEF Yet
    <2>1. CASE do = "list"
      <3>1. DOMAIN entries' = {}
        BY <1>1, <1>2, <2>1 DEF EarlyInv, Yet
      <3>2. "enter" \notin Doing(left') /\ "each" \in Doing(left') /\ todo' = DOMAIN listed'
        BY <1>2, <1>3, <1>4, <2>1
      <3> QED
        BY <3>1, <3>2
    <2>2. CASE do = "each"
      <3>1. /\ "enter" \notin Doing(left) /\ "list" \notin Doing(left)
            /\ DOMAIN listed' = DOMAIN entries' \cup todo
        <4>1. "enter" \notin Doing(left) /\ "each" \in Doing(left)
          BY <1>2, <2>2
        <4>2. "list" \notin Doing(left)
          BY <1>2, <2>2
        <4> QED
          BY <1>1, <2>2, <4>1, <4>2 DEF OverviewInv, Yet
      <3>2. CASE Proceeds /\ todo = {} /\ todo' = todo
        BY <1>2, <1>3, <3>1, <3>2
      <3>3. CASE BeginsAgain /\ \E o \in todo : path' = o /\ todo' = todo \ {o}
        BY <1>3, <3>1, <3>3
      <3> QED
        BY <1>4, <2>2, <3>2, <3>3
    <2>3. CASE do = "enter"
      BY <1>1, <1>2, <1>3, <1>4, <2>3 DEF OverviewInv, Yet
    <2>4. CASE do \notin {"list", "each", "enter"}
      BY <1>1, <1>2, <1>3, <2>4 DEF OverviewInv, Yet
    <2> QED
      BY <2>1, <2>2, <2>3, <2>4
  <1> QED
    BY <1>6, <1>7, <1>8, <1>9, <1>10 DEF OverviewInv

LEMMA OverviewStaysApart ==
    ASSUME RestInv, OverviewInv, WorldStep
    PROVE  OverviewInv'
  <1>1. /\ UNCHANGED <<kind, command, left, listed, path, todo, found, entries, result>>
        /\ Heard' = Heard \/ Streaming
    BY WorldFrame
  <1>2. Streaming => ~Yet("each")
    BY LeftIsOrdered DEF Streaming, At, Ordered, OverviewOrder, Yet
  <1> QED
    BY <1>1, <1>2 DEF OverviewInv, Yet

-----------------------------------------------------------------------------
(* What iwd has of an object.                                              *)

\* What iwd may send are values of the classes, the good ones among them.
LEMMA RawValues ==
    ASSUME NEW k \in DOMAIN Handle, NEW p \in Properties(k)
    PROVE  /\ Good \subseteq Raw(k, p)
           /\ \A raw \in Raw(k, p) \cup {"v1"} : Sends(p, raw) /\ raw \in Value \cup {None}
  <1> DEFINE parser == Handle[k].get[p].parser
  <1>1. parser \in Parsers
    BY Tables DEF SameReads, Properties
  <1>2. Good \subseteq parser.type /\ parser.type \in {Word, Text, Path, List}
    BY <1>1, ParsersTakeGood, ParserTypes DEF Parsers
  <1>3. Word \subseteq Value /\ Text \subseteq Value /\ Path \subseteq Value /\ List \subseteq Value
    BY DEF Value, Word, Text
  <1>4. Good \subseteq Value /\ "bad" \in Value /\ "v1" \in Good
    BY DEF Value, Text, Good
  <1> HIDE DEF parser
  <1>5. /\ Raw(k, p) \subseteq (IF p = "LastConnectedTime" THEN Good ELSE parser.type) \cup {"bad", None}
        /\ Good \subseteq Raw(k, p)
    BY <1>2 DEF Raw, parser
  <1> QED
    BY <1>2, <1>3, <1>4, <1>5 DEF Sends

\* What a command may print, and what iwd changes, are properties of the kind.
LEMMA VariedAreProperties ==
    ASSUME RestInv
    PROVE  /\ on \in Properties(kind) \cup {None} /\ Varied \subseteq Properties(kind)
           /\ command = "connect" => kind = "Network"
           /\ command = "status" => on \in Properties(kind)
           /\ None \notin Properties(kind)
  <1>1. kind \in DOMAIN Handle /\ Prints(kind, command) \subseteq Properties(kind) \cup {None}
    BY LeftIsOrdered DEF Unfolds
  <1>2. on \in Properties(kind) \cup {None}
    BY <1>1 DEF RestInv
  <1>3. command = "connect" => kind = "Network"
    BY LeftIsOrdered DEF Unfolds, Ordered, ConnectOrder
  <1>4. {"Type", "KnownNetwork"} \subseteq Properties("Network")
    BY DEF Properties, Handle, NetworkGet
  <1>5. command = "status" => on \in Properties(kind)
    BY DEF RestInv, Prints, Overview
  <1> QED
    BY <1>1, <1>2, <1>3, <1>4, <1>5, HandlesAssumption DEF Varied

LEMMA ObjectsAreObjects ==
    ASSUME RestInv, ObjectsInv, NEW o \in DOMAIN objects
    PROVE  objects[o] # None /\ DOMAIN objects[o] = Properties(kind)
  BY LeftIsOrdered, HandlesAssumption DEF ObjectsInv

LEMMA ObjectsStay ==
    ASSUME RestInv, ObjectsInv, WorldStep
    PROVE  ObjectsInv'
  <1> DEFINE Objects(k, objs) == \A o \in DOMAIN objs : objs[o] \in [Properties(k) -> Value \cup {None}]
  <1>1. kind' = kind /\ command' = command /\ applying' \subseteq applying
    BY WorldFrame
  <1>2. DOMAIN objects' \subseteq DOMAIN objects /\ DOMAIN held' = DOMAIN held
    BY WorldObjects DEF Without, Becomes
  <1>3. Objects(kind, objects')
    <2>1. ASSUME NEW o \in DOMAIN objects, NEW p \in Varied, NEW raw \in Raw(kind, p), Becomes(o, p, raw)
          PROVE  Objects(kind, objects')
      <3>1. raw \in Value \cup {None}
        BY RawValues, VariedAreProperties, LeftIsOrdered
      <3> QED
        BY <2>1, <3>1 DEF Becomes, ObjectsInv
    <2>2. ASSUME NEW o, objects' = Without(objects, o)
          PROVE  Objects(kind, objects')
      BY <2>2 DEF Without, ObjectsInv
    <2>3. ASSUME NEW v \in applying, objects' = [objects EXCEPT ![path][on] = v]
          PROVE  Objects(kind, objects')
      <3>1. v \in Value
        BY DEF ObjectsInv, Asked, Value, Text, Good
      <3> QED
        BY <2>3, <3>1 DEF ObjectsInv
    <2>4. UNCHANGED objects => Objects(kind, objects')
      BY DEF ObjectsInv
    <2> HIDE DEF Objects
    <2> QED
      BY <2>1, <2>2, <2>3, <2>4, WorldObjects
  <1> QED
    BY <1>1, <1>2, <1>3 DEF ObjectsInv

\* What iwd makes of a call.
LEMMA CallDoes ==
    ASSUME RestInv, Work
    PROVE  \/ UNCHANGED <<objects, applying, held>>
           \/ /\ objects' = Without(objects, path) /\ UNCHANGED <<applying, held>>
           \/ /\ Head(left).do = "call" /\ Head(left).of \in DOMAIN AssignedBy
              /\ path \in DOMAIN objects /\ held' = [held EXCEPT ![path] = {Asked}]
              /\ \/ /\ Head(left).of = "SetAutoConnect" /\ command = "setAutoConnect"
                    /\ applying' = {Asked} /\ objects' = objects
                 \/ /\ applying' = applying
                    /\ objects' = [objects EXCEPT ![path][AssignedBy[Head(left).of]] = Asked]
  <1>1. CASE Head(left).do # "call" \/ ~CallSucceeds
    BY <1>1, WorkFrame, WorkIs DEF CallFails, Keep, world, past
  <1>2. CASE Head(left).do = "call" /\ CallSucceeds
    <2>1. Does(Now.of) /\ path \in DOMAIN objects
      BY <1>2 DEF CallSucceeds, Live
    <2>2. Now.of = "SetAutoConnect" => command = "setAutoConnect"
      BY <1>2, LeftMoves DEF Ordered, AssignOrder, Now
    <2>3. "SetAutoConnect" \in DOMAIN AssignedBy
      BY DEF AssignedBy
    <2> QED
      BY <1>2, <2>1, <2>2, <2>3 DEF Does, Now, past
  <1> QED
    BY <1>1, <1>2

LEMMA ObjectsStayByWork ==
    ASSUME RestInv, ObjectsInv, Work
    PROVE  ObjectsInv'
  <1>1. kind' = kind /\ command' = command
    BY WorkFrame
  <1>2. Asked \in Value
    BY DEF Asked, Value, Text, Good
  <1>3. CASE UNCHANGED <<objects, applying, held>>
    BY <1>1, <1>3 DEF ObjectsInv
  <1>4. CASE objects' = Without(objects, path) /\ UNCHANGED <<applying, held>>
    BY <1>1, <1>4 DEF ObjectsInv, Without
  <1>5. ASSUME NEW p, objects' = [objects EXCEPT ![path][p] = Asked] \/ objects' = objects,
               held' = [held EXCEPT ![path] = {Asked}],
               \/ applying' = {Asked} /\ command = "setAutoConnect"
               \/ applying' = applying
        PROVE  ObjectsInv'
    <2>1. DOMAIN objects' = DOMAIN objects /\ DOMAIN held' = DOMAIN held
      BY <1>5
    <2>2. \A o \in DOMAIN objects' : objects'[o] \in [Properties(kind) -> Value \cup {None}]
      BY <1>2, <1>5 DEF ObjectsInv
    <2> QED
      BY <1>1, <1>5, <2>1, <2>2 DEF ObjectsInv
  <1> QED
    BY <1>3, <1>4, <1>5, CallDoes

-----------------------------------------------------------------------------
(* Types.                                                                  *)

LEMMA ObjectTypesStay ==
    ASSUME RestInv, ObjectsInv, ObjectTypes, Work
    PROVE  ObjectTypes'
  <1> DEFINE Right(objs) == \A o \in DOMAIN objs :
                 \A p \in Properties(kind) : objs[o][p] \in Raw(kind, p) \cup {"v1"}
  <1>1. kind' = kind /\ kind \in DOMAIN Handle
    BY WorkFrame, LeftIsOrdered
  <1>2. \A p \in Properties(kind) : Asked \in Raw(kind, p)
    BY <1>1, RawValues DEF Asked, Good
  <1>3. \/ UNCHANGED names /\ DOMAIN objects' = DOMAIN objects
        \/ names' = Without(names, path) /\ objects' = Without(objects, path)
    <2>1. CASE Head(left).do # "call" \/ ~CallSucceeds
      BY <2>1, WorkFrame, WorkIs DEF CallFails, Keep, world, past
    <2>2. CASE CallSucceeds
      <3>1. Does(Now.of)
        BY <2>2 DEF CallSucceeds
      <3> QED
        BY <3>1 DEF Does, past
    <2> QED
      BY <2>1, <2>2
  <1>4. Right(objects')
    <2>1. CASE objects' = objects \/ objects' = Without(objects, path)
      BY <2>1 DEF ObjectTypes, Without
    <2>2. ASSUME NEW q, path \in DOMAIN objects, objects' = [objects EXCEPT ![path][q] = Asked]
          PROVE  Right(objects')
      <3>1. DOMAIN objects[path] = Properties(kind)
        BY <2>2, ObjectsAreObjects
      <3> QED
        BY <1>2, <2>2, <3>1 DEF ObjectTypes
    <2> QED
      BY <2>1, <2>2, CallDoes
  <1> QED
    BY <1>1, <1>3, <1>4 DEF ObjectTypes, Without

LEMMA ObjectTypesStayApart ==
    ASSUME RestInv, ObjectsInv, ObjectTypes, WorldStep
    PROVE  ObjectTypes'
  <1> DEFINE Right(objs) == \A o \in DOMAIN objs :
                 \A p \in Properties(kind) : objs[o][p] \in Raw(kind, p) \cup {"v1"}
  <1>1. kind' = kind /\ kind \in DOMAIN Handle
    BY WorldFrame, LeftIsOrdered
  <1>2. \A p \in Properties(kind) : Asked \in Raw(kind, p)
    BY <1>1, RawValues DEF Asked, Good
  <1>3. \/ UNCHANGED names /\ DOMAIN objects' = DOMAIN objects
        \/ \E o \in Object : names' = Without(names, o) /\ objects' = Without(objects, o)
        \/ \E o \in Object, name \in Name : names' = [names EXCEPT ![o] = name] /\ objects' = objects
    <2>1. ASSUME NEW o, NEW p, NEW raw, Change(o, p, raw)
          PROVE  UNCHANGED names /\ DOMAIN objects' = DOMAIN objects
      BY <2>1 DEF Change, Becomes
    <2>2. \A o, name : Rename(o, name) => names' = [names EXCEPT ![o] = name] /\ objects' = objects
      BY DEF Rename
    <2>3. \A o : Vanish(o) => names' = Without(names, o) /\ objects' = Without(objects, o)
      BY DEF Vanish
    <2>4. BusLost \/ Applied \/ (\E call \in calls : HandlerPrints(call)) \/ Ended \/ UNCHANGED vars =>
              UNCHANGED names /\ DOMAIN objects' = DOMAIN objects
      BY DEF BusLost, Applied, HandlerPrints, Ended, vars, world
    <2> QED
      BY <2>1, <2>2, <2>3, <2>4 DEF WorldStep
  <1>4. Right(objects')
    <2>1. ASSUME NEW o, objects' = objects \/ objects' = Without(objects, o)
          PROVE  Right(objects')
      BY <2>1 DEF ObjectTypes, Without
    <2>2. ASSUME NEW o \in DOMAIN objects, NEW q \in Varied, NEW raw \in Raw(kind, q), Becomes(o, q, raw)
          PROVE  Right(objects')
      <3>1. DOMAIN objects[o] = Properties(kind)
        BY ObjectsAreObjects
      <3>2. objects' = [objects EXCEPT ![o][q] = raw]
        BY <2>2 DEF Becomes
      <3> QED
        BY <3>1, <3>2 DEF ObjectTypes
    <2>3. ASSUME NEW v \in applying, objects' = [objects EXCEPT ![path][on] = v]
          PROVE  Right(objects')
      <3>1. path \in DOMAIN objects => DOMAIN objects[path] = Properties(kind)
        BY ObjectsAreObjects
      <3>2. v = Asked
        BY DEF ObjectsInv
      <3> QED
        BY <1>2, <2>3, <3>1, <3>2 DEF ObjectTypes
    <2> HIDE DEF Right
    <2> QED
      BY <2>1, <2>2, <2>3, WorldObjects
  <1> QED
    BY <1>1, <1>3, <1>4 DEF ObjectTypes, Without

-----------------------------------------------------------------------------
(* What a reader could have been told of an object.                        *)

LEMMA SameViews ==
    ASSUME NEW f, NEW g, NEW o, o \in DOMAIN f <=> o \in DOMAIN g, o \in DOMAIN f => f[o] = g[o]
    PROVE  View(f, o) = View(g, o)
  BY DEF View

LEMMA ViewsLater ==
    ASSUME UNCHANGED <<kind, on>>, NEW o
    PROVE  View(objects, o)' = View(objects', o)
  BY DEF View

\* A good value is told as it is.
LEMMA GoodViews ==
    ASSUME RestInv, NEW objs, NEW o \in DOMAIN objs, objs[o] # None,
           on # None => objs[o][on] = Asked
    PROVE  View(objs, o) \subseteq {Asked}
  <1>1. CASE on = None
    BY <1>1 DEF View
  <1>2. CASE on # None
    <2>1. on \in Properties(kind) /\ kind \in DOMAIN Handle /\ Asked \in Good
      BY <1>2, VariedAreProperties, LeftIsOrdered DEF Asked, Good
    <2>2. Get(kind, on, objs[o]).value = Asked
      BY <1>2, <2>1, GoodReads
    <2>3. Seen(Asked) = Asked
      BY DEF Seen, Asked
    <2> QED
      BY <2>2, <2>3 DEF View
  <1> QED
    BY <1>1, <1>2

LEMMA HeldStays ==
    ASSUME RestInv, ObjectsInv, HeldInv, Work
    PROVE  HeldInv'
  <1>1. UNCHANGED <<kind, command, on>>
    BY WorkFrame
  <1>2. command = "setAutoConnect" => Doing(left') \subseteq Telling
    <2>1. BeginsAgain => "each" \in Doing(left)
      BY LeftMoves DEF BeginsAgain
    <2> QED
      BY <2>1, LeftMoves DEF HeldInv, Telling, Proceeds, Stops
  <1>3. ASSUME command # "setAutoConnect", NEW o \in DOMAIN objects'
        PROVE  View(objects', o) \subseteq held'[o]
    <2>1. CASE UNCHANGED <<objects, held>>
      BY <1>3, <2>1 DEF HeldInv
    <2>2. CASE objects' = Without(objects, path) /\ UNCHANGED held
      <3>1. o \in DOMAIN objects /\ objects'[o] = objects[o]
        BY <2>2 DEF Without
      <3>2. View(objects', o) = View(objects, o)
        BY <3>1, SameViews
      <3> QED
        BY <1>3, <2>2, <3>1, <3>2 DEF HeldInv
    <2>3. ASSUME Head(left).do = "call", Head(left).of \in DOMAIN AssignedBy,
                 path \in DOMAIN objects, held' = [held EXCEPT ![path] = {Asked}],
                 objects' = [objects EXCEPT ![path][AssignedBy[Head(left).of]] = Asked]
          PROVE  View(objects', o) \subseteq held'[o]
      <3> DEFINE p == AssignedBy[Head(left).of]
      <3>1. p \in Properties(kind) /\ on \in {p, None}
        BY <2>3, LeftMoves DEF Ordered, AssignOrder, RestInv
      <3>2. DOMAIN objects[path] = Properties(kind) /\ path \in DOMAIN held
        BY <2>3, ObjectsAreObjects DEF ObjectsInv
      <3>3. CASE o = path
        <4>1. objects'[o][p] = Asked /\ held'[o] = {Asked}
          BY <2>3, <3>1, <3>2, <3>3
        <4>2. objects'[o] \in [Properties(kind) -> Value \cup {None}]
          BY <1>1, ObjectsStayByWork DEF ObjectsInv
        <4>3. objects'[o] # None
          BY <4>2, HandlesAssumption, LeftIsOrdered
        <4> QED
          BY <3>1, <4>1, <4>3, GoodViews
      <3>4. CASE o # path
        <4>1. o \in DOMAIN objects /\ objects'[o] = objects[o] /\ held'[o] = held[o]
          BY <2>3, <3>4 DEF ObjectsInv
        <4>2. View(objects', o) = View(objects, o)
          BY <4>1, SameViews
        <4> QED
          BY <1>3, <4>1, <4>2 DEF HeldInv
      <3> QED
        BY <3>3, <3>4
    <2> QED
      BY <1>3, <2>1, <2>2, <2>3, CallDoes
  <1> QED
    BY <1>1, <1>2, <1>3, ViewsLater DEF HeldInv

LEMMA HeldGrows ==
    ASSUME ObjectsInv, WorldStep
    PROVE  \A o \in Object : held[o] \subseteq held'[o]
  BY WorldObjects DEF ObjectsInv, Becomes

LEMMA HeldStaysApart ==
    ASSUME RestInv, ObjectsInv, HeldInv, WorldStep
    PROVE  HeldInv'
  <1>1. UNCHANGED <<kind, command, on, left>>
    BY WorldFrame
  <1>2. ASSUME command # "setAutoConnect", NEW o \in DOMAIN objects'
        PROVE  View(objects', o) \subseteq held'[o]
    <2>1. CASE UNCHANGED <<objects, held>>
      BY <1>2, <2>1 DEF HeldInv
    <2>2. ASSUME NEW q, objects' = Without(objects, q), UNCHANGED held
          PROVE  View(objects', o) \subseteq held'[o]
      <3>1. o \in DOMAIN objects /\ objects'[o] = objects[o]
        BY <2>2 DEF Without
      <3>2. View(objects', o) = View(objects, o)
        BY <3>1, SameViews
      <3> QED
        BY <1>2, <2>2, <3>1, <3>2 DEF HeldInv
    <2>3. ASSUME NEW q \in DOMAIN objects, NEW p, NEW raw, Becomes(q, p, raw)
          PROVE  View(objects', o) \subseteq held'[o]
      <3>1. o \in DOMAIN objects /\ o \in DOMAIN held
        BY <2>3 DEF Becomes, ObjectsInv
      <3>2. CASE o = q
        BY <2>3, <3>1, <3>2 DEF Becomes
      <3>3. CASE o # q
        <4>1. objects'[o] = objects[o] /\ held'[o] = held[o]
          BY <2>3, <3>1, <3>3 DEF Becomes
        <4>2. View(objects', o) = View(objects, o)
          BY <3>1, <4>1, SameViews
        <4> QED
          BY <1>2, <3>1, <4>1, <4>2 DEF HeldInv
      <3> QED
        BY <3>2, <3>3
    <2>4. applying = {}
      BY <1>2 DEF ObjectsInv
    <2> QED
      BY <2>1, <2>2, <2>3, <2>4, WorldObjects
  <1> QED
    BY <1>1, <1>2, ViewsLater DEF HeldInv

-----------------------------------------------------------------------------
(* A set comes first, and its echo is what was asked for.                  *)

LEMMA CallAssigns ==
    ASSUME CallFails \/ CallSucceeds, Head(left).of \in DOMAIN AssignedBy, left' # <<>>
    PROVE  path \in DOMAIN objects /\ held' = [held EXCEPT ![path] = {Asked}]
  <1>1. CallSucceeds
    BY DEF CallFails, FailsBy, FailsWith
  <1>2. Does(Now.of) /\ path \in DOMAIN objects
    BY <1>1 DEF CallSucceeds, Live
  <1>3. Now.of \in DOMAIN AssignedBy
    BY DEF Now
  <1>4. "Forget" \notin DOMAIN AssignedBy
    BY DEF AssignedBy
  <1> QED
    BY <1>2, <1>3, <1>4 DEF Does

LEMMA AssignStays ==
    ASSUME RestInv, ObjectsInv, AssignInv, Work
    PROVE  AssignInv'
  <1> DEFINE do == Head(left).do
  <1>1. /\ do # "call" => held' = held
        /\ do \notin {"get", "all", "echo"} => found' = found
        /\ do \notin {"match", "each"} => path' = path
        /\ do # "enter" => entries' = entries
        /\ do # "print" => Heard' = Heard
    BY WorkFrame
  <1>2. /\ Assigning(left) => do \in {"parse", "list", "match", "open", "look up", "call"}
        /\ "echo" \in Doing(left) /\ "call" \notin Doing(left) => do = "echo"
        /\ do = "call" /\ "echo" \in Doing(left) => Head(left).of \in DOMAIN AssignedBy
        /\ Doing(left) = {do} \cup Doing(Tail(left))
    BY LeftMoves DEF Ordered, AssignOrder
  <1>3. BeginsAgain => ~Assigning(left') /\ ~("echo" \in Doing(left') /\ "call" \notin Doing(left'))
    BY LeftMoves DEF Ordered, AssignOrder
  <1>4. Assigning(left') => found' = <<>> /\ Heard' = {} /\ entries' = <<>>
    <2>1. Assigning(left') => Assigning(left)
      BY <1>3, LeftMoves DEF Proceeds, Stops
    <2> QED
      BY <1>1, <1>2, <2>1 DEF AssignInv
  <1>5. ASSUME "echo" \in Doing(left'), "call" \notin Doing(left')
        PROVE  path' \in Object /\ Asked \in held'[path']
    <2>1. left' = Tail(left) /\ left' # <<>>
      BY <1>3, <1>5, LeftMoves, NothingLeft DEF Proceeds, Stops
    <2>2. CASE "call" \in Doing(left)
      <3>1. do = "call" /\ Head(left).of \in DOMAIN AssignedBy
        BY <1>2, <1>5, <2>1, <2>2
      <3>2. path \in DOMAIN objects /\ held' = [held EXCEPT ![path] = {Asked}]
        BY <2>1, <3>1, WorkIs, CallAssigns
      <3> QED
        BY <1>1, <3>1, <3>2 DEF ObjectsInv
    <2>3. CASE "call" \notin Doing(left)
      <3>1. do = "echo"
        BY <1>2, <1>5, <2>1, <2>3
      <3> QED
        BY <1>1, <1>2, <2>3, <3>1 DEF AssignInv, Yet
    <2> QED
      BY <2>2, <2>3
  <1> QED
    BY <1>4, <1>5 DEF AssignInv, Yet

LEMMA AssignStaysApart ==
    ASSUME RestInv, ObjectsInv, AssignInv, WorldStep
    PROVE  AssignInv'
  <1>1. UNCHANGED <<left, path, found, entries>> /\ (Heard' = Heard \/ Streaming)
    BY WorldFrame
  <1>2. Streaming => ~Assigning(left)
    BY LeftIsOrdered DEF Streaming, At, Ordered, AssignOrder
  <1>3. path \in Object /\ Asked \in held[path] => Asked \in held'[path]
    BY HeldGrows
  <1>4. Heard = {} /\ ~Streaming => Heard' = {}
    BY <1>1
  <1>5. Assigning(left') => found' = <<>> /\ Heard' = {} /\ entries' = <<>>
    BY <1>1, <1>2, <1>4 DEF AssignInv
  <1>6. "echo" \in Doing(left') /\ "call" \notin Doing(left') => path' \in Object /\ Asked \in held'[path']
    BY <1>1, <1>3 DEF AssignInv, Yet
  <1> QED
    BY <1>5, <1>6 DEF AssignInv, Yet

-----------------------------------------------------------------------------
(* A connection decides by what it has read.                               *)

LEMMA ConnectStays ==
    ASSUME RestInv, ObjectsInv, OwnTypes, KnowsNetwork, HasAgent, NoAgentMeansChanged, Work
    PROVE  KnowsNetwork' /\ HasAgent' /\ NoAgentMeansChanged'
  <1> DEFINE do == Head(left).do
  <1>1. /\ UNCHANGED <<kind, command>> /\ result = "running"
        /\ do # "call" => objects' = objects
        /\ do \notin {"get", "all"} => stale' = stale
        /\ do \notin {"get", "all", "echo"} => found' = found
        /\ do \notin {"match", "each"} => path' = path
    BY WorkFrame
  <1>2. /\ Doing(left) = {do} \cup Doing(Tail(left))
        /\ Proceeds \/ BeginsAgain \/ Stops
        /\ Proceeds => left' = Tail(left)
        /\ Stops => Doing(left') = {}
    BY LeftMoves, NothingLeft DEF Proceeds, Stops
  <1>3. command = "connect" =>
           /\ kind = "Network"
           /\ "call" \in Doing(left) /\ "all" \notin Doing(left) => do \in {"tree", "register", "call"}
           /\ "call" \in Doing(left) /\ "register" \notin Doing(left) => do = "call"
           /\ do = "call" => "call" \notin Doing(Tail(left)) /\ {"all", "register"} \cap Doing(left) = {}
           /\ do = "register" => Head(left).of = "unknown"
    BY LeftMoves DEF Ordered, ConnectOrder
  <1>4. BeginsAgain /\ command = "connect" =>
            "all" \in Doing(left') /\ ~("call" \in Doing(left') /\ "register" \notin Doing(left'))
    BY LeftMoves DEF Ordered, ConnectOrder
  <1>5. KnowsNetwork'
    <2> SUFFICES ASSUME command = "connect", "call" \in Doing(left'), "all" \notin Doing(left'),
                        ~stale', Live'
                 PROVE  /\ GetAll(kind, objects'[path']).errors = {}
                        /\ found' = GetAll(kind, objects'[path']).value
      BY <1>1 DEF KnowsNetwork, Yet
    <2>1. Proceeds
      BY <1>2, <1>4
    <2>2. CASE do = "all"
      BY <1>1, <2>1, <2>2, WorkIs, AllMoves DEF Proceeds, Stops, PublicKind
    <2>3. CASE do # "all"
      <3>1. do \in {"tree", "register"} /\ "all" \notin Doing(left) /\ "call" \in Doing(left)
        BY <1>2, <1>3, <2>1, <2>3
      <3> QED
        BY <1>1, <3>1 DEF KnowsNetwork, Yet, Live
    <2> QED
      BY <2>2, <2>3
  <1>6. HasAgent'
    <2> SUFFICES ASSUME command = "connect", "call" \in Doing(left'), "register" \notin Doing(left')
                 PROVE  agent' \/ ~NeedsAgent'
      BY <1>1 DEF HasAgent, Yet
    <2>1. Proceeds
      BY <1>2, <1>4
    <2>2. do = "register" /\ Head(left).of = "unknown"
      BY <1>2, <1>3, <2>1
    <2>3. found' = found
      BY <1>1, <2>2
    <2>4. agent' = TRUE \/ ~NeedsAgent
      <3>1. left' # <<>>
        BY NothingLeft
      <3> QED
        BY <2>2, <3>1, WorkIs DEF Register, FailsBy, FailsWith, Now
    <2> QED
      BY <2>3, <2>4 DEF NeedsAgent
  <1>7. NoAgentMeansChanged'
    <2> SUFFICES ASSUME cause' = "no agent" PROVE stale'
      BY DEF NoAgentMeansChanged
    <2>1. cause # "no agent"
      BY <1>1, AbsenceAssumption DEF OwnTypes
    <2>2. do = "call" /\ Stops
      BY <1>2, <2>1 DEF Proceeds, BeginsAgain, Stops
    <2>3. stale' = stale
      BY <1>1, <2>2
    <2>4. CallFails /\ bus /\ Live /\ Wants(Here)
      BY <2>1, <2>2, WorkIs DEF CallFails, CallSucceeds, Goes, FailsBy, FailsWith
    <2>5. /\ Here = objects[path] /\ Head(left).of = "Connect" /\ objects[path]["Type"] = "v2"
          /\ objects[path]["KnownNetwork"] \in {None, "/"} /\ ~agent
      BY <2>4 DEF Wants, Here, Now
    <2>6. command = "connect"
      BY <2>2, <2>5, LeftMoves DEF Ordered, ConnectOrder
    <2>7. /\ kind = "Network" /\ "call" \in Doing(left)
          /\ "all" \notin Doing(left) /\ "register" \notin Doing(left)
      BY <1>2, <1>3, <2>2, <2>6
    <2>8. ~NeedsAgent
      BY <2>5, <2>6, <2>7 DEF HasAgent, Yet
    <2>9. ASSUME ~stale PROVE FALSE
      <3> DEFINE object == objects[path]
      <3>1. GetAll("Network", object).errors = {} /\ found = GetAll("Network", object).value
        BY <2>4, <2>6, <2>7, <2>9 DEF KnowsNetwork, Yet
      <3>2. object # None
        BY <2>4, ObjectsAreObjects DEF Live
      <3>3. object["Type"] \in Value
        BY <2>5 DEF Value, Text, Good
      <3>4. found["Type"] = "v2" /\ found["KnownNetwork"] = None
        <4> HIDE DEF object
        <4>1. object["Type"] = "v2" /\ object["KnownNetwork"] \in {None, "/"}
          BY <2>5 DEF object
        <4> QED
          BY <3>1, <3>2, <3>3, <4>1, NetworkIsTold
      <3> QED
        BY <2>8, <3>4 DEF NeedsAgent
    <2> QED
      BY <2>3, <2>9
  <1> QED
    BY <1>5, <1>6, <1>7

LEMMA ConnectStaysApart ==
    ASSUME RestInv, ObjectsInv, KnowsNetwork, HasAgent, NoAgentMeansChanged, WorldStep
    PROVE  KnowsNetwork' /\ HasAgent' /\ NoAgentMeansChanged'
  <1>1. UNCHANGED <<kind, command, left, path, found, agent, cause>> /\ (stale => stale')
    BY WorldFrame
  <1>2. KnowsNetwork'
    <2> SUFFICES ASSUME command = "connect", "call" \in Doing(left), "all" \notin Doing(left),
                        ~stale', path \in DOMAIN objects'
                 PROVE  /\ GetAll(kind, objects'[path]).errors = {}
                        /\ found = GetAll(kind, objects'[path]).value
      BY <1>1 DEF KnowsNetwork, Yet, Live
    <2>1. ~Streaming /\ ~stale
      BY <1>1, LeftIsOrdered DEF Streaming, At, Ordered, ConnectOrder
    <2>2. path \in DOMAIN objects /\ objects'[path] = objects[path]
      <3>1. ASSUME NEW o \in DOMAIN objects, NEW p, NEW raw, Becomes(o, p, raw)
            PROVE  path \in DOMAIN objects /\ objects'[path] = objects[path]
        <4>1. o # path /\ objects' = [objects EXCEPT ![o][p] = raw]
          BY <2>1, <3>1 DEF Becomes
        <4> QED
          BY <4>1
      <3>2. applying = {}
        BY DEF ObjectsInv
      <3>3. ASSUME NEW o, objects' = Without(objects, o)
            PROVE  path \in DOMAIN objects /\ objects'[path] = objects[path]
        BY <3>3 DEF Without
      <3> QED
        BY <3>1, <3>2, <3>3, WorldObjects
    <2> QED
      BY <2>1, <2>2 DEF KnowsNetwork, Yet, Live
  <1>3. HasAgent'
    BY <1>1 DEF HasAgent, NeedsAgent, Yet
  <1>4. NoAgentMeansChanged'
    BY <1>1 DEF NoAgentMeansChanged
  <1> QED
    BY <1>2, <1>3, <1>4

-----------------------------------------------------------------------------
(* What is read and printed was so.                                        *)

\* A read that has just succeeded tells what a reader could be told.
LEMMA ReadsSee ==
    ASSUME RestInv, GetOne \/ ReadAll, ~Stops
    PROVE  /\ path \in DOMAIN objects
           /\ on \in DOMAIN found' => View(objects, path) = {Seen(found'[on])}
  <1>1. kind \in DOMAIN Handle
    BY LeftIsOrdered
  <1>2. CASE GetOne
    <2>1. /\ path \in DOMAIN objects /\ Now.of \in Properties(kind)
          /\ Get(kind, Now.of, objects[path]).errors = {}
          /\ found' = [p \in {Now.of} |-> Get(kind, Now.of, objects[path]).value]
      BY <1>2, GetMoves DEF Live
    <2>2. on \in DOMAIN found' => on = Now.of /\ found'[on] = Get(kind, on, objects[path]).value
      BY <2>1
    <2>3. Now.of # None
      BY <2>1, VariedAreProperties
    <2> QED
      BY <2>1, <2>2, <2>3 DEF View
  <1>3. CASE ReadAll
    <2> DEFINE object == objects[path]
    <2>1. /\ path \in DOMAIN objects /\ object # None
          /\ GetAll(kind, object).errors = {} /\ found' = GetAll(kind, object).value
      BY <1>3, AllMoves DEF Live
    <2> HIDE DEF object
    <2>2. GetAll(kind, object).value = [p \in Properties(kind) |-> Batched(kind, p, object).value]
      BY <1>1, <2>1, GetAllFails
    <2>3. ASSUME on \in DOMAIN found'
          PROVE  Get(kind, on, object).errors = {} /\ Seen(Get(kind, on, object).value) = Seen(found'[on])
      <3>1. on \in Properties(kind)
        BY <2>1, <2>2, <2>3
      <3> QED
        BY <1>1, <2>1, <3>1, ReadsAgree
    <2>4. on \in DOMAIN found' => on # None
      BY <2>1, <2>2, VariedAreProperties
    <2> QED
      BY <2>1, <2>3, <2>4 DEF View, object
  <1> QED
    BY <1>2, <1>3

LEMMA FoundStays ==
    ASSUME RestInv, ObjectsInv, EarlyInv, HeldInv, AssignInv, FoundInv, Work
    PROVE  FoundInv'
  <1> DEFINE do == Head(left).do
  <1>1. /\ UNCHANGED <<kind, command, on>> /\ left # <<>>
        /\ do # "call" => held' = held
        /\ do \notin {"get", "all", "echo"} => found' = found
        /\ do \notin {"match", "each"} => path' = path
    BY WorkFrame
  <1> SUFFICES ASSUME on \in DOMAIN found', path' # None, left' # <<>>, Head(left').do # "all"
               PROVE  Seen(found'[on]) \in held'[path']
    BY <1>1 DEF FoundInv
  <1>2. Proceeds /\ ~Stops
    BY LeftMoves DEF Stops
  <1>3. CASE do \in {"get", "all"}
    <2>1. GetOne \/ ReadAll
      BY <1>3, WorkIs
    <2>2. path \in DOMAIN objects /\ View(objects, path) = {Seen(found'[on])}
      BY <1>2, <2>1, ReadsSee
    <2>3. command # "setAutoConnect"
      BY <1>3, LeftMoves DEF HeldInv, Telling
    <2> QED
      BY <1>1, <1>3, <2>2, <2>3 DEF HeldInv
  <1>4. CASE do = "echo"
    <2>1. Asked \in held[path]
      BY <1>4, LeftMoves DEF AssignInv, Yet, Ordered, AssignOrder
    <2>2. found' = [p \in {Now.of} |-> Asked]
      BY <1>4, WorkIs DEF Echo
    <2>3. found'[on] = Asked /\ Seen(Asked) = Asked
      BY <2>2 DEF Seen, Asked
    <2> QED
      BY <1>1, <1>4, <2>1, <2>3
  <1>5. CASE do = "match"
    BY <1>1, <1>5, LeftMoves DEF EarlyInv, Yet
  <1>6. CASE do = "each"
    <2>1. ~BeginsAgain
      BY LeftMoves
    <2> QED
      BY <1>6, <2>1, WorkIs, EachMoves
  <1>7. CASE do = "call"
    <2>1. Head(left).of \in DOMAIN AssignedBy => found' = <<>>
      BY <1>1, <1>7, LeftIsOrdered DEF AssignInv
    <2>2. Head(left).of \notin DOMAIN AssignedBy
      BY <2>1
    <2>3. held' = held
      BY <2>2, CallDoes
    <2> QED
      BY <1>1, <1>7, <2>3 DEF FoundInv
  <1>8. CASE do \notin {"get", "all", "echo", "match", "each", "call"}
    BY <1>1, <1>8 DEF FoundInv
  <1> QED
    BY <1>3, <1>4, <1>5, <1>6, <1>7, <1>8

LEMMA FoundStaysApart ==
    ASSUME ObjectsInv, OwnTypes, FoundInv, WorldStep
    PROVE  FoundInv'
  <1>1. UNCHANGED <<left, path, found, on>>
    BY WorldFrame
  <1>2. path # None => path \in Object
    BY DEF OwnTypes
  <1> QED
    BY <1>1, <1>2, HeldGrows DEF FoundInv

\* What a line adds to what is told.
LEMMA PrintTells ==
    ASSUME Work, Head(left).do = "print"
    PROVE  /\ \A l \in Heard' : l \in Heard \/ (on \in DOMAIN found /\ l = Line(changes, found[on]))
           /\ on \in DOMAIN found => Line(changes, found[on]) \in Heard'
  <1>1. lines' = (IF on \in DOMAIN found THEN {Line(changes, found[on])} ELSE lines) /\ calls' = calls
    BY WorkIs DEF PrintLine
  <1> QED
    BY <1>1 DEF Heard

LEMMA LineStays ==
    ASSUME RestInv, EarlyInv, OverviewInv, AssignInv, FoundInv, LineTrue, Work
    PROVE  LineTrue'
  <1> DEFINE do == Head(left).do
  <1>1. /\ UNCHANGED <<kind, command, on>> /\ left # <<>>
        /\ do # "call" => held' = held
        /\ do \notin {"match", "each"} => path' = path
        /\ do # "print" => Heard' = Heard
    BY WorkFrame
  <1>2. CASE do = "print"
    <2>1. \A l \in Heard' : l \in Heard \/ (on \in DOMAIN found /\ l = Line(changes, found[on]))
      BY <1>2, PrintTells
    <2>2. Line(changes, found[on]).value = Seen(found[on])
      BY DEF Line
    <2> QED
      BY <1>1, <1>2, <2>1, <2>2 DEF FoundInv, LineTrue
  <1>3. CASE do \in {"match", "each"}
    <2>1. Heard = {}
      BY <1>3, LeftMoves DEF EarlyInv, OverviewInv, Yet
    <2> QED
      BY <1>1, <1>3, <2>1 DEF LineTrue
  <1>4. CASE do = "call"
    <2>1. Head(left).of \in DOMAIN AssignedBy => Heard = {}
      BY <1>1, <1>4, LeftIsOrdered DEF AssignInv
    <2>2. Heard = {} \/ held' = held
      BY <2>1, CallDoes
    <2> QED
      BY <1>1, <1>4, <2>2 DEF LineTrue
  <1>5. CASE do \notin {"print", "match", "each", "call"}
    BY <1>1, <1>5 DEF LineTrue
  <1> QED
    BY <1>2, <1>3, <1>4, <1>5

LEMMA EntriesStay ==
    ASSUME RestInv, ObjectsInv, OwnTypes, OverviewInv, AssignInv, FoundInv, EntriesTrue, Work
    PROVE  EntriesTrue'
  <1> DEFINE do == Head(left).do
  <1>1. /\ UNCHANGED <<kind, command, on>> /\ left # <<>>
        /\ do # "call" => held' = held
        /\ do # "enter" => entries' = entries
    BY WorkFrame
  <1>2. CASE do = "enter"
    <2>1. entries' = [o \in DOMAIN entries \cup {path} |->
                         IF o = path THEN Seen(found[on]) ELSE entries[o]]
      BY <1>2, WorkIs DEF Enter
    <2>2. "enter" \in Doing(left) /\ "all" \notin Doing(left)
      BY <1>2, LeftMoves DEF Ordered, OverviewOrder
    <2>3. command = "status" /\ path \in DOMAIN listed /\ DOMAIN found = Properties(kind)
      BY <2>2 DEF OverviewInv, Yet
    <2>4. on \in DOMAIN found /\ path # None
      BY <2>3, VariedAreProperties, AbsenceAssumption DEF OwnTypes
    <2>5. Seen(found[on]) \in held[path]
      BY <1>1, <1>2, <2>4 DEF FoundInv
    <2> QED
      BY <1>1, <1>2, <2>1, <2>5 DEF EntriesTrue
  <1>3. CASE do = "call"
    <2>1. Head(left).of \in DOMAIN AssignedBy => entries = <<>>
      BY <1>1, <1>3, LeftIsOrdered DEF AssignInv
    <2>2. entries = <<>> \/ held' = held
      BY <2>1, CallDoes
    <2> QED
      BY <1>1, <1>3, <2>2 DEF EntriesTrue
  <1>4. CASE do \notin {"enter", "call"}
    BY <1>1, <1>4 DEF EntriesTrue
  <1> QED
    BY <1>2, <1>3, <1>4

\* A monitor prints a property that has a signal, and iwd changes that one.
LEMMA MonitorsSignals ==
    ASSUME RestInv, left # <<>>, "stream" \in Doing(left)
    PROVE  /\ on \in DOMAIN Handle[kind].signals /\ on \in Properties(kind)
           /\ Varied = {on} \ {None}
  <1>1. kind \in DOMAIN Handle /\ on \in DOMAIN Handle[kind].signals /\ command # "connect"
    BY LeftIsOrdered DEF Ordered, StreamOrder, RestInv
  <1>2. on \in Properties(kind)
    BY <1>1, Tables DEF SameSignals, Properties
  <1> QED
    BY <1>1, <1>2 DEF Varied

\* What a monitor is told of a change is what a reader could be told of it.
LEMMA ChangesAreHeard ==
    ASSUME RestInv, ObjectsInv, Streaming,
           NEW o \in DOMAIN objects, NEW p \in Varied, NEW raw \in Raw(kind, p), Becomes(o, p, raw)
    PROVE  LET heard == Subscribed(kind, p, raw) IN
           /\ p = on
           /\ heard # {} => {Seen(v) : v \in heard} = View(objects', o)
           /\ heard = {} => View(objects', o) = {} \/ <<kind, on>> = <<"AccessPoint", "Scanning">>
  <1>1. left # <<>> /\ "stream" \in Doing(left)
    BY LeftIsOrdered DEF Streaming, At
  <1>2. p = on /\ p # None /\ p \in DOMAIN Handle[kind].signals /\ p \in Properties(kind)
    BY <1>1, MonitorsSignals
  <1>3. kind \in DOMAIN Handle
    BY LeftIsOrdered
  <1>4. Sends(p, raw) /\ raw \in Value \cup {None}
    BY <1>2, <1>3, RawValues
  <1> DEFINE object == [objects[o] EXCEPT ![p] = raw]
  <1>5. objects[o] \in [Properties(kind) -> Value \cup {None}]
    BY DEF ObjectsInv
  <1>6. object \in [Properties(kind) -> Value \cup {None}] /\ object[p] = raw
    BY <1>2, <1>4, <1>5
  <1>7. object # None
    BY <1>3, <1>6, HandlesAssumption
  <1>8. o \in DOMAIN objects' /\ objects'[o] = object
    BY DEF Becomes
  <1> HIDE DEF object
  <1> DEFINE heard == Subscribed(kind, p, object[p])
             read == Get(kind, p, object)
  <1>9. /\ heard # {} => read.errors = {} /\ {Seen(v) : v \in heard} = {Seen(read.value)}
        /\ heard = {} => read.errors # {} \/ <<kind, p>> = <<"AccessPoint", "Scanning">>
    BY <1>2, <1>3, <1>4, <1>6, <1>7, ToldAsRead
  <1>10. View(objects', o) = IF read.errors = {} THEN {Seen(read.value)} ELSE {}
    BY <1>2, <1>8 DEF View
  <1> QED
    BY <1>2, <1>6, <1>9, <1>10

\* What a change adds to what is told, and that the newest is of this change.
LEMMA ChangeTells ==
    ASSUME RestInv, ObjectsInv,
           NEW o \in DOMAIN objects, NEW p \in Varied, NEW raw \in Raw(kind, p), Becomes(o, p, raw)
    PROVE  /\ \A l \in Heard' : \/ l \in Heard
                               \/ /\ Streaming /\ o = path /\ p = on
                                  /\ l.at = changes' /\ l.value \in View(objects', o)
           /\ Streaming /\ bus /\ o = path =>
                  \/ View(objects', o) = {} \/ <<kind, on>> = <<"AccessPoint", "Scanning">>
                  \/ \E l \in Heard' : l.at = changes' /\ View(objects', o) = {l.value}
           /\ Heard \subseteq Heard'
  <1> DEFINE told2 == IF Streaming /\ bus /\ o = path /\ p = on THEN Subscribed(kind, p, raw) ELSE {}
  <1>1. Heard' = Heard \cup {Line(changes', v) : v \in told2}
    <2>1. lines' = lines /\ calls' = calls \cup {Line(changes', v) : v \in told2}
      BY DEF Becomes
    <2> HIDE DEF told2
    <2> QED
      BY <2>1 DEF Heard
  <1>2. \A v : Line(changes', v).at = changes' /\ Line(changes', v).value = Seen(v)
    BY DEF Line
  <1>3. ASSUME Streaming
        PROVE  LET heard == Subscribed(kind, p, raw) IN
               /\ p = on
               /\ heard # {} => {Seen(v) : v \in heard} = View(objects', o)
               /\ heard = {} => View(objects', o) = {} \/ <<kind, on>> = <<"AccessPoint", "Scanning">>
    BY <1>3, ChangesAreHeard
  <1>4. ASSUME NEW l \in Heard', l \notin Heard
        PROVE  /\ Streaming /\ o = path /\ p = on
               /\ l.at = changes' /\ l.value \in View(objects', o)
    <2>1. PICK v \in told2 : l = Line(changes', v)
      BY <1>1, <1>4
    <2>2. Streaming /\ o = path /\ p = on /\ v \in Subscribed(kind, p, raw)
      BY <2>1
    <2>3. Seen(v) \in View(objects', o)
      BY <1>3, <2>2
    <2> QED
      BY <1>2, <2>1, <2>2, <2>3
  <1>5. ASSUME Streaming, bus, o = path, Subscribed(kind, p, raw) # {}
        PROVE  \E l \in Heard' : l.at = changes' /\ View(objects', o) = {l.value}
    <2>1. PICK v \in Subscribed(kind, p, raw) : TRUE
      BY <1>5
    <2>2. v \in told2 /\ Seen(v) \in View(objects', o)
      BY <1>3, <1>5, <2>1
    <2>3. Line(changes', v) \in Heard'
      BY <1>1, <2>2
    <2>4. \A w \in View(objects', o) : View(objects', o) = {w}
      BY DEF View
    <2> QED
      BY <1>2, <2>2, <2>3, <2>4
  <1>6. Heard \subseteq Heard'
    BY <1>1
  <1> QED
    BY <1>3, <1>4, <1>5, <1>6

LEMMA LineStaysApart ==
    ASSUME RestInv, ObjectsInv, OwnTypes, LineTrue, WorldStep
    PROVE  LineTrue'
  <1>1. path' = path
    BY WorldFrame
  <1>2. path # None => path \in Object /\ held[path] \subseteq held'[path]
    BY HeldGrows DEF OwnTypes
  <1>3. CASE Heard' = Heard
    BY <1>1, <1>2, <1>3 DEF LineTrue
  <1>4. CASE Heard' # Heard
    <2>1. PICK o \in DOMAIN objects, p \in Varied : \E raw \in Raw(kind, p) : Becomes(o, p, raw)
      BY <1>4, WorldObjects
    <2>2. PICK raw \in Raw(kind, p) : Becomes(o, p, raw)
      BY <2>1
    <2>3. \A l \in Heard' : l \in Heard \/ (Streaming /\ o = path /\ l.value \in View(objects', o))
      BY <2>2, ChangeTells
    <2>4. View(objects', o) \subseteq held'[o]
      BY <2>2 DEF Becomes, ObjectsInv
    <2> QED
      BY <1>1, <1>2, <2>3, <2>4 DEF LineTrue
  <1> QED
    BY <1>3, <1>4

LEMMA EntriesStayApart ==
    ASSUME ObjectsInv, OwnTypes, OverviewInv, EntriesTrue, WorldStep
    PROVE  EntriesTrue'
  <1>1. entries' = entries
    BY WorldFrame
  <1>2. DOMAIN entries \subseteq Object
    BY DEF OwnTypes, OverviewInv
  <1> QED
    BY <1>1, <1>2, HeldGrows DEF EntriesTrue

LEMMA OwnTypesStay ==
    ASSUME RestInv, ObjectsInv, ObjectTypes, OverviewInv, OwnTypes, Work
    PROVE  OwnTypes'
  <1>1. /\ UNCHANGED <<good, ref, bus, changes>> /\ result = "running" /\ left # <<>>
        /\ Head(left).do # "list" => listed' = listed
        /\ Head(left).do \notin {"match", "each"} => path' = path
        /\ Head(left).do # "call" => sent' = sent
        /\ Head(left).do \notin {"get", "all"} => stale' = stale
        /\ Head(left).do # "print" => Heard' = Heard
    BY WorkFrame
  <1>2. DOMAIN listed' \subseteq Object
    BY <1>1, WorkIs, ListMoves DEF OwnTypes, ObjectTypes, ObjectsInv
  <1>3. path' \in Object \cup {None}
    <2>1. Match => path' \in {path} \cup DOMAIN listed
      BY DEF Match, Matches
    <2>2. Each => path' \in {None} \cup DOMAIN listed
      BY EachMoves DEF OverviewInv
    <2> QED
      BY <1>1, <2>1, <2>2, WorkIs DEF OwnTypes
  <1>4. sent' \in Object \cup {None}
    BY <1>1, WorkIs DEF CallFails, CallSucceeds, OwnTypes
  <1>5. stale' \in BOOLEAN
    BY <1>1, WorkIs DEF GetOne, ReadAll, OwnTypes
  <1>6. /\ result' \in {"running", "ok", "cli"} \cup PublicKind
        /\ result' = "running" <=> left' # <<>>
        /\ agent' \in BOOLEAN
        /\ cause' # None => result' \notin {"running", "ok"}
    <2>1. CASE Proceeds
      BY <1>1, <2>1 DEF Proceeds, OwnTypes
    <2>2. CASE BeginsAgain
      BY <1>1, <2>2, LeftMoves DEF BeginsAgain, OwnTypes
    <2>3. CASE Stops
      BY <2>3 DEF Stops, PublicKind
    <2> QED
      BY <2>1, <2>2, <2>3, LeftMoves
  <1>7. \A l \in Heard' : l.at \in 0..changes'
    <2>1. CASE Head(left).do = "print"
      <3>1. \A l \in Heard' : l \in Heard \/ l = Line(changes, found[on])
        BY <2>1, PrintTells
      <3>2. Line(changes, found[on]).at = changes /\ changes \in 0..changes
        BY CommandsAssumption DEF Line, OwnTypes
      <3> QED
        BY <1>1, <3>1, <3>2 DEF OwnTypes
    <2>2. CASE Head(left).do # "print"
      BY <1>1, <2>2 DEF OwnTypes
    <2> QED
      BY <2>1, <2>2
  <1> QED
    BY <1>1, <1>2, <1>3, <1>4, <1>5, <1>6, <1>7 DEF OwnTypes

LEMMA OwnTypesStayApart ==
    ASSUME RestInv, ObjectsInv, OwnTypes, WorldStep
    PROVE  OwnTypes'
  <1>1. /\ UNCHANGED <<good, ref, left, listed, path, result, agent, sent, cause>>
    BY WorldFrame
  <1>2. bus' \in BOOLEAN /\ stale' \in BOOLEAN
    BY DEF WorldStep, Change, Becomes, Rename, Vanish, BusLost, Applied, HandlerPrints, Ended, vars, world, past, OwnTypes
  <1>3. changes' \in 0..MaxChanges
    <2>1. \/ changes' = changes
          \/ changes < MaxChanges /\ changes' = changes + 1
      BY DEF WorldStep, Change, Rename, Vanish, BusLost, Applied, HandlerPrints, Ended, Changes, vars, world
    <2> QED
      BY <2>1, CommandsAssumption DEF OwnTypes
  <1>4. \A l \in Heard' : l.at \in 0..changes'
    <2>1. changes \in Nat /\ (changes' = changes \/ changes' = changes + 1)
      BY CommandsAssumption DEF OwnTypes, WorldStep, Change, Rename, Vanish, BusLost, Applied,
         HandlerPrints, Ended, Changes, vars, world
    <2>2. CASE Heard' = Heard
      BY <2>1, <2>2 DEF OwnTypes
    <2>3. CASE Heard' # Heard
      <3>1. PICK o \in DOMAIN objects, p \in Varied : \E raw \in Raw(kind, p) : Becomes(o, p, raw)
        BY <2>3, WorldObjects
      <3>2. \A l \in Heard' : l \in Heard \/ l.at = changes'
        BY <3>1, ChangeTells
      <3> QED
        BY <2>1, <3>2 DEF OwnTypes
    <2> QED
      BY <2>2, <2>3
  <1> QED
    BY <1>1, <1>2, <1>3, <1>4 DEF OwnTypes

-----------------------------------------------------------------------------
(* A monitor keeps up.                                                     *)

LEMMA StreamStays ==
    ASSUME RestInv, ObjectsInv, OwnTypes, EarlyInv, StreamInv, Work
    PROVE  StreamInv'
  <1> DEFINE do == Head(left).do
  <1>1. /\ UNCHANGED <<kind, command, on, bus>> /\ left # <<>>
        /\ do # "call" => objects' = objects
        /\ do \notin {"get", "all"} => stale' = stale
        /\ do \notin {"get", "all", "echo"} => found' = found
        /\ do \notin {"match", "each"} => path' = path
        /\ do # "print" => Heard' = Heard
    BY WorkFrame
  <1> DEFINE apart == <<kind, on>> = <<"AccessPoint", "Scanning">>
  <1> SUFFICES ASSUME "stream" \in Doing(left')
               PROVE  /\ "print" \in Doing(left') /\ "get" \notin Doing(left') /\ "all" \notin Doing(left') =>
                             on \in DOMAIN found'
                      /\ "print" \in Doing(left') /\ on \in DOMAIN found' /\ ~stale' =>
                             View(objects', path') \subseteq {Seen(found'[on])}
                      /\ "print" \notin Doing(left') /\ ~stale' /\ bus /\ ~apart =>
                             NewestIsSo'
    BY <1>1, ViewsLater DEF StreamInv, Yet
  <1>2. Proceeds /\ ~Stops /\ left' = Tail(left) /\ "stream" \in Doing(left)
        /\ Doing(left) = {do} \cup Doing(left')
    BY LeftMoves, NothingLeft DEF Ordered, StreamOrder, Proceeds, Stops
  <1>3. /\ {"call", "echo", "each"} \cap Doing(left) = {}
        /\ "print" \notin Doing(left) <=> do \in {"subscribe", "stream"}
        /\ do = "print" => "get" \notin Doing(left) /\ "all" \notin Doing(left)
        /\ do = "get" => Prints(kind, command) = {Head(left).of}
    BY <1>2, LeftMoves DEF Ordered, StreamOrder
  <1>4. objects' = objects
    BY <1>1, <1>2, <1>3
  <1>5. CASE do \in {"get", "all"}
    <2>1. GetOne \/ ReadAll
      BY <1>5, WorkIs
    <2>2. on \in DOMAIN found' => View(objects, path) = {Seen(found'[on])}
      BY <1>2, <2>1, ReadsSee
    <2>3. "print" \in Doing(left')
      BY <1>2, <1>3, <1>5
    <2>4. on \in DOMAIN found'
      <3>1. CASE do = "get"
        BY <1>2, <1>3, <3>1, WorkIs, GetMoves DEF RestInv, Now
      <3>2. CASE do = "all"
        <4> DEFINE object == objects[path]
        <4>1. object # None /\ GetAll(kind, object).errors = {} /\ found' = GetAll(kind, object).value
          BY <1>2, <3>2, WorkIs, AllMoves
        <4> HIDE DEF object
        <4>2. found' = [p \in Properties(kind) |-> Batched(kind, p, object).value]
          BY <4>1, LeftIsOrdered, GetAllFails
        <4>3. on \in Properties(kind)
          BY <1>1, <1>2, MonitorsSignals
        <4> QED
          BY <4>2, <4>3
      <3> QED
        BY <1>5, <3>1, <3>2
    <2> QED
      BY <1>1, <1>4, <1>5, <2>2, <2>3, <2>4
  <1>6. CASE do = "print"
    <2>1. on \in DOMAIN found
      BY <1>2, <1>3, <1>6 DEF StreamInv, Yet
    <2> DEFINE line == Line(changes, found[on])
    <2>2. line \in Heard' /\ \A l \in Heard' : l \in Heard \/ l = line
      BY <1>6, <2>1, PrintTells
    <2>3. line.at = changes /\ line.value = Seen(found[on])
      BY DEF Line
    <2>4. line \in Newest(Heard')
      BY <2>2, <2>3, CommandsAssumption DEF OwnTypes, Newest
    <2>5. ~stale => View(objects, path) \in {{}, {line.value}}
      BY <1>2, <1>6, <2>1, <2>3 DEF StreamInv, Yet
    <2>6. View(objects, path)' = View(objects, path)
      BY <1>1, <1>4, <1>6, ViewsLater
    <2>7. ~stale => NewestIsSo'
      BY <2>4, <2>5, <2>6 DEF NewestIsSo
    <2>8. ~stale => View(objects, path) \subseteq {Seen(found[on])}
      BY <1>2, <1>6, <2>1 DEF StreamInv, Yet
    <2> QED
      BY <1>1, <1>4, <1>6, <2>1, <2>7, <2>8
  <1>7. CASE do = "match"
    <2>1. found' = <<>>
      BY <1>1, <1>2, <1>7 DEF EarlyInv, Yet
    <2>2. "print" \in Doing(left') /\ ("get" \in Doing(left') \/ "all" \in Doing(left'))
      <3>1. "print" \in Doing(left) /\ ("get" \in Doing(left) \/ "all" \in Doing(left))
        BY <1>2, <1>3, <1>7, LeftMoves DEF Ordered, StreamOrder
      <3> QED
        BY <1>2, <1>7, <3>1
    <2> QED
      BY <2>1, <2>2
  <1>8. CASE do \notin {"get", "all", "print", "match"}
    <2>1. UNCHANGED <<objects, stale, found, path, Heard>>
      BY <1>1, <1>2, <1>3, <1>4, <1>8
    <2>2. \A step \in {"get", "all", "print"} : step \in Doing(left') <=> step \in Doing(left)
      BY <1>2, <1>8
    <2>3. NewestIsSo => NewestIsSo'
      BY <1>1, <2>1, ViewsLater DEF NewestIsSo
    <2> QED
      BY <1>1, <1>2, <2>1, <2>2, <2>3 DEF StreamInv, Yet
  <1> QED
    BY <1>5, <1>6, <1>7, <1>8

LEMMA StreamStaysApart ==
    ASSUME RestInv, ObjectsInv, OwnTypes, HeldInv, StreamInv, WorldStep
    PROVE  StreamInv'
  <1>1. /\ UNCHANGED <<kind, on, left, path, found>>
        /\ stale => stale'
        /\ bus' => bus
    BY WorldFrame
  <1> DEFINE apart == <<kind, on>> = <<"AccessPoint", "Scanning">>
             KeepsUp == "print" \notin Doing(left) /\ (bus' /\ ~apart => NewestIsSo')
  <1> SUFFICES ASSUME "stream" \in Doing(left)
               PROVE  /\ "print" \in Doing(left) /\ on \in DOMAIN found /\ ~stale' =>
                             View(objects', path) \subseteq {Seen(found[on])}
                      /\ "print" \notin Doing(left) /\ ~stale' /\ bus' /\ ~apart =>
                             NewestIsSo'
    BY <1>1, ViewsLater DEF StreamInv, Yet
  <1>2. left # <<>>
    BY NothingLeft
  <1>3. "print" \notin Doing(left) <=> Head(left).do \in {"subscribe", "stream"}
    BY <1>2, LeftIsOrdered DEF Ordered, StreamOrder
  <1>4. applying = {}
    BY DEF HeldInv, Telling, ObjectsInv
  <1>5. CASE View(objects', path) \in {{}, View(objects, path)} /\ Heard' = Heard
    <2>1. View(objects, path)' \in {{}, View(objects, path)}
      BY <1>1, <1>5, ViewsLater
    <2>2. NewestIsSo => NewestIsSo'
      BY <1>5, <2>1 DEF NewestIsSo
    <2> QED
      BY <1>1, <1>5, <2>2 DEF StreamInv, Yet
  <1>6. ASSUME NEW o \in DOMAIN objects, NEW p \in Varied, NEW raw \in Raw(kind, p), Becomes(o, p, raw),
               changes' = changes + 1
        PROVE  \/ stale'
               \/ View(objects', path) \in {{}, View(objects, path)} /\ Heard' = Heard
               \/ KeepsUp
    <2>1. CASE o # path
      <3>1. View(objects', path) = View(objects, path)
        <4>1. /\ path \in DOMAIN objects' <=> path \in DOMAIN objects
              /\ path \in DOMAIN objects' => objects'[path] = objects[path]
          BY <1>6, <2>1 DEF Becomes
        <4> QED
          BY <4>1, SameViews
      <3> QED
        BY <1>6, <2>1, <3>1, ChangeTells
    <2>2. CASE o = path /\ Streaming
      <3>1. "print" \notin Doing(left)
        BY <1>3, <2>2 DEF Streaming, At
      <3>2. CASE bus /\ ~apart /\ View(objects', path) # {}
        <4>1. PICK l \in Heard' : l.at = changes' /\ View(objects', path) = {l.value}
          BY <1>6, <2>2, <3>2, ChangeTells
        <4>2. \A m \in Heard' : m \in Heard \/ m.at = changes'
          BY <1>6, ChangeTells
        <4>3. \A m \in Heard : m.at \in 0..changes
          BY DEF OwnTypes
        <4>4. l \in Newest(Heard')
          BY <1>6, <4>1, <4>2, <4>3, CommandsAssumption DEF OwnTypes, Newest
        <4>5. NewestIsSo'
          BY <1>1, <4>1, <4>4, ViewsLater DEF NewestIsSo
        <4> QED
          BY <3>1, <4>5
      <3>3. CASE ~bus \/ apart
        BY <1>1, <3>1, <3>3
      <3>4. CASE bus /\ View(objects', path) = {} /\ ~apart
        <4>1. NewestIsSo \/ stale
          BY <3>1, <3>4 DEF StreamInv, Yet
        <4>2. \A m \in Heard' : m \in Heard \/ m.at = changes'
          BY <1>6, ChangeTells
        <4>3. Heard \subseteq Heard'
          BY <1>6, ChangeTells
        <4>4. CASE stale
          BY <1>1, <4>4
        <4>5. CASE NewestIsSo
          <5>1. Heard' = Heard
            <6>1. \A m \in Heard' : m \in Heard \/ m.value \in View(objects', path)
              BY <1>6, <2>2, ChangeTells
            <6> QED
              BY <3>4, <4>3, <6>1
          <5>2. View(objects, path)' = {}
            BY <1>1, <3>4, ViewsLater
          <5> QED
            BY <3>1, <4>5, <5>1, <5>2 DEF NewestIsSo
        <4> QED
          BY <4>1, <4>4, <4>5
      <3> QED
        BY <3>2, <3>3, <3>4
    <2>3. CASE o = path /\ ~Streaming
      BY <1>6, <2>3 DEF Becomes
    <2> QED
      BY <2>1, <2>2, <2>3
  <1>7. ASSUME NEW q, objects' = Without(objects, q)
        PROVE  View(objects', path) \in {{}, View(objects, path)}
    BY <1>7 DEF Without, View
  <1>8. ASSUME objects' = objects
        PROVE  View(objects', path) = View(objects, path)
    BY <1>8
  <1>9. CASE stale'
    BY <1>9
  <1>10. \/ stale'
         \/ View(objects', path) \in {{}, View(objects, path)} /\ Heard' = Heard
         \/ KeepsUp
    BY <1>4, <1>6, <1>7, <1>8, WorldObjects
  <1> QED
    BY <1>5, <1>9, <1>10

-----------------------------------------------------------------------------
(* The beginning.                                                          *)

LEMMA WithHas ==
    ASSUME NEW f, NEW g, NEW p
    PROVE  /\ p \in DOMAIN f => p \in DOMAIN With(f, g) /\ With(f, g)[p] = f[p]
           /\ p \notin DOMAIN f /\ p \in DOMAIN g => p \in DOMAIN With(f, g) /\ With(f, g)[p] = g[p]
  BY DEF With

\* The command that sets AutoConnect reads nothing back.
LEMMA SetAutoConnectTells ==
    Doing(Command["KnownNetwork"]["setAutoConnect"]) \subseteq Telling
  <1> DEFINE c == "setAutoConnect"
             steps == <<Step("parse", None), Step("call", "SetAutoConnect"),
                        Step("echo", "AutoConnect"), Step("print", "AutoConnect")>>
             rest == With(knownNetworkForget, With(knownNetworkShow, knownNetworkMonitor))
             own == With(knownNetworkAutoConnect, rest)
             each == With([oneStatus |-> knownNetworkSingleStatus], own)
             found1 == WithRef(knownNetworkByRef, each)
             first == [list |-> knownNetworkList, status |-> knownNetworkStatus]
  <1>1. Command["KnownNetwork"] = With(first, found1)
    BY DEF Command, knownNetwork
  <1>2. c \in DOMAIN own /\ own[c] = steps
    <2>1. c \in DOMAIN knownNetworkAutoConnect /\ knownNetworkAutoConnect[c] = steps
      BY DEF knownNetworkAutoConnect
    <2> HIDE DEF rest, steps
    <2> QED
      BY <2>1, WithHas
  <1>3. c \in DOMAIN each /\ each[c] = steps
    <2>1. c \notin DOMAIN [oneStatus |-> knownNetworkSingleStatus]
      OBVIOUS
    <2> HIDE DEF own, steps
    <2> QED
      BY <1>2, <2>1, WithHas
  <1>4. c \in DOMAIN found1 /\ found1[c] = Find \o steps
    <2> HIDE DEF each, steps
    <2> QED
      BY <1>3 DEF WithRef, knownNetworkByRef
  <1>5. With(first, found1)[c] = Find \o steps
    <2>1. c \notin DOMAIN first
      OBVIOUS
    <2> HIDE DEF found1, first, steps
    <2> QED
      BY <1>4, <2>1, WithHas
  <1> DEFINE S == {Step("list", None), Step("match", None), Step("open", None), Step("parse", None),
                   Step("call", "SetAutoConnect"), Step("echo", "AutoConnect"),
                   Step("print", "AutoConnect")}
  <1>6. Find \in Seq(S) /\ steps \in Seq(S)
    BY DEF Find
  <1>7. \A s \in S : s.do \in Telling
    BY DEF Step, Telling
  <1> HIDE DEF S, steps, found1, first
  <1>8. Find \o steps \in Seq(S)
    BY <1>6, ConcatProperties
  <1>9. Doing(Find \o steps) \subseteq Telling
    BY <1>7, <1>8 DEF Doing
  <1> QED
    BY <1>1, <1>5, <1>9

LEMMA StartsRight ==
    ASSUME Init
    PROVE  /\ RestInv /\ left = Command[kind][command] /\ left # <<>>
           /\ Head(left).do \in {"parse", "list"}
  <1>1. PICK r \in Run : kind = r[1] /\ command = r[2]
    BY DEF Init
  <1>2. Run \subseteq {<<k, c>> : k \in DOMAIN Command, c \in UNION {DOMAIN Command[l] : l \in DOMAIN Command}}
    BY CommandsAssumption
  <1>3. r = <<kind, command>>
    BY <1>1, <1>2
  <1>4. left = Command[kind][command] /\ on \in Prints(kind, command)
    BY DEF Init
  <1>5. Unfolds(kind, command)
    BY <1>1, OrderAssumption
  <1> QED
    BY <1>3, <1>4, <1>5 DEF RestInv, Unfolds

LEMMA StartsWithObjects ==
    ASSUME Init
    PROVE  ObjectsInv /\ ObjectTypes
  <1>1. kind \in DOMAIN Handle
    BY StartsRight, LeftIsOrdered
  <1>2. PICK type \in IF command = "connect" THEN Good ELSE {"v1"},
             known \in IF command = "connect" THEN {"v1", None} ELSE {"v1"} :
                objects = [o \in Object |-> [p \in Properties(kind) |->
                    CASE p = "Type" -> type [] p = "KnownNetwork" -> known [] OTHER -> "v1"]]
    BY DEF Init
  <1>3. Good \subseteq Value /\ "v1" \in Good
    BY DEF Value, Text, Good
  <1>4. \A o \in Object, p \in Properties(kind) :
            objects[o][p] \in Good \/ (p = "KnownNetwork" /\ objects[o][p] = None /\ command = "connect")
    <2>1. type \in Good /\ (known = "v1" \/ (known = None /\ command = "connect"))
      BY <1>2, <1>3
    <2> QED
      BY <1>2, <1>3, <2>1
  <1>5. \A o \in Object : objects[o] \in [Properties(kind) -> Value \cup {None}]
    BY <1>2, <1>3, <1>4
  <1>6. command = "connect" => None \in Raw(kind, "KnownNetwork")
    <2>1. Handle["Network"].get["KnownNetwork"] = Optional(parseOptionalObjectPath)
      BY DEF Handle, NetworkGet
    <2>2. Handle["Network"].get["KnownNetwork"].absent # {}
      BY <2>1 DEF Optional
    <2> QED
      BY <2>2, StartsRight, VariedAreProperties DEF Raw
  <1>7. \A o \in Object, p \in Properties(kind) : objects[o][p] \in Raw(kind, p)
    BY <1>1, <1>4, <1>6, RawValues
  <1>8. DOMAIN objects = Object
    BY <1>2
  <1>9. DOMAIN names = Object /\ (\A o \in Object : names[o] \in Name) /\ DOMAIN held = Object /\ applying = {}
    BY DEF Init
  <1> QED
    BY <1>5, <1>7, <1>8, <1>9 DEF ObjectsInv, ObjectTypes

LEMMA InitCommand == Init => CommandInv
  <1> SUFFICES ASSUME Init PROVE CommandInv
    OBVIOUS
  <1>1. /\ RestInv /\ left # <<>> /\ Head(left).do \in {"parse", "list"}
        /\ left = Command[kind][command]
    BY StartsRight
  <1>2. Ordered(kind, command, left) /\ Unfolds(kind, command)
    BY <1>1, LeftIsOrdered
  <1>3. /\ listed = <<>> /\ path = None /\ todo = {} /\ found = <<>> /\ entries = <<>> /\ Heard = {}
        /\ result = "running" /\ agent = FALSE /\ sent = None /\ cause = None /\ stale = FALSE
        /\ bus = TRUE /\ changes = 0
    BY DEF Init, Heard
  <1>4. OwnTypes
    <2>1. good \in BOOLEAN /\ ref \in Object \cup {None, "v1"}
      BY DEF Init
    <2>2. 0 \in 0..MaxChanges
      BY CommandsAssumption
    <2>3. DOMAIN listed \subseteq Object
      BY <1>3
    <2>4. result = "running" <=> left # <<>>
      BY <1>1, <1>3
    <2>5. cause # None => result \notin {"running", "ok"}
      BY <1>3
    <2> QED
      BY <1>3, <2>1, <2>2, <2>3, <2>4, <2>5, Zenon DEF OwnTypes
  <1>5. EarlyInv /\ FoundInv /\ LineTrue /\ EntriesTrue
    BY <1>3 DEF EarlyInv, FoundInv, LineTrue, EntriesTrue
  <1>6. OverviewInv
    <2>1. "enter" \notin Doing(left)
      BY <1>1, <1>2 DEF Ordered, OverviewOrder
    <2> QED
      BY <1>3, <2>1 DEF OverviewInv, Yet
  <1>7. KnowsNetwork /\ HasAgent /\ NoAgentMeansChanged
    <2>1. command = "connect" => /\ "call" \in Doing(left) => "all" \in Doing(left)
                                 /\ "call" \in Doing(left) => "register" \in Doing(left)
      BY <1>1, <1>2 DEF Ordered, ConnectOrder
    <2> QED
      BY <1>3, <2>1, AbsenceAssumption DEF KnowsNetwork, HasAgent, NoAgentMeansChanged, Yet
  <1>8. HeldInv
    <2>1. command = "setAutoConnect" => kind = "KnownNetwork"
      BY <1>2 DEF Ordered, AssignOrder
    <2>2. command = "setAutoConnect" => Doing(left) \subseteq Telling
      BY <1>1, <2>1, SetAutoConnectTells
    <2>3. \A o \in DOMAIN objects : View(objects, o) \subseteq held[o]
      <3>1. held = [o \in Object |-> View(objects, o)]
        BY DEF Init
      <3>2. DOMAIN objects \subseteq Object
        BY StartsWithObjects DEF ObjectsInv
      <3> QED
        BY <3>1, <3>2
    <2> QED
      BY <2>2, <2>3 DEF HeldInv
  <1>9. AssignInv
    <2>1. "echo" \in Doing(left) => "call" \in Doing(left)
      BY <1>1, <1>2 DEF Ordered, AssignOrder
    <2> QED
      BY <1>3, <2>1 DEF AssignInv, Yet
  <1>10. StreamInv
    <2>1. "stream" \in Doing(left) =>
              "print" \in Doing(left) /\ ("get" \in Doing(left) \/ "all" \in Doing(left))
      BY <1>1, <1>2 DEF Ordered, StreamOrder
    <2> QED
      BY <1>3, <2>1 DEF StreamInv, Yet
  <1> QED
    BY <1>1, <1>4, <1>5, <1>6, <1>7, <1>8, <1>9, <1>10, StartsWithObjects DEF CommandInv

LEMMA NextCommand == CommandInv /\ [Next]_vars => CommandInv'
  <1> SUFFICES ASSUME CommandInv, Work \/ WorldStep PROVE CommandInv'
    BY NextSplits
  <1> USE DEF CommandInv
  <1>1. CASE Work
    <2>1. RestInv' /\ ObjectsInv' /\ ObjectTypes' /\ OwnTypes' /\ EarlyInv' /\ OverviewInv'
      BY <1>1, LeftMoves, ObjectsStayByWork, ObjectTypesStay, OwnTypesStay, EarlyStays, OverviewStays
    <2>2. KnowsNetwork' /\ HasAgent' /\ NoAgentMeansChanged'
      BY <1>1, ConnectStays
    <2>3. HeldInv' /\ AssignInv' /\ FoundInv' /\ LineTrue' /\ EntriesTrue' /\ StreamInv'
      BY <1>1, HeldStays, AssignStays, FoundStays, LineStays, EntriesStay, StreamStays
    <2> QED
      BY <2>1, <2>2, <2>3
  <1>2. CASE WorldStep
    <2>1. RestInv'
      BY <1>2, WorldFrame DEF RestInv
    <2>2. ObjectsInv' /\ ObjectTypes' /\ OwnTypes' /\ EarlyInv' /\ OverviewInv'
      BY <1>2, ObjectsStay, ObjectTypesStayApart, OwnTypesStayApart, EarlyStays, OverviewStaysApart
    <2>3. KnowsNetwork' /\ HasAgent' /\ NoAgentMeansChanged'
      BY <1>2, ConnectStaysApart
    <2>4. HeldInv' /\ AssignInv' /\ FoundInv' /\ LineTrue' /\ EntriesTrue' /\ StreamInv'
      BY <1>2, HeldStaysApart, AssignStaysApart, FoundStaysApart, LineStaysApart,
         EntriesStayApart, StreamStaysApart
    <2> QED
      BY <2>1, <2>2, <2>3, <2>4
  <1> QED
    BY <1>1, <1>2

-----------------------------------------------------------------------------
(* A command that cannot reach its object.                                 *)

LEMMA FailureTells ==
    ASSUME NEW r, NEW why, FailsBy(r.errors, why), TellsUnavailable(r)
    PROVE  result' = "unavailable"
  BY DEF FailsBy, FailsWith, TellsUnavailable

LEMMA WorkReaches ==
    ASSUME RestInv, Work
    PROVE  ReachedStep
  <1> DEFINE Tells == cause' = cause \/ cause' \notin {"lost", "gone"} \/ result' = "unavailable"
  <1>1. left # <<>> /\ kind \in DOMAIN Handle
    BY WorkFrame, LeftIsOrdered
  <1>2. /\ Head(left).do = "get" => Head(left).of \in Properties(kind)
        /\ Head(left).do = "call" => Head(left).of \in DOMAIN Handle[kind].calls
    BY <1>1, LeftIsOrdered DEF Ordered, AsksRight
  <1>3. Goes => Tells
    BY DEF Goes
  <1>4. /\ \A kinds, why : FailsWith(kinds, why) /\ why \notin {"lost", "gone"} => Tells
        /\ \A errors, why : FailsBy(errors, why) /\ why \notin {"lost", "gone"} => Tells
    BY DEF FailsBy, FailsWith
  <1>5. /\ FailsBy({Unlisted}, "lost") => Tells
        /\ FailsBy(Unopened(TRUE), "lost") => Tells
        /\ FailsBy({AgentUnavailable}, "lost") => Tells
        /\ FailsBy(Delegate(Raise(Fails(DBus("method", Plain)))).errors, "lost") => Tells
    <2>1. AgentUnavailable.public = "unavailable"
      <3>1. "method" \in Category /\ "method" # "property"
        BY DEF Category
      <3> QED
        BY <3>1, TagsTell DEF AgentUnavailable
    <2>2. FailsBy(Delegate(Raise(Fails(DBus("method", Plain)))).errors, "lost") => Tells
      BY <1>1, UnreachableTells, FailureTells
    <2> QED
      BY <1>1, <2>1, <2>2, UnreachableTells DEF FailsBy, FailsWith
  <1> HIDE DEF Tells
  <1>6. ASSUME ListObjects \/ Match \/ ParseArgument \/ LookUp \/ Subscribe PROVE Tells
    <2>1. CASE ListObjects
      <3>1. \/ Goes \/ FailsBy({Unlisted}, "lost")
            \/ FailsBy(Listing(kind, names).errors, "value")
        BY <2>1 DEF ListObjects
      <3> QED
        BY <1>3, <1>4, <1>5, <3>1
    <2>2. CASE Match \/ ParseArgument \/ LookUp
      <3>1. Goes \/ FailsBy({Unlisted}, "lost") \/ FailsWith({"cli"}, "argument")
        BY <2>2 DEF Match, ParseArgument, LookUp
      <3> QED
        BY <1>3, <1>4, <1>5, <3>1
    <2>3. CASE Subscribe
      BY <1>3, <1>5, <2>3 DEF Subscribe
    <2> QED
      BY <1>6, <2>1, <2>2, <2>3
  <1>7. ASSUME Open \/ OpenAll PROVE ReachedStep
    <2>1. \/ Goes \/ FailsBy(Unopened(TRUE), "lost") \/ FailsBy(Unopened(FALSE), "no wsc")
          \/ cause' = "gone" /\ (At("open") \/ At("open all"))
      BY <1>7 DEF Open, OpenAll, FailsBy, FailsWith
    <2>2. Tells => ReachedStep
      BY DEF Tells, ReachedStep
    <2>3. FailsBy(Unopened(FALSE), "no wsc") => Tells
      BY <1>4
    <2>4. cause' = "gone" /\ (At("open") \/ At("open all")) => ReachedStep
      BY DEF ReachedStep
    <2> QED
      BY <1>3, <1>5, <2>1, <2>2, <2>3, <2>4
  <1>8. ASSUME Each \/ Echo \/ Enter \/ PrintLine \/ Interrupt PROVE Tells
    BY <1>3, <1>8 DEF Each, Echo, Enter, PrintLine, Interrupt, Tells
  <1>9. ASSUME GetOne PROVE Tells
    <2> DEFINE read == Get(kind, Now.of, Here)
    <2>1. Now.of \in Properties(kind)
      BY <1>2, <1>9 DEF GetOne, At, Now
    <2>2. Goes \/ FailsBy(read.errors, Absence)
      BY <1>9 DEF GetOne
    <2>3. Absence \in {"lost", "gone"} => Here = None
      BY DEF Absence, Here
    <2>4. Here = None => TellsUnavailable(read)
      BY <1>1, <2>1, UnreachableTells
    <2> HIDE DEF read
    <2>5. FailsBy(read.errors, Absence) => Tells
      BY <2>3, <2>4, FailureTells DEF Tells, FailsBy, FailsWith
    <2> QED
      BY <1>3, <2>2, <2>5
  <1>10. ASSUME ReadAll PROVE Tells
    <2> DEFINE read == GetAll(kind, Here)
    <2>1. Goes \/ FailsBy(read.errors, Absence)
      BY <1>10 DEF ReadAll
    <2>2. Absence \in {"lost", "gone"} => Here = None
      BY DEF Absence, Here
    <2>3. Here = None => TellsUnavailable(read)
      BY <1>1, UnreachableTells
    <2> HIDE DEF read
    <2>4. FailsBy(read.errors, Absence) => Tells
      BY <2>2, <2>3, FailureTells DEF Tells, FailsBy, FailsWith
    <2> QED
      BY <1>3, <2>1, <2>4
  <1>11. ASSUME ReadTree PROVE ReachedStep
    BY <1>11 DEF ReadTree, Goes, FailsBy, FailsWith, ReachedStep
  <1>12. ASSUME Register PROVE Tells
    <2>1. \/ Goes \/ FailsWith({"cli"}, "argument") \/ FailsBy({AgentUnavailable}, "lost")
          \/ FailsBy({AgentUnavailable}, "refused") \/ cause' = cause
      BY <1>12 DEF Register
    <2> QED
      BY <1>3, <1>4, <1>5, <2>1 DEF FailsBy, Tells
  <1>13. ASSUME CallFails PROVE Tells
    <2> DEFINE answer == Do(kind, Now.of, TRUE, None)
    <2>1. TellsUnavailable(answer)
      BY <1>1, <1>2, <1>13, UnreachableTells DEF CallFails, At, Now
    <2>2. FailsBy(Refused.errors, "argument") \/ \E why : FailsBy(answer.errors, why)
      BY <1>13 DEF CallFails
    <2> HIDE DEF answer
    <2>3. \A why : FailsBy(answer.errors, why) => Tells
      BY <2>1, FailureTells DEF Tells
    <2>4. FailsBy(Refused.errors, "argument") => Tells
      BY <1>4
    <2> QED
      BY <2>2, <2>3, <2>4
  <1>14. ASSUME CallSucceeds PROVE Tells
    <2>1. Goes \/ \E errors : FailsBy(errors, "value")
      BY <1>14 DEF CallSucceeds
    <2> QED
      BY <1>3, <1>4, <2>1
  <1>15. Tells => ReachedStep
    BY DEF Tells, ReachedStep
  <1> QED
    BY <1>6, <1>7, <1>8, <1>9, <1>10, <1>11, <1>12, <1>13, <1>14, <1>15 DEF Work

-----------------------------------------------------------------------------
(* What is asked of iwd: the names an argument has meant.                  *)

\* The world's objects have the names iwd may give them, and what the argument
\* names now is on record.
NamesInv ==
    /\ \A o \in DOMAIN names : names[o] \in Text
    /\ Named(names) \in meant

\* The steps to come are steps of the command.
LeftInv == <<kind, command>> \in Run /\ left \in Seq(Within(kind, command))

\* Of the objects listed, those of the path or name given were the ones named.
MatchInv == Matches = {} \/ Matches \in meant

\* The object of a command that calls was the only one named.
Calling == \E s \in Within(kind, command) : s.do = "call"
PathInv == Calling /\ path # None => {path} \in meant

IInv == NamesInv /\ LeftInv /\ MatchInv /\ PathInv /\ ActedOnNamed

-----------------------------------------------------------------------------
(* What a listing tells of the names.                                      *)

LEMMA ListingNames ==
    ASSUME NEW k, NEW ns, \A o \in DOMAIN ns : ns[o] \in Text, Listing(k, ns).errors = {}
    PROVE  /\ DOMAIN Listing(k, ns).value = DOMAIN ns
           /\ \A o \in DOMAIN ns : Listing(k, ns).value[o] = TrimSpace(ns[o])
  <1> DEFINE name(raw) == CASE k \in {"Station", "AccessPoint"} -> stationNameFromDevice(raw)
                            [] k = "BasicServiceSet" -> bssAddressFromManagedObject(raw)
                            [] OTHER -> objectNameFromManagedObject(raw)
             named == [p \in DOMAIN ns |-> name(ns[p])]
  <1>1. /\ Listing(k, ns).value = getRefs(named).value
        /\ Listing(k, ns).errors = {WrapPublic(WrapUnavailable(FALSE, e)) : e \in getRefs(named).errors}
    BY DEF Listing, getRefs
  <1>2. getRefs(named).errors = {}
    BY <1>1
  <1>3. \A o \in DOMAIN ns : name(ns[o]).errors = {}
    BY <1>2 DEF getRefs
  <1>4. \A o \in DOMAIN ns : name(ns[o]).value = TrimSpace(ns[o])
    BY <1>3 DEF stationNameFromDevice, bssAddressFromManagedObject, objectNameFromManagedObject,
                Gives, Fails
  <1> HIDE DEF name
  <1> QED
    BY <1>1, <1>4 DEF getRefs

-----------------------------------------------------------------------------
(* The steps of a command.                                                 *)

LEMMA HeadIsWithin ==
    ASSUME LeftInv, left # <<>>
    PROVE  /\ Head(left) \in Within(kind, command) /\ Tail(left) \in Seq(Within(kind, command))
           /\ Head(left).do = "call" => Calling
           /\ Head(left).do = "each" => ~Calling /\ Head(left).of \in Seq(Within(kind, command))
  <1>1. Head(left) \in Within(kind, command) /\ Tail(left) \in Seq(Within(kind, command))
    BY HeadTailProperties DEF LeftInv
  <1>2. <<kind, command>> \in Run /\ <<kind, command>>[1] = kind /\ <<kind, command>>[2] = command
    BY DEF LeftInv
  <1>3. \A s \in Within(kind, command) : s.do = "each" =>
               /\ s.of \in Seq(Within(kind, command))
               /\ \A u \in Within(kind, command) : u.do # "call"
    BY <1>2, ProgramsAssumption
  <1> QED
    BY <1>1, <1>3 DEF Calling

\* A step that goes on or fails, and leaves alone what the invariant is about.
LEMMA QuietStep ==
    ASSUME IInv, left # <<>>, left' \in {Tail(left), <<>>},
           UNCHANGED <<kind, command, ref, names, listed, path, sent, meant>>
    PROVE  IInv'
  <1>1. LeftInv'
    BY HeadIsWithin, EmptySeq DEF IInv, LeftInv
  <1>2. NamesInv' /\ MatchInv' /\ PathInv' /\ ActedOnNamed'
    BY DEF IInv, NamesInv, Named, MatchInv, Matches, PathInv, Calling, ActedOnNamed
  <1> QED
    BY <1>1, <1>2 DEF IInv

LEMMA QuietKeeps ==
    ASSUME IInv,
           \/ Open \/ OpenAll \/ GetOne \/ ReadAll \/ ReadTree \/ ParseArgument \/ LookUp
           \/ Register \/ Echo \/ Enter \/ PrintLine \/ Subscribe \/ Interrupt
    PROVE  IInv'
  <1>1. left # <<>>
    BY DEF Open, OpenAll, GetOne, ReadAll, ReadTree, ParseArgument, LookUp, Register, Echo,
           Enter, PrintLine, Subscribe, Interrupt, Streaming, At
  <1>2. left' \in {Tail(left), <<>>}
    BY DEF Open, OpenAll, GetOne, ReadAll, ReadTree, ParseArgument, LookUp, Register, Echo,
           Enter, PrintLine, Subscribe, Interrupt, Goes, FailsBy, FailsWith
  <1>3. UNCHANGED <<kind, command, ref, names, listed, path, sent, meant>>
    BY DEF Open, OpenAll, GetOne, ReadAll, ReadTree, ParseArgument, LookUp, Register, Echo,
           Enter, PrintLine, Subscribe, Interrupt, Keep, input, world, past
  <1> QED
    BY <1>1, <1>2, <1>3, QuietStep

LEMMA ListKeeps ==
    ASSUME IInv, ListObjects
    PROVE  IInv'
  <1> DEFINE refs == Listing(kind, names)
  <1>1. /\ left # <<>> /\ left' \in {Tail(left), <<>>}
        /\ UNCHANGED <<kind, command, ref, names, path, sent, meant>>
        /\ listed' = listed \/ (refs.errors = {} /\ listed' = refs.value)
    BY DEF ListObjects, At, Goes, FailsBy, FailsWith, Keep, input, world, past
  <1>2. CASE listed' = listed
    BY <1>1, <1>2, QuietStep
  <1>3. CASE refs.errors = {} /\ listed' = refs.value
    <2>1. DOMAIN listed' = DOMAIN names /\ \A o \in DOMAIN names : listed'[o] = TrimSpace(names[o])
      BY <1>3, ListingNames DEF IInv, NamesInv
    <2>2. Matches' = Named(names)
      BY <1>1, <2>1 DEF Matches, Named
    <2>3. LeftInv'
      BY <1>1, HeadIsWithin, EmptySeq DEF IInv, LeftInv
    <2>4. NamesInv' /\ PathInv' /\ ActedOnNamed'
      BY <1>1 DEF IInv, NamesInv, Named, PathInv, Calling, ActedOnNamed
    <2>5. MatchInv'
      BY <1>1, <2>2 DEF IInv, NamesInv, MatchInv
    <2> QED
      BY <2>3, <2>4, <2>5 DEF IInv
  <1> QED
    BY <1>1, <1>2, <1>3

LEMMA MatchKeeps ==
    ASSUME IInv, Match
    PROVE  IInv'
  <1>1. /\ left # <<>> /\ left' \in {Tail(left), <<>>}
        /\ UNCHANGED <<kind, command, ref, names, listed, sent, meant>>
        /\ path' = path \/ \E o \in Matches : Matches = {o} /\ path' = o
    BY DEF Match, At, Goes, FailsBy, FailsWith, Keep, input, world, past
  <1>2. CASE path' = path
    BY <1>1, <1>2, QuietStep
  <1>3. CASE \E o \in Matches : Matches = {o} /\ path' = o
    <2>1. {path'} \in meant
      BY <1>3 DEF IInv, MatchInv
    <2>2. LeftInv'
      BY <1>1, HeadIsWithin, EmptySeq DEF IInv, LeftInv
    <2>3. NamesInv' /\ MatchInv' /\ PathInv' /\ ActedOnNamed'
      BY <1>1, <2>1 DEF IInv, NamesInv, Named, MatchInv, Matches, PathInv, ActedOnNamed
    <2> QED
      BY <2>2, <2>3 DEF IInv
  <1> QED
    BY <1>1, <1>2, <1>3

LEMMA EachKeeps ==
    ASSUME IInv, Each
    PROVE  IInv'
  <1>1. /\ left # <<>> /\ Head(left).do = "each"
        /\ left' \in {Tail(left), <<>>, Head(left).of \o left}
        /\ UNCHANGED <<kind, command, ref, names, listed, sent, meant>>
    BY DEF Each, At, Goes, Now, Keep, input, world, past
  <1>2. ~Calling /\ Head(left).of \o left \in Seq(Within(kind, command))
    BY <1>1, HeadIsWithin, ConcatProperties DEF IInv, LeftInv
  <1>3. LeftInv'
    BY <1>1, <1>2, HeadIsWithin, EmptySeq DEF IInv, LeftInv
  <1>4. NamesInv' /\ MatchInv' /\ PathInv' /\ ActedOnNamed'
    BY <1>1, <1>2 DEF IInv, NamesInv, Named, MatchInv, Matches, PathInv, Calling, ActedOnNamed
  <1> QED
    BY <1>3, <1>4 DEF IInv

LEMMA CallKeeps ==
    ASSUME IInv, CallFails \/ CallSucceeds
    PROVE  IInv'
  <1>1. /\ left # <<>> /\ Head(left).do = "call" /\ left' \in {Tail(left), <<>>}
        /\ UNCHANGED <<kind, command, ref, listed, path>> /\ sent' \in {sent, path}
    BY DEF CallFails, CallSucceeds, At, Goes, FailsBy, FailsWith, Keep, input
  <1>2. /\ meant \subseteq meant' /\ Named(names)' \in meant'
        /\ \A o \in DOMAIN names' : names'[o] \in Text
    <2>1. CASE CallFails
      BY <2>1 DEF CallFails, Keep, world, past, input, IInv, NamesInv, Named
    <2>2. CASE CallSucceeds
      <3>1. Does(Now.of) /\ ref' = ref
        BY <2>2 DEF CallSucceeds, input
      <3>2. \/ names' = Without(names, path) /\ meant' = meant \cup {Named(names')}
            \/ names' = names /\ meant' = meant
        BY <3>1 DEF Does, past
      <3> QED
        BY <3>1, <3>2 DEF Without, IInv, NamesInv, Named
    <2> QED
      BY <2>1, <2>2
  <1>3. Calling
    BY <1>1, HeadIsWithin DEF IInv
  <1>4. LeftInv'
    BY <1>1, HeadIsWithin, EmptySeq DEF IInv, LeftInv
  <1>5. NamesInv' /\ MatchInv' /\ PathInv' /\ ActedOnNamed'
    BY <1>1, <1>2, <1>3 DEF IInv, NamesInv, MatchInv, Matches, PathInv, Calling, ActedOnNamed
  <1> QED
    BY <1>4, <1>5 DEF IInv

-----------------------------------------------------------------------------
(* The world, and the whole step.                                          *)

LEMMA WorldKeeps ==
    ASSUME IInv, WorldStep
    PROVE  IInv'
  <1>1. UNCHANGED <<kind, command, ref, left, listed, path, sent>>
    BY WorldFrame
  <1> DEFINE Recorded == /\ meant \subseteq meant' /\ Named(names)' \in meant'
                         /\ \A o \in DOMAIN names' : names'[o] \in Text
  <1>2. Recorded
    <2>1. CASE UNCHANGED <<names, meant>>
      BY <1>1, <2>1 DEF IInv, NamesInv, Named
    <2>2. ASSUME NEW o \in Object, NEW name \in Name, Rename(o, name)
          PROVE  Recorded
      BY <1>1, <2>2, CommandsAssumption DEF Rename, IInv, NamesInv, Named
    <2>3. ASSUME NEW o \in Object, Vanish(o)
          PROVE  Recorded
      BY <1>1, <2>3 DEF Vanish, Without, IInv, NamesInv, Named
    <2> QED
      BY <2>1, <2>2, <2>3
         DEF WorldStep, Change, Becomes, BusLost, Applied, HandlerPrints, Ended, vars, world, past
  <1>3. LeftInv'
    BY <1>1 DEF IInv, LeftInv
  <1>4. NamesInv' /\ MatchInv' /\ PathInv' /\ ActedOnNamed'
    BY <1>1, <1>2 DEF IInv, NamesInv, MatchInv, Matches, PathInv, Calling, ActedOnNamed
  <1> QED
    BY <1>3, <1>4 DEF IInv

LEMMA InitInv == Init => IInv
  <1> SUFFICES ASSUME Init PROVE IInv
    OBVIOUS
  <1>1. LeftInv
    <2>1. RestInv /\ left = Command[kind][command]
      BY StartsRight
    <2>2. <<kind, command>>[1] = kind /\ <<kind, command>>[2] = command
      OBVIOUS
    <2> QED
      BY <2>1, <2>2, ProgramsAssumption DEF RestInv, LeftInv
  <1>2. NamesInv
    BY DEF Init, NamesInv, Text
  <1>3. MatchInv /\ PathInv /\ ActedOnNamed
    BY DEF Init, MatchInv, Matches, PathInv, ActedOnNamed
  <1> QED
    BY <1>1, <1>2, <1>3 DEF IInv

LEMMA NextKeeps == IInv /\ [Next]_vars => IInv'
  <1> SUFFICES ASSUME IInv, Work \/ WorldStep PROVE IInv'
    BY NextSplits
  <1>1. CASE Work
    BY <1>1, QuietKeeps, ListKeeps, MatchKeeps, EachKeeps, CallKeeps DEF Work
  <1>2. CASE WorldStep
    BY <1>2, WorldKeeps
  <1> QED
    BY <1>1, <1>2

-----------------------------------------------------------------------------
\* What a command asks of iwd is asked of an object that was, at some moment of
\* the command, the only one of the path or name given, however the objects are
\* renamed or replaced while it runs.
THEOREM ActsOnNamed == Spec => []ActedOnNamed
  <1>1. IInv => ActedOnNamed
    BY DEF IInv
  <1> QED
    BY <1>1, InitInv, NextKeeps, PTL DEF Spec

-----------------------------------------------------------------------------
\* Every run keeps its types: what is left of a command is always an end of
\* its steps, an object has the values iwd may send for its kind, and what the
\* command holds came from the listing or its argument.
THEOREM TypeCorrect == Spec => []TypeOK
  <1>1. CommandInv => TypeOK
    <2> SUFFICES ASSUME CommandInv PROVE TypeOK
      OBVIOUS
    <2>1. on \in Properties(kind) \cup {None}
      BY VariedAreProperties DEF CommandInv
    <2>2. todo \subseteq Object /\ DOMAIN entries \subseteq DOMAIN listed
      BY DEF CommandInv, OwnTypes, OverviewInv
    <2> QED
      BY <2>1, <2>2 DEF CommandInv, TypeOK, RestInv, ObjectsInv, ObjectTypes, OwnTypes, Heard
  <1> QED
    BY <1>1, InitCommand, NextCommand, PTL DEF Spec

\* The object of a command reads the same one property at a time and all at
\* once, whatever iwd has of it: the reads of the wrappers differ in how they
\* fetch and parse, not in what they tell or when they fail.
THEOREM ReadsAlike == Spec => []WaysAgree
  <1>1. CommandInv => WaysAgree
    <2> SUFFICES ASSUME CommandInv, path \in DOMAIN objects
                 PROVE  LET all == GetAll(kind, objects[path])
                            one == [p \in Properties(kind) |-> Get(kind, p, objects[path])] IN
                        IF all.errors = {}
                        THEN \A p \in Properties(kind) :
                                 one[p].errors = {} /\ Seen(one[p].value) = Seen(all.value[p])
                        ELSE \E p \in Properties(kind) : one[p].errors # {}
      BY DEF WaysAgree, Live
    <2>1. kind \in DOMAIN Handle /\ objects[path] # None
      BY LeftIsOrdered, ObjectsAreObjects DEF CommandInv
    <2> QED
      BY <2>1, ReadsAgree
  <1> QED
    BY <1>1, InitCommand, NextCommand, PTL DEF Spec

\* What a command prints of an object, its line or its entry of an overview, is
\* what the object had, or was told to have, at some moment of the command;
\* after a set, no earlier than the set.
THEOREM PrintsTrue == Spec => []PrintedTrue
  <1>1. CommandInv => PrintedTrue
    BY DEF CommandInv, LineTrue, EntriesTrue, PrintedTrue, Heard
  <1> QED
    BY <1>1, InitCommand, NextCommand, PTL DEF Spec

\* While a monitor streams and is connected, the newest change it has been told of,
\* once its handler calls have printed, has a line with what the property is: none
\* since is missing, in whatever order the calls print.  Exempt are a change between
\* its read and its subscription and the invalidated Scanning of an access point.
THEOREM KeepsUp == Spec => []MonitorKeepsUp
  <1>1. CommandInv => MonitorKeepsUp
    <2> SUFFICES ASSUME CommandInv, Streaming, bus, ~stale,
                        <<kind, on>> # <<"AccessPoint", "Scanning">>, calls = {}
                 PROVE  \E l \in Newest(lines) : View(objects, path) \in {{}, {l.value}}
      BY DEF MonitorKeepsUp
    <2>1. "stream" \in Doing(left) /\ "print" \notin Doing(left)
      BY LeftIsOrdered DEF CommandInv, Streaming, At, Ordered, StreamOrder
    <2>2. NewestIsSo /\ Heard = lines
      BY <2>1 DEF CommandInv, StreamInv, Yet, Heard
    <2> QED
      BY <2>2 DEF NewestIsSo
  <1> QED
    BY <1>1, InitCommand, NextCommand, PTL DEF Spec

\* A status overview that ends well has an entry for every object it listed.
THEOREM OverviewEnds == Spec => []OverviewComplete
  <1>1. CommandInv => OverviewComplete
    <2> SUFFICES ASSUME CommandInv, command = "status", result = "ok"
                 PROVE  DOMAIN entries = DOMAIN listed
      BY DEF OverviewComplete
    <2>1. left = <<>>
      BY DEF CommandInv, OwnTypes
    <2>2. Doing(left) = {}
      BY <2>1, NothingLeft
    <2> QED
      BY <2>2 DEF CommandInv, OverviewInv, Yet
  <1> QED
    BY <1>1, InitCommand, NextCommand, PTL DEF Spec

\* A connection that iwd refuses for want of an agent is one whose network
\* changed after the command read it: the decision to register was right when
\* it was made.
THEOREM ConnectsWithAgent == Spec => []NoAgentMeansChanged
  <1>1. CommandInv => NoAgentMeansChanged
    BY DEF CommandInv
  <1> QED
    BY <1>1, InitCommand, NextCommand, PTL DEF Spec

\* A command whose object is gone or whose bus is lost ends as unavailable, as
\* errors.go has it, but for two of its steps: the opening of an object that is
\* gone, as New<Kind> refuses one without the interface by an error of no
\* category, and the object tree, whose error does not pass through core.
THEOREM UnreachableTold == Spec => UnavailableElsewhere
  <1>1. CommandInv /\ [Next]_vars => [ReachedStep]_vars
    <2> SUFFICES ASSUME CommandInv, Work \/ WorldStep PROVE ReachedStep \/ UNCHANGED vars
      BY NextSplits
    <2>1. WorldStep => cause' = cause
      BY WorldFrame
    <2> QED
      BY <2>1, WorkReaches DEF CommandInv, ReachedStep
  <1> QED
    BY <1>1, InitCommand, NextCommand, PTL DEF Spec, UnavailableElsewhere

=============================================================================
