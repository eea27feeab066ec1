----------------------------- MODULE IwdObjects -----------------------------
(***************************************************************************)
(* What the D-Bus layer makes of the properties, signals and methods of    *)
(* iwd's objects (the wrappers of src/internal/iwdbus).  A table per kind  *)
(* of object and per way to a property: a read of it alone, the batch of   *)
(* GetAll, the subscription.  The tables are written from different code,  *)
(* so that whether the ways agree is a question and not a definition.      *)
(*                                                                         *)
(* A value on the bus is abstracted to the classes the code tells apart:   *)
(*   "v1", "v2"    two values of the right form; as a flag true and false, *)
(*                 as a network's type open and secured                    *)
(*   "padded"      the text "v1" with blanks around it                     *)
(*   "blank", ""   a text of blanks, and the empty text                    *)
(*   "/"           the object path that stands for no object               *)
(*   "[]"          the empty list                                          *)
(*   "odd"         a list with a network type the code does not know       *)
(*   "bad"         a value of another type, or a word it does not know     *)
(* and None is a property the object does not have.                        *)
(***************************************************************************)
EXTENDS Errors

Good == {"v1", "v2"}
No == "v2"

Word == Good
Text == Good \cup {"padded", "blank", ""}
Path == Good \cup {"/"}
List == Good \cup {"[]"}
Value == Text \cup Path \cup List \cup {"odd", "bad"}

Gives(v) == [value |-> v, errors |-> {}]
Fails(e) == [value |-> None, errors |-> {e}]

-----------------------------------------------------------------------------
(* The parsers: the type a value must have, and which of its values are    *)
(* none at all.                                                            *)

Parser(type, none) == [type |-> type, none |-> none]

Bool == Parser(Word, {})
String == Parser(Text, {})
parseStationState == Parser(Word, {})
parseStationObjectPath == Parser(Path, {"/"})
parseStationAffinities == Parser(List, {})
parseNetworkType == Parser(Word, {})
parseNetworkObjectPath == Parser(Path, {})
parseOptionalObjectPath == Parser(Path, {"/"})
parseObjectPathList == Parser(List, {})
parseOptionalAccessPointString == Parser(Text, {""})
parseAccessPointFrequency == Parser(Word, {})
parseAccessPointCiphers == Parser(List, {})
parseOptionalString == Parser(Text, {})
parseSupportedModes == Parser(List, {})
parseDeviceMode == Parser(Word, {})
parseObjectPath == Parser(Path, {})

Parse(parser, raw) ==
    IF raw \in parser.none THEN Gives(None)
    ELSE IF raw \in parser.type THEN Gives(raw)
    ELSE Fails(DBus("variant", Plain))

-----------------------------------------------------------------------------
(* Reads.  An entry says how the value is parsed, and what stands for it   *)
(* when the object lacks it: {} where that is an error.                    *)

Required(parser) == [parser |-> parser, absent |-> {}]
Optional(parser) == [parser |-> parser, absent |-> {None}]
Default(parser, v) == [parser |-> parser, absent |-> {v}]

StationGet ==
    [State |-> Required(parseStationState),
     Scanning |-> Required(Bool),
     ConnectedNetwork |-> Optional(parseStationObjectPath),
     ConnectedAccessPoint |-> Optional(parseStationObjectPath),
     Affinities |-> Optional(parseStationAffinities)]

StationGetProperties ==
    [State |-> Required(parseStationState),
     Scanning |-> Required(Bool),
     ConnectedNetwork |-> Optional(parseStationObjectPath),
     ConnectedAccessPoint |-> Optional(parseStationObjectPath),
     Affinities |-> Optional(parseStationAffinities)]

NetworkGet ==
    [Name |-> Required(String),
     Connected |-> Required(Bool),
     Device |-> Required(parseNetworkObjectPath),
     Type |-> Required(parseNetworkType),
     KnownNetwork |-> Optional(parseOptionalObjectPath),
     ExtendedServiceSet |-> Required(parseObjectPathList)]

NetworkGetProperties ==
    [Name |-> Required(String),
     Connected |-> Required(Bool),
     Device |-> Required(parseNetworkObjectPath),
     Type |-> Required(parseNetworkType),
     ExtendedServiceSet |-> Required(parseObjectPathList),
     KnownNetwork |-> Optional(parseOptionalObjectPath)]

\* A stopped access point has only Started.
AccessPointGet ==
    [Started |-> Required(Bool),
     Scanning |-> Default(Bool, No),
     Name |-> Optional(parseOptionalAccessPointString),
     Frequency |-> Optional(parseAccessPointFrequency),
     PairwiseCiphers |-> Optional(parseAccessPointCiphers),
     GroupCipher |-> Optional(parseOptionalAccessPointString)]

BadAccessPointGetProperties ==
    [Started |-> Required(Bool),
     Scanning |-> Required(Bool),
     Name |-> Optional(parseOptionalAccessPointString),
     Frequency |-> Optional(parseAccessPointFrequency),
     PairwiseCiphers |-> Optional(parseAccessPointCiphers),
     GroupCipher |-> Optional(parseOptionalAccessPointString)]

AccessPointGetProperties ==
    [Started |-> Required(Bool),
     Scanning |-> Default(Bool, No),
     Name |-> Optional(parseOptionalAccessPointString),
     Frequency |-> Optional(parseAccessPointFrequency),
     PairwiseCiphers |-> Optional(parseAccessPointCiphers),
     GroupCipher |-> Optional(parseOptionalAccessPointString)]

KnownNetworkGet ==
    [Name |-> Required(String),
     Type |-> Required(parseNetworkType),
     Hidden |-> Required(Bool),
     LastConnectedTime |-> Optional(parseOptionalString),
     AutoConnect |-> Required(Bool)]

KnownNetworkGetProperties ==
    [Name |-> Required(String),
     Type |-> Required(parseNetworkType),
     Hidden |-> Required(Bool),
     AutoConnect |-> Required(Bool),
     LastConnectedTime |-> Optional(parseOptionalString)]

AdapterGet ==
    [Powered |-> Required(Bool),
     Name |-> Required(String),
     Model |-> Optional(parseOptionalString),
     Vendor |-> Optional(parseOptionalString),
     SupportedModes |-> Required(parseSupportedModes)]

AdapterGetProperties ==
    [Powered |-> Required(Bool),
     Name |-> Required(String),
     SupportedModes |-> Required(parseSupportedModes),
     Model |-> Optional(parseOptionalString),
     Vendor |-> Optional(parseOptionalString)]

DeviceGet ==
    [Name |-> Required(String),
     Address |-> Required(String),
     Powered |-> Required(Bool),
     Mode |-> Required(parseDeviceMode),
     Adapter |-> Required(parseObjectPath)]

DeviceGetProperties ==
    [Name |-> Required(String),
     Address |-> Required(String),
     Powered |-> Required(Bool),
     Mode |-> Required(parseDeviceMode),
     Adapter |-> Required(parseObjectPath)]

BasicServiceSetGet == [Address |-> Required(String)]
BasicServiceSetGetProperties == [Address |-> Required(String)]

\* Whether a reply to Get says that the object lacks the property.  Those of an
\* object without the interface, of no object and of a lost connection do not.
BadUnknownPropertyError(reply) == TRUE
isUnknownPropertyError(reply) == reply = "unknown property"

Missing(entry, reply) ==
    IF entry.absent # {} /\ isUnknownPropertyError(reply)
    THEN Gives(CHOOSE v \in entry.absent : TRUE)
    ELSE Fails(DBus("property", Plain))

\* Get<Property>.  The object is None when it is gone, or cannot be reached.
GetProperty(table, p, object) ==
    IF object = None THEN Missing(table[p], "unreachable")
    ELSE IF object[p] = None THEN Missing(table[p], "unknown property")
    ELSE Parse(table[p].parser, object[p])

\* GetProperties: one GetAll, decoded property by property.  Every error is of
\* the first property that has one; which is first is left open.
GetProperties(table, object) ==
    IF object = None THEN Fails(DBus("property", Plain))
    ELSE LET read == [p \in DOMAIN table |->
                 IF object[p] = None THEN Missing(table[p], "unknown property")
                 ELSE Parse(table[p].parser, object[p])] IN
         [value |-> [p \in DOMAIN table |-> read[p].value],
          errors |-> UNION {read[p].errors : p \in DOMAIN table}]

-----------------------------------------------------------------------------
(* Subscriptions.  An entry says how a changed value is parsed, and whether *)
(* an invalidated property is told as none.                                *)

Sets(parser) == [parser |-> parser, clears |-> FALSE]
Clears(parser) == [parser |-> parser, clears |-> TRUE]

BadStationSignals ==
    [State |-> Sets(parseStationState),
     Scanning |-> Sets(Bool),
     ConnectedNetwork |-> Clears(parseStationObjectPath),
     ConnectedAccessPoint |-> Sets(parseStationObjectPath),
     Affinities |-> Clears(parseStationAffinities)]

StationSignals ==
    [State |-> Sets(parseStationState),
     Scanning |-> Sets(Bool),
     ConnectedNetwork |-> Clears(parseStationObjectPath),
     ConnectedAccessPoint |-> Clears(parseStationObjectPath),
     Affinities |-> Clears(parseStationAffinities)]

NetworkSignals ==
    [Connected |-> Sets(Bool),
     KnownNetwork |-> Clears(parseOptionalObjectPath),
     ExtendedServiceSet |-> Sets(parseObjectPathList)]

AccessPointSignals == [Started |-> Sets(Bool), Scanning |-> Sets(Bool)]

KnownNetworkSignals ==
    [AutoConnect |-> Sets(Bool),
     Hidden |-> Sets(Bool),
     LastConnectedTime |-> Clears(parseOptionalString)]

AdapterSignals == [Powered |-> Sets(Bool)]

DeviceSignals == [Powered |-> Sets(Bool), Mode |-> Sets(parseDeviceMode)]

\* What the callback is given for a PropertiesChanged that sets the property to
\* raw, or invalidates it when raw is None: a set of at most one value.
Told(entry, raw) ==
    LET read == Parse(entry.parser, raw) IN
    IF raw = None THEN (IF entry.clears THEN {None} ELSE {})
    ELSE IF read.errors = {} THEN {read.value}
    ELSE {}

-----------------------------------------------------------------------------
(* Calls: how the wrapper tags a failure, and the replies it understands.  *)

Call(tag) == [tag |-> tag, replies |-> {"v1"}, asks |-> FALSE]
Asks(tag, replies) == [tag |-> tag, replies |-> replies, asks |-> TRUE]

\* "odd" here is a reply with a network of a type the code does not know.
StationCalls ==
    [Scan |-> Call("method"),
     GetOrderedNetworks |-> Asks("method", List),
     SetAffinities |-> Call("property"),
     Disconnect |-> Call("method"),
     RegisterSignalLevelAgent |-> Call("method"),
     UnregisterSignalLevelAgent |-> Call("method"),
     ConnectHiddenNetwork |-> Call("method"),
     GetHiddenAccessPoints |-> Asks("method", List)]

NetworkCalls == [Connect |-> Call("method")]

AccessPointCalls ==
    [Start |-> Call("method"),
     StartProfile |-> Call("method"),
     Stop |-> Call("method"),
     Scan |-> Call("method"),
     GetOrderedNetworks |-> Asks("method", List \cup {"odd"})]

KnownNetworkCalls == [SetAutoConnect |-> Call("property"), Forget |-> Call("method")]

AdapterCalls == [SetPowered |-> Call("property")]

DeviceCalls == [SetPowered |-> Call("property"), SetMode |-> Call("property")]

SimpleConfigurationCalls ==
    [PushButton |-> Call("method"),
     GeneratePin |-> Asks("method", Text),
     StartPin |-> Call("method"),
     Cancel |-> Call("method")]

\* answer is what came back: the name of an error reply, or a reply.
Invoke(entry, failed, answer) ==
    IF failed THEN Fails(WrapIwd(entry.tag, Reply(answer)))
    ELSE IF answer \in entry.replies THEN Gives(answer)
    ELSE Fails(DBus("variant", Plain))

-----------------------------------------------------------------------------
(* The tree of all objects and the listing of those of a kind.             *)

\* objectNameFromManagedObject: one object without a name fails the listing.
TrimSpace(v) ==
    IF v = "padded" THEN "v1" ELSE IF v = "blank" THEN "" ELSE v

objectNameFromManagedObject(raw) ==
    IF raw \in Text /\ TrimSpace(raw) # "" THEN Gives(TrimSpace(raw))
    ELSE Fails(DBus("variant", Plain))

bssAddressFromManagedObject(raw) ==
    IF raw \in Text /\ TrimSpace(raw) # "" THEN Gives(TrimSpace(raw))
    ELSE Fails(DBus("variant", Plain))

\* A station or an access point is named by its device, if that has a name.
stationNameFromDevice(raw) ==
    Gives(IF raw \in Text THEN TrimSpace(raw) ELSE "")

\* getRefs: path -> what names the object, or why nothing does.  Whatever fails
\* for one object fails for all.
getRefs(named) ==
    [value |-> [path \in DOMAIN named |-> named[path].value],
     errors |-> UNION {named[path].errors : path \in DOMAIN named}]

FetchObjectTree == DBus("introspection", Plain)

=============================================================================
