---------------------------- MODULE Handles_proofs ----------------------------
(***************************************************************************)
(* What the layers make of a property, for any object: the tables of       *)
(* IwdObjects and Handles compared, way by way.                            *)
(***************************************************************************)
EXTENDS Handles, Errors_proofs

-----------------------------------------------------------------------------
(* The tables.                                                             *)

Parsers ==
    {Bool, String, parseStationState, parseStationObjectPath, parseStationAffinities,
     parseNetworkType, parseNetworkObjectPath, parseOptionalObjectPath, parseObjectPathList,
     parseOptionalAccessPointString, parseAccessPointFrequency, parseAccessPointCiphers,
     parseOptionalString, parseSupportedModes, parseDeviceMode, parseObjectPath}

LEMMA ParserTypes ==
    /\ Bool.type = Word /\ Bool.none = {}
    /\ String.type = Text /\ String.none = {}
    /\ parseStationState.type = Word /\ parseStationState.none = {}
    /\ parseStationObjectPath.type = Path /\ parseStationObjectPath.none = {"/"}
    /\ parseStationAffinities.type = List /\ parseStationAffinities.none = {}
    /\ parseNetworkType.type = Word /\ parseNetworkType.none = {}
    /\ parseNetworkObjectPath.type = Path /\ parseNetworkObjectPath.none = {}
    /\ parseOptionalObjectPath.type = Path /\ parseOptionalObjectPath.none = {"/"}
    /\ parseObjectPathList.type = List /\ parseObjectPathList.none = {}
    /\ parseOptionalAccessPointString.type = Text /\ parseOptionalAccessPointString.none = {""}
    /\ parseAccessPointFrequency.type = Word /\ parseAccessPointFrequency.none = {}
    /\ parseAccessPointCiphers.type = List /\ parseAccessPointCiphers.none = {}
    /\ parseOptionalString.type = Text /\ parseOptionalString.none = {}
    /\ parseSupportedModes.type = List /\ parseSupportedModes.none = {}
    /\ parseDeviceMode.type = Word /\ parseDeviceMode.none = {}
    /\ parseObjectPath.type = Path /\ parseObjectPath.none = {}
  BY DEF Parser, Bool, String, parseStationState, parseStationObjectPath, parseStationAffinities,
         parseNetworkType, parseNetworkObjectPath, parseOptionalObjectPath, parseObjectPathList,
         parseOptionalAccessPointString, parseAccessPointFrequency, parseAccessPointCiphers,
         parseOptionalString, parseSupportedModes, parseDeviceMode, parseObjectPath

\* Every parser takes the good values as they are.
LEMMA ParsersTakeGood ==
    ASSUME NEW parser \in Parsers
    PROVE  Good \subseteq parser.type /\ parser.none \cap Good = {}
  <1>1. parser.type \in {Word, Text, Path, List} /\ parser.none \in {{}, {"/"}, {""}}
    BY ParserTypes DEF Parsers
  <1>2. /\ Good \subseteq Word /\ Good \subseteq Text /\ Good \subseteq Path /\ Good \subseteq List
        /\ "/" \notin Good /\ "" \notin Good
    BY DEF Word, Text, Path, List, Good
  <1> QED
    BY <1>1, <1>2

Layers == {"same", "known", "named", "trimmed", "filled", "listed"}

\* The tables of a kind that a read goes through, alone and in the batch.
SameReads(h) ==
    /\ DOMAIN h.all = DOMAIN h.get
    /\ \A p \in DOMAIN h.get :
           /\ h.get[p] = h.all[p] /\ h.get[p].parser \in Parsers
           /\ h.core[p] = h.coreAll[p] /\ h.core[p] \in Layers
           /\ h.public[p] \in Layers
           /\ h.public[p] = h.publicAll[p] \/ (h.public[p] = "same" /\ h.publicAll[p] = "listed")

\* What is told of a changed property goes through the parser of its reads, and
\* what the reads make of it beyond that concerns other values.  "apart" is a
\* property that reads as a default when the object lacks it.
SameSignals(h, p, apart) ==
    LET parser == h.get[p].parser IN
    /\ p \in DOMAIN h.get /\ h.signals[p].parser = parser
    /\ h.coreSignals[p] = "same" /\ h.publicSignals[p] = h.public[p]
    /\ \/ h.core[p] = "same"
       \/ h.core[p] = "known" /\ parser.type = Word /\ parser.none = {}
       \/ h.core[p] = "filled" /\ parser.type = Path /\ parser.none = {"/"}
       \/ h.core[p] = "filled" /\ parser.type = Text /\ parser.none = {} /\ p = "LastConnectedTime"
    /\ h.public[p] \in {"same", "known"}
    /\ IF h.signals[p].clears
       THEN h.get[p].absent = {None} /\ h.core[p] # "known" /\ h.public[p] = "same"
       ELSE h.get[p].absent = {} \/ apart

\* A property that an object must have, or that another value stands for.
LEMMA SetsFollow ==
    ASSUME NEW h, NEW p \in DOMAIN h.get, NEW parser, NEW apart \in BOOLEAN,
           h.get[p] = Required(parser) \/ (apart /\ h.get[p] = Default(parser, No)),
           h.signals[p] = Sets(parser), h.coreSignals[p] = "same",
           h.publicSignals[p] = h.public[p], h.public[p] \in {"same", "known"},
           \/ h.core[p] = "same"
           \/ h.core[p] = "known" /\ parser.type = Word /\ parser.none = {}
    PROVE  SameSignals(h, p, apart)
  <1>1. h.get[p].parser = parser /\ h.signals[p].parser = parser /\ h.signals[p].clears = FALSE
    BY DEF Required, Default, Sets
  <1>2. h.get[p].absent = {} \/ apart
    BY DEF Required
  <1> QED
    BY <1>1, <1>2 DEF SameSignals

\* A property that an object may lack.
LEMMA ClearsFollow ==
    ASSUME NEW h, NEW p \in DOMAIN h.get, NEW parser, NEW apart \in BOOLEAN,
           h.get[p] = Optional(parser), h.signals[p] = Clears(parser),
           h.coreSignals[p] = "same", h.publicSignals[p] = "same", h.public[p] = "same",
           \/ h.core[p] = "same"
           \/ h.core[p] = "filled" /\ parser.type = Path /\ parser.none = {"/"}
           \/ h.core[p] = "filled" /\ parser.type = Text /\ parser.none = {} /\ p = "LastConnectedTime"
    PROVE  SameSignals(h, p, apart)
  <1>1. /\ h.get[p].parser = parser /\ h.signals[p].parser = parser
        /\ h.signals[p].clears = TRUE /\ h.get[p].absent = {None}
    BY DEF Optional, Clears
  <1> QED
    BY <1>1 DEF SameSignals

LEMMA StationTables ==
    /\ SameReads(Handle.Station)
    /\ \A p \in DOMAIN Handle.Station.signals : SameSignals(Handle.Station, p, FALSE)
  <1> DEFINE h == Handle.Station
  <1>1. /\ h.get = StationGet /\ h.all = StationGetProperties
        /\ h.core = CoreStation /\ h.coreAll = CoreStationProperties
        /\ h.public = Station /\ h.publicAll = StationProperties
        /\ h.signals = StationSignals /\ h.coreSignals = CoreStationSubscriptions
        /\ h.publicSignals = StationSubscriptions
    BY DEF Handle
  <1> HIDE DEF h
  <1>2. SameReads(h)
    BY <1>1 DEF SameReads, Parsers, Layers, StationGet, StationGetProperties,
           CoreStation, CoreStationProperties, Station, StationProperties, With, Same, Required,
           Optional, Default
  <1>3. ASSUME NEW p \in DOMAIN h.signals
        PROVE  SameSignals(h, p, FALSE)
    <2>1. /\ p \in {"State", "Scanning", "ConnectedNetwork", "ConnectedAccessPoint", "Affinities"}
          /\ p \in DOMAIN h.get
      BY <1>1, <1>3 DEF StationSignals, StationGet
    <2>2. h.coreSignals[p] = "same"
      BY <1>1, <2>1 DEF CoreStationSubscriptions, With, Same
    <2>3. h.publicSignals[p] = h.public[p]
      BY <1>1, <2>1 DEF StationSubscriptions, Station, With, Same
    <2>4. CASE p = "State"
      <3>1. h.get[p] = Required(parseStationState) /\ h.signals[p] = Sets(parseStationState)
        BY <1>1, <2>4 DEF StationGet, StationSignals
      <3>2. h.core[p] = "known" /\ h.public[p] = "known"
        BY <1>1, <2>4 DEF CoreStation, Station, With, Same
      <3>3. parseStationState.type = Word /\ parseStationState.none = {}
        BY ParserTypes
      <3> QED
        BY <2>1, <2>2, <2>3, <3>1, <3>2, SetsFollow, <3>3
    <2>5. CASE p = "Scanning"
      <3>1. h.get[p] = Required(Bool) /\ h.signals[p] = Sets(Bool)
        BY <1>1, <2>5 DEF StationGet, StationSignals
      <3>2. h.core[p] = "same" /\ h.public[p] = "same"
        BY <1>1, <2>5 DEF CoreStation, Station, With, Same
      <3> QED
        BY <2>1, <2>2, <2>3, <3>1, <3>2, SetsFollow
    <2>6. CASE p = "ConnectedNetwork"
      <3>1. h.get[p] = Optional(parseStationObjectPath) /\ h.signals[p] = Clears(parseStationObjectPath)
        BY <1>1, <2>6 DEF StationGet, StationSignals
      <3>2. h.core[p] = "filled" /\ h.public[p] = "same"
        BY <1>1, <2>6 DEF CoreStation, Station, With, Same
      <3>3. parseStationObjectPath.type = Path /\ parseStationObjectPath.none = {"/"}
        BY ParserTypes
      <3> QED
        BY <2>1, <2>2, <2>3, <3>1, <3>2, ClearsFollow, <3>3
    <2>7. CASE p = "ConnectedAccessPoint"
      <3>1. h.get[p] = Optional(parseStationObjectPath) /\ h.signals[p] = Clears(parseStationObjectPath)
        BY <1>1, <2>7 DEF StationGet, StationSignals
      <3>2. h.core[p] = "filled" /\ h.public[p] = "same"
        BY <1>1, <2>7 DEF CoreStation, Station, With, Same
      <3>3. parseStationObjectPath.type = Path /\ parseStationObjectPath.none = {"/"}
        BY ParserTypes
      <3> QED
        BY <2>1, <2>2, <2>3, <3>1, <3>2, ClearsFollow, <3>3
    <2>8. CASE p = "Affinities"
      <3>1. h.get[p] = Optional(parseStationAffinities) /\ h.signals[p] = Clears(parseStationAffinities)
        BY <1>1, <2>8 DEF StationGet, StationSignals
      <3>2. h.core[p] = "same" /\ h.public[p] = "same"
        BY <1>1, <2>8 DEF CoreStation, Station, With, Same
      <3> QED
        BY <2>1, <2>2, <2>3, <3>1, <3>2, ClearsFollow
    <2> QED
      BY <2>1, <2>4, <2>5, <2>6, <2>7, <2>8
  <1> QED
    BY <1>2, <1>3 DEF h

LEMMA NetworkTables ==
    /\ SameReads(Handle.Network)
    /\ \A p \in DOMAIN Handle.Network.signals : SameSignals(Handle.Network, p, FALSE)
  <1> DEFINE h == Handle.Network
  <1>1. /\ h.get = NetworkGet /\ h.all = NetworkGetProperties
        /\ h.core = CoreNetwork /\ h.coreAll = CoreNetworkProperties
        /\ h.public = Network /\ h.publicAll = NetworkProperties
        /\ h.signals = NetworkSignals /\ h.coreSignals = CoreNetworkSubscriptions
        /\ h.publicSignals = NetworkSubscriptions
    BY DEF Handle
  <1> HIDE DEF h
  <1>2. SameReads(h)
    BY <1>1 DEF SameReads, Parsers, Layers, NetworkGet, NetworkGetProperties,
           CoreNetwork, CoreNetworkProperties, Network, NetworkProperties, With, Same, Required,
           Optional, Default
  <1>3. ASSUME NEW p \in DOMAIN h.signals
        PROVE  SameSignals(h, p, FALSE)
    <2>1. p \in {"Connected", "KnownNetwork", "ExtendedServiceSet"} /\ p \in DOMAIN h.get
      BY <1>1, <1>3 DEF NetworkSignals, NetworkGet
    <2>2. h.coreSignals[p] = "same"
      BY <1>1, <2>1 DEF CoreNetworkSubscriptions, With, Same
    <2>3. h.publicSignals[p] = h.public[p]
      BY <1>1, <2>1 DEF NetworkSubscriptions, Network, With, Same
    <2>4. CASE p = "Connected"
      <3>1. h.get[p] = Required(Bool) /\ h.signals[p] = Sets(Bool)
        BY <1>1, <2>4 DEF NetworkGet, NetworkSignals
      <3>2. h.core[p] = "same" /\ h.public[p] = "same"
        BY <1>1, <2>4 DEF CoreNetwork, Network, With, Same
      <3> QED
        BY <2>1, <2>2, <2>3, <3>1, <3>2, SetsFollow
    <2>5. CASE p = "KnownNetwork"
      <3>1. h.get[p] = Optional(parseOptionalObjectPath) /\ h.signals[p] = Clears(parseOptionalObjectPath)
        BY <1>1, <2>5 DEF NetworkGet, NetworkSignals
      <3>2. h.core[p] = "filled" /\ h.public[p] = "same"
        BY <1>1, <2>5 DEF CoreNetwork, Network, With, Same
      <3>3. parseOptionalObjectPath.type = Path /\ parseOptionalObjectPath.none = {"/"}
        BY ParserTypes
      <3> QED
        BY <2>1, <2>2, <2>3, <3>1, <3>2, ClearsFollow, <3>3
    <2>6. CASE p = "ExtendedServiceSet"
      <3>1. h.get[p] = Required(parseObjectPathList) /\ h.signals[p] = Sets(parseObjectPathList)
        BY <1>1, <2>6 DEF NetworkGet, NetworkSignals
      <3>2. h.core[p] = "same" /\ h.public[p] = "same"
        BY <1>1, <2>6 DEF CoreNetwork, Network, With, Same
      <3> QED
        BY <2>1, <2>2, <2>3, <3>1, <3>2, SetsFollow
    <2> QED
      BY <2>1, <2>4, <2>5, <2>6
  <1> QED
    BY <1>2, <1>3 DEF h

LEMMA AccessPointTables ==
    /\ SameReads(Handle.AccessPoint)
    /\ \A p \in DOMAIN Handle.AccessPoint.signals : SameSignals(Handle.AccessPoint, p, p = "Scanning")
  <1> DEFINE h == Handle.AccessPoint
  <1>1. /\ h.get = AccessPointGet /\ h.all = AccessPointGetProperties
        /\ h.core = CoreAccessPoint /\ h.coreAll = CoreAccessPointProperties
        /\ h.public = AccessPoint /\ h.publicAll = AccessPointProperties
        /\ h.signals = AccessPointSignals /\ h.coreSignals = CoreAccessPointSubscriptions
        /\ h.publicSignals = AccessPointSubscriptions
    BY DEF Handle
  <1> HIDE DEF h
  <1>2. SameReads(h)
    BY <1>1 DEF SameReads, Parsers, Layers, AccessPointGet, AccessPointGetProperties,
           CoreAccessPoint, CoreAccessPointProperties, AccessPoint, AccessPointProperties, With,
           Same, Required, Optional, Default
  <1>3. ASSUME NEW p \in DOMAIN h.signals
        PROVE  SameSignals(h, p, p = "Scanning")
    <2>1. p \in {"Started", "Scanning"} /\ p \in DOMAIN h.get
      BY <1>1, <1>3 DEF AccessPointSignals, AccessPointGet
    <2>2. h.coreSignals[p] = "same"
      BY <1>1, <2>1 DEF CoreAccessPointSubscriptions, With, Same
    <2>3. h.publicSignals[p] = h.public[p]
      BY <1>1, <2>1 DEF AccessPointSubscriptions, AccessPoint, With, Same
    <2>4. CASE p = "Started"
      <3>1. h.get[p] = Required(Bool) /\ h.signals[p] = Sets(Bool)
        BY <1>1, <2>4 DEF AccessPointGet, AccessPointSignals
      <3>2. h.core[p] = "same" /\ h.public[p] = "same"
        BY <1>1, <2>4 DEF CoreAccessPoint, AccessPoint, With, Same
      <3> QED
        BY <2>1, <2>2, <2>3, <3>1, <3>2, SetsFollow
    <2>5. CASE p = "Scanning"
      <3>1. h.get[p] = Default(Bool, No) /\ h.signals[p] = Sets(Bool)
        BY <1>1, <2>5 DEF AccessPointGet, AccessPointSignals
      <3>2. h.core[p] = "same" /\ h.public[p] = "same"
        BY <1>1, <2>5 DEF CoreAccessPoint, AccessPoint, With, Same
      <3> QED
        BY <2>1, <2>2, <2>3, <3>1, <3>2, SetsFollow, <2>5
    <2> QED
      BY <2>1, <2>4, <2>5
  <1> QED
    BY <1>2, <1>3 DEF h

LEMMA KnownNetworkTables ==
    /\ SameReads(Handle.KnownNetwork)
    /\ \A p \in DOMAIN Handle.KnownNetwork.signals : SameSignals(Handle.KnownNetwork, p, FALSE)
  <1> DEFINE h == Handle.KnownNetwork
  <1>1. /\ h.get = KnownNetworkGet /\ h.all = KnownNetworkGetProperties
        /\ h.core = CoreKnownNetwork /\ h.coreAll = CoreKnownNetworkProperties
        /\ h.public = KnownNetwork /\ h.publicAll = KnownNetworkProperties
        /\ h.signals = KnownNetworkSignals /\ h.coreSignals = CoreKnownNetworkSubscriptions
        /\ h.publicSignals = KnownNetworkSubscriptions
    BY DEF Handle
  <1> HIDE DEF h
  <1>2. SameReads(h)
    BY <1>1 DEF SameReads, Parsers, Layers, KnownNetworkGet, KnownNetworkGetProperties,
           CoreKnownNetwork, CoreKnownNetworkProperties, KnownNetwork, KnownNetworkProperties,
           With, Same, Required, Optional, Default
  <1>3. ASSUME NEW p \in DOMAIN h.signals
        PROVE  SameSignals(h, p, FALSE)
    <2>1. p \in {"AutoConnect", "Hidden", "LastConnectedTime"} /\ p \in DOMAIN h.get
      BY <1>1, <1>3 DEF KnownNetworkSignals, KnownNetworkGet
    <2>2. h.coreSignals[p] = "same"
      BY <1>1, <2>1 DEF CoreKnownNetworkSubscriptions, With, Same
    <2>3. h.publicSignals[p] = h.public[p]
      BY <1>1, <2>1 DEF KnownNetworkSubscriptions, KnownNetwork, With, Same
    <2>4. CASE p = "AutoConnect"
      <3>1. h.get[p] = Required(Bool) /\ h.signals[p] = Sets(Bool)
        BY <1>1, <2>4 DEF KnownNetworkGet, KnownNetworkSignals
      <3>2. h.core[p] = "same" /\ h.public[p] = "same"
        BY <1>1, <2>4 DEF CoreKnownNetwork, KnownNetwork, With, Same
      <3> QED
        BY <2>1, <2>2, <2>3, <3>1, <3>2, SetsFollow
    <2>5. CASE p = "Hidden"
      <3>1. h.get[p] = Required(Bool) /\ h.signals[p] = Sets(Bool)
        BY <1>1, <2>5 DEF KnownNetworkGet, KnownNetworkSignals
      <3>2. h.core[p] = "same" /\ h.public[p] = "same"
        BY <1>1, <2>5 DEF CoreKnownNetwork, KnownNetwork, With, Same
      <3> QED
        BY <2>1, <2>2, <2>3, <3>1, <3>2, SetsFollow
    <2>6. CASE p = "LastConnectedTime"
      <3>1. h.get[p] = Optional(parseOptionalString) /\ h.signals[p] = Clears(parseOptionalString)
        BY <1>1, <2>6 DEF KnownNetworkGet, KnownNetworkSignals
      <3>2. h.core[p] = "filled" /\ h.public[p] = "same"
        BY <1>1, <2>6 DEF CoreKnownNetwork, KnownNetwork, With, Same
      <3>3. parseOptionalString.type = Text /\ parseOptionalString.none = {}
        BY ParserTypes
      <3> QED
        BY <2>1, <2>2, <2>3, <3>1, <3>2, ClearsFollow, <3>3, <2>6
    <2> QED
      BY <2>1, <2>4, <2>5, <2>6
  <1> QED
    BY <1>2, <1>3 DEF h

LEMMA AdapterTables ==
    /\ SameReads(Handle.Adapter)
    /\ \A p \in DOMAIN Handle.Adapter.signals : SameSignals(Handle.Adapter, p, FALSE)
  <1> DEFINE h == Handle.Adapter
  <1>1. /\ h.get = AdapterGet /\ h.all = AdapterGetProperties
        /\ h.core = CoreAdapter /\ h.coreAll = CoreAdapterProperties
        /\ h.public = Adapter /\ h.publicAll = AdapterProperties
        /\ h.signals = AdapterSignals /\ h.coreSignals = CoreAdapterSubscriptions
        /\ h.publicSignals = AdapterSubscriptions
    BY DEF Handle
  <1> HIDE DEF h
  <1>2. SameReads(h)
    BY <1>1 DEF SameReads, Parsers, Layers, AdapterGet, AdapterGetProperties,
           CoreAdapter, CoreAdapterProperties, Adapter, AdapterProperties, With, Same, Required,
           Optional, Default
  <1>3. ASSUME NEW p \in DOMAIN h.signals
        PROVE  SameSignals(h, p, FALSE)
    <2>1. p \in {"Powered"} /\ p \in DOMAIN h.get
      BY <1>1, <1>3 DEF AdapterSignals, AdapterGet
    <2>2. h.coreSignals[p] = "same"
      BY <1>1, <2>1 DEF CoreAdapterSubscriptions, With, Same
    <2>3. h.publicSignals[p] = h.public[p]
      BY <1>1, <2>1 DEF AdapterSubscriptions, Adapter, With, Same
    <2>4. CASE p = "Powered"
      <3>1. h.get[p] = Required(Bool) /\ h.signals[p] = Sets(Bool)
        BY <1>1, <2>4 DEF AdapterGet, AdapterSignals
      <3>2. h.core[p] = "same" /\ h.public[p] = "same"
        BY <1>1, <2>4 DEF CoreAdapter, Adapter, With, Same
      <3> QED
        BY <2>1, <2>2, <2>3, <3>1, <3>2, SetsFollow
    <2> QED
      BY <2>1, <2>4
  <1> QED
    BY <1>2, <1>3 DEF h

LEMMA DeviceTables ==
    /\ SameReads(Handle.Device)
    /\ \A p \in DOMAIN Handle.Device.signals : SameSignals(Handle.Device, p, FALSE)
  <1> DEFINE h == Handle.Device
  <1>1. /\ h.get = DeviceGet /\ h.all = DeviceGetProperties
        /\ h.core = CoreDevice /\ h.coreAll = CoreDeviceProperties
        /\ h.public = Device /\ h.publicAll = DeviceProperties
        /\ h.signals = DeviceSignals /\ h.coreSignals = CoreDeviceSubscriptions
        /\ h.publicSignals = DeviceSubscriptions
    BY DEF Handle
  <1> HIDE DEF h
  <1>2. SameReads(h)
    BY <1>1 DEF SameReads, Parsers, Layers, DeviceGet, DeviceGetProperties,
           CoreDevice, CoreDeviceProperties, Device, DeviceProperties, With, Same, Required,
           Optional, Default
  <1>3. ASSUME NEW p \in DOMAIN h.signals
        PROVE  SameSignals(h, p, FALSE)
    <2>1. p \in {"Powered", "Mode"} /\ p \in DOMAIN h.get
      BY <1>1, <1>3 DEF DeviceSignals, DeviceGet
    <2>2. h.coreSignals[p] = "same"
      BY <1>1, <2>1 DEF CoreDeviceSubscriptions, With, Same
    <2>3. h.publicSignals[p] = h.public[p]
      BY <1>1, <2>1 DEF DeviceSubscriptions, Device, With, Same
    <2>4. CASE p = "Powered"
      <3>1. h.get[p] = Required(Bool) /\ h.signals[p] = Sets(Bool)
        BY <1>1, <2>4 DEF DeviceGet, DeviceSignals
      <3>2. h.core[p] = "same" /\ h.public[p] = "same"
        BY <1>1, <2>4 DEF CoreDevice, Device, With, Same
      <3> QED
        BY <2>1, <2>2, <2>3, <3>1, <3>2, SetsFollow
    <2>5. CASE p = "Mode"
      <3>1. h.get[p] = Required(parseDeviceMode) /\ h.signals[p] = Sets(parseDeviceMode)
        BY <1>1, <2>5 DEF DeviceGet, DeviceSignals
      <3>2. h.core[p] = "known" /\ h.public[p] = "known"
        BY <1>1, <2>5 DEF CoreDevice, Device, With, Same
      <3>3. parseDeviceMode.type = Word /\ parseDeviceMode.none = {}
        BY ParserTypes
      <3> QED
        BY <2>1, <2>2, <2>3, <3>1, <3>2, SetsFollow, <3>3
    <2> QED
      BY <2>1, <2>4, <2>5
  <1> QED
    BY <1>2, <1>3 DEF h

LEMMA BasicServiceSetTables ==
    /\ SameReads(Handle.BasicServiceSet)
    /\ \A p \in DOMAIN Handle.BasicServiceSet.signals : SameSignals(Handle.BasicServiceSet, p, FALSE)
  <1> DEFINE h == Handle.BasicServiceSet
  <1>1. /\ h.get = BasicServiceSetGet /\ h.all = BasicServiceSetGetProperties
        /\ h.core = CoreBasicServiceSet /\ h.coreAll = CoreBasicServiceSetProperties
        /\ h.public = BasicServiceSet /\ h.publicAll = BasicServiceSetProperties
        /\ h.signals = <<>>
    BY DEF Handle
  <1> HIDE DEF h
  <1>2. SameReads(h)
    BY <1>1 DEF SameReads, Parsers, Layers, BasicServiceSetGet, BasicServiceSetGetProperties,
           CoreBasicServiceSet, CoreBasicServiceSetProperties, BasicServiceSet,
           BasicServiceSetProperties, With, Same, Required, Optional, Default
  <1>3. \A p \in DOMAIN h.signals : SameSignals(h, p, FALSE)
    BY <1>1
  <1> QED
    BY <1>2, <1>3 DEF h

LEMMA Tables ==
    ASSUME NEW kind \in DOMAIN Handle
    PROVE  /\ SameReads(Handle[kind])
           /\ \A p \in DOMAIN Handle[kind].signals :
                  SameSignals(Handle[kind], p, kind = "AccessPoint" /\ p = "Scanning")
  <1>1. kind \in {"Station", "Network", "AccessPoint", "KnownNetwork", "Adapter", "Device",
                  "BasicServiceSet"}
    BY DEF Handle
  <1> QED
    BY <1>1, StationTables, NetworkTables, AccessPointTables, KnownNetworkTables, AdapterTables,
       DeviceTables, BasicServiceSetTables

-----------------------------------------------------------------------------
(* One property, read.                                                     *)

\* What a layer hands on is a value or an error.
Outcome(r) == r = [value |-> r.value, errors |-> r.errors]

\* Errors are wrapped, never dropped, and a value is left alone by the wrapping.
LEMMA WrappingKeeps ==
    ASSUME NEW r, Outcome(r)
    PROVE  /\ Outcome(Raise(r)) /\ Raise(r).value = r.value
           /\ Raise(r).errors = {WrapUnavailable(TRUE, e) : e \in r.errors}
           /\ Raise(r).errors = {} <=> r.errors = {}
           /\ Outcome(Delegate(r)) /\ Delegate(r).value = r.value
           /\ Delegate(r).errors = {WrapPublic(e) : e \in r.errors}
           /\ Delegate(r).errors = {} <=> r.errors = {}
  <1>1. \A S : [r EXCEPT !.errors = S] = [value |-> r.value, errors |-> S]
    BY DEF Outcome
  <1>2. Raise(r) = [value |-> r.value, errors |-> {WrapUnavailable(TRUE, e) : e \in r.errors}]
    BY <1>1 DEF Raise
  <1>3. Delegate(r) = [value |-> r.value, errors |-> {WrapPublic(e) : e \in r.errors}]
    BY <1>1 DEF Delegate
  <1> DEFINE raised == {WrapUnavailable(TRUE, e) : e \in r.errors}
             delegated == {WrapPublic(e) : e \in r.errors}
  <1>4. (raised = {} <=> r.errors = {}) /\ (delegated = {} <=> r.errors = {})
    OBVIOUS
  <1> HIDE DEF raised, delegated
  <1>5. /\ Outcome(Raise(r)) /\ Raise(r).value = r.value /\ Raise(r).errors = raised
        /\ Outcome(Delegate(r)) /\ Delegate(r).value = r.value /\ Delegate(r).errors = delegated
    BY <1>2, <1>3 DEF Outcome, raised, delegated
  <1> QED
    BY <1>4, <1>5 DEF raised, delegated

\* A layer that is handed an error hands it on.
LEMMA LayerKeeps ==
    ASSUME NEW table, NEW p, table[p] \in Layers, NEW e, NEW below, Outcome(below)
    PROVE  /\ Outcome(Layer(table, p, e, below))
           /\ Layer(table, p, e, below).errors = {} =>
                 below.errors = {} /\ Layer(table, p, e, below) = Apply(table[p], e, below.value)
           /\ below.errors = {} => Layer(table, p, e, below) = Apply(table[p], e, below.value)
  BY DEF Outcome, Layer, Layers, Apply, Gives, Fails

LEMMA ReadIsOutcome ==
    ASSUME NEW table, NEW p, NEW object
    PROVE  Outcome(GetProperty(table, p, object))
  BY DEF Outcome, GetProperty, Missing, Parse, Gives, Fails

\* What the batch makes of one property.
Batched(kind, p, object) ==
    LET h == Handle[kind] IN
    Layer(h.publicAll, p, PublicRefusal,
        Layer(h.coreAll, p, CoreRefusal, Gives(GetProperty(h.all, p, object).value)))

\* A property read alone fails if reading it or a layer does.
LEMMA GetFails ==
    ASSUME NEW kind \in DOMAIN Handle, NEW p \in Properties(kind), NEW object
    PROVE  LET h == Handle[kind]
               raw == GetProperty(h.get, p, object)
               core == Apply(h.core[p], CoreRefusal, raw.value)
               public == Apply(h.public[p], PublicRefusal, core.value) IN
           /\ Get(kind, p, object).errors = {} <=>
                 raw.errors = {} /\ core.errors = {} /\ public.errors = {}
           /\ Get(kind, p, object).errors = {} => Get(kind, p, object).value = public.value
  <1> DEFINE h == Handle[kind]
             raw == GetProperty(h.get, p, object)
             below == Layer(h.core, p, CoreRefusal, Raise(raw))
             above == Layer(h.public, p, PublicRefusal, below)
             core == Apply(h.core[p], CoreRefusal, raw.value)
             public == Apply(h.public[p], PublicRefusal, core.value)
  <1>1. h.core[p] \in Layers /\ h.public[p] \in Layers
    BY Tables DEF SameReads, Properties
  <1>2. Outcome(raw)
    BY ReadIsOutcome
  <1>3. Get(kind, p, object) = Delegate(above)
    BY DEF Get
  <1> HIDE DEF h, raw
  <1>4. /\ Outcome(Raise(raw)) /\ Raise(raw).value = raw.value
        /\ Raise(raw).errors = {} <=> raw.errors = {}
    BY <1>2, WrappingKeeps
  <1>5. /\ Outcome(below)
        /\ below.errors = {} => raw.errors = {} /\ below = core
        /\ raw.errors = {} => below = core
    BY <1>1, <1>4, LayerKeeps
  <1> HIDE DEF below
  <1>6. /\ Outcome(above)
        /\ above.errors = {} => below.errors = {} /\ above = Apply(h.public[p], PublicRefusal, below.value)
        /\ below.errors = {} => above = Apply(h.public[p], PublicRefusal, below.value)
    BY <1>1, <1>5, LayerKeeps
  <1> HIDE DEF above, core
  <1>7. /\ Delegate(above).value = above.value
        /\ Delegate(above).errors = {} <=> above.errors = {}
    BY <1>6, WrappingKeeps
  <1>8. /\ above.errors = {} <=> raw.errors = {} /\ core.errors = {} /\ public.errors = {}
        /\ above.errors = {} => above.value = public.value
    BY <1>5, <1>6
  <1> QED
    BY <1>3, <1>7, <1>8 DEF h, raw, core

\* The same of a property of the batch.
LEMMA BatchedFails ==
    ASSUME NEW kind \in DOMAIN Handle, NEW p \in Properties(kind), NEW object
    PROVE  LET h == Handle[kind]
               raw == GetProperty(h.all, p, object)
               core == Apply(h.coreAll[p], CoreRefusal, raw.value)
               public == Apply(h.publicAll[p], PublicRefusal, core.value) IN
           /\ Outcome(Batched(kind, p, object))
           /\ Batched(kind, p, object).errors = {} <=> core.errors = {} /\ public.errors = {}
           /\ Batched(kind, p, object).errors = {} => Batched(kind, p, object).value = public.value
  <1> DEFINE h == Handle[kind]
             raw == Gives(GetProperty(h.all, p, object).value)
             below == Layer(h.coreAll, p, CoreRefusal, raw)
             above == Layer(h.publicAll, p, PublicRefusal, below)
  <1>1. h.coreAll[p] \in Layers /\ h.publicAll[p] \in Layers
    BY Tables DEF SameReads, Properties, Layers
  <1>2. Outcome(raw) /\ raw.errors = {} /\ raw.value = GetProperty(h.all, p, object).value
    BY DEF Outcome, Gives
  <1>3. Batched(kind, p, object) = above
    BY DEF Batched
  <1> HIDE DEF h, raw
  <1>4. Outcome(below) /\ below = Apply(h.coreAll[p], CoreRefusal, raw.value)
    BY <1>1, <1>2, LayerKeeps
  <1> HIDE DEF below
  <1>5. /\ Outcome(above)
        /\ above.errors = {} => below.errors = {} /\ above = Apply(h.publicAll[p], PublicRefusal, below.value)
        /\ below.errors = {} => above = Apply(h.publicAll[p], PublicRefusal, below.value)
    BY <1>1, <1>4, LayerKeeps
  <1> HIDE DEF above
  <1> QED
    BY <1>2, <1>3, <1>4, <1>5 DEF h

\* Properties fails if the read of a property does, or what is made of it.
LEMMA GetAllFails ==
    ASSUME NEW kind \in DOMAIN Handle, NEW object, object # None
    PROVE  LET all == GetAll(kind, object)
               raw(p) == GetProperty(Handle[kind].all, p, object) IN
           /\ all.errors = {} <=> \A p \in Properties(kind) :
                 raw(p).errors = {} /\ Batched(kind, p, object).errors = {}
           /\ all.errors = {} =>
                 all.value = [p \in Properties(kind) |-> Batched(kind, p, object).value]
  <1> DEFINE h == Handle[kind]
             raw(p) == GetProperty(h.all, p, object)
             raws == GetProperties(h.all, object)
             read == [p \in DOMAIN h.all |->
                 Layer(h.publicAll, p, PublicRefusal,
                       Layer(h.coreAll, p, CoreRefusal, Gives(Raise(raws).value[p])))]
             whole == [value |-> [p \in DOMAIN read |-> read[p].value],
                       errors |-> UNION {read[p].errors : p \in DOMAIN read}]
  <1>1. DOMAIN h.all = Properties(kind)
    BY Tables DEF SameReads, Properties
  <1>2. raws = [value |-> [p \in DOMAIN h.all |-> raw(p).value],
                errors |-> UNION {raw(p).errors : p \in DOMAIN h.all}]
    BY DEF GetProperties, GetProperty
  <1>3. Outcome(raws) /\ raws.value = [p \in DOMAIN h.all |-> raw(p).value]
        /\ (raws.errors = {} <=> \A p \in DOMAIN h.all : raw(p).errors = {})
    <2>1. Outcome(raws) /\ raws.value = [p \in DOMAIN h.all |-> raw(p).value]
          /\ raws.errors = UNION {raw(p).errors : p \in DOMAIN h.all}
      BY <1>2 DEF Outcome
    <2> HIDE DEF raws, raw, h
    <2> QED
      BY <2>1
  <1>4. Outcome(Raise(raws)) /\ Raise(raws).value = raws.value
        /\ (Raise(raws).errors = {} <=> raws.errors = {})
    BY <1>3, WrappingKeeps
  <1>5. \A p \in DOMAIN h.all : read[p] = Batched(kind, p, object)
    BY <1>3, <1>4 DEF Batched
  <1>6. GetAll(kind, object) = IF Raise(raws).errors # {} THEN Delegate(Raise(raws)) ELSE Delegate(whole)
    BY DEF GetAll
  <1>7. DOMAIN read = DOMAIN h.all
    OBVIOUS
  <1> HIDE DEF raws, read, h, raw
  <1>8. Outcome(whole)
        /\ whole.value = [p \in DOMAIN read |-> read[p].value]
        /\ (whole.errors = {} <=> \A p \in DOMAIN read : read[p].errors = {})
    <2>1. Outcome(whole) /\ whole.value = [p \in DOMAIN read |-> read[p].value]
          /\ whole.errors = UNION {read[p].errors : p \in DOMAIN read}
      BY DEF Outcome
    <2> HIDE DEF whole
    <2> QED
      BY <2>1
  <1> HIDE DEF whole
  <1>9. /\ Delegate(Raise(raws)).errors = {} <=> Raise(raws).errors = {}
        /\ Delegate(whole).errors = {} <=> whole.errors = {}
        /\ Delegate(whole).value = whole.value
    BY <1>4, <1>8, WrappingKeeps
  <1>10. whole.value = [p \in Properties(kind) |-> Batched(kind, p, object).value]
    BY <1>1, <1>5, <1>7, <1>8
  <1>11. GetAll(kind, object).errors = {} <=> \A p \in Properties(kind) :
                 raw(p).errors = {} /\ Batched(kind, p, object).errors = {}
    BY <1>1, <1>3, <1>4, <1>5, <1>6, <1>7, <1>8, <1>9
  <1>12. GetAll(kind, object).errors = {} => GetAll(kind, object).value = whole.value
    BY <1>4, <1>6, <1>9
  <1> QED
    BY <1>10, <1>11, <1>12 DEF h, raw

\* What a layer makes of an empty list is the same to a reader, whether it says
\* so or says that there is none.
LEMMA ListedOrNot ==
    ASSUME NEW v, NEW e
    PROVE  /\ Apply("same", e, v).errors = {} /\ Apply("listed", e, v).errors = {}
           /\ Seen(Apply("same", e, v).value) = Seen(Apply("listed", e, v).value)
  BY DEF Apply, Gives, Seen

\* A property means the same whichever way it is read: what Properties and the
\* property's own method tell of an object never differ for a reader, and
\* Properties fails exactly when the method of some property does.
THEOREM ReadsAgree ==
    ASSUME NEW kind \in DOMAIN Handle, NEW object, object # None
    PROVE  LET all == GetAll(kind, object)
               one(p) == Get(kind, p, object) IN
           /\ all.errors = {} <=> \A p \in Properties(kind) : one(p).errors = {}
           /\ all.errors = {} =>
                 \A p \in Properties(kind) : Seen(one(p).value) = Seen(all.value[p])
  <1> DEFINE h == Handle[kind]
             raw(p) == GetProperty(h.all, p, object)
  <1>1. ASSUME NEW p \in Properties(kind)
        PROVE  /\ Get(kind, p, object).errors = {} <=>
                     raw(p).errors = {} /\ Batched(kind, p, object).errors = {}
               /\ Get(kind, p, object).errors = {} =>
                     Seen(Get(kind, p, object).value) = Seen(Batched(kind, p, object).value)
    <2> DEFINE core == Apply(h.core[p], CoreRefusal, raw(p).value)
               own == Apply(h.public[p], PublicRefusal, core.value)
               batch == Apply(h.publicAll[p], PublicRefusal, core.value)
    <2>1. /\ h.get[p] = h.all[p] /\ h.core[p] = h.coreAll[p]
          /\ h.public[p] = h.publicAll[p] \/ (h.public[p] = "same" /\ h.publicAll[p] = "listed")
      BY Tables DEF SameReads, Properties
    <2>2. GetProperty(h.get, p, object) = raw(p)
      BY <2>1 DEF GetProperty
    <2>3. /\ Get(kind, p, object).errors = {} <=>
                 raw(p).errors = {} /\ core.errors = {} /\ own.errors = {}
          /\ Get(kind, p, object).errors = {} => Get(kind, p, object).value = own.value
      BY <2>2, GetFails
    <2>4. /\ Batched(kind, p, object).errors = {} <=> core.errors = {} /\ batch.errors = {}
          /\ Batched(kind, p, object).errors = {} => Batched(kind, p, object).value = batch.value
      BY <2>1, BatchedFails
    <2>5. (own.errors = {} <=> batch.errors = {}) /\ Seen(own.value) = Seen(batch.value)
      BY <2>1, ListedOrNot
    <2> HIDE DEF core, own, batch, raw, h
    <2> QED
      BY <2>3, <2>4, <2>5
  <1> HIDE DEF raw, h
  <1>2. /\ GetAll(kind, object).errors = {} <=> \A p \in Properties(kind) :
                 raw(p).errors = {} /\ Batched(kind, p, object).errors = {}
        /\ GetAll(kind, object).errors = {} =>
                 GetAll(kind, object).value = [p \in Properties(kind) |-> Batched(kind, p, object).value]
    BY GetAllFails DEF raw, h
  <1> QED
    BY <1>1, <1>2

\* A good value goes through every layer as it is.
LEMMA LayersTakeGood ==
    ASSUME NEW what \in Layers, NEW e, NEW v \in Good
    PROVE  Apply(what, e, v) = Gives(v)
  <1>1. v # None /\ v # "" /\ v # "[]" /\ v \in Word \cup List /\ TrimSpace(v) = v
    BY HandlesAssumption DEF Good, Word, List, Value, Text, TrimSpace
  <1> QED
    BY <1>1 DEF Layers, Apply

\* What iwd has right, an application is told as it is.
LEMMA GoodReads ==
    ASSUME NEW kind \in DOMAIN Handle, NEW p \in Properties(kind),
           NEW object, object # None, object[p] \in Good
    PROVE  Get(kind, p, object).errors = {} /\ Get(kind, p, object).value = object[p]
  <1> DEFINE h == Handle[kind]
             raw == GetProperty(h.get, p, object)
             core == Apply(h.core[p], CoreRefusal, raw.value)
             public == Apply(h.public[p], PublicRefusal, core.value)
  <1>1. h.get[p].parser \in Parsers /\ h.core[p] \in Layers /\ h.public[p] \in Layers
    BY Tables DEF SameReads, Properties
  <1>2. object[p] # None
    BY HandlesAssumption DEF Value, Text
  <1>3. raw = Gives(object[p])
    <2>1. object[p] \in h.get[p].parser.type /\ object[p] \notin h.get[p].parser.none
      BY <1>1, ParsersTakeGood
    <2> QED
      BY <1>2, <2>1 DEF GetProperty, Parse
  <1> HIDE DEF raw
  <1>4. raw.value = object[p] /\ raw.errors = {}
    BY <1>3 DEF Gives
  <1>5. core = Gives(object[p])
    BY <1>1, <1>4, LayersTakeGood
  <1> HIDE DEF core
  <1>6. core.value = object[p] /\ core.errors = {}
    BY <1>5 DEF Gives
  <1>7. public = Gives(object[p])
    BY <1>1, <1>6, LayersTakeGood
  <1> HIDE DEF public
  <1>8. public.value = object[p] /\ public.errors = {}
    BY <1>7 DEF Gives
  <1> QED
    BY <1>4, <1>6, <1>8, GetFails DEF raw, core, public

-----------------------------------------------------------------------------
(* What is told of a change.                                               *)

\* iwd sends values of these classes, and of a date only those that are one or
\* are not of its type.
Sends(p, raw) ==
    raw \in Value \cup {None} /\ (p = "LastConnectedTime" => raw \in Good \cup {"bad", None})

\* What a read makes of a value in core, beyond what is told of it, is nothing.
LEMMA CoreAddsNothing ==
    ASSUME NEW type, NEW none, NEW p, NEW what, NEW e, NEW raw, NEW v,
           Sends(p, raw), raw # None,
           IF raw \in none THEN v = None ELSE raw \in type /\ v = raw,
           \/ what = "same"
           \/ what = "known" /\ type = Word /\ none = {}
           \/ what = "filled" /\ type = Path /\ none = {"/"}
           \/ what = "filled" /\ type = Text /\ none = {} /\ p = "LastConnectedTime"
    PROVE  Apply(what, e, v) = Gives(v)
  <1>1. CASE what = "same"
    BY <1>1 DEF Apply
  <1>2. CASE what = "known" /\ type = Word /\ none = {}
    BY <1>2 DEF Apply
  <1>3. CASE /\ what = "filled"
             /\ \/ type = Path /\ none = {"/"}
                \/ type = Text /\ none = {} /\ p = "LastConnectedTime"
    <2>1. v = None \/ (v \in Good /\ v # None)
      BY <1>3 DEF Sends, Path, Text, Good
    <2>2. v \in Good => TrimSpace(v) = v /\ v # ""
      BY DEF Good, TrimSpace
    <2> QED
      BY <1>3, <2>1, <2>2 DEF Apply
  <1> QED
    BY <1>1, <1>2, <1>3

\* What a subscription gives for a value that can be told, in one step.
LEMMA SubscribedOne ==
    ASSUME NEW kind, NEW p, NEW raw, NEW v,
           Handle[kind].coreSignals[p] = "same", Told(Handle[kind].signals[p], raw) = {v},
           Handle[kind].publicSignals[p] \in Layers
    PROVE  LET above == Apply(Handle[kind].publicSignals[p], PublicRefusal, v) IN
           Subscribed(kind, p, raw) = IF above.errors = {} THEN {above.value} ELSE {}
  <1> DEFINE h == Handle[kind]
             above(w) == Layer(h.publicSignals, p, PublicRefusal,
                               Layer(h.coreSignals, p, CoreRefusal, Gives(w)))
  <1>1. above(v) = Apply(h.publicSignals[p], PublicRefusal, v)
    <2>1. Layer(h.coreSignals, p, CoreRefusal, Gives(v)) = Gives(v)
      BY DEF Layer, Gives, Apply
    <2> QED
      BY <2>1 DEF Layer, Gives
  <1>2. Subscribed(kind, p, raw) =
            {above(w).value : w \in {u \in Told(h.signals[p], raw) : above(u).errors = {}}}
    BY DEF Subscribed
  <1> HIDE DEF above, h
  <1>3. {above(w).value : w \in {u \in {v} : above(u).errors = {}}} =
            IF above(v).errors = {} THEN {above(v).value} ELSE {}
    OBVIOUS
  <1> QED
    BY <1>1, <1>2, <1>3 DEF h

\* A subscription gives the application what a read of the property would: the
\* same value when it gives one, and when it gives none the read fails.  Only
\* the invalidated Scanning of an access point, which reads as no, is not told.
THEOREM ToldAsRead ==
    ASSUME NEW kind \in DOMAIN Handle, NEW p \in DOMAIN Handle[kind].signals,
           NEW object, object # None, Sends(p, object[p])
    PROVE  LET heard == Subscribed(kind, p, object[p])
               read == Get(kind, p, object) IN
           /\ heard # {} => read.errors = {} /\ {Seen(v) : v \in heard} = {Seen(read.value)}
           /\ heard = {} => read.errors # {} \/ <<kind, p>> = <<"AccessPoint", "Scanning">>
  <1> DEFINE h == Handle[kind]
             parser == h.get[p].parser
             apart == kind = "AccessPoint" /\ p = "Scanning"
             raw == GetProperty(h.get, p, object)
             core == Apply(h.core[p], CoreRefusal, raw.value)
             public == Apply(h.public[p], PublicRefusal, core.value)
             heard == Subscribed(kind, p, object[p])
             read == Get(kind, p, object)
             parsed == Parse(parser, object[p])
             told == Told(h.signals[p], object[p])
  <1>1. SameSignals(h, p, apart)
    BY Tables
  <1>2. p \in Properties(kind)
    BY <1>1 DEF SameSignals, Properties
  <1>3. /\ read.errors = {} <=> raw.errors = {} /\ core.errors = {} /\ public.errors = {}
        /\ read.errors = {} => read.value = public.value
    BY <1>2, GetFails
  <1>4. /\ h.coreSignals[p] = "same" /\ h.publicSignals[p] = h.public[p]
        /\ h.public[p] \in Layers
    BY <1>1 DEF SameSignals, Layers
  <1>5. ASSUME NEW v, told = {v}
        PROVE  heard = IF Apply(h.public[p], PublicRefusal, v).errors = {}
                       THEN {Apply(h.public[p], PublicRefusal, v).value} ELSE {}
    <2>1. LET above == Apply(h.publicSignals[p], PublicRefusal, v) IN
          heard = IF above.errors = {} THEN {above.value} ELSE {}
      BY <1>4, <1>5, SubscribedOne
    <2> QED
      BY <1>4, <2>1
  <1>6. told = {} => heard = {}
    BY DEF Subscribed
  <1>7. /\ h.signals[p].parser = parser
        /\ \/ h.core[p] = "same"
           \/ h.core[p] = "known" /\ parser.type = Word /\ parser.none = {}
           \/ h.core[p] = "filled" /\ parser.type = Path /\ parser.none = {"/"}
           \/ h.core[p] = "filled" /\ parser.type = Text /\ parser.none = {} /\ p = "LastConnectedTime"
        /\ IF h.signals[p].clears
           THEN h.get[p].absent = {None} /\ h.core[p] # "known" /\ h.public[p] = "same"
           ELSE h.get[p].absent = {} \/ apart
    BY <1>1 DEF SameSignals
  <1>8. raw = IF object[p] = None THEN Missing(h.get[p], "unknown property") ELSE parsed
    BY DEF GetProperty
  <1>9. told = IF object[p] = None THEN (IF h.signals[p].clears THEN {None} ELSE {})
               ELSE IF parsed.errors = {} THEN {parsed.value} ELSE {}
    BY <1>7 DEF Told
  <1>10. CASE object[p] # None /\ parsed.errors = {}
    <2>1. core = Gives(raw.value)
      <3>1. raw = parsed
        BY <1>8, <1>10
      <3>2. IF object[p] \in parser.none THEN parsed.value = None
            ELSE object[p] \in parser.type /\ parsed.value = object[p]
        BY <1>10 DEF Parse, Gives, Fails
      <3> HIDE DEF parsed, raw, parser, h
      <3> QED
        BY <1>7, <1>10, <3>1, <3>2, CoreAddsNothing DEF raw
    <2>2. core.value = raw.value /\ core.errors = {}
      BY <2>1 DEF Gives
    <2>3. told = {raw.value} /\ raw.errors = {}
      BY <1>8, <1>9, <1>10
    <2> HIDE DEF told, heard, read, raw, core, h
    <2>4. heard = IF public.errors = {} THEN {public.value} ELSE {}
      BY <1>5, <2>2, <2>3
    <2> QED
      BY <1>3, <2>2, <2>3, <2>4 DEF heard, read
  <1>11. CASE object[p] # None /\ parsed.errors # {}
    <2>1. heard = {} /\ raw.errors # {}
      BY <1>6, <1>8, <1>9, <1>11
    <2> HIDE DEF heard, read, raw, core, public
    <2> QED
      BY <1>3, <2>1 DEF heard, read
  <1>12. CASE object[p] = None /\ h.signals[p].clears
    <2>1. raw = Gives(None)
      <3>1. (CHOOSE v \in {None} : TRUE) = None
        OBVIOUS
      <3> QED
        BY <1>7, <1>8, <1>12, <3>1 DEF Missing, isUnknownPropertyError
    <2>2. raw.value = None /\ raw.errors = {}
      BY <2>1 DEF Gives
    <2>3. core.value = None /\ core.errors = {}
      BY <1>7, <1>12, <2>2 DEF Apply, Gives
    <2>4. h.public[p] = "same"
      BY <1>7, <1>12
    <2> HIDE DEF core
    <2>5. public = Gives(None)
      BY <2>3, <2>4 DEF Apply
    <2>6. public.value = None /\ public.errors = {}
      BY <2>5 DEF Gives
    <2>7. told = {None}
      BY <1>9, <1>12
    <2> HIDE DEF told, heard, read, raw, h
    <2>8. heard = {None}
      BY <1>5, <2>3, <2>6, <2>7
    <2> QED
      BY <1>3, <2>2, <2>3, <2>6, <2>8 DEF heard, read
  <1>13. CASE object[p] = None /\ ~h.signals[p].clears
    <2>1. heard = {}
      BY <1>6, <1>9, <1>13
    <2>2. h.get[p].absent = {} => raw.errors # {}
      BY <1>8, <1>13 DEF Missing, Fails
    <2>3. h.get[p].absent = {} \/ apart
      BY <1>7, <1>13
    <2> HIDE DEF heard, read, raw, core, public, h
    <2> QED
      BY <1>3, <2>1, <2>2, <2>3 DEF heard, read
  <1> QED
    BY <1>10, <1>11, <1>12, <1>13

-----------------------------------------------------------------------------
(* Errors.                                                                 *)

\* All that can go wrong comes to the application as an error of a public kind.
Published(r) == \A e \in r.errors : e.public \in PublicKind

LEMMA NoneIsApart ==
    None \notin PublicKind /\ None \notin CoreKind
  BY HandlesAssumption DEF CoreKind

\* The errors the code makes from nothing.
LEMMA MadeErrors ==
    ASSUME NEW category \in Category, NEW kind \in CoreKind, NEW public \in PublicKind
    PROVE  /\ Plain \in Error /\ DBus(category, Plain) \in Error
           /\ Core(kind, Plain) \in Error /\ NewPublic(public, Plain) \in Error
           /\ WrapIwd(category, Reply(None)) \in Error
  <1>1. Plain \in Error
    BY DEF Plain, Error
  <1>2. [Reply(None) EXCEPT !.is = @ \cup ({Reply(None).reply} \cap IwdName)] \in Error
    BY DEF Reply, Plain, Error, Sentinel
  <1> QED
    BY <1>1, <1>2, WrapAdds DEF WrapIwd

\* The policies of core and delegate keep an error one.
LEMMA WrapsStay ==
    ASSUME NEW e \in Error, NEW properties \in BOOLEAN
    PROVE  WrapUnavailable(properties, e) \in Error /\ WrapPublic(e).public \in PublicKind
  <1>1. "unavailable" \in CoreKind /\ "operation failed" \in CoreKind
        /\ "connection" \in Category /\ "unavailable" \in PublicKind
    BY DEF CoreKind, Category, PublicKind
  <1>2. Core("unavailable", e) \in Error /\ Core("operation failed", e) \in Error
    BY <1>1, WrapAdds
  <1>3. WrapUnavailable(properties, e) \in {Core("unavailable", e), Core("operation failed", e)}
    BY DEF WrapUnavailable
  <1> QED
    BY <1>2, <1>3, NoneIsApart, WrapPublicOnce

\* An outcome of the layers below the public one.
Inner(r) == Outcome(r) /\ r.errors \subseteq Error

LEMMA DelegatePublishes ==
    ASSUME NEW r, Inner(r)
    PROVE  Published(Delegate(r))
  <1>1. Delegate(r).errors = {WrapPublic(e) : e \in r.errors}
    BY WrappingKeeps DEF Inner
  <1>2. \A e \in r.errors : WrapPublic(e).public \in PublicKind
    BY WrapsStay DEF Inner
  <1> QED
    BY <1>1, <1>2 DEF Published

LEMMA RaiseKeepsInner ==
    ASSUME NEW r, Inner(r)
    PROVE  Inner(Raise(r))
  <1>1. Raise(r).errors = {WrapUnavailable(TRUE, e) : e \in r.errors} /\ Outcome(Raise(r))
    BY WrappingKeeps DEF Inner
  <1>2. \A e \in r.errors : WrapUnavailable(TRUE, e) \in Error
    BY WrapsStay DEF Inner
  <1> QED
    BY <1>1, <1>2 DEF Inner

LEMMA LayerKeepsInner ==
    ASSUME NEW table, NEW p, table[p] \in Layers, NEW e \in Error, NEW below, Inner(below)
    PROVE  Inner(Layer(table, p, e, below))
  <1>1. Outcome(Layer(table, p, e, below))
    BY LayerKeeps DEF Inner
  <1>2. Layer(table, p, e, below).errors \subseteq below.errors \cup {e}
    BY DEF Layer, Layers, Apply, Gives, Fails
  <1> QED
    BY <1>1, <1>2 DEF Inner

LEMMA ReadIsInner ==
    ASSUME NEW table, NEW p, NEW object
    PROVE  Inner(GetProperty(table, p, object))
  <1>1. DBus("property", Plain) \in Error /\ DBus("variant", Plain) \in Error
    <2>1. {"property", "variant"} \subseteq Category /\ "unavailable" \in CoreKind
          /\ "unavailable" \in PublicKind
      BY DEF Category, CoreKind, PublicKind
    <2> QED
      BY <2>1, MadeErrors
  <1>2. GetProperty(table, p, object).errors \subseteq {DBus("property", Plain), DBus("variant", Plain)}
    BY DEF GetProperty, Missing, Parse, Gives, Fails
  <1> QED
    BY <1>1, <1>2, ReadIsOutcome DEF Inner

LEMMA RefusalsAreErrors == CoreRefusal \in Error /\ PublicRefusal \in Error
  <1>1. "invalid state" \in CoreKind /\ "invalid argument" \in PublicKind
        /\ "property" \in Category
    BY DEF CoreKind, PublicKind, Category
  <1> QED
    BY <1>1, MadeErrors DEF CoreRefusal, PublicRefusal

\* A read that fails, alone or in the batch, fails with an error of a public kind.
LEMMA ReadsPublish ==
    ASSUME NEW kind \in DOMAIN Handle, NEW object
    PROVE  /\ \A p \in Properties(kind) : Published(Get(kind, p, object))
           /\ Published(GetAll(kind, object))
  <1> DEFINE h == Handle[kind]
  <1>1. ASSUME NEW p \in Properties(kind)
        PROVE  /\ h.core[p] \in Layers /\ h.public[p] \in Layers
               /\ h.coreAll[p] \in Layers /\ h.publicAll[p] \in Layers
    BY <1>1, Tables DEF SameReads, Properties, Layers
  <1>2. ASSUME NEW p \in Properties(kind)
        PROVE  Published(Get(kind, p, object))
    <2> DEFINE raised == Raise(GetProperty(h.get, p, object))
               below == Layer(h.core, p, CoreRefusal, raised)
               above == Layer(h.public, p, PublicRefusal, below)
    <2>1. Inner(raised)
      BY ReadIsInner, RaiseKeepsInner
    <2> HIDE DEF raised
    <2>2. Inner(below)
      BY <1>1, <2>1, RefusalsAreErrors, LayerKeepsInner
    <2> HIDE DEF below
    <2>3. Inner(above)
      BY <1>1, <2>2, RefusalsAreErrors, LayerKeepsInner
    <2>4. Get(kind, p, object) = Delegate(above)
      BY DEF Get, above, below, raised
    <2> HIDE DEF above
    <2> QED
      BY <2>3, <2>4, DelegatePublishes
  <1>3. Published(GetAll(kind, object))
    <2> DEFINE raws == GetProperties(h.all, object)
               given(p) == Gives(Raise(raws).value[p])
               read == [p \in DOMAIN h.all |->
                   Layer(h.publicAll, p, PublicRefusal, Layer(h.coreAll, p, CoreRefusal, given(p)))]
               whole == [value |-> [p \in DOMAIN read |-> read[p].value],
                         errors |-> UNION {read[p].errors : p \in DOMAIN read}]
    <2>1. DOMAIN h.all = Properties(kind) /\ DOMAIN read = DOMAIN h.all
      BY Tables DEF SameReads, Properties
    <2>2. Inner(raws)
      <3>1. CASE object = None
        <4>1. DBus("property", Plain) \in Error
          <5>1. "property" \in Category /\ "unavailable" \in CoreKind /\ "unavailable" \in PublicKind
            BY DEF Category, CoreKind, PublicKind
          <5> QED
            BY <5>1, MadeErrors
        <4> QED
          BY <3>1, <4>1 DEF Inner, Outcome, GetProperties, Fails
      <3>2. CASE object # None
        <4> DEFINE one(p) == GetProperty(h.all, p, object)
        <4>1. raws = [value |-> [p \in DOMAIN h.all |-> one(p).value],
                      errors |-> UNION {one(p).errors : p \in DOMAIN h.all}]
          BY <3>2 DEF GetProperties, GetProperty
        <4>2. \A p \in DOMAIN h.all : one(p).errors \subseteq Error
          BY ReadIsInner DEF Inner
        <4> HIDE DEF one, raws, h
        <4> QED
          BY <4>1, <4>2 DEF Inner, Outcome
      <3> QED
        BY <3>1, <3>2
    <2>3. Inner(Raise(raws))
      BY <2>2, RaiseKeepsInner
    <2>4. ASSUME NEW p \in DOMAIN h.all
          PROVE  read[p].errors \subseteq Error
      <3>1. Inner(given(p))
        BY DEF Inner, Outcome, Gives
      <3> HIDE DEF given
      <3>2. Inner(Layer(h.coreAll, p, CoreRefusal, given(p)))
        BY <1>1, <2>1, <3>1, RefusalsAreErrors, LayerKeepsInner
      <3>3. Inner(Layer(h.publicAll, p, PublicRefusal, Layer(h.coreAll, p, CoreRefusal, given(p))))
        BY <1>1, <2>1, <3>2, RefusalsAreErrors, LayerKeepsInner
      <3> QED
        BY <3>3 DEF Inner
    <2>5. GetAll(kind, object) \in {Delegate(Raise(raws)), Delegate(whole)}
      BY DEF GetAll
    <2>6. Inner(whole)
      <3> HIDE DEF read, h
      <3> QED
        BY <2>1, <2>4 DEF Inner, Outcome
    <2> HIDE DEF whole, raws
    <2> QED
      BY <2>3, <2>5, <2>6, DelegatePublishes
  <1> QED
    BY <1>2, <1>3

\* The wrappers tag a failed call with a category, whatever the call.
LEMMA CallTags ==
    ASSUME NEW kind \in DOMAIN Handle, NEW call \in DOMAIN Handle[kind].calls
    PROVE  Handle[kind].calls[call].tag \in Category
  <1>1. kind \in {"Station", "Network", "AccessPoint", "KnownNetwork", "Adapter", "Device",
                  "BasicServiceSet"}
    BY DEF Handle
  <1>2. /\ "method" \in Category /\ "property" \in Category
        /\ \A tag, replies : Call(tag).tag = tag /\ Asks(tag, replies).tag = tag
    BY DEF Category, Call, Asks
  <1>3. CASE kind = "Station"
    <2>1. Handle[kind].calls = With(StationCalls, SimpleConfigurationCalls)
      BY <1>3 DEF Handle
    <2>2. \A c \in DOMAIN StationCalls : StationCalls[c].tag \in Category
      BY <1>2 DEF StationCalls
    <2>3. \A c \in DOMAIN SimpleConfigurationCalls : SimpleConfigurationCalls[c].tag \in Category
      BY <1>2 DEF SimpleConfigurationCalls
    <2> QED
      BY <2>1, <2>2, <2>3 DEF With
  <1>4. CASE kind = "Network"
    BY <1>2, <1>4 DEF Handle, NetworkCalls
  <1>5. CASE kind = "AccessPoint"
    BY <1>2, <1>5 DEF Handle, AccessPointCalls
  <1>6. CASE kind = "KnownNetwork"
    BY <1>2, <1>6 DEF Handle, KnownNetworkCalls
  <1>7. CASE kind = "Adapter"
    BY <1>2, <1>7 DEF Handle, AdapterCalls
  <1>8. CASE kind = "Device"
    BY <1>2, <1>8 DEF Handle, DeviceCalls
  <1>9. CASE kind = "BasicServiceSet"
    BY <1>9 DEF Handle
  <1> QED
    BY <1>1, <1>3, <1>4, <1>5, <1>6, <1>7, <1>8, <1>9

\* The policy of WSC, which leaves failed property accesses out, has none to
\* leave out.
LEMMA WscTags ==
    ASSUME NEW kind \in DOMAIN Handle,
           NEW call \in DOMAIN Handle[kind].calls \cap DOMAIN SimpleConfigurationCalls
    PROVE  Handle[kind].calls[call].tag = "method"
  <1> DEFINE names == {"PushButton", "GeneratePin", "StartPin", "Cancel"}
  <1>1. /\ DOMAIN SimpleConfigurationCalls = names
        /\ \A c \in names : SimpleConfigurationCalls[c].tag = "method"
    BY DEF SimpleConfigurationCalls, Call, Asks
  <1>2. /\ names \cap DOMAIN StationCalls = {} /\ names \cap DOMAIN NetworkCalls = {}
        /\ names \cap DOMAIN AccessPointCalls = {} /\ names \cap DOMAIN KnownNetworkCalls = {}
        /\ names \cap DOMAIN AdapterCalls = {} /\ names \cap DOMAIN DeviceCalls = {}
    BY DEF StationCalls, NetworkCalls, AccessPointCalls, KnownNetworkCalls, AdapterCalls,
           DeviceCalls
  <1>3. kind = "Station"
    BY <1>1, <1>2 DEF Handle
  <1>4. Handle[kind].calls = With(StationCalls, SimpleConfigurationCalls)
    BY <1>3 DEF Handle
  <1> HIDE DEF names
  <1> QED
    BY <1>1, <1>2, <1>4 DEF With

\* A call that fails, or whose reply is not understood, fails with an error of a
\* public kind.
LEMMA CallsPublish ==
    ASSUME NEW kind \in DOMAIN Handle, NEW call \in DOMAIN Handle[kind].calls,
           NEW failed \in BOOLEAN, NEW answer, failed => answer = None
    PROVE  Published(Do(kind, call, failed, answer))
  <1> DEFINE entry == Handle[kind].calls[call]
             invoked == Invoke(entry, failed, answer)
             properties == call \notin DOMAIN SimpleConfigurationCalls
             wrapped == [invoked EXCEPT !.errors = {WrapUnavailable(properties, e) : e \in @}]
  <1>1. entry.tag \in Category /\ "variant" \in Category
        /\ "unavailable" \in CoreKind /\ "unavailable" \in PublicKind
    BY CallTags DEF Category, CoreKind, PublicKind
  <1>2. WrapIwd(entry.tag, Reply(None)) \in Error /\ DBus("variant", Plain) \in Error
    BY <1>1, MadeErrors
  <1>3. invoked.errors \subseteq {WrapIwd(entry.tag, Reply(None)), DBus("variant", Plain)}
        /\ Outcome(invoked)
    BY DEF Invoke, Outcome, Gives, Fails
  <1>4. \A e \in invoked.errors : WrapUnavailable(properties, e) \in Error
    BY <1>2, <1>3, WrapsStay
  <1>5. Do(kind, call, failed, answer) = Delegate(wrapped)
    BY DEF Do
  <1> HIDE DEF invoked, properties
  <1>6. wrapped = [value |-> invoked.value,
                   errors |-> {WrapUnavailable(properties, e) : e \in invoked.errors}]
    BY <1>3 DEF Outcome
  <1> HIDE DEF wrapped
  <1>7. Inner(wrapped)
    BY <1>4, <1>6 DEF Inner, Outcome
  <1> QED
    BY <1>5, <1>7, DelegatePublishes

\* The listing of a kind names every object it was given, or fails with errors
\* of a public kind.
LEMMA ListingPublishes ==
    ASSUME NEW kind, NEW names
    PROVE  /\ Published(Listing(kind, names))
           /\ DOMAIN Listing(kind, names).value = DOMAIN names
  <1> DEFINE name(raw) == CASE kind \in {"Station", "AccessPoint"} -> stationNameFromDevice(raw)
                            [] kind = "BasicServiceSet" -> bssAddressFromManagedObject(raw)
                            [] OTHER -> objectNameFromManagedObject(raw)
             named == [path \in DOMAIN names |-> name(names[path])]
             refs == getRefs(named)
  <1>1. \A raw : name(raw).errors \subseteq {DBus("variant", Plain)}
    BY DEF stationNameFromDevice, bssAddressFromManagedObject, objectNameFromManagedObject,
           Gives, Fails
  <1>2. Listing(kind, names) =
            [refs EXCEPT !.errors = {WrapPublic(WrapUnavailable(FALSE, e)) : e \in @}]
    BY DEF Listing
  <1> HIDE DEF name
  <1>3. /\ refs = [value |-> [path \in DOMAIN named |-> named[path].value],
                   errors |-> UNION {named[path].errors : path \in DOMAIN named}]
        /\ \A path \in DOMAIN named : named[path].errors \subseteq {DBus("variant", Plain)}
        /\ DOMAIN named = DOMAIN names
    BY <1>1 DEF getRefs
  <1> HIDE DEF named
  <1>4. refs = [value |-> refs.value, errors |-> refs.errors]
        /\ DOMAIN refs.value = DOMAIN names /\ refs.errors \subseteq {DBus("variant", Plain)}
    BY <1>3
  <1> HIDE DEF refs
  <1>5. Listing(kind, names) =
            [value |-> refs.value,
             errors |-> {WrapPublic(WrapUnavailable(FALSE, e)) : e \in refs.errors}]
    BY <1>2, <1>4
  <1>6. WrapPublic(WrapUnavailable(FALSE, DBus("variant", Plain))).public \in PublicKind
    <2>1. "variant" \in Category /\ "unavailable" \in CoreKind /\ "unavailable" \in PublicKind
      BY DEF Category, CoreKind, PublicKind
    <2> QED
      BY <2>1, MadeErrors, WrapsStay
  <1>7. \A e \in Listing(kind, names).errors :
            e = WrapPublic(WrapUnavailable(FALSE, DBus("variant", Plain)))
    <2> DEFINE up(e) == WrapPublic(WrapUnavailable(FALSE, e))
    <2>1. Listing(kind, names).errors = {up(e) : e \in refs.errors}
      BY <1>5
    <2> HIDE DEF up
    <2>2. \A e \in Listing(kind, names).errors : e = up(DBus("variant", Plain))
      BY <1>4, <2>1
    <2> QED
      BY <2>2 DEF up
  <1>8. DOMAIN Listing(kind, names).value = DOMAIN names
    BY <1>4, <1>5
  <1> QED
    BY <1>6, <1>7, <1>8 DEF Published

\* So do the listing that the bus fails, the opening of a handle, the tree, the
\* check of an argument, and a call or a subscription that is not answered.
LEMMA OthersPublish ==
    /\ Unlisted.public \in PublicKind
    /\ \A lost \in BOOLEAN : \A e \in Unopened(lost) : e.public \in PublicKind
    /\ Published(resolveTree) /\ Published(Refused)
    /\ Published(Delegate(Raise(Fails(DBus("method", Plain)))))
  <1>1. {"introspection", "method"} \subseteq Category
        /\ {"unavailable", "invalid argument"} \subseteq CoreKind /\ "unavailable" \in PublicKind
    BY DEF Category, CoreKind, PublicKind
  <1>2. /\ Plain \in Error /\ DBus("introspection", Plain) \in Error
        /\ DBus("method", Plain) \in Error /\ Core("invalid argument", Plain) \in Error
    BY <1>1, MadeErrors
  <1>3. \A e : e \in Error => Inner(Fails(e))
    BY DEF Inner, Outcome, Fails
  <1>4. Unlisted.public \in PublicKind
    BY <1>2, WrapsStay DEF Unlisted
  <1>5. ASSUME NEW lost \in BOOLEAN, NEW e \in Unopened(lost)
        PROVE  e.public \in PublicKind
    <2>1. PICK d \in {DBus("introspection", Plain), Plain} : e = WrapPublic(WrapUnavailable(TRUE, d))
      BY <1>5 DEF Unopened
    <2> QED
      BY <1>2, <2>1, WrapsStay
  <1>6. Published(resolveTree)
    BY <1>2, <1>3, DelegatePublishes DEF resolveTree, FetchObjectTree
  <1>7. Published(Refused)
    BY <1>2, <1>3, DelegatePublishes DEF Refused
  <1>8. Published(Delegate(Raise(Fails(DBus("method", Plain)))))
    BY <1>2, <1>3, RaiseKeepsInner, DelegatePublishes
  <1> QED
    BY <1>4, <1>5, <1>6, <1>7, <1>8

-----------------------------------------------------------------------------
(* Out of reach.                                                           *)

TellsUnavailable(r) == \A e \in r.errors : e.public = "unavailable"

\* What the D-Bus layer tags comes up as unavailable, through either policy.
LEMMA TagsTell ==
    ASSUME NEW category \in Category, NEW properties \in BOOLEAN,
           properties \/ category # "property"
    PROVE  /\ WrapPublic(WrapUnavailable(properties, DBus(category, Plain))).public = "unavailable"
           /\ WrapPublic(WrapUnavailable(properties, WrapIwd(category, Reply(None)))).public
                  = "unavailable"
  <1> DEFINE named == [Reply(None) EXCEPT !.is = @ \cup ({Reply(None).reply} \cap IwdName)]
  <1>1. Plain \in Error /\ Plain.public = None
    BY DEF Plain, Error
  <1>2. named \in Error /\ named.public = None
    BY DEF Reply, Plain, Error, Sentinel
  <1>3. WrapIwd(category, Reply(None)) = DBus(category, named)
    BY DEF WrapIwd
  <1> HIDE DEF named
  <1> QED
    BY <1>1, <1>2, <1>3, NoneIsApart, CategorizedIsUnavailable

LEMMA TaggedTells ==
    ASSUME NEW category \in Category
    PROVE  /\ Raise(Fails(DBus(category, Plain))).errors # {}
           /\ TellsUnavailable(Delegate(Raise(Fails(DBus(category, Plain)))))
  <1> DEFINE d == DBus(category, Plain)
             r == Fails(d)
  <1>1. Outcome(r) /\ r.errors = {d}
    BY DEF Outcome, Fails
  <1> HIDE DEF r
  <1>2. /\ Raise(r).errors = {WrapUnavailable(TRUE, e) : e \in r.errors} /\ Outcome(Raise(r))
        /\ Raise(r).errors # {}
    BY <1>1, WrappingKeeps
  <1>3. Delegate(Raise(r)).errors = {WrapPublic(e) : e \in Raise(r).errors}
    BY <1>2, WrappingKeeps
  <1>4. WrapPublic(WrapUnavailable(TRUE, d)).public = "unavailable"
    BY TagsTell
  <1> HIDE DEF d
  <1>5. \A e \in Delegate(Raise(r)).errors : e = WrapPublic(WrapUnavailable(TRUE, d))
    BY <1>1, <1>2, <1>3
  <1> QED
    BY <1>2, <1>4, <1>5 DEF TellsUnavailable, r, d

\* A property of an object that is gone or out of reach, alone or in a batch, and
\* a call or a subscription that the bus fails, come to the application as
\* unavailable, whatever the kind; so do a listing and the opening of a handle
\* that the bus fails.
THEOREM UnreachableTells ==
    ASSUME NEW kind \in DOMAIN Handle
    PROVE  /\ \A p \in Properties(kind) : TellsUnavailable(Get(kind, p, None))
           /\ TellsUnavailable(GetAll(kind, None))
           /\ \A call \in DOMAIN Handle[kind].calls : TellsUnavailable(Do(kind, call, TRUE, None))
           /\ TellsUnavailable(Delegate(Raise(Fails(DBus("method", Plain)))))
           /\ Unlisted.public = "unavailable"
           /\ \A e \in Unopened(TRUE) : e.public = "unavailable"
  <1> DEFINE h == Handle[kind]
             absent == Fails(DBus("property", Plain))
  <1>1. {"property", "method", "introspection"} \subseteq Category
    BY DEF Category
  <1>2. /\ Raise(absent).errors # {} /\ TellsUnavailable(Delegate(Raise(absent)))
        /\ TellsUnavailable(Delegate(Raise(Fails(DBus("method", Plain)))))
    BY <1>1, TaggedTells
  <1>3. ASSUME NEW p \in Properties(kind)
        PROVE  TellsUnavailable(Get(kind, p, None))
    <2>1. GetProperty(h.get, p, None) = absent
      BY DEF GetProperty, Missing, isUnknownPropertyError
    <2> DEFINE raised == Raise(absent)
    <2> HIDE DEF raised, absent
    <2>2. Get(kind, p, None) = Delegate(Layer(h.public, p, PublicRefusal,
                                              Layer(h.core, p, CoreRefusal, raised)))
      BY <2>1 DEF Get, raised
    <2>3. Get(kind, p, None) = Delegate(raised)
      BY <1>2, <2>2 DEF Layer, raised
    <2> QED
      BY <1>2, <2>3 DEF raised
  <1>4. TellsUnavailable(GetAll(kind, None))
    <2>1. GetProperties(h.all, None) = absent
      BY DEF GetProperties
    <2> HIDE DEF absent
    <2>2. GetAll(kind, None) = Delegate(Raise(absent))
      BY <1>2, <2>1 DEF GetAll
    <2> QED
      BY <1>2, <2>2
  <1>5. ASSUME NEW call \in DOMAIN Handle[kind].calls
        PROVE  TellsUnavailable(Do(kind, call, TRUE, None))
    <2> DEFINE tag == Handle[kind].calls[call].tag
               properties == call \notin DOMAIN SimpleConfigurationCalls
               invoked == Fails(WrapIwd(tag, Reply(None)))
               up(e) == WrapPublic(WrapUnavailable(properties, e))
    <2>1. tag \in Category /\ (properties \/ tag # "property")
      BY CallTags, WscTags
    <2>2. Do(kind, call, TRUE, None) =
              Delegate([invoked EXCEPT !.errors = {WrapUnavailable(properties, e) : e \in @}])
      BY DEF Do, Invoke
    <2>3. up(WrapIwd(tag, Reply(None))).public = "unavailable"
      BY <2>1, TagsTell
    <2> DEFINE refused == WrapIwd(tag, Reply(None))
    <2> HIDE DEF tag, properties, refused
    <2>4. [invoked EXCEPT !.errors = {WrapUnavailable(properties, e) : e \in @}] =
              [value |-> None, errors |-> {WrapUnavailable(properties, refused)}]
      BY DEF Fails, refused
    <2>5. Do(kind, call, TRUE, None).errors =
              {WrapPublic(e) : e \in {WrapUnavailable(properties, refused)}}
      BY <2>2, <2>4 DEF Delegate
    <2>6. \A e \in Do(kind, call, TRUE, None).errors : e = up(refused)
      BY <2>5
    <2> HIDE DEF up
    <2> QED
      BY <2>3, <2>6 DEF TellsUnavailable, refused
  <1>6. Unlisted.public = "unavailable"
    BY <1>1, TagsTell DEF Unlisted
  <1>7. \A e \in Unopened(TRUE) : e = WrapPublic(WrapUnavailable(TRUE, DBus("introspection", Plain)))
    BY DEF Unopened
  <1>8. \A e \in Unopened(TRUE) : e.public = "unavailable"
    BY <1>1, <1>7, TagsTell
  <1> QED
    BY <1>2, <1>3, <1>4, <1>5, <1>6, <1>8

-----------------------------------------------------------------------------
(* The network a connection is asked of.                                   *)

\* What Properties tells a connection to decide by is what iwd has: the type as
\* it is, and a network without a known network as one without.
LEMMA NetworkIsTold ==
    ASSUME NEW object, object # None, GetAll("Network", object).errors = {},
           object["Type"] \in Value \cup {None}
    PROVE  LET value == GetAll("Network", object).value IN
           /\ value["Type"] = object["Type"]
           /\ object["KnownNetwork"] \in {None, "/"} => value["KnownNetwork"] = None
  <1>1. "Network" \in DOMAIN Handle
    BY DEF Handle
  <1>2. Handle["Network"].all = NetworkGetProperties
        /\ Handle["Network"].coreAll = CoreNetworkProperties
        /\ Handle["Network"].publicAll = NetworkProperties
        /\ Properties("Network") = DOMAIN NetworkGet
    BY DEF Handle, Properties
  <1>3. "Type" \in Properties("Network") /\ "KnownNetwork" \in Properties("Network")
    BY <1>2 DEF NetworkGet
  <1>4. /\ NetworkGetProperties["Type"] = Required(parseNetworkType)
        /\ NetworkGetProperties["KnownNetwork"] = Optional(parseOptionalObjectPath)
    BY DEF NetworkGetProperties
  <1>5. /\ CoreNetworkProperties["Type"] = "known" /\ CoreNetworkProperties["KnownNetwork"] = "filled"
        /\ NetworkProperties["Type"] = "known" /\ NetworkProperties["KnownNetwork"] = "same"
    BY DEF CoreNetworkProperties, NetworkProperties, With, Same
  <1>6. /\ \A p \in Properties("Network") :
              /\ GetProperty(Handle["Network"].all, p, object).errors = {}
              /\ Batched("Network", p, object).errors = {}
        /\ GetAll("Network", object).value =
              [p \in Properties("Network") |-> Batched("Network", p, object).value]
    BY <1>1, GetAllFails
  <1>7. GetAll("Network", object).value["Type"] = object["Type"]
    <2> DEFINE raw == GetProperty(Handle["Network"].all, "Type", object)
    <2>1. object["Type"] # None /\ raw = Parse(parseNetworkType, object["Type"])
      <3>1. raw.errors = {}
        BY <1>3, <1>6
      <3>2. Required(parseNetworkType).absent = {} /\ Required(parseNetworkType).parser = parseNetworkType
        BY DEF Required
      <3>3. object["Type"] = None => raw.errors # {}
        BY <1>2, <1>4, <3>2 DEF GetProperty, Missing, Fails
      <3> QED
        BY <1>2, <1>4, <3>1, <3>2, <3>3 DEF GetProperty
    <2>2. parseNetworkType.none = {}
      BY ParserTypes
    <2>3. raw.value = object["Type"]
      BY <1>2, <1>3, <1>6, <2>1, <2>2 DEF Parse, Gives, Fails
    <2> DEFINE core == Apply("known", CoreRefusal, raw.value)
               public == Apply("known", PublicRefusal, core.value)
    <2>4. core.errors = {} /\ public.errors = {} /\ Batched("Network", "Type", object).value = public.value
      <3>1. Handle["Network"].coreAll["Type"] = "known" /\ Handle["Network"].publicAll["Type"] = "known"
        BY <1>2, <1>5
      <3>2. Batched("Network", "Type", object).errors = {}
        BY <1>3, <1>6
      <3> QED
        BY <1>1, <1>3, <3>1, <3>2, BatchedFails
    <2> HIDE DEF raw
    <2>5. core.value = raw.value
      BY <2>4 DEF Apply, Gives, Fails
    <2> HIDE DEF core
    <2>6. public.value = core.value
      BY <2>4 DEF Apply, Gives, Fails
    <2> HIDE DEF public
    <2> QED
      BY <1>3, <1>6, <2>3, <2>4, <2>5, <2>6
  <1>8. ASSUME object["KnownNetwork"] \in {None, "/"}
        PROVE  GetAll("Network", object).value["KnownNetwork"] = None
    <2> DEFINE raw == GetProperty(Handle["Network"].all, "KnownNetwork", object)
    <2>1. raw.value = None
      <3>1. CASE object["KnownNetwork"] = None
        <4>1. (CHOOSE v \in {None} : TRUE) = None
          OBVIOUS
        <4> QED
          BY <1>2, <1>4, <3>1, <4>1 DEF GetProperty, Missing, Optional, Gives, isUnknownPropertyError
      <3>2. CASE object["KnownNetwork"] # None
        <4>1. "/" \in parseOptionalObjectPath.none
          BY ParserTypes
        <4> QED
          BY <1>2, <1>4, <1>8, <3>2, <4>1 DEF GetProperty, Optional, Parse, Gives
      <3> QED
        BY <3>1, <3>2
    <2> DEFINE core == Apply("filled", CoreRefusal, raw.value)
               public == Apply("same", PublicRefusal, core.value)
    <2>2. Batched("Network", "KnownNetwork", object).value = public.value
      BY <1>1, <1>2, <1>3, <1>5, <1>6, BatchedFails
    <2> HIDE DEF raw
    <2>3. core.value = None
      BY <2>1 DEF Apply, Gives
    <2> HIDE DEF core
    <2>4. public.value = None
      BY <2>3 DEF Apply, Gives
    <2> HIDE DEF public
    <2> QED
      BY <1>3, <1>6, <2>2, <2>4
  <1> QED
    BY <1>7, <1>8

====
