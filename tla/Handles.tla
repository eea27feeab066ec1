------------------------------- MODULE Handles -------------------------------
(***************************************************************************)
(* What an application is told of a property and of a call, by way of the  *)
(* wrappers of core (src/internal/core) and of the public handles (src).   *)
(* As in IwdObjects there is a table per kind and way: what each layer     *)
(* does with the value the layer below gives it.                           *)
(*   "same"     passes it on                                               *)
(*   "known"    refuses a word that is not of the enumeration              *)
(*   "named"    trims it, and refuses a text of blanks                     *)
(*   "trimmed"  trims it                                                   *)
(*   "filled"   trims it, and takes a text of blanks for none              *)
(*   "listed"   takes an empty list for none                               *)
(***************************************************************************)
EXTENDS IwdObjects

Same(S) == [p \in S |-> "same"]
With(f, g) == [p \in DOMAIN f \cup DOMAIN g |-> IF p \in DOMAIN f THEN f[p] ELSE g[p]]

\* What a layer gives for a value; e is the error it refuses one with.
Apply(what, e, v) ==
    CASE what = "same" -> Gives(v)
      [] what = "known" -> IF v \in Word \cup List THEN Gives(v) ELSE Fails(e)
      [] what = "named" -> IF TrimSpace(v) = "" THEN Fails(e) ELSE Gives(TrimSpace(v))
      [] what = "trimmed" -> Gives(IF v = None THEN None ELSE TrimSpace(v))
      [] what = "filled" -> Gives(IF v = None \/ TrimSpace(v) = "" THEN None ELSE TrimSpace(v))
      [] what = "listed" -> Gives(IF v = "[]" THEN None ELSE v)

Layer(table, p, e, below) ==
    IF below.errors # {} THEN below ELSE Apply(table[p], e, below.value)

-----------------------------------------------------------------------------
(* Core: the getters, Properties and the subscriptions of each kind.       *)

CoreStation ==
    With([State |-> "known", ConnectedNetwork |-> "filled", ConnectedAccessPoint |-> "filled"],
         Same({"Scanning", "Affinities"}))

CoreStationProperties ==
    With([State |-> "known", ConnectedNetwork |-> "filled", ConnectedAccessPoint |-> "filled"],
         Same({"Scanning", "Affinities"}))

CoreStationSubscriptions ==
    Same({"State", "Scanning", "ConnectedNetwork", "ConnectedAccessPoint", "Affinities"})

CoreNetwork ==
    With([Name |-> "named", Device |-> "named", Type |-> "known", KnownNetwork |-> "filled"],
         Same({"Connected", "ExtendedServiceSet"}))

CoreNetworkProperties ==
    With([Name |-> "named", Device |-> "named", Type |-> "known", KnownNetwork |-> "filled"],
         Same({"Connected", "ExtendedServiceSet"}))

CoreNetworkSubscriptions == Same({"Connected", "KnownNetwork", "ExtendedServiceSet"})

CoreAccessPoint ==
    Same({"Started", "Scanning", "Name", "Frequency", "PairwiseCiphers", "GroupCipher"})

CoreAccessPointProperties ==
    Same({"Started", "Scanning", "Name", "Frequency", "PairwiseCiphers", "GroupCipher"})

CoreAccessPointSubscriptions == Same({"Started", "Scanning"})

CoreKnownNetwork ==
    With([Name |-> "named", Type |-> "known", LastConnectedTime |-> "filled"],
         Same({"Hidden", "AutoConnect"}))

CoreKnownNetworkProperties ==
    With([Name |-> "named", Type |-> "known", LastConnectedTime |-> "filled"],
         Same({"Hidden", "AutoConnect"}))

CoreKnownNetworkSubscriptions == Same({"AutoConnect", "Hidden", "LastConnectedTime"})

CoreAdapter ==
    With([Name |-> "named", Model |-> "trimmed", Vendor |-> "trimmed", SupportedModes |-> "known"],
         Same({"Powered"}))

CoreAdapterProperties ==
    With([Name |-> "named", Model |-> "trimmed", Vendor |-> "trimmed", SupportedModes |-> "known"],
         Same({"Powered"}))

CoreAdapterSubscriptions == Same({"Powered"})

CoreDevice ==
    With([Name |-> "named", Address |-> "named", Mode |-> "known", Adapter |-> "named"],
         Same({"Powered"}))

CoreDeviceProperties ==
    With([Name |-> "named", Address |-> "named", Mode |-> "known", Adapter |-> "named"],
         Same({"Powered"}))

CoreDeviceSubscriptions == Same({"Powered", "Mode"})

CoreBasicServiceSet == [Address |-> "named"]
CoreBasicServiceSetProperties == [Address |-> "named"]

-----------------------------------------------------------------------------
(* The public handles.                                                     *)

Station ==
    With([State |-> "known"],
         Same({"Scanning", "ConnectedNetwork", "ConnectedAccessPoint", "Affinities"}))

StationProperties ==
    With([State |-> "known", Affinities |-> "listed"],
         Same({"Scanning", "ConnectedNetwork", "ConnectedAccessPoint"}))

StationSubscriptions ==
    With([State |-> "known"],
         Same({"Scanning", "ConnectedNetwork", "ConnectedAccessPoint", "Affinities"}))

Network ==
    With([Type |-> "known"],
         Same({"Name", "Connected", "Device", "KnownNetwork", "ExtendedServiceSet"}))

NetworkProperties ==
    With([Type |-> "known", ExtendedServiceSet |-> "listed"],
         Same({"Name", "Connected", "Device", "KnownNetwork"}))

NetworkSubscriptions == Same({"Connected", "KnownNetwork", "ExtendedServiceSet"})

\* The access point's Name is SSID to the application.
AccessPoint ==
    Same({"Started", "Scanning", "Name", "Frequency", "PairwiseCiphers", "GroupCipher"})

AccessPointProperties ==
    Same({"Started", "Scanning", "Name", "Frequency", "PairwiseCiphers", "GroupCipher"})

AccessPointSubscriptions == Same({"Started", "Scanning"})

KnownNetwork ==
    With([Type |-> "known"], Same({"Name", "Hidden", "LastConnectedTime", "AutoConnect"}))

KnownNetworkProperties ==
    With([Type |-> "known"], Same({"Name", "Hidden", "LastConnectedTime", "AutoConnect"}))

KnownNetworkSubscriptions == Same({"AutoConnect", "Hidden", "LastConnectedTime"})

Adapter ==
    With([SupportedModes |-> "known"], Same({"Powered", "Name", "Model", "Vendor"}))

AdapterProperties ==
    With([SupportedModes |-> "known"], Same({"Powered", "Name", "Model", "Vendor"}))

AdapterSubscriptions == Same({"Powered"})

Device == With([Mode |-> "known"], Same({"Name", "Address", "Powered", "Adapter"}))

DeviceProperties == With([Mode |-> "known"], Same({"Name", "Address", "Powered", "Adapter"}))

DeviceSubscriptions == With([Mode |-> "known"], Same({"Powered"}))

BasicServiceSet == Same({"Address"})
BasicServiceSetProperties == Same({"Address"})

-----------------------------------------------------------------------------
(* The way of a value from iwd to the application.                         *)

Handle ==
    [Station |->
        [get |-> StationGet, all |-> StationGetProperties, signals |-> StationSignals,
         core |-> CoreStation, coreAll |-> CoreStationProperties,
         coreSignals |-> CoreStationSubscriptions,
         public |-> Station, publicAll |-> StationProperties,
         publicSignals |-> StationSubscriptions,
         calls |-> With(StationCalls, SimpleConfigurationCalls)],
     Network |->
        [get |-> NetworkGet, all |-> NetworkGetProperties, signals |-> NetworkSignals,
         core |-> CoreNetwork, coreAll |-> CoreNetworkProperties,
         coreSignals |-> CoreNetworkSubscriptions,
         public |-> Network, publicAll |-> NetworkProperties,
         publicSignals |-> NetworkSubscriptions,
         calls |-> NetworkCalls],
     AccessPoint |->
        [get |-> AccessPointGet, all |-> AccessPointGetProperties, signals |-> AccessPointSignals,
         core |-> CoreAccessPoint, coreAll |-> CoreAccessPointProperties,
         coreSignals |-> CoreAccessPointSubscriptions,
         public |-> AccessPoint, publicAll |-> AccessPointProperties,
         publicSignals |-> AccessPointSubscriptions,
         calls |-> AccessPointCalls],
     KnownNetwork |->
        [get |-> KnownNetworkGet, all |-> KnownNetworkGetProperties,
         signals |-> KnownNetworkSignals,
         core |-> CoreKnownNetwork, coreAll |-> CoreKnownNetworkProperties,
         coreSignals |-> CoreKnownNetworkSubscriptions,
         public |-> KnownNetwork, publicAll |-> KnownNetworkProperties,
         publicSignals |-> KnownNetworkSubscriptions,
         calls |-> KnownNetworkCalls],
     Adapter |->
        [get |-> AdapterGet, all |-> AdapterGetProperties, signals |-> AdapterSignals,
         core |-> CoreAdapter, coreAll |-> CoreAdapterProperties,
         coreSignals |-> CoreAdapterSubscriptions,
         public |-> Adapter, publicAll |-> AdapterProperties,
         publicSignals |-> AdapterSubscriptions,
         calls |-> AdapterCalls],
     Device |->
        [get |-> DeviceGet, all |-> DeviceGetProperties, signals |-> DeviceSignals,
         core |-> CoreDevice, coreAll |-> CoreDeviceProperties,
         coreSignals |-> CoreDeviceSubscriptions,
         public |-> Device, publicAll |-> DeviceProperties,
         publicSignals |-> DeviceSubscriptions,
         calls |-> DeviceCalls],
     BasicServiceSet |->
        [get |-> BasicServiceSetGet, all |-> BasicServiceSetGetProperties, signals |-> <<>>,
         core |-> CoreBasicServiceSet, coreAll |-> CoreBasicServiceSetProperties,
         coreSignals |-> <<>>,
         public |-> BasicServiceSet, publicAll |-> BasicServiceSetProperties,
         publicSignals |-> <<>>, calls |-> <<>>]]

Properties(kind) == DOMAIN Handle[kind].get

\* Having no value, or no object, is told apart from all there is.
ASSUME HandlesAssumption ==
    /\ None \notin Value \cup PublicKind \cup {"operation failed"}
    /\ \A kind \in DOMAIN Handle :
           /\ None \notin Properties(kind)
           /\ None \notin [Properties(kind) -> Value \cup {None}]

\* Core wraps what the D-Bus layer returns; delegate wraps what core returns.
Raise(result) == [result EXCEPT !.errors = {WrapUnavailable(TRUE, e) : e \in @}]
Delegate(result) == [result EXCEPT !.errors = {WrapPublic(e) : e \in @}]

CoreRefusal == Core("invalid state", Plain)
PublicRefusal == NewPublic("invalid argument", Plain)

\* <Handle>.<Property>: a property read alone.
Get(kind, p, object) ==
    LET h == Handle[kind]
        raised == Raise(GetProperty(h.get, p, object)) IN
    Delegate(Layer(h.public, p, PublicRefusal, Layer(h.core, p, CoreRefusal, raised)))

\* <Handle>.Properties, without the object tree that some kinds go on to read.
GetAll(kind, object) ==
    LET h == Handle[kind]
        raw == Raise(GetProperties(h.all, object))
        read == [p \in DOMAIN h.all |->
            Layer(h.publicAll, p, PublicRefusal, Layer(h.coreAll, p, CoreRefusal, Gives(raw.value[p])))] IN
    IF raw.errors # {} THEN Delegate(raw)
    ELSE Delegate([value |-> [p \in DOMAIN read |-> read[p].value],
                   errors |-> UNION {read[p].errors : p \in DOMAIN read}])

\* Properties of these name the objects they refer to, by a tree read after.
\* resolveTree's error has not been through core.
Resolves == {"Station", "Network", "Device"}
resolveTree == Delegate(Fails(FetchObjectTree))

\* What Subscribe<Property>Changed gives the application's callback for a signal
\* with this value: a set of at most one value.
Subscribed(kind, p, raw) ==
    LET h == Handle[kind]
        above(v) == Layer(h.publicSignals, p, PublicRefusal,
                          Layer(h.coreSignals, p, CoreRefusal, Gives(v))) IN
    {above(v).value : v \in {w \in Told(h.signals[p], raw) : above(w).errors = {}}}

\* An empty list and no list are the same to a reader.
Seen(v) == IF v = "[]" THEN None ELSE v

-----------------------------------------------------------------------------
(* Calls.  Core checks these arguments before anything is sent.            *)

Checked ==
    {"SetAffinities", "ConnectHiddenNetwork", "Start", "StartProfile", "SetMode", "StartPin"}

Refused == Delegate(Fails(Core("invalid argument", Plain)))

\* The policy of WSC leaves failed property accesses out, which it has none of.
Do(kind, call, failed, answer) ==
    LET result == Invoke(Handle[kind].calls[call], failed, answer)
        properties == call \notin DOMAIN SimpleConfigurationCalls IN
    Delegate([result EXCEPT !.errors = {WrapUnavailable(properties, e) : e \in @}])

-----------------------------------------------------------------------------
(* The daemon's listings and the opening of a handle.                      *)

\* Daemon.<Kinds>: the paths of a kind's objects, with what names them.
Listing(kind, names) ==
    LET name(raw) == CASE kind \in {"Station", "AccessPoint"} -> stationNameFromDevice(raw)
                       [] kind = "BasicServiceSet" -> bssAddressFromManagedObject(raw)
                       [] OTHER -> objectNameFromManagedObject(raw)
        result == getRefs([path \in DOMAIN names |-> name(names[path])]) IN
    [result EXCEPT !.errors = {WrapPublic(WrapUnavailable(FALSE, e)) : e \in @}]

Unlisted == WrapPublic(WrapUnavailable(FALSE, DBus("introspection", Plain)))

\* Client.<Kind>: an object that is gone fails the introspection, one without
\* the interface is refused by New<Kind>, with an error of no category.
Unopened(lost) ==
    {WrapPublic(WrapUnavailable(TRUE, e)) :
        e \in {DBus("introspection", Plain)} \cup (IF lost THEN {} ELSE {Plain})}

=============================================================================
