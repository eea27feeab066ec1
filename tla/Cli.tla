---------------------------------- MODULE Cli ----------------------------------
(***************************************************************************)
(* The commands of spiderw on the command line (src/cmd/spiderw/cli), each *)
(* as the sequence of steps it takes: every step is at most one exchange   *)
(* with the bus, and a command that fails at one takes none of those after *)
(* it.  Module Commands takes the steps.                                   *)
(*   list         Daemon.<Kinds>                                           *)
(*   match        the one reference that the argument names                *)
(*   open         Client.<Kind> of its path; "wsc" the station's WSC       *)
(*   open all     a handle for every reference listed                      *)
(*   each         the steps in "of", for every handle in turn              *)
(*   get, all     a property read alone; Properties                        *)
(*   tree         the object tree that Properties or a call goes on to     *)
(*   parse        the argument is parsed by the command line               *)
(*   look up      BSS addresses in the argument are looked up in a listing *)
(*   register     the credentials agent, "always" or if the network is     *)
(*                "unknown"                                                *)
(*   call         a method, or a property set                              *)
(*   echo         the value asked for stands for the property              *)
(*   enter        what was read joins the overview                         *)
(*   print        "value" of the property read, else the whole result      *)
(*   subscribe    Subscribe<Property>Changed                               *)
(*   stream       prints what the subscription tells, until Ctrl-C         *)
(***************************************************************************)
EXTENDS Handles, Sequences

Step(do, of) == [do |-> do, of |-> of]

All == <<Step("all", None)>>
AllResolved == <<Step("all", None), Step("tree", None)>>
Tell == <<Step("print", None)>>
Show(p) == <<Step("get", p), Step("print", p)>>
Calls(call) == <<Step("call", call)>>

\* The argument, the set, and a read back.
Assign(set, p) == <<Step("parse", None), Step("call", set)>> \o Show(p)

\* A monitor prints the current value, then subscribes.
Stream(p) == <<Step("subscribe", p), Step("stream", p)>>
Monitor(p) == Show(p) \o Stream(p)
MonitorFrom(entry, p) == entry \o <<Step("print", p)>> \o Stream(p)

Find == <<Step("list", None), Step("match", None), Step("open", None)>>
ListRefs == <<Step("list", None)>> \o Tell
Status(entry) ==
    <<Step("list", None), Step("open all", None),
      Step("each", entry \o <<Step("enter", None)>>)>> \o Tell

\* The commands on one object: its lookup, then the steps of the command.
WithRef(byRef, commands) == [c \in DOMAIN commands |-> byRef \o commands[c]]

-----------------------------------------------------------------------------
(* spiderw station                                                         *)

stationByRef == Find
stationList == ListRefs
stationStatusEntry == AllResolved
stationStatus == Status(stationStatusEntry)
stationSingleStatus == stationStatusEntry \o Tell
stationAffinities == [affinities |-> stationStatusEntry \o <<Step("print", "Affinities")>>]

stationAffinitiesSet ==
    [setAffinities |-> <<Step("look up", None), Step("call", "SetAffinities"),
                         Step("echo", "Affinities"), Step("print", "Affinities")>>,
     clearAffinities |-> Calls("SetAffinities") \o Tell]

stationNetworks == [networks |-> Calls("GetOrderedNetworks") \o <<Step("tree", None)>> \o Tell]
stationDisconnect == [disconnect |-> Calls("Disconnect") \o Tell]

stationConnectHidden ==
    [connectHidden |-> <<Step("register", "always"), Step("call", "ConnectHiddenNetwork")>> \o Tell]

stationHiddenAPs == [hiddenAPs |-> Calls("GetHiddenAccessPoints") \o Tell]

\* What enrols the station is said before the call, which blocks.
stationWSC ==
    [pushButton |-> <<Step("open", "wsc")>> \o Tell \o Calls("PushButton") \o Tell,
     pin |-> <<Step("open", "wsc")>> \o Calls("GeneratePin") \o Tell \o Calls("StartPin") \o Tell,
     givenPin |-> <<Step("open", "wsc")>> \o Tell \o Calls("StartPin") \o Tell,
     cancel |-> <<Step("open", "wsc")>> \o Calls("Cancel") \o Tell]

stationMonitor ==
    [monitorState |-> MonitorFrom(AllResolved, "State"),
     monitorScanning |-> MonitorFrom(AllResolved, "Scanning"),
     monitorNetwork |-> MonitorFrom(AllResolved, "ConnectedNetwork"),
     monitorAccessPoint |-> MonitorFrom(AllResolved, "ConnectedAccessPoint"),
     monitorAffinities |-> MonitorFrom(AllResolved, "Affinities")]

station ==
    With([list |-> stationList, status |-> stationStatus],
    WithRef(stationByRef,
        With([oneStatus |-> stationSingleStatus],
        With(stationAffinities, With(stationAffinitiesSet, With(stationNetworks,
        With(stationDisconnect, With(stationConnectHidden, With(stationHiddenAPs,
        With(stationWSC, stationMonitor))))))))))

-----------------------------------------------------------------------------
(* spiderw network                                                         *)

networkByRef == Find
networkList == ListRefs
networkStatusEntry == AllResolved
networkStatus == Status(networkStatusEntry)
networkSingleStatus == networkStatusEntry \o Tell

networkShow ==
    [connected |-> Show("Connected"), type |-> Show("Type"), device |-> Show("Device"),
     name |-> Show("Name"), knownNetwork |-> Show("KnownNetwork"),
     bsses |-> Show("ExtendedServiceSet")]

networkConnect ==
    [connect |-> AllResolved \o <<Step("register", "unknown"), Step("call", "Connect")>>
                 \o Show("Connected")]

networkMonitor ==
    [monitorConnected |-> Monitor("Connected"),
     monitorKnownNetwork |-> Monitor("KnownNetwork"),
     monitorBSSes |-> Monitor("ExtendedServiceSet")]

network ==
    With([list |-> networkList, status |-> networkStatus],
    WithRef(networkByRef,
        With([oneStatus |-> networkSingleStatus],
        With(networkShow, With(networkConnect, networkMonitor)))))

-----------------------------------------------------------------------------
(* spiderw access-point                                                    *)

accessPointByRef == Find
accessPointList == ListRefs
accessPointStatusEntry == All
accessPointStatus == Status(accessPointStatusEntry)
accessPointSingleStatus == accessPointStatusEntry \o Tell

accessPointStart == [start |-> Calls("Start") \o Tell, startProfile |-> Calls("StartProfile") \o Tell]
accessPointStop == [stop |-> Calls("Stop") \o Tell]
accessPointNetworks == [networks |-> Calls("GetOrderedNetworks") \o Tell]

accessPointMonitor ==
    [monitorStarted |-> MonitorFrom(All, "Started"),
     monitorScanning |-> MonitorFrom(All, "Scanning")]

accessPoint ==
    With([list |-> accessPointList, status |-> accessPointStatus],
    WithRef(accessPointByRef,
        With([oneStatus |-> accessPointSingleStatus],
        With(accessPointStart, With(accessPointStop,
        With(accessPointNetworks, accessPointMonitor))))))

-----------------------------------------------------------------------------
(* spiderw known-network                                                   *)

knownNetworkByRef == Find
knownNetworkList == ListRefs
knownNetworkStatusEntry == All
knownNetworkStatus == Status(knownNetworkStatusEntry)
knownNetworkSingleStatus == knownNetworkStatusEntry \o Tell

BadKnownNetworkAutoConnect ==
    [autoconnect |-> Show("AutoConnect"),
     setAutoConnect |-> Assign("SetAutoConnect", "AutoConnect")]

\* iwd applies AutoConnect after it has replied: what was asked for is told.
knownNetworkAutoConnect ==
    [autoconnect |-> Show("AutoConnect"),
     setAutoConnect |-> <<Step("parse", None), Step("call", "SetAutoConnect"),
                          Step("echo", "AutoConnect"), Step("print", "AutoConnect")>>]

knownNetworkForget == [forget |-> Calls("Forget") \o Tell]

knownNetworkShow ==
    [hidden |-> Show("Hidden"), lastConnected |-> Show("LastConnectedTime"),
     name |-> Show("Name"), type |-> Show("Type")]

knownNetworkMonitor ==
    [monitorAutoConnect |-> Monitor("AutoConnect"),
     monitorHidden |-> Monitor("Hidden"),
     monitorLastConnected |-> Monitor("LastConnectedTime")]

knownNetwork ==
    With([list |-> knownNetworkList, status |-> knownNetworkStatus],
    WithRef(knownNetworkByRef,
        With([oneStatus |-> knownNetworkSingleStatus],
        With(knownNetworkAutoConnect, With(knownNetworkForget,
        With(knownNetworkShow, knownNetworkMonitor))))))

-----------------------------------------------------------------------------
(* spiderw adapter                                                         *)

adapterByRef == Find
adapterList == ListRefs
adapterStatusEntry == All
adapterStatus == Status(adapterStatusEntry)
adapterSingleStatus == adapterStatusEntry \o Tell

adapterPowered == [powered |-> Show("Powered"), setPowered |-> Assign("SetPowered", "Powered")]

adapterShow ==
    [name |-> Show("Name"), model |-> Show("Model"), vendor |-> Show("Vendor"),
     supportedModes |-> Show("SupportedModes")]

\* The mode is parsed first, and looked for in SupportedModes.
adapterSupportsMode ==
    [supportsMode |-> <<Step("parse", None)>> \o adapterByRef \o Show("SupportedModes")]

adapterMonitor == [monitorPowered |-> Monitor("Powered")]

adapter ==
    With([list |-> adapterList, status |-> adapterStatus],
    With(adapterSupportsMode,
    WithRef(adapterByRef,
        With([oneStatus |-> adapterSingleStatus],
        With(adapterPowered, With(adapterShow, adapterMonitor))))))

-----------------------------------------------------------------------------
(* spiderw device                                                          *)

deviceByRef == Find
deviceList == ListRefs
deviceStatusEntry == AllResolved
deviceStatus == Status(deviceStatusEntry)
deviceSingleStatus == deviceStatusEntry \o Tell

devicePowered == [powered |-> Show("Powered"), setPowered |-> Assign("SetPowered", "Powered")]
deviceMode == [mode |-> Show("Mode"), setMode |-> Assign("SetMode", "Mode")]

deviceShow ==
    [name |-> Show("Name"), address |-> Show("Address"), adapter |-> Show("Adapter")]

deviceMonitor == [monitorPowered |-> Monitor("Powered"), monitorMode |-> Monitor("Mode")]

device ==
    With([list |-> deviceList, status |-> deviceStatus],
    WithRef(deviceByRef,
        With([oneStatus |-> deviceSingleStatus],
        With(devicePowered, With(deviceMode, With(deviceShow, deviceMonitor))))))

-----------------------------------------------------------------------------
(* spiderw bss                                                             *)

bssByRef == Find
bssList == ListRefs
bssStatusEntry == All
bssStatus == Status(bssStatusEntry)
bssSingleStatus == bssStatusEntry \o Tell

bssAddress == [address |-> Show("Address")]

bss ==
    With([list |-> bssList, status |-> bssStatus],
    WithRef(bssByRef, With([oneStatus |-> bssSingleStatus], bssAddress)))

-----------------------------------------------------------------------------
Command ==
    [Station |-> station, Network |-> network, AccessPoint |-> accessPoint,
     KnownNetwork |-> knownNetwork, Adapter |-> adapter, Device |-> device,
     BasicServiceSet |-> bss]

=============================================================================
