------------------------- MODULE StationWatch_proofs -------------------------
(***************************************************************************)
(* The safety of the two commands, for any networks and any number of      *)
(* signals.                                                                *)
(***************************************************************************)
EXTENDS StationWatch, TLAPS

\* What the scan command may rely on while the station scans for nobody else:
\* every Scanning = FALSE since its subscription is about its own scan.
WaitInv ==
    /\ done => Live("scan")
    /\ ~shared =>
        /\ Live("scan") => scanner # "other"
        /\ Live("scan") =>
               \A i \in since["scan"] + 1 .. Len(changes) :
                   FALSE \in Scanning(changes[i]) => finished
        /\ done => finished
        /\ WaitOutlastsScan

\* A signal that gives a value for ConnectedNetwork gives the one it then had.
LinesInv ==
    /\ was[Len(was)] = network
    /\ \A i \in 1 .. Len(changes) : ConnectedNetwork(changes[i]) \subseteq {was[i + 1]}
    /\ LinesTrue

IInv == TypeOK /\ WaitInv /\ LinesInv

-----------------------------------------------------------------------------
(* Signals.                                                                *)

\* The signals that are sent.
Signals ==
    {[iface |-> "Station", changed |-> Property("Scanning", on), invalidated |-> {}] :
        on \in BOOLEAN}
    \cup {[iface |-> "Station", changed |-> Property("ConnectedNetwork", n),
           invalidated |-> {}] : n \in Network \cup {NullPath, Malformed}}
    \cup {[iface |-> "Station", changed |-> [p \in {} |-> None],
           invalidated |-> {"ConnectedNetwork"}]}
    \cup {[iface |-> "AccessPoint", changed |-> Property("Scanning", on),
           invalidated |-> {}] : on \in BOOLEAN}

\* Each signal that is sent has the type of a signal.
LEMMA SignalsAreChanges == Signals \subseteq Change
  <1> DEFINE Changed == UNION {[P -> Value] : P \in SUBSET Prop}
             Record(iface, changed, invalidated) ==
                 [iface |-> iface, changed |-> changed, invalidated |-> invalidated]
  <1>1. \A P \in SUBSET Prop : [P -> Value] \subseteq Changed
    OBVIOUS
  <1>2. \A p \in Prop, v \in Value : Property(p, v) \in Changed
    <2> TAKE p \in Prop, v \in Value
    <2>1. Property(p, v) \in [{p} -> Value] /\ {p} \in SUBSET Prop
      BY DEF Property
    <2> QED
      BY <1>1, <2>1
  <1>3. [p \in {} |-> None] \in Changed
    <2>1. [p \in {} |-> None] \in [{} -> Value] /\ {} \in SUBSET Prop
      OBVIOUS
    <2> QED
      BY <1>1, <2>1
  <1>4. \A iface \in {"Station", "AccessPoint"}, changed \in Changed, inv \in SUBSET Prop :
            Record(iface, changed, inv) \in Change
    BY DEF Change
  <1> HIDE DEF Changed
  <1>5. /\ BOOLEAN \subseteq Value /\ Network \cup {NullPath, Malformed} \subseteq Value
        /\ "Scanning" \in Prop /\ "ConnectedNetwork" \in Prop
        /\ {} \in SUBSET Prop /\ {"ConnectedNetwork"} \in SUBSET Prop
    BY DEF Value, Prop
  <1>6. \A on \in BOOLEAN, iface \in {"Station", "AccessPoint"} :
            Record(iface, Property("Scanning", on), {}) \in Change
    BY <1>2, <1>4, <1>5
  <1>7. \A n \in Network \cup {NullPath, Malformed} :
            Record("Station", Property("ConnectedNetwork", n), {}) \in Change
    BY <1>2, <1>4, <1>5
  <1>8. Record("Station", [p \in {} |-> None], {"ConnectedNetwork"}) \in Change
    BY <1>3, <1>4, <1>5
  <1> QED
    BY <1>6, <1>7, <1>8 DEF Signals

\* What the typed subscriptions make of them.
LEMMA Decoded ==
    /\ \A on \in BOOLEAN :
           LET ch == [iface |-> "Station", changed |-> Property("Scanning", on),
                      invalidated |-> {}]
           IN  Scanning(ch) = {on} /\ ConnectedNetwork(ch) = {}
    /\ \A n \in Network \cup {NullPath, Malformed} :
           LET ch == [iface |-> "Station", changed |-> Property("ConnectedNetwork", n),
                      invalidated |-> {}]
           IN  /\ Scanning(ch) = {}
               /\ ConnectedNetwork(ch) = IF n = NullPath THEN {None} ELSE {n} \cap Network
    /\ LET ch == [iface |-> "Station", changed |-> [p \in {} |-> None],
                  invalidated |-> {"ConnectedNetwork"}]
       IN  Scanning(ch) = {} /\ ConnectedNetwork(ch) = {None}
    /\ \A on \in BOOLEAN :
           LET ch == [iface |-> "AccessPoint", changed |-> Property("Scanning", on),
                      invalidated |-> {}]
           IN  Scanning(ch) = {} /\ ConnectedNetwork(ch) = {}
  BY DEF Scanning, ConnectedNetwork, About, Property, ParsePath

\* A signal is appended, and the history with it.
LEMMA Emitted ==
    ASSUME TypeOK, network' \in Network \cup {None},
           NEW iface, NEW changed, NEW invalidated,
           [iface |-> iface, changed |-> changed, invalidated |-> invalidated] \in Signals,
           Emit(iface, changed, invalidated)
    PROVE  /\ changes' \in Seq(Change) /\ Len(changes') = Len(changes) + 1
           /\ Len(changes') <= MaxChanges
           /\ \A i \in 1 .. Len(changes) : changes'[i] = changes[i]
           /\ changes'[Len(changes) + 1] =
                  [iface |-> iface, changed |-> changed, invalidated |-> invalidated]
           /\ was' \in Seq(Network \cup {None}) /\ Len(was') = Len(was) + 1
           /\ \A i \in 1 .. Len(was) : was'[i] = was[i]
           /\ was'[Len(was')] = network'
  <1> DEFINE ch == [iface |-> iface, changed |-> changed, invalidated |-> invalidated]
  <1>1. ch \in Change
    BY SignalsAreChanges
  <1>2. changes \in Seq(Change) /\ was \in Seq(Network \cup {None}) /\ MaxChanges \in Nat
    BY WatchAssumption DEF TypeOK
  <1>3. Len(changes) < MaxChanges /\ changes' = Append(changes, ch) /\ was' = Append(was, network')
    BY DEF Emit
  <1> HIDE DEF ch
  <1>4. /\ changes' \in Seq(Change) /\ Len(changes') = Len(changes) + 1
        /\ \A i \in 1 .. Len(changes) : changes'[i] = changes[i]
        /\ changes'[Len(changes) + 1] = ch
    BY <1>1, <1>2, <1>3
  <1>5. /\ was' \in Seq(Network \cup {None}) /\ Len(was') = Len(was) + 1
        /\ \A i \in 1 .. Len(was) : was'[i] = was[i]
        /\ was'[Len(was')] = network'
    BY <1>2, <1>3
  <1> QED
    BY <1>2, <1>3, <1>4, <1>5 DEF ch

-----------------------------------------------------------------------------
(* The inductive invariant.                                                *)

\* The invariant holds at first.
LEMMA InitInv == Init => IInv
  <1> SUFFICES ASSUME Init PROVE IInv
    OBVIOUS
  <1>1. PICK run \in Command : pc = [c \in Command |-> IF c = run THEN "start" ELSE "end"]
    BY DEF Init
  <1>2. ~Live("scan") /\ ~Live("monitor") /\ pc["scan"] # "list"
    BY <1>1 DEF Live, Command
  <1>3. network \in Network \cup {None} /\ was = <<network>> /\ changes = <<>>
    BY DEF Init
  <1>4. TypeOK
    <2>1. /\ changes \in Seq(Change) /\ Len(changes) <= MaxChanges
          /\ was \in Seq(Network \cup {None}) /\ Len(was) = Len(changes) + 1
      BY <1>3, WatchAssumption
    <2>2. pc \in [Command -> {"start", "read", "subscribed", "started", "waiting", "list",
                             "streaming", "end"}]
      BY <1>1
    <2>3. since \in [Command -> Nat] /\ handled \in [Command -> SUBSET (1 .. MaxChanges)]
          /\ \A c \in Command : handled[c] = {}
      BY DEF Init
    <2>4. /\ mode \in {"station", "ap"} /\ scanner \in {None, "command", "other"}
          /\ mode = "ap" => scanner = None
          /\ lines \subseteq [at : 0 .. Len(changes), value : Network \cup {None}]
      BY DEF Init
    <2>5. done \in BOOLEAN /\ finished \in BOOLEAN /\ shared \in BOOLEAN
      BY DEF Init
    <2>6. network \in Network \cup {None}
      BY <1>3
    <2> QED
      BY <2>1, <2>2, <2>3, <2>4, <2>5, <2>6 DEF TypeOK
  <1>5. WaitInv
    BY <1>2 DEF Init, WaitInv, WaitOutlastsScan
  <1>6. LinesInv
    BY <1>3 DEF Init, LinesInv, LinesTrue
  <1> QED
    BY <1>4, <1>5, <1>6 DEF IInv

\* What each action of iwd, and the start of the scan, sends.
LEMMA Sends ==
    ASSUME TypeOK
    PROVE  /\ OtherScans \/ ScanStarts =>
                  \E ch \in Signals : /\ Scanning(ch) = {TRUE} /\ ConnectedNetwork(ch) = {}
                                      /\ Emit(ch.iface, ch.changed, ch.invalidated)
           /\ ScanEnds =>
                  \E ch \in Signals : /\ Scanning(ch) = {FALSE} /\ ConnectedNetwork(ch) = {}
                                      /\ Emit(ch.iface, ch.changed, ch.invalidated)
           /\ (\E n \in Network : Connects(n)) \/ Disconnects \/ SendsMalformed
              \/ (\E on \in BOOLEAN : AccessPointScans(on)) =>
                  \E ch \in Signals : /\ Scanning(ch) = {} /\ network' \in Network \cup {None}
                                      /\ ConnectedNetwork(ch) \subseteq {network'}
                                      /\ Emit(ch.iface, ch.changed, ch.invalidated)
  <1> DEFINE Scan(on) == [iface |-> "Station", changed |-> Property("Scanning", on),
                          invalidated |-> {}]
             Path(n) == [iface |-> "Station", changed |-> Property("ConnectedNetwork", n),
                         invalidated |-> {}]
             Clear == [iface |-> "Station", changed |-> [p \in {} |-> None],
                       invalidated |-> {"ConnectedNetwork"}]
             AP(on) == [iface |-> "AccessPoint", changed |-> Property("Scanning", on),
                        invalidated |-> {}]
  <1>1. /\ \A on \in BOOLEAN : Scan(on) \in Signals /\ AP(on) \in Signals
        /\ \A n \in Network \cup {NullPath, Malformed} : Path(n) \in Signals
        /\ Clear \in Signals
    BY DEF Signals
  <1>2. OtherScans \/ ScanStarts => Emit(Scan(TRUE).iface, Scan(TRUE).changed, Scan(TRUE).invalidated)
    BY DEF OtherScans, ScanStarts
  <1>3. ScanEnds => Emit(Scan(FALSE).iface, Scan(FALSE).changed, Scan(FALSE).invalidated)
    BY DEF ScanEnds
  <1>4. ASSUME NEW n \in Network, Connects(n)
        PROVE  /\ network' = n /\ ConnectedNetwork(Path(n)) = {n} /\ Scanning(Path(n)) = {}
               /\ Emit(Path(n).iface, Path(n).changed, Path(n).invalidated)
    <2>1. n # NullPath /\ n \in Network \cup {NullPath, Malformed} /\ {n} \cap Network = {n}
      BY WatchAssumption
    <2>2. ConnectedNetwork(Path(n)) = {n} /\ Scanning(Path(n)) = {}
      BY <2>1, Decoded
    <2>3. network' = n /\ Emit("Station", Property("ConnectedNetwork", n), {})
      BY <1>4 DEF Connects
    <2> QED
      BY <2>2, <2>3
  <1>5. ASSUME Disconnects
        PROVE  /\ network' = None
               /\ \E ch \in {Clear, Path(NullPath)} :
                      Emit(ch.iface, ch.changed, ch.invalidated)
    BY <1>5 DEF Disconnects
  <1>6. /\ ConnectedNetwork(Clear) = {None} /\ Scanning(Clear) = {}
        /\ ConnectedNetwork(Path(NullPath)) = {None} /\ Scanning(Path(NullPath)) = {}
    BY Decoded
  <1>7. ASSUME SendsMalformed
        PROVE  /\ network' \in Network \cup {None}
               /\ ConnectedNetwork(Path(Malformed)) = {} /\ Scanning(Path(Malformed)) = {}
               /\ Emit(Path(Malformed).iface, Path(Malformed).changed, Path(Malformed).invalidated)
    <2>1. /\ Malformed # NullPath /\ Malformed \in Network \cup {NullPath, Malformed}
          /\ {Malformed} \cap Network = {}
      BY WatchAssumption
    <2>2. ConnectedNetwork(Path(Malformed)) = {} /\ Scanning(Path(Malformed)) = {}
      BY <2>1, Decoded
    <2>3. /\ network' \in Network \cup {None}
          /\ Emit("Station", Property("ConnectedNetwork", Malformed), {})
      BY <1>7 DEF SendsMalformed, TypeOK
    <2> QED
      BY <2>2, <2>3
  <1>8. ASSUME NEW on \in BOOLEAN, AccessPointScans(on)
        PROVE  /\ network' \in Network \cup {None}
               /\ ConnectedNetwork(AP(on)) = {} /\ Scanning(AP(on)) = {}
               /\ Emit(AP(on).iface, AP(on).changed, AP(on).invalidated)
    BY <1>8, Decoded DEF AccessPointScans, TypeOK
  <1>9. \A on \in BOOLEAN : Scanning(Scan(on)) = {on} /\ ConnectedNetwork(Scan(on)) = {}
    BY Decoded
  <1> HIDE DEF Scan, Path, Clear, AP
  <1>10. OtherScans \/ ScanStarts =>
             \E ch \in Signals : /\ Scanning(ch) = {TRUE} /\ ConnectedNetwork(ch) = {}
                                 /\ Emit(ch.iface, ch.changed, ch.invalidated)
    BY <1>1, <1>2, <1>9
  <1>11. ScanEnds =>
             \E ch \in Signals : /\ Scanning(ch) = {FALSE} /\ ConnectedNetwork(ch) = {}
                                 /\ Emit(ch.iface, ch.changed, ch.invalidated)
    BY <1>1, <1>3, <1>9
  <1>12. ASSUME (\E n \in Network : Connects(n)) \/ Disconnects \/ SendsMalformed
                \/ (\E on \in BOOLEAN : AccessPointScans(on))
         PROVE  \E ch \in Signals : /\ Scanning(ch) = {} /\ network' \in Network \cup {None}
                                    /\ ConnectedNetwork(ch) \subseteq {network'}
                                    /\ Emit(ch.iface, ch.changed, ch.invalidated)
    BY <1>1, <1>4, <1>5, <1>6, <1>7, <1>8, <1>12
  <1> QED
    BY <1>10, <1>11, <1>12

\* The actions that send a signal, and what the signal adds.
Sending ==
    \/ OtherScans \/ ScanEnds \/ (\E n \in Network : Connects(n)) \/ Disconnects
    \/ SendsMalformed \/ (\E on \in BOOLEAN : AccessPointScans(on)) \/ ScanStarts

\* Such a step adds one signal, whose value for ConnectedNetwork, if it gives one,
\* is the new one, and which ends a scan only if it is the end of one.
LEMMA Grows ==
    ASSUME TypeOK, Sending
    PROVE  /\ network' \in Network \cup {None}
           /\ changes' \in Seq(Change) /\ Len(changes') = Len(changes) + 1
           /\ Len(changes') <= MaxChanges
           /\ \A i \in 1 .. Len(changes) : changes'[i] = changes[i]
           /\ was' \in Seq(Network \cup {None}) /\ Len(was') = Len(was) + 1
           /\ \A i \in 1 .. Len(was) : was'[i] = was[i]
           /\ was'[Len(was')] = network'
           /\ ConnectedNetwork(changes'[Len(changes')]) \subseteq {network'}
           /\ FALSE \in Scanning(changes'[Len(changes')]) => ScanEnds
  <1>1. network' \in Network \cup {None}
    <2>1. OtherScans \/ ScanEnds \/ ScanStarts => network' \in Network \cup {None}
      BY DEF OtherScans, ScanEnds, ScanStarts, TypeOK
    <2> QED
      BY <2>1, Sends DEF Sending
  <1>2. PICK ch \in Signals :
            /\ ConnectedNetwork(ch) \subseteq {network'}
            /\ FALSE \in Scanning(ch) => ScanEnds
            /\ Emit(ch.iface, ch.changed, ch.invalidated)
    <2>1. CASE OtherScans \/ ScanStarts
      BY <2>1, Sends
    <2>2. CASE ScanEnds
      BY <2>2, Sends
    <2>3. CASE (\E n \in Network : Connects(n)) \/ Disconnects \/ SendsMalformed
               \/ (\E on \in BOOLEAN : AccessPointScans(on))
      BY <2>3, Sends
    <2> QED
      BY <2>1, <2>2, <2>3 DEF Sending
  <1>3. [iface |-> ch.iface, changed |-> ch.changed, invalidated |-> ch.invalidated] = ch
    BY SignalsAreChanges DEF Change
  <1>4. /\ changes' \in Seq(Change) /\ Len(changes') = Len(changes) + 1
        /\ Len(changes') <= MaxChanges
        /\ \A i \in 1 .. Len(changes) : changes'[i] = changes[i]
        /\ changes'[Len(changes) + 1] = ch
        /\ was' \in Seq(Network \cup {None}) /\ Len(was') = Len(was) + 1
        /\ \A i \in 1 .. Len(was) : was'[i] = was[i]
        /\ was'[Len(was')] = network'
    BY <1>1, <1>2, <1>3, Emitted
  <1> QED
    BY <1>1, <1>2, <1>4

\* The steps of the commands that send nothing and end nothing.
Moves ==
    \/ ScanSubscribes \/ ScanWaits \/ WaitEnds \/ MonitorReads \/ MonitorSubscribes

Ending == \E c \in Command : Ends(c) /\ pc[c] # "end"

\* The steps by what they have in common.
LEMMA NextSplits ==
    Next => \/ Sending \/ BecomesAccessPoint \/ Moves \/ Ending
            \/ \E i \in 1 .. MaxChanges : ScanHandler(i) \/ MonitorHandler(i)
  <1>1. WaitTimesOut \/ ScanLists \/ (\E c \in Command : CommandEnds(c)) => Ending
    BY DEF WaitTimesOut, ScanLists, CommandEnds, Ending, Command
  <1> QED
    BY <1>1 DEF Next, Iwd, Handlers, Commands, Sending, Moves

\* Every step keeps the types.
LEMMA TypeStep == ASSUME TypeOK, Next PROVE TypeOK'
  <1> DEFINE At == {"start", "read", "subscribed", "started", "waiting", "list",
                    "streaming", "end"}
  <1>1. CASE Sending
    <2>1. /\ changes' \in Seq(Change) /\ Len(changes') <= MaxChanges
          /\ was' \in Seq(Network \cup {None}) /\ Len(was') = Len(changes') + 1
          /\ network' \in Network \cup {None} /\ Len(changes') = Len(changes) + 1
      <3>1. Len(was) = Len(changes) + 1
        BY DEF TypeOK
      <3> QED
        BY <1>1, <3>1, Grows
    <2>2. /\ mode' \in {"station", "ap"} /\ scanner' \in {None, "command", "other"}
          /\ mode' = "ap" => scanner' = None
      BY <1>1 DEF Sending, TypeOK, OtherScans, ScanEnds, Connects, Disconnects,
                  SendsMalformed, AccessPointScans, ScanStarts
    <2>3. /\ pc' \in [Command -> At]
          /\ \A c \in Command : ~(pc'[c] \notin {"start", "read", "end"}) =>
                 ~(pc[c] \notin {"start", "read", "end"})
      BY <1>1 DEF Sending, TypeOK, OtherScans, ScanEnds, Connects, Disconnects,
                  SendsMalformed, AccessPointScans, ScanStarts, Goes, Command
    <2>4. UNCHANGED <<since, handled, lines>>
      BY <1>1 DEF Sending, OtherScans, ScanEnds, Connects, Disconnects,
                  SendsMalformed, AccessPointScans, ScanStarts, subVars
    <2>5. done' \in BOOLEAN /\ finished' \in BOOLEAN /\ shared' \in BOOLEAN
      BY <1>1 DEF Sending, OtherScans, ScanEnds, Connects, Disconnects,
                  SendsMalformed, AccessPointScans, ScanStarts, scanVars, TypeOK, Live
    <2>6. lines' \subseteq [at : 0 .. Len(changes'), value : Network \cup {None}]
      <3>1. 0 .. Len(changes) \subseteq 0 .. Len(changes')
        BY <2>1 DEF TypeOK
      <3> QED
        BY <2>4, <3>1 DEF TypeOK
    <2> QED
      BY <2>1, <2>2, <2>3, <2>4, <2>5, <2>6 DEF TypeOK, Live
  <1>2. CASE BecomesAccessPoint
    BY <1>2 DEF BecomesAccessPoint, subVars, scanVars, TypeOK, Live
  <1>3. CASE Moves
    <2>1. UNCHANGED <<mode, scanner, network, changes, was>>
      BY <1>3 DEF Moves, ScanSubscribes, ScanWaits, WaitEnds, MonitorReads,
                  MonitorSubscribes, iwdVars
    <2>2. pc' \in [Command -> At] /\ handled' = handled
      BY <1>3 DEF Moves, ScanSubscribes, ScanWaits, WaitEnds, MonitorReads,
                  MonitorSubscribes, Subscribe, Goes, subVars, TypeOK
    <2>3. since' \in [Command -> Nat]
      BY <1>3 DEF Moves, ScanSubscribes, ScanWaits, WaitEnds, MonitorReads,
                  MonitorSubscribes, Subscribe, subVars, TypeOK
    <2>4. \A c \in Command : ~(pc'[c] \notin {"start", "read", "end"}) =>
                 ~(pc[c] \notin {"start", "read", "end"})
      BY <1>3 DEF Moves, ScanSubscribes, ScanWaits, WaitEnds, MonitorReads,
                  MonitorSubscribes, Subscribe, Goes, TypeOK, Command
    <2>5. done' \in BOOLEAN /\ finished' \in BOOLEAN /\ shared' \in BOOLEAN
      BY <1>3 DEF Moves, ScanSubscribes, ScanWaits, WaitEnds, MonitorReads,
                  MonitorSubscribes, scanVars, TypeOK
    <2>6. lines' \subseteq [at : 0 .. Len(changes), value : Network \cup {None}]
      <3>1. Len(changes) \in 0 .. Len(changes)
        BY DEF TypeOK
      <3> QED
        BY <1>3, <3>1 DEF Moves, ScanSubscribes, ScanWaits, WaitEnds, MonitorReads,
                    MonitorSubscribes, TypeOK
    <2> QED
      BY <2>1, <2>2, <2>3, <2>4, <2>5, <2>6 DEF TypeOK, Live
  <1>4. CASE Ending
    <2>1. PICK c \in Command : Ends(c)
      BY <1>4 DEF Ending
    <2>2. /\ pc' \in [Command -> At] /\ since' \in [Command -> Nat]
          /\ handled' \in [Command -> SUBSET (1 .. MaxChanges)]
          /\ handled'[c] = {}
          /\ \A d \in Command \ {c} : pc'[d] = pc[d] /\ handled'[d] = handled[d]
      BY <2>1 DEF Ends, TypeOK
    <2>3. UNCHANGED <<mode, scanner, network, changes, was, finished>>
      BY <2>1 DEF Ends, iwdVars
    <2>4. (lines' = lines \/ lines' = {}) /\ done' \in BOOLEAN /\ shared' \in BOOLEAN
      BY <2>1 DEF Ends, TypeOK
    <2> QED
      BY <2>2, <2>3, <2>4 DEF TypeOK, Live
  <1>5. ASSUME NEW i \in 1 .. MaxChanges, NEW c \in Command, Handled(c, i)
        PROVE  /\ UNCHANGED <<mode, scanner, network, changes, was, pc, since, finished, shared>>
               /\ i \in since[c] + 1 .. Len(changes) /\ Live(c)
               /\ handled' \in [Command -> SUBSET (1 .. MaxChanges)]
               /\ \A d \in Command \ {c} : handled'[d] = handled[d]
    BY <1>5 DEF Handled, Pending, iwdVars, TypeOK
  <1>6. CASE \E i \in 1 .. MaxChanges : ScanHandler(i)
    <2>1. PICK i \in 1 .. MaxChanges : ScanHandler(i)
      BY <1>6
    <2>2. Handled("scan", i) /\ done' \in BOOLEAN /\ lines' = lines
      BY <2>1 DEF ScanHandler, TypeOK
    <2> QED
      BY <1>5, <2>2 DEF TypeOK, Live, Command
  <1>7. CASE \E i \in 1 .. MaxChanges : MonitorHandler(i)
    <2>1. PICK i \in 1 .. MaxChanges : MonitorHandler(i)
      BY <1>7
    <2>2. Handled("monitor", i) /\ done' = done
      BY <2>1 DEF MonitorHandler
    <2>3. i \in 0 .. Len(changes)
      BY <1>5, <2>2 DEF Command, TypeOK
    <2>4. ConnectedNetwork(changes[i]) \subseteq Network \cup {None}
      BY DEF ConnectedNetwork, ParsePath
    <2>5. lines' \subseteq [at : 0 .. Len(changes), value : Network \cup {None}]
      BY <2>1, <2>3, <2>4 DEF MonitorHandler, TypeOK
    <2> QED
      BY <1>5, <2>2, <2>5 DEF TypeOK, Live, Command
  <1> QED
    BY <1>1, <1>2, <1>3, <1>4, <1>6, <1>7, NextSplits

-----------------------------------------------------------------------------
(* The scan command's wait.                                                *)

\* A step that leaves the scan command where it is and starts no scan.
WaitKept ==
    /\ UNCHANGED <<done, finished, shared, changes>>
    /\ pc'["scan"] = pc["scan"] /\ since'["scan"] = since["scan"]
    /\ scanner' = scanner \/ scanner' = None

\* It keeps the invariant.
LEMMA KeptWait ==
    ASSUME WaitInv, WaitKept
    PROVE  WaitInv'
  BY WatchAssumption DEF WaitInv, WaitKept, WaitOutlastsScan, Live

\* So does every step.
LEMMA WaitStep == ASSUME TypeOK, WaitInv, Next PROVE WaitInv'
  <1>1. CASE OtherScans
    BY <1>1, WatchAssumption DEF OtherScans, WaitInv, WaitOutlastsScan, Live, subVars
  <1>2. CASE Sending /\ ~OtherScans
    <2>1. /\ changes \in Seq(Change) /\ changes' \in Seq(Change)
          /\ Len(changes') = Len(changes) + 1
          /\ \A i \in 1 .. Len(changes) : changes'[i] = changes[i]
          /\ FALSE \in Scanning(changes'[Len(changes')]) => ScanEnds
      BY <1>2, Grows DEF TypeOK
    <2>2. /\ done' = done /\ shared' = shared /\ since' = since
          /\ finished => finished'
          /\ scanner' \in {scanner, None, "command"}
      <3>1. CASE ScanEnds
        BY <3>1 DEF ScanEnds, subVars
      <3>2. ASSUME NEW n \in Network, Connects(n)
            PROVE  UNCHANGED <<scanner, since, done, shared, finished>>
        BY <3>2 DEF Connects, subVars, scanVars
      <3>3. ASSUME NEW on \in BOOLEAN, AccessPointScans(on)
            PROVE  UNCHANGED <<scanner, since, done, shared, finished>>
        BY <3>3 DEF AccessPointScans, subVars, scanVars
      <3>4. CASE Disconnects \/ SendsMalformed
        BY <3>4 DEF Disconnects, SendsMalformed, subVars, scanVars
      <3>5. CASE ScanStarts
        BY <3>5 DEF ScanStarts, subVars, scanVars
      <3> QED
        BY <1>2, <3>1, <3>2, <3>3, <3>4, <3>5 DEF Sending
    <2>3. /\ Live("scan")' <=> Live("scan")
          /\ pc'["scan"] = "list" <=> pc["scan"] = "list"
      <3>1. \/ pc' = pc
            \/ pc["scan"] = "subscribed" /\ pc'["scan"] = "started"
        BY <1>2 DEF Sending, ScanEnds, Connects, Disconnects, SendsMalformed,
                    AccessPointScans, ScanStarts, Goes, TypeOK, Command
      <3> QED
        BY <3>1 DEF Live
    <2>4. ASSUME ScanEnds, ~shared, Live("scan")
          PROVE  finished'
      BY <2>4 DEF ScanEnds, WaitInv, TypeOK
    <2>5. ASSUME ~shared, Live("scan"),
                 NEW i \in since["scan"] + 1 .. Len(changes'),
                 FALSE \in Scanning(changes'[i])
          PROVE  finished'
      <3>1. since["scan"] \in Nat
        BY DEF TypeOK, Command
      <3>2. CASE i = Len(changes')
        BY <2>1, <2>4, <2>5, <3>2
      <3>3. CASE i # Len(changes')
        <4>1. i \in since["scan"] + 1 .. Len(changes) /\ i \in 1 .. Len(changes)
          BY <2>1, <3>1, <3>3
        <4>2. FALSE \in Scanning(changes[i])
          BY <2>1, <2>5, <4>1
        <4> QED
          BY <2>2, <2>5, <4>1, <4>2 DEF WaitInv
      <3> QED
        BY <3>2, <3>3
    <2>6. done' => Live("scan")'
      BY <2>2, <2>3 DEF WaitInv
    <2>7. ASSUME ~shared'
          PROVE  /\ Live("scan")' => scanner' # "other"
                 /\ done' => finished'
                 /\ WaitOutlastsScan'
      BY <2>2, <2>3, <2>7, WatchAssumption DEF WaitInv, WaitOutlastsScan
    <2> QED
      BY <2>2, <2>3, <2>5, <2>6, <2>7 DEF WaitInv
  <1>3. CASE BecomesAccessPoint
    BY <1>3, KeptWait DEF BecomesAccessPoint, WaitKept, subVars, scanVars
  <1>4. CASE ScanSubscribes
    <2>1. /\ since'["scan"] = Len(changes) /\ changes' = changes /\ Len(changes) \in Nat
          /\ pc'["scan"] = "subscribed" /\ pc["scan"] = "start"
          /\ done' = done /\ scanner' = scanner /\ shared' = (scanner # None)
      BY <1>4 DEF ScanSubscribes, Subscribe, Goes, iwdVars, TypeOK, Command
    <2>2. ~done'
      BY <2>1 DEF WaitInv, Live
    <2>3. since'["scan"] + 1 .. Len(changes') = {}
      BY <2>1
    <2> QED
      BY <2>1, <2>2, <2>3, WatchAssumption DEF WaitInv, WaitOutlastsScan
  <1>5. CASE ScanWaits \/ WaitEnds
    <2>1. /\ UNCHANGED <<scanner, changes, since, finished, shared>>
          /\ pc["scan"] \in {"started", "waiting"} /\ pc'["scan"] \in {"waiting", "list"}
          /\ done' => done
          /\ pc'["scan"] = "list" => done
      BY <1>5 DEF ScanWaits, WaitEnds, iwdVars, subVars, scanVars, Goes, TypeOK, Command
    <2> QED
      BY <2>1 DEF WaitInv, WaitOutlastsScan, Live
  <1>6. CASE MonitorReads \/ MonitorSubscribes
    BY <1>6, KeptWait DEF MonitorReads, MonitorSubscribes, Subscribe, Goes, WaitKept,
                          iwdVars, subVars, scanVars, TypeOK, Command
  <1>7. CASE Ending
    <2>1. CASE Ends("scan")
      BY <2>1 DEF Ends, WaitInv, WaitOutlastsScan, Live, TypeOK, Command
    <2>2. CASE Ends("monitor")
      BY <2>2, KeptWait DEF Ends, WaitKept, iwdVars, TypeOK, Command
    <2> QED
      BY <1>7, <2>1, <2>2 DEF Ending, Command
  <1>8. ASSUME NEW i \in 1 .. MaxChanges, ScanHandler(i)
        PROVE  WaitInv'
    <2>1. /\ UNCHANGED <<scanner, changes, pc, since, finished, shared>>
          /\ Live("scan") /\ i \in since["scan"] + 1 .. Len(changes)
          /\ done' = (done \/ FALSE \in Scanning(changes[i]))
      BY <1>8 DEF ScanHandler, Handled, Pending, iwdVars
    <2> QED
      BY <2>1 DEF WaitInv, WaitOutlastsScan, Live
  <1>9. ASSUME NEW i \in 1 .. MaxChanges, MonitorHandler(i)
        PROVE  WaitInv'
    BY <1>9, KeptWait DEF MonitorHandler, Handled, WaitKept, iwdVars
  <1> QED
    BY <1>1, <1>2, <1>3, <1>4, <1>5, <1>6, <1>7, <1>8, <1>9, NextSplits DEF Moves

-----------------------------------------------------------------------------
(* The monitor's lines.                                                    *)

\* Every step keeps the invariant of the lines.
LEMMA LinesStep == ASSUME TypeOK, LinesInv, Next PROVE LinesInv'
  <1>1. Len(was) = Len(changes) + 1 /\ Len(changes) \in Nat
    BY DEF TypeOK
  <1>2. CASE Sending
    <2>1. lines' = lines
      BY <1>2 DEF Sending, OtherScans, ScanEnds, Connects, Disconnects,
                  SendsMalformed, AccessPointScans, ScanStarts
    <2>2. was'[Len(was')] = network'
      BY <1>2, Grows
    <2>3. ASSUME NEW i \in 1 .. Len(changes')
          PROVE  ConnectedNetwork(changes'[i]) \subseteq {was'[i + 1]}
      <3>1. CASE i = Len(changes')
        BY <1>1, <1>2, <3>1, Grows
      <3>2. CASE i # Len(changes')
        <4>1. i \in 1 .. Len(changes) /\ i + 1 \in 1 .. Len(was)
          BY <1>1, <1>2, <3>2, Grows
        <4>2. changes'[i] = changes[i] /\ was'[i + 1] = was[i + 1]
          BY <1>2, <4>1, Grows
        <4> QED
          BY <4>1, <4>2 DEF LinesInv
      <3> QED
        BY <3>1, <3>2
    <2>4. ASSUME NEW line \in lines'
          PROVE  line.value = was'[line.at + 1]
      <3>1. line.at \in 0 .. Len(changes) /\ line.value = was[line.at + 1]
        BY <2>1, <2>4 DEF TypeOK, LinesInv, LinesTrue
      <3>2. line.at + 1 \in 1 .. Len(was)
        BY <1>1, <3>1
      <3> QED
        BY <1>2, <3>1, <3>2, Grows
    <2> QED
      BY <2>2, <2>3, <2>4 DEF LinesInv, LinesTrue
  <1>3. ASSUME UNCHANGED <<network, changes, was>>,
               \A line \in lines' : line.value = was[line.at + 1]
        PROVE  LinesInv'
    BY <1>3 DEF LinesInv, LinesTrue
  <1>4. CASE BecomesAccessPoint \/ ScanSubscribes \/ ScanWaits \/ WaitEnds \/ MonitorSubscribes
    BY <1>3, <1>4 DEF BecomesAccessPoint, ScanSubscribes, ScanWaits, WaitEnds,
                      MonitorSubscribes, iwdVars, LinesInv, LinesTrue
  <1>5. CASE MonitorReads
    BY <1>1, <1>3, <1>5 DEF MonitorReads, iwdVars, LinesInv
  <1>6. CASE Ending
    BY <1>3, <1>6 DEF Ending, Ends, iwdVars, LinesInv, LinesTrue
  <1>7. ASSUME NEW i \in 1 .. MaxChanges, ScanHandler(i)
        PROVE  LinesInv'
    BY <1>3, <1>7 DEF ScanHandler, Handled, iwdVars, LinesInv, LinesTrue
  <1>8. ASSUME NEW i \in 1 .. MaxChanges, MonitorHandler(i)
        PROVE  LinesInv'
    <2>1. /\ UNCHANGED <<network, changes, was>> /\ i \in since["monitor"] + 1 .. Len(changes)
          /\ lines' = lines \cup
                 {[at |-> i, value |-> v] : v \in ConnectedNetwork(changes[i])}
      BY <1>8 DEF MonitorHandler, Handled, Pending, iwdVars
    <2>2. \A v \in ConnectedNetwork(changes[i]) : v = was[i + 1]
      BY <2>1 DEF LinesInv
    <2> QED
      BY <1>3, <2>1, <2>2 DEF LinesInv, LinesTrue
  <1> QED
    BY <1>2, <1>4, <1>5, <1>6, <1>7, <1>8, NextSplits DEF Moves

-----------------------------------------------------------------------------
(* The theorems.                                                           *)

\* The invariant: the parts above, kept by every step and by stuttering.
LEMMA Invariant == Spec => []IInv
  <1>1. ASSUME IInv, [Next]_vars PROVE IInv'
    <2>1. CASE Next
      BY <1>1, <2>1, TypeStep, WaitStep, LinesStep DEF IInv
    <2>2. CASE UNCHANGED vars
      BY <1>1, <2>2 DEF vars, iwdVars, subVars, scanVars, IInv, TypeOK, Live, WaitInv,
                        WaitOutlastsScan, LinesInv, LinesTrue
    <2> QED
      BY <1>1, <2>1, <2>2
  <1> QED
    BY <1>1, InitInv, PTL DEF Spec

\* Every state of the commands, of iwd's station and of the signals between them
\* has its type; a command that does not watch has handled no signal.
THEOREM TypeCorrect == Spec => []TypeOK
  BY Invariant, PTL DEF IInv

\* `station scan` lists after the end of the scan it started, whatever else iwd
\* says of the station, as long as iwd scans for nobody else from the
\* subscription to the list.
THEOREM AloneScanOutlasted == Spec => []AloneWaitOutlastsScan
  <1>1. IInv => AloneWaitOutlastsScan
    BY DEF IInv, WaitInv, AloneWaitOutlastsScan
  <1> QED
    BY <1>1, Invariant, PTL

\* No line of `station monitor network` gives a value that the property did not
\* have after the change the line is printed for: invalidated, null and malformed
\* values and handlers that overtake each other included.
THEOREM LinesAreTrue == Spec => []LinesTrue
  <1>1. IInv => LinesTrue
    BY DEF IInv, LinesInv
  <1> QED
    BY <1>1, Invariant, PTL

=============================================================================
