------------------------ MODULE SignalLevelAgent_proofs ------------------------
(***************************************************************************)
(* The signal-level monitors, for any callers, stations and monitors.      *)
(***************************************************************************)
EXTENDS SignalLevelAgent, TLAPS

-----------------------------------------------------------------------------
(* The invariant.                                                          *)

WorksOn(t, st) == pc[t] # "idle" /\ Place(t) = st

\* A monitor belongs to the station it was made for, and so does the object
\* at a station's path and what its callback heard.
PlaceInv ==
    /\ \A t \in Caller : work[t] # None => Place(t) # None
    /\ \A p \in Station : exported[p] # None => at[exported[p]] = p
    /\ settled \subseteq {a \in Agent : at[a] # None}
    /\ OwnStationOnly

\* One call at most works on a monitor, and none does on a registered or a
\* settled one.
WorkInv ==
    /\ \A t \in Caller : work[t] \notin registered \cup settled
    /\ \A t, u \in Caller : work[t] = work[u] /\ work[t] # None => t = u
    /\ registered \cap settled = {}

\* A monitor in service, or on its way there.
Live(a) == a \in registered \/ \E t \in Caller : work[t] = a /\ pc[t] = "bind"
Coming(a) == \E t \in Caller : work[t] = a /\ pc[t] = "register"

\* A station that is not shared has one unsettled monitor at most, and that
\* one keeps the path from its export and the registration from iwd's reply.
AloneInv ==
    /\ \A a, b \in Agent \ settled : at[a] = at[b] /\ at[a] \in Station \ shared => a = b
    /\ \A a \in Agent : at[a] \in Station \ shared =>
           /\ Live(a) \/ Coming(a) => Serves(a)
           /\ Live(a) => iwd[at[a]] \in {a, None}

\* A call that will account for what iwd holds: it hands the monitor over,
\* still asks iwd to forget it, or returns an error.
Accounts(t) == pc[t] \in {"bind", "undo", "call"} \/ (pc[t] = "unexport" /\ failed[t])

LeakInv ==
    \A st \in Station :
        \/ iwd[st] = None \/ st \in reported
        \/ \E a \in registered : at[a] = st
        \/ \E t \in Caller : Accounts(t) /\ Place(t) = st

IInv == TypeOK /\ PlaceInv /\ WorkInv /\ NoOrphan /\ AloneInv /\ LeakInv

-----------------------------------------------------------------------------
(* One lemma per action: the step keeps the invariant.                     *)

LEMMA ExportKeeps ==
    ASSUME IInv, NEW t \in Caller, NEW a \in Agent, NEW st \in Station, Export(t, a, st)
    PROVE  IInv'
  <1>1. TypeOK'
    BY MonitorAssumption DEF Export, Moves, IInv, TypeOK
  <1>2. PlaceInv'
    BY MonitorAssumption DEF Export, IInv, TypeOK, PlaceInv, OwnStationOnly, Place, Path
  <1>3. WorkInv'
    BY DEF Export, IInv, TypeOK, PlaceInv, WorkInv, Place
  <1>4. NoOrphan'
    BY DEF Export, Moves, IInv, TypeOK, NoOrphan
  <1>5. AloneInv'
    BY DEF Export, Moves, IInv, TypeOK, PlaceInv, WorkInv, AloneInv, Live, Coming, Serves,
           Place, Path, MadeFor
  <1>6. LeakInv'
    BY DEF Export, Moves, IInv, TypeOK, PlaceInv, LeakInv, Accounts, Place
  <1> QED
    BY <1>1, <1>2, <1>3, <1>4, <1>5, <1>6 DEF IInv

LEMMA RegisterKeeps ==
    ASSUME IInv, NEW t \in Caller, Register(t)
    PROVE  IInv'
  <1>1. TypeOK'
    BY DEF Register, Moves, IInv, TypeOK, agentVars
  <1>2. PlaceInv'
    BY DEF Register, IInv, PlaceInv, OwnStationOnly, Place, agentVars
  <1>3. WorkInv'
    BY DEF Register, IInv, WorkInv, agentVars
  <1>4. NoOrphan'
    BY DEF Register, IInv, NoOrphan, agentVars
  <1>5. AloneInv'
    BY DEF Register, Moves, IInv, TypeOK, AloneInv, Live, Coming, Serves, Place, agentVars
  <1>6. LeakInv'
    BY DEF Register, Moves, IInv, TypeOK, LeakInv, Accounts, Place, agentVars
  <1> QED
    BY <1>1, <1>2, <1>3, <1>4, <1>5, <1>6 DEF IInv

LEMMA BindKeeps ==
    ASSUME IInv, NEW t \in Caller, Bind(t)
    PROVE  IInv'
  <1>1. TypeOK'
    BY DEF Bind, Moves, IInv, TypeOK, PlaceInv, Place, history
  <1>2. PlaceInv'
    BY DEF Bind, IInv, PlaceInv, OwnStationOnly, Place, history
  <1>3. WorkInv'
    BY MonitorAssumption DEF Bind, Moves, IInv, TypeOK, WorkInv, history
  <1>4. NoOrphan'
    BY DEF Bind, IInv, NoOrphan
  <1>5. AloneInv'
    BY DEF Bind, Moves, IInv, TypeOK, AloneInv, Live, Coming, Serves, history
  <1>6. LeakInv'
    BY DEF Bind, Moves, IInv, LeakInv, Accounts, Place, history
  <1> QED
    BY <1>1, <1>2, <1>3, <1>4, <1>5, <1>6 DEF IInv

LEMMA RegisterFailsKeeps ==
    ASSUME IInv, NEW t \in Caller, RegisterFails(t)
    PROVE  IInv'
  <1>1. TypeOK'
    BY DEF RegisterFails, Moves, IInv, TypeOK, agentVars, history
  <1>2. PlaceInv'
    BY DEF RegisterFails, IInv, PlaceInv, OwnStationOnly, Place, agentVars, history
  <1>3. WorkInv'
    BY DEF RegisterFails, IInv, WorkInv, agentVars, history
  <1>4. NoOrphan'
    BY DEF RegisterFails, IInv, NoOrphan, agentVars
  <1>5. AloneInv'
    BY DEF RegisterFails, Moves, IInv, TypeOK, AloneInv, Live, Coming, Serves, Place, agentVars,
           history
  <1>6. LeakInv'
    BY DEF RegisterFails, Moves, IInv, TypeOK, LeakInv, Accounts, Place, agentVars, history
  <1> QED
    BY <1>1, <1>2, <1>3, <1>4, <1>5, <1>6 DEF IInv

LEMMA UndoKeeps ==
    ASSUME IInv, NEW t \in Caller, Undo(t)
    PROVE  IInv'
  <1>1. TypeOK'
    BY DEF Undo, Moves, IInv, TypeOK, PlaceInv, Place, agentVars, Path
  <1>2. PlaceInv'
    BY DEF Undo, Moves, IInv, TypeOK, PlaceInv, OwnStationOnly, Place, agentVars
  <1>3. WorkInv'
    BY MonitorAssumption DEF Undo, Moves, IInv, TypeOK, WorkInv, agentVars
  <1>4. NoOrphan'
    BY DEF Undo, IInv, TypeOK, PlaceInv, NoOrphan, Place, Path, agentVars
  <1>5. AloneInv'
    BY DEF Undo, Moves, IInv, TypeOK, WorkInv, AloneInv, Live, Coming, Serves, Place, Path,
           agentVars
  <1>6. LeakInv'
    BY DEF Undo, Moves, IInv, LeakInv, Accounts, Place, agentVars
  <1> QED
    BY <1>1, <1>2, <1>3, <1>4, <1>5, <1>6 DEF IInv

LEMMA UnregisterKeeps ==
    ASSUME IInv, NEW t \in Caller, NEW a \in Agent, Unregister(t, a)
    PROVE  IInv'
  <1>1. TypeOK'
    BY DEF Unregister, Moves, IInv, TypeOK, WorkInv, history
  <1>2. PlaceInv'
    BY DEF Unregister, IInv, TypeOK, PlaceInv, OwnStationOnly, Place, history
  <1>3. WorkInv'
    BY DEF Unregister, IInv, WorkInv, history
  <1>4. NoOrphan'
    BY DEF Unregister, Moves, IInv, TypeOK, NoOrphan
  <1>5. AloneInv'
    BY DEF Unregister, Moves, IInv, AloneInv, Live, Coming, Serves, history
  <1>6. LeakInv'
    BY DEF Unregister, Moves, IInv, TypeOK, LeakInv, Accounts, Place, history
  <1> QED
    BY <1>1, <1>2, <1>3, <1>4, <1>5, <1>6 DEF IInv

LEMMA UnregisterRepliesKeeps ==
    ASSUME IInv, NEW t \in Caller, UnregisterReplies(t)
    PROVE  IInv'
  <1>1. TypeOK'
    BY DEF UnregisterReplies, Moves, IInv, TypeOK, agentVars, history
  <1>2. PlaceInv'
    BY DEF UnregisterReplies, IInv, PlaceInv, OwnStationOnly, Place, agentVars, history
  <1>3. WorkInv'
    BY DEF UnregisterReplies, IInv, WorkInv, agentVars, history
  <1>4. NoOrphan'
    BY DEF UnregisterReplies, IInv, NoOrphan, agentVars
  <1>5. AloneInv'
    BY DEF UnregisterReplies, Moves, IInv, AloneInv, Live, Coming, Serves, agentVars, history
  <1>6. LeakInv'
    BY DEF UnregisterReplies, Moves, IInv, TypeOK, LeakInv, Accounts, Place, agentVars, history
  <1> QED
    BY <1>1, <1>2, <1>3, <1>4, <1>5, <1>6 DEF IInv

LEMMA UnregisterFailsKeeps ==
    ASSUME IInv, NEW t \in Caller, UnregisterFails(t)
    PROVE  IInv'
  <1>1. TypeOK'
    BY DEF UnregisterFails, Moves, IInv, TypeOK, agentVars, history
  <1>2. PlaceInv'
    BY DEF UnregisterFails, IInv, PlaceInv, OwnStationOnly, Place, agentVars, history
  <1>3. WorkInv'
    BY DEF UnregisterFails, IInv, WorkInv, agentVars, history
  <1>4. NoOrphan'
    BY DEF UnregisterFails, IInv, NoOrphan, agentVars
  <1>5. AloneInv'
    BY DEF UnregisterFails, Moves, IInv, TypeOK, AloneInv, Live, Coming, Serves, agentVars,
           history
  <1>6. LeakInv'
    BY DEF UnregisterFails, Moves, IInv, TypeOK, LeakInv, Accounts, Place, agentVars, history
  <1> QED
    BY <1>1, <1>2, <1>3, <1>4, <1>5, <1>6 DEF IInv

LEMMA UnexportKeeps ==
    ASSUME IInv, NEW t \in Caller, Unexport(t)
    PROVE  IInv'
  <1>1. TypeOK'
    BY DEF Unexport, Moves, IInv, TypeOK, PlaceInv, Place, Path, agentVars
  <1>2. PlaceInv'
    BY DEF Unexport, Moves, IInv, TypeOK, PlaceInv, OwnStationOnly, Place, agentVars
  <1>3. WorkInv'
    BY MonitorAssumption DEF Unexport, Moves, IInv, TypeOK, WorkInv, agentVars
  <1>4. NoOrphan'
    BY DEF Unexport, IInv, TypeOK, PlaceInv, NoOrphan, Place, Path, agentVars
  <1>5. AloneInv'
    BY DEF Unexport, Moves, IInv, TypeOK, WorkInv, AloneInv, Live, Coming, Serves, Place, Path,
           agentVars
  <1>6. LeakInv'
    BY DEF Unexport, Moves, IInv, LeakInv, Accounts, Place, agentVars
  <1> QED
    BY <1>1, <1>2, <1>3, <1>4, <1>5, <1>6 DEF IInv

LEMMA IwdReportsKeeps ==
    ASSUME IInv, NEW st \in Station, IwdReports(st)
    PROVE  IInv'
  <1>1. TypeOK'
    BY DEF IwdReports, IInv, TypeOK, threadVars, agentVars, history
  <1>2. PlaceInv'
    BY DEF IwdReports, IInv, PlaceInv, OwnStationOnly, Place, threadVars, agentVars, history
  <1>3. WorkInv'
    BY DEF IwdReports, IInv, WorkInv, threadVars, agentVars, history
  <1>4. NoOrphan'
    BY DEF IwdReports, IInv, NoOrphan, threadVars, agentVars
  <1>5. AloneInv'
    BY DEF IwdReports, IInv, AloneInv, Live, Coming, Serves, threadVars, agentVars, history
  <1>6. LeakInv'
    BY DEF IwdReports, IInv, LeakInv, Accounts, Place, threadVars, agentVars, history
  <1> QED
    BY <1>1, <1>2, <1>3, <1>4, <1>5, <1>6 DEF IInv

LEMMA HandleChangedKeeps ==
    ASSUME IInv, NEW st \in Station, HandleChanged(st)
    PROVE  IInv'
  <1>1. TypeOK'
    BY DEF HandleChanged, IInv, TypeOK, Path, threadVars, agentVars
  <1>2. PlaceInv'
    BY DEF HandleChanged, IInv, PlaceInv, OwnStationOnly, Place, Path, threadVars, agentVars
  <1>3. WorkInv'
    BY DEF HandleChanged, IInv, WorkInv, threadVars, agentVars
  <1>4. NoOrphan'
    BY DEF HandleChanged, IInv, NoOrphan, threadVars, agentVars
  <1>5. AloneInv'
    BY DEF HandleChanged, IInv, AloneInv, Live, Coming, Serves, threadVars, agentVars
  <1>6. LeakInv'
    BY DEF HandleChanged, IInv, LeakInv, Accounts, Place, threadVars, agentVars
  <1> QED
    BY <1>1, <1>2, <1>3, <1>4, <1>5, <1>6 DEF IInv

LEMMA IwdReleasesKeeps ==
    ASSUME IInv, NEW st \in Station, IwdReleases(st)
    PROVE  IInv'
  <1>1. TypeOK'
    BY DEF IwdReleases, IInv, TypeOK, threadVars, agentVars, history
  <1>2. PlaceInv'
    BY DEF IwdReleases, IInv, PlaceInv, OwnStationOnly, Place, threadVars, agentVars, history
  <1>3. WorkInv'
    BY DEF IwdReleases, IInv, WorkInv, threadVars, agentVars, history
  <1>4. NoOrphan'
    BY DEF IwdReleases, IInv, NoOrphan, threadVars, agentVars
  <1>5. AloneInv'
    BY DEF IwdReleases, IInv, AloneInv, Live, Coming, Serves, threadVars, agentVars, history
  <1>6. LeakInv'
    BY DEF IwdReleases, IInv, LeakInv, Accounts, Place, threadVars, agentVars, history
  <1> QED
    BY <1>1, <1>2, <1>3, <1>4, <1>5, <1>6 DEF IInv

LEMMA ConnectionEndsKeeps ==
    ASSUME IInv, ConnectionEnds
    PROVE  IInv'
  <1>1. TypeOK'
    BY DEF ConnectionEnds, IInv, TypeOK, threadVars, agentVars, history
  <1>2. PlaceInv'
    BY DEF ConnectionEnds, IInv, PlaceInv, OwnStationOnly, Place, threadVars, agentVars, history
  <1>3. WorkInv'
    BY DEF ConnectionEnds, IInv, WorkInv, threadVars, agentVars, history
  <1>4. NoOrphan'
    BY DEF ConnectionEnds, IInv, NoOrphan, threadVars, agentVars
  <1>5. AloneInv'
    BY DEF ConnectionEnds, IInv, AloneInv, Live, Coming, Serves, threadVars, agentVars, history
  <1>6. LeakInv'
    BY DEF ConnectionEnds, LeakInv
  <1> QED
    BY <1>1, <1>2, <1>3, <1>4, <1>5, <1>6 DEF IInv

-----------------------------------------------------------------------------
(* The whole step.                                                         *)

LEMMA InitInv == Init => IInv
  BY MonitorAssumption DEF Init, IInv, TypeOK, PlaceInv, OwnStationOnly, WorkInv, NoOrphan,
                           AloneInv, Live, Coming, LeakInv

LEMMA NextKeeps == IInv /\ [Next]_vars => IInv'
  <1> SUFFICES ASSUME IInv, [Next]_vars PROVE IInv'
    OBVIOUS
  <1>1. CASE \E t \in Caller : Monitor(t)
    BY <1>1, ExportKeeps, RegisterKeeps, BindKeeps, RegisterFailsKeeps, UndoKeeps DEF Monitor
  <1>2. CASE \E t \in Caller : Teardown(t)
    BY <1>2, UnregisterKeeps, UnregisterRepliesKeeps, UnregisterFailsKeeps, UnexportKeeps
       DEF Teardown
  <1>3. CASE \E st \in Station : IwdReports(st) \/ HandleChanged(st) \/ IwdReleases(st)
    BY <1>3, IwdReportsKeeps, HandleChangedKeeps, IwdReleasesKeeps
  <1>4. CASE ConnectionEnds
    BY <1>4, ConnectionEndsKeeps
  <1>5. CASE UNCHANGED vars
    BY <1>5 DEF vars, threadVars, agentVars, history, IInv, TypeOK, PlaceInv, OwnStationOnly,
                WorkInv, NoOrphan, AloneInv, Live, Coming, Serves, LeakInv, Accounts, Place
  <1> QED
    BY <1>1, <1>2, <1>3, <1>4, <1>5 DEF Next

LEMMA Invariant == Spec => []IInv
  BY InitInv, NextKeeps, PTL DEF Spec

-----------------------------------------------------------------------------
\* Every reachable state is well typed, whatever the callers and stations.
THEOREM TypeCorrect == Spec => []TypeOK
  <1>1. IInv => TypeOK
    BY DEF IInv
  <1> QED
    BY <1>1, Invariant, PTL

\* A Changed callback hears of its own station only.
THEOREM OwnStation == Spec => []OwnStationOnly
  <1>1. IInv => OwnStationOnly
    BY DEF IInv, PlaceInv
  <1> QED
    BY <1>1, Invariant, PTL

\* No failed or finished call leaves an object on the connection.
THEOREM Owned == Spec => []NoOrphan
  <1>1. IInv => NoOrphan
    BY DEF IInv
  <1> QED
    BY <1>1, Invariant, PTL

\* A monitor alone on its station is the one iwd's calls reach.
THEOREM AloneIsServed == Spec => []AloneServed
  <1>1. IInv => AloneServed
    <2> SUFFICES ASSUME IInv, NEW a \in registered, at[a] \notin shared
                 PROVE  Serves(a) /\ iwd[at[a]] \in {a, None}
      BY DEF AloneServed
    <2>1. a \in Agent /\ at[a] \in Station
      BY DEF IInv, TypeOK
    <2> QED
      BY <2>1 DEF IInv, AloneInv, Live
  <1> QED
    BY <1>1, Invariant, PTL

\* iwd keeps an agent the client let go only after an error said so.
THEOREM LeaksAreReported == Spec => []LeakReported
  <1>1. IInv => LeakReported
    <2> SUFFICES ASSUME IInv, NEW st \in Station, iwd[st] # None,
                        MadeFor(st) \cap registered = {},
                        \A t \in Caller : pc[t] # "idle" => Place(t) # st
                 PROVE  st \in reported
      BY DEF LeakReported
    <2>1. ~ \E a \in registered : at[a] = st
      BY DEF MadeFor, IInv, TypeOK
    <2>2. ~ \E t \in Caller : Accounts(t) /\ Place(t) = st
      BY DEF Accounts
    <2> QED
      BY <2>1, <2>2 DEF IInv, LeakInv
  <1> QED
    BY <1>1, Invariant, PTL

=============================================================================
