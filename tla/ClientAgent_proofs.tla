------------------------ MODULE ClientAgent_proofs ------------------------
(***************************************************************************)
(* The credentials agent, for any callers, agents and requests of iwd.     *)
(***************************************************************************)
EXTENDS ClientAgent, TLAPS

-----------------------------------------------------------------------------
(* The invariant.                                                          *)

Registering == {"manager", "register", "bind", "undo"}
Tearing     == {"abort", "call", "unexport"}

\* Whoever registers holds closeMu, with the client open and the slot empty.
LockInv ==
    /\ \A t \in Thread : closeMu = t <=> pc[t] \in Registering
    /\ closeMu # None => slot = None /\ ~closed
    /\ \A t \in Thread : work[t] = None <=> pc[t] \in {"idle", "cleanup", "closed"}
    /\ closed => slot = None

\* An agent that is being registered is nobody else's yet, one that is being
\* torn down is registered no more and is torn down once; the only registered
\* agent is the one in the slot, and the slot is never given back to an agent
\* that was cleared.
OwnInv ==
    /\ \A t \in Thread : pc[t] \in Registering =>
           work[t] \notin handles /\ \A u \in Thread : work[u] = work[t] => u = t
    /\ \A t \in Thread : pc[t] \in Tearing \cup {"clear"} => work[t] \in handles \ registered
    /\ \A t, u \in Thread :
           pc[t] \in Tearing /\ pc[u] \in Tearing /\ work[t] = work[u] => t = u
    /\ registered \subseteq {slot} /\ slot \in (handles \cup {None}) \ cleared
    /\ SlotReleased

\* As long as no Unregister returned early under another one, an agent that is
\* torn down keeps the slot till it is, unless Close has taken it; so nothing
\* takes the path from an agent that is registered or about to be.
ServedInv ==
    ~overlap =>
        /\ \A t, u \in Thread : pc[t] \in Tearing /\ work[u] = work[t] => t = u
        /\ \A t \in Thread : pc[t] \in Tearing => slot = work[t] \/ closed
        /\ \A t \in Thread : pc[t] \in Registering => exported = work[t]
        /\ \A a \in registered : exported = a

\* The object at the path has an owner that will take it away.
OrphanInv ==
    exported # None =>
        \/ exported \in registered
        \/ \E t \in Thread : pc[t] \in Registering \cup Tearing /\ work[t] = exported

\* Someone accounts for iwd's registration: the agent in the slot, a call that
\* hands it over or asks iwd to forget it, or an error, returned or to be.
Accounts(t) ==
    pc[t] \in {"bind", "undo", "abort", "call"} \/ (pc[t] \in {"unexport", "clear"} /\ failed[t])
LeakInv ==
    iwdAgent => reported \/ slot \in registered \/ \E t \in Thread : Accounts(t)

\* What can be canceled has begun.
CancelInv ==
    /\ \A a \in Agent : current[a] # None => reqPC[current[a]] \in {"callback", "done"}
    /\ \A t \in Thread : snap[t] # None => reqPC[snap[t]] \in {"callback", "done"}
    /\ \A q \in Request : reqPC[q] \in {"found", "callback"} => reqAgent[q] \in Agent
    /\ \A q \in toAbort : reqPC[q] \in {"callback", "done"}

\* Without crowding a callback that runs is its agent's current one, and the
\* ones to abort are canceled or in the hands of the Unregister that found them.
AbortInv ==
    ~crowded =>
        /\ \A q \in Request : reqPC[q] = "callback" => current[reqAgent[q]] = q
        /\ \A q \in toAbort : reqPC[q] = "callback" =>
               \/ q \in ctxDone
               \/ \E t \in Thread : work[t] = reqAgent[q] /\ pc[t] = "abort" /\ snap[t] = q

IInv ==
    /\ TypeOK /\ LockInv /\ OwnInv /\ ServedInv /\ OrphanInv /\ LeakInv
    /\ CancelInv /\ AbortInv

-----------------------------------------------------------------------------
(* One lemma per action.                                                   *)

LEMMA RegisterLocksKeeps ==
    ASSUME IInv, NEW t \in Caller, NEW a \in Agent, RegisterLocks(t, a)
    PROVE  IInv'
  <1>1. TypeOK'
    BY DEF RegisterLocks, Moves, IInv, TypeOK, ThreadStates, agentVars, reqVars, callVars,
           history
  <1>2. LockInv'
    BY ClientAssumption DEF RegisterLocks, Moves, IInv, TypeOK, LockInv, Registering, Thread
  <1>3. OwnInv'
    BY DEF RegisterLocks, Moves, IInv, TypeOK, OwnInv, SlotReleased, Tearing, Unused, agentVars
  <1>4. ServedInv'
    BY ClientAssumption
       DEF RegisterLocks, Moves, IInv, TypeOK, LockInv, OwnInv, ServedInv, Tearing,
           Thread, agentVars, history
  <1>5. OrphanInv'
    BY DEF RegisterLocks, Moves, IInv, TypeOK, OrphanInv, Registering, Thread
  <1>6. LeakInv' /\ CancelInv' /\ AbortInv'
    BY DEF RegisterLocks, Moves, IInv, TypeOK, LeakInv, Accounts, CancelInv,
           AbortInv, agentVars, reqVars, callVars, history
  <1> QED
    BY <1>1, <1>2, <1>3, <1>4, <1>5, <1>6 DEF IInv

LEMMA ManagerFoundKeeps ==
    ASSUME IInv, NEW t \in Caller, ManagerFound(t)
    PROVE  IInv'
  <1>1. TypeOK'
    BY DEF ManagerFound, Moves, IInv, TypeOK, ThreadStates, clientVars, agentVars, reqVars,
           callVars, history
  <1>2. LockInv' /\ OwnInv' /\ ServedInv' /\ OrphanInv' /\ LeakInv' /\ CancelInv' /\ AbortInv'
    BY DEF ManagerFound, Moves, IInv, TypeOK, LockInv, OwnInv, Registering, SlotReleased,
           Tearing, ServedInv, OrphanInv, LeakInv, Accounts, CancelInv,
           AbortInv, clientVars, agentVars, reqVars, callVars, history
  <1> QED
    BY <1>1, <1>2 DEF IInv

LEMMA ManagerMissingKeeps ==
    ASSUME IInv, NEW t \in Caller, ManagerMissing(t)
    PROVE  IInv'
  <1>1. TypeOK'
    BY DEF ManagerMissing, Moves, IInv, TypeOK, ThreadStates, clientVars, agentVars, reqVars,
           callVars, history
  <1>2. LockInv' /\ OwnInv' /\ ServedInv' /\ OrphanInv' /\ LeakInv' /\ CancelInv' /\ AbortInv'
    BY DEF ManagerMissing, Moves, IInv, TypeOK, LockInv, OwnInv, Registering, SlotReleased,
           Tearing, ServedInv, OrphanInv, LeakInv, Accounts, CancelInv,
           AbortInv, clientVars, agentVars, reqVars, callVars, history
  <1> QED
    BY <1>1, <1>2 DEF IInv

LEMMA RegisterRepliesKeeps ==
    ASSUME IInv, NEW t \in Caller, RegisterReplies(t)
    PROVE  IInv'
  <1>1. TypeOK'
    BY DEF RegisterReplies, Moves, IInv, TypeOK, ThreadStates, clientVars, agentVars, reqVars,
           callVars
  <1>2. LeakInv'
    BY DEF RegisterReplies, Moves, IInv, TypeOK, LeakInv, Accounts, Thread
  <1>3. LockInv' /\ OwnInv' /\ ServedInv' /\ OrphanInv' /\ CancelInv' /\ AbortInv'
    BY DEF RegisterReplies, Moves, IInv, TypeOK, LockInv, OwnInv, Registering, SlotReleased,
           Tearing, ServedInv, OrphanInv, CancelInv, AbortInv, clientVars,
           agentVars, reqVars, callVars
  <1> QED
    BY <1>1, <1>2, <1>3 DEF IInv

LEMMA RegisterFailsKeeps ==
    ASSUME IInv, NEW t \in Caller, RegisterFails(t)
    PROVE  IInv'
  <1>1. TypeOK'
    BY DEF RegisterFails, Moves, IInv, TypeOK, ThreadStates, clientVars, agentVars, reqVars,
           callVars, history
  <1>2. LeakInv'
    BY DEF RegisterFails, Moves, IInv, TypeOK, LeakInv, Accounts, Thread
  <1>3. LockInv' /\ OwnInv' /\ ServedInv' /\ OrphanInv' /\ CancelInv' /\ AbortInv'
    BY DEF RegisterFails, Moves, IInv, TypeOK, LockInv, OwnInv, Registering, SlotReleased,
           Tearing, ServedInv, OrphanInv, CancelInv, AbortInv, clientVars,
           agentVars, reqVars, callVars, history
  <1> QED
    BY <1>1, <1>2, <1>3 DEF IInv

LEMMA UndoKeeps ==
    ASSUME IInv, NEW t \in Caller, Undo(t)
    PROVE  IInv'
  <1>1. TypeOK'
    BY DEF Undo, Moves, IInv, TypeOK, ThreadStates, agentVars, reqVars, callVars
  <1>2. LockInv'
    BY ClientAssumption DEF Undo, Moves, IInv, TypeOK, LockInv, Registering, Thread
  <1>3. OwnInv'
    BY DEF Undo, Moves, IInv, TypeOK, LockInv, OwnInv, SlotReleased, Registering, Tearing,
           agentVars
  <1>4. ServedInv'
    BY DEF Undo, Moves, IInv, TypeOK, LockInv, OwnInv, ServedInv, Registering, Tearing, Thread,
           agentVars
  <1>5. OrphanInv'
    BY DEF Undo, Moves, IInv, TypeOK, OrphanInv
  <1>6. LeakInv'
    BY DEF Undo, Moves, IInv, TypeOK, LeakInv
  <1>7. CancelInv' /\ AbortInv'
    BY DEF Undo, Moves, IInv, TypeOK, CancelInv, AbortInv, reqVars, callVars
  <1> QED
    BY <1>1, <1>2, <1>3, <1>4, <1>5, <1>6, <1>7 DEF IInv

LEMMA BindKeeps ==
    ASSUME IInv, NEW t \in Caller, Bind(t)
    PROVE  IInv'
  <1>1. TypeOK'
    BY DEF Bind, Moves, IInv, TypeOK, LockInv, ThreadStates, Thread, reqVars, callVars, history
  <1>2. LockInv'
    BY ClientAssumption DEF Bind, Moves, IInv, TypeOK, LockInv, Registering, Thread
  <1>3. OwnInv'
    BY ClientAssumption
       DEF Bind, Moves, IInv, TypeOK, LockInv, OwnInv, SlotReleased, Registering,
           Tearing, Thread
  <1>4. ServedInv'
    BY ClientAssumption
       DEF Bind, Moves, IInv, TypeOK, LockInv, ServedInv, Registering, Tearing, Thread,
           history
  <1>5. OrphanInv'
    BY DEF Bind, Moves, IInv, TypeOK, OrphanInv
  <1>6. LeakInv'
    BY DEF Bind, Moves, IInv, TypeOK, LeakInv
  <1>7. CancelInv' /\ AbortInv'
    BY DEF Bind, Moves, IInv, TypeOK, CancelInv, AbortInv, reqVars, callVars,
           history
  <1> QED
    BY <1>1, <1>2, <1>3, <1>4, <1>5, <1>6, <1>7 DEF IInv

\* The first critical section of a teardown, in Unregister or under Close.
LEMMA BeginsKeeps ==
    ASSUME IInv, NEW t \in Thread, pc[t] = "idle", NEW a \in handles,
           UnregisterBegins(t, a), UNCHANGED <<closeMu, connUp>>,
           \/ UNCHANGED <<closed, slot>>
           \/ closeMu = None /\ closed' = TRUE /\ slot = a /\ slot' = None
    PROVE  IInv'
  <1> DEFINE R == Running(a)
             U == Unregistering(a)
  <1>a. work' = [work EXCEPT ![t] = a] /\ failed' = [failed EXCEPT ![t] = FALSE]
        /\ UNCHANGED <<handles, cleared, reported, crowded, revoked, pending, current, reqPC, reqAgent,
                       cancels, ctxDone, exported, iwdAgent, closeMu, connUp>>
    BY DEF UnregisterBegins, reqVars, callVars
  <1>b. \/ /\ a \in registered /\ pc' = [pc EXCEPT ![t] = "abort"]
           /\ registered' = registered \ {a} /\ snap' = [snap EXCEPT ![t] = current[a]]
           /\ toAbort' = toAbort \cup R /\ overlap' = overlap
        \/ /\ a \notin registered /\ pc' = [pc EXCEPT ![t] = "clear"]
           /\ registered' = registered /\ snap' = snap /\ toAbort' = toAbort
    BY DEF UnregisterBegins
  <1>c. overlap' \in BOOLEAN /\ (~overlap' => ~overlap /\ (a \in registered \/ U = {}))
    <2>1. CASE a \in registered
      BY <2>1 DEF UnregisterBegins, IInv, TypeOK
    <2>2. CASE a \notin registered
      <3>1. overlap' = (overlap \/ U # {})
        BY <2>2 DEF UnregisterBegins
      <3> HIDE DEF U
      <3> QED
        BY <3>1, <2>2, Zenon
    <2> QED
      BY <2>1, <2>2
  <1>d. R \subseteq {q \in Request : reqPC[q] = "callback" /\ reqAgent[q] = a}
    BY DEF Running
  <1>e. U = {u \in Thread : work[u] = a /\ pc[u] \in Tearing}
    BY DEF Unregistering, Tearing
  <1> HIDE DEF R, U
  <1>1. TypeOK'
    <2>1. a \in Agent /\ current[a] \in Request \cup {None} /\ toAbort \cup R \subseteq Request
      BY <1>d DEF IInv, TypeOK
    <2>2. pc' \in [Thread -> ThreadStates] /\ snap' \in [Thread -> Request \cup {None}]
          /\ registered' \subseteq handles /\ toAbort' \subseteq Request
      BY <1>b, <2>1 DEF IInv, TypeOK, ThreadStates
    <2>3. slot' \in Agent \cup {None} /\ closed' \in BOOLEAN
      BY DEF IInv, TypeOK
    <2> QED
      BY <1>a, <1>c, <2>1, <2>2, <2>3 DEF IInv, TypeOK
  <1>2. LockInv'
    BY ClientAssumption, <1>a, <1>b DEF IInv, TypeOK, LockInv, Thread, Registering
  <1>3. OwnInv'
    BY ClientAssumption, <1>a, <1>b DEF IInv, TypeOK, LockInv, OwnInv, SlotReleased,
                                        Thread, Registering, Tearing
  <1>4. ServedInv'
    <2> SUFFICES ASSUME ~overlap' PROVE ServedInv'
      BY DEF ServedInv
    <2>1. ~overlap /\ (a \in registered \/ U = {})
      BY <1>c
    <2>2. \A u, v \in Thread : pc'[u] \in Tearing /\ work'[v] = work'[u] => u = v
      <3>1. a # None
        BY ClientAssumption DEF IInv, TypeOK
      <3>2. a \in registered => \A v \in Thread : work[v] # a
        BY <3>1 DEF IInv, TypeOK, LockInv, OwnInv, ThreadStates, Registering, Tearing
      <3>3. CASE a \in registered
        BY <3>2, <3>3, <1>a, <1>b, <2>1 DEF IInv, TypeOK, ServedInv
      <3>4. CASE a \notin registered
        BY <3>4, <1>a, <1>b, <1>e, <2>1 DEF IInv, TypeOK, ServedInv, Tearing
      <3> QED
        BY <3>3, <3>4
    <2>3. \A u \in Thread : pc'[u] \in Tearing => slot' = work'[u] \/ closed'
      BY ClientAssumption, <1>a, <1>b, <2>1 DEF IInv, TypeOK, OwnInv, ServedInv, Tearing
    <2>4. \A u \in Thread : pc'[u] \in Registering => exported' = work'[u]
      BY <1>a, <1>b, <2>1 DEF IInv, TypeOK, ServedInv, Registering
    <2>5. \A b \in registered' : exported' = b
      BY <1>a, <1>b, <2>1 DEF IInv, ServedInv
    <2> QED
      BY <2>2, <2>3, <2>4, <2>5 DEF ServedInv
  <1>5. OrphanInv'
    BY ClientAssumption, <1>a, <1>b DEF IInv, TypeOK, LockInv, OrphanInv, Registering, Tearing
  <1>6. LeakInv'
    BY ClientAssumption, <1>a, <1>b DEF IInv, TypeOK, OwnInv, LeakInv, Accounts
  <1>7. CancelInv'
    BY ClientAssumption, <1>a, <1>b, <1>d DEF IInv, TypeOK, CancelInv
  <1>8. AbortInv'
    BY ClientAssumption, <1>a, <1>b, <1>d
       DEF IInv, TypeOK, AbortInv, LockInv, OwnInv, CancelInv, Tearing
  <1> QED
    BY <1>1, <1>2, <1>3, <1>4, <1>5, <1>6, <1>7, <1>8 DEF IInv

LEMMA UnregisterKeeps ==
    ASSUME IInv, NEW t \in Caller, NEW a \in Agent, Unregister(t, a)
    PROVE  IInv'
  BY BeginsKeeps DEF Unregister, Thread, clientVars

LEMMA AbortKeeps ==
    ASSUME IInv, NEW t \in Thread, Abort(t)
    PROVE  IInv'
  <1>1. TypeOK'
    BY DEF Abort, Moves, IInv, TypeOK, ThreadStates, clientVars, agentVars, history
  <1>2. CancelInv'
    BY DEF Abort, Moves, IInv, TypeOK, CancelInv, history
  <1>3. AbortInv'
    BY ClientAssumption DEF Abort, Moves, IInv, TypeOK, AbortInv, history
  <1>4. LockInv' /\ OwnInv' /\ ServedInv' /\ OrphanInv' /\ LeakInv'
    BY DEF Abort, Moves, IInv, TypeOK, LockInv, OwnInv, Registering, SlotReleased, Tearing,
           ServedInv, OrphanInv, LeakInv, Accounts, clientVars, agentVars, history
  <1> QED
    BY <1>1, <1>2, <1>3, <1>4 DEF IInv

LEMMA UnregisterRepliesKeeps ==
    ASSUME IInv, NEW t \in Thread, UnregisterReplies(t)
    PROVE  IInv'
  <1>1. TypeOK'
    BY DEF UnregisterReplies, Moves, IInv, TypeOK, ThreadStates, IwdForgets, clientVars,
           agentVars, callVars, history
  <1>2. LeakInv'
    BY DEF UnregisterReplies, Moves, IInv, TypeOK, LeakInv, IwdForgets
  <1>3. LockInv' /\ OwnInv' /\ ServedInv' /\ OrphanInv' /\ CancelInv' /\ AbortInv'
    BY DEF UnregisterReplies, Moves, IInv, TypeOK, LockInv, OwnInv, Registering, SlotReleased,
           Tearing, ServedInv, OrphanInv, CancelInv, AbortInv, clientVars,
           agentVars, callVars, history
  <1> QED
    BY <1>1, <1>2, <1>3 DEF IInv

LEMMA UnregisterFailsKeeps ==
    ASSUME IInv, NEW t \in Thread, UnregisterFails(t)
    PROVE  IInv'
  <1>1. TypeOK'
    BY DEF UnregisterFails, Moves, IInv, TypeOK, ThreadStates, IwdForgets, clientVars,
           agentVars, callVars, history
  <1>2. LeakInv'
    BY DEF UnregisterFails, Moves, IInv, TypeOK, LeakInv, Accounts
  <1>3. LockInv' /\ OwnInv' /\ ServedInv' /\ OrphanInv' /\ CancelInv' /\ AbortInv'
    BY DEF UnregisterFails, Moves, IInv, TypeOK, LockInv, OwnInv, Registering, SlotReleased,
           Tearing, ServedInv, OrphanInv, CancelInv, AbortInv, clientVars,
           agentVars, callVars, history
  <1> QED
    BY <1>1, <1>2, <1>3 DEF IInv

LEMMA UnexportKeeps ==
    ASSUME IInv, NEW t \in Thread, Unexport(t)
    PROVE  IInv'
  <1>1. TypeOK'
    BY DEF Unexport, Moves, IInv, TypeOK, ThreadStates, clientVars, agentVars, reqVars,
           callVars, history
  <1>2. ServedInv'
    BY ClientAssumption
       DEF Unexport, Moves, IInv, TypeOK, LockInv, OwnInv, ServedInv, Registering,
           Tearing, Thread, clientVars, agentVars, history
  <1>3. OrphanInv'
    BY DEF Unexport, Moves, IInv, TypeOK, OrphanInv
  <1>4. LeakInv'
    BY DEF Unexport, Moves, IInv, TypeOK, LeakInv, Accounts, clientVars, agentVars, history
  <1>5. LockInv' /\ OwnInv' /\ CancelInv' /\ AbortInv'
    BY DEF Unexport, Moves, IInv, TypeOK, LockInv, OwnInv, Registering, SlotReleased, Tearing,
           CancelInv, AbortInv, clientVars, agentVars, reqVars, callVars,
           history
  <1> QED
    BY <1>1, <1>2, <1>3, <1>4, <1>5 DEF IInv

LEMMA ClearKeeps ==
    ASSUME IInv, NEW t \in Thread, Clear(t)
    PROVE  IInv'
  <1>1. TypeOK'
    BY DEF Clear, Moves, IInv, TypeOK, OwnInv, ThreadStates, reqVars, callVars
  <1>2. LockInv'
    BY DEF Clear, Moves, IInv, TypeOK, LockInv, Registering
  <1>3. OwnInv'
    BY ClientAssumption
       DEF Clear, Moves, IInv, TypeOK, LockInv, OwnInv, SlotReleased, Registering,
           Tearing
  <1>4. ServedInv'
    BY DEF Clear, Moves, IInv, TypeOK, LockInv, ServedInv, Registering, Tearing
  <1>5. OrphanInv'
    BY DEF Clear, Moves, IInv, TypeOK, OrphanInv, Registering, Tearing
  <1>6. LeakInv'
    BY DEF Clear, Moves, IInv, TypeOK, OwnInv, LeakInv, Accounts
  <1>7. AbortInv'
    BY DEF Clear, Moves, IInv, TypeOK, AbortInv, reqVars, callVars
  <1>8. CancelInv'
    BY DEF Clear, Moves, IInv, TypeOK, CancelInv, reqVars, callVars
  <1> QED
    BY <1>1, <1>2, <1>3, <1>4, <1>5, <1>6, <1>7, <1>8 DEF IInv

LEMMA CloseTakesKeeps ==
    ASSUME IInv, CloseTakes
    PROVE  IInv'
  <1>1. CASE slot # None
    <2>1. slot \in handles
      BY <1>1 DEF IInv, OwnInv
    <2> QED
      BY <1>1, <2>1, BeginsKeeps DEF CloseTakes, Thread
  <1>2. CASE slot = None
    <2>1. /\ closed' = TRUE /\ slot' = None /\ pc' = [pc EXCEPT ![Closer] = "cleanup"]
          /\ pc[Closer] = "idle" /\ closeMu = None
          /\ UNCHANGED <<closeMu, connUp, work, snap, failed, agentVars, reqVars, history,
                         exported, iwdAgent>>
      BY <1>2 DEF CloseTakes
    <2> USE ClientAssumption, <1>2, <2>1
        DEF agentVars, reqVars, callVars, history, IInv, TypeOK, Thread
    <2>2. TypeOK'
      BY DEF ThreadStates
    <2>3. LockInv'
      BY DEF LockInv, Registering
    <2>4. OwnInv'
      BY DEF OwnInv, LockInv, SlotReleased, Registering, Tearing
    <2>5. ServedInv'
      BY DEF ServedInv, OwnInv, LockInv, Registering, Tearing
    <2>6. OrphanInv'
      BY DEF OrphanInv, LockInv, Registering, Tearing
    <2>7. LeakInv'
      BY DEF LeakInv, Accounts, OwnInv
    <2>8. CancelInv' /\ AbortInv'
      BY DEF CancelInv, AbortInv, LockInv
    <2> QED
      BY <2>2, <2>3, <2>4, <2>5, <2>6, <2>7, <2>8
  <1> QED
    BY <1>1, <1>2

LEMMA CleanupKeeps ==
    ASSUME IInv, Cleanup
    PROVE  IInv'
  <1>1. TypeOK'
    BY DEF Cleanup, Moves, IInv, TypeOK, ThreadStates, IwdForgets, agentVars, callVars, history
  <1>2. LockInv'
    BY DEF Cleanup, Moves, IInv, TypeOK, LockInv, Registering
  <1>3. OwnInv' /\ ServedInv' /\ OrphanInv' /\ LeakInv' /\ CancelInv' /\ AbortInv'
    BY DEF Cleanup, Moves, IInv, TypeOK, OwnInv, SlotReleased, Registering, Tearing, ServedInv,
           OrphanInv, LeakInv, CancelInv, AbortInv, IwdForgets, agentVars,
           callVars, history
  <1> QED
    BY <1>1, <1>2, <1>3 DEF IInv

LEMMA IwdRequestsKeeps ==
    ASSUME IInv, NEW q \in Request, IwdRequests(q)
    PROVE  IInv'
  <1>1. TypeOK'
    BY DEF IwdRequests, Moves, IInv, TypeOK, clientVars, threadVars, agentVars, history
  <1>2. CancelInv'
    BY DEF IwdRequests, Moves, IInv, TypeOK, CancelInv, threadVars, history
  <1>3. LockInv' /\ OwnInv' /\ ServedInv' /\ OrphanInv' /\ LeakInv' /\ AbortInv'
    BY DEF IwdRequests, Moves, IInv, TypeOK, LockInv, OwnInv, SlotReleased, ServedInv,
           OrphanInv, LeakInv, Accounts, AbortInv, clientVars, threadVars, agentVars,
           history
  <1> QED
    BY <1>1, <1>2, <1>3 DEF IInv

LEMMA DispatchKeeps ==
    ASSUME IInv, NEW q \in Request, Dispatch(q)
    PROVE  IInv'
  <1>1. TypeOK'
    BY DEF Dispatch, Moves, IInv, TypeOK, clientVars, threadVars, agentVars, history
  <1>2. CancelInv'
    BY DEF Dispatch, Moves, IInv, TypeOK, CancelInv, threadVars, history
  <1>3. AbortInv'
    BY DEF Dispatch, Moves, IInv, TypeOK, AbortInv, threadVars, history
  <1>4. LockInv' /\ OwnInv' /\ ServedInv' /\ OrphanInv' /\ LeakInv'
    BY DEF Dispatch, Moves, IInv, TypeOK, LockInv, OwnInv, SlotReleased, ServedInv, OrphanInv,
           LeakInv, Accounts, clientVars, threadVars, agentVars, history
  <1> QED
    BY <1>1, <1>2, <1>3, <1>4 DEF IInv

LEMMA DeclineKeeps ==
    ASSUME IInv, NEW q \in Request, Decline(q)
    PROVE  IInv'
  <1>1. TypeOK'
    BY DEF Decline, Moves, IInv, TypeOK, clientVars, threadVars, agentVars, history
  <1>2. CancelInv'
    BY DEF Decline, Moves, IInv, TypeOK, CancelInv, threadVars, history
  <1>3. AbortInv'
    BY DEF Decline, Moves, IInv, TypeOK, AbortInv, threadVars, history
  <1>4. LockInv' /\ OwnInv' /\ ServedInv' /\ OrphanInv' /\ LeakInv'
    BY DEF Decline, Moves, IInv, TypeOK, LockInv, OwnInv, SlotReleased, ServedInv, OrphanInv,
           LeakInv, Accounts, clientVars, threadVars, agentVars, history
  <1> QED
    BY <1>1, <1>2, <1>3, <1>4 DEF IInv

LEMMA BeginRequestKeeps ==
    ASSUME IInv, NEW q \in Request, BeginRequest(q)
    PROVE  IInv'
  <1> DEFINE a == reqAgent[q]
  <1>a. /\ reqPC[q] = "found" /\ reqPC' = [reqPC EXCEPT ![q] = "callback"]
        /\ current' = [current EXCEPT ![a] = q]
        /\ UNCHANGED <<pending, reqAgent, cancels, ctxDone, reported, overlap, toAbort, revoked>>
        /\ UNCHANGED <<clientVars, threadVars, agentVars, exported, iwdAgent>>
    BY DEF BeginRequest
  <1>b. crowded' \in BOOLEAN
        /\ (~crowded' => ~crowded /\ \A p \in Request : reqPC[p] = "callback" => reqAgent[p] # a)
    <2>1. crowded' = (crowded \/ Running(a) # {})
      BY DEF BeginRequest
    <2>2. Running(a) = {} => \A p \in Request : reqPC[p] = "callback" => reqAgent[p] # a
      BY DEF Running
    <2> HIDE DEF a
    <2> QED
      BY <2>1, <2>2, Zenon
  <1>c. a \in Agent
    BY <1>a DEF IInv, CancelInv
  <1> HIDE DEF a
  <1> USE <1>a DEF clientVars, threadVars, agentVars
  <1>1. TypeOK'
    BY <1>b DEF IInv, TypeOK
  <1>2. LockInv' /\ OwnInv' /\ ServedInv' /\ OrphanInv' /\ LeakInv'
    BY DEF IInv, LockInv, OwnInv, SlotReleased, ServedInv, OrphanInv, LeakInv, Accounts
  <1>3. CancelInv'
    BY <1>c DEF IInv, TypeOK, CancelInv
  <1>4. AbortInv'
    <2> SUFFICES ASSUME ~crowded' PROVE AbortInv'
      BY DEF AbortInv
    <2>1. \A p \in Request : reqPC'[p] = "callback" => current'[reqAgent'[p]] = p
      BY <1>b, <1>c DEF a, IInv, TypeOK, CancelInv, AbortInv
    <2>2. \A p \in toAbort : p # q /\ reqPC'[p] = reqPC[p]
      BY DEF IInv, TypeOK, CancelInv
    <2> QED
      BY <1>b, <2>1, <2>2 DEF IInv, AbortInv
  <1> QED
    BY <1>1, <1>2, <1>3, <1>4 DEF IInv

LEMMA EndRequestKeeps ==
    ASSUME IInv, NEW q \in Request, EndRequest(q)
    PROVE  IInv'
  <1>1. TypeOK'
    BY DEF EndRequest, Moves, IInv, TypeOK, clientVars, threadVars, agentVars, history
  <1>2. CancelInv'
    BY DEF EndRequest, Moves, IInv, TypeOK, CancelInv, threadVars, history
  <1>3. AbortInv'
    BY DEF EndRequest, Moves, IInv, TypeOK, AbortInv, threadVars, history
  <1>4. LockInv' /\ OwnInv' /\ ServedInv' /\ OrphanInv' /\ LeakInv'
    BY DEF EndRequest, Moves, IInv, TypeOK, LockInv, OwnInv, SlotReleased, ServedInv, OrphanInv,
           LeakInv, Accounts, clientVars, threadVars, agentVars, history
  <1> QED
    BY <1>1, <1>2, <1>3, <1>4 DEF IInv

LEMMA IwdCancelsKeeps ==
    ASSUME IInv, NEW q \in Request, IwdCancels(q)
    PROVE  IInv'
  <1>1. TypeOK'
    BY DEF IwdCancels, Moves, IInv, TypeOK, clientVars, threadVars, agentVars, history
  <1>2. LockInv' /\ OwnInv' /\ ServedInv' /\ OrphanInv' /\ LeakInv' /\ CancelInv' /\ AbortInv'
    BY DEF IwdCancels, Moves, IInv, TypeOK, LockInv, OwnInv, SlotReleased, ServedInv, OrphanInv,
           LeakInv, Accounts, CancelInv, AbortInv, clientVars, threadVars,
           agentVars, history
  <1> QED
    BY <1>1, <1>2 DEF IInv

LEMMA HandleCancelKeeps ==
    ASSUME IInv, NEW q \in Request, HandleCancel(q)
    PROVE  IInv'
  <1>1. TypeOK'
    BY DEF HandleCancel, Moves, IInv, TypeOK, clientVars, threadVars, agentVars, history
  <1>2. CancelInv'
    BY DEF HandleCancel, Moves, IInv, TypeOK, CancelInv, threadVars, history
  <1>3. AbortInv'
    BY DEF HandleCancel, Moves, IInv, TypeOK, AbortInv, threadVars, history
  <1>4. LockInv' /\ OwnInv' /\ ServedInv' /\ OrphanInv' /\ LeakInv'
    BY DEF HandleCancel, Moves, IInv, TypeOK, LockInv, OwnInv, SlotReleased, ServedInv,
           OrphanInv, LeakInv, Accounts, clientVars, threadVars, agentVars, history
  <1> QED
    BY <1>1, <1>2, <1>3, <1>4 DEF IInv

LEMMA IwdReleasesKeeps ==
    ASSUME IInv, IwdReleases
    PROVE  IInv'
  <1>1. TypeOK'
    BY DEF IwdReleases, Moves, IInv, TypeOK, IwdForgets, clientVars, threadVars, agentVars,
           callVars, history
  <1>2. LockInv' /\ OwnInv' /\ ServedInv' /\ OrphanInv' /\ LeakInv' /\ CancelInv' /\ AbortInv'
    BY DEF IwdReleases, Moves, IInv, TypeOK, LockInv, OwnInv, SlotReleased, ServedInv,
           OrphanInv, LeakInv, Accounts, CancelInv, AbortInv, clientVars,
           threadVars, agentVars, callVars, history
  <1> QED
    BY <1>1, <1>2 DEF IInv

-----------------------------------------------------------------------------
LEMMA InitInv == Init => IInv
  <1> SUFFICES ASSUME Init PROVE IInv
    OBVIOUS
  <1> USE ClientAssumption DEF Init
  <1>1. TypeOK
    BY DEF TypeOK, ThreadStates
  <1>2. LockInv
    BY DEF LockInv, Registering, Thread
  <1>3. OwnInv
    BY DEF OwnInv, SlotReleased, Registering, Tearing
  <1>4. ServedInv
    BY DEF ServedInv, Registering, Tearing
  <1>5. OrphanInv /\ LeakInv
    BY DEF OrphanInv, LeakInv
  <1>6. CancelInv
    BY DEF CancelInv
  <1>7. AbortInv
    BY DEF AbortInv
  <1> QED
    BY <1>1, <1>2, <1>3, <1>4, <1>5, <1>6, <1>7 DEF IInv

LEMMA NextKeeps == IInv /\ [Next]_vars => IInv'
  <1> SUFFICES ASSUME IInv, [Next]_vars PROVE IInv'
    OBVIOUS
  <1>1. CASE \E t \in Caller, a \in Agent : RegisterLocks(t, a) \/ Unregister(t, a)
    BY <1>1, RegisterLocksKeeps, UnregisterKeeps
  <1>2. CASE \E t \in Caller : RegisterSteps(t)
    BY <1>2, ManagerFoundKeeps, ManagerMissingKeeps, RegisterRepliesKeeps, RegisterFailsKeeps,
       UndoKeeps, BindKeeps DEF RegisterSteps
  <1>3. CASE \E t \in Thread : UnregisterSteps(t)
    BY <1>3, AbortKeeps, UnregisterRepliesKeeps, UnregisterFailsKeeps, UnexportKeeps, ClearKeeps
       DEF UnregisterSteps
  <1>4. CASE CloseTakes \/ Cleanup
    BY <1>4, CloseTakesKeeps, CleanupKeeps
  <1>5. CASE \E q \in Request : Requests(q)
    BY <1>5, IwdRequestsKeeps, DispatchKeeps, DeclineKeeps, BeginRequestKeeps, EndRequestKeeps,
       IwdCancelsKeeps, HandleCancelKeeps DEF Requests
  <1>6. CASE IwdReleases
    BY <1>6, IwdReleasesKeeps
  <1>7. CASE UNCHANGED vars
    <2> USE <1>7 DEF vars, clientVars, threadVars, agentVars, reqVars, callVars, history
    <2>1. TypeOK'
      BY DEF IInv, TypeOK
    <2>2. LockInv' /\ OwnInv' /\ ServedInv' /\ OrphanInv' /\ LeakInv'
      BY DEF IInv, LockInv, OwnInv, SlotReleased, ServedInv, OrphanInv, LeakInv, Accounts
    <2>3. CancelInv' /\ AbortInv'
      BY DEF IInv, CancelInv, AbortInv
    <2> QED
      BY <2>1, <2>2, <2>3 DEF IInv
  <1> QED
    BY <1>1, <1>2, <1>3, <1>4, <1>5, <1>6, <1>7 DEF Next

LEMMA Invariant == Spec => []IInv
  BY InitInv, NextKeeps, PTL DEF Spec

-----------------------------------------------------------------------------
\* Every reachable state is well typed, whatever the callers and requests.
THEOREM TypeCorrect == Spec => []TypeOK
  <1>1. IInv => TypeOK
    BY DEF IInv
  <1> QED
    BY <1>1, Invariant, PTL

\* No RegisterAgent slips an agent into a client that was closed.
THEOREM ClosedIsEmpty == Spec => []ClosedOwnsNothing
  <1>1. IInv => ClosedOwnsNothing
    BY ClientAssumption DEF IInv, TypeOK, LockInv, OwnInv, ClosedOwnsNothing
  <1> QED
    BY <1>1, Invariant, PTL

\* Without overlapping Unregisters of one agent, a registered agent is the one
\* iwd's calls reach.
THEOREM RegisteredServes == Spec => []RegisteredIsServed
  <1>1. IInv => RegisteredIsServed
    BY DEF IInv, ServedInv, RegisteredIsServed, Served
  <1> QED
    BY <1>1, Invariant, PTL

\* iwd is left with a registration only when a call said so with an error.
THEOREM LeaksAreReported == Spec => []NoSilentLeak
  <1>1. IInv => NoSilentLeak
    BY ClientAssumption DEF IInv, TypeOK, LeakInv, Accounts, NoSilentLeak
  <1> QED
    BY <1>1, Invariant, PTL

\* The slot is released by the end of the Unregister of its agent.
THEOREM SlotIsReleased == Spec => []SlotReleased
  <1>1. IInv => SlotReleased
    BY DEF IInv, OwnInv
  <1> QED
    BY <1>1, Invariant, PTL

\* Without crowding, Unregister cancels what ran when it began.
THEOREM AbortsSerialRequests == Spec => []SerialAborts
  <1>1. IInv => SerialAborts
    BY DEF IInv, AbortInv, SerialAborts, Aborted
  <1> QED
    BY <1>1, Invariant, PTL

\* No object is left at the agent path without an owner.
THEOREM Owned == Spec => []NoOrphan
  <1>1. IInv => NoOrphan
    BY DEF IInv, OrphanInv, NoOrphan
  <1> QED
    BY <1>1, Invariant, PTL

=============================================================================
