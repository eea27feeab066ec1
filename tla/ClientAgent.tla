---------------------------- MODULE ClientAgent ----------------------------
(***************************************************************************)
(* The credentials agent of one Client, from RegisterAgent to Unregister   *)
(* or Close, with the requests iwd makes of it:                            *)
(*   src/client.go              the agent slot, closeMu, Close             *)
(*   src/agent.go               Agent.Unregister and its clear callback    *)
(*   src/internal/connect/wiring.go   NewAgent: export, register, bind     *)
(*   src/internal/core/agent.go       Unregister and the in-flight request *)
(* iwd's side is its one-agent registry, as tools/test-mocks mirrors it.   *)
(* Every agent is exported at the same path, agentObjectPath.              *)
(***************************************************************************)
EXTENDS Naturals, FiniteSets

CONSTANTS
    Caller,   \* application goroutines that call RegisterAgent and Unregister
    Closer,   \* the goroutine that calls Client.Close
    Agent,    \* agents: each successful or failed RegisterAgent makes one
    Request,  \* credential requests iwd may make
    None

ASSUME ClientAssumption ==
    /\ Closer \notin Caller
    /\ None \notin Agent \cup Request \cup Caller \cup {Closer}

VARIABLES
    closeMu,     \* None, or the goroutine inside Client.RegisterAgent
    closed,      \* Client.closed
    slot,        \* Client.agent
    connUp,      \* the D-Bus connection
    pc, work,    \* goroutine -> where it is, and the agent it works on
    snap,        \* goroutine -> the cancel func Unregister copied
    failed,      \* goroutine -> its call will return an error
    handles,     \* agents the application holds
    registered,  \* core.Agent.registered, as the set of agents where it is true
    cleared,     \* agents whose clearOnce has run
    current,     \* Agent -> the request whose cancel func currentCancel is
    exported,    \* the agent object at agentObjectPath, or None
    iwdAgent,    \* iwd has an agent of this connection registered
    pending,     \* the request iwd waits for
    reqPC, reqAgent, \* Request -> its progress, and the agent that runs it
    cancels,     \* Cancel calls of iwd not handled yet, by their request
    ctxDone,     \* requests whose context is canceled
    reported,    \* history: an error said iwd's registration may remain
    overlap,     \* history: an Unregister returned early, another one running
    crowded,     \* history: a callback began while one of its agent still ran
    toAbort,     \* history: requests running when their agent's Unregister began
    revoked      \* history: unanswered requests whose Cancel was handled

Thread == Caller \cup {Closer}
clientVars == <<closeMu, closed, slot, connUp>>
threadVars == <<pc, work, snap, failed>>
agentVars  == <<handles, registered, cleared>>
callVars   == <<current, reqPC, reqAgent, cancels, ctxDone>>
reqVars    == <<pending, callVars>>
history    == <<reported, overlap, crowded, toAbort, revoked>>
vars == <<clientVars, threadVars, agentVars, reqVars, history, exported, iwdAgent>>

Init ==
    /\ closeMu = None /\ closed = FALSE /\ slot = None /\ connUp = TRUE
    /\ pc = [t \in Thread |-> "idle"] /\ work = [t \in Thread |-> None]
    /\ snap = [t \in Thread |-> None] /\ failed = [t \in Thread |-> FALSE]
    /\ handles = {} /\ registered = {} /\ cleared = {}
    /\ current = [a \in Agent |-> None]
    /\ exported = None /\ iwdAgent = FALSE /\ pending = None
    /\ reqPC = [q \in Request |-> "new"] /\ reqAgent = [q \in Request |-> None]
    /\ cancels = {} /\ ctxDone = {}
    /\ reported = FALSE /\ overlap = FALSE /\ crowded = FALSE /\ toAbort = {}
    /\ revoked = {}

\* iwd drops its agent, with the request it waits for.
IwdForgets == iwdAgent' = FALSE /\ pending' = None

Moves(t, from, to) == pc[t] = from /\ pc' = [pc EXCEPT ![t] = to]
Unused(a) == a \notin handles /\ \A t \in Thread : work[t] # a

-----------------------------------------------------------------------------
(* Client.RegisterAgent, with Wiring.NewAgent: closeMu is held to the end. *)

BadRegisterLocks(t, a) ==
    /\ closeMu = None /\ ~closed /\ slot = None /\ Unused(a)
    /\ Moves(t, "idle", "manager")
    /\ UNCHANGED closeMu
    /\ work' = [work EXCEPT ![t] = a]
    /\ exported' = a
    /\ UNCHANGED <<closed, slot, connUp, snap, failed, agentVars, reqVars, history, iwdAgent>>

\* A closed client and an occupied slot are refused with no effect.  Exporting
\* replaces whatever object stands at the path.
RegisterLocks(t, a) ==
    /\ closeMu = None /\ ~closed /\ slot = None /\ Unused(a)
    /\ Moves(t, "idle", "manager")
    /\ closeMu' = t
    /\ work' = [work EXCEPT ![t] = a]
    /\ exported' = a
    /\ UNCHANGED <<closed, slot, connUp, snap, failed, agentVars, reqVars, history, iwdAgent>>

\* NewAgentManager introspects iwd's daemon object.
ManagerFound(t) ==
    /\ connUp
    /\ Moves(t, "manager", "register")
    /\ UNCHANGED <<work, snap, failed, clientVars, agentVars, reqVars, history, exported, iwdAgent>>

ManagerMissing(t) ==
    /\ Moves(t, "manager", "undo")
    /\ UNCHANGED <<work, snap, failed, clientVars, agentVars, reqVars, history, exported, iwdAgent>>

\* iwd refuses a second agent of the connection (AlreadyExists).
RegisterReplies(t) ==
    /\ connUp /\ ~iwdAgent
    /\ Moves(t, "register", "bind")
    /\ iwdAgent' = TRUE
    /\ reported' = FALSE
    /\ UNCHANGED <<work, snap, failed, clientVars, agentVars, reqVars, overlap, crowded, toAbort, revoked,
                   exported>>

\* The call fails: refused by iwd, or its context ended, perhaps with the
\* registration done.
RegisterFails(t) ==
    /\ Moves(t, "register", "undo")
    /\ iwdAgent' \in IF connUp THEN {iwdAgent, TRUE} ELSE {iwdAgent}
    /\ UNCHANGED <<work, snap, failed, clientVars, agentVars, reqVars, history, exported>>

BadUndo(t) ==
    /\ Moves(t, "undo", "idle")
    /\ closeMu' = None
    /\ reported' = TRUE
    /\ work' = [work EXCEPT ![t] = None]
    /\ UNCHANGED <<closed, slot, connUp, snap, failed, agentVars, reqVars, overlap, crowded, toAbort,
                   revoked, exported, iwdAgent>>

\* "On any failure after export, the object is unexported before returning."
Undo(t) ==
    /\ Moves(t, "undo", "idle")
    /\ exported' = None
    /\ closeMu' = None
    /\ reported' = TRUE
    /\ work' = [work EXCEPT ![t] = None]
    /\ UNCHANGED <<closed, slot, connUp, snap, failed, agentVars, reqVars, overlap, crowded, toAbort, revoked,
                   iwdAgent>>

BadBind(t) ==
    /\ Moves(t, "bind", "idle")
    /\ registered' = registered \cup {work[t]}
    /\ slot' = work[t]
    /\ closeMu' = None
    /\ work' = [work EXCEPT ![t] = None]
    /\ UNCHANGED <<closed, connUp, snap, failed, handles, cleared, reqVars, history, exported, iwdAgent>>

\* Bind, and the slot is taken as closeMu is released.
Bind(t) ==
    /\ Moves(t, "bind", "idle")
    /\ registered' = registered \cup {work[t]}
    /\ handles' = handles \cup {work[t]}
    /\ slot' = work[t]
    /\ closeMu' = None
    /\ work' = [work EXCEPT ![t] = None]
    /\ UNCHANGED <<closed, connUp, snap, failed, cleared, reqVars, history, exported, iwdAgent>>

-----------------------------------------------------------------------------
(* Agent.Unregister: core.Agent.Unregister, then clear.                    *)

Unregistering(a) == {t \in Thread : work[t] = a /\ pc[t] \in {"abort", "call", "unexport"}}

Running(a) == {q \in Request : reqPC[q] = "callback" /\ reqAgent[q] = a}

BadUnregisterBegins(t, a) ==
    /\ work' = [work EXCEPT ![t] = a]
    /\ pc' = [pc EXCEPT ![t] = IF a \in registered THEN "abort" ELSE "clear"]
    /\ registered' = registered \ {a}
    /\ toAbort' = IF a \in registered THEN toAbort \cup Running(a) ELSE toAbort
    /\ overlap' = (overlap \/ (a \notin registered /\ Unregistering(a) # {}))
    /\ failed' = [failed EXCEPT ![t] = FALSE]
    /\ UNCHANGED <<snap, handles, cleared, reported, crowded, revoked, reqVars, exported, iwdAgent>>

\* The critical section of core.Agent.Unregister.
UnregisterBegins(t, a) ==
    /\ work' = [work EXCEPT ![t] = a]
    /\ IF a \in registered
       THEN /\ pc' = [pc EXCEPT ![t] = "abort"]
            /\ registered' = registered \ {a}
            /\ snap' = [snap EXCEPT ![t] = current[a]]
            /\ toAbort' = toAbort \cup Running(a)
            /\ UNCHANGED overlap
       ELSE /\ pc' = [pc EXCEPT ![t] = "clear"]
            /\ overlap' = (overlap \/ Unregistering(a) # {})
            /\ UNCHANGED <<registered, snap, toAbort>>
    /\ failed' = [failed EXCEPT ![t] = FALSE]
    /\ UNCHANGED <<handles, cleared, reported, crowded, revoked, reqVars, exported, iwdAgent>>

Unregister(t, a) ==
    /\ t \in Caller /\ pc[t] = "idle" /\ a \in handles
    /\ UnregisterBegins(t, a)
    /\ UNCHANGED clientVars

Abort(t) ==
    /\ Moves(t, "abort", "call")
    /\ ctxDone' = ctxDone \cup ({snap[t]} \ {None})
    /\ snap' = [snap EXCEPT ![t] = None]
    /\ UNCHANGED <<current, pending, reqPC, reqAgent, cancels>>
    /\ UNCHANGED <<work, failed, clientVars, agentVars, history, exported, iwdAgent>>

UnregisterReplies(t) ==
    /\ connUp /\ iwdAgent
    /\ Moves(t, "call", "unexport")
    /\ IwdForgets
    /\ UNCHANGED <<work, snap, failed, clientVars, agentVars, callVars, history, exported>>

BadUnregisterFails(t) ==
    /\ Moves(t, "call", "unexport")
    /\ IwdForgets \/ UNCHANGED <<iwdAgent, pending>>
    /\ UNCHANGED <<work, snap, failed, clientVars, agentVars, callVars, history, exported>>

\* The call fails: NotFound, a context that ended, or a connection gone.  The
\* teardown goes on all the same and the errors are joined.
UnregisterFails(t) ==
    /\ Moves(t, "call", "unexport")
    /\ IwdForgets \/ UNCHANGED <<iwdAgent, pending>>
    /\ failed' = [failed EXCEPT ![t] = TRUE]
    /\ UNCHANGED <<work, snap, clientVars, agentVars, callVars, history, exported>>

\* conn.Export(nil, path): the object at the path goes, whichever it is.
Unexport(t) ==
    /\ Moves(t, "unexport", "clear")
    /\ exported' = None
    /\ UNCHANGED <<work, snap, failed, clientVars, agentVars, reqVars, history, iwdAgent>>

BadClear(t) ==
    /\ closeMu = None
    /\ Moves(t, "clear", IF t = Closer THEN "cleanup" ELSE "idle")
    /\ slot' = IF failed[t] \/ slot # work[t] THEN slot ELSE None
    /\ cleared' = cleared \cup {work[t]}
    /\ reported' = (reported \/ failed[t])
    /\ work' = [work EXCEPT ![t] = None]
    /\ UNCHANGED <<closeMu, closed, connUp, snap, failed, handles, registered, reqVars, overlap, crowded,
                   toAbort, revoked, exported, iwdAgent>>

\* clearOnce runs clear, which takes closeMu, also after a failed teardown.
Clear(t) ==
    /\ closeMu = None \/ work[t] \in cleared
    /\ Moves(t, "clear", IF t = Closer THEN "cleanup" ELSE "idle")
    /\ slot' = IF work[t] \notin cleared /\ slot = work[t] THEN None ELSE slot
    /\ cleared' = cleared \cup {work[t]}
    /\ reported' = (reported \/ failed[t])
    /\ work' = [work EXCEPT ![t] = None]
    /\ UNCHANGED <<closeMu, closed, connUp, snap, failed, handles, registered, reqVars, overlap, crowded,
                   toAbort, revoked, exported, iwdAgent>>

-----------------------------------------------------------------------------
(* Client.Close.                                                           *)

BadCloseTakes ==
    /\ pc[Closer] = "idle" /\ closeMu = None
    /\ closed' = TRUE /\ slot' = None
    /\ closeMu' = Closer
    /\ UNCHANGED connUp
    /\ IF slot = None
       THEN /\ pc' = [pc EXCEPT ![Closer] = "cleanup"]
            /\ UNCHANGED <<work, snap, failed, agentVars, reqVars, history, exported, iwdAgent>>
       ELSE UnregisterBegins(Closer, slot)

\* The agent is taken out under closeMu and unregistered after it is released.
CloseTakes ==
    /\ pc[Closer] = "idle" /\ closeMu = None
    /\ closed' = TRUE /\ slot' = None
    /\ UNCHANGED <<closeMu, connUp>>
    /\ IF slot = None
       THEN /\ pc' = [pc EXCEPT ![Closer] = "cleanup"]
            /\ UNCHANGED <<work, snap, failed, agentVars, reqVars, history, exported, iwdAgent>>
       ELSE UnregisterBegins(Closer, slot)

\* Wiring.Cleanup closes the connection; iwd then forgets its agent.
Cleanup ==
    /\ Moves(Closer, "cleanup", "closed")
    /\ connUp' = FALSE /\ IwdForgets
    /\ UNCHANGED <<closeMu, closed, slot, work, snap, failed, agentVars, callVars, history, exported>>

-----------------------------------------------------------------------------
(* iwd, and the requests: godbus runs each incoming call in a goroutine.   *)

\* iwd asks its agent one thing at a time.
IwdRequests(q) ==
    /\ iwdAgent /\ connUp /\ pending = None
    /\ reqPC[q] = "new"
    /\ reqPC' = [reqPC EXCEPT ![q] = "sent"]
    /\ pending' = q
    /\ UNCHANGED <<current, reqAgent, cancels, ctxDone>>
    /\ UNCHANGED <<clientVars, threadVars, agentVars, history, exported, iwdAgent>>

\* godbus looks the object up at the path, whichever agent it is by then.
Dispatch(q) ==
    /\ reqPC[q] = "sent" /\ exported # None
    /\ reqPC' = [reqPC EXCEPT ![q] = "found"]
    /\ reqAgent' = [reqAgent EXCEPT ![q] = exported]
    /\ UNCHANGED <<pending, current, cancels, ctxDone>>
    /\ UNCHANGED <<clientVars, threadVars, agentVars, history, exported, iwdAgent>>

\* No object there, or no callback set for this kind of request: an error
\* reply, and no request begun.
Decline(q) ==
    /\ reqPC[q] = "sent"
    /\ reqPC' = [reqPC EXCEPT ![q] = "done"]
    /\ pending' = IF pending = q THEN None ELSE pending
    /\ UNCHANGED <<current, reqAgent, cancels, ctxDone>>
    /\ revoked' = revoked \ {q}
    /\ UNCHANGED <<reported, overlap, crowded, toAbort>>
    /\ UNCHANGED <<clientVars, threadVars, agentVars, exported, iwdAgent>>

\* beginRequest: from here the user's callback runs.
BeginRequest(q) ==
    /\ reqPC[q] = "found"
    /\ reqPC' = [reqPC EXCEPT ![q] = "callback"]
    /\ current' = [current EXCEPT ![reqAgent[q]] = q]
    /\ crowded' = (crowded \/ Running(reqAgent[q]) # {})
    /\ UNCHANGED <<pending, reqAgent, cancels, ctxDone, reported, overlap, toAbort, revoked>>
    /\ UNCHANGED <<clientVars, threadVars, agentVars, exported, iwdAgent>>

\* The callback returns; done() clears currentCancel, whosever it is.
EndRequest(q) ==
    /\ reqPC[q] = "callback"
    /\ reqPC' = [reqPC EXCEPT ![q] = "done"]
    /\ current' = [current EXCEPT ![reqAgent[q]] = None]
    /\ pending' = IF pending = q THEN None ELSE pending
    /\ UNCHANGED <<reqAgent, cancels, ctxDone>>
    /\ revoked' = revoked \ {q}
    /\ UNCHANGED <<reported, overlap, crowded, toAbort>>
    /\ UNCHANGED <<clientVars, threadVars, agentVars, exported, iwdAgent>>

\* iwd gives up on the request it waits for and tells the agent.
IwdCancels(q) ==
    /\ pending = q
    /\ pending' = None
    /\ cancels' = cancels \cup {q}
    /\ UNCHANGED <<current, reqPC, reqAgent, ctxDone>>
    /\ UNCHANGED <<clientVars, threadVars, agentVars, history, exported, iwdAgent>>

\* handleCancel, in a goroutine of its own: it cancels what currentCancel is
\* by now.
HandleCancel(q) ==
    /\ q \in cancels
    /\ cancels' = cancels \ {q}
    /\ revoked' = revoked \cup {p \in {q} : reqPC[p] # "done"}
    /\ ctxDone' = IF exported = None THEN ctxDone
                  ELSE ctxDone \cup ({current[exported]} \ {None})
    /\ UNCHANGED <<current, pending, reqPC, reqAgent, reported, overlap, crowded, toAbort>>
    /\ UNCHANGED <<clientVars, threadVars, agentVars, exported, iwdAgent>>

\* iwd goes away, or calls Release: the client keeps its agent all the same.
IwdReleases ==
    /\ iwdAgent
    /\ IwdForgets
    /\ UNCHANGED <<clientVars, threadVars, agentVars, callVars, history, exported>>

-----------------------------------------------------------------------------
RegisterSteps(t) ==
    ManagerFound(t) \/ ManagerMissing(t) \/ RegisterReplies(t) \/ RegisterFails(t)
    \/ Undo(t) \/ Bind(t)

UnregisterSteps(t) ==
    Abort(t) \/ UnregisterReplies(t) \/ UnregisterFails(t) \/ Unexport(t) \/ Clear(t)

Requests(q) ==
    \/ IwdRequests(q) \/ Dispatch(q) \/ Decline(q) \/ BeginRequest(q) \/ EndRequest(q)
    \/ IwdCancels(q) \/ HandleCancel(q)

Next ==
    \/ \E t \in Caller, a \in Agent : RegisterLocks(t, a) \/ Unregister(t, a)
    \/ \E t \in Caller : RegisterSteps(t)
    \/ \E t \in Thread : UnregisterSteps(t)
    \/ CloseTakes \/ Cleanup
    \/ \E q \in Request : Requests(q)
    \/ IwdReleases

Spec == Init /\ [][Next]_vars

\* A call that was begun goes on: D-Bus answers or fails every call.  Close
\* gets closeMu back in the end, as no RegisterAgent starts once closed is set.
\* Nothing is assumed of iwd's requests or of the callbacks.
Fairness ==
    /\ \A t \in Caller : WF_vars(RegisterSteps(t))
    /\ \A t \in Thread : WF_vars(UnregisterSteps(t))
    /\ WF_vars(Cleanup)

FairSpec == Spec /\ Fairness

-----------------------------------------------------------------------------
(* Properties.                                                             *)

ThreadStates == {"idle", "manager", "register", "bind", "undo",
                 "abort", "call", "unexport", "clear", "cleanup", "closed"}

TypeOK ==
    /\ closeMu \in Caller \cup {None} /\ closed \in BOOLEAN
    /\ slot \in Agent \cup {None} /\ connUp \in BOOLEAN
    /\ pc \in [Thread -> ThreadStates] /\ work \in [Thread -> Agent \cup {None}]
    /\ snap \in [Thread -> Request \cup {None}] /\ failed \in [Thread -> BOOLEAN]
    /\ registered \subseteq handles /\ cleared \subseteq handles /\ handles \subseteq Agent
    /\ current \in [Agent -> Request \cup {None}]
    /\ exported \in Agent \cup {None} /\ iwdAgent \in BOOLEAN
    /\ pending \in Request \cup {None}
    /\ reqPC \in [Request -> {"new", "sent", "found", "callback", "done"}]
    /\ reqAgent \in [Request -> Agent \cup {None}]
    /\ cancels \subseteq Request /\ ctxDone \subseteq Request
    /\ reported \in BOOLEAN /\ overlap \in BOOLEAN /\ crowded \in BOOLEAN
    /\ toAbort \subseteq Request /\ revoked \subseteq Request

\* A client that was closed owns no agent, whatever RegisterAgent was under
\* way when Close was called: none can slip in behind it and outlive it.
ClosedOwnsNothing == closed => slot = None /\ registered \cap handles \subseteq
                                    {a \in Agent : Unregistering(a) # {}}

\* When an application does not call Unregister of an agent while another
\* Unregister of it still runs, an agent that is registered is the one iwd's
\* calls reach: no teardown of another agent, finished or failed, removes it.
Served(a) == exported = a
RegisteredIsServed == ~overlap => \A a \in registered : Served(a)

\* The same without that restriction on the application, as the comments of
\* RegisterAgent and Unregister promise it.
AlwaysServed == \A a \in registered : Served(a)

\* iwd is left with a registration the client does not own only when a call
\* said so with an error; a teardown that returns nil has done its work.
NoSilentLeak ==
    /\ iwdAgent /\ slot = None
    /\ \A t \in Thread : pc[t] \in {"idle", "closed"}
    => reported

\* The slot is released by the end of the Unregister of its agent, whether
\* iwd agreed or not: a failed teardown never locks the client out.
SlotReleased ==
    slot # None => slot \in registered \/ \E t \in Thread : work[t] = slot

\* A single in-flight cancel func suffices as long as no callback outlives the
\* request iwd made of it: the requests that ran when Unregister began are
\* canceled before it talks to iwd.
Aborted(q) ==
    reqPC[q] = "callback" /\ (\A t \in Thread : work[t] = reqAgent[q] => pc[t] # "abort")
        => q \in ctxDone
SerialAborts == ~crowded => \A q \in toAbort : Aborted(q)

\* AgentConfig: "The supplied context is canceled if the request is aborted (for
\* example by iwd's Cancel or by Agent.Unregister)".  A callback that runs for a
\* request whose Cancel was handled, or for the one iwd still waited for when
\* Unregister began, has been told.
AbortedIsTold == \A q \in revoked \cup (toAbort \cap {pending}) : Aborted(q)

\* Every object exported at the agent path belongs to an agent that is
\* registered or that a call still works on: no failed registration and no
\* finished teardown leaves one behind.
NoOrphan ==
    exported # None => exported \in registered \/ \E t \in Thread : work[t] = exported

\* Close ends whatever the callers do: it never waits for a lock it holds.
CloseCompletes == closed ~> pc[Closer] = "closed"

=============================================================================
