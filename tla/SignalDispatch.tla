--------------------------- MODULE SignalDispatch ---------------------------
(***************************************************************************)
(* One IntrospectedObject (src/internal/iwdbus/introspect.go): the signal  *)
(* channel godbus fills, the dispatcher goroutine, one goroutine per       *)
(* handler call, registrations and their unsubscribe functions, and Close. *)
(*                                                                         *)
(* A critical section of i.mu, and the one of handlerMu in dispatchLoop,   *)
(* blocks on nothing and is one step.  Close holds handlerMu while it      *)
(* waits for the handlers, so there handlerMu is a variable.               *)
(***************************************************************************)
EXTENDS Naturals, Sequences, FiniteSets

CONSTANTS
    Reg,       \* calls of RegisterSignalHandlerWithUnsubscribe
    Sig,       \* signal instances the bus may send
    Closer,    \* goroutines that call Close
    Cap,       \* dbusSignalCapacity, the size of sigCh
    Star,      \* the "*" of a pattern
    NoMember,  \* the empty member, which a registration is refused for
    OwnPath,   \* i.Path
    Pattern,   \* Reg -> [iface, member]: the arguments of the registration
    Topic,     \* Reg -> the interface its callback accepts in Body[0]
    Header,    \* Sig -> [iface, member, path, about]: sig.Name, .Path, Body[0]
    Foreign,   \* signals some other object's match rule brings to this conn
    Nameless,  \* signals with an empty Name, which the dispatcher skips
    Free,      \* handlerMu is not held
    None       \* no signal

ASSUME DispatchAssumption ==
    /\ IsFiniteSet(Reg) /\ IsFiniteSet(Sig)
    /\ Foreign \subseteq Sig /\ Nameless \subseteq Sig
    /\ Cap \in Nat \ {0}
    /\ Free \notin Closer
    /\ None \notin Sig

VARIABLES
    fresh,      \* signals not sent yet
    chan,       \* sigCh
    overflow,   \* signals a godbus goroutine holds because sigCh was full
    link,       \* the channel at godbus: "open", "removed" or "terminated"
    ruled,      \* registrations whose match rule the bus holds
    regPC,      \* Reg -> where the registration is
    handlers,   \* the handlers stored in handlersExact and handlersWildcard
    disp,       \* where the dispatcher is; "off" until startOnce
    cur, found, \* dispatchLoop's sig and hs
    running,    \* handler goroutines <<r, s>> that have not called wg.Done
    wg,         \* the counter of i.wg
    ctxDone,    \* i.ctx is done
    handlerMu,  \* Free, or the Closer that holds it
    closing,    \* i.closing
    once,       \* i.once: "fresh", "busy" or "done"
    closePC,    \* Closer -> where its Close is
    abandoned,  \* history: the wait for the handlers timed out
    seen,       \* history: signals resolved
    handled     \* history: handler goroutines that have finished

busVars   == <<fresh, chan, overflow, link>>
regVars   == <<ruled, regPC, handlers>>
dispVars  == <<disp, cur, found>>
runVars   == <<running, handled>>
closeVars == <<handlerMu, closing, once, closePC, abandoned>>
vars == <<busVars, regVars, dispVars, runVars, closeVars, wg, ctxDone, seen>>

Elems(q) == {q[i] : i \in 1..Len(q)}

\* The buckets handlersExact["iface.member"], handlersWildcard["member"],
\* ["iface.*"] and ["*"] that resolveHandlers reads for a signal hold exactly
\* the handlers whose pattern matches its name.  Neither the object path of
\* the signal nor its body is looked at.
Wants(r, s) ==
    /\ Pattern[r].iface \in {Star, Header[s].iface}
    /\ Pattern[r].member \in {Star, Header[s].member}

\* The bus sends s to the connection when some match rule covers it: the rule
\* of a registration names i.Path, and no code removes a rule.
Routed(s) ==
    \/ s \in Foreign
    \/ Header[s].path = OwnPath /\ \E r \in ruled : Wants(r, s)

Outstanding ==
    running \cup (IF disp = "spawn" THEN found \X {cur} ELSE {})

Init ==
    /\ fresh = Sig /\ chan = <<>> /\ overflow = {} /\ link = "open"
    /\ ruled = {} /\ handlers = {}
    /\ regPC = [r \in Reg |-> "idle"]
    /\ disp = "off" /\ cur = None /\ found = {}
    /\ running = {} /\ handled = {} /\ seen = {}
    /\ wg = 0 /\ ctxDone = FALSE
    /\ handlerMu = Free /\ closing = FALSE /\ once = "fresh"
    /\ closePC = [c \in Closer |-> "idle"] /\ abandoned = FALSE

-----------------------------------------------------------------------------
(* The bus and godbus.                                                     *)

\* godbus hands the signal to every channel registered on the connection; a
\* full channel gets it later, from a goroutine of its own.
Emit(s) ==
    /\ s \in fresh
    /\ fresh' = fresh \ {s}
    /\ IF link # "open" \/ ~Routed(s) THEN UNCHANGED <<chan, overflow>>
       ELSE IF Len(chan) < Cap THEN chan' = Append(chan, s) /\ UNCHANGED overflow
       ELSE overflow' = overflow \cup {s} /\ UNCHANGED chan
    /\ UNCHANGED <<link, regVars, dispVars, runVars, closeVars, wg, ctxDone, seen>>

LateDeliver(s) ==
    /\ s \in overflow
    /\ Len(chan) < Cap
    /\ chan' = Append(chan, s)
    /\ overflow' = overflow \ {s}
    /\ UNCHANGED <<fresh, link, regVars, dispVars, runVars, closeVars, wg, ctxDone, seen>>

\* The connection goes down: godbus closes the channel and drops what waits.
Terminate ==
    /\ link = "open"
    /\ link' = "terminated"
    /\ overflow' = {}
    /\ UNCHANGED <<fresh, chan, regVars, dispVars, runVars, closeVars, wg, ctxDone, seen>>

\* The context NewIntrospectedObject was called with ends.
CallerCancels ==
    /\ ~ctxDone
    /\ ctxDone' = TRUE
    /\ UNCHANGED <<busVars, regVars, dispVars, runVars, closeVars, wg, seen>>

-----------------------------------------------------------------------------
(* RegisterSignalHandlerWithUnsubscribe.                                   *)

\* startDispatcher runs once, also when Close has already been called.
BeginRegister(r) ==
    /\ regPC[r] = "idle"
    /\ IF Pattern[r].member = NoMember
       THEN regPC' = [regPC EXCEPT ![r] = "refused"] /\ UNCHANGED disp
       ELSE /\ regPC' = [regPC EXCEPT ![r] = "store"]
            /\ disp' = IF disp = "off" THEN "select" ELSE disp
    /\ UNCHANGED <<ruled, handlers, cur, found>>
    /\ UNCHANGED <<busVars, runVars, closeVars, wg, ctxDone, seen>>

Store(r) ==
    /\ regPC[r] = "store"
    /\ handlers' = handlers \cup {r}
    /\ regPC' = [regPC EXCEPT ![r] = "match"]
    /\ UNCHANGED <<ruled, busVars, dispVars, runVars, closeVars, wg, ctxDone, seen>>

AddMatchOK(r) ==
    /\ regPC[r] = "match"
    /\ ruled' = ruled \cup {r}
    /\ regPC' = [regPC EXCEPT ![r] = "live"]
    /\ UNCHANGED <<handlers, busVars, dispVars, runVars, closeVars, wg, ctxDone, seen>>

BadAddMatchFails(r) ==
    /\ regPC[r] = "match"
    /\ ruled' \in {ruled, ruled \cup {r}}
    /\ regPC' = [regPC EXCEPT ![r] = "failed"]
    /\ UNCHANGED <<handlers, busVars, dispVars, runVars, closeVars, wg, ctxDone, seen>>

\* An error reply does not say whether the bus stored the rule.
AddMatchFails(r) ==
    /\ regPC[r] = "match"
    /\ ruled' \in {ruled, ruled \cup {r}}
    /\ handlers' = handlers \ {r}
    /\ regPC' = [regPC EXCEPT ![r] = "failed"]
    /\ UNCHANGED <<busVars, dispVars, runVars, closeVars, wg, ctxDone, seen>>

BadUnsubscribe(r) ==
    /\ regPC[r] = "live"
    /\ regPC' = [regPC EXCEPT ![r] = "ended"]
    /\ handlers' = handlers
    /\ UNCHANGED <<ruled, busVars, dispVars, runVars, closeVars, wg, ctxDone, seen>>

\* once.Do: the later calls of the same function change nothing.
Unsubscribe(r) ==
    /\ regPC[r] = "live"
    /\ handlers' = handlers \ {r}
    /\ regPC' = [regPC EXCEPT ![r] = "ended"]
    /\ UNCHANGED <<ruled, busVars, dispVars, runVars, closeVars, wg, ctxDone, seen>>

-----------------------------------------------------------------------------
(* dispatchLoop and the handler goroutines.                                *)

\* The select takes either ready case.
Quit ==
    /\ disp = "select"
    /\ ctxDone \/ (link = "terminated" /\ chan = <<>>)
    /\ disp' = "gone"
    /\ UNCHANGED <<cur, found, busVars, regVars, runVars, closeVars, wg, ctxDone, seen>>

BadTake ==
    /\ disp = "select"
    /\ chan # <<>> /\ running = {}
    /\ chan' = Tail(chan)
    /\ disp' = "resolve" /\ cur' = Head(chan)
    /\ UNCHANGED <<found, fresh, overflow, link, regVars, runVars, closeVars, wg, ctxDone, seen>>

Take ==
    /\ disp = "select"
    /\ chan # <<>>
    /\ chan' = Tail(chan)
    /\ IF Head(chan) \in Nameless
       THEN UNCHANGED <<disp, cur>>
       ELSE disp' = "resolve" /\ cur' = Head(chan)
    /\ UNCHANGED <<found, fresh, overflow, link, regVars, runVars, closeVars, wg, ctxDone, seen>>

\* resolveHandlers copies the handlers out under i.mu.
Resolve ==
    /\ disp = "resolve"
    /\ found' = {r \in handlers : Wants(r, cur)}
    /\ seen' = seen \cup {cur}
    /\ disp' = "admit"
    /\ UNCHANGED <<cur, busVars, regVars, runVars, closeVars, wg, ctxDone>>

BadAdmitAddsOne ==
    /\ disp = "admit"
    /\ handlerMu = Free
    /\ IF closing
       THEN disp' = "gone" /\ cur' = None /\ found' = {} /\ UNCHANGED wg
       ELSE /\ wg' = wg + 1
            /\ IF found = {} THEN disp' = "select" /\ cur' = None
                             ELSE disp' = "spawn" /\ UNCHANGED cur
            /\ UNCHANGED found
    /\ UNCHANGED <<busVars, regVars, runVars, closeVars, ctxDone, seen>>

BadAdmit ==
    /\ disp = "admit"
    /\ handlerMu = Free
    /\ wg' = wg + Cardinality(found)
    /\ IF found = {} THEN disp' = "select" /\ cur' = None
                     ELSE disp' = "spawn" /\ UNCHANGED cur
    /\ UNCHANGED <<found, busVars, regVars, runVars, closeVars, ctxDone, seen>>

\* wg counts a call before its goroutine exists, inside handlerMu.
Admit ==
    /\ disp = "admit"
    /\ handlerMu = Free
    /\ IF closing
       THEN disp' = "gone" /\ cur' = None /\ found' = {} /\ UNCHANGED wg
       ELSE /\ wg' = wg + Cardinality(found)
            /\ IF found = {} THEN disp' = "select" /\ cur' = None
                             ELSE disp' = "spawn" /\ UNCHANGED cur
            /\ UNCHANGED found
    /\ UNCHANGED <<busVars, regVars, runVars, closeVars, ctxDone, seen>>

Spawn(r) ==
    /\ disp = "spawn"
    /\ r \in found
    /\ running' = running \cup {<<r, cur>>}
    /\ found' = found \ {r}
    /\ IF found = {r} THEN disp' = "select" /\ cur' = None
                      ELSE UNCHANGED <<disp, cur>>
    /\ UNCHANGED <<handled, busVars, regVars, closeVars, wg, ctxDone, seen>>

BadFinish(r, s) ==
    /\ <<r, s>> \in running
    /\ running' = running \ {<<r, s>>}
    /\ wg' \in {wg, wg - 1}
    /\ handled' = handled \cup {<<r, s>>}
    /\ UNCHANGED <<busVars, regVars, dispVars, closeVars, ctxDone, seen>>

\* The handler returns or panics: safeInvoke recovers, wg.Done is deferred.
\* Nothing makes a handler return, so no fairness is assumed of this step.
Finish(r, s) ==
    /\ <<r, s>> \in running
    /\ running' = running \ {<<r, s>>}
    /\ wg' = wg - 1
    /\ handled' = handled \cup {<<r, s>>}
    /\ UNCHANGED <<busVars, regVars, dispVars, closeVars, ctxDone, seen>>

\* The callback the typed wrappers register ignores a signal whose Body[0] is
\* not their interface (Station.SubscribePropertiesChanged and its siblings).
Accepts(r, s) == Header[s].about = Topic[r]

\* The calls that got past it to the application's own callback.
Delivered == {p \in handled : Accepts(p[1], p[2])}

-----------------------------------------------------------------------------
(* Close.                                                                  *)

CloseMoves(c, from, to) ==
    /\ closePC[c] = from
    /\ closePC' = [closePC EXCEPT ![c] = to]

\* once.Do: the first caller runs the body, the others wait for it to end.
CallClose(c) ==
    /\ CloseMoves(c, "idle", IF once = "fresh" THEN "cancel" ELSE "follow")
    /\ once' = IF once = "fresh" THEN "busy" ELSE once
    /\ UNCHANGED <<handlerMu, closing, abandoned>>
    /\ UNCHANGED <<busVars, regVars, dispVars, runVars, wg, ctxDone, seen>>

FollowerReturns(c) ==
    /\ once = "done"
    /\ CloseMoves(c, "follow", "returned")
    /\ UNCHANGED <<once, handlerMu, closing, abandoned>>
    /\ UNCHANGED <<busVars, regVars, dispVars, runVars, wg, ctxDone, seen>>

Cancel(c) ==
    /\ CloseMoves(c, "cancel", "unlink")
    /\ ctxDone' = TRUE
    /\ UNCHANGED <<once, handlerMu, closing, abandoned>>
    /\ UNCHANGED <<busVars, regVars, dispVars, runVars, wg, seen>>

\* RemoveSignal: godbus stops filling the channel and its waiting goroutines
\* give up; what is in the channel stays there.
RemoveSignal(c) ==
    /\ CloseMoves(c, "unlink", "waitDispatcher")
    /\ link' = IF link = "open" THEN "removed" ELSE link
    /\ overflow' = {}
    /\ UNCHANGED <<once, handlerMu, closing, abandoned>>
    /\ UNCHANGED <<fresh, chan, regVars, dispVars, runVars, wg, ctxDone, seen>>

\* waitWithTimeout(&i.dispatchWG, 100ms): the dispatcher is gone or was never
\* started, or the time is up; both lead to the same next statement.
WaitDispatcher(c) ==
    /\ CloseMoves(c, "waitDispatcher", "lock")
    /\ UNCHANGED <<once, handlerMu, closing, abandoned>>
    /\ UNCHANGED <<busVars, regVars, dispVars, runVars, wg, ctxDone, seen>>

Lock(c) ==
    /\ CloseMoves(c, "lock", "waitHandlers")
    /\ handlerMu = Free
    /\ handlerMu' = c
    /\ closing' = TRUE
    /\ UNCHANGED <<once, abandoned>>
    /\ UNCHANGED <<busVars, regVars, dispVars, runVars, wg, ctxDone, seen>>

BadHandlersDone(c) ==
    /\ CloseMoves(c, "waitHandlers", "settle")
    /\ running = {}
    /\ handlerMu' = Free
    /\ UNCHANGED <<once, closing, abandoned>>
    /\ UNCHANGED <<busVars, regVars, dispVars, runVars, wg, ctxDone, seen>>

\* waitWithTimeout(&i.wg, 100ms), first case: wg.Wait returns.
HandlersDone(c) ==
    /\ CloseMoves(c, "waitHandlers", "settle")
    /\ wg = 0
    /\ handlerMu' = Free
    /\ UNCHANGED <<once, closing, abandoned>>
    /\ UNCHANGED <<busVars, regVars, dispVars, runVars, wg, ctxDone, seen>>

BadHandlersTimeout(c) ==
    /\ FALSE
    /\ UNCHANGED vars

\* Second case: the time is up while handlers still run.
HandlersTimeout(c) ==
    /\ CloseMoves(c, "waitHandlers", "settle")
    /\ wg > 0
    /\ handlerMu' = Free
    /\ abandoned' = TRUE
    /\ UNCHANGED <<once, closing>>
    /\ UNCHANGED <<busVars, regVars, dispVars, runVars, wg, ctxDone, seen>>

\* The settle delay ends and once.Do returns.
CloseReturns(c) ==
    /\ CloseMoves(c, "settle", "returned")
    /\ once' = "done"
    /\ UNCHANGED <<handlerMu, closing, abandoned>>
    /\ UNCHANGED <<busVars, regVars, dispVars, runVars, wg, ctxDone, seen>>

-----------------------------------------------------------------------------
Environment ==
    \/ \E s \in Sig : Emit(s) \/ LateDeliver(s)
    \/ Terminate \/ CallerCancels

Register(r) ==
    BeginRegister(r) \/ Store(r) \/ AddMatchOK(r) \/ AddMatchFails(r) \/ Unsubscribe(r)

Dispatcher == Quit \/ Take \/ Resolve \/ Admit \/ \E r \in Reg : Spawn(r)

Close(c) ==
    \/ CallClose(c) \/ FollowerReturns(c) \/ Cancel(c) \/ RemoveSignal(c)
    \/ WaitDispatcher(c) \/ Lock(c) \/ HandlersDone(c) \/ HandlersTimeout(c)
    \/ CloseReturns(c)

Next ==
    \/ Environment
    \/ \E r \in Reg : Register(r)
    \/ Dispatcher
    \/ \E r \in Reg, s \in Sig : Finish(r, s)
    \/ \E c \in Closer : Close(c)

Spec == Init /\ [][Next]_vars

\* Goroutines that can run do run: the dispatcher, the goroutine of godbus that
\* holds a late signal, and a Close that has been called (its waits end by
\* their timeouts).  Nothing is assumed of the bus, of callers or of handlers.
Fairness ==
    /\ WF_vars(Dispatcher)
    /\ \A s \in Sig : WF_vars(LateDeliver(s))
    /\ \A c \in Closer : WF_vars(closePC[c] # "idle" /\ Close(c))

FairSpec == Spec /\ Fairness

-----------------------------------------------------------------------------
(* Properties.                                                             *)

RegStates == {"idle", "refused", "store", "match", "live", "failed", "ended"}
DispStates == {"off", "select", "resolve", "admit", "spawn", "gone"}
CloseStates == {"idle", "follow", "cancel", "unlink", "waitDispatcher", "lock",
                "waitHandlers", "settle", "returned"}

\* The type invariant.  wg is a natural number: sync.WaitGroup panics on a
\* negative counter.
TypeOK ==
    /\ fresh \subseteq Sig /\ overflow \subseteq Sig
    /\ chan \in Seq(Sig) /\ Len(chan) <= Cap
    /\ link \in {"open", "removed", "terminated"}
    /\ ruled \subseteq Reg /\ handlers \subseteq Reg
    /\ regPC \in [Reg -> RegStates]
    /\ disp \in DispStates /\ cur \in Sig \cup {None} /\ found \subseteq Reg
    /\ running \subseteq Reg \X Sig
    /\ handled \subseteq Reg \X Sig
    /\ wg \in Nat /\ ctxDone \in BOOLEAN /\ seen \subseteq Sig
    /\ handlerMu \in Closer \cup {Free}
    /\ closing \in BOOLEAN /\ once \in {"fresh", "busy", "done"}
    /\ closePC \in [Closer -> CloseStates] /\ abandoned \in BOOLEAN

\* "Every handler goroutine MUST call wg.Done() exactly once": the counter is
\* always the number of calls admitted and not finished, spawned or not yet.
WaitGroupExact == wg = Cardinality(Outstanding)

\* Once the wait of Close for the handlers has ended without a timeout, no
\* handler runs and none is about to be spawned, then and for ever, whatever a
\* dispatcher that Close gave up on still holds in its hands.
QuietAfterClose ==
    closing /\ handlerMu = Free /\ ~abandoned => Outstanding = {}

\* "Once Close() begins (closing=true) no new handler goroutines": no call is
\* admitted any more, not even by a dispatcher that Close abandoned.
NoAdmissionOnceClosing == [][closing => Outstanding' \subseteq Outstanding]_vars

\* "Future dispatches will not include the removed handler": from unsubscribe
\* (or from the error of a failed AddMatch) on, no further call of the handler
\* arises; only the ones already resolved can still run.
Resolved(r) ==
    {p \in Outstanding \cup (IF disp = "admit" THEN found \X {cur} ELSE {}) : p[1] = r}
EndedStaysQuiet ==
    [][\A r \in Reg : regPC[r] \in {"failed", "ended"} =>
                        Resolved(r)' \subseteq Resolved(r)]_vars

\* Every Close that was called returns, also when a handler never does and when
\* the dispatcher has to be abandoned.
EveryCloseReturns ==
    \A c \in Closer : closePC[c] # "idle" ~> closePC[c] = "returned"

\* A signal that reached the object while a registration was live is handed to
\* its handler, however long other handlers run, unless the registration ends,
\* the object is closed, its context is over or the connection is gone.
Arrived(s) == s \in Elems(chan) \cup overflow
EverySignalHandled ==
    \A r \in Reg, s \in Sig :
        (Arrived(s) /\ regPC[r] = "live" /\ Wants(r, s) /\ s \notin Nameless)
            ~> (\/ <<r, s>> \in running \cup handled
                \/ regPC[r] # "live" \/ ctxDone \/ link # "open")

\* What station.go says of SubscribeAffinitiesChanged and its siblings: a
\* callback registered on one object is told of that object's changes.
OwnObjectOnly == \A p \in Delivered : Header[p[2]].path = OwnPath

\* The contract this object keeps; see SignalContract.
Contract == INSTANCE SignalContract WITH
    Wanted <- {p \in Reg \X Sig : Wants(p[1], p[2])},
    active <- handlers,
    retired <- {r \in Reg : regPC[r] \in {"failed", "ended"}},
    offer <- IF disp = "admit" THEN found \X {cur} ELSE {},
    owed <- Outstanding,
    given <- handled,
    status <- IF ~closing THEN "open"
              ELSE IF handlerMu # Free THEN "shut"
              ELSE IF abandoned THEN "abandoned" ELSE "drained"
ImplementsContract == Contract!Spec

=============================================================================
