--------------------------- MODULE SignalContract ---------------------------
(***************************************************************************)
(* What an IntrospectedObject promises the callers of                      *)
(* RegisterSignalHandlerWithUnsubscribe and Close, and nothing of how: no  *)
(* channel, no goroutine, no WaitGroup, no lock.  It is the "Concurrency & *)
(* Lifecycle Contract" comment of src/internal/iwdbus/introspect.go as a   *)
(* state machine.  SignalDispatch implements it.                           *)
(***************************************************************************)

CONSTANTS
    Reg,     \* registrations: one call of RegisterSignalHandler... each
    Sig,     \* signal instances
    Wanted   \* the pairs <<r, s>> where r's name pattern matches s

VARIABLES
    active,   \* registrations whose handler future signals will find
    retired,  \* registrations that are over: unsubscribed, or refused
    seen,     \* signals matched against the active registrations
    offer,    \* handler calls found for one signal and not yet admitted
    owed,     \* handler calls admitted and not yet finished
    given,    \* handler calls finished
    status    \* "open", "shut" (Close waits), "drained" or "abandoned"

cvars == <<active, retired, seen, offer, owed, given, status>>

Init ==
    /\ active = {} /\ retired = {} /\ seen = {}
    /\ offer = {} /\ owed = {} /\ given = {}
    /\ status = "open"

Subscribe(r) ==
    /\ r \notin active \cup retired
    /\ active' = active \cup {r}
    /\ UNCHANGED <<retired, seen, offer, owed, given, status>>

\* A registration ends at most once and never comes back.
Retire(r) ==
    /\ r \notin retired
    /\ active' = active \ {r}
    /\ retired' = retired \cup {r}
    /\ UNCHANGED <<seen, offer, owed, given, status>>

\* Each signal is matched once, against the registrations active then.
Offer(s) ==
    /\ s \notin seen
    /\ offer = {}
    /\ seen' = seen \cup {s}
    /\ offer' = {p \in Wanted : p[1] \in active /\ p[2] = s}
    /\ UNCHANGED <<active, retired, owed, given, status>>

\* Calls are admitted only while the object is open.
Admit ==
    /\ status = "open"
    /\ owed' = owed \cup offer
    /\ offer' = {}
    /\ UNCHANGED <<active, retired, seen, given, status>>

Drop ==
    /\ status # "open"
    /\ offer' = {}
    /\ UNCHANGED <<active, retired, seen, owed, given, status>>

\* In any order: the contract promises no order between handler calls.
Give(p) ==
    /\ p \in owed
    /\ owed' = owed \ {p}
    /\ given' = given \cup {p}
    /\ UNCHANGED <<active, retired, seen, offer, status>>

Shut ==
    /\ status = "open"
    /\ status' = "shut"
    /\ UNCHANGED <<active, retired, seen, offer, owed, given>>

\* Close reports nothing about its wait: it either saw every call finish, or
\* gave up on the ones that had not.
Settle ==
    /\ status = "shut"
    /\ \/ owed = {} /\ status' = "drained"
       \/ status' = "abandoned"
    /\ UNCHANGED <<active, retired, seen, offer, owed, given>>

Next ==
    \/ \E r \in Reg : Subscribe(r) \/ Retire(r)
    \/ \E s \in Sig : Offer(s)
    \/ \E p \in Reg \X Sig : Give(p)
    \/ Admit \/ Drop \/ Shut \/ Settle

Spec == Init /\ [][Next]_cvars

=============================================================================
