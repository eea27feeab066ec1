----------------------- MODULE SignalDispatch_proofs -----------------------
(***************************************************************************)
(* Theorems about SignalDispatch, for every set of registrations, signals  *)
(* and callers of Close, and every channel capacity.                       *)
(***************************************************************************)
EXTENDS SignalDispatch, FiniteSetTheorems, SequenceTheorems, TLAPS

-----------------------------------------------------------------------------
(* The inductive invariant.                                                *)

\* dispatchLoop holds a signal from the receive to the end of the spawn loop,
\* and handlers only from resolveHandlers on.
CurShape ==
    /\ disp \in {"resolve", "admit", "spawn"} => cur \in Sig
    /\ disp \in {"off", "select", "resolve", "gone"} => found = {}
    /\ disp = "spawn" => found # {}

\* A signal is in one place at a time, so it is resolved at most once.
Distinct(q) == \A i, j \in 1..Len(q) : q[i] = q[j] => i = j
SignalsOnce ==
    /\ fresh \cap (overflow \cup Elems(chan) \cup seen) = {}
    /\ overflow \cap (Elems(chan) \cup seen) = {}
    /\ Elems(chan) \cap seen = {}
    /\ Distinct(chan)
    /\ disp = "resolve" => cur \notin fresh \cup overflow \cup Elems(chan) \cup seen

\* A call is of a resolved signal, and arises once.
CallsOnce ==
    /\ \A p \in running \cup handled : p[2] \in seen
    /\ running \cap handled = {}
    /\ disp \in {"admit", "spawn"} => cur \in seen
    /\ disp = "admit" => \A p \in running \cup handled : p[2] # cur
    /\ disp = "spawn" => \A r \in found : <<r, cur>> \notin running \cup handled

\* A stored handler belongs to a registration that is not over.
HandlersLive == \A r \in handlers : regPC[r] \in {"match", "live"}

\* Where the one caller that runs the body of once.Do is.
Body == {"cancel", "unlink", "waitDispatcher", "lock", "waitHandlers", "settle"}
CloseShape ==
    /\ \A c \in Closer : closePC[c] \in Body => once = "busy"
    /\ \A c, d \in Closer : closePC[c] \in Body /\ closePC[d] \in Body => c = d
    /\ \A c \in Closer : closePC[c] = "waitHandlers" <=> handlerMu = c
    /\ closing <=> \/ once = "done"
                   \/ \E c \in Closer : closePC[c] \in {"waitHandlers", "settle"}

IInv ==
    /\ TypeOK /\ CurShape /\ SignalsOnce /\ CallsOnce /\ HandlersLive /\ CloseShape
    /\ WaitGroupExact /\ QuietAfterClose

-----------------------------------------------------------------------------
(* Lemmas about the channel and about counting calls.                      *)

\* Sending puts the signal in the channel and nothing else.
LEMMA ElemsAppend ==
    ASSUME NEW q \in Seq(Sig), NEW s \in Sig
    PROVE  /\ Append(q, s) \in Seq(Sig)
           /\ Len(Append(q, s)) = Len(q) + 1
           /\ Elems(Append(q, s)) = Elems(q) \cup {s}
           /\ Distinct(q) /\ s \notin Elems(q) => Distinct(Append(q, s))
  <1>1. /\ Append(q, s) \in Seq(Sig)
        /\ Len(Append(q, s)) = Len(q) + 1
        /\ Len(q) \in Nat
        /\ \A i \in 1..Len(q) : Append(q, s)[i] = q[i]
        /\ Append(q, s)[Len(q) + 1] = s
    BY AppendProperties, LenProperties
  <1>2. Elems(Append(q, s)) = Elems(q) \cup {s}
    <2>1. \A i \in 1..(Len(q) + 1) : i \in 1..Len(q) \/ i = Len(q) + 1
      BY <1>1
    <2>2. \A i \in 1..Len(q) : i \in 1..(Len(q) + 1)
      BY <1>1
    <2>3. Len(q) + 1 \in 1..(Len(q) + 1)
      BY <1>1
    <2> QED
      BY <1>1, <2>1, <2>2, <2>3 DEF Elems
  <1>3. ASSUME Distinct(q), s \notin Elems(q)
        PROVE  Distinct(Append(q, s))
    BY <1>1, <1>3 DEF Distinct, Elems
  <1> QED
    BY <1>1, <1>2, <1>3

\* Receiving takes the signal out of the channel and nothing else.
LEMMA ElemsTail ==
    ASSUME NEW q \in Seq(Sig), q # <<>>
    PROVE  /\ Head(q) \in Sig /\ Head(q) \in Elems(q)
           /\ Tail(q) \in Seq(Sig) /\ Len(Tail(q)) <= Len(q)
           /\ Elems(Tail(q)) \subseteq Elems(q)
           /\ Distinct(q) => Distinct(Tail(q)) /\ Head(q) \notin Elems(Tail(q))
  <1>1. /\ Head(q) \in Sig /\ Tail(q) \in Seq(Sig)
        /\ Len(Tail(q)) = Len(q) - 1
        /\ \A i \in 1..Len(Tail(q)) : Tail(q)[i] = q[i + 1]
        /\ Len(q) \in Nat \ {0}
        /\ Head(q) = q[1]
    BY HeadTailProperties, EmptySeq, LenProperties
  <1>2. \A i \in 1..Len(Tail(q)) : i + 1 \in 1..Len(q) /\ i + 1 # 1
    BY <1>1
  <1>3. 1 \in 1..Len(q)
    BY <1>1
  <1>4. ASSUME Distinct(q)
        PROVE  Distinct(Tail(q)) /\ Head(q) \notin Elems(Tail(q))
    <2>1. ASSUME NEW i \in 1..Len(Tail(q)), NEW j \in 1..Len(Tail(q)),
                 Tail(q)[i] = Tail(q)[j]
          PROVE  i = j
      <3>1. i + 1 = j + 1
        BY <1>1, <1>2, <1>4, <2>1 DEF Distinct
      <3> QED
        BY <3>1
    <2>2. \A i \in 1..Len(Tail(q)) : Tail(q)[i] # q[1]
      BY <1>1, <1>2, <1>3, <1>4 DEF Distinct
    <2>3. Head(q) \notin Elems(Tail(q))
      BY <1>1, <2>2 DEF Elems
    <2> QED
      BY <2>1, <2>3 DEF Distinct
  <1> QED
    BY <1>1, <1>2, <1>3, <1>4 DEF Elems

\* Only finitely many calls can be outstanding.
LEMMA OutstandingFinite ==
    ASSUME TypeOK, CurShape
    PROVE  /\ Outstanding \subseteq Reg \X Sig
           /\ IsFiniteSet(Outstanding) /\ IsFiniteSet(running)
           /\ IsFiniteSet(found) /\ Cardinality(Outstanding) \in Nat
  <1>1. IsFiniteSet(Reg \X Sig)
    BY FS_Product, DispatchAssumption
  <1>2. Outstanding \subseteq Reg \X Sig
    BY DEF TypeOK, CurShape, Outstanding
  <1>3. running \subseteq Reg \X Sig /\ found \subseteq Reg
    BY DEF TypeOK
  <1> QED
    BY <1>1, <1>2, <1>3, FS_Subset, FS_CardinalityType, DispatchAssumption

\* wg.Add(len(hs)) counts what the spawn loop will start, and all of it is new.
LEMMA AdmitCounts ==
    ASSUME NEW R, NEW F, NEW s, IsFiniteSet(R), IsFiniteSet(F),
           \A r \in F : <<r, s>> \notin R
    PROVE  Cardinality(R \cup (F \X {s})) = Cardinality(R) + Cardinality(F)
  <1>1. IsFiniteSet({s}) /\ Cardinality({s}) = 1
    BY FS_Singleton
  <1>2. Cardinality(F) \in Nat /\ Cardinality(R) \in Nat
    BY FS_CardinalityType
  <1>3. IsFiniteSet(F \X {s}) /\ Cardinality(F \X {s}) = Cardinality(F) * 1
    BY <1>1, FS_Product
  <1>4. R \cap (F \X {s}) = {}
    OBVIOUS
  <1>5. Cardinality(R \cap (F \X {s})) = 0
    BY <1>4, FS_EmptySet
  <1>6. Cardinality(R \cup (F \X {s})) =
          Cardinality(R) + Cardinality(F \X {s}) - Cardinality(R \cap (F \X {s}))
    BY <1>3, FS_Union
  <1> QED
    BY <1>2, <1>3, <1>5, <1>6

-----------------------------------------------------------------------------
(* Every step preserves each part of the invariant.                        *)

LEMMA InitInv == Init => IInv
  <1> SUFFICES ASSUME Init PROVE IInv
    OBVIOUS
  <1>1. TypeOK
    <2>1. chan \in Seq(Sig) /\ Len(chan) <= Cap
      BY DispatchAssumption, EmptySeq DEF Init
    <2>2. regPC \in [Reg -> RegStates] /\ closePC \in [Closer -> CloseStates]
      BY DEF Init, RegStates, CloseStates
    <2> QED
      BY <2>1, <2>2 DEF Init, TypeOK, DispStates
  <1>2. CurShape /\ CallsOnce /\ HandlersLive /\ CloseShape /\ QuietAfterClose
    BY DispatchAssumption
       DEF Init, CurShape, CallsOnce, HandlersLive, CloseShape, Body, QuietAfterClose
  <1>3. SignalsOnce
    BY EmptySeq DEF Init, SignalsOnce, Elems, Distinct
  <1>4. WaitGroupExact
    BY FS_EmptySet DEF Init, WaitGroupExact, Outstanding
  <1> QED
    BY <1>1, <1>2, <1>3, <1>4 DEF IInv

LEMMA CurStep == IInv /\ [Next]_vars => CurShape'
  <1> SUFFICES ASSUME IInv, [Next]_vars PROVE CurShape'
    OBVIOUS
  <1> USE DEF IInv, TypeOK, CurShape
  <1>1. ASSUME NEW r \in Reg, BeginRegister(r) PROVE CurShape'
    BY <1>1 DEF BeginRegister
  <1>2. CASE Quit
    BY <1>2 DEF Quit
  <1>3. CASE Take
    BY <1>3, ElemsTail DEF Take
  <1>4. CASE Resolve
    BY <1>4 DEF Resolve
  <1>5. CASE Admit
    BY <1>5 DEF Admit
  <1>6. ASSUME NEW r \in Reg, Spawn(r) PROVE CurShape'
    BY <1>6 DEF Spawn
  <1>7. CASE UNCHANGED dispVars
    BY <1>7 DEF dispVars
  <1> QED
    BY <1>1, <1>2, <1>3, <1>4, <1>5, <1>6, <1>7
       DEF Next, Environment, Register, Dispatcher, Close, vars, dispVars,
           Emit, LateDeliver, Terminate, CallerCancels, Store, AddMatchOK,
           AddMatchFails, Unsubscribe, Finish, CallClose, FollowerReturns, Cancel,
           RemoveSignal, WaitDispatcher, Lock, HandlersDone, HandlersTimeout,
           CloseReturns

LEMMA SignalsStep == IInv /\ [Next]_vars => SignalsOnce'
  <1> SUFFICES ASSUME IInv, [Next]_vars PROVE SignalsOnce'
    OBVIOUS
  <1> USE DEF IInv, TypeOK, SignalsOnce
  <1>1. ASSUME NEW s \in Sig, Emit(s) PROVE SignalsOnce'
    <2>1. s \notin Elems(chan)
      BY <1>1 DEF Emit
    <2>2. CASE UNCHANGED <<chan, overflow>>
      BY <1>1, <2>2 DEF Emit, Elems, Distinct, dispVars
    <2>3. CASE chan' = Append(chan, s) /\ UNCHANGED overflow
      BY <1>1, <2>1, <2>3, ElemsAppend DEF Emit, dispVars
    <2>4. CASE overflow' = overflow \cup {s} /\ UNCHANGED chan
      BY <1>1, <2>1, <2>4 DEF Emit, Elems, Distinct, dispVars
    <2> QED
      BY <1>1, <2>2, <2>3, <2>4 DEF Emit
  <1>2. ASSUME NEW s \in Sig, LateDeliver(s) PROVE SignalsOnce'
    BY <1>2, ElemsAppend DEF LateDeliver, dispVars
  <1>3. CASE Terminate \/ \E c \in Closer : RemoveSignal(c)
    BY <1>3 DEF Terminate, RemoveSignal, Elems, Distinct, dispVars
  <1>4. CASE Take
    BY <1>4, ElemsTail DEF Take
  <1>5. CASE Resolve
    BY <1>5 DEF Resolve, Elems, Distinct, busVars
  <1>6. CASE UNCHANGED <<busVars, seen>> /\ (disp' = "resolve" => UNCHANGED <<disp, cur>>)
    BY <1>6 DEF busVars, Elems, Distinct
  <1> QED
    BY <1>1, <1>2, <1>3, <1>4, <1>5, <1>6
       DEF Next, Environment, Register, Dispatcher, Close, vars, dispVars,
           CallerCancels, BeginRegister, Store, AddMatchOK, AddMatchFails,
           Unsubscribe, Quit, Admit, Spawn, Finish, CallClose, FollowerReturns,
           Cancel, WaitDispatcher, Lock, HandlersDone, HandlersTimeout,
           CloseReturns

LEMMA CallsStep == IInv /\ [Next]_vars => CallsOnce'
  <1> SUFFICES ASSUME IInv, [Next]_vars PROVE CallsOnce'
    OBVIOUS
  <1> USE DEF IInv, TypeOK, CallsOnce
  <1>1. ASSUME NEW r \in Reg, BeginRegister(r) PROVE CallsOnce'
    BY <1>1 DEF BeginRegister, runVars
  <1>2. CASE Quit
    BY <1>2 DEF Quit, runVars
  <1>3. CASE Take
    BY <1>3 DEF Take, runVars
  <1>4. CASE Resolve
    <2>1. cur \notin seen
      BY <1>4 DEF Resolve, SignalsOnce
    <2> QED
      BY <1>4, <2>1 DEF Resolve, runVars
  <1>5. CASE Admit
    BY <1>5 DEF Admit, runVars
  <1>6. ASSUME NEW r \in Reg, Spawn(r) PROVE CallsOnce'
    BY <1>6 DEF Spawn
  <1>7. ASSUME NEW r \in Reg, NEW s \in Sig, Finish(r, s) PROVE CallsOnce'
    BY <1>7 DEF Finish, dispVars
  <1>8. CASE UNCHANGED <<runVars, dispVars, seen>>
    BY <1>8 DEF runVars, dispVars
  <1> QED
    BY <1>1, <1>2, <1>3, <1>4, <1>5, <1>6, <1>7, <1>8
       DEF Next, Environment, Register, Dispatcher, Close, vars,
           Emit, LateDeliver, Terminate, CallerCancels, Store, AddMatchOK,
           AddMatchFails, Unsubscribe, CallClose, FollowerReturns, Cancel,
           RemoveSignal, WaitDispatcher, Lock, HandlersDone, HandlersTimeout,
           CloseReturns

LEMMA HandlersStep == IInv /\ [Next]_vars => HandlersLive'
  <1> SUFFICES ASSUME IInv, [Next]_vars PROVE HandlersLive'
    OBVIOUS
  <1> USE DEF IInv, TypeOK, HandlersLive
  <1>1. ASSUME NEW r \in Reg, Register(r) PROVE HandlersLive'
    BY <1>1 DEF Register, BeginRegister, Store, AddMatchOK, AddMatchFails, Unsubscribe
  <1>2. CASE UNCHANGED regVars
    BY <1>2 DEF regVars
  <1> QED
    BY <1>1, <1>2
       DEF Next, Environment, Dispatcher, Close, vars,
           Emit, LateDeliver, Terminate, CallerCancels, Quit, Take, Resolve, Admit,
           Spawn, Finish, CallClose, FollowerReturns, Cancel, RemoveSignal,
           WaitDispatcher, Lock, HandlersDone, HandlersTimeout, CloseReturns

LEMMA CloseStep == IInv /\ [Next]_vars => CloseShape'
  <1> SUFFICES ASSUME IInv, [Next]_vars PROVE CloseShape'
    OBVIOUS
  <1> USE DispatchAssumption DEF IInv, TypeOK, CloseShape, Body, CloseMoves
  <1>1. ASSUME NEW c \in Closer, CallClose(c) PROVE CloseShape'
    BY <1>1 DEF CallClose
  <1>2. ASSUME NEW c \in Closer, FollowerReturns(c) PROVE CloseShape'
    BY <1>2 DEF FollowerReturns
  <1>3. ASSUME NEW c \in Closer, Cancel(c) PROVE CloseShape'
    BY <1>3 DEF Cancel
  <1>4. ASSUME NEW c \in Closer, RemoveSignal(c) PROVE CloseShape'
    BY <1>4 DEF RemoveSignal
  <1>5. ASSUME NEW c \in Closer, WaitDispatcher(c) PROVE CloseShape'
    BY <1>5 DEF WaitDispatcher
  <1>6. ASSUME NEW c \in Closer, Lock(c) PROVE CloseShape'
    BY <1>6 DEF Lock
  <1>7. ASSUME NEW c \in Closer, HandlersDone(c) PROVE CloseShape'
    BY <1>7 DEF HandlersDone
  <1>8. ASSUME NEW c \in Closer, HandlersTimeout(c) PROVE CloseShape'
    BY <1>8 DEF HandlersTimeout
  <1>9. ASSUME NEW c \in Closer, CloseReturns(c) PROVE CloseShape'
    BY <1>9 DEF CloseReturns
  <1>10. CASE UNCHANGED closeVars
    BY <1>10 DEF closeVars
  <1> QED
    BY <1>1, <1>2, <1>3, <1>4, <1>5, <1>6, <1>7, <1>8, <1>9, <1>10
       DEF Next, Environment, Register, Dispatcher, Close, vars,
           Emit, LateDeliver, Terminate, CallerCancels, BeginRegister, Store,
           AddMatchOK, AddMatchFails, Unsubscribe, Quit, Take, Resolve, Admit,
           Spawn, Finish

\* A step of the spawn loop turns a call to be spawned into a running one.
LEMMA SpawnKeeps ==
    ASSUME IInv, NEW r \in Reg, Spawn(r)
    PROVE  Outstanding' = Outstanding
  <1>1. Outstanding = running \cup (found \X {cur}) /\ r \in found
    BY DEF Spawn, Outstanding
  <1>2. CASE found = {r}
    BY <1>1, <1>2 DEF Spawn, Outstanding
  <1>3. CASE found # {r}
    BY <1>1, <1>3 DEF Spawn, Outstanding
  <1> QED
    BY <1>2, <1>3

LEMMA CountStep == IInv /\ [Next]_vars => WaitGroupExact' /\ wg' \in Nat
  <1> SUFFICES ASSUME IInv, [Next]_vars PROVE WaitGroupExact' /\ wg' \in Nat
    OBVIOUS
  <1> USE DEF WaitGroupExact
  <1>0. TypeOK /\ CurShape /\ CallsOnce /\ WaitGroupExact
    BY DEF IInv
  <1>1. wg \in Nat /\ wg = Cardinality(Outstanding)
    BY <1>0 DEF TypeOK
  <1>2. CASE wg' = wg /\ Outstanding' = Outstanding
    BY <1>1, <1>2
  <1>3. CASE Admit
    <2>1. CASE closing
      BY <1>2, <1>3, <2>1 DEF Admit, Outstanding, runVars
    <2>2. CASE ~closing /\ found = {}
      <3>1. Cardinality(found) = 0
        BY <2>2, FS_EmptySet
      <3> QED
        BY <1>1, <1>2, <1>3, <2>2, <3>1 DEF Admit, Outstanding, runVars
    <2>3. CASE ~closing /\ found # {}
      <3>1. Outstanding' = running \cup (found \X {cur})
        BY <1>3, <2>3 DEF Admit, Outstanding, runVars
      <3>2. Outstanding = running
        BY <1>3 DEF Admit, Outstanding
      <3>3. IsFiniteSet(running) /\ IsFiniteSet(found)
        BY <1>0, OutstandingFinite
      <3>4. \A r \in found : <<r, cur>> \notin running
        BY <1>0, <1>3 DEF CallsOnce, Admit
      <3>5. Cardinality(running \cup (found \X {cur}))
              = Cardinality(running) + Cardinality(found)
        BY <3>3, <3>4, AdmitCounts
      <3>6. Cardinality(found) \in Nat
        BY <3>3, FS_CardinalityType
      <3> QED
        BY <1>1, <1>3, <2>3, <3>1, <3>2, <3>5, <3>6 DEF Admit
    <2> QED
      BY <2>1, <2>2, <2>3
  <1>4. ASSUME NEW r \in Reg, Spawn(r) PROVE wg' = wg /\ Outstanding' = Outstanding
    BY <1>4, SpawnKeeps DEF Spawn
  <1>5. ASSUME NEW r \in Reg, NEW s \in Sig, Finish(r, s)
        PROVE  WaitGroupExact' /\ wg' \in Nat
    <2>1. Outstanding' = Outstanding \ {<<r, s>>}
      BY <1>0, <1>5 DEF Finish, Outstanding, dispVars, CallsOnce
    <2>2. <<r, s>> \in Outstanding
      BY <1>5 DEF Finish, Outstanding
    <2>3. IsFiniteSet(Outstanding)
      BY <1>0, OutstandingFinite
    <2>4. Cardinality(Outstanding \ {<<r, s>>}) = Cardinality(Outstanding) - 1
      BY <2>2, <2>3, FS_RemoveElement
    <2>5. Cardinality(Outstanding \ {<<r, s>>}) \in Nat
      BY <2>3, FS_RemoveElement, FS_CardinalityType
    <2> QED
      BY <1>1, <1>5, <2>1, <2>4, <2>5 DEF Finish
  <1>6. CASE disp # "spawn" /\ disp' # "spawn" /\ UNCHANGED <<running, wg>>
    BY <1>2, <1>6 DEF Outstanding
  <1>7. CASE UNCHANGED <<running, wg, dispVars>>
    BY <1>2, <1>7 DEF Outstanding, dispVars
  <1> QED
    BY <1>2, <1>3, <1>4, <1>5, <1>6, <1>7
       DEF Next, Environment, Register, Dispatcher, Close, vars, runVars, dispVars,
           Emit, LateDeliver, Terminate, CallerCancels, BeginRegister, Store,
           AddMatchOK, AddMatchFails, Unsubscribe, Quit, Take, Resolve, CallClose,
           FollowerReturns, Cancel, RemoveSignal, WaitDispatcher, Lock,
           HandlersDone, HandlersTimeout, CloseReturns

LEMMA TypeStep == IInv /\ [Next]_vars => TypeOK'
  <1> SUFFICES ASSUME IInv, [Next]_vars PROVE TypeOK'
    OBVIOUS
  <1>0. wg' \in Nat
    BY CountStep
  <1> USE DEF TypeOK
  <1>i. TypeOK /\ CurShape
    BY DEF IInv
  <1>1. ASSUME NEW s \in Sig, Emit(s) PROVE TypeOK'
    <2>1. chan' \in Seq(Sig) /\ Len(chan') <= Cap /\ overflow' \subseteq Sig
      <3>1. Len(chan) \in Nat /\ Cap \in Nat
        BY <1>i, LenProperties, DispatchAssumption
      <3> QED
        BY <1>i, <1>1, <3>1, ElemsAppend DEF Emit
    <2> QED
      BY <1>i, <1>0, <1>1, <2>1 DEF Emit, regVars, dispVars, runVars, closeVars
  <1>2. ASSUME NEW s \in Sig, LateDeliver(s) PROVE TypeOK'
    <2>1. chan' \in Seq(Sig) /\ Len(chan') <= Cap
      <3>1. Len(chan) \in Nat /\ Cap \in Nat
        BY <1>i, LenProperties, DispatchAssumption
      <3> QED
        BY <1>i, <1>2, <3>1, ElemsAppend DEF LateDeliver
    <2> QED
      BY <1>i, <1>0, <1>2, <2>1
         DEF LateDeliver, regVars, dispVars, runVars, closeVars
  <1>3. CASE Terminate \/ CallerCancels
    BY <1>i, <1>0, <1>3
       DEF Terminate, CallerCancels, busVars, regVars, dispVars, runVars, closeVars
  <1>4. ASSUME NEW r \in Reg, Register(r) PROVE TypeOK'
    BY <1>i, <1>0, <1>4
       DEF Register, BeginRegister, Store, AddMatchOK, AddMatchFails, Unsubscribe,
           RegStates, DispStates, busVars, dispVars, runVars, closeVars
  <1>5. CASE Take
    <2>1. chan' \in Seq(Sig) /\ Len(chan') <= Cap /\ Head(chan) \in Sig
      <3>1. Len(Tail(chan)) = Len(chan) - 1 /\ Len(chan) \in Nat /\ Cap \in Nat
        BY <1>i, <1>5, LenProperties, HeadTailProperties, DispatchAssumption DEF Take
      <3> QED
        BY <1>i, <1>5, <3>1, ElemsTail DEF Take
    <2> QED
      BY <1>i, <1>0, <1>5, <2>1 DEF Take, DispStates, regVars, runVars, closeVars
  <1>6. CASE Quit \/ Resolve \/ Admit
    <2> USE <1>i, <1>0 DEF DispStates, busVars, regVars, runVars, closeVars
    <2>1. CASE Quit
      BY <2>1 DEF Quit
    <2>2. CASE Resolve
      BY <2>2 DEF Resolve, CurShape
    <2>3. CASE Admit
      BY <2>3 DEF Admit
    <2> QED
      BY <1>6, <2>1, <2>2, <2>3
  <1>7. ASSUME NEW r \in Reg, Spawn(r) PROVE TypeOK'
    BY <1>i, <1>0, <1>7
       DEF Spawn, CurShape, DispStates, busVars, regVars, closeVars
  <1>8. ASSUME NEW r \in Reg, NEW s \in Sig, Finish(r, s) PROVE TypeOK'
    BY <1>i, <1>0, <1>8 DEF Finish, busVars, regVars, dispVars, closeVars
  <1>9. ASSUME NEW c \in Closer, Close(c) PROVE TypeOK'
    <2> USE <1>i, <1>9
        DEF Close, CallClose, FollowerReturns, Cancel, RemoveSignal, WaitDispatcher,
            Lock, HandlersDone, HandlersTimeout, CloseReturns, CloseMoves
    <2>1. closePC' \in [Closer -> CloseStates] /\ once' \in {"fresh", "busy", "done"}
      BY <1>0 DEF CloseStates
    <2>2. handlerMu' \in Closer \cup {Free} /\ closing' \in BOOLEAN /\ abandoned' \in BOOLEAN
      BY <1>0
    <2>3. /\ link' \in {link, "removed"} /\ overflow' \in {overflow, {}}
          /\ ctxDone' \in {ctxDone, TRUE}
          /\ UNCHANGED <<fresh, chan, regVars, dispVars, runVars, wg, seen>>
      BY DEF busVars
    <2> QED
      BY <1>0, <2>1, <2>2, <2>3 DEF regVars, dispVars, runVars
  <1>10. CASE UNCHANGED vars
    BY <1>i, <1>10 DEF vars, busVars, regVars, dispVars, runVars, closeVars
  <1> QED
    BY <1>1, <1>2, <1>3, <1>4, <1>5, <1>6, <1>7, <1>8, <1>9, <1>10
       DEF Next, Environment, Dispatcher

\* Outstanding calls arise in dispatchLoop's critical section only.
LEMMA OutstandingGrows ==
    ASSUME IInv, [Next]_vars
    PROVE  \/ Outstanding' \subseteq Outstanding
           \/ Admit /\ ~closing
  <1>i. CurShape
    BY DEF IInv
  <1>1. CASE Admit
    BY <1>1 DEF Admit, Outstanding, runVars
  <1>2. ASSUME NEW r \in Reg, Spawn(r) PROVE Outstanding' \subseteq Outstanding
    BY <1>2, SpawnKeeps
  <1>3. ASSUME NEW r \in Reg, NEW s \in Sig, Finish(r, s)
        PROVE  Outstanding' \subseteq Outstanding
    BY <1>3 DEF Finish, Outstanding, dispVars
  <1>4. CASE UNCHANGED running /\ (disp' = "spawn" => UNCHANGED dispVars)
    BY <1>4 DEF Outstanding, dispVars
  <1> QED
    BY <1>1, <1>2, <1>3, <1>4
       DEF Next, Environment, Register, Dispatcher, Close, vars, runVars, dispVars,
           Emit, LateDeliver, Terminate, CallerCancels, BeginRegister, Store,
           AddMatchOK, AddMatchFails, Unsubscribe, Quit, Take, Resolve, CallClose,
           FollowerReturns, Cancel, RemoveSignal, WaitDispatcher, Lock,
           HandlersDone, HandlersTimeout, CloseReturns

LEMMA QuietStep == IInv /\ [Next]_vars => QuietAfterClose'
  <1> SUFFICES ASSUME IInv, [Next]_vars PROVE QuietAfterClose'
    OBVIOUS
  <1>i. TypeOK /\ CurShape /\ CloseShape /\ WaitGroupExact /\ QuietAfterClose
    BY DEF IInv
  <1> USE DispatchAssumption DEF QuietAfterClose
  <1>1. ASSUME NEW c \in Closer, Lock(c) PROVE QuietAfterClose'
    BY <1>1 DEF Lock
  <1>2. ASSUME NEW c \in Closer, HandlersDone(c) PROVE QuietAfterClose'
    <2>1. Cardinality(Outstanding) = 0 /\ IsFiniteSet(Outstanding)
      BY <1>i, <1>2, OutstandingFinite DEF HandlersDone, WaitGroupExact
    <2>2. Outstanding = {}
      BY <2>1, FS_EmptySet
    <2> QED
      BY <1>2, <2>2 DEF HandlersDone, Outstanding, dispVars, runVars
  <1>3. ASSUME NEW c \in Closer, HandlersTimeout(c) PROVE QuietAfterClose'
    BY <1>3 DEF HandlersTimeout
  <1>4. CASE closing /\ UNCHANGED <<closing, handlerMu, abandoned>>
    BY <1>i, <1>4, OutstandingGrows
  <1>5. CASE ~closing /\ UNCHANGED closing
    BY <1>5
  <1> QED
    BY <1>1, <1>2, <1>3, <1>4, <1>5, <1>i
       DEF Next, Environment, Register, Dispatcher, Close, vars, closeVars, TypeOK,
           Emit, LateDeliver, Terminate, CallerCancels, BeginRegister, Store,
           AddMatchOK, AddMatchFails, Unsubscribe, Quit, Take, Resolve, Admit, Spawn,
           Finish, CallClose, FollowerReturns, Cancel, RemoveSignal, WaitDispatcher,
           CloseReturns

THEOREM Invariance == Spec => []IInv
  <1>1. IInv /\ [Next]_vars => IInv'
    BY TypeStep, CurStep, SignalsStep, CallsStep, HandlersStep, CloseStep,
       CountStep, QuietStep
       DEF IInv
  <1> QED
    BY InitInv, <1>1, PTL DEF Spec

-----------------------------------------------------------------------------
(* The theorems.                                                           *)

\* In particular wg never falls below zero: no WaitGroup misuse can panic.
THEOREM TypeCorrect == Spec => []TypeOK
  BY Invariance, PTL DEF IInv

\* wg counts exactly the calls admitted and not finished, so that waiting for
\* it to reach zero is waiting for all of them.
THEOREM WaitGroupCorrect == Spec => []WaitGroupExact
  BY Invariance, PTL DEF IInv

\* A Close that was not cut short by its timeout leaves no handler behind, and
\* none appears later.
THEOREM CloseQuiesces == Spec => []QuietAfterClose
  BY Invariance, PTL DEF IInv

\* Shutdown is permanent: with closing set, no call is admitted.
THEOREM ClosingIsFinal == Spec => NoAdmissionOnceClosing
  <1>1. IInv /\ [Next]_vars => [closing => Outstanding' \subseteq Outstanding]_vars
    BY OutstandingGrows
  <1> QED
    BY <1>1, Invariance, PTL DEF Spec, NoAdmissionOnceClosing

\* A registration that is over gets no further call.
THEOREM EndedIsFinal == Spec => EndedStaysQuiet
  <1> DEFINE Quiet == \A r \in Reg : regPC[r] \in {"failed", "ended"} =>
                                      Resolved(r)' \subseteq Resolved(r)
  <1>1. ASSUME IInv, [Next]_vars PROVE Quiet
    <2> SUFFICES ASSUME NEW r \in Reg, regPC[r] \in {"failed", "ended"}
                 PROVE  Resolved(r)' \subseteq Resolved(r)
      OBVIOUS
    <2>1. CASE Admit
      BY <2>1 DEF Admit, Resolved, Outstanding, runVars
    <2>2. CASE Resolve
      <3>1. r \notin found'
        BY <1>1, <2>2 DEF IInv, HandlersLive, Resolve
      <3> QED
        BY <2>2, <3>1 DEF Resolve, Resolved, Outstanding, runVars
    <2>3. ASSUME NEW q \in Reg, Spawn(q) PROVE Resolved(r)' \subseteq Resolved(r)
      <3>1. Outstanding' = Outstanding
        BY <1>1, <2>3, SpawnKeeps
      <3>2. disp' # "admit"
        BY <2>3 DEF Spawn
      <3> QED
        BY <3>1, <3>2 DEF Resolved
    <2>4. CASE Outstanding' \subseteq Outstanding /\ (disp' = "admit" => UNCHANGED dispVars)
      BY <2>4 DEF Resolved, dispVars
    <2> QED
      BY <1>1, <2>1, <2>2, <2>3, <2>4, OutstandingGrows
         DEF Next, Environment, Register, Dispatcher, Close, vars, dispVars,
             Emit, LateDeliver, Terminate, CallerCancels, BeginRegister, Store,
             AddMatchOK, AddMatchFails, Unsubscribe, Quit, Take, Finish, CallClose,
             FollowerReturns, Cancel, RemoveSignal, WaitDispatcher, Lock,
             HandlersDone, HandlersTimeout, CloseReturns
  <1>2. IInv /\ [Next]_vars => [Quiet]_vars
    BY <1>1
  <1> QED
    BY <1>2, Invariance, PTL DEF Spec, EndedStaysQuiet

-----------------------------------------------------------------------------
(* SignalDispatch implements SignalContract.                               *)

LEMMA ContractInit == Init => Contract!Init
  BY DEF Init, Contract!Init, Outstanding

\* What the mapped variables other than status depend on.
LEMMA ContractStutter ==
    ASSUME UNCHANGED <<handlers, regPC, seen, handled, closing, handlerMu, abandoned>>,
           Outstanding' = Outstanding,
           (IF disp = "admit" THEN found \X {cur} ELSE {})'
             = (IF disp = "admit" THEN found \X {cur} ELSE {})
    PROVE  UNCHANGED Contract!cvars
  BY DEF Contract!cvars

LEMMA ContractStep == IInv /\ [Next]_vars => [Contract!Next]_(Contract!cvars)
  <1> SUFFICES ASSUME IInv, [Next]_vars
               PROVE  Contract!Next \/ UNCHANGED Contract!cvars
    OBVIOUS
  <1>i. /\ TypeOK /\ CurShape /\ SignalsOnce /\ CallsOnce /\ HandlersLive
        /\ CloseShape /\ WaitGroupExact /\ QuietAfterClose
    BY DEF IInv
  <1>f. Free \notin Closer
    BY DispatchAssumption
  <1>1. ASSUME NEW r \in Reg, Store(r) PROVE Contract!Subscribe(r)
    <2>1. r \notin handlers \cup {q \in Reg : regPC[q] \in {"failed", "ended"}}
      BY <1>i, <1>1 DEF Store, HandlersLive
    <2>2. {q \in Reg : regPC'[q] \in {"failed", "ended"}}
            = {q \in Reg : regPC[q] \in {"failed", "ended"}}
      BY <1>i, <1>1 DEF Store, TypeOK
    <2> QED
      BY <1>1, <2>1, <2>2
         DEF Store, Contract!Subscribe, Outstanding, dispVars, runVars, closeVars
  <1>2. ASSUME NEW r \in Reg, AddMatchFails(r) \/ Unsubscribe(r)
        PROVE  Contract!Retire(r)
    <2>1. r \notin {q \in Reg : regPC[q] \in {"failed", "ended"}}
      BY <1>2 DEF AddMatchFails, Unsubscribe
    <2>2. {q \in Reg : regPC'[q] \in {"failed", "ended"}}
            = {q \in Reg : regPC[q] \in {"failed", "ended"}} \cup {r}
      BY <1>i, <1>2 DEF AddMatchFails, Unsubscribe, TypeOK
    <2> QED
      BY <1>2, <2>1, <2>2
         DEF AddMatchFails, Unsubscribe, Contract!Retire, Outstanding,
             dispVars, runVars, closeVars
  <1>3. ASSUME NEW r \in Reg, BeginRegister(r) \/ AddMatchOK(r)
        PROVE  UNCHANGED Contract!cvars
    <2>1. {q \in Reg : regPC'[q] \in {"failed", "ended"}}
            = {q \in Reg : regPC[q] \in {"failed", "ended"}}
      BY <1>i, <1>3 DEF BeginRegister, AddMatchOK, TypeOK
    <2>2. Outstanding' = Outstanding
      BY <1>3 DEF BeginRegister, AddMatchOK, Outstanding, dispVars, runVars
    <2>3. (IF disp = "admit" THEN found \X {cur} ELSE {})'
            = (IF disp = "admit" THEN found \X {cur} ELSE {})
      BY <1>3 DEF BeginRegister, AddMatchOK, dispVars
    <2>4. UNCHANGED <<handlers, seen, handled, closing, handlerMu, abandoned>>
      BY <1>3 DEF BeginRegister, AddMatchOK, runVars, closeVars
    <2> QED
      BY <2>1, <2>2, <2>3, <2>4 DEF Contract!cvars
  <1>4. CASE Resolve
    <2>1. cur \in Sig /\ cur \notin seen
      BY <1>i, <1>4 DEF Resolve, CurShape, SignalsOnce
    <2>2. found' \X {cur} = {p \in {q \in Reg \X Sig : Wants(q[1], q[2])} :
                               p[1] \in handlers /\ p[2] = cur}
      BY <1>i, <1>4, <2>1 DEF Resolve, TypeOK
    <2>3. Contract!Offer(cur)
      BY <1>4, <2>1, <2>2
         DEF Resolve, Contract!Offer, Outstanding, regVars, runVars, closeVars
    <2> QED
      BY <2>1, <2>3 DEF Contract!Next
  <1>5. CASE Admit
    <2>1. CASE closing
      BY <1>5, <2>1 DEF Admit, Contract!Next, Contract!Drop, Outstanding, regVars, runVars, closeVars
    <2>2. CASE ~closing
      BY <1>5, <2>2 DEF Admit, Contract!Next, Contract!Admit, Outstanding, regVars, runVars, closeVars
    <2> QED
      BY <2>1, <2>2
  <1>6. ASSUME NEW r \in Reg, Spawn(r) PROVE UNCHANGED Contract!cvars
    <2>1. Outstanding' = Outstanding
      BY <1>6, SpawnKeeps
    <2> QED
      BY <1>6, <2>1, ContractStutter DEF Spawn, regVars, closeVars
  <1>7. ASSUME NEW r \in Reg, NEW s \in Sig, Finish(r, s)
        PROVE  Contract!Give(<<r, s>>)
    <2>1. Outstanding' = Outstanding \ {<<r, s>>} /\ <<r, s>> \in Outstanding
      BY <1>i, <1>7 DEF Finish, Outstanding, dispVars, CallsOnce
    <2> QED
      BY <1>7, <2>1 DEF Finish, Contract!Give, regVars, dispVars, closeVars
  <1>8. ASSUME NEW c \in Closer, Lock(c) PROVE Contract!Shut
    <2>1. ~closing
      BY <1>i, <1>8 DEF Lock, CloseMoves, CloseShape, Body
    <2> QED
      BY <1>8, <1>f, <2>1
         DEF Lock, Contract!Shut, Outstanding, regVars, dispVars, runVars
  <1>9. ASSUME NEW c \in Closer, HandlersDone(c) \/ HandlersTimeout(c)
        PROVE  Contract!Settle
    <2>1. handlerMu # Free /\ closing
      BY <1>i, <1>f, <1>9
         DEF HandlersDone, HandlersTimeout, CloseMoves, CloseShape, Body
    <2>2. CASE HandlersDone(c)
      <3>1. Cardinality(Outstanding) = 0 /\ IsFiniteSet(Outstanding)
        BY <1>i, <2>2, OutstandingFinite DEF HandlersDone, WaitGroupExact
      <3>2. Outstanding = {}
        BY <3>1, FS_EmptySet
      <3> QED
        BY <2>1, <2>2, <3>2
           DEF HandlersDone, Contract!Settle, Outstanding, regVars, dispVars, runVars
    <2>3. CASE HandlersTimeout(c)
      BY <2>1, <2>3
         DEF HandlersTimeout, Contract!Settle, Outstanding, regVars, dispVars, runVars
    <2> QED
      BY <1>9, <2>2, <2>3
  <1>10. CASE /\ UNCHANGED <<regVars, runVars, seen, closing, handlerMu, abandoned>>
              /\ disp \notin {"admit", "spawn"} /\ disp' \notin {"admit", "spawn"}
    BY <1>10, ContractStutter DEF Outstanding, regVars, runVars
  <1>11. CASE UNCHANGED <<regVars, runVars, dispVars, seen, closing, handlerMu, abandoned>>
    BY <1>11, ContractStutter DEF Outstanding, regVars, runVars, dispVars
  <1> QED
    BY <1>1, <1>2, <1>3, <1>4, <1>5, <1>6, <1>7, <1>8, <1>9, <1>10, <1>11
       DEF Next, Environment, Register, Dispatcher, Close, vars, closeVars,
           Contract!Next, Emit, LateDeliver, Terminate, CallerCancels, Quit, Take,
           CallClose, FollowerReturns, Cancel, RemoveSignal, WaitDispatcher,
           CloseReturns

\* The dispatcher, its goroutines and Close keep the contract their comment
\* states, and the unsubscribe function keeps the one of its own comment.
THEOREM DispatchImplementsContract == Spec => ImplementsContract
  BY ContractInit, ContractStep, Invariance, PTL
     DEF Spec, ImplementsContract, Contract!Spec

=============================================================================
