--------------------------- MODULE Inventory_proofs ---------------------------
(***************************************************************************)
(* Enumerations and lookups against Close and a changing world, for any    *)
(* callers, paths, kinds and shapes of objects.                            *)
(***************************************************************************)
EXTENDS Inventory, Errors_proofs, FiniteSetTheorems, FunctionTheorems, WellFoundedInduction

-----------------------------------------------------------------------------
(* What the operators compute.                                             *)

\* A set of numbers has a least one: the references are built in order.
LEMMA LeastExists ==
    ASSUME NEW S, S \subseteq Nat, S # {}
    PROVE  \E p \in S : \A q \in S : p <= q
  <1> DEFINE Less == {pq \in Nat \X Nat : pq[1] < pq[2]}
  <1>1. IsWellFoundedOn(Less, Nat)
    BY NatLessThanWellFounded DEF OpToRel
  <1>2. PICK p \in S : \A q \in S : <<q, p>> \notin Less
    <2> HIDE DEF Less
    <2> QED
      BY <1>1, WFMin
  <1>3. \A q \in S : ~(q < p)
    BY <1>2
  <1> QED
    BY <1>3

LEMMA FirstIsTodo ==
    ASSUME NEW t \in Caller, todo \in [Caller -> SUBSET Path], todo[t] # {}
    PROVE  First(t) \in todo[t]
  <1>1. todo[t] \subseteq Nat
    BY InventoryAssumption
  <1>2. \E p \in todo[t] : \A q \in todo[t] : p <= q
    BY <1>1, LeastExists
  <1> QED
    BY <1>2 DEF First

\* How the calls' failures end for the application.
LEMMA Outcomes ==
    /\ WrapPublic(NewPublic("invalid state", Plain)).public = "invalid state"
    /\ \A category \in {"introspection", "variant"} :
           WrapPublic(WrapUnavailable(FALSE, DBus(category, Plain))).public = "unavailable"
    /\ WrapPublic(WrapUnavailable(TRUE, Plain)).public = "internal error"
    /\ WrapPublic(WrapUnavailable(TRUE, DBus("introspection", Plain))).public = "unavailable"
  <1>1. None \notin CoreKind /\ None \notin PublicKind
    BY InventoryAssumption DEF CoreKind
  <1>2. Plain \in Error /\ Plain.public = None /\ Plain.is \cap Category = {}
    BY DEF Plain, Error
  <1>3. {"introspection", "variant"} \subseteq Category \ {"property"}
    BY DEF Category
  <1>4. NewPublic("invalid state", Plain).public = "invalid state"
    BY <1>2, PublicIs DEF PublicKind
  <1>5. WrapPublic(NewPublic("invalid state", Plain)) = NewPublic("invalid state", Plain)
    BY <1>1, <1>4 DEF WrapPublic, PublicKind
  <1> QED
    BY <1>1, <1>2, <1>3, <1>4, <1>5, CategorizedIsUnavailable, UncategorizedIsInternal

-----------------------------------------------------------------------------
(* The invariant.                                                          *)

\* How far Close has come, and that no caller is under the lock once it has it.
CloseInv ==
    /\ closed <=> closePC \in {"cleanup", "closed"}
    /\ ~connUp => closed
    /\ closed => readers = {}

\* What a call has seen of the world: its listing, and then what it has built
\* with what it has still to build, was the listing at a moment of the call.
SeenBy(t) ==
    /\ Active(t) => outcome[t] = "none"
    /\ pc[t] = "name" => ~call[t].all
    /\ pc[t] \in {"lock", "list"} => built[t] = {}
    /\ Active(t) /\ call[t].all => Listing(world, call[t].kind) \in views[t]
    /\ pc[t] = "build" /\ call[t].all => todo[t] \cup built[t] \in views[t]
    /\ outcome[t] = "ok" /\ call[t].all => built[t] \in views[t]

SeenInv == \A t \in Caller : SeenBy(t)

\* A call begun on a closed client gets no further than the check.
LateInv ==
    \A t \in Caller :
        /\ t \in late => closed /\ pc[t] \in {"idle", "lock"}
        /\ t \in late /\ pc[t] = "idle" => outcome[t] = "invalid state"
        /\ outcome[t] = "invalid state" => closed

IInv == TypeOK /\ CloseInv /\ SeenInv /\ LateInv

LEMMA InitInv == Init => IInv
  <1> SUFFICES ASSUME Init PROVE IInv
    OBVIOUS
  <1>1. TypeOK
    BY InventoryAssumption DEF Init, TypeOK
  <1>2. CloseInv /\ SeenInv /\ LateInv
    BY DEF Init, CloseInv, SeenInv, SeenBy, LateInv, Active
  <1> QED
    BY <1>1, <1>2 DEF IInv

\* A handle built is one path more; counting them stays within the numbers.
LEMMA BuiltCount ==
    ASSUME TypeOK, NEW t \in Caller
    PROVE  Cardinality(built[t]) \in Nat
  <1>1. built[t] \subseteq Path
    BY DEF TypeOK
  <1> QED
    BY <1>1, InventoryAssumption, FS_Subset, FS_CardinalityType

\* The count of passed handles stays a number.
LEMMA SumIsNat ==
    ASSUME NEW m \in Nat, NEW n \in Nat
    PROVE  m + n \in Nat
  OBVIOUS

\* The state after a call has failed.
LEMMA FailsStep ==
    ASSUME IInv, NEW t \in Caller, NEW err, Fails(t, err),
           NEW kind \in PublicKind, WrapPublic(err).public = kind,
           pc[t] \in {"lock", "list", "build"},
           kind = "invalid state" <=> (closed /\ pc[t] = "lock"),
           links' = links
    PROVE  IInv'
  <1>1. Cardinality(built[t]) \in Nat
    BY BuiltCount DEF IInv
  <1>2. outcome' = [outcome EXCEPT ![t] = kind]
    BY DEF Fails
  <1>3. /\ pc' = [pc EXCEPT ![t] = "idle"] /\ readers' = readers \ {t}
        /\ passed' = passed + Cardinality(built[t])
        /\ todo' = [todo EXCEPT ![t] = {}] /\ built' = [built EXCEPT ![t] = {}]
        /\ views' = [views EXCEPT ![t] = {}]
        /\ UNCHANGED <<world, connUp, closed, closePC, call, late>>
    BY DEF Fails
  <1>4. kind \notin {"none", "ok"}
    BY DEF PublicKind
  <1>5. TypeOK'
    <2>1. outcome' \in [Caller -> {"none", "ok"} \cup PublicKind]
      BY <1>2 DEF IInv, TypeOK
    <2>4. passed \in Nat /\ passed' = passed + Cardinality(built[t])
      BY <1>3 DEF IInv, TypeOK
    <2>6. passed' \in Nat
      BY <1>1, <2>4, SumIsNat
    <2>2. \A u \in Caller : u \in readers' <=> pc'[u] \in {"list", "build"}
      BY <1>3 DEF IInv, TypeOK
    <2>3. /\ readers' \subseteq Caller
          /\ pc' \in [Caller -> {"idle", "lock", "list", "build", "name"}]
          /\ todo' \in [Caller -> SUBSET Path] /\ built' \in [Caller -> SUBSET Path]
          /\ views' \in [Caller -> SUBSET SUBSET Path]
      BY <1>3 DEF IInv, TypeOK
    <2> QED
      BY <1>3, <2>1, <2>2, <2>3, <2>6 DEF IInv, TypeOK
  <1>6. CloseInv'
    BY <1>3 DEF IInv, CloseInv
  <1>7. SeenInv'
    <2>1. pc'[t] = "idle" /\ outcome'[t] = kind /\ built'[t] = {}
      BY <1>2, <1>3 DEF IInv, TypeOK
    <2>2. \A u \in Caller \ {t} :
              /\ pc'[u] = pc[u] /\ outcome'[u] = outcome[u] /\ built'[u] = built[u]
              /\ todo'[u] = todo[u] /\ views'[u] = views[u]
      BY <1>2, <1>3 DEF IInv, TypeOK
    <2>3. SeenBy(t)'
      BY <1>4, <2>1 DEF SeenBy, Active
    <2>4. ASSUME NEW u \in Caller \ {t} PROVE SeenBy(u)'
      <3>1. SeenBy(u) /\ world' = world /\ call' = call
        BY <1>3 DEF IInv, SeenInv
      <3> QED
        BY <3>1, <2>2 DEF SeenBy, Active, Listing
    <2> QED
      BY <2>3, <2>4 DEF SeenInv
  <1>8. LateInv'
    BY <1>2, <1>3 DEF IInv, TypeOK, LateInv, CloseInv
  <1> QED
    BY <1>5, <1>6, <1>7, <1>8 DEF IInv

LEMMA ListingType ==
    ASSUME NEW w, NEW k
    PROVE  Listing(w, k) \subseteq Path
  BY DEF Listing

LEMMA WorldStep ==
    ASSUME IInv, NEW p \in Path, NEW shape \in Shape, WorldChanges(p, shape)
    PROVE  IInv'
  <1>1. TypeOK'
    BY ListingType DEF WorldChanges, IInv, TypeOK, closeVars, callVars, linkVars
  <1>2. CloseInv'
    BY DEF WorldChanges, IInv, CloseInv, closeVars
  <1>3. SeenInv'
    BY DEF WorldChanges, IInv, TypeOK, SeenInv, SeenBy, Active, closeVars, callVars
  <1>4. LateInv'
    BY DEF WorldChanges, IInv, LateInv, closeVars, callVars
  <1> QED
    BY <1>1, <1>2, <1>3, <1>4 DEF IInv

LEMMA BeginsStep ==
    ASSUME IInv, NEW t \in Caller, NEW k \in Kind, NEW all \in BOOLEAN,
           NEW refs \in SUBSET Path, Begins(t, k, all, refs)
    PROVE  IInv'
  <1>1. TypeOK'
    BY ListingType DEF Begins, IInv, TypeOK, closeVars, linkVars
  <1>2. CloseInv'
    BY DEF Begins, IInv, CloseInv, closeVars
  <1>3. SeenInv'
    BY DEF Begins, IInv, TypeOK, SeenInv, SeenBy, Active, closeVars, Listing
  <1>4. LateInv'
    BY DEF Begins, IInv, TypeOK, LateInv, closeVars
  <1> QED
    BY <1>1, <1>2, <1>3, <1>4 DEF IInv

LEMMA EnterStep ==
    ASSUME IInv, NEW t \in Caller, Enter(t)
    PROVE  IInv'
  <1>1. CASE closed
    <2>1. Fails(t, NewPublic("invalid state", Plain)) /\ links' = links
      BY <1>1 DEF Enter
    <2> QED
      BY <1>1, <2>1, Outcomes, FailsStep DEF Enter, PublicKind
  <1>2. CASE ~closed
    <2> USE <1>2 DEF Enter
    <2>1. TypeOK'
      BY DEF IInv, TypeOK, linkVars, history
    <2>2. CloseInv'
      BY DEF IInv, CloseInv
    <2>3. SeenInv'
      <3>1. /\ pc' = [pc EXCEPT ![t] = IF call[t].all THEN "list" ELSE "build"]
            /\ pc[t] = "lock" /\ UNCHANGED <<world, call, todo, built, outcome, views>>
        BY DEF history
      <3>2. pc'[t] = IF call[t].all THEN "list" ELSE "build"
        BY <3>1 DEF IInv, TypeOK
      <3>3. SeenBy(t)'
        <4>1. /\ outcome[t] = "none" /\ built[t] = {}
              /\ (call[t].all => Listing(world, call[t].kind) \in views[t])
          BY <3>1 DEF IInv, SeenInv, SeenBy, Active
        <4>2. pc'[t] \in {"list", "build"} /\ (pc'[t] = "build" => ~call[t].all)
          BY <3>2
        <4> QED
          BY <3>1, <4>1, <4>2 DEF SeenBy, Active, Listing
      <3>4. ASSUME NEW u \in Caller \ {t} PROVE SeenBy(u)'
        <4>1. SeenBy(u) /\ pc'[u] = pc[u]
          BY <3>1 DEF IInv, TypeOK, SeenInv
        <4> QED
          BY <4>1, <3>1 DEF SeenBy, Active, Listing
      <3> QED
        BY <3>3, <3>4 DEF SeenInv
    <2>4. LateInv'
      BY DEF IInv, TypeOK, LateInv, history
    <2> QED
      BY <2>1, <2>2, <2>3, <2>4 DEF IInv
  <1> QED
    BY <1>1, <1>2

LEMMA ListStep ==
    ASSUME IInv, NEW t \in Caller, List(t)
    PROVE  IInv'
  <1>1. TypeOK'
    BY ListingType DEF List, IInv, TypeOK, closeVars, linkVars, history
  <1>2. CloseInv'
    BY DEF List, IInv, CloseInv, closeVars
  <1>3. SeenInv'
    <2>1. /\ pc[t] = "list" /\ pc' = [pc EXCEPT ![t] = "build"]
          /\ todo' = [todo EXCEPT ![t] = Listing(world, call[t].kind)]
          /\ UNCHANGED <<world, call, built, outcome, views>>
      BY DEF List, history
    <2>2. todo'[t] = Listing(world, call[t].kind) /\ pc'[t] = "build"
      BY <2>1 DEF IInv, TypeOK
    <2>3. \A u \in Caller \ {t} : todo'[u] = todo[u] /\ pc'[u] = pc[u]
      BY <2>1 DEF IInv, TypeOK
    <2>4. built[t] = {} /\ outcome[t] = "none"
          /\ (call[t].all => Listing(world, call[t].kind) \in views[t])
      BY <2>1 DEF IInv, SeenInv, SeenBy, Active
    <2>5. call[t].all => todo'[t] \cup built'[t] \in views'[t]
      BY <2>1, <2>2, <2>4
    <2>6. SeenBy(t)'
      BY <2>1, <2>2, <2>4, <2>5 DEF SeenBy, Active, Listing
    <2>7. ASSUME NEW u \in Caller \ {t} PROVE SeenBy(u)'
      <3>1. SeenBy(u)
        BY DEF IInv, SeenInv
      <3> QED
        BY <3>1, <2>1, <2>3 DEF SeenBy, Active, Listing
    <2> QED
      BY <2>6, <2>7 DEF SeenInv
  <1>4. LateInv'
    BY DEF List, IInv, TypeOK, LateInv, history, closeVars
  <1> QED
    BY <1>1, <1>2, <1>3, <1>4 DEF IInv

LEMMA BuildStep ==
    ASSUME IInv, NEW t \in Caller, Build(t)
    PROVE  IInv'
  <1>1. First(t) \in todo[t] /\ First(t) \in Path
    BY FirstIsTodo DEF Build, Building, IInv, TypeOK
  <1> DEFINE p == First(t)
  <1>2. /\ built' = [built EXCEPT ![t] = @ \cup {p}] /\ todo' = [todo EXCEPT ![t] = @ \ {p}]
        /\ links' = links + 1 /\ pc[t] = "build"
        /\ UNCHANGED <<world, closeVars, pc, call, outcome, passed, history>>
    BY DEF Build, Building
  <1> HIDE DEF p
  <1>3. TypeOK'
    BY <1>1, <1>2 DEF p, IInv, TypeOK, closeVars, history
  <1>4. CloseInv'
    BY <1>2 DEF IInv, CloseInv, closeVars
  <1>5. SeenInv'
    <2>1. todo'[t] \cup built'[t] = todo[t] \cup built[t]
      BY <1>1, <1>2 DEF p, IInv, TypeOK
    <2>2. \A u \in Caller \ {t} : todo'[u] = todo[u] /\ built'[u] = built[u]
      BY <1>2 DEF IInv, TypeOK
    <2> QED
      BY <1>2, <2>1, <2>2 DEF IInv, SeenInv, SeenBy, Active, history, closeVars, Listing
  <1>6. LateInv'
    BY <1>2 DEF IInv, LateInv, history, closeVars
  <1> QED
    BY <1>3, <1>4, <1>5, <1>6 DEF IInv

LEMMA ReturnStep ==
    ASSUME IInv, NEW t \in Caller, Return(t) \/ NameDone(t)
    PROVE  IInv'
  <1>1. Cardinality(built[t]) \in Nat
    BY BuiltCount DEF IInv
  <1>2. /\ pc[t] \in {"build", "name"} /\ readers' = readers \ {t}
        /\ UNCHANGED <<world, connUp, closed, closePC, call, todo, built, links, history>>
    BY DEF Return, NameDone, closeVars, IInv, TypeOK
  <1>3. \/ /\ pc' = [pc EXCEPT ![t] = "idle"] /\ outcome' = [outcome EXCEPT ![t] = "ok"]
           /\ passed' = passed + Cardinality(built[t])
        \/ /\ pc' = [pc EXCEPT ![t] = "name"] /\ UNCHANGED <<outcome, passed>>
           /\ ~call[t].all
    BY DEF Return, NameDone
  <1>4. TypeOK'
    <2>1. passed' \in Nat
      BY <1>1, <1>3, SumIsNat DEF IInv, TypeOK
    <2>2. /\ pc' \in [Caller -> {"idle", "lock", "list", "build", "name"}]
          /\ outcome' \in [Caller -> {"none", "ok"} \cup PublicKind]
          /\ pc'[t] \in {"idle", "name"} /\ \A u \in Caller \ {t} : pc'[u] = pc[u]
      BY <1>3 DEF IInv, TypeOK
    <2>3. \A u \in Caller : u \in readers' <=> pc'[u] \in {"list", "build"}
      BY <1>2, <2>2 DEF IInv, TypeOK
    <2> QED
      BY <1>2, <2>1, <2>2, <2>3 DEF IInv, TypeOK, history
  <1>5. CloseInv'
    BY <1>2 DEF IInv, CloseInv
  <1>6. SeenInv'
    <2>1. call[t].all => built[t] \in views[t]
      <3>1. CASE pc[t] = "build" /\ todo[t] = {}
        BY <3>1 DEF IInv, SeenInv, SeenBy, TypeOK
      <3>2. CASE pc[t] = "name"
        BY <3>2 DEF IInv, SeenInv, SeenBy
      <3> QED
        BY <3>1, <3>2 DEF Return, NameDone
    <2>2. pc'[t] \in {"idle", "name"} /\ outcome'[t] \in {"ok", outcome[t]}
          /\ (pc'[t] = "name" => outcome'[t] = outcome[t] /\ ~call[t].all)
      BY <1>3 DEF IInv, TypeOK
    <2>3. \A u \in Caller \ {t} : pc'[u] = pc[u] /\ outcome'[u] = outcome[u]
      BY <1>3 DEF IInv, TypeOK
    <2>4. outcome[t] = "none"
      BY <1>2 DEF IInv, SeenInv, SeenBy, Active
    <2>5. todo' = todo /\ built' = built /\ call' = call /\ world' = world /\ views' = views
      BY <1>2 DEF history
    <2> QED
      BY <2>1, <2>2, <2>3, <2>4, <2>5 DEF IInv, SeenInv, SeenBy, Active, Listing
  <1>7. LateInv'
    BY <1>2, <1>3 DEF IInv, TypeOK, LateInv, history
  <1> QED
    BY <1>4, <1>5, <1>6, <1>7 DEF IInv

LEMMA CloseStep ==
    ASSUME IInv, CallClose \/ CloseLocks \/ Cleanup
    PROVE  IInv'
  <1>1. TypeOK'
    BY DEF CallClose, CloseLocks, Cleanup, IInv, TypeOK, callVars, linkVars, history
  <1>2. CloseInv'
    BY DEF CallClose, CloseLocks, Cleanup, IInv, TypeOK, CloseInv
  <1>3. SeenInv'
    BY DEF CallClose, CloseLocks, Cleanup, IInv, SeenInv, SeenBy, Active, callVars, history, Listing
  <1>4. LateInv'
    BY DEF CallClose, CloseLocks, Cleanup, IInv, TypeOK, LateInv, callVars, history
  <1> QED
    BY <1>1, <1>2, <1>3, <1>4 DEF IInv

LEMMA StepsKeep ==
    ASSUME IInv, NEW t \in Caller, Steps(t)
    PROVE  IInv'
  <1>1. CASE ListFails(t)
    <2>1. PICK category \in {"introspection", "variant"} :
              Fails(t, WrapUnavailable(FALSE, DBus(category, Plain)))
      BY <1>1 DEF ListFails
    <2>2. pc[t] = "list" /\ links' = links
      BY <1>1 DEF ListFails
    <2> QED
      BY <2>1, <2>2, Outcomes, FailsStep DEF PublicKind
  <1>2. CASE BuildMissing(t)
    <2>1. Fails(t, WrapUnavailable(TRUE, Plain)) /\ pc[t] = "build" /\ links' = links
      BY <1>2 DEF BuildMissing, Building
    <2> QED
      BY <2>1, Outcomes, FailsStep DEF PublicKind
  <1>3. CASE BuildFails(t)
    <2>1. Fails(t, WrapUnavailable(TRUE, DBus("introspection", Plain))) /\ pc[t] = "build"
          /\ links' = links
      BY <1>3 DEF BuildFails, Building
    <2> QED
      BY <2>1, Outcomes, FailsStep DEF PublicKind
  <1> QED
    BY <1>1, <1>2, <1>3, EnterStep, ListStep, BuildStep, ReturnStep DEF Steps

LEMMA NextKeeps == IInv /\ [Next]_vars => IInv'
  <1> SUFFICES ASSUME IInv, [Next]_vars PROVE IInv'
    OBVIOUS
  <1>1. CASE \E p \in Path, shape \in Shape : WorldChanges(p, shape)
    BY <1>1, WorldStep
  <1>2. CASE \E t \in Caller, k \in Kind : CallAll(t, k) \/ \E p \in Path : CallOne(t, k, p)
    <2>1. PICK t \in Caller, k \in Kind : CallAll(t, k) \/ \E p \in Path : CallOne(t, k, p)
      BY <1>2
    <2>2. CASE CallAll(t, k)
      <3>1. Begins(t, k, TRUE, {}) /\ {} \in SUBSET Path /\ TRUE \in BOOLEAN
        BY <2>2 DEF CallAll
      <3> QED
        BY <3>1, BeginsStep
    <2>3. CASE \E p \in Path : CallOne(t, k, p)
      BY <2>3, BeginsStep DEF CallOne
    <2> QED
      BY <2>1, <2>2, <2>3
  <1>3. CASE \E t \in Caller : Steps(t)
    BY <1>3, StepsKeep
  <1>4. CASE CallClose \/ CloseLocks \/ Cleanup
    BY <1>4, CloseStep
  <1>5. CASE UNCHANGED vars
    BY <1>5 DEF vars, closeVars, callVars, linkVars, history, IInv, TypeOK, CloseInv,
                SeenInv, SeenBy, LateInv, Active, Listing
  <1> QED
    BY <1>1, <1>2, <1>3, <1>4, <1>5 DEF Next

LEMMA Invariant == Spec => []IInv
  BY InitInv, NextKeeps, PTL DEF Spec

-----------------------------------------------------------------------------
(* Counting the channels.                                                  *)

\* The handles of one call are as many as the objects it has built one for.
LEMMA OfOneCall ==
    ASSUME NEW t, NEW B, IsFiniteSet(B)
    PROVE  IsFiniteSet({t} \X B) /\ Cardinality({t} \X B) = Cardinality(B)
  <1> DEFINE f == [p \in B |-> <<t, p>>]
  <1>1. f \in Bijection(B, {t} \X B)
    <2>1. f \in [B -> {t} \X B]
      OBVIOUS
    <2>2. \A p, q \in B : f[p] = f[q] => p = q
      OBVIOUS
    <2>3. \A tp \in {t} \X B : \E p \in B : f[p] = tp
      OBVIOUS
    <2> HIDE DEF f
    <2> QED
      BY <2>1, <2>2, <2>3, Fun_IsBij
  <1>2. ExistsBijection(B, {t} \X B)
    BY <1>1 DEF ExistsBijection
  <1> QED
    BY <1>2, FS_Bijection

\* What has been built is not built again, and every channel is accounted for.
CountInv ==
    /\ \A t \in Caller : pc[t] = "build" => todo[t] \cap built[t] = {}
    /\ IsFiniteSet(Pending) /\ ChannelsAccounted

\* Holding on to nothing more and nothing less.
LEMMA SamePending ==
    ASSUME TypeOK, CountInv, UNCHANGED <<links, passed>>,
           \A t \in Caller :
               \/ built'[t] = built[t] /\ (pc'[t] \in {"build", "name"} <=> pc[t] \in {"build", "name"})
               \/ built'[t] = {} /\ (built[t] = {} \/ pc[t] \notin {"build", "name"})
    PROVE  IsFiniteSet(Pending)' /\ ChannelsAccounted'
  <1>1. \A t \in Caller :
            (pc'[t] \in {"build", "name"} /\ built'[t] # {}) =>
                pc[t] \in {"build", "name"} /\ built'[t] = built[t]
    OBVIOUS
  <1>2. \A t \in Caller :
            (pc[t] \in {"build", "name"} /\ built[t] # {}) =>
                pc'[t] \in {"build", "name"} /\ built'[t] = built[t]
    OBVIOUS
  <1>3. Pending' = Pending
    BY <1>1, <1>2 DEF Pending
  <1> QED
    BY <1>3 DEF CountInv, ChannelsAccounted

\* A call ends: what it held passes on.
LEMMA PassedOn ==
    ASSUME TypeOK, SeenInv, CountInv, NEW t \in Caller, pc[t] # "idle",
           pc' = [pc EXCEPT ![t] = "idle"],
           built' \in {built, [built EXCEPT ![t] = {}]},
           passed' = passed + Cardinality(built[t]), links' = links
    PROVE  IsFiniteSet(Pending)' /\ ChannelsAccounted'
  <1> DEFINE own == {t} \X built[t]
  <1>1. IsFiniteSet(built[t])
    <2>1. built[t] \subseteq Path
      BY DEF TypeOK
    <2> QED
      BY <2>1, InventoryAssumption, FS_Subset
  <1>2. IsFiniteSet(own) /\ Cardinality(own) = Cardinality(built[t])
    BY <1>1, OfOneCall
  <1>3. \A u \in Caller : /\ pc'[u] = IF u = t THEN "idle" ELSE pc[u]
                          /\ u # t => built'[u] = built[u]
    BY DEF TypeOK
  <1>4. Pending' = Pending \ own
    <2>1. Pending' = UNION {{u} \X built[u] : u \in {v \in Caller \ {t} : pc[v] \in {"build", "name"}}}
      BY <1>3 DEF Pending
    <2> QED
      BY <2>1 DEF Pending
  <1>5. own \subseteq Pending
    <2>1. pc[t] \in {"build", "name"} \/ built[t] = {}
      BY DEF SeenInv, SeenBy, TypeOK
    <2> QED
      BY <2>1 DEF Pending
  <1> HIDE DEF own
  <1>6. IsFiniteSet(Pending \ own) /\ Cardinality(Pending \ own) = Cardinality(Pending) - Cardinality(own)
    <2>1. Pending \cap own = own
      BY <1>5
    <2> QED
      BY <2>1, FS_Difference DEF CountInv
  <1>7. Cardinality(Pending) \in Nat /\ Cardinality(own) \in Nat /\ passed \in Nat
    BY <1>2, FS_CardinalityType DEF CountInv, TypeOK
  <1>8. links' = passed' + Cardinality(Pending \ own)
    <2>1. links = passed + Cardinality(Pending) /\ passed' = passed + Cardinality(own)
      BY <1>2 DEF CountInv, ChannelsAccounted
    <2> QED
      BY <1>6, <1>7, <2>1
  <1>9. Cardinality(Pending)' = Cardinality(Pending \ own) /\ IsFiniteSet(Pending)'
    BY <1>4, <1>6
  <1> QED
    BY <1>8, <1>9 DEF ChannelsAccounted

LEMMA BuildCounts ==
    ASSUME IInv, CountInv, NEW t \in Caller, Build(t)
    PROVE  IsFiniteSet(Pending)' /\ ChannelsAccounted'
  <1> DEFINE p == First(t)
  <1>1. p \in todo[t] /\ pc[t] = "build" /\ pc' = pc
        /\ built' = [built EXCEPT ![t] = @ \cup {p}] /\ links' = links + 1 /\ passed' = passed
    BY FirstIsTodo DEF Build, Building, IInv, TypeOK
  <1> HIDE DEF p
  <1>2. <<t, p>> \notin Pending
    <2>1. p \notin built[t]
      BY <1>1 DEF CountInv
    <2> QED
      BY <2>1 DEF Pending
  <1>3. \A u \in Caller : built'[u] = IF u = t THEN built[t] \cup {p} ELSE built[u]
    BY <1>1 DEF IInv, TypeOK
  <1>4. Pending' = Pending \cup {<<t, p>>}
    BY <1>1, <1>3 DEF Pending
  <1>5. IsFiniteSet(Pending \cup {<<t, p>>})
        /\ Cardinality(Pending \cup {<<t, p>>}) = Cardinality(Pending) + 1
    BY <1>2, FS_AddElement DEF CountInv
  <1>6. Cardinality(Pending) \in Nat /\ passed \in Nat
    BY FS_CardinalityType DEF CountInv, IInv, TypeOK
  <1>7. links' = passed' + (Cardinality(Pending) + 1)
    <2>1. links = passed + Cardinality(Pending)
      BY DEF CountInv, ChannelsAccounted
    <2> QED
      BY <1>1, <1>6, <2>1
  <1>8. Cardinality(Pending)' = Cardinality(Pending) + 1 /\ IsFiniteSet(Pending)'
    BY <1>4, <1>5
  <1> QED
    BY <1>7, <1>8 DEF ChannelsAccounted

LEMMA InitCounts == Init => CountInv
  <1> SUFFICES ASSUME Init PROVE CountInv
    OBVIOUS
  <1>1. Pending = {}
    BY DEF Init, Pending
  <1>2. Cardinality(Pending) = 0 /\ IsFiniteSet(Pending)
    BY <1>1, FS_EmptySet
  <1> QED
    BY <1>2 DEF Init, CountInv, ChannelsAccounted

LEMMA NextCounts == IInv /\ CountInv /\ [Next]_vars => CountInv'
  <1> SUFFICES ASSUME IInv, CountInv, [Next]_vars PROVE CountInv'
    OBVIOUS
  <1> USE DEF IInv
  <1> DEFINE Apart == \A t \in Caller : pc[t] = "build" => todo[t] \cap built[t] = {}
             Counted == IsFiniteSet(Pending) /\ ChannelsAccounted
  <1>1. CASE \E p \in Path, shape \in Shape : WorldChanges(p, shape)
    <2>1. UNCHANGED <<pc, todo, built, links, passed>>
      BY <1>1 DEF WorldChanges, callVars, linkVars
    <2> QED
      BY <2>1, SamePending DEF CountInv
  <1>2. ASSUME NEW t \in Caller, NEW k \in Kind, NEW all, NEW refs, Begins(t, k, all, refs)
        PROVE  CountInv'
    <2>1. /\ pc[t] = "idle" /\ pc' = [pc EXCEPT ![t] = "lock"]
          /\ todo' = [todo EXCEPT ![t] = refs] /\ built' = [built EXCEPT ![t] = {}]
          /\ UNCHANGED <<links, passed>>
      BY <1>2 DEF Begins, linkVars
    <2>2. Apart'
      BY <2>1 DEF TypeOK, CountInv
    <2>3. Counted'
      BY <2>1, SamePending DEF TypeOK
    <2> QED
      BY <2>2, <2>3 DEF CountInv
  <1>3. ASSUME NEW t \in Caller, NEW err, Fails(t, err), links' = links, pc[t] # "idle"
        PROVE  CountInv'
    <2>1. /\ pc' = [pc EXCEPT ![t] = "idle"] /\ built' = [built EXCEPT ![t] = {}]
          /\ todo' = [todo EXCEPT ![t] = {}] /\ passed' = passed + Cardinality(built[t])
      BY <1>3 DEF Fails
    <2>2. Apart'
      BY <2>1 DEF TypeOK, CountInv
    <2>3. Counted'
      BY <1>3, <2>1, PassedOn
    <2> QED
      BY <2>2, <2>3 DEF CountInv
  <1>4. ASSUME NEW t \in Caller, Steps(t)
        PROVE  CountInv'
    <2>1. CASE Enter(t) /\ closed
      BY <1>3, <2>1 DEF Enter
    <2>2. CASE Enter(t) /\ ~closed
      <3>1. /\ pc[t] = "lock" /\ pc' = [pc EXCEPT ![t] = IF call[t].all THEN "list" ELSE "build"]
            /\ UNCHANGED <<todo, built, links, passed>>
        BY <2>2 DEF Enter, linkVars
      <3>2. built[t] = {} /\ \A u \in Caller \ {t} : pc'[u] = pc[u]
        BY <3>1 DEF SeenInv, SeenBy, TypeOK
      <3>3. Apart'
        BY <3>1, <3>2 DEF CountInv
      <3>4. Counted'
        BY <3>1, <3>2, SamePending
      <3> QED
        BY <3>3, <3>4 DEF CountInv
    <2>3. CASE List(t)
      <3>1. /\ pc[t] = "list" /\ pc' = [pc EXCEPT ![t] = "build"]
            /\ todo' = [todo EXCEPT ![t] = Listing(world, call[t].kind)]
            /\ UNCHANGED <<built, links, passed>>
        BY <2>3 DEF List, linkVars
      <3>2. built[t] = {} /\ \A u \in Caller \ {t} : pc'[u] = pc[u] /\ todo'[u] = todo[u]
        BY <3>1 DEF SeenInv, SeenBy, TypeOK
      <3>3. Apart'
        BY <3>1, <3>2 DEF CountInv
      <3>4. Counted'
        BY <3>1, <3>2, SamePending
      <3> QED
        BY <3>3, <3>4 DEF CountInv
    <2>4. CASE ListFails(t)
      <3>1. PICK category : Fails(t, WrapUnavailable(FALSE, DBus(category, Plain)))
        BY <2>4 DEF ListFails
      <3> QED
        BY <1>3, <2>4, <3>1 DEF ListFails
    <2>5. CASE Build(t)
      <3>1. /\ pc' = pc /\ todo' = [todo EXCEPT ![t] = @ \ {First(t)}]
            /\ built' = [built EXCEPT ![t] = @ \cup {First(t)}]
        BY <2>5 DEF Build
      <3>2. Apart'
        BY <3>1 DEF TypeOK, CountInv
      <3> QED
        BY <2>5, <3>2, BuildCounts DEF CountInv
    <2>6. CASE BuildMissing(t)
      BY <1>3, <2>6 DEF BuildMissing, Building
    <2>7. CASE BuildFails(t)
      BY <1>3, <2>7 DEF BuildFails, Building
    <2>8. CASE Return(t) \/ NameDone(t)
      <3>1. pc[t] \in {"build", "name"} /\ UNCHANGED <<todo, built, links>>
        BY <2>8 DEF Return, NameDone
      <3>2. \/ pc' = [pc EXCEPT ![t] = "name"] /\ passed' = passed
            \/ pc' = [pc EXCEPT ![t] = "idle"] /\ passed' = passed + Cardinality(built[t])
        BY <2>8 DEF Return, NameDone
      <3>3. \A u \in Caller : pc'[u] = "build" => pc[u] = "build"
        BY <3>2 DEF TypeOK
      <3>4. Apart'
        BY <3>1, <3>3 DEF CountInv
      <3>5. CASE pc' = [pc EXCEPT ![t] = "name"] /\ passed' = passed
        <4>1. \A u \in Caller : pc'[u] \in {"build", "name"} <=> pc[u] \in {"build", "name"}
          BY <3>1, <3>5 DEF TypeOK
        <4> QED
          BY <3>1, <3>4, <3>5, <4>1, SamePending DEF CountInv
      <3>6. CASE pc' = [pc EXCEPT ![t] = "idle"] /\ passed' = passed + Cardinality(built[t])
        BY <3>1, <3>4, <3>6, PassedOn DEF CountInv
      <3> QED
        BY <3>2, <3>5, <3>6
    <2> QED
      BY <1>4, <2>1, <2>2, <2>3, <2>4, <2>5, <2>6, <2>7, <2>8 DEF Steps
  <1>5. CASE CallClose \/ CloseLocks \/ Cleanup \/ UNCHANGED vars
    <2>1. UNCHANGED <<pc, todo, built, links, passed>>
      BY <1>5 DEF CallClose, CloseLocks, Cleanup, vars, callVars, linkVars
    <2> QED
      BY <2>1, SamePending DEF CountInv
  <1> QED
    BY <1>1, <1>2, <1>4, <1>5 DEF Next, CallAll, CallOne

LEMMA CountInvariant == Spec => []CountInv
  BY Invariant, InitCounts, NextCounts, PTL DEF Spec

\* Each signal channel of a handle's object belongs to a handle that was passed on
\* or that a call is still building, whatever fails on the way.
THEOREM ChannelsBelong == Spec => []ChannelsAccounted
  <1>1. CountInv => ChannelsAccounted
    BY DEF CountInv
  <1> QED
    BY <1>1, CountInvariant, PTL

-----------------------------------------------------------------------------
\* Every reachable state is well typed, whatever the callers and objects.
THEOREM TypeCorrect == Spec => []TypeOK
  <1>1. IInv => TypeOK
    BY DEF IInv
  <1> QED
    BY <1>1, Invariant, PTL

\* An enumeration that succeeds returns what was complete at one moment.
THEOREM Snapshot == Spec => []EnumerationIsSnapshot
  <1>1. IInv => EnumerationIsSnapshot
    BY DEF IInv, SeenInv, SeenBy, EnumerationIsSnapshot
  <1> QED
    BY <1>1, Invariant, PTL

\* Close does not end the connection under a call that holds the lock.
THEOREM ConnectionOutlives == Spec => []ConnOutlivesCalls
  <1>1. IInv => ConnOutlivesCalls
    BY DEF IInv, CloseInv, ConnOutlivesCalls
  <1> QED
    BY <1>1, Invariant, PTL

\* A call begun on a closed client is refused, and no other before Close.
THEOREM ClosedRefuses == Spec => []ClosedIsInvalid
  <1>1. IInv => ClosedIsInvalid
    BY DEF IInv, LateInv, ClosedIsInvalid
  <1> QED
    BY <1>1, Invariant, PTL

=============================================================================
