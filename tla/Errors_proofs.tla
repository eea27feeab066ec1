---------------------------- MODULE Errors_proofs ----------------------------
(***************************************************************************)
(* What a caller can rely on when it looks at an error, whatever iwd       *)
(* answered and however many layers the error went through.                *)
(***************************************************************************)
EXTENDS Errors, TLAPS

Sentinel == IwdName \cup Category \cup PublicKind \cup {"core", "spiderw"}
CoreKind == PublicKind \cup {"operation failed"}
Error == [reply : IwdName \cup {None}, is : SUBSET Sentinel,
          core : CoreKind \cup {None}, public : PublicKind \cup {None}]

\* Wrapping an error adds to what can be asked of it and takes nothing away.
LEMMA WrapAdds ==
    ASSUME NEW e \in Error, NEW category \in Category, NEW kind \in CoreKind,
           NEW public \in PublicKind
    PROVE  /\ DBus(category, e) \in Error
           /\ DBus(category, e).is = e.is \cup {category}
           /\ DBus(category, e).public = e.public
           /\ Core(kind, e) \in Error
           /\ Core(kind, e).is = e.is \cup {"core"}
           /\ Core(kind, e).core = kind
           /\ Core(kind, e).public = e.public
           /\ NewPublic(public, e) \in Error
           /\ NewPublic(public, e).is = e.is \cup {"spiderw", public}
           /\ NewPublic(public, e).public = public
  <1>1. public \in Sentinel /\ category \in Sentinel /\ {"core", "spiderw"} \subseteq Sentinel
    BY DEF Sentinel
  <1>2. e.is \subseteq Sentinel
    BY DEF Error
  <1> QED
    BY <1>1, <1>2 DEF DBus, Core, NewPublic, Error

\* A public error is of the kind it was made of, and can be told by its sentinel.
LEMMA PublicIs ==
    ASSUME NEW e \in Error, NEW kind \in PublicKind
    PROVE  NewPublic(kind, e).public = kind /\ kind \in NewPublic(kind, e).is
  <1>1. "connection" \in Category /\ kind \in CoreKind
    BY DEF Category, CoreKind
  <1> QED
    BY <1>1, WrapAdds

\* An error is wrapped once for the public, by whichever entry point is first:
\* wrapPublicError gives every error a public kind, and leaves its own result
\* alone.
THEOREM WrapPublicOnce ==
    ASSUME NEW e \in Error, None \notin PublicKind
    PROVE  /\ WrapPublic(e).public \in PublicKind
           /\ WrapPublic(WrapPublic(e)) = WrapPublic(e)
  <1>1. Public(e.core) \in PublicKind /\ "internal error" \in PublicKind
    BY DEF Public, PublicKind
  <1>2. WrapPublic(e).public \in PublicKind
    <2>1. CASE e.public # None
      BY <2>1 DEF WrapPublic, Error
    <2>2. CASE e.public = None
      <3>1. \E kind \in PublicKind : WrapPublic(e) = NewPublic(kind, e)
        BY <1>1, <2>2 DEF WrapPublic
      <3>2. \A kind \in PublicKind : NewPublic(kind, e).public = kind
        BY DEF NewPublic, Error
      <3> QED
        BY <3>1, <3>2
    <2> QED
      BY <2>1, <2>2
  <1> QED
    BY <1>2 DEF WrapPublic

\* Every failure the D-Bus layer gave a category reaches the public as
\* unavailable, except a property access below a policy that reads none.
THEOREM CategorizedIsUnavailable ==
    ASSUME NEW e \in Error, NEW category \in Category, NEW properties \in BOOLEAN,
           properties \/ category # "property",
           e.public = None, None \notin CoreKind
    PROVE  LET err == WrapPublic(WrapUnavailable(properties, DBus(category, e))) IN
           err.public = "unavailable" /\ "unavailable" \in err.is
  <1> DEFINE d == DBus(category, e)
             c == WrapUnavailable(properties, d)
  <1>1. "unavailable" \in PublicKind /\ "unavailable" \in CoreKind
    BY DEF PublicKind, CoreKind
  <1>2. d \in Error /\ d.public = None /\ category \in d.is
    BY <1>1, WrapAdds
  <1>3. d.is \cap (IF properties THEN Category ELSE Category \ {"property"}) # {}
    BY <1>2
  <1>4. c = Core("unavailable", d)
    BY <1>3 DEF WrapUnavailable
  <1>5. c \in Error /\ c.core = "unavailable" /\ c.public = None
    BY <1>1, <1>2, <1>4, WrapAdds
  <1>6. WrapPublic(c) = NewPublic("unavailable", c)
    BY <1>1, <1>5 DEF WrapPublic, Public, CoreKind
  <1>7. NewPublic("unavailable", c).public = "unavailable"
        /\ "unavailable" \in NewPublic("unavailable", c).is
    BY <1>1, <1>5, PublicIs
  <1> QED
    BY <1>6, <1>7

\* The other side of it: an error that was given no category, as New<Kind> gives
\* none when the object lacks its interface, is internal for the public.
THEOREM UncategorizedIsInternal ==
    ASSUME NEW e \in Error, NEW properties \in BOOLEAN,
           e.is \cap Category = {}, e.public = None, None \notin CoreKind
    PROVE  WrapPublic(WrapUnavailable(properties, e)).public = "internal error"
  <1> DEFINE c == WrapUnavailable(properties, e)
  <1>1. "operation failed" \in CoreKind /\ "operation failed" \notin PublicKind
    BY DEF PublicKind, CoreKind
  <1>2. "internal error" \in PublicKind /\ "connection" \in Category
    BY DEF PublicKind, Category
  <1>3. c = Core("operation failed", e)
    BY DEF WrapUnavailable
  <1>4. /\ Core("operation failed", e) \in Error
        /\ Core("operation failed", e).core = "operation failed"
        /\ Core("operation failed", e).public = e.public
    BY <1>1, <1>2, WrapAdds
  <1>5. c \in Error /\ c.core = "operation failed" /\ c.public = None
    BY <1>3, <1>4
  <1>6. WrapPublic(c) = NewPublic("internal error", c)
    BY <1>1, <1>5 DEF WrapPublic, Public
  <1>7. NewPublic("internal error", c).public = "internal error"
    <2> HIDE DEF c
    <2> QED
      BY <1>2, <1>5, PublicIs
  <1> QED
    BY <1>6, <1>7

\* An error iwd names can be told by its sentinel at the public surface,
\* whatever category and policy it passed under.
THEOREM NamedErrorSurvives ==
    ASSUME NEW name \in IwdName, NEW category \in Category, NEW properties \in BOOLEAN
    PROVE  name \in WrapPublic(WrapUnavailable(properties, WrapIwd(category, Reply(name)))).is
  BY DEF WrapPublic, NewPublic, WrapUnavailable, Core, WrapIwd, DBus, Reply, Plain

=============================================================================
