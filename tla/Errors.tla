------------------------------- MODULE Errors -------------------------------
(***************************************************************************)
(* What becomes of a failure on its way up: the D-Bus layer tags it with a *)
(* category (src/internal/iwdbus/errors.go, iwderrors.go), core classifies *)
(* it (src/internal/core/errors.go), the public package names its kind     *)
(* (src/errors.go).  An error is the record of what can be asked of it:    *)
(*   reply   the D-Bus error name it carries, or None                      *)
(*   is      the sentinels errors.Is finds anywhere in its chain           *)
(*   core    the kind of the outermost core error in the chain, or None    *)
(*   public  the kind of the public error it is, or None                   *)
(***************************************************************************)

CONSTANTS
    IwdName,  \* the names of iwd's errors that have a sentinel of their own
    None

Category == {"connection", "method", "property", "introspection", "variant"}
PublicKind == {"unavailable", "invalid state", "invalid argument", "internal error"}

Plain == [reply |-> None, is |-> {}, core |-> None, public |-> None]
Reply(name) == [Plain EXCEPT !.reply = name]

\* WrapConnection, WrapMethod, WrapProperty, WrapIntrospection, WrapVariant.
DBus(category, e) == [e EXCEPT !.is = @ \cup {category}]

\* wrapIwdMethod and wrapIwdProperty: a name iwd is known to use adds its
\* sentinel, any other reply only the category.
WrapIwd(category, e) ==
    DBus(category, [e EXCEPT !.is = @ \cup ({e.reply} \cap IwdName)])

Core(kind, e) == [e EXCEPT !.is = @ \cup {"core"}, !.core = kind]

BadWrapUnavailable(properties, e) ==
    LET far == Category \ {"property"} IN
    Core(IF e.is \cap far # {} THEN "unavailable" ELSE "operation failed", e)

\* Wrap<Resource>Unavailable.  The policies of the daemon, the agents and WSC,
\* which read no properties, leave failed property accesses out.
WrapUnavailable(properties, e) ==
    LET far == IF properties THEN Category ELSE Category \ {"property"} IN
    Core(IF e.is \cap far # {} THEN "unavailable" ELSE "operation failed", e)

Public(kind) == IF kind \in PublicKind THEN kind ELSE "internal error"

\* The public Error unwraps to ErrSpiderw, to the sentinel of its kind, and to
\* the error it wraps.
NewPublic(kind, e) == [e EXCEPT !.public = kind, !.is = @ \cup {"spiderw", kind}]

\* wrapPublicError: a public error stays as it is.
WrapPublic(e) ==
    IF e.public # None THEN e
    ELSE NewPublic(IF e.core # None THEN Public(e.core) ELSE "internal error", e)

=============================================================================
