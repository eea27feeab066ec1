-------------------------------- MODULE Programs --------------------------------
(***************************************************************************)
(* What the commands of the command line have in common as sequences of    *)
(* steps, whatever their kind: the order they keep.  Command is a table    *)
(* without parameters, so each fact is a matter of looking at every        *)
(* command of it, which TLC does when it evaluates the assumptions; the    *)
(* proofs about any run of a command rest on them.                         *)
(***************************************************************************)
EXTENDS Commands

\* The steps of a command, with those it takes for each object in turn.
Within(k, c) ==
    LET steps == {Command[k][c][i] : i \in DOMAIN Command[k][c]} IN
    steps \cup UNION {{s.of[i] : i \in DOMAIN s.of} : s \in {t \in steps : t.do = "each"}}

\* What goes through all objects calls none of them.
ASSUME ProgramsAssumption ==
    \A r \in Run :
        /\ Command[r[1]][r[2]] \in Seq(Within(r[1], r[2]))
        /\ \A s \in Within(r[1], r[2]) : s.do = "each" =>
               /\ s.of \in Seq(Within(r[1], r[2]))
               /\ \A u \in Within(r[1], r[2]) : u.do # "call"

-----------------------------------------------------------------------------
(* What may be left of a command at some moment: an end of it, or an end   *)
(* of the steps for one object and then all from "each" on.                *)

Ends(s) == {SubSeq(s, i, Len(s)) : i \in 1..(Len(s) + 1)}

Rests(k, c) ==
    LET whole == Command[k][c] IN
    Ends(whole) \cup
        UNION {{inner \o SubSeq(whole, i, Len(whole)) : inner \in Ends(whole[i].of)} :
                   i \in {j \in DOMAIN whole : whole[j].do = "each"}}

Doing(rest) == {rest[i].do : i \in DOMAIN rest}
Assigning(rest) == \E i \in DOMAIN rest : rest[i].do = "call" /\ rest[i].of \in DOMAIN AssignedBy

\* A command begins with its argument or a listing, and goes step by step.
Unfolds(k, c) ==
    /\ Command[k][c] \in Rests(k, c) \ {<<>>}
    /\ Head(Command[k][c]).do \in {"parse", "list"}
    /\ Prints(k, c) \subseteq Properties(k) \cup {None}
    /\ \A rest \in Rests(k, c) \ {<<>>} :
           /\ rest \in Seq(Within(k, c)) /\ Tail(rest) \in Rests(k, c)
           /\ Head(rest).do = "each" =>
                  LET unfolded == Head(rest).of \o rest IN
                  /\ unfolded \in Rests(k, c) \ {<<>>}
                  /\ Head(unfolded).do = "all" /\ {"enter", "each"} \subseteq Doing(unfolded)

\* Objects are listed first, and picked before they are looked at.
FindsFirst(rest) ==
    LET do == Head(rest).do
        after == Doing(Tail(rest)) IN
    /\ "list" \in after => do = "parse"
    /\ "match" \in after => do \in {"parse", "list"}

\* What is asked of an object is what its kind has, and the agent is for a call.
AsksRight(k, rest) ==
    LET s == Head(rest) IN
    /\ s.do = "get" => s.of \in Properties(k)
    /\ s.do = "call" => s.of \in DOMAIN Handle[k].calls
    /\ s.do = "register" => Tail(rest) # <<>>

\* An overview prints when it is done with all objects, and enters each once.
OverviewOrder(c, rest) ==
    LET do == Head(rest).do
        after == Doing(Tail(rest)) IN
    /\ "each" \in Doing(rest) => c = "status" /\ do \notin {"print", "stream"}
    /\ "enter" \in Doing(rest) => do \in {"all", "tree", "enter"}
    /\ do = "enter" => {"enter", "all"} \cap after = {}
    /\ c = "status" => "match" \notin Doing(rest) /\ (do = "list" => "each" \in after)

\* A connection looks at the network, sees to the agent, and calls once.
ConnectOrder(k, c, rest) ==
    LET s == Head(rest) IN
    /\ c = "connect" =>
           /\ k = "Network"
           /\ "call" \in Doing(rest) /\ "all" \notin Doing(rest) => s.do \in {"tree", "register", "call"}
           /\ "call" \in Doing(rest) /\ "register" \notin Doing(rest) => s.do = "call"
           /\ s.do = "call" => "call" \notin Doing(Tail(rest)) /\ {"all", "register"} \cap Doing(rest) = {}
           /\ s.do = "register" => s.of = "unknown"
    /\ s.do = "call" /\ s.of = "Connect" => c = "connect"

\* A set comes before all that is read or printed, and its echo right after it.
AssignOrder(k, c, rest) ==
    LET s == Head(rest) IN
    /\ Assigning(rest) => s.do \in {"parse", "list", "match", "open", "look up", "call"}
    /\ s.do = "call" /\ s.of \in DOMAIN AssignedBy =>
           AssignedBy[s.of] \in Properties(k) /\ Prints(k, c) \subseteq {AssignedBy[s.of], None}
    /\ "echo" \in Doing(rest) /\ "call" \notin Doing(rest) => s.do = "echo"
    /\ s.do = "echo" => "call" \notin Doing(rest)
    /\ s.do = "call" /\ "echo" \in Doing(rest) => s.of \in DOMAIN AssignedBy
    /\ s.do = "call" /\ s.of = "SetAutoConnect" => c = "setAutoConnect"
    /\ c = "setAutoConnect" => k = "KnownNetwork"

\* A monitor reads the property, prints it, subscribes to it and streams it.
StreamOrder(k, c, rest) ==
    LET s == Head(rest) IN
    "stream" \in Doing(rest) =>
        /\ Prints(k, c) \subseteq DOMAIN Handle[k].signals /\ c # "connect"
        /\ {"call", "echo", "each"} \cap Doing(rest) = {}
        /\ "print" \notin Doing(rest) <=> s.do \in {"subscribe", "stream"}
        /\ "print" \in Doing(rest) /\ {"get", "all"} \cap Doing(rest) = {} => s.do \in {"tree", "print"}
        /\ s.do = "print" => {"get", "all"} \cap Doing(rest) = {}
        /\ s.do = "get" => Prints(k, c) = {s.of}

Ordered(k, c, rest) ==
    /\ FindsFirst(rest) /\ AsksRight(k, rest) /\ OverviewOrder(c, rest)
    /\ ConnectOrder(k, c, rest) /\ AssignOrder(k, c, rest) /\ StreamOrder(k, c, rest)

ASSUME OrderAssumption ==
    \A r \in Run :
        /\ Unfolds(r[1], r[2])
        /\ \A rest \in Rests(r[1], r[2]) \ {<<>>} : Ordered(r[1], r[2], rest)

=============================================================================
