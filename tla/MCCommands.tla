------------------------------ MODULE MCCommands ------------------------------
(* Two objects.  Every command of every kind; each is a behaviour of its own. *)
EXTENDS Programs, TLC

CONSTANTS o1, o2

IwdNames == {}
Objects == {o1, o2}
EveryRun == {<<k, c>> : k \in DOMAIN Command, c \in UNION {DOMAIN Command[l] : l \in DOMAIN Command}}
Runs == {r \in EveryRun : r[2] \in DOMAIN Command[r[1]]}
Names == {"v1", "v2", "padded", "blank"}
Symmetry == Permutations(Objects)

===============================================================================
