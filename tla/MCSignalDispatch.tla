-------------------------- MODULE MCSignalDispatch --------------------------
(***************************************************************************)
(* A small instance of SignalDispatch: two registrations, one exact and    *)
(* one wildcard, and three signals over a channel of capacity one.  s2     *)
(* names another object, and reaches the connection by another object's    *)
(* match rule; s3 has no name.  r3 is refused for its empty member.         *)
(***************************************************************************)
EXTENDS SignalDispatch, TLC

CONSTANTS r1, r2, r3, s1, s2, s3

MCPattern ==
    r1 :> [iface |-> "Properties", member |-> "PropertiesChanged"]
 @@ r2 :> [iface |-> Star, member |-> "PropertiesChanged"]
 @@ r3 :> [iface |-> "Properties", member |-> NoMember]

MCTopic == [r \in Reg |-> "Station"]

Changed(path) ==
    [iface |-> "Properties", member |-> "PropertiesChanged",
     path |-> path, about |-> "Station"]

MCHeader ==
    s1 :> Changed(OwnPath) @@ s2 :> Changed("/other") @@ s3 :> Changed(OwnPath)

MCForeign == {s2, s3} \cap Sig
MCNameless == {s3} \cap Sig

=============================================================================
