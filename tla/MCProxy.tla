-------------------------------- MODULE MCProxy --------------------------------
(***************************************************************************)
(* Instances of Proxy with its handshake for TLC: a CONNECT with the       *)
(* configured credentials and one with others.                             *)
(***************************************************************************)
EXTENDS Handshake, TLC

CONSTANTS c1, c2, c3, alice, bob

Opening(login) == [connect |-> TRUE, authority |-> TRUE, login |-> login]

MCOpenings == {Opening(alice), Opening(bob)}

===============================================================================
