---------------------------- MODULE MCPersonPage ----------------------------
(* A person with a photo, an attachment and a relationship, and somebody else to be related to. *)
EXTENDS PersonPage

MCText == {"a", "b"}
MCPerson == {"x", "y"}
MCAtFirst ==
  [text |-> "a", relations |-> {[id |-> <<1, 1>>, to |-> "x", note |-> "a"]}, files |-> {0}, photo |-> 1]
=============================================================================
