------------------------- MODULE MCProtocolAuthority ------------------------
(***************************************************************************)
(* ProtocolAuthority for TLC, with a hand of two decisions and a showdown  *)
(* step: "first" and "second" await a check, "shown" is a pending          *)
(* showdown, "done" is settled.  A preference is accepted while betting is *)
(* open and changes nothing the protocol sees.                             *)
(***************************************************************************)
EXTENDS ProtocolAuthority

MCHandStates == {"first", "second", "shown", "done"}
MCPayloads   == {"check", "prefer"}
MCApply == [h \in MCHandStates |-> [p \in MCPayloads |->
  CASE h \in {"shown", "done"}          -> "refused"
    [] h \in {"first", "second"} /\ p = "prefer" -> h
    [] h = "first" /\ p = "check"       -> "second"
    [] h = "second" /\ p = "check"      -> "shown"]]
MCAdvance == [h \in MCHandStates |-> IF h = "shown" THEN "done" ELSE "refused"]

=============================================================================
