------------------------------- MODULE MCPorts -------------------------------
(* An instance of Ports for TLC: an out port that another may replace      *)
(* under its name, with two candidate in ports, one of which replaces the  *)
(* other, two bidirectional ports, and callback ports of every class, one  *)
(* of them for payloads of another type.                                   *)
EXTENDS Ports

PortNames ==
    {"o", "p", "i", "j", "ao", "ai", "bo", "bi", "ko", "ki", "li", "lo", "mo"}

KindTable == [p \in Port |->
    CASE p \in {"o", "p", "ao", "bo"} -> "out"
      [] p \in {"i", "j", "ai", "bi"} -> "in"
      [] p = "ko"                     -> "contractOut"
      [] p = "ki"                     -> "contractIn"
      [] p = "li"                     -> "callbackIn"
      [] p \in {"lo", "mo"}           -> "callbackOut"]

TypeTable == [p \in Port |-> IF p = "mo" THEN "string" ELSE "int"]

(* What dies: a module with an in port, a bidirectional port and a         *)
(* contract port.                                                          *)
PlaceTable == [p \in Port |->
    CASE p \in {"o", "p"}   -> <<"sender", "out">>
      [] p \in {"i", "j"}   -> <<"receiver", "in">>
      [] p \in {"bo", "bi"} -> <<"receiver", "pair">>
      [] p = "ki"            -> <<"receiver", "contract">>
      [] p \in {"ao", "ai"} -> <<"sender", "pair">>
      [] OTHER               -> <<"sender", p>>]

Pairs == {<<"ao", "ai">>, <<"bo", "bi">>}

(* Callback ports hold no payload and are wired to one another only: they  *)
(* are connected in behaviours without payloads, before p exists.          *)
Apart ==
    \/ sent = 0 /\ life["p"] = "unborn"
    \/ /\ \A q \in Port \ (Outs \cup Ins) : peer[q] = None
       /\ \A i \in CallbackIns : ~callback[i]
=============================================================================
