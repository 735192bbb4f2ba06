-------------------------------- MODULE Ports --------------------------------
(***************************************************************************)
(* The ports of include/Simo/port/Port.h: OutPort and InPort, the pair of  *)
(* them that is a BidirectionalPortTyped, and the callback ports with and  *)
(* without a contract.                                                     *)
(*                                                                         *)
(* Any module may call any method of a port it holds, in any order, and    *)
(* wire ports as often as it likes; connect() never detaches the port that *)
(* was connected before.  A payload is the number of the send() call that  *)
(* took it, 0 before the first.                                            *)
(*                                                                         *)
(* A port lives in its module under a name (Module::ports).  It dies with  *)
(* the module, or when create_port() is given the name again; nobody tells *)
(* the port at the other end.                                              *)
(***************************************************************************)
EXTENDS PortKinds, Integers, Sequences

CONSTANTS
    Port,           \* the ports, those inside a bidirectional port included
    kind,           \* the class of each port
    type,           \* its template arguments
    Bidirectional,  \* the <<out_port, in_port>> of each bidirectional port
    place,          \* the <<module, name>> of each port
    Spare,          \* the ports that do not exist yet
    Doomed,         \* bound: the modules that may be destroyed
    None,           \* nullptr
    MaxSends        \* bound: payloads sent in all

OfKind(kinds) == {p \in Port : kind[p] \in kinds}
Outs          == OfKind({"out"})
Ins           == OfKind({"in"})
CallbackOuts  == OfKind({"callbackOut", "contractOut"})
CallbackIns   == OfKind({"callbackIn", "contractIn"})
ContractPorts == OfKind({"contractOut", "contractIn"})

ASSUME PortAssumption ==
    /\ kind \in [Port -> Kinds]
    /\ None \notin Port
    /\ Bidirectional \subseteq Outs \X Ins
    /\ \A b, c \in Bidirectional : b # c => b[1] # c[1] /\ b[2] # c[2]
    /\ Spare \subseteq Port
    /\ \A b \in Bidirectional : place[b[1]] = place[b[2]] /\ (b[1] \in Spare <=> b[2] \in Spare)
    /\ MaxSends \in Nat

VARIABLES
    life,           \* of each port: "unborn", "living", "dead"
    peer,           \* connecting_port
    contractPeer,   \* connected_port_ of ContractInterface
    storage, full,  \* storage and state_ of OutPort
    callback,       \* has_callback() of CallbackInPort
    status,         \* "running", "misused": receive() with no payload there,
                    \* or "undefined": a pointer to a dead port was followed
    rewired,        \* history: has connect() replaced a connection by another?
    severed,        \* history: has a port died that reported connected()?
    sent,           \* history: payloads sent
    sender,         \* history: the port each payload was sent from
    got,            \* history: the payloads received from each out port, in order
    cleared,        \* history: payloads a clear() took away
    replaced,       \* history: payloads of which the next send() answered REPLACED
    garbled,        \* history: payloads receive_in() took and its caller never saw
    called          \* history: <<out, in>> over which a callback has been called

wiring  == <<peer, contractPeer, rewired>>
data    == <<storage, full, sent, sender, got, cleared, replaced, garbled>>
calls   == <<callback, called>>
lives   == <<life, severed>>
vars    == <<wiring, data, calls, lives, status>>

Payloads == 1..MaxSends

Init ==
    /\ peer = [p \in Port |-> None] /\ contractPeer = [p \in ContractPorts |-> None]
    /\ storage = [o \in Outs |-> 0] /\ full = [o \in Outs |-> FALSE]
    /\ callback = [i \in CallbackIns |-> FALSE]
    /\ status = "running" /\ rewired = FALSE
    /\ sent = 0 /\ sender = <<>> /\ got = [o \in Outs |-> <<>>]
    /\ cleared = {} /\ replaced = {} /\ garbled = {} /\ called = {}
    /\ life = [p \in Port |-> IF p \in Spare THEN "unborn" ELSE "living"] /\ severed = FALSE

Running(p) == status = "running" /\ life[p] = "living"

-----------------------------------------------------------------------------
(* connect().                                                              *)

(* Seeded fault: the payload type is not compared. *)
BugAcceptsAnyType(p, q) == kind[q] \in Partners(kind[p])

Accepts(p, q) == kind[q] \in Partners(kind[p]) /\ type[p] = type[q]

Replaces(p, q) == peer[p] \notin {None, q} \/ peer[q] \notin {None, p}

(* The ports that live and die with p: those of a bidirectional port.      *)
Whole(p) == {p} \cup UNION {{b[1], b[2]} : b \in {c \in Bidirectional : p \in {c[1], c[2]}}}

Inner == {b[1] : b \in Bidirectional} \cup {b[2] : b \in Bidirectional}

(* A refused connect() changes nothing and is no step. *)
Connect(p, q) ==
    /\ Running(p) /\ Running(q) /\ p \notin Inner /\ q \notin Inner
    /\ Accepts(p, q)
    /\ peer' = Link(peer, p, q)
    /\ contractPeer' = IF p \in ContractPorts THEN Link(contractPeer, p, q) ELSE contractPeer
    /\ rewired' = (rewired \/ Replaces(p, q))
    /\ UNCHANGED <<data, calls, lives, status>>

(* out_port to in_port, then in_port to out_port; a port may be connected  *)
(* to itself.                                                              *)
BiConnect(b, c) ==
    /\ \A p \in {b[1], b[2], c[1], c[2]} : Running(p)
    /\ Accepts(b[1], c[2]) /\ Accepts(b[2], c[1])
    /\ peer' = Link(Link(peer, b[1], c[2]), b[2], c[1])
    /\ rewired' = (rewired \/ Replaces(b[1], c[2]) \/ Replaces(b[2], c[1]))
    /\ UNCHANGED <<contractPeer, data, calls, lives, status>>

-----------------------------------------------------------------------------
(* OutPort and InPort.                                                     *)

(* Seeded fault: REPLACED is answered only when the port was empty. *)
BugSendAnswersNew(o) ==
    /\ Running(o) /\ sent < MaxSends
    /\ sent' = sent + 1 /\ sender' = Append(sender, o)
    /\ storage' = [storage EXCEPT ![o] = sent + 1]
    /\ full' = [full EXCEPT ![o] = TRUE]
    /\ replaced' = IF full[o] THEN replaced ELSE replaced \cup ({storage[o]} \ {0})
    /\ UNCHANGED <<wiring, got, cleared, garbled, calls, lives, status>>

(* The payload is stored whoever is connected; a payload nobody took is    *)
(* overwritten, and the answer says so.                                    *)
Send(o) ==
    /\ Running(o) /\ sent < MaxSends
    /\ sent' = sent + 1 /\ sender' = Append(sender, o)
    /\ storage' = [storage EXCEPT ![o] = sent + 1]
    /\ full' = [full EXCEPT ![o] = TRUE]
    /\ replaced' = IF full[o] THEN replaced \cup {storage[o]} ELSE replaced
    /\ UNCHANGED <<wiring, got, cleared, garbled, calls, lives, status>>

ClearOut(o) ==
    /\ Running(o)
    /\ full' = [full EXCEPT ![o] = FALSE]
    /\ cleared' = IF full[o] THEN cleared \cup {storage[o]} ELSE cleared
    /\ UNCHANGED <<wiring, storage, sent, sender, got, replaced, garbled, calls, lives, status>>

(* InPort::clear() reaches through to the out port. *)
ClearIn(i) == Running(i) /\ peer[i] # None /\ ClearOut(peer[i])

(* Seeded fault: the payload is moved out and the port not cleared. *)
BugTakeKeepsFull(o) ==
    /\ got' = [got EXCEPT ![o] = Append(@, storage[o])]
    /\ UNCHANGED <<wiring, storage, full, sent, sender, cleared, replaced, garbled, calls, lives, status>>

Take(o) ==
    /\ got' = [got EXCEPT ![o] = Append(@, storage[o])]
    /\ full' = [full EXCEPT ![o] = FALSE]
    /\ UNCHANGED <<wiring, storage, sent, sender, cleared, replaced, garbled, calls, lives, status>>

Dangles(p) == p # None /\ life[p] = "dead"

Receivable(i) == peer[i] # None /\ full[peer[i]]

(* receive() asserts that a payload is there: the program aborts, or with  *)
(* assertions compiled out reads through nullptr or takes what an earlier  *)
(* move left behind.  What a program does after that is not followed.      *)
ReceiveFails(i) ==
    /\ Running(i) /\ ~Dangles(peer[i]) /\ ~Receivable(i)
    /\ status' = "misused"
    /\ UNCHANGED <<wiring, data, calls, lives>>

Receive(i) ==
    /\ Running(i) /\ i \notin Inner
    /\ ~Dangles(peer[i]) /\ Receivable(i)
    /\ Take(peer[i])

(* The payload leaves the out port, and what the caller reads is not it.   *)
Garble(o) ==
    /\ full' = [full EXCEPT ![o] = FALSE]
    /\ garbled' = garbled \cup {storage[o]}
    /\ UNCHANGED <<wiring, storage, sent, sender, got, cleared, replaced, calls, lives, status>>

(* receive_in() returns a reference to the temporary it took the payload   *)
(* into, which is gone when the caller looks at it: the memory may still   *)
(* hold the payload or not.                                                *)
ReceiveIn(b) ==
    /\ Running(b[2])
    /\ ~Dangles(peer[b[2]]) /\ Receivable(b[2])
    /\ Take(peer[b[2]]) \/ Garble(peer[b[2]])

-----------------------------------------------------------------------------
(* The callback ports.                                                     *)

SetCallback(i, given) ==
    /\ Running(i)
    /\ callback' = [callback EXCEPT ![i] = given]
    /\ UNCHANGED <<wiring, data, called, lives, status>>

(* send() calls the callback of the port it is connected to, if it is and  *)
(* has one; otherwise it answers nullopt, or does nothing.                 *)
CallbackSend(o) ==
    /\ Running(o)
    /\ peer[o] # None /\ ~Dangles(peer[o]) /\ callback[peer[o]]
    /\ called' = called \cup {<<o, peer[o]>>}
    /\ UNCHANGED <<wiring, data, callback, lives, status>>

-----------------------------------------------------------------------------
(* Modules and their ports.                                                *)

Living(here) == {p \in here : life[p] = "living"}

(* Ports leave their module's map, others come into it.                    *)
Replace(dying, born) ==
    /\ status = "running" /\ dying # {}
    /\ life' = [p \in Port |-> IF p \in born THEN "living"
                               ELSE IF p \in dying THEN "dead" ELSE life[p]]
    /\ severed' = (severed \/ \E p \in dying : peer[p] # None)
    /\ UNCHANGED <<wiring, data, calls, status>>

(* create_port() of a name that is taken: the new port, with no payload    *)
(* and no partner, takes the place of the old one in the module's map.     *)
CreatePort(p) ==
    /\ life[p] = "unborn"
    /\ Replace(Living({q \in Port : place[q] = place[p]}), Whole(p))

(* The module is destroyed, and its map of ports with it. *)
DestroyModule(m) == Replace(Living({q \in Port : place[q][1] = m}), {})

(* receive(), peek() and clear() of an in port, send() of a callback port  *)
(* and the verification of a contract look through their pointer.          *)
FollowDangling(p) ==
    /\ Running(p)
    /\ \/ p \in Ins \cup CallbackOuts /\ Dangles(peer[p])
       \/ p \in ContractPorts /\ Dangles(contractPeer[p])
    /\ status' = "undefined"
    /\ UNCHANGED <<wiring, data, calls, lives>>

-----------------------------------------------------------------------------
Next ==
    \/ \E p, q \in Port : Connect(p, q)
    \/ \E b, c \in Bidirectional : BiConnect(b, c)
    \/ \E o \in Outs : Send(o) \/ ClearOut(o)
    \/ \E i \in Ins : ClearIn(i) \/ Receive(i) \/ ReceiveFails(i)
    \/ \E b \in Bidirectional : ReceiveIn(b)
    \/ \E i \in CallbackIns : \E given \in BOOLEAN : SetCallback(i, given)
    \/ \E o \in CallbackOuts : CallbackSend(o)
    \/ \E p \in Port : CreatePort(p) \/ FollowDangling(p)
    \/ \E m \in Doomed : DestroyModule(m)

Spec == Init /\ [][Next]_vars

-----------------------------------------------------------------------------
(* The members of the port classes keep their types.                       *)
TypeOK ==
    /\ peer \in [Port -> Port \cup {None}]
    /\ contractPeer \in [ContractPorts -> ContractPorts \cup {None}]
    /\ storage \in [Outs -> 0..MaxSends] /\ full \in [Outs -> BOOLEAN]
    /\ callback \in [CallbackIns -> BOOLEAN]
    /\ status \in {"running", "misused", "undefined"}
    /\ life \in [Port -> {"unborn", "living", "dead"}] /\ severed \in BOOLEAN
    /\ rewired \in BOOLEAN
    /\ sent \in 0..MaxSends /\ sender \in Seq(Outs) /\ Len(sender) = sent
    /\ got \in [Outs -> Seq(0..MaxSends)]
    /\ cleared \subseteq Payloads /\ replaced \subseteq Payloads /\ garbled \subseteq Payloads
    /\ called \subseteq CallbackOuts \X CallbackIns

(* Whatever the wiring, and whoever asked: a connection joins ports of     *)
(* opposite directions that exchange the same payload, so the pointer      *)
(* connect() stored through a runtime_cast points at the class it names.   *)
LinksCompatible ==
    \A p \in Port : peer[p] # None =>
        /\ type[p] = type[peer[p]]
        /\ Accepts(p, peer[p]) \/ Accepts(peer[p], p)

(* As long as no connection is replaced by another, both ends of every     *)
(* connection name each other; a contract is probed on the port that the   *)
(* payloads go to or come from; and a callback is called only by the port  *)
(* it is connected to.                                                     *)
LinksMutual ==
    ~rewired =>
        /\ \A p \in Port : peer[p] # None => peer[peer[p]] = p
        /\ \A p \in ContractPorts :
               contractPeer[p] = IF peer[p] \in ContractPorts THEN peer[p] ELSE None
        /\ \A c \in called : peer[c[2]] = c[1]

(* connected() can be trusted before a port is given up: as long as only   *)
(* ports that are not connected die with their module or under a new port  *)
(* of their name, no pointer to a dead port is left behind or followed,    *)
(* however often connections were replaced and their former ends left      *)
(* pointing at the port.                                                   *)
NoDanglingLink ==
    ~severed =>
        /\ status # "undefined"
        /\ \A p \in Port : ~Dangles(peer[p])
        /\ \A p \in ContractPorts : ~Dangles(contractPeer[p])

(* However many in ports still point at an out port: a payload is received *)
(* at most once, and in the order of the sends.                            *)
ReceivedOnceInOrder ==
    \A o \in Outs : \A m, n \in 1..Len(got[o]) : m < n => got[o][m] < got[o][n]

ReceivedFrom(o) == {got[o][n] : n \in 1..Len(got[o])}
Holds(o, m)     == full[o] /\ storage[o] = m
Waiting(o, m)   == life[o] = "living" /\ Holds(o, m)
WentDown(o, m)  == life[o] # "living" /\ Holds(o, m)   \* with its port

(* What became of a payload that is no longer where send() put it, as far  *)
(* as someone was told: its receiver, who cleared it, the next sender.     *)
Told(m) == ReceivedFrom(sender[m]) \cup cleared \cup replaced

(* No payload disappears unnoticed: each one was received, was cleared, or *)
(* the next send() answered REPLACED; or it is still waiting, or was when  *)
(* its port died.  And REPLACED is never answered of a payload that was    *)
(* received or cleared.  The exception is receive_in(), which is to extract *)
(* the payload (Port.h) and may lose it (garbled), and nobody is told.     *)
NothingLostUnnoticed ==
    \A m \in 1..sent :
        /\ m \in Told(m) \cup garbled \/ Waiting(sender[m], m) \/ WentDown(sender[m], m)
        /\ m \in replaced => m \notin ReceivedFrom(sender[m]) \cup cleared \cup garbled
=============================================================================
