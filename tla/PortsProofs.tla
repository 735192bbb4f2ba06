----------------------------- MODULE PortsProofs -----------------------------
(***************************************************************************)
(* Proofs about Ports, for any ports, any wiring and any number of sends.  *)
(***************************************************************************)
EXTENDS Ports, SequenceTheorems, TLAPS

(* The kinds of port are disjoint, and ports of the same kind share the    *)
(* classes they connect to.                                                *)
LEMMA PortFacts ==
    /\ kind \in [Port -> Kinds] /\ None \notin Port
    /\ Outs \subseteq Port /\ Ins \subseteq Port /\ CallbackIns \subseteq Port
    /\ CallbackOuts \subseteq Port /\ ContractPorts \subseteq Port
    /\ \A b \in Bidirectional : b[1] \in Outs /\ b[2] \in Ins
    /\ \A b, c \in Bidirectional : b # c => b[1] # c[1] /\ b[2] # c[2]
    /\ \A o \in Outs, i \in Ins : o # i
BY PortAssumption DEF Outs, Ins, CallbackIns, CallbackOuts, ContractPorts, OfKind, Kinds

(* connect() joins different ports, a contract port only with another when *)
(* it is the one asked, a data port only with a data port.                 *)
LEMMA AcceptsFacts ==
    ASSUME NEW p \in Port, NEW q \in Port, Accepts(p, q)
    PROVE  /\ p # q
           /\ p \in ContractPorts => q \in ContractPorts
           /\ p \in Outs => q \in Ins
           /\ p \in Ins => q \in Outs
           /\ p \in CallbackOuts => q \in CallbackIns
           /\ q \in Outs => p \in Ins
           /\ q \in Ins => p \in Outs
           /\ q \in CallbackOuts => p \in CallbackIns
BY PortAssumption
   DEF Accepts, Partners, Outs, Ins, CallbackIns, CallbackOuts, ContractPorts, OfKind, Kinds

-----------------------------------------------------------------------------
(* Type correctness.                                                       *)

(* An in port is connected to an out port, a callback out port to a        *)
(* callback in port.                                                       *)
PeersOpposite ==
    /\ \A i \in Ins : peer[i] \in Outs \cup {None}
    /\ \A o \in CallbackOuts : peer[o] \in CallbackIns \cup {None}

(* A full port holds a payload somebody sent. *)
FullMeansSent == \A o \in Outs : full[o] => storage[o] \in 1..sent

TInv == TypeOK /\ PeersOpposite /\ FullMeansSent

(* The constructors of the ports establish it. *)
LEMMA TypeInit == Init => TInv
<1>1. SUFFICES ASSUME Init PROVE TInv
  OBVIOUS
<1>2. sent = 0 /\ sender = <<>> /\ MaxSends \in Nat
  BY <1>1, PortAssumption DEF Init
<1>3. Len(sender) = sent /\ sender \in Seq(Outs) /\ sent \in 0..MaxSends
  BY <1>2, EmptySeq
<1>4. got \in [Outs -> Seq(0..MaxSends)]
  <2>1. <<>> \in Seq(0..MaxSends)
    BY EmptySeq
  <2>2. QED BY <1>1, <2>1 DEF Init
<1>5. PeersOpposite
  BY <1>1, PortFacts DEF Init, PeersOpposite
<1>6. life \in [Port -> {"unborn", "living", "dead"}] /\ severed \in BOOLEAN
  BY <1>1 DEF Init
<1>7. QED BY <1>1, <1>2, <1>3, <1>4, <1>5, <1>6 DEF Init, TInv, TypeOK, FullMeansSent

(* connect() of any two ports keeps it. *)
LEMMA TypeConnect ==
    ASSUME TInv, NEW p \in Port, NEW q \in Port, Connect(p, q)
    PROVE  TInv'
<1>1. /\ peer \in [Port -> Port \cup {None}]
      /\ contractPeer \in [ContractPorts -> ContractPorts \cup {None}]
  BY DEF TInv, TypeOK
<1>2. peer' = [peer EXCEPT ![p] = q, ![q] = p] /\ peer' \in [Port -> Port \cup {None}]
  BY <1>1 DEF Connect, Link
<1>3. contractPeer' \in [ContractPorts -> ContractPorts \cup {None}]
  BY <1>1, AcceptsFacts DEF Connect, Link
<1>4. rewired' \in BOOLEAN
  BY DEF Connect, TInv, TypeOK, Replaces
<1>5. PeersOpposite'
  <2>1. Accepts(p, q)
    BY DEF Connect
  <2>2. QED BY <1>1, <1>2, <2>1, AcceptsFacts, PortFacts DEF PeersOpposite, TInv
<1>6. QED BY <1>2, <1>3, <1>4, <1>5 DEF Connect, TInv, TypeOK, FullMeansSent, data, calls, lives

(* connect() of two bidirectional ports keeps it. *)
LEMMA TypeBiConnect ==
    ASSUME TInv, NEW b \in Bidirectional, NEW c \in Bidirectional, BiConnect(b, c)
    PROVE  TInv'
<1>1. peer \in [Port -> Port \cup {None}]
  BY DEF TInv, TypeOK
<1>2. b[1] \in Outs /\ b[2] \in Ins /\ c[1] \in Outs /\ c[2] \in Ins
  BY PortFacts
<1>3. /\ peer' = [[peer EXCEPT ![b[1]] = c[2], ![c[2]] = b[1]] EXCEPT ![b[2]] = c[1], ![c[1]] = b[2]]
      /\ peer' \in [Port -> Port \cup {None}]
  BY <1>1, <1>2, PortFacts DEF BiConnect, Link
<1>4. rewired' \in BOOLEAN
  BY DEF BiConnect, TInv, TypeOK, Replaces
<1>5. PeersOpposite'
  <2>1. \A o \in CallbackOuts : o \notin {b[1], b[2], c[1], c[2]}
    BY <1>2, PortAssumption DEF CallbackOuts, Outs, Ins, OfKind
  <2>2. QED BY <1>1, <1>2, <1>3, <2>1, PortFacts DEF PeersOpposite, TInv
<1>6. QED BY <1>3, <1>4, <1>5 DEF BiConnect, TInv, TypeOK, FullMeansSent, data, calls, lives

(* A payload sent keeps it. *)
LEMMA TypeSend ==
    ASSUME TInv, NEW o \in Outs, Send(o)
    PROVE  TInv'
<1>1. sent \in 0..MaxSends /\ sent < MaxSends /\ MaxSends \in Nat /\ sent' = sent + 1
  BY PortAssumption DEF TInv, TypeOK, Send
<1>2. sent' \in 0..MaxSends /\ sent' \in 1..sent' /\ \A n \in 1..sent : n \in 1..sent'
  BY <1>1
<1>3. sender' \in Seq(Outs) /\ Len(sender') = sent'
  BY <1>1, AppendProperties DEF TInv, TypeOK, Send
<1>4. storage' \in [Outs -> 0..MaxSends] /\ full' \in [Outs -> BOOLEAN]
  BY <1>1, <1>2 DEF TInv, TypeOK, Send
<1>5. replaced' \subseteq Payloads
  <2>1. full[o] => storage[o] \in Payloads
    BY <1>1 DEF TInv, FullMeansSent, Payloads
  <2>2. QED BY <2>1 DEF TInv, TypeOK, Send
<1>6. FullMeansSent'
  BY <1>1, <1>2 DEF FullMeansSent, TInv, TypeOK, Send
<1>7. PeersOpposite'
  BY DEF Send, PeersOpposite, TInv, wiring
<1>8. QED BY <1>2, <1>3, <1>4, <1>5, <1>6, <1>7 DEF Send, TInv, TypeOK, wiring, calls, lives

(* A clear() from either end keeps it. *)
LEMMA TypeClear ==
    ASSUME TInv, NEW o \in Outs, ClearOut(o)
    PROVE  TInv'
<1>1. full' \in [Outs -> BOOLEAN]
  BY DEF ClearOut, TInv, TypeOK
<1>2. cleared' \subseteq Payloads
  <2>1. full[o] => storage[o] \in Payloads
    BY PortAssumption DEF TInv, TypeOK, FullMeansSent, Payloads
  <2>2. QED BY <2>1 DEF TInv, TypeOK, ClearOut
<1>3. FullMeansSent'
  BY DEF FullMeansSent, TInv, TypeOK, ClearOut
<1>4. PeersOpposite'
  BY DEF ClearOut, PeersOpposite, TInv, wiring
<1>5. QED BY <1>1, <1>2, <1>3, <1>4 DEF ClearOut, TInv, TypeOK, wiring, calls, lives

(* A payload received keeps it. *)
LEMMA TypeTake ==
    ASSUME TInv, NEW o \in Outs, Take(o)
    PROVE  TInv'
<1>1. full' \in [Outs -> BOOLEAN]
  BY DEF Take, TInv, TypeOK
<1>2. got' \in [Outs -> Seq(0..MaxSends)]
  <2>1. Append(got[o], storage[o]) \in Seq(0..MaxSends)
    BY AppendProperties DEF TInv, TypeOK
  <2>2. QED BY <2>1 DEF Take, TInv, TypeOK
<1>3. FullMeansSent'
  BY DEF FullMeansSent, TInv, TypeOK, Take
<1>4. PeersOpposite'
  BY DEF Take, PeersOpposite, TInv, wiring
<1>5. QED BY <1>1, <1>2, <1>3, <1>4 DEF Take, TInv, TypeOK, wiring, calls, lives

(* A payload receive_in() loses keeps it. *)
LEMMA TypeGarble ==
    ASSUME TInv, NEW o \in Outs, full[o], Garble(o)
    PROVE  TInv'
<1>1. full' \in [Outs -> BOOLEAN]
  BY DEF Garble, TInv, TypeOK
<1>2. garbled' \subseteq Payloads
  <2>1. storage[o] \in Payloads
    BY PortAssumption DEF TInv, TypeOK, FullMeansSent, Payloads
  <2>2. QED BY <2>1 DEF TInv, TypeOK, Garble
<1>3. FullMeansSent'
  BY DEF FullMeansSent, TInv, TypeOK, Garble
<1>4. PeersOpposite'
  BY DEF Garble, PeersOpposite, TInv, wiring
<1>5. QED BY <1>1, <1>2, <1>3, <1>4 DEF Garble, TInv, TypeOK, wiring, calls, lives

(* Ports that die and are born keep it. *)
LEMMA TypeReplace ==
    ASSUME TInv, NEW dying, NEW born, Replace(dying, born)
    PROVE  TInv'
<1>1. life' \in [Port -> {"unborn", "living", "dead"}] /\ severed' \in BOOLEAN
  <2>1. life \in [Port -> {"unborn", "living", "dead"}] /\ severed \in BOOLEAN
    BY DEF TInv, TypeOK
  <2>2. \A p \in Port : life[p] \in {"unborn", "living", "dead"}
    BY <2>1
  <2>3. life' \in [Port -> {"unborn", "living", "dead"}]
    BY <2>2 DEF Replace
  <2>4. severed' \in BOOLEAN
    BY <2>1, Zenon DEF Replace
  <2>5. QED BY <2>3, <2>4
<1>2. QED BY <1>1 DEF Replace, TInv, TypeOK, PeersOpposite, FullMeansSent, wiring, data, calls

(* Every step keeps it. *)
LEMMA TypeStep == TInv /\ [Next]_vars => TInv'
<1>1. SUFFICES ASSUME TInv, [Next]_vars PROVE TInv'
  OBVIOUS
<1>2. ASSUME NEW p \in Port, NEW q \in Port, Connect(p, q) PROVE TInv'
  BY <1>1, <1>2, TypeConnect
<1>3. ASSUME NEW b \in Bidirectional, NEW c \in Bidirectional, BiConnect(b, c) PROVE TInv'
  BY <1>1, <1>3, TypeBiConnect
<1>4. ASSUME NEW o \in Outs, Send(o) \/ ClearOut(o) PROVE TInv'
  BY <1>1, <1>4, TypeSend, TypeClear
<1>5. ASSUME NEW i \in Ins, ClearIn(i) \/ Receive(i) \/ ReceiveFails(i) PROVE TInv'
  <2>1. peer[i] # None => peer[i] \in Outs
    BY <1>1 DEF TInv, PeersOpposite
  <2>2. CASE ClearIn(i)
    BY <1>1, <2>1, <2>2, TypeClear DEF ClearIn
  <2>3. CASE Receive(i)
    BY <1>1, <2>1, <2>3, TypeTake DEF Receive, Receivable
  <2>4. CASE ReceiveFails(i)
    BY <1>1, <2>4 DEF ReceiveFails, TInv, TypeOK, PeersOpposite, FullMeansSent, wiring, data, calls, lives
  <2>5. QED BY <1>5, <2>2, <2>3, <2>4
<1>6. ASSUME NEW b \in Bidirectional, ReceiveIn(b) PROVE TInv'
  <2>1. peer[b[2]] # None => peer[b[2]] \in Outs
    BY <1>1, PortFacts DEF TInv, PeersOpposite
  <2>2. QED BY <1>1, <1>6, <2>1, TypeTake, TypeGarble DEF ReceiveIn, Receivable
<1>7. ASSUME NEW i \in CallbackIns, NEW given \in BOOLEAN, SetCallback(i, given) PROVE TInv'
  BY <1>1, <1>7 DEF SetCallback, TInv, TypeOK, PeersOpposite, FullMeansSent, wiring, data, lives
<1>8. ASSUME NEW o \in CallbackOuts, CallbackSend(o) PROVE TInv'
  <2>1. peer[o] \in CallbackIns
    BY <1>1, <1>8 DEF CallbackSend, TInv, PeersOpposite
  <2>2. called' \subseteq CallbackOuts \X CallbackIns
    BY <1>1, <1>8, <2>1 DEF CallbackSend, TInv, TypeOK
  <2>3. QED BY <1>1, <1>8, <2>2 DEF CallbackSend, TInv, TypeOK, PeersOpposite, FullMeansSent, wiring, data, lives
<1>9. ASSUME NEW p \in Port, CreatePort(p) \/ FollowDangling(p) PROVE TInv'
  <2>1. CASE CreatePort(p)
    BY <1>1, <2>1, TypeReplace DEF CreatePort
  <2>2. CASE FollowDangling(p)
    BY <1>1, <2>2
       DEF FollowDangling, TInv, TypeOK, PeersOpposite, FullMeansSent, wiring, data, calls, lives
  <2>3. QED BY <1>9, <2>1, <2>2
<1>10. ASSUME NEW m \in Doomed, DestroyModule(m) PROVE TInv'
  BY <1>1, <1>10, TypeReplace DEF DestroyModule
<1>11. CASE UNCHANGED vars
  BY <1>1, <1>11 DEF vars, TInv, TypeOK, PeersOpposite, FullMeansSent, wiring, data, calls, lives
<1>12. QED BY <1>1, <1>2, <1>3, <1>4, <1>5, <1>6, <1>7, <1>8, <1>9, <1>10, <1>11 DEF Next

(* The members of the ports keep the types of their declarations. *)
THEOREM PortsTypeCorrect == Spec => []TypeOK
<1>1. TInv => TypeOK
  BY DEF TInv
<1>2. QED BY <1>1, TypeInit, TypeStep, PTL DEF Spec

-----------------------------------------------------------------------------
(* The wiring.                                                             *)

(* The steps that are not a connect() leave the wiring alone. *)
Rewire ==
    \/ \E p, q \in Port : Connect(p, q)
    \/ \E b, c \in Bidirectional : BiConnect(b, c)

(* Only connect() wires; a callback is called over a connection.           *)
LEMMA WiringSteps ==
    ASSUME [Next]_vars, ~Rewire
    PROVE  UNCHANGED wiring /\ called' \subseteq called \cup {<<o, peer[o]>> : o \in {x \in CallbackOuts : peer[x] # None}}
<1>1. ASSUME NEW o \in Outs, Send(o) \/ ClearOut(o)
      PROVE  UNCHANGED wiring /\ called' = called
  BY <1>1 DEF Send, ClearOut, calls
<1>2. ASSUME NEW i \in Ins, ClearIn(i) \/ Receive(i) \/ ReceiveFails(i)
      PROVE  UNCHANGED wiring /\ called' = called
  BY <1>2 DEF ClearIn, ClearOut, Receive, Take, ReceiveFails, calls
<1>3. ASSUME NEW b \in Bidirectional, ReceiveIn(b)
      PROVE  UNCHANGED wiring /\ called' = called
  BY <1>3 DEF ReceiveIn, Take, Garble, calls
<1>4. ASSUME NEW i \in CallbackIns, NEW given \in BOOLEAN, SetCallback(i, given)
      PROVE  UNCHANGED wiring /\ called' = called
  BY <1>4 DEF SetCallback
<1>5. ASSUME NEW o \in CallbackOuts, CallbackSend(o)
      PROVE  UNCHANGED wiring /\ peer[o] # None /\ called' = called \cup {<<o, peer[o]>>}
  BY <1>5 DEF CallbackSend
<1>6. ASSUME NEW p \in Port, CreatePort(p) \/ FollowDangling(p)
      PROVE  UNCHANGED wiring /\ called' = called
  BY <1>6 DEF CreatePort, Replace, FollowDangling, calls
<1>7. ASSUME NEW m \in Doomed, DestroyModule(m)
      PROVE  UNCHANGED wiring /\ called' = called
  BY <1>7 DEF DestroyModule, Replace, calls
<1>8. CASE UNCHANGED vars
  BY <1>8 DEF vars, calls
<1>9. CASE Next
  BY <1>1, <1>2, <1>3, <1>4, <1>5, <1>6, <1>7, <1>9 DEF Next, Rewire
<1>10. QED BY <1>8, <1>9

(* connect() casts to the class its port exchanges payloads with, so that  *)
(* whatever is wired, by whom and how often, every connection joins ports  *)
(* of opposite directions and equal payloads.                              *)
THEOREM LinksCompatibleAlways == Spec => []LinksCompatible
<1>1. Init => LinksCompatible
  BY DEF Init, LinksCompatible
<1>2. TInv /\ LinksCompatible /\ [Next]_vars => LinksCompatible'
  <2>1. SUFFICES ASSUME TInv, LinksCompatible, [Next]_vars PROVE LinksCompatible'
    OBVIOUS
  <2>2. peer \in [Port -> Port \cup {None}]
    BY <2>1 DEF TInv, TypeOK
  <2>3. ASSUME NEW p \in Port, NEW q \in Port, Connect(p, q) PROVE LinksCompatible'
    <3>1. Accepts(p, q) /\ type[p] = type[q] /\ peer' = [peer EXCEPT ![p] = q, ![q] = p]
      BY <2>3 DEF Connect, Link, Accepts
    <3>2. QED BY <2>1, <2>2, <3>1 DEF LinksCompatible
  <2>4. ASSUME NEW b \in Bidirectional, NEW c \in Bidirectional, BiConnect(b, c)
        PROVE  LinksCompatible'
    <3>1. /\ Accepts(b[1], c[2]) /\ type[b[1]] = type[c[2]]
          /\ Accepts(b[2], c[1]) /\ type[b[2]] = type[c[1]]
          /\ peer' = [[peer EXCEPT ![b[1]] = c[2], ![c[2]] = b[1]] EXCEPT ![b[2]] = c[1], ![c[1]] = b[2]]
      BY <2>4 DEF BiConnect, Link, Accepts
    <3>2. QED BY <2>1, <2>2, <3>1, PortFacts DEF LinksCompatible
  <2>5. CASE ~Rewire
    BY <2>1, <2>5, WiringSteps DEF LinksCompatible, wiring
  <2>6. QED BY <2>3, <2>4, <2>5 DEF Rewire
<1>3. QED BY <1>1, <1>2, TypeInit, TypeStep, PTL DEF Spec

(* As long as connect() replaces no connection, both ends name each other, *)
(* contracts are probed along the connection, and callbacks are called     *)
(* over it.                                                                *)
THEOREM LinksMutualAlways == Spec => []LinksMutual
<1>1. Init => LinksMutual
  BY PortFacts DEF Init, LinksMutual
<1>2. TInv /\ LinksMutual /\ [Next]_vars => LinksMutual'
  <2>1. SUFFICES ASSUME TInv, LinksMutual, [Next]_vars, ~rewired' PROVE LinksMutual'
    BY DEF LinksMutual
  <2>2. /\ peer \in [Port -> Port \cup {None}]
        /\ contractPeer \in [ContractPorts -> ContractPorts \cup {None}]
        /\ called \subseteq CallbackOuts \X CallbackIns
    BY <2>1 DEF TInv, TypeOK
  <2>3. ASSUME NEW p \in Port, NEW q \in Port, Connect(p, q) PROVE LinksMutual'
    <3>1. /\ Accepts(p, q) /\ ~rewired /\ peer' = [peer EXCEPT ![p] = q, ![q] = p]
          /\ peer[p] \in {None, q} /\ peer[q] \in {None, p}
          /\ contractPeer' = IF p \in ContractPorts THEN [contractPeer EXCEPT ![p] = q, ![q] = p]
                             ELSE contractPeer
          /\ called' = called
      BY <2>1, <2>3 DEF Connect, Link, Replaces, calls
    <3>2. /\ \A r \in Port : peer[r] # None => peer[peer[r]] = r
          /\ \A r \in ContractPorts :
                 contractPeer[r] = IF peer[r] \in ContractPorts THEN peer[r] ELSE None
          /\ \A c \in called : peer[c[2]] = c[1]
      BY <2>1, <3>1 DEF LinksMutual
    <3>3. p # q /\ (p \in ContractPorts => q \in ContractPorts)
      BY <3>1, AcceptsFacts
    <3>4. \A r \in Port : peer'[r] # None => peer'[peer'[r]] = r
      BY <2>2, <3>1, <3>2, <3>3, PortFacts
    <3>5. \A r \in ContractPorts :
              contractPeer'[r] = IF peer'[r] \in ContractPorts THEN peer'[r] ELSE None
      BY <2>2, <3>1, <3>2, <3>3, PortFacts
    <3>6. \A c \in called' : peer'[c[2]] = c[1]
      <4>1. SUFFICES ASSUME NEW c \in called PROVE peer'[c[2]] = c[1]
        BY <3>1
      <4>2. c[1] \in Port /\ c[2] \in Port /\ peer[c[2]] = c[1] /\ peer[c[1]] = c[2]
        BY <2>2, <3>2, PortFacts
      <4>3. QED BY <2>2, <3>1, <4>2, PortFacts
    <3>7. QED BY <3>4, <3>5, <3>6 DEF LinksMutual
  <2>4. ASSUME NEW b \in Bidirectional, NEW c \in Bidirectional, BiConnect(b, c)
        PROVE  LinksMutual'
    <3>1. /\ peer' = [[peer EXCEPT ![b[1]] = c[2], ![c[2]] = b[1]] EXCEPT ![b[2]] = c[1], ![c[1]] = b[2]]
          /\ ~rewired /\ UNCHANGED <<contractPeer, called>>
          /\ peer[b[1]] \in {None, c[2]} /\ peer[c[2]] \in {None, b[1]}
          /\ peer[b[2]] \in {None, c[1]} /\ peer[c[1]] \in {None, b[2]}
      BY <2>1, <2>4 DEF BiConnect, Link, Replaces, calls
    <3>2. /\ \A r \in Port : peer[r] # None => peer[peer[r]] = r
          /\ \A r \in ContractPorts :
                 contractPeer[r] = IF peer[r] \in ContractPorts THEN peer[r] ELSE None
          /\ \A k \in called : peer[k[2]] = k[1]
      BY <2>1, <3>1 DEF LinksMutual
    <3>3. /\ b[1] \in Outs /\ b[2] \in Ins /\ c[1] \in Outs /\ c[2] \in Ins
          /\ b # c => b[1] # c[1] /\ b[2] # c[2]
      BY PortFacts
    <3>4. \A r \in Port : peer'[r] # None => peer'[peer'[r]] = r
      <4>1. CASE b = c
        BY <2>2, <3>1, <3>2, <3>3, <4>1, PortFacts
      <4>2. CASE b # c
        BY <2>2, <3>1, <3>2, <3>3, <4>2, PortFacts
      <4>3. QED BY <4>1, <4>2
    <3>5. \A r \in ContractPorts \cup CallbackOuts \cup CallbackIns : peer'[r] = peer[r]
      <4>1. \A r \in ContractPorts \cup CallbackOuts \cup CallbackIns :
                r \in Port /\ r \notin {b[1], b[2], c[1], c[2]}
        BY <3>3, PortAssumption DEF ContractPorts, CallbackOuts, CallbackIns, Outs, Ins, OfKind
      <4>2. QED BY <2>2, <3>1, <4>1
    <3>6. \A k \in called : k[2] \in CallbackIns
      BY <2>2
    <3>7. QED BY <3>1, <3>2, <3>4, <3>5, <3>6 DEF LinksMutual
  <2>5. CASE ~Rewire
    <3>1. /\ UNCHANGED <<peer, contractPeer, rewired>>
          /\ called' \subseteq called \cup {<<o, peer[o]>> : o \in {x \in CallbackOuts : peer[x] # None}}
      BY <2>1, <2>5, WiringSteps DEF wiring
    <3>2. \A c \in called' : peer[c[2]] = c[1]
      <4>1. \A c \in called : peer[c[2]] = c[1]
        BY <2>1, <3>1 DEF LinksMutual
      <4>2. \A o \in CallbackOuts : peer[o] # None => peer[peer[o]] = o
        BY <2>1, <3>1, PortFacts DEF LinksMutual
      <4>3. QED BY <3>1, <4>1, <4>2
    <3>3. QED BY <2>1, <3>1, <3>2 DEF LinksMutual
  <2>6. QED BY <2>3, <2>4, <2>5 DEF Rewire
<1>3. QED BY <1>1, <1>2, TypeInit, TypeStep, PTL DEF Spec

-----------------------------------------------------------------------------
(* The lives of the ports.                                                 *)

(* A connection is never undone, so a port that anybody points at reports  *)
(* connected(); until such a port dies, those that do so are living.       *)
EndsKnow ==
    /\ \A p \in Port : peer[p] # None => peer[peer[p]] # None
    /\ \A p \in ContractPorts : contractPeer[p] # None => peer[contractPeer[p]] # None

ConnectedLive == ~severed => \A p \in Port : peer[p] # None => life[p] = "living"

LifeInv == EndsKnow /\ ConnectedLive /\ (~severed => status # "undefined")

(* What it says of the pointers. *)
LEMMA LifeMeans == TInv /\ LifeInv => NoDanglingLink
<1>1. SUFFICES ASSUME TInv, LifeInv, ~severed PROVE NoDanglingLink
  BY DEF NoDanglingLink
<1>2. /\ peer \in [Port -> Port \cup {None}]
      /\ contractPeer \in [ContractPorts -> ContractPorts \cup {None}]
  BY <1>1 DEF TInv, TypeOK
<1>3. \A p \in Port : peer[p] # None => life[peer[p]] = "living"
  BY <1>1, <1>2 DEF LifeInv, EndsKnow, ConnectedLive
<1>4. \A p \in ContractPorts : contractPeer[p] # None => life[contractPeer[p]] = "living"
  BY <1>1, <1>2, PortFacts DEF LifeInv, EndsKnow, ConnectedLive
<1>5. QED BY <1>1, <1>3, <1>4 DEF NoDanglingLink, LifeInv, Dangles

(* The steps that wire nothing and let no port die.                        *)
LEMMA LifeFrame ==
    ASSUME TInv, LifeInv, UNCHANGED <<peer, contractPeer, lives>>,
           status' = "undefined" => severed
    PROVE  LifeInv'
BY DEF LifeInv, EndsKnow, ConnectedLive, lives

(* Ports die without being connected, or it is recorded.                   *)
LEMMA LifeReplace ==
    ASSUME TInv, LifeInv, NEW dying \in SUBSET Port, NEW born, Replace(dying, born)
    PROVE  LifeInv'
<1>1. /\ UNCHANGED <<peer, contractPeer, status>>
      /\ life' = [p \in Port |-> IF p \in born THEN "living"
                                 ELSE IF p \in dying THEN "dead" ELSE life[p]]
      /\ ~severed' => ~severed /\ \A p \in dying : peer[p] = None
  BY DEF Replace, wiring
<1>2. ConnectedLive'
  BY <1>1 DEF LifeInv, ConnectedLive
<1>3. QED BY <1>1, <1>2 DEF LifeInv, EndsKnow

(* connect() joins living ports, and both ends know.                       *)
LEMMA LifeConnect ==
    ASSUME TInv, LifeInv, Rewire
    PROVE  LifeInv'
<1>1. /\ peer \in [Port -> Port \cup {None}]
      /\ contractPeer \in [ContractPorts -> ContractPorts \cup {None}]
  BY DEF TInv, TypeOK
<1>2. ASSUME NEW p \in Port, NEW q \in Port, Connect(p, q) PROVE LifeInv'
  <2>1. /\ Accepts(p, q) /\ status = "running"
        /\ life[p] = "living" /\ life[q] = "living"
        /\ peer' = [peer EXCEPT ![p] = q, ![q] = p]
        /\ contractPeer' = IF p \in ContractPorts THEN [contractPeer EXCEPT ![p] = q, ![q] = p]
                           ELSE contractPeer
        /\ UNCHANGED <<life, severed, status>>
    BY <1>2 DEF Connect, Running, Link, lives
  <2>2. p \in ContractPorts => q \in ContractPorts
    BY <2>1, AcceptsFacts
  <2>3. \A r \in Port : /\ r \in {p, q} => peer'[r] \in {p, q}
                        /\ r \notin {p, q} => peer'[r] = peer[r]
    BY <1>1, <2>1
  <2>4. \A r \in ContractPorts : contractPeer'[r] \in {p, q} \/ contractPeer'[r] = contractPeer[r]
    BY <1>1, <2>1, <2>2
  <2>5. \A r \in Port : peer[r] # None => peer'[r] # None
    BY <2>3, PortFacts
  <2>6. EndsKnow'
    <3>1. \A r \in Port : peer'[r] # None => peer'[peer'[r]] # None
      BY <1>1, <2>3, <2>5, PortFacts DEF LifeInv, EndsKnow
    <3>2. \A r \in ContractPorts : contractPeer'[r] # None => peer'[contractPeer'[r]] # None
      <4>1. peer'[p] # None /\ peer'[q] # None
        BY <2>3, PortFacts
      <4>2. \A r \in ContractPorts : contractPeer[r] # None => peer'[contractPeer[r]] # None
        BY <1>1, <2>5, PortFacts DEF LifeInv, EndsKnow
      <4>3. QED BY <2>4, <4>1, <4>2
    <3>3. QED BY <3>1, <3>2 DEF EndsKnow
  <2>7. ConnectedLive'
    BY <2>1, <2>3 DEF LifeInv, ConnectedLive
  <2>8. QED BY <2>1, <2>6, <2>7 DEF LifeInv
<1>3. ASSUME NEW b \in Bidirectional, NEW c \in Bidirectional, BiConnect(b, c) PROVE LifeInv'
  <2>1. /\ status = "running" /\ life[b[1]] = "living" /\ life[c[1]] = "living"
        /\ life[b[2]] = "living" /\ life[c[2]] = "living"
        /\ peer' = [[peer EXCEPT ![b[1]] = c[2], ![c[2]] = b[1]] EXCEPT ![b[2]] = c[1], ![c[1]] = b[2]]
        /\ UNCHANGED <<contractPeer, life, severed, status>>
    BY <1>3 DEF BiConnect, Running, Link, lives
  <2>2. /\ b[1] \in Port /\ b[2] \in Port /\ c[1] \in Port /\ c[2] \in Port
    BY PortFacts
  <2>3. \A r \in Port : /\ r \in {b[1], b[2], c[1], c[2]} => peer'[r] \in {b[1], b[2], c[1], c[2]}
                        /\ r \notin {b[1], b[2], c[1], c[2]} => peer'[r] = peer[r]
    BY <1>1, <2>1, <2>2
  <2>4. \A r \in Port : peer[r] # None => peer'[r] # None
    BY <2>2, <2>3, PortFacts
  <2>5. EndsKnow'
    <3>1. \A r \in Port : peer'[r] # None => peer'[peer'[r]] # None
      BY <1>1, <2>2, <2>3, <2>4, PortFacts DEF LifeInv, EndsKnow
    <3>2. \A r \in ContractPorts : contractPeer'[r] # None => peer'[contractPeer'[r]] # None
      BY <1>1, <2>1, <2>4, PortFacts DEF LifeInv, EndsKnow
    <3>3. QED BY <3>1, <3>2 DEF EndsKnow
  <2>6. ConnectedLive'
    BY <2>1, <2>3 DEF LifeInv, ConnectedLive
  <2>7. QED BY <2>1, <2>5, <2>6 DEF LifeInv
<1>4. QED BY <1>2, <1>3 DEF Rewire

(* Every step keeps it. *)
LEMMA LifeStep == TInv /\ LifeInv /\ [Next]_vars => LifeInv'
<1>1. SUFFICES ASSUME TInv, LifeInv, [Next]_vars PROVE LifeInv'
  OBVIOUS
<1>2. CASE Rewire
  BY <1>1, <1>2, LifeConnect
<1>3. ASSUME NEW p \in Port, CreatePort(p) PROVE LifeInv'
  <2>1. Living({q \in Port : place[q] = place[p]}) \in SUBSET Port
    BY DEF Living
  <2>2. QED BY <1>1, <1>3, <2>1, LifeReplace DEF CreatePort
<1>4. ASSUME NEW m \in Doomed, DestroyModule(m) PROVE LifeInv'
  <2>1. Living({q \in Port : place[q][1] = m}) \in SUBSET Port
    BY DEF Living
  <2>2. QED BY <1>1, <1>4, <2>1, LifeReplace DEF DestroyModule
<1>5. ASSUME NEW p \in Port, FollowDangling(p) PROVE LifeInv'
  <2>1. severed
    <3>1. CASE p \in Ins \cup CallbackOuts /\ Dangles(peer[p])
      BY <1>1, <3>1, LifeMeans DEF NoDanglingLink
    <3>2. CASE p \in ContractPorts /\ Dangles(contractPeer[p])
      BY <1>1, <3>2, LifeMeans DEF NoDanglingLink
    <3>3. QED BY <1>5, <3>1, <3>2 DEF FollowDangling
  <2>2. QED BY <1>1, <1>5, <2>1, LifeFrame DEF FollowDangling, wiring
<1>6. ASSUME \/ \E o \in Outs : Send(o) \/ ClearOut(o)
             \/ \E i \in Ins : ClearIn(i) \/ Receive(i) \/ ReceiveFails(i)
             \/ \E b \in Bidirectional : ReceiveIn(b)
             \/ \E i \in CallbackIns : \E given \in BOOLEAN : SetCallback(i, given)
             \/ \E o \in CallbackOuts : CallbackSend(o)
      PROVE  LifeInv'
  <2>1. UNCHANGED <<peer, contractPeer, lives>>
    BY <1>6, Zenon DEF Send, ClearOut, ClearIn, Receive, ReceiveFails, ReceiveIn, Take, Garble, SetCallback,
                CallbackSend, wiring
  <2>2. status' = status \/ status' = "misused"
    BY <1>6, Zenon DEF Send, ClearOut, ClearIn, Receive, ReceiveFails, ReceiveIn, Take, Garble, SetCallback,
                CallbackSend
  <2>3. QED BY <1>1, <2>1, <2>2, LifeFrame DEF LifeInv
<1>7. CASE UNCHANGED vars
  BY <1>1, <1>7, LifeFrame DEF vars, wiring, LifeInv
<1>8. QED BY <1>1, <1>2, <1>3, <1>4, <1>5, <1>6, <1>7 DEF Next, Rewire

(* As long as no port dies that reports connected(), no pointer to a dead  *)
(* port is left behind, whatever was rewired, and none is followed.        *)
THEOREM NoDanglingLinkAlways == Spec => []NoDanglingLink
<1>1. Init => LifeInv
  <2>1. SUFFICES ASSUME Init PROVE LifeInv
    OBVIOUS
  <2>2. \A p \in Port : peer[p] = None
    BY <2>1 DEF Init
  <2>3. \A p \in ContractPorts : contractPeer[p] = None
    BY <2>1 DEF Init
  <2>4. status = "running"
    BY <2>1 DEF Init
  <2>5. QED BY <2>2, <2>3, <2>4 DEF LifeInv, EndsKnow, ConnectedLive
<1>2. QED BY <1>1, TypeInit, TypeStep, LifeStep, LifeMeans, PTL DEF Spec

-----------------------------------------------------------------------------
(* The payloads.                                                           *)

(* What was received from an out port is not newer than what it holds, and *)
(* older when that still waits: the next receive() continues the order.    *)
NothingNewer ==
    \A o \in Outs :
        /\ storage[o] <= sent
        /\ \A n \in 1..Len(got[o]) :
               got[o][n] <= storage[o] /\ (full[o] => got[o][n] < storage[o])

OrderInv == ReceivedOnceInOrder /\ NothingNewer

Received == [o \in Outs |-> ReceivedFrom(o)]

(* Payloads that left their port otherwise than by receive(). *)
Removed == cleared \cup garbled

(* What a port holds, or gave away, was sent from it; a payload that waits *)
(* has met no other fate, and one that was removed, replaced or received   *)
(* was sent.                                                               *)
Origins ==
    /\ \A o \in Outs : storage[o] # 0 => storage[o] \in 1..sent /\ sender[storage[o]] = o
    /\ \A o \in Outs : Received[o] \subseteq {m \in 1..sent : sender[m] = o}
    /\ \A o \in Outs : full[o] => /\ storage[o] # 0
                                /\ storage[o] \notin Received[o] \cup Removed \cup replaced
    /\ Removed \cup replaced \subseteq 1..sent

Fates ==
    \A m \in 1..sent :
        /\ m \in Received[sender[m]] \cup Removed \cup replaced
              \/ (full[sender[m]] /\ storage[sender[m]] = m)
        /\ m \in replaced => m \notin Received[sender[m]] \cup Removed

DataInv == OrderInv /\ Origins /\ Fates

(* The types of the parts of the state these speak of. *)
LEMMA DataTypes ==
    ASSUME TypeOK
    PROVE  /\ sent \in Nat /\ MaxSends \in Nat
           /\ sender \in Seq(Outs) /\ Len(sender) = sent /\ \A m \in 1..sent : sender[m] \in Outs
           /\ storage \in [Outs -> Nat] /\ full \in [Outs -> BOOLEAN]
           /\ got \in [Outs -> Seq(Nat)]
           /\ \A o \in Outs : /\ got[o] \in Seq(Nat) /\ Len(got[o]) \in Nat
                              /\ \A n \in 1..Len(got[o]) : got[o][n] \in Nat
<1>1. MaxSends \in Nat /\ sent \in Nat /\ sender \in Seq(Outs) /\ Len(sender) = sent
  BY PortAssumption DEF TypeOK
<1>2. \A m \in 1..sent : sender[m] \in Outs
  BY <1>1, ElementOfSeq
<1>3. 0..MaxSends \subseteq Nat
  BY <1>1
<1>4. \A o \in Outs : got[o] \in Seq(Nat)
  BY <1>3, SeqMonotonic DEF TypeOK
<1>5. \A o \in Outs : Len(got[o]) \in Nat /\ \A n \in 1..Len(got[o]) : got[o][n] \in Nat
  BY <1>4, LenProperties, ElementOfSeq
<1>6. storage \in [Outs -> Nat] /\ full \in [Outs -> BOOLEAN] /\ got \in [Outs -> Seq(Nat)]
  BY <1>3, <1>4 DEF TypeOK
<1>7. QED BY <1>1, <1>2, <1>4, <1>5, <1>6

(* A new payload is newer than all; the one it overwrites, if it waited,   *)
(* becomes the replaced one.                                               *)
LEMMA DataSend ==
    ASSUME TInv, DataInv, NEW o \in Outs, Send(o)
    PROVE  DataInv'
<1> DEFINE n == sent + 1
<1>1. /\ sent' = n /\ sender' = Append(sender, o)
      /\ storage' = [storage EXCEPT ![o] = n] /\ full' = [full EXCEPT ![o] = TRUE]
      /\ replaced' = IF full[o] THEN replaced \cup {storage[o]} ELSE replaced
      /\ got' = got /\ Removed' = Removed
  BY DEF Send, Removed
<1>2. /\ sent \in Nat /\ sender \in Seq(Outs) /\ Len(sender) = sent
      /\ \A m \in 1..sent : sender[m] \in Outs
      /\ storage \in [Outs -> Nat] /\ full \in [Outs -> BOOLEAN] /\ got \in [Outs -> Seq(Nat)]
      /\ \A q \in Outs : \A k \in 1..Len(got[q]) : got[q][k] \in Nat
  BY DataTypes DEF TInv
<1>3. /\ n \in Nat /\ 1..n = 1..sent \cup {n} /\ n \notin 1..sent /\ n # 0 /\ sent < n
      /\ \A m \in 1..sent : sender'[m] = sender[m]
      /\ sender'[n] = o
  BY <1>1, <1>2, AppendProperties
<1>4. Received' = Received
  BY <1>1 DEF Received, ReceivedFrom
<1>5. OrderInv'
  <2>1. \A q \in Outs : storage'[q] = IF q = o THEN n ELSE storage[q]
    BY <1>1, <1>2
  <2>2. \A q \in Outs : full'[q] = IF q = o THEN TRUE ELSE full[q]
    BY <1>1, <1>2
  <2>3. \A q \in Outs : \A k \in 1..Len(got[q]) : got[q][k] <= storage[q] /\ storage[q] <= sent
    BY DEF DataInv, OrderInv, NothingNewer
  <2>4. \A k \in 1..Len(got[o]) : got[o][k] < n
    <3>1. \A k \in 1..Len(got[o]) : got[o][k] \in Nat /\ storage[o] \in Nat
      BY <1>2
    <3>2. QED BY <1>2, <2>3, <3>1
  <2>5. NothingNewer'
    <3>1. SUFFICES ASSUME NEW q \in Outs
                   PROVE  /\ storage'[q] <= n
                          /\ \A k \in 1..Len(got[q]) : /\ got[q][k] <= storage'[q]
                                                       /\ full'[q] => got[q][k] < storage'[q]
      BY <1>1 DEF NothingNewer
    <3>2. CASE q = o
      BY <1>2, <1>3, <2>1, <2>4, <3>2
    <3>3. CASE q # o
      <4>1. storage'[q] = storage[q] /\ full'[q] = full[q]
        BY <2>1, <2>2, <3>3
      <4>2. storage[q] \in Nat /\ storage[q] <= sent
        BY <1>2, <2>3 DEF DataInv, OrderInv, NothingNewer
      <4>3. storage[q] <= n
        BY <1>2, <1>3, <4>2
      <4>4. QED BY <4>1, <4>3 DEF DataInv, OrderInv, NothingNewer
    <3>4. QED BY <3>2, <3>3
  <2>6. ReceivedOnceInOrder'
    BY <1>1 DEF DataInv, OrderInv, ReceivedOnceInOrder
  <2>7. QED BY <2>5, <2>6 DEF OrderInv
<1> HIDE DEF n
<1>6. Origins'
  <2>1. \A q \in Outs : storage'[q] # 0 => storage'[q] \in 1..n /\ sender'[storage'[q]] = q
    BY <1>1, <1>2, <1>3 DEF DataInv, Origins
  <2>2. \A q \in Outs : Received[q] \subseteq {m \in 1..n : sender'[m] = q}
    BY <1>3 DEF DataInv, Origins
  <2>3. replaced' \subseteq 1..sent /\ Removed \subseteq 1..sent
    BY <1>1 DEF DataInv, Origins
  <2>4. ASSUME NEW q \in Outs, full'[q]
        PROVE  storage'[q] # 0 /\ storage'[q] \notin Received[q] \cup Removed \cup replaced'
    <3>1. CASE q = o
      <4>1. storage'[q] = n
        BY <1>1, <1>2, <3>1
      <4>2. n \notin Received[q]
        BY <1>3 DEF DataInv, Origins
      <4>3. QED BY <1>3, <2>3, <4>1, <4>2
    <3>2. CASE q # o
      <4>1. full[q] /\ storage'[q] = storage[q]
        BY <1>1, <1>2, <2>4, <3>2
      <4>2. full[o] => storage[o] # storage[q]
        BY <3>2, <4>1 DEF DataInv, Origins
      <4>3. QED BY <1>1, <4>1, <4>2 DEF DataInv, Origins
    <3>3. QED BY <3>1, <3>2
  <2>5. QED BY <1>1, <1>4, <1>3, <2>1, <2>2, <2>3, <2>4 DEF Origins
<1>7. Fates'
  <2>1. SUFFICES ASSUME NEW m \in 1..n
                 PROVE  /\ m \in Received[sender'[m]] \cup Removed \cup replaced'
                              \/ (full'[sender'[m]] /\ storage'[sender'[m]] = m)
                        /\ m \in replaced' => m \notin Received[sender'[m]] \cup Removed
    BY <1>1, <1>4 DEF Fates
  <2>2. CASE m = n
    <3>1. n \notin replaced'
      <4>1. n \notin replaced /\ (full[o] => storage[o] \in 1..sent)
        BY <1>3 DEF DataInv, Origins
      <4>2. QED BY <1>1, <1>3, <4>1
    <3>2. sender'[m] = o /\ full'[o] /\ storage'[o] = m
      BY <1>1, <1>2, <1>3, <2>2
    <3>3. QED BY <2>2, <3>1, <3>2
  <2>3. CASE m \in 1..sent
    <3>1. sender'[m] = sender[m] /\ sender[m] \in Outs
      BY <1>2, <1>3, <2>3
    <3>2. CASE full[o] /\ storage[o] = m
      <4>1. sender[m] = o /\ m \notin Received[o] \cup Removed
        BY <3>2 DEF DataInv, Origins
      <4>2. QED BY <1>1, <3>1, <3>2, <4>1
    <3>3. CASE ~(full[o] /\ storage[o] = m)
      <4>1. m \in replaced' <=> m \in replaced
        BY <1>1, <3>3
      <4>2. sender[m] = o => ~(full[sender[m]] /\ storage[sender[m]] = m)
        BY <3>3
      <4>3. sender[m] # o => full'[sender[m]] = full[sender[m]] /\ storage'[sender[m]] = storage[sender[m]]
        BY <1>1, <1>2, <3>1
      <4>4. QED BY <2>3, <3>1, <4>1, <4>2, <4>3 DEF DataInv, Fates
    <3>4. QED BY <3>2, <3>3
  <2>4. QED BY <1>3, <2>1, <2>2, <2>3
<1>8. QED BY <1>5, <1>6, <1>7 DEF DataInv

(* A payload that waited and leaves its port meets no second fate. *)
LEMMA DataRemove ==
    ASSUME TInv, DataInv, NEW o \in Outs, full' = [full EXCEPT ![o] = FALSE],
           Removed' = IF full[o] THEN Removed \cup {storage[o]} ELSE Removed,
           UNCHANGED <<sent, sender, storage, got, replaced>>
    PROVE  DataInv'
<1>1. /\ full' = [full EXCEPT ![o] = FALSE]
      /\ Removed' = IF full[o] THEN Removed \cup {storage[o]} ELSE Removed
      /\ UNCHANGED <<sent, sender, storage, got, replaced>>
  OBVIOUS
<1>2. /\ \A m \in 1..sent : sender[m] \in Outs
      /\ full \in [Outs -> BOOLEAN]
  BY DataTypes DEF TInv
<1>3. Received' = Received
  BY <1>1 DEF Received, ReceivedFrom
<1>4. \A q \in Outs : full'[q] => full[q] /\ q # o
  BY <1>1, <1>2
<1>5. OrderInv'
  BY <1>1, <1>4 DEF DataInv, OrderInv, ReceivedOnceInOrder, NothingNewer
<1>6. Origins'
  <2>1. \A q \in Outs : full'[q] => storage[q] \notin Received[q] \cup Removed' \cup replaced
    <3>1. SUFFICES ASSUME NEW q \in Outs, full'[q]
                   PROVE  storage[q] \notin Received[q] \cup Removed' \cup replaced
      OBVIOUS
    <3>2. full[q] /\ q # o
      BY <1>4, <3>1
    <3>3. full[o] => storage[q] # storage[o]
      BY <3>2 DEF DataInv, Origins
    <3>4. QED BY <1>1, <3>2, <3>3 DEF DataInv, Origins
  <2>2. Removed' \cup replaced \subseteq 1..sent
    BY <1>1 DEF DataInv, Origins
  <2>3. QED BY <1>1, <1>3, <1>4, <2>1, <2>2 DEF DataInv, Origins
<1>7. Fates'
  <2>1. SUFFICES ASSUME NEW m \in 1..sent
                 PROVE  /\ m \in Received[sender[m]] \cup Removed' \cup replaced
                              \/ (full'[sender[m]] /\ storage[sender[m]] = m)
                        /\ m \in replaced => m \notin Received[sender[m]] \cup Removed'
    BY <1>1, <1>3 DEF Fates
  <2>2. CASE full[o] /\ storage[o] = m
    BY <1>1, <2>2 DEF DataInv, Origins
  <2>3. CASE ~(full[o] /\ storage[o] = m)
    <3>1. m \in Removed' <=> m \in Removed
      BY <1>1, <2>3
    <3>2. sender[m] # o => full'[sender[m]] = full[sender[m]]
      BY <1>1, <1>2
    <3>3. QED BY <2>3, <3>1, <3>2 DEF DataInv, Fates
  <2>4. QED BY <2>2, <2>3
<1>8. QED BY <1>5, <1>6, <1>7 DEF DataInv

(* clear() and receive_in() remove the payload. *)
LEMMA DataClear ==
    ASSUME TInv, DataInv, NEW o \in Outs, ClearOut(o) \/ (full[o] /\ Garble(o))
    PROVE  DataInv'
<1>1. /\ full' = [full EXCEPT ![o] = FALSE]
      /\ UNCHANGED <<sent, sender, storage, got, replaced>>
  BY DEF ClearOut, Garble
<1>2. Removed' = IF full[o] THEN Removed \cup {storage[o]} ELSE Removed
  BY DEF ClearOut, Garble, Removed
<1>3. QED BY <1>1, <1>2, DataRemove

(* receive() too, and what it takes is the newest of the port. *)
LEMMA DataTake ==
    ASSUME TInv, DataInv, NEW o \in Outs, full[o], Take(o)
    PROVE  DataInv'
<1>1. /\ got' = [got EXCEPT ![o] = Append(@, storage[o])]
      /\ full' = [full EXCEPT ![o] = FALSE]
      /\ UNCHANGED <<sent, sender, storage, replaced>> /\ Removed' = Removed
  BY DEF Take, Removed
<1>2. /\ \A m \in 1..sent : sender[m] \in Outs
      /\ storage \in [Outs -> Nat] /\ full \in [Outs -> BOOLEAN] /\ got \in [Outs -> Seq(Nat)]
      /\ \A q \in Outs : got[q] \in Seq(Nat) /\ Len(got[q]) \in Nat
  BY DataTypes DEF TInv
<1> DEFINE last == Len(got[o]) + 1
<1>3. /\ Len(got'[o]) = last /\ got'[o][last] = storage[o]
      /\ \A n \in 1..Len(got[o]) : got'[o][n] = got[o][n]
      /\ \A q \in Outs : q # o => got'[q] = got[q]
      /\ 1..last = 1..Len(got[o]) \cup {last} /\ last \notin 1..Len(got[o])
  <2>1. got'[o] = Append(got[o], storage[o]) /\ \A q \in Outs : q # o => got'[q] = got[q]
    BY <1>1, <1>2
  <2>2. 1..last = 1..Len(got[o]) \cup {last} /\ last \notin 1..Len(got[o])
    BY <1>2
  <2>3. QED BY <1>2, <2>1, <2>2, AppendProperties
<1>4. \A q \in Outs : Received'[q] = IF q = o THEN Received[o] \cup {storage[o]} ELSE Received[q]
  <2>1. \A q \in Outs : q # o => Received'[q] = Received[q]
    BY <1>3 DEF Received, ReceivedFrom
  <2>2. Received'[o] = {got'[o][n] : n \in 1..last}
    BY <1>3 DEF Received, ReceivedFrom
  <2>3. {got'[o][n] : n \in 1..last} = {got[o][n] : n \in 1..Len(got[o])} \cup {storage[o]}
    <3> HIDE DEF last
    <3>1. QED BY <1>3
  <2>4. QED BY <2>1, <2>2, <2>3 DEF Received, ReceivedFrom
<1>5. \A q \in Outs : full'[q] => full[q] /\ q # o
  BY <1>1, <1>2
<1>6. OrderInv'
  <2>1. \A n \in 1..Len(got[o]) : got[o][n] < storage[o]
    BY DEF DataInv, OrderInv, NothingNewer
  <2>2. ReceivedOnceInOrder'
    <3>1. SUFFICES ASSUME NEW q \in Outs, NEW m \in 1..Len(got'[q]), NEW n \in 1..Len(got'[q]), m < n
                   PROVE  got'[q][m] < got'[q][n]
      BY DEF ReceivedOnceInOrder
    <3>2. CASE q # o
      BY <1>3, <3>1, <3>2 DEF DataInv, OrderInv, ReceivedOnceInOrder
    <3>3. CASE q = o /\ n \in 1..Len(got[o])
      <4>1. m \in 1..Len(got[o])
        BY <1>2, <3>1, <3>3
      <4>2. QED BY <1>3, <3>1, <3>3, <4>1 DEF DataInv, OrderInv, ReceivedOnceInOrder
    <3>4. CASE q = o /\ n = last
      <4>1. m \in 1..Len(got[o])
        BY <1>2, <1>3, <3>1, <3>4
      <4>2. QED BY <1>3, <2>1, <3>4, <4>1
    <3>5. QED BY <1>3, <3>1, <3>2, <3>3, <3>4
  <2>3. NothingNewer'
    <3>1. SUFFICES ASSUME NEW q \in Outs
                   PROVE  /\ storage[q] <= sent
                          /\ \A n \in 1..Len(got'[q]) : /\ got'[q][n] <= storage[q]
                                                        /\ full'[q] => got'[q][n] < storage[q]
      BY <1>1 DEF NothingNewer
    <3>2. storage[q] <= sent
      BY DEF DataInv, OrderInv, NothingNewer
    <3>3. CASE q # o
      BY <1>3, <1>5, <3>2, <3>3 DEF DataInv, OrderInv, NothingNewer
    <3>4. CASE q = o
      <4>1. storage[o] <= storage[o]
        BY <1>2
      <4>2. \A n \in 1..Len(got[o]) : got'[o][n] <= storage[o]
        BY <1>3 DEF DataInv, OrderInv, NothingNewer
      <4>3. \A n \in 1..last : got'[o][n] <= storage[o]
        BY <1>3, <4>1, <4>2
      <4>4. QED BY <1>3, <1>5, <3>2, <3>4, <4>3
    <3>5. QED BY <3>3, <3>4
  <2>4. QED BY <2>2, <2>3 DEF OrderInv
<1>7. Origins'
  <2>1. \A q \in Outs : Received'[q] \subseteq {m \in 1..sent : sender[m] = q}
    BY <1>4 DEF DataInv, Origins
  <2>2. \A q \in Outs : full'[q] => storage[q] \notin Received'[q] \cup Removed \cup replaced
    BY <1>4, <1>5 DEF DataInv, Origins
  <2>3. QED BY <1>1, <1>5, <2>1, <2>2 DEF DataInv, Origins
<1>8. Fates'
  <2>1. SUFFICES ASSUME NEW m \in 1..sent
                 PROVE  /\ m \in Received'[sender[m]] \cup Removed \cup replaced
                              \/ (full'[sender[m]] /\ storage[sender[m]] = m)
                        /\ m \in replaced => m \notin Received'[sender[m]] \cup Removed
    BY <1>1 DEF Fates
  <2>2. sender[m] \in Outs
    BY <1>2
  <2>3. CASE sender[m] = o
    <3>1. storage[o] \notin replaced
      BY DEF DataInv, Origins
    <3>2. QED BY <1>4, <2>2, <2>3, <3>1 DEF DataInv, Fates
  <2>4. CASE sender[m] # o
    BY <1>1, <1>2, <1>4, <2>2, <2>4 DEF DataInv, Fates
  <2>5. QED BY <2>3, <2>4
<1>9. QED BY <1>6, <1>7, <1>8 DEF DataInv

(* Every step keeps the account of the payloads. *)
LEMMA DataStep == TInv /\ DataInv /\ [Next]_vars => DataInv'
<1>1. SUFFICES ASSUME TInv, DataInv, [Next]_vars PROVE DataInv'
  OBVIOUS
<1>2. CASE UNCHANGED data
  <2>1. UNCHANGED <<storage, full, sent, sender, got, replaced>> /\ Removed' = Removed
    BY <1>2 DEF data, Removed
  <2>2. Received' = Received
    BY <2>1 DEF Received, ReceivedFrom
  <2>3. OrderInv'
    BY <1>1, <2>1 DEF DataInv, OrderInv, ReceivedOnceInOrder, NothingNewer
  <2>4. Origins' /\ Fates'
    BY <1>1, <2>1, <2>2 DEF DataInv, Origins, Fates
  <2>5. QED BY <2>3, <2>4 DEF DataInv
<1>3. ASSUME NEW o \in Outs, Send(o) \/ ClearOut(o) PROVE DataInv'
  BY <1>1, <1>3, DataSend, DataClear
<1>4. ASSUME NEW i \in Ins, ClearIn(i) \/ Receive(i) \/ ReceiveFails(i) PROVE DataInv'
  <2>1. peer[i] # None => peer[i] \in Outs
    BY <1>1 DEF TInv, PeersOpposite
  <2>2. CASE ClearIn(i)
    BY <1>1, <2>1, <2>2, DataClear DEF ClearIn
  <2>3. CASE Receive(i)
    BY <1>1, <2>1, <2>3, DataTake DEF Receive, Receivable
  <2>4. CASE ReceiveFails(i)
    BY <1>2, <2>4 DEF ReceiveFails
  <2>5. QED BY <1>4, <2>2, <2>3, <2>4
<1>5. ASSUME NEW b \in Bidirectional, ReceiveIn(b) PROVE DataInv'
  <2>1. peer[b[2]] # None => peer[b[2]] \in Outs
    BY <1>1, PortFacts DEF TInv, PeersOpposite
  <2>2. QED BY <1>1, <1>5, <2>1, DataTake, DataClear DEF ReceiveIn, Receivable
<1>6. QED BY <1>1, <1>2, <1>3, <1>4, <1>5
          DEF Next, vars, Connect, BiConnect, SetCallback, CallbackSend, CreatePort, DestroyModule, Replace, FollowDangling

(* No port holds a payload at the start. *)
LEMMA DataInit == Init => DataInv
<1>1. SUFFICES ASSUME Init PROVE DataInv
  OBVIOUS
<1>2. /\ sent = 0 /\ 1..sent = {} /\ Removed = {} /\ replaced = {}
      /\ \A o \in Outs : storage[o] = 0 /\ ~full[o] /\ got[o] = <<>>
  BY <1>1 DEF Init, Removed
<1>3. \A o \in Outs : 1..Len(got[o]) = {} /\ Received[o] = {}
  BY <1>2 DEF Received, ReceivedFrom
<1>4. OrderInv
  BY <1>2, <1>3 DEF OrderInv, ReceivedOnceInOrder, NothingNewer
<1>5. Origins /\ Fates
  BY <1>2, <1>3 DEF Origins, Fates
<1>6. QED BY <1>4, <1>5 DEF DataInv

(* A payload is received at most once and in the order of the sends, even  *)
(* from an out port several in ports point at.                             *)
THEOREM ReceivedOnceInOrderAlways == Spec => []ReceivedOnceInOrder
<1>1. DataInv => ReceivedOnceInOrder
  BY DEF DataInv, OrderInv
<1>2. QED BY <1>1, TypeInit, TypeStep, DataInit, DataStep, PTL DEF Spec

(* Every payload sent is received, cleared, answered REPLACED, waiting, or *)
(* went down with its port, unless receive_in() took it; and REPLACED is   *)
(* answered only of payloads that met no other fate.                       *)
THEOREM NothingLostUnnoticedAlways == Spec => []NothingLostUnnoticed
<1>1. TInv /\ DataInv => NothingLostUnnoticed
  <2>1. SUFFICES ASSUME TInv, DataInv PROVE NothingLostUnnoticed
    OBVIOUS
  <2>2. \A m \in 1..sent : sender[m] \in Outs /\ Received[sender[m]] = ReceivedFrom(sender[m])
    <3>1. \A m \in 1..sent : sender[m] \in Outs
      BY <2>1, DataTypes DEF TInv
    <3>2. QED BY <3>1 DEF Received
  <2>3. QED BY <2>1, <2>2 DEF DataInv, Fates, Removed, NothingLostUnnoticed, Told, Holds, Waiting, WentDown
<1>2. QED BY <1>1, TypeInit, TypeStep, DataInit, DataStep, PTL DEF Spec
=============================================================================
