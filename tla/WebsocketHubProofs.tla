------------------------- MODULE WebsocketHubProofs -------------------------
(***************************************************************************)
(* What is proved of WebsocketHub for any connections, producers and       *)
(* number of messages.                                                     *)
(***************************************************************************)
EXTENDS WebsocketHub, SequenceTheorems, TLAPS

(* At its select the hub has nothing left to write: without it, a client   *)
(* could be unregistered that a broadcast still has to come to.            *)
SelectIdle == hub = "select" => todo = {}

LEMMA SelectIdleStep == SelectIdle /\ [Next]_vars => SelectIdle'
BY DEF SelectIdle, Next, Upgrade, Register, ReadFails, Unregister, Send, Broadcast, Write,
       WriteMessage, WriteFails, WriteDone, PeerStalls, PeerResumes, PeerLeaves, PeerTurns, vars

LEMMA TypeInit == Init => TypeOK /\ SelectIdle
BY MessagesAssumption DEF Init, TypeOK, HandlerStates, SelectIdle

LEMMA TypeStep == TypeOK /\ SelectIdle /\ [Next]_vars => TypeOK'
<1> SUFFICES ASSUME TypeOK, SelectIdle, [Next]_vars PROVE TypeOK'
  OBVIOUS
<1> USE MessagesAssumption DEF TypeOK, connVars, HandlerStates
<1>1. ASSUME NEW c \in Conns, Upgrade(c) PROVE TypeOK'
  BY <1>1 DEF Upgrade
<1>2. ASSUME NEW c \in Conns, Register(c) PROVE TypeOK'
  BY <1>2 DEF Register
<1>3. ASSUME NEW c \in Conns, ReadFails(c) PROVE TypeOK'
  BY <1>3 DEF ReadFails
<1>4. ASSUME NEW c \in Conns, Unregister(c) PROVE TypeOK'
  BY <1>4 DEF Unregister, SelectIdle
<1>5. ASSUME NEW p \in Producers, Send(p) PROVE TypeOK'
  BY <1>5 DEF Send
<1>6. ASSUME NEW p \in Producers, Broadcast(p) PROVE TypeOK'
  BY <1>6 DEF Broadcast
<1>7. ASSUME NEW c \in Conns, WriteMessage(c) PROVE TypeOK'
  <2>1. Append(received[c], accepted) \in Seq(Nat)
    BY AppendProperties
  <2> QED
    BY <1>7, <2>1 DEF WriteMessage
<1>8. ASSUME NEW c \in Conns, WriteFails(c) PROVE TypeOK'
  BY <1>8 DEF WriteFails
<1>9. CASE WriteDone
  BY <1>9 DEF WriteDone
<1>10. ASSUME NEW c \in Conns, PeerStalls(c) \/ PeerResumes(c) \/ PeerLeaves(c) PROVE TypeOK'
  BY <1>10 DEF PeerStalls, PeerResumes, PeerLeaves, PeerTurns
<1>11. CASE UNCHANGED vars
  BY <1>11 DEF vars
<1> QED
  BY <1>1, <1>2, <1>3, <1>4, <1>5, <1>6, <1>7, <1>8, <1>9, <1>10, <1>11
  DEF Next, Write

(* Type correctness of the hub, the handlers and the connections.          *)
THEOREM TypeCorrect == Spec => [](TypeOK /\ SelectIdle)
BY TypeInit, TypeStep, SelectIdleStep, PTL DEF Spec

-----------------------------------------------------------------------------
(* A connection is open exactly while it waits to be registered and while  *)
(* the hub has it.                                                         *)
OpenUntilDropped ==
  \A c \in Conns : open[c] <=> handler[c] = "register" \/ c \in clients

HubInv == TypeOK /\ SelectIdle /\ ClientsAreOpen /\ OpenUntilDropped

LEMMA ConnStep == HubInv /\ [Next]_vars => ClientsAreOpen' /\ OpenUntilDropped'
<1> SUFFICES ASSUME HubInv, [Next]_vars PROVE ClientsAreOpen' /\ OpenUntilDropped'
  OBVIOUS
<1> USE DEF HubInv, TypeOK, ClientsAreOpen, OpenUntilDropped, connVars
<1>1. ASSUME NEW c \in Conns, Upgrade(c) PROVE ClientsAreOpen' /\ OpenUntilDropped'
  BY <1>1 DEF Upgrade
<1>2. ASSUME NEW c \in Conns, Register(c) PROVE ClientsAreOpen' /\ OpenUntilDropped'
  BY <1>2 DEF Register
<1>3. ASSUME NEW c \in Conns, ReadFails(c) PROVE ClientsAreOpen' /\ OpenUntilDropped'
  BY <1>3 DEF ReadFails
<1>4. ASSUME NEW c \in Conns, Unregister(c) PROVE ClientsAreOpen' /\ OpenUntilDropped'
  BY <1>4 DEF Unregister
<1>5. ASSUME NEW c \in Conns, WriteFails(c) PROVE ClientsAreOpen' /\ OpenUntilDropped'
  BY <1>5 DEF WriteFails
<1>6. CASE UNCHANGED <<clients, handler, open>>
  BY <1>6
<1> QED
  BY <1>1, <1>2, <1>3, <1>4, <1>5, <1>6
  DEF Next, Write, WriteMessage, WriteDone, Send, Broadcast, PeerStalls, PeerResumes,
      PeerLeaves, PeerTurns, vars

LEMMA ConnInit == Init => ClientsAreOpen /\ OpenUntilDropped
BY DEF Init, ClientsAreOpen, OpenUntilDropped

LEMMA HubCorrect == Spec => []HubInv
BY TypeCorrect, ConnInit, ConnStep, PTL DEF Spec, HubInv

(* The hub never holds a closed connection, or one without a handler.      *)
THEOREM HubWritesToOpen == Spec => []ClientsAreOpen
BY HubCorrect, PTL DEF HubInv

(* A finished handler leaves nothing behind.                               *)
THEOREM NothingLeaks == Spec => []NoLeak
<1>1. HubInv => NoLeak
  BY DEF HubInv, ClientsAreOpen, OpenUntilDropped, NoLeak
<1> QED
  BY <1>1, HubCorrect, PTL

-----------------------------------------------------------------------------
(* Nothing is written to a connection before it is registered.             *)
NothingReceived == \A c \in Conns : handler[c] \in {"none", "register"} => received[c] = <<>>

LEMMA NothingReceivedStep == HubInv /\ NothingReceived /\ [Next]_vars => NothingReceived'
<1> SUFFICES ASSUME HubInv, NothingReceived, [Next]_vars PROVE NothingReceived'
  OBVIOUS
<1>1. ASSUME NEW c \in Conns, WriteMessage(c) PROVE NothingReceived'
  <2>1. handler[c] \in {"read", "unregister"}
    BY <1>1 DEF WriteMessage, HubInv, TypeOK, ClientsAreOpen
  <2> QED
    BY <1>1, <2>1 DEF WriteMessage, NothingReceived, connVars, HubInv, TypeOK
<1> QED
  BY <1>1
  DEF NothingReceived, HubInv, TypeOK, Next, Upgrade, Register, ReadFails, Unregister, Send,
      Broadcast, Write, WriteFails, WriteDone, PeerStalls, PeerResumes, PeerLeaves,
      PeerTurns, connVars, vars

(* The two conjuncts of ContiguousDelivery.                                *)
InSequence ==
  \A c \in Conns : \A i \in 1 .. Len(received[c]) : received[c][i] = joined[c] + i

UpToDate ==
  \A c \in clients :
    joined[c] + Len(received[c]) = IF c \in todo THEN accepted - 1 ELSE accepted

LEMMA DeliveryStep ==
  HubInv /\ NothingReceived /\ InSequence /\ UpToDate /\ [Next]_vars
    => InSequence' /\ UpToDate'
<1> SUFFICES ASSUME HubInv, NothingReceived, InSequence, UpToDate, [Next]_vars
             PROVE  InSequence' /\ UpToDate'
  OBVIOUS
<1> USE DEF HubInv
<1>1. ASSUME NEW c \in Conns, Register(c) PROVE InSequence' /\ UpToDate'
  <2>1. received[c] = <<>> /\ todo = {}
    BY <1>1 DEF Register, NothingReceived, SelectIdle
  <2>2. InSequence'
    BY <1>1, <2>1 DEF Register, InSequence, TypeOK
  <2>3. UpToDate'
    <3>1. /\ clients' = clients \cup {c} /\ joined' = [joined EXCEPT ![c] = accepted]
          /\ joined'[c] = accepted /\ accepted \in Nat
          /\ UNCHANGED <<todo, received, accepted>>
      BY <1>1 DEF Register, TypeOK
    <3>2. joined'[c] + Len(received'[c]) = accepted'
      BY <2>1, <3>1
    <3>3. ASSUME NEW d \in clients, d # c PROVE joined'[d] + Len(received'[d]) = accepted'
      BY <2>1, <3>1, <3>3 DEF UpToDate, TypeOK
    <3> QED
      BY <2>1, <3>1, <3>2, <3>3 DEF UpToDate
  <2> QED
    BY <2>2, <2>3
<1>2. ASSUME NEW c \in Conns, Unregister(c) \/ WriteFails(c) PROVE InSequence' /\ UpToDate'
  <2>1. /\ clients' \subseteq clients /\ UNCHANGED <<received, joined, accepted>>
        /\ \A d \in clients' : d \in todo' <=> d \in todo
    BY <1>2 DEF Unregister, WriteFails, TypeOK
  <2> QED
    BY <2>1 DEF InSequence, UpToDate
<1>3. ASSUME NEW p \in Producers, Broadcast(p) PROVE InSequence' /\ UpToDate'
  <2>1. /\ todo = {} /\ todo' = clients /\ accepted' = accepted + 1
        /\ UNCHANGED <<clients, received, joined>>
    BY <1>3 DEF Broadcast, SelectIdle
  <2>2. InSequence'
    BY <2>1 DEF InSequence
  <2>3. UpToDate'
    BY <2>1 DEF UpToDate, TypeOK
  <2> QED
    BY <2>2, <2>3
<1>4. ASSUME NEW c \in Conns, WriteMessage(c) PROVE InSequence' /\ UpToDate'
  <2>1. /\ c \in todo /\ c \in clients
        /\ received' = [received EXCEPT ![c] = Append(received[c], accepted)]
        /\ todo' = todo \ {c} /\ UNCHANGED <<clients, joined, accepted>>
    BY <1>4 DEF WriteMessage, TypeOK
  <2>2. /\ Len(received'[c]) = Len(received[c]) + 1
        /\ received'[c][Len(received[c]) + 1] = accepted
        /\ \A i \in 1 .. Len(received[c]) : received'[c][i] = received[c][i]
        /\ \A d \in Conns \ {c} : received'[d] = received[d]
    BY <2>1, AppendProperties DEF TypeOK
  <2>3. /\ joined[c] + Len(received[c]) = accepted - 1
        /\ Len(received[c]) \in Nat /\ joined[c] \in Nat /\ accepted \in Nat
    BY <2>1, LenProperties DEF UpToDate, TypeOK
  <2>4. joined[c] + (Len(received[c]) + 1) = accepted
    BY <2>3
  <2>5. ASSUME NEW i \in 1 .. Len(received'[c]) PROVE received'[c][i] = joined'[c] + i
    <3>1. CASE i \in 1 .. Len(received[c])
      BY <2>1, <2>2, <3>1 DEF InSequence
    <3>2. CASE i = Len(received[c]) + 1
      BY <2>1, <2>2, <3>2, <2>4
    <3> QED
      BY <2>2, <2>3, <3>1, <3>2
  <2>6. InSequence'
    BY <2>1, <2>2, <2>5 DEF InSequence
  <2>7. UpToDate'
    <3>1. joined'[c] + Len(received'[c]) = accepted' /\ c \notin todo'
      BY <2>1, <2>2, <2>4
    <3>2. ASSUME NEW d \in clients, d # c
          PROVE  /\ joined'[d] + Len(received'[d]) = joined[d] + Len(received[d])
                 /\ d \in todo' <=> d \in todo
      BY <2>1, <2>2, <3>2 DEF TypeOK
    <3> QED
      BY <2>1, <3>1, <3>2 DEF UpToDate
  <2> QED
    BY <2>6, <2>7
<1>5. CASE UNCHANGED <<clients, todo, accepted, joined, received>>
  BY <1>5 DEF InSequence, UpToDate
<1> QED
  BY <1>1, <1>2, <1>3, <1>4, <1>5
  DEF Next, Upgrade, ReadFails, Send, Write, WriteDone, PeerStalls, PeerResumes, PeerLeaves,
      PeerTurns, vars

LEMMA DeliveryInit == Init => NothingReceived /\ InSequence /\ UpToDate
BY DEF Init, NothingReceived, InSequence, UpToDate

(* A client receives what was broadcast while it was registered: once, in  *)
(* order, without gaps.                                                    *)
THEOREM DeliveryIsContiguous == Spec => []ContiguousDelivery
<1>1. ContiguousDelivery <=> InSequence /\ UpToDate
  BY DEF ContiguousDelivery, InSequence, UpToDate
<1> QED
  BY <1>1, DeliveryInit, DeliveryStep, NothingReceivedStep, HubCorrect, PTL DEF Spec
=============================================================================
