---------------------------- MODULE WebsocketHub ----------------------------
(***************************************************************************)
(* websocket_hub.go, and the /ws endpoint of webserver.go whose handlers   *)
(* register connections with it.                                           *)
(*                                                                         *)
(* One goroutine runs the hub.  Its three channels are unbuffered, so a    *)
(* send and the hub's receive are one step, and a sender is blocked until  *)
(* the hub is back at its select.  The hub alone touches the client map;   *)
(* registering and unregistering are one step each.  A broadcast is one    *)
(* step per WriteMessage, in the order the map iterates, which is any.     *)
(*                                                                         *)
(* Messages are numbered in the order in which the hub takes them.         *)
(***************************************************************************)
EXTENDS Naturals, Sequences, FiniteSets

CONSTANTS
  Conns,        \* the connections that clients make
  Producers,    \* goroutines that broadcast: flight manager, position ticker
  MaxMessages   \* bound: the producers send at most this many messages

ASSUME MessagesAssumption == MaxMessages \in Nat

VARIABLES
  \* the hub
  clients,      \* h.clients
  hub,          \* "select", or "write": in the loop of a broadcast
  todo,         \* the clients this loop has not come to yet
  \* the goroutine that serves /ws for a connection, and the connection
  handler,      \* where the goroutine is
  open,         \* Close was not called on the connection yet
  peer,         \* the other end: it reads, does not read for now, or is gone
  \* the producers
  sending,      \* the producers blocked in hub.broadcast <- message
  \* history
  sent,         \* messages that producers came to send
  accepted,     \* messages the hub took: the number of the latest
  joined,       \* accepted, when the connection was registered
  received      \* the numbers of the messages written to the connection

connVars == <<handler, open, peer>>
vars == <<clients, hub, todo, connVars, sending, sent, accepted, joined, received>>

HandlerStates == {"none", "register", "read", "unregister", "done"}

TypeOK ==
  /\ clients \in SUBSET Conns
  /\ hub \in {"select", "write"}
  /\ todo \in SUBSET clients
  /\ handler \in [Conns -> HandlerStates]
  /\ open \in [Conns -> BOOLEAN]
  /\ peer \in [Conns -> {"up", "stalled", "gone"}]
  /\ sending \in SUBSET Producers
  /\ sent \in 0 .. MaxMessages
  /\ accepted \in Nat
  /\ joined \in [Conns -> Nat]
  /\ received \in [Conns -> Seq(Nat)]

Init ==
  /\ clients = {}
  /\ hub = "select"
  /\ todo = {}
  /\ handler = [c \in Conns |-> "none"]
  /\ open = [c \in Conns |-> FALSE]
  /\ peer = [c \in Conns |-> "up"]
  /\ sending = {}
  /\ sent = 0
  /\ accepted = 0
  /\ joined = [c \in Conns |-> 0]
  /\ received = [c \in Conns |-> <<>>]

-----------------------------------------------------------------------------
(* The client asks for /ws and the upgrade succeeds.  One that fails       *)
(* returns from the handler and leaves nothing.                            *)
Upgrade(c) ==
  /\ handler[c] = "none"
  /\ handler' = [handler EXCEPT ![c] = "register"]
  /\ open' = [open EXCEPT ![c] = TRUE]
  /\ UNCHANGED <<clients, hub, todo, peer, sending, sent, accepted, joined, received>>

(* hub.register <- conn, and the handler goes on to its read loop.         *)
Register(c) ==
  /\ hub = "select"
  /\ handler[c] = "register"
  /\ clients' = clients \cup {c}
  /\ handler' = [handler EXCEPT ![c] = "read"]
  /\ joined' = [joined EXCEPT ![c] = accepted]
  /\ UNCHANGED <<hub, todo, open, peer, sending, sent, accepted, received>>

(* Mutant of ReadFails: the handler returns without unregistering.         *)
ReturnFromRead(c) ==
  /\ handler[c] = "read"
  /\ peer[c] = "gone" \/ ~open[c]
  /\ handler' = [handler EXCEPT ![c] = "done"]
  /\ UNCHANGED <<clients, hub, todo, open, peer, sending, sent, accepted, joined, received>>

(* ReadMessage fails: the client is gone, or the hub closed the connection *)
(* after a failed write.  What a client sends is read and ignored.         *)
ReadFails(c) ==
  /\ handler[c] = "read"
  /\ peer[c] = "gone" \/ ~open[c]
  /\ handler' = [handler EXCEPT ![c] = "unregister"]
  /\ UNCHANGED <<clients, hub, todo, open, peer, sending, sent, accepted, joined, received>>

(* Mutant of Unregister: the connection is forgotten but not closed.       *)
Forget(c) ==
  /\ hub = "select"
  /\ handler[c] = "unregister"
  /\ clients' = clients \ {c}
  /\ handler' = [handler EXCEPT ![c] = "done"]
  /\ UNCHANGED <<hub, todo, open, peer, sending, sent, accepted, joined, received>>

(* The deferred hub.unregister <- conn.  The hub closes a client it still  *)
(* has; one that it dropped after a failed write is closed already.        *)
Unregister(c) ==
  /\ hub = "select"
  /\ handler[c] = "unregister"
  /\ handler' = [handler EXCEPT ![c] = "done"]
  /\ \/ /\ c \in clients
        /\ clients' = clients \ {c}
        /\ open' = [open EXCEPT ![c] = FALSE]
     \/ /\ c \notin clients
        /\ UNCHANGED <<clients, open>>
  /\ UNCHANGED <<hub, todo, peer, sending, sent, accepted, joined, received>>

-----------------------------------------------------------------------------
(* A producer comes to hub.broadcast <- message.                           *)
Send(p) ==
  /\ sent < MaxMessages
  /\ p \notin sending
  /\ sending' = sending \cup {p}
  /\ sent' = sent + 1
  /\ UNCHANGED <<clients, hub, todo, connVars, accepted, joined, received>>

(* The hub takes the message and starts to write it to its clients.        *)
Broadcast(p) ==
  /\ hub = "select"
  /\ p \in sending
  /\ sending' = sending \ {p}
  /\ accepted' = accepted + 1
  /\ hub' = "write"
  /\ todo' = clients
  /\ UNCHANGED <<clients, connVars, sent, joined, received>>

(* WriteMessage succeeds.  The kernel takes the bytes of a message for a   *)
(* client that is gone as long as it does not know.  A client that does    *)
(* not read makes the call block, and there is no write deadline.          *)
WriteMessage(c) ==
  /\ hub = "write"
  /\ c \in todo
  /\ open[c] /\ peer[c] # "stalled"
  /\ received' = [received EXCEPT ![c] = Append(@, accepted)]
  /\ todo' = todo \ {c}
  /\ UNCHANGED <<clients, hub, connVars, sending, sent, accepted, joined>>

(* Mutant of WriteFails: the closed connection stays in the map.           *)
CloseOnly(c) ==
  /\ hub = "write"
  /\ c \in todo
  /\ peer[c] = "gone" \/ ~open[c]
  /\ open' = [open EXCEPT ![c] = FALSE]
  /\ todo' = todo \ {c}
  /\ UNCHANGED <<clients, hub, handler, peer, sending, sent, accepted, joined, received>>

(* Mutant of WriteFails: the loop goes over a copy of the map.             *)
DropAndRetry(c) ==
  /\ hub = "write"
  /\ c \in todo
  /\ peer[c] = "gone" \/ ~open[c]
  /\ open' = [open EXCEPT ![c] = FALSE]
  /\ clients' = clients \ {c}
  /\ UNCHANGED <<hub, todo, handler, peer, sending, sent, accepted, joined, received>>

(* Mutant of WriteFails: the first failed write ends the loop.             *)
DropAndBreak(c) ==
  /\ hub = "write"
  /\ c \in todo
  /\ peer[c] = "gone" \/ ~open[c]
  /\ open' = [open EXCEPT ![c] = FALSE]
  /\ clients' = clients \ {c}
  /\ todo' = {}
  /\ UNCHANGED <<hub, handler, peer, sending, sent, accepted, joined, received>>

(* Mutant of WriteFails: the hub sends the client to its own unregister    *)
(* channel, which nobody receives from.                                    *)
UnregisterFromHub(c) ==
  /\ hub = "write"
  /\ c \in todo
  /\ peer[c] = "gone" \/ ~open[c]
  /\ hub' = "unregister"
  /\ UNCHANGED <<clients, todo, connVars, sending, sent, accepted, joined, received>>

(* WriteMessage fails: the client is closed and dropped, and the loop goes *)
(* on.  Its handler notices at its next read.                              *)
WriteFails(c) ==
  /\ hub = "write"
  /\ c \in todo
  /\ peer[c] = "gone" \/ ~open[c]
  /\ open' = [open EXCEPT ![c] = FALSE]
  /\ clients' = clients \ {c}
  /\ todo' = todo \ {c}
  /\ UNCHANGED <<hub, handler, peer, sending, sent, accepted, joined, received>>

(* The loop is over and the hub is back at its select.                     *)
WriteDone ==
  /\ hub = "write"
  /\ todo = {}
  /\ hub' = "select"
  /\ UNCHANGED <<clients, todo, connVars, sending, sent, accepted, joined, received>>

-----------------------------------------------------------------------------
(* The clients: one may stop reading until its window and the server's     *)
(* buffers are full, read again, or go (or be given up by TCP).            *)
PeerTurns(c, from, to) ==
  /\ handler[c] \in {"register", "read", "unregister"}
  /\ peer[c] \in from
  /\ peer' = [peer EXCEPT ![c] = to]
  /\ UNCHANGED <<clients, hub, todo, handler, open, sending, sent, accepted, joined, received>>

PeerStalls(c) == PeerTurns(c, {"up"}, "stalled")
PeerResumes(c) == PeerTurns(c, {"stalled"}, "up")
PeerLeaves(c) == PeerTurns(c, {"up", "stalled"}, "gone")

Write(c) == WriteMessage(c) \/ WriteFails(c)

Next ==
  \/ \E c \in Conns : \/ Upgrade(c) \/ Register(c) \/ ReadFails(c) \/ Unregister(c)
                      \/ Write(c)
                      \/ PeerStalls(c) \/ PeerResumes(c) \/ PeerLeaves(c)
  \/ \E p \in Producers : Send(p) \/ Broadcast(p)
  \/ WriteDone

Spec == Init /\ [][Next]_vars

(* Go's select picks at random among the channels that are ready, so none  *)
(* that is ready again and again is passed over forever.  A blocked write  *)
(* goes on whenever its client reads.                                      *)
Fairness ==
  /\ \A c \in Conns : /\ SF_vars(Register(c)) /\ SF_vars(Unregister(c))
                      /\ SF_vars(Write(c)) /\ WF_vars(ReadFails(c))
  /\ \A p \in Producers : SF_vars(Broadcast(p))
  /\ WF_vars(WriteDone)

(* An assumption about the clients and the network, not about this code: a *)
(* client that stopped reading reads again or goes.                        *)
StallEnds(c) == peer[c] = "stalled" /\ (PeerResumes(c) \/ PeerLeaves(c))
StallsEnd == \A c \in Conns : WF_vars(StallEnds(c))

FairSpec == Spec /\ Fairness /\ StallsEnd

-----------------------------------------------------------------------------
(* The hub writes only to connections that are open and whose handler will *)
(* still unregister them: a client dropped after a failed write, or        *)
(* unregistered, is never in the map (run, RegisterWebsocketEndpoint).     *)
ClientsAreOpen == \A c \in clients : open[c] /\ handler[c] \in {"read", "unregister"}

(* A handler that has returned leaves no connection open and no entry in   *)
(* the map, whether the hub or the client ended the connection first.      *)
NoLeak == \A c \in Conns : handler[c] = "done" => ~open[c] /\ c \notin clients

(* The messages written to a connection are the ones the hub took since it *)
(* was registered: each once, in this order, with no gap; and a client     *)
(* misses at most the one being written, however many other clients fail   *)
(* or join meanwhile.                                                      *)
ContiguousDelivery ==
  /\ \A c \in Conns : \A i \in 1 .. Len(received[c]) : received[c][i] = joined[c] + i
  /\ \A c \in clients :
       joined[c] + Len(received[c]) = IF c \in todo THEN accepted - 1 ELSE accepted

(* No producer is blocked forever, if no client keeps its connection open  *)
(* forever without reading.                                                *)
SendersServed == \A p \in Producers : p \in sending ~> p \notin sending

(* The connection of a client that has gone is closed and forgotten, and   *)
(* its handler returns.                                                    *)
GoneClientsFreed ==
  \A c \in Conns : peer[c] = "gone" ~> handler[c] = "done" /\ ~open[c] /\ c \notin clients
=============================================================================
