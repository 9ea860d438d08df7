------------------------------ MODULE Realtime ------------------------------
(* The WebSocket hub of one process: connections register and unregister      *)
(* under the hub's write lock, publishers hold the read lock while they walk  *)
(* the clients, and every client has a reading and a writing goroutine around *)
(* one buffered channel that Unregister closes.                               *)
EXTENDS Integers, Sequences, FiniteSets

CONSTANTS
  Clients,     \* connections
  Users,
  Owner,       \* connection -> the user it authenticated as
  Pubs,        \* goroutines that publish
  Events,      \* what is published: [user, channels]
  Channels,    \* what a client subscribes to
  Buffer,      \* clientBuffer
  MaxPub,      \* bound: published events
  MaxSub       \* bound: subscribe requests per connection

ASSUME RealtimeAssumption ==
  /\ Owner \in [Clients -> Users]
  /\ Buffer \in Nat \ {0} /\ MaxPub \in Nat /\ MaxSub \in Nat
  /\ Events \subseteq [user : Users, channels : SUBSET Channels]

VARIABLES
  conn,      \* connection -> "none", "open" or "closed"
  clients,   \* Hub.clients
  gone,      \* clients whose channel Unregister closed
  send,      \* client -> the owners of the events waiting in its channel
  subs,      \* client -> its subscriptions
  reader,    \* client -> readPump
  writer,    \* client -> writePump
  pub,       \* publisher -> its PublishToUser
  panicked,  \* a goroutine sent on a closed channel
  pubs, asks
hubVars == <<conn, clients, gone, send, subs, reader, writer, pub, panicked, pubs, asks>>

NoPub == [pc |-> "idle", ev |-> {}, todo |-> {}, slow |-> {}]
HubInit ==
  /\ conn = [c \in Clients |-> "none"]
  /\ clients = {} /\ gone = {}
  /\ send = [c \in Clients |-> <<>>]
  /\ subs = [c \in Clients |-> {}]
  /\ reader = [c \in Clients |-> "off"] /\ writer = [c \in Clients |-> "off"]
  /\ pub = [p \in Pubs |-> NoPub]
  /\ panicked = FALSE /\ pubs = 0 /\ asks = [c \in Clients |-> 0]

\* The hub's RWMutex: publishers in their walk hold it for reading, and Lock
\* waits for all of them.
RLocked == {p \in Pubs : pub[p].pc = "walk"}
MutWriteLock == TRUE
WriteLock == RLocked = {}

\* A send on the channel would block.
Full(c) == Len(send[c]) >= Buffer

(* ----------------------------- connections ------------------------------- *)

\* handleWS: an authenticated upgrade makes a client, registers it ...
Register(c) ==
  /\ conn[c] = "none" /\ WriteLock
  /\ conn' = [conn EXCEPT ![c] = "open"]
  /\ clients' = IF c \in gone THEN clients ELSE clients \cup {c}
  /\ UNCHANGED <<gone, send, subs, reader, writer, pub, panicked, pubs, asks>>
\* ... and runs its two goroutines; a publisher may have evicted it by then.
Run(c) ==
  /\ conn[c] # "none" /\ reader[c] = "off"
  /\ reader' = [reader EXCEPT ![c] = "recv"]
  /\ writer' = [writer EXCEPT ![c] = "loop"]
  /\ UNCHANGED <<conn, clients, gone, send, subs, pub, panicked, pubs, asks>>

\* The peer goes away, or the deadline passes without a frame.
Drop(c) ==
  /\ conn[c] = "open"
  /\ conn' = [conn EXCEPT ![c] = "closed"]
  /\ UNCHANGED <<clients, gone, send, subs, reader, writer, pub, panicked, pubs, asks>>

\* A subscribe frame replaces the subscriptions, of which NormalizeChannels
\* keeps the well-formed ones ...
Receive(c, chs) ==
  /\ reader[c] = "recv" /\ conn[c] = "open" /\ asks[c] < MaxSub
  /\ subs' = [subs EXCEPT ![c] = chs \cap Channels]
  /\ reader' = [reader EXCEPT ![c] = "ack"]
  /\ asks' = [asks EXCEPT ![c] = @ + 1]
  /\ UNCHANGED <<conn, clients, gone, send, writer, pub, panicked, pubs>>
\* ... and is acknowledged through the channel, under the read lock and only
\* while the client is not gone.
MayAck(c) == c \notin gone
trySend(c) ==
  /\ reader[c] = "ack"
  /\ reader' = [reader EXCEPT ![c] = "recv"]
  /\ panicked' = (panicked \/ (MayAck(c) /\ c \in gone))
  /\ send' = IF MayAck(c) /\ ~Full(c) THEN [send EXCEPT ![c] = Append(@, Owner[c])] ELSE send
  /\ UNCHANGED <<conn, clients, gone, subs, writer, pub, pubs, asks>>

Closed(c) == [conn EXCEPT ![c] = "closed"]
\* readPump's deferred calls: Unregister, then Close.
ReadFails(c) ==
  /\ reader[c] = "recv" /\ conn[c] = "closed"
  /\ reader' = [reader EXCEPT ![c] = "leave"]
  /\ UNCHANGED <<conn, clients, gone, send, subs, writer, pub, panicked, pubs, asks>>
\* A reader that ends without Unregister.
MutReaderLeaves(c) ==
  /\ reader[c] = "leave" /\ WriteLock
  /\ reader' = [reader EXCEPT ![c] = "done"]
  /\ conn' = Closed(c)
  /\ UNCHANGED <<clients, gone, send, subs, writer, pub, panicked, pubs, asks>>
ReaderLeaves(c) ==
  /\ reader[c] = "leave" /\ WriteLock
  /\ clients' = clients \ {c}
  /\ gone' = IF c \in clients THEN gone \cup {c} ELSE gone
  /\ reader' = [reader EXCEPT ![c] = "done"]
  /\ conn' = Closed(c)
  /\ UNCHANGED <<send, subs, writer, pub, panicked, pubs, asks>>

\* writePump sends what is queued; a failed write or the closed and drained
\* channel ends it, and it closes the connection.
WriteOne(c) ==
  /\ writer[c] = "loop" /\ send[c] # <<>>
  /\ send' = [send EXCEPT ![c] = Tail(@)]
  /\ writer' = [writer EXCEPT ![c] = IF conn[c] = "open" THEN "loop" ELSE "done"]
  /\ UNCHANGED <<conn, clients, gone, subs, reader, pub, panicked, pubs, asks>>
WriterLeaves(c) ==
  /\ writer[c] = "loop" /\ send[c] = <<>> /\ (c \in gone \/ conn[c] = "closed")
  /\ writer' = [writer EXCEPT ![c] = "done"]
  /\ conn' = Closed(c)
  /\ UNCHANGED <<clients, gone, send, subs, reader, pub, panicked, pubs, asks>>

(* ------------------------------ publishing ------------------------------- *)

\* PublishToUser takes the read lock ...
BeginPublish(p, ev) ==
  /\ pub[p].pc = "idle" /\ pubs < MaxPub
  /\ pubs' = pubs + 1
  /\ pub' = [pub EXCEPT ![p] = [NoPub EXCEPT !.pc = "walk", !.ev = {ev}, !.todo = clients]]
  /\ UNCHANGED <<conn, clients, gone, send, subs, reader, writer, panicked, asks>>

\* ... visits the clients one by one ...
Wanted(c, ev) == Owner[c] = ev.user /\ subs[c] \cap ev.channels # {}
Visit(p, c) ==
  LET ev == CHOOSE e \in pub[p].ev : TRUE
      full == Full(c) IN
  /\ pub[p].pc = "walk" /\ c \in pub[p].todo
  /\ panicked' = (panicked \/ (Wanted(c, ev) /\ c \in gone))
  /\ send' = IF Wanted(c, ev) /\ ~full THEN [send EXCEPT ![c] = Append(@, ev.user)] ELSE send
  /\ pub' = [pub EXCEPT ![p].todo = @ \ {c}, ![p].slow = IF Wanted(c, ev) /\ full THEN @ \cup {c} ELSE @]
  /\ UNCHANGED <<conn, clients, gone, subs, reader, writer, pubs, asks>>

\* ... and evicts those whose buffer was full after it let the lock go.
EndWalk(p) ==
  /\ pub[p].pc = "walk" /\ pub[p].todo = {}
  /\ pub' = [pub EXCEPT ![p] = IF @.slow = {} THEN NoPub ELSE [@ EXCEPT !.pc = "evict"]]
  /\ UNCHANGED <<conn, clients, gone, send, subs, reader, writer, panicked, pubs, asks>>
EvictLeaves(p, c) == pub' = [pub EXCEPT ![p] = IF @.slow = {c} THEN NoPub ELSE [pub[p] EXCEPT !.slow = @ \ {c}]]
\* Close takes the client's own lock; Unregister the hub's.
CloseSlow(p, c) ==
  /\ pub[p].pc = "evict" /\ c \in pub[p].slow /\ conn[c] = "open"
  /\ conn' = Closed(c)
  /\ UNCHANGED <<clients, gone, send, subs, reader, writer, pub, panicked, pubs, asks>>
Evict(p, c) ==
  /\ pub[p].pc = "evict" /\ c \in pub[p].slow /\ conn[c] = "closed" /\ WriteLock
  /\ clients' = clients \ {c}
  /\ gone' = IF c \in clients THEN gone \cup {c} ELSE gone
  /\ EvictLeaves(p, c)
  /\ UNCHANGED <<conn, send, subs, reader, writer, panicked, pubs, asks>>

\* The process is gone with its hub.
HubGone ==
  /\ conn' = [c \in Clients |-> IF conn[c] = "open" THEN "closed" ELSE conn[c]]
  /\ clients' = {}
  /\ gone' = Clients \cap (gone \cup clients)
  /\ send' = [c \in Clients |-> <<>>]
  /\ reader' = [c \in Clients |-> IF conn[c] = "none" THEN "off" ELSE "done"]
  /\ writer' = [c \in Clients |-> IF conn[c] = "none" THEN "off" ELSE "done"]
  /\ pub' = [p \in Pubs |-> NoPub]
  /\ UNCHANGED <<subs, panicked, pubs, asks>>

HubSteps ==
  \/ \E c \in Clients : Run(c) \/ trySend(c) \/ ReadFails(c) \/ ReaderLeaves(c) \/ WriteOne(c) \/ WriterLeaves(c)
  \/ \E p \in Pubs : EndWalk(p) \/ \E c \in Clients : Visit(p, c) \/ CloseSlow(p, c) \/ Evict(p, c)
HubInput ==
  \/ \E c \in Clients : Register(c) \/ Drop(c) \/ \E chs \in SUBSET Channels : Receive(c, chs)
  \/ \E p \in Pubs, ev \in Events : BeginPublish(p, ev)

(* ------------------------------- properties ------------------------------ *)

HubTypeOK ==
  /\ conn \in [Clients -> {"none", "open", "closed"}]
  /\ clients \subseteq Clients /\ gone \subseteq Clients
  /\ \A c \in Clients : Len(send[c]) <= Buffer
  /\ reader \in [Clients -> {"off", "recv", "ack", "leave", "done"}]
  /\ writer \in [Clients -> {"off", "loop", "done"}]

\* hub.go: "Sending after a snapshot let a concurrent Unregister close the
\* channel first": no goroutine ever sends on a channel that was closed.
NoSendOnClosed == ~panicked

\* What waits in a connection's channel belongs to the user who opened it.
OwnEventsOnly == \A c \in Clients : \A i \in 1..Len(send[c]) : send[c][i] = Owner[c]

\* Publishing is safe beside closing connections, and private.
HubSafe == HubTypeOK /\ NoSendOnClosed /\ OwnEventsOnly

Finished(c) == c \notin clients /\ reader[c] = "done" /\ writer[c] = "done"
\* A closed connection leaves the hub and both of its goroutines end.
PumpsEnd == (\E c \in Clients : conn[c] = "closed") ~> (\A c \in Clients : conn[c] = "closed" => Finished(c))
=============================================================================
