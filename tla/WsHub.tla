------------------------------- MODULE WsHub -------------------------------
(***************************************************************************)
(* The WebSocket hub: goroutines that queue messages, the broadcaster, and *)
(* for each connection the handler that registers it, replays the buffer   *)
(* and pings, and the read pump.  clientsLock is held for reading through  *)
(* a whole broadcast round and for writing in single steps.  A write to a  *)
(* connection takes time: when handler and broadcaster write to the same   *)
(* one at once the library panics in one of them.                          *)
(***************************************************************************)
EXTENDS Integers, Sequences, FiniteSets, Functions

CONSTANTS
  Conns,       \* connections, one per client
  Rooms,
  AllRooms,    \* "*"
  Posts,       \* messages, each queued once
  RoomOf,      \* the room_id of each
  Asked,       \* room_id of each connection's request, or AllRooms
  None,
  BufferSize,  \* messageBufferSize (500 in the code)
  ChannelSize  \* capacity of broadcast (200 in the code)

ASSUME RoomsAssumption ==
  /\ AllRooms \notin Rooms
  /\ RoomOf \in [Posts -> Rooms]
  /\ Asked \in [Conns -> Rooms \cup {AllRooms}]

ASSUME HubNoneAssumption == None \notin Posts

ASSUME SizesAssumption == BufferSize \in Nat \ {0} /\ ChannelSize \in Nat

VARIABLES
  sender,   \* where in queueBroadcast each post is
  buffer,   \* messageBuffer
  channel,  \* broadcast
  hub,      \* where handleBroadcast is
  current,  \* the message of its round
  todo,     \* clients it has still to write to
  dead,     \* deadClients
  clients,  \* keys of the clients map
  subs,     \* the rooms of each
  handler,  \* where in WebSocketHandler each connection is
  reader,   \* and where its read pump is
  replay,   \* its copy of the buffer, from the message it is at
  link,     \* whether the connection works
  writing,  \* who is in WriteMessage on it
  down,     \* the broadcaster panicked, and the process with it
  \* history, read by properties only
  arrival,  \* the latest BufferSize posts, as they came
  owed,     \* posts each client's replay must still send it
  due       \* posts the broadcaster must still send it

messages == <<sender, buffer, channel, arrival>>
round    == <<hub, current, todo, dead>>
conns    == <<clients, subs, handler, reader, replay, link, writing>>
debts    == <<owed, due>>
vars     == <<sender, buffer, channel, hub, current, todo, dead, clients, subs,
              handler, reader, replay, link, writing, down, arrival, owed, due>>

(* RLock is held through the round, so Lock waits for its end. *)
LockFree == hub # "sending"

TypeOK ==
  /\ sender \in [Posts -> {"new", "buffered", "queued", "dropped"}]
  /\ buffer \in Seq(Posts) /\ Len(buffer) <= BufferSize
  /\ channel \in Seq(Posts) /\ Len(channel) <= ChannelSize
  /\ hub \in {"idle", "sending", "cleaning"}
  /\ current \in Posts \cup {None} /\ (current = None <=> hub = "idle")
  /\ todo \subseteq Conns /\ dead \subseteq Conns
  /\ hub = "sending" => todo \cup dead \subseteq clients
  /\ clients \subseteq Conns
  /\ subs \in [Conns -> SUBSET (Rooms \cup {AllRooms})]
  /\ handler \in [Conns -> {"absent", "joining", "replaying", "open", "ended", "broken"}]
  /\ reader \in [Conns -> {"off", "reading", "ended"}]
  /\ replay \in [Conns -> Seq(Posts)]
  /\ link \in [Conns -> BOOLEAN] /\ down \in BOOLEAN
  /\ writing \in [Conns -> {"nobody", "handler", "hub"}]
  /\ \A c \in Conns : writing[c] = "hub" => hub = "sending" /\ c \in todo

Init ==
  /\ sender = [p \in Posts |-> "new"]
  /\ buffer = <<>> /\ channel = <<>> /\ arrival = <<>>
  /\ hub = "idle" /\ current = None /\ todo = {} /\ dead = {}
  /\ clients = {}
  /\ subs = [c \in Conns |-> {}]
  /\ handler = [c \in Conns |-> "absent"]
  /\ reader = [c \in Conns |-> "off"]
  /\ replay = [c \in Conns |-> <<>>]
  /\ link = [c \in Conns |-> TRUE]
  /\ writing = [c \in Conns |-> "nobody"]
  /\ down = FALSE
  /\ owed = [c \in Conns |-> {}]
  /\ due = [c \in Conns |-> {}]

IsSubscribed(rooms, p) == AllRooms \in rooms \/ RoomOf[p] \in rooms

LastN(s, n) == SubSeq(s, 1 + (IF Len(s) > n THEN Len(s) - n ELSE 0), Len(s))

---------------------------------------------------------------------------
(* History, apart from the order in which the code does things.  A post    *)
(* comes when its sender begins: it is then among the latest, and due to   *)
(* every client of its room that has begun to join.                        *)
Comes(p) ==
  /\ arrival' = LastN(Append(arrival, p), BufferSize)
  /\ due' = [c \in Conns |->
               IF handler[c] # "absent" /\ link[c] /\ IsSubscribed({Asked[c]}, p)
               THEN due[c] \cup {p} ELSE due[c]]
  /\ UNCHANGED owed

(* When it has joined, a client is owed the latest posts of its room. *)
Joined(c) ==
  /\ owed' = [owed EXCEPT ![c] =
                IF link[c] THEN {p \in Range(arrival) : IsSubscribed({Asked[c]}, p)}
                ELSE {}]
  /\ UNCHANGED due

Sent(c, p) == /\ owed' = [owed EXCEPT ![c] = @ \ {p}]
              /\ due' = [due EXCEPT ![c] = @ \ {p}]

Gone(cs) == /\ owed' = [c \in Conns |-> IF c \in cs THEN {} ELSE owed[c]]
            /\ due' = [c \in Conns |-> IF c \in cs THEN {} ELSE due[c]]

---------------------------------------------------------------------------
(* queueBroadcast: the buffer under its lock, then the channel. *)

(* Mutant: one message too many is kept. *)
KeepOneMore(s) == SubSeq(s, Len(s) - BufferSize, Len(s))

KeepLast(s) == SubSeq(s, Len(s) - BufferSize + 1, Len(s))

BufferPost(p) ==
  LET longer == Append(buffer, p) IN
  /\ sender[p] = "new"
  /\ sender' = [sender EXCEPT ![p] = "buffered"]
  /\ buffer' = IF Len(longer) > BufferSize THEN KeepLast(longer) ELSE longer
  /\ Comes(p)
  /\ UNCHANGED <<channel, round, conns, down>>

(* The send never blocks: into the channel, straight to a broadcaster that *)
(* waits for it (TakePost on a channel of length one), or dropped.         *)
QueuePost(p) ==
  /\ sender[p] = "buffered"
  /\ IF Len(channel) < ChannelSize
     THEN /\ channel' = Append(channel, p)
          /\ sender' = [sender EXCEPT ![p] = "queued"]
     ELSE /\ sender' = [sender EXCEPT ![p] = "dropped"]
          /\ UNCHANGED channel
  /\ UNCHANGED <<buffer, arrival, round, conns, debts, down>>

---------------------------------------------------------------------------
(* handleBroadcast. *)

TakePost ==
  /\ hub = "idle" /\ channel # <<>>
  /\ hub' = "sending"
  /\ current' = Head(channel)
  /\ channel' = Tail(channel)
  /\ todo' = {c \in clients : IsSubscribed(subs[c], Head(channel))}
  /\ UNCHANGED <<sender, buffer, arrival, dead, conns, debts, down>>

(* Two writers on one connection: either of them panics.  In the           *)
(* broadcaster nothing recovers; the router recovers the handler.          *)
Clash(c, survivor) ==
  \/ down' = TRUE /\ UNCHANGED <<handler, writing>>
  \/ /\ handler' = [handler EXCEPT ![c] = "broken"]
     /\ writing' = [writing EXCEPT ![c] = survivor]
     /\ UNCHANGED down

HubWrites(c) ==
  /\ hub = "sending" /\ c \in todo
  /\ \A d \in Conns : writing[d] # "hub"
  /\ IF writing[c] = "nobody"
     THEN writing' = [writing EXCEPT ![c] = "hub"] /\ UNCHANGED <<handler, down>>
     ELSE Clash(c, "hub")
  /\ UNCHANGED <<messages, round, clients, subs, reader, replay, link, debts>>

(* On a connection that no longer works a write fails, or seems not to. *)
HubWritten(c) ==
  /\ writing[c] = "hub"
  /\ writing' = [writing EXCEPT ![c] = "nobody"]
  /\ todo' = todo \ {c}
  /\ IF link[c]
     THEN Sent(c, current) /\ UNCHANGED dead
     ELSE UNCHANGED debts /\ dead' \in {dead, dead \cup {c}}
  /\ UNCHANGED <<messages, hub, current, clients, subs, handler, reader, replay,
                 link, down>>

(* Mutant: the dead clients are removed while RLock is still held. *)
EndRoundLocked ==
  /\ hub = "sending" /\ todo = {} /\ dead = {}
  /\ hub' = "idle" /\ current' = None
  /\ UNCHANGED <<messages, todo, dead, conns, debts, down>>

EndRound ==
  /\ hub = "sending" /\ todo = {}
  /\ IF dead = {} THEN hub' = "idle" /\ current' = None
                  ELSE hub' = "cleaning" /\ UNCHANGED current
  /\ UNCHANGED <<messages, todo, dead, conns, debts, down>>

RemoveDead ==
  /\ hub = "cleaning"
  /\ hub' = "idle" /\ current' = None /\ dead' = {}
  /\ clients' = clients \ dead
  /\ link' = [c \in Conns |-> link[c] /\ c \notin dead]
  /\ Gone(dead)
  /\ UNCHANGED <<messages, todo, subs, handler, reader, replay, writing, down>>

---------------------------------------------------------------------------
(* WebSocketHandler. *)

Goes(c, from, to) == handler[c] = from /\ handler' = [handler EXCEPT ![c] = to]

Register(c) ==
  /\ LockFree
  /\ clients' = clients \cup {c}
  /\ subs' = [subs EXCEPT ![c] = {Asked[c]}]
  /\ UNCHANGED <<messages, round, reader, replay, link, writing, down>>

CopyBuffer(c) ==
  /\ replay' = [replay EXCEPT ![c] = buffer]
  /\ UNCHANGED <<messages, round, clients, subs, reader, link, writing, down>>

(* Mutant: the buffer is copied before the client is in the map. *)
JoinCopyFirst(c) ==
  \/ Goes(c, "absent", "joining") /\ CopyBuffer(c) /\ UNCHANGED debts
  \/ Goes(c, "joining", "replaying") /\ Register(c) /\ Joined(c)

Join(c) ==
  \/ Goes(c, "absent", "joining") /\ Register(c) /\ UNCHANGED debts
  \/ Goes(c, "joining", "replaying") /\ CopyBuffer(c) /\ Joined(c)

(* The replay passes over the messages of other rooms. *)
SkipBuffered(c) ==
  /\ handler[c] = "replaying" /\ replay[c] # <<>> /\ writing[c] # "handler"
  /\ ~IsSubscribed(subs[c], Head(replay[c]))
  /\ replay' = [replay EXCEPT ![c] = Tail(@)]
  /\ UNCHANGED <<messages, round, clients, subs, handler, reader, link, writing, debts, down>>

(* A replayed message, or later a ping. *)
HandlerWrites(c) ==
  /\ \/ handler[c] = "open"
     \/ /\ handler[c] = "replaying" /\ replay[c] # <<>>
        /\ IsSubscribed(subs[c], Head(replay[c]))
  /\ writing[c] # "handler"
  /\ IF writing[c] = "nobody"
     THEN writing' = [writing EXCEPT ![c] = "handler"] /\ UNCHANGED <<handler, down>>
     ELSE Clash(c, "hub")
  /\ UNCHANGED <<messages, round, clients, subs, reader, replay, link, debts>>

(* Errors of the replay are ignored; a ping that fails ends the handler. *)
HandlerWritten(c) ==
  /\ writing[c] = "handler"
  /\ writing' = [writing EXCEPT ![c] = "nobody"]
  /\ IF handler[c] = "replaying"
     THEN /\ replay' = [replay EXCEPT ![c] = Tail(@)]
          /\ Sent(c, Head(replay[c]))
          /\ UNCHANGED handler
     ELSE /\ handler' \in IF link[c] THEN {handler}
                          ELSE {handler, [handler EXCEPT ![c] = "ended"]}
          /\ UNCHANGED <<replay, debts>>
  /\ UNCHANGED <<messages, round, clients, subs, reader, link, down>>

StartPumps(c) ==
  /\ handler[c] = "replaying" /\ replay[c] = <<>>
  /\ handler' = [handler EXCEPT ![c] = "open"]
  /\ reader' = [reader EXCEPT ![c] = "reading"]
  /\ UNCHANGED <<messages, round, clients, subs, replay, link, writing, debts, down>>

---------------------------------------------------------------------------
(* The read pump. *)

(* A message that names a room adds it to the client's, if still there. *)
Subscribe(c, r) ==
  /\ reader[c] = "reading" /\ link[c] /\ LockFree
  /\ c \in clients
  /\ subs' = [subs EXCEPT ![c] = @ \cup {r}]
  /\ UNCHANGED <<messages, round, clients, handler, reader, replay, link, writing,
                 debts, down>>

(* Mutant: the pump ends without leaving the map. *)
ReadFailsStays(c) ==
  /\ reader[c] = "reading" /\ ~link[c] /\ LockFree
  /\ reader' = [reader EXCEPT ![c] = "ended"]
  /\ handler' = [handler EXCEPT ![c] = IF @ = "open" THEN "ended" ELSE @]
  /\ UNCHANGED <<messages, round, clients, subs, replay, link, writing, debts, down>>

(* The pump closes the connection, removes it, and tells the handler. *)
ReadFails(c) ==
  /\ reader[c] = "reading" /\ ~link[c] /\ LockFree
  /\ reader' = [reader EXCEPT ![c] = "ended"]
  /\ clients' = clients \ {c}
  /\ subs' = [subs EXCEPT ![c] = {}]
  /\ handler' = [handler EXCEPT ![c] = IF @ = "open" THEN "ended" ELSE @]
  /\ UNCHANGED <<messages, round, replay, link, writing, debts, down>>

(* The peer goes away, stays silent past pongWait or stalls past writeWait. *)
Disconnect(c) ==
  /\ handler[c] # "absent" /\ link[c]
  /\ link' = [link EXCEPT ![c] = FALSE]
  /\ Gone({c})
  /\ UNCHANGED <<messages, round, clients, subs, handler, reader, replay, writing, down>>

---------------------------------------------------------------------------

SenderStep(p) == BufferPost(p) \/ QueuePost(p)
HubStep == \/ TakePost \/ EndRound \/ RemoveDead
           \/ \E c \in Conns : HubWrites(c) \/ HubWritten(c)
Replaying(c) == handler[c] = "replaying" /\ HandlerWrites(c)
JoinStep(c) == \/ SkipBuffered(c) \/ Replaying(c) \/ HandlerWritten(c) \/ StartPumps(c)
               \/ handler[c] = "joining" /\ Join(c)

Next ==
  /\ ~down
  /\ \/ \E p \in Posts : SenderStep(p)
     \/ HubStep
     \/ \E c \in Conns : \/ Join(c) \/ JoinStep(c) \/ ReadFails(c)
                         \/ HandlerWrites(c) \/ Disconnect(c)
                         \/ \E r \in Rooms : Subscribe(c, r)

(* Goroutines that have begun go on; nobody has to connect, ping or leave. *)
Fairness ==
  /\ \A p \in Posts : WF_vars(~down /\ QueuePost(p))
  /\ WF_vars(~down /\ HubStep)
  /\ \A c \in Conns : WF_vars(~down /\ JoinStep(c)) /\ WF_vars(~down /\ ReadFails(c))

Spec == Init /\ [][Next]_vars /\ Fairness

---------------------------------------------------------------------------
(* Properties. *)

AtRest == /\ hub = "idle" /\ channel = <<>>
          /\ \A p \in Posts : sender[p] # "buffered"

(* Registering before copying the buffer, and buffering before queueing,   *)
(* leave no gap between replay and broadcasts: with the hub at rest, a     *)
(* client that is still connected was replayed every one of the latest     *)
(* posts of its room when it joined, and has been sent every later one -   *)
(* but for those that found the channel full.                              *)
NoGapOnJoin ==
  AtRest => \A c \in Conns : handler[c] = "open" /\ link[c] =>
              owed[c] = {} /\ \A p \in due[c] : sender[p] = "dropped"

(* A post that was buffered is broadcast to the end of its round or        *)
(* dropped, whatever clients join, stall and leave: no lock cycle between  *)
(* broadcaster and pumps, no dead client that holds it up.                 *)
PostsServed ==
  \A p \in Posts :
    sender[p] = "buffered"
      ~> down \/ (sender[p] # "buffered" /\ p \notin Range(channel) /\ current # p)

(* A connection that is gone leaves the clients map, by its own pump or    *)
(* the broadcaster - unless a write clash killed its handler before the    *)
(* pump was started.                                                       *)
GoneClientsLeave ==
  \A c \in Conns :
    c \in clients /\ ~link[c]
      ~> down \/ c \notin clients \/ (handler[c] = "broken" /\ reader[c] = "off")

---------------------------------------------------------------------------
(* Inductive strengthenings of the properties above. *)

HubTyped ==
  /\ hub = "idle" => dead = {}
  /\ \A c \in Conns :
       writing[c] = "handler" =>
         \/ handler[c] \in {"open", "ended"}
         \/ handler[c] = "replaying" /\ replay[c] # <<>>

(* What is owed is in the part of the buffer still to be replayed, unless  *)
(* a clash broke the replay off; what is due is still to be queued, in the *)
(* channel or in the round, or was dropped.                                *)
InReplay(c, p) == \/ handler[c] = "replaying" /\ p \in Range(replay[c])
                  \/ handler[c] = "broken"

OnItsWay(c, p) == \/ sender[p] \in {"buffered", "dropped"}
                  \/ p \in Range(channel)
                  \/ hub = "sending" /\ current = p /\ c \in todo

DebtsArePaid ==
  /\ owed \in [Conns -> SUBSET Posts] /\ due \in [Conns -> SUBSET Posts]
  /\ \A c \in Conns :
       /\ handler[c] # "absent" /\ link[c] => c \in clients
       /\ c \in clients /\ link[c] => Asked[c] \in subs[c]
       /\ \A p \in owed[c] \cup due[c] :
            handler[c] # "absent" /\ link[c] /\ IsSubscribed({Asked[c]}, p)
       /\ \A p \in owed[c] : InReplay(c, p)
       /\ \A p \in due[c] : OnItsWay(c, p)

BufferIsLatest == buffer = arrival

===========================================================================
