---------------------------- MODULE WsHub_proofs ----------------------------
(* Theorems about WsHub, for any connections, rooms, posts and sizes. *)
EXTENDS WsHub, SequenceTheorems, TLAPS

---------------------------------------------------------------------------
(* The buffer. *)

(* Slicing the buffer keeps what the latest posts are. *)
LEMMA KeepsLatest ==
  ASSUME NEW s \in Seq(Posts)
  PROVE  LET kept == IF Len(s) > BufferSize THEN KeepLast(s) ELSE s IN
         /\ kept = LastN(s, BufferSize)
         /\ kept \in Seq(Posts) /\ Len(kept) <= BufferSize
<1>n. Len(s) \in Nat /\ BufferSize \in Nat \ {0}
  BY SizesAssumption
<1>1. CASE Len(s) > BufferSize
  <2>1. LastN(s, BufferSize) = KeepLast(s)
    <3>1. 1 + (Len(s) - BufferSize) = Len(s) - BufferSize + 1
      BY <1>n
    <3> QED
      BY <1>1, <3>1 DEF LastN, KeepLast
  <2>2. /\ SubSeq(s, Len(s) - BufferSize + 1, Len(s)) \in Seq(Posts)
        /\ Len(SubSeq(s, Len(s) - BufferSize + 1, Len(s))) = BufferSize
    <3>1. \A i \in Len(s) - BufferSize + 1 .. Len(s) : s[i] \in Posts
      BY <1>n, <1>1
    <3>2. /\ SubSeq(s, Len(s) - BufferSize + 1, Len(s)) \in Seq(Posts)
          /\ Len(SubSeq(s, Len(s) - BufferSize + 1, Len(s))) =
               IF Len(s) - BufferSize + 1 <= Len(s)
               THEN Len(s) - (Len(s) - BufferSize + 1) + 1 ELSE 0
      BY <1>n, <1>1, <3>1, SubSeqProperties
    <3> QED
      BY <1>n, <1>1, <3>2
  <2> QED
    BY <1>1, <1>n, <2>1, <2>2 DEF KeepLast
<1>2. CASE ~(Len(s) > BufferSize)
  <2>1. LastN(s, BufferSize) = SubSeq(s, 1, Len(s))
    BY <1>2 DEF LastN
  <2>2. LastN(s, BufferSize) = s
    BY <2>1, SubSeqFull
  <2> QED
    BY <1>2, <1>n, <2>2
<1> QED
  BY <1>1, <1>2

(* What is left of a sequence without its head, and with one more. *)
LEMMA SequenceParts ==
  ASSUME NEW s \in Seq(Posts)
  PROVE  /\ \A p \in Posts : /\ Append(s, p) \in Seq(Posts)
                             /\ Len(Append(s, p)) = Len(s) + 1
                             /\ Range(Append(s, p)) = Range(s) \cup {p}
         /\ s # <<>> => /\ Head(s) \in Posts /\ Tail(s) \in Seq(Posts)
                        /\ Len(Tail(s)) = Len(s) - 1
                        /\ Range(s) = Range(Tail(s)) \cup {Head(s)}
<1>1. ASSUME NEW p \in Posts
      PROVE  /\ Append(s, p) \in Seq(Posts)
             /\ Len(Append(s, p)) = Len(s) + 1
             /\ Range(Append(s, p)) = Range(s) \cup {p}
  <2>1. /\ Append(s, p) \in Seq(Posts) /\ Len(Append(s, p)) = Len(s) + 1
        /\ \A i \in 1 .. Len(s) : Append(s, p)[i] = s[i]
        /\ Append(s, p)[Len(s) + 1] = p
    BY AppendProperties
  <2>2. /\ DOMAIN s = 1 .. Len(s) /\ DOMAIN Append(s, p) = 1 .. Len(s) + 1
        /\ Len(s) \in Nat
    BY <2>1
  <2>3. 1 .. Len(s) + 1 = (1 .. Len(s)) \cup {Len(s) + 1}
    BY <2>2
  <2> QED
    BY <2>1, <2>2, <2>3 DEF Range
<1>2. ASSUME s # <<>>
      PROVE  /\ Head(s) \in Posts /\ Tail(s) \in Seq(Posts)
             /\ Len(Tail(s)) = Len(s) - 1
             /\ Range(s) = Range(Tail(s)) \cup {Head(s)}
  <2>1. /\ Head(s) \in Posts /\ Tail(s) \in Seq(Posts) /\ Len(Tail(s)) = Len(s) - 1
        /\ \A i \in 1 .. Len(Tail(s)) : Tail(s)[i] = s[i + 1]
    BY <1>2, HeadTailProperties
  <2>2. /\ DOMAIN s = 1 .. Len(s) /\ DOMAIN Tail(s) = 1 .. Len(s) - 1
        /\ Len(s) \in Nat /\ Len(s) >= 1 /\ Head(s) = s[1]
    BY <1>2, <2>1
  <2>3. \A i \in 1 .. Len(s) : i = 1 \/ (i - 1 \in 1 .. Len(s) - 1 /\ (i - 1) + 1 = i)
    BY <2>2
  <2>4. \A x \in Range(s) : x \in Range(Tail(s)) \cup {Head(s)}
    <3> SUFFICES ASSUME NEW i \in 1 .. Len(s), s[i] # s[1] PROVE s[i] \in Range(Tail(s))
      BY <2>2 DEF Range
    <3>1. i - 1 \in 1 .. Len(s) - 1 /\ (i - 1) + 1 = i
      BY <2>3
    <3>2. Tail(s)[i - 1] = s[i]
      BY <2>1, <3>1
    <3> QED
      BY <2>2, <3>1, <3>2 DEF Range
  <2>5. \A x \in Range(Tail(s)) \cup {Head(s)} : x \in Range(s)
    <3>1. \A i \in 1 .. Len(s) - 1 : i + 1 \in 1 .. Len(s) /\ Tail(s)[i] = s[i + 1]
      BY <2>1, <2>2
    <3> QED
      BY <2>2, <3>1 DEF Range
  <2> QED
    BY <2>1, <2>4, <2>5
<1> QED
  BY <1>1, <1>2

---------------------------------------------------------------------------
(* Types. *)

(* TypeOK and HubTyped by what they speak of. *)
QueuesOK ==
  /\ sender \in [Posts -> {"new", "buffered", "queued", "dropped"}]
  /\ buffer \in Seq(Posts) /\ Len(buffer) <= BufferSize
  /\ channel \in Seq(Posts) /\ Len(channel) <= ChannelSize

RoundOK ==
  /\ hub \in {"idle", "sending", "cleaning"}
  /\ current \in Posts \cup {None} /\ (current = None <=> hub = "idle")
  /\ todo \subseteq Conns /\ dead \subseteq Conns
  /\ hub = "sending" => todo \cup dead \subseteq clients
  /\ hub = "idle" => dead = {}
  /\ clients \subseteq Conns
  /\ \A c \in Conns : writing[c] = "hub" => hub = "sending" /\ c \in todo

ConnsOK ==
  /\ subs \in [Conns -> SUBSET (Rooms \cup {AllRooms})]
  /\ handler \in [Conns -> {"absent", "joining", "replaying", "open", "ended", "broken"}]
  /\ reader \in [Conns -> {"off", "reading", "ended"}]
  /\ replay \in [Conns -> Seq(Posts)]
  /\ link \in [Conns -> BOOLEAN] /\ down \in BOOLEAN
  /\ writing \in [Conns -> {"nobody", "handler", "hub"}]

Writes(c) ==
  writing[c] = "handler" =>
    \/ handler[c] \in {"open", "ended"}
    \/ handler[c] = "replaying" /\ replay[c] # <<>>

HubOK == QueuesOK /\ RoundOK /\ ConnsOK /\ \A c \in Conns : Writes(c)

LEMMA HubParts == TypeOK /\ HubTyped <=> HubOK
BY DEF TypeOK, HubTyped, HubOK, QueuesOK, RoundOK, ConnsOK, Writes

LEMMA HubStart == Init => HubOK
<1> SUFFICES ASSUME Init PROVE HubOK
  OBVIOUS
<1>1. <<>> \in Seq(Posts) /\ Len(<<>>) = 0
  OBVIOUS
<1>2. QueuesOK
  BY <1>1, SizesAssumption DEF Init, QueuesOK
<1>3. RoundOK
  BY DEF Init, RoundOK
<1>4. ConnsOK
  BY <1>1 DEF Init, ConnsOK
<1>5. \A c \in Conns : Writes(c)
  BY DEF Init, Writes
<1> QED
  BY <1>2, <1>3, <1>4, <1>5 DEF HubOK

LEMMA QueuesStep == HubOK /\ [Next]_vars => QueuesOK'
<1> SUFFICES ASSUME HubOK, [Next]_vars PROVE QueuesOK'
  OBVIOUS
<1>q. QueuesOK
  BY DEF HubOK
<1>1. ASSUME NEW p \in Posts, BufferPost(p) PROVE QueuesOK'
  <2>1. Append(buffer, p) \in Seq(Posts)
    BY <1>q, SequenceParts DEF QueuesOK
  <2>2. buffer' \in Seq(Posts) /\ Len(buffer') <= BufferSize
    BY <1>1, <2>1, KeepsLatest DEF BufferPost
  <2> QED
    BY <1>1, <1>q, <2>2 DEF BufferPost, QueuesOK
<1>2. ASSUME NEW p \in Posts, QueuePost(p) PROVE QueuesOK'
  <2>1. Append(channel, p) \in Seq(Posts) /\ Len(Append(channel, p)) = Len(channel) + 1
    BY <1>q, SequenceParts DEF QueuesOK
  <2>2. /\ buffer' = buffer
        /\ \E s \in {"queued", "dropped"} : sender' = [sender EXCEPT ![p] = s]
        /\ channel' = channel \/ (channel' = Append(channel, p) /\ Len(channel) < ChannelSize)
    BY <1>2 DEF QueuePost
  <2>3. sender' \in [Posts -> {"new", "buffered", "queued", "dropped"}]
    BY <1>q, <2>2 DEF QueuesOK
  <2>4. channel' \in Seq(Posts) /\ Len(channel') <= ChannelSize
    <3>1. Len(channel) \in Nat /\ channel \in Seq(Posts) /\ Len(channel) <= ChannelSize
      BY <1>q DEF QueuesOK
    <3>2. CASE channel' = channel
      BY <3>1, <3>2
    <3>3. CASE channel' = Append(channel, p) /\ Len(channel) < ChannelSize
      <4>1. Len(channel) + 1 <= ChannelSize
        BY <3>1, <3>3, SizesAssumption
      <4> QED
        BY <2>1, <3>3, <4>1
    <3> QED
      BY <2>2, <3>2, <3>3
  <2> QED
    BY <1>q, <2>2, <2>3, <2>4 DEF QueuesOK
<1>3. CASE TakePost
  <2>1. Tail(channel) \in Seq(Posts) /\ Len(Tail(channel)) <= ChannelSize
    BY <1>3, <1>q, SequenceParts, SizesAssumption DEF TakePost, QueuesOK
  <2> QED
    BY <1>3, <1>q, <2>1 DEF TakePost, QueuesOK
<1>4. CASE ~TakePost /\ ~\E p \in Posts : SenderStep(p)
  <2>1. UNCHANGED <<sender, buffer, channel>>
    BY <1>4 DEF Next, HubStep, JoinStep, Replaying, HubWrites, HubWritten, EndRound, RemoveDead,
      Join, Register, CopyBuffer, SkipBuffered, HandlerWrites, HandlerWritten, StartPumps, Subscribe,
      ReadFails, Disconnect, messages, vars
  <2> QED
    BY <1>q, <2>1 DEF QueuesOK
<1> QED
  BY <1>1, <1>2, <1>3, <1>4 DEF SenderStep

LEMMA RoundStep == HubOK /\ [Next]_vars => RoundOK'
<1> SUFFICES ASSUME HubOK, [Next]_vars PROVE RoundOK'
  OBVIOUS
<1>r. RoundOK /\ ConnsOK
  BY DEF HubOK
<1>1. CASE TakePost
  <2>1. channel # <<>> /\ Head(channel) \in Posts
    BY <1>1, SequenceParts DEF TakePost, HubOK, QueuesOK
  <2>2. dead = {} /\ \A c \in Conns : writing[c] # "hub"
    BY <1>1, <1>r DEF TakePost, RoundOK
  <2> QED
    BY <1>1, <1>r, <2>1, <2>2, HubNoneAssumption DEF TakePost, RoundOK, conns
<1>2. ASSUME NEW c \in Conns, HubWrites(c) PROVE RoundOK'
  <2>1. UNCHANGED <<hub, current, todo, dead, clients>> /\ hub = "sending" /\ c \in todo
    BY <1>2 DEF HubWrites, round
  <2>2. writing' = writing \/ writing' = [writing EXCEPT ![c] = "hub"]
    BY <1>2 DEF HubWrites, Clash
  <2>3. \A d \in Conns : writing'[d] = "hub" => d = c \/ writing[d] = "hub"
    BY <2>2, <1>r DEF ConnsOK
  <2> QED
    BY <2>1, <2>3, <1>r DEF RoundOK
<1>3. ASSUME NEW c \in Conns, HubWritten(c) PROVE RoundOK'
  <2>1. \A d \in Conns : writing'[d] = "hub" => d # c /\ writing[d] = "hub"
    BY <1>3, <1>r DEF HubWritten, ConnsOK
  <2> QED
    BY <1>3, <2>1, <1>r DEF HubWritten, RoundOK
<1>4. CASE EndRound
  BY <1>4, <1>r, HubNoneAssumption DEF EndRound, RoundOK, conns
<1>5. CASE RemoveDead
  BY <1>5, <1>r, HubNoneAssumption DEF RemoveDead, RoundOK
<1>6. ASSUME NEW c \in Conns, Join(c) \/ ReadFails(c) PROVE RoundOK'
  BY <1>6, <1>r DEF Join, Register, CopyBuffer, ReadFails, LockFree, RoundOK, round
<1>7. ASSUME NEW c \in Conns, HandlerWrites(c) \/ HandlerWritten(c) PROVE RoundOK'
  <2>1. UNCHANGED <<hub, current, todo, dead, clients>>
    BY <1>7 DEF HandlerWrites, HandlerWritten, round
  <2>2. \/ writing' = [writing EXCEPT ![c] = "handler"] \/ writing' = [writing EXCEPT ![c] = "nobody"]
        \/ writing' = writing
        \/ writing' = [writing EXCEPT ![c] = "hub"] /\ writing[c] = "hub"
    BY <1>7, <1>r DEF HandlerWrites, HandlerWritten, Clash, ConnsOK
  <2>3. \A d \in Conns : writing'[d] = "hub" => writing[d] = "hub"
    BY <2>2, <1>r DEF ConnsOK
  <2> QED
    BY <2>1, <2>3, <1>r DEF RoundOK
<1>8. ASSUME NEW c \in Conns,
             \/ SkipBuffered(c) \/ StartPumps(c) \/ Disconnect(c)
             \/ \E r \in Rooms : Subscribe(c, r)
      PROVE  RoundOK'
  BY <1>8, <1>r DEF SkipBuffered, StartPumps, Disconnect, Subscribe, RoundOK, round
<1>9. ASSUME NEW p \in Posts, SenderStep(p) PROVE RoundOK'
  BY <1>9, <1>r DEF SenderStep, BufferPost, QueuePost, RoundOK, round, conns
<1>10. CASE UNCHANGED vars
  BY <1>10, <1>r DEF vars, RoundOK
<1> QED
  BY <1>1, <1>2, <1>3, <1>4, <1>5, <1>6, <1>7, <1>8, <1>9, <1>10
  DEF Next, HubStep, JoinStep, Replaying

(* One field of the connections changes at one connection at a time. *)
LEMMA ConnsStep == HubOK /\ [Next]_vars => ConnsOK'
<1> SUFFICES ASSUME HubOK, [Next]_vars PROVE ConnsOK'
  OBVIOUS
<1>c. ConnsOK
  BY DEF HubOK
<1>1. ASSUME NEW c \in Conns, SkipBuffered(c) \/ HandlerWritten(c) PROVE ConnsOK'
  <2>1. replay[c] \in Seq(Posts) /\ Writes(c)
    BY <1>c DEF ConnsOK, HubOK
  <2>2. SkipBuffered(c) \/ handler[c] = "replaying" => Tail(replay[c]) \in Seq(Posts)
    BY <1>1, <2>1, SequenceParts DEF SkipBuffered, HandlerWritten, Writes
  <2>3. replay' \in [Conns -> Seq(Posts)]
    BY <1>1, <1>c, <2>2 DEF SkipBuffered, HandlerWritten, ConnsOK
  <2>4. handler' = handler \/ handler' = [handler EXCEPT ![c] = "ended"]
    BY <1>1 DEF SkipBuffered, HandlerWritten
  <2>5. writing' = writing \/ writing' = [writing EXCEPT ![c] = "nobody"]
    BY <1>1 DEF SkipBuffered, HandlerWritten
  <2>6. UNCHANGED <<subs, reader, link, down>>
    BY <1>1 DEF SkipBuffered, HandlerWritten
  <2> QED
    BY <1>c, <2>3, <2>4, <2>5, <2>6 DEF ConnsOK
<1>2. ASSUME NEW c \in Conns, HubWrites(c) \/ HandlerWrites(c) PROVE ConnsOK'
  <2>1. /\ UNCHANGED <<subs, reader, link, replay>>
        /\ handler' = handler \/ handler' = [handler EXCEPT ![c] = "broken"]
        /\ writing' = writing \/ \E w \in {"hub", "handler"} : writing' = [writing EXCEPT ![c] = w]
        /\ down' \in {down, TRUE}
    BY <1>2 DEF HubWrites, HandlerWrites, Clash
  <2>2. handler' \in [Conns -> {"absent", "joining", "replaying", "open", "ended", "broken"}]
    BY <1>c, <2>1 DEF ConnsOK
  <2>3. writing' \in [Conns -> {"nobody", "handler", "hub"}]
    BY <1>c, <2>1 DEF ConnsOK
  <2> QED
    BY <1>c, <2>1, <2>2, <2>3 DEF ConnsOK
<1>3. ASSUME NEW c \in Conns, HubWritten(c) PROVE ConnsOK'
  BY <1>3, <1>c DEF HubWritten, ConnsOK
<1>4. CASE RemoveDead
  BY <1>4, <1>c DEF RemoveDead, ConnsOK
<1>5. ASSUME NEW c \in Conns, Goes(c, "absent", "joining"), Register(c) PROVE ConnsOK'
  BY <1>5, <1>c, RoomsAssumption DEF Goes, Register, ConnsOK
<1>6. ASSUME NEW c \in Conns, Goes(c, "joining", "replaying"), CopyBuffer(c) PROVE ConnsOK'
  <2>1. buffer \in Seq(Posts)
    BY DEF HubOK, QueuesOK
  <2>2. UNCHANGED <<subs, reader, link, writing, down>>
    BY <1>6 DEF CopyBuffer
  <2> QED
    BY <1>6, <1>c, <2>1, <2>2 DEF Goes, CopyBuffer, ConnsOK
<1>7. ASSUME NEW c \in Conns, NEW r \in Rooms, Subscribe(c, r) PROVE ConnsOK'
  BY <1>7, <1>c DEF Subscribe, ConnsOK
<1>10. ASSUME NEW c \in Conns, StartPumps(c) \/ Disconnect(c) PROVE ConnsOK'
  BY <1>10, <1>c DEF StartPumps, Disconnect, ConnsOK
<1>8. ASSUME NEW c \in Conns, ReadFails(c) PROVE ConnsOK'
  <2>1. /\ UNCHANGED <<replay, link, writing, down>>
        /\ reader' = [reader EXCEPT ![c] = "ended"] /\ subs' = [subs EXCEPT ![c] = {}]
        /\ \E h \in {"ended", handler[c]} : handler' = [handler EXCEPT ![c] = h]
    BY <1>8 DEF ReadFails
  <2> QED
    BY <1>c, <2>1 DEF ConnsOK
<1>9. CASE \/ TakePost \/ EndRound \/ UNCHANGED vars
           \/ \E p \in Posts : SenderStep(p)
  BY <1>9, <1>c DEF TakePost, EndRound, SenderStep, BufferPost, QueuePost, ConnsOK, conns, vars
<1> QED
  BY <1>1, <1>2, <1>3, <1>4, <1>5, <1>6, <1>7, <1>8, <1>9, <1>10
  DEF Next, HubStep, JoinStep, Replaying, Join

(* A handler in WriteMessage pings or has a message to replay, until it is *)
(* out again.                                                              *)
LEMMA WritesStep ==
  ASSUME HubOK, [Next]_vars, NEW d \in Conns PROVE Writes(d)'
<1>c. ConnsOK /\ RoundOK /\ Writes(d)
  BY DEF HubOK
<1>u. ASSUME UNCHANGED <<writing, handler, replay>> PROVE Writes(d)'
  BY <1>u, <1>c DEF Writes
<1>1. ASSUME NEW c \in Conns, SkipBuffered(c) PROVE Writes(d)'
  BY <1>1, <1>c DEF SkipBuffered, Writes, ConnsOK
<1>2. ASSUME NEW c \in Conns, HandlerWritten(c) PROVE Writes(d)'
  BY <1>2, <1>c DEF HandlerWritten, Writes, ConnsOK
<1>3. ASSUME NEW c \in Conns, HubWrites(c) PROVE Writes(d)'
  BY <1>3, <1>c DEF HubWrites, Clash, Writes, ConnsOK
<1>4. ASSUME NEW c \in Conns, HandlerWrites(c) PROVE Writes(d)'
  BY <1>4, <1>c DEF HandlerWrites, Clash, Writes, ConnsOK
<1>5. ASSUME NEW c \in Conns, HubWritten(c) PROVE Writes(d)'
  BY <1>5, <1>c DEF HubWritten, Writes, ConnsOK
<1>6. ASSUME NEW c \in Conns, Join(c) PROVE Writes(d)'
  BY <1>6, <1>c DEF Join, Goes, Register, CopyBuffer, Writes, ConnsOK
<1>7. ASSUME NEW c \in Conns, StartPumps(c) PROVE Writes(d)'
  BY <1>7, <1>c DEF StartPumps, Writes, ConnsOK
<1>8. ASSUME NEW c \in Conns, ReadFails(c) PROVE Writes(d)'
  BY <1>8, <1>c DEF ReadFails, Writes, ConnsOK
<1>9. CASE \/ TakePost \/ EndRound \/ RemoveDead \/ UNCHANGED vars
           \/ \E p \in Posts : SenderStep(p)
           \/ \E c \in Conns : Disconnect(c) \/ \E r \in Rooms : Subscribe(c, r)
  BY <1>9, <1>u DEF TakePost, EndRound, RemoveDead, SenderStep, BufferPost, QueuePost, Disconnect,
    Subscribe, conns, vars
<1> QED
  BY <1>1, <1>2, <1>3, <1>4, <1>5, <1>6, <1>7, <1>8, <1>9
  DEF Next, HubStep, JoinStep, Replaying

LEMMA HubHolds == Spec => []HubOK
<1>1. HubOK /\ [Next]_vars => HubOK'
  <2> SUFFICES ASSUME HubOK, [Next]_vars PROVE HubOK'
    OBVIOUS
  <2>1. \A d \in Conns : Writes(d)'
    BY WritesStep
  <2> QED
    BY <2>1, QueuesStep, RoundStep, ConnsStep DEF HubOK
<1> QED
  BY <1>1, HubStart, PTL DEF Spec

(* The state of the hub stays well formed: in a round only clients of the  *)
(* map are written to, and its message is set exactly while it lasts.      *)
THEOREM HubTyping == Spec => []TypeOK
<1>1. HubOK => TypeOK
  BY HubParts
<1> QED
  BY <1>1, HubHolds, PTL

---------------------------------------------------------------------------
(* What a client is owed or due is on its way to it. *)

LEMMA BufferStep == HubOK /\ BufferIsLatest /\ [Next]_vars => BufferIsLatest'
<1> SUFFICES ASSUME HubOK, BufferIsLatest, [Next]_vars PROVE BufferIsLatest'
  OBVIOUS
<1>1. ASSUME NEW p \in Posts, BufferPost(p) PROVE BufferIsLatest'
  <2>1. Append(buffer, p) \in Seq(Posts)
    BY SequenceParts DEF HubOK, QueuesOK
  <2>2. buffer' = LastN(Append(buffer, p), BufferSize)
    BY <1>1, <2>1, KeepsLatest DEF BufferPost
  <2> QED
    BY <1>1, <2>2 DEF BufferPost, Comes, BufferIsLatest
<1>2. CASE ~\E p \in Posts : BufferPost(p)
  <2>1. UNCHANGED <<buffer, arrival>>
    BY <1>2 DEF Next, SenderStep, QueuePost, TakePost, HubStep, JoinStep, Replaying, HubWrites,
      HubWritten, EndRound, RemoveDead, Join, Register, CopyBuffer, SkipBuffered, HandlerWrites,
      HandlerWritten, StartPumps, Subscribe, ReadFails, Disconnect, messages, vars
  <2> QED
    BY <2>1 DEF BufferIsLatest
<1> QED
  BY <1>1, <1>2

(* DebtsArePaid of one client, and of one post of its debts. *)
InRoom(c) ==
  /\ handler[c] # "absent" /\ link[c] => c \in clients
  /\ c \in clients /\ link[c] => Asked[c] \in subs[c]

Debtor(c, p) == handler[c] # "absent" /\ link[c] /\ IsSubscribed({Asked[c]}, p)

Paid(c) ==
  /\ InRoom(c)
  /\ \A p \in owed[c] : Debtor(c, p) /\ InReplay(c, p)
  /\ \A p \in due[c] : Debtor(c, p) /\ OnItsWay(c, p)

DebtsTyped == owed \in [Conns -> SUBSET Posts] /\ due \in [Conns -> SUBSET Posts]

LEMMA DebtsStep ==
  ASSUME HubOK, BufferIsLatest, DebtsTyped, [Next]_vars PROVE DebtsTyped'
<1>d. owed \in [Conns -> SUBSET Posts] /\ due \in [Conns -> SUBSET Posts]
  BY DEF DebtsTyped
<1>1. ASSUME NEW p \in Posts, BufferPost(p) PROVE DebtsTyped'
  <2>1. Comes(p)
    BY <1>1 DEF BufferPost
  <2>2. \A c \in Conns : due'[c] = due[c] \/ due'[c] = due[c] \cup {p}
    BY <2>1 DEF Comes
  <2>3. due' = [c \in Conns |-> due'[c]]
    BY <2>1 DEF Comes
  <2> QED
    BY <1>d, <2>1, <2>2, <2>3 DEF Comes, DebtsTyped
<1>2. ASSUME NEW c \in Conns, Joined(c) PROVE DebtsTyped'
  <2>1. arrival \in Seq(Posts)
    BY DEF HubOK, QueuesOK, BufferIsLatest
  <2>2. Range(arrival) \subseteq Posts
    BY <2>1 DEF Range
  <2>3. \E S \in SUBSET Posts : owed' = [owed EXCEPT ![c] = S]
    BY <1>2, <2>2 DEF Joined
  <2> QED
    BY <1>2, <1>d, <2>3 DEF Joined, DebtsTyped
<1>3. ASSUME NEW c \in Conns, NEW p, Sent(c, p) PROVE DebtsTyped'
  BY <1>3, <1>d DEF Sent, DebtsTyped
<1>4. ASSUME NEW cs, Gone(cs) PROVE DebtsTyped'
  BY <1>4, <1>d DEF Gone, DebtsTyped
<1>5. ASSUME UNCHANGED debts PROVE DebtsTyped'
  BY <1>5, <1>d DEF debts, DebtsTyped
<1>6. \/ UNCHANGED debts \/ (\E p \in Posts : BufferPost(p))
      \/ (\E c \in Conns : Joined(c) \/ Sent(c, current) \/ Sent(c, Head(replay[c])))
      \/ (\E cs \in SUBSET Conns : Gone(cs))
  <2>1. ASSUME NEW p \in Posts, SenderStep(p) PROVE UNCHANGED debts \/ BufferPost(p)
    BY <2>1 DEF SenderStep, QueuePost
  <2>2. ASSUME HubStep
        PROVE  UNCHANGED debts \/ (\E c \in Conns : Sent(c, current)) \/ Gone(dead)
    BY <2>2 DEF HubStep, TakePost, EndRound, RemoveDead, HubWrites, HubWritten
  <2>3. ASSUME NEW c \in Conns, Join(c) \/ JoinStep(c)
        PROVE  UNCHANGED debts \/ Joined(c) \/ Sent(c, Head(replay[c]))
    BY <2>3 DEF Join, JoinStep, SkipBuffered, Replaying, HandlerWrites, HandlerWritten, StartPumps,
      debts
  <2>4. ASSUME NEW c \in Conns,
               \/ ReadFails(c) \/ HandlerWrites(c) \/ Disconnect(c)
               \/ \E r \in Rooms : Subscribe(c, r)
        PROVE  UNCHANGED debts \/ Gone({c})
    BY <2>4 DEF ReadFails, HandlerWrites, Disconnect, Subscribe
  <2>5. dead \in SUBSET Conns
    BY DEF HubOK, RoundOK
  <2>6. UNCHANGED vars => UNCHANGED debts
    BY DEF vars, debts
  <2> QED
    BY <2>1, <2>2, <2>3, <2>4, <2>5, <2>6 DEF Next
<1> QED
  BY <1>1, <1>2, <1>3, <1>4, <1>5, <1>6

(* The broadcaster takes from what is on its way only what it has written. *)
LEMMA HubPays ==
  ASSUME HubOK, DebtsTyped, NEW d \in Conns, Paid(d), HubStep
  PROVE  Paid(d)'
<1>c. ConnsOK /\ RoundOK /\ QueuesOK
  BY DEF HubOK
<1>1. CASE TakePost
  <2>1. channel \in Seq(Posts) /\ channel # <<>>
    BY <1>1, <1>c DEF TakePost, QueuesOK
  <2>2. Range(channel) = Range(Tail(channel)) \cup {Head(channel)}
    BY <2>1, SequenceParts
  <2>3. /\ UNCHANGED <<clients, subs, link, owed, due, handler, replay, sender>>
        /\ hub = "idle" /\ hub' = "sending" /\ current' = Head(channel) /\ channel' = Tail(channel)
        /\ todo' = {c \in clients : IsSubscribed(subs[c], Head(channel))}
    BY <1>1 DEF TakePost, conns, debts
  <2>4. ASSUME NEW p \in due[d] PROVE OnItsWay(d, p)'
    <3>1. Debtor(d, p) /\ InRoom(d) /\ OnItsWay(d, p)
      BY DEF Paid
    <3>2. d \in clients /\ IsSubscribed(subs[d], p)
      BY <3>1 DEF Debtor, InRoom, IsSubscribed
    <3> QED
      BY <2>2, <2>3, <3>1, <3>2 DEF OnItsWay
  <2> QED
    BY <2>3, <2>4 DEF Paid, InRoom, Debtor, InReplay
<1>2. ASSUME NEW c \in Conns, HubWrites(c) PROVE Paid(d)'
  <2>1. /\ UNCHANGED <<sender, channel, hub, current, todo, clients, subs, link, owed, due, replay>>
        /\ handler' = handler \/ handler' = [handler EXCEPT ![c] = "broken"]
    BY <1>2 DEF HubWrites, Clash, messages, round, debts
  <2>2. handler[c] = "absent" => handler' = handler
    BY <1>2, <1>c DEF HubWrites, Clash, ConnsOK, HubOK, Writes
  <2>3. handler'[d] = handler[d] \/ (handler'[d] = "broken" /\ handler[d] # "absent")
    BY <2>1, <2>2, <1>c DEF ConnsOK
  <2> QED
    BY <2>1, <2>3 DEF Paid, InRoom, Debtor, InReplay, OnItsWay
<1>3. ASSUME NEW c \in Conns, HubWritten(c) PROVE Paid(d)'
  <2>1. /\ UNCHANGED <<sender, channel, hub, current, clients, subs, link, handler, replay>>
        /\ todo' = todo \ {c}
        /\ IF link[c] THEN Sent(c, current) ELSE UNCHANGED debts
    BY <1>3 DEF HubWritten, messages
  <2>2. /\ owed'[d] \subseteq owed[d]
        /\ \A p \in due'[d] : p \in due[d] /\ (d # c \/ p # current)
    <3>1. CASE link[c]
      BY <2>1, <3>1 DEF Sent, DebtsTyped
    <3>2. CASE ~link[c]
      BY <2>1, <3>2 DEF Paid, Debtor, debts
    <3> QED
      BY <3>1, <3>2
  <2> QED
    BY <2>1, <2>2 DEF Paid, InRoom, Debtor, InReplay, OnItsWay
<1>4. CASE EndRound
  BY <1>4 DEF EndRound, messages, conns, debts, Paid, InRoom, Debtor, InReplay, OnItsWay
<1>5. CASE RemoveDead
  <2>1. /\ UNCHANGED <<sender, channel, handler, replay, subs, todo>>
        /\ hub = "cleaning" /\ hub' = "idle" /\ clients' = clients \ dead
        /\ link'[d] = (link[d] /\ d \notin dead)
        /\ owed'[d] = (IF d \in dead THEN {} ELSE owed[d])
        /\ due'[d] = (IF d \in dead THEN {} ELSE due[d])
    BY <1>5 DEF RemoveDead, Gone, messages
  <2> QED
    BY <2>1 DEF Paid, InRoom, Debtor, InReplay, OnItsWay
<1> QED
  BY <1>1, <1>2, <1>3, <1>4, <1>5 DEF HubStep

(* Joining, a client's debt is what it has just copied; its replay passes  *)
(* over nothing it is owed, and ends with nothing owed.                    *)
LEMMA HandlerPays ==
  ASSUME HubOK, BufferIsLatest, DebtsTyped, NEW d \in Conns, Paid(d), NEW c \in Conns,
         \/ Join(c) \/ SkipBuffered(c) \/ HandlerWrites(c) \/ HandlerWritten(c) \/ StartPumps(c)
  PROVE  Paid(d)'
<1>c. ConnsOK /\ RoundOK /\ QueuesOK /\ Writes(c)
  BY DEF HubOK
<1>1. ASSUME Goes(c, "absent", "joining"), Register(c), UNCHANGED debts PROVE Paid(d)'
  <2>1. /\ UNCHANGED <<sender, channel, hub, current, todo, replay, link, owed, due>>
        /\ clients' = clients \cup {c} /\ handler[c] = "absent"
    BY <1>1 DEF Goes, Register, messages, round, debts
  <2>2. IF d = c THEN handler'[d] = "joining" /\ subs'[d] = {Asked[d]}
                 ELSE handler'[d] = handler[d] /\ subs'[d] = subs[d]
    BY <1>1, <1>c DEF Goes, Register, ConnsOK
  <2> QED
    BY <2>1, <2>2 DEF Paid, InRoom, Debtor, InReplay, OnItsWay
<1>2. ASSUME Goes(c, "joining", "replaying"), CopyBuffer(c), Joined(c) PROVE Paid(d)'
  <2>1. /\ UNCHANGED <<sender, channel, hub, current, todo, clients, subs, link, due>>
        /\ handler[c] = "joining"
    BY <1>2 DEF Goes, CopyBuffer, Joined, messages, round
  <2>2. CASE d # c
    <3>1. handler'[d] = handler[d] /\ replay'[d] = replay[d] /\ owed'[d] = owed[d]
      BY <1>2, <2>2, <1>c DEF Goes, CopyBuffer, Joined, ConnsOK, DebtsTyped
    <3> QED
      BY <2>1, <3>1 DEF Paid, InRoom, Debtor, InReplay, OnItsWay
  <2>3. CASE d = c
    <3>1. handler'[d] = "replaying" /\ replay'[d] = buffer
      BY <1>2, <2>3, <1>c DEF Goes, CopyBuffer, ConnsOK
    <3>2. \A p \in owed'[d] : link[d] /\ p \in Range(buffer) /\ IsSubscribed({Asked[d]}, p)
      BY <1>2, <2>3 DEF Joined, DebtsTyped, BufferIsLatest
    <3> QED
      BY <2>1, <2>3, <3>1, <3>2 DEF Paid, InRoom, Debtor, InReplay, OnItsWay
  <2> QED
    BY <2>2, <2>3
<1>3. CASE SkipBuffered(c)
  <2>1. /\ UNCHANGED <<sender, channel, hub, current, todo, clients, subs, link, owed, due, handler>>
        /\ replay[c] # <<>> /\ ~IsSubscribed(subs[c], Head(replay[c]))
        /\ replay' = [replay EXCEPT ![c] = Tail(replay[c])]
    BY <1>3 DEF SkipBuffered, messages, round, debts
  <2>2. Range(replay[c]) = Range(Tail(replay[c])) \cup {Head(replay[c])}
    BY <2>1, <1>c, SequenceParts DEF ConnsOK
  <2>3. ASSUME NEW p \in owed[d] PROVE d # c \/ p # Head(replay[c])
    <3>1. Debtor(d, p) /\ InRoom(d)
      BY DEF Paid
    <3>2. IsSubscribed(subs[d], p)
      BY <3>1 DEF Debtor, InRoom, IsSubscribed
    <3> QED
      BY <2>1, <3>2
  <2> QED
    BY <2>1, <2>2, <2>3, <1>c DEF ConnsOK, Paid, InRoom, Debtor, InReplay, OnItsWay
<1>4. CASE HandlerWrites(c)
  <2>1. /\ UNCHANGED <<sender, channel, hub, current, todo, clients, subs, link, owed, due, replay>>
        /\ handler' = handler \/ handler' = [handler EXCEPT ![c] = "broken"]
    BY <1>4 DEF HandlerWrites, Clash, messages, round, debts
  <2>2. handler[c] # "absent"
    BY <1>4 DEF HandlerWrites
  <2>3. handler'[d] = handler[d] \/ (handler'[d] = "broken" /\ handler[d] # "absent")
    BY <2>1, <2>2, <1>c DEF ConnsOK
  <2> QED
    BY <2>1, <2>3 DEF Paid, InRoom, Debtor, InReplay, OnItsWay
<1>5. CASE HandlerWritten(c)
  <2>1. UNCHANGED <<sender, channel, hub, current, todo, clients, subs, link>>
    BY <1>5 DEF HandlerWritten, messages, round
  <2>2. CASE handler[c] = "replaying"
    <3>1. /\ replay' = [replay EXCEPT ![c] = Tail(replay[c])] /\ handler' = handler
          /\ Sent(c, Head(replay[c])) /\ replay[c] # <<>>
      BY <1>5, <2>2, <1>c DEF HandlerWritten, Writes
    <3>2. Range(replay[c]) = Range(Tail(replay[c])) \cup {Head(replay[c])}
      BY <3>1, <1>c, SequenceParts DEF ConnsOK
    <3>3. /\ due'[d] \subseteq due[d]
          /\ \A p \in owed'[d] : p \in owed[d] /\ (d # c \/ p # Head(replay[c]))
      BY <3>1 DEF Sent, DebtsTyped
    <3>4. replay'[d] = IF d = c THEN Tail(replay[c]) ELSE replay[d]
      BY <3>1, <1>c DEF ConnsOK
    <3> QED
      BY <2>1, <3>1, <3>2, <3>3, <3>4 DEF Paid, InRoom, Debtor, InReplay, OnItsWay
  <2>3. CASE handler[c] # "replaying"
    <3>1. /\ UNCHANGED <<replay, owed, due>>
          /\ handler' = handler \/ (handler' = [handler EXCEPT ![c] = "ended"] /\ ~link[c])
      BY <1>5, <2>3 DEF HandlerWritten, debts
    <3> QED
      BY <2>1, <2>3, <3>1, <1>c DEF ConnsOK, Paid, InRoom, Debtor, InReplay, OnItsWay
  <2> QED
    BY <2>2, <2>3
<1>6. CASE StartPumps(c)
  <2>1. /\ UNCHANGED <<sender, channel, hub, current, todo, clients, subs, link, owed, due, replay>>
        /\ replay[c] = <<>> /\ handler' = [handler EXCEPT ![c] = "open"]
        /\ handler[c] = "replaying"
    BY <1>6 DEF StartPumps, messages, round, debts
  <2>2. Range(<<>>) = {}
    BY DEF Range
  <2> QED
    BY <2>1, <2>2, <1>c DEF ConnsOK, Paid, InRoom, Debtor, InReplay, OnItsWay
<1> QED
  BY <1>1, <1>2, <1>3, <1>4, <1>5, <1>6 DEF Join

LEMMA OthersPay ==
  ASSUME HubOK, DebtsTyped, NEW d \in Conns, Paid(d),
         \/ \E p \in Posts : SenderStep(p)
         \/ \E c \in Conns : \/ ReadFails(c) \/ Disconnect(c)
                             \/ \E r \in Rooms : Subscribe(c, r)
         \/ UNCHANGED vars
  PROVE  Paid(d)'
<1>c. ConnsOK /\ RoundOK /\ QueuesOK
  BY DEF HubOK
<1>1. ASSUME NEW p \in Posts, BufferPost(p) PROVE Paid(d)'
  <2>1. /\ UNCHANGED <<channel, hub, current, todo, clients, subs, link, handler, replay, owed>>
        /\ sender' = [sender EXCEPT ![p] = "buffered"]
    BY <1>1 DEF BufferPost, Comes, round, conns
  <2>2. \/ due'[d] = due[d]
        \/ due'[d] = due[d] \cup {p} /\ Debtor(d, p)
    BY <1>1 DEF BufferPost, Comes, Debtor
  <2>3. sender'[p] = "buffered" /\ \A q \in Posts \ {p} : sender'[q] = sender[q]
    BY <2>1, <1>c DEF QueuesOK
  <2>4. due[d] \subseteq Posts
    BY DEF DebtsTyped
  <2>5. ASSUME NEW q \in due'[d] PROVE Debtor(d, q)' /\ OnItsWay(d, q)'
    <3>1. CASE q = p
      BY <2>1, <2>2, <2>3, <3>1 DEF Paid, Debtor, OnItsWay
    <3>2. CASE q # p
      BY <2>1, <2>2, <2>3, <2>4, <3>2 DEF Paid, Debtor, OnItsWay
    <3> QED
      BY <3>1, <3>2
  <2> QED
    BY <2>1, <2>5 DEF Paid, InRoom, Debtor, InReplay
<1>2. ASSUME NEW p \in Posts, QueuePost(p) PROVE Paid(d)'
  <2>1. UNCHANGED <<hub, current, todo, clients, subs, link, handler, replay, owed, due>>
    BY <1>2 DEF QueuePost, round, conns, debts
  <2>2. \A q \in Posts \ {p} : sender'[q] = sender[q]
    BY <1>2, <1>c DEF QueuePost, QueuesOK
  <2>3. /\ Range(channel) \subseteq Range(channel')
        /\ p \in Range(channel') \/ sender'[p] = "dropped"
    <3>1. CASE Len(channel) < ChannelSize
      <4>1. channel' = Append(channel, p)
        BY <1>2, <3>1 DEF QueuePost
      <4> QED
        BY <4>1, <1>c, SequenceParts DEF QueuesOK
    <3>2. CASE ~(Len(channel) < ChannelSize)
      BY <1>2, <3>2, <1>c DEF QueuePost, QueuesOK
    <3> QED
      BY <3>1, <3>2
  <2>4. due[d] \subseteq Posts
    BY DEF DebtsTyped
  <2>5. ASSUME NEW q \in due[d] PROVE OnItsWay(d, q)'
    <3>1. CASE q = p
      BY <2>3, <3>1 DEF OnItsWay
    <3>2. CASE q # p
      BY <2>1, <2>2, <2>3, <2>4, <3>2 DEF Paid, OnItsWay
    <3> QED
      BY <3>1, <3>2
  <2> QED
    BY <2>1, <2>5 DEF Paid, InRoom, Debtor, InReplay
<1>3. ASSUME NEW c \in Conns, ReadFails(c) PROVE Paid(d)'
  <2>1. /\ UNCHANGED <<sender, channel, hub, current, todo, link, owed, due, replay>> /\ ~link[c]
        /\ clients' = clients \ {c} /\ subs' = [subs EXCEPT ![c] = {}]
        /\ \A e \in Conns \ {c} : handler'[e] = handler[e]
    BY <1>3, <1>c DEF ReadFails, messages, round, debts, ConnsOK
  <2>2. d = c => owed[d] = {} /\ due[d] = {}
    BY <2>1 DEF Paid, Debtor
  <2> QED
    BY <2>1, <2>2, <1>c DEF ConnsOK, Paid, InRoom, Debtor, InReplay, OnItsWay
<1>4. ASSUME NEW c \in Conns, Disconnect(c) PROVE Paid(d)'
  <2>1. /\ UNCHANGED <<sender, channel, hub, current, todo, clients, subs, handler, replay>>
        /\ owed'[d] = (IF d = c THEN {} ELSE owed[d]) /\ due'[d] = (IF d = c THEN {} ELSE due[d])
        /\ link'[d] = (IF d = c THEN FALSE ELSE link[d])
    BY <1>4, <1>c DEF Disconnect, Gone, messages, round, ConnsOK
  <2> QED
    BY <2>1 DEF Paid, InRoom, Debtor, InReplay, OnItsWay
<1>5. ASSUME NEW c \in Conns, NEW r \in Rooms, Subscribe(c, r) PROVE Paid(d)'
  BY <1>5, <1>c DEF Subscribe, messages, round, debts, ConnsOK, Paid, InRoom, Debtor, InReplay,
    OnItsWay
<1>6. CASE UNCHANGED vars
  BY <1>6 DEF vars, Paid, InRoom, Debtor, InReplay, OnItsWay
<1> QED
  BY <1>1, <1>2, <1>3, <1>4, <1>5, <1>6 DEF SenderStep

(* Registering before copying the buffer, and buffering before queueing,   *)
(* leave no gap between replay and broadcasts: at rest, a connected client *)
(* was replayed all of the latest posts of its room, and has been sent     *)
(* every later one that the channel had room for.                          *)
THEOREM NothingMissedOnJoin == Spec => []NoGapOnJoin
<1> DEFINE IInv == BufferIsLatest /\ DebtsArePaid
<1>0. DebtsArePaid <=> DebtsTyped /\ \A d \in Conns : Paid(d)
  BY DEF DebtsArePaid, DebtsTyped, Paid, InRoom, Debtor
<1>1. Init => IInv
  BY DEF Init, BufferIsLatest, DebtsArePaid
<1>2. HubOK /\ IInv /\ [Next]_vars => IInv'
  <2> SUFFICES ASSUME HubOK, IInv, [Next]_vars PROVE IInv'
    OBVIOUS
  <2>1. BufferIsLatest' /\ DebtsTyped'
    BY <1>0, BufferStep, DebtsStep
  <2>2. ASSUME NEW d \in Conns PROVE Paid(d)'
    BY <1>0, HubPays, HandlerPays, OthersPay DEF Next, JoinStep, Replaying
  <2> QED
    BY <2>1, <2>2 DEF DebtsArePaid, DebtsTyped, Paid, InRoom, Debtor
<1>3. HubOK /\ IInv => NoGapOnJoin
  <2> SUFFICES ASSUME HubOK, IInv, AtRest, NEW c \in Conns, handler[c] = "open"
               PROVE  owed[c] = {} /\ \A p \in due[c] : sender[p] = "dropped"
    BY DEF NoGapOnJoin
  <2>1. Range(<<>>) = {} /\ due[c] \subseteq Posts
    BY DEF DebtsArePaid, Range
  <2> QED
    BY <2>1 DEF AtRest, DebtsArePaid, InReplay, OnItsWay
<1> QED
  BY <1>1, <1>2, <1>3, HubHolds, PTL DEF Spec

===========================================================================
