-------------------------- MODULE Replies_proofs --------------------------
(* Theorems about Replies, for any goroutines, personas, slots and bounds. *)
EXTENDS Replies, FiniteSetTheorems, TLAPS

---------------------------------------------------------------------------
(* Queues in which nobody stands twice. *)

Distinct(q) == \A i, j \in 1 .. Len(q) : q[i] = q[j] => i = j

LEMMA AppendDistinct ==
  ASSUME NEW S, NEW q \in Seq(S), NEW x \in S, Distinct(q), ~Contains(q, x)
  PROVE  /\ Append(q, x) \in Seq(S) /\ Distinct(Append(q, x))
         /\ \A y : Contains(Append(q, x), y) <=> Contains(q, y) \/ y = x
<1> DEFINE t == Append(q, x)
<1>1. /\ t \in Seq(S) /\ Len(q) \in Nat /\ Len(t) = Len(q) + 1
      /\ \A i \in 1 .. Len(q) : t[i] = q[i]
      /\ t[Len(q) + 1] = x
  OBVIOUS
<1> HIDE DEF t
<1>2. \A i \in 1 .. Len(t) : i \in 1 .. Len(q) \/ i = Len(q) + 1
  BY <1>1
<1>3. Distinct(t)
  <2> SUFFICES ASSUME NEW i \in 1 .. Len(t), NEW j \in 1 .. Len(t), t[i] = t[j]
               PROVE  i = j
    BY DEF Distinct
  <2>1. CASE i \in 1 .. Len(q) /\ j \in 1 .. Len(q)
    BY <1>1, <2>1 DEF Distinct
  <2>2. CASE i = Len(q) + 1 \/ j = Len(q) + 1
    BY <1>1, <1>2, <2>2 DEF Contains
  <2> QED
    BY <1>2, <2>1, <2>2
<1>4. ASSUME NEW y PROVE Contains(t, y) <=> Contains(q, y) \/ y = x
  <2>1. Contains(t, y) => Contains(q, y) \/ y = x
    BY <1>1, <1>2 DEF Contains
  <2>2. Contains(q, y) => Contains(t, y)
    BY <1>1 DEF Contains
  <2>3. Len(q) + 1 \in 1 .. Len(t)
    BY <1>1
  <2>4. Contains(t, x)
    BY <1>1, <2>3 DEF Contains
  <2> QED
    BY <2>1, <2>2, <2>4
<1> QED
  BY <1>1, <1>3, <1>4 DEF t

LEMMA TailDistinct ==
  ASSUME NEW S, NEW q \in Seq(S), Distinct(q), q # <<>>
  PROVE  /\ Head(q) \in S /\ Contains(q, Head(q))
         /\ Tail(q) \in Seq(S) /\ Distinct(Tail(q))
         /\ \A y : Contains(Tail(q), y) <=> Contains(q, y) /\ y # Head(q)
<1> DEFINE t == Tail(q)
<1>1. /\ t \in Seq(S) /\ Len(q) \in Nat \ {0} /\ Len(t) = Len(q) - 1
      /\ \A i \in 1 .. Len(t) : t[i] = q[i + 1]
      /\ Head(q) = q[1] /\ Head(q) \in S
  OBVIOUS
<1> HIDE DEF t
<1>2. \A i \in 1 .. Len(t) : i + 1 \in 1 .. Len(q) /\ i + 1 # 1
  BY <1>1
<1>3. 1 \in 1 .. Len(q) /\ \A i \in 1 .. Len(q) : i # 1 => i - 1 \in 1 .. Len(t) /\ (i - 1) + 1 = i
  BY <1>1
<1>4. Contains(q, Head(q))
  BY <1>1, <1>3 DEF Contains
<1>5. Distinct(t)
  <2> SUFFICES ASSUME NEW i \in 1 .. Len(t), NEW j \in 1 .. Len(t), t[i] = t[j]
               PROVE  i = j
    BY DEF Distinct
  <2>1. i + 1 = j + 1
    BY <1>1, <1>2 DEF Distinct
  <2> QED
    BY <2>1
<1>6. ASSUME NEW y PROVE Contains(t, y) <=> Contains(q, y) /\ y # Head(q)
  <2>1. ASSUME NEW i \in 1 .. Len(t), t[i] = y PROVE Contains(q, y) /\ y # Head(q)
    BY <1>1, <1>2, <1>3, <2>1 DEF Contains, Distinct
  <2>2. ASSUME NEW i \in 1 .. Len(q), q[i] = y, y # Head(q) PROVE Contains(t, y)
    <3>1. i - 1 \in 1 .. Len(t) /\ t[i - 1] = y
      BY <1>1, <1>3, <2>2
    <3> QED
      BY <3>1 DEF Contains
  <2> QED
    BY <2>1, <2>2 DEF Contains
<1> QED
  BY <1>1, <1>4, <1>5, <1>6 DEF t

LEMMA RemoveAtDistinct ==
  ASSUME NEW S, NEW q \in Seq(S), Distinct(q), NEW k \in DOMAIN q
  PROVE  /\ RemoveAt(q, k) \in Seq(S) /\ Distinct(RemoveAt(q, k))
         /\ q[k] \in S /\ Contains(q, q[k])
         /\ \A y : Contains(RemoveAt(q, k), y) <=> Contains(q, y) /\ y # q[k]
<1> DEFINE t == RemoveAt(q, k)
           a == SubSeq(q, 1, k - 1)
           b == SubSeq(q, k + 1, Len(q))
<1>1. k \in 1 .. Len(q) /\ Len(q) \in Nat /\ q[k] \in S
  OBVIOUS
<1>2. /\ a \in Seq(S) /\ Len(a) = k - 1
      /\ \A i \in 1 .. k - 1 : a[i] = q[i]
  BY <1>1
<1>3. /\ b \in Seq(S) /\ Len(b) = Len(q) - k
      /\ \A i \in 1 .. Len(q) - k : b[i] = q[i + k]
  BY <1>1
<1>4. t = a \o b
  BY DEF RemoveAt
<1> HIDE DEF t, a, b
<1>5. /\ t \in Seq(S) /\ Len(t) = Len(a) + Len(b)
      /\ \A i \in 1 .. Len(t) : t[i] = IF i <= Len(a) THEN a[i] ELSE b[i - Len(a)]
  BY <1>2, <1>3, <1>4
<1>l. Len(t) = Len(q) - 1
  BY <1>1, <1>2, <1>3, <1>5
<1> DEFINE up(i) == IF i < k THEN i ELSE i + 1
<1>6. ASSUME NEW i \in 1 .. Len(t)
      PROVE  t[i] = q[up(i)] /\ up(i) \in 1 .. Len(q) /\ up(i) # k
  <2>1. CASE i < k
    <3>1. i \in 1 .. k - 1 /\ i <= Len(a) /\ i \in 1 .. Len(q) /\ i # k
      BY <1>1, <1>2, <1>l, <2>1
    <3>2. t[i] = a[i]
      BY <1>5, <3>1
    <3>3. a[i] = q[i]
      BY <1>2, <3>1
    <3> QED
      BY <2>1, <3>1, <3>2, <3>3
  <2>2. CASE ~(i < k)
    <3> DEFINE m == i - (k - 1)
    <3>1. /\ m \in 1 .. Len(q) - k /\ m + k = i + 1
          /\ i \in Int /\ k \in Int /\ ~(i <= k - 1)
          /\ i + 1 \in 1 .. Len(q) /\ i + 1 # k
      BY <1>1, <1>l, <2>2
    <3>2. t[i] = b[m]
      BY <1>2, <1>5, <3>1
    <3>3. b[m] = q[m + k]
      BY <1>3, <3>1
    <3> QED
      BY <2>2, <3>1, <3>2, <3>3
  <2> QED
    BY <2>1, <2>2
<1>7. ASSUME NEW i \in 1 .. Len(q), i # k
      PROVE  \E j \in 1 .. Len(t) : up(j) = i
  <2>1. CASE i < k
    BY <1>1, <1>2, <1>3, <1>5, <2>1
  <2>2. CASE i > k
    <3>1. i - 1 \in 1 .. Len(t) /\ up(i - 1) = i
      BY <1>1, <1>l, <2>2
    <3> QED
      BY <3>1
  <2> QED
    BY <1>1, <1>7, <2>1, <2>2
<1>8. Distinct(t)
  <2> SUFFICES ASSUME NEW i \in 1 .. Len(t), NEW j \in 1 .. Len(t), t[i] = t[j]
               PROVE  i = j
    BY DEF Distinct
  <2>1. up(i) = up(j)
    BY <1>6 DEF Distinct
  <2> QED
    BY <1>1, <2>1
<1> HIDE DEF up
<1>9. ASSUME NEW y PROVE Contains(t, y) <=> Contains(q, y) /\ y # q[k]
  <2>1. Contains(t, y) => Contains(q, y) /\ y # q[k]
    BY <1>1, <1>6 DEF Contains, Distinct
  <2>2. ASSUME NEW i \in 1 .. Len(q), q[i] = y, y # q[k] PROVE Contains(t, y)
    <3>1. PICK j \in 1 .. Len(t) : up(j) = i
      BY <1>7, <2>2
    <3> QED
      BY <1>6, <2>2, <3>1 DEF Contains
  <2> QED
    BY <2>1, <2>2 DEF Contains
<1>10. Contains(q, q[k])
  BY <1>1 DEF Contains
<1> QED
  BY <1>1, <1>5, <1>8, <1>9, <1>10 DEF t

---------------------------------------------------------------------------
(* The limiter of the LLM client.  Its counter is right because a token is *)
(* handed on, never lost, and because nobody stands twice in the queue:    *)
(* the goroutine at its head is the only one that gets the token.          *)

Queued ==
  /\ call \in [Goroutines -> Waiting .. Attempts]
  /\ queue \in Seq(Goroutines) /\ Distinct(queue)
  /\ \A r \in Goroutines : call[r] = Waiting <=> Contains(queue, r)
  /\ SlotsAccounted

(* A step of r on the limiter leaves the others in their calls or out of   *)
(* them.                                                                   *)
OthersStay(r) == \A s \in Goroutines : s # r => (call'[s] = Idle <=> call[s] = Idle)

LEMMA InCallFinite ==
  /\ InCall \subseteq Goroutines /\ IsFiniteSet(InCall) /\ Cardinality(InCall) \in Nat
BY RepliesAssumption, FS_Subset, FS_CardinalityType DEF InCall

LEMMA AcquireKeeps ==
  ASSUME Queued, NEW r \in Goroutines, Acquire(r)
  PROVE  Queued' /\ OthersStay(r)
<1> USE DEF Idle, Waiting
<1>1. /\ call[r] = 0 /\ Attempts \in Nat \ {0} /\ Slots \in Nat
      /\ call \in [Goroutines -> -1 .. Attempts]
      /\ queue \in Seq(Goroutines) /\ Distinct(queue)
      /\ \A s \in Goroutines : call[s] = -1 <=> Contains(queue, s)
      /\ SlotsAccounted
  BY RepliesAssumption DEF Acquire, Queued
<1>2. CASE slots < Slots
  <2>1. call' = [call EXCEPT ![r] = 1] /\ slots' = slots + 1 /\ queue' = queue /\ queue = <<>>
    BY <1>1, <1>2, InCallFinite DEF Acquire, SlotsAccounted
  <2>2. /\ call'[r] = 1 /\ call' \in [Goroutines -> -1 .. Attempts]
        /\ \A s \in Goroutines : s # r => call'[s] = call[s]
    BY <1>1, <2>1
  <2>3. InCall' = InCall \cup {r} /\ r \notin InCall
    BY <1>1, <2>2 DEF InCall
  <2>4. Cardinality(InCall') = Cardinality(InCall) + 1
    BY <2>3, InCallFinite, FS_AddElement
  <2>5. SlotsAccounted'
    BY <1>1, <1>2, <2>1, <2>4, InCallFinite DEF SlotsAccounted
  <2>6. \A s \in Goroutines : call'[s] = -1 <=> Contains(queue', s)
    BY <1>1, <2>1, <2>2
  <2> QED
    BY <1>1, <2>1, <2>2, <2>5, <2>6 DEF OthersStay, Queued
<1>3. CASE ~(slots < Slots)
  <2>1. call' = [call EXCEPT ![r] = -1] /\ queue' = Append(queue, r) /\ slots' = slots
    BY <1>3 DEF Acquire
  <2>2. /\ call'[r] = -1 /\ call' \in [Goroutines -> -1 .. Attempts]
        /\ \A s \in Goroutines : s # r => call'[s] = call[s]
    BY <1>1, <2>1
  <2>3. InCall' = InCall
    BY <1>1, <2>2 DEF InCall
  <2>4. SlotsAccounted'
    BY <1>1, <1>3, <2>1, <2>3, InCallFinite DEF SlotsAccounted
  <2>5. /\ queue' \in Seq(Goroutines) /\ Distinct(queue')
        /\ \A s \in Goroutines : Contains(queue', s) <=> Contains(queue, s) \/ s = r
    BY <1>1, <2>1, AppendDistinct
  <2>6. \A s \in Goroutines : call'[s] = -1 <=> Contains(queue', s)
    BY <1>1, <2>2, <2>5
  <2> QED
    BY <1>1, <2>2, <2>4, <2>5, <2>6 DEF OthersStay, Queued
<1> QED
  BY <1>2, <1>3

LEMMA ReleaseKeeps ==
  ASSUME Queued, NEW r \in Goroutines, InRequest(r), Release(r)
  PROVE  Queued' /\ OthersStay(r) /\ call'[r] = Idle
<1> USE DEF Idle, Waiting
<1>1. /\ call[r] > 0 /\ Attempts \in Nat \ {0} /\ Slots \in Nat
      /\ call \in [Goroutines -> -1 .. Attempts]
      /\ queue \in Seq(Goroutines) /\ Distinct(queue)
      /\ \A s \in Goroutines : call[s] = -1 <=> Contains(queue, s)
      /\ SlotsAccounted /\ r \in InCall
  BY RepliesAssumption DEF InRequest, Queued, InCall
<1>2. CASE queue = <<>>
  <2>1. call' = [call EXCEPT ![r] = 0] /\ slots' = slots - 1 /\ queue' = queue
    BY <1>2 DEF Release
  <2>2. /\ call'[r] = 0 /\ call' \in [Goroutines -> -1 .. Attempts]
        /\ \A s \in Goroutines : s # r => call'[s] = call[s]
    BY <1>1, <2>1
  <2>3. InCall' = InCall \ {r}
    BY <2>2 DEF InCall
  <2>4. Cardinality(InCall') = Cardinality(InCall) - 1
    BY <1>1, <2>3, InCallFinite, FS_RemoveElement
  <2>5. SlotsAccounted'
    BY <1>1, <1>2, <2>1, <2>4, InCallFinite DEF SlotsAccounted
  <2>6. \A s \in Goroutines : call'[s] = -1 <=> Contains(queue', s)
    BY <1>1, <2>1, <2>2
  <2> QED
    BY <1>1, <2>1, <2>2, <2>5, <2>6 DEF OthersStay, Queued
<1>3. CASE queue # <<>>
  <2> DEFINE h == Head(queue)
  <2>1. /\ h \in Goroutines /\ Contains(queue, h)
        /\ Tail(queue) \in Seq(Goroutines) /\ Distinct(Tail(queue))
        /\ \A s \in Goroutines : Contains(Tail(queue), s) <=> Contains(queue, s) /\ s # h
    BY <1>1, <1>3, TailDistinct
  <2>2. /\ call' = [call EXCEPT ![r] = 0, ![h] = 1]
        /\ queue' = Tail(queue) /\ slots' = slots
    BY <1>3 DEF Release
  <2> HIDE DEF h
  <2>3. call[h] = -1 /\ h # r
    BY <1>1, <2>1
  <2>4. /\ call'[r] = 0 /\ call'[h] = 1
        /\ \A s \in Goroutines : s # r /\ s # h => call'[s] = call[s]
        /\ call' \in [Goroutines -> -1 .. Attempts]
    BY <1>1, <2>1, <2>2, <2>3
  <2>5. SlotsAccounted'
    <3>1. InCall' = (InCall \ {r}) \cup {h} /\ h \notin InCall \ {r}
      BY <2>1, <2>3, <2>4 DEF InCall
    <3>2. /\ IsFiniteSet(InCall \ {r})
          /\ Cardinality(InCall \ {r}) = Cardinality(InCall) - 1
      BY <1>1, InCallFinite, FS_RemoveElement
    <3>3. Cardinality((InCall \ {r}) \cup {h}) = Cardinality(InCall \ {r}) + 1
      BY <3>1, <3>2, FS_AddElement
    <3>4. Cardinality(InCall') = Cardinality(InCall)
      BY <3>1, <3>2, <3>3, InCallFinite
    <3> QED
      BY <1>1, <1>3, <2>2, <3>4 DEF SlotsAccounted
  <2>6. \A s \in Goroutines : call'[s] = -1 <=> Contains(queue', s)
    BY <1>1, <2>1, <2>2, <2>3, <2>4
  <2> QED
    BY <1>1, <2>1, <2>2, <2>3, <2>4, <2>5, <2>6 DEF OthersStay, Queued
<1> QED
  BY <1>2, <1>3

(* A waiter whose time is over leaves the queue. *)
LEMMA LeavesQueue ==
  ASSUME Queued, NEW r \in Goroutines, NEW i \in DOMAIN queue, queue[i] = r,
         queue' = RemoveAt(queue, i), call' = [call EXCEPT ![r] = Idle], UNCHANGED slots
  PROVE  Queued' /\ OthersStay(r) /\ call'[r] = Idle
<1> USE DEF Idle, Waiting
<1>1. /\ Attempts \in Nat \ {0}
      /\ call \in [Goroutines -> -1 .. Attempts]
      /\ queue \in Seq(Goroutines) /\ Distinct(queue)
      /\ \A s \in Goroutines : call[s] = -1 <=> Contains(queue, s)
      /\ SlotsAccounted
  BY RepliesAssumption DEF Queued
<1>2. /\ Contains(queue, r) /\ queue' \in Seq(Goroutines) /\ Distinct(queue')
      /\ \A s \in Goroutines : Contains(queue', s) <=> Contains(queue, s) /\ s # r
  BY <1>1, RemoveAtDistinct
<1>3. call[r] = -1 /\ queue # <<>>
  BY <1>1, <1>2
<1>4. /\ call'[r] = 0 /\ call' \in [Goroutines -> -1 .. Attempts]
      /\ \A s \in Goroutines : s # r => call'[s] = call[s]
  BY <1>1
<1>5. InCall' = InCall
  BY <1>3, <1>4 DEF InCall
<1>6. SlotsAccounted'
  BY <1>1, <1>3, <1>5 DEF SlotsAccounted
<1>7. \A s \in Goroutines : call'[s] = -1 <=> Contains(queue', s)
  BY <1>1, <1>2, <1>4
<1> QED
  BY <1>2, <1>4, <1>6, <1>7 DEF OthersStay, Queued

(* The call ends, with whatever it brings. *)
LEMMA CallEnds ==
  ASSUME Queued, NEW r \in Goroutines, Answered(r) \/ Errored(r)
  PROVE  Queued' /\ OthersStay(r) /\ call'[r] = Idle
<1>1. CASE InRequest(r) /\ Release(r)
  BY <1>1, ReleaseKeeps
<1>2. CASE call[r] = Idle /\ UNCHANGED llmVars
  BY <1>2 DEF llmVars, Queued, OthersStay, SlotsAccounted, InCall
<1>3. CASE \E i \in DOMAIN queue : queue[i] = r /\ queue' = RemoveAt(queue, i)
             /\ call' = [call EXCEPT ![r] = Idle] /\ UNCHANGED slots
  BY <1>3, LeavesQueue
<1> QED
  BY <1>1, <1>2, <1>3 DEF Answered, Errored

LEMMA RetryKeeps ==
  ASSUME Queued, NEW r \in Goroutines, Retry(r)
  PROVE  Queued' /\ OthersStay(r)
<1> USE DEF Idle, Waiting
<1>1. /\ call[r] > 0 /\ call[r] < Attempts /\ Attempts \in Nat
      /\ call \in [Goroutines -> -1 .. Attempts]
      /\ call' = [call EXCEPT ![r] = @ + 1] /\ UNCHANGED <<slots, queue>>
  BY RepliesAssumption DEF Retry, InRequest, Queued
<1>2. /\ call'[r] = call[r] + 1 /\ call' \in [Goroutines -> -1 .. Attempts]
      /\ \A s \in Goroutines : s # r => call'[s] = call[s]
  BY <1>1
<1>3. InCall' = InCall
  BY <1>1, <1>2 DEF InCall
<1> QED
  BY <1>1, <1>2, <1>3 DEF Queued, SlotsAccounted, OthersStay

LEMMA QueuedInit == Init => Queued
<1> SUFFICES ASSUME Init PROVE Queued
  OBVIOUS
<1>1. InCall = {} /\ queue = <<>> /\ slots = 0
  BY DEF Init, InCall, Idle
<1>2. Cardinality(InCall) = 0
  BY <1>1, FS_EmptySet
<1> QED
  BY <1>1, <1>2, RepliesAssumption
     DEF Init, Queued, Distinct, Contains, SlotsAccounted, Idle, Waiting

LEMMA QueuedStep == Queued /\ [Next]_vars => Queued'
<1> SUFFICES ASSUME Queued, [Next]_vars PROVE Queued'
  OBVIOUS
<1>1. CASE UNCHANGED llmVars
  BY <1>1 DEF llmVars, Queued, SlotsAccounted, InCall
<1>2. ASSUME NEW r \in Goroutines, Acquire(r) PROVE Queued'
  BY <1>2, AcquireKeeps
<1>3. ASSUME NEW r \in Goroutines, Retry(r) PROVE Queued'
  BY <1>3, RetryKeeps
<1>4. ASSUME NEW r \in Goroutines,
             SentimentKnown(r) \/ AnalyzeIntent(r) \/ Generate(r) \/ QuickFallbackReply(r)
      PROVE  Queued'
  BY <1>4, CallEnds DEF SentimentKnown, AnalyzeIntent, Generate, QuickFallbackReply
<1>5. ASSUME NEW r \in Goroutines,
             \/ UserMessage(r) \/ BuildBundle(r) \/ ShouldAttemptReply(r) \/ SelectPersona(r)
             \/ ClaimPersona(r) \/ PersonaRefused(r) \/ Publish(r) \/ PushChatMessage(r)
             \/ DeadlinePasses(r)
      PROVE  UNCHANGED llmVars
  BY <1>5 DEF UserMessage, BuildBundle, ShouldAttemptReply, SelectPersona, ClaimPersona,
       PersonaRefused, Publish, PushChatMessage, DeadlinePasses, llmVars
<1>6. CASE \/ \E i \in 1 .. Len(stamps) : PostAges(i)
           \/ \E p \in Personas : KeyLapses(p)
           \/ \E o \in Others : OtherPost(o)
           \/ UNCHANGED vars
  <2>1. UNCHANGED llmVars
    BY <1>6 DEF PostAges, KeyLapses, OtherPost, vars, llmVars
  <2> QED
    BY <1>1, <2>1
<1> QED
  BY <1>1, <1>2, <1>3, <1>4, <1>5, <1>6 DEF Next, Step

LEMMA QueuedAccounts == Queued => SlotsAccounted
BY DEF Queued

(* However many goroutines call, fail, retry and give up, the limiter      *)
(* counts those in a request and keeps nobody waiting beside a free slot.  *)
THEOREM SlotsKept == Spec => []SlotsAccounted
BY QueuedInit, QueuedStep, QueuedAccounts, PTL DEF Spec

---------------------------------------------------------------------------
(* Type correctness.  What Queued says of the limiter is taken over from   *)
(* it; a goroutine that leaves a call is out of the limiter, and the       *)
(* others are where they were.                                             *)

(* The part of TypeOK that relates a goroutine's label to the rest. *)
Placed ==
  \A r \in Goroutines :
    /\ call[r] # Idle => pc[r] \in Calls
    /\ pc[r] \in Awaited \cup {"claim", "push"} => voice[r] # None

Shapes ==
  /\ pc \in [Goroutines -> Labels]
  /\ expired \subseteq Goroutines /\ keys \subseteq Personas
  /\ chat \in Seq(Posts \cup {None})
  /\ seen \in [Goroutines -> Nat] /\ \A r \in Goroutines : seen[r] <= Len(chat)
  /\ stamps \in Seq(Posts) /\ age \in [Posts -> 0 .. Old]
  /\ voice \in [Goroutines -> Personas \cup {None}]
  /\ faults \in 0 .. MaxFaults

LEMMA TypeParts == Queued => (TypeOK <=> Shapes /\ Placed)
BY DEF Queued, TypeOK, Shapes, Placed

LEMMA PartsInit == Init => Shapes /\ Placed
<1> SUFFICES ASSUME Init PROVE Shapes /\ Placed
  OBVIOUS
<1>1. Shapes
  BY RepliesAssumption DEF Init, Shapes, Labels, Old
<1>2. Placed
  BY DEF Init, Placed, Awaited
<1> QED
  BY <1>1, <1>2

LEMMA ShapesStep == Shapes /\ Placed /\ [Next]_vars => Shapes'
<1> SUFFICES ASSUME Shapes, Placed, [Next]_vars PROVE Shapes'
  OBVIOUS
<1> USE DEF Shapes, Goto, NoFault, postVars
<1>f. Fault => faults' \in 0 .. MaxFaults
  BY RepliesAssumption DEF Fault
<1>a. \A x \in Posts \cup {None} :
        chat' = Append(chat, x) =>
          /\ chat' \in Seq(Posts \cup {None})
          /\ \A r \in Goroutines : seen[r] <= Len(chat')
  OBVIOUS
<1>s. \A x \in Posts : stamps' = Append(stamps, x) => stamps' \in Seq(Posts)
  OBVIOUS
<1>1. ASSUME NEW r \in Goroutines, UserMessage(r) PROVE Shapes'
  BY <1>1, <1>a, <1>f DEF UserMessage, Labels
<1>2. ASSUME NEW r \in Goroutines, BuildBundle(r) PROVE Shapes'
  <2>1. pc' \in [Goroutines -> Labels] /\ faults' \in 0 .. MaxFaults
    BY <1>2, <1>f DEF BuildBundle, Labels, Calls
  <2>2. Len(chat) \in Nat
    OBVIOUS
  <2>3. seen' \in [Goroutines -> Nat] /\ \A s \in Goroutines : seen'[s] <= Len(chat)
    <3>1. CASE seen' = [seen EXCEPT ![r] = Len(chat)]
      <4>1. seen'[r] = Len(chat) /\ \A s \in Goroutines : s # r => seen'[s] = seen[s]
        BY <3>1
      <4> QED
        BY <2>2, <3>1, <4>1
    <3>2. CASE UNCHANGED seen
      BY <3>2
    <3> QED
      BY <1>2, <3>1, <3>2 DEF BuildBundle
  <2> QED
    BY <1>2, <2>1, <2>3 DEF BuildBundle
<1>3. ASSUME NEW r \in Goroutines, SentimentKnown(r) PROVE Shapes'
  BY <1>3 DEF SentimentKnown, Labels
<1>4. ASSUME NEW r \in Goroutines, ShouldAttemptReply(r) PROVE Shapes'
  BY <1>4 DEF ShouldAttemptReply, Labels, Calls
<1>5. ASSUME NEW r \in Goroutines, AnalyzeIntent(r) PROVE Shapes'
  BY <1>5 DEF AnalyzeIntent, Labels
<1>6. ASSUME NEW r \in Goroutines, SelectPersona(r) PROVE Shapes'
  BY <1>6 DEF SelectPersona, Labels
<1>7. ASSUME NEW r \in Goroutines, ClaimPersona(r) PROVE Shapes'
  <2>1. voice[r] \in Personas
    BY <1>7 DEF ClaimPersona, Placed
  <2> QED
    BY <1>7, <2>1 DEF ClaimPersona, Labels, Calls
<1>8. ASSUME NEW r \in Goroutines, PersonaRefused(r) PROVE Shapes'
  <2>1. voice[r] \in Personas
    BY <1>8 DEF PersonaRefused, Placed
  <2> QED
    BY <1>8, <1>f, <2>1 DEF PersonaRefused, Labels
<1>9. ASSUME NEW r \in Goroutines, Generate(r) PROVE Shapes'
  BY <1>9 DEF Generate, Labels, Calls
<1>10. ASSUME NEW r \in Goroutines, QuickFallbackReply(r) PROVE Shapes'
  BY <1>10 DEF QuickFallbackReply, Labels
<1>11. ASSUME NEW r \in Goroutines, Publish(r) PROVE Shapes'
  <2>1. r \in Posts
    BY DEF Posts
  <2> QED
    BY <1>11, <1>s, <2>1 DEF Publish, Labels
<1>12. ASSUME NEW r \in Goroutines, PushChatMessage(r) PROVE Shapes'
  <2>1. r \in Posts
    BY DEF Posts
  <2> QED
    BY <1>12, <1>a, <1>f, <2>1 DEF PushChatMessage, Labels
<1>13. ASSUME NEW r \in Goroutines, Acquire(r) \/ Retry(r) \/ DeadlinePasses(r) PROVE Shapes'
  BY <1>13 DEF Acquire, Retry, DeadlinePasses
<1>14. ASSUME NEW i \in 1 .. Len(stamps), PostAges(i) PROVE Shapes'
  <2>1. stamps[i] \in Posts
    OBVIOUS
  <2> QED
    BY <1>14, <2>1 DEF PostAges, Old
<1>15. ASSUME NEW p \in Personas, KeyLapses(p) PROVE Shapes'
  BY <1>15 DEF KeyLapses
<1>16. ASSUME NEW o \in Others, OtherPost(o) PROVE Shapes'
  <2>1. o \in Posts
    BY DEF Posts
  <2> QED
    BY <1>16, <1>a, <1>s, <2>1 DEF OtherPost
<1>17. CASE UNCHANGED vars
  BY <1>17 DEF vars
<1> QED
  BY <1>1, <1>2, <1>3, <1>4, <1>5, <1>6, <1>7, <1>8, <1>9, <1>10, <1>11, <1>12, <1>13,
     <1>14, <1>15, <1>16, <1>17 DEF Next, Step

(* Where r alone moves, and is out of the limiter after it or still in a   *)
(* call, everybody stays placed.                                           *)
LEMMA PlacedMoves ==
  ASSUME Shapes, Placed, NEW r \in Goroutines, OthersStay(r),
         \A s \in Goroutines : s # r => pc'[s] = pc[s] /\ voice'[s] = voice[s],
         call'[r] # Idle => pc'[r] \in Calls,
         pc'[r] \in Awaited \cup {"claim", "push"} => voice'[r] # None
  PROVE  Placed'
BY DEF Placed, OthersStay

LEMMA PlacedStep == Queued /\ Shapes /\ Placed /\ [Next]_vars => Placed'
<1> SUFFICES ASSUME Queued, Shapes, Placed, [Next]_vars PROVE Placed'
  OBVIOUS
<1> USE PlacedMoves DEF Goto, Awaited
<1>u. UNCHANGED <<pc, call, voice>> => Placed'
  BY DEF Placed
<1>o. UNCHANGED call => \A r \in Goroutines : OthersStay(r)
  BY DEF OthersStay
<1>p. \A r \in Goroutines, l \in Labels : pc' = [pc EXCEPT ![r] = l] =>
        pc'[r] = l /\ \A s \in Goroutines : s # r => pc'[s] = pc[s]
  BY DEF Shapes
<1>1. ASSUME NEW r \in Goroutines, UserMessage(r) PROVE Placed'
  BY <1>1, <1>o DEF UserMessage, llmVars, Placed, Shapes, Calls
<1>2. ASSUME NEW r \in Goroutines, BuildBundle(r) PROVE Placed'
  BY <1>2, <1>o DEF BuildBundle, llmVars, Placed, Shapes, Calls
<1>3. ASSUME NEW r \in Goroutines, SentimentKnown(r) PROVE Placed'
  BY <1>3, CallEnds DEF SentimentKnown, Shapes
<1>4. ASSUME NEW r \in Goroutines, ShouldAttemptReply(r) PROVE Placed'
  BY <1>4, <1>o DEF ShouldAttemptReply, llmVars, Placed, Shapes, Calls
<1>5. ASSUME NEW r \in Goroutines, AnalyzeIntent(r) PROVE Placed'
  <2>1. /\ Answered(r) \/ Errored(r)
        /\ pc'[r] \in {"persona", "done"} /\ UNCHANGED voice
        /\ \A s \in Goroutines : s # r => pc'[s] = pc[s]
    BY <1>5 DEF AnalyzeIntent, Shapes
  <2> QED
    BY <2>1, CallEnds
<1>6. ASSUME NEW r \in Goroutines, SelectPersona(r) PROVE Placed'
  <2>1. call'[r] = Idle /\ OthersStay(r)
    BY <1>6, <1>o DEF SelectPersona, llmVars, Placed, Calls
  <2>2. /\ pc'[r] \in {"claim", "done"} /\ (pc'[r] = "claim" => voice'[r] # None)
        /\ \A s \in Goroutines : s # r => pc'[s] = pc[s] /\ voice'[s] = voice[s]
    BY <1>6, RepliesAssumption DEF SelectPersona, Shapes
  <2> QED
    BY <2>1, <2>2
<1>7. ASSUME NEW r \in Goroutines, ClaimPersona(r) PROVE Placed'
  BY <1>7, <1>o DEF ClaimPersona, llmVars, Placed, Shapes, Calls
<1>8. ASSUME NEW r \in Goroutines, PersonaRefused(r) PROVE Placed'
  BY <1>8, <1>o DEF PersonaRefused, llmVars, Placed, Shapes, Calls
<1>9. ASSUME NEW r \in Goroutines, Generate(r) PROVE Placed'
  <2>1. /\ Answered(r) /\ pc'[r] \in {"again", "publish"} /\ UNCHANGED voice
        /\ \A s \in Goroutines : s # r => pc'[s] = pc[s]
    BY <1>9 DEF Generate, Shapes
  <2>2. voice[r] # None
    BY <1>9 DEF Generate, Placed
  <2> QED
    BY <2>1, <2>2, CallEnds
<1>10. ASSUME NEW r \in Goroutines, QuickFallbackReply(r) PROVE Placed'
  <2>1. /\ Errored(r) /\ pc'[r] = "publish" /\ UNCHANGED voice
        /\ \A s \in Goroutines : s # r => pc'[s] = pc[s]
    BY <1>10 DEF QuickFallbackReply, Shapes
  <2>2. voice[r] # None
    BY <1>10 DEF QuickFallbackReply, Placed
  <2> QED
    BY <2>1, <2>2, CallEnds
<1>11. ASSUME NEW r \in Goroutines, Publish(r) PROVE Placed'
  BY <1>11, <1>o DEF Publish, llmVars, Placed, Shapes, Calls
<1>12. ASSUME NEW r \in Goroutines, PushChatMessage(r) PROVE Placed'
  BY <1>12, <1>o DEF PushChatMessage, llmVars, Placed, Shapes, Calls
<1>13. ASSUME NEW r \in Goroutines, Acquire(r) PROVE Placed'
  BY <1>13, AcquireKeeps DEF Acquire, Placed
<1>14. ASSUME NEW r \in Goroutines, Retry(r) PROVE Placed'
  BY <1>14, RetryKeeps DEF Retry, InRequest, Placed
<1>15. ASSUME NEW r \in Goroutines, DeadlinePasses(r) PROVE Placed'
  BY <1>15, <1>u DEF DeadlinePasses, llmVars
<1>16. CASE \/ \E i \in 1 .. Len(stamps) : PostAges(i)
            \/ \E p \in Personas : KeyLapses(p)
            \/ \E o \in Others : OtherPost(o)
            \/ UNCHANGED vars
  BY <1>16, <1>u DEF PostAges, KeyLapses, OtherPost, vars, llmVars
<1> QED
  BY <1>1, <1>2, <1>3, <1>4, <1>5, <1>6, <1>7, <1>8, <1>9, <1>10, <1>11, <1>12, <1>13,
     <1>14, <1>15, <1>16 DEF Next, Step

Sound == Queued /\ Shapes /\ Placed

LEMMA SoundInit == Init => Sound
BY QueuedInit, PartsInit DEF Sound

LEMMA SoundStep == Sound /\ [Next]_vars => Sound'
BY QueuedStep, ShapesStep, PlacedStep DEF Sound

(* The types hold for any number of goroutines, slots and requests; nobody *)
(* goes on past the selection without a voice.                             *)
THEOREM RepliesTyping == Spec => []TypeOK
<1>1. Sound => TypeOK
  BY TypeParts DEF Sound
<1> QED
  BY <1>1, SoundInit, SoundStep, PTL DEF Spec

---------------------------------------------------------------------------
(* PersonaAnswersOnce and ClaimedPersonaSpeaks.  A persona is claimed by   *)
(* the one goroutine that set its key, and the key stays until its reply   *)
(* is old.                                                                 *)

Stamped(r) == Contains(stamps, r)

(* Before the selection nobody has a voice; who is stamped has one and is  *)
(* past its publication, and nobody with a voice is there unstamped.       *)
Spoken ==
  \A r \in Goroutines :
    /\ pc[r] \in {"away", "bundle", "sentiment", "gate", "intent", "persona"} => voice[r] = None
    /\ Stamped(r) => pc[r] \in {"push", "done"} /\ voice[r] # None
    /\ pc[r] = "push" \/ (pc[r] = "done" /\ voice[r] # None) => Stamped(r)

(* Whose persona is spoken for. *)
Claims(r) == pc[r] \in Awaited \/ (Stamped(r) /\ age[r] # Old)

Claimed ==
  /\ \A r \in Goroutines : Claims(r) => voice[r] \in keys
  /\ \A r, s \in Goroutines : r # s /\ Claims(r) /\ Claims(s) => voice[r] # voice[s]

LEMMA Stamping ==
  ASSUME Shapes, NEW x \in Posts, stamps' = Append(stamps, x)
  PROVE  \A r \in Goroutines : Stamped(r)' <=> Stamped(r) \/ r = x
<1>1. /\ Len(stamps) \in Nat /\ Len(stamps') = Len(stamps) + 1
      /\ \A i \in 1 .. Len(stamps) : stamps'[i] = stamps[i]
      /\ stamps'[Len(stamps) + 1] = x
  BY DEF Shapes
<1>2. \A i \in 1 .. Len(stamps') : i \in 1 .. Len(stamps) \/ i = Len(stamps) + 1
  BY <1>1
<1>3. Len(stamps) + 1 \in 1 .. Len(stamps') /\ 1 .. Len(stamps) \subseteq 1 .. Len(stamps')
  BY <1>1
<1>4. ASSUME NEW r \in Goroutines PROVE Stamped(r)' <=> Stamped(r) \/ r = x
  <2>1. Stamped(r)' => Stamped(r) \/ r = x
    BY <1>1, <1>2 DEF Stamped, Contains
  <2>2. Stamped(r) => Stamped(r)'
    BY <1>1, <1>3 DEF Stamped, Contains
  <2>3. r = x => Stamped(r)'
    BY <1>1, <1>3 DEF Stamped, Contains
  <2> QED
    BY <2>1, <2>2, <2>3
<1> QED
  BY <1>4

LEMMA SpokenInit == Init => Spoken /\ Claimed
BY DEF Init, Spoken, Claimed, Claims, Stamped, Contains, Awaited

(* Where r alone moves and the stamps stay, r has to keep its own part.    *)
LEMMA SpokenMoves ==
  ASSUME Spoken, Claimed, NEW r \in Goroutines, UNCHANGED <<stamps, age>>,
         \A s \in Goroutines : s # r => pc'[s] = pc[s] /\ voice'[s] = voice[s],
         keys \subseteq keys',
         ~Stamped(r),
         pc'[r] \in {"away", "bundle", "sentiment", "gate", "intent", "persona"} => voice'[r] = None,
         pc'[r] # "push" /\ (pc'[r] = "done" => voice'[r] = None),
         pc'[r] \in Awaited => /\ voice'[r] \in keys'
                               /\ \/ pc[r] \in Awaited /\ voice'[r] = voice[r]
                                  \/ voice'[r] \notin keys
  PROVE  Spoken' /\ Claimed'
<1>1. \A s \in Goroutines : Stamped(s)' <=> Stamped(s)
  BY DEF Stamped
<1>2. Spoken'
  BY <1>1 DEF Spoken
<1>3. \A s \in Goroutines : s # r => (Claims(s)' <=> Claims(s))
  BY <1>1 DEF Claims
<1>4. Claims(r)' <=> pc'[r] \in Awaited
  BY <1>1 DEF Claims
<1>5. Claims(r) <=> pc[r] \in Awaited
  BY DEF Claims
<1>6. \A s \in Goroutines : Claims(s)' => voice'[s] \in keys'
  BY <1>3, <1>4 DEF Claimed
<1>7. ASSUME NEW s \in Goroutines, s # r, Claims(s)', Claims(r)' PROVE voice'[s] # voice'[r]
  <2>1. Claims(s) /\ voice'[s] = voice[s] /\ voice[s] \in keys
    BY <1>3, <1>7 DEF Claimed
  <2>2. CASE pc[r] \in Awaited /\ voice'[r] = voice[r]
    BY <1>5, <1>7, <2>1, <2>2 DEF Claimed
  <2>3. CASE voice'[r] \notin keys
    BY <2>1, <2>3
  <2> QED
    BY <1>4, <1>7, <2>2, <2>3
<1>8. \A s, t \in Goroutines : s # t /\ Claims(s)' /\ Claims(t)' => voice'[s] # voice'[t]
  BY <1>3, <1>7 DEF Claimed
<1> QED
  BY <1>2, <1>6, <1>8 DEF Claimed

LEMMA SpokenStep == Sound /\ Spoken /\ Claimed /\ [Next]_vars => Spoken' /\ Claimed'
<1> SUFFICES ASSUME Sound, Spoken, Claimed, [Next]_vars PROVE Spoken' /\ Claimed'
  OBVIOUS
<1> USE SpokenMoves DEF Goto, Awaited, Sound
<1>u. UNCHANGED <<pc, stamps, age, keys, voice>> => Spoken' /\ Claimed'
  BY DEF Spoken, Claimed, Claims, Stamped
<1>n. \A r \in Goroutines : pc[r] \notin {"push", "done"} => ~Stamped(r)
  BY DEF Spoken
<1>1. ASSUME NEW r \in Goroutines, UserMessage(r) PROVE Spoken' /\ Claimed'
  BY <1>1, <1>n DEF UserMessage, postVars, Spoken, Shapes
<1>2. ASSUME NEW r \in Goroutines, BuildBundle(r) PROVE Spoken' /\ Claimed'
  BY <1>2, <1>n DEF BuildBundle, postVars, Spoken, Shapes
<1>3. ASSUME NEW r \in Goroutines, SentimentKnown(r) PROVE Spoken' /\ Claimed'
  BY <1>3, <1>n DEF SentimentKnown, postVars, Spoken, Shapes
<1>4. ASSUME NEW r \in Goroutines, ShouldAttemptReply(r) PROVE Spoken' /\ Claimed'
  BY <1>4, <1>n DEF ShouldAttemptReply, postVars, Spoken, Shapes
<1>5. ASSUME NEW r \in Goroutines, AnalyzeIntent(r) PROVE Spoken' /\ Claimed'
  <2>1. /\ pc[r] = "intent" /\ pc'[r] \in {"persona", "done"}
        /\ UNCHANGED <<voice, keys, stamps, age>>
        /\ \A s \in Goroutines : s # r => pc'[s] = pc[s]
    BY <1>5 DEF AnalyzeIntent, postVars, Shapes
  <2>2. voice[r] = None
    BY <2>1 DEF Spoken
  <2> QED
    BY <2>1, <2>2, <1>n
<1>6. ASSUME NEW r \in Goroutines, SelectPersona(r) PROVE Spoken' /\ Claimed'
  <2>1. /\ pc[r] = "persona" /\ UNCHANGED <<keys, stamps, age>>
        /\ \A s \in Goroutines : s # r => pc'[s] = pc[s] /\ voice'[s] = voice[s]
        /\ pc'[r] = "claim" \/ (pc'[r] = "done" /\ voice'[r] = voice[r])
    BY <1>6 DEF SelectPersona, postVars, Shapes
  <2>2. voice[r] = None
    BY <2>1 DEF Spoken
  <2> QED
    BY <2>1, <2>2, <1>n
<1>7. ASSUME NEW r \in Goroutines, ClaimPersona(r) PROVE Spoken' /\ Claimed'
  BY <1>7, <1>n DEF ClaimPersona, postVars, Shapes
<1>8. ASSUME NEW r \in Goroutines, PersonaRefused(r) PROVE Spoken' /\ Claimed'
  <2>1. /\ pc[r] = "claim" /\ UNCHANGED <<stamps, age>> /\ keys \subseteq keys'
        /\ pc'[r] = "done" /\ voice'[r] = None
        /\ \A s \in Goroutines : s # r => pc'[s] = pc[s] /\ voice'[s] = voice[s]
    BY <1>8 DEF PersonaRefused, postVars, Shapes
  <2> QED
    BY <2>1, <1>n
<1>9. ASSUME NEW r \in Goroutines, Generate(r) PROVE Spoken' /\ Claimed'
  <2>1. /\ pc[r] \in {"generate", "again"} /\ pc'[r] \in {"again", "publish"}
        /\ UNCHANGED <<voice, keys, stamps, age>>
        /\ \A s \in Goroutines : s # r => pc'[s] = pc[s]
    BY <1>9 DEF Generate, postVars, Shapes
  <2>2. voice[r] \in keys
    BY <2>1 DEF Claimed, Claims
  <2> QED
    BY <2>1, <2>2, <1>n
<1>10. ASSUME NEW r \in Goroutines, QuickFallbackReply(r) PROVE Spoken' /\ Claimed'
  <2>1. /\ pc[r] \in {"generate", "again"} /\ pc'[r] = "publish"
        /\ UNCHANGED <<voice, keys, stamps, age>>
        /\ \A s \in Goroutines : s # r => pc'[s] = pc[s]
    BY <1>10 DEF QuickFallbackReply, postVars, Shapes
  <2>2. voice[r] \in keys
    BY <2>1 DEF Claimed, Claims
  <2> QED
    BY <2>1, <2>2, <1>n
<1>11. ASSUME NEW r \in Goroutines, Publish(r) PROVE Spoken' /\ Claimed'
  <2>1. /\ pc[r] = "publish" /\ pc'[r] = "push" /\ stamps' = Append(stamps, r) /\ r \in Posts
        /\ UNCHANGED <<voice, keys, age>>
        /\ \A s \in Goroutines : s # r => pc'[s] = pc[s]
    BY <1>11 DEF Publish, Shapes, Posts
  <2>2. \A s \in Goroutines : Stamped(s)' <=> Stamped(s) \/ s = r
    BY <2>1, Stamping
  <2>3. voice[r] # None
    BY <2>1 DEF Placed
  <2>4. Spoken'
    BY <2>1, <2>2, <2>3 DEF Spoken
  <2>5. \A s \in Goroutines : Claims(s)' => Claims(s)
    BY <2>1, <2>2 DEF Claims
  <2> QED
    BY <2>1, <2>4, <2>5 DEF Claimed
<1>12. ASSUME NEW r \in Goroutines, PushChatMessage(r) PROVE Spoken' /\ Claimed'
  <2>1. /\ pc[r] = "push" /\ pc'[r] = "done" /\ UNCHANGED <<voice, keys, stamps, age>>
        /\ \A s \in Goroutines : s # r => pc'[s] = pc[s]
    BY <1>12 DEF PushChatMessage, postVars, Shapes
  <2>2. \A s \in Goroutines : Stamped(s)' <=> Stamped(s)
    BY <2>1 DEF Stamped
  <2>3. Spoken'
    BY <2>1, <2>2 DEF Spoken
  <2>4. \A s \in Goroutines : Claims(s)' => Claims(s)
    BY <2>1, <2>2 DEF Claims
  <2> QED
    BY <2>1, <2>3, <2>4 DEF Claimed
<1>13. ASSUME NEW r \in Goroutines, Acquire(r) \/ Retry(r) \/ DeadlinePasses(r)
       PROVE  Spoken' /\ Claimed'
  BY <1>13, <1>u DEF Acquire, Retry, DeadlinePasses, postVars
<1>14. ASSUME NEW i \in 1 .. Len(stamps), PostAges(i) PROVE Spoken' /\ Claimed'
  <2>1. /\ UNCHANGED <<pc, voice, keys, stamps>>
        /\ \A x \in Posts : age[x] = Old => age'[x] = Old
    BY <1>14 DEF PostAges, Shapes
  <2>2. \A s \in Goroutines : (Stamped(s)' <=> Stamped(s)) /\ (Claims(s)' => Claims(s))
    BY <2>1 DEF Stamped, Claims, Posts
  <2> QED
    BY <2>1, <2>2 DEF Spoken, Claimed
<1>15. ASSUME NEW p \in Personas, KeyLapses(p) PROVE Spoken' /\ Claimed'
  <2>1. /\ UNCHANGED <<pc, voice, stamps, age>> /\ keys' = keys \ {p}
        /\ \A r \in Goroutines : voice[r] = p => ~Claims(r)
    BY <1>15 DEF KeyLapses, postVars, Claims, Stamped
  <2>2. \A s \in Goroutines : (Stamped(s)' <=> Stamped(s)) /\ (Claims(s)' <=> Claims(s))
    BY <2>1 DEF Stamped, Claims
  <2> QED
    BY <2>1, <2>2 DEF Spoken, Claimed
<1>16. ASSUME NEW o \in Others, OtherPost(o) PROVE Spoken' /\ Claimed'
  <2>1. /\ stamps' = Append(stamps, o) /\ o \in Posts /\ o \notin Goroutines
        /\ UNCHANGED <<pc, voice, keys, age>>
    BY <1>16, RepliesAssumption DEF OtherPost, Posts
  <2>2. \A s \in Goroutines : Stamped(s)' <=> Stamped(s)
    BY <2>1, Stamping
  <2>3. \A s \in Goroutines : Claims(s)' <=> Claims(s)
    BY <2>1, <2>2 DEF Claims
  <2> QED
    BY <2>1, <2>2, <2>3 DEF Spoken, Claimed
<1>17. CASE UNCHANGED vars
  BY <1>17, <1>u DEF vars, postVars
<1> QED
  BY <1>1, <1>2, <1>3, <1>4, <1>5, <1>6, <1>7, <1>8, <1>9, <1>10, <1>11, <1>12, <1>13,
     <1>14, <1>15, <1>16, <1>17 DEF Next, Step

(* No two replies of a persona within twenty seconds, however many         *)
(* goroutines have chosen it.                                              *)
THEOREM AnswersOnce == Spec => []PersonaAnswersOnce
<1>1. Spoken /\ Claimed => PersonaAnswersOnce
  BY DEF Spoken, Claimed, Claims, Stamped, PersonaAnswersOnce
<1> QED
  BY <1>1, SoundInit, SoundStep, SpokenInit, SpokenStep, PTL DEF Spec

(* A claimed persona has spoken when its goroutine ends. *)
THEOREM ClaimsSpeak == Spec => []ClaimedPersonaSpeaks
<1>1. Spoken => ClaimedPersonaSpeaks
  BY DEF Spoken, Stamped, ClaimedPersonaSpeaks
<1> QED
  BY <1>1, SoundInit, SoundStep, SpokenInit, SpokenStep, PTL DEF Spec

---------------------------------------------------------------------------
(* FreshRepliesOverlap.  A goroutine gets past the throttle only if nothing*)
(* in its window is fresh, the window never changes, and posts only age.   *)

Past == {"persona", "claim", "generate", "again", "publish", "push"}

Warned ==
  \A r \in Goroutines :
    pc[r] \in Past \/ Stamped(r) => \A p \in Seen(r) : age[p] # 0

LEMMA SeenPosts ==
  ASSUME Shapes, NEW r \in Goroutines PROVE Seen(r) \subseteq Posts
<1>1. \A i \in 1 .. seen[r] : i \in 1 .. Len(chat)
  BY DEF Shapes
<1> QED
  BY <1>1 DEF Seen, Shapes

(* What was appended since does not enter a window. *)
LEMMA SeenStays ==
  ASSUME Shapes, NEW r \in Goroutines, seen'[r] = seen[r],
         UNCHANGED chat \/ \E x \in Posts \cup {None} : chat' = Append(chat, x)
  PROVE  Seen(r)' = Seen(r)
<1>1. \A i \in 1 .. seen[r] : i \in 1 .. Len(chat)
  BY DEF Shapes
<1>2. \A i \in 1 .. Len(chat) : chat'[i] = chat[i]
  <2>1. CASE UNCHANGED chat
    BY <2>1
  <2>2. ASSUME NEW x \in Posts \cup {None}, chat' = Append(chat, x)
        PROVE  \A i \in 1 .. Len(chat) : chat'[i] = chat[i]
    BY <2>2 DEF Shapes
  <2> QED
    BY <2>1, <2>2
<1> QED
  BY <1>1, <1>2 DEF Seen

(* A fresh post in the window is the youngest, and holds back in any mood. *)
LEMMA FreshThrottles ==
  ASSUME Shapes, NEW r \in Goroutines, NEW p \in Seen(r), age[p] = 0, NEW sentiment
  PROVE  Throttled(r, sentiment)
<1> DEFINE P(a) == (\E q \in Seen(r) : age[q] = a) /\ \A q \in Seen(r) : age[q] >= a
           a0 == CHOOSE a \in 0 .. Old : P(a)
<1>1. \A q \in Seen(r) : age[q] \in 0 .. Old
  BY SeenPosts DEF Shapes
<1>2. P(0) /\ 0 \in 0 .. Old
  BY <1>1 DEF Old
<1>3. a0 \in 0 .. Old /\ P(a0)
  <2> HIDE DEF P
  <2> QED
    BY <1>2
<1>4. a0 = 0
  BY <1>3 DEF Old
<1>5. LatestBotReplyAge(r) = 0
  BY <1>4 DEF LatestBotReplyAge
<1> QED
  BY <1>5 DEF Throttled

LEMMA WarnedMoves ==
  ASSUME Shapes, Warned, NEW r \in Goroutines, UNCHANGED <<seen, age>>,
         UNCHANGED chat \/ \E x \in Posts \cup {None} : chat' = Append(chat, x),
         \A s \in Goroutines : s # r => pc'[s] = pc[s] /\ (Stamped(s)' => Stamped(s)),
         pc'[r] \in Past \/ Stamped(r)' => pc[r] \in Past \/ Stamped(r)
  PROVE  Warned'
BY SeenStays DEF Warned

LEMMA WarnedInit == Init => Warned
BY DEF Init, Warned, Stamped, Contains, Past

LEMMA WarnedStep == Sound /\ Spoken /\ Warned /\ [Next]_vars => Warned'
<1> SUFFICES ASSUME Sound, Spoken, Warned, [Next]_vars PROVE Warned'
  OBVIOUS
<1> USE WarnedMoves DEF Goto, Past, Sound
<1>t. UNCHANGED stamps => \A s \in Goroutines : Stamped(s)' <=> Stamped(s)
  BY DEF Stamped
<1>u. UNCHANGED <<pc, seen, age, chat, stamps>> => Warned'
  BY DEF Warned, Stamped, Seen
<1>1. ASSUME NEW r \in Goroutines, UserMessage(r) PROVE Warned'
  BY <1>1, <1>t DEF UserMessage, postVars, Shapes
<1>2. ASSUME NEW r \in Goroutines, BuildBundle(r) PROVE Warned'
  <2>1. /\ pc[r] = "bundle" /\ pc'[r] \in {"gate", "sentiment"}
        /\ \A s \in Goroutines : s # r => pc'[s] = pc[s] /\ seen'[s] = seen[s]
        /\ UNCHANGED <<chat, age, stamps>>
    BY <1>2 DEF BuildBundle, postVars, Shapes
  <2>2. ~Stamped(r)
    BY <2>1 DEF Spoken
  <2>3. \A s \in Goroutines : s # r => Seen(s)' = Seen(s)
    BY <2>1, SeenStays
  <2> QED
    BY <2>1, <2>2, <2>3, <1>t DEF Warned
<1>3. ASSUME NEW r \in Goroutines, SentimentKnown(r) PROVE Warned'
  BY <1>3, <1>t DEF SentimentKnown, postVars, Shapes
<1>4. ASSUME NEW r \in Goroutines, ShouldAttemptReply(r) PROVE Warned'
  BY <1>4, <1>t DEF ShouldAttemptReply, postVars, Shapes
<1>5. ASSUME NEW r \in Goroutines, AnalyzeIntent(r) PROVE Warned'
  <2>1. /\ pc[r] = "intent" /\ UNCHANGED <<seen, chat, age, stamps>>
        /\ \A s \in Goroutines : s # r => pc'[s] = pc[s]
    BY <1>5 DEF AnalyzeIntent, postVars, Shapes
  <2>2. PICK intent \in Intents :
          pc' = [pc EXCEPT ![r] = IF intent.requires /\ ~Throttled(r, intent.sentiment)
                                  THEN "persona" ELSE "done"]
    BY <1>5 DEF AnalyzeIntent
  <2>3. CASE Throttled(r, intent.sentiment)
    <3>1. pc'[r] = "done"
      BY <2>2, <2>3 DEF Shapes
    <3> QED
      BY <2>1, <3>1, <1>t
  <2>4. CASE ~Throttled(r, intent.sentiment)
    <3>1. \A p \in Seen(r) : age[p] # 0
      BY <2>4, FreshThrottles
    <3>2. \A s \in Goroutines : Seen(s)' = Seen(s)
      BY <2>1, SeenStays
    <3> QED
      BY <2>1, <3>1, <3>2, <1>t DEF Warned
  <2> QED
    BY <2>3, <2>4
<1>6. ASSUME NEW r \in Goroutines,
             \/ SelectPersona(r) \/ ClaimPersona(r) \/ PersonaRefused(r) \/ Generate(r)
             \/ QuickFallbackReply(r)
      PROVE  Warned'
  <2>1. /\ pc[r] \in Past /\ UNCHANGED <<seen, chat, age, stamps>>
        /\ \A s \in Goroutines : s # r => pc'[s] = pc[s]
    BY <1>6 DEF SelectPersona, ClaimPersona, PersonaRefused, Generate, QuickFallbackReply,
         postVars, Shapes
  <2> QED
    BY <2>1, <1>t
<1>7. ASSUME NEW r \in Goroutines, Publish(r) PROVE Warned'
  <2>1. /\ pc[r] = "publish" /\ stamps' = Append(stamps, r) /\ r \in Posts
        /\ UNCHANGED <<seen, chat, age>>
        /\ \A s \in Goroutines : s # r => pc'[s] = pc[s]
    BY <1>7 DEF Publish, Shapes, Posts
  <2>2. \A s \in Goroutines : Stamped(s)' <=> Stamped(s) \/ s = r
    BY <2>1, Stamping
  <2> QED
    BY <2>1, <2>2
<1>8. ASSUME NEW r \in Goroutines, PushChatMessage(r) PROVE Warned'
  <2>1. /\ pc[r] = "push" /\ UNCHANGED <<seen, age, stamps>> /\ r \in Posts
        /\ UNCHANGED chat \/ chat' = Append(chat, r)
        /\ \A s \in Goroutines : s # r => pc'[s] = pc[s]
    BY <1>8 DEF PushChatMessage, postVars, Shapes, Posts
  <2> QED
    BY <2>1, <1>t
<1>9. ASSUME NEW r \in Goroutines, Acquire(r) \/ Retry(r) \/ DeadlinePasses(r) PROVE Warned'
  BY <1>9, <1>u DEF Acquire, Retry, DeadlinePasses, postVars
<1>10. ASSUME NEW i \in 1 .. Len(stamps), PostAges(i) PROVE Warned'
  <2>0. UNCHANGED <<pc, seen, chat, stamps>> /\ age' = [age EXCEPT ![stamps[i]] = @ + 1]
    BY <1>10 DEF PostAges
  <2>1. UNCHANGED <<pc, seen, chat, stamps>> /\ \A x \in Posts : age[x] # 0 => age'[x] # 0
    <3>1. age \in [Posts -> 0 .. Old]
      BY <1>t DEF Shapes
    <3> QED
      BY <2>0, <3>1 DEF Old
  <2>2. \A s \in Goroutines : Seen(s)' = Seen(s) /\ Seen(s) \subseteq Posts
    BY <2>1, SeenStays, SeenPosts
  <2> QED
    BY <2>1, <2>2, <1>t DEF Warned
<1>11. ASSUME NEW p \in Personas, KeyLapses(p) PROVE Warned'
  BY <1>11, <1>u DEF KeyLapses, postVars
<1>12. ASSUME NEW o \in Others, OtherPost(o) PROVE Warned'
  <2>1. /\ stamps' = Append(stamps, o) /\ o \in Posts /\ o \notin Goroutines
        /\ chat' = Append(chat, o) /\ UNCHANGED <<pc, seen, age>>
    BY <1>12, RepliesAssumption DEF OtherPost, Posts
  <2>2. \A s \in Goroutines : Stamped(s)' <=> Stamped(s)
    BY <2>1, Stamping
  <2>3. \A s \in Goroutines : Seen(s)' = Seen(s)
    BY <2>1, SeenStays
  <2> QED
    BY <2>1, <2>2, <2>3 DEF Warned
<1>13. CASE UNCHANGED vars
  BY <1>13, <1>u DEF vars, postVars
<1> QED
  BY <1>1, <1>2, <1>3, <1>4, <1>5, <1>6, <1>7, <1>8, <1>9, <1>10, <1>11, <1>12, <1>13
     DEF Next, Step

LEMMA WarnedOverlap == Warned /\ Shapes => FreshRepliesOverlap
<1> SUFFICES ASSUME Warned, Shapes,
                    NEW i \in 1 .. Len(stamps), NEW j \in 1 .. Len(stamps),
                    stamps[j] \in Goroutines, age[stamps[i]] = 0
             PROVE  stamps[i] \notin Seen(stamps[j])
  BY DEF FreshRepliesOverlap
<1>1. Stamped(stamps[j])
  BY DEF Stamped, Contains
<1> QED
  BY <1>1 DEF Warned

(* What a goroutine saw holds it back for six seconds, whatever it and the *)
(* others wait for in between.                                             *)
THEOREM FreshHeldBack == Spec => []FreshRepliesOverlap
<1>1. Init => Sound /\ Spoken /\ Claimed /\ Warned
  BY SoundInit, SpokenInit, WarnedInit
<1>2. Sound /\ Spoken /\ Claimed /\ Warned /\ [Next]_vars
        => (Sound /\ Spoken /\ Claimed /\ Warned)'
  BY SoundStep, SpokenStep, WarnedStep
<1>3. Sound /\ Spoken /\ Claimed /\ Warned => FreshRepliesOverlap
  BY WarnedOverlap DEF Sound
<1> QED
  BY <1>1, <1>2, <1>3, PTL DEF Spec
===========================================================================
