-------------------------- MODULE Prematch_proofs --------------------------
(* Theorems about Prematch, for any matches, times, burst size and slots. *)
EXTENDS Prematch, FiniteSetTheorems, TLAPS

---------------------------------------------------------------------------
(* Type correctness. *)

LEMMA PollTyped ==
  ASSUME TypeOK, NEW m \in Matches, Begin(m) \/ Skip(m), UNCHANGED <<chat, marker>>
  PROVE  /\ step' \in [Slots -> {"free", "lookup", "check", "draft", "publish", "push",
                                 "pause", "mark"}]
         /\ match' \in [Slots -> Matches \cup {None}]
         /\ \A b \in Slots : (match'[b] = None) = (step'[b] = "free")
         /\ count' \in [Slots -> 0 .. BurstSize]
         /\ \A b \in Slots : step'[b] \in {"draft", "publish", "push"} => count'[b] < BurstSize
         /\ overlaps' \in [Matches -> Nat] /\ tail' \in [Slots -> Nat]
         /\ left' \subseteq Matches /\ looking' = None
<1>1. CASE Skip(m)
  BY <1>1 DEF Skip, bursts, TypeOK
<1>2. ASSUME NEW b \in Slots,
             step' = [step EXCEPT ![b] = "lookup"], match' = [match EXCEPT ![b] = m],
             count' = [count EXCEPT ![b] = 0], tail' = [tail EXCEPT ![b] = 0]
      PROVE  /\ step' \in [Slots -> {"free", "lookup", "check", "draft", "publish", "push",
                                     "pause", "mark"}]
             /\ match' \in [Slots -> Matches \cup {None}]
             /\ \A d \in Slots : (match'[d] = None) = (step'[d] = "free")
             /\ count' \in [Slots -> 0 .. BurstSize]
             /\ \A d \in Slots : step'[d] \in {"draft", "publish", "push"} => count'[d] < BurstSize
             /\ tail' \in [Slots -> Nat]
  BY <1>2, TimesAssumption, PrematchNoneAssumption DEF TypeOK
<1>3. CASE Begin(m)
  <2>1. overlaps' \in [Matches -> Nat] /\ left' \subseteq Matches /\ looking' = None
    BY <1>3 DEF Begin, TypeOK
  <2> QED
    BY <1>3, <1>2, <2>1 DEF Begin
<1> QED
  BY <1>1, <1>3

(* What a burst keeps of its goroutine. *)
SlotsOK ==
  /\ step \in [Slots -> {"free", "lookup", "check", "draft", "publish", "push",
                         "pause", "mark"}]
  /\ match \in [Slots -> Matches \cup {None}]
  /\ \A b \in Slots : (match[b] = None) = (step[b] = "free")
  /\ count \in [Slots -> 0 .. BurstSize]
  /\ \A b \in Slots : step[b] \in {"draft", "publish", "push"} => count[b] < BurstSize
  /\ tail \in [Slots -> Nat]

RestOK ==
  /\ now \in 0 .. LastTick
  /\ tick \in Nat /\ tick > now /\ due \in BOOLEAN
  /\ left \subseteq Matches /\ looking \in left \cup {None}
  /\ marker \subseteq Matches /\ chat \subseteq Matches
  /\ faults \in 0 .. MaxFaults /\ crashes \in 0 .. MaxCrashes
  /\ sent \in [Matches -> Nat] /\ overlaps \in [Matches -> Nat]

LEMMA TypeSplit == TypeOK <=> SlotsOK /\ RestOK
BY DEF TypeOK, SlotsOK, RestOK

LEMMA FaultType == TypeOK /\ Fault => faults' \in 0 .. MaxFaults
BY TimesAssumption DEF Fault, TypeOK

LEMMA BurstTyped ==
  ASSUME TypeOK, NEW b \in Slots, BurstStep(b)
  PROVE  SlotsOK'
<1>t. SlotsOK /\ BurstSize \in Nat \ {0} /\ None \notin Matches
  BY TypeSplit, TimesAssumption, PrematchNoneAssumption
<1>e. ASSUME EndBurst(b) PROVE SlotsOK'
  BY <1>e, <1>t DEF EndBurst, SlotsOK
<1>1. CASE Lookup(b)
  <2>1. ASSUME To(b, "check"), UNCHANGED <<match, count, tail>> PROVE SlotsOK'
    BY <2>1, <1>1, <1>t DEF Lookup, To, SlotsOK
  <2> QED
    BY <1>1, <2>1, <1>e DEF Lookup
<1>2. CASE CheckKickoff(b)
  BY <1>2, <1>t DEF CheckKickoff, To, SlotsOK
<1>n. ASSUME NEW s \in {"pause", "check"}, NextMessage(b, s), UNCHANGED match,
             tail' \in [Slots -> Nat], step[b] \in {"draft", "publish", "push"}
      PROVE  SlotsOK'
  BY <1>n, <1>t DEF NextMessage, To, SlotsOK
<1>3. CASE Draft(b)
  <2>1. ASSUME To(b, "publish"), UNCHANGED <<match, count, tail>> PROVE SlotsOK'
    BY <2>1, <1>3, <1>t DEF Draft, To, SlotsOK
  <2> QED
    BY <1>3, <2>1, <1>n, <1>t DEF Draft, SlotsOK
<1>4. CASE Publish(b)
  <2>1. tail' \in [Slots -> Nat]
    BY <1>4, <1>t DEF Publish, SlotsOK
  <2>2. ASSUME To(b, "push"), UNCHANGED count PROVE SlotsOK'
    BY <2>2, <2>1, <1>4, <1>t DEF Publish, To, SlotsOK
  <2> QED
    BY <1>4, <2>1, <2>2, <1>n DEF Publish
<1>5. CASE PushMessage(b)
  BY <1>5, <1>n, <1>t DEF PushMessage, SlotsOK
<1>6. CASE EndPause(b)
  BY <1>6, <1>t DEF EndPause, To, SlotsOK
<1>7. CASE MarkSent(b)
  BY <1>7, <1>e DEF MarkSent
<1> QED
  BY <1>1, <1>2, <1>3, <1>4, <1>5, <1>6, <1>7 DEF BurstStep

LEMMA BurstRest ==
  ASSUME TypeOK, NEW b \in Slots, BurstStep(b)
  PROVE  RestOK'
<1>t. SlotsOK /\ RestOK
  BY TypeSplit
<1>f. faults' \in 0 .. MaxFaults
  BY FaultType, <1>t DEF BurstStep, Lookup, CheckKickoff, Draft, Publish, PushMessage, EndPause,
    MarkSent, RestOK
<1>m. step[b] # "free" => match[b] \in Matches
  BY <1>t DEF SlotsOK
<1>s. sent' \in [Matches -> Nat] /\ marker' \subseteq Matches /\ chat' \subseteq Matches
  BY <1>t, <1>m DEF BurstStep, Lookup, CheckKickoff, Draft, Publish, PushMessage, EndPause,
    MarkSent, RestOK, keys
<1> QED
  BY <1>t, <1>f, <1>s DEF BurstStep, Lookup, CheckKickoff, Draft, Publish, PushMessage, EndPause,
    MarkSent, RestOK, poller

LEMMA TypeStep == TypeOK /\ [Next]_vars => TypeOK'
<1> SUFFICES ASSUME TypeOK, [Next]_vars PROVE TypeOK'
  OBVIOUS
<1>t. SlotsOK /\ RestOK
  BY TypeSplit
<1>1. CASE StartPoll
  <2>1. faults' \in 0 .. MaxFaults
    BY <1>1, <1>t, FaultType DEF StartPoll, RestOK
  <2>2. left' \subseteq Matches /\ looking' \in left' \cup {None} /\ due' = FALSE
    BY <1>1, <1>t DEF StartPoll, RestOK
  <2> QED
    BY <1>1, <1>t, <2>1, <2>2 DEF StartPoll, keys, bursts, SlotsOK, RestOK, TypeOK
<1>2. ASSUME NEW m \in Matches, ReadMarker(m) PROVE TypeOK'
  <2>1. CASE m \in marker
    BY <1>2, <2>1, <1>t DEF ReadMarker, keys, bursts, SlotsOK, RestOK, TypeOK
  <2>2. CASE m \notin marker
    <3>1. Begin(m) /\ UNCHANGED <<now, tick, due, marker, chat, faults, crashes, sent>>
      BY <1>2, <2>2 DEF ReadMarker, keys
    <3> QED
      BY <3>1, <1>t, PollTyped DEF RestOK, TypeOK
  <2> QED
    BY <2>1, <2>2
<1>3. CASE ReadChat
  <2>1. looking \in Matches
    BY <1>3, <1>t DEF ReadChat, RestOK
  <2>2. /\ Begin(looking) \/ Skip(looking)
        /\ UNCHANGED <<now, tick, due, marker, chat, faults, crashes, sent>>
    BY <1>3 DEF ReadChat, keys
  <2> QED
    BY <2>1, <2>2, <1>t, PollTyped DEF RestOK, TypeOK
<1>4. ASSUME NEW m \in Matches, ReadFails(m) PROVE TypeOK'
  <2>1. faults' \in 0 .. MaxFaults
    BY <1>4, FaultType DEF ReadFails
  <2>2. Skip(m) /\ UNCHANGED <<now, tick, due, marker, chat, crashes, sent>>
    BY <1>4 DEF ReadFails, keys
  <2> QED
    BY <2>1, <2>2, <1>t, PollTyped DEF RestOK, TypeOK
<1>5. ASSUME NEW b \in Slots, BurstStep(b) PROVE TypeOK'
  <2>1. SlotsOK' /\ RestOK'
    BY <1>5, BurstTyped, BurstRest
  <2> QED
    BY <2>1 DEF TypeOK, SlotsOK, RestOK
<1>6. CASE Tick
  <2>0. due' \in BOOLEAN
    BY <1>6, <1>t, Zenon DEF Tick, RestOK
  <2>1. now' \in 0 .. LastTick /\ tick' \in Nat /\ tick' > now'
    <3>1. CASE now' = tick
      BY <1>6, <3>1, <1>t, TimesAssumption DEF Tick, RestOK
    <3>2. CASE now' # tick
      BY <1>6, <3>2, <1>t, TimesAssumption DEF Tick, RestOK
    <3> QED
      BY <3>1, <3>2
  <2> QED
    BY <1>6, <1>t, <2>0, <2>1 DEF Tick, keys, bursts, SlotsOK, RestOK, TypeOK
<1>7. ASSUME NEW m \in Matches, OthersPost(m) PROVE TypeOK'
  BY <1>7, <1>t DEF OthersPost, poller, bursts, SlotsOK, RestOK, TypeOK
<1>8. CASE Restart
  <2>1. tick' \in Nat /\ tick' > now' /\ crashes' \in 0 .. MaxCrashes
    BY <1>8, <1>t, TimesAssumption DEF Restart, RestOK
  <2>2. SlotsOK'
    BY <1>8, TimesAssumption DEF Restart, SlotsOK
  <2> QED
    BY <1>8, <1>t, <2>1, <2>2 DEF Restart, keys, SlotsOK, RestOK, TypeOK
<1>9. CASE UNCHANGED vars
  BY <1>9, <1>t DEF vars, SlotsOK, RestOK, TypeOK
<1> QED
  BY <1>1, <1>2, <1>3, <1>4, <1>5, <1>6, <1>7, <1>8, <1>9 DEF Next, PollStep

(* Every reachable state of the poller and its bursts is well typed. *)
THEOREM PrematchTyping == Spec => []TypeOK
<1>1. Init => TypeOK
  BY TimesAssumption DEF Init, TypeOK
<1> QED
  BY <1>1, TypeStep, PTL DEF Spec

---------------------------------------------------------------------------
(* The tail of a burst: once a message went out a minute after the kickoff *)
(* no check lets another one through.                                      *)

LEMMA AfterKickoff ==
  ASSUME NEW m \in Matches, now \in Nat, now >= Kickoff[m] + Minute
  PROVE  MinutesToKickoff(m) < 0
<1>1. Kickoff[m] \in Nat /\ Minute \in Nat \ {0}
  BY TimesAssumption
<1>2. ASSUME NEW d \in Nat, NEW k \in Nat \ {0}, d >= k PROVE d \div k >= 1
  BY <1>2
<1>3. now - Kickoff[m] \in Nat /\ now - Kickoff[m] >= Minute /\ ~(now <= Kickoff[m])
  BY <1>1
<1>4. (now - Kickoff[m]) \div Minute >= 1
  BY <1>1, <1>2, <1>3
<1>5. MinutesToKickoff(m) = -((now - Kickoff[m]) \div Minute)
  BY <1>3 DEF MinutesToKickoff
<1>6. (now - Kickoff[m]) \div Minute \in Int
  BY <1>1, <1>3
<1> QED
  BY <1>4, <1>5, <1>6

TailOK(b) ==
  \/ tail[b] = 0
  \/ /\ tail[b] = 1 /\ step[b] \notin {"free", "draft", "publish"}
     /\ now >= Kickoff[match[b]] + Minute

Tails == \A b \in Slots : TailOK(b)

LEMMA TailKept ==
  ASSUME TypeOK, TypeOK', NEW b \in Slots, TailOK(b), now' >= now,
         tail'[b] = tail[b], match'[b] = match[b],
         \/ step'[b] = step[b]
         \/ {step[b], step'[b]} \cap {"free", "draft", "publish"} = {}
  PROVE  TailOK(b)'
<1>1. CASE tail[b] = 0
  BY <1>1 DEF TailOK
<1>2. CASE tail[b] # 0
  <2>1. match[b] \in Matches
    BY <1>2 DEF TailOK, TypeOK
  <2>2. Kickoff[match[b]] \in Nat /\ Minute \in Nat /\ now \in Nat /\ now' \in Nat
    BY <2>1, TimesAssumption DEF TypeOK
  <2>3. tail[b] = 1 /\ step[b] \notin {"free", "draft", "publish"} /\ now >= Kickoff[match[b]] + Minute
    BY <1>2 DEF TailOK
  <2>4. step'[b] \notin {"free", "draft", "publish"}
    BY <2>3
  <2>5. now' >= Kickoff[match[b]] + Minute
    BY <2>2, <2>3
  <2> QED
    BY <2>3, <2>4, <2>5 DEF TailOK
<1> QED
  BY <1>1, <1>2

LEMMA TailZero ==
  ASSUME NEW b \in Slots, tail'[b] = 0
  PROVE  TailOK(b)'
BY DEF TailOK

LEMMA TailsStep == TypeOK /\ TypeOK' /\ Tails /\ [Next]_vars => Tails'
<1> SUFFICES ASSUME TypeOK, TypeOK', Tails, [Next]_vars, NEW b \in Slots PROVE TailOK(b)'
  BY DEF Tails
<1>t. /\ now \in Nat /\ tail \in [Slots -> Nat] /\ TailOK(b)
      /\ step \in [Slots -> {"free", "lookup", "check", "draft", "publish", "push",
                             "pause", "mark"}]
      /\ match \in [Slots -> Matches \cup {None}] /\ count \in [Slots -> 0 .. BurstSize]
  BY TimesAssumption DEF TypeOK, Tails
<1>n. ASSUME now' = now \/ now' = now + 1, tail'[b] = tail[b], match'[b] = match[b],
             step'[b] = step[b]
      PROVE  TailOK(b)'
  <2>1. now' >= now
    BY <1>n, <1>t
  <2> QED
    BY <1>n, <1>t, <2>1, TailKept
<1>k. ASSUME UNCHANGED <<now, bursts>> PROVE TailOK(b)'
  BY <1>k, <1>n DEF bursts
<1>b. ASSUME NEW m \in Matches, Begin(m), UNCHANGED now PROVE TailOK(b)'
  <2>1. PICK d \in Slots : /\ step[d] = "free" /\ step' = [step EXCEPT ![d] = "lookup"]
                           /\ match' = [match EXCEPT ![d] = m]
                           /\ tail' = [tail EXCEPT ![d] = 0]
    BY <1>b DEF Begin
  <2>2. CASE d = b
    BY <2>1, <2>2, <1>t, TailZero
  <2>3. CASE d # b
    BY <2>1, <2>3, <1>t, <1>b, <1>n
  <2> QED
    BY <2>2, <2>3
<1>1. CASE StartPoll \/ \E m \in Matches : OthersPost(m)
  BY <1>1, <1>k DEF StartPoll, OthersPost
<1>2. ASSUME NEW m \in Matches, ReadMarker(m) PROVE TailOK(b)'
  <2>1. CASE m \in marker
    BY <1>2, <2>1, <1>k DEF ReadMarker
  <2>2. CASE m \notin marker
    BY <1>2, <2>2, <1>b DEF ReadMarker
  <2> QED
    BY <2>1, <2>2
<1>3. CASE ReadChat
  <2>1. looking \in Matches
    BY <1>3 DEF ReadChat, TypeOK
  <2>2. CASE looking \in chat
    BY <1>3, <2>2, <1>k DEF ReadChat, Skip
  <2>3. CASE looking \notin chat
    BY <1>3, <2>1, <2>3, <1>b DEF ReadChat
  <2> QED
    BY <2>2, <2>3
<1>4. ASSUME NEW m \in Matches, ReadFails(m) PROVE TailOK(b)'
  BY <1>4, <1>k DEF ReadFails, Skip
<1>5. ASSUME NEW d \in Slots, BurstStep(d), d # b PROVE TailOK(b)'
  <2>1. tail'[b] = tail[b] /\ match'[b] = match[b] /\ step'[b] = step[b] /\ now' = now
    BY <1>5, <1>t DEF BurstStep, Lookup, CheckKickoff, Draft, Publish, PushMessage, EndPause,
      MarkSent, To, NextMessage, EndBurst
  <2> QED
    BY <2>1, <1>n
<1>6. CASE BurstStep(b)
  <2>e. ASSUME EndBurst(b) PROVE TailOK(b)'
    BY <2>e, <1>t, TailZero DEF EndBurst
  <2>z. ASSUME tail[b] = 0, tail' = tail PROVE TailOK(b)'
    BY <2>z, TailZero
  <2>1. CASE Lookup(b)
    <3>1. CASE EndBurst(b)
      BY <3>1, <2>e
    <3>2. CASE ~EndBurst(b)
      <4>1. step[b] = "lookup" /\ step' = [step EXCEPT ![b] = "check"] /\ UNCHANGED <<match, tail, now>>
        BY <2>1, <3>2 DEF Lookup, To
      <4> QED
        BY <4>1, <1>t, TailKept
    <3> QED
      BY <3>1, <3>2
  <2>2. CASE CheckKickoff(b)
    <3>0. step[b] = "check" /\ UNCHANGED <<now, match, tail>>
      BY <2>2 DEF CheckKickoff
    <3>1. CASE step'[b] = "mark"
      BY <3>0, <3>1, <1>t, TailKept
    <3>2. CASE step'[b] # "mark"
      <4>1. ~(MinutesToKickoff(match[b]) < 0)
        BY <2>2, <3>2, <1>t DEF CheckKickoff, To
      <4>2. match[b] \in Matches
        BY <3>0, <1>t DEF TypeOK
      <4>3. ~(now >= Kickoff[match[b]] + Minute)
        BY <4>1, <4>2, <1>t, AfterKickoff
      <4> QED
        BY <4>3, <1>t, <3>0, <2>z DEF TailOK
    <3> QED
      BY <3>1, <3>2
  <2>3. CASE Draft(b)
    BY <2>3, <1>t, <2>z DEF Draft, TailOK
  <2>4. CASE Publish(b)
    <3>1. tail[b] = 0 /\ step'[b] \in {"push", "pause"} /\ match' = match /\ now' = now
      BY <2>4, <1>t DEF Publish, TailOK, To, NextMessage
    <3>2. CASE now >= Kickoff[match[b]] + Minute
      <4>1. tail'[b] = 1
        BY <2>4, <3>1, <3>2, <1>t DEF Publish
      <4> QED
        BY <3>1, <3>2, <4>1 DEF TailOK
    <3>3. CASE ~(now >= Kickoff[match[b]] + Minute)
      BY <2>4, <3>1, <3>3, <2>z DEF Publish
    <3> QED
      BY <3>2, <3>3
  <2>5. CASE PushMessage(b)
    <3>1. step[b] = "push" /\ step'[b] = "pause" /\ UNCHANGED <<now, match, tail>>
      BY <2>5, <1>t DEF PushMessage, NextMessage, To
    <3> QED
      BY <3>1, <1>t, TailKept
  <2>6. CASE EndPause(b)
    <3>1. step[b] = "pause" /\ step'[b] = "check" /\ UNCHANGED <<now, match, tail>>
      BY <2>6, <1>t DEF EndPause, To
    <3> QED
      BY <3>1, <1>t, TailKept
  <2>7. CASE MarkSent(b)
    BY <2>7, <2>e DEF MarkSent
  <2> QED
    BY <1>6, <2>1, <2>2, <2>3, <2>4, <2>5, <2>6, <2>7 DEF BurstStep
<1>7. CASE Tick
  BY <1>7, <1>n DEF Tick, bursts
<1>8. CASE Restart
  BY <1>8, TailZero DEF Restart
<1>9. CASE UNCHANGED vars
  BY <1>9, <1>k DEF vars, bursts
<1> QED
  BY <1>1, <1>2, <1>3, <1>4, <1>5, <1>6, <1>7, <1>8, <1>9 DEF Next, PollStep

(* A burst publishes at most one message from a minute past the kickoff on. *)
THEOREM BurstsStopAtKickoff == Spec => []KickoffTail
<1>1. Init => Tails
  BY DEF Init, Tails, TailOK
<1>2. TypeOK /\ Tails => KickoffTail
  BY DEF Tails, TailOK, KickoffTail
<1> QED
  BY <1>1, <1>2, TailsStep, PrematchTyping, PTL DEF Spec

---------------------------------------------------------------------------
(* One burst for each match.  Due(m) are the messages its bursts may still *)
(* publish, Open(m) its bursts that are not between a publish and its push,*)
(* Spend(m) what a message beyond the first burst is charged to.           *)

Done(b)  == IF step[b] = "push" THEN count[b] + 1 ELSE count[b]
Due(m)   == {p \in Slots \X (1 .. BurstSize) :
               step[p[1]] # "free" /\ match[p[1]] = m /\ p[2] > Done(p[1])}
Open(m)  == {b \in Running(m) : step[b] # "push"}
Spend(m) == overlaps[m] + faults + crashes

(* A match nothing of which is in its room lost every message it published *)
(* to a failure or a restart, one for each burst at work.                  *)
Budget(m) ==
  /\ sent[m] + Cardinality(Due(m)) <= BurstSize * Spend(m) + BurstSize
  /\ Running(m) = {} /\ m \notin marker => sent[m] <= BurstSize * Spend(m)
  /\ m \notin chat =>
       sent[m] + Cardinality(Open(m)) <= Spend(m) + (IF Running(m) = {} THEN 0 ELSE 1)

Budgets == \A m \in Matches : Budget(m)

LEMMA Scaled ==
  ASSUME NEW x \in Nat, NEW y \in Nat, y = x \/ y = x + 1
  PROVE  /\ BurstSize * x \in Nat /\ BurstSize * y \in Nat
         /\ x <= BurstSize * x
         /\ y = x => BurstSize * y = BurstSize * x
         /\ y = x + 1 => BurstSize * y = BurstSize * x + BurstSize
<1>0. BurstSize \in Nat /\ BurstSize >= 1
  BY TimesAssumption
<1>1. CASE y = x
  BY <1>0, <1>1
<1>2. CASE y = x + 1
  BY <1>0, <1>2
<1> QED
  BY <1>1, <1>2

LEMMA Finite ==
  ASSUME NEW m \in Matches
  PROVE  /\ IsFiniteSet(Due(m)) /\ IsFiniteSet(Open(m))
         /\ Cardinality(Due(m)) \in Nat /\ Cardinality(Open(m)) \in Nat
<1>1. IsFiniteSet(1 .. BurstSize)
  BY FS_Interval, TimesAssumption
<1>2. IsFiniteSet(Slots \X (1 .. BurstSize))
  BY <1>1, FS_Product, SlotsAssumption
<1>3. Due(m) \in SUBSET (Slots \X (1 .. BurstSize)) /\ Open(m) \in SUBSET Slots
  BY DEF Due, Open, Running
<1> QED
  BY <1>2, <1>3, FS_Subset, FS_CardinalityType, SlotsAssumption

LEMMA Numbers ==
  ASSUME TypeOK, NEW m \in Matches
  PROVE  /\ sent[m] \in Nat /\ Spend(m) \in Nat /\ BurstSize \in Nat /\ BurstSize >= 1
         /\ BurstSize * Spend(m) \in Nat /\ Spend(m) <= BurstSize * Spend(m)
<1>1. sent[m] \in Nat /\ overlaps[m] \in Nat /\ faults \in Nat /\ crashes \in Nat
      /\ BurstSize \in Nat /\ BurstSize >= 1
  BY TimesAssumption DEF TypeOK
<1>2. Spend(m) \in Nat
  BY <1>1 DEF Spend
<1> QED
  BY <1>1, <1>2, Scaled

(* A step that publishes nothing, opens nothing and ends nothing.          *)
LEMMA Keeps ==
  ASSUME TypeOK, TypeOK', NEW m \in Matches, Budget(m),
         sent'[m] = sent[m], Spend(m)' = Spend(m) \/ Spend(m)' = Spend(m) + 1,
         Due(m)' \subseteq Due(m), Open(m)' \subseteq Open(m),
         (Running(m) = {}) = (Running(m)' = {}),
         marker \subseteq marker', chat \subseteq chat'
  PROVE  Budget(m)'
<1>1. Cardinality(Due(m)') <= Cardinality(Due(m)) /\ Cardinality(Open(m)') <= Cardinality(Open(m))
  BY Finite, FS_Subset
<1>2. Cardinality(Due(m)') \in Nat /\ Cardinality(Open(m)') \in Nat
  BY <1>1, Finite, FS_Subset, FS_CardinalityType
<1>3. /\ sent[m] \in Nat /\ Spend(m) \in Nat /\ BurstSize \in Nat /\ Spend(m)' \in Nat
  BY Numbers
<1>4. /\ BurstSize * Spend(m) \in Nat /\ BurstSize * Spend(m)' \in Nat
      /\ BurstSize * Spend(m) <= BurstSize * Spend(m)'
  BY <1>3, Scaled
<1>5. Cardinality(Due(m)) \in Nat /\ Cardinality(Open(m)) \in Nat
  BY Finite
<1>6. sent'[m] + Cardinality(Due(m)') <= BurstSize * Spend(m)' + BurstSize
  BY <1>1, <1>2, <1>3, <1>4, <1>5 DEF Budget
<1>7. Running(m)' = {} /\ m \notin marker' => sent'[m] <= BurstSize * Spend(m)'
  BY <1>3, <1>4 DEF Budget
<1>8. m \notin chat' =>
        sent'[m] + Cardinality(Open(m)') <= Spend(m)' + (IF Running(m)' = {} THEN 0 ELSE 1)
  BY <1>1, <1>2, <1>3, <1>5 DEF Budget
<1> QED
  BY <1>6, <1>7, <1>8 DEF Budget

(* A publish: its message is not due any more, and its burst waits for the *)
(* push unless the publish failed.                                         *)
LEMMA Publishes ==
  ASSUME TypeOK, TypeOK', NEW m \in Matches, Budget(m),
         sent'[m] = sent[m] + 1, NEW p \in Due(m), Due(m)' \subseteq Due(m) \ {p},
         NEW b \in Open(m),
         \/ Spend(m)' = Spend(m) /\ Open(m)' \subseteq Open(m) \ {b}
         \/ Spend(m)' = Spend(m) + 1 /\ Open(m)' \subseteq Open(m),
         Running(m) # {}, Running(m)' # {},
         chat \subseteq chat'
  PROVE  Budget(m)'
<1>1. Cardinality(Due(m)') <= Cardinality(Due(m)) - 1
  <2>1. IsFiniteSet(Due(m) \ {p}) /\ Cardinality(Due(m) \ {p}) = Cardinality(Due(m)) - 1
    BY Finite, FS_RemoveElement
  <2> QED
    BY <2>1, FS_Subset
<1>2. IsFiniteSet(Open(m)) /\ IsFiniteSet(Open(m) \ {b})
      /\ Cardinality(Open(m) \ {b}) = Cardinality(Open(m)) - 1
  BY Finite, FS_RemoveElement
<1>3. \/ Spend(m)' = Spend(m) /\ Cardinality(Open(m)') <= Cardinality(Open(m)) - 1
      \/ Spend(m)' = Spend(m) + 1 /\ Cardinality(Open(m)') <= Cardinality(Open(m))
  BY <1>2, FS_Subset
<1>4. /\ sent[m] \in Nat /\ Spend(m) \in Nat /\ BurstSize \in Nat /\ Spend(m)' \in Nat
  BY Numbers
<1>5. /\ BurstSize * Spend(m) \in Nat /\ BurstSize * Spend(m)' \in Nat
      /\ BurstSize * Spend(m) <= BurstSize * Spend(m)'
  BY <1>4, Scaled
<1>6. Due(m)' \in SUBSET Due(m) /\ Open(m)' \in SUBSET Open(m)
  OBVIOUS
<1>7. /\ Cardinality(Due(m)) \in Nat /\ Cardinality(Open(m)) \in Nat
      /\ Cardinality(Due(m)') \in Nat /\ Cardinality(Open(m)') \in Nat
  BY <1>6, Finite, FS_Subset, FS_CardinalityType
<1>8. sent'[m] + Cardinality(Due(m)') <= BurstSize * Spend(m)' + BurstSize
  BY <1>1, <1>4, <1>5, <1>7 DEF Budget
<1>9. m \notin chat' => sent'[m] + Cardinality(Open(m)') <= Spend(m)' + 1
  BY <1>3, <1>4, <1>7 DEF Budget
<1> QED
  BY <1>8, <1>9 DEF Budget

(* A failed push: its burst is open again. *)
LEMMA LosesPush ==
  ASSUME TypeOK, TypeOK', NEW m \in Matches, Budget(m),
         sent'[m] = sent[m], Due(m)' \subseteq Due(m), NEW b,
         Open(m)' \subseteq Open(m) \cup {b}, Spend(m)' = Spend(m) + 1,
         Running(m) # {}, Running(m)' # {},
         chat \subseteq chat'
  PROVE  Budget(m)'
<1>1. Cardinality(Due(m)') <= Cardinality(Due(m)) /\ Cardinality(Due(m)') \in Nat
      /\ Cardinality(Due(m)) \in Nat /\ Cardinality(Open(m)) \in Nat
  BY Finite, FS_Subset, FS_CardinalityType
<1>2. IsFiniteSet(Open(m) \cup {b}) /\ Cardinality(Open(m) \cup {b}) <= Cardinality(Open(m)) + 1
      /\ Cardinality(Open(m) \cup {b}) \in Nat
  <2>1. IsFiniteSet(Open(m)) /\ Cardinality(Open(m)) \in Nat
    BY Finite
  <2>2. /\ IsFiniteSet(Open(m) \cup {b})
        /\ Cardinality(Open(m) \cup {b}) = IF b \in Open(m) THEN Cardinality(Open(m))
                                           ELSE Cardinality(Open(m)) + 1
    BY <2>1, FS_AddElement
  <2> QED
    BY <2>1, <2>2
<1>3. Cardinality(Open(m)') <= Cardinality(Open(m)) + 1 /\ Cardinality(Open(m)') \in Nat
  <2>1. IsFiniteSet(Open(m)') /\ Cardinality(Open(m)') <= Cardinality(Open(m) \cup {b})
    BY <1>2, FS_Subset
  <2> QED
    BY <1>1, <1>2, <2>1, FS_CardinalityType
<1>4. /\ sent[m] \in Nat /\ Spend(m) \in Nat /\ BurstSize \in Nat /\ Spend(m)' \in Nat
  BY Numbers
<1>5. /\ BurstSize * Spend(m) \in Nat /\ BurstSize * Spend(m)' \in Nat
      /\ BurstSize * Spend(m) <= BurstSize * Spend(m)'
  BY <1>4, Scaled
<1>8. sent'[m] + Cardinality(Due(m)') <= BurstSize * Spend(m)' + BurstSize
  BY <1>1, <1>4, <1>5 DEF Budget
<1>9. m \notin chat' => sent'[m] + Cardinality(Open(m)') <= Spend(m)' + 1
  BY <1>1, <1>3, <1>4 DEF Budget
<1> QED
  BY <1>8, <1>9 DEF Budget

(* A push that went through: the room is not empty any more. *)
LEMMA Heard ==
  ASSUME TypeOK, TypeOK', NEW m \in Matches, Budget(m),
         sent'[m] = sent[m], Due(m)' \subseteq Due(m), Spend(m)' = Spend(m),
         Running(m)' # {}, m \in chat'
  PROVE  Budget(m)'
<1>1. Cardinality(Due(m)') <= Cardinality(Due(m)) /\ Cardinality(Due(m)') \in Nat
      /\ Cardinality(Due(m)) \in Nat
  BY Finite, FS_Subset, FS_CardinalityType
<1>2. sent[m] \in Nat /\ BurstSize * Spend(m) \in Nat /\ BurstSize \in Nat
  BY Numbers
<1>3. sent'[m] + Cardinality(Due(m)') <= BurstSize * Spend(m)' + BurstSize
  BY <1>1, <1>2 DEF Budget
<1> QED
  BY <1>3 DEF Budget

(* The end of a burst, with a failure or with the marker.                  *)
LEMMA Ends ==
  ASSUME TypeOK, TypeOK', NEW m \in Matches, Budget(m),
         sent'[m] = sent[m], Due(m)' \subseteq Due(m),
         NEW b \in Open(m), Open(m)' \subseteq Open(m) \ {b},
         \/ Spend(m)' = Spend(m) + 1
         \/ Spend(m)' = Spend(m) /\ m \in marker',
         chat \subseteq chat'
  PROVE  Budget(m)'
<1>1. Cardinality(Due(m)') <= Cardinality(Due(m)) /\ Cardinality(Due(m)') \in Nat
      /\ Cardinality(Due(m)) \in Nat /\ Cardinality(Open(m)) \in Nat
  BY Finite, FS_Subset, FS_CardinalityType
<1>2. IsFiniteSet(Open(m) \ {b}) /\ Cardinality(Open(m) \ {b}) = Cardinality(Open(m)) - 1
  BY Finite, FS_RemoveElement
<1>3. Cardinality(Open(m)') <= Cardinality(Open(m)) - 1 /\ Cardinality(Open(m)') \in Nat
  BY <1>2, FS_Subset, FS_CardinalityType
<1>4. /\ sent[m] \in Nat /\ Spend(m) \in Nat /\ BurstSize \in Nat /\ Spend(m)' \in Nat
  BY Numbers
<1>5. /\ BurstSize * Spend(m) \in Nat /\ BurstSize * Spend(m)' \in Nat
      /\ BurstSize * Spend(m) <= BurstSize * Spend(m)'
      /\ Spend(m)' = Spend(m) + 1 => BurstSize * Spend(m)' = BurstSize * Spend(m) + BurstSize
  BY <1>4, Scaled
<1>6. sent'[m] + Cardinality(Due(m)') <= BurstSize * Spend(m)' + BurstSize
  BY <1>1, <1>4, <1>5 DEF Budget
<1>7. m \notin marker' => sent'[m] <= BurstSize * Spend(m)'
  BY <1>1, <1>4, <1>5 DEF Budget
<1>8. m \notin chat' =>
        sent'[m] + Cardinality(Open(m)') <= Spend(m)' + (IF Running(m)' = {} THEN 0 ELSE 1)
  BY <1>1, <1>3, <1>4 DEF Budget
<1> QED
  BY <1>6, <1>7, <1>8 DEF Budget

(* The start of a burst: charged to the poll that met another one at work, *)
(* or to nothing when all that was published is charged already.           *)
LEMMA Begins ==
  ASSUME TypeOK, TypeOK', NEW m \in Matches, Budget(m),
         sent'[m] = sent[m], NEW d \in Slots,
         Due(m)' \subseteq Due(m) \cup ({d} \X (1 .. BurstSize)),
         Open(m)' \subseteq Open(m) \cup {d}, Running(m)' # {},
         \/ Running(m) # {} /\ Spend(m)' = Spend(m) + 1
         \/ Running(m) = {} /\ Spend(m)' = Spend(m) /\ (m \notin marker \/ m \notin chat),
         chat \subseteq chat'
  PROVE  Budget(m)'
<1>1. Cardinality(Due(m)') <= Cardinality(Due(m)) + BurstSize /\ Cardinality(Due(m)') \in Nat
      /\ Cardinality(Due(m)) \in Nat /\ Cardinality(Open(m)) \in Nat
  <2>1. /\ BurstSize \in Nat /\ BurstSize >= 1
        /\ IsFiniteSet(1 .. BurstSize) /\ Cardinality(1 .. BurstSize) = BurstSize
    BY FS_Interval, TimesAssumption
  <2>2. IsFiniteSet({d}) /\ Cardinality({d}) = 1
    BY FS_Singleton
  <2>3. /\ IsFiniteSet({d} \X (1 .. BurstSize))
        /\ Cardinality({d} \X (1 .. BurstSize)) = Cardinality({d}) * Cardinality(1 .. BurstSize)
    BY <2>1, <2>2, FS_Product
  <2> DEFINE New == {d} \X (1 .. BurstSize)
  <2>4. IsFiniteSet(New) /\ Cardinality(New) = BurstSize
    <3>1. Cardinality({d}) * Cardinality(1 .. BurstSize) = BurstSize
      BY <2>1, <2>2
    <3> QED
      BY <2>3, <3>1
  <2> HIDE DEF New
  <2>5. /\ IsFiniteSet(Due(m) \cup New)
        /\ Cardinality(Due(m) \cup New) = Cardinality(Due(m)) + BurstSize - Cardinality(Due(m) \cap New)
    BY <2>4, Finite, FS_Union
  <2>6. Cardinality(Due(m) \cap New) \in Nat
    BY Finite, FS_Subset, FS_CardinalityType
  <2>7. Due(m)' \subseteq Due(m) \cup New
    BY DEF New
  <2>8. IsFiniteSet(Due(m)') /\ Cardinality(Due(m)') <= Cardinality(Due(m) \cup New)
    BY <2>5, <2>7, FS_Subset
  <2>9. Cardinality(Due(m)) \in Nat /\ Cardinality(Open(m)) \in Nat /\ Cardinality(Due(m)') \in Nat
    BY <2>8, Finite, FS_CardinalityType
  <2> QED
    BY <2>1, <2>5, <2>6, <2>8, <2>9
<1>2. Cardinality(Open(m)') <= Cardinality(Open(m)) + 1 /\ Cardinality(Open(m)') \in Nat
  <2>1. IsFiniteSet(Open(m) \cup {d}) /\ Cardinality(Open(m) \cup {d}) <= Cardinality(Open(m)) + 1
        /\ Cardinality(Open(m) \cup {d}) \in Nat
    <3>1. IsFiniteSet(Open(m)) /\ Cardinality(Open(m)) \in Nat
      BY Finite
    <3>2. /\ IsFiniteSet(Open(m) \cup {d})
          /\ Cardinality(Open(m) \cup {d}) = IF d \in Open(m) THEN Cardinality(Open(m))
                                             ELSE Cardinality(Open(m)) + 1
      BY <3>1, FS_AddElement
    <3> QED
      BY <3>1, <3>2
  <2>2. IsFiniteSet(Open(m)') /\ Cardinality(Open(m)') <= Cardinality(Open(m) \cup {d})
    BY <2>1, FS_Subset
  <2> QED
    BY <1>1, <2>1, <2>2, FS_CardinalityType
<1>3. /\ sent[m] \in Nat /\ Spend(m) \in Nat /\ BurstSize \in Nat /\ Spend(m)' \in Nat
  BY Numbers
<1>4. /\ BurstSize * Spend(m) \in Nat /\ BurstSize * Spend(m)' \in Nat
      /\ BurstSize * Spend(m) <= BurstSize * Spend(m)' /\ Spend(m) <= BurstSize * Spend(m)
      /\ Spend(m)' = Spend(m) + 1 => BurstSize * Spend(m)' = BurstSize * Spend(m) + BurstSize
  <2>1. Spend(m)' = Spend(m) \/ Spend(m)' = Spend(m) + 1
    OBVIOUS
  <2> QED
    BY <1>3, <2>1, Scaled
<1>5. CASE Running(m) # {}
  <2>1. sent'[m] + Cardinality(Due(m)') <= BurstSize * Spend(m)' + BurstSize
    BY <1>1, <1>3, <1>4, <1>5 DEF Budget
  <2>2. m \notin chat' => sent'[m] + Cardinality(Open(m)') <= Spend(m)' + 1
    BY <1>1, <1>2, <1>3, <1>5 DEF Budget
  <2> QED
    BY <2>1, <2>2 DEF Budget
<1>6. CASE Running(m) = {}
  <2>1. Due(m) = {} /\ Open(m) = {}
    BY <1>6 DEF Due, Open, Running
  <2>2. Cardinality(Due(m)) = 0 /\ Cardinality(Open(m)) = 0
    BY <2>1, FS_EmptySet
  <2>3. m \notin chat => sent[m] <= Spend(m)
    BY <1>3, <1>6, <2>2 DEF Budget
  <2>4. sent[m] <= BurstSize * Spend(m)
    BY <1>3, <1>4, <1>6, <2>3 DEF Budget
  <2>5. sent'[m] + Cardinality(Due(m)') <= BurstSize * Spend(m)' + BurstSize
    BY <1>1, <1>3, <1>4, <1>6, <2>2, <2>4
  <2>6. m \notin chat' => sent'[m] + Cardinality(Open(m)') <= Spend(m)' + 1
    BY <1>2, <1>3, <1>6, <2>2, <2>3
  <2> QED
    BY <2>5, <2>6 DEF Budget
<1> QED
  BY <1>5, <1>6

(* A restart ends them all, and is charged. *)
LEMMA Restarts ==
  ASSUME TypeOK, TypeOK', NEW m \in Matches, Budget(m),
         sent'[m] = sent[m], Spend(m)' = Spend(m) + 1, Running(m)' = {}, chat \subseteq chat'
  PROVE  Budget(m)'
<1>1. Due(m)' = {} /\ Open(m)' = {}
  BY DEF Due, Open, Running
<1>2. Cardinality(Due(m)') = 0 /\ Cardinality(Open(m)') = 0
  BY <1>1, FS_EmptySet
<1>3. Cardinality(Due(m)) \in Nat /\ Cardinality(Open(m)) \in Nat
  BY Finite
<1>4. /\ sent[m] \in Nat /\ Spend(m) \in Nat /\ BurstSize \in Nat /\ Spend(m)' \in Nat
  BY Numbers
<1>5. /\ BurstSize * Spend(m) \in Nat /\ BurstSize * Spend(m)' = BurstSize * Spend(m) + BurstSize
  BY <1>4, Scaled
<1>6. sent'[m] + Cardinality(Due(m)') <= BurstSize * Spend(m)' + BurstSize
  BY <1>2, <1>3, <1>4, <1>5 DEF Budget
<1>7. sent'[m] <= BurstSize * Spend(m)'
  BY <1>3, <1>4, <1>5 DEF Budget
<1>8. m \notin chat' =>
        sent'[m] + Cardinality(Open(m)') <= Spend(m)' + (IF Running(m)' = {} THEN 0 ELSE 1)
  BY <1>2, <1>3, <1>4 DEF Budget
<1> QED
  BY <1>6, <1>7, <1>8 DEF Budget

LEMMA SameSets ==
  ASSUME NEW m \in Matches,
         \A b \in Slots : \/ step'[b] = step[b] /\ match'[b] = match[b] /\ count'[b] = count[b]
                          \/ match[b] # m /\ match'[b] # m
  PROVE  Due(m)' = Due(m) /\ Open(m)' = Open(m) /\ Running(m)' = Running(m)
<1>1. ASSUME NEW b \in Slots
      PROVE  /\ (step'[b] # "free" /\ match'[b] = m) = (step[b] # "free" /\ match[b] = m)
             /\ match[b] = m => step'[b] = step[b] /\ Done(b)' = Done(b)
  BY DEF Done
<1>2. Running(m)' = Running(m)
  BY <1>1 DEF Running
<1>3. Open(m)' = Open(m)
  BY <1>1, <1>2 DEF Open, Running
<1>4. ASSUME NEW p \in Slots \X (1 .. BurstSize)
      PROVE  (step'[p[1]] # "free" /\ match'[p[1]] = m /\ p[2] > Done(p[1])')
               = (step[p[1]] # "free" /\ match[p[1]] = m /\ p[2] > Done(p[1]))
  BY <1>1
<1>5. Due(m)' = Due(m)
  BY <1>4 DEF Due
<1> QED
  BY <1>2, <1>3, <1>5

(* What the step of one burst does to the sets of its match. *)
LEMMA OneSlot ==
  ASSUME TypeOK, TypeOK', NEW b \in Slots, NEW m \in Matches, match[b] = m, step[b] # "free",
         \A d \in Slots \ {b} : step'[d] = step[d] /\ match'[d] = match[d] /\ count'[d] = count[d]
  PROVE  /\ Running(m) # {} /\ (step[b] # "push" => b \in Open(m))
         /\ step'[b] = "free" => Due(m)' \subseteq Due(m) /\ Open(m)' \subseteq Open(m) \ {b}
         /\ match'[b] = m =>
              /\ Running(m)' # {} /\ Open(m)' \subseteq Open(m) \cup {b}
              /\ step[b] # "push" => Open(m)' \subseteq Open(m)
              /\ step'[b] = "push" => Open(m)' \subseteq Open(m) \ {b}
              /\ Done(b)' >= Done(b) => Due(m)' \subseteq Due(m)
              /\ Done(b)' = Done(b) + 1 => Due(m)' \subseteq Due(m) \ {<<b, Done(b) + 1>>}
<1>0. /\ \A d \in Slots : Done(d) \in Nat /\ Done(d)' \in Nat
      /\ \A d \in Slots \ {b} : Done(d)' = Done(d)
      /\ BurstSize \in Nat /\ (match'[b] = m => step'[b] # "free")
  BY TimesAssumption, PrematchNoneAssumption DEF TypeOK, Done
<1>1. Running(m) # {} /\ (step[b] # "push" => b \in Open(m))
  BY DEF Running, Open
<1>2. ASSUME step'[b] = "free" PROVE Due(m)' \subseteq Due(m) /\ Open(m)' \subseteq Open(m) \ {b}
  <2>1. ASSUME NEW p \in Due(m)' PROVE p \in Due(m)
    <3>1. p \in Slots \X (1 .. BurstSize) /\ step'[p[1]] # "free" /\ match'[p[1]] = m
          /\ p[2] > Done(p[1])'
      BY <2>1 DEF Due
    <3>2. p[1] \in Slots \ {b}
      BY <3>1, <1>2
    <3> QED
      BY <3>1, <3>2, <1>0 DEF Due
  <2> QED
    BY <1>2, <2>1 DEF Open, Running
<1>3. ASSUME match'[b] = m
      PROVE  /\ Running(m)' # {} /\ Open(m)' \subseteq Open(m) \cup {b}
             /\ step[b] # "push" => Open(m)' \subseteq Open(m)
             /\ step'[b] = "push" => Open(m)' \subseteq Open(m) \ {b}
  BY <1>0, <1>3 DEF Running, Open
<1>4. ASSUME match'[b] = m, Done(b)' >= Done(b) PROVE Due(m)' \subseteq Due(m)
  <2>1. ASSUME NEW p \in Due(m)' PROVE p \in Due(m)
    <3>1. p \in Slots \X (1 .. BurstSize) /\ step'[p[1]] # "free" /\ match'[p[1]] = m
          /\ p[2] > Done(p[1])'
      BY <2>1 DEF Due
    <3>2. CASE p[1] # b
      BY <3>1, <3>2, <1>0 DEF Due
    <3>3. CASE p[1] = b
      <4>1. p[2] \in Nat /\ p[2] > Done(b)' /\ Done(b) \in Nat /\ Done(b)' \in Nat
        BY <3>1, <3>3, <1>0
      <4>2. p[2] > Done(b)
        BY <4>1, <1>4
      <4> QED
        BY <3>1, <3>3, <4>2 DEF Due
    <3> QED
      BY <3>2, <3>3
  <2> QED
    BY <2>1
<1>5. ASSUME match'[b] = m, Done(b)' = Done(b) + 1
      PROVE  Due(m)' \subseteq Due(m) \ {<<b, Done(b) + 1>>}
  <2>1. Due(m)' \subseteq Due(m)
    BY <1>0, <1>4, <1>5
  <2>2. <<b, Done(b) + 1>> \notin Due(m)'
    <3>1. SUFFICES ASSUME <<b, Done(b) + 1>> \in Due(m)' PROVE FALSE
      OBVIOUS
    <3>2. <<b, Done(b) + 1>>[2] > Done(<<b, Done(b) + 1>>[1])'
      BY <3>1 DEF Due
    <3>3. Done(b) + 1 > Done(b)'
      BY <3>2
    <3> QED
      BY <3>3, <1>0, <1>5
  <2> QED
    BY <2>1, <2>2
<1> QED
  BY <1>1, <1>2, <1>3, <1>4, <1>5

LEMMA SpendGrows ==
  ASSUME TypeOK, TypeOK', NEW m \in Matches, UNCHANGED crashes,
         \/ UNCHANGED faults /\ overlaps'[m] = overlaps[m] + 1
         \/ UNCHANGED faults /\ overlaps'[m] = overlaps[m]
         \/ faults' = faults + 1 /\ overlaps'[m] = overlaps[m]
  PROVE  /\ UNCHANGED faults /\ overlaps'[m] = overlaps[m] => Spend(m)' = Spend(m)
         /\ faults' = faults + 1 \/ overlaps'[m] = overlaps[m] + 1 => Spend(m)' = Spend(m) + 1
         /\ Spend(m)' = Spend(m) \/ Spend(m)' = Spend(m) + 1
<1>1. overlaps[m] \in Nat /\ faults \in Nat /\ crashes \in Nat
  BY TimesAssumption DEF TypeOK
<1> QED
  BY <1>1 DEF Spend

(* Nothing happens to the bursts of the match. *)
LEMMA Apart ==
  ASSUME TypeOK, TypeOK', NEW m \in Matches, Budget(m),
         sent'[m] = sent[m], Spend(m)' = Spend(m) \/ Spend(m)' = Spend(m) + 1,
         \A b \in Slots : \/ step'[b] = step[b] /\ match'[b] = match[b] /\ count'[b] = count[b]
                          \/ match[b] # m /\ match'[b] # m,
         marker \subseteq marker', chat \subseteq chat'
  PROVE  Budget(m)'
BY SameSets, Keeps

LEMMA BeginBudget ==
  ASSUME TypeOK, TypeOK', Budgets, NEW n \in Matches, Begin(n),
         n \notin marker \/ n \notin chat,
         UNCHANGED <<marker, chat, faults, crashes, sent>>, NEW m \in Matches
  PROVE  Budget(m)'
<1>1. PICK d \in Slots : /\ step[d] = "free" /\ step' = [step EXCEPT ![d] = "lookup"]
                         /\ match' = [match EXCEPT ![d] = n]
                         /\ count' = [count EXCEPT ![d] = 0]
  BY DEF Begin
<1>2. overlaps' = IF Running(n) # {} THEN [overlaps EXCEPT ![n] = @ + 1] ELSE overlaps
  BY DEF Begin
<1>t. /\ step \in [Slots -> {"free", "lookup", "check", "draft", "publish", "push",
                             "pause", "mark"}]
      /\ match \in [Slots -> Matches \cup {None}] /\ count \in [Slots -> 0 .. BurstSize]
      /\ match[d] = None /\ None \notin Matches /\ overlaps \in [Matches -> Nat]
  BY <1>1, PrematchNoneAssumption DEF TypeOK
<1>b. Budget(m)
  BY DEF Budgets
<1>3. CASE m # n
  <2>1. overlaps'[m] = overlaps[m]
    BY <1>2, <1>3, <1>t
  <2>2. Spend(m)' = Spend(m)
    BY <2>1, SpendGrows
  <2>3. \A b \in Slots : \/ step'[b] = step[b] /\ match'[b] = match[b] /\ count'[b] = count[b]
                         \/ match[b] # m /\ match'[b] # m
    BY <1>1, <1>3, <1>t
  <2> QED
    BY <1>b, <2>2, <2>3, Apart
<1>4. CASE m = n
  <2>1. \/ Running(m) # {} /\ Spend(m)' = Spend(m) + 1
        \/ Running(m) = {} /\ Spend(m)' = Spend(m)
    <3>1. CASE Running(m) # {}
      <4>1. overlaps'[m] = overlaps[m] + 1
        BY <1>2, <1>4, <1>t, <3>1
      <4> QED
        BY <3>1, <4>1, SpendGrows
    <3>2. CASE Running(m) = {}
      <4>1. overlaps'[m] = overlaps[m]
        BY <1>2, <1>4, <3>2
      <4> QED
        BY <3>2, <4>1, SpendGrows
    <3> QED
      BY <3>1, <3>2
  <2>2. d \in Running(m)' /\ Open(m)' \subseteq Open(m) \cup {d}
    BY <1>1, <1>4, <1>t DEF Running, Open
  <2>3. ASSUME NEW p \in Due(m)' PROVE p \in Due(m) \cup ({d} \X (1 .. BurstSize))
    <3>1. p \in Slots \X (1 .. BurstSize) /\ step'[p[1]] # "free" /\ match'[p[1]] = m
          /\ p[2] > Done(p[1])'
      BY <2>3 DEF Due
    <3>2. CASE p[1] = d
      BY <3>1, <3>2
    <3>3. CASE p[1] # d
      <4>1. Done(p[1])' = Done(p[1]) /\ step'[p[1]] = step[p[1]] /\ match'[p[1]] = match[p[1]]
        BY <1>1, <1>t, <3>1, <3>3 DEF Done
      <4> QED
        BY <3>1, <4>1 DEF Due
    <3> QED
      BY <3>2, <3>3
  <2>4. Due(m)' \subseteq Due(m) \cup ({d} \X (1 .. BurstSize))
    BY <2>3
  <2> QED
    BY <1>b, <1>4, <2>1, <2>2, <2>4, Begins
<1> QED
  BY <1>3, <1>4

LEMMA BurstBudget ==
  ASSUME TypeOK, TypeOK', Budgets, NEW b \in Slots, BurstStep(b), NEW m \in Matches
  PROVE  Budget(m)'
<1>t. /\ step \in [Slots -> {"free", "lookup", "check", "draft", "publish", "push",
                             "pause", "mark"}]
      /\ match \in [Slots -> Matches \cup {None}] /\ count \in [Slots -> 0 .. BurstSize]
      /\ sent \in [Matches -> Nat]
      /\ (step[b] # "free" => match[b] \in Matches) /\ None \notin Matches /\ Budget(m)
  BY PrematchNoneAssumption DEF TypeOK, Budgets
<1>n. count[b] \in Nat /\ BurstSize \in Nat
      /\ (step[b] \in {"draft", "publish", "push"} => count[b] < BurstSize)
  BY TimesAssumption DEF TypeOK
<1>o. /\ step[b] # "free" /\ UNCHANGED <<overlaps, crashes>>
      /\ marker \subseteq marker' /\ chat \subseteq chat'
      /\ UNCHANGED faults \/ faults' = faults + 1
      /\ \/ sent' = sent
         \/ step[b] = "publish" /\ sent' = [sent EXCEPT ![match[b]] = @ + 1]
  BY DEF BurstStep, Lookup, CheckKickoff, Draft, Publish, PushMessage, EndPause, MarkSent, keys,
    Fault
<1>d. \A d \in Slots \ {b} : step'[d] = step[d] /\ match'[d] = match[d] /\ count'[d] = count[d]
  BY <1>t DEF BurstStep, Lookup, CheckKickoff, Draft, Publish, PushMessage, EndPause, MarkSent,
    To, NextMessage, EndBurst
<1>s. /\ UNCHANGED faults => Spend(m)' = Spend(m)
      /\ faults' = faults + 1 => Spend(m)' = Spend(m) + 1
      /\ Spend(m)' = Spend(m) \/ Spend(m)' = Spend(m) + 1
  BY <1>o, SpendGrows
<1>1. CASE match[b] # m
  <2>1. match'[b] # m
    BY <1>1, <1>t DEF BurstStep, Lookup, CheckKickoff, Draft, Publish, PushMessage, EndPause,
      MarkSent, EndBurst
  <2>2. sent'[m] = sent[m]
    BY <1>1, <1>o, <1>t
  <2>3. \A d \in Slots : \/ step'[d] = step[d] /\ match'[d] = match[d] /\ count'[d] = count[d]
                         \/ match[d] # m /\ match'[d] # m
    BY <1>1, <1>d, <2>1
  <2> QED
    BY <1>o, <1>s, <1>t, <2>2, <2>3, Apart
<1>2. CASE match[b] = m
  <2>a. /\ Running(m) # {} /\ (step[b] # "push" => b \in Open(m))
        /\ step'[b] = "free" => Due(m)' \subseteq Due(m) /\ Open(m)' \subseteq Open(m) \ {b}
        /\ match'[b] = m =>
             /\ Running(m)' # {} /\ Open(m)' \subseteq Open(m) \cup {b}
             /\ step[b] # "push" => Open(m)' \subseteq Open(m)
             /\ step'[b] = "push" => Open(m)' \subseteq Open(m) \ {b}
             /\ Done(b)' >= Done(b) => Due(m)' \subseteq Due(m)
             /\ Done(b)' = Done(b) + 1 => Due(m)' \subseteq Due(m) \ {<<b, Done(b) + 1>>}
    BY <1>2, <1>o, <1>d, OneSlot
  <2>k. ASSUME match' = match, sent' = sent, step[b] # "push", Done(b)' >= Done(b)
        PROVE  Budget(m)'
    <3>1. match'[b] = m
      BY <1>2, <2>k
    <3>2. Due(m)' \subseteq Due(m) /\ Open(m)' \subseteq Open(m) /\ Running(m)' # {}
      BY <2>a, <2>k, <3>1
    <3>3. sent'[m] = sent[m]
      BY <2>k
    <3> QED
      BY <1>o, <1>s, <1>t, <2>a, <3>2, <3>3, Keeps
  <2>e. ASSUME EndBurst(b), step[b] # "push", sent' = sent,
               faults' = faults + 1 \/ (UNCHANGED faults /\ m \in marker')
        PROVE  Budget(m)'
    <3>1. step'[b] = "free"
      BY <1>t, <2>e DEF EndBurst
    <3>2. Due(m)' \subseteq Due(m) /\ b \in Open(m) /\ Open(m)' \subseteq Open(m) \ {b}
      BY <2>a, <2>e, <3>1
    <3>3. Spend(m)' = Spend(m) + 1 \/ (Spend(m)' = Spend(m) /\ m \in marker')
      BY <1>s, <2>e
    <3>4. sent'[m] = sent[m]
      BY <2>e
    <3> QED
      BY <1>o, <1>t, <3>2, <3>3, <3>4, Ends
  <2>1. CASE Lookup(b)
    <3>1. CASE To(b, "check") /\ UNCHANGED <<match, count, faults>>
      <4>1. Done(b)' >= Done(b) /\ step[b] # "push" /\ sent' = sent
        BY <1>n, <1>t, <2>1, <3>1 DEF Lookup, To, Done
      <4> QED
        BY <2>k, <3>1, <4>1
    <3>2. CASE Fault /\ EndBurst(b)
      <4>1. step[b] # "push" /\ sent' = sent /\ faults' = faults + 1
        BY <2>1, <3>2 DEF Lookup, Fault
      <4> QED
        BY <2>e, <3>2, <4>1
    <3> QED
      BY <2>1, <3>1, <3>2 DEF Lookup
  <2>2. CASE CheckKickoff(b)
    <3>1. /\ step[b] # "push" /\ step'[b] # "push" /\ count' = count /\ sent' = sent
          /\ match' = match
      BY <1>t, <2>2 DEF CheckKickoff, To
    <3>2. Done(b)' >= Done(b)
      BY <1>n, <3>1 DEF Done
    <3> QED
      BY <2>k, <3>1, <3>2
  <2>3. CASE Draft(b)
    <3>1. /\ step[b] # "push" /\ step'[b] # "push" /\ sent' = sent /\ match' = match
          /\ count'[b] = count[b] \/ count'[b] = count[b] + 1
      BY <1>t, <2>3 DEF Draft, To, NextMessage
    <3>2. Done(b)' >= Done(b)
      BY <1>n, <3>1 DEF Done
    <3> QED
      BY <2>k, <3>1, <3>2
  <2>4. CASE Publish(b)
    <3>1. /\ step[b] = "publish" /\ match' = match
          /\ \/ step'[b] = "push" /\ count' = count /\ UNCHANGED faults
             \/ step'[b] = "pause" /\ count'[b] = count[b] + 1 /\ faults' = faults + 1
      BY <1>t, <2>4 DEF Publish, To, NextMessage, Fault
    <3>2. Done(b)' = Done(b) + 1 /\ Done(b) = count[b]
      BY <3>1 DEF Done
    <3>3. <<b, Done(b) + 1>> \in Due(m)
      <4>1. Done(b) + 1 \in 1 .. BurstSize /\ Done(b) + 1 > Done(b)
        BY <1>n, <3>1, <3>2
      <4>2. <<b, Done(b) + 1>> \in Slots \X (1 .. BurstSize)
        BY <4>1
      <4> QED
        BY <1>2, <3>1, <4>1, <4>2 DEF Due
    <3>4. /\ b \in Open(m) /\ Due(m)' \subseteq Due(m) \ {<<b, Done(b) + 1>>}
          /\ Running(m)' # {} /\ Open(m)' \subseteq Open(m)
          /\ step'[b] = "push" => Open(m)' \subseteq Open(m) \ {b}
      BY <1>2, <2>a, <3>1, <3>2
    <3>5. \/ Spend(m)' = Spend(m) /\ Open(m)' \subseteq Open(m) \ {b}
          \/ Spend(m)' = Spend(m) + 1 /\ Open(m)' \subseteq Open(m)
      BY <1>s, <3>1, <3>4
    <3>6. sent'[m] = sent[m] + 1
      BY <1>2, <1>t, <2>4 DEF Publish
    <3> QED
      BY <1>o, <1>t, <2>a, <3>3, <3>4, <3>5, <3>6, Publishes
  <2>5. CASE PushMessage(b)
    <3>1. /\ step[b] = "push" /\ step'[b] = "pause" /\ count'[b] = count[b] + 1
          /\ match'[b] = m /\ sent'[m] = sent[m]
          /\ faults' = faults + 1 \/ (UNCHANGED faults /\ m \in chat')
      BY <1>2, <1>t, <2>5 DEF PushMessage, To, NextMessage, Fault
    <3>2. Done(b)' = Done(b)
      BY <3>1 DEF Done
    <3>3. Done(b)' >= Done(b)
      BY <1>n, <3>1 DEF Done
    <3>4. Due(m)' \subseteq Due(m) /\ Open(m)' \subseteq Open(m) \cup {b} /\ Running(m)' # {}
      BY <2>a, <3>1, <3>3
    <3>5. CASE faults' = faults + 1
      BY <1>o, <1>s, <1>t, <2>a, <3>1, <3>4, <3>5, LosesPush
    <3>6. CASE UNCHANGED faults /\ m \in chat'
      BY <1>o, <1>s, <1>t, <2>a, <3>1, <3>4, <3>6, Heard
    <3> QED
      BY <3>1, <3>5, <3>6
  <2>6. CASE EndPause(b)
    <3>1. /\ step[b] # "push" /\ step'[b] # "push" /\ count' = count /\ sent' = sent
          /\ match' = match
      BY <1>t, <2>6 DEF EndPause, To
    <3>2. Done(b)' >= Done(b)
      BY <1>n, <3>1 DEF Done
    <3> QED
      BY <2>k, <3>1, <3>2
  <2>7. CASE MarkSent(b)
    <3>1. step[b] # "push" /\ sent' = sent /\ EndBurst(b)
      BY <2>7 DEF MarkSent
    <3>2. faults' = faults + 1 \/ (UNCHANGED faults /\ m \in marker')
      BY <1>2, <2>7 DEF MarkSent, Fault
    <3> QED
      BY <2>e, <3>1, <3>2
  <2> QED
    BY <2>1, <2>2, <2>3, <2>4, <2>5, <2>6, <2>7 DEF BurstStep
<1> QED
  BY <1>1, <1>2

LEMMA BudgetsStep == TypeOK /\ TypeOK' /\ Budgets /\ [Next]_vars => Budgets'
<1> SUFFICES ASSUME TypeOK, TypeOK', Budgets, [Next]_vars, NEW m \in Matches PROVE Budget(m)'
  BY DEF Budgets
<1>b. Budget(m)
  BY DEF Budgets
<1>q. ASSUME UNCHANGED <<bursts, crashes, sent, overlaps, marker>>, chat \subseteq chat',
             UNCHANGED faults \/ faults' = faults + 1
      PROVE  Budget(m)'
  <2>1. Spend(m)' = Spend(m) \/ Spend(m)' = Spend(m) + 1
    BY <1>q, SpendGrows
  <2>2. /\ \A b \in Slots : step'[b] = step[b] /\ match'[b] = match[b] /\ count'[b] = count[b]
        /\ sent'[m] = sent[m]
    BY <1>q DEF bursts
  <2> QED
    BY <1>b, <1>q, <2>1, <2>2, Apart
<1>1. CASE StartPoll
  BY <1>1, <1>q DEF StartPoll, keys, Fault
<1>2. ASSUME NEW n \in Matches, ReadMarker(n) PROVE Budget(m)'
  <2>1. CASE n \in marker
    BY <1>2, <2>1, <1>q DEF ReadMarker, keys
  <2>2. CASE n \notin marker
    BY <1>2, <2>2, BeginBudget DEF ReadMarker, keys
  <2> QED
    BY <2>1, <2>2
<1>3. CASE ReadChat
  <2>1. looking \in Matches
    BY <1>3 DEF ReadChat, TypeOK
  <2>2. CASE looking \in chat
    BY <1>3, <2>2, <1>q DEF ReadChat, Skip, keys
  <2>3. CASE looking \notin chat
    BY <1>3, <2>1, <2>3, BeginBudget DEF ReadChat, keys
  <2> QED
    BY <2>2, <2>3
<1>4. ASSUME NEW n \in Matches, ReadFails(n) PROVE Budget(m)'
  BY <1>4, <1>q DEF ReadFails, Skip, keys, Fault
<1>5. ASSUME NEW b \in Slots, BurstStep(b) PROVE Budget(m)'
  BY <1>5, BurstBudget
<1>6. CASE Tick
  BY <1>6, <1>q DEF Tick, keys
<1>7. ASSUME NEW n \in Matches, OthersPost(n) PROVE Budget(m)'
  BY <1>7, <1>q DEF OthersPost
<1>8. CASE Restart
  <2>1. Running(m)' = {}
    BY <1>8 DEF Restart, Running
  <2>2. Spend(m)' = Spend(m) + 1
    <3>1. overlaps[m] \in Nat /\ faults \in Nat /\ crashes \in Nat
      BY TimesAssumption DEF TypeOK
    <3> QED
      BY <3>1, <1>8 DEF Restart, Spend
  <2>3. sent'[m] = sent[m] /\ chat \subseteq chat'
    BY <1>8 DEF Restart, keys
  <2> QED
    BY <1>b, <2>1, <2>2, <2>3, Restarts
<1>9. CASE UNCHANGED vars
  BY <1>9, <1>q DEF vars, bursts
<1> QED
  BY <1>1, <1>2, <1>3, <1>4, <1>5, <1>6, <1>7, <1>8, <1>9 DEF Next, PollStep

(* Beyond one burst a match gets another one only for a failure, a restart *)
(* or a poll that met its burst still at work.                             *)
THEOREM BurstsOnce == Spec => []OneBurstEach
<1>1. Init => Budgets
  <2> SUFFICES ASSUME Init, NEW m \in Matches PROVE Budget(m)
    BY DEF Budgets
  <2>1. Due(m) = {} /\ Open(m) = {} /\ Running(m) = {}
    BY DEF Init, Due, Open, Running
  <2>2. Cardinality(Due(m)) = 0 /\ Cardinality(Open(m)) = 0
    BY <2>1, FS_EmptySet
  <2>3. sent[m] = 0 /\ Spend(m) = 0 /\ BurstSize \in Nat
    BY TimesAssumption DEF Init, Spend
  <2>4. BurstSize * Spend(m) = 0
    BY <2>3
  <2> QED
    BY <2>1, <2>2, <2>3, <2>4 DEF Budget
<1>2. TypeOK /\ Budgets => OneBurstEach
  <2> SUFFICES ASSUME TypeOK, Budgets, NEW m \in Matches
               PROVE  sent[m] <= BurstSize * (1 + overlaps[m] + faults + crashes)
    BY DEF OneBurstEach
  <2>1. /\ overlaps[m] \in Nat /\ faults \in Nat /\ crashes \in Nat /\ sent[m] \in Nat
        /\ BurstSize \in Nat
    BY TimesAssumption DEF TypeOK
  <2>2. Spend(m) \in Nat /\ 1 + overlaps[m] + faults + crashes = Spend(m) + 1
    BY <2>1 DEF Spend
  <2>3. /\ BurstSize * Spend(m) \in Nat
        /\ BurstSize * (Spend(m) + 1) = BurstSize * Spend(m) + BurstSize
    BY <2>2, Scaled
  <2>4. sent[m] + Cardinality(Due(m)) <= BurstSize * Spend(m) + BurstSize
        /\ Cardinality(Due(m)) \in Nat
    BY Finite DEF Budgets, Budget
  <2> QED
    BY <2>1, <2>2, <2>3, <2>4
<1> QED
  BY <1>1, <1>2, BudgetsStep, PrematchTyping, PTL DEF Spec
===========================================================================
