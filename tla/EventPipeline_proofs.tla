------------------------ MODULE EventPipeline_proofs ------------------------
(* Theorems about EventPipeline, for any log, claims, events and bounds. *)
EXTENDS EventPipeline, PolicyGate_proofs

---------------------------------------------------------------------------
(* Where a claim is. *)

(* What PipelineTypeOK says of one claim. *)
ClaimOK(c) ==
  /\ pos[c] \in 1 .. Len(Log[c]) + 1
  /\ hpc[c] # "poll" => /\ pos[c] <= Len(Log[c])
                        /\ Message(c) # Garbage
                        /\ idx[c] \in 1 .. Len(Message(c)) + 1
  /\ hpc[c] \notin {"poll", "loop"} => idx[c] <= Len(Message(c))
  /\ (gpc[c] # "idle") = (hpc[c] = "policy")
  /\ gpc[c] # "idle" => ev[c] = Current(c)
  /\ committed[c] <= marked[c] /\ marked[c] = pos[c] - 1

(* Of the rooms. *)
RoomTyped ==
  /\ users \in [Matches -> 0 .. MaxUsers] /\ prematch \in [Matches -> 0 .. MaxPrematch]
  /\ {replying, answered, replies, rows} \subseteq [Matches -> Nat]
  /\ \A m \in Matches : replies[m] + replying[m] <= users[m] /\ answered[m] <= replies[m]

(* And of the rest of the state. *)
Typed ==
  /\ TypeOK
  /\ hpc \in [Claims -> HandlerSteps]
  /\ pos \in [Claims -> Nat] /\ idx \in [Claims -> Nat]
  /\ marked \in [Claims -> Nat] /\ committed \in [Claims -> Nat]
  /\ quiet \in [Claims -> BOOLEAN]
  /\ shadow \subseteq Scopes
  /\ mishaps \in 0 .. MaxMishaps /\ crashes \in 0 .. MaxCrashes
  /\ {published, posted, saved} \subseteq [Events -> Nat]
  /\ {sinceKill, sinceShadow} \subseteq [Scopes -> Nat] /\ blind \in Nat

LEMMA TypeParts == PipelineTypeOK <=> Typed /\ RoomTyped /\ \A c \in Claims : ClaimOK(c)
BY DEF PipelineTypeOK, Typed, RoomTyped, ClaimOK

LEMMA MessageType ==
  ASSUME NEW c \in Claims, ClaimOK(c), pos[c] <= Len(Log[c])
  PROVE  /\ Message(c) \in Seq(Events) \cup {Garbage}
         /\ Message(c) # Garbage => Message(c) \in Seq(Events) /\ Len(Message(c)) \in Nat
<1>1. Log[c] \in Seq(Seq(Events) \cup {Garbage})
  BY LogAssumption
<1>2. pos[c] \in 1 .. Len(Log[c])
  BY <1>1 DEF ClaimOK
<1> QED
  BY <1>1, <1>2 DEF Message

LEMMA CurrentType ==
  ASSUME NEW c \in Claims, ClaimOK(c), hpc[c] # "poll", idx[c] <= Len(Message(c))
  PROVE  Current(c) \in Events /\ Current(c).match \in Matches
<1>1. Message(c) \in Seq(Events) /\ idx[c] \in 1 .. Len(Message(c))
  BY MessageType DEF ClaimOK
<1> QED
  BY <1>1, EventsAssumption DEF Current

(* A step of the gate inside a check keeps the claim in it. *)
LEMMA GateMoves ==
  ASSUME TypeOK, NEW c \in Claims, GateStep(c) \/ GateFault(c)
  PROVE  /\ gpc[c] # "idle" /\ gpc'[c] # "idle" /\ ev' = ev
         /\ \A d \in Claims \ {c} : gpc'[d] = gpc[d]
<1>1. CASE GateStep(c)
  BY <1>1 DEF GateStep, ReadKillKey, SetDedupKey, ReadTypeCounter, ReadHourCounter,
    ReadTotalCounter, IncrementCounter, ExpireCounter, CheckBotRatio, Goto, TypeOK,
    KillSteps, Incrementing, Expiring, NextKillRead, ExpireStep, AfterCounter
<1>2. CASE GateFault(c)
  BY <1>2 DEF GateFault, ReadKillKeyFails, SetDedupKeyFails, ReadCounterFails,
    IncrementCounterFails, ExpireCounterFails, CheckBotRatioFails, Goto, TypeOK,
    KillSteps, Incrementing, Expiring, KillCallFailed, AfterCounter
<1> QED
  BY <1>1, <1>2

---------------------------------------------------------------------------
(* Type correctness: the state at large. *)

LEMMA ChatType ==
  ASSUME TypeOK, NEW m \in Matches, NEW who \in {"bot", "user"}, PushChat(m, who)
  PROVE  chat' \in [Matches -> Seq({"bot", "user"})]
<1>1. chat[m] \in Seq({"bot", "user"})
  BY DEF TypeOK
<1>2. Trim(<<who>> \o chat[m]) \in Seq({"bot", "user"})
  BY <1>1, TrimType
<1> QED
  BY <1>2 DEF PushChat, TypeOK

LEMMA TotalBump ==
  ASSUME TypeOK, NEW m \in Matches, Bump(TotalKey(m))
  PROVE  TotalKey(m) \in CounterKeys /\ cnt' \in [CounterKeys -> Nat]
<1>1. TotalKey(m) \in CounterKeys
  BY DEF CounterKeys, TotalKeys
<1> QED
  BY <1>1 DEF Bump, TypeOK

(* The steps that end, or go on with, an event keep its place typed. *)
LEMMA PlaceTyped ==
  ASSUME Typed, NEW c \in Claims,
         \/ EndEvent(c)
         \/ (\E s \in HandlerSteps : Step(c, s)) /\ UNCHANGED <<pos, idx, quiet, handled>>
  PROVE  /\ hpc' \in [Claims -> HandlerSteps] /\ pos' \in [Claims -> Nat]
         /\ idx' \in [Claims -> Nat] /\ quiet' \in [Claims -> BOOLEAN]
<1>1. CASE EndEvent(c)
  <2>1. hpc' \in [Claims -> HandlerSteps]
    BY <1>1 DEF Typed, EndEvent, Step, HandlerSteps
  <2>2. pos' \in [Claims -> Nat] /\ idx' \in [Claims -> Nat]
    BY <1>1 DEF Typed, EndEvent
  <2>3. quiet' \in [Claims -> BOOLEAN]
    BY <1>1 DEF Typed, EndEvent
  <2> QED
    BY <2>1, <2>2, <2>3
<1>2. ASSUME NEW s \in HandlerSteps, Step(c, s), UNCHANGED <<pos, idx, quiet, handled>>
      PROVE  /\ hpc' \in [Claims -> HandlerSteps] /\ pos' \in [Claims -> Nat]
             /\ idx' \in [Claims -> Nat] /\ quiet' \in [Claims -> BOOLEAN]
  BY <1>2 DEF Typed, Step
<1> QED
  BY <1>1, <1>2

LEMMA HandOutType ==
  ASSUME Typed, NEW e \in Events, HandOut(e)
  PROVE  /\ published' \in [Events -> Nat]
         /\ sinceKill' \in [Scopes -> Nat] /\ sinceShadow' \in [Scopes -> Nat]
<1>1. published' \in [Events -> Nat]
  BY DEF HandOut, Typed
<1>2. sinceKill' \in [Scopes -> Nat]
  BY DEF HandOut, Typed
<1>3. sinceShadow' \in [Scopes -> Nat]
  BY DEF HandOut, Typed
<1> QED
  BY <1>1, <1>2, <1>3

(* What others than the claims do to a room: the claims, their events and  *)
(* their history see no more than posts of OthersPost.                     *)
Away == <<claimVars, hour, dedup, kill, faults, history, locals, offsets, shadowVars, crashes,
          published, posted, saved, uncounted, sinceKill, sinceShadow, handled>>

LEMMA RoomStepIs ==
  ASSUME NEW m \in Matches, RoomStep(m)
  PROVE  OthersPost(m) /\ UNCHANGED Away /\ (mishaps' = mishaps \/ Mishap)
<1>r. RaiseTotal(m) => /\ Bump(TotalKey(m))
                       /\ ttl' \in {ttl, [ttl EXCEPT ![TotalKey(m)] = TRUE]}
  BY DEF RaiseTotal
<1>c. Record(m) => /\ UNCHANGED cnt \/ Bump(TotalKey(m))
                   /\ ttl' \in {ttl, [ttl EXCEPT ![TotalKey(m)] = TRUE]}
                   /\ mishaps' = mishaps \/ Mishap
  BY <1>r DEF Record
<1>1. CASE UserMessage(m)
  BY <1>1, <1>r, <1>c DEF UserMessage, OthersPost, Away
<1>2. CASE NoReply(m)
  BY <1>2 DEF NoReply, OthersPost, Away, gateVars, claimVars, history
<1>3. CASE Reply(m)
  BY <1>3 DEF Reply, OthersPost, Away
<1>4. CASE RecordReply(m)
  BY <1>4, <1>c DEF RecordReply, OthersPost, Away
<1>5. CASE PrematchPost(m)
  BY <1>5 DEF PrematchPost, OthersPost, Away
<1> QED
  BY <1>1, <1>2, <1>3, <1>4, <1>5 DEF RoomStep

(* Nobody else touches the users' messages, replies and bursts.            *)
LEMMA RoomKept ==
  ASSUME [Next]_vars, ~Restart, ~\E m \in Matches : RoomStep(m)
  PROVE  UNCHANGED roomVars
<1>1. ASSUME NEW c \in Claims, ClaimStep(c) PROVE UNCHANGED roomVars
  BY <1>1 DEF ClaimStep, SkipGarbage, ParseMessage, BeginEvent, FinishMessage, Policy, Verdict,
    Prepare, ReadShadowKey, Publish, PushChatMessage, IncrTotalMessages, ExpireTotal,
    SaveBotMessage, handlerVars, outcomes
<1>2. ASSUME NEW c \in Claims, ClaimFault(c) \/ AutoCommit(c) PROVE UNCHANGED roomVars
  BY <1>2 DEF ClaimFault, PolicyFault, ReadShadowKeyFails, PublishLost, PublishFails,
    IncrTotalMessagesFails, AutoCommit, handlerVars, outcomes
<1>3. ASSUME NEW s \in AdminScopes, NEW on \in BOOLEAN, SetKill(s, on) \/ SetShadowBan(s, on)
      PROVE  UNCHANGED roomVars
  BY <1>3 DEF SetKill, SetShadowBan
<1>4. KeysAge \/ UNCHANGED vars => UNCHANGED roomVars
  BY DEF KeysAge, vars, handlerVars, outcomes
<1> QED
  BY <1>1, <1>2, <1>3, <1>4 DEF Next

LEMMA RoomTypedStep ==
  ASSUME PipelineTypeOK, [Next]_vars
  PROVE  RoomTyped'
<1>t. RoomTyped
  BY TypeParts
<1>1. ASSUME NEW m \in Matches, RoomStep(m) PROVE RoomTyped'
  <2>1. CASE UserMessage(m)
    <3>1. users' \in [Matches -> 0 .. MaxUsers]
      BY <2>1, <1>t, PipelineAssumption DEF UserMessage, Up, RoomTyped
    <3>2. rows' \in [Matches -> Nat] /\ replying' \in [Matches -> Nat]
      BY <2>1, <1>t DEF UserMessage, Record, Up, RoomTyped
    <3>3. ASSUME NEW n \in Matches
          PROVE  replies'[n] + replying'[n] <= users'[n] /\ answered'[n] <= replies'[n]
      BY <2>1, <1>t, PipelineAssumption DEF UserMessage, Up, RoomTyped
    <3> QED
      BY <2>1, <1>t, <3>1, <3>2, <3>3 DEF UserMessage, RoomTyped
  <2>2. CASE NoReply(m)
    BY <2>2, <1>t, PipelineAssumption DEF NoReply, Down, RoomTyped
  <2>3. CASE Reply(m)
    <3>1. /\ replying' \in [Matches -> Nat] /\ replies' \in [Matches -> Nat]
          /\ answered' \in [Matches -> Nat]
      BY <2>3, <1>t DEF Reply, Up, Down, RoomTyped
    <3>2. ASSUME NEW n \in Matches
          PROVE  replies'[n] + replying'[n] <= users'[n] /\ answered'[n] <= replies'[n]
      BY <2>3, <1>t, PipelineAssumption DEF Reply, Up, Down, RoomTyped
    <3> QED
      BY <2>3, <1>t, <3>1, <3>2 DEF Reply, RoomTyped
  <2>4. CASE RecordReply(m)
    <3>1. answered' \in [Matches -> Nat] /\ rows' \in [Matches -> Nat]
      BY <2>4, <1>t DEF RecordReply, Record, Up, Down, RoomTyped
    <3>2. ASSUME NEW n \in Matches PROVE answered'[n] <= replies'[n]
      BY <2>4, <1>t DEF RecordReply, Down, RoomTyped
    <3> QED
      BY <2>4, <1>t, <3>1, <3>2 DEF RecordReply, RoomTyped
  <2>5. CASE PrematchPost(m)
    <3>1. prematch' \in [Matches -> 0 .. MaxPrematch] /\ rows' \in [Matches -> Nat]
      BY <2>5, <1>t, PipelineAssumption DEF PrematchPost, Up, RoomTyped
    <3> QED
      BY <2>5, <1>t, <3>1 DEF PrematchPost, RoomTyped
  <2> QED
    BY <1>1, <2>1, <2>2, <2>3, <2>4, <2>5 DEF RoomStep
<1>2. CASE Restart
  BY <1>2, <1>t, PipelineAssumption DEF Restart, ForgetReplies, RoomTyped
<1>3. CASE UNCHANGED roomVars
  BY <1>3, <1>t DEF roomVars, RoomTyped
<1> QED
  BY <1>1, <1>2, <1>3, RoomKept

LEMMA TypedStep ==
  ASSUME PipelineTypeOK, [Next]_vars
  PROVE  Typed'
<1>t. Typed /\ \A c \in Claims : ClaimOK(c)
  BY TypeParts
<1>o. TypeOK
  BY <1>t DEF Typed
<1>g. ASSUME UNCHANGED gateVars PROVE TypeOK'
  BY <1>o, <1>g, TypeStep
<1>m. ASSUME Mishap PROVE mishaps' \in 0 .. MaxMishaps
  BY <1>t, <1>m, PipelineAssumption, BoundsAssumption DEF Mishap, MayFail, Typed, TypeOK
<1>c. ASSUME NEW c \in Claims, hpc[c] \notin {"poll", "loop"}
      PROVE  Current(c) \in Events /\ Current(c).match \in Matches
  BY <1>t, <1>c, CurrentType DEF ClaimOK
<1>e. ASSUME NEW f \in [Events -> Nat], NEW e \in Events
      PROVE  [f EXCEPT ![e] = @ + 1] \in [Events -> Nat]
  OBVIOUS
<1>1. ASSUME NEW c \in Claims, SkipGarbage(c) \/ ParseMessage(c) \/ FinishMessage(c) \/ AutoCommit(c)
      PROVE  Typed'
  <2>1. TypeOK'
    BY <1>1, <1>g DEF SkipGarbage, ParseMessage, FinishMessage, AutoCommit
  <2>2. ASSUME MarkMessage(c)
        PROVE  /\ hpc' \in [Claims -> HandlerSteps]
               /\ pos' \in [Claims -> Nat] /\ idx' \in [Claims -> Nat]
               /\ marked' \in [Claims -> Nat] /\ UNCHANGED <<quiet, committed>>
    BY <2>2, <1>t DEF MarkMessage, Step, Typed, HandlerSteps
  <2>3. CASE SkipGarbage(c) \/ FinishMessage(c)
    BY <2>3, <1>t, <2>1, <2>2 DEF SkipGarbage, FinishMessage, Typed, shadowVars, outcomes
  <2>4. CASE ParseMessage(c)
    <3>1. hpc' \in [Claims -> HandlerSteps] /\ idx' \in [Claims -> Nat]
      BY <2>4, <1>t DEF ParseMessage, Step, Typed, HandlerSteps
    <3> QED
      BY <2>4, <1>t, <2>1, <3>1 DEF ParseMessage, Typed, shadowVars, outcomes, offsets
  <2>5. CASE AutoCommit(c)
    <3>1. committed' \in [Claims -> Nat]
      BY <2>5, <1>t DEF AutoCommit, Typed
    <3> QED
      BY <2>5, <1>t, <2>1, <3>1 DEF AutoCommit, Typed, shadowVars, outcomes, locals
  <2> QED
    BY <1>1, <2>3, <2>4, <2>5
<1>2. ASSUME NEW c \in Claims, BeginEvent(c) PROVE Typed'
  <2>1. Current(c) \in Events
    BY <1>t, <1>2, CurrentType DEF BeginEvent
  <2>2. TypeOK'
    BY <1>o, <1>2, <2>1, TypeStep DEF BeginEvent, OpenNext, GateNext
  <2> QED
    BY <1>2, <1>t, <2>2 DEF BeginEvent, Step, Typed, HandlerSteps, shadowVars, outcomes, offsets
<1>3. ASSUME NEW c \in Claims, Policy(c) \/ PolicyFault(c) PROVE Typed'
  <2>1. TypeOK'
    BY <1>o, <1>3, TypeStep DEF Policy, PolicyFault, OpenNext, GateNext
  <2> QED
    BY <1>3, <1>t, <2>1 DEF Policy, PolicyFault, Typed, handlerVars, shadowVars, outcomes,
      offsets, locals
<1>4. ASSUME NEW c \in Claims, Verdict(c) PROVE Typed'
  <2>1. TypeOK'
    BY <1>o, <1>4, TypeStep DEF Verdict, OpenNext, GateNext
  <2>2. /\ hpc' \in [Claims -> HandlerSteps] /\ pos' \in [Claims -> Nat]
        /\ idx' \in [Claims -> Nat] /\ quiet' \in [Claims -> BOOLEAN]
    BY <1>4, <1>t, PlaceTyped DEF Verdict, HandlerSteps
  <2> QED
    BY <1>4, <1>t, <2>1, <2>2 DEF Verdict, Typed, shadowVars, offsets
<1>5. ASSUME NEW c \in Claims, Prepare(c) PROVE Typed'
  <2>1. TypeOK'
    BY <1>5, <1>g DEF Prepare
  <2>2. /\ hpc' \in [Claims -> HandlerSteps] /\ pos' \in [Claims -> Nat]
        /\ idx' \in [Claims -> Nat] /\ quiet' \in [Claims -> BOOLEAN]
    BY <1>5, <1>t, PlaceTyped DEF Prepare, HandlerSteps, ShadowSteps
  <2> QED
    BY <1>5, <1>t, <2>1, <2>2 DEF Prepare, Typed, shadowVars, offsets
<1>6. ASSUME NEW c \in Claims, ReadShadowKey(c) \/ ReadShadowKeyFails(c) PROVE Typed'
  <2>1. TypeOK'
    BY <1>6, <1>g DEF ReadShadowKey, ReadShadowKeyFails
  <2>2. Current(c) \in Events /\ mishaps' \in 0 .. MaxMishaps
    BY <1>6, <1>t, <1>c, <1>m DEF ReadShadowKey, ReadShadowKeyFails, ShadowSteps, shadowVars, Typed
  <2>3. posted' \in [Events -> Nat]
    BY <1>6, <1>t, <2>2 DEF ReadShadowKey, ReadShadowKeyFails, Post, Typed, outcomes
  <2>4. hpc' \in [Claims -> HandlerSteps] /\ quiet' \in [Claims -> BOOLEAN]
    BY <1>6, <1>t DEF ReadShadowKey, ReadShadowKeyFails, Step, Typed, HandlerSteps,
      ShadowSteps, NextShadowRead
  <2> QED
    BY <1>6, <1>t, <2>1, <2>2, <2>3, <2>4 DEF ReadShadowKey, ReadShadowKeyFails, Typed,
      shadowVars, offsets, outcomes
<1>7. ASSUME NEW c \in Claims, Publish(c) \/ PublishLost(c) PROVE Typed'
  <2>1. TypeOK'
    BY <1>7, <1>g DEF Publish, PublishLost
  <2>2. Current(c) \in Events /\ mishaps' \in 0 .. MaxMishaps
    BY <1>7, <1>t, <1>c, <1>m DEF Publish, PublishLost, Typed
  <2>3. posted' \in [Events -> Nat]
    BY <1>7, <1>t, <2>2 DEF Publish, PublishLost, Post, Typed
  <2>5. /\ published' \in [Events -> Nat]
        /\ sinceKill' \in [Scopes -> Nat] /\ sinceShadow' \in [Scopes -> Nat]
    BY <1>7, <1>t, <2>2, HandOutType DEF Publish, PublishLost, Typed
  <2>4. hpc' \in [Claims -> HandlerSteps]
    BY <1>7, <1>t DEF Publish, PublishLost, Step, Typed, HandlerSteps
  <2> QED
    BY <1>7, <1>t, <2>1, <2>2, <2>3, <2>4, <2>5 DEF Publish, PublishLost, Typed,
      shadowVars, offsets
<1>8. ASSUME NEW c \in Claims, PublishFails(c) PROVE Typed'
  <2>1. TypeOK'
    BY <1>8, <1>g DEF PublishFails
  <2>2. Current(c) \in Events /\ mishaps' \in 0 .. MaxMishaps
    BY <1>8, <1>t, <1>c, <1>m DEF PublishFails, Typed
  <2>3. /\ published' \in [Events -> Nat]
        /\ sinceKill' \in [Scopes -> Nat] /\ sinceShadow' \in [Scopes -> Nat]
    BY <1>8, <1>t, <2>2, HandOutType DEF PublishFails, Typed
  <2>4. /\ hpc' \in [Claims -> HandlerSteps] /\ pos' \in [Claims -> Nat]
        /\ idx' \in [Claims -> Nat] /\ quiet' \in [Claims -> BOOLEAN]
    BY <1>8, <1>t, PlaceTyped DEF PublishFails
  <2> QED
    BY <1>8, <1>t, <2>1, <2>2, <2>3, <2>4 DEF PublishFails, Typed, shadowVars, offsets
<1>9. ASSUME NEW c \in Claims, PushChatMessage(c) PROVE Typed'
  <2>1. chat' \in [Matches -> Seq({"bot", "user"})] /\ mishaps' \in 0 .. MaxMishaps
    BY <1>9, <1>t, <1>o, <1>c, <1>m, ChatType DEF PushChatMessage, TypeOK, Typed
  <2>2. TypeOK'
    BY <1>9, <1>o, <2>1 DEF PushChatMessage, TypeOK, claimVars, history
  <2>3. hpc' \in [Claims -> HandlerSteps]
    BY <1>9, <1>t DEF PushChatMessage, AfterPush, Step, Typed, HandlerSteps
  <2> QED
    BY <1>9, <1>t, <2>1, <2>2, <2>3 DEF PushChatMessage, Typed, shadowVars, offsets, outcomes
<1>10. ASSUME NEW c \in Claims, IncrTotalMessages(c) \/ IncrTotalMessagesFails(c) PROVE Typed'
  <2>1. cnt' \in [CounterKeys -> Nat] /\ mishaps' \in 0 .. MaxMishaps
    BY <1>10, <1>t, <1>o, <1>c, <1>m, TotalBump
    DEF IncrTotalMessages, IncrTotalMessagesFails, Typed, TypeOK
  <2>2. TypeOK'
    BY <1>10, <1>o, <2>1 DEF IncrTotalMessages, IncrTotalMessagesFails, TypeOK, claimVars, history
  <2>3. /\ hpc' \in [Claims -> HandlerSteps] /\ pos' \in [Claims -> Nat]
        /\ idx' \in [Claims -> Nat] /\ quiet' \in [Claims -> BOOLEAN]
    BY <1>10, <1>t, PlaceTyped
    DEF IncrTotalMessages, IncrTotalMessagesFails, FinishCount, HandlerSteps
  <2> QED
    BY <1>10, <1>t, <2>1, <2>2, <2>3
    DEF IncrTotalMessages, IncrTotalMessagesFails, Typed, shadowVars, offsets
<1>11. ASSUME NEW c \in Claims, ExpireTotal(c) PROVE Typed'
  <2>1. ttl' \in [CounterKeys -> BOOLEAN] /\ mishaps' \in 0 .. MaxMishaps
    BY <1>11, <1>t, <1>o, <1>m DEF ExpireTotal, Typed, TypeOK
  <2>2. TypeOK'
    BY <1>11, <1>o, <2>1 DEF ExpireTotal, TypeOK, claimVars, history
  <2>3. /\ hpc' \in [Claims -> HandlerSteps] /\ pos' \in [Claims -> Nat]
        /\ idx' \in [Claims -> Nat] /\ quiet' \in [Claims -> BOOLEAN]
    BY <1>11, <1>t, PlaceTyped DEF ExpireTotal, FinishCount, HandlerSteps
  <2> QED
    BY <1>11, <1>t, <2>1, <2>2, <2>3 DEF ExpireTotal, Typed, shadowVars, offsets
<1>12. ASSUME NEW c \in Claims, SaveBotMessage(c) PROVE Typed'
  <2>1. TypeOK'
    BY <1>12, <1>g DEF SaveBotMessage
  <2>2. saved' \in [Events -> Nat] /\ mishaps' \in 0 .. MaxMishaps
    BY <1>12, <1>t, <1>c, <1>m DEF SaveBotMessage, Typed
  <2>3. /\ hpc' \in [Claims -> HandlerSteps] /\ pos' \in [Claims -> Nat]
        /\ idx' \in [Claims -> Nat] /\ quiet' \in [Claims -> BOOLEAN]
    BY <1>12, <1>t, PlaceTyped DEF SaveBotMessage, FinishSave, HandlerSteps
  <2> QED
    BY <1>12, <1>t, <2>1, <2>2, <2>3 DEF SaveBotMessage, Typed, shadowVars, offsets
<1>13. ASSUME NEW s \in AdminScopes, NEW on \in BOOLEAN, SetKill(s, on) \/ SetShadowBan(s, on)
       PROVE  Typed'
  <2>1. TypeOK'
    BY <1>13, <1>g, <1>o, TypeStep DEF SetKill, SetShadowBan, OpenNext, GateNext, Environment
  <2> QED
    BY <1>13, <1>t, <2>1, AdminAssumption DEF SetKill, SetShadowBan, Typed, shadowVars,
      offsets, locals
<1>14. ASSUME NEW m \in Matches, RoomStep(m) PROVE Typed'
  <2>r. OthersPost(m) /\ UNCHANGED Away /\ mishaps' \in 0 .. MaxMishaps
    BY <1>14, <1>t, <1>m, RoomStepIs DEF Typed
  <2>1. TypeOK'
    BY <1>o, <2>r, TypeStep DEF OpenNext
  <2> QED
    BY <1>t, <2>r, <2>1 DEF Away, Typed, shadowVars, offsets, locals
<1>15. CASE KeysAge
  <2>1. TypeOK'
    BY <1>15, <1>o, TypeStep DEF KeysAge, OpenNext, GateNext, Environment
  <2> QED
    BY <1>15, <1>t, <2>1 DEF KeysAge, Typed, handlerVars, shadowVars, offsets, locals, outcomes
<1>16. CASE Restart
  <2>1. TypeOK'
    BY <1>16, <1>o, TypeStep DEF Restart, OpenNext, GateNext, Environment
  <2> QED
    BY <1>16, <1>t, <2>1, PipelineAssumption DEF Restart, Typed, shadowVars, HandlerSteps
<1>17. CASE UNCHANGED vars
  <2>1. TypeOK'
    BY <1>17, <1>g DEF vars
  <2> QED
    BY <1>17, <1>t, <2>1 DEF vars, Typed, handlerVars, shadowVars, offsets, locals, outcomes
<1> QED
  BY <1>1, <1>2, <1>3, <1>4, <1>5, <1>6, <1>7, <1>8, <1>9, <1>10, <1>11, <1>12, <1>13,
     <1>14, <1>15, <1>16, <1>17
  DEF Next, ClaimStep, ClaimFault

---------------------------------------------------------------------------
(* The seven ways a claim's place in its partition can change. *)

InEvent(c) == hpc[c] \notin {"poll", "loop"}

SamePlace(c)  == pos'[c] = pos[c] /\ idx'[c] = idx[c]
SameMarks(c)  == marked'[c] = marked[c] /\ committed'[c] = committed[c]
OutOfGate(c)  == gpc'[c] = "idle"

Rests(c) ==
  /\ hpc'[c] = hpc[c] /\ SamePlace(c) /\ ev'[c] = ev[c]
  /\ (gpc'[c] = "idle") = (gpc[c] = "idle")
  /\ marked'[c] = marked[c] /\ committed'[c] \in {committed[c], marked[c]}

Opens(c) ==
  /\ hpc[c] = "poll" /\ pos[c] <= Len(Log[c]) /\ Message(c) # Garbage
  /\ hpc'[c] = "loop" /\ pos'[c] = pos[c] /\ idx'[c] = 1
  /\ OutOfGate(c) /\ SameMarks(c)

Marks(c) ==
  /\ pos[c] <= Len(Log[c])
  /\ \/ hpc[c] = "poll" /\ Message(c) = Garbage
     \/ hpc[c] = "loop" /\ idx[c] > Len(Message(c))
  /\ hpc'[c] = "poll" /\ pos'[c] = pos[c] + 1
  /\ OutOfGate(c) /\ marked'[c] = pos[c] /\ committed'[c] = committed[c]

Asks(c) ==
  /\ hpc[c] = "loop" /\ idx[c] <= Len(Message(c))
  /\ hpc'[c] = "policy" /\ gpc'[c] # "idle" /\ ev'[c] = Current(c)
  /\ SamePlace(c) /\ SameMarks(c)

GoesOn(c) ==
  /\ InEvent(c)
  /\ hpc'[c] \in HandlerSteps \ {"poll", "loop", "policy"}
  /\ OutOfGate(c) /\ SamePlace(c) /\ SameMarks(c)

Ends(c) ==
  /\ InEvent(c)
  /\ hpc'[c] = "loop" /\ pos'[c] = pos[c] /\ idx'[c] = idx[c] + 1
  /\ <<c, pos[c], idx[c]>> \in handled'
  /\ OutOfGate(c) /\ SameMarks(c)

Resumes(c) ==
  /\ hpc'[c] = "poll" /\ pos'[c] = committed[c] + 1
  /\ OutOfGate(c) /\ marked'[c] = committed[c] /\ committed'[c] = committed[c]

Moves(c) ==
  \/ Rests(c) \/ Opens(c) \/ Marks(c) \/ Asks(c) \/ GoesOn(c) \/ Ends(c) \/ Resumes(c)

LEMMA ParseMoves ==
  ASSUME PipelineTypeOK, NEW a \in Claims, NEW c \in Claims,
         SkipGarbage(a) \/ ParseMessage(a) \/ FinishMessage(a) \/ AutoCommit(a)
  PROVE  Moves(c) /\ handled' = handled
<1>t. Typed /\ ClaimOK(c)
  BY TypeParts
<1>1. CASE SkipGarbage(a)
  BY <1>1, <1>t DEF SkipGarbage, MarkMessage, Step, Typed, ClaimOK, gateVars, outcomes,
    Moves, Rests, Marks, SamePlace, OutOfGate
<1>2. CASE ParseMessage(a)
  BY <1>2, <1>t DEF ParseMessage, Step, Typed, ClaimOK, gateVars, outcomes, offsets,
    Moves, Rests, Opens, SamePlace, SameMarks, OutOfGate
<1>3. CASE FinishMessage(a)
  BY <1>3, <1>t DEF FinishMessage, MarkMessage, Step, Typed, ClaimOK, gateVars, outcomes,
    Moves, Rests, Marks, SamePlace, OutOfGate
<1>4. CASE AutoCommit(a)
  BY <1>4, <1>t DEF AutoCommit, Typed, gateVars, locals, outcomes, Moves, Rests, SamePlace
<1> QED
  BY <1>1, <1>2, <1>3, <1>4

LEMMA PolicyMoves ==
  ASSUME PipelineTypeOK, NEW a \in Claims, NEW c \in Claims,
         BeginEvent(a) \/ Policy(a) \/ PolicyFault(a)
  PROVE  Moves(c) /\ handled' = handled
<1>t. Typed /\ TypeOK /\ ClaimOK(a) /\ ClaimOK(c)
  BY TypeParts DEF Typed
<1>1. CASE BeginEvent(a)
  <2>1. /\ gpc[a] = "idle" /\ gpc'[a] # "idle" /\ ev'[a] = Current(a)
        /\ \A d \in Claims \ {a} : gpc'[d] = gpc[d] /\ ev'[d] = ev[d]
    BY <1>1, <1>t DEF BeginEvent, Refuse, Admit, Goto, TypeOK
  <2>2. /\ hpc[a] = "loop" /\ idx[a] <= Len(Message(a)) /\ hpc'[a] = "policy"
        /\ \A d \in Claims \ {a} : hpc'[d] = hpc[d]
        /\ UNCHANGED <<pos, idx, marked, committed, handled>>
    BY <1>1, <1>t DEF BeginEvent, Step, Typed, offsets, outcomes
  <2> QED
    BY <2>1, <2>2 DEF Moves, Rests, Asks, SamePlace, SameMarks
<1>2. CASE Policy(a) \/ PolicyFault(a)
  <2>1. /\ gpc[a] # "idle" /\ gpc'[a] # "idle" /\ ev' = ev
        /\ \A d \in Claims \ {a} : gpc'[d] = gpc[d]
    BY <1>2, <1>t, GateMoves DEF Policy, PolicyFault
  <2>2. UNCHANGED <<hpc, pos, idx, marked, committed, handled>>
    BY <1>2 DEF Policy, PolicyFault, handlerVars, locals, offsets, outcomes
  <2> QED
    BY <2>1, <2>2 DEF Moves, Rests, SamePlace
<1> QED
  BY <1>1, <1>2

(* A claim inside an event goes on with it or ends it. *)
LEMMA EventGoes ==
  ASSUME PipelineTypeOK, NEW a \in Claims, NEW c \in Claims, InEvent(a),
         \/ EndEvent(a)
         \/ \E s \in HandlerSteps \ {"poll", "loop", "policy"} :
              Step(a, s) /\ UNCHANGED <<pos, idx, handled>>,
         gpc'[a] = "idle", \A d \in Claims \ {a} : gpc'[d] = gpc[d] /\ ev'[d] = ev[d],
         UNCHANGED <<marked, committed>>
  PROVE  Moves(c) /\ handled \subseteq handled'
<1>t. Typed
  BY TypeParts
<1>1. CASE EndEvent(a)
  <2>1. /\ hpc'[a] = "loop" /\ pos'[a] = pos[a] /\ idx'[a] = idx[a] + 1
        /\ <<a, pos[a], idx[a]>> \in handled' /\ handled \subseteq handled'
        /\ \A d \in Claims \ {a} : hpc'[d] = hpc[d] /\ pos'[d] = pos[d] /\ idx'[d] = idx[d]
    BY <1>1, <1>t DEF EndEvent, Step, Typed
  <2> QED
    BY <2>1 DEF Moves, Ends, Rests, SamePlace, SameMarks, OutOfGate
<1>2. ASSUME NEW s \in HandlerSteps \ {"poll", "loop", "policy"},
             Step(a, s), UNCHANGED <<pos, idx, handled>>
      PROVE  Moves(c) /\ handled \subseteq handled'
  <2>1. hpc'[a] = s /\ \A d \in Claims \ {a} : hpc'[d] = hpc[d]
    BY <1>2, <1>t DEF Step, Typed
  <2> QED
    BY <1>2, <2>1 DEF Moves, GoesOn, Rests, SamePlace, SameMarks, OutOfGate
<1> QED
  BY <1>1, <1>2

LEMMA EventMoves ==
  ASSUME PipelineTypeOK, NEW a \in Claims, NEW c \in Claims,
         \/ Verdict(a) \/ Prepare(a) \/ ReadShadowKey(a) \/ ReadShadowKeyFails(a)
         \/ Publish(a) \/ PublishLost(a) \/ PublishFails(a) \/ PushChatMessage(a)
         \/ IncrTotalMessages(a) \/ IncrTotalMessagesFails(a) \/ ExpireTotal(a)
         \/ SaveBotMessage(a)
  PROVE  Moves(c) /\ handled \subseteq handled'
<1>t. Typed /\ TypeOK /\ ClaimOK(a)
  BY TypeParts DEF Typed
<1> DEFINE Inner == HandlerSteps \ {"poll", "loop", "policy"}
           Out   == /\ gpc'[a] = "idle"
                    /\ \A d \in Claims \ {a} : gpc'[d] = gpc[d] /\ ev'[d] = ev[d]
                    /\ UNCHANGED <<marked, committed>>
           Goes  == \/ EndEvent(a)
                    \/ \E s \in Inner : Step(a, s) /\ UNCHANGED <<pos, idx, handled>>
<1>s. {"prepare", "publish", "push", "count", "expire", "save"} \cup ShadowSteps \subseteq Inner
  BY DEF HandlerSteps, ShadowSteps
<1>n. \A s \in ShadowSteps : NextShadowRead(s) \in Inner
  BY <1>s DEF NextShadowRead, ShadowSteps
<1> SUFFICES Out /\ Goes /\ InEvent(a)
  BY EventGoes
<1>1. CASE Verdict(a)
  <2>1. Out
    BY <1>1, <1>t DEF Verdict, Return, Goto, TypeOK, offsets
  <2>2. Goes
    BY <1>1, <1>s DEF Verdict
  <2> QED
    BY <1>1, <2>1, <2>2 DEF Verdict, InEvent
<1>i. ASSUME UNCHANGED <<gpc, ev, marked, committed>>, InEvent(a), hpc[a] # "policy" PROVE Out
  BY <1>i, <1>t DEF ClaimOK
<1>2. CASE Prepare(a)
  <2>1. Goes
    BY <1>2, <1>s DEF Prepare, ShadowSteps
  <2> QED
    BY <1>2, <1>i, <2>1 DEF Prepare, InEvent, gateVars, offsets
<1>3. CASE ReadShadowKey(a) \/ ReadShadowKeyFails(a)
  <2>1. Goes
    BY <1>3, <1>s, <1>n DEF ReadShadowKey, ReadShadowKeyFails, outcomes
  <2> QED
    BY <1>3, <1>i, <2>1 DEF ReadShadowKey, ReadShadowKeyFails, InEvent, ShadowSteps,
      gateVars, offsets
<1>4. CASE Publish(a) \/ PublishLost(a)
  <2>1. Goes
    BY <1>4, <1>s DEF Publish, PublishLost
  <2> QED
    BY <1>4, <1>i, <2>1 DEF Publish, PublishLost, InEvent, gateVars, offsets
<1>5. CASE PublishFails(a)
  BY <1>5, <1>i DEF PublishFails, InEvent, gateVars, offsets
<1>6. CASE PushChatMessage(a)
  <2>1. Goes
    BY <1>6, <1>s DEF PushChatMessage, AfterPush, outcomes
  <2> QED
    BY <1>6, <1>i, <2>1 DEF PushChatMessage, InEvent, claimVars, offsets
<1>c. ASSUME FinishCount(a) PROVE Goes
  BY <1>c, <1>s DEF FinishCount
<1>7. CASE IncrTotalMessages(a) \/ IncrTotalMessagesFails(a)
  <2>1. Goes
    BY <1>7, <1>s, <1>c DEF IncrTotalMessages, IncrTotalMessagesFails
  <2> QED
    BY <1>7, <1>i, <2>1 DEF IncrTotalMessages, IncrTotalMessagesFails, InEvent, claimVars, offsets
<1>8. CASE ExpireTotal(a)
  <2>1. Goes
    BY <1>8, <1>c DEF ExpireTotal
  <2> QED
    BY <1>8, <1>i, <2>1 DEF ExpireTotal, InEvent, claimVars, offsets
<1>9. CASE SaveBotMessage(a)
  <2>1. Goes
    BY <1>9, <1>s DEF SaveBotMessage, FinishSave
  <2> QED
    BY <1>9, <1>i, <2>1 DEF SaveBotMessage, InEvent, gateVars, offsets
<1> QED
  BY <1>1, <1>2, <1>3, <1>4, <1>5, <1>6, <1>7, <1>8, <1>9

LEMMA AmbientMoves ==
  ASSUME PipelineTypeOK, NEW c \in Claims,
         \/ \E s \in AdminScopes, on \in BOOLEAN : SetKill(s, on) \/ SetShadowBan(s, on)
         \/ \E m \in Matches : RoomStep(m)
         \/ KeysAge
         \/ Restart
         \/ UNCHANGED vars
  PROVE  Moves(c) /\ handled' = handled
<1>r. \A m \in Matches : RoomStep(m) => UNCHANGED Away
  BY RoomStepIs
<1>1. CASE Restart
  BY <1>1 DEF Restart, Crash, Moves, Resumes, OutOfGate
<1>2. CASE ~Restart
  <2>1. UNCHANGED <<gpc, ev, hpc, pos, idx, marked, committed, handled>>
    BY <1>2, <1>r DEF SetKill, SetKillSwitch, SetShadowBan, Away, KeysAge, DedupKeyExpires,
      CounterExpires, NextHour, claimVars, gateVars, handlerVars, vars, locals, offsets, outcomes
  <2> QED
    BY <2>1 DEF Moves, Rests, SamePlace
<1> QED
  BY <1>1, <1>2

LEMMA PlacesMove ==
  ASSUME PipelineTypeOK, [Next]_vars, NEW c \in Claims
  PROVE  Moves(c) /\ handled \subseteq handled'
BY ParseMoves, PolicyMoves, EventMoves, AmbientMoves DEF Next, ClaimStep, ClaimFault

---------------------------------------------------------------------------
(* Type correctness of every claim's place, and what has been handled. *)

LEMMA PlaceStep ==
  ASSUME PipelineTypeOK, [Next]_vars, NEW c \in Claims
  PROVE  ClaimOK(c)'
<1>t. Typed /\ Typed' /\ ClaimOK(c)
  BY TypeParts, TypedStep
<1>l. Log[c] \in Seq(Seq(Events) \cup {Garbage}) /\ Len(Log[c]) \in Nat
  BY LogAssumption
<1>n. /\ pos[c] \in Nat /\ idx[c] \in Nat /\ marked[c] \in Nat /\ committed[c] \in Nat
      /\ pos'[c] \in Nat /\ idx'[c] \in Nat
  BY <1>t DEF Typed
<1>m. pos[c] <= Len(Log[c]) /\ Message(c) # Garbage => Len(Message(c)) \in Nat
  BY <1>t, MessageType
<1>1. CASE Rests(c)
  BY <1>1, <1>t, <1>n DEF Rests, SamePlace, ClaimOK, Message, Current
<1>2. CASE Opens(c)
  BY <1>2, <1>t, <1>n, <1>m DEF Opens, OutOfGate, SameMarks, ClaimOK, Message
<1>3. CASE Marks(c)
  BY <1>3, <1>t, <1>n, <1>l DEF Marks, OutOfGate, ClaimOK
<1>4. CASE Asks(c)
  BY <1>4, <1>t, <1>n DEF Asks, SamePlace, SameMarks, ClaimOK, Message, Current
<1>5. CASE GoesOn(c)
  BY <1>5, <1>t, <1>n DEF GoesOn, InEvent, OutOfGate, SamePlace, SameMarks, ClaimOK, Message
<1>6. CASE Ends(c)
  <2>1. pos[c] <= Len(Log[c]) /\ Message(c) # Garbage /\ idx[c] \in 1 .. Len(Message(c))
    BY <1>6, <1>t, <1>n, <1>m DEF Ends, InEvent, ClaimOK
  <2>2. Message(c)' = Message(c) /\ idx'[c] \in 1 .. Len(Message(c)) + 1
    BY <1>6, <2>1, <1>m DEF Ends, Message
  <2> QED
    BY <1>6, <1>t, <2>1, <2>2 DEF Ends, OutOfGate, SameMarks, ClaimOK
<1>7. CASE Resumes(c)
  <2>1. /\ committed[c] <= marked[c] /\ marked[c] = pos[c] - 1 /\ pos[c] \in 1 .. Len(Log[c]) + 1
        /\ committed[c] \in Nat /\ marked[c] \in Nat /\ Len(Log[c]) \in Nat
    BY <1>t, <1>n, <1>l DEF ClaimOK
  <2>2. pos'[c] = committed[c] + 1 /\ marked'[c] = committed[c] /\ committed'[c] = committed[c]
    BY <1>7 DEF Resumes
  <2>3. /\ pos'[c] \in 1 .. Len(Log[c]) + 1
        /\ committed'[c] <= marked'[c] /\ marked'[c] = pos'[c] - 1
    BY <2>1, <2>2
  <2> QED
    BY <1>7, <2>3 DEF Resumes, OutOfGate, ClaimOK
<1> QED
  BY PlacesMove, <1>1, <1>2, <1>3, <1>4, <1>5, <1>6, <1>7 DEF Moves

(* Every reachable state of the pipeline is well typed. *)
THEOREM PipelineTyping == Spec => []PipelineTypeOK
<1>1. Init => PipelineTypeOK
  <2> SUFFICES ASSUME Init PROVE PipelineTypeOK
    OBVIOUS
  <2>1. TypeOK
    BY BoundsAssumption DEF Init, GateInit, TypeOK, GateSteps, Hours
  <2>2. Typed
    BY <2>1, PipelineAssumption DEF Init, Typed, HandlerSteps
  <2>r. RoomTyped
    BY PipelineAssumption DEF Init, RoomTyped
  <2>3. ASSUME NEW c \in Claims PROVE ClaimOK(c)
    <3>1. Len(Log[c]) \in Nat
      BY LogAssumption
    <3> QED
      BY <3>1 DEF Init, GateInit, ClaimOK
  <2> QED
    BY <2>2, <2>r, <2>3, TypeParts
<1>2. PipelineTypeOK /\ [Next]_vars => PipelineTypeOK'
  <2> SUFFICES ASSUME PipelineTypeOK, [Next]_vars PROVE PipelineTypeOK'
    OBVIOUS
  <2>1. Typed' /\ RoomTyped' /\ \A c \in Claims : ClaimOK(c)'
    BY TypedStep, RoomTypedStep, PlaceStep
  <2> QED
    BY <2>1 DEF PipelineTypeOK, Typed, RoomTyped, ClaimOK
<1> QED
  BY <1>1, <1>2, PTL DEF Spec

(* The events before a claim's place are handled: those of the messages    *)
(* before its own, and those of its own before the one it is at.           *)
HandledSoFar(c) ==
  /\ \A o \in 1 .. pos[c] - 1 :
       Log[c][o] # Garbage => \A i \in 1 .. Len(Log[c][o]) : <<c, o, i>> \in handled
  /\ hpc[c] # "poll" => \A i \in 1 .. idx[c] - 1 : <<c, pos[c], i>> \in handled

LEMMA HandledStep ==
  ASSUME PipelineTypeOK, [Next]_vars, NEW c \in Claims, HandledSoFar(c)
  PROVE  HandledSoFar(c)'
<1>t. Typed /\ Typed' /\ ClaimOK(c) /\ handled \subseteq handled'
  BY TypeParts, TypedStep, PlacesMove
<1>n. /\ pos[c] \in Nat /\ idx[c] \in Nat /\ marked[c] \in Nat /\ committed[c] \in Nat
  BY <1>t DEF Typed
<1>m. pos[c] <= Len(Log[c]) /\ Message(c) # Garbage => Len(Message(c)) \in Nat
  BY <1>t, MessageType
<1>1. CASE Rests(c)
  BY <1>1, <1>t DEF Rests, SamePlace, HandledSoFar
<1>2. CASE Opens(c)
  BY <1>2, <1>t DEF Opens, HandledSoFar
<1>3. CASE Marks(c)
  <2> SUFFICES ASSUME NEW o \in 1 .. pos[c], Log[c][o] # Garbage, NEW i \in 1 .. Len(Log[c][o])
               PROVE  <<c, o, i>> \in handled
    <3>1. pos'[c] - 1 = pos[c] /\ hpc'[c] = "poll"
      BY <1>3, <1>n DEF Marks
    <3> QED
      BY <3>1, <1>t DEF HandledSoFar
  <2>1. CASE o = pos[c]
    <3>1. hpc[c] = "loop" /\ idx[c] > Len(Log[c][o]) /\ Len(Log[c][o]) \in Nat
      BY <2>1, <1>3, <1>m DEF Marks, Message
    <3>2. i \in 1 .. idx[c] - 1
      BY <3>1, <1>n
    <3> QED
      BY <3>1, <3>2, <2>1 DEF HandledSoFar
  <2>2. CASE o # pos[c]
    <3>1. o \in 1 .. pos[c] - 1
      BY <2>2, <1>n
    <3> QED
      BY <3>1 DEF HandledSoFar
  <2> QED
    BY <2>1, <2>2
<1>4. CASE Asks(c) \/ GoesOn(c)
  BY <1>4, <1>t DEF Asks, GoesOn, InEvent, SamePlace, HandledSoFar
<1>5. CASE Ends(c)
  <2>1. ASSUME NEW i \in 1 .. idx[c] PROVE <<c, pos[c], i>> \in handled'
    <3>1. i = idx[c] \/ i \in 1 .. idx[c] - 1
      BY <1>n
    <3> QED
      BY <3>1, <1>5, <1>t DEF Ends, InEvent, HandledSoFar
  <2>2. pos'[c] = pos[c] /\ idx'[c] - 1 = idx[c]
    BY <1>5, <1>n DEF Ends
  <2>3. \A o \in 1 .. pos[c] - 1 :
          Log[c][o] # Garbage => \A i \in 1 .. Len(Log[c][o]) : <<c, o, i>> \in handled'
    BY <1>t DEF HandledSoFar
  <2> QED
    BY <2>1, <2>2, <2>3 DEF HandledSoFar
<1>6. CASE Resumes(c)
  <2>1. committed[c] <= pos[c] - 1
    BY <1>t, <1>n DEF ClaimOK
  <2> QED
    BY <2>1, <1>6, <1>t, <1>n DEF Resumes, HandledSoFar
<1> QED
  BY PlacesMove, <1>1, <1>2, <1>3, <1>4, <1>5, <1>6 DEF Moves

(* No offset reaches the broker before every event of the messages up to   *)
(* it is handled, whatever the log, the crashes and the commit timer do.   *)
THEOREM CommitsFollowHandling == Spec => []HandledBeforeCommitted
<1> DEFINE Behind == \A c \in Claims : HandledSoFar(c)
<1>1. Init => Behind
  BY DEF Init, HandledSoFar
<1>2. PipelineTypeOK /\ Behind /\ [Next]_vars => Behind'
  BY HandledStep
<1>3. PipelineTypeOK /\ Behind => HandledBeforeCommitted
  <2> SUFFICES ASSUME PipelineTypeOK, Behind, NEW c \in Claims, NEW o \in 1 .. committed[c]
               PROVE  Log[c][o] # Garbage =>
                        \A i \in 1 .. Len(Log[c][o]) : <<c, o, i>> \in handled
    BY DEF HandledBeforeCommitted
  <2>1. Typed /\ ClaimOK(c)
    BY TypeParts
  <2>2. o \in 1 .. pos[c] - 1
    BY <2>1 DEF Typed, ClaimOK
  <2> QED
    BY <2>2 DEF HandledSoFar
<1> QED
  BY <1>1, <1>2, <1>3, PipelineTyping, PTL DEF Spec

---------------------------------------------------------------------------
(* The tickets of SeedOnce. *)

Tickets == [c \in Claims |-> Holder(c)]

Bumped(f, e) == [f EXCEPT ![e] = @ + 1]

(* The ways a step can treat them, and the messages that leave on them. *)
KeepsTickets == UNCHANGED <<dedup, Tickets, lapsed, published, posted>>

TakesTicket(a, e) ==
  /\ Tickets[a] = None /\ e \notin dedup
  /\ dedup' = dedup \cup {e} /\ Tickets' = [Tickets EXCEPT ![a] = e]
  /\ UNCHANGED <<lapsed, published, posted>>

WastesTicket(e) ==
  dedup' = dedup \cup {e} /\ UNCHANGED <<Tickets, lapsed, published, posted>>

SpendsTicket(a) ==
  /\ Tickets[a] # None /\ Tickets' = [Tickets EXCEPT ![a] = None]
  /\ published' \in {published, Bumped(published, Tickets[a])}
  /\ posted' \in {posted, Bumped(posted, Tickets[a])}
  /\ UNCHANGED <<dedup, lapsed>>

LosesTickets ==
  /\ Tickets' = [c \in Claims |-> None]
  /\ UNCHANGED <<dedup, lapsed, published, posted>>

TicketLapses(e) ==
  /\ e \in dedup /\ lapsed[e] < MaxExpiries
  /\ dedup' = dedup \ {e} /\ lapsed' = Bumped(lapsed, e)
  /\ UNCHANGED <<Tickets, published, posted>>

TicketMoves ==
  \/ KeepsTickets \/ LosesTickets
  \/ \E a \in Claims : SpendsTicket(a) \/ \E e \in Events : TakesTicket(a, e)
  \/ \E e \in Events : WastesTicket(e) \/ TicketLapses(e)

(* Only the claim that steps changes its ticket. *)
LEMMA TicketsExcept ==
  ASSUME NEW a \in Claims, NEW t, Holder(a)' = t,
         \A d \in Claims \ {a} :
           /\ gpc'[d] = gpc[d] /\ ev'[d] = ev[d] /\ hpc'[d] = hpc[d]
           /\ pos'[d] = pos[d] /\ idx'[d] = idx[d]
  PROVE  Tickets' = [Tickets EXCEPT ![a] = t]
<1>1. \A d \in Claims \ {a} : Holder(d)' = Holder(d)
  BY DEF Holder, Current, Message
<1> QED
  BY <1>1 DEF Tickets

LEMMA TicketsSame ==
  ASSUME NEW a \in Claims, Holder(a)' = Holder(a),
         \A d \in Claims \ {a} :
           /\ gpc'[d] = gpc[d] /\ ev'[d] = ev[d] /\ hpc'[d] = hpc[d]
           /\ pos'[d] = pos[d] /\ idx'[d] = idx[d]
  PROVE  Tickets' = Tickets
<1>1. \A d \in Claims : Holder(d)' = Holder(d)
  BY DEF Holder, Current, Message
<1> QED
  BY <1>1 DEF Tickets

(* Who holds a ticket. *)
LEMMA HolderParts ==
  ASSUME PipelineTypeOK, NEW c \in Claims
  PROVE  /\ hpc[c] \in {"poll", "loop", "push", "count", "expire", "save"} => Holder(c) = None
         /\ hpc[c] \in {"prepare", "publish"} \cup ShadowSteps =>
              Holder(c) = Current(c) /\ Current(c) \in Events /\ Holder(c) # None
         /\ hpc[c] = "policy" =>
              /\ gpc[c] # "idle" /\ ev[c] = Current(c) /\ ev[c] \in Events /\ ev[c] # None
              /\ Holder(c) = IF gpc[c] \in Granted THEN ev[c] ELSE None
<1>t. Typed /\ TypeOK /\ ClaimOK(c)
  BY TypeParts DEF Typed
<1>i. hpc[c] # "policy" => gpc[c] = "idle" /\ gpc[c] \notin Granted
  BY <1>t DEF ClaimOK, Granted
<1>1. hpc[c] \in {"poll", "loop", "push", "count", "expire", "save"} => Holder(c) = None
  BY <1>i DEF Holder, ShadowSteps
<1>2. ASSUME hpc[c] \in {"prepare", "publish"} \cup ShadowSteps
      PROVE  Holder(c) = Current(c) /\ Current(c) \in Events /\ Holder(c) # None
  <2>1. hpc[c] \notin {"poll", "loop", "policy"}
    BY <1>2 DEF ShadowSteps
  <2>2. Holder(c) = Current(c)
    BY <1>2, <2>1, <1>i DEF Holder
  <2>3. Current(c) \in Events
    BY <2>1, <1>t, CurrentType DEF ClaimOK
  <2> QED
    BY <2>2, <2>3, NoneAssumption
<1>3. ASSUME hpc[c] = "policy"
      PROVE  /\ gpc[c] # "idle" /\ ev[c] = Current(c) /\ ev[c] \in Events /\ ev[c] # None
             /\ Holder(c) = IF gpc[c] \in Granted THEN ev[c] ELSE None
  BY <1>3, <1>t, NoneAssumption DEF ClaimOK, TypeOK, Holder, ShadowSteps
<1> QED
  BY <1>1, <1>2, <1>3

(* And who does after a step. *)
LEMMA HolderAfter ==
  ASSUME NEW c \in Claims
  PROVE  /\ gpc'[c] \notin Granted /\ hpc'[c] \notin {"prepare", "publish"} \cup ShadowSteps =>
              Holder(c)' = None
         /\ gpc'[c] \notin Granted /\ hpc'[c] \in {"prepare", "publish"} \cup ShadowSteps
              /\ pos'[c] = pos[c] /\ idx'[c] = idx[c] => Holder(c)' = Current(c)
         /\ gpc'[c] \in Granted => Holder(c)' = ev'[c]
BY DEF Holder, Current, Message

LEMMA ParseTickets ==
  ASSUME PipelineTypeOK, NEW a \in Claims,
         SkipGarbage(a) \/ ParseMessage(a) \/ FinishMessage(a) \/ AutoCommit(a) \/ BeginEvent(a)
  PROVE  KeepsTickets
<1>t. Typed /\ TypeOK /\ ClaimOK(a)
  BY TypeParts DEF Typed
<1>1. CASE AutoCommit(a)
  BY <1>1 DEF AutoCommit, KeepsTickets, Tickets, Holder, Current, Message, gateVars, locals, outcomes
<1>2. CASE ~AutoCommit(a)
  <2>1. /\ hpc[a] \in {"poll", "loop"} /\ hpc'[a] \in {"poll", "loop", "policy"}
        /\ UNCHANGED <<dedup, lapsed, published, posted>>
        /\ \A d \in Claims \ {a} :
             hpc'[d] = hpc[d] /\ pos'[d] = pos[d] /\ idx'[d] = idx[d]
    BY <1>2, <1>t DEF SkipGarbage, ParseMessage, FinishMessage, BeginEvent, MarkMessage, Step,
      Typed, gateVars, outcomes, Refuse, Admit, store, history
  <2>2. /\ gpc'[a] \notin Granted
        /\ \A d \in Claims \ {a} : gpc'[d] = gpc[d] /\ ev'[d] = ev[d]
    <3>1. CASE BeginEvent(a)
      BY <3>1, <1>t DEF BeginEvent, Refuse, Admit, Goto, TypeOK, Granted
    <3>2. CASE ~BeginEvent(a)
      <4>1. UNCHANGED <<gpc, ev>>
        BY <3>2, <1>2 DEF SkipGarbage, ParseMessage, FinishMessage, gateVars
      <4> QED
        BY <4>1, <2>1, <1>t DEF ClaimOK, Granted
    <3> QED
      BY <3>1, <3>2
  <2>3. Holder(a) = None /\ Holder(a)' = None
    BY <2>1, <2>2, HolderParts, HolderAfter DEF ShadowSteps
  <2> QED
    BY <2>1, <2>2, <2>3, TicketsSame DEF KeepsTickets
<1> QED
  BY <1>1, <1>2

LEMMA PolicyTickets ==
  ASSUME PipelineTypeOK, NEW a \in Claims, Policy(a) \/ PolicyFault(a)
  PROVE  TicketMoves
<1>t. Typed /\ TypeOK
  BY TypeParts DEF Typed
<1>h. hpc[a] = "policy" /\ UNCHANGED <<hpc, pos, idx, published, posted>>
  BY DEF Policy, PolicyFault, handlerVars, locals, outcomes
<1>g. GateStep(a) \/ GateFault(a)
  BY DEF Policy, PolicyFault
<1>o. ev' = ev /\ \A d \in Claims \ {a} : gpc'[d] = gpc[d]
  BY <1>t, <1>g, GateMoves
<1>b. /\ ev[a] \in Events /\ ev[a] # None
      /\ Holder(a) = IF gpc[a] \in Granted THEN ev[a] ELSE None
  BY <1>h, HolderParts
<1>a. Holder(a)' = IF gpc'[a] \in Granted THEN ev[a] ELSE None
  BY <1>h, <1>o, HolderAfter DEF ShadowSteps
<1>T. Tickets[a] = Holder(a)
  BY DEF Tickets
<1>1. CASE SetDedupKey(a)
  <2>1. gpc[a] = "dedup" /\ Holder(a) = None /\ UNCHANGED lapsed
    BY <1>1, <1>b DEF SetDedupKey, Granted
  <2>2. CASE ev[a] \in dedup
    <3>1. gpc'[a] = "skip" /\ UNCHANGED dedup
      BY <1>1, <2>2, <1>t DEF SetDedupKey, Goto, TypeOK
    <3>2. Holder(a)' = None
      BY <3>1, <1>a DEF Granted
    <3> QED
      BY <3>1, <3>2, <2>1, <1>h, <1>o, TicketsSame DEF TicketMoves, KeepsTickets
  <2>3. CASE ev[a] \notin dedup
    <3>1. gpc'[a] = "typeGet" /\ dedup' = dedup \cup {ev[a]}
      BY <1>1, <2>3, <1>t DEF SetDedupKey, Goto, TypeOK
    <3>2. Holder(a)' = ev[a]
      BY <3>1, <1>a DEF Granted
    <3>3. Tickets' = [Tickets EXCEPT ![a] = ev[a]]
      BY <3>2, <1>h, <1>o, TicketsExcept
    <3>4. TakesTicket(a, ev[a])
      BY <3>1, <3>3, <2>1, <2>3, <1>h, <1>T DEF TakesTicket
    <3> QED
      BY <3>4, <1>b DEF TicketMoves
  <2> QED
    BY <2>2, <2>3
<1>2. CASE SetDedupKeyFails(a)
  <2>1. /\ Holder(a) = None /\ gpc'[a] = "error" /\ UNCHANGED lapsed
        /\ dedup' \in {dedup, dedup \cup {ev[a]}}
    BY <1>2, <1>b, <1>t DEF SetDedupKeyFails, Goto, TypeOK, Granted, history
  <2>2. Holder(a)' = None
    BY <2>1, <1>a DEF Granted
  <2>3. Tickets' = Tickets
    BY <2>1, <2>2, <1>h, <1>o, TicketsSame
  <2> QED
    BY <2>1, <2>3, <1>h, <1>b DEF TicketMoves, KeepsTickets, WastesTicket
<1>3. CASE ~SetDedupKey(a) /\ ~SetDedupKeyFails(a)
  <2>1. UNCHANGED <<dedup, lapsed>>
    BY <1>3, <1>g DEF GateStep, GateFault, ReadKillKey, ReadTypeCounter, ReadHourCounter,
      ReadTotalCounter, IncrementCounter, ExpireCounter, CheckBotRatio, ReadKillKeyFails,
      ReadCounterFails, IncrementCounterFails, ExpireCounterFails, CheckBotRatioFails,
      store, history
  <2>2. gpc[a] \notin Granted => gpc'[a] \notin Granted
    BY <1>3, <1>g, <1>t DEF GateStep, GateFault, ReadKillKey, ReadTypeCounter, ReadHourCounter,
      ReadTotalCounter, IncrementCounter, ExpireCounter, CheckBotRatio, ReadKillKeyFails,
      ReadCounterFails, IncrementCounterFails, ExpireCounterFails, CheckBotRatioFails,
      Goto, TypeOK, KillSteps, Granted, Incrementing, Expiring, NextKillRead, KillCallFailed
  <2>3. CASE Holder(a)' = Holder(a)
    BY <2>1, <2>3, <1>h, <1>o, TicketsSame DEF TicketMoves, KeepsTickets
  <2>4. CASE Holder(a)' # Holder(a)
    <3>1. Holder(a) = ev[a] /\ Holder(a)' = None
      BY <2>2, <2>4, <1>a, <1>b
    <3>2. Tickets' = [Tickets EXCEPT ![a] = None]
      BY <3>1, <1>h, <1>o, TicketsExcept
    <3>3. SpendsTicket(a)
      BY <3>1, <3>2, <2>1, <1>h, <1>b, <1>T DEF SpendsTicket
    <3> QED
      BY <3>3 DEF TicketMoves
  <2> QED
    BY <2>3, <2>4
<1> QED
  BY <1>1, <1>2, <1>3

(* A claim inside an event, past the gate or leaving it. *)
LEMMA EventTickets ==
  ASSUME PipelineTypeOK, NEW a \in Claims,
         \/ Verdict(a) \/ Prepare(a) \/ ReadShadowKey(a) \/ ReadShadowKeyFails(a)
         \/ Publish(a) \/ PublishLost(a) \/ PublishFails(a) \/ PushChatMessage(a)
         \/ IncrTotalMessages(a) \/ IncrTotalMessagesFails(a) \/ ExpireTotal(a)
         \/ SaveBotMessage(a)
  PROVE  TicketMoves
<1>t. Typed /\ TypeOK /\ ClaimOK(a)
  BY TypeParts DEF Typed
<1>T. Tickets[a] = Holder(a)
  BY DEF Tickets
<1>g. /\ gpc'[a] \notin Granted
      /\ \A d \in Claims \ {a} : gpc'[d] = gpc[d] /\ ev'[d] = ev[d]
  <2>1. CASE Verdict(a)
    BY <2>1, <1>t DEF Verdict, Return, Goto, TypeOK, Granted
  <2>2. CASE ~Verdict(a)
    <3>1. UNCHANGED <<gpc, ev>> /\ hpc[a] # "policy"
      BY <2>2 DEF Prepare, ReadShadowKey, ReadShadowKeyFails, Publish, PublishLost, PublishFails,
        PushChatMessage, IncrTotalMessages, IncrTotalMessagesFails, ExpireTotal, SaveBotMessage,
        gateVars, claimVars, ShadowSteps
    <3> QED
      BY <3>1, <1>t DEF ClaimOK, Granted
  <2> QED
    BY <2>1, <2>2
<1>d. UNCHANGED <<dedup, lapsed>>
  BY DEF Verdict, Return, Prepare, ReadShadowKey, ReadShadowKeyFails, Publish, PublishLost,
    PublishFails, PushChatMessage, IncrTotalMessages, IncrTotalMessagesFails, ExpireTotal,
    SaveBotMessage, gateVars, store, history
<1>o. ASSUME NEW s, Step(a, s), UNCHANGED <<pos, idx>>
      PROVE  \A d \in Claims \ {a} : hpc'[d] = hpc[d] /\ pos'[d] = pos[d] /\ idx'[d] = idx[d]
  BY <1>o, <1>t DEF Step, Typed
<1>e. ASSUME EndEvent(a)
      PROVE  /\ Holder(a)' = None
             /\ \A d \in Claims \ {a} : hpc'[d] = hpc[d] /\ pos'[d] = pos[d] /\ idx'[d] = idx[d]
  BY <1>e, <1>t, <1>g, HolderAfter DEF EndEvent, Step, Typed, ShadowSteps
<1> DEFINE Others == \A d \in Claims \ {a} :
                       hpc'[d] = hpc[d] /\ pos'[d] = pos[d] /\ idx'[d] = idx[d]
<1>k. ASSUME Holder(a)' = Holder(a), Others, UNCHANGED <<published, posted>> PROVE TicketMoves
  BY <1>k, <1>d, <1>g, TicketsSame DEF TicketMoves, KeepsTickets
<1>s. ASSUME Holder(a) = Current(a), Holder(a) # None, Holder(a)' = None, Others,
             published' \in {published, Bumped(published, Current(a))},
             posted' \in {posted, Bumped(posted, Current(a))}
      PROVE  TicketMoves
  <2>1. Tickets' = [Tickets EXCEPT ![a] = None]
    BY <1>s, <1>g, TicketsExcept
  <2> QED
    BY <1>s, <2>1, <1>d, <1>T DEF TicketMoves, SpendsTicket
<1>1. CASE Verdict(a)
  <2>1. CASE gpc[a] = "pass"
    <3>1. Step(a, "prepare") /\ UNCHANGED <<pos, idx, published, posted>>
      BY <1>1, <2>1 DEF Verdict
    <3>2. hpc'[a] = "prepare" /\ Others
      BY <3>1, <1>o, <1>t DEF Step, Typed
    <3>3. Holder(a) = Current(a)
      BY <1>1, <2>1, HolderParts DEF Verdict, Granted
    <3> QED
      BY <3>1, <3>2, <3>3, <1>g, <1>k, HolderAfter
  <2>2. CASE gpc[a] # "pass"
    <3>1. EndEvent(a) /\ UNCHANGED <<published, posted>> /\ gpc[a] \notin Granted
      BY <1>1, <2>2 DEF Verdict, Return, Decided, Granted
    <3>2. Holder(a) = None
      BY <1>1, <3>1, HolderParts DEF Verdict
    <3> QED
      BY <3>1, <3>2, <1>e, <1>k
  <2> QED
    BY <2>1, <2>2
<1>2. CASE Prepare(a)
  <2>h. Holder(a) = Current(a) /\ Holder(a) # None /\ UNCHANGED <<published, posted>>
    BY <1>2, HolderParts DEF Prepare
  <2>1. CASE EndEvent(a)
    BY <2>1, <2>h, <1>e, <1>s
  <2>2. CASE Step(a, "shadowGlobal") /\ UNCHANGED <<pos, idx, quiet, handled>>
    <3>1. hpc'[a] \in ShadowSteps /\ Others
      BY <2>2, <1>o, <1>t DEF Step, Typed, ShadowSteps
    <3> QED
      BY <2>2, <2>h, <3>1, <1>g, <1>k, HolderAfter
  <2> QED
    BY <1>2, <2>1, <2>2 DEF Prepare
<1>3. CASE ReadShadowKey(a)
  <2>h. Holder(a) = Current(a) /\ Holder(a) # None /\ UNCHANGED <<pos, idx, published>>
    BY <1>3, HolderParts DEF ReadShadowKey
  <2>1. CASE ShadowScope(hpc[a], Current(a)) \in shadow
    <3>1. Step(a, "push") /\ posted' = Bumped(posted, Current(a))
      BY <1>3, <2>1 DEF ReadShadowKey, Post, Bumped
    <3>2. hpc'[a] = "push" /\ Others
      BY <3>1, <2>h, <1>o, <1>t DEF Step, Typed
    <3> QED
      BY <3>1, <3>2, <2>h, <1>g, <1>s, HolderAfter DEF ShadowSteps
  <2>2. CASE ShadowScope(hpc[a], Current(a)) \notin shadow
    <3>1. Step(a, NextShadowRead(hpc[a])) /\ UNCHANGED posted
      BY <1>3, <2>2 DEF ReadShadowKey
    <3>2. hpc'[a] \in {"publish"} \cup ShadowSteps /\ Others
      BY <3>1, <2>h, <1>o, <1>t DEF Step, Typed, NextShadowRead, ShadowSteps
    <3> QED
      BY <3>1, <3>2, <2>h, <1>g, <1>k, HolderAfter
  <2> QED
    BY <2>1, <2>2
<1>4. CASE ReadShadowKeyFails(a)
  <2>1. /\ Holder(a) = Current(a) /\ Step(a, "publish")
        /\ UNCHANGED <<pos, idx, published, posted>>
    BY <1>4, HolderParts DEF ReadShadowKeyFails, outcomes
  <2>2. hpc'[a] = "publish" /\ Others
    BY <2>1, <1>o, <1>t DEF Step, Typed
  <2> QED
    BY <2>1, <2>2, <1>g, <1>k, HolderAfter
<1>5. CASE Publish(a) \/ PublishLost(a) \/ PublishFails(a)
  <2>1. /\ Holder(a) = Current(a) /\ Holder(a) # None
        /\ published' \in {published, Bumped(published, Current(a))}
        /\ posted' \in {posted, Bumped(posted, Current(a))}
    BY <1>5, HolderParts DEF Publish, PublishLost, PublishFails, HandOut, Post, Bumped
  <2>2. Holder(a)' = None /\ Others
    <3>1. CASE PublishFails(a)
      BY <3>1, <1>e DEF PublishFails
    <3>2. CASE Publish(a) \/ PublishLost(a)
      <4>1. Step(a, "push") /\ UNCHANGED <<pos, idx>>
        BY <3>2 DEF Publish, PublishLost
      <4>2. hpc'[a] = "push" /\ Others
        BY <4>1, <1>o, <1>t DEF Step, Typed
      <4> QED
        BY <4>2, <1>g, HolderAfter DEF ShadowSteps
    <3> QED
      BY <1>5, <3>1, <3>2
  <2> QED
    BY <2>1, <2>2, <1>s
<1>6. CASE PushChatMessage(a) \/ IncrTotalMessages(a) \/ IncrTotalMessagesFails(a)
           \/ ExpireTotal(a) \/ SaveBotMessage(a)
  <2>1. Holder(a) = None /\ UNCHANGED <<published, posted>>
    BY <1>6, HolderParts DEF PushChatMessage, IncrTotalMessages, IncrTotalMessagesFails,
      ExpireTotal, SaveBotMessage, outcomes
  <2>2. \/ EndEvent(a)
        \/ /\ \E s \in {"save", "count", "expire"} : Step(a, s)
           /\ UNCHANGED <<pos, idx>>
    BY <1>6 DEF PushChatMessage, IncrTotalMessages, IncrTotalMessagesFails,
      ExpireTotal, SaveBotMessage, AfterPush, FinishCount, FinishSave
  <2>3. ASSUME NEW s \in {"save", "count", "expire"}, Step(a, s), UNCHANGED <<pos, idx>>
        PROVE  Holder(a)' = None /\ Others
    <3>1. hpc'[a] = s /\ Others
      BY <2>3, <1>o, <1>t DEF Step, Typed
    <3> QED
      BY <3>1, <1>g, HolderAfter DEF ShadowSteps
  <2> QED
    BY <2>1, <2>2, <2>3, <1>e, <1>k
<1> QED
  BY <1>1, <1>2, <1>3, <1>4, <1>5, <1>6

LEMMA AmbientTickets ==
  ASSUME PipelineTypeOK,
         \/ \E s \in AdminScopes, on \in BOOLEAN : SetKill(s, on) \/ SetShadowBan(s, on)
         \/ \E m \in Matches : RoomStep(m)
         \/ KeysAge
         \/ Restart
         \/ UNCHANGED vars
  PROVE  TicketMoves
<1>r. \A m \in Matches : RoomStep(m) => UNCHANGED Away
  BY RoomStepIs
<1>1. CASE Restart
  <2>1. ASSUME NEW c \in Claims PROVE Holder(c)' = None
    BY <1>1, HolderAfter DEF Restart, Crash, Granted, ShadowSteps
  <2> QED
    BY <1>1, <2>1 DEF Restart, Crash, store, TicketMoves, LosesTickets, Tickets
<1>2. CASE ~Restart
  <2>1. UNCHANGED <<gpc, ev, hpc, pos, idx, published, posted>>
    BY <1>2, <1>r DEF SetKill, SetKillSwitch, SetShadowBan, Away, KeysAge, DedupKeyExpires,
      CounterExpires, NextHour, claimVars, gateVars, handlerVars, vars, locals, outcomes
  <2>2. Tickets' = Tickets
    BY <2>1 DEF Tickets, Holder, Current, Message
  <2>3. ASSUME NEW e \in Events, DedupKeyExpires(e) PROVE TicketMoves
    BY <2>1, <2>2, <2>3 DEF DedupKeyExpires, TicketMoves, TicketLapses, Bumped
  <2>4. CASE ~\E e \in Events : DedupKeyExpires(e)
    <3>1. UNCHANGED <<dedup, lapsed>>
      BY <1>2, <2>4, <1>r DEF SetKill, SetKillSwitch, SetShadowBan, Away, KeysAge,
        CounterExpires, NextHour, gateVars, vars, store, history
    <3> QED
      BY <2>1, <2>2, <3>1 DEF TicketMoves, KeepsTickets
  <2> QED
    BY <2>3, <2>4
<1> QED
  BY <1>1, <1>2

LEMMA TicketsMove == PipelineTypeOK /\ [Next]_vars => TicketMoves
<1> SUFFICES ASSUME PipelineTypeOK, [Next]_vars PROVE TicketMoves
  OBVIOUS
<1>k. KeepsTickets => TicketMoves
  BY DEF TicketMoves
<1> QED
  BY <1>k, ParseTickets, PolicyTickets, EventTickets, AmbientTickets
  DEF Next, ClaimStep, ClaimFault

(* SeedOnce, with what was handed out as its messages, and with what       *)
(* reached the chat history.                                               *)
Published == INSTANCE SeedOnce_proofs WITH
  taken <- dedup, holder <- Tickets, sent <- published,
  lapses <- lapsed, MaxLapses <- MaxExpiries

Posted == INSTANCE SeedOnce_proofs WITH
  taken <- dedup, holder <- Tickets, sent <- posted,
  lapses <- lapsed, MaxLapses <- MaxExpiries

LEMMA TicketsInit ==
  ASSUME Init PROVE Published!Init /\ Posted!Init
<1>1. Tickets = [c \in Claims |-> None]
  BY DEF Init, GateInit, Tickets, Holder, Granted, ShadowSteps
<1> QED
  BY <1>1 DEF Init, GateInit, Published!Init, Posted!Init

(* Each step of the pipeline is a step of the promise, or a stutter. *)
LEMMA PublishedStep ==
  ASSUME TicketMoves
  PROVE  [Published!Next]_(Published!vars)
<1>1. CASE KeepsTickets
  BY <1>1 DEF KeepsTickets, Published!vars
<1>2. CASE LosesTickets
  BY <1>2 DEF LosesTickets, Published!Next, Published!Die
<1>3. ASSUME NEW a \in Claims, SpendsTicket(a) PROVE Published!Next
  BY <1>3 DEF SpendsTicket, Bumped, Published!Next, Published!Send, Published!Drop
<1>4. ASSUME NEW a \in Claims, NEW e \in Events, TakesTicket(a, e) PROVE Published!Next
  BY <1>4 DEF TakesTicket, Published!Next, Published!Take
<1>5. ASSUME NEW e \in Events, WastesTicket(e) PROVE Published!Next
  BY <1>5 DEF WastesTicket, Published!Next, Published!Waste
<1>6. ASSUME NEW e \in Events, TicketLapses(e) PROVE Published!Next
  BY <1>6 DEF TicketLapses, Bumped, Published!Next, Published!Lapse
<1> QED
  BY <1>1, <1>2, <1>3, <1>4, <1>5, <1>6 DEF TicketMoves

LEMMA PostedStep ==
  ASSUME TicketMoves
  PROVE  [Posted!Next]_(Posted!vars)
<1>1. CASE KeepsTickets
  BY <1>1 DEF KeepsTickets, Posted!vars
<1>2. CASE LosesTickets
  BY <1>2 DEF LosesTickets, Posted!Next, Posted!Die
<1>3. ASSUME NEW a \in Claims, SpendsTicket(a) PROVE Posted!Next
  BY <1>3 DEF SpendsTicket, Bumped, Posted!Next, Posted!Send, Posted!Drop
<1>4. ASSUME NEW a \in Claims, NEW e \in Events, TakesTicket(a, e) PROVE Posted!Next
  BY <1>4 DEF TakesTicket, Posted!Next, Posted!Take
<1>5. ASSUME NEW e \in Events, WastesTicket(e) PROVE Posted!Next
  BY <1>5 DEF WastesTicket, Posted!Next, Posted!Waste
<1>6. ASSUME NEW e \in Events, TicketLapses(e) PROVE Posted!Next
  BY <1>6 DEF TicketLapses, Bumped, Posted!Next, Posted!Lapse
<1> QED
  BY <1>1, <1>2, <1>3, <1>4, <1>5, <1>6 DEF TicketMoves

(* The pipeline implements SeedOnce: whatever is delivered, redelivered,   *)
(* refused, lost or cut off by a crash, a message only ever leaves on the  *)
(* ticket its claim won with SETNX.                                        *)
THEOREM PipelineKeepsPromise == Spec => PromiseKept
<1>1. Init => Promise!Init
  BY TicketsInit DEF Published!Init, Promise!Init, Tickets
<1>2. PipelineTypeOK /\ [Next]_vars => [Promise!Next]_(Promise!vars)
  <2> SUFFICES ASSUME PipelineTypeOK, [Next]_vars PROVE [Promise!Next]_(Promise!vars)
    OBVIOUS
  <2>1. [Published!Next]_(Published!vars)
    BY TicketsMove, PublishedStep
  <2> QED
    BY <2>1 DEF Published!Next, Published!vars, Promise!Next, Promise!vars, Tickets,
      Published!Take, Published!Waste, Published!Lapse, Published!Send, Published!Drop, Published!Die,
      Promise!Take, Promise!Waste, Promise!Lapse, Promise!Send, Promise!Drop, Promise!Die
<1> QED
  BY <1>1, <1>2, PipelineTyping, PTL DEF Spec, PromiseKept, Promise!Spec

(* However often an event is delivered it leads to one message per life of *)
(* its dedup key, both among those handed out and in the chat history.     *)
THEOREM SeedsOncePerKey == Spec => []SeededOncePerKey
<1>1. Spec => Published!Spec
  <2>1. Init => Published!Init
    BY TicketsInit
  <2>2. PipelineTypeOK /\ [Next]_vars => [Published!Next]_(Published!vars)
    BY TicketsMove, PublishedStep
  <2> QED
    BY <2>1, <2>2, PipelineTyping, PTL DEF Spec, Published!Spec
<1>2. Spec => Posted!Spec
  <2>1. Init => Posted!Init
    BY TicketsInit
  <2>2. PipelineTypeOK /\ [Next]_vars => [Posted!Next]_(Posted!vars)
    BY TicketsMove, PostedStep
  <2> QED
    BY <2>1, <2>2, PipelineTyping, PTL DEF Spec, Posted!Spec
<1>3. Published!AtMostOnce /\ Posted!AtMostOnce => SeededOncePerKey
  BY DEF Published!AtMostOnce, Posted!AtMostOnce, SeededOncePerKey
<1>4. Published!Spec => []Published!AtMostOnce
  <2>1. Published!IsFiniteSet(Claims)
    BY ClaimsAssumption DEF IsFiniteSet, Published!IsFiniteSet
  <2> QED
    BY <2>1, NoneAssumption, Published!SendsAtMostOnce
<1>5. Posted!Spec => []Posted!AtMostOnce
  <2>1. Posted!IsFiniteSet(Claims)
    BY ClaimsAssumption DEF IsFiniteSet, Posted!IsFiniteSet
  <2> QED
    BY <2>1, NoneAssumption, Posted!SendsAtMostOnce
<1> QED
  BY <1>1, <1>2, <1>3, <1>4, <1>5, PTL

---------------------------------------------------------------------------
(* The grace a switch leaves. *)

(* The scopes covering its event that a claim will not look up again       *)
(* before the message is out, of the kill switch and of the shadow ban.    *)
KillUnwatched(c) ==
  IF hpc[c] = "policy" /\ gpc[c] \in KillSteps
  THEN Covering(ev[c]) \ StillUnread(gpc[c], ev[c])
  ELSE IF hpc[c] = "policy" /\ gpc[c] \in {"dedup"} \cup Granted THEN Covering(ev[c])
  ELSE IF hpc[c] \in {"prepare", "publish"} \cup ShadowSteps THEN Covering(Current(c))
  ELSE {}

ShadowUnwatched(c) ==
  IF hpc[c] = "shadowLeague" THEN {GlobalScope}
  ELSE IF hpc[c] = "shadowMatch" THEN {GlobalScope, LeagueScope(Current(c).league)}
  ELSE IF hpc[c] = "publish" THEN Covering(Current(c))
  ELSE {}

PastKill(s)   == {c \in Claims : s \in KillUnwatched(c)}
PastShadow(s) == {c \in Claims : s \in ShadowUnwatched(c)}

(* What a step does to a switch s that is on after it: the claims past its *)
(* look-up, the messages since it went on, the look-ups that failed.       *)
KillMoves(s) ==
  \/ sinceKill'[s] = 0
  \/ /\ s \in kill /\ PastKill(s)' \subseteq PastKill(s)
     /\ sinceKill'[s] = sinceKill[s] /\ faults' \in {faults, faults + 1}
  \/ \E a \in Claims :
       /\ s \in kill /\ PastKill(s)' \subseteq PastKill(s) \cup {a}
       /\ sinceKill'[s] = sinceKill[s] /\ faults' = faults + 1
  \/ \E a \in PastKill(s) :
       /\ s \in kill /\ PastKill(s)' \subseteq PastKill(s) \ {a}
       /\ sinceKill'[s] = sinceKill[s] + 1 /\ faults' = faults

ShadowMoves(s) ==
  \/ sinceShadow'[s] = 0
  \/ /\ s \in shadow /\ PastShadow(s)' \subseteq PastShadow(s)
     /\ sinceShadow'[s] = sinceShadow[s] /\ blind' = blind
  \/ \E a \in Claims :
       /\ s \in shadow /\ PastShadow(s)' \subseteq PastShadow(s) \cup {a}
       /\ sinceShadow'[s] = sinceShadow[s] /\ blind' = blind + 1
  \/ \E a \in PastShadow(s) :
       /\ s \in shadow /\ PastShadow(s)' \subseteq PastShadow(s) \ {a}
       /\ sinceShadow'[s] = sinceShadow[s] + 1 /\ blind' = blind

(* Only the claim that steps gets past a look-up. *)
LEMMA PastOthers ==
  ASSUME NEW a \in Claims, NEW s,
         \A d \in Claims \ {a} :
           /\ gpc'[d] = gpc[d] /\ ev'[d] = ev[d] /\ hpc'[d] = hpc[d]
           /\ pos'[d] = pos[d] /\ idx'[d] = idx[d]
  PROVE  /\ PastKill(s)' \subseteq PastKill(s) \cup {a}
         /\ s \in KillUnwatched(a) \/ s \notin KillUnwatched(a)'
              => PastKill(s)' \subseteq PastKill(s)
         /\ s \notin KillUnwatched(a)' => PastKill(s)' \subseteq PastKill(s) \ {a}
         /\ PastShadow(s)' \subseteq PastShadow(s) \cup {a}
         /\ s \in ShadowUnwatched(a) \/ s \notin ShadowUnwatched(a)'
              => PastShadow(s)' \subseteq PastShadow(s)
         /\ s \notin ShadowUnwatched(a)' => PastShadow(s)' \subseteq PastShadow(s) \ {a}
<1>1. \A d \in Claims \ {a} :
        KillUnwatched(d)' = KillUnwatched(d) /\ ShadowUnwatched(d)' = ShadowUnwatched(d)
  BY DEF KillUnwatched, ShadowUnwatched, Current, Message
<1>2. /\ PastKill(s)' \ {a} = PastKill(s) \ {a}
      /\ PastShadow(s)' \ {a} = PastShadow(s) \ {a}
  BY <1>1 DEF PastKill, PastShadow
<1>3. /\ a \in PastKill(s) <=> s \in KillUnwatched(a)
      /\ a \in PastKill(s)' <=> s \in KillUnwatched(a)'
      /\ a \in PastShadow(s) <=> s \in ShadowUnwatched(a)
      /\ a \in PastShadow(s)' <=> s \in ShadowUnwatched(a)'
  BY DEF PastKill, PastShadow
<1> QED
  BY <1>2, <1>3

(* A claim outside its event, or past its publish, is past no look-up. *)
Resting == {"poll", "loop", "push", "count", "expire", "save"}

LEMMA UnwatchedAt ==
  ASSUME NEW a \in Claims
  PROVE  /\ hpc'[a] \in Resting => KillUnwatched(a)' = {} /\ ShadowUnwatched(a)' = {}
         /\ hpc'[a] \in {"policy", "prepare", "shadowGlobal"} => ShadowUnwatched(a)' = {}
         /\ hpc[a] \in {"prepare", "publish"} \cup ShadowSteps =>
              KillUnwatched(a) = Covering(Current(a))
         /\ hpc'[a] \in {"prepare", "publish"} \cup ShadowSteps
              /\ pos'[a] = pos[a] /\ idx'[a] = idx[a] => KillUnwatched(a)' = Covering(Current(a))
BY DEF Resting, KillUnwatched, ShadowUnwatched, ShadowSteps, Current, Message

LEMMA ParseGrace ==
  ASSUME PipelineTypeOK, NEW a \in Claims, NEW s,
         SkipGarbage(a) \/ ParseMessage(a) \/ FinishMessage(a) \/ AutoCommit(a) \/ BeginEvent(a)
  PROVE  (s \in kill' => KillMoves(s)) /\ (s \in shadow' => ShadowMoves(s))
<1>t. Typed /\ TypeOK /\ ClaimOK(a)
  BY TypeParts DEF Typed
<1>u. UNCHANGED <<kill, shadow, faults, blind, sinceKill, sinceShadow>>
  BY DEF SkipGarbage, ParseMessage, FinishMessage, AutoCommit, BeginEvent, Refuse, Admit,
    gateVars, store, shadowVars, outcomes
<1>1. /\ PastKill(s)' \subseteq PastKill(s)
      /\ PastShadow(s)' \subseteq PastShadow(s)
  <2>1. CASE AutoCommit(a)
    BY <2>1 DEF AutoCommit, gateVars, locals, PastKill, PastShadow, KillUnwatched,
      ShadowUnwatched, Current, Message
  <2>2. CASE SkipGarbage(a) \/ ParseMessage(a) \/ FinishMessage(a)
    <3>1. /\ hpc'[a] \in Resting /\ UNCHANGED <<gpc, ev>>
          /\ \A d \in Claims \ {a} : hpc'[d] = hpc[d] /\ pos'[d] = pos[d] /\ idx'[d] = idx[d]
      BY <2>2, <1>t DEF SkipGarbage, ParseMessage, FinishMessage, MarkMessage, Step, Typed,
        gateVars, Resting
    <3> QED
      BY <3>1, PastOthers, UnwatchedAt
  <2>3. CASE BeginEvent(a)
    <3>1. /\ hpc'[a] = "policy" /\ gpc'[a] \in {"skip", "globalForLeague"}
          /\ \A d \in Claims \ {a} :
               /\ gpc'[d] = gpc[d] /\ ev'[d] = ev[d] /\ hpc'[d] = hpc[d]
               /\ pos'[d] = pos[d] /\ idx'[d] = idx[d]
      BY <2>3, <1>t DEF BeginEvent, Refuse, Admit, Goto, Step, Typed, TypeOK
    <3>2. KillUnwatched(a)' = {} /\ ShadowUnwatched(a)' = {}
      BY <3>1, UnwatchedAt DEF KillUnwatched, KillSteps, Granted, StillUnread, ShadowSteps
    <3> QED
      BY <3>1, <3>2, PastOthers
  <2> QED
    BY <2>1, <2>2, <2>3
<1> QED
  BY <1>u, <1>1 DEF KillMoves, ShadowMoves

LEMMA PolicyGrace ==
  ASSUME PipelineTypeOK, NEW a \in Claims, NEW s, Policy(a) \/ PolicyFault(a)
  PROVE  (s \in kill' => KillMoves(s)) /\ (s \in shadow' => ShadowMoves(s))
<1>t. Typed /\ TypeOK
  BY TypeParts DEF Typed
<1>h. /\ hpc[a] = "policy"
      /\ UNCHANGED <<hpc, pos, idx, shadow, blind, sinceKill, sinceShadow>>
  BY DEF Policy, PolicyFault, handlerVars, locals, shadowVars, outcomes
<1>g. GateStep(a) \/ GateFault(a)
  BY DEF Policy, PolicyFault
<1>o. ev' = ev /\ \A d \in Claims \ {a} : gpc'[d] = gpc[d]
  BY <1>t, <1>g, GateMoves
<1>k. kill' = kill
  BY <1>g DEF GateStep, GateFault, ReadKillKey, SetDedupKey, ReadTypeCounter, ReadHourCounter,
    ReadTotalCounter, IncrementCounter, ExpireCounter, CheckBotRatio, ReadKillKeyFails,
    SetDedupKeyFails, ReadCounterFails, IncrementCounterFails, ExpireCounterFails,
    CheckBotRatioFails, store
<1>s. s \in shadow' => ShadowMoves(s)
  <2>1. PastShadow(s)' = PastShadow(s)
    BY <1>h, <1>o DEF PastShadow, ShadowUnwatched, Current, Message
  <2> QED
    BY <2>1, <1>h DEF ShadowMoves
<1>p. /\ PastKill(s)' \subseteq PastKill(s) \cup {a}
      /\ s \in KillUnwatched(a) \/ s \notin KillUnwatched(a)' => PastKill(s)' \subseteq PastKill(s)
  BY <1>h, <1>o, PastOthers
<1>1. CASE GateFault(a)
  <2>1. faults' = faults + 1
    BY <1>1 DEF GateFault, ReadKillKeyFails, SetDedupKeyFails, ReadCounterFails,
      IncrementCounterFails, ExpireCounterFails, CheckBotRatioFails, Fault
  <2> QED
    BY <2>1, <1>p, <1>h, <1>k, <1>s DEF KillMoves
<1>2. CASE GateStep(a)
  <2>1. faults' = faults
    BY <1>2 DEF GateStep, ReadKillKey, SetDedupKey, ReadTypeCounter, ReadHourCounter,
      ReadTotalCounter, IncrementCounter, ExpireCounter, CheckBotRatio
  <2>2. s \in kill /\ s \in KillUnwatched(a)' => s \in KillUnwatched(a)
    <3>1. CASE ReadKillKey(a)
      <4>1. gpc[a] \in KillSteps
            /\ gpc'[a] = IF ScopeRead(gpc[a], ev[a]) \in kill THEN "skip" ELSE NextKillRead(gpc[a])
        BY <3>1, <1>t DEF ReadKillKey, Goto, TypeOK
      <4>2. CASE ScopeRead(gpc[a], ev[a]) \in kill
        BY <4>1, <4>2, <1>h DEF KillUnwatched, KillSteps, Granted, ShadowSteps
      <4>3. CASE ScopeRead(gpc[a], ev[a]) \notin kill
        BY <4>1, <4>3, <1>h, <1>o DEF KillUnwatched, KillSteps, Granted, ScopeRead, NextKillRead,
          StillUnread, Covering
      <4> QED
        BY <4>2, <4>3
    <3>2. CASE ~ReadKillKey(a)
      <4>1. gpc[a] \in {"dedup"} \cup Granted /\ gpc'[a] \notin KillSteps
        BY <1>2, <3>2, <1>t DEF GateStep, SetDedupKey, ReadTypeCounter, ReadHourCounter,
          ReadTotalCounter, IncrementCounter, ExpireCounter, CheckBotRatio, Goto, TypeOK,
          Granted, KillSteps, Incrementing, Expiring, AfterCounter, ExpireStep
      <4> QED
        BY <4>1, <1>h, <1>o DEF KillUnwatched, Granted, KillSteps, ShadowSteps
    <3> QED
      BY <3>1, <3>2
  <2> QED
    BY <2>1, <2>2, <1>p, <1>h, <1>k, <1>s DEF KillMoves
<1> QED
  BY <1>g, <1>1, <1>2

LEMMA EventGrace ==
  ASSUME PipelineTypeOK, NEW a \in Claims, NEW s \in Scopes,
         \/ Verdict(a) \/ Prepare(a) \/ ReadShadowKey(a) \/ ReadShadowKeyFails(a)
         \/ Publish(a) \/ PublishLost(a) \/ PublishFails(a) \/ PushChatMessage(a)
         \/ IncrTotalMessages(a) \/ IncrTotalMessagesFails(a) \/ ExpireTotal(a)
         \/ SaveBotMessage(a)
  PROVE  (s \in kill' => KillMoves(s)) /\ (s \in shadow' => ShadowMoves(s))
<1>t. Typed /\ TypeOK /\ ClaimOK(a)
  BY TypeParts DEF Typed
<1>g. \A d \in Claims \ {a} : gpc'[d] = gpc[d] /\ ev'[d] = ev[d]
  BY <1>t DEF Verdict, Return, Goto, Prepare, ReadShadowKey, ReadShadowKeyFails, Publish,
    PublishLost, PublishFails, PushChatMessage, IncrTotalMessages, IncrTotalMessagesFails,
    ExpireTotal, SaveBotMessage, gateVars, claimVars, TypeOK
<1>d. UNCHANGED <<kill, faults, shadow>>
  BY DEF Verdict, Return, Prepare, ReadShadowKey, ReadShadowKeyFails, Publish, PublishLost,
    PublishFails, PushChatMessage, IncrTotalMessages, IncrTotalMessagesFails, ExpireTotal,
    SaveBotMessage, gateVars, store, shadowVars
<1> DEFINE Others == \A d \in Claims \ {a} :
                       hpc'[d] = hpc[d] /\ pos'[d] = pos[d] /\ idx'[d] = idx[d]
<1>o. ASSUME NEW r, Step(a, r), UNCHANGED <<pos, idx>>
      PROVE  hpc'[a] = r /\ Others
  BY <1>o, <1>t DEF Step, Typed
<1>e. ASSUME EndEvent(a)
      PROVE  hpc'[a] \in Resting /\ Others
  BY <1>e, <1>t DEF EndEvent, Step, Typed, Resting
<1>k. ASSUME Others, UNCHANGED <<sinceKill, sinceShadow, blind>>,
             s \in kill /\ s \in KillUnwatched(a)' => s \in KillUnwatched(a),
             s \in shadow /\ s \in ShadowUnwatched(a)' => s \in ShadowUnwatched(a)
      PROVE  (s \in kill' => KillMoves(s)) /\ (s \in shadow' => ShadowMoves(s))
  <2>1. /\ s \in kill => PastKill(s)' \subseteq PastKill(s)
        /\ s \in shadow => PastShadow(s)' \subseteq PastShadow(s)
    BY <1>k, <1>g, PastOthers
  <2> QED
    BY <2>1, <1>k, <1>d DEF KillMoves, ShadowMoves
<1>r. ASSUME Others, hpc'[a] \in Resting, UNCHANGED <<sinceKill, sinceShadow, blind>>
      PROVE  (s \in kill' => KillMoves(s)) /\ (s \in shadow' => ShadowMoves(s))
  BY <1>r, <1>k, UnwatchedAt
<1>1. CASE Verdict(a)
  <2>1. CASE gpc[a] = "pass"
    <3>1. /\ hpc[a] = "policy" /\ hpc'[a] = "prepare" /\ Others
          /\ UNCHANGED <<pos, idx, sinceKill, sinceShadow, blind>>
      BY <1>1, <2>1, <1>o DEF Verdict, shadowVars
    <3>2. KillUnwatched(a) = Covering(Current(a))
      BY <2>1, <3>1, <1>t DEF KillUnwatched, KillSteps, Granted, ClaimOK
    <3>3. KillUnwatched(a)' = Covering(Current(a)) /\ ShadowUnwatched(a)' = {}
      BY <3>1, UnwatchedAt
    <3> QED
      BY <3>1, <3>2, <3>3, <1>k
  <2>2. CASE gpc[a] # "pass"
    BY <1>1, <2>2, <1>e, <1>r DEF Verdict, shadowVars
  <2> QED
    BY <2>1, <2>2
<1>2. CASE Prepare(a)
  <2>h. hpc[a] = "prepare" /\ UNCHANGED <<sinceKill, sinceShadow, blind>>
    BY <1>2 DEF Prepare, shadowVars
  <2>1. CASE EndEvent(a)
    BY <2>1, <2>h, <1>e, <1>r
  <2>2. CASE Step(a, "shadowGlobal") /\ UNCHANGED <<pos, idx, quiet, handled>>
    <3>1. hpc'[a] = "shadowGlobal" /\ Others
      BY <2>2, <1>o
    <3>2. KillUnwatched(a)' = KillUnwatched(a) /\ ShadowUnwatched(a)' = {}
      BY <2>h, <2>2, <3>1, UnwatchedAt DEF ShadowSteps
    <3> QED
      BY <2>h, <3>1, <3>2, <1>k
  <2> QED
    BY <1>2, <2>1, <2>2 DEF Prepare
<1>3. CASE ReadShadowKey(a)
  <2>h. /\ hpc[a] \in ShadowSteps
        /\ UNCHANGED <<pos, idx, sinceKill, sinceShadow, blind>>
    BY <1>3 DEF ReadShadowKey, shadowVars
  <2>1. CASE ShadowScope(hpc[a], Current(a)) \in shadow
    <3>1. hpc'[a] = "push" /\ Others
      BY <1>3, <2>1, <2>h, <1>o DEF ReadShadowKey
    <3> QED
      BY <3>1, <2>h, <1>r DEF Resting
  <2>2. CASE ShadowScope(hpc[a], Current(a)) \notin shadow
    <3>1. hpc'[a] = NextShadowRead(hpc[a]) /\ Others
      BY <1>3, <2>2, <2>h, <1>o DEF ReadShadowKey
    <3>2. KillUnwatched(a)' = KillUnwatched(a)
      BY <2>h, <3>1, UnwatchedAt DEF NextShadowRead, ShadowSteps
    <3>3. s \in shadow /\ s \in ShadowUnwatched(a)' => s \in ShadowUnwatched(a)
      BY <2>h, <2>2, <3>1 DEF ShadowUnwatched, ShadowScope, NextShadowRead, ShadowSteps,
        Covering, Current, Message
    <3> QED
      BY <2>h, <3>1, <3>2, <3>3, <1>k
  <2> QED
    BY <2>1, <2>2
<1>4. CASE ReadShadowKeyFails(a)
  <2>1. /\ hpc[a] \in ShadowSteps /\ hpc'[a] = "publish" /\ Others
        /\ UNCHANGED <<pos, idx, sinceKill, sinceShadow>> /\ blind' = blind + 1
    BY <1>4, <1>o DEF ReadShadowKeyFails, outcomes
  <2>2. KillUnwatched(a)' = KillUnwatched(a)
    BY <2>1, UnwatchedAt
  <2>3. /\ PastKill(s)' \subseteq PastKill(s)
        /\ PastShadow(s)' \subseteq PastShadow(s) \cup {a}
    BY <2>1, <2>2, <1>g, PastOthers
  <2> QED
    BY <2>1, <2>3, <1>d DEF KillMoves, ShadowMoves
<1>5. CASE Publish(a) \/ PublishLost(a) \/ PublishFails(a)
  <2>1. /\ hpc[a] = "publish" /\ blind' = blind
        /\ HandOut(Current(a)) \/ UNCHANGED <<sinceKill, sinceShadow>>
    BY <1>5 DEF Publish, PublishLost, PublishFails, shadowVars
  <2>2. hpc'[a] \in Resting /\ Others
    <3>1. CASE PublishFails(a)
      BY <3>1, <1>e DEF PublishFails
    <3>2. CASE Publish(a) \/ PublishLost(a)
      <4>1. Step(a, "push") /\ UNCHANGED <<pos, idx>>
        BY <3>2 DEF Publish, PublishLost
      <4> QED
        BY <4>1, <1>o DEF Resting
    <3> QED
      BY <1>5, <3>1, <3>2
  <2>3. CASE UNCHANGED <<sinceKill, sinceShadow>>
    BY <2>1, <2>2, <2>3, <1>r
  <2>4. CASE HandOut(Current(a))
    <3>1. /\ PastKill(s)' \subseteq PastKill(s) \ {a}
          /\ PastShadow(s)' \subseteq PastShadow(s) \ {a}
      BY <2>2, <1>g, PastOthers, UnwatchedAt
    <3>2. /\ sinceKill'[s] = IF s \in kill \cap Covering(Current(a))
                             THEN sinceKill[s] + 1 ELSE sinceKill[s]
          /\ sinceShadow'[s] = IF s \in shadow \cap Covering(Current(a))
                               THEN sinceShadow[s] + 1 ELSE sinceShadow[s]
      BY <2>4 DEF HandOut
    <3>3. s \in Covering(Current(a)) => a \in PastKill(s) /\ a \in PastShadow(s)
      BY <2>1, UnwatchedAt DEF PastKill, PastShadow, ShadowUnwatched
    <3>4. s \in kill => KillMoves(s)
      BY <3>1, <3>2, <3>3, <1>d DEF KillMoves
    <3>5. s \in shadow => ShadowMoves(s)
      BY <3>1, <3>2, <3>3, <2>1 DEF ShadowMoves
    <3> QED
      BY <3>4, <3>5, <1>d
  <2> QED
    BY <2>1, <2>3, <2>4
<1>6. CASE PushChatMessage(a) \/ IncrTotalMessages(a) \/ IncrTotalMessagesFails(a)
           \/ ExpireTotal(a) \/ SaveBotMessage(a)
  <2>1. UNCHANGED <<sinceKill, sinceShadow, blind>>
    BY <1>6 DEF PushChatMessage, IncrTotalMessages, IncrTotalMessagesFails,
      ExpireTotal, SaveBotMessage, outcomes, shadowVars
  <2>2. \/ EndEvent(a)
        \/ /\ \E r \in {"save", "count", "expire"} : Step(a, r)
           /\ UNCHANGED <<pos, idx>>
    BY <1>6 DEF PushChatMessage, IncrTotalMessages, IncrTotalMessagesFails,
      ExpireTotal, SaveBotMessage, AfterPush, FinishCount, FinishSave
  <2>3. hpc'[a] \in Resting /\ Others
    BY <2>2, <1>e, <1>o DEF Resting
  <2> QED
    BY <2>1, <2>3, <1>r
<1> QED
  BY <1>1, <1>2, <1>3, <1>4, <1>5, <1>6

LEMMA AmbientGrace ==
  ASSUME PipelineTypeOK, NEW s \in Scopes,
         \/ \E t \in AdminScopes, on \in BOOLEAN : SetKill(t, on) \/ SetShadowBan(t, on)
         \/ \E m \in Matches : RoomStep(m)
         \/ KeysAge
         \/ Restart
         \/ UNCHANGED vars
  PROVE  (s \in kill' => KillMoves(s)) /\ (s \in shadow' => ShadowMoves(s))
<1>r. \A m \in Matches : RoomStep(m) => UNCHANGED Away
  BY RoomStepIs
<1>t. /\ sinceKill \in [Scopes -> Nat] /\ sinceShadow \in [Scopes -> Nat]
      /\ faults \in Nat
  BY TypeParts, BoundsAssumption DEF Typed, TypeOK
<1>1. CASE Restart
  <2>1. ASSUME NEW c \in Claims PROVE KillUnwatched(c)' = {} /\ ShadowUnwatched(c)' = {}
    <3>1. hpc'[c] = "poll"
      BY <1>1 DEF Restart
    <3> QED
      BY <3>1, UnwatchedAt DEF Resting
  <2>2. PastKill(s)' = {} /\ PastShadow(s)' = {}
    BY <2>1 DEF PastKill, PastShadow
  <2> QED
    BY <1>1, <2>2 DEF Restart, Crash, store, shadowVars, KillMoves, ShadowMoves
<1>2. CASE ~Restart
  <2>1. UNCHANGED <<gpc, ev, hpc, pos, idx, faults, blind>>
    BY <1>2, <1>r DEF SetKill, SetKillSwitch, SetShadowBan, Away, KeysAge, DedupKeyExpires,
      CounterExpires, NextHour, claimVars, gateVars, handlerVars, vars, locals, outcomes, shadowVars
  <2>2. PastKill(s)' = PastKill(s) /\ PastShadow(s)' = PastShadow(s)
    BY <2>1 DEF PastKill, PastShadow, KillUnwatched, ShadowUnwatched, Current, Message
  <2>k. ASSUME UNCHANGED <<kill, sinceKill>> PROVE s \in kill' => KillMoves(s)
    BY <2>k, <2>1, <2>2 DEF KillMoves
  <2>s. ASSUME UNCHANGED <<shadow, sinceShadow>> PROVE s \in shadow' => ShadowMoves(s)
    BY <2>s, <2>1, <2>2 DEF ShadowMoves
  <2>3. ASSUME NEW t \in AdminScopes, NEW on \in BOOLEAN, SetKill(t, on)
        PROVE  (s \in kill' => KillMoves(s)) /\ (s \in shadow' => ShadowMoves(s))
    <3>1. UNCHANGED <<shadow, sinceShadow>>
      BY <2>3 DEF SetKill, shadowVars
    <3>2. \/ sinceKill'[s] = 0
          \/ s \notin kill'
          \/ s \in kill /\ sinceKill'[s] = sinceKill[s]
      BY <2>3, <1>t DEF SetKill, SetKillSwitch
    <3> QED
      BY <3>1, <3>2, <2>1, <2>2, <2>s DEF KillMoves
  <2>4. ASSUME NEW t \in AdminScopes, NEW on \in BOOLEAN, SetShadowBan(t, on)
        PROVE  (s \in kill' => KillMoves(s)) /\ (s \in shadow' => ShadowMoves(s))
    <3>1. UNCHANGED <<kill, sinceKill>>
      BY <2>4 DEF SetShadowBan, gateVars
    <3>2. \/ sinceShadow'[s] = 0
          \/ s \notin shadow'
          \/ s \in shadow /\ sinceShadow'[s] = sinceShadow[s]
      BY <2>4, <1>t DEF SetShadowBan
    <3> QED
      BY <3>1, <3>2, <2>1, <2>2, <2>k DEF ShadowMoves
  <2>5. CASE (\E m \in Matches : RoomStep(m)) \/ KeysAge \/ UNCHANGED vars
    <3>1. UNCHANGED <<kill, sinceKill, shadow, sinceShadow>>
      BY <2>5, <1>r DEF Away, KeysAge, DedupKeyExpires, CounterExpires, NextHour, gateVars,
        handlerVars, vars, outcomes, shadowVars, store
    <3> QED
      BY <3>1, <2>k, <2>s
  <2> QED
    BY <1>2, <2>3, <2>4, <2>5
<1> QED
  BY <1>1, <1>2

LEMMA SwitchesMove ==
  ASSUME PipelineTypeOK, [Next]_vars, NEW s \in Scopes
  PROVE  (s \in kill' => KillMoves(s)) /\ (s \in shadow' => ShadowMoves(s))
BY ParseGrace, PolicyGrace, EventGrace, AmbientGrace DEF Next, ClaimStep, ClaimFault

(* n messages out and the claims in P still to come, against b failed      *)
(* look-ups: a step that adds to either takes from P or adds to b.         *)
LEMMA GraceSum ==
  ASSUME NEW P \in SUBSET Claims, NEW Q \in SUBSET Claims,
         NEW n \in Nat, NEW m \in Nat, NEW b \in Nat, NEW d \in Nat,
         n + Cardinality(P) <= Cardinality(Claims) + b,
         \/ Q \subseteq P /\ m = n /\ d \in {b, b + 1}
         \/ \E a \in Claims : Q \subseteq P \cup {a} /\ m = n /\ d = b + 1
         \/ \E a \in P : Q \subseteq P \ {a} /\ m = n + 1 /\ d = b
  PROVE  m + Cardinality(Q) <= Cardinality(Claims) + d
<1>f. /\ IsFiniteSet(P) /\ IsFiniteSet(Q) /\ Cardinality(Claims) \in Nat
      /\ Cardinality(P) \in Nat /\ Cardinality(Q) \in Nat
  BY ClaimsAssumption, FS_Subset, FS_CardinalityType
<1>1. CASE Q \subseteq P /\ m = n /\ d \in {b, b + 1}
  <2>1. Cardinality(Q) <= Cardinality(P)
    BY <1>1, <1>f, FS_Subset
  <2> QED
    BY <1>1, <2>1, <1>f
<1>2. ASSUME NEW a \in Claims, Q \subseteq P \cup {a}, m = n, d = b + 1
      PROVE  m + Cardinality(Q) <= Cardinality(Claims) + d
  <2>1. IsFiniteSet(P \cup {a}) /\ Cardinality(P \cup {a}) <= Cardinality(P) + 1
    <3>1. CASE a \in P
      <4>1. P \cup {a} = P
        BY <3>1
      <4> QED
        BY <4>1, <1>f
    <3>2. CASE a \notin P
      <4>1. /\ IsFiniteSet(P \cup {a})
            /\ Cardinality(P \cup {a}) = IF a \in P THEN Cardinality(P) ELSE Cardinality(P) + 1
        BY <1>f, FS_AddElement, Zenon
      <4> QED
        BY <4>1, <3>2, <1>f
    <3> QED
      BY <3>1, <3>2
  <2>2. Cardinality(Q) <= Cardinality(P \cup {a}) /\ Cardinality(P \cup {a}) \in Nat
    BY <1>2, <2>1, FS_Subset, FS_CardinalityType
  <2> QED
    BY <1>2, <2>1, <2>2, <1>f
<1>3. ASSUME NEW a \in P, Q \subseteq P \ {a}, m = n + 1, d = b
      PROVE  m + Cardinality(Q) <= Cardinality(Claims) + d
  <2>1. IsFiniteSet(P \ {a}) /\ Cardinality(P \ {a}) = Cardinality(P) - 1
    BY <1>f, FS_RemoveElement
  <2>2. Cardinality(Q) <= Cardinality(P \ {a})
    BY <1>3, <2>1, FS_Subset
  <2> QED
    BY <1>3, <2>1, <2>2, <1>f
<1> QED
  BY <1>1, <1>2, <1>3

(* A subset of the claims never outnumbers them. *)
LEMMA GraceStart ==
  ASSUME NEW Q \in SUBSET Claims, NEW d \in Nat
  PROVE  0 + Cardinality(Q) <= Cardinality(Claims) + d /\ Cardinality(Q) \in Nat
<1>1. /\ Cardinality(Claims) \in Nat /\ Cardinality(Q) \in Nat
      /\ Cardinality(Q) <= Cardinality(Claims)
  BY ClaimsAssumption, FS_Subset, FS_CardinalityType
<1> QED
  BY <1>1

(* Messages since a switch went on, and claims past its look-up. *)
KillGrace   == \A s \in kill : sinceKill[s] + Cardinality(PastKill(s)) <= Cardinality(Claims) + faults
ShadowGrace == \A s \in shadow : sinceShadow[s] + Cardinality(PastShadow(s)) <= Cardinality(Claims) + blind

LEMMA GraceTypes ==
  ASSUME PipelineTypeOK
  PROVE  /\ kill \subseteq Scopes /\ shadow \subseteq Scopes
         /\ faults \in Nat /\ blind \in Nat
         /\ \A s \in Scopes : sinceKill[s] \in Nat /\ sinceShadow[s] \in Nat
         /\ \A s \in Scopes : PastKill(s) \subseteq Claims /\ PastShadow(s) \subseteq Claims
BY TypeParts, BoundsAssumption DEF Typed, TypeOK, PastKill, PastShadow

LEMMA KillGraceStep ==
  PipelineTypeOK /\ PipelineTypeOK' /\ KillGrace /\ [Next]_vars => KillGrace'
<1> SUFFICES ASSUME PipelineTypeOK, PipelineTypeOK', KillGrace, [Next]_vars, NEW s \in kill'
             PROVE  sinceKill'[s] + Cardinality(PastKill(s)') <= Cardinality(Claims) + faults'
  BY DEF KillGrace
<1>t. /\ s \in Scopes /\ sinceKill[s] \in Nat /\ sinceKill'[s] \in Nat
      /\ faults \in Nat /\ faults' \in Nat
      /\ PastKill(s) \in SUBSET Claims /\ PastKill(s)' \in SUBSET Claims
  <2>1. kill' \subseteq Scopes /\ faults' \in Nat /\ \A t \in Scopes : sinceKill'[t] \in Nat
    <3>1. TypeOK' /\ {sinceKill', sinceShadow'} \subseteq [Scopes -> Nat]
      BY DEF PipelineTypeOK
    <3>2. kill' \subseteq Scopes /\ faults' \in Nat
      BY <3>1, BoundsAssumption DEF TypeOK
    <3>3. \A t \in Scopes : sinceKill'[t] \in Nat
      BY <3>1
    <3> QED
      BY <3>2, <3>3
  <2> QED
    BY <2>1, GraceTypes DEF PastKill
<1>1. KillMoves(s)
  BY <1>t, SwitchesMove
<1>2. CASE sinceKill'[s] = 0
  BY <1>2, <1>t, GraceStart
<1>3. CASE sinceKill'[s] # 0
  <2>1. s \in kill
    BY <1>1, <1>3 DEF KillMoves
  <2>2. sinceKill[s] + Cardinality(PastKill(s)) <= Cardinality(Claims) + faults
    BY <2>1 DEF KillGrace
  <2>3. \/ PastKill(s)' \subseteq PastKill(s) /\ sinceKill'[s] = sinceKill[s] /\ faults' \in {faults, faults + 1}
        \/ \E a \in Claims : /\ PastKill(s)' \subseteq PastKill(s) \cup {a}
                             /\ sinceKill'[s] = sinceKill[s] /\ faults' = faults + 1
        \/ \E a \in PastKill(s) : /\ PastKill(s)' \subseteq PastKill(s) \ {a}
                                  /\ sinceKill'[s] = sinceKill[s] + 1 /\ faults' = faults
    BY <1>1, <1>3 DEF KillMoves
  <2> QED
    BY <1>t, <2>2, <2>3, GraceSum
<1> QED
  BY <1>2, <1>3

LEMMA ShadowGraceStep ==
  PipelineTypeOK /\ PipelineTypeOK' /\ ShadowGrace /\ [Next]_vars => ShadowGrace'
<1> SUFFICES ASSUME PipelineTypeOK, PipelineTypeOK', ShadowGrace, [Next]_vars, NEW s \in shadow'
             PROVE  sinceShadow'[s] + Cardinality(PastShadow(s)') <= Cardinality(Claims) + blind'
  BY DEF ShadowGrace
<1>t. /\ s \in Scopes /\ sinceShadow[s] \in Nat /\ sinceShadow'[s] \in Nat
      /\ blind \in Nat /\ blind' \in Nat
      /\ PastShadow(s) \in SUBSET Claims /\ PastShadow(s)' \in SUBSET Claims
  <2>1. shadow' \subseteq Scopes /\ blind' \in Nat /\ \A t \in Scopes : sinceShadow'[t] \in Nat
    BY DEF PipelineTypeOK
  <2> QED
    BY <2>1, GraceTypes DEF PastShadow
<1>1. ShadowMoves(s)
  BY <1>t, SwitchesMove
<1>2. CASE sinceShadow'[s] = 0
  BY <1>2, <1>t, GraceStart
<1>3. CASE sinceShadow'[s] # 0
  <2>1. s \in shadow
    BY <1>1, <1>3 DEF ShadowMoves
  <2>2. sinceShadow[s] + Cardinality(PastShadow(s)) <= Cardinality(Claims) + blind
    BY <2>1 DEF ShadowGrace
  <2>3. \/ PastShadow(s)' \subseteq PastShadow(s) /\ sinceShadow'[s] = sinceShadow[s] /\ blind' \in {blind, blind + 1}
        \/ \E a \in Claims : /\ PastShadow(s)' \subseteq PastShadow(s) \cup {a}
                             /\ sinceShadow'[s] = sinceShadow[s] /\ blind' = blind + 1
        \/ \E a \in PastShadow(s) : /\ PastShadow(s)' \subseteq PastShadow(s) \ {a}
                                    /\ sinceShadow'[s] = sinceShadow[s] + 1 /\ blind' = blind
    BY <1>1, <1>3 DEF ShadowMoves
  <2> QED
    BY <1>t, <2>2, <2>3, GraceSum
<1> QED
  BY <1>2, <1>3

(* Of the messages a kill switch covers, at most one per claim, and one    *)
(* per failed look-up, still goes out once it is on.                       *)
THEOREM KillSwitchBites == Spec => []KillSwitchGrace
<1>1. Init => KillGrace
  BY DEF Init, GateInit, KillGrace
<1>2. PipelineTypeOK /\ KillGrace => KillSwitchGrace
  <2> SUFFICES ASSUME PipelineTypeOK, KillGrace, NEW s \in kill
               PROVE  sinceKill[s] <= Cardinality(Claims) + faults
    BY DEF KillSwitchGrace
  <2>1. s \in Scopes /\ sinceKill[s] \in Nat /\ faults \in Nat /\ PastKill(s) \in SUBSET Claims
    BY GraceTypes
  <2>2. Cardinality(PastKill(s)) \in Nat /\ Cardinality(Claims) \in Nat
    BY <2>1, GraceStart, ClaimsAssumption, FS_CardinalityType
  <2> QED
    BY <2>1, <2>2 DEF KillGrace
<1> QED
  BY <1>1, <1>2, KillGraceStep, PipelineTyping, PTL DEF Spec

(* Likewise for the shadow ban, read after the delay. *)
THEOREM ShadowBanBites == Spec => []ShadowBanGrace
<1>1. Init => ShadowGrace
  BY DEF Init, GateInit, ShadowGrace
<1>2. PipelineTypeOK /\ ShadowGrace => ShadowBanGrace
  <2> SUFFICES ASSUME PipelineTypeOK, ShadowGrace, NEW s \in shadow
               PROVE  sinceShadow[s] <= Cardinality(Claims) + blind
    BY DEF ShadowBanGrace
  <2>1. s \in Scopes /\ sinceShadow[s] \in Nat /\ blind \in Nat /\ PastShadow(s) \in SUBSET Claims
    BY GraceTypes
  <2>2. Cardinality(PastShadow(s)) \in Nat /\ Cardinality(Claims) \in Nat
    BY <2>1, GraceStart, ClaimsAssumption, FS_CardinalityType
  <2> QED
    BY <2>1, <2>2 DEF ShadowGrace
<1> QED
  BY <1>1, <1>2, ShadowGraceStep, PipelineTyping, PTL DEF Spec

---------------------------------------------------------------------------
(* The warm-up burst. *)

Places(s, who) == {i \in DOMAIN s : s[i] = who}

LEMMA CountType ==
  ASSUME NEW s \in Seq({"bot", "user"}), NEW who
  PROVE  IsFiniteSet(Places(s, who)) /\ Count(s, who) = Cardinality(Places(s, who)) /\ Count(s, who) \in Nat
<1>1. IsFiniteSet(1 .. Len(s)) /\ DOMAIN s = 1 .. Len(s)
  BY FS_Interval
<1>2. Places(s, who) \subseteq 1 .. Len(s)
  BY <1>1 DEF Places
<1>3. IsFiniteSet(Places(s, who)) /\ Cardinality(Places(s, who)) \in Nat
  BY <1>1, <1>2, FS_Subset, FS_CardinalityType
<1> QED
  BY <1>3 DEF Count, Places

(* A message put at the head of a chat window, whatever falls off its end. *)
LEMMA CountPush ==
  ASSUME NEW s \in Seq({"bot", "user"}), NEW who \in {"bot", "user"}
  PROVE  /\ Count(Trim(<<who>> \o s), "bot") <= Count(s, "bot") + 1
         /\ (\A i \in DOMAIN s : s[i] = "bot") /\ who = "bot" =>
              \A i \in DOMAIN Trim(<<who>> \o s) : Trim(<<who>> \o s)[i] = "bot"
<1> DEFINE t == <<who>> \o s
           r == Trim(t)
           up == [i \in Places(s, "bot") |-> i + 1]
           img == {up[i] : i \in Places(s, "bot")}
<1>1. /\ Len(t) = Len(s) + 1 /\ t[1] = who /\ t \in Seq({"bot", "user"})
      /\ \A i \in 1 .. Len(s) : t[i + 1] = s[i]
  OBVIOUS
<1>2. /\ r \in Seq({"bot", "user"}) /\ Len(r) <= Len(t)
      /\ \A i \in 1 .. Len(r) : r[i] = t[i]
  <2>1. CASE Len(t) > ChatWindow
    <3>1. ChatWindow \in Nat \ {0} /\ ChatWindow \in 1 .. Len(t)
      BY <2>1, <1>1, LimitsAssumption
    <3>2. r = SubSeq(t, 1, ChatWindow)
      BY <2>1 DEF Trim
    <3>3. r \in Seq({"bot", "user"})
      BY TrimType
    <3>4. Len(r) = ChatWindow /\ \A i \in 1 .. ChatWindow : r[i] = t[i]
      <4> HIDE DEF t, r
      <4> QED
        BY <3>1, <3>2, <1>1
    <3> QED
      BY <3>1, <3>3, <3>4, <1>1
  <2>2. CASE ~(Len(t) > ChatWindow)
    BY <2>2, <1>1 DEF Trim
  <2> QED
    BY <2>1, <2>2
<1>3. \A i \in 1 .. Len(r) : i = 1 \/ (i - 1 \in 1 .. Len(s) /\ r[i] = s[i - 1])
  <2> SUFFICES ASSUME NEW i \in 1 .. Len(r), i # 1
               PROVE  i - 1 \in 1 .. Len(s) /\ r[i] = s[i - 1]
    OBVIOUS
  <2>1. i - 1 \in 1 .. Len(s)
    BY <1>1, <1>2
  <2>2. t[(i - 1) + 1] = s[i - 1] /\ (i - 1) + 1 = i
    BY <2>1, <1>1
  <2> QED
    BY <2>1, <2>2, <1>2
<1>4. Count(r, "bot") <= Count(s, "bot") + 1
  <2>1. Places(r, "bot") \subseteq img \cup {1}
    <3> SUFFICES ASSUME NEW i \in 1 .. Len(r), r[i] = "bot", i # 1 PROVE i \in img
      BY <1>2 DEF Places
    <3>1. i - 1 \in Places(s, "bot") /\ i = (i - 1) + 1
      BY <1>3 DEF Places
    <3> QED
      BY <3>1
  <2>2. IsFiniteSet(Places(s, "bot")) /\ Count(s, "bot") = Cardinality(Places(s, "bot"))
    BY CountType
  <2>3. IsFiniteSet(img) /\ Cardinality(img) <= Cardinality(Places(s, "bot"))
    <3>1. up \in Surjection(Places(s, "bot"), img)
      BY DEF Surjection
    <3> QED
      BY <3>1, <2>2, FS_Surjection
  <2>4. /\ IsFiniteSet(img \cup {1}) /\ Cardinality(img) \in Nat
        /\ Cardinality(img \cup {1}) = IF 1 \in img THEN Cardinality(img) ELSE Cardinality(img) + 1
    BY <2>3, FS_AddElement, FS_CardinalityType, Zenon
  <2>5. Cardinality(Places(r, "bot")) <= Cardinality(img \cup {1})
    BY <2>1, <2>4, FS_Subset
  <2>6. Count(r, "bot") = Cardinality(Places(r, "bot")) /\ Count(r, "bot") \in Nat /\ Count(s, "bot") \in Nat
    BY <1>2, CountType
  <2> QED
    BY <2>2, <2>3, <2>4, <2>5, <2>6
<1>5. ASSUME \A i \in DOMAIN s : s[i] = "bot", who = "bot"
      PROVE  \A i \in DOMAIN r : r[i] = "bot"
  <2> SUFFICES ASSUME NEW i \in 1 .. Len(r) PROVE r[i] = "bot"
    BY <1>2
  <2>1. CASE i = 1
    BY <2>1, <1>1, <1>2, <1>5
  <2>2. CASE i # 1
    BY <2>2, <1>3, <1>5
  <2> QED
    BY <2>1, <2>2
<1> QED
  BY <1>4, <1>5

(* The match a claim is cleared to post a message in. *)
ClearedFor(c) ==
  IF hpc[c] = "policy" THEN IF gpc[c] = "pass" THEN {ev[c].match} ELSE {}
  ELSE IF hpc[c] \in {"prepare", "publish", "push"} \cup ShadowSteps THEN {Current(c).match}
  ELSE {}

Cleared(m) == {c \in Claims : m \in ClearedFor(c)}

BotsOnly(m) == \A i \in DOMAIN chat[m] : chat[m][i] = "bot"

LEMMA ClearedOthers ==
  ASSUME NEW a \in Claims, NEW m,
         \A d \in Claims \ {a} :
           /\ gpc'[d] = gpc[d] /\ ev'[d] = ev[d] /\ hpc'[d] = hpc[d]
           /\ pos'[d] = pos[d] /\ idx'[d] = idx[d]
  PROVE  /\ Cleared(m)' \subseteq Cleared(m) \cup {a}
         /\ m \in ClearedFor(a) \/ m \notin ClearedFor(a)' => Cleared(m)' \subseteq Cleared(m)
         /\ m \notin ClearedFor(a)' => Cleared(m)' \subseteq Cleared(m) \ {a}
<1>1. \A d \in Claims \ {a} : ClearedFor(d)' = ClearedFor(d)
  BY DEF ClearedFor, Current, Message
<1>2. Cleared(m)' \ {a} = Cleared(m) \ {a}
  BY <1>1 DEF Cleared
<1>3. (a \in Cleared(m) <=> m \in ClearedFor(a)) /\ (a \in Cleared(m)' <=> m \in ClearedFor(a)')
  BY DEF Cleared
<1> QED
  BY <1>2, <1>3

(* What excuses a bot message too many: failed reads, prematch messages.   *)
Slack(m) == faults + prematch[m]

(* What a step does to a room where no user has spoken: the bot messages   *)
(* in its window, the claims cleared for it, the slack.                    *)
RoomMoves(m) ==
  \/ /\ chat'[m] = chat[m] /\ Cleared(m)' \subseteq Cleared(m)
     /\ Slack(m)' \in {Slack(m), Slack(m) + 1}
  \/ /\ chat'[m] = chat[m] /\ Slack(m)' = Slack(m)
     /\ BotsOnly(m) => Count(chat[m], "bot") <= 2
  \/ \E a \in Claims :
       /\ chat'[m] = chat[m] /\ Cleared(m)' \subseteq Cleared(m) \cup {a}
       /\ Slack(m)' = Slack(m) + 1
  \/ \E a \in Cleared(m) :
       /\ chat'[m] = Trim(<<"bot">> \o chat[m]) /\ Cleared(m)' \subseteq Cleared(m) \ {a}
       /\ Slack(m)' = Slack(m)
  \/ /\ chat'[m] = Trim(<<"bot">> \o chat[m]) /\ Cleared(m)' \subseteq Cleared(m)
     /\ Slack(m)' = Slack(m) + 1

LEMMA SlackMoves ==
  ASSUME PipelineTypeOK, NEW m \in Matches
  PROVE  /\ Slack(m) \in Nat
         /\ UNCHANGED <<faults, roomVars>> => Slack(m)' = Slack(m)
         /\ faults' = faults + 1 /\ UNCHANGED roomVars => Slack(m)' = Slack(m) + 1
<1>1. faults \in Nat /\ prematch[m] \in Nat
  BY TypeParts, BoundsAssumption, PipelineAssumption DEF Typed, RoomTyped, TypeOK
<1>2. UNCHANGED roomVars => prematch'[m] = prematch[m]
  BY DEF roomVars
<1> QED
  BY <1>1, <1>2 DEF Slack

LEMMA ClearedAt ==
  ASSUME NEW a \in Claims
  PROVE  /\ hpc'[a] \in {"poll", "loop", "count", "expire", "save"} => ClearedFor(a)' = {}
         /\ hpc'[a] = "policy" /\ gpc'[a] # "pass" => ClearedFor(a)' = {}
         /\ hpc[a] \in {"prepare", "publish", "push"} \cup ShadowSteps =>
              ClearedFor(a) = {Current(a).match}
         /\ hpc'[a] \in {"prepare", "publish", "push"} \cup ShadowSteps
              /\ pos'[a] = pos[a] /\ idx'[a] = idx[a] => ClearedFor(a)' = {Current(a).match}
BY DEF ClearedFor, ShadowSteps, Current, Message

LEMMA ParseRoom ==
  ASSUME PipelineTypeOK, NEW a \in Claims, NEW m \in Matches,
         SkipGarbage(a) \/ ParseMessage(a) \/ FinishMessage(a) \/ AutoCommit(a) \/ BeginEvent(a)
  PROVE  RoomMoves(m) /\ UNCHANGED roomVars
<1>t. Typed /\ TypeOK /\ ClaimOK(a)
  BY TypeParts DEF Typed
<1>u. UNCHANGED <<chat, faults, roomVars>>
  BY DEF SkipGarbage, ParseMessage, FinishMessage, AutoCommit, BeginEvent, Refuse, Admit,
    gateVars, store, outcomes
<1>1. Cleared(m)' \subseteq Cleared(m)
  <2>1. CASE AutoCommit(a)
    BY <2>1 DEF AutoCommit, gateVars, locals, Cleared, ClearedFor, Current, Message
  <2>2. CASE SkipGarbage(a) \/ ParseMessage(a) \/ FinishMessage(a)
    <3>1. /\ hpc'[a] \in {"poll", "loop"} /\ UNCHANGED <<gpc, ev>>
          /\ \A d \in Claims \ {a} : hpc'[d] = hpc[d] /\ pos'[d] = pos[d] /\ idx'[d] = idx[d]
      BY <2>2, <1>t DEF SkipGarbage, ParseMessage, FinishMessage, MarkMessage, Step, Typed,
        gateVars
    <3> QED
      BY <3>1, ClearedOthers, ClearedAt
  <2>3. CASE BeginEvent(a)
    <3>1. /\ hpc'[a] = "policy" /\ gpc'[a] \in {"skip", "globalForLeague"}
          /\ \A d \in Claims \ {a} :
               /\ gpc'[d] = gpc[d] /\ ev'[d] = ev[d] /\ hpc'[d] = hpc[d]
               /\ pos'[d] = pos[d] /\ idx'[d] = idx[d]
      BY <2>3, <1>t DEF BeginEvent, Refuse, Admit, Goto, Step, Typed, TypeOK
    <3> QED
      BY <3>1, ClearedOthers, ClearedAt
  <2> QED
    BY <2>1, <2>2, <2>3
<1> QED
  BY <1>u, <1>1, SlackMoves DEF RoomMoves

LEMMA PolicyRoom ==
  ASSUME PipelineTypeOK, NEW a \in Claims, NEW m \in Matches, Policy(a) \/ PolicyFault(a)
  PROVE  RoomMoves(m) /\ UNCHANGED roomVars
<1>t. Typed /\ TypeOK
  BY TypeParts DEF Typed
<1>h. hpc[a] = "policy" /\ UNCHANGED <<hpc, pos, idx, roomVars>>
  BY DEF Policy, PolicyFault, handlerVars, locals, outcomes
<1>g. GateStep(a) \/ GateFault(a)
  BY DEF Policy, PolicyFault
<1>o. ev' = ev /\ \A d \in Claims \ {a} : gpc'[d] = gpc[d]
  BY <1>t, <1>g, GateMoves
<1>k. chat' = chat
  BY <1>g DEF GateStep, GateFault, ReadKillKey, SetDedupKey, ReadTypeCounter, ReadHourCounter,
    ReadTotalCounter, IncrementCounter, ExpireCounter, CheckBotRatio, ReadKillKeyFails,
    SetDedupKeyFails, ReadCounterFails, IncrementCounterFails, ExpireCounterFails,
    CheckBotRatioFails, store
<1>1. CASE GateFault(a)
  <2>1. faults' = faults + 1
    BY <1>1 DEF GateFault, ReadKillKeyFails, SetDedupKeyFails, ReadCounterFails,
      IncrementCounterFails, ExpireCounterFails, CheckBotRatioFails, Fault
  <2>2. Cleared(m)' \subseteq Cleared(m) \cup {a}
    BY <1>h, <1>o, ClearedOthers
  <2> QED
    BY <2>1, <2>2, <1>h, <1>k, SlackMoves DEF RoomMoves
<1>2. CASE GateStep(a)
  <2>1. faults' = faults
    BY <1>2 DEF GateStep, ReadKillKey, SetDedupKey, ReadTypeCounter, ReadHourCounter,
      ReadTotalCounter, IncrementCounter, ExpireCounter, CheckBotRatio
  <2>2. CASE gpc'[a] # "pass" \/ m # ev[a].match
    <3>1. m \notin ClearedFor(a)'
      BY <2>2, <1>h, <1>o DEF ClearedFor
    <3>2. Cleared(m)' \subseteq Cleared(m)
      BY <3>1, <1>h, <1>o, ClearedOthers
    <3> QED
      BY <3>2, <2>1, <1>h, <1>k, SlackMoves DEF RoomMoves
  <2>3. CASE gpc'[a] = "pass" /\ m = ev[a].match
    <3>1. CheckBotRatio(a)
      BY <1>2, <2>3, <1>t DEF GateStep, ReadKillKey, SetDedupKey, ReadTypeCounter,
        ReadHourCounter, ReadTotalCounter, IncrementCounter, ExpireCounter, Goto, TypeOK,
        KillSteps, Incrementing, Expiring, NextKillRead, ExpireStep, AfterCounter
    <3>2. ~ExceedsProjectedBotRatio(chat[m])
      BY <3>1, <2>3, <1>t DEF CheckBotRatio, Goto, TypeOK
    <3>3. ASSUME BotsOnly(m) PROVE Count(chat[m], "bot") <= 2
      <4>1. Count(chat[m], "user") = 0
        <5>1. {i \in DOMAIN chat[m] : chat[m][i] = "user"} = {}
          BY <3>3 DEF BotsOnly
        <5> QED
          BY <5>1, FS_EmptySet DEF Count
      <4>2. ~(Count(chat[m], "bot") + 1 > 3)
        BY <3>2, <4>1 DEF ExceedsProjectedBotRatio
      <4>3. Count(chat[m], "bot") \in Nat
        BY <1>t, CountType DEF TypeOK
      <4> QED
        BY <4>2, <4>3
    <3> QED
      BY <3>3, <2>1, <1>h, <1>k, SlackMoves DEF RoomMoves
  <2> QED
    BY <2>2, <2>3
<1> QED
  BY <1>g, <1>1, <1>2

LEMMA EventRoom ==
  ASSUME PipelineTypeOK, NEW a \in Claims, NEW m \in Matches,
         \/ Verdict(a) \/ Prepare(a) \/ ReadShadowKey(a) \/ ReadShadowKeyFails(a)
         \/ Publish(a) \/ PublishLost(a) \/ PublishFails(a) \/ PushChatMessage(a)
         \/ IncrTotalMessages(a) \/ IncrTotalMessagesFails(a) \/ ExpireTotal(a)
         \/ SaveBotMessage(a)
  PROVE  RoomMoves(m) /\ UNCHANGED roomVars
<1>t. Typed /\ TypeOK /\ ClaimOK(a)
  BY TypeParts DEF Typed
<1>g. \A d \in Claims \ {a} : gpc'[d] = gpc[d] /\ ev'[d] = ev[d]
  BY <1>t DEF Verdict, Return, Goto, Prepare, ReadShadowKey, ReadShadowKeyFails, Publish,
    PublishLost, PublishFails, PushChatMessage, IncrTotalMessages, IncrTotalMessagesFails,
    ExpireTotal, SaveBotMessage, gateVars, claimVars, TypeOK
<1>d. UNCHANGED <<roomVars, faults>>
  BY DEF Verdict, Return, Prepare, ReadShadowKey, ReadShadowKeyFails, Publish, PublishLost,
    PublishFails, PushChatMessage, IncrTotalMessages, IncrTotalMessagesFails, ExpireTotal,
    SaveBotMessage, gateVars, outcomes
<1>p. \/ EndEvent(a)
      \/ \E s \in HandlerSteps \ {"poll", "loop", "policy"} :
           Step(a, s) /\ UNCHANGED <<pos, idx>>
  <2>n. \A s \in ShadowSteps : NextShadowRead(s) \in HandlerSteps \ {"poll", "loop", "policy"}
    BY DEF NextShadowRead, ShadowSteps, HandlerSteps
  <2> QED
    BY <2>n DEF Verdict, Prepare, ReadShadowKey, ReadShadowKeyFails, Publish, PublishLost,
      PublishFails, PushChatMessage, IncrTotalMessages, IncrTotalMessagesFails, ExpireTotal,
      SaveBotMessage, AfterPush, FinishCount, FinishSave, HandlerSteps, ShadowSteps, outcomes
<1>o. \A d \in Claims \ {a} : hpc'[d] = hpc[d] /\ pos'[d] = pos[d] /\ idx'[d] = idx[d]
  BY <1>p, <1>t DEF EndEvent, Step, Typed
<1>b. Cleared(m)' \subseteq Cleared(m) \cup {a}
  BY <1>g, <1>o, ClearedOthers
<1>1. CASE PushChatMessage(a)
  <2>1. hpc[a] = "push" /\ hpc'[a] \in {"count", "save"}
    BY <1>1, <1>t DEF PushChatMessage, AfterPush, Step, Typed
  <2>2. m \notin ClearedFor(a)'
    BY <2>1, ClearedAt
  <2>3. Cleared(m)' \subseteq Cleared(m) \ {a} /\ Cleared(m)' \subseteq Cleared(m)
    BY <2>2, <1>g, <1>o, ClearedOthers
  <2>4. CASE chat'[m] = chat[m]
    BY <2>3, <2>4, <1>d, SlackMoves DEF RoomMoves
  <2>5. CASE chat'[m] # chat[m]
    <3>1. PushChat(Current(a).match, "bot")
      BY <1>1, <2>5 DEF PushChatMessage
    <3>2. m = Current(a).match /\ chat'[m] = Trim(<<"bot">> \o chat[m])
      BY <3>1, <2>5, <1>t DEF PushChat, TypeOK
    <3>3. a \in Cleared(m)
      BY <3>2, <2>1, ClearedAt DEF Cleared
    <3> QED
      BY <3>2, <3>3, <2>3, <1>d, SlackMoves DEF RoomMoves
  <2> QED
    BY <2>4, <2>5
<1>2. CASE ~PushChatMessage(a)
  <2>1. chat' = chat
    BY <1>2 DEF Verdict, Return, Prepare, ReadShadowKey, ReadShadowKeyFails, Publish,
      PublishLost, PublishFails, IncrTotalMessages, IncrTotalMessagesFails, ExpireTotal,
      SaveBotMessage, gateVars, store
  <2>2. m \in ClearedFor(a) \/ m \notin ClearedFor(a)'
    <3>1. CASE hpc'[a] \in {"loop", "count", "expire", "save"}
      BY <3>1, ClearedAt
    <3>2. CASE hpc'[a] \notin {"loop", "count", "expire", "save"}
      <4>1. /\ hpc'[a] \in {"prepare", "publish", "push"} \cup ShadowSteps
            /\ pos'[a] = pos[a] /\ idx'[a] = idx[a]
        BY <1>p, <3>2, <1>t DEF EndEvent, Step, Typed, HandlerSteps
      <4>2. ClearedFor(a)' = {Current(a).match}
        BY <4>1, ClearedAt
      <4>3. CASE Verdict(a)
        <5>1. gpc[a] = "pass" /\ hpc[a] = "policy"
          BY <4>3, <3>2, <1>t DEF Verdict, EndEvent, Step, Typed
        <5> QED
          BY <5>1, <4>2, <1>t DEF ClearedFor, ClaimOK
      <4>4. CASE ~Verdict(a)
        <5>1. hpc[a] \in {"prepare", "publish", "push"} \cup ShadowSteps
          BY <4>4, <1>2, <3>2, <1>t DEF Prepare, ReadShadowKey, ReadShadowKeyFails, Publish,
            PublishLost, PublishFails, IncrTotalMessages, IncrTotalMessagesFails, ExpireTotal,
            SaveBotMessage, FinishCount, FinishSave, EndEvent, Step, Typed
        <5> QED
          BY <5>1, <4>2, ClearedAt
      <4> QED
        BY <4>3, <4>4
    <3> QED
      BY <3>1, <3>2
  <2>3. Cleared(m)' \subseteq Cleared(m)
    BY <2>2, <1>g, <1>o, ClearedOthers
  <2> QED
    BY <2>1, <2>3, <1>d, SlackMoves DEF RoomMoves
<1> QED
  BY <1>1, <1>2

LEMMA AmbientRoom ==
  ASSUME PipelineTypeOK, NEW m \in Matches, users'[m] = 0,
         \/ \E t \in AdminScopes, on \in BOOLEAN : SetKill(t, on) \/ SetShadowBan(t, on)
         \/ \E n \in Matches : RoomStep(n)
         \/ KeysAge
         \/ Restart
         \/ UNCHANGED vars
  PROVE  RoomMoves(m) /\ users'[m] = users[m]
<1>t. /\ RoomTyped /\ MaxUsers \in Nat /\ MaxPrematch \in Nat
      /\ chat \in [Matches -> Seq({"bot", "user"})] /\ faults \in Nat
  BY TypeParts, PipelineAssumption, BoundsAssumption DEF Typed, TypeOK
<1>1. CASE Restart
  <2>1. ASSUME NEW c \in Claims PROVE ClearedFor(c)' = {}
    BY <1>1, ClearedAt DEF Restart
  <2>2. Cleared(m)' = {}
    BY <2>1 DEF Cleared
  <2>3. Slack(m)' = Slack(m) /\ UNCHANGED <<chat, users>>
    BY <1>1 DEF Restart, Crash, store, ForgetReplies, Slack
  <2> QED
    BY <2>2, <2>3 DEF RoomMoves
<1>2. ASSUME NEW n \in Matches, RoomStep(n) PROVE RoomMoves(m) /\ users'[m] = users[m]
  <2>1. Cleared(m)' = Cleared(m) /\ faults' = faults
    BY <1>2, RoomStepIs DEF Away, claimVars, locals, Cleared, ClearedFor, Current, Message
  <2>2. CASE UserMessage(n)
    <3>1. n # m
      BY <2>2, <1>t DEF UserMessage, Up, RoomTyped
    <3>2. chat'[m] = chat[m] /\ users'[m] = users[m] /\ prematch'[m] = prematch[m]
      BY <2>2, <3>1, <1>t DEF UserMessage, Up, PushChat, RoomTyped
    <3> QED
      BY <2>1, <3>2 DEF RoomMoves, Slack
  <2>3. CASE NoReply(n) \/ RecordReply(n)
    <3>1. chat'[m] = chat[m] /\ users'[m] = users[m] /\ prematch'[m] = prematch[m]
      BY <2>3 DEF NoReply, RecordReply, gateVars, store
    <3> QED
      BY <2>1, <3>1 DEF RoomMoves, Slack
  <2>4. CASE Reply(n)
    <3>1. users' = users /\ prematch' = prematch /\ replying[n] > 0
      BY <2>4 DEF Reply
    <3>2. n # m
      BY <3>1, <1>t DEF RoomTyped
    <3>3. chat'[m] = chat[m]
      BY <2>4, <3>2, <1>t DEF Reply, PushChat
    <3> QED
      BY <2>1, <3>1, <3>3 DEF RoomMoves, Slack
  <2>5. CASE PrematchPost(n)
    <3>1. users' = users
      BY <2>5 DEF PrematchPost
    <3>2. CASE n = m
      <4>1. Slack(m)' = Slack(m) + 1
        BY <2>1, <2>5, <3>2, <1>t DEF PrematchPost, Up, Slack, RoomTyped
      <4>2. chat'[m] = chat[m] \/ chat'[m] = Trim(<<"bot">> \o chat[m])
        BY <2>5, <3>2, <1>t DEF PrematchPost, PushChat
      <4> QED
        BY <2>1, <3>1, <4>1, <4>2 DEF RoomMoves
    <3>3. CASE n # m
      <4>1. chat'[m] = chat[m] /\ prematch'[m] = prematch[m]
        BY <2>5, <3>3, <1>t DEF PrematchPost, PushChat, Up, RoomTyped
      <4> QED
        BY <2>1, <3>1, <4>1 DEF RoomMoves, Slack
    <3> QED
      BY <3>2, <3>3
  <2> QED
    BY <1>2, <2>2, <2>3, <2>4, <2>5 DEF RoomStep
<1>3. CASE ~Restart /\ ~\E n \in Matches : RoomStep(n)
  <2>1. UNCHANGED <<gpc, ev, hpc, pos, idx, faults, chat, roomVars>>
    BY <1>3 DEF SetKill, SetKillSwitch, SetShadowBan, KeysAge, DedupKeyExpires,
      CounterExpires, NextHour, claimVars, gateVars, handlerVars, vars, locals, outcomes, store
  <2>2. Cleared(m)' = Cleared(m)
    BY <2>1 DEF Cleared, ClearedFor, Current, Message
  <2>3. Slack(m)' = Slack(m) /\ users' = users
    BY <2>1 DEF Slack, roomVars
  <2> QED
    BY <2>1, <2>2, <2>3 DEF RoomMoves
<1> QED
  BY <1>1, <1>2, <1>3

LEMMA RoomsMove ==
  ASSUME PipelineTypeOK, [Next]_vars, NEW m \in Matches, users'[m] = 0
  PROVE  RoomMoves(m) /\ users'[m] = users[m]
BY ParseRoom, PolicyRoom, EventRoom, AmbientRoom DEF Next, ClaimStep, ClaimFault, roomVars

(* While no user has spoken a room holds bot messages only, and no more    *)
(* than three, with those still to come from the claims cleared for it, by *)
(* all claims but one, the failed reads and the prematch messages.         *)
QuietRoom(m) ==
  users[m] = 0 =>
    /\ BotsOnly(m)
    /\ Count(chat[m], "bot") + Cardinality(Cleared(m)) <= Cardinality(Claims) + (Slack(m) + 2)

LEMMA GraceSumTwo ==
  ASSUME NEW P \in SUBSET Claims, NEW Q \in SUBSET Claims,
         NEW n \in Nat, NEW m \in Nat, NEW b \in Nat, NEW d \in Nat,
         n + Cardinality(P) <= Cardinality(Claims) + (b + 2),
         \/ Q \subseteq P /\ m = n /\ (d = b \/ d = b + 1)
         \/ \E a \in Claims : Q \subseteq P \cup {a} /\ m = n /\ d = b + 1
         \/ \E a \in P : Q \subseteq P \ {a} /\ m = n + 1 /\ d = b
         \/ Q \subseteq P /\ m = n + 1 /\ d = b + 1
  PROVE  m + Cardinality(Q) <= Cardinality(Claims) + (d + 2)
<1> DEFINE bb == b + 2
           dd == d + 2
<1>1. /\ bb \in Nat /\ dd \in Nat
      /\ d = b => dd = bb
      /\ d = b + 1 => dd = bb + 1
  OBVIOUS
<1>2. n + Cardinality(P) <= Cardinality(Claims) + bb
  OBVIOUS
<1>3. CASE Q \subseteq P /\ m = n + 1 /\ d = b + 1
  <2>1. n + Cardinality(Q) <= Cardinality(Claims) + bb
    <3> HIDE DEF bb, dd
    <3> QED
      BY <1>1, <1>2, <1>3, GraceSum
  <2>2. Cardinality(Q) \in Nat /\ Cardinality(Claims) \in Nat
    BY ClaimsAssumption, FS_Subset, FS_CardinalityType
  <2> QED
    BY <1>3, <2>1, <2>2
<1>4. CASE ~(Q \subseteq P /\ m = n + 1 /\ d = b + 1)
  <2>1. m + Cardinality(Q) <= Cardinality(Claims) + dd
    <3> HIDE DEF bb, dd
    <3> QED
      BY <1>1, <1>2, <1>4, GraceSum
  <2> QED
    BY <2>1
<1> QED
  BY <1>3, <1>4

LEMMA QuietRoomStep ==
  ASSUME PipelineTypeOK, PipelineTypeOK', [Next]_vars, NEW m \in Matches, QuietRoom(m)
  PROVE  QuietRoom(m)'
<1> SUFFICES ASSUME users'[m] = 0
             PROVE  /\ BotsOnly(m)'
                    /\ Count(chat'[m], "bot") + Cardinality(Cleared(m)')
                         <= Cardinality(Claims) + (Slack(m)' + 2)
  BY DEF QuietRoom
<1>m. RoomMoves(m) /\ users[m] = 0
  BY RoomsMove
<1>q. /\ BotsOnly(m)
      /\ Count(chat[m], "bot") + Cardinality(Cleared(m)) <= Cardinality(Claims) + (Slack(m) + 2)
  BY <1>m DEF QuietRoom
<1>t. /\ chat[m] \in Seq({"bot", "user"}) /\ chat'[m] \in Seq({"bot", "user"})
      /\ Count(chat[m], "bot") \in Nat /\ Count(chat'[m], "bot") \in Nat
      /\ Slack(m) \in Nat /\ Slack(m)' \in Nat
      /\ Cleared(m) \in SUBSET Claims /\ Cleared(m)' \in SUBSET Claims
      /\ Cardinality(Cleared(m)') \in Nat /\ Cardinality(Claims) \in Nat
      /\ Cardinality(Cleared(m)') <= Cardinality(Claims)
  <2>1. /\ chat[m] \in Seq({"bot", "user"}) /\ chat'[m] \in Seq({"bot", "user"})
        /\ faults \in Nat /\ faults' \in Nat /\ prematch[m] \in Nat /\ prematch'[m] \in Nat
    BY BoundsAssumption, PipelineAssumption DEF PipelineTypeOK, TypeOK
  <2>4. Slack(m) \in Nat /\ Slack(m)' \in Nat
    BY <2>1 DEF Slack
  <2>2. Cleared(m) \in SUBSET Claims /\ Cleared(m)' \in SUBSET Claims
    BY DEF Cleared
  <2>3. /\ Cardinality(Cleared(m)') \in Nat /\ Cardinality(Claims) \in Nat
        /\ Cardinality(Cleared(m)') <= Cardinality(Claims)
    BY <2>2, ClaimsAssumption, FS_Subset, FS_CardinalityType
  <2> QED
    BY <2>1, <2>2, <2>3, <2>4, CountType
<1>1. CASE chat'[m] = chat[m]
  <2>1. BotsOnly(m)'
    BY <1>1, <1>q DEF BotsOnly
  <2>2. CASE Count(chat[m], "bot") <= 2
    BY <1>1, <2>1, <2>2, <1>t
  <2>3. CASE Count(chat[m], "bot") > 2
    <3>1. \/ Cleared(m)' \subseteq Cleared(m) /\ (Slack(m)' = Slack(m) \/ Slack(m)' = Slack(m) + 1)
          \/ \E a \in Claims : /\ Cleared(m)' \subseteq Cleared(m) \cup {a}
                               /\ Slack(m)' = Slack(m) + 1
      <4>1. ~(Count(chat[m], "bot") <= 2)
        BY <2>3, <1>t
      <4>2. ASSUME NEW a \in Cleared(m), Cleared(m)' \subseteq Cleared(m) \ {a}, Slack(m)' = Slack(m)
            PROVE  Cleared(m)' \subseteq Cleared(m) /\ Slack(m)' = Slack(m)
        BY <4>2
      <4>3. Slack(m)' \in {Slack(m), Slack(m) + 1} => Slack(m)' = Slack(m) \/ Slack(m)' = Slack(m) + 1
        OBVIOUS
      <4> QED
        BY <1>m, <1>q, <4>1, <4>2, <4>3, Zenon DEF RoomMoves
    <3>4. Count(chat[m], "bot") + Cardinality(Cleared(m)') <= Cardinality(Claims) + (Slack(m)' + 2)
      <4> DEFINE P == Cleared(m)
                 Q == Cleared(m)'
                 n == Count(chat[m], "bot")
                 b == Slack(m)
                 d == Slack(m)'
      <4>1. /\ P \in SUBSET Claims /\ Q \in SUBSET Claims
            /\ n \in Nat /\ b \in Nat /\ d \in Nat
            /\ n + Cardinality(P) <= Cardinality(Claims) + (b + 2)
        BY <1>t, <1>q
      <4>2. \/ Q \subseteq P /\ (d = b \/ d = b + 1)
            \/ \E a \in Claims : Q \subseteq P \cup {a} /\ d = b + 1
        BY <3>1
      <4> HIDE DEF P, Q, n, b, d
      <4>3. n + Cardinality(Q) <= Cardinality(Claims) + (d + 2)
        BY <4>1, <4>2, GraceSumTwo
      <4> QED
        BY <4>3 DEF Q, n, d
    <3> QED
      BY <2>1, <3>4, <1>1
  <2> QED
    BY <2>1, <2>2, <2>3, <1>t
<1>2. CASE chat'[m] # chat[m]
  <2>0. /\ chat'[m] = Trim(<<"bot">> \o chat[m])
        /\ \/ \E a \in Cleared(m) : /\ Cleared(m)' \subseteq Cleared(m) \ {a}
                                    /\ Slack(m)' = Slack(m)
           \/ Cleared(m)' \subseteq Cleared(m) /\ Slack(m)' = Slack(m) + 1
    BY <1>2, <1>m DEF RoomMoves
  <2>1. BotsOnly(m)' /\ Count(chat'[m], "bot") <= Count(chat[m], "bot") + 1
    BY <2>0, <1>q, <1>t, CountPush DEF BotsOnly
  <2>2. (Count(chat[m], "bot") + 1) + Cardinality(Cleared(m)') <= Cardinality(Claims) + (Slack(m)' + 2)
    <3> DEFINE P == Cleared(m)
               Q == Cleared(m)'
               n == Count(chat[m], "bot")
               b == Slack(m)
               d == Slack(m)'
    <3>1. /\ P \in SUBSET Claims /\ Q \in SUBSET Claims
          /\ n \in Nat /\ n + 1 \in Nat /\ b \in Nat /\ d \in Nat
          /\ n + Cardinality(P) <= Cardinality(Claims) + (b + 2)
      BY <1>t, <1>q
    <3>2. \/ \E a \in P : Q \subseteq P \ {a} /\ d = b
          \/ Q \subseteq P /\ d = b + 1
      BY <2>0
    <3> HIDE DEF P, Q, n, b, d
    <3>3. (n + 1) + Cardinality(Q) <= Cardinality(Claims) + (d + 2)
      BY <3>1, <3>2, GraceSumTwo
    <3> QED
      BY <3>3 DEF Q, n, d
  <2> QED
    BY <2>1, <2>2, <1>t
<1> QED
  BY <1>1, <1>2

(* A room without users gets three bot messages from the pipeline, those   *)
(* of a prematch burst counted in, and after them only the ones of claims  *)
(* that read its window before the three were in it: the burst asks no     *)
(* policy, but what it posts the policy sees.                              *)
THEOREM WarmUpBounded == Spec => []WarmUpBurst
<1> DEFINE Quiet == \A m \in Matches : QuietRoom(m)
<1>1. Init => Quiet
  <2> SUFFICES ASSUME Init, NEW m \in Matches PROVE QuietRoom(m)
    OBVIOUS
  <2>1. chat[m] = <<>> /\ Cleared(m) = {} /\ Slack(m) = 0
    BY DEF Init, GateInit, Cleared, ClearedFor, ShadowSteps, Slack
  <2>2. BotsOnly(m) /\ Count(chat[m], "bot") = 0
    <3>1. {i \in DOMAIN chat[m] : chat[m][i] = "bot"} = {}
      BY <2>1
    <3> QED
      BY <3>1, <2>1, FS_EmptySet DEF BotsOnly, Count
  <2>3. Cardinality(Cleared(m)) = 0 /\ Cardinality(Claims) \in Nat
    BY <2>1, FS_EmptySet, ClaimsAssumption, FS_CardinalityType
  <2> QED
    BY <2>1, <2>2, <2>3 DEF QuietRoom
<1>2. PipelineTypeOK /\ PipelineTypeOK' /\ Quiet /\ [Next]_vars => Quiet'
  BY QuietRoomStep
<1>3. PipelineTypeOK /\ Quiet => WarmUpBurst
  <2> SUFFICES ASSUME PipelineTypeOK, Quiet, NEW m \in Matches, users[m] = 0
               PROVE  Count(chat[m], "bot") <= 3 + Cardinality(Claims) - 1 + faults + prematch[m]
    BY DEF WarmUpBurst
  <2>1. /\ chat[m] \in Seq({"bot", "user"}) /\ faults \in Nat /\ prematch[m] \in Nat
        /\ Slack(m) = faults + prematch[m]
    BY BoundsAssumption, PipelineAssumption DEF PipelineTypeOK, TypeOK, Slack
  <2>2. Cleared(m) \in SUBSET Claims
    BY DEF Cleared
  <2>3. Cardinality(Cleared(m)) \in Nat /\ Cardinality(Claims) \in Nat
    BY <2>2, ClaimsAssumption, FS_Subset, FS_CardinalityType
  <2>4. Count(chat[m], "bot") \in Nat
    BY <2>1, CountType
  <2>5. Count(chat[m], "bot") + Cardinality(Cleared(m)) <= Cardinality(Claims) + (Slack(m) + 2)
    BY DEF QuietRoom
  <2> QED
    BY <2>1, <2>3, <2>4, <2>5
<1> QED
  BY <1>1, <1>2, <1>3, PipelineTyping, PTL DEF Spec

---------------------------------------------------------------------------
(* The ledgers of a match: what was posted, counted and saved. *)

(* One more message of an event is one more message of its match, and of   *)
(* no other.                                                               *)
LEMMA MessageAdded ==
  ASSUME NEW f \in [Events -> Nat], NEW e \in Events, NEW m,
         e.match = m, IsFiniteSet(MessagesOf(f, m))
  PROVE  /\ IsFiniteSet(MessagesOf(Bumped(f, e), m))
         /\ PerMatch(Bumped(f, e), m) = PerMatch(f, m) + 1
<1> DEFINE g   == Bumped(f, e)
           one == <<e, f[e] + 1>>
<1>1. \A x \in Events : f[x] \in Nat /\ g[x] = IF x = e THEN f[e] + 1 ELSE f[x]
  BY DEF Bumped
<1>2. /\ \A w : w \in MessagesOf(f, m) <=>
             \E x \in Events : x.match = m /\ w \in {x} \X (1 .. f[x])
      /\ \A w : w \in MessagesOf(g, m) <=>
             \E x \in Events : x.match = m /\ w \in {x} \X (1 .. g[x])
  BY DEF MessagesOf
<1>3. 1 .. g[e] = (1 .. f[e]) \cup {f[e] + 1}
  BY <1>1
<1>4. {e} \X (1 .. g[e]) = ({e} \X (1 .. f[e])) \cup {one}
  BY <1>3
<1>5. MessagesOf(g, m) = MessagesOf(f, m) \cup {one}
  <2> HIDE DEF g, one
  <2> QED
    BY <1>1, <1>2, <1>4
<1>6. one \notin MessagesOf(f, m)
  BY <1>1, <1>2
<1>7. /\ IsFiniteSet(MessagesOf(f, m) \cup {one})
      /\ Cardinality(MessagesOf(f, m) \cup {one}) =
           IF one \in MessagesOf(f, m) THEN Cardinality(MessagesOf(f, m))
           ELSE Cardinality(MessagesOf(f, m)) + 1
  <2> HIDE DEF one
  <2> QED
    BY FS_AddElement, Zenon
<1>8. Cardinality(MessagesOf(f, m) \cup {one}) = Cardinality(MessagesOf(f, m)) + 1
  BY <1>6, <1>7, Zenon
<1> QED
  BY <1>5, <1>7, <1>8 DEF PerMatch

LEMMA MessageElsewhere ==
  ASSUME NEW f \in [Events -> Nat], NEW e \in Events, NEW m, e.match # m
  PROVE  MessagesOf(Bumped(f, e), m) = MessagesOf(f, m)
<1> DEFINE g == Bumped(f, e)
<1>1. \A x \in Events : x.match = m => g[x] = f[x]
  BY DEF Bumped
<1> HIDE DEF g
<1>2. MessagesOf(g, m) = MessagesOf(f, m)
  BY <1>1 DEF MessagesOf
<1> QED
  BY <1>2 DEF g

(* The match for which a claim has found the counter below its cap and not *)
(* posted; has posted and not counted; has posted and not saved.           *)
HeadingFor(c) ==
  IF hpc[c] = "policy" THEN IF gpc[c] \in {"ratio", "pass"} THEN {ev[c].match} ELSE {}
  ELSE IF hpc[c] \in {"prepare", "publish"} \cup ShadowSteps THEN {Current(c).match}
  ELSE {}

UncountedFor(c) ==
  IF hpc[c] \in {"push", "count"} \/ (hpc[c] = "save" /\ quiet[c])
  THEN {Current(c).match} ELSE {}

UnsavedFor(c) ==
  IF hpc[c] \in {"push", "save"} \/ (hpc[c] \in {"count", "expire"} /\ ~quiet[c])
  THEN {Current(c).match} ELSE {}

Heading(m)   == {c \in Claims : m \in HeadingFor(c)}
Uncounted(m) == {c \in Claims : m \in UncountedFor(c)}
Unsaved(m)   == {c \in Claims : m \in UnsavedFor(c)}

OthersStay(a) ==
  \A d \in Claims \ {a} :
    /\ gpc'[d] = gpc[d] /\ ev'[d] = ev[d] /\ hpc'[d] = hpc[d]
    /\ pos'[d] = pos[d] /\ idx'[d] = idx[d] /\ quiet'[d] = quiet[d]

(* Only the claim that steps enters or leaves one of these sets. *)
LEMMA LedgerOthers ==
  ASSUME NEW a \in Claims, NEW m, OthersStay(a)
  PROVE  /\ Heading(m)' \subseteq Heading(m) \cup {a}
         /\ m \in HeadingFor(a) \/ m \notin HeadingFor(a)' => Heading(m)' \subseteq Heading(m)
         /\ m \notin HeadingFor(a)' => Heading(m)' \subseteq Heading(m) \ {a}
         /\ m \in UncountedFor(a)' => Uncounted(m)' = Uncounted(m) \cup {a}
         /\ m \notin UncountedFor(a)' => Uncounted(m)' = Uncounted(m) \ {a}
         /\ m \in UnsavedFor(a)' => Unsaved(m)' = Unsaved(m) \cup {a}
         /\ m \notin UnsavedFor(a)' => Unsaved(m)' = Unsaved(m) \ {a}
<1>1. \A d \in Claims \ {a} : /\ HeadingFor(d)' = HeadingFor(d)
                              /\ UncountedFor(d)' = UncountedFor(d)
                              /\ UnsavedFor(d)' = UnsavedFor(d)
  BY DEF OthersStay, HeadingFor, UncountedFor, UnsavedFor, Current, Message
<1>2. /\ Heading(m)' \ {a} = Heading(m) \ {a}
      /\ a \in Heading(m) <=> m \in HeadingFor(a)
      /\ a \in Heading(m)' <=> m \in HeadingFor(a)'
  BY <1>1 DEF Heading
<1>3. /\ Uncounted(m)' \ {a} = Uncounted(m) \ {a}
      /\ a \in Uncounted(m)' <=> m \in UncountedFor(a)'
  BY <1>1 DEF Uncounted
<1>4. /\ Unsaved(m)' \ {a} = Unsaved(m) \ {a}
      /\ a \in Unsaved(m)' <=> m \in UnsavedFor(a)'
  BY <1>1 DEF Unsaved
<1> QED
  BY <1>2, <1>3, <1>4

(* What others than the claims have added to the counter of a match when   *)
(* nothing failed: users' messages, and the replies but those whose record *)
(* is still to come.                                                       *)
Ticks(m) == users[m] + replies[m] - answered[m]

(* The rows they have written: the prematch bursts' too.                   *)
OthersRows(m) == mishaps = 0 /\ crashes = 0 => rows[m] = Ticks(m) + prematch[m]

LEMMA TicksType ==
  ASSUME PipelineTypeOK, NEW m \in Matches
  PROVE  /\ users[m] \in Nat /\ replies[m] \in Nat /\ answered[m] \in Nat
         /\ answered[m] <= replies[m] /\ prematch[m] \in Nat /\ rows[m] \in Nat
         /\ Ticks(m) \in Nat
BY TypeParts, PipelineAssumption DEF RoomTyped, Ticks

(* What they do to the books of a match while nothing fails. *)
LEMMA RoomBooks ==
  ASSUME PipelineTypeOK, NEW m \in Matches, NEW n \in Matches, RoomStep(n), ~Mishap
  PROVE  \/ /\ Ticks(m)' = Ticks(m) /\ cnt'[TotalKey(m)] = cnt[TotalKey(m)]
            /\ \/ rows'[m] = rows[m] /\ prematch'[m] = prematch[m]
               \/ rows'[m] = rows[m] + 1 /\ prematch'[m] = prematch[m] + 1
         \/ /\ Ticks(m)' = Ticks(m) + 1 /\ cnt'[TotalKey(m)] = cnt[TotalKey(m)] + 1
            /\ rows'[m] = rows[m] + 1 /\ prematch'[m] = prematch[m]
<1>t. RoomTyped /\ TypeOK /\ TotalKey(m) \in CounterKeys /\ MaxUsers \in Nat
  BY TypeParts, PipelineAssumption DEF Typed, TotalKeys, CounterKeys
<1>n. /\ users[m] \in Nat /\ replies[m] \in Nat /\ answered[m] \in Nat
      /\ rows[m] \in Nat /\ prematch[m] \in Nat
  BY TicksType
<1>r. Record(n) => rows' = Up(rows, n) /\ cnt' = [cnt EXCEPT ![TotalKey(n)] = @ + 1]
  BY DEF Record, RaiseTotal, Bump
<1>1. CASE n # m
  <2>1. TotalKey(n) # TotalKey(m)
    BY <1>1 DEF TotalKey
  <2>2. cnt'[TotalKey(m)] = cnt[TotalKey(m)]
    BY <1>t, <1>r, <2>1 DEF RoomStep, UserMessage, NoReply, Reply, RecordReply, PrematchPost,
      gateVars, store, TypeOK
  <2>3. /\ users'[m] = users[m] /\ replies'[m] = replies[m] /\ answered'[m] = answered[m]
        /\ rows'[m] = rows[m] /\ prematch'[m] = prematch[m]
    BY <1>1, <1>t, <1>r DEF RoomStep, UserMessage, NoReply, Reply, RecordReply, PrematchPost,
      Up, Down, RoomTyped
  <2> QED
    BY <2>2, <2>3 DEF Ticks
<1>2. CASE n = m
  <2>r. Record(n) => rows'[m] = rows[m] + 1 /\ cnt'[TotalKey(m)] = cnt[TotalKey(m)] + 1
    BY <1>2, <1>t, <1>r DEF Up, RoomTyped, TypeOK
  <2>1. CASE UserMessage(n)
    <3>1. users'[m] = users[m] + 1 /\ UNCHANGED <<replies, answered, prematch>> /\ Record(n)
      BY <1>2, <1>t, <2>1 DEF UserMessage, Up, RoomTyped
    <3> QED
      BY <3>1, <2>r, <1>n DEF Ticks
  <2>2. CASE NoReply(n)
    BY <2>2 DEF NoReply, Ticks, gateVars, store
  <2>3. CASE Reply(n)
    <3>1. /\ replies'[m] = replies[m] + 1 /\ answered'[m] = answered[m] + 1
          /\ UNCHANGED <<users, prematch, rows, cnt>>
      BY <1>2, <1>t, <2>3 DEF Reply, Up, RoomTyped
    <3> QED
      BY <3>1, <1>n DEF Ticks
  <2>4. CASE RecordReply(n)
    <3>1. answered'[m] = answered[m] - 1 /\ UNCHANGED <<users, replies, prematch>> /\ Record(n)
      BY <1>2, <1>t, <2>4 DEF RecordReply, Down, RoomTyped
    <3> QED
      BY <3>1, <2>r, <1>n DEF Ticks
  <2>5. CASE PrematchPost(n)
    <3>1. /\ prematch'[m] = prematch[m] + 1 /\ rows'[m] = rows[m] + 1
          /\ UNCHANGED <<users, replies, answered, cnt>>
      BY <1>2, <1>t, <2>5 DEF PrematchPost, Up, RoomTyped
    <3> QED
      BY <3>1 DEF Ticks
  <2> QED
    BY <2>1, <2>2, <2>3, <2>4, <2>5 DEF RoomStep
<1> QED
  BY <1>1, <1>2

(* What a step does to the ledgers of a match. *)
SameCounts(m) ==
  /\ cnt'[TotalKey(m)] = cnt[TotalKey(m)] /\ reset'[TotalKey(m)] = reset[TotalKey(m)]
  /\ uncounted'[m] = uncounted[m] /\ Ticks(m)' = Ticks(m)

SamePosts(m) == MessagesOf(posted, m)' = MessagesOf(posted, m)
SameRows(m)  == MessagesOf(saved, m)' = MessagesOf(saved, m)
SameOpen(m)  == Uncounted(m)' = Uncounted(m) /\ Unsaved(m)' = Unsaved(m)

StandsBy(m) ==
  /\ SameCounts(m) /\ SamePosts(m) /\ SameRows(m) /\ SameOpen(m)
  /\ Heading(m)' \subseteq Heading(m)

PassesCap(a, m) ==
  /\ SameCounts(m) /\ SamePosts(m) /\ SameRows(m) /\ SameOpen(m)
  /\ Heading(m)' \subseteq Heading(m) \cup {a}
  /\ cnt[TotalKey(m)] < MaxMessagesBot /\ a \notin Uncounted(m)

PostsOne(a, m) ==
  /\ SameCounts(m) /\ SameRows(m)
  /\ \E e \in Events : e.match = m /\ posted' = Bumped(posted, e)
  /\ a \in Heading(m) /\ Heading(m)' \subseteq Heading(m) \ {a}
  /\ a \notin Uncounted(m) /\ Uncounted(m)' = Uncounted(m) \cup {a}
  /\ a \notin Unsaved(m) /\ Unsaved(m)' = Unsaved(m) \cup {a}

CountsOne(a, m) ==
  /\ SamePosts(m) /\ SameRows(m) /\ Unsaved(m)' = Unsaved(m)
  /\ Heading(m)' \subseteq Heading(m)
  /\ a \in Uncounted(m) /\ Uncounted(m)' = Uncounted(m) \ {a}
  /\ reset'[TotalKey(m)] = reset[TotalKey(m)] /\ Ticks(m)' = Ticks(m)
  /\ \/ cnt'[TotalKey(m)] = cnt[TotalKey(m)] + 1 /\ uncounted'[m] = uncounted[m]
     \/ /\ cnt'[TotalKey(m)] = cnt[TotalKey(m)] /\ uncounted'[m] = uncounted[m] + 1
        /\ mishaps' # 0

SavesOne(a, m) ==
  /\ SameCounts(m) /\ SamePosts(m) /\ Uncounted(m)' = Uncounted(m)
  /\ Heading(m)' \subseteq Heading(m)
  /\ a \in Unsaved(m) /\ Unsaved(m)' = Unsaved(m) \ {a}
  /\ \/ \E e \in Events : e.match = m /\ saved' = Bumped(saved, e)
     \/ SameRows(m) /\ mishaps' # 0

OthersTick(m) ==
  /\ SamePosts(m) /\ SameRows(m) /\ SameOpen(m) /\ Heading(m)' \subseteq Heading(m)
  /\ reset'[TotalKey(m)] = reset[TotalKey(m)] /\ uncounted'[m] = uncounted[m]
  /\ \/ cnt'[TotalKey(m)] = cnt[TotalKey(m)] + 1 /\ Ticks(m)' = Ticks(m) + 1
     \/ cnt'[TotalKey(m)] \in {cnt[TotalKey(m)], cnt[TotalKey(m)] + 1} /\ mishaps' # 0

CounterLapses(m) ==
  /\ SamePosts(m) /\ SameRows(m) /\ SameOpen(m) /\ Heading(m)' \subseteq Heading(m)
  /\ cnt'[TotalKey(m)] = 0 /\ reset'[TotalKey(m)] = reset[TotalKey(m)] + 1
  /\ uncounted'[m] = uncounted[m] /\ Ticks(m)' = Ticks(m)

StartsOver(m) ==
  /\ SamePosts(m) /\ SameRows(m)
  /\ Heading(m)' = {} /\ Uncounted(m)' = {} /\ Unsaved(m)' = {}
  /\ cnt'[TotalKey(m)] = cnt[TotalKey(m)] /\ reset'[TotalKey(m)] = reset[TotalKey(m)]
  /\ uncounted'[m] = uncounted[m] + Cardinality(Uncounted(m))
  /\ crashes' # 0

LedgerMoves(m) ==
  /\ (mishaps' = 0 => mishaps = 0) /\ (crashes' = 0 => crashes = 0)
  /\ \/ StandsBy(m) \/ OthersTick(m) \/ CounterLapses(m) \/ StartsOver(m)
     \/ \E a \in Claims :
          PassesCap(a, m) \/ PostsOne(a, m) \/ CountsOne(a, m) \/ SavesOne(a, m)

(* The bot messages let through in r lifetimes of a match's counter. *)
Cap(r) == (MaxMessagesBot + Cardinality(Claims) - 1) * r

(* What was posted is in the counter, in an earlier life of it, about to   *)
(* be counted or lost; with what is on its way it fits the cap; and while  *)
(* nothing failed the books balance but for the claims between their       *)
(* entries.                                                                *)
Ledger(m) ==
  LET k == TotalKey(m) IN
  /\ IsFiniteSet(MessagesOf(posted, m)) /\ IsFiniteSet(MessagesOf(saved, m))
  /\ PerMatch(posted, m) <= Cap(reset[k]) + cnt[k] + Cardinality(Uncounted(m)) + uncounted[m]
  /\ PerMatch(posted, m) + Cardinality(Heading(m)) <= Cap(1 + reset[k]) + uncounted[m]
  /\ mishaps = 0 /\ crashes = 0 =>
       /\ PerMatch(saved, m) + Cardinality(Unsaved(m)) = PerMatch(posted, m)
       /\ reset[k] = 0 =>
            cnt[k] + Cardinality(Uncounted(m)) = PerMatch(posted, m) + Ticks(m)

LEMMA CapType ==
  ASSUME NEW r \in Nat
  PROVE  Cap(r) \in Nat /\ Cap(r + 1) = Cap(r) + MaxMessagesBot + Cardinality(Claims) - 1
<1> DEFINE B == MaxMessagesBot + Cardinality(Claims) - 1
<1>1. B \in Nat /\ MaxMessagesBot \in Nat /\ Cardinality(Claims) \in Nat
  BY ClaimsAssumption, LimitsAssumption, FS_CardinalityType
<1>2. \A b \in Nat : b * r \in Nat /\ b * (r + 1) = b * r + b
  OBVIOUS
<1>3. B * r \in Nat /\ B * (r + 1) = B * r + B
  <2> HIDE DEF B
  <2> QED
    BY <1>1, <1>2
<1> QED
  BY <1>1, <1>3 DEF Cap

LEMMA LedgerSets ==
  ASSUME NEW m
  PROVE  /\ Heading(m) \in SUBSET Claims /\ Uncounted(m) \in SUBSET Claims
         /\ Unsaved(m) \in SUBSET Claims
         /\ Heading(m)' \in SUBSET Claims /\ Uncounted(m)' \in SUBSET Claims
         /\ Unsaved(m)' \in SUBSET Claims
         /\ Heading(m) \cap Uncounted(m) = {}
BY DEF Heading, Uncounted, Unsaved, HeadingFor, UncountedFor, ShadowSteps

(* Sets of claims by their size. *)
LEMMA ClaimSets ==
  ASSUME NEW P \in SUBSET Claims
  PROVE  /\ IsFiniteSet(P) /\ Cardinality(P) \in Nat /\ Cardinality(P) <= Cardinality(Claims)
         /\ \A Q \in SUBSET P : Cardinality(Q) <= Cardinality(P)
         /\ \A a \in P : Cardinality(P \ {a}) = Cardinality(P) - 1
         /\ \A a \in Claims \ P : Cardinality(P \cup {a}) = Cardinality(P) + 1
<1>1. /\ IsFiniteSet(P) /\ Cardinality(P) \in Nat /\ Cardinality(P) <= Cardinality(Claims)
      /\ \A Q \in SUBSET P : Cardinality(Q) <= Cardinality(P)
  BY ClaimsAssumption, FS_Subset, FS_CardinalityType
<1>2. ASSUME NEW a \in P PROVE Cardinality(P \ {a}) = Cardinality(P) - 1
  BY <1>1, FS_RemoveElement
<1>3. ASSUME NEW a \in Claims \ P PROVE Cardinality(P \cup {a}) = Cardinality(P) + 1
  <2>1. Cardinality(P \cup {a}) = IF a \in P THEN Cardinality(P) ELSE Cardinality(P) + 1
    BY <1>1, FS_AddElement, Zenon
  <2> QED
    BY <2>1
<1> QED
  BY <1>1, <1>2, <1>3

LEMMA LedgerStep ==
  ASSUME PipelineTypeOK, PipelineTypeOK', NEW m \in Matches,
         uncounted[m] \in Nat, uncounted'[m] \in Nat, LedgerMoves(m), Ledger(m)
  PROVE  Ledger(m)'
<1> DEFINE k == TotalKey(m)
           P == PerMatch(posted, m)
           Q == PerMatch(posted, m)'
           S == PerMatch(saved, m)
           T == PerMatch(saved, m)'
           h == Cardinality(Heading(m))
           hh == Cardinality(Heading(m)')
           u == Cardinality(Uncounted(m))
           uu == Cardinality(Uncounted(m)')
           v == Cardinality(Unsaved(m))
           vv == Cardinality(Unsaved(m)')
           n == Cardinality(Claims)
<1>k. k \in CounterKeys
  BY DEF CounterKeys, TotalKeys
<1>t. /\ cnt[k] \in Nat /\ cnt'[k] \in Nat /\ reset[k] \in Nat /\ reset'[k] \in Nat
      /\ Ticks(m) \in Nat /\ Ticks(m)' \in Nat /\ mishaps \in Nat /\ crashes \in Nat
      /\ posted \in [Events -> Nat] /\ saved \in [Events -> Nat]
      /\ MaxMessagesBot \in Nat /\ MaxMessagesBot >= 1
  <2>1. cnt[k] \in Nat /\ cnt'[k] \in Nat
    BY <1>k DEF PipelineTypeOK, TypeOK
  <2>2. reset[k] \in Nat /\ reset'[k] \in Nat
    BY <1>k, BoundsAssumption DEF PipelineTypeOK, TypeOK
  <2>3. Ticks(m) \in Nat /\ Ticks(m)' \in Nat /\ mishaps \in Nat /\ crashes \in Nat
    <3>1. /\ users'[m] \in Nat /\ replies'[m] \in Nat /\ answered'[m] \in Nat
          /\ answered'[m] <= replies'[m]
      BY PipelineAssumption DEF PipelineTypeOK
    <3>2. Ticks(m)' \in Nat
      BY <3>1 DEF Ticks
    <3>3. Ticks(m) \in Nat /\ mishaps \in Nat /\ crashes \in Nat
      BY TicksType, TypeParts, PipelineAssumption DEF Typed
    <3> QED
      BY <3>2, <3>3
  <2>4. posted \in [Events -> Nat] /\ saved \in [Events -> Nat]
    BY DEF PipelineTypeOK
  <2> QED
    BY <2>1, <2>2, <2>3, <2>4, LimitsAssumption
<1>c. /\ h \in Nat /\ hh \in Nat /\ u \in Nat /\ uu \in Nat /\ v \in Nat /\ vv \in Nat
      /\ n \in Nat
  BY LedgerSets, ClaimSets, ClaimsAssumption, FS_CardinalityType
<1>f. /\ IsFiniteSet(MessagesOf(posted, m)) /\ IsFiniteSet(MessagesOf(saved, m))
      /\ P \in Nat /\ S \in Nat
  BY FS_CardinalityType DEF Ledger, PerMatch
<1>r. /\ Cap(reset[k]) \in Nat
      /\ Cap(1 + reset[k]) = Cap(reset[k]) + MaxMessagesBot + n - 1
      /\ Cap(reset'[k]) \in Nat
      /\ Cap(1 + reset'[k]) = Cap(reset'[k]) + MaxMessagesBot + n - 1
  <2>1. 1 + reset[k] = reset[k] + 1 /\ 1 + reset'[k] = reset'[k] + 1
    BY <1>t
  <2> QED
    BY <2>1, <1>t, CapType
<1>i. /\ P <= Cap(reset[k]) + cnt[k] + u + uncounted[m]
      /\ P + h <= Cap(1 + reset[k]) + uncounted[m]
      /\ mishaps = 0 /\ crashes = 0 =>
           S + v = P /\ (reset[k] = 0 => cnt[k] + u = P + Ticks(m))
  BY DEF Ledger
<1>m. (mishaps' = 0 => mishaps = 0) /\ (crashes' = 0 => crashes = 0)
  BY DEF LedgerMoves
<1> SUFFICES
      /\ IsFiniteSet(MessagesOf(posted, m)') /\ IsFiniteSet(MessagesOf(saved, m)')
      /\ Q <= Cap(reset'[k]) + cnt'[k] + uu + uncounted'[m]
      /\ Q + hh <= Cap(1 + reset'[k]) + uncounted'[m]
      /\ mishaps' = 0 /\ crashes' = 0 =>
           T + vv = Q /\ (reset'[k] = 0 => cnt'[k] + uu = Q + Ticks(m)')
  BY DEF Ledger, Cap
<1>sp. SamePosts(m) => IsFiniteSet(MessagesOf(posted, m)') /\ Q = P
  BY <1>f DEF SamePosts, PerMatch
<1>sr. SameRows(m) => IsFiniteSet(MessagesOf(saved, m)') /\ T = S
  BY <1>f DEF SameRows, PerMatch
<1>so. Heading(m)' \subseteq Heading(m) => hh <= h
  BY LedgerSets, ClaimSets
<1> HIDE DEF k, P, Q, S, T, h, hh, u, uu, v, vv, n
<1>1. CASE StandsBy(m)
  <2>1. Q = P /\ T = S /\ hh <= h /\ uu = u /\ vv = v
    BY <1>1, <1>sp, <1>sr, <1>so DEF StandsBy, SameOpen, u, uu, v, vv
  <2>2. /\ cnt'[k] = cnt[k] /\ reset'[k] = reset[k]
        /\ uncounted'[m] = uncounted[m] /\ Ticks(m)' = Ticks(m)
    BY <1>1 DEF StandsBy, SameCounts, k
  <2>3. IsFiniteSet(MessagesOf(posted, m)') /\ IsFiniteSet(MessagesOf(saved, m)')
    BY <1>1, <1>sp, <1>sr DEF StandsBy
  <2> QED
    BY <2>1, <2>2, <2>3, <1>t, <1>c, <1>f, <1>r, <1>i, <1>m
<1>2. ASSUME NEW a \in Claims, PassesCap(a, m)
      PROVE  /\ IsFiniteSet(MessagesOf(posted, m)') /\ IsFiniteSet(MessagesOf(saved, m)')
             /\ Q <= Cap(reset'[k]) + cnt'[k] + uu + uncounted'[m]
             /\ Q + hh <= Cap(1 + reset'[k]) + uncounted'[m]
             /\ mishaps' = 0 /\ crashes' = 0 =>
                  T + vv = Q /\ (reset'[k] = 0 => cnt'[k] + uu = Q + Ticks(m)')
  <2>1. Q = P /\ T = S /\ uu = u /\ vv = v
    BY <1>2, <1>sp, <1>sr DEF PassesCap, SameOpen, u, uu, v, vv
  <2>2. /\ cnt'[k] = cnt[k] /\ reset'[k] = reset[k]
        /\ uncounted'[m] = uncounted[m] /\ Ticks(m)' = Ticks(m) /\ cnt[k] < MaxMessagesBot
    BY <1>2 DEF PassesCap, SameCounts, k
  <2>3. IsFiniteSet(MessagesOf(posted, m)') /\ IsFiniteSet(MessagesOf(saved, m)')
    BY <1>2, <1>sp, <1>sr DEF PassesCap
  <2>4. hh + u <= n
    <3>1. Uncounted(m)' \cap Heading(m)' = {}
      BY DEF Heading, Uncounted, HeadingFor, UncountedFor, ShadowSteps
    <3>2. Uncounted(m)' = Uncounted(m)
      BY <1>2 DEF PassesCap, SameOpen
    <3>3. /\ IsFiniteSet(Heading(m)') /\ IsFiniteSet(Uncounted(m))
          /\ Heading(m)' \cap Uncounted(m) = {}
          /\ Heading(m)' \cup Uncounted(m) \in SUBSET Claims
      BY <3>1, <3>2, LedgerSets, ClaimSets
    <3>4. Cardinality(Heading(m)' \cup Uncounted(m)) = hh + u
      <4>1. Cardinality(Heading(m)' \cup Uncounted(m)) =
              hh + u - Cardinality(Heading(m)' \cap Uncounted(m))
        BY <3>3, FS_Union DEF hh, u
      <4>2. Cardinality(Heading(m)' \cap Uncounted(m)) = 0
        BY <3>3, FS_EmptySet
      <4> QED
        BY <4>1, <4>2, <1>c
    <3> QED
      BY <3>3, <3>4, ClaimSets DEF n
  <2> QED
    BY <2>1, <2>2, <2>3, <2>4, <1>t, <1>c, <1>f, <1>r, <1>i, <1>m
<1>3. ASSUME NEW a \in Claims, PostsOne(a, m)
      PROVE  /\ IsFiniteSet(MessagesOf(posted, m)') /\ IsFiniteSet(MessagesOf(saved, m)')
             /\ Q <= Cap(reset'[k]) + cnt'[k] + uu + uncounted'[m]
             /\ Q + hh <= Cap(1 + reset'[k]) + uncounted'[m]
             /\ mishaps' = 0 /\ crashes' = 0 =>
                  T + vv = Q /\ (reset'[k] = 0 => cnt'[k] + uu = Q + Ticks(m)')
  <2>1. IsFiniteSet(MessagesOf(posted, m)') /\ Q = P + 1
    <3> PICK e \in Events : e.match = m /\ posted' = Bumped(posted, e)
      BY <1>3 DEF PostsOne
    <3>1. /\ IsFiniteSet(MessagesOf(Bumped(posted, e), m))
          /\ PerMatch(Bumped(posted, e), m) = PerMatch(posted, m) + 1
      BY <1>t, <1>f, MessageAdded
    <3>2. /\ MessagesOf(posted, m)' = MessagesOf(Bumped(posted, e), m)
          /\ PerMatch(posted, m)' = PerMatch(Bumped(posted, e), m)
      BY DEF MessagesOf, PerMatch
    <3> QED
      BY <3>1, <3>2 DEF P, Q
  <2>2. T = S /\ IsFiniteSet(MessagesOf(saved, m)') /\ uu = u + 1 /\ vv = v + 1
    BY <1>3, <1>sr, LedgerSets, ClaimSets DEF PostsOne, u, uu, v, vv
  <2>3. hh <= h - 1
    <3>1. Heading(m) \ {a} \in SUBSET Claims /\ Heading(m)' \in SUBSET (Heading(m) \ {a})
      BY <1>3, LedgerSets DEF PostsOne
    <3>2. Cardinality(Heading(m)') <= Cardinality(Heading(m) \ {a})
      BY <3>1, ClaimSets
    <3>3. Cardinality(Heading(m) \ {a}) = Cardinality(Heading(m)) - 1
      BY <1>3, LedgerSets, ClaimSets DEF PostsOne
    <3> QED
      BY <3>2, <3>3 DEF h, hh
  <2>4. /\ cnt'[k] = cnt[k] /\ reset'[k] = reset[k]
        /\ uncounted'[m] = uncounted[m] /\ Ticks(m)' = Ticks(m)
    BY <1>3 DEF PostsOne, SameCounts, k
  <2> QED
    BY <2>1, <2>2, <2>3, <2>4, <1>t, <1>c, <1>f, <1>r, <1>i, <1>m
<1>4. ASSUME NEW a \in Claims, CountsOne(a, m)
      PROVE  /\ IsFiniteSet(MessagesOf(posted, m)') /\ IsFiniteSet(MessagesOf(saved, m)')
             /\ Q <= Cap(reset'[k]) + cnt'[k] + uu + uncounted'[m]
             /\ Q + hh <= Cap(1 + reset'[k]) + uncounted'[m]
             /\ mishaps' = 0 /\ crashes' = 0 =>
                  T + vv = Q /\ (reset'[k] = 0 => cnt'[k] + uu = Q + Ticks(m)')
  <2>1. Q = P /\ T = S /\ hh <= h /\ vv = v
    BY <1>4, <1>sp, <1>sr, <1>so DEF CountsOne, v, vv
  <2>2. uu = u - 1
    BY <1>4, LedgerSets, ClaimSets DEF CountsOne, u, uu
  <2>3. IsFiniteSet(MessagesOf(posted, m)') /\ IsFiniteSet(MessagesOf(saved, m)')
    BY <1>4, <1>sp, <1>sr DEF CountsOne
  <2>4. /\ reset'[k] = reset[k] /\ Ticks(m)' = Ticks(m)
        /\ \/ cnt'[k] = cnt[k] + 1 /\ uncounted'[m] = uncounted[m]
           \/ cnt'[k] = cnt[k] /\ uncounted'[m] = uncounted[m] + 1 /\ mishaps' # 0
    BY <1>4 DEF CountsOne, k
  <2> QED
    BY <2>1, <2>2, <2>3, <2>4, <1>t, <1>c, <1>f, <1>r, <1>i, <1>m
<1>5. ASSUME NEW a \in Claims, SavesOne(a, m)
      PROVE  /\ IsFiniteSet(MessagesOf(posted, m)') /\ IsFiniteSet(MessagesOf(saved, m)')
             /\ Q <= Cap(reset'[k]) + cnt'[k] + uu + uncounted'[m]
             /\ Q + hh <= Cap(1 + reset'[k]) + uncounted'[m]
             /\ mishaps' = 0 /\ crashes' = 0 =>
                  T + vv = Q /\ (reset'[k] = 0 => cnt'[k] + uu = Q + Ticks(m)')
  <2>1. /\ IsFiniteSet(MessagesOf(saved, m)')
        /\ T = S + 1 \/ (T = S /\ mishaps' # 0)
    <3>1. ASSUME NEW e \in Events, e.match = m, saved' = Bumped(saved, e)
          PROVE  IsFiniteSet(MessagesOf(saved, m)') /\ T = S + 1
      <4>1. /\ IsFiniteSet(MessagesOf(Bumped(saved, e), m))
            /\ PerMatch(Bumped(saved, e), m) = PerMatch(saved, m) + 1
        BY <3>1, <1>t, <1>f, MessageAdded
      <4>2. /\ MessagesOf(saved, m)' = MessagesOf(Bumped(saved, e), m)
            /\ PerMatch(saved, m)' = PerMatch(Bumped(saved, e), m)
        BY <3>1 DEF MessagesOf, PerMatch
      <4> QED
        BY <4>1, <4>2 DEF S, T
    <3> QED
      BY <3>1, <1>5, <1>sr DEF SavesOne
  <2>2. Q = P /\ IsFiniteSet(MessagesOf(posted, m)') /\ hh <= h /\ uu = u
    BY <1>5, <1>sp, <1>so DEF SavesOne, u, uu
  <2>3. vv = v - 1
    BY <1>5, LedgerSets, ClaimSets DEF SavesOne, v, vv
  <2>4. /\ cnt'[k] = cnt[k] /\ reset'[k] = reset[k]
        /\ uncounted'[m] = uncounted[m] /\ Ticks(m)' = Ticks(m)
    BY <1>5 DEF SavesOne, SameCounts, k
  <2> QED
    BY <2>1, <2>2, <2>3, <2>4, <1>t, <1>c, <1>f, <1>r, <1>i, <1>m
<1>6. CASE OthersTick(m) \/ CounterLapses(m)
  <2>1. Q = P /\ T = S /\ hh <= h /\ uu = u /\ vv = v
    BY <1>6, <1>sp, <1>sr, <1>so DEF OthersTick, CounterLapses, SameOpen, u, uu, v, vv
  <2>2. IsFiniteSet(MessagesOf(posted, m)') /\ IsFiniteSet(MessagesOf(saved, m)')
    BY <1>6, <1>sp, <1>sr DEF OthersTick, CounterLapses
  <2>3. CASE OthersTick(m)
    <3>1. /\ reset'[k] = reset[k] /\ uncounted'[m] = uncounted[m]
          /\ \/ cnt'[k] = cnt[k] + 1 /\ Ticks(m)' = Ticks(m) + 1
             \/ (cnt'[k] = cnt[k] \/ cnt'[k] = cnt[k] + 1) /\ mishaps' # 0
      BY <2>3 DEF OthersTick, k
    <3> QED
      BY <3>1, <2>1, <2>2, <1>t, <1>c, <1>f, <1>r, <1>i, <1>m
  <2>4. CASE CounterLapses(m)
    <3>1. /\ cnt'[k] = 0 /\ reset'[k] = reset[k] + 1
          /\ uncounted'[m] = uncounted[m] /\ Ticks(m)' = Ticks(m)
      BY <2>4 DEF CounterLapses, k
    <3>2. Cap(reset'[k]) = Cap(1 + reset[k])
      <4>1. reset'[k] = 1 + reset[k]
        BY <3>1, <1>t
      <4> QED
        BY <4>1
    <3> QED
      BY <3>1, <3>2, <2>1, <2>2, <1>t, <1>c, <1>f, <1>r, <1>i, <1>m
  <2> QED
    BY <1>6, <2>3, <2>4
<1>7. CASE StartsOver(m)
  <2>1. Q = P /\ T = S
    BY <1>7, <1>sp, <1>sr DEF StartsOver
  <2>2. IsFiniteSet(MessagesOf(posted, m)') /\ IsFiniteSet(MessagesOf(saved, m)')
    BY <1>7, <1>sp, <1>sr DEF StartsOver
  <2>3. hh = 0 /\ uu = 0
    BY <1>7, FS_EmptySet DEF StartsOver, hh, uu
  <2>4. /\ cnt'[k] = cnt[k] /\ reset'[k] = reset[k]
        /\ uncounted'[m] = uncounted[m] + u /\ crashes' # 0
    BY <1>7 DEF StartsOver, k, u
  <2> QED
    BY <2>1, <2>2, <2>3, <2>4, <1>t, <1>c, <1>f, <1>r, <1>i, <1>m
<1>8. \/ StandsBy(m) \/ OthersTick(m) \/ CounterLapses(m) \/ StartsOver(m)
      \/ \E a \in Claims :
           PassesCap(a, m) \/ PostsOne(a, m) \/ CountsOne(a, m) \/ SavesOne(a, m)
  BY DEF LedgerMoves
<1> QED
  BY <1>1, <1>2, <1>3, <1>4, <1>5, <1>6, <1>7, <1>8, Zenon

LEMMA UncountedStep ==
  ASSUME PipelineTypeOK, [Next]_vars, uncounted \in [Matches -> Nat]
  PROVE  uncounted' \in [Matches -> Nat]
<1>1. CASE Restart
  <2>1. ASSUME NEW m \in Matches
        PROVE  Cardinality({c \in Claims : /\ \/ hpc[c] \in {"push", "count"}
                                              \/ hpc[c] = "save" /\ quiet[c]
                                           /\ Current(c).match = m}) \in Nat
    <3> DEFINE G == {c \in Claims : /\ \/ hpc[c] \in {"push", "count"}
                                       \/ hpc[c] = "save" /\ quiet[c]
                                    /\ Current(c).match = m}
    <3>1. G \in SUBSET Claims
      OBVIOUS
    <3> QED
      BY <3>1, ClaimSets
  <2> QED
    BY <1>1, <2>1 DEF Restart
<1>2. ASSUME NEW a \in Claims, IncrTotalMessagesFails(a) PROVE uncounted' \in [Matches -> Nat]
  BY <1>2 DEF IncrTotalMessagesFails
<1>3. CASE ~Restart /\ ~\E a \in Claims : IncrTotalMessagesFails(a)
  <2>r. \A m \in Matches : RoomStep(m) => uncounted' = uncounted
    BY RoomStepIs DEF Away
  <2>1. uncounted' = uncounted
    BY <1>3, <2>r DEF Next, ClaimStep, ClaimFault, SkipGarbage, ParseMessage, BeginEvent,
      FinishMessage, Policy, PolicyFault, Verdict, Prepare, ReadShadowKey, ReadShadowKeyFails,
      Publish, PublishLost, PublishFails, PushChatMessage, IncrTotalMessages, ExpireTotal,
      SaveBotMessage, AutoCommit, SetKill, SetShadowBan, KeysAge, vars,
      handlerVars, outcomes
  <2> QED
    BY <2>1
<1> QED
  BY <1>1, <1>2, <1>3

(* A claim that neither posts, counts nor saves, nor gets past the cap. *)
LEMMA ClaimStandsBy ==
  ASSUME NEW a \in Claims, NEW m, OthersStay(a),
         SamePosts(m), SameRows(m), SameCounts(m),
         m \in HeadingFor(a)' => m \in HeadingFor(a),
         m \in UncountedFor(a)' <=> m \in UncountedFor(a),
         m \in UnsavedFor(a)' <=> m \in UnsavedFor(a)
  PROVE  StandsBy(m)
<1>1. a \in Uncounted(m) <=> m \in UncountedFor(a)'
  BY DEF Uncounted
<1>2. a \in Unsaved(m) <=> m \in UnsavedFor(a)'
  BY DEF Unsaved
<1>3. Uncounted(m)' = Uncounted(m)
  <2>1. /\ m \in UncountedFor(a)' => Uncounted(m)' = Uncounted(m) \cup {a}
        /\ m \notin UncountedFor(a)' => Uncounted(m)' = Uncounted(m) \ {a}
    BY LedgerOthers
  <2> QED
    BY <2>1, <1>1
<1>6. Unsaved(m)' = Unsaved(m)
  <2>1. /\ m \in UnsavedFor(a)' => Unsaved(m)' = Unsaved(m) \cup {a}
        /\ m \notin UnsavedFor(a)' => Unsaved(m)' = Unsaved(m) \ {a}
    BY LedgerOthers
  <2> QED
    BY <2>1, <1>2
<1>4. Heading(m)' \subseteq Heading(m)
  BY LedgerOthers
<1> QED
  BY <1>3, <1>4, <1>6 DEF StandsBy, SameOpen

LEMMA ParseLedger ==
  ASSUME PipelineTypeOK, NEW a \in Claims, NEW m,
         SkipGarbage(a) \/ ParseMessage(a) \/ FinishMessage(a) \/ AutoCommit(a) \/ BeginEvent(a)
  PROVE  LedgerMoves(m)
<1>t. Typed /\ TypeOK
  BY TypeParts DEF Typed
<1>u. UNCHANGED <<cnt, reset, uncounted, roomVars, posted, saved, mishaps, crashes>>
  BY DEF SkipGarbage, ParseMessage, FinishMessage, AutoCommit, BeginEvent, Refuse, Admit,
    gateVars, store, history, outcomes
<1>s. SameCounts(m) /\ SamePosts(m) /\ SameRows(m)
  BY <1>u DEF SameCounts, Ticks, roomVars, SamePosts, SameRows, MessagesOf
<1>1. OthersStay(a)
  <2>1. CASE AutoCommit(a)
    BY <2>1 DEF AutoCommit, gateVars, locals, OthersStay
  <2>2. CASE SkipGarbage(a) \/ ParseMessage(a) \/ FinishMessage(a)
    BY <2>2, <1>t DEF SkipGarbage, ParseMessage, FinishMessage, MarkMessage, Step, Typed,
        gateVars, OthersStay
  <2>3. CASE BeginEvent(a)
    BY <2>3, <1>t DEF BeginEvent, Refuse, Admit, Goto, Step, Typed, TypeOK, OthersStay
  <2> QED
    BY <2>1, <2>2, <2>3
<1>2. CASE AutoCommit(a)
  <2>1. /\ HeadingFor(a)' = HeadingFor(a) /\ UncountedFor(a)' = UncountedFor(a)
        /\ UnsavedFor(a)' = UnsavedFor(a)
    BY <1>2 DEF AutoCommit, gateVars, locals, HeadingFor, UncountedFor, UnsavedFor, Current, Message
  <2> QED
    BY <2>1, <1>u, <1>s, <1>1, ClaimStandsBy DEF LedgerMoves
<1>3. CASE ~AutoCommit(a)
  <2>1. /\ hpc[a] \in {"poll", "loop"}
        /\ \/ hpc'[a] \in {"poll", "loop"}
           \/ hpc'[a] = "policy" /\ gpc'[a] \in {"skip", "globalForLeague"}
    BY <1>3, <1>t DEF SkipGarbage, ParseMessage, FinishMessage, BeginEvent, MarkMessage, Step,
      Typed, Refuse, Admit, Goto, TypeOK
  <2>2. /\ m \notin HeadingFor(a)' /\ UncountedFor(a)' = UncountedFor(a)
        /\ UnsavedFor(a)' = UnsavedFor(a)
    BY <2>1 DEF HeadingFor, UncountedFor, UnsavedFor, ShadowSteps
  <2> QED
    BY <2>2, <1>u, <1>s, <1>1, ClaimStandsBy DEF LedgerMoves
<1> QED
  BY <1>2, <1>3

LEMMA PolicyLedger ==
  ASSUME PipelineTypeOK, NEW a \in Claims, NEW m \in Matches, Policy(a) \/ PolicyFault(a)
  PROVE  LedgerMoves(m)
<1>t. Typed /\ TypeOK
  BY TypeParts DEF Typed
<1>h. hpc[a] = "policy"
      /\ UNCHANGED <<hpc, pos, idx, quiet, roomVars, uncounted, posted, saved, mishaps, crashes>>
  BY DEF Policy, PolicyFault, handlerVars, locals, outcomes
<1>g. GateStep(a) \/ GateFault(a)
  BY DEF Policy, PolicyFault
<1>o. /\ gpc[a] # "idle" /\ ev' = ev /\ OthersStay(a)
  BY <1>t, <1>g, <1>h, GateMoves DEF OthersStay
<1>k. cnt'[TotalKey(m)] = cnt[TotalKey(m)]
  <2>1. cnt' = cnt \/ Bump(Key(a))
    BY <1>g DEF GateStep, GateFault, ReadKillKey, SetDedupKey, ReadTypeCounter, ReadHourCounter,
      ReadTotalCounter, IncrementCounter, ExpireCounter, CheckBotRatio, ReadKillKeyFails,
      SetDedupKeyFails, ReadCounterFails, IncrementCounterFails, ExpireCounterFails,
      CheckBotRatioFails, store
  <2>2. Key(a) # TotalKey(m)
    BY DEF Key, TotalKey, TypeKey, HourKey
  <2>3. TotalKey(m) \in CounterKeys
    BY DEF CounterKeys, TotalKeys
  <2> QED
    BY <1>t, <2>1, <2>2, <2>3 DEF Bump, TypeOK
<1>r. reset' = reset
  BY <1>g DEF GateStep, GateFault, ReadKillKey, SetDedupKey, ReadTypeCounter, ReadHourCounter,
    ReadTotalCounter, IncrementCounter, ExpireCounter, CheckBotRatio, ReadKillKeyFails,
    SetDedupKeyFails, ReadCounterFails, IncrementCounterFails, ExpireCounterFails,
    CheckBotRatioFails, history
<1>s. SameCounts(m) /\ SamePosts(m) /\ SameRows(m)
  BY <1>h, <1>k, <1>r DEF SameCounts, Ticks, roomVars, SamePosts, SameRows, MessagesOf
<1>n. /\ UncountedFor(a) = {} /\ UncountedFor(a)' = {}
      /\ UnsavedFor(a) = {} /\ UnsavedFor(a)' = {}
  BY <1>h DEF UncountedFor, UnsavedFor
<1>1. CASE m \in HeadingFor(a)' => m \in HeadingFor(a)
  BY <1>1, <1>h, <1>s, <1>n, <1>o, ClaimStandsBy DEF LedgerMoves
<1>2. CASE m \in HeadingFor(a)' /\ m \notin HeadingFor(a)
  <2>1. gpc'[a] \in {"ratio", "pass"} /\ m = ev[a].match /\ gpc[a] \notin {"ratio", "pass"}
    BY <1>2, <1>h, <1>o DEF HeadingFor
  <2>2. ReadTotalCounter(a)
    BY <2>1, <1>g, <1>t DEF GateStep, GateFault, ReadKillKey, SetDedupKey, ReadTypeCounter,
      ReadHourCounter, IncrementCounter, ExpireCounter, CheckBotRatio, ReadKillKeyFails,
      SetDedupKeyFails, ReadCounterFails, IncrementCounterFails, ExpireCounterFails,
      CheckBotRatioFails, Goto, TypeOK, KillSteps, Incrementing, Expiring, NextKillRead,
      KillCallFailed, ExpireStep, AfterCounter
  <2>3. cnt[TotalKey(m)] < MaxMessagesBot
    <3>1. ~(cnt[TotalKey(m)] >= MaxMessagesBot)
      BY <2>1, <2>2, <1>t DEF ReadTotalCounter, Goto, TypeOK
    <3>2. TotalKey(m) \in CounterKeys
      BY DEF CounterKeys, TotalKeys
    <3> QED
      BY <3>1, <3>2, <1>t, LimitsAssumption DEF TypeOK
  <2>4. a \notin Uncounted(m) /\ a \notin Unsaved(m)
    BY <1>n DEF Uncounted, Unsaved
  <2>5. SameOpen(m) /\ Heading(m)' \subseteq Heading(m) \cup {a}
    <3>1. m \notin UncountedFor(a)' /\ m \notin UnsavedFor(a)'
      BY <1>n
    <3>2. Heading(m)' \subseteq Heading(m) \cup {a}
      BY <1>o, LedgerOthers
    <3>3. Uncounted(m)' = Uncounted(m) \ {a} /\ Unsaved(m)' = Unsaved(m) \ {a}
      BY <3>1, <1>o, LedgerOthers
    <3> QED
      BY <2>4, <3>2, <3>3 DEF SameOpen
  <2>7. PassesCap(a, m)
    BY <1>s, <2>3, <2>4, <2>5 DEF PassesCap
  <2> QED
    BY <2>7, <1>h DEF LedgerMoves
<1> QED
  BY <1>1, <1>2

(* A claim past the gate: where it goes, and what of the ledgers it touches. *)
LEMMA EventPath ==
  ASSUME PipelineTypeOK, NEW a \in Claims,
         \/ Verdict(a) \/ Prepare(a) \/ ReadShadowKey(a) \/ ReadShadowKeyFails(a)
         \/ Publish(a) \/ PublishLost(a) \/ PublishFails(a) \/ PushChatMessage(a)
         \/ IncrTotalMessages(a) \/ IncrTotalMessagesFails(a) \/ ExpireTotal(a)
         \/ SaveBotMessage(a)
  PROVE  /\ OthersStay(a) /\ hpc[a] \notin {"poll", "loop"} /\ Current(a) \in Events
         /\ \/ hpc'[a] = "loop"
            \/ /\ hpc'[a] \in HandlerSteps \ {"poll", "loop", "policy"}
               /\ pos'[a] = pos[a] /\ idx'[a] = idx[a]
         /\ (mishaps' = 0 => mishaps = 0) /\ UNCHANGED <<crashes, roomVars, reset>>
<1>t. Typed /\ TypeOK /\ ClaimOK(a)
  BY TypeParts DEF Typed
<1>g. \A d \in Claims \ {a} : gpc'[d] = gpc[d] /\ ev'[d] = ev[d]
  BY <1>t DEF Verdict, Return, Goto, Prepare, ReadShadowKey, ReadShadowKeyFails, Publish,
    PublishLost, PublishFails, PushChatMessage, IncrTotalMessages, IncrTotalMessagesFails,
    ExpireTotal, SaveBotMessage, gateVars, claimVars, TypeOK
<1>d. UNCHANGED <<roomVars, reset, crashes>>
  BY DEF Verdict, Return, Prepare, ReadShadowKey, ReadShadowKeyFails, Publish, PublishLost,
    PublishFails, PushChatMessage, IncrTotalMessages, IncrTotalMessagesFails, ExpireTotal,
    SaveBotMessage, gateVars, outcomes, history
<1>m. mishaps' = 0 => mishaps = 0
  <2>1. mishaps \in Nat
    BY <1>t, PipelineAssumption DEF Typed
  <2>2. mishaps' = mishaps \/ Mishap
    BY DEF Verdict, Prepare, ReadShadowKey, ReadShadowKeyFails, Publish, PublishLost,
      PublishFails, PushChatMessage, IncrTotalMessages, IncrTotalMessagesFails, ExpireTotal,
      SaveBotMessage
  <2> QED
    BY <2>1, <2>2 DEF Mishap
<1>p. \/ EndEvent(a)
      \/ \E s \in HandlerSteps \ {"poll", "loop", "policy"} :
           Step(a, s) /\ UNCHANGED <<pos, idx>>
  <2>n. \A s \in ShadowSteps : NextShadowRead(s) \in HandlerSteps \ {"poll", "loop", "policy"}
    BY DEF NextShadowRead, ShadowSteps, HandlerSteps
  <2> QED
    BY <2>n DEF Verdict, Prepare, ReadShadowKey, ReadShadowKeyFails, Publish, PublishLost,
      PublishFails, PushChatMessage, IncrTotalMessages, IncrTotalMessagesFails, ExpireTotal,
      SaveBotMessage, AfterPush, FinishCount, FinishSave, HandlerSteps, ShadowSteps, outcomes
<1>q. quiet' = quiet \/ \E b \in BOOLEAN : quiet' = [quiet EXCEPT ![a] = b]
  BY DEF Verdict, Prepare, ReadShadowKey, ReadShadowKeyFails, Publish, PublishLost,
      PublishFails, PushChatMessage, IncrTotalMessages, IncrTotalMessagesFails, ExpireTotal,
      SaveBotMessage, FinishCount, FinishSave, EndEvent
<1>o. \A d \in Claims \ {a} : hpc'[d] = hpc[d] /\ pos'[d] = pos[d] /\ idx'[d] = idx[d]
  BY <1>p, <1>t DEF EndEvent, Step, Typed
<1>r. \A d \in Claims \ {a} : quiet'[d] = quiet[d]
  BY <1>q, <1>t DEF Typed
<1>h. hpc[a] \notin {"poll", "loop"}
  BY DEF Verdict, Prepare, ReadShadowKey, ReadShadowKeyFails, Publish, PublishLost,
    PublishFails, PushChatMessage, IncrTotalMessages, IncrTotalMessagesFails, ExpireTotal,
    SaveBotMessage, ShadowSteps
<1>c. Current(a) \in Events
  BY <1>h, <1>t, CurrentType DEF ClaimOK
<1>w. \/ hpc'[a] = "loop"
      \/ /\ hpc'[a] \in HandlerSteps \ {"poll", "loop", "policy"}
         /\ pos'[a] = pos[a] /\ idx'[a] = idx[a]
  BY <1>p, <1>t DEF EndEvent, Step, Typed
<1> QED
  BY <1>g, <1>d, <1>m, <1>o, <1>r, <1>h, <1>c, <1>w DEF OthersStay

(* Where a claim is past the gate, it concerns the match of its event only. *)
LEMMA LedgerMatch ==
  ASSUME PipelineTypeOK, NEW a \in Claims, hpc[a] \notin {"poll", "loop"},
         \/ hpc'[a] = "loop"
         \/ /\ hpc'[a] \in HandlerSteps \ {"poll", "loop", "policy"}
            /\ pos'[a] = pos[a] /\ idx'[a] = idx[a]
  PROVE  LET m == Current(a).match IN
         /\ HeadingFor(a) \subseteq {m} /\ HeadingFor(a)' \subseteq {m}
         /\ UncountedFor(a) \subseteq {m} /\ UncountedFor(a)' \subseteq {m}
         /\ UnsavedFor(a) \subseteq {m} /\ UnsavedFor(a)' \subseteq {m}
         /\ m \in HeadingFor(a) <=> \/ hpc[a] = "policy" /\ gpc[a] \in {"ratio", "pass"}
                                    \/ hpc[a] \in {"prepare", "publish"} \cup ShadowSteps
         /\ m \in UncountedFor(a) <=> \/ hpc[a] \in {"push", "count"}
                                      \/ hpc[a] = "save" /\ quiet[a]
         /\ m \in UnsavedFor(a) <=> \/ hpc[a] \in {"push", "save"}
                                    \/ hpc[a] \in {"count", "expire"} /\ ~quiet[a]
         /\ m \in HeadingFor(a)' <=> hpc'[a] \in {"prepare", "publish"} \cup ShadowSteps
         /\ m \in UncountedFor(a)' <=> \/ hpc'[a] \in {"push", "count"}
                                       \/ hpc'[a] = "save" /\ quiet'[a]
         /\ m \in UnsavedFor(a)' <=> \/ hpc'[a] \in {"push", "save"}
                                     \/ hpc'[a] \in {"count", "expire"} /\ ~quiet'[a]
<1> DEFINE m == Current(a).match
<1>1. hpc[a] = "policy" => ev[a] = Current(a)
  BY TypeParts DEF ClaimOK
<1>2. hpc'[a] # "loop" => Current(a)' = Current(a)
  BY DEF Current, Message
<1>3. /\ HeadingFor(a) \subseteq {m}
      /\ m \in HeadingFor(a) <=> \/ hpc[a] = "policy" /\ gpc[a] \in {"ratio", "pass"}
                                 \/ hpc[a] \in {"prepare", "publish"} \cup ShadowSteps
  BY <1>1 DEF HeadingFor, ShadowSteps
<1>4. /\ UncountedFor(a) \subseteq {m} /\ UnsavedFor(a) \subseteq {m}
      /\ m \in UncountedFor(a) <=> hpc[a] \in {"push", "count"} \/ (hpc[a] = "save" /\ quiet[a])
      /\ m \in UnsavedFor(a) <=> \/ hpc[a] \in {"push", "save"}
                                 \/ hpc[a] \in {"count", "expire"} /\ ~quiet[a]
  BY DEF UncountedFor, UnsavedFor
<1>5. /\ HeadingFor(a)' \subseteq {m}
      /\ m \in HeadingFor(a)' <=> hpc'[a] \in {"prepare", "publish"} \cup ShadowSteps
  BY <1>2 DEF HeadingFor, ShadowSteps
<1>6. /\ UncountedFor(a)' \subseteq {m}
      /\ m \in UncountedFor(a)' <=> hpc'[a] \in {"push", "count"} \/ (hpc'[a] = "save" /\ quiet'[a])
  BY <1>2 DEF UncountedFor
<1>7. /\ UnsavedFor(a)' \subseteq {m}
      /\ m \in UnsavedFor(a)' <=> \/ hpc'[a] \in {"push", "save"}
                                  \/ hpc'[a] \in {"count", "expire"} /\ ~quiet'[a]
  BY <1>2 DEF UnsavedFor
<1> QED
  BY <1>3, <1>4, <1>5, <1>6, <1>7

LEMMA EventElsewhere ==
  ASSUME PipelineTypeOK, uncounted \in [Matches -> Nat],
         NEW a \in Claims, NEW m \in Matches, Current(a).match # m,
         \/ Verdict(a) \/ Prepare(a) \/ ReadShadowKey(a) \/ ReadShadowKeyFails(a)
         \/ Publish(a) \/ PublishLost(a) \/ PublishFails(a) \/ PushChatMessage(a)
         \/ IncrTotalMessages(a) \/ IncrTotalMessagesFails(a) \/ ExpireTotal(a)
         \/ SaveBotMessage(a)
  PROVE  LedgerMoves(m)
<1>t. Typed /\ TypeOK
  BY TypeParts DEF Typed
<1>p. /\ OthersStay(a) /\ Current(a) \in Events
      /\ (mishaps' = 0 => mishaps = 0) /\ UNCHANGED <<crashes, roomVars, reset>>
  BY EventPath
<1>1. /\ m \notin HeadingFor(a)' /\ m \notin UncountedFor(a) /\ m \notin UncountedFor(a)'
      /\ m \notin UnsavedFor(a) /\ m \notin UnsavedFor(a)'
  BY EventPath, LedgerMatch
<1>2. SamePosts(m) /\ SameRows(m)
  <2>1. posted' = posted \/ posted' = Bumped(posted, Current(a))
    BY DEF Verdict, Prepare, ReadShadowKey, ReadShadowKeyFails, Publish, PublishLost,
      PublishFails, PushChatMessage, IncrTotalMessages, IncrTotalMessagesFails, ExpireTotal,
      SaveBotMessage, Post, Bumped, outcomes
  <2>2. saved' = saved \/ saved' = Bumped(saved, Current(a))
    BY DEF Verdict, Prepare, ReadShadowKey, ReadShadowKeyFails, Publish, PublishLost,
      PublishFails, PushChatMessage, IncrTotalMessages, IncrTotalMessagesFails, ExpireTotal,
      SaveBotMessage, Bumped, outcomes
  <2>3. posted \in [Events -> Nat] /\ saved \in [Events -> Nat]
    BY <1>t DEF Typed
  <2>4. /\ MessagesOf(Bumped(posted, Current(a)), m) = MessagesOf(posted, m)
        /\ MessagesOf(Bumped(saved, Current(a)), m) = MessagesOf(saved, m)
    BY <2>3, <1>p, MessageElsewhere
  <2>5. MessagesOf(posted, m)' = MessagesOf(posted, m)
    BY <2>1, <2>4 DEF MessagesOf
  <2>6. MessagesOf(saved, m)' = MessagesOf(saved, m)
    BY <2>2, <2>4 DEF MessagesOf
  <2> QED
    BY <2>5, <2>6 DEF SamePosts, SameRows
<1>3. SameCounts(m)
  <2>1. cnt' = cnt \/ Bump(TotalKey(Current(a).match))
    BY DEF Verdict, Return, Prepare, ReadShadowKey, ReadShadowKeyFails, Publish, PublishLost,
      PublishFails, PushChatMessage, IncrTotalMessages, IncrTotalMessagesFails, ExpireTotal,
      SaveBotMessage, gateVars, store
  <2>2. TotalKey(m) # TotalKey(Current(a).match) /\ TotalKey(m) \in CounterKeys
    BY DEF TotalKey, TotalKeys, CounterKeys
  <2>3. cnt'[TotalKey(m)] = cnt[TotalKey(m)]
    BY <2>1, <2>2, <1>t DEF Bump, TypeOK
  <2>4. uncounted' = uncounted \/ uncounted' = [uncounted EXCEPT ![Current(a).match] = @ + 1]
    BY DEF Verdict, Prepare, ReadShadowKey, ReadShadowKeyFails, Publish, PublishLost,
      PublishFails, PushChatMessage, IncrTotalMessages, IncrTotalMessagesFails, ExpireTotal,
      SaveBotMessage, outcomes
  <2> QED
    BY <2>3, <2>4, <1>p DEF SameCounts, Ticks, roomVars
<1> QED
  BY <1>p, <1>1, <1>2, <1>3, ClaimStandsBy DEF LedgerMoves

LEMMA EventLedger ==
  ASSUME PipelineTypeOK, uncounted \in [Matches -> Nat],
         NEW a \in Claims, NEW m \in Matches,
         \/ Verdict(a) \/ Prepare(a) \/ ReadShadowKey(a) \/ ReadShadowKeyFails(a)
         \/ Publish(a) \/ PublishLost(a) \/ PublishFails(a) \/ PushChatMessage(a)
         \/ IncrTotalMessages(a) \/ IncrTotalMessagesFails(a) \/ ExpireTotal(a)
         \/ SaveBotMessage(a)
  PROVE  LedgerMoves(m)
<1>t. Typed /\ TypeOK
  BY TypeParts DEF Typed
<1>p. /\ OthersStay(a) /\ Current(a) \in Events
      /\ (mishaps' = 0 => mishaps = 0) /\ UNCHANGED <<crashes, roomVars, reset>>
      /\ mishaps \in Nat
  BY <1>t, EventPath, PipelineAssumption DEF Typed
<1>k. TotalKey(m) \in CounterKeys /\ cnt[TotalKey(m)] \in Nat
  BY <1>t DEF TotalKeys, CounterKeys, TypeOK
<1>0. CASE Current(a).match # m
  BY <1>0, EventElsewhere
<1> SUFFICES ASSUME Current(a).match = m PROVE LedgerMoves(m)
  BY <1>0
<1>l. /\ m \in HeadingFor(a) <=> \/ hpc[a] = "policy" /\ gpc[a] \in {"ratio", "pass"}
                                 \/ hpc[a] \in {"prepare", "publish"} \cup ShadowSteps
      /\ m \in UncountedFor(a) <=> \/ hpc[a] \in {"push", "count"}
                                   \/ hpc[a] = "save" /\ quiet[a]
      /\ m \in UnsavedFor(a) <=> \/ hpc[a] \in {"push", "save"}
                                 \/ hpc[a] \in {"count", "expire"} /\ ~quiet[a]
      /\ m \in HeadingFor(a)' <=> hpc'[a] \in {"prepare", "publish"} \cup ShadowSteps
      /\ m \in UncountedFor(a)' <=> \/ hpc'[a] \in {"push", "count"}
                                    \/ hpc'[a] = "save" /\ quiet'[a]
      /\ m \in UnsavedFor(a)' <=> \/ hpc'[a] \in {"push", "save"}
                                  \/ hpc'[a] \in {"count", "expire"} /\ ~quiet'[a]
  BY EventPath, LedgerMatch
<1>i. ASSUME UNCHANGED <<posted, saved, cnt, uncounted>>,
             m \in HeadingFor(a)' => m \in HeadingFor(a),
             m \in UncountedFor(a)' <=> m \in UncountedFor(a),
             m \in UnsavedFor(a)' <=> m \in UnsavedFor(a)
      PROVE  LedgerMoves(m)
  <2>1. SamePosts(m) /\ SameRows(m) /\ SameCounts(m)
    BY <1>i, <1>p DEF SamePosts, SameRows, SameCounts, Ticks, roomVars, MessagesOf
  <2> QED
    BY <2>1, <1>i, <1>p, ClaimStandsBy DEF LedgerMoves
<1>e. EndEvent(a) => hpc'[a] = "loop"
  BY <1>t DEF EndEvent, Step, Typed
<1>s. \A s : Step(a, s) => hpc'[a] = s
  BY <1>t DEF Step, Typed
<1>1. CASE Verdict(a)
  <2>1. UNCHANGED <<posted, saved, cnt, uncounted>> /\ hpc[a] = "policy"
    BY <1>1 DEF Verdict, Return, store
  <2>2. hpc'[a] = "loop" \/ (hpc'[a] = "prepare" /\ gpc[a] = "pass")
    BY <1>1, <1>e, <1>s DEF Verdict
  <2>3. /\ m \in HeadingFor(a)' => m \in HeadingFor(a)
        /\ m \notin UncountedFor(a)' /\ m \notin UncountedFor(a)
        /\ m \notin UnsavedFor(a)' /\ m \notin UnsavedFor(a)
    BY <2>1, <2>2, <1>l DEF ShadowSteps
  <2> QED
    BY <2>1, <2>3, <1>i
<1>2. CASE Prepare(a)
  <2>1. UNCHANGED <<posted, saved, cnt, uncounted>> /\ hpc[a] = "prepare"
    BY <1>2 DEF Prepare, gateVars
  <2>2. hpc'[a] \in {"loop", "shadowGlobal"}
    BY <1>2, <1>e, <1>s DEF Prepare
  <2>3. /\ m \in HeadingFor(a)' => m \in HeadingFor(a)
        /\ m \notin UncountedFor(a)' /\ m \notin UncountedFor(a)
        /\ m \notin UnsavedFor(a)' /\ m \notin UnsavedFor(a)
    BY <2>1, <2>2, <1>l DEF ShadowSteps
  <2> QED
    BY <2>1, <2>3, <1>i
<1>o. ASSUME hpc[a] \in {"publish"} \cup ShadowSteps, hpc'[a] = "push",
             posted' = Bumped(posted, Current(a)), UNCHANGED <<saved, cnt, uncounted>>
      PROVE  LedgerMoves(m)
  <2>1. /\ m \in HeadingFor(a) /\ m \notin HeadingFor(a)'
        /\ m \notin UncountedFor(a) /\ m \in UncountedFor(a)'
        /\ m \notin UnsavedFor(a) /\ m \in UnsavedFor(a)'
    BY <1>o, <1>l DEF ShadowSteps
  <2>2. a \in Heading(m) /\ a \notin Uncounted(m) /\ a \notin Unsaved(m)
    BY <2>1 DEF Heading, Uncounted, Unsaved
  <2>3. /\ Heading(m)' \subseteq Heading(m) \ {a} /\ Uncounted(m)' = Uncounted(m) \cup {a}
        /\ Unsaved(m)' = Unsaved(m) \cup {a}
    BY <2>1, <1>p, LedgerOthers
  <2>4. SameCounts(m) /\ SameRows(m)
    BY <1>o, <1>p DEF SameCounts, Ticks, roomVars, SameRows, MessagesOf
  <2>5. PostsOne(a, m)
    BY <1>o, <1>p, <2>2, <2>3, <2>4 DEF PostsOne
  <2> QED
    BY <2>5, <1>p DEF LedgerMoves
<1>3. CASE ReadShadowKey(a)
  <2>1. UNCHANGED <<saved, cnt, uncounted>> /\ hpc[a] \in ShadowSteps
    BY <1>3 DEF ReadShadowKey, gateVars
  <2>2. CASE ShadowScope(hpc[a], Current(a)) \in shadow
    <3>1. hpc'[a] = "push" /\ posted' = Bumped(posted, Current(a))
      BY <1>3, <2>2, <1>s DEF ReadShadowKey, Post, Bumped
    <3> QED
      BY <2>1, <3>1, <1>o
  <2>3. CASE ShadowScope(hpc[a], Current(a)) \notin shadow
    <3>1. hpc'[a] \in {"publish"} \cup ShadowSteps /\ posted' = posted
      BY <1>3, <2>3, <1>s DEF ReadShadowKey, NextShadowRead, ShadowSteps
    <3>2. /\ m \in HeadingFor(a)' => m \in HeadingFor(a)
          /\ m \notin UncountedFor(a)' /\ m \notin UncountedFor(a)
          /\ m \notin UnsavedFor(a)' /\ m \notin UnsavedFor(a)
      BY <2>1, <3>1, <1>l DEF ShadowSteps
    <3> QED
      BY <2>1, <3>1, <3>2, <1>i
  <2> QED
    BY <2>2, <2>3
<1>4. CASE ReadShadowKeyFails(a)
  <2>1. UNCHANGED <<posted, saved, cnt, uncounted>> /\ hpc[a] \in ShadowSteps
    BY <1>4 DEF ReadShadowKeyFails, gateVars, outcomes
  <2>2. hpc'[a] = "publish"
    BY <1>4, <1>s DEF ReadShadowKeyFails
  <2>3. /\ m \in HeadingFor(a)' => m \in HeadingFor(a)
        /\ m \notin UncountedFor(a)' /\ m \notin UncountedFor(a)
        /\ m \notin UnsavedFor(a)' /\ m \notin UnsavedFor(a)
    BY <2>1, <2>2, <1>l DEF ShadowSteps
  <2> QED
    BY <2>1, <2>3, <1>i
<1>5. CASE Publish(a) \/ PublishLost(a)
  <2>1. /\ UNCHANGED <<saved, cnt, uncounted>> /\ hpc[a] = "publish"
        /\ posted' = Bumped(posted, Current(a)) /\ hpc'[a] = "push"
    BY <1>5, <1>s DEF Publish, PublishLost, gateVars, Post, Bumped
  <2> QED
    BY <2>1, <1>o
<1>6. CASE PublishFails(a)
  <2>1. /\ UNCHANGED <<posted, saved, cnt, uncounted>> /\ hpc[a] = "publish"
        /\ hpc'[a] = "loop"
    BY <1>6, <1>e DEF PublishFails, gateVars
  <2>3. /\ m \notin HeadingFor(a)'
        /\ m \notin UncountedFor(a)' /\ m \notin UncountedFor(a)
        /\ m \notin UnsavedFor(a)' /\ m \notin UnsavedFor(a)
    BY <2>1, <1>l DEF ShadowSteps
  <2> QED
    BY <2>1, <2>3, <1>i
<1>7. CASE PushChatMessage(a)
  <2>1. /\ UNCHANGED <<posted, saved, cnt, uncounted, quiet>> /\ hpc[a] = "push"
        /\ hpc'[a] = IF quiet[a] THEN "save" ELSE "count"
    BY <1>7, <1>s DEF PushChatMessage, AfterPush, outcomes
  <2>3. /\ m \notin HeadingFor(a)'
        /\ m \in UncountedFor(a)' /\ m \in UncountedFor(a)
        /\ m \in UnsavedFor(a)' /\ m \in UnsavedFor(a)
    BY <2>1, <1>l DEF ShadowSteps
  <2> QED
    BY <2>1, <2>3, <1>i
<1>f. ASSUME FinishCount(a)
      PROVE  \/ hpc'[a] = "loop" /\ quiet[a]
             \/ hpc'[a] = "save" /\ ~quiet[a] /\ quiet' = quiet
  <2>1. CASE quiet[a]
    BY <1>f, <2>1, <1>e, Zenon DEF FinishCount
  <2>2. CASE ~quiet[a]
    <3>1. Step(a, "save") /\ quiet' = quiet
      BY <1>f, <2>2, Zenon DEF FinishCount
    <3> QED
      BY <2>2, <3>1, <1>s
  <2> QED
    BY <2>1, <2>2
<1>8. CASE IncrTotalMessages(a) \/ IncrTotalMessagesFails(a)
  <2>1. /\ UNCHANGED <<posted, saved>> /\ hpc[a] = "count"
        /\ \/ Bump(TotalKey(m)) /\ uncounted' = uncounted
           \/ /\ cnt' = cnt /\ uncounted' = [uncounted EXCEPT ![m] = @ + 1]
              /\ Mishap
    BY <1>8 DEF IncrTotalMessages, IncrTotalMessagesFails
  <2>2. \/ hpc'[a] = "expire" /\ quiet' = quiet
        \/ hpc'[a] = "loop" /\ quiet[a]
        \/ hpc'[a] = "save" /\ ~quiet[a] /\ quiet' = quiet
    <3>1. FinishCount(a) \/ (Step(a, "expire") /\ quiet' = quiet)
      BY <1>8 DEF IncrTotalMessages, IncrTotalMessagesFails
    <3> QED
      BY <3>1, <1>f, <1>s, Zenon
  <2>3. /\ m \notin HeadingFor(a)'
        /\ m \notin UncountedFor(a)' /\ m \in UncountedFor(a)
        /\ m \in UnsavedFor(a)' <=> m \in UnsavedFor(a)
    BY <2>1, <2>2, <1>l DEF ShadowSteps
  <2>4. a \in Uncounted(m) /\ (a \in Unsaved(m) <=> m \in UnsavedFor(a)')
    BY <2>3 DEF Uncounted, Unsaved
  <2>5. /\ Heading(m)' \subseteq Heading(m) /\ Uncounted(m)' = Uncounted(m) \ {a}
        /\ m \in UnsavedFor(a)' => Unsaved(m)' = Unsaved(m) \cup {a}
        /\ m \notin UnsavedFor(a)' => Unsaved(m)' = Unsaved(m) \ {a}
    BY <2>3, <1>p, LedgerOthers
  <2>6. Unsaved(m)' = Unsaved(m)
    BY <2>4, <2>5
  <2>7. SamePosts(m) /\ SameRows(m)
    BY <2>1 DEF SamePosts, SameRows, MessagesOf
  <2>8. \/ cnt'[TotalKey(m)] = cnt[TotalKey(m)] + 1 /\ uncounted'[m] = uncounted[m]
        \/ /\ cnt'[TotalKey(m)] = cnt[TotalKey(m)] /\ uncounted'[m] = uncounted[m] + 1
           /\ mishaps' # 0
    <3>1. Bump(TotalKey(m)) => cnt'[TotalKey(m)] = cnt[TotalKey(m)] + 1
      BY <1>k, <1>t DEF Bump, TypeOK
    <3>2. Mishap => mishaps' # 0
      BY <1>p DEF Mishap
    <3> QED
      BY <2>1, <3>1, <3>2
  <2>9. CountsOne(a, m)
    BY <2>4, <2>5, <2>6, <2>7, <2>8, <1>p DEF CountsOne, Ticks, roomVars
  <2> QED
    BY <2>9, <1>p DEF LedgerMoves
<1>9. CASE ExpireTotal(a)
  <2>1. /\ UNCHANGED <<posted, saved, cnt, uncounted>> /\ hpc[a] = "expire"
        /\ \/ hpc'[a] = "loop" /\ quiet[a]
           \/ hpc'[a] = "save" /\ ~quiet[a] /\ quiet' = quiet
    <3>1. /\ UNCHANGED <<posted, saved, cnt, uncounted>> /\ hpc[a] = "expire"
          /\ FinishCount(a)
      BY <1>9 DEF ExpireTotal
    <3> QED
      BY <3>1, <1>f, Zenon
  <2>3. /\ m \notin HeadingFor(a)'
        /\ m \notin UncountedFor(a)' /\ m \notin UncountedFor(a)
        /\ m \in UnsavedFor(a)' <=> m \in UnsavedFor(a)
    BY <2>1, <1>l DEF ShadowSteps
  <2> QED
    BY <2>1, <2>3, <1>i
<1>10. CASE SaveBotMessage(a)
  <2>1. /\ UNCHANGED <<posted, cnt, uncounted>> /\ hpc[a] = "save"
        /\ saved' = Bumped(saved, Current(a)) \/ (saved' = saved /\ Mishap)
        /\ \/ hpc'[a] = "count" /\ quiet[a] /\ quiet' = quiet
           \/ hpc'[a] = "loop" /\ ~quiet[a]
    BY <1>10, <1>e, <1>s DEF SaveBotMessage, FinishSave, gateVars, Bumped
  <2>3. /\ m \notin HeadingFor(a)'
        /\ m \in UncountedFor(a)' <=> m \in UncountedFor(a)
        /\ m \notin UnsavedFor(a)' /\ m \in UnsavedFor(a)
    BY <2>1, <1>l DEF ShadowSteps
  <2>4. a \in Unsaved(m) /\ (a \in Uncounted(m) <=> m \in UncountedFor(a)')
    BY <2>3 DEF Uncounted, Unsaved
  <2>5. /\ Heading(m)' \subseteq Heading(m) /\ Unsaved(m)' = Unsaved(m) \ {a}
        /\ m \in UncountedFor(a)' => Uncounted(m)' = Uncounted(m) \cup {a}
        /\ m \notin UncountedFor(a)' => Uncounted(m)' = Uncounted(m) \ {a}
    BY <2>3, <1>p, LedgerOthers
  <2>6. Uncounted(m)' = Uncounted(m)
    BY <2>4, <2>5
  <2>7. SamePosts(m) /\ SameCounts(m)
    BY <2>1, <1>p DEF SamePosts, SameCounts, Ticks, roomVars, MessagesOf
  <2>8. \/ \E e \in Events : e.match = m /\ saved' = Bumped(saved, e)
        \/ SameRows(m) /\ mishaps' # 0
    <3>1. Mishap => mishaps' # 0
      BY <1>p DEF Mishap
    <3> QED
      BY <2>1, <3>1, <1>p DEF SameRows, MessagesOf
  <2>9. SavesOne(a, m)
    BY <2>4, <2>5, <2>6, <2>7, <2>8 DEF SavesOne
  <2> QED
    BY <2>9, <1>p DEF LedgerMoves
<1> QED
  BY <1>1, <1>2, <1>3, <1>4, <1>5, <1>6, <1>7, <1>8, <1>9, <1>10

LEMMA AmbientLedger ==
  ASSUME PipelineTypeOK, uncounted \in [Matches -> Nat], NEW m \in Matches,
         \/ \E s \in AdminScopes, on \in BOOLEAN : SetKill(s, on) \/ SetShadowBan(s, on)
         \/ \E n \in Matches : RoomStep(n)
         \/ KeysAge \/ Restart \/ UNCHANGED vars
  PROVE  LedgerMoves(m)
<1>t. Typed /\ TypeOK
  BY TypeParts DEF Typed
<1>k. TotalKey(m) \in CounterKeys
  BY DEF TotalKeys, CounterKeys
<1>s. ASSUME UNCHANGED <<gpc, ev, locals, posted, saved>>
      PROVE  /\ SamePosts(m) /\ SameRows(m) /\ SameOpen(m) /\ Heading(m)' \subseteq Heading(m)
  <2>1. \A c \in Claims : /\ HeadingFor(c)' = HeadingFor(c)
                          /\ UncountedFor(c)' = UncountedFor(c)
                          /\ UnsavedFor(c)' = UnsavedFor(c)
    BY <1>s DEF locals, HeadingFor, UncountedFor, UnsavedFor, Current, Message
  <2>2. MessagesOf(posted, m)' = MessagesOf(posted, m) /\ MessagesOf(saved, m)' = MessagesOf(saved, m)
    BY <1>s DEF MessagesOf
  <2> QED
    BY <2>1, <2>2 DEF SamePosts, SameRows, SameOpen, Heading, Uncounted, Unsaved
<1>b. ASSUME UNCHANGED <<gpc, ev, locals, posted, saved, uncounted, mishaps, crashes, roomVars,
                         reset>>,
             cnt'[TotalKey(m)] = cnt[TotalKey(m)]
      PROVE  LedgerMoves(m)
  <2>1. SameCounts(m)
    BY <1>b DEF SameCounts, Ticks, roomVars
  <2> QED
    BY <2>1, <1>b, <1>s DEF LedgerMoves, StandsBy
<1>1. ASSUME NEW s \in AdminScopes, NEW on \in BOOLEAN, SetKill(s, on) \/ SetShadowBan(s, on)
      PROVE  LedgerMoves(m)
  BY <1>1, <1>b DEF SetKill, SetShadowBan, SetKillSwitch, gateVars, history
<1>2. ASSUME NEW n \in Matches, RoomStep(n) PROVE LedgerMoves(m)
  <2>1. /\ UNCHANGED <<gpc, ev, locals, posted, saved, uncounted, crashes, reset>>
        /\ mishaps' = mishaps \/ Mishap
    BY <1>2, RoomStepIs DEF Away, claimVars, history
  <2>2. mishaps' = 0 => mishaps = 0
    BY <2>1, <1>t, PipelineAssumption DEF Mishap, Typed
  <2>3. CASE Mishap
    <3>1. mishaps' # 0
      BY <2>3, <1>t, PipelineAssumption DEF Mishap, Typed
    <3>2. UNCHANGED cnt \/ Bump(TotalKey(n))
      BY <1>2, RoomStepIs DEF OthersPost
    <3>3. cnt'[TotalKey(m)] \in {cnt[TotalKey(m)], cnt[TotalKey(m)] + 1}
      BY <1>t, <1>k, <3>2 DEF Bump, TypeOK
    <3>4. OthersTick(m)
      BY <1>s, <2>1, <3>1, <3>3 DEF OthersTick
    <3> QED
      BY <3>4, <2>1, <2>2 DEF LedgerMoves
  <2>4. CASE ~Mishap
    <3>1. \/ cnt'[TotalKey(m)] = cnt[TotalKey(m)] /\ Ticks(m)' = Ticks(m)
          \/ cnt'[TotalKey(m)] = cnt[TotalKey(m)] + 1 /\ Ticks(m)' = Ticks(m) + 1
      BY <1>2, <2>4, RoomBooks
    <3>2. StandsBy(m) \/ OthersTick(m)
      BY <1>s, <2>1, <3>1 DEF StandsBy, SameCounts, Ticks, roomVars, OthersTick
    <3> QED
      BY <3>2, <2>1, <2>2 DEF LedgerMoves
  <2> QED
    BY <2>3, <2>4
<1>3. CASE KeysAge
  <2>1. UNCHANGED <<gpc, ev, locals, posted, saved, uncounted, mishaps, crashes, roomVars>>
    BY <1>3 DEF KeysAge, DedupKeyExpires, CounterExpires, NextHour, claimVars, handlerVars, outcomes
  <2>2. ASSUME NEW e \in Events, DedupKeyExpires(e) PROVE LedgerMoves(m)
    BY <2>1, <2>2, <1>b DEF DedupKeyExpires
  <2>3. CASE NextHour
    BY <2>1, <2>3, <1>b DEF NextHour, store, history
  <2>4. ASSUME NEW j \in CounterKeys, CounterExpires(j) PROVE LedgerMoves(m)
    <3>1. /\ cnt' = [cnt EXCEPT ![j] = 0] /\ reset' = [reset EXCEPT ![j] = @ + 1]
      BY <2>4 DEF CounterExpires
    <3>2. CASE j = TotalKey(m)
      <4>1. cnt'[TotalKey(m)] = 0 /\ reset'[TotalKey(m)] = reset[TotalKey(m)] + 1
        BY <1>t, <1>k, <3>1, <3>2 DEF TypeOK
      <4>2. CounterLapses(m)
        BY <1>s, <2>1, <4>1 DEF CounterLapses, Ticks, roomVars
      <4> QED
        BY <4>2, <2>1 DEF LedgerMoves
    <3>3. CASE j # TotalKey(m)
      <4>1. cnt'[TotalKey(m)] = cnt[TotalKey(m)] /\ reset'[TotalKey(m)] = reset[TotalKey(m)]
        BY <1>t, <1>k, <3>1, <3>3 DEF TypeOK
      <4>2. StandsBy(m)
        BY <1>s, <2>1, <4>1 DEF StandsBy, SameCounts, Ticks, roomVars
      <4> QED
        BY <4>2, <2>1 DEF LedgerMoves
    <3> QED
      BY <3>2, <3>3
  <2> QED
    BY <1>3, <2>2, <2>3, <2>4 DEF KeysAge
<1>4. CASE Restart
  <2>1. UNCHANGED <<posted, saved, cnt, reset, mishaps>> /\ crashes' = crashes + 1
    BY <1>4 DEF Restart, Crash, store
  <2>2. \A c \in Claims : hpc'[c] = "poll"
    BY <1>4 DEF Restart
  <2>3. Heading(m)' = {} /\ Uncounted(m)' = {} /\ Unsaved(m)' = {}
    BY <2>2 DEF Heading, Uncounted, Unsaved, HeadingFor, UncountedFor, UnsavedFor, ShadowSteps
  <2>4. uncounted'[m] = uncounted[m] + Cardinality(Uncounted(m))
    <3>1. uncounted'[m] = uncounted[m] +
            Cardinality({c \in Claims : /\ \/ hpc[c] \in {"push", "count"}
                                           \/ hpc[c] = "save" /\ quiet[c]
                                        /\ Current(c).match = m})
      BY <1>4 DEF Restart
    <3>2. Uncounted(m) = {c \in Claims : /\ \/ hpc[c] \in {"push", "count"}
                                            \/ hpc[c] = "save" /\ quiet[c]
                                         /\ Current(c).match = m}
      BY DEF Uncounted, UncountedFor
    <3> QED
      BY <3>1, <3>2
  <2>5. SamePosts(m) /\ SameRows(m)
    BY <2>1 DEF SamePosts, SameRows, MessagesOf
  <2>6. crashes' # 0
    BY <2>1, <1>t, PipelineAssumption DEF Typed
  <2>7. StartsOver(m)
    BY <2>1, <2>3, <2>4, <2>5, <2>6 DEF StartsOver
  <2> QED
    BY <2>1, <2>6, <2>7 DEF LedgerMoves
<1>5. CASE UNCHANGED vars
  BY <1>5, <1>b DEF vars, gateVars, handlerVars, outcomes
<1> QED
  BY <1>1, <1>2, <1>3, <1>4, <1>5

LEMMA LedgersMove ==
  ASSUME PipelineTypeOK, uncounted \in [Matches -> Nat], [Next]_vars, NEW m \in Matches
  PROVE  LedgerMoves(m)
BY ParseLedger, PolicyLedger, EventLedger, AmbientLedger DEF Next, ClaimStep, ClaimFault

(* The inductive invariant of the two properties below. *)
Ledgers ==
  uncounted \in [Matches -> Nat] /\ \A m \in Matches : Ledger(m) /\ OthersRows(m)

LEMMA OthersRowsStep ==
  ASSUME PipelineTypeOK, [Next]_vars, NEW m \in Matches, LedgerMoves(m), OthersRows(m)
  PROVE  OthersRows(m)'
<1>m. (mishaps' = 0 => mishaps = 0) /\ (crashes' = 0 => crashes = 0)
  BY DEF LedgerMoves
<1>t. mishaps \in Nat /\ crashes \in Nat
  BY TypeParts, PipelineAssumption DEF Typed
<1>1. ASSUME NEW n \in Matches, RoomStep(n) PROVE OthersRows(m)'
  <2>1. CASE Mishap
    BY <1>t, <2>1 DEF Mishap, OthersRows
  <2>2. CASE ~Mishap
    <3>1. \/ /\ Ticks(m)' = Ticks(m)
             /\ \/ rows'[m] = rows[m] /\ prematch'[m] = prematch[m]
                \/ rows'[m] = rows[m] + 1 /\ prematch'[m] = prematch[m] + 1
          \/ /\ Ticks(m)' = Ticks(m) + 1
             /\ rows'[m] = rows[m] + 1 /\ prematch'[m] = prematch[m]
      BY <1>1, <2>2, RoomBooks
    <3> QED
      BY <3>1, <1>m, TicksType DEF OthersRows
  <2> QED
    BY <2>1, <2>2
<1>2. CASE Restart
  <2>1. crashes' # 0
    BY <1>2, <1>t DEF Restart
  <2> QED
    BY <2>1 DEF OthersRows
<1>3. CASE UNCHANGED roomVars
  BY <1>3, <1>m DEF roomVars, OthersRows, Ticks
<1> QED
  BY <1>1, <1>2, <1>3, RoomKept

LEMMA LedgersStart == Init => Ledgers
<1> SUFFICES ASSUME Init PROVE Ledgers
  OBVIOUS
<1>1. uncounted \in [Matches -> Nat]
  BY DEF Init
<1>2. ASSUME NEW m \in Matches PROVE Ledger(m)
  <2>1. \A e \in Events : posted[e] = 0 /\ saved[e] = 0
    BY DEF Init
  <2>2. MessagesOf(posted, m) = {} /\ MessagesOf(saved, m) = {}
    BY <2>1 DEF MessagesOf
  <2>3. Heading(m) = {} /\ Uncounted(m) = {} /\ Unsaved(m) = {}
    BY DEF Init, Heading, Uncounted, Unsaved, HeadingFor, UncountedFor, UnsavedFor, ShadowSteps
  <2>4. /\ cnt[TotalKey(m)] = 0 /\ reset[TotalKey(m)] = 0 /\ uncounted[m] = 0 /\ Ticks(m) = 0
    BY DEF Init, GateInit, CounterKeys, TotalKeys, Ticks
  <2>5. IsFiniteSet({}) /\ Cardinality({}) = 0
    BY FS_EmptySet
  <2>6. Cap(0) \in Nat /\ Cap(1 + 0) \in Nat
    BY CapType
  <2>7. PerMatch(posted, m) = 0 /\ PerMatch(saved, m) = 0
    BY <2>2, <2>5 DEF PerMatch
  <2>8. /\ Cardinality(Heading(m)) = 0 /\ Cardinality(Uncounted(m)) = 0
        /\ Cardinality(Unsaved(m)) = 0
    BY <2>3, <2>5
  <2> QED
    BY <2>2, <2>4, <2>5, <2>6, <2>7, <2>8 DEF Ledger
<1>3. ASSUME NEW m \in Matches PROVE OthersRows(m)
  BY DEF Init, OthersRows, Ticks
<1> QED
  BY <1>1, <1>2, <1>3 DEF Ledgers

LEMMA LedgersHold == Spec => []Ledgers
<1>1. PipelineTypeOK /\ PipelineTypeOK' /\ Ledgers /\ [Next]_vars => Ledgers'
  <2> SUFFICES ASSUME PipelineTypeOK, PipelineTypeOK', Ledgers, [Next]_vars PROVE Ledgers'
    OBVIOUS
  <2>1. uncounted \in [Matches -> Nat] /\ uncounted' \in [Matches -> Nat]
    BY UncountedStep DEF Ledgers
  <2>2. ASSUME NEW m \in Matches PROVE Ledger(m)' /\ OthersRows(m)'
    <3>1. LedgerMoves(m)
      BY LedgersMove DEF Ledgers
    <3>2. Ledger(m)'
      BY <2>1, <3>1, LedgerStep DEF Ledgers
    <3>3. OthersRows(m)'
      BY <3>1, OthersRowsStep DEF Ledgers
    <3> QED
      BY <3>2, <3>3
  <2> QED
    BY <2>1, <2>2 DEF Ledgers
<1> QED
  BY <1>1, LedgersStart, PipelineTyping, PTL DEF Spec

(* CheckMatchLimit reads the counter that IncrTotalMessages raises much    *)
(* later: however the claims interleave and whatever fails, the bot        *)
(* messages of a match pass MaxMessagesBot by at most one per other claim  *)
(* in each lifetime of the counter, plus those whose INCR was lost.        *)
THEOREM BotMessagesCapped == Spec => []BotMessageCap
<1>1. PipelineTypeOK /\ Ledgers => BotMessageCap
  <2> SUFFICES ASSUME PipelineTypeOK, Ledgers, NEW m \in Matches
               PROVE  PerMatch(posted, m) <= Cap(1 + reset[TotalKey(m)]) + uncounted[m]
    BY DEF BotMessageCap, Cap
  <2>1. reset[TotalKey(m)] \in Nat
    BY BoundsAssumption, TypeParts DEF Typed, TypeOK, CounterKeys, TotalKeys
  <2>2. Cap(1 + reset[TotalKey(m)]) \in Nat
    BY <2>1, CapType
  <2>3. /\ PerMatch(posted, m) + Cardinality(Heading(m)) <=
             Cap(1 + reset[TotalKey(m)]) + uncounted[m]
        /\ PerMatch(posted, m) \in Nat /\ uncounted[m] \in Nat
    BY FS_CardinalityType DEF Ledgers, Ledger, PerMatch
  <2>4. Cardinality(Heading(m)) \in Nat
    BY LedgerSets, ClaimSets
  <2> QED
    BY <2>2, <2>3, <2>4
<1> QED
  BY <1>1, LedgersHold, PipelineTyping, PTL

(* Nothing is counted, saved or posted twice, or left out: with claims and *)
(* replies at rest and nothing failed, the table has a row for each        *)
(* message of the events, the users, the replies and the prematch bursts,  *)
(* and the counter a tick for each but the bursts'.                        *)
THEOREM BooksBalance == Spec => []LedgersAgree
<1>1. PipelineTypeOK /\ Ledgers => LedgersAgree
  <2> SUFFICES ASSUME PipelineTypeOK, Ledgers, mishaps = 0, crashes = 0,
                      \A c \in Claims : hpc[c] = "poll", NEW m \in Matches, answered[m] = 0
               PROVE  /\ PerMatch(saved, m) + rows[m] =
                           PerMatch(posted, m) + users[m] + replies[m] + prematch[m]
                      /\ reset[TotalKey(m)] = 0 =>
                           cnt[TotalKey(m)] = PerMatch(posted, m) + users[m] + replies[m]
    BY DEF LedgersAgree
  <2>1. Uncounted(m) = {} /\ Unsaved(m) = {}
    BY DEF Uncounted, Unsaved, UncountedFor, UnsavedFor
  <2>2. Cardinality(Uncounted(m)) = 0 /\ Cardinality(Unsaved(m)) = 0
    BY <2>1, FS_EmptySet
  <2>3. cnt[TotalKey(m)] \in Nat
    BY TypeParts DEF Typed, TypeOK, CounterKeys, TotalKeys
  <2>4. PerMatch(saved, m) \in Nat /\ PerMatch(posted, m) \in Nat
    BY FS_CardinalityType DEF Ledgers, Ledger, PerMatch
  <2>5. /\ users[m] \in Nat /\ replies[m] \in Nat /\ prematch[m] \in Nat
        /\ Ticks(m) = users[m] + replies[m]
    BY TicksType DEF Ticks
  <2>6. rows[m] = Ticks(m) + prematch[m]
    BY DEF Ledgers, OthersRows
  <2>7. /\ PerMatch(saved, m) = PerMatch(posted, m)
        /\ reset[TotalKey(m)] = 0 => cnt[TotalKey(m)] = PerMatch(posted, m) + Ticks(m)
    BY <2>2, <2>3, <2>4, <2>5 DEF Ledgers, Ledger
  <2> QED
    BY <2>3, <2>4, <2>5, <2>6, <2>7
<1> QED
  BY <1>1, LedgersHold, PipelineTyping, PTL

---------------------------------------------------------------------------
(* The gate inside the pipeline: what is proved of the policy check alone  *)
(* holds of it here, where its traffic is the handlers' own.               *)

LEMMA PostsAreTraffic ==
  ASSUME NEW m \in Matches, OthersPost(m)
  PROVE  [OpenNext]_gateVars
BY DEF OpenNext

LEMMA CountersAreTraffic ==
  ASSUME NEW c \in Claims, Current(c).match \in Matches,
         \/ PushChatMessage(c) \/ IncrTotalMessages(c)
         \/ IncrTotalMessagesFails(c) \/ ExpireTotal(c)
  PROVE  OthersPost(Current(c).match)
<1>1. CASE PushChatMessage(c)
  BY <1>1 DEF PushChatMessage, OthersPost
<1>2. CASE IncrTotalMessages(c)
  BY <1>2 DEF IncrTotalMessages, OthersPost
<1>3. CASE IncrTotalMessagesFails(c)
  BY <1>3 DEF IncrTotalMessagesFails, OthersPost
<1>4. CASE ExpireTotal(c)
  BY <1>4 DEF ExpireTotal, OthersPost
<1> QED
  BY <1>1, <1>2, <1>3, <1>4

(* Every step of the pipeline is a step of the gate under traffic, or      *)
(* leaves it alone.                                                        *)
LEMMA GateInPipeline == PipelineTypeOK /\ [Next]_vars => [OpenNext]_gateVars
<1> SUFFICES ASSUME PipelineTypeOK, [Next]_vars PROVE [OpenNext]_gateVars
  OBVIOUS
<1>t. \A c \in Claims : ClaimOK(c)
  BY TypeParts
<1>c. ASSUME NEW c \in Claims, hpc[c] # "poll", idx[c] <= Len(Message(c))
      PROVE  Current(c) \in Events /\ Current(c).match \in Matches
  BY <1>t, <1>c, CurrentType
<1>1. ASSUME NEW c \in Claims, BeginEvent(c) PROVE [OpenNext]_gateVars
  <2>1. Current(c) \in Events
    BY <1>1, <1>c DEF BeginEvent
  <2> QED
    BY <1>1, <2>1 DEF BeginEvent, OpenNext, GateNext
<1>2. ASSUME NEW c \in Claims, Policy(c) \/ PolicyFault(c) \/ Verdict(c)
      PROVE  [OpenNext]_gateVars
  BY <1>2 DEF Policy, PolicyFault, Verdict, OpenNext, GateNext
<1>3. ASSUME NEW c \in Claims,
             \/ PushChatMessage(c) \/ IncrTotalMessages(c)
             \/ IncrTotalMessagesFails(c) \/ ExpireTotal(c)
      PROVE  [OpenNext]_gateVars
  <2>1. hpc[c] \in {"push", "count", "expire"}
    BY <1>3 DEF PushChatMessage, IncrTotalMessages, IncrTotalMessagesFails, ExpireTotal
  <2>2. Current(c).match \in Matches
    BY <1>c, <1>t, <2>1 DEF ClaimOK
  <2> QED
    BY <1>3, <2>2, CountersAreTraffic, PostsAreTraffic
<1>4. ASSUME NEW c \in Claims,
             \/ SkipGarbage(c) \/ ParseMessage(c) \/ FinishMessage(c) \/ AutoCommit(c)
             \/ Prepare(c) \/ ReadShadowKey(c) \/ ReadShadowKeyFails(c)
             \/ Publish(c) \/ PublishLost(c) \/ PublishFails(c) \/ SaveBotMessage(c)
      PROVE  [OpenNext]_gateVars
  BY <1>4 DEF SkipGarbage, ParseMessage, FinishMessage, AutoCommit, Prepare,
    ReadShadowKey, ReadShadowKeyFails, Publish, PublishLost, PublishFails, SaveBotMessage
<1>5. ASSUME NEW s \in AdminScopes, NEW on \in BOOLEAN, SetKill(s, on) \/ SetShadowBan(s, on)
      PROVE  [OpenNext]_gateVars
  BY <1>5 DEF SetKill, SetShadowBan, OpenNext, GateNext, Environment
<1>6. ASSUME NEW m \in Matches, RoomStep(m) PROVE [OpenNext]_gateVars
  BY <1>6, RoomStepIs, PostsAreTraffic
<1>7. CASE KeysAge
  BY <1>7 DEF KeysAge, OpenNext, GateNext, Environment
<1>8. CASE Restart
  BY <1>8 DEF Restart, OpenNext, GateNext, Environment
<1>9. CASE UNCHANGED vars
  BY <1>9 DEF vars
<1> QED
  BY <1>1, <1>2, <1>3, <1>4, <1>5, <1>6, <1>7, <1>8, <1>9
  DEF Next, ClaimStep, ClaimFault

(* The event handler runs CheckPolicy as CheckPolicy is meant to be run:   *)
(* what its other steps do to the chat lists, the counters and Redis is    *)
(* within what the check was proved correct under.                         *)
THEOREM PipelineRunsGate == Spec => OpenSpec
<1>1. Init => GateInit
  BY DEF Init
<1> QED
  BY <1>1, GateInPipeline, PipelineTyping, PTL DEF Spec, OpenSpec

(* However often an event is delivered and redelivered, and whichever      *)
(* claims it is delivered to, one of them wins its key per lifetime.       *)
THEOREM PipelineGrantsOnce == Spec => []OneGrantPerKey
BY PipelineRunsGate, OpenGrants, PTL

(* A check that began under a kill switch does not get past the switch,    *)
(* with the handlers of the other partitions running beside it.            *)
THEOREM PipelineHoldsSwitches == Spec => []KillSwitchHolds
BY PipelineRunsGate, OpenSwitches, PTL

(* The claims of the consumer group together pass a limit by at most one   *)
(* event for each other claim.                                             *)
THEOREM PipelineOvershootBounded == Spec => []LimitOvershoot
BY PipelineRunsGate, OpenLimits, PTL

(* A restart of the service is the only thing but a lost command that      *)
(* leaves a limit's counter without an expiry.                             *)
THEOREM PipelineCountersExpire == Spec => []CountersLapse
BY PipelineRunsGate, OpenCounters, PTL

(* No redelivery of an event spends the quota of its type a second time    *)
(* within one lifetime of its key.                                         *)
THEOREM PipelineQuotaIsBacked == Spec => []QuotaBacked
BY PipelineRunsGate, OpenQuotas, PTL

===========================================================================
