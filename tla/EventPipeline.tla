--------------------------- MODULE EventPipeline ---------------------------
(***************************************************************************)
(* EventHandler: the Kafka claims of the consumer group, each running      *)
(* handleEvent for every event of every message of its partition, over the *)
(* Redis state of PolicyGate.  The producer sends without a key, so the    *)
(* events of one match, and copies of one event, turn up in any partition. *)
(***************************************************************************)
EXTENDS PolicyGate

CONSTANTS
  Log,         \* claim -> messages; a message is a sequence of events, or
  Garbage,     \* one that MapBytesToEventsBundle rejects
  UseMqtt,     \* whether the broker was reachable when the app started
  MaxUsers,    \* bound: user messages per match
  MaxPrematch, \* bound: messages of prematch bursts per match
  MaxMishaps,  \* bound: failures in all, those of the policy check included
  MaxCrashes   \* bound: process crashes

ASSUME LogAssumption ==
  Log \in [Claims -> Seq(Seq(Events) \cup {Garbage})] /\ Garbage \notin Seq(Events)

ASSUME PipelineAssumption ==
  /\ UseMqtt \in BOOLEAN
  /\ MaxUsers \in Nat /\ MaxPrematch \in Nat /\ MaxMishaps \in Nat /\ MaxCrashes \in Nat

VARIABLES
  hpc,       \* where in ConsumeClaim / handleEvent each claim is
  pos, idx,  \* its message, and its event of that message
  quiet,     \* isShadowed
  marked,    \* last offset it marked
  committed, \* last offset the broker has for it
  shadow,    \* scopes whose shadowban:* key is "1"
  mishaps, crashes,
  users,     \* user messages so far, per match
  replying,  \* reply goroutines that have not posted
  answered,  \* and those that have, with row and counter still to come
  replies,   \* replies posted
  prematch,  \* messages of prematch bursts posted
  rows,      \* rows written for all of these
  published, \* messages handed to MQTT or the hub, per event
  posted,    \* messages that reached the chat history step, per event
  saved,     \* rows written for it, per event
  \* history, read by properties only
  uncounted, \* posts whose INCR was lost, per match
  sinceKill, sinceShadow, \* covered messages handed out since the switch went on
  blind,     \* shadow look-ups that failed
  handled    \* <<claim, message, event>> brought to an end

locals     == <<hpc, pos, idx, quiet>>
offsets    == <<marked, committed>>
roomVars   == <<users, replying, answered, replies, prematch, rows>>
outcomes   == <<roomVars, published, posted, saved, uncounted,
                sinceKill, sinceShadow, handled>>
shadowVars == <<shadow, blind>>
handlerVars == <<locals, offsets, shadowVars, mishaps, crashes, outcomes>>
vars       == <<gateVars, handlerVars>>

ShadowSteps  == {"shadowGlobal", "shadowLeague", "shadowMatch"}
HandlerSteps == {"poll", "loop", "policy", "prepare", "publish",
                 "push", "count", "expire", "save"} \cup ShadowSteps

Message(c) == Log[c][pos[c]]
Current(c) == Message(c)[idx[c]]

PipelineTypeOK ==
  /\ TypeOK
  /\ hpc \in [Claims -> HandlerSteps]
  /\ pos \in [Claims -> Nat] /\ idx \in [Claims -> Nat]
  /\ marked \in [Claims -> Nat] /\ committed \in [Claims -> Nat]
  /\ \A c \in Claims :
       /\ pos[c] \in 1 .. Len(Log[c]) + 1
       /\ hpc[c] # "poll" => /\ pos[c] <= Len(Log[c])
                             /\ Message(c) # Garbage
                             /\ idx[c] \in 1 .. Len(Message(c)) + 1
       /\ hpc[c] \notin {"poll", "loop"} => idx[c] <= Len(Message(c))
       /\ (gpc[c] # "idle") = (hpc[c] = "policy")
       /\ gpc[c] # "idle" => ev[c] = Current(c)
       /\ committed[c] <= marked[c] /\ marked[c] = pos[c] - 1
  /\ quiet \in [Claims -> BOOLEAN]
  /\ shadow \subseteq Scopes
  /\ mishaps \in 0 .. MaxMishaps /\ crashes \in 0 .. MaxCrashes
  /\ users \in [Matches -> 0 .. MaxUsers] /\ prematch \in [Matches -> 0 .. MaxPrematch]
  /\ {replying, answered, replies, rows} \subseteq [Matches -> Nat]
  /\ \A m \in Matches : replies[m] + replying[m] <= users[m] /\ answered[m] <= replies[m]
  /\ {published, posted, saved} \subseteq [Events -> Nat]
  /\ {sinceKill, sinceShadow} \subseteq [Scopes -> Nat] /\ blind \in Nat

Init ==
  /\ GateInit
  /\ hpc = [c \in Claims |-> "poll"]
  /\ pos = [c \in Claims |-> 1]
  /\ idx = [c \in Claims |-> 1]
  /\ quiet = [c \in Claims |-> FALSE]
  /\ marked = [c \in Claims |-> 0]
  /\ committed = [c \in Claims |-> 0]
  /\ shadow = {} /\ blind = 0
  /\ mishaps = 0 /\ crashes = 0
  /\ users = [m \in Matches |-> 0] /\ prematch = [m \in Matches |-> 0]
  /\ replying = [m \in Matches |-> 0] /\ answered = [m \in Matches |-> 0]
  /\ replies = [m \in Matches |-> 0] /\ rows = [m \in Matches |-> 0]
  /\ published = [e \in Events |-> 0]
  /\ posted = [e \in Events |-> 0]
  /\ saved = [e \in Events |-> 0]
  /\ uncounted = [m \in Matches |-> 0]
  /\ sinceKill = [s \in Scopes |-> 0]
  /\ sinceShadow = [s \in Scopes |-> 0]
  /\ handled = {}

---------------------------------------------------------------------------
Step(c, next) == hpc' = [hpc EXCEPT ![c] = next]

Up(f, m) == [f EXCEPT ![m] = @ + 1]
Down(f, m) == [f EXCEPT ![m] = @ - 1]

MayFail == faults + mishaps < MaxMishaps
Mishap  == MayFail /\ mishaps' = mishaps + 1

(* handleEvent returns, with or without an error: ConsumeClaim only logs. *)
EndEvent(c) ==
  /\ Step(c, "loop")
  /\ idx' = [idx EXCEPT ![c] = @ + 1]
  /\ quiet' = [quiet EXCEPT ![c] = FALSE]
  /\ handled' = handled \cup {<<c, pos[c], idx[c]>>}
  /\ UNCHANGED pos

(* MarkMessage, and on to the next message of the claim. *)
MarkMessage(c) ==
  /\ marked' = [marked EXCEPT ![c] = pos[c]]
  /\ pos' = [pos EXCEPT ![c] = @ + 1]
  /\ idx' = [idx EXCEPT ![c] = 1]
  /\ Step(c, "poll")
  /\ UNCHANGED <<quiet, committed>>

---------------------------------------------------------------------------
(* ConsumeClaim. *)

(* Mutant: a message that does not parse is not marked, and read again. *)
SkipGarbageUnmarked(c) ==
  /\ hpc[c] = "poll" /\ pos[c] <= Len(Log[c])
  /\ Message(c) = Garbage
  /\ UNCHANGED vars

(* A message that does not parse is marked and skipped. *)
SkipGarbage(c) ==
  /\ hpc[c] = "poll" /\ pos[c] <= Len(Log[c])
  /\ Message(c) = Garbage
  /\ MarkMessage(c)
  /\ UNCHANGED <<gateVars, shadowVars, mishaps, crashes, outcomes>>

ParseMessage(c) ==
  /\ hpc[c] = "poll" /\ pos[c] <= Len(Log[c])
  /\ Message(c) # Garbage
  /\ Step(c, "loop")
  /\ idx' = [idx EXCEPT ![c] = 1]
  /\ UNCHANGED <<gateVars, pos, quiet, offsets, shadowVars, mishaps, crashes, outcomes>>

(* handleEvent looks the match up, which changes nothing here, and asks    *)
(* the policy.                                                             *)
BeginEvent(c) ==
  /\ hpc[c] = "loop" /\ idx[c] <= Len(Message(c))
  /\ Refuse(c, Current(c)) \/ Admit(c, Current(c))
  /\ Step(c, "policy")
  /\ UNCHANGED <<pos, idx, quiet, offsets, shadowVars, mishaps, crashes, outcomes>>

(* Mutant: the message is marked before its last event. *)
FinishMessageEarly(c) ==
  /\ hpc[c] = "loop" /\ idx[c] >= Len(Message(c))
  /\ MarkMessage(c)
  /\ UNCHANGED <<gateVars, shadowVars, mishaps, crashes, outcomes>>

FinishMessage(c) ==
  /\ hpc[c] = "loop" /\ idx[c] > Len(Message(c))
  /\ MarkMessage(c)
  /\ UNCHANGED <<gateVars, shadowVars, mishaps, crashes, outcomes>>

---------------------------------------------------------------------------
(* handleEvent. *)

Policy(c) == hpc[c] = "policy" /\ GateStep(c) /\ UNCHANGED handlerVars

PolicyFault(c) == hpc[c] = "policy" /\ MayFail /\ GateFault(c) /\ UNCHANGED handlerVars

Verdict(c) ==
  /\ hpc[c] = "policy"
  /\ Return(c)
  /\ IF gpc[c] = "pass"
     THEN Step(c, "prepare") /\ UNCHANGED <<pos, idx, quiet, handled>>
     ELSE EndEvent(c)
  /\ UNCHANGED <<offsets, shadowVars, mishaps, crashes, roomVars, published, posted,
                 saved, uncounted, sinceKill, sinceShadow>>

(* Context, persona, room scale, draft and quality filter either yield a   *)
(* message or end the event here; then the handler sleeps 1 to 13 seconds. *)
Prepare(c) ==
  /\ hpc[c] = "prepare"
  /\ \/ Step(c, "shadowGlobal") /\ UNCHANGED <<pos, idx, quiet, handled>>
     \/ EndEvent(c)
  /\ UNCHANGED <<gateVars, offsets, shadowVars, mishaps, crashes, roomVars, published,
                 posted, saved, uncounted, sinceKill, sinceShadow>>

(* Mutant: the global ban is never consulted. *)
ShadowScopeNarrow(step, e) ==
  IF step \in {"shadowGlobal", "shadowLeague"} THEN LeagueScope(e.league)
  ELSE MatchScope(e.match)

(* IsShadowed: global, then league, then match. *)
ShadowScope(step, e) ==
  IF step = "shadowGlobal" THEN GlobalScope
  ELSE IF step = "shadowLeague" THEN LeagueScope(e.league)
  ELSE MatchScope(e.match)

NextShadowRead(step) ==
  IF step = "shadowGlobal" THEN "shadowLeague"
  ELSE IF step = "shadowLeague" THEN "shadowMatch"
  ELSE "publish"

Post(e) == posted' = [posted EXCEPT ![e] = @ + 1]

ReadShadowKey(c) ==
  /\ hpc[c] \in ShadowSteps
  /\ IF ShadowScope(hpc[c], Current(c)) \in shadow
     THEN /\ Step(c, "push") /\ Post(Current(c))
          /\ quiet' = [quiet EXCEPT ![c] = TRUE]
     ELSE Step(c, NextShadowRead(hpc[c])) /\ UNCHANGED <<quiet, posted>>
  /\ UNCHANGED <<gateVars, pos, idx, offsets, shadowVars, mishaps, crashes, roomVars,
                 published, saved, uncounted, sinceKill, sinceShadow, handled>>

(* A failed read is logged and counts as not shadowed. *)
ReadShadowKeyFails(c) ==
  /\ hpc[c] \in ShadowSteps
  /\ Mishap /\ blind' = blind + 1
  /\ Step(c, "publish")
  /\ UNCHANGED <<gateVars, pos, idx, quiet, offsets, shadow, crashes, outcomes>>

(* The message leaves the process. *)
HandOut(e) ==
  LET since(count, on) ==
        [s \in Scopes |-> IF s \in on \cap Covering(e) THEN count[s] + 1 ELSE count[s]]
  IN  /\ published' = [published EXCEPT ![e] = @ + 1]
      /\ sinceKill' = since(sinceKill, kill)
      /\ sinceShadow' = since(sinceShadow, shadow)

Publish(c) ==
  /\ hpc[c] = "publish"
  /\ HandOut(Current(c)) /\ Post(Current(c))
  /\ Step(c, "push")
  /\ UNCHANGED <<gateVars, pos, idx, quiet, offsets, shadowVars, mishaps, crashes,
                 roomVars, saved, uncounted, handled>>

(* An MQTT token that has not completed in 5 s has no error yet, and the   *)
(* hub drops what its channel cannot take: both are reported as success.   *)
PublishLost(c) ==
  /\ hpc[c] = "publish"
  /\ Mishap
  /\ Post(Current(c))
  /\ Step(c, "push")
  /\ UNCHANGED <<gateVars, pos, idx, quiet, offsets, shadowVars, crashes, roomVars,
                 published, saved, uncounted, sinceKill, sinceShadow, handled>>

(* Mutant: a publish that returned an error is tried again. *)
PublishFailsRetried(c) ==
  /\ hpc[c] = "publish" /\ UseMqtt
  /\ Mishap
  /\ \/ HandOut(Current(c))
     \/ UNCHANGED <<published, sinceKill, sinceShadow>>
  /\ UNCHANGED <<gateVars, locals, handled, offsets, shadowVars, crashes, roomVars,
                 posted, saved, uncounted>>

(* One attempt over MQTT, whose error may hide a delivery.  The hub's      *)
(* Publish never returns an error, so its retries never run.               *)
PublishFails(c) ==
  /\ hpc[c] = "publish" /\ UseMqtt
  /\ Mishap
  /\ \/ HandOut(Current(c))
     \/ UNCHANGED <<published, sinceKill, sinceShadow>>
  /\ EndEvent(c)
  /\ UNCHANGED <<gateVars, offsets, shadowVars, crashes, roomVars, posted, saved, uncounted>>

(* Chat history, total counter and database row; in this order after a     *)
(* publish, with the row before the counter when shadowed.  None of their  *)
(* errors ends the event.                                                  *)
AfterPush(c)  == IF quiet[c] THEN "save" ELSE "count"
FinishCount(c) == IF quiet[c] THEN EndEvent(c)
                  ELSE Step(c, "save") /\ UNCHANGED <<pos, idx, quiet, handled>>
FinishSave(c)  == IF quiet[c] THEN Step(c, "count") /\ UNCHANGED <<pos, idx, quiet, handled>>
                  ELSE EndEvent(c)

PushChatMessage(c) ==
  /\ hpc[c] = "push"
  /\ \/ PushChat(Current(c).match, "bot") /\ UNCHANGED mishaps
     \/ Mishap /\ UNCHANGED chat
  /\ Step(c, AfterPush(c))
  /\ UNCHANGED <<claimVars, hour, dedup, cnt, ttl, kill, faults, history,
                 pos, idx, quiet, offsets, shadowVars, crashes, outcomes>>

IncrTotalMessages(c) ==
  LET k == TotalKey(Current(c).match) IN
  /\ hpc[c] = "count"
  /\ Bump(k)
  /\ IF cnt[k] = 0 THEN Step(c, "expire") /\ UNCHANGED <<pos, idx, quiet, handled>>
                   ELSE FinishCount(c)
  /\ UNCHANGED <<claimVars, hour, dedup, ttl, kill, chat, faults, history,
                 offsets, shadowVars, mishaps, crashes, roomVars, published, posted,
                 saved, uncounted, sinceKill, sinceShadow>>

IncrTotalMessagesFails(c) ==
  LET m == Current(c).match IN
  /\ hpc[c] = "count"
  /\ Mishap
  /\ \/ Bump(TotalKey(m)) /\ UNCHANGED uncounted
     \/ uncounted' = [uncounted EXCEPT ![m] = @ + 1] /\ UNCHANGED cnt
  /\ FinishCount(c)
  /\ UNCHANGED <<claimVars, hour, dedup, ttl, kill, chat, faults, history,
                 offsets, shadowVars, crashes, roomVars, published, posted, saved,
                 sinceKill, sinceShadow>>

ExpireTotal(c) ==
  LET k == TotalKey(Current(c).match) IN
  /\ hpc[c] = "expire"
  /\ \/ ttl' = [ttl EXCEPT ![k] = TRUE] /\ UNCHANGED mishaps
     \/ Mishap /\ UNCHANGED ttl
  /\ FinishCount(c)
  /\ UNCHANGED <<claimVars, hour, dedup, cnt, kill, chat, faults, history,
                 offsets, shadowVars, crashes, roomVars, published, posted, saved,
                 uncounted, sinceKill, sinceShadow>>

SaveBotMessage(c) ==
  /\ hpc[c] = "save"
  /\ \/ saved' = [saved EXCEPT ![Current(c)] = @ + 1] /\ UNCHANGED mishaps
     \/ Mishap /\ UNCHANGED saved
  /\ FinishSave(c)
  /\ UNCHANGED <<gateVars, offsets, shadowVars, crashes, roomVars, published, posted,
                 uncounted, sinceKill, sinceShadow>>

---------------------------------------------------------------------------
(* Around the claims. *)

SetKill(scope, on) ==
  /\ SetKillSwitch(scope, on)
  /\ sinceKill' = IF on /\ scope \in kill THEN sinceKill
                  ELSE [sinceKill EXCEPT ![scope] = 0]
  /\ UNCHANGED <<locals, offsets, shadowVars, mishaps, crashes, roomVars, published,
                 posted, saved, uncounted, sinceShadow, handled>>

SetShadowBan(scope, on) ==
  /\ shadow' = IF on THEN shadow \cup {scope} ELSE shadow \ {scope}
  /\ sinceShadow' = IF on /\ scope \in shadow THEN sinceShadow
                    ELSE [sinceShadow EXCEPT ![scope] = 0]
  /\ UNCHANGED <<gateVars, locals, offsets, blind, mishaps, crashes, roomVars, published,
                 posted, saved, uncounted, sinceKill, handled>>

(* SaveMessage and IncrTotalMessages, EXPIRE included, by others than the  *)
(* claims: if one fails the other is still done.                           *)
RaiseTotal(m) ==
  LET k == TotalKey(m) IN
  Bump(k) /\ ttl' = IF cnt[k] = 0 THEN [ttl EXCEPT ![k] = TRUE] ELSE ttl

Record(m) ==
  \/ rows' = Up(rows, m) /\ RaiseTotal(m) /\ UNCHANGED mishaps
  \/ Mishap /\ UNCHANGED rows /\ RaiseTotal(m)
  \/ Mishap /\ rows' = Up(rows, m) /\ UNCHANGED ttl /\ (Bump(TotalKey(m)) \/ UNCHANGED cnt)

(* The websocket's user-message handler: history, row and counter, taken   *)
(* as one step; then it starts a goroutine for the reply.                  *)
UserMessage(m) ==
  /\ users[m] < MaxUsers
  /\ users' = Up(users, m) /\ replying' = Up(replying, m)
  /\ \/ PushChat(m, "user") /\ Record(m)
     \/ Mishap /\ UNCHANGED chat /\ rows' = Up(rows, m) /\ RaiseTotal(m)
  /\ UNCHANGED <<claimVars, hour, dedup, kill, faults, history,
                 locals, offsets, shadowVars, crashes, answered, replies, prematch,
                 published, posted, saved, uncounted, sinceKill, sinceShadow, handled>>

(* GenerateReply, of which more in Replies, fails, is late or says nothing. *)
NoReply(m) ==
  /\ replying[m] > 0
  /\ replying' = Down(replying, m)
  /\ UNCHANGED <<gateVars, locals, offsets, shadowVars, mishaps, crashes, users,
                 answered, replies, prematch, rows, published, posted, saved,
                 uncounted, sinceKill, sinceShadow, handled>>

(* Or the reply is published, well or not, and enters the history. *)
Reply(m) ==
  /\ replying[m] > 0
  /\ replying' = Down(replying, m)
  /\ replies' = Up(replies, m) /\ answered' = Up(answered, m)
  /\ \/ PushChat(m, "bot") /\ UNCHANGED mishaps
     \/ Mishap /\ UNCHANGED chat
  /\ UNCHANGED <<claimVars, hour, dedup, cnt, ttl, kill, faults, history,
                 locals, offsets, shadowVars, crashes, users, prematch, rows,
                 published, posted, saved, uncounted, sinceKill, sinceShadow, handled>>

(* Mutant: a reply is not counted. *)
RecordReplyUncounted(m) ==
  /\ answered[m] > 0
  /\ answered' = Down(answered, m)
  /\ rows' = Up(rows, m)
  /\ UNCHANGED <<gateVars, locals, offsets, shadowVars, mishaps, crashes, users,
                 replying, replies, prematch, published, posted, saved, uncounted,
                 sinceKill, sinceShadow, handled>>

(* Then its row, and the counter of the match. *)
RecordReply(m) ==
  /\ answered[m] > 0
  /\ answered' = Down(answered, m)
  /\ Record(m)
  /\ UNCHANGED <<claimVars, hour, dedup, kill, chat, faults, history,
                 locals, offsets, shadowVars, crashes, users, replying, replies,
                 prematch, published, posted, saved, uncounted, sinceKill,
                 sinceShadow, handled>>

(* A message of a prematch burst, of which more in Prematch: history and   *)
(* row like any bot's, but no counter.                                     *)
PrematchPost(m) ==
  /\ prematch[m] < MaxPrematch
  /\ prematch' = Up(prematch, m)
  /\ \/ PushChat(m, "bot") /\ rows' = Up(rows, m) /\ UNCHANGED mishaps
     \/ Mishap /\ UNCHANGED chat /\ rows' = Up(rows, m)
     \/ Mishap /\ PushChat(m, "bot") /\ UNCHANGED rows
  /\ UNCHANGED <<claimVars, hour, dedup, cnt, ttl, kill, faults, history,
                 locals, offsets, shadowVars, crashes, users, replying, answered,
                 replies, published, posted, saved, uncounted, sinceKill,
                 sinceShadow, handled>>

(* sarama commits marked offsets from a timer. *)
AutoCommit(c) ==
  /\ committed[c] # marked[c]
  /\ committed' = [committed EXCEPT ![c] = marked[c]]
  /\ UNCHANGED <<gateVars, locals, marked, shadowVars, mishaps, crashes, outcomes>>

(* Replies under way die with the process. *)
ForgetReplies ==
  /\ replying' = [m \in Matches |-> 0] /\ answered' = [m \in Matches |-> 0]
  /\ UNCHANGED <<users, replies, prematch, rows>>

(* Mutant: claims resume after the last message they marked. *)
RestartFromMarked ==
  /\ crashes < MaxCrashes
  /\ crashes' = crashes + 1
  /\ Crash
  /\ hpc' = [c \in Claims |-> "poll"]
  /\ idx' = [c \in Claims |-> 1]
  /\ quiet' = [c \in Claims |-> FALSE]
  /\ marked' = committed
  /\ ForgetReplies
  /\ UNCHANGED <<pos, committed, shadowVars, mishaps, published, posted, saved,
                 uncounted, sinceKill, sinceShadow, handled>>

(* The process dies and comes back: each claim resumes after its last      *)
(* committed offset, and what it was doing is forgotten.                   *)
Restart ==
  /\ crashes < MaxCrashes
  /\ crashes' = crashes + 1
  /\ Crash
  /\ hpc' = [c \in Claims |-> "poll"]
  /\ pos' = [c \in Claims |-> committed[c] + 1]
  /\ idx' = [c \in Claims |-> 1]
  /\ quiet' = [c \in Claims |-> FALSE]
  /\ marked' = committed
  /\ uncounted' =
       [m \in Matches |-> uncounted[m] +
          Cardinality({c \in Claims : /\ \/ hpc[c] \in {"push", "count"}
                                         \/ hpc[c] = "save" /\ quiet[c]
                                      /\ Current(c).match = m})]
  /\ ForgetReplies
  /\ UNCHANGED <<committed, shadowVars, mishaps, published, posted, saved,
                 sinceKill, sinceShadow, handled>>

KeysAge ==
  /\ \/ \E e \in Events : DedupKeyExpires(e)
     \/ \E k \in CounterKeys : CounterExpires(k)
     \/ NextHour
  /\ UNCHANGED handlerVars

---------------------------------------------------------------------------

ClaimStep(c) ==
  \/ SkipGarbage(c) \/ ParseMessage(c) \/ BeginEvent(c) \/ FinishMessage(c)
  \/ Policy(c) \/ Verdict(c) \/ Prepare(c)
  \/ ReadShadowKey(c) \/ Publish(c)
  \/ PushChatMessage(c) \/ IncrTotalMessages(c) \/ ExpireTotal(c) \/ SaveBotMessage(c)

RoomStep(m) ==
  UserMessage(m) \/ NoReply(m) \/ Reply(m) \/ RecordReply(m) \/ PrematchPost(m)

ClaimFault(c) ==
  \/ PolicyFault(c) \/ ReadShadowKeyFails(c)
  \/ PublishLost(c) \/ PublishFails(c) \/ IncrTotalMessagesFails(c)

Next ==
  \/ \E c \in Claims : ClaimStep(c) \/ ClaimFault(c) \/ AutoCommit(c)
  \/ \E s \in AdminScopes, on \in BOOLEAN : SetKill(s, on) \/ SetShadowBan(s, on)
  \/ \E m \in Matches : RoomStep(m)
  \/ KeysAge
  \/ Restart

Spec == Init /\ [][Next]_vars

(* Goroutines run and sarama's commit timer fires. *)
FairSpec == Spec /\ \A c \in Claims : WF_vars(ClaimStep(c)) /\ WF_vars(AutoCommit(c))

---------------------------------------------------------------------------
(* Properties. *)

MessagesOf(f, m) == UNION {{e} \X (1 .. f[e]) : e \in {x \in Events : x.match = m}}
PerMatch(f, m)   == Cardinality(MessagesOf(f, m))

(* However often an event is delivered - in several partitions, again      *)
(* after a crash, after a publish that failed half way - it leads to at    *)
(* most one message per lifetime of its dedup key.                         *)
SeededOncePerKey ==
  \A e \in Events : /\ published[e] <= 1 + lapsed[e]
                     /\ posted[e] <= 1 + lapsed[e]

(* The pipeline implements the promise of SeedOnce: a claim holds an       *)
(* event's ticket from the SETNX it won until the message is out or the    *)
(* event is given up.                                                      *)
Holder(c) ==
  IF gpc[c] \in Granted THEN ev[c]
  ELSE IF hpc[c] \in {"prepare", "publish"} \cup ShadowSteps THEN Current(c)
  ELSE None

Promise == INSTANCE SeedOnce WITH
  taken <- dedup, holder <- [c \in Claims |-> Holder(c)],
  sent <- published, lapses <- lapsed, MaxLapses <- MaxExpiries

PromiseKept == Promise!Spec

(* At-least-once processing: an offset reaches the broker only after every *)
(* event of the messages up to it has been taken to an end.                *)
HandledBeforeCommitted ==
  \A c \in Claims : \A o \in 1 .. committed[c] :
    Log[c][o] # Garbage =>
      \A i \in 1 .. Len(Log[c][o]) : <<c, o, i>> \in handled

(* Once a kill switch is on, what still goes out for the events it covers  *)
(* are the messages already past their kill check: at most one per claim,  *)
(* and one for each lookup that failed.                                    *)
KillSwitchGrace ==
  \A s \in kill : sinceKill[s] <= Cardinality(Claims) + faults

(* The shadow ban is read after the delay, right before publishing: once   *)
(* it is on at most one more message per claim goes out, plus one for each *)
(* lookup that failed.                                                     *)
ShadowBanGrace ==
  \A s \in shadow : sinceShadow[s] <= Cardinality(Claims) + blind

(* CheckMatchLimit reads the counter that IncrTotalMessages raises much    *)
(* later.  The bot messages of a match pass the cap by at most one per     *)
(* other claim, in each lifetime of the counter, plus those never counted. *)
BotMessageCap ==
  \A m \in Matches :
    PerMatch(posted, m) <= (MaxMessagesBot + Cardinality(Claims) - 1) * (1 + reset[TotalKey(m)])
                        + uncounted[m]

(* Until a user speaks the pipeline warms a room up with three messages,   *)
(* the prematch burst counted in, and no bot-only conversation follows -   *)
(* but for the claims that read the chat window before these were in it,   *)
(* the reads that failed, and the burst itself, which asks no policy.      *)
WarmUpBurst ==
  \A m \in Matches :
    users[m] = 0 =>
      Count(chat[m], "bot") <= 3 + Cardinality(Claims) - 1 + faults + prematch[m]

(* With claims and replies at rest, and nothing failed, counter, table and *)
(* handlers agree: a row for each message of the events, the users, the    *)
(* replies and the prematch bursts, and a count for each but the bursts'.  *)
LedgersAgree ==
  (mishaps = 0 /\ crashes = 0 /\ \A c \in Claims : hpc[c] = "poll") =>
    \A m \in Matches :
      LET spoken == PerMatch(posted, m) + users[m] + replies[m] IN
      answered[m] = 0 =>
        /\ PerMatch(saved, m) + rows[m] = spoken + prematch[m]
        /\ reset[TotalKey(m)] = 0 => cnt[TotalKey(m)] = spoken

(* Every message is eventually committed: no message that does not parse,  *)
(* no event, verdict, failure or crash stops a partition for good.         *)
LogDrains == <>[](\A c \in Claims : committed[c] = Len(Log[c]))

===========================================================================
