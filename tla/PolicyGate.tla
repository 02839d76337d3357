---------------------------- MODULE PolicyGate ----------------------------
(***************************************************************************)
(* PolicyChecker.CheckPolicy as several Kafka claims run it at once over   *)
(* one Redis.  Every Redis command is a step of its own, so the steps of   *)
(* two claims interleave wherever the code lets them; a command may fail,  *)
(* and the process may die between any two of them.                        *)
(***************************************************************************)
EXTENDS Integers, Sequences, FiniteSets

CONSTANTS
  Claims,            \* partition claims, one goroutine each
  Matches,
  Events,            \* [id, match, league, type, named]: one per dedup signature
  None,
  MaxEventsPerHour,  \* SeedingPolicy.MaxEventsPerHour
  MaxMessagesBot,    \* SeedingPolicy.MaxMessagesBot
  RatioNum, RatioDen,\* SeedingPolicy.BotRatio = RatioNum / RatioDen
  ChatWindow,        \* length LTRIM leaves of a chat list (50 in the code)
  LastHour,          \* bound: hours of wall clock
  MaxFaults,         \* bound: Redis commands that fail
  MaxExpiries,       \* bound: lapses of each dedup key and each counter
  MaxTraffic,        \* bound: chat and counted messages of other origin
  AdminScopes        \* bound: the switches an admin operates

(* What mapper.go can put in MatchEvent.Type. *)
EventTypes ==
  { "GOAL", "CORNER", "YELLOW_CARD", "RED_CARD", "OFFSIDE", "FREE_KICK",
    "GOAL_KICK", "PENALTY", "SUBSTITUTION", "START", "MIDFIELD", "END",
    "HALFTIME_SCORE", "CARD_UPGRADE_CONFIRMED", "PENALTY_MISSED", "OWN_GOAL",
    "INJURY_TIME", "UNKNOWN" }

ASSUME EventsAssumption ==
  \A e \in Events : /\ e.match \in Matches
                    /\ e.type \in EventTypes
                    /\ e.named \in BOOLEAN

ASSUME NoneAssumption == None \notin Events

ASSUME ClaimsAssumption == IsFiniteSet(Claims) /\ Claims # {}

ASSUME LimitsAssumption ==
  /\ MaxEventsPerHour \in Nat \ {0}
  /\ MaxMessagesBot \in Nat \ {0}
  /\ RatioNum \in Nat /\ RatioDen \in Nat \ {0}
  /\ ChatWindow \in Nat \ {0}

ASSUME BoundsAssumption ==
  /\ LastHour \in Nat /\ MaxFaults \in Nat
  /\ MaxExpiries \in Nat /\ MaxTraffic \in Nat

---------------------------------------------------------------------------
(* The pure parts of the policy. *)

NeedsPlayer(t) == t \in {"GOAL", "YELLOW_CARD", "RED_CARD"}

(* League and type always come filled from the mapper; what validation can *)
(* still refuse is a card, goal or substitution that names nobody.         *)
ValidEventData(e) == (NeedsPlayer(e.type) \/ e.type = "SUBSTITUTION") => e.named

IsSeedable(t) == t \notin {"CORNER", "OFFSIDE", "FREE_KICK", "GOAL_KICK"}

(* Types of weight 1; every other one may lose the roll. *)
AlwaysPassesWeighting(t) == t \in {"GOAL", "RED_CARD", "PENALTY"}

EventTypeLimit(t) ==
  IF t = "GOAL" THEN 3
  ELSE IF t \in {"RED_CARD", "PENALTY", "PENALTY_MISSED", "YELLOW_CARD"} THEN 1
  ELSE 2

Count(msgs, who) == Cardinality({i \in DOMAIN msgs : msgs[i] = who})

(* Mutant: a room without users has no ratio to exceed. *)
ExceedsRatioOfUsers(msgs) ==
  LET bots  == Count(msgs, "bot")
      users == Count(msgs, "user")
  IN  /\ users > 0 /\ bots + users >= 5
      /\ (bots + 1) * RatioDen > RatioNum * (bots + users + 1)

ExceedsProjectedBotRatio(msgs) ==
  LET bots  == Count(msgs, "bot")
      users == Count(msgs, "user")
  IN  \/ RatioNum = 0
      \/ users = 0 /\ bots + 1 > 3
      \/ /\ users > 0 /\ bots + users >= 5
         /\ (bots + 1) * RatioDen > RatioNum * (bots + users + 1)

---------------------------------------------------------------------------
(* Redis keys. *)

Hours == 0 .. LastHour
TypeKey(m, t) == <<"eventtype", m, t>>
HourKey(m, h) == <<"hourly_events", m, h>>
TotalKey(m)   == <<"total_msgs", m>>

Types     == {e.type : e \in Events}
TypeKeys  == {TypeKey(m, t) : m \in Matches, t \in Types}
HourKeys  == {HourKey(m, h) : m \in Matches, h \in Hours}
TotalKeys == {TotalKey(m) : m \in Matches}
CounterKeys == TypeKeys \cup HourKeys \cup TotalKeys

GlobalScope    == <<"global">>
LeagueScope(l) == <<"league", l>>
MatchScope(m)  == <<"match", m>>
Leagues == {e.league : e \in Events}
Scopes  == {GlobalScope} \cup {LeagueScope(l) : l \in Leagues}
                         \cup {MatchScope(m) : m \in Matches}
Covering(e) == {GlobalScope, LeagueScope(e.league), MatchScope(e.match)}

KillSteps  == {"globalForLeague", "league", "globalForMatch", "match"}
Granted    == {"typeGet", "typeIncr", "typeExpire", "hourGet", "hourIncr",
               "hourExpire", "totalGet", "ratio", "pass"}
Decided    == {"pass", "skip", "error"}
GateSteps  == {"idle", "dedup", "skip", "error"} \cup KillSteps \cup Granted

ASSUME AdminAssumption == AdminScopes \subseteq Scopes

VARIABLES
  gpc,      \* where in CheckPolicy each claim is
  ev,       \* the event it is checking
  bucket,   \* hourBucket it computed
  hour,     \* the wall clock's hour
  dedup,    \* live event:<signature> keys
  cnt,      \* value of every ratelimit:* key, 0 when absent
  ttl,      \* which of them have an expiry set
  kill,     \* scopes whose killswitch:* key is "1"
  chat,     \* recent chat window of each match's room, newest first
  faults,   \* Redis commands that have failed
  \* history, read by properties only
  armed,    \* scopes on without a break since the claim's check began
  acquired, \* SETNX successes per event
  lapsed,   \* lapses of each event key
  reset,    \* lapses of each counter
  immortal  \* counters whose EXPIRE was lost

claimVars == <<gpc, ev, bucket, armed>>
history   == <<acquired, lapsed, reset, immortal>>
store     == <<dedup, cnt, ttl, kill, chat>>
gateVars  == <<gpc, ev, bucket, hour, dedup, cnt, ttl, kill, chat, faults,
               armed, acquired, lapsed, reset, immortal>>

TypeOK ==
  /\ gpc \in [Claims -> GateSteps]
  /\ ev \in [Claims -> Events \cup {None}]
  /\ \A c \in Claims : gpc[c] # "idle" => ev[c] \in Events
  /\ bucket \in [Claims -> Hours]
  /\ hour \in Hours
  /\ dedup \subseteq Events
  /\ cnt \in [CounterKeys -> Nat]
  /\ ttl \in [CounterKeys -> BOOLEAN]
  /\ kill \subseteq Scopes
  /\ chat \in [Matches -> Seq({"bot", "user"})]
  /\ faults \in 0 .. MaxFaults
  /\ armed \in [Claims -> SUBSET Scopes]
  /\ acquired \in [Events -> Nat]
  /\ lapsed \in [Events -> 0 .. MaxExpiries]
  /\ reset \in [CounterKeys -> 0 .. MaxExpiries]
  /\ immortal \subseteq CounterKeys

GateInit ==
  /\ gpc = [c \in Claims |-> "idle"]
  /\ ev = [c \in Claims |-> None]
  /\ bucket = [c \in Claims |-> 0]
  /\ hour = 0
  /\ dedup = {}
  /\ cnt = [k \in CounterKeys |-> 0]
  /\ ttl = [k \in CounterKeys |-> FALSE]
  /\ kill = {}
  /\ chat = [m \in Matches |-> <<>>]
  /\ faults = 0
  /\ armed = [c \in Claims |-> {}]
  /\ acquired = [e \in Events |-> 0]
  /\ lapsed = [e \in Events |-> 0]
  /\ reset = [k \in CounterKeys |-> 0]
  /\ immortal = {}

---------------------------------------------------------------------------
(* Helpers of the steps. *)

Goto(c, step) == gpc' = [gpc EXCEPT ![c] = step]

Fault == faults < MaxFaults /\ faults' = faults + 1

Bump(k) == cnt' = [cnt EXCEPT ![k] = @ + 1]

(* incrementCounter's key while a claim is inside one. *)
Key(c) == IF gpc[c] \in {"typeIncr", "typeExpire"}
          THEN TypeKey(ev[c].match, ev[c].type)
          ELSE HourKey(ev[c].match, bucket[c])

Incrementing == {"typeIncr", "hourIncr"}
Expiring     == {"typeExpire", "hourExpire"}

ExpireStep(s) == IF s = "typeIncr" THEN "typeExpire" ELSE "hourExpire"
AfterCounter(s) == IF s \in {"typeIncr", "typeExpire"} THEN "hourGet" ELSE "totalGet"

(* LPUSH and LTRIM of a chat list. *)
Trim(s) == IF Len(s) > ChatWindow THEN SubSeq(s, 1, ChatWindow) ELSE s
PushChat(m, who) == chat' = [chat EXCEPT ![m] = Trim(<<who>> \o @)]

---------------------------------------------------------------------------
(* The entry of CheckPolicy, up to its first Redis command. *)

Refuse(c, e) ==
  /\ gpc[c] = "idle"
  /\ \/ ~ValidEventData(e)
     \/ ~IsSeedable(e.type)
     \/ ~AlwaysPassesWeighting(e.type)
  /\ Goto(c, "skip")
  /\ ev' = [ev EXCEPT ![c] = e]
  /\ UNCHANGED <<bucket, armed, hour, faults, store, history>>

Admit(c, e) ==
  /\ gpc[c] = "idle"
  /\ ValidEventData(e)
  /\ IsSeedable(e.type)
  /\ Goto(c, "globalForLeague")
  /\ ev' = [ev EXCEPT ![c] = e]
  /\ armed' = [armed EXCEPT ![c] = kill \cap Covering(e)]
  /\ UNCHANGED <<bucket, hour, faults, store, history>>

---------------------------------------------------------------------------
(* IsKilled("league", ...) then IsKilled("match", ...): each reads the     *)
(* global key first.  A failed read ends its call, is logged, and counts   *)
(* as not killed.                                                          *)

(* Mutant: the global key is never consulted. *)
ScopeReadNarrow(step, e) ==
  IF step \in {"globalForLeague", "league"} THEN LeagueScope(e.league)
  ELSE MatchScope(e.match)

ScopeRead(step, e) ==
  IF step = "league" THEN LeagueScope(e.league)
  ELSE IF step = "match" THEN MatchScope(e.match)
  ELSE GlobalScope

(* Mutant: the league's call starts over instead of giving way. *)
NextKillReadLoops(step) ==
  IF step = "globalForLeague" THEN "league"
  ELSE IF step = "league" THEN "globalForLeague"
  ELSE IF step = "globalForMatch" THEN "match"
  ELSE "dedup"

NextKillRead(step) ==
  IF step = "globalForLeague" THEN "league"
  ELSE IF step = "league" THEN "globalForMatch"
  ELSE IF step = "globalForMatch" THEN "match"
  ELSE "dedup"

(* Mutant: one failed call gives up on both. *)
KillCallFailedGivesUp(step) == "dedup"

KillCallFailed(step) ==
  IF step \in {"globalForLeague", "league"} THEN "globalForMatch" ELSE "dedup"

(* The scopes nobody will read any more once this read has failed. *)
Unread(step, e) ==
  IF step \in {"globalForLeague", "league"} THEN {LeagueScope(e.league)}
  ELSE IF step = "globalForMatch" THEN {GlobalScope, MatchScope(e.match)}
  ELSE {MatchScope(e.match)}

ReadKillKey(c) ==
  /\ gpc[c] \in KillSteps
  /\ Goto(c, IF ScopeRead(gpc[c], ev[c]) \in kill
             THEN "skip" ELSE NextKillRead(gpc[c]))
  /\ UNCHANGED <<ev, bucket, armed, hour, faults, store, history>>

ReadKillKeyFails(c) ==
  /\ gpc[c] \in KillSteps
  /\ Fault
  /\ Goto(c, KillCallFailed(gpc[c]))
  /\ armed' = [armed EXCEPT ![c] = @ \ Unread(gpc[c], ev[c])]
  /\ UNCHANGED <<ev, bucket, hour, store, history>>

---------------------------------------------------------------------------
(* IsDuplicateEvent: one SETNX.  A failed one may or may not have been     *)
(* applied; either way the check ends in an error.                         *)

(* Mutant: the key is looked up and never written. *)
SetDedupKeyForgets(c) ==
  /\ gpc[c] = "dedup"
  /\ IF ev[c] \in dedup
     THEN Goto(c, "skip") /\ UNCHANGED acquired
     ELSE Goto(c, "typeGet") /\ acquired' = [acquired EXCEPT ![ev[c]] = @ + 1]
  /\ UNCHANGED <<ev, bucket, armed, hour, store, faults, lapsed, reset, immortal>>

(* Mutant: the answer of the SETNX is not looked at. *)
SetDedupKeyLetsThrough(c) ==
  /\ gpc[c] = "dedup"
  /\ Goto(c, "typeGet")
  /\ dedup' = dedup \cup {ev[c]}
  /\ acquired' = [acquired EXCEPT ![ev[c]] = @ + (IF ev[c] \in dedup THEN 0 ELSE 1)]
  /\ UNCHANGED <<ev, bucket, armed, hour, cnt, ttl, kill, chat, faults,
                 lapsed, reset, immortal>>

SetDedupKey(c) ==
  /\ gpc[c] = "dedup"
  /\ IF ev[c] \in dedup
     THEN Goto(c, "skip") /\ UNCHANGED <<dedup, acquired>>
     ELSE /\ Goto(c, "typeGet")
          /\ dedup' = dedup \cup {ev[c]}
          /\ acquired' = [acquired EXCEPT ![ev[c]] = @ + 1]
  /\ UNCHANGED <<ev, bucket, armed, hour, cnt, ttl, kill, chat, faults,
                 lapsed, reset, immortal>>

SetDedupKeyFails(c) ==
  /\ gpc[c] = "dedup"
  /\ Fault
  /\ dedup' \in {dedup, dedup \cup {ev[c]}}
  /\ Goto(c, "error")
  /\ UNCHANGED <<ev, bucket, armed, hour, cnt, ttl, kill, chat, history>>

---------------------------------------------------------------------------
(* The counters: GET in one step, INCR in another, EXPIRE in a third.      *)

(* Mutant: > for >=. *)
ReadTypeCounterOffByOne(c) ==
  /\ gpc[c] = "typeGet"
  /\ Goto(c, IF cnt[TypeKey(ev[c].match, ev[c].type)] > EventTypeLimit(ev[c].type)
             THEN "skip" ELSE "typeIncr")
  /\ UNCHANGED <<ev, bucket, armed, hour, faults, store, history>>

ReadTypeCounter(c) ==
  /\ gpc[c] = "typeGet"
  /\ Goto(c, IF cnt[TypeKey(ev[c].match, ev[c].type)] >= EventTypeLimit(ev[c].type)
             THEN "skip" ELSE "typeIncr")
  /\ UNCHANGED <<ev, bucket, armed, hour, faults, store, history>>

(* Mutant: the bucket is that of the hour to come. *)
ReadHourCounterRoundsUp(c) ==
  /\ gpc[c] = "hourGet"
  /\ bucket' = [bucket EXCEPT ![c] = hour + 1]
  /\ Goto(c, IF cnt[HourKey(ev[c].match, hour)] >= MaxEventsPerHour
             THEN "skip" ELSE "hourIncr")
  /\ UNCHANGED <<ev, armed, hour, faults, store, history>>

ReadHourCounter(c) ==
  /\ gpc[c] = "hourGet"
  /\ bucket' = [bucket EXCEPT ![c] = hour]
  /\ Goto(c, IF cnt[HourKey(ev[c].match, hour)] >= MaxEventsPerHour
             THEN "skip" ELSE "hourIncr")
  /\ UNCHANGED <<ev, armed, hour, faults, store, history>>

(* Mutant: > for >=. *)
ReadTotalCounterOffByOne(c) ==
  /\ gpc[c] = "totalGet"
  /\ Goto(c, IF cnt[TotalKey(ev[c].match)] > MaxMessagesBot THEN "skip" ELSE "ratio")
  /\ UNCHANGED <<ev, bucket, armed, hour, faults, store, history>>

ReadTotalCounter(c) ==
  /\ gpc[c] = "totalGet"
  /\ Goto(c, IF cnt[TotalKey(ev[c].match)] >= MaxMessagesBot THEN "skip" ELSE "ratio")
  /\ UNCHANGED <<ev, bucket, armed, hour, faults, store, history>>

ReadCounterFails(c) ==
  /\ gpc[c] \in {"typeGet", "hourGet", "totalGet"}
  /\ Fault
  /\ Goto(c, "error")
  /\ UNCHANGED <<ev, bucket, armed, hour, store, history>>

(* Mutant: the expiry is set on the second increment. *)
IncrementCounterLate(c) ==
  /\ gpc[c] \in Incrementing
  /\ Bump(Key(c))
  /\ Goto(c, IF cnt[Key(c)] = 1 THEN ExpireStep(gpc[c]) ELSE AfterCounter(gpc[c]))
  /\ UNCHANGED <<ev, bucket, armed, hour, dedup, ttl, kill, chat, faults, history>>

IncrementCounter(c) ==
  /\ gpc[c] \in Incrementing
  /\ Bump(Key(c))
  /\ Goto(c, IF cnt[Key(c)] = 0 THEN ExpireStep(gpc[c]) ELSE AfterCounter(gpc[c]))
  /\ UNCHANGED <<ev, bucket, armed, hour, dedup, ttl, kill, chat, faults, history>>

(* A failed INCR may have been applied; the EXPIRE is then never sent. *)
IncrementCounterFails(c) ==
  /\ gpc[c] \in Incrementing
  /\ Fault
  /\ \/ UNCHANGED <<cnt, immortal>>
     \/ /\ Bump(Key(c))
        /\ immortal' = IF cnt[Key(c)] = 0 THEN immortal \cup {Key(c)} ELSE immortal
  /\ Goto(c, "error")
  /\ UNCHANGED <<ev, bucket, armed, hour, dedup, ttl, kill, chat, acquired, lapsed, reset>>

ExpireCounter(c) ==
  /\ gpc[c] \in Expiring
  /\ ttl' = [ttl EXCEPT ![Key(c)] = TRUE]
  /\ Goto(c, AfterCounter(gpc[c]))
  /\ UNCHANGED <<ev, bucket, armed, hour, dedup, cnt, kill, chat, faults, history>>

(* A failed EXPIRE is a warning on stdout. *)
ExpireCounterFails(c) ==
  /\ gpc[c] \in Expiring
  /\ Fault
  /\ immortal' = immortal \cup {Key(c)}
  /\ Goto(c, AfterCounter(gpc[c]))
  /\ UNCHANGED <<ev, bucket, armed, hour, store, acquired, lapsed, reset>>

---------------------------------------------------------------------------
(* The last check, and the return to the caller. *)

CheckBotRatio(c) ==
  /\ gpc[c] = "ratio"
  /\ Goto(c, IF ExceedsProjectedBotRatio(chat[ev[c].match]) THEN "skip" ELSE "pass")
  /\ UNCHANGED <<ev, bucket, armed, hour, faults, store, history>>

CheckBotRatioFails(c) ==
  /\ gpc[c] = "ratio"
  /\ Fault
  /\ Goto(c, "pass")
  /\ UNCHANGED <<ev, bucket, armed, hour, store, history>>

Return(c) ==
  /\ gpc[c] \in Decided
  /\ Goto(c, "idle")
  /\ ev' = [ev EXCEPT ![c] = None]
  /\ bucket' = [bucket EXCEPT ![c] = 0]
  /\ armed' = [armed EXCEPT ![c] = {}]
  /\ UNCHANGED <<hour, faults, store, history>>

---------------------------------------------------------------------------
(* What goes on around the checks. *)

(* admin.go sets one key; its TTL of 7 days lapsing is a switch turned off. *)
SetKillSwitch(scope, on) ==
  /\ kill' = IF on THEN kill \cup {scope} ELSE kill \ {scope}
  /\ armed' = IF on THEN armed ELSE [c \in Claims |-> armed[c] \ {scope}]
  /\ UNCHANGED <<gpc, ev, bucket, hour, dedup, cnt, ttl, chat, faults, history>>

DedupKeyExpires(e) ==
  /\ e \in dedup
  /\ lapsed[e] < MaxExpiries
  /\ dedup' = dedup \ {e}
  /\ lapsed' = [lapsed EXCEPT ![e] = @ + 1]
  /\ UNCHANGED <<claimVars, hour, cnt, ttl, kill, chat, faults,
                 acquired, reset, immortal>>

CounterExpires(k) ==
  /\ ttl[k]
  /\ reset[k] < MaxExpiries
  /\ cnt' = [cnt EXCEPT ![k] = 0]
  /\ ttl' = [ttl EXCEPT ![k] = FALSE]
  /\ reset' = [reset EXCEPT ![k] = @ + 1]
  /\ UNCHANGED <<claimVars, hour, dedup, kill, chat, faults,
                 acquired, lapsed, immortal>>

NextHour ==
  /\ hour < LastHour
  /\ hour' = hour + 1
  /\ UNCHANGED <<claimVars, store, faults, history>>

(* Other handlers post to the room: its chat list gains a message, the     *)
(* match's total is counted and given its expiry, in any combination.      *)
OthersPost(m) ==
  /\ \/ UNCHANGED chat
     \/ \E who \in {"bot", "user"} : PushChat(m, who)
  /\ \/ UNCHANGED cnt
     \/ Bump(TotalKey(m))
  /\ ttl' \in {ttl, [ttl EXCEPT ![TotalKey(m)] = TRUE]}
  /\ UNCHANGED <<claimVars, hour, dedup, kill, faults, history>>

(* The process dies and restarts: every goroutine is gone, Redis is not. *)
Crash ==
  /\ gpc' = [c \in Claims |-> "idle"]
  /\ ev' = [c \in Claims |-> None]
  /\ bucket' = [c \in Claims |-> 0]
  /\ armed' = [c \in Claims |-> {}]
  /\ immortal' = immortal \cup {Key(c) : c \in {d \in Claims : gpc[d] \in Expiring}}
  /\ UNCHANGED <<hour, store, faults, acquired, lapsed, reset>>

---------------------------------------------------------------------------

GateStep(c) ==
  \/ ReadKillKey(c) \/ SetDedupKey(c)
  \/ ReadTypeCounter(c) \/ ReadHourCounter(c) \/ ReadTotalCounter(c)
  \/ IncrementCounter(c) \/ ExpireCounter(c) \/ CheckBotRatio(c)

GateFault(c) ==
  \/ ReadKillKeyFails(c) \/ SetDedupKeyFails(c) \/ ReadCounterFails(c)
  \/ IncrementCounterFails(c) \/ ExpireCounterFails(c) \/ CheckBotRatioFails(c)

Environment ==
  \/ \E s \in AdminScopes, on \in BOOLEAN : SetKillSwitch(s, on)
  \/ \E e \in Events : DedupKeyExpires(e)
  \/ \E k \in CounterKeys : CounterExpires(k)
  \/ NextHour
  \/ \E m \in Matches : Len(chat[m]) + cnt[TotalKey(m)] < MaxTraffic /\ OthersPost(m)
  \/ Crash

GateNext ==
  \/ \E c \in Claims, e \in Events : Refuse(c, e) \/ Admit(c, e)
  \/ \E c \in Claims : GateStep(c) \/ GateFault(c) \/ Return(c)
  \/ Environment

GateSpec == GateInit /\ [][GateNext]_gateVars

(* A goroutine that can run does run; no fault and no admin is owed. *)
GateFairSpec == GateSpec /\ \A c \in Claims : WF_gateVars(GateStep(c))

---------------------------------------------------------------------------
(* Properties. *)

Limit(k) == IF k \in TypeKeys THEN EventTypeLimit(k[3]) ELSE MaxEventsPerHour

(* CheckEventTypeLimit and CheckHourlyEventLimit read the counter and      *)
(* increment it in two commands.  However the claims interleave, fail and  *)
(* restart, a counter passes its limit by at most one per other claim.     *)
LimitOvershoot ==
  \A k \in TypeKeys \cup HourKeys : cnt[k] <= Limit(k) + Cardinality(Claims) - 1

(* A check that began while a kill switch covering its event was on does   *)
(* not get past the kill-switch reads as long as the switch stays on,      *)
(* unless the very reads that would have seen it failed: one failed league *)
(* lookup never hides the match switch or the global one.                  *)
KillSwitchHolds ==
  \A c \in Claims : gpc[c] \in {"dedup", "error"} \cup Granted => armed[c] = {}

(* An event is let past dedup once per lifetime of its key, whatever the   *)
(* number of claims that are handed it and of redeliveries after a crash.  *)
OneGrantPerKey == \A e \in Events : acquired[e] <= 1 + lapsed[e]

(* The wins of the events that spend from one quota. *)
Wins(m, t) ==
  UNION {{e} \X (1 .. acquired[e]) : e \in {x \in Events : x.match = m /\ x.type = t}}

(* Quota is spent only by events that won their dedup key: a type's        *)
(* counter never exceeds the wins of its events, faults included.          *)
QuotaBacked ==
  \A m \in Matches, t \in Types : cnt[TypeKey(m, t)] <= Cardinality(Wins(m, t))

(* A counter without an expiry blocks its event type for the rest of the   *)
(* match.  Between INCR and EXPIRE that is so for a moment; for longer it  *)
(* is so only if the EXPIRE was lost to a fault or a crash.                *)
CountersLapse ==
  \A k \in TypeKeys \cup HourKeys :
    cnt[k] > 0 /\ ~ttl[k] =>
      \/ k \in immortal
      \/ \E c \in Claims : gpc[c] \in Expiring /\ Key(c) = k

(* A check that has begun comes to a verdict, or its process dies. *)
ChecksEnd ==
  \A c \in Claims : gpc[c] \notin {"idle"} \cup Decided
                      ~> gpc[c] \in {"idle"} \cup Decided

---------------------------------------------------------------------------
(* Inductive strengthenings of the properties above. *)

(* The wins so far are covered by the lapses, and the key that is live. *)
GrantBound ==
  \A e \in Events : acquired[e] <= lapsed[e] + (IF e \in dedup THEN 1 ELSE 0)

(* At each kill-switch read: the scopes that can still be armed. *)
StillUnread(step, e) ==
  IF step = "globalForLeague" THEN Covering(e)
  ELSE IF step = "league" THEN {LeagueScope(e.league), MatchScope(e.match)}
  ELSE IF step = "globalForMatch" THEN {GlobalScope, MatchScope(e.match)}
  ELSE {MatchScope(e.match)}

ArmedUnread ==
  \A c \in Claims :
    gpc[c] \in KillSteps => armed[c] \subseteq kill \cap StillUnread(gpc[c], ev[c])

(* The claims that have read a counter below its limit and not raised it. *)
Pending(k) == {c \in Claims : gpc[c] \in Incrementing /\ Key(c) = k}

PendingBound ==
  \A k \in TypeKeys \cup HourKeys :
    cnt[k] + Cardinality(Pending(k)) <= Limit(k) + Cardinality(Claims) - 1

===========================================================================
