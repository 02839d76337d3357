------------------------- MODULE PolicyGate_proofs -------------------------
(* Theorems about PolicyGate, for any claims, events, limits and bounds. *)
EXTENDS PolicyGate, FiniteSetTheorems, TLAPS

(* Where a claim can go from each step of the check. *)
LEMMA StepsClosed ==
  /\ \A s \in KillSteps : NextKillRead(s) \in GateSteps /\ KillCallFailed(s) \in GateSteps
  /\ \A s \in Incrementing : ExpireStep(s) \in GateSteps
  /\ \A s \in Incrementing \cup Expiring : AfterCounter(s) \in GateSteps
BY DEF KillSteps, NextKillRead, KillCallFailed, GateSteps, Granted, Incrementing,
       Expiring, ExpireStep, AfterCounter

(* Every key a claim reads or increments is a counter. *)
LEMMA KeysAreCounters ==
  ASSUME TypeOK, NEW c \in Claims, gpc[c] # "idle"
  PROVE  /\ ev[c] \in Events /\ ev[c].match \in Matches /\ ev[c].type \in Types
         /\ Key(c) \in TypeKeys \cup HourKeys
         /\ Key(c) \in CounterKeys
<1>1. ev[c] \in Events /\ ev[c].match \in Matches /\ ev[c].type \in Types
  BY EventsAssumption DEF TypeOK, Types
<1>2. bucket[c] \in Hours
  BY DEF TypeOK
<1>3. Key(c) \in TypeKeys \cup HourKeys
  BY <1>1, <1>2 DEF Key, TypeKeys, HourKeys
<1> QED
  BY <1>1, <1>3 DEF CounterKeys

LEMMA TrimType ==
  ASSUME NEW s \in Seq({"bot", "user"}), NEW who \in {"bot", "user"}
  PROVE  Trim(<<who>> \o s) \in Seq({"bot", "user"})
<1> DEFINE t == <<who>> \o s
<1>1. t \in Seq({"bot", "user"})
  OBVIOUS
<1>2. CASE Len(t) > ChatWindow
  <2>1. ChatWindow \in 1 .. Len(t)
    BY <1>1, <1>2, LimitsAssumption
  <2>2. SubSeq(t, 1, ChatWindow) \in Seq({"bot", "user"})
    BY <1>1, <2>1
  <2> QED
    BY <1>2, <2>2 DEF Trim
<1>3. CASE ~(Len(t) > ChatWindow)
  BY <1>1, <1>3 DEF Trim
<1> QED
  BY <1>2, <1>3

---------------------------------------------------------------------------
(* The gate under any amount of other traffic: MaxTraffic bounds only what *)
(* the runs explore, and a module that composes the gate brings its own.   *)
OpenNext == GateNext \/ \E m \in Matches : OthersPost(m)
OpenSpec == GateInit /\ [][OpenNext]_gateVars

LEMMA GateIsOpen == GateSpec => OpenSpec
<1>1. [GateNext]_gateVars => [OpenNext]_gateVars
  BY DEF OpenNext
<1> QED
  BY <1>1, PTL DEF GateSpec, OpenSpec

---------------------------------------------------------------------------
(* Type correctness, one step per action. *)

LEMMA TypeStep == TypeOK /\ [OpenNext]_gateVars => TypeOK'
<1> SUFFICES ASSUME TypeOK, [OpenNext]_gateVars PROVE TypeOK'
  OBVIOUS
<1> USE DEF TypeOK, claimVars, history, store, Goto
<1>f. Fault => faults' \in 0 .. MaxFaults
  BY BoundsAssumption DEF Fault
<1>b. \A k \in CounterKeys : Bump(k) => cnt' \in [CounterKeys -> Nat]
  BY DEF Bump
<1>k. \A c \in Claims : gpc[c] # "idle" => ev[c] \in Events /\ Key(c) \in CounterKeys
  BY KeysAreCounters
<1>1. ASSUME NEW c \in Claims, NEW e \in Events, Refuse(c, e) PROVE TypeOK'
  BY <1>1 DEF Refuse, GateSteps
<1>2. ASSUME NEW c \in Claims, NEW e \in Events, Admit(c, e) PROVE TypeOK'
  BY <1>2 DEF Admit, GateSteps, KillSteps
<1>3. ASSUME NEW c \in Claims, ReadKillKey(c) PROVE TypeOK'
  <2>1. gpc' \in [Claims -> GateSteps]
    BY <1>3, StepsClosed DEF ReadKillKey, GateSteps
  <2> QED
    BY <1>3, <2>1 DEF ReadKillKey, KillSteps
<1>4. ASSUME NEW c \in Claims, ReadKillKeyFails(c) PROVE TypeOK'
  <2>1. gpc' \in [Claims -> GateSteps]
    BY <1>4, StepsClosed DEF ReadKillKeyFails
  <2>2. armed' \in [Claims -> SUBSET Scopes]
    BY <1>4 DEF ReadKillKeyFails
  <2> QED
    BY <1>4, <1>f, <2>1, <2>2 DEF ReadKillKeyFails, KillSteps
<1>5. ASSUME NEW c \in Claims, SetDedupKey(c) PROVE TypeOK'
  <2>1. gpc' \in [Claims -> GateSteps] /\ ev[c] \in Events /\ gpc[c] # "idle"
    BY <1>5 DEF SetDedupKey, GateSteps, Granted
  <2>2. dedup' \subseteq Events /\ acquired' \in [Events -> Nat]
    <3>1. CASE ev[c] \in dedup
      BY <1>5, <3>1 DEF SetDedupKey
    <3>2. CASE ev[c] \notin dedup
      <4>1. dedup' = dedup \cup {ev[c]} /\ acquired' = [acquired EXCEPT ![ev[c]] = @ + 1]
        BY <1>5, <3>2 DEF SetDedupKey
      <4> QED
        BY <2>1, <4>1
    <3> QED
      BY <3>1, <3>2
  <2> QED
    BY <1>5, <2>1, <2>2 DEF SetDedupKey
<1>6. ASSUME NEW c \in Claims, SetDedupKeyFails(c) PROVE TypeOK'
  <2>1. gpc' \in [Claims -> GateSteps] /\ ev[c] \in Events
    BY <1>6 DEF SetDedupKeyFails, GateSteps
  <2> QED
    BY <1>6, <1>f, <2>1 DEF SetDedupKeyFails
<1>7. ASSUME NEW c \in Claims, ReadTypeCounter(c) PROVE TypeOK'
  BY <1>7 DEF ReadTypeCounter, GateSteps, Granted
<1>8. ASSUME NEW c \in Claims, ReadHourCounter(c) PROVE TypeOK'
  BY <1>8 DEF ReadHourCounter, GateSteps, Granted
<1>9. ASSUME NEW c \in Claims, ReadTotalCounter(c) PROVE TypeOK'
  BY <1>9 DEF ReadTotalCounter, GateSteps, Granted
<1>10. ASSUME NEW c \in Claims, ReadCounterFails(c) PROVE TypeOK'
  BY <1>10, <1>f DEF ReadCounterFails, GateSteps
<1>11. ASSUME NEW c \in Claims, IncrementCounter(c) PROVE TypeOK'
  <2>1. gpc' \in [Claims -> GateSteps] /\ gpc[c] # "idle"
    BY <1>11, StepsClosed DEF IncrementCounter, Incrementing
  <2> QED
    BY <1>11, <1>b, <1>k, <2>1 DEF IncrementCounter
<1>12. ASSUME NEW c \in Claims, IncrementCounterFails(c) PROVE TypeOK'
  <2>1. gpc' \in [Claims -> GateSteps] /\ gpc[c] # "idle"
    BY <1>12 DEF IncrementCounterFails, Incrementing, GateSteps
  <2>2. cnt' \in [CounterKeys -> Nat] /\ immortal' \subseteq CounterKeys
    BY <1>12, <1>b, <1>k, <2>1 DEF IncrementCounterFails
  <2> QED
    BY <1>12, <1>f, <2>1, <2>2 DEF IncrementCounterFails
<1>13. ASSUME NEW c \in Claims, ExpireCounter(c) PROVE TypeOK'
  <2>1. gpc' \in [Claims -> GateSteps] /\ gpc[c] # "idle"
    BY <1>13, StepsClosed DEF ExpireCounter, Expiring
  <2> QED
    BY <1>13, <1>k, <2>1 DEF ExpireCounter
<1>14. ASSUME NEW c \in Claims, ExpireCounterFails(c) PROVE TypeOK'
  <2>1. gpc' \in [Claims -> GateSteps] /\ gpc[c] # "idle"
    BY <1>14, StepsClosed DEF ExpireCounterFails, Expiring
  <2> QED
    BY <1>14, <1>f, <1>k, <2>1 DEF ExpireCounterFails
<1>15. ASSUME NEW c \in Claims, CheckBotRatio(c) PROVE TypeOK'
  BY <1>15 DEF CheckBotRatio, GateSteps, Granted
<1>16. ASSUME NEW c \in Claims, CheckBotRatioFails(c) PROVE TypeOK'
  BY <1>16, <1>f DEF CheckBotRatioFails, GateSteps, Granted
<1>17. ASSUME NEW c \in Claims, Return(c) PROVE TypeOK'
  <2>1. gpc' \in [Claims -> GateSteps] /\ bucket' \in [Claims -> Hours]
    BY <1>17, BoundsAssumption DEF Return, GateSteps, Hours
  <2>2. ev' \in [Claims -> Events \cup {None}] /\ armed' \in [Claims -> SUBSET Scopes]
    BY <1>17 DEF Return
  <2>3. \A d \in Claims : gpc'[d] # "idle" => ev'[d] \in Events
    BY <1>17 DEF Return
  <2> QED
    BY <1>17, <2>1, <2>2, <2>3 DEF Return
<1>18. ASSUME NEW s \in Scopes, NEW on \in BOOLEAN, SetKillSwitch(s, on) PROVE TypeOK'
  BY <1>18 DEF SetKillSwitch
<1>19. ASSUME NEW e \in Events, DedupKeyExpires(e) PROVE TypeOK'
  BY <1>19, BoundsAssumption DEF DedupKeyExpires
<1>20. ASSUME NEW k \in CounterKeys, CounterExpires(k) PROVE TypeOK'
  BY <1>20, BoundsAssumption DEF CounterExpires
<1>21. CASE NextHour
  BY <1>21, BoundsAssumption DEF NextHour, Hours
<1>22. ASSUME NEW m \in Matches, OthersPost(m) PROVE TypeOK'
  <2>1. TotalKey(m) \in CounterKeys
    BY DEF CounterKeys, TotalKeys
  <2>2. chat' \in [Matches -> Seq({"bot", "user"})]
    <3>1. \A who \in {"bot", "user"} : Trim(<<who>> \o chat[m]) \in Seq({"bot", "user"})
      BY TrimType
    <3>2. \A who \in {"bot", "user"} :
            PushChat(m, who) => chat' \in [Matches -> Seq({"bot", "user"})]
      BY <3>1 DEF PushChat
    <3> QED
      BY <1>22, <3>2 DEF OthersPost
  <2>3. cnt' \in [CounterKeys -> Nat] /\ ttl' \in [CounterKeys -> BOOLEAN]
    BY <1>22, <1>b, <2>1 DEF OthersPost
  <2> QED
    BY <1>22, <2>2, <2>3 DEF OthersPost
<1>23. CASE Crash
  <2>1. \A d \in Claims : gpc[d] \in Expiring => Key(d) \in CounterKeys
    BY <1>k DEF Expiring
  <2> QED
    BY <1>23, <2>1, BoundsAssumption DEF Crash, GateSteps, Hours
<1>24. CASE UNCHANGED gateVars
  BY <1>24 DEF gateVars
<1> QED
  BY <1>1, <1>2, <1>3, <1>4, <1>5, <1>6, <1>7, <1>8, <1>9, <1>10, <1>11, <1>12,
     <1>13, <1>14, <1>15, <1>16, <1>17, <1>18, <1>19, <1>20, <1>21, <1>22,
     <1>23, <1>24, AdminAssumption
  DEF OpenNext, GateNext, GateStep, GateFault, Environment

LEMMA OpenTyping == OpenSpec => []TypeOK
<1>1. GateInit => TypeOK
  BY BoundsAssumption DEF GateInit, TypeOK, GateSteps, Hours
<1> QED
  BY <1>1, TypeStep, PTL DEF OpenSpec

(* Every reachable state is well typed. *)
THEOREM GateTyping == GateSpec => []TypeOK
BY OpenTyping, GateIsOpen, PTL

---------------------------------------------------------------------------
(* One grant per key. *)

LEMMA GrantStep == TypeOK /\ GrantBound /\ [OpenNext]_gateVars => GrantBound'
<1> SUFFICES ASSUME TypeOK, GrantBound, [OpenNext]_gateVars PROVE GrantBound'
  OBVIOUS
<1> USE DEF GrantBound
<1>u. ASSUME UNCHANGED <<acquired, lapsed, dedup>> PROVE GrantBound'
  BY <1>u
<1>1. ASSUME NEW c \in Claims, SetDedupKey(c) PROVE GrantBound'
  <2>1. ev[c] \in Events
    BY <1>1 DEF SetDedupKey, TypeOK
  <2>2. CASE ev[c] \in dedup
    BY <1>1, <2>2, <1>u DEF SetDedupKey
  <2>3. CASE ev[c] \notin dedup
    <3>1. /\ dedup' = dedup \cup {ev[c]}
          /\ acquired' = [acquired EXCEPT ![ev[c]] = @ + 1]
          /\ UNCHANGED lapsed
      BY <1>1, <2>3 DEF SetDedupKey
    <3> QED
      BY <2>1, <2>3, <3>1 DEF TypeOK
  <2> QED
    BY <2>2, <2>3
<1>2. ASSUME NEW c \in Claims, SetDedupKeyFails(c) PROVE GrantBound'
  BY <1>2, BoundsAssumption DEF SetDedupKeyFails, history, TypeOK
<1>3. ASSUME NEW e \in Events, DedupKeyExpires(e) PROVE GrantBound'
  <2>1. /\ e \in dedup /\ dedup' = dedup \ {e} /\ UNCHANGED acquired
        /\ lapsed' = [lapsed EXCEPT ![e] = @ + 1]
    BY <1>3 DEF DedupKeyExpires
  <2>2. \A x \in Events : acquired[x] \in Nat /\ lapsed[x] \in Nat
    BY BoundsAssumption DEF TypeOK
  <2> QED
    BY <2>1, <2>2 DEF TypeOK
<1>4. ASSUME \E c \in Claims, e \in Events : Refuse(c, e) \/ Admit(c, e) PROVE GrantBound'
  BY <1>4, <1>u DEF Refuse, Admit, store, history
<1>5. ASSUME NEW c \in Claims,
             \/ ReadKillKey(c) \/ ReadTypeCounter(c) \/ ReadHourCounter(c)
             \/ ReadTotalCounter(c) \/ IncrementCounter(c) \/ ExpireCounter(c)
             \/ CheckBotRatio(c)
      PROVE GrantBound'
  BY <1>5, <1>u DEF ReadKillKey, ReadTypeCounter, ReadHourCounter, ReadTotalCounter,
                    IncrementCounter, ExpireCounter, CheckBotRatio, store, history
<1>6. ASSUME NEW c \in Claims,
             \/ ReadKillKeyFails(c) \/ ReadCounterFails(c) \/ IncrementCounterFails(c)
             \/ ExpireCounterFails(c) \/ CheckBotRatioFails(c) \/ Return(c)
      PROVE GrantBound'
  BY <1>6, <1>u DEF ReadKillKeyFails, ReadCounterFails, IncrementCounterFails,
                    ExpireCounterFails, CheckBotRatioFails, Return, store, history
<1>7. ASSUME \/ \E s \in Scopes, on \in BOOLEAN : SetKillSwitch(s, on)
             \/ \E k \in CounterKeys : CounterExpires(k)
             \/ NextHour \/ Crash
             \/ \E m \in Matches : OthersPost(m)
      PROVE GrantBound'
  BY <1>7, <1>u DEF SetKillSwitch, CounterExpires, NextHour, Crash, OthersPost,
                    store, history
<1>8. CASE UNCHANGED gateVars
  BY <1>8, <1>u DEF gateVars
<1> QED
  BY <1>1, <1>2, <1>3, <1>4, <1>5, <1>6, <1>7, <1>8, AdminAssumption
  DEF OpenNext, GateNext, GateStep, GateFault, Environment

LEMMA OpenGrants == OpenSpec => []OneGrantPerKey
<1>1. GateInit => GrantBound
  BY DEF GateInit, GrantBound
<1>2. TypeOK /\ GrantBound => OneGrantPerKey
  <2> SUFFICES ASSUME TypeOK, GrantBound, NEW e \in Events
               PROVE  acquired[e] <= 1 + lapsed[e]
    BY DEF OneGrantPerKey
  <2>1. acquired[e] \in Nat /\ lapsed[e] \in Nat
    BY BoundsAssumption DEF TypeOK
  <2> QED
    BY <2>1 DEF GrantBound
<1> QED
  BY <1>1, <1>2, OpenTyping, GrantStep, PTL DEF OpenSpec

(* SETNX lets an event past dedup once per lifetime of its key. *)
THEOREM GrantedOnce == GateSpec => []OneGrantPerKey
BY OpenGrants, GateIsOpen, PTL

---------------------------------------------------------------------------
(* The kill switch. *)

LEMMA ArmedStep ==
  TypeOK /\ ArmedUnread /\ KillSwitchHolds /\ [OpenNext]_gateVars
    => ArmedUnread' /\ KillSwitchHolds'
<1> SUFFICES ASSUME TypeOK, ArmedUnread, KillSwitchHolds, [OpenNext]_gateVars
             PROVE  ArmedUnread' /\ KillSwitchHolds'
  OBVIOUS
<1> DEFINE Past == {"dedup", "error"} \cup Granted
           Good(d) == /\ gpc[d] \in KillSteps =>
                           armed[d] \subseteq kill \cap StillUnread(gpc[d], ev[d])
                      /\ gpc[d] \in Past => armed[d] = {}
<1>g. \A d \in Claims : Good(d)
  BY DEF ArmedUnread, KillSwitchHolds
<1>s. SUFFICES \A d \in Claims : Good(d)'
  BY DEF ArmedUnread, KillSwitchHolds
<1> HIDE DEF Good
(* A claim that does not move keeps what it has. *)
<1>o. ASSUME NEW d \in Claims, UNCHANGED <<gpc[d], ev[d], armed[d], kill>>
      PROVE  Good(d)'
  BY <1>o, <1>g DEF Good
(* A claim past its kill-switch reads has nothing armed and arms nothing. *)
<1>p. ASSUME NEW d \in Claims, gpc[d] \in Past, gpc'[d] \notin KillSteps,
             armed'[d] = armed[d]
      PROVE  Good(d)'
  BY <1>p, <1>g DEF Good
<1>i. ASSUME NEW d \in Claims, gpc'[d] \notin KillSteps \cup Past
      PROVE  Good(d)'
  BY <1>i DEF Good
<1>1. ASSUME NEW c \in Claims, NEW e \in Events, Refuse(c, e), NEW d \in Claims
      PROVE  Good(d)'
  <2>1. CASE d = c
    BY <1>1, <1>i, <2>1 DEF Refuse, Goto, TypeOK, KillSteps, Granted
  <2>2. CASE d # c
    BY <1>1, <1>o, <2>2 DEF Refuse, Goto, TypeOK, store
  <2> QED
    BY <2>1, <2>2
<1>2. ASSUME NEW c \in Claims, NEW e \in Events, Admit(c, e), NEW d \in Claims
      PROVE  Good(d)'
  <2>1. CASE d = c
    <3>1. /\ gpc'[c] = "globalForLeague" /\ ev'[c] = e /\ kill' = kill
          /\ armed'[c] = kill \cap Covering(e)
      BY <1>2 DEF Admit, Goto, TypeOK, store
    <3> QED
      BY <2>1, <3>1 DEF Good, StillUnread, Granted
  <2>2. CASE d # c
    BY <1>2, <1>o, <2>2 DEF Admit, Goto, TypeOK, store
  <2> QED
    BY <2>1, <2>2
<1>3. ASSUME NEW c \in Claims, ReadKillKey(c), NEW d \in Claims
      PROVE  Good(d)'
  <2>1. CASE d = c
    <3>1. CASE ScopeRead(gpc[c], ev[c]) \in kill
      BY <1>3, <1>i, <2>1, <3>1 DEF ReadKillKey, Goto, TypeOK, KillSteps, Granted
    <3>2. CASE ScopeRead(gpc[c], ev[c]) \notin kill
      <4>1. /\ gpc'[c] = NextKillRead(gpc[c]) /\ ev'[c] = ev[c] /\ kill' = kill
            /\ armed'[c] = armed[c]
            /\ armed[c] \subseteq kill \cap StillUnread(gpc[c], ev[c])
            /\ ScopeRead(gpc[c], ev[c]) \notin armed[c]
            /\ gpc[c] \in KillSteps
        BY <1>3, <1>g, <3>2 DEF ReadKillKey, Goto, TypeOK, store, Good
      <4> QED
        BY <2>1, <4>1
        DEF Good, NextKillRead, ScopeRead, StillUnread, Covering, KillSteps, Granted
    <3> QED
      BY <3>1, <3>2
  <2>2. CASE d # c
    BY <1>3, <1>o, <2>2 DEF ReadKillKey, Goto, TypeOK, store
  <2> QED
    BY <2>1, <2>2
<1>4. ASSUME NEW c \in Claims, ReadKillKeyFails(c), NEW d \in Claims
      PROVE  Good(d)'
  <2>1. CASE d = c
    <3>1. /\ gpc'[c] = KillCallFailed(gpc[c]) /\ ev'[c] = ev[c] /\ kill' = kill
          /\ armed'[c] = armed[c] \ Unread(gpc[c], ev[c])
          /\ armed[c] \subseteq kill \cap StillUnread(gpc[c], ev[c])
          /\ gpc[c] \in KillSteps
      BY <1>4, <1>g DEF ReadKillKeyFails, Goto, TypeOK, store, Good
    <3> QED
      BY <2>1, <3>1
      DEF Good, KillCallFailed, Unread, StillUnread, Covering, KillSteps, Granted
  <2>2. CASE d # c
    BY <1>4, <1>o, <2>2 DEF ReadKillKeyFails, Goto, TypeOK, store
  <2> QED
    BY <2>1, <2>2
<1>5. ASSUME NEW c \in Claims, NEW d \in Claims,
             \/ SetDedupKey(c) \/ ReadTypeCounter(c) \/ ReadHourCounter(c)
             \/ ReadTotalCounter(c) \/ IncrementCounter(c) \/ ExpireCounter(c)
             \/ CheckBotRatio(c)
      PROVE  Good(d)'
  <2>1. /\ gpc[c] \in Past
        /\ gpc'[c] \notin KillSteps
        /\ UNCHANGED <<ev, armed, kill>>
        /\ \A x \in Claims \ {c} : gpc'[x] = gpc[x]
    BY <1>5 DEF SetDedupKey, ReadTypeCounter, ReadHourCounter, ReadTotalCounter,
      IncrementCounter, ExpireCounter, CheckBotRatio, Goto, TypeOK, store, Granted,
      KillSteps, Incrementing, Expiring, ExpireStep, AfterCounter
  <2> QED
    BY <2>1, <1>o, <1>p
<1>6. ASSUME NEW c \in Claims, NEW d \in Claims,
             \/ SetDedupKeyFails(c) \/ ReadCounterFails(c) \/ IncrementCounterFails(c)
             \/ ExpireCounterFails(c) \/ CheckBotRatioFails(c)
      PROVE  Good(d)'
  <2>1. /\ gpc[c] \in Past
        /\ gpc'[c] \notin KillSteps
        /\ UNCHANGED <<ev, armed, kill>>
        /\ \A x \in Claims \ {c} : gpc'[x] = gpc[x]
    BY <1>6 DEF SetDedupKeyFails, ReadCounterFails, IncrementCounterFails,
      ExpireCounterFails, CheckBotRatioFails, Goto, TypeOK, store, Granted,
      KillSteps, Incrementing, Expiring, ExpireStep, AfterCounter
  <2> QED
    BY <2>1, <1>o, <1>p
<1>7. ASSUME NEW c \in Claims, Return(c), NEW d \in Claims PROVE Good(d)'
  <2>1. CASE d = c
    BY <1>7, <1>i, <2>1 DEF Return, Goto, TypeOK, KillSteps, Granted
  <2>2. CASE d # c
    BY <1>7, <1>o, <2>2 DEF Return, Goto, TypeOK, store
  <2> QED
    BY <2>1, <2>2
<1>8. ASSUME NEW s \in Scopes, NEW on \in BOOLEAN, SetKillSwitch(s, on),
             NEW d \in Claims
      PROVE  Good(d)'
  <2>1. /\ UNCHANGED <<gpc, ev>>
        /\ IF on THEN kill' = kill \cup {s} /\ armed'[d] = armed[d]
                 ELSE kill' = kill \ {s} /\ armed'[d] = armed[d] \ {s}
    BY <1>8 DEF SetKillSwitch
  <2> QED
    BY <2>1, <1>g DEF Good
<1>9. ASSUME NEW d \in Claims,
             \/ \E e \in Events : DedupKeyExpires(e)
             \/ \E k \in CounterKeys : CounterExpires(k)
             \/ NextHour
             \/ \E m \in Matches : OthersPost(m)
             \/ UNCHANGED gateVars
      PROVE  Good(d)'
  BY <1>9, <1>o DEF DedupKeyExpires, CounterExpires, NextHour, OthersPost,
                    claimVars, store, gateVars
<1>10. ASSUME Crash, NEW d \in Claims PROVE Good(d)'
  BY <1>10, <1>i DEF Crash, KillSteps, Granted
<1> QED
  BY <1>1, <1>2, <1>3, <1>4, <1>5, <1>6, <1>7, <1>8, <1>9, <1>10, AdminAssumption
  DEF OpenNext, GateNext, GateStep, GateFault, Environment

LEMMA OpenSwitches == OpenSpec => []KillSwitchHolds
<1>1. GateInit => ArmedUnread /\ KillSwitchHolds
  BY DEF GateInit, ArmedUnread, KillSwitchHolds, KillSteps, Granted
<1> QED
  BY <1>1, OpenTyping, ArmedStep, PTL DEF OpenSpec

(* A kill switch that is on when a check begins, and stays on, stops it    *)
(* before its dedup key, unless the lookups that would have seen it fail.  *)
THEOREM KillSwitchStops == GateSpec => []KillSwitchHolds
BY OpenSwitches, GateIsOpen, PTL

---------------------------------------------------------------------------
(* The overshoot of the counters. *)

LEMMA LimitType ==
  \A k \in TypeKeys \cup HourKeys : Limit(k) \in Nat /\ Limit(k) >= 1
BY LimitsAssumption DEF Limit, EventTypeLimit

LEMMA PendingCount ==
  ASSUME NEW k
  PROVE  /\ IsFiniteSet(Pending(k))
         /\ Cardinality(Pending(k)) \in 0 .. Cardinality(Claims)
         /\ IsFiniteSet(Pending(k)')
         /\ Cardinality(Pending(k)') \in 0 .. Cardinality(Claims)
         /\ Cardinality(Claims) \in Nat /\ Cardinality(Claims) >= 1
<1>1. IsFiniteSet(Claims) /\ Cardinality(Claims) \in Nat /\ Cardinality(Claims) # 0
  BY ClaimsAssumption, FS_CardinalityType, FS_EmptySet
<1>2. Pending(k) \subseteq Claims /\ Pending(k)' \subseteq Claims
  BY DEF Pending
<1> QED
  BY <1>1, <1>2, FS_Subset, FS_CardinalityType

(* What PendingBound says of one counter. *)
Bounded(k) == cnt[k] + Cardinality(Pending(k)) <= Limit(k) + Cardinality(Claims) - 1

(* Fewer claims about to raise a counter that has not grown. *)
LEMMA FewerPending ==
  ASSUME TypeOK, TypeOK', NEW k \in TypeKeys \cup HourKeys, Bounded(k),
         Pending(k)' \subseteq Pending(k), cnt'[k] <= cnt[k]
  PROVE  Bounded(k)'
<1>1. Cardinality(Pending(k)') <= Cardinality(Pending(k))
  BY PendingCount, FS_Subset
<1>2. cnt[k] \in Nat /\ cnt'[k] \in Nat /\ Limit(k) \in Nat
  BY LimitType DEF TypeOK, CounterKeys
<1> QED
  BY <1>1, <1>2, PendingCount DEF Bounded, Limit

(* A claim that moves to a step where it raises nothing. *)
LEMMA LeavesPending ==
  ASSUME TypeOK, NEW c \in Claims, NEW k,
         gpc'[c] \notin Incrementing,
         \A d \in Claims \ {c} :
           gpc'[d] = gpc[d] /\ ev'[d] = ev[d] /\ bucket'[d] = bucket[d]
  PROVE  Pending(k)' = Pending(k) \ {c}
BY DEF Pending, Key

(* A claim reads a counter below its limit: from then on it is pending.    *)
LEMMA BecomesPending ==
  ASSUME TypeOK, TypeOK', NEW c \in Claims, NEW k \in TypeKeys \cup HourKeys, Bounded(k),
         NEW own \in TypeKeys \cup HourKeys, cnt[own] < Limit(own),
         gpc'[c] \in Incrementing, Key(c)' = own, UNCHANGED cnt,
         gpc[c] \notin Incrementing,
         \A d \in Claims \ {c} :
           gpc'[d] = gpc[d] /\ ev'[d] = ev[d] /\ bucket'[d] = bucket[d]
  PROVE  Bounded(k)'
<1>1. CASE k = own
  <2>1. cnt'[k] \in Nat /\ Limit(k) \in Nat /\ cnt'[k] < Limit(k)
    BY <1>1, LimitType DEF TypeOK, CounterKeys
  <2> QED
    BY <2>1, PendingCount DEF Bounded, Limit
<1>2. CASE k # own
  <2>1. Pending(k)' \subseteq Pending(k)
    BY <1>2 DEF Pending, Key
  <2>2. cnt'[k] <= cnt[k]
    BY DEF TypeOK, CounterKeys
  <2> QED
    BY <2>1, <2>2, FewerPending
<1> QED
  BY <1>1, <1>2

(* A pending claim raises its counter by at most one and moves on. *)
LEMMA RaisesCounter ==
  ASSUME TypeOK, TypeOK', NEW c \in Claims, NEW k \in TypeKeys \cup HourKeys, Bounded(k),
         gpc[c] \in Incrementing, gpc'[c] \notin Incrementing,
         cnt' = cnt \/ Bump(Key(c)),
         \A d \in Claims \ {c} :
           gpc'[d] = gpc[d] /\ ev'[d] = ev[d] /\ bucket'[d] = bucket[d]
  PROVE  Bounded(k)'
<1>1. Pending(k)' = Pending(k) \ {c}
  BY LeavesPending
<1>2. cnt[k] \in Nat /\ cnt'[k] \in Nat /\ Limit(k) \in Nat
  BY LimitType DEF TypeOK, CounterKeys
<1>3. CASE Key(c) = k
  <2>1. c \in Pending(k)
    BY <1>3 DEF Pending
  <2>2. Cardinality(Pending(k)') = Cardinality(Pending(k)) - 1
    BY <1>1, <2>1, PendingCount, FS_RemoveElement
  <2>3. cnt'[k] <= cnt[k] + 1
    BY <1>2, <1>3 DEF Bump, TypeOK, CounterKeys
  <2> QED
    BY <1>2, <2>2, <2>3, PendingCount DEF Bounded, Limit
<1>4. CASE Key(c) # k
  <2>1. cnt'[k] <= cnt[k]
    BY <1>2, <1>4 DEF Bump, TypeOK, CounterKeys
  <2> QED
    BY <1>1, <2>1, FewerPending
<1> QED
  BY <1>3, <1>4

LEMMA PendingStep ==
  TypeOK /\ TypeOK' /\ PendingBound /\ [OpenNext]_gateVars => PendingBound'
<1> SUFFICES ASSUME TypeOK, TypeOK', PendingBound, [OpenNext]_gateVars,
                    NEW k \in TypeKeys \cup HourKeys
             PROVE  Bounded(k)'
  BY DEF PendingBound, Bounded, Limit
<1>b. Bounded(k)
  BY DEF PendingBound, Bounded
<1>n. cnt[k] \in Nat
  BY DEF TypeOK, CounterKeys
<1>u. ASSUME UNCHANGED <<gpc, ev, bucket>>, cnt'[k] <= cnt[k] PROVE Bounded(k)'
  BY <1>b, <1>u, FewerPending DEF Pending, Key
(* The steps of a claim that touch no counter and leave it raising none. *)
<1>q. ASSUME NEW c \in Claims, gpc'[c] \notin Incrementing, UNCHANGED cnt,
             \A d \in Claims \ {c} :
               gpc'[d] = gpc[d] /\ ev'[d] = ev[d] /\ bucket'[d] = bucket[d]
      PROVE  Bounded(k)'
  <2>1. Pending(k)' \subseteq Pending(k)
    BY <1>q, LeavesPending
  <2> QED
    BY <1>b, <1>n, <1>q, <2>1, FewerPending
<1>1. ASSUME NEW c \in Claims, NEW e \in Events, Refuse(c, e) \/ Admit(c, e)
      PROVE  Bounded(k)'
  <2>1. /\ gpc'[c] \notin Incrementing /\ UNCHANGED cnt
        /\ \A d \in Claims \ {c} :
             gpc'[d] = gpc[d] /\ ev'[d] = ev[d] /\ bucket'[d] = bucket[d]
    BY <1>1 DEF Refuse, Admit, Goto, TypeOK, store, Incrementing
  <2> QED
    BY <2>1, <1>q
<1>2. ASSUME NEW c \in Claims,
             \/ ReadKillKey(c) \/ SetDedupKey(c) \/ ReadTotalCounter(c)
             \/ ExpireCounter(c) \/ CheckBotRatio(c)
      PROVE  Bounded(k)'
  <2>1. /\ gpc'[c] \notin Incrementing /\ UNCHANGED cnt
        /\ \A d \in Claims \ {c} :
             gpc'[d] = gpc[d] /\ ev'[d] = ev[d] /\ bucket'[d] = bucket[d]
    BY <1>2 DEF ReadKillKey, SetDedupKey, ReadTotalCounter, ExpireCounter,
      CheckBotRatio, Goto, TypeOK, store, KillSteps, Incrementing, Expiring,
      NextKillRead, AfterCounter
  <2> QED
    BY <2>1, <1>q
<1>3. ASSUME NEW c \in Claims,
             \/ ReadKillKeyFails(c) \/ SetDedupKeyFails(c) \/ ReadCounterFails(c)
             \/ ExpireCounterFails(c) \/ CheckBotRatioFails(c) \/ Return(c)
      PROVE  Bounded(k)'
  <2>1. /\ gpc'[c] \notin Incrementing /\ UNCHANGED cnt
        /\ \A d \in Claims \ {c} :
             gpc'[d] = gpc[d] /\ ev'[d] = ev[d] /\ bucket'[d] = bucket[d]
    BY <1>3 DEF ReadKillKeyFails, SetDedupKeyFails, ReadCounterFails,
      ExpireCounterFails, CheckBotRatioFails, Return, Goto, TypeOK, store, KillSteps,
      Incrementing, Expiring, KillCallFailed, AfterCounter
  <2> QED
    BY <2>1, <1>q
<1>4. ASSUME NEW c \in Claims, ReadTypeCounter(c) PROVE Bounded(k)'
  <2> DEFINE own == TypeKey(ev[c].match, ev[c].type)
  <2>0. ev[c] \in Events /\ ev[c].match \in Matches /\ ev[c].type \in Types
    BY <1>4, KeysAreCounters DEF ReadTypeCounter
  <2>1. own \in TypeKeys
    BY <2>0 DEF TypeKeys
  <2>2. Limit(own) = EventTypeLimit(ev[c].type)
    BY <2>1 DEF Limit, TypeKey
  <2>3. cnt[own] \in Nat /\ Limit(own) \in Nat
    BY <2>1, LimitType DEF TypeOK, CounterKeys
  <2>4. /\ UNCHANGED <<cnt, ev, bucket>> /\ gpc[c] = "typeGet"
        /\ \A d \in Claims \ {c} : gpc'[d] = gpc[d]
    BY <1>4 DEF ReadTypeCounter, Goto, TypeOK, store
  <2>5. CASE cnt[own] >= EventTypeLimit(ev[c].type)
    BY <1>4, <1>q, <2>4, <2>5 DEF ReadTypeCounter, Goto, TypeOK, Incrementing
  <2>6. CASE ~(cnt[own] >= EventTypeLimit(ev[c].type))
    <3>1. gpc'[c] = "typeIncr"
      BY <1>4, <2>6 DEF ReadTypeCounter, Goto, TypeOK
    <3>2. Key(c)' = own
      BY <2>4, <3>1 DEF Key
    <3> QED
      BY <1>b, <2>1, <2>2, <2>3, <2>4, <2>6, <3>1, <3>2, BecomesPending DEF Incrementing
  <2> QED
    BY <2>5, <2>6
<1>5. ASSUME NEW c \in Claims, ReadHourCounter(c) PROVE Bounded(k)'
  <2> DEFINE own == HourKey(ev[c].match, hour)
  <2>0. ev[c] \in Events /\ ev[c].match \in Matches
    BY <1>5, KeysAreCounters DEF ReadHourCounter
  <2>1. own \in HourKeys
    BY <2>0 DEF HourKeys, TypeOK
  <2>2. Limit(own) = MaxEventsPerHour
    BY DEF Limit, TypeKeys, TypeKey, HourKey
  <2>3. cnt[own] \in Nat /\ Limit(own) \in Nat
    BY <2>1, LimitType DEF TypeOK, CounterKeys
  <2>4. /\ UNCHANGED <<cnt, ev>> /\ gpc[c] = "hourGet" /\ bucket'[c] = hour
        /\ \A d \in Claims \ {c} : gpc'[d] = gpc[d] /\ bucket'[d] = bucket[d]
    BY <1>5 DEF ReadHourCounter, Goto, TypeOK, store
  <2>5. CASE cnt[own] >= MaxEventsPerHour
    BY <1>5, <1>q, <2>4, <2>5 DEF ReadHourCounter, Goto, TypeOK, Incrementing
  <2>6. CASE ~(cnt[own] >= MaxEventsPerHour)
    <3>1. gpc'[c] = "hourIncr"
      BY <1>5, <2>6 DEF ReadHourCounter, Goto, TypeOK
    <3>2. Key(c)' = own
      BY <2>4, <3>1 DEF Key
    <3> QED
      BY <1>b, <2>1, <2>2, <2>3, <2>4, <2>6, <3>1, <3>2, BecomesPending DEF Incrementing
  <2> QED
    BY <2>5, <2>6
<1>6. ASSUME NEW c \in Claims, IncrementCounter(c) \/ IncrementCounterFails(c)
      PROVE  Bounded(k)'
  <2>1. /\ gpc[c] \in Incrementing /\ gpc'[c] \notin Incrementing
        /\ cnt' = cnt \/ Bump(Key(c))
        /\ \A d \in Claims \ {c} :
             gpc'[d] = gpc[d] /\ ev'[d] = ev[d] /\ bucket'[d] = bucket[d]
    BY <1>6 DEF IncrementCounter, IncrementCounterFails, Goto, TypeOK, Incrementing,
                ExpireStep, AfterCounter
  <2> QED
    BY <1>b, <2>1, RaisesCounter
<1>7. ASSUME \/ \E s \in Scopes, on \in BOOLEAN : SetKillSwitch(s, on)
             \/ \E e \in Events : DedupKeyExpires(e)
             \/ NextHour
             \/ UNCHANGED gateVars
      PROVE  Bounded(k)'
  BY <1>7, <1>u, <1>n DEF SetKillSwitch, DedupKeyExpires, NextHour, gateVars,
                          claimVars, store
<1>8. ASSUME NEW x \in CounterKeys, CounterExpires(x) PROVE Bounded(k)'
  <2>1. cnt'[k] <= cnt[k]
    BY <1>8, <1>n DEF CounterExpires, TypeOK, CounterKeys
  <2> QED
    BY <1>8, <2>1, <1>u DEF CounterExpires, claimVars
<1>9. ASSUME NEW m \in Matches, OthersPost(m) PROVE Bounded(k)'
  <2>1. TotalKey(m) # k
    BY DEF TotalKey, TypeKeys, HourKeys, TypeKey, HourKey
  <2>2. cnt'[k] <= cnt[k]
    BY <1>9, <1>n, <2>1 DEF OthersPost, Bump, TypeOK, CounterKeys
  <2> QED
    BY <1>9, <2>2, <1>u DEF OthersPost, claimVars
<1>10. CASE Crash
  <2>1. Pending(k)' = {} /\ UNCHANGED cnt
    BY <1>10 DEF Crash, Pending, Incrementing, store
  <2> QED
    BY <1>b, <1>n, <2>1, FewerPending
<1> QED
  BY <1>1, <1>2, <1>3, <1>4, <1>5, <1>6, <1>7, <1>8, <1>9, <1>10, AdminAssumption
  DEF OpenNext, GateNext, GateStep, GateFault, Environment

LEMMA OpenLimits == OpenSpec => []LimitOvershoot
<1>1. GateInit => PendingBound
  <2> SUFFICES ASSUME GateInit, NEW k \in TypeKeys \cup HourKeys
               PROVE  Bounded(k)
    BY DEF PendingBound, Bounded
  <2>1. Pending(k) = {} /\ cnt[k] = 0
    BY DEF GateInit, Pending, Incrementing, CounterKeys
  <2> QED
    BY <2>1, LimitType, PendingCount, FS_EmptySet DEF Bounded
<1>2. TypeOK /\ PendingBound => LimitOvershoot
  <2> SUFFICES ASSUME TypeOK, PendingBound, NEW k \in TypeKeys \cup HourKeys
               PROVE  cnt[k] <= Limit(k) + Cardinality(Claims) - 1
    BY DEF LimitOvershoot
  <2>1. cnt[k] \in Nat /\ Limit(k) \in Nat
    BY LimitType DEF TypeOK, CounterKeys
  <2> QED
    BY <2>1, PendingCount DEF PendingBound
<1> QED
  BY <1>1, <1>2, OpenTyping, PendingStep, PTL DEF OpenSpec

(* Read and increment are two commands; still a counter passes its limit   *)
(* by at most one for each other claim, whatever fails and restarts.       *)
THEOREM OvershootBounded == GateSpec => []LimitOvershoot
BY OpenLimits, GateIsOpen, PTL

---------------------------------------------------------------------------
(* A counter without an expiry has lost its EXPIRE, or waits for it. *)

Lapsing(k) ==
  cnt[k] > 0 /\ ~ttl[k] => k \in immortal \/ \E c \in Claims : gpc[c] \in Expiring /\ Key(c) = k

(* Whoever is about to set the expiry of a counter still is, unless it is  *)
(* the claim that moved.                                                   *)
LEMMA LapsingKept ==
  ASSUME NEW k, Lapsing(k), NEW c \in Claims,
         cnt'[k] = cnt[k], ttl[k] => ttl'[k], immortal \subseteq immortal',
         gpc[c] \notin Expiring \/ k \in immortal' \/ Key(c) # k \/ ttl'[k],
         \A d \in Claims \ {c} :
           gpc'[d] = gpc[d] /\ ev'[d] = ev[d] /\ bucket'[d] = bucket[d],
         ttl'[k] \in BOOLEAN, ttl[k] \in BOOLEAN
  PROVE  Lapsing(k)'
<1> SUFFICES ASSUME cnt[k] > 0, ~ttl[k], ~ttl'[k], k \notin immortal'
             PROVE  \E d \in Claims : gpc'[d] \in Expiring /\ Key(d)' = k
  BY DEF Lapsing
<1>1. PICK d \in Claims : gpc[d] \in Expiring /\ Key(d) = k
  BY DEF Lapsing
<1>2. d # c
  BY <1>1
<1> QED
  BY <1>1, <1>2 DEF Key

LEMMA LapsingStep ==
  TypeOK /\ TypeOK' /\ CountersLapse /\ [OpenNext]_gateVars => CountersLapse'
<1> SUFFICES ASSUME TypeOK, TypeOK', CountersLapse, [OpenNext]_gateVars,
                    NEW k \in TypeKeys \cup HourKeys
             PROVE  Lapsing(k)'
  BY DEF CountersLapse, Lapsing
<1>b. Lapsing(k)
  BY DEF CountersLapse, Lapsing
<1>t. /\ k \in CounterKeys /\ ttl[k] \in BOOLEAN /\ ttl'[k] \in BOOLEAN
      /\ cnt[k] \in Nat /\ cnt'[k] \in Nat
  BY DEF TypeOK, CounterKeys
(* The steps of a claim that touch no counter and wait for no expiry. *)
<1>q. ASSUME NEW c \in Claims, gpc[c] \notin Expiring, UNCHANGED <<cnt, ttl, immortal>>,
             \A d \in Claims \ {c} :
               gpc'[d] = gpc[d] /\ ev'[d] = ev[d] /\ bucket'[d] = bucket[d]
      PROVE  Lapsing(k)'
  BY <1>b, <1>t, <1>q, LapsingKept
<1>u. ASSUME UNCHANGED <<gpc, ev, bucket, immortal>>,
             cnt'[k] = 0 \/ (cnt'[k] = cnt[k] /\ (ttl[k] => ttl'[k]))
      PROVE  Lapsing(k)'
  BY <1>b, <1>t, <1>u DEF Lapsing, Key
<1>1. ASSUME NEW c \in Claims, NEW e \in Events, Refuse(c, e) \/ Admit(c, e)
      PROVE  Lapsing(k)'
  <2>1. /\ gpc[c] \notin Expiring /\ UNCHANGED <<cnt, ttl, immortal>>
        /\ \A d \in Claims \ {c} :
             gpc'[d] = gpc[d] /\ ev'[d] = ev[d] /\ bucket'[d] = bucket[d]
    BY <1>1 DEF Refuse, Admit, Goto, TypeOK, store, history, Expiring
  <2> QED
    BY <2>1, <1>q
<1>2. ASSUME NEW c \in Claims,
             \/ ReadKillKey(c) \/ SetDedupKey(c) \/ ReadTypeCounter(c)
             \/ ReadHourCounter(c) \/ ReadTotalCounter(c) \/ CheckBotRatio(c)
      PROVE  Lapsing(k)'
  <2>1. /\ gpc[c] \notin Expiring /\ UNCHANGED <<cnt, ttl, immortal>>
        /\ \A d \in Claims \ {c} :
             gpc'[d] = gpc[d] /\ ev'[d] = ev[d] /\ bucket'[d] = bucket[d]
    BY <1>2 DEF ReadKillKey, SetDedupKey, ReadTypeCounter, ReadHourCounter,
      ReadTotalCounter, CheckBotRatio, Goto, TypeOK, store, history, KillSteps, Expiring
  <2> QED
    BY <2>1, <1>q
<1>3. ASSUME NEW c \in Claims,
             \/ ReadKillKeyFails(c) \/ SetDedupKeyFails(c) \/ ReadCounterFails(c)
             \/ CheckBotRatioFails(c) \/ Return(c)
      PROVE  Lapsing(k)'
  <2>1. /\ gpc[c] \notin Expiring /\ UNCHANGED <<cnt, ttl, immortal>>
        /\ \A d \in Claims \ {c} :
             gpc'[d] = gpc[d] /\ ev'[d] = ev[d] /\ bucket'[d] = bucket[d]
    BY <1>3 DEF ReadKillKeyFails, SetDedupKeyFails, ReadCounterFails,
      CheckBotRatioFails, Return, Goto, TypeOK, store, history, KillSteps, Expiring, Decided
  <2> QED
    BY <2>1, <1>q
<1>4. ASSUME NEW c \in Claims, IncrementCounter(c) PROVE Lapsing(k)'
  <2>1. /\ gpc[c] \in Incrementing /\ Bump(Key(c)) /\ UNCHANGED <<ttl, immortal, ev, bucket>>
        /\ gpc'[c] = IF cnt[Key(c)] = 0 THEN ExpireStep(gpc[c]) ELSE AfterCounter(gpc[c])
        /\ \A d \in Claims \ {c} : gpc'[d] = gpc[d]
    BY <1>4 DEF IncrementCounter, Goto, TypeOK, history
  <2>2. CASE Key(c) = k /\ cnt[k] = 0
    <3>1. gpc'[c] \in Expiring /\ Key(c)' = Key(c)
      BY <2>1, <2>2 DEF Incrementing, Expiring, ExpireStep, Key
    <3> QED
      BY <2>2, <3>1 DEF Lapsing
  <2>3. CASE Key(c) = k /\ cnt[k] # 0
    <3>1. cnt[k] > 0 /\ gpc[c] \notin Expiring
      BY <1>t, <2>1, <2>3 DEF Incrementing, Expiring
    <3>2. ~ttl'[k] /\ k \notin immortal' =>
            \E d \in Claims \ {c} : gpc[d] \in Expiring /\ Key(d) = k
      BY <1>b, <2>1, <3>1 DEF Lapsing
    <3> QED
      BY <2>1, <3>2 DEF Lapsing, Key
  <2>4. CASE Key(c) # k
    <3>1. cnt'[k] = cnt[k]
      BY <1>t, <2>1, <2>4 DEF Bump, TypeOK
    <3>2. gpc[c] \notin Expiring
      BY <2>1 DEF Incrementing, Expiring
    <3> QED
      BY <1>b, <1>t, <2>1, <3>1, <3>2, LapsingKept
  <2> QED
    BY <2>2, <2>3, <2>4
<1>5. ASSUME NEW c \in Claims, IncrementCounterFails(c) PROVE Lapsing(k)'
  <2>1. /\ gpc[c] \in Incrementing /\ UNCHANGED <<ttl, ev, bucket>>
        /\ \/ UNCHANGED <<cnt, immortal>>
           \/ Bump(Key(c)) /\ immortal' = IF cnt[Key(c)] = 0 THEN immortal \cup {Key(c)} ELSE immortal
        /\ \A d \in Claims \ {c} : gpc'[d] = gpc[d]
    BY <1>5 DEF IncrementCounterFails, Goto, TypeOK
  <2>2. gpc[c] \notin Expiring /\ immortal \subseteq immortal'
    BY <2>1 DEF Incrementing, Expiring
  <2>3. CASE cnt'[k] = cnt[k]
    BY <1>b, <1>t, <2>1, <2>2, <2>3, LapsingKept
  <2>4. CASE cnt'[k] # cnt[k]
    <3>1. Key(c) = k /\ Bump(k)
      BY <1>t, <2>1, <2>4 DEF Bump, TypeOK
    <3>2. CASE cnt[k] = 0
      BY <2>1, <2>4, <3>1, <3>2 DEF Lapsing
    <3>3. CASE cnt[k] # 0
      <4>1. cnt[k] > 0
        BY <1>t, <3>3
      <4>2. ~ttl'[k] /\ k \notin immortal' =>
              \E d \in Claims \ {c} : gpc[d] \in Expiring /\ Key(d) = k
        BY <1>b, <2>1, <2>2, <4>1 DEF Lapsing
      <4> QED
        BY <2>1, <4>2 DEF Lapsing, Key
    <3> QED
      BY <3>2, <3>3
  <2> QED
    BY <2>3, <2>4
<1>6. ASSUME NEW c \in Claims, ExpireCounter(c) \/ ExpireCounterFails(c) PROVE Lapsing(k)'
  <2>1. /\ cnt' = cnt /\ UNCHANGED <<ev, bucket>>
        /\ \A d \in Claims \ {c} : gpc'[d] = gpc[d]
        /\ \/ ttl' = [ttl EXCEPT ![Key(c)] = TRUE] /\ UNCHANGED immortal
           \/ immortal' = immortal \cup {Key(c)} /\ UNCHANGED ttl
    BY <1>6 DEF ExpireCounter, ExpireCounterFails, Goto, TypeOK, history, store
  <2>2. /\ ttl[k] => ttl'[k]
        /\ Key(c) = k => k \in immortal' \/ ttl'[k]
        /\ immortal \subseteq immortal'
    BY <1>t, <2>1 DEF TypeOK
  <2> QED
    BY <1>b, <1>t, <2>1, <2>2, LapsingKept
<1>7. ASSUME \/ \E s \in Scopes, on \in BOOLEAN : SetKillSwitch(s, on)
             \/ \E e \in Events : DedupKeyExpires(e)
             \/ NextHour
             \/ UNCHANGED gateVars
      PROVE  Lapsing(k)'
  BY <1>7, <1>u DEF SetKillSwitch, DedupKeyExpires, NextHour, gateVars, claimVars,
                    store, history
<1>8. ASSUME NEW x \in CounterKeys, CounterExpires(x) PROVE Lapsing(k)'
  <2>1. cnt'[k] = 0 \/ (cnt'[k] = cnt[k] /\ ttl'[k] = ttl[k])
    BY <1>8, <1>t DEF CounterExpires, TypeOK
  <2> QED
    BY <1>8, <2>1, <1>u DEF CounterExpires, claimVars
<1>9. ASSUME NEW m \in Matches, OthersPost(m) PROVE Lapsing(k)'
  <2>1. TotalKey(m) # k
    BY DEF TotalKey, TypeKeys, HourKeys, TypeKey, HourKey
  <2>2. cnt'[k] = cnt[k] /\ ttl'[k] = ttl[k]
    BY <1>9, <1>t, <2>1 DEF OthersPost, Bump, TypeOK
  <2> QED
    BY <1>9, <2>2, <1>u DEF OthersPost, claimVars, history
<1>10. CASE Crash
  <2>1. /\ UNCHANGED <<cnt, ttl>>
        /\ immortal' = immortal \cup {Key(c) : c \in {d \in Claims : gpc[d] \in Expiring}}
    BY <1>10 DEF Crash, store
  <2> QED
    BY <1>b, <2>1 DEF Lapsing
<1> QED
  BY <1>1, <1>2, <1>3, <1>4, <1>5, <1>6, <1>7, <1>8, <1>9, <1>10, AdminAssumption
  DEF OpenNext, GateNext, GateStep, GateFault, Environment

LEMMA OpenCounters == OpenSpec => []CountersLapse
<1>1. GateInit => CountersLapse
  BY DEF GateInit, CountersLapse, CounterKeys
<1> QED
  BY <1>1, OpenTyping, LapsingStep, PTL DEF OpenSpec

(* INCR and EXPIRE are two commands; still a counter outlives its hour or  *)
(* its match only if the second was lost to a fault or a crash.            *)
THEOREM CountersExpire == GateSpec => []CountersLapse
BY OpenCounters, GateIsOpen, PTL

---------------------------------------------------------------------------
(* Every unit of quota spent, or about to be, was won. *)

(* The claims that have won the key of such an event and not spent it. *)
Spending(m, t) ==
  {c \in Claims : gpc[c] \in {"typeGet", "typeIncr"} /\ ev[c].match = m /\ ev[c].type = t}

Covered(m, t) ==
  /\ IsFiniteSet(Wins(m, t))
  /\ cnt[TypeKey(m, t)] + Cardinality(Spending(m, t)) <= Cardinality(Wins(m, t))

LEMMA SpendingCount ==
  ASSUME NEW m, NEW t
  PROVE  IsFiniteSet(Spending(m, t)) /\ Cardinality(Spending(m, t)) \in Nat
<1>1. Spending(m, t) \in SUBSET Claims
  BY DEF Spending
<1> QED
  BY <1>1, FS_Subset, FS_CardinalityType, ClaimsAssumption

(* With the same wins, nothing counted and nobody new at it, all is well.  *)
LEMMA CoveredKept ==
  ASSUME NEW m, NEW t, Covered(m, t), UNCHANGED acquired,
         cnt[TypeKey(m, t)] \in Nat, cnt'[TypeKey(m, t)] \in Nat,
         cnt'[TypeKey(m, t)] <= cnt[TypeKey(m, t)],
         Spending(m, t)' \subseteq Spending(m, t)
  PROVE  Covered(m, t)'
<1>1. Wins(m, t)' = Wins(m, t)
  BY DEF Wins
<1>2. Cardinality(Spending(m, t)') <= Cardinality(Spending(m, t))
  BY SpendingCount, FS_Subset
<1>3. Cardinality(Spending(m, t)) \in Nat /\ Cardinality(Spending(m, t)') \in Nat
  <2>1. Spending(m, t)' \in SUBSET Spending(m, t)
    OBVIOUS
  <2> QED
    BY <2>1, SpendingCount, FS_Subset, FS_CardinalityType
<1>4. Cardinality(Wins(m, t)) \in Nat
  BY FS_CardinalityType DEF Covered
<1> QED
  BY <1>1, <1>2, <1>3, <1>4 DEF Covered, TypeKey

LEMMA QuotaStep ==
  ASSUME TypeOK, TypeOK', [OpenNext]_gateVars, NEW m \in Matches, NEW t \in Types, Covered(m, t)
  PROVE  Covered(m, t)'
<1> DEFINE k == TypeKey(m, t)
<1>k. k \in TypeKeys /\ k \in CounterKeys
  BY DEF TypeKeys, CounterKeys
<1>n. cnt[k] \in Nat /\ cnt'[k] \in Nat
  BY <1>k DEF TypeOK
<1>x. TypeKey(m, t)' = k
  BY DEF TypeKey
(* The steps of a claim that neither win nor count. *)
<1>q. ASSUME NEW c \in Claims, UNCHANGED <<cnt, acquired>>,
             gpc'[c] \in {"typeGet", "typeIncr"} =>
               gpc[c] \in {"typeGet", "typeIncr"} /\ ev'[c] = ev[c],
             \A d \in Claims \ {c} : gpc'[d] = gpc[d] /\ ev'[d] = ev[d]
      PROVE  Covered(m, t)'
  <2>1. Spending(m, t)' \subseteq Spending(m, t)
    BY <1>q DEF Spending
  <2> QED
    BY <1>n, <1>q, <2>1, CoveredKept
<1>u. ASSUME UNCHANGED <<gpc, ev, acquired>>, cnt'[k] <= cnt[k] PROVE Covered(m, t)'
  <2>1. Spending(m, t)' = Spending(m, t)
    BY <1>u DEF Spending
  <2> QED
    BY <1>n, <1>u, <2>1, CoveredKept
<1>1. ASSUME NEW c \in Claims, NEW e \in Events, Refuse(c, e) \/ Admit(c, e)
      PROVE  Covered(m, t)'
  <2>1. /\ gpc'[c] \notin {"typeGet", "typeIncr"} /\ UNCHANGED <<cnt, acquired>>
        /\ \A d \in Claims \ {c} : gpc'[d] = gpc[d] /\ ev'[d] = ev[d]
    BY <1>1 DEF Refuse, Admit, Goto, TypeOK, store, history
  <2> QED
    BY <2>1, <1>q
<1>2. ASSUME NEW c \in Claims,
             \/ ReadKillKey(c) \/ ReadTypeCounter(c) \/ ReadHourCounter(c)
             \/ ReadTotalCounter(c) \/ ExpireCounter(c) \/ CheckBotRatio(c)
      PROVE  Covered(m, t)'
  <2>1. /\ gpc'[c] \in {"typeGet", "typeIncr"} => gpc[c] \in {"typeGet", "typeIncr"}
        /\ UNCHANGED <<cnt, acquired, ev>>
        /\ \A d \in Claims \ {c} : gpc'[d] = gpc[d]
    BY <1>2 DEF ReadKillKey, ReadTypeCounter, ReadHourCounter, ReadTotalCounter,
      ExpireCounter, CheckBotRatio, Goto, TypeOK, store, history, KillSteps, Expiring,
      NextKillRead, AfterCounter
  <2> QED
    BY <2>1, <1>q
<1>3. ASSUME NEW c \in Claims,
             \/ ReadKillKeyFails(c) \/ SetDedupKeyFails(c) \/ ReadCounterFails(c)
             \/ ExpireCounterFails(c) \/ CheckBotRatioFails(c) \/ Return(c)
      PROVE  Covered(m, t)'
  <2>1. /\ gpc'[c] \notin {"typeGet", "typeIncr"} /\ UNCHANGED <<cnt, acquired>>
        /\ \A d \in Claims \ {c} : gpc'[d] = gpc[d] /\ ev'[d] = ev[d]
    BY <1>3 DEF ReadKillKeyFails, SetDedupKeyFails, ReadCounterFails,
      ExpireCounterFails, CheckBotRatioFails, Return, Goto, TypeOK, store, history,
      KillSteps, Expiring, KillCallFailed, AfterCounter
  <2> QED
    BY <2>1, <1>q
<1>4. ASSUME NEW c \in Claims, SetDedupKey(c) PROVE Covered(m, t)'
  <2>1. /\ gpc[c] = "dedup" /\ UNCHANGED <<cnt, ev>>
        /\ \A d \in Claims \ {c} : gpc'[d] = gpc[d]
    BY <1>4 DEF SetDedupKey, Goto, TypeOK
  <2>2. CASE ev[c] \in dedup
    <3>1. gpc'[c] = "skip" /\ UNCHANGED acquired
      BY <1>4, <2>2 DEF SetDedupKey, Goto, TypeOK
    <3> QED
      BY <1>q, <2>1, <3>1
  <2>3. CASE ev[c] \notin dedup
    <3> DEFINE e == ev[c]
               won == <<e, acquired[e] + 1>>
    <3>1. e \in Events /\ acquired[e] \in Nat
      BY <2>1, KeysAreCounters DEF TypeOK
    <3>2. gpc'[c] = "typeGet" /\ acquired' = [acquired EXCEPT ![e] = @ + 1]
      BY <1>4, <2>3 DEF SetDedupKey, Goto, TypeOK
    <3>3. CASE e.match = m /\ e.type = t
      <4>1. Spending(m, t)' = Spending(m, t) \cup {c} /\ c \notin Spending(m, t)
        BY <2>1, <3>2, <3>3 DEF Spending
      <4>2. Wins(m, t)' = Wins(m, t) \cup {won} /\ won \notin Wins(m, t)
        <5>1. \A x \in Events : acquired[x] \in Nat /\ acquired'[x] = IF x = e THEN acquired[e] + 1 ELSE acquired[x]
          BY <3>2 DEF TypeOK
        <5>2. 1 .. acquired'[e] = (1 .. acquired[e]) \cup {acquired[e] + 1}
          BY <3>1, <5>1
        <5>3. {e} \X (1 .. acquired'[e]) = ({e} \X (1 .. acquired[e])) \cup {won}
          BY <5>2
        <5>4. \A w : w \in Wins(m, t) <=>
                \E x \in Events : x.match = m /\ x.type = t /\ w \in {x} \X (1 .. acquired[x])
          BY DEF Wins
        <5>5. \A w : w \in Wins(m, t)' <=>
                \E x \in Events : x.match = m /\ x.type = t /\ w \in {x} \X (1 .. acquired'[x])
          BY DEF Wins
        <5>6. Wins(m, t)' = Wins(m, t) \cup {won}
          BY <3>1, <3>3, <5>1, <5>3, <5>4, <5>5
        <5>7. won \notin Wins(m, t)
          BY <3>1, <5>4
        <5> QED
          BY <5>6, <5>7
      <4>3. /\ Cardinality(Spending(m, t)') = Cardinality(Spending(m, t)) + 1
            /\ Cardinality(Spending(m, t)) \in Nat
        BY <4>1, SpendingCount, FS_AddElement
      <4>4. /\ IsFiniteSet(Wins(m, t)')
            /\ Cardinality(Wins(m, t)') = Cardinality(Wins(m, t)) + 1
            /\ Cardinality(Wins(m, t)) \in Nat
        BY <4>2, FS_AddElement, FS_CardinalityType DEF Covered
      <4> QED
        BY <1>n, <1>x, <2>1, <4>3, <4>4 DEF Covered
    <3>4. CASE ~(e.match = m /\ e.type = t)
      <4>1. Spending(m, t)' = Spending(m, t)
        BY <2>1, <3>2, <3>4 DEF Spending
      <4>2. \A x \in Events : x.match = m /\ x.type = t => acquired'[x] = acquired[x]
        BY <3>2, <3>4 DEF TypeOK
      <4>3. Wins(m, t)' = Wins(m, t)
        BY <4>2 DEF Wins
      <4> QED
        BY <1>x, <2>1, <4>1, <4>3 DEF Covered
    <3> QED
      BY <3>3, <3>4
  <2> QED
    BY <2>2, <2>3
<1>5. ASSUME NEW c \in Claims, IncrementCounter(c) \/ IncrementCounterFails(c)
      PROVE  Covered(m, t)'
  <2>1. /\ gpc[c] \in Incrementing /\ gpc'[c] \notin {"typeGet", "typeIncr"}
        /\ cnt' = cnt \/ Bump(Key(c))
        /\ UNCHANGED <<ev, acquired>>
        /\ \A d \in Claims \ {c} : gpc'[d] = gpc[d]
    BY <1>5 DEF IncrementCounter, IncrementCounterFails, Goto, TypeOK, Incrementing,
                ExpireStep, AfterCounter, history
  <2>2. CASE Key(c) = k
    <3>1. gpc[c] = "typeIncr" /\ ev[c].match = m /\ ev[c].type = t
      BY <2>1, <2>2 DEF Key, Incrementing, TypeKey, HourKey
    <3>2. Spending(m, t)' = Spending(m, t) \ {c} /\ c \in Spending(m, t)
      BY <2>1, <3>1 DEF Spending
    <3>3. /\ Cardinality(Spending(m, t)') = Cardinality(Spending(m, t)) - 1
          /\ Cardinality(Spending(m, t)) \in Nat
      BY <3>2, SpendingCount, FS_RemoveElement
    <3>4. cnt'[k] <= cnt[k] + 1
      BY <1>k, <1>n, <2>1, <2>2 DEF Bump, TypeOK
    <3>5. Wins(m, t)' = Wins(m, t)
      BY <2>1 DEF Wins
    <3>6. Cardinality(Wins(m, t)) \in Nat
      BY FS_CardinalityType DEF Covered
    <3> QED
      BY <1>n, <1>x, <3>3, <3>4, <3>5, <3>6 DEF Covered
  <2>3. CASE Key(c) # k
    <3>1. cnt'[k] = cnt[k]
      BY <1>k, <1>n, <2>1, <2>3 DEF Bump, TypeOK
    <3>2. Spending(m, t)' \subseteq Spending(m, t)
      BY <2>1 DEF Spending
    <3> QED
      BY <1>n, <2>1, <3>1, <3>2, CoveredKept
  <2> QED
    BY <2>2, <2>3
<1>6. ASSUME \/ \E s \in Scopes, on \in BOOLEAN : SetKillSwitch(s, on)
             \/ \E e \in Events : DedupKeyExpires(e)
             \/ NextHour
             \/ UNCHANGED gateVars
      PROVE  Covered(m, t)'
  BY <1>6, <1>n, <1>u DEF SetKillSwitch, DedupKeyExpires, NextHour, gateVars, claimVars,
                          store, history
<1>7. ASSUME NEW x \in CounterKeys, CounterExpires(x) PROVE Covered(m, t)'
  <2>1. cnt'[k] <= cnt[k]
    BY <1>7, <1>k, <1>n DEF CounterExpires, TypeOK
  <2> QED
    BY <1>7, <2>1, <1>u DEF CounterExpires, claimVars
<1>8. ASSUME NEW x \in Matches, OthersPost(x) PROVE Covered(m, t)'
  <2>1. TotalKey(x) # k
    BY DEF TotalKey, TypeKey
  <2>2. cnt'[k] <= cnt[k]
    BY <1>8, <1>k, <1>n, <2>1 DEF OthersPost, Bump, TypeOK
  <2> QED
    BY <1>8, <2>2, <1>u DEF OthersPost, claimVars, history
<1>9. CASE Crash
  <2>1. Spending(m, t)' = {} /\ UNCHANGED <<cnt, acquired>>
    BY <1>9 DEF Crash, Spending, store
  <2> QED
    BY <1>n, <2>1, CoveredKept
<1> QED
  BY <1>1, <1>2, <1>3, <1>4, <1>5, <1>6, <1>7, <1>8, <1>9, AdminAssumption
  DEF OpenNext, GateNext, GateStep, GateFault, Environment

LEMMA OpenQuotas == OpenSpec => []QuotaBacked
<1> DEFINE Inv == \A m \in Matches, t \in Types : Covered(m, t)
<1>1. GateInit => Inv
  <2> SUFFICES ASSUME GateInit, NEW m \in Matches, NEW t \in Types PROVE Covered(m, t)
    OBVIOUS
  <2>1. cnt[TypeKey(m, t)] = 0
    BY DEF GateInit, CounterKeys, TypeKeys
  <2>2. Spending(m, t) = {}
    BY DEF GateInit, Spending
  <2>3. Wins(m, t) = {}
    <3>1. \A e \in Events : acquired[e] = 0
      BY DEF GateInit
    <3>2. \A e \in Events : {e} \X (1 .. acquired[e]) = {}
      BY <3>1
    <3> QED
      BY <3>2 DEF Wins
  <2> QED
    BY <2>1, <2>2, <2>3, FS_EmptySet DEF Covered
<1>2. Inv /\ TypeOK /\ TypeOK' /\ [OpenNext]_gateVars => Inv'
  <2> SUFFICES ASSUME Inv, TypeOK, TypeOK', [OpenNext]_gateVars PROVE Inv'
    OBVIOUS
  <2>1. Types' = Types /\ Matches' = Matches
    BY DEF Types
  <2> QED
    BY <2>1, QuotaStep
<1>3. Inv /\ TypeOK => QuotaBacked
  <2> SUFFICES ASSUME Inv, TypeOK, NEW m \in Matches, NEW t \in Types
               PROVE  cnt[TypeKey(m, t)] <= Cardinality(Wins(m, t))
    BY DEF QuotaBacked
  <2>1. Covered(m, t)
    OBVIOUS
  <2>2. cnt[TypeKey(m, t)] \in Nat
    BY DEF TypeOK, CounterKeys, TypeKeys
  <2>3. Cardinality(Wins(m, t)) \in Nat
    BY <2>1, FS_CardinalityType DEF Covered
  <2> QED
    BY <2>1, <2>2, <2>3, SpendingCount DEF Covered
<1> QED
  BY <1>1, <1>2, <1>3, OpenTyping, PTL DEF OpenSpec

(* However claims race, fail and crash, a type's counter never exceeds the *)
(* dedup keys its events have won: a duplicate spends nothing.             *)
THEOREM QuotaIsBacked == GateSpec => []QuotaBacked
BY OpenQuotas, GateIsOpen, PTL
===========================================================================
