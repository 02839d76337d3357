------------------------------ MODULE Prematch ------------------------------
(***************************************************************************)
(* The prematch poller and handler: at start and then at every interval    *)
(* the poller looks for matches that kick off soon and starts, for each    *)
(* that needs one, a goroutine that posts a burst of messages and then     *)
(* sets the sent marker.  Time passes between any two steps.               *)
(***************************************************************************)
EXTENDS Integers, FiniteSets

CONSTANTS
  Matches,
  Kickoff,     \* MatchTime of each
  Window,      \* PhasePrematch begins this long before it (30 minutes)
  Interval,    \* of the polls (5 minutes)
  Minute,      \* ticks to a minute
  BurstSize,   \* messages of a burst (5 in the code)
  Slots,       \* bound: handler goroutines at one time
  LastTick,    \* bound: of the clock
  MaxFaults,   \* bound: commands, drafts and publishes that fail
  MaxCrashes,  \* bound: restarts of the process
  None

ASSUME PrematchNoneAssumption == None \notin Matches

ASSUME SlotsAssumption == IsFiniteSet(Slots)

ASSUME TimesAssumption ==
  /\ Kickoff \in [Matches -> Nat]
  /\ Window \in Nat /\ Interval \in Nat \ {0} /\ Minute \in Nat \ {0}
  /\ BurstSize \in Nat \ {0}
  /\ LastTick \in Nat /\ MaxFaults \in Nat /\ MaxCrashes \in Nat

VARIABLES
  now,      \* the clock
  tick,     \* when the poller's ticker fires next
  due,      \* a tick, or the start, waits for the poller
  left,     \* matches its poll has still to look at
  looking,  \* the one whose chat it is about to read
  marker,   \* matches whose bot:prematch:sent key is set
  chat,     \* matches whose chat list is not empty
  step,     \* where each handler goroutine is
  match,    \* its match
  count,    \* messages of the burst it is done with
  faults, crashes,
  \* history, read by properties only
  sent,     \* messages published for each match, failed publishes included
  overlaps, \* bursts begun for it while another one of it was running
  tail      \* messages each goroutine published a minute past kickoff or later

poller == <<tick, due, left, looking>>
bursts == <<step, match, count, tail>>
keys   == <<marker, chat>>
vars   == <<now, tick, due, left, looking, marker, chat, step, match, count,
            faults, crashes, sent, overlaps, tail>>

Running(m) == {b \in Slots : step[b] # "free" /\ match[b] = m}

TypeOK ==
  /\ now \in 0 .. LastTick
  /\ tick \in Nat /\ tick > now /\ due \in BOOLEAN
  /\ left \subseteq Matches /\ looking \in left \cup {None}
  /\ marker \subseteq Matches /\ chat \subseteq Matches
  /\ step \in [Slots -> {"free", "lookup", "check", "draft", "publish", "push",
                         "pause", "mark"}]
  /\ match \in [Slots -> Matches \cup {None}]
  /\ \A b \in Slots : (match[b] = None) = (step[b] = "free")
  /\ count \in [Slots -> 0 .. BurstSize]
  /\ \A b \in Slots : step[b] \in {"draft", "publish", "push"} => count[b] < BurstSize
  /\ faults \in 0 .. MaxFaults /\ crashes \in 0 .. MaxCrashes
  /\ sent \in [Matches -> Nat] /\ overlaps \in [Matches -> Nat] /\ tail \in [Slots -> Nat]

Init ==
  /\ now = 0 /\ tick = Interval /\ due = TRUE
  /\ left = {} /\ looking = None
  /\ marker = {} /\ chat = {}
  /\ step = [b \in Slots |-> "free"]
  /\ match = [b \in Slots |-> None]
  /\ count = [b \in Slots |-> 0]
  /\ faults = 0 /\ crashes = 0
  /\ sent = [m \in Matches |-> 0]
  /\ overlaps = [m \in Matches |-> 0]
  /\ tail = [b \in Slots |-> 0]

Fault == faults < MaxFaults /\ faults' = faults + 1

(* ComputePhase = PhasePrematch. *)
InWindow(m) == now < Kickoff[m] /\ now >= Kickoff[m] - Window

(* Mutant: minutes without their sign. *)
MinutesUnsigned(m) ==
  IF now <= Kickoff[m] THEN (Kickoff[m] - now) \div Minute ELSE (now - Kickoff[m]) \div Minute

(* int(time.Until(kickoff).Minutes()), which cuts off towards zero. *)
MinutesToKickoff(m) ==
  IF now <= Kickoff[m] THEN (Kickoff[m] - now) \div Minute ELSE -((now - Kickoff[m]) \div Minute)

---------------------------------------------------------------------------
(* poll. *)

StartPoll ==
  /\ due /\ left = {}
  /\ due' = FALSE
  /\ \/ left' = {m \in Matches : InWindow(m)} /\ UNCHANGED faults
     \/ Fault /\ UNCHANGED left
  /\ UNCHANGED <<now, tick, looking, keys, bursts, crashes, sent, overlaps>>

Begin(m) ==
  \E b \in Slots :
    /\ step[b] = "free"
    /\ step' = [step EXCEPT ![b] = "lookup"]
    /\ match' = [match EXCEPT ![b] = m]
    /\ count' = [count EXCEPT ![b] = 0]
    /\ tail' = [tail EXCEPT ![b] = 0]
    /\ overlaps' = IF Running(m) # {} THEN [overlaps EXCEPT ![m] = @ + 1] ELSE overlaps
    /\ left' = left \ {m} /\ looking' = None

Skip(m) == left' = left \ {m} /\ looking' = None /\ UNCHANGED <<bursts, overlaps>>

ReadMarker(m) ==
  /\ looking = None /\ m \in left
  /\ IF m \in marker
     THEN looking' = m /\ UNCHANGED <<left, bursts, overlaps>>
     ELSE Begin(m)
  /\ UNCHANGED <<now, tick, due, keys, faults, crashes, sent>>

(* Mutant: the marker alone decides. *)
ReadChatTrusts ==
  /\ looking # None
  /\ Skip(looking)
  /\ UNCHANGED <<now, tick, due, keys, faults, crashes, sent>>

(* Mutant: a marker never holds a burst back. *)
ReadChatRetries ==
  /\ looking # None
  /\ Begin(looking)
  /\ UNCHANGED <<now, tick, due, keys, faults, crashes, sent>>

(* A marker without any chat is taken for stale. *)
ReadChat ==
  /\ looking # None
  /\ IF looking \in chat THEN Skip(looking) ELSE Begin(looking)
  /\ UNCHANGED <<now, tick, due, keys, faults, crashes, sent>>

ReadFails(m) ==
  /\ m \in left /\ looking \in {None, m}
  /\ Fault
  /\ Skip(m)
  /\ UNCHANGED <<now, tick, due, keys, crashes, sent>>

---------------------------------------------------------------------------
(* PrematchHandler.Handle, and the marker its goroutine sets after it. *)

To(b, s) == step' = [step EXCEPT ![b] = s]
EndBurst(b) ==
  /\ step' = [step EXCEPT ![b] = "free"]
  /\ match' = [match EXCEPT ![b] = None]
  /\ count' = [count EXCEPT ![b] = 0]
  /\ tail' = [tail EXCEPT ![b] = 0]

(* A match that is not in the daily store ends the goroutine, unmarked.    *)
(* The match state and room it then writes are nobody's business here.     *)
Lookup(b) ==
  /\ step[b] = "lookup"
  /\ \/ To(b, "check") /\ UNCHANGED <<match, count, tail, faults>>
     \/ Fault /\ EndBurst(b)
  /\ UNCHANGED <<now, poller, keys, crashes, sent, overlaps>>

(* Mutant: one message too many is drafted. *)
CheckKickoffOneMore(b) ==
  /\ step[b] = "check"
  /\ To(b, IF count[b] > BurstSize \/ MinutesToKickoff(match[b]) < 0 THEN "mark" ELSE "draft")
  /\ UNCHANGED <<now, poller, keys, match, count, tail, faults, crashes, sent, overlaps>>

CheckKickoff(b) ==
  /\ step[b] = "check"
  /\ To(b, IF count[b] = BurstSize \/ MinutesToKickoff(match[b]) < 0 THEN "mark" ELSE "draft")
  /\ UNCHANGED <<now, poller, keys, match, count, tail, faults, crashes, sent, overlaps>>

NextMessage(b, s) == To(b, s) /\ count' = [count EXCEPT ![b] = @ + 1]

(* Without context or draft the handler pauses and goes on to the next     *)
(* message; without a persona it does so at once.                          *)
Draft(b) ==
  /\ step[b] = "draft"
  /\ \/ To(b, "publish") /\ UNCHANGED <<count, faults>>
     \/ Fault /\ \E s \in {"pause", "check"} : NextMessage(b, s)
  /\ UNCHANGED <<now, poller, keys, match, tail, crashes, sent, overlaps>>

(* A failed publish may have been delivered. *)
Publish(b) ==
  LET late == now >= Kickoff[match[b]] + Minute IN
  /\ step[b] = "publish"
  /\ sent' = [sent EXCEPT ![match[b]] = @ + 1]
  /\ tail' = IF late THEN [tail EXCEPT ![b] = @ + 1] ELSE tail
  /\ \/ To(b, "push") /\ UNCHANGED <<count, faults>>
     \/ Fault /\ NextMessage(b, "pause")
  /\ UNCHANGED <<now, poller, keys, match, crashes, overlaps>>

PushMessage(b) ==
  /\ step[b] = "push"
  /\ \/ chat' = chat \cup {match[b]} /\ UNCHANGED faults
     \/ Fault /\ UNCHANGED chat
  /\ NextMessage(b, "pause")
  /\ UNCHANGED <<now, poller, marker, match, tail, crashes, sent, overlaps>>

EndPause(b) ==
  /\ step[b] = "pause"
  /\ To(b, "check")
  /\ UNCHANGED <<now, poller, keys, match, count, tail, faults, crashes, sent, overlaps>>

(* MarkSentPrematch, also after a burst none of which got out. *)
MarkSent(b) ==
  /\ step[b] = "mark"
  /\ \/ marker' = marker \cup {match[b]} /\ UNCHANGED faults
     \/ Fault /\ UNCHANGED marker
  /\ EndBurst(b)
  /\ UNCHANGED <<now, poller, chat, crashes, sent, overlaps>>

---------------------------------------------------------------------------
(* Around them. *)

(* The ticker's channel holds one tick. *)
Tick ==
  /\ now < LastTick
  /\ now' = now + 1
  /\ IF now' = tick
     THEN tick' = tick + Interval /\ due' = TRUE
     ELSE UNCHANGED <<tick, due>>
  /\ UNCHANGED <<left, looking, keys, bursts, faults, crashes, sent, overlaps>>

(* A user, or the event pipeline, posts to the room. *)
OthersPost(m) ==
  /\ chat' = chat \cup {m}
  /\ UNCHANGED <<now, poller, marker, bursts, faults, crashes, sent, overlaps>>

(* The process stops, as at a shutdown, and starts with a poll. *)
Restart ==
  /\ crashes < MaxCrashes
  /\ crashes' = crashes + 1
  /\ tick' = now + Interval /\ due' = TRUE
  /\ left' = {} /\ looking' = None
  /\ step' = [b \in Slots |-> "free"]
  /\ match' = [b \in Slots |-> None]
  /\ count' = [b \in Slots |-> 0]
  /\ tail' = [b \in Slots |-> 0]
  /\ UNCHANGED <<now, keys, faults, sent, overlaps>>

PollStep == StartPoll \/ ReadChat \/ \E m \in Matches : ReadMarker(m) \/ ReadFails(m)

BurstStep(b) ==
  \/ Lookup(b) \/ CheckKickoff(b) \/ Draft(b) \/ Publish(b)
  \/ PushMessage(b) \/ EndPause(b) \/ MarkSent(b)

Next ==
  \/ PollStep
  \/ \E b \in Slots : BurstStep(b)
  \/ Tick
  \/ \E m \in Matches : OthersPost(m)
  \/ Restart

(* The poller and its goroutines go on; the clock need not. *)
Fairness == WF_vars(PollStep) /\ \A b \in Slots : WF_vars(BurstStep(b))

Spec == Init /\ [][Next]_vars

FairSpec == Spec /\ Fairness

---------------------------------------------------------------------------
(* Properties. *)

(* A match gets the messages of one burst, and those of another one only   *)
(* for each restart, each failure and each poll that met its burst still   *)
(* at work: neither later polls nor a restart repeat what went through.    *)
OneBurstEach ==
  \A m \in Matches :
    sent[m] <= BurstSize * (1 + overlaps[m] + faults + crashes)

(* A burst that got nothing out still sets the marker.  The poller does    *)
(* not trust it: when the failures are over, a match that a poll finds in  *)
(* its window has something in its room in the end, unless the kickoff     *)
(* overtakes its burst.                                                    *)
HeardAfterFaults ==
  \A m \in Matches :
    m \in left /\ faults = MaxFaults /\ crashes = MaxCrashes
      ~> m \in chat \/ now >= Kickoff[m] + Minute

(* A burst that runs into the kickoff stops: from a minute after it on at  *)
(* most the one message already being drafted goes out.                    *)
KickoffTail == \A b \in Slots : tail[b] <= 1

(* "stop burst early (kickoff passed)": no message is begun after the      *)
(* kickoff.  Cutting the minutes off towards zero, the code begins them    *)
(* for another minute.                                                     *)
StopsAtKickoff ==
  [][\A b \in Slots :
       step[b] = "check" /\ step'[b] = "draft" => now <= Kickoff[match[b]]]_vars

===========================================================================
