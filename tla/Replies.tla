------------------------------ MODULE Replies ------------------------------
(***************************************************************************)
(* Bot replies in one room: the goroutine that every user message starts   *)
(* (app.go, BotReplySystem) and the LLM client its calls go through.       *)
(*                                                                         *)
(* A goroutine reads the chat window once and judges it later, between     *)
(* calls that wait for one of a few slots, retry and run into a deadline,  *)
(* while other goroutines answer.  Bot messages age in classes cut at the  *)
(* ages the code compares with: 0 is below 6 s, 1 below 15 s, 2 below 20 s *)
(* and 3 above.                                                            *)
(***************************************************************************)
EXTENDS Integers, Sequences, FiniteSets, SequencesExt

CONSTANTS
  Goroutines,  \* one for every user message
  Asks,        \* whose message is a question or calls the bot
  Topical,     \* whose message names a goal, a card, ...
  Sad,         \* whose message has a negative word
  Others,      \* messages of claims and bursts in the room
  Personas,
  Slots,       \* LLM_MAX_CONCURRENCY
  Attempts,    \* requests per Complete
  Window,      \* messages in a bundle
  MaxFaults,   \* Redis commands that fail
  None

Posts == Goroutines \cup Others
Old   == 3

Idle    == 0   \* no call
Waiting == -1  \* blocked on the limiter

ASSUME RepliesAssumption ==
  /\ IsFiniteSet(Goroutines) /\ IsFiniteSet(Others) /\ Goroutines \cap Others = {}
  /\ Asks \cup Topical \cup Sad \subseteq Goroutines
  /\ Slots \in Nat \ {0} /\ Attempts \in Nat \ {0} /\ Window \in Nat \ {0}
  /\ MaxFaults \in Nat
  /\ None \notin Personas \cup Posts

VARIABLES
  pc,       \* what each goroutine does next
  call,     \* its LLM call: Idle, Waiting, or the number of the request
  slots,    \* tokens in the limiter channel
  queue,    \* goroutines blocked on the channel, first come first
  expired,  \* goroutines whose 8 s are over
  chat,     \* match:chat, oldest first: posts, and None for a user's message
  seen,     \* how much of the chat was there when the bundle was built
  stamps,   \* the posts in the order of their timestamps
  age,      \* the age class of each stamped post
  keys,     \* personas with a reply cooldown key
  voice,    \* the persona of a goroutine, or None
  faults    \* commands that failed

llmVars  == <<call, slots, queue>>
postVars == <<stamps, age>>
vars == <<pc, llmVars, expired, chat, seen, postVars, keys, voice, faults>>

Init ==
  /\ pc = [r \in Goroutines |-> "away"]
  /\ call = [r \in Goroutines |-> Idle]
  /\ slots = 0 /\ queue = <<>>
  /\ expired = {}
  /\ chat = <<>> /\ seen = [r \in Goroutines |-> 0]
  /\ stamps = <<>> /\ age = [p \in Posts |-> 0]
  /\ keys = {}
  /\ voice = [r \in Goroutines |-> None]
  /\ faults = 0

Fault   == faults < MaxFaults /\ faults' = faults + 1
NoFault == UNCHANGED faults

Goto(r, label) == pc' = [pc EXCEPT ![r] = label]

---------------------------------------------------------------------------
(* VLLMClient.Complete.  While a goroutine is at one of these labels it is *)
(* in a call; the first has no deadline.                                   *)

Calls == {"sentiment", "intent", "generate", "again"}

(* acquire: a token, or a place in the channel's queue. *)
Acquire(r) ==
  /\ pc[r] \in Calls /\ call[r] = Idle
  /\ IF slots < Slots
     THEN slots' = slots + 1 /\ call' = [call EXCEPT ![r] = 1] /\ UNCHANGED queue
     ELSE queue' = Append(queue, r) /\ call' = [call EXCEPT ![r] = Waiting] /\ UNCHANGED slots
  /\ UNCHANGED <<pc, expired, chat, seen, postVars, keys, voice, faults>>

(* release: the token goes to the first in the queue, or back. *)
Release(r) ==
  IF queue = <<>>
  THEN slots' = slots - 1 /\ call' = [call EXCEPT ![r] = Idle] /\ UNCHANGED queue
  ELSE /\ call' = [call EXCEPT ![r] = Idle, ![Head(queue)] = 1]
       /\ queue' = Tail(queue)
       /\ UNCHANGED slots

InRequest(r) == pc[r] \in Calls /\ call[r] > 0

(* The request failed in a way worth another one: the slot is kept over    *)
(* the sleep, which the deadline cuts short.                               *)
Retry(r) ==
  /\ InRequest(r) /\ call[r] < Attempts /\ r \notin expired
  /\ call' = [call EXCEPT ![r] = @ + 1]
  /\ UNCHANGED <<pc, slots, queue, expired, chat, seen, postVars, keys, voice, faults>>

(* The call is over: with an answer, or with an error of the last request, *)
(* of the deadline or of the wait for a slot.                              *)
Answered(r) == InRequest(r) /\ r \notin expired /\ Release(r)

(* Mutant: a call that fails keeps its token. *)
ErroredKeeps(r) ==
  /\ InRequest(r)
  /\ call' = [call EXCEPT ![r] = Idle]
  /\ UNCHANGED <<slots, queue>>

Errored(r) ==
  \/ InRequest(r) /\ Release(r)
  \/ pc[r] \in Calls /\ call[r] = Idle /\ r \in expired /\ UNCHANGED llmVars
  \/ /\ r \in expired
     /\ \E i \in DOMAIN queue : queue[i] = r /\ queue' = RemoveAt(queue, i)
     /\ call' = [call EXCEPT ![r] = Idle]
     /\ UNCHANGED slots

---------------------------------------------------------------------------
(* The goroutine. *)

(* A user's message is pushed before its goroutine starts. *)
UserMessage(r) ==
  /\ pc[r] = "away"
  /\ \/ NoFault /\ chat' = Append(chat, None)
     \/ Fault /\ UNCHANGED chat
  /\ Goto(r, "bundle")
  /\ UNCHANGED <<llmVars, expired, seen, postVars, keys, voice>>

(* BuildBundle: without a state or a chat there is an empty window and no  *)
(* sentiment to ask for.                                                   *)
BuildBundle(r) ==
  /\ pc[r] = "bundle"
  /\ \/ NoFault /\ seen' = [seen EXCEPT ![r] = Len(chat)]
     \/ Fault /\ UNCHANGED seen
  /\ Goto(r, IF seen'[r] = 0 THEN "gate" ELSE "sentiment")
  /\ UNCHANGED <<llmVars, expired, chat, postVars, keys, voice>>

(* A failed sentiment call counts as a neutral room. *)
SentimentKnown(r) ==
  /\ pc[r] = "sentiment"
  /\ (Answered(r) \/ Errored(r))
  /\ Goto(r, "gate")
  /\ UNCHANGED <<expired, chat, seen, postVars, keys, voice, faults>>

(* latestBotReplyAge: the age of the youngest bot message of the window as *)
(* it was read, -1 without one.                                            *)
Seen(r) == {chat[i] : i \in {j \in 1 .. seen[r] : j > seen[r] - Window}} \ {None}
LatestBotReplyAge(r) ==
  IF Seen(r) = {} THEN -1
  ELSE CHOOSE a \in 0 .. Old : /\ \E p \in Seen(r) : age[p] = a
                               /\ \A p \in Seen(r) : age[p] >= a

(* shouldAttemptReply. *)
Attempted(r) == r \in Asks \/ (r \in Topical /\ LatestBotReplyAge(r) >= 2)

ShouldAttemptReply(r) ==
  /\ pc[r] = "gate"
  /\ Goto(r, IF Attempted(r) THEN "intent" ELSE "done")
  /\ UNCHANGED <<llmVars, expired, chat, seen, postVars, keys, voice, faults>>

(* Mutant: the sad are always consoled. *)
ThrottledNever(r, sentiment) ==
  sentiment # "negative" /\ LatestBotReplyAge(r) \in {0, 1, 2}

(* shouldThrottleReply. *)
Throttled(r, sentiment) ==
  LatestBotReplyAge(r) \in IF sentiment = "negative" THEN {0} ELSE {0, 1, 2}

(* An intent as sanitizeDetectIntent leaves it; what is not negative makes *)
(* no difference to the throttle.                                          *)
Intents == [requires : BOOLEAN, sentiment : {"negative", "neutral"}]

HeuristicIntent(r) ==
  [requires  |-> r \in Asks \cup Sad,
   sentiment |-> IF r \in Sad THEN "negative" ELSE "neutral"]

(* The LLM says whether the message requires a reply, and in what mood it  *)
(* is; when the call fails or its answer cannot be read the heuristic does.*)
AnalyzeIntent(r) ==
  /\ pc[r] = "intent"
  /\ \E intent \in Intents :
       /\ Answered(r) \/ (Errored(r) /\ intent = HeuristicIntent(r))
       /\ Goto(r, IF intent.requires /\ ~Throttled(r, intent.sentiment) THEN "persona" ELSE "done")
  /\ UNCHANGED <<expired, chat, seen, postVars, keys, voice, faults>>

(* Mutant: nobody was found, and the reply goes on. *)
SelectPersonaUnchecked(r) ==
  /\ pc[r] = "persona"
  /\ \E p \in Personas \cup {None} : voice' = [voice EXCEPT ![r] = p]
  /\ Goto(r, "claim")
  /\ UNCHANGED <<llmVars, expired, chat, seen, postVars, keys, faults>>

(* SelectPersona (module Casting) finds somebody, or gives up: it always   *)
(* does when the time is over or the bundle has no event.                  *)
SelectPersona(r) ==
  /\ pc[r] = "persona"
  /\ \/ /\ r \notin expired
        /\ \E p \in Personas : voice' = [voice EXCEPT ![r] = p]
        /\ Goto(r, "claim")
     \/ Goto(r, "done") /\ UNCHANGED voice
  /\ UNCHANGED <<llmVars, expired, chat, seen, postVars, keys, faults>>

(* Mutant: the key is set without a look at it. *)
ClaimPersonaAnyway(r) ==
  /\ pc[r] = "claim" /\ r \notin expired /\ NoFault
  /\ keys' = keys \cup {voice[r]}
  /\ Goto(r, "generate")
  /\ UNCHANGED <<llmVars, expired, chat, seen, postVars, voice>>

(* CheckPersonaCooldown is one SETNX, which an error may have carried out. *)
ClaimPersona(r) ==
  /\ pc[r] = "claim"
  /\ r \notin expired /\ voice[r] \notin keys
  /\ NoFault
  /\ keys' = keys \cup {voice[r]}
  /\ Goto(r, "generate")
  /\ UNCHANGED <<llmVars, expired, chat, seen, postVars, voice>>

PersonaRefused(r) ==
  /\ pc[r] = "claim"
  /\ \/ NoFault /\ (r \in expired \/ voice[r] \in keys) /\ UNCHANGED keys
     \/ Fault /\ keys' \in {keys, keys \cup {voice[r]}}
  /\ voice' = [voice EXCEPT ![r] = None]
  /\ Goto(r, "done")
  /\ UNCHANGED <<llmVars, expired, chat, seen, postVars>>

(* An empty answer is asked for once more; the second time, or if it is    *)
(* unsafe or cannot be read, the quick reply takes its place.              *)
Generate(r) ==
  /\ pc[r] \in {"generate", "again"}
  /\ Answered(r)
  /\ \E next \in {"again", "publish"} : pc[r] # next /\ Goto(r, next)
  /\ UNCHANGED <<expired, chat, seen, postVars, keys, voice, faults>>

(* Mutant: no reply without the LLM. *)
NoReply(r) ==
  /\ pc[r] \in {"generate", "again"}
  /\ Errored(r)
  /\ Goto(r, "done")
  /\ UNCHANGED <<expired, chat, seen, postVars, keys, voice, faults>>

(* So it does when the call fails. *)
QuickFallbackReply(r) ==
  /\ pc[r] \in {"generate", "again"}
  /\ Errored(r)
  /\ Goto(r, "publish")
  /\ UNCHANGED <<expired, chat, seen, postVars, keys, voice, faults>>

(* The message gets its timestamp and is published; that may fail. *)
Publish(r) ==
  /\ pc[r] = "publish"
  /\ stamps' = Append(stamps, r)
  /\ Goto(r, "push")
  /\ UNCHANGED <<llmVars, expired, chat, seen, age, keys, voice, faults>>

PushChatMessage(r) ==
  /\ pc[r] = "push"
  /\ \/ NoFault /\ chat' = Append(chat, r)
     \/ Fault /\ UNCHANGED chat
  /\ Goto(r, "done")
  /\ UNCHANGED <<llmVars, expired, seen, postVars, keys, voice>>

---------------------------------------------------------------------------
(* Time, and the other bots of the room. *)

(* The 8 s run from the gate on; they may as well be over at the next step *)
(* that looks at them.                                                     *)
UnderDeadline == {"intent", "claim", "generate", "again"}

DeadlinePasses(r) ==
  /\ pc[r] \in UnderDeadline /\ r \notin expired
  /\ expired' = expired \cup {r}
  /\ UNCHANGED <<pc, llmVars, chat, seen, postVars, keys, voice, faults>>

(* A post never overtakes an older one. *)
PostAges(i) ==
  /\ age[stamps[i]] < Old
  /\ \A j \in 1 .. i - 1 : age[stamps[j]] > age[stamps[i]]
  /\ age' = [age EXCEPT ![stamps[i]] = @ + 1]
  /\ UNCHANGED <<pc, llmVars, expired, chat, seen, stamps, keys, voice, faults>>

(* The shortest cooldown of the cast is 40 s, the reply is out 8 s after   *)
(* the key was set: the key outlives the first 20 s of its reply.          *)
Awaited  == {"generate", "again", "publish"}
KeyLapses(p) ==
  /\ p \in keys
  /\ \A r \in Goroutines : voice[r] = p =>
       pc[r] \notin Awaited /\ (Contains(stamps, r) => age[r] = Old)
  /\ keys' = keys \ {p}
  /\ UNCHANGED <<pc, llmVars, expired, chat, seen, postVars, voice, faults>>

OtherPost(o) ==
  /\ ~Contains(stamps, o)
  /\ stamps' = Append(stamps, o)
  /\ chat' = Append(chat, o)
  /\ UNCHANGED <<pc, llmVars, expired, seen, age, keys, voice, faults>>

Step(r) ==
  \/ BuildBundle(r) \/ SentimentKnown(r) \/ ShouldAttemptReply(r) \/ AnalyzeIntent(r)
  \/ SelectPersona(r) \/ ClaimPersona(r) \/ PersonaRefused(r) \/ Generate(r) \/ QuickFallbackReply(r)
  \/ Publish(r) \/ PushChatMessage(r) \/ Acquire(r) \/ Retry(r)

Next ==
  \/ \E r \in Goroutines : UserMessage(r) \/ Step(r) \/ DeadlinePasses(r)
  \/ \E i \in 1 .. Len(stamps) : PostAges(i)
  \/ \E p \in Personas : KeyLapses(p)
  \/ \E o \in Others : OtherPost(o)

Spec == Init /\ [][Next]_vars

(* Goroutines run; a request ends, at the latest with the client's timeout.*)
FairSpec == Spec /\ \A r \in Goroutines : WF_vars(Step(r))

---------------------------------------------------------------------------
(* Properties. *)

Labels == {"away", "bundle", "gate", "persona", "claim", "publish", "push", "done"} \cup Calls
InCall == {r \in Goroutines : call[r] > 0}

(* Types; only goroutines in a call wait for a slot or hold one, and who   *)
(* goes on past the selection has a voice.                                 *)
TypeOK ==
  /\ pc \in [Goroutines -> Labels]
  /\ call \in [Goroutines -> Waiting .. Attempts] /\ queue \in Seq(Goroutines)
  /\ expired \subseteq Goroutines /\ keys \subseteq Personas
  /\ chat \in Seq(Posts \cup {None}) /\ seen \in [Goroutines -> Nat]
  /\ stamps \in Seq(Posts) /\ age \in [Posts -> 0 .. Old]
  /\ voice \in [Goroutines -> Personas \cup {None}]
  /\ faults \in 0 .. MaxFaults
  /\ \A r \in Goroutines :
       /\ call[r] # Idle => pc[r] \in Calls
       /\ call[r] = Waiting <=> Contains(queue, r)
       /\ seen[r] <= Len(chat)
       /\ pc[r] \in Awaited \cup {"claim", "push"} => voice[r] # None

(* The limiter counts exactly the goroutines in a request, whichever way   *)
(* their calls end, and nobody waits while a slot is free.                 *)
SlotsAccounted ==
  /\ slots = Cardinality(InCall) /\ slots <= Slots
  /\ queue # <<>> => slots = Slots

(* Two replies within six seconds of each other happen only if the second  *)
(* goroutine read the chat before the first reply was in it, or could not  *)
(* read it, or Window messages lay between: what is in the window holds    *)
(* back everybody who sees it, sad or not.                                 *)
FreshRepliesOverlap ==
  \A i, j \in 1 .. Len(stamps) :
    (i < j /\ stamps[j] \in Goroutines /\ age[stamps[i]] = 0)
      => stamps[i] \notin Seen(stamps[j])

(* Whatever its other replies in flight, a persona never answers twice     *)
(* within twenty seconds.                                                  *)
PersonaAnswersOnce ==
  \A r, s \in Goroutines :
    (r # s /\ voice[r] = voice[s] /\ Contains(stamps, r) /\ Contains(stamps, s))
      => age[r] = Old \/ age[s] = Old

(* A persona that was claimed has spoken when its goroutine ends: the      *)
(* cooldown is never spent on a reply that an LLM failure, the deadline or *)
(* a busy client swallowed.                                                *)
ClaimedPersonaSpeaks ==
  \A r \in Goroutines : pc[r] = "done" /\ voice[r] # None => Contains(stamps, r)

(* Every goroutine ends, whatever the calls of the others do.              *)
RepliesEnd == \A r \in Goroutines : pc[r] # "away" ~> pc[r] = "done"
===========================================================================
