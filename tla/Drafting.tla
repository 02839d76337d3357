------------------------------ MODULE Drafting ------------------------------
(***************************************************************************)
(* What is said: the part of handleEvent and of the prematch handler       *)
(* between the policy and the publisher.  The claims of the partitions and *)
(* a prematch burst draft messages for one match at the same time; they    *)
(* share the match state, the list of recent events and the hashes of the  *)
(* texts that have passed.  Each Redis command is a step.                  *)
(*                                                                         *)
(*   claim:  write state, push event, read state, read events, choose a    *)
(*           persona, check the scale and generate, look the hash up,      *)
(*           store it;                                                     *)
(*   burst:  write state once, then for every message read state, read     *)
(*           events, choose a persona and generate, send.                  *)
(*                                                                         *)
(* Who speaks is left open: what module Casting chooses may be any persona *)
(* or none, and choosing touches nothing that is read here.                *)
(***************************************************************************)
EXTENDS Integers, Sequences, FiniteSets

CONSTANTS
  Drafters,   \* the claims and prematch bursts at work on the match
  Work,       \* Work[d]: the live events of a claim, or the messages of a burst
  Personas,
  Templates,  \* the enabled templates of the cache
  Crowds,     \* how many members the room's online set may have
  MaxFaults,  \* Redis commands that fail
  MaxLapses,  \* hash keys that expire
  None

Items  == UNION {{Work[d][i] : i \in 1 .. Len(Work[d])} : d \in Drafters}
Phases == {"prematch", "waiting", "live", ""}

(* A text is known by what survives normalizeMessageForHash: its wording,  *)
(* the player it names and whether the teams stand before it; minutes,     *)
(* scores and emoji do not.  The generic text of a type goes by the type.  *)
Texts == ({t.id : t \in Templates} \cup {e.type : e \in Items} \cup {"llm"})
           \X ({e.player : e \in Items} \cup {None}) \X BOOLEAN

IsBurst(d) == Work[d][1].type = "MATCH_UPCOMING"
Claims     == {d \in Drafters : ~IsBurst(d)}

ASSUME DraftingAssumption ==
  /\ IsFiniteSet(Drafters)
  /\ \A d \in Drafters : Work[d] \in Seq(Items) /\ Len(Work[d]) > 0
  /\ MaxFaults \in Nat /\ MaxLapses \in Nat
  /\ None \notin Personas \cup Templates

ASSUME ItemsAssumption ==
  \A e \in Items : e.phase \in Phases /\ e.minute \in Int /\ e.lead \in Int

ASSUME TemplatesAssumption == \A t \in Templates : t.phase \in Phases \ {""}

VARIABLES
  state,        \* the hash match:state: phase, minute and lead
  newest,       \* the head of the list of recent events, or None
  hashes,       \* texts with a hash key
  pc,           \* what each drafter does next
  at,           \* the item it is at
  view,         \* the state and the event of its bundle
  draft,        \* its draft, or None
  faults,       \* commands that failed
  lapses,       \* keys that expired
  passes,       \* (history) passes[h]: drafts passed in this life of hash h
  disturbed     \* (history) claims whose own state was not the one they read

sharedVars == <<state, newest, hashes>>
localVars  == <<at, view, draft>>
history    == <<passes, disturbed>>
vars == <<sharedVars, pc, localVars, faults, lapses, history>>

Now(d) == Work[d][at[d]]

(* GetMatchState of a missing hash, and the claim's stand-in for a bundle  *)
(* that could not be built.                                                *)
NoState     == [phase |-> "", minute |-> 0, lead |-> 0]
OwnState(d) == [phase |-> Now(d).phase, minute |-> Now(d).minute, lead |-> Now(d).lead]
NoView      == [state |-> NoState, tells |-> None]

Init ==
  /\ state = NoState /\ newest = None /\ hashes = {}
  /\ pc = [d \in Drafters |-> "write"]
  /\ at = [d \in Drafters |-> 1]
  /\ view = [d \in Drafters |-> NoView]
  /\ draft = [d \in Drafters |-> None]
  /\ faults = 0 /\ lapses = 0
  /\ passes = [h \in Texts |-> 0]
  /\ disturbed = {}

(* A Redis command of the step fails. *)
Fault   == faults < MaxFaults /\ faults' = faults + 1
NoFault == UNCHANGED faults

Goto(d, label) == pc' = [pc EXCEPT ![d] = label]

(* The drafter is through with its item, whatever came of it. *)
EndItem(d) ==
  /\ Goto(d, IF at[d] = Len(Work[d]) THEN "done" ELSE IF IsBurst(d) THEN "bundle" ELSE "write")
  /\ at' = [at EXCEPT ![d] = @ + 1]
  /\ view' = [view EXCEPT ![d] = NoView]
  /\ draft' = [draft EXCEPT ![d] = None]

---------------------------------------------------------------------------
(* The context. *)

(* updateMatchState and SetMatchState: the claim's event, whichever it is, *)
(* becomes the state of the match; an error is logged.                     *)
WriteState(d) ==
  /\ pc[d] = "write"
  /\ \/ /\ NoFault
        /\ state' = OwnState(d)
        /\ disturbed' = (disturbed \ {d}) \cup {c \in Claims \ {d} : pc[c] \in {"push", "bundle"}}
     \/ Fault /\ UNCHANGED state /\ disturbed' = disturbed \cup (Claims \cap {d})
  /\ Goto(d, IF IsBurst(d) THEN "bundle" ELSE "push")
  /\ UNCHANGED <<newest, hashes, localVars, lapses, passes>>

PushEvent(d) ==
  /\ pc[d] = "push"
  /\ \/ NoFault /\ newest' = Now(d).id
     \/ Fault /\ UNCHANGED newest
  /\ Goto(d, "bundle")
  /\ UNCHANGED <<state, hashes, localVars, lapses, history>>

(* BuildBundle reads the state and then the recent events, by a command    *)
(* each.  Over what it reads the caller puts: a claim its own event; a     *)
(* burst the phase and the minute, but not the event a template renders.   *)
StateFor(d) ==
  IF IsBurst(d) THEN [state EXCEPT !.phase = "prematch", !.minute = Now(d).minute] ELSE state

(* Mutant: the claim keeps the newest event of the list as its own. *)
NewestFor(d, read) == read

EventFor(d, read) == IF IsBurst(d) THEN read ELSE Now(d).id

GetMatchState(d) ==
  /\ pc[d] = "bundle"
  /\ NoFault
  /\ view' = [view EXCEPT ![d].state = StateFor(d)]
  /\ Goto(d, "recent")
  /\ UNCHANGED <<sharedVars, at, draft, lapses, history>>

(* The error of the second read is dropped: there is no event then. *)
GetRecentEvents(d) ==
  /\ pc[d] = "recent"
  /\ \/ NoFault /\ view' = [view EXCEPT ![d].tells = EventFor(d, newest)]
     \/ Fault /\ view' = [view EXCEPT ![d].tells = EventFor(d, None)]
  /\ Goto(d, "generate")
  /\ UNCHANGED <<sharedVars, at, draft, lapses, history>>

(* Without a state there is no bundle: a burst skips the message, a claim  *)
(* goes on with its event alone.                                           *)
BuildBundleFails(d) ==
  /\ pc[d] = "bundle"
  /\ Fault
  /\ IF IsBurst(d)
     THEN EndItem(d)
     ELSE /\ view' = [view EXCEPT ![d] = [NoView EXCEPT !.tells = Now(d).id]]
          /\ Goto(d, "generate")
          /\ UNCHANGED <<at, draft>>
  /\ UNCHANGED <<sharedVars, lapses, history>>

---------------------------------------------------------------------------
(* The persona and the scale. *)

(* Mutant: nobody is taken for somebody. *)
NobodyFoundGoesOn(d) ==
  /\ pc[d] = "generate"
  /\ Goto(d, IF IsBurst(d) THEN "send" ELSE "lookup")
  /\ UNCHANGED <<sharedVars, localVars, faults, lapses, history>>

(* No persona was found: the item goes unheard. *)
NobodyFound(d) ==
  /\ pc[d] = "generate"
  /\ EndItem(d)
  /\ UNCHANGED <<sharedVars, faults, lapses, history>>

MaxBots(online) ==
  CASE online < 50  -> 3
    [] online < 100 -> 6
    [] online < 500 -> 8
    [] OTHER        -> 5

(* GetBotConfig and getBotCountFromRedis count the same online set, one    *)
(* after the other; the set has other writers.  A failed read stands for a *)
(* quiet room in the first and for an empty one in the second.             *)
ScaleAllows ==
  \/ NoFault /\ \E n, bots \in Crowds : bots < MaxBots(n)
  \/ Fault

SkipForScale(d) ==
  /\ pc[d] = "generate" /\ ~IsBurst(d)
  /\ \/ NoFault /\ \E n, bots \in Crowds : bots >= MaxBots(n)
     \/ Fault /\ \E bots \in Crowds : bots >= MaxBots(0)
  /\ EndItem(d)
  /\ UNCHANGED <<sharedVars, lapses, history>>

---------------------------------------------------------------------------
(* The text. *)

(* GetMatchingTemplates and checkConditions. *)
Matches(t, s, type, p) ==
  /\ t.phase = s.phase
  /\ p \in t.voices
  /\ t.type \in {None, type}
  /\ s.minute \in t.minutes /\ s.lead \in t.leads

(* pickBestTemplate takes one of the highest priority;                     *)
(* pickBestTemplateForPrematch draws with the priorities as weights.       *)
Best(ts, phase) ==
  IF phase = "prematch" /\ \E t \in ts : t.priority > 0
  THEN {t \in ts : t.priority > 0}
  ELSE {t \in ts : \A u \in ts : u.priority <= t.priority \/ phase = "prematch"}

Text(d, wording, about) == <<wording, about, view[d].state # NoState>>

(* A template is rendered with the event of the bundle, the generic text   *)
(* with the item's own; the LLM may say anything.  "passes" stands for the *)
(* quality filter's rules on length, words and the event's keywords, which *)
(* every generic text observes.                                            *)
PlayerOf(id) == IF \E e \in Items : e.id = id
                THEN (CHOOSE e \in Items : e.id = id).player ELSE None

TemplateDrafts(d, p) ==
  {[by |-> p, template |-> t, tells |-> view[d].tells, passes |-> Now(d).type \in t.passes,
    text |-> Text(d, t.id, IF t.named THEN PlayerOf(view[d].tells) ELSE None)] :
     t \in Best({t \in Templates : Matches(t, view[d].state, Now(d).type, p)},
                view[d].state.phase)}

FreeDraft(d, p, text, passed) ==
  [by |-> p, template |-> None, tells |-> Now(d).id, passes |-> passed, text |-> text]

LLMDrafts(d, p) ==
  {FreeDraft(d, p, Text(d, "llm", a), ok) : a \in {None, Now(d).player}, ok \in BOOLEAN}

GenericDraft(d, p) == FreeDraft(d, p, Text(d, Now(d).type, Now(d).player), TRUE)
OtherDrafts(d, p)  == LLMDrafts(d, p) \cup {GenericDraft(d, p)}

GenerateMessage(d) ==
  /\ pc[d] = "generate"
  /\ IF IsBurst(d) THEN NoFault ELSE ScaleAllows
  /\ \E p \in Personas :
       \E m \in IF TemplateDrafts(d, p) # {} THEN TemplateDrafts(d, p) ELSE OtherDrafts(d, p) :
         draft' = [draft EXCEPT ![d] = m]
  /\ Goto(d, IF IsBurst(d) THEN "send" ELSE "lookup")
  /\ view' = [view EXCEPT ![d] = NoView]
  /\ UNCHANGED <<sharedVars, at, lapses, history>>

(* QualityFilter.Check: the rules, then the hash of the text is looked up; *)
(* a failed look-up lets the draft through.                                *)
Rejected(d) == ~draft[d].passes \/ draft[d].text \in hashes

RejectDraft(d) ==
  /\ pc[d] = "lookup" /\ Rejected(d)
  /\ EndItem(d)
  /\ UNCHANGED <<sharedVars, faults, lapses, history>>

IsMessageDuplicated(d) ==
  /\ pc[d] = "lookup"
  /\ \/ NoFault /\ ~Rejected(d)
     \/ Fault /\ draft[d].passes
  /\ Goto(d, "store")
  /\ UNCHANGED <<sharedVars, localVars, lapses, history>>

(* Mutant: the hash is not stored. *)
SaveMessageHashForgets(d) ==
  /\ pc[d] = "store"
  /\ NoFault
  /\ passes' = [passes EXCEPT ![draft[d].text] = @ + 1]
  /\ EndItem(d)
  /\ UNCHANGED <<sharedVars, lapses, disturbed>>

SaveMessageHash(d) ==
  /\ pc[d] = "store"
  /\ \/ NoFault /\ hashes' = hashes \cup {draft[d].text}
     \/ Fault /\ UNCHANGED hashes
  /\ passes' = [passes EXCEPT ![draft[d].text] = @ + 1]
  /\ EndItem(d)
  /\ UNCHANGED <<state, newest, lapses, disturbed>>

(* A prematch message is made different and published as it is. *)
Send(d) ==
  /\ pc[d] = "send"
  /\ EndItem(d)
  /\ UNCHANGED <<sharedVars, faults, lapses, history>>

---------------------------------------------------------------------------

HashLapses(h) ==
  /\ lapses < MaxLapses /\ h \in hashes
  /\ lapses' = lapses + 1
  /\ hashes' = hashes \ {h}
  /\ passes' = [passes EXCEPT ![h] = 0]
  /\ UNCHANGED <<state, newest, pc, localVars, faults, disturbed>>

DraftStep(d) ==
  \/ WriteState(d) \/ PushEvent(d)
  \/ GetMatchState(d) \/ BuildBundleFails(d) \/ GetRecentEvents(d)
  \/ NobodyFound(d) \/ SkipForScale(d) \/ GenerateMessage(d)
  \/ RejectDraft(d) \/ IsMessageDuplicated(d) \/ SaveMessageHash(d) \/ Send(d)

Next ==
  \/ \E d \in Drafters : DraftStep(d)
  \/ \E h \in Texts : HashLapses(h)

Spec == Init /\ [][Next]_vars

---------------------------------------------------------------------------
(* Properties. *)

Labels == {"write", "push", "bundle", "recent", "generate", "lookup", "store", "send", "done"}
States == [phase : Phases, minute : Int, lead : Int]
Ids    == {e.id : e \in Items} \cup {None}
Drafts == [by : Personas, template : Templates \cup {None}, text : Texts, tells : Ids, passes : BOOLEAN]

ASSUME NoDraftAssumption == None \notin Drafts

(* Types; a drafter has a draft exactly while it is checked and sent. *)
DraftingTypeOK ==
  /\ state \in States /\ newest \in Ids /\ hashes \subseteq Texts
  /\ faults \in 0 .. MaxFaults /\ lapses \in 0 .. MaxLapses
  /\ disturbed \subseteq Claims
  /\ passes \in [Texts -> Nat]
  /\ pc \in [Drafters -> Labels] /\ at \in [Drafters -> Nat \ {0}]
  /\ view \in [Drafters -> [state : States, tells : Ids]]
  /\ draft \in [Drafters -> Drafts \cup {None}]
  /\ \A d \in Drafters :
       /\ at[d] <= Len(Work[d]) + 1 /\ (pc[d] = "done" <=> at[d] > Len(Work[d]))
       /\ IsBurst(d) => pc[d] \notin {"push", "lookup", "store"}
       /\ ~IsBurst(d) => pc[d] # "send"
       /\ pc[d] \in {"lookup", "store", "send"} <=> draft[d] # None

(* What is said fits what happened.  The template of a claim is one for    *)
(* the phase, minute, lead and type of the claim's own event, and is       *)
(* filled in with that event - although the state it was chosen by is one  *)
(* that every claim and the prematch burst overwrite - unless somebody     *)
(* wrote between the claim's write and its read, or one of these failed.   *)
(* A burst speaks before the kickoff whatever the feed has brought.        *)
DraftFitsEvent ==
  \A d \in Drafters : draft[d] # None /\ draft[d].template # None =>
    LET t == draft[d].template
    IN IF IsBurst(d)
       THEN t.phase = "prematch" /\ Now(d).minute \in t.minutes
       ELSE /\ draft[d].tells = Now(d).id
            /\ d \notin disturbed => Matches(t, OwnState(d), Now(d).type, draft[d].by)

(* In one life of its hash a text passes the filter at most once for each  *)
(* claim, between whose look-up and store the others look up, and once     *)
(* more for each command that failed.                                      *)
TextRepeats == \A h \in Texts : passes[h] <= Cardinality(Claims) + faults
===========================================================================
