------------------------------ MODULE Casting ------------------------------
(***************************************************************************)
(* Who says it: PersonaSelector over the cooldown keys of the personas and *)
(* the last-speaker key of a match.  The claims of the partitions, the     *)
(* prematch bursts and the replies to users choose at the same time; what  *)
(* one reads with GET another writes with SET several steps later, so the  *)
(* keys promise less than they seem to.  Each Redis command is a step, and *)
(* keys lapse at any time.                                                 *)
(***************************************************************************)
EXTENDS Integers, Sequences, FiniteSets

CONSTANTS
  Choosers,   \* the goroutines that choose personas for one match
  Replies,    \* those among them that give up where the others reuse
  Work,       \* Work[d]: the event types d chooses a persona for, in order
  Cast,       \* the personas, in the order of personas.yaml
  Allowed,    \* Allowed[p]: the event types of p's policy, {} for all
  MaxFaults,  \* Redis commands that fail
  MaxLapses,  \* cooldown keys that expire
  None

Personas == {Cast[i] : i \in 1 .. Len(Cast)}

ASSUME CastingAssumption ==
  /\ IsFiniteSet(Choosers) /\ Replies \subseteq Choosers
  /\ \A d \in Choosers : Work[d] \in Seq(STRING) /\ Len(Work[d]) > 0
  /\ Cast \in Seq(Personas) /\ Len(Cast) > 0
  /\ None \notin Personas
  /\ MaxFaults \in Nat /\ MaxLapses \in Nat

VARIABLES
  resting,      \* personas with a cooldown key
  lastPersona,  \* the match's last-speaker key, or None
  pc,           \* what each chooser does next
  at,           \* the item it is at
  last,         \* the last speaker as it read it
  seat,         \* the place of the persona it asks about
  open,         \* the candidates it has found
  voice,        \* the persona it chose, or None
  faults,       \* commands that failed
  lapses,       \* keys that expired
  picks,        \* (history) picks[p]: scored picks since p's key last expired
  streak        \* (history) how often lastPersona took its present value in a row

localVars == <<at, last, seat, open, voice>>
vars == <<resting, lastPersona, pc, localVars, faults, lapses, picks, streak>>

Init ==
  /\ resting = {} /\ lastPersona = None
  /\ pc = [d \in Choosers |-> "last"]
  /\ at = [d \in Choosers |-> 1]
  /\ last = [d \in Choosers |-> None]
  /\ seat = [d \in Choosers |-> 1]
  /\ open = [d \in Choosers |-> {}]
  /\ voice = [d \in Choosers |-> None]
  /\ faults = 0 /\ lapses = 0
  /\ picks = [p \in Personas |-> 0]
  /\ streak = 0

(* normalizeEventTypeForPersona and isPersonaEligibleForEvent. *)
PersonaType(type) == IF type \in {"PENALTY", "OWN_GOAL"} THEN "GOAL" ELSE type
Eligible(p, type) == Allowed[p] = {} \/ PersonaType(type) \in Allowed[p]

(* The seats of the cast whose personas are asked about, in this order. *)
Bench(d)    == {i \in 1 .. Len(Cast) : Eligible(Cast[i], Work[d][at[d]])}
First(i, S) == i \in S /\ \A j \in S : i <= j

(* A Redis command of the step fails. *)
Fault   == faults < MaxFaults /\ faults' = faults + 1
NoFault == UNCHANGED faults

Goto(d, label) == pc' = [pc EXCEPT ![d] = label]

(* SelectPersona has failed: bot replies give up, the other callers go on  *)
(* with SelectPersonaAllowReuse.                                           *)
Failed(d) == Goto(d, IF d \in Replies THEN "end" ELSE "reuse")

---------------------------------------------------------------------------

(* Mutant: the scan begins although nobody is on the bench. *)
GetLastPersonaUnchecked(d) ==
  /\ pc[d] = "last"
  /\ NoFault
  /\ last' = [last EXCEPT ![d] = lastPersona]
  /\ Goto(d, "scan")
  /\ UNCHANGED <<resting, lastPersona, at, seat, open, voice, lapses, picks, streak>>

(* SelectPersona begins with the last speaker; without anybody to ask it   *)
(* falls back at once.                                                     *)
GetLastPersona(d) ==
  /\ pc[d] = "last"
  /\ \/ /\ NoFault
        /\ last' = [last EXCEPT ![d] = lastPersona]
        /\ \/ \E i \in Bench(d) : First(i, Bench(d)) /\ seat' = [seat EXCEPT ![d] = i]
              /\ Goto(d, "scan")
           \/ Bench(d) = {} /\ Goto(d, "fallback") /\ UNCHANGED seat
     \/ Fault /\ Failed(d) /\ UNCHANGED <<last, seat>>
  /\ UNCHANGED <<resting, lastPersona, at, open, voice, lapses, picks, streak>>

(* Mutants: cooldowns ignored; the last speaker not kept out.              *)
CandidatesTireless(d) == {p \in {Cast[seat[d]]} : p # last[d]}
CandidatesAgain(d)    == {p \in {Cast[seat[d]]} : p \notin resting}

Candidates(d) ==
  {p \in {Cast[seat[d]]} : p \notin resting /\ p # last[d]}

(* The eligible personas are asked about one after the other. *)
IsOnCoolDown(d) ==
  LET others == {i \in Bench(d) : i > seat[d]} IN
  /\ pc[d] = "scan"
  /\ \/ /\ NoFault
        /\ open' = [open EXCEPT ![d] = @ \cup Candidates(d)]
        /\ \/ \E i \in others : First(i, others) /\ seat' = [seat EXCEPT ![d] = i]
              /\ UNCHANGED pc
           \/ /\ others = {} /\ seat' = [seat EXCEPT ![d] = 1]
              /\ Goto(d, IF open'[d] = {} THEN "fallback" ELSE "pick")
     \/ /\ Fault /\ Failed(d)
        /\ open' = [open EXCEPT ![d] = {}]
        /\ seat' = [seat EXCEPT ![d] = 1]
  /\ UNCHANGED <<resting, lastPersona, at, last, voice, lapses, picks, streak>>

(* The scores are positive: the weighted pick may fall on any candidate. *)
PickWeightedRandom(d) == open[d]

(* The cooldown of the pick starts now; an error of the SET is dropped. *)
SetCoolDown(d) ==
  /\ pc[d] = "pick"
  /\ \E p \in PickWeightedRandom(d) :
       /\ voice' = [voice EXCEPT ![d] = p]
       /\ picks' = [picks EXCEPT ![p] = @ + 1]
       /\ \/ NoFault /\ resting' = resting \cup {p}
          \/ Fault /\ UNCHANGED resting
  /\ open' = [open EXCEPT ![d] = {}]
  /\ last' = [last EXCEPT ![d] = None]
  /\ Goto(d, "save")
  /\ UNCHANGED <<lastPersona, at, seat, lapses, streak>>

SaveLastPersona(d) ==
  /\ pc[d] = "save"
  /\ \/ /\ NoFault
        /\ lastPersona' = voice[d]
        /\ streak' = IF voice[d] = lastPersona THEN streak + 1 ELSE 1
     \/ Fault /\ UNCHANGED <<lastPersona, streak>>
  /\ Goto(d, "end")
  /\ UNCHANGED <<resting, localVars, lapses, picks>>

(* findFallbackPersona: the first persona of the whole cast that is not    *)
(* resting, whatever its policy and whoever spoke last.  It gets neither a *)
(* cooldown nor the last-speaker key.                                      *)
FallbackFound(d) ==
  /\ pc[d] = "fallback"
  /\ NoFault
  /\ Cast[seat[d]] \notin resting
  /\ voice' = [voice EXCEPT ![d] = Cast[seat[d]]]
  /\ seat' = [seat EXCEPT ![d] = 1]
  /\ Goto(d, "end")
  /\ UNCHANGED <<resting, lastPersona, at, last, open, lapses, picks, streak>>

(* Mutant: the scan starts over until somebody is free. *)
FallbackMissedWaits(d) ==
  /\ pc[d] = "fallback"
  /\ NoFault /\ Cast[seat[d]] \in resting
  /\ seat' = [seat EXCEPT ![d] = (@ % Len(Cast)) + 1]
  /\ UNCHANGED <<resting, lastPersona, pc, at, last, open, voice, lapses, picks, streak>>

FallbackMissed(d) ==
  /\ pc[d] = "fallback"
  /\ \/ NoFault /\ Cast[seat[d]] \in resting
     \/ Fault
  /\ IF seat[d] < Len(Cast)
     THEN seat' = [seat EXCEPT ![d] = @ + 1] /\ UNCHANGED pc
     ELSE seat' = [seat EXCEPT ![d] = 1] /\ Failed(d)
  /\ UNCHANGED <<resting, lastPersona, at, last, open, voice, lapses, picks, streak>>

(* SelectPersonaAllowReuse asks nothing of Redis: any persona the policy   *)
(* allows will do, resting or not.  Without one the item goes unheard.     *)
SelectPersonaAllowReuse(d) ==
  /\ pc[d] = "reuse"
  /\ \/ \E i \in Bench(d) : voice' = [voice EXCEPT ![d] = Cast[i]]
     \/ Bench(d) = {} /\ UNCHANGED voice
  /\ Goto(d, "end")
  /\ UNCHANGED <<resting, lastPersona, at, last, seat, open, faults, lapses, picks, streak>>

(* The caller speaks, or not, and comes back with its next item. *)
NextItem(d) ==
  /\ pc[d] = "end"
  /\ at' = [at EXCEPT ![d] = @ + 1]
  /\ last' = [last EXCEPT ![d] = None]
  /\ voice' = [voice EXCEPT ![d] = None]
  /\ Goto(d, IF at[d] < Len(Work[d]) THEN "last" ELSE "done")
  /\ UNCHANGED <<resting, lastPersona, seat, open, faults, lapses, picks, streak>>

CooldownLapses(p) ==
  /\ lapses < MaxLapses /\ p \in resting
  /\ lapses' = lapses + 1
  /\ resting' = resting \ {p}
  /\ picks' = [picks EXCEPT ![p] = 0]
  /\ UNCHANGED <<lastPersona, pc, localVars, faults, streak>>

Choose(d) ==
  \/ GetLastPersona(d) \/ IsOnCoolDown(d) \/ SetCoolDown(d) \/ SaveLastPersona(d)
  \/ FallbackFound(d) \/ FallbackMissed(d) \/ SelectPersonaAllowReuse(d) \/ NextItem(d)

Next ==
  \/ \E d \in Choosers : Choose(d)
  \/ \E p \in Personas : CooldownLapses(p)

Spec == Init /\ [][Next]_vars

(* Goroutines run. *)
FairSpec == Spec /\ \A d \in Choosers : WF_vars(Choose(d))

---------------------------------------------------------------------------
(* Properties. *)

Labels == {"last", "scan", "pick", "save", "fallback", "reuse", "end", "done"}

(* Types; who scans has somebody to ask about, who picks has a candidate   *)
(* and who saves has a voice.                                              *)
CastingTypeOK ==
  /\ resting \subseteq Personas /\ lastPersona \in Personas \cup {None}
  /\ pc \in [Choosers -> Labels]
  /\ last \in [Choosers -> Personas \cup {None}]
  /\ open \in [Choosers -> SUBSET Personas]
  /\ voice \in [Choosers -> Personas \cup {None}]
  /\ faults \in 0 .. MaxFaults /\ lapses \in 0 .. MaxLapses
  /\ picks \in [Personas -> Nat]
  /\ streak \in Nat /\ at \in [Choosers -> Nat \ {0}]
  /\ seat \in [Choosers -> 1 .. Len(Cast)]
  /\ \A d \in Choosers :
       /\ at[d] <= Len(Work[d]) + 1
       /\ pc[d] # "done" => at[d] <= Len(Work[d])
       /\ pc[d] = "scan" => seat[d] \in Bench(d)
       /\ pc[d] = "pick" <=> open[d] # {} /\ pc[d] # "scan"
       /\ pc[d] = "save" => voice[d] # None

(* In one cooldown a persona is picked at most once by each chooser - they *)
(* may all have seen it free before the first one set the key - and once   *)
(* more for each command that failed.                                      *)
PersonaRests == \A p \in Personas : picks[p] <= Cardinality(Choosers) + faults

(* Speakers rotate even when every cooldown is over: the last-speaker key  *)
(* takes one and the same persona at most once from each chooser in a row, *)
(* from those that read the key before it named that persona.              *)
SpeakersRotate == streak <= Cardinality(Choosers)

(* Everybody gets through: with all personas resting, with reads failing   *)
(* and with others choosing, nobody waits for a persona to come free.      *)
ChoicesEnd == <>(\A d \in Choosers : pc[d] = "done")
===========================================================================
