-------------------------- MODULE Casting_proofs --------------------------
(* Theorems about Casting, for any choosers, work, cast and policies. *)
EXTENDS Casting, FiniteSetTheorems, TLAPS

(* Whoever sits in the cast is a persona, and the first seat is one. *)
LEMMA Seats ==
  /\ \A i \in 1 .. Len(Cast) : Cast[i] \in Personas
  /\ Len(Cast) \in Nat /\ 1 \in 1 .. Len(Cast)
BY CastingAssumption DEF Personas

LEMMA WorkLengths == \A d \in Choosers : Len(Work[d]) \in Nat \ {0}
BY CastingAssumption

LEMMA ChoosersCounted ==
  /\ Cardinality(Choosers) \in Nat
  /\ \A S \in SUBSET Choosers :
       /\ IsFiniteSet(S) /\ Cardinality(S) \in Nat
       /\ Cardinality(S) <= Cardinality(Choosers)
BY CastingAssumption, FS_Subset, FS_CardinalityType

---------------------------------------------------------------------------
(* Type correctness, one step per action. *)

LEMMA CastingTypeInit == Init => CastingTypeOK
BY Seats, WorkLengths, CastingAssumption
   DEF Init, CastingTypeOK, Labels

LEMMA CastingTypeStep == CastingTypeOK /\ [Next]_vars => CastingTypeOK'
<1> SUFFICES ASSUME CastingTypeOK, [Next]_vars PROVE CastingTypeOK'
  OBVIOUS
<1> USE Seats, WorkLengths DEF CastingTypeOK, Goto, NoFault, localVars
<1>f. Fault => faults' \in 0 .. MaxFaults
  BY CastingAssumption DEF Fault
<1>g. \A d \in Choosers : Failed(d) => pc' \in [Choosers -> Labels]
  BY DEF Failed, Labels
<1>b. \A d \in Choosers : Bench(d) \subseteq 1 .. Len(Cast)
  BY DEF Bench
<1>c. at' = at => \A d \in Choosers : Bench(d)' = Bench(d)
  BY DEF Bench
<1>1. ASSUME NEW d \in Choosers, GetLastPersona(d) PROVE CastingTypeOK'
  <2>1. pc' \in [Choosers -> Labels]
    BY <1>1, <1>g DEF GetLastPersona, Labels
  <2>f. faults' \in 0 .. MaxFaults
    BY <1>1, <1>f DEF GetLastPersona
  <2>l. last' \in [Choosers -> Personas \cup {None}]
    <3>1. last' = last \/ last' = [last EXCEPT ![d] = lastPersona]
      BY <1>1 DEF GetLastPersona
    <3> QED
      BY <3>1
  <2>s. seat' \in [Choosers -> 1 .. Len(Cast)]
    <3>1. seat' = seat \/ \E i \in Bench(d) : seat' = [seat EXCEPT ![d] = i]
      BY <1>1 DEF GetLastPersona
    <3> QED
      BY <1>b, <3>1
  <2>2. \A e \in Choosers : pc'[e] = "scan" => seat'[e] \in Bench(e)
    BY <1>1 DEF GetLastPersona, Failed
  <2>3. \A e \in Choosers : pc'[e] = "pick" <=> pc[e] = "pick"
    BY <1>1 DEF GetLastPersona, Failed
  <2>4. \A e \in Choosers : e # d => pc'[e] = pc[e]
    BY <1>1 DEF GetLastPersona, Failed
  <2>5. pc[d] = "last" /\ pc'[d] \in {"scan", "fallback", "reuse", "end"}
    BY <1>1 DEF GetLastPersona, Failed
  <2>6. UNCHANGED <<resting, lastPersona, at, open, voice, lapses, picks, streak>>
    BY <1>1 DEF GetLastPersona
  <2>7. \A e \in Choosers :
          /\ pc'[e] # "done" => at'[e] <= Len(Work[e])
          /\ pc'[e] = "pick" <=> open'[e] # {} /\ pc'[e] # "scan"
          /\ pc'[e] = "save" => voice'[e] # None
    BY <2>4, <2>5, <2>6
  <2> QED
    BY <1>c, <2>1, <2>f, <2>l, <2>s, <2>2, <2>6, <2>7
<1>2. ASSUME NEW d \in Choosers, IsOnCoolDown(d) PROVE CastingTypeOK'
  <2>1. Candidates(d) \subseteq Personas
    BY DEF Candidates
  <2>2. pc' \in [Choosers -> Labels]
    BY <1>2, <1>g DEF IsOnCoolDown, Labels
  <2>f. faults' \in 0 .. MaxFaults
    BY <1>2, <1>f DEF IsOnCoolDown
  <2>o. open' \in [Choosers -> SUBSET Personas]
    <3>1. open[d] \cup Candidates(d) \in SUBSET Personas
      BY <2>1
    <3> QED
      BY <1>2, <3>1 DEF IsOnCoolDown
  <2>s. seat' \in [Choosers -> 1 .. Len(Cast)]
    <3>1. seat' = [seat EXCEPT ![d] = 1] \/ \E i \in Bench(d) : seat' = [seat EXCEPT ![d] = i]
      BY <1>2 DEF IsOnCoolDown
    <3> QED
      BY <1>b, <3>1
  <2>3. \A e \in Choosers : pc'[e] = "scan" => seat'[e] \in Bench(e)
    BY <1>2 DEF IsOnCoolDown, Failed, First
  <2>4. \A e \in Choosers : e # d => pc'[e] = pc[e] /\ open'[e] = open[e]
    BY <1>2 DEF IsOnCoolDown, Failed
  <2>5. /\ pc[d] = "scan" /\ pc'[d] \in {"scan", "pick", "fallback", "reuse", "end"}
        /\ pc'[d] = "pick" <=> open'[d] # {} /\ pc'[d] # "scan"
    BY <1>2 DEF IsOnCoolDown, Failed
  <2>6. UNCHANGED <<resting, lastPersona, at, last, voice, lapses, picks, streak>>
    BY <1>2 DEF IsOnCoolDown
  <2>7. \A e \in Choosers :
          /\ pc'[e] # "done" => at'[e] <= Len(Work[e])
          /\ pc'[e] = "pick" <=> open'[e] # {} /\ pc'[e] # "scan"
          /\ pc'[e] = "save" => voice'[e] # None
    BY <2>4, <2>5, <2>6
  <2> QED
    BY <1>c, <2>2, <2>f, <2>o, <2>s, <2>3, <2>6, <2>7
<1>3. ASSUME NEW d \in Choosers, SetCoolDown(d) PROVE CastingTypeOK'
  <2>1. PICK p \in open[d] :
          /\ voice' = [voice EXCEPT ![d] = p]
          /\ picks' = [picks EXCEPT ![p] = @ + 1]
          /\ (NoFault /\ resting' = resting \cup {p}) \/ (Fault /\ UNCHANGED resting)
    BY <1>3 DEF SetCoolDown, PickWeightedRandom
  <2>2. p \in Personas /\ p # None
    BY CastingAssumption
  <2>3. /\ resting' \subseteq Personas /\ picks' \in [Personas -> Nat]
        /\ voice' \in [Choosers -> Personas \cup {None}]
    BY <2>1, <2>2
  <2>4. faults' \in 0 .. MaxFaults
    BY <2>1, <1>f
  <2>5. /\ pc' = [pc EXCEPT ![d] = "save"] /\ pc[d] = "pick"
        /\ open' = [open EXCEPT ![d] = {}] /\ last' = [last EXCEPT ![d] = None]
        /\ UNCHANGED <<lastPersona, at, seat, lapses, streak>>
    BY <1>3 DEF SetCoolDown
  <2> QED
    BY <2>1, <2>2, <2>3, <2>4, <2>5, <1>c DEF Labels
<1>4. ASSUME NEW d \in Choosers, SaveLastPersona(d) PROVE CastingTypeOK'
  <2>1. pc[d] = "save" /\ voice[d] \in Personas
    BY <1>4 DEF SaveLastPersona
  <2>2. /\ lastPersona' \in Personas \cup {None} /\ streak' \in Nat
        /\ faults' \in 0 .. MaxFaults
    BY <1>4, <1>f, <2>1 DEF SaveLastPersona
  <2>3. pc' = [pc EXCEPT ![d] = "end"]
        /\ UNCHANGED <<resting, at, seat, last, open, voice, lapses, picks>>
    BY <1>4 DEF SaveLastPersona
  <2>4. pc' \in [Choosers -> Labels]
    BY <2>3 DEF Labels
  <2>5. \A e \in Choosers :
          /\ pc'[e] # "done" => at'[e] <= Len(Work[e])
          /\ pc'[e] = "scan" => seat'[e] \in Bench(e)
          /\ pc'[e] = "pick" <=> open'[e] # {} /\ pc'[e] # "scan"
          /\ pc'[e] = "save" => voice'[e] # None
    BY <2>1, <2>3
  <2> QED
    BY <1>c, <2>2, <2>3, <2>4, <2>5
<1>5. ASSUME NEW d \in Choosers, FallbackFound(d) PROVE CastingTypeOK'
  <2>1. Cast[seat[d]] \in Personas
    OBVIOUS
  <2> QED
    BY <1>5, <2>1 DEF FallbackFound, Labels, Bench
<1>6. ASSUME NEW d \in Choosers, FallbackMissed(d) PROVE CastingTypeOK'
  <2>1. pc' \in [Choosers -> Labels]
    BY <1>6, <1>g DEF FallbackMissed
  <2>f. faults' \in 0 .. MaxFaults
    BY <1>6, <1>f DEF FallbackMissed
  <2>s. seat' \in [Choosers -> 1 .. Len(Cast)]
    <3>1. 1 \in 1 .. Len(Cast) /\ (seat[d] < Len(Cast) => seat[d] + 1 \in 1 .. Len(Cast))
      OBVIOUS
    <3>2. CASE seat[d] < Len(Cast)
      BY <1>6, <3>1, <3>2 DEF FallbackMissed
    <3>3. CASE ~(seat[d] < Len(Cast))
      BY <1>6, <3>1, <3>3 DEF FallbackMissed
    <3> QED
      BY <3>2, <3>3
  <2>2. \A e \in Choosers : e # d => pc'[e] = pc[e] /\ seat'[e] = seat[e]
    BY <1>6 DEF FallbackMissed, Failed
  <2>3. pc[d] = "fallback" /\ pc'[d] \in {"fallback", "reuse", "end"}
    BY <1>6 DEF FallbackMissed, Failed
  <2>4. UNCHANGED <<resting, lastPersona, at, last, open, voice, lapses, picks, streak>>
    BY <1>6 DEF FallbackMissed
  <2> QED
    BY <1>c, <2>1, <2>f, <2>s, <2>2, <2>3, <2>4
<1>7. ASSUME NEW d \in Choosers, SelectPersonaAllowReuse(d) PROVE CastingTypeOK'
  BY <1>7 DEF SelectPersonaAllowReuse, Labels, Bench
<1>8. ASSUME NEW d \in Choosers, NextItem(d) PROVE CastingTypeOK'
  <2>1. /\ pc' \in [Choosers -> Labels] /\ at' \in [Choosers -> Nat \ {0}]
        /\ last' \in [Choosers -> Personas \cup {None}]
        /\ voice' \in [Choosers -> Personas \cup {None}]
    BY <1>8 DEF NextItem, Labels
  <2>2. \A e \in Choosers : e # d => /\ pc'[e] = pc[e] /\ at'[e] = at[e]
                                     /\ voice'[e] = voice[e]
    BY <1>8 DEF NextItem
  <2>3. /\ pc[d] = "end" /\ pc'[d] \in {"last", "done"}
        /\ at'[d] = at[d] + 1
        /\ pc'[d] # "done" => at[d] < Len(Work[d])
    BY <1>8 DEF NextItem
  <2>4. \A e \in Choosers : pc'[e] = "scan" => seat'[e] \in Bench(e)'
    BY <1>8, <2>2, <2>3 DEF NextItem, Bench
  <2>5. UNCHANGED <<resting, lastPersona, seat, open, faults, lapses, picks, streak>>
    BY <1>8 DEF NextItem
  <2>6. \A e \in Choosers :
          /\ at'[e] <= Len(Work[e]) + 1
          /\ pc'[e] # "done" => at'[e] <= Len(Work[e])
          /\ pc'[e] = "pick" <=> open'[e] # {} /\ pc'[e] # "scan"
          /\ pc'[e] = "save" => voice'[e] # None
    <3>1. ASSUME NEW e \in Choosers, e # d
          PROVE  pc'[e] = pc[e] /\ at'[e] = at[e] /\ voice'[e] = voice[e] /\ open'[e] = open[e]
      BY <3>1, <2>2, <2>5
    <3>2. open'[d] = {}
      BY <2>3, <2>5
    <3>3. /\ at'[d] <= Len(Work[d]) + 1
          /\ pc'[d] # "done" => at'[d] <= Len(Work[d])
      <4>1. at[d] \in Nat /\ Len(Work[d]) \in Nat /\ at[d] <= Len(Work[d])
        BY <2>3
      <4> QED
        BY <2>3, <4>1
    <3>4. pc'[d] # "pick" /\ pc'[d] # "save"
      BY <2>3
    <3> SUFFICES ASSUME NEW e \in Choosers
                 PROVE  /\ at'[e] <= Len(Work[e]) + 1
                        /\ pc'[e] # "done" => at'[e] <= Len(Work[e])
                        /\ pc'[e] = "pick" <=> open'[e] # {} /\ pc'[e] # "scan"
                        /\ pc'[e] = "save" => voice'[e] # None
      OBVIOUS
    <3>5. CASE e = d
      BY <3>2, <3>3, <3>4, <3>5
    <3> QED
      BY <3>1, <3>5
  <2> QED
    BY <2>1, <2>4, <2>5, <2>6
<1>9. ASSUME NEW p \in Personas, CooldownLapses(p) PROVE CastingTypeOK'
  BY <1>9, CastingAssumption DEF CooldownLapses, Bench
<1>10. CASE UNCHANGED vars
  BY <1>10, <1>c DEF vars
<1> QED
  BY <1>1, <1>2, <1>3, <1>4, <1>5, <1>6, <1>7, <1>8, <1>9, <1>10 DEF Next, Choose

(* The types hold, whoever sits in the cast and whatever is chosen for:    *)
(* nobody scans an empty bench, picks from no candidates or saves nobody.  *)
THEOREM CastingTyping == Spec => []CastingTypeOK
BY CastingTypeInit, CastingTypeStep, PTL DEF Spec
---------------------------------------------------------------------------
(* PersonaRests.  Who holds a resting persona among its candidates may     *)
(* still pick it; nobody new comes to hold it while it rests, so the picks *)
(* of one cooldown and those still to come never exceed the choosers.  A   *)
(* pick whose SET failed leaves the persona free, and is paid for by the   *)
(* fault.                                                                  *)

Holders(p) == {d \in Choosers : p \in open[d]}

Rests ==
  \A p \in Personas :
    IF p \in resting THEN picks[p] + Cardinality(Holders(p)) <= Cardinality(Choosers) + faults
                     ELSE picks[p] <= faults

(* A step that fails counts, one that does not leaves the count alone. *)
LEMMA FaultsGrow ==
  ASSUME CastingTypeOK, [Next]_vars
  PROVE  faults \in Nat /\ faults' \in Nat /\ faults' >= faults
<1>1. faults \in Nat
  BY CastingAssumption DEF CastingTypeOK
<1>2. Fault \/ NoFault
  BY DEF Next, Choose, vars, GetLastPersona, IsOnCoolDown, SetCoolDown, SaveLastPersona,
         FallbackFound, FallbackMissed, SelectPersonaAllowReuse, NextItem, CooldownLapses,
         NoFault
<1>3. faults' = faults \/ faults' = faults + 1
  BY <1>2 DEF Fault, NoFault
<1> QED
  BY <1>1, <1>3

(* Where neither picks nor keys change and nobody new holds a persona that *)
(* rests, the bound is kept.                                               *)
LEMMA RestsKept ==
  ASSUME CastingTypeOK, CastingTypeOK', Rests, faults' >= faults,
         UNCHANGED <<resting, picks>>,
         \A p \in resting : Holders(p)' \subseteq Holders(p)
  PROVE  Rests'
<1> SUFFICES ASSUME NEW p \in Personas
             PROVE  IF p \in resting THEN picks[p] + Cardinality(Holders(p)') <= Cardinality(Choosers) + faults'
                                     ELSE picks[p] <= faults'
  BY DEF Rests
<1>1. picks[p] \in Nat /\ faults \in Nat /\ faults' \in Nat
  BY CastingAssumption DEF CastingTypeOK
<1>2. CASE p \in resting
  <2>1. Holders(p)' \subseteq Holders(p) /\ Holders(p) \subseteq Choosers
    BY <1>2 DEF Holders
  <2>2. /\ Cardinality(Holders(p)') <= Cardinality(Holders(p))
        /\ Cardinality(Holders(p)) \in Nat /\ Cardinality(Holders(p)') \in Nat
    BY <2>1, ChoosersCounted, FS_Subset, FS_CardinalityType
  <2>3. picks[p] + Cardinality(Holders(p)) <= Cardinality(Choosers) + faults
    BY <1>2 DEF Rests
  <2> QED
    BY <1>1, <1>2, <2>2, <2>3, ChoosersCounted
<1>3. CASE p \notin resting
  BY <1>1, <1>3 DEF Rests
<1> QED
  BY <1>2, <1>3

(* The pick itself: the chooser no longer holds anybody. *)
LEMMA RestsPicked ==
  ASSUME CastingTypeOK, CastingTypeOK', Rests, faults' >= faults,
         NEW d \in Choosers, SetCoolDown(d)
  PROVE  Rests'
<1>1. PICK q \in open[d] :
        /\ picks' = [picks EXCEPT ![q] = @ + 1]
        /\ (NoFault /\ resting' = resting \cup {q}) \/ (Fault /\ UNCHANGED resting)
  BY DEF SetCoolDown, PickWeightedRandom
<1>2. open' = [open EXCEPT ![d] = {}]
  BY DEF SetCoolDown
<1>3. q \in Personas /\ picks \in [Personas -> Nat] /\ faults \in Nat /\ faults' \in Nat
  BY CastingAssumption DEF CastingTypeOK
<1>4. \A p \in Personas : Holders(p)' = Holders(p) \ {d}
  BY <1>2 DEF Holders, CastingTypeOK
<1> SUFFICES ASSUME NEW p \in Personas
             PROVE  IF p \in resting' THEN picks'[p] + Cardinality(Holders(p)') <= Cardinality(Choosers) + faults'
                                      ELSE picks'[p] <= faults'
  BY DEF Rests
<1> DEFINE held == Cardinality(Holders(p))
           left == Cardinality(Holders(p)')
           all  == Cardinality(Choosers)
<1>5. /\ held \in Nat /\ left \in Nat /\ all \in Nat /\ held <= all
      /\ left = IF d \in Holders(p) THEN held - 1 ELSE held
  <2>1. Holders(p) \subseteq Choosers
    BY DEF Holders
  <2> QED
    BY <1>4, <2>1, ChoosersCounted, FS_RemoveElement, FS_CardinalityType
<1>6. left <= all - 1
  <2>1. Holders(p)' \subseteq Choosers \ {d} /\ IsFiniteSet(Choosers \ {d})
    BY <1>4, CastingAssumption, FS_RemoveElement DEF Holders
  <2>2. Cardinality(Choosers \ {d}) = all - 1
    BY CastingAssumption, FS_RemoveElement
  <2> QED
    BY <2>1, <2>2, FS_Subset
<1>7. /\ p \in resting => picks[p] + held <= all + faults
      /\ p \notin resting => picks[p] <= faults
  BY DEF Rests
<1>8. picks[p] \in Nat
  BY <1>3
<1> HIDE DEF held, left, all
<1>9. CASE p # q
  <2>1. picks'[p] = picks[p] /\ (p \in resting' <=> p \in resting)
    BY <1>1, <1>3, <1>9
  <2> QED
    BY <1>3, <1>5, <1>7, <1>8, <2>1 DEF left, all
<1>10. CASE p = q
  <2>1. picks'[p] = picks[p] + 1
    BY <1>1, <1>3, <1>10
  <2>2. left = held - 1
    BY <1>5, <1>10, <1>1 DEF Holders
  <2>3. CASE NoFault /\ resting' = resting \cup {q}
    <3>1. p \in resting' /\ faults' = faults
      BY <2>3, <1>10 DEF NoFault
    <3>2. picks'[p] + left <= all + faults'
      BY <3>1, <2>1, <2>2, <1>3, <1>5, <1>6, <1>7, <1>8
    <3> QED
      BY <3>1, <3>2 DEF left, all
  <2>4. CASE Fault /\ UNCHANGED resting
    <3>1. faults' = faults + 1 /\ (p \in resting' <=> p \in resting)
      BY <2>4 DEF Fault
    <3>2. p \in resting => picks'[p] + left <= all + faults'
      BY <3>1, <2>1, <2>2, <1>3, <1>5, <1>7, <1>8
    <3>3. p \notin resting => picks'[p] <= faults'
      BY <3>1, <2>1, <1>3, <1>7, <1>8
    <3> QED
      BY <3>1, <3>2, <3>3 DEF left, all
  <2> QED
    BY <1>1, <2>3, <2>4
<1> QED
  BY <1>9, <1>10

LEMMA RestsInit == Init => Rests
BY CastingAssumption DEF Init, Rests

LEMMA RestsStep ==
  CastingTypeOK /\ CastingTypeOK' /\ Rests /\ [Next]_vars => Rests'
<1> SUFFICES ASSUME CastingTypeOK, CastingTypeOK', Rests, [Next]_vars PROVE Rests'
  OBVIOUS
<1> USE FaultsGrow
<1>1. ASSUME NEW d \in Choosers, GetLastPersona(d) PROVE Rests'
  BY <1>1, RestsKept DEF GetLastPersona, Holders
<1>2. ASSUME NEW d \in Choosers, IsOnCoolDown(d) PROVE Rests'
  <2>1. open'[d] \subseteq open[d] \cup Candidates(d)
    BY <1>2 DEF IsOnCoolDown, CastingTypeOK
  <2>2. \A e \in Choosers : e # d => open'[e] = open[e]
    BY <1>2 DEF IsOnCoolDown, CastingTypeOK
  <2>3. Candidates(d) \cap resting = {}
    BY DEF Candidates
  <2>4. \A p \in resting : Holders(p)' \subseteq Holders(p)
    BY <2>1, <2>2, <2>3 DEF Holders
  <2> QED
    BY <1>2, <2>4, RestsKept DEF IsOnCoolDown
<1>3. ASSUME NEW d \in Choosers, SetCoolDown(d) PROVE Rests'
  BY <1>3, RestsPicked
<1>4. ASSUME NEW d \in Choosers, SaveLastPersona(d) PROVE Rests'
  BY <1>4, RestsKept DEF SaveLastPersona, Holders, localVars
<1>5. ASSUME NEW d \in Choosers, FallbackFound(d) PROVE Rests'
  BY <1>5, RestsKept DEF FallbackFound, Holders
<1>6. ASSUME NEW d \in Choosers, FallbackMissed(d) PROVE Rests'
  BY <1>6, RestsKept DEF FallbackMissed, Holders
<1>7. ASSUME NEW d \in Choosers, SelectPersonaAllowReuse(d) PROVE Rests'
  BY <1>7, RestsKept DEF SelectPersonaAllowReuse, Holders
<1>8. ASSUME NEW d \in Choosers, NextItem(d) PROVE Rests'
  BY <1>8, RestsKept DEF NextItem, Holders
<1>9. ASSUME NEW p \in Personas, CooldownLapses(p) PROVE Rests'
  <2>1. /\ resting' = resting \ {p} /\ picks' = [picks EXCEPT ![p] = 0]
        /\ UNCHANGED <<open, faults>> /\ p \in resting
    BY <1>9 DEF CooldownLapses, localVars
  <2>2. picks \in [Personas -> Nat] /\ faults \in Nat
    BY CastingAssumption DEF CastingTypeOK
  <2> QED
    BY <2>1, <2>2 DEF Rests, Holders
<1>10. CASE UNCHANGED vars
  BY <1>10, RestsKept DEF vars, localVars, Holders
<1> QED
  BY <1>1, <1>2, <1>3, <1>4, <1>5, <1>6, <1>7, <1>8, <1>9, <1>10 DEF Next, Choose

LEMMA RestsBound == CastingTypeOK /\ Rests => PersonaRests
<1> SUFFICES ASSUME CastingTypeOK, Rests, NEW p \in Personas
             PROVE  picks[p] <= Cardinality(Choosers) + faults
  BY DEF PersonaRests
<1>1. picks[p] \in Nat /\ faults \in Nat
  BY CastingAssumption DEF CastingTypeOK
<1>2. Cardinality(Holders(p)) \in Nat
  BY ChoosersCounted DEF Holders
<1> QED
  BY <1>1, <1>2, ChoosersCounted DEF Rests

(* However many choosers overlap and however many commands fail, within    *)
(* one cooldown a persona is picked at most once by each chooser and once  *)
(* for each fault.                                                         *)
THEOREM RestBounded == Spec => []PersonaRests
<1>1. Init => CastingTypeOK /\ Rests
  BY CastingTypeInit, RestsInit
<1>2. CastingTypeOK /\ Rests /\ [Next]_vars => (CastingTypeOK /\ Rests)'
  BY CastingTypeStep, RestsStep
<1>3. CastingTypeOK /\ Rests => PersonaRests
  BY RestsBound
<1> QED
  BY <1>1, <1>2, <1>3, PTL DEF Spec

---------------------------------------------------------------------------
(* SpeakersRotate.  Only a chooser that read another last speaker before   *)
(* can still write the one the key names now, and each does so once.       *)

Behind ==
  {d \in Choosers : \/ pc[d] \in {"scan", "pick"} /\ last[d] # lastPersona
                    \/ pc[d] = "save" /\ voice[d] = lastPersona}

Rotation ==
  /\ \A d \in Choosers : last[d] \notin open[d] \/ pc[d] \notin {"scan", "pick"}
  /\ streak + Cardinality(Behind) <= Cardinality(Choosers)

LEMMA RotationInit == Init => Rotation
<1> SUFFICES ASSUME Init PROVE Rotation
  OBVIOUS
<1>1. Behind = {}
  BY DEF Init, Behind
<1> QED
  BY <1>1, FS_EmptySet, ChoosersCounted DEF Init, Rotation

(* While the key and the streak stay, it is enough that nobody falls       *)
(* behind.                                                                 *)
LEMMA RotationKept ==
  ASSUME CastingTypeOK, Rotation, UNCHANGED streak, Behind' \subseteq Behind,
         \A d \in Choosers : last'[d] \notin open'[d] \/ pc'[d] \notin {"scan", "pick"}
  PROVE  Rotation'
<1>1. Behind \subseteq Choosers
  BY DEF Behind
<1>2. /\ Cardinality(Behind') <= Cardinality(Behind)
      /\ Cardinality(Behind) \in Nat /\ Cardinality(Behind') \in Nat
  BY <1>1, ChoosersCounted, FS_Subset, FS_CardinalityType
<1>3. streak \in Nat
  BY DEF CastingTypeOK
<1> QED
  BY <1>2, <1>3, ChoosersCounted DEF Rotation

(* The write takes its chooser out of those behind, and puts all others    *)
(* behind when the speaker changes.                                        *)
LEMMA RotationSaved ==
  ASSUME CastingTypeOK, Rotation, NEW d \in Choosers, SaveLastPersona(d)
  PROVE  Rotation'
<1>1. pc[d] = "save" /\ pc' = [pc EXCEPT ![d] = "end"] /\ UNCHANGED <<last, open, voice>>
  BY DEF SaveLastPersona, Goto, localVars
<1>2. \A e \in Choosers : last'[e] \notin open'[e] \/ pc'[e] \notin {"scan", "pick"}
  BY <1>1 DEF Rotation, CastingTypeOK
<1>3. Behind \subseteq Choosers /\ Behind' \subseteq Choosers \ {d} /\ IsFiniteSet(Behind)
  BY <1>1, ChoosersCounted DEF Behind, CastingTypeOK
<1>4. streak \in Nat /\ Cardinality(Behind) \in Nat
  BY <1>3, ChoosersCounted DEF CastingTypeOK
<1>5. CASE UNCHANGED <<lastPersona, streak>>
  <2>1. Behind' \subseteq Behind
    BY <1>1, <1>5 DEF Behind, CastingTypeOK
  <2> QED
    BY <1>2, <1>5, <2>1, RotationKept
<1>6. CASE lastPersona' = voice[d] /\ voice[d] = lastPersona /\ streak' = streak + 1
  <2>1. Behind' = Behind \ {d} /\ d \in Behind
    BY <1>1, <1>6 DEF Behind, CastingTypeOK
  <2>2. Cardinality(Behind') = Cardinality(Behind) - 1
    BY <1>3, <2>1, FS_RemoveElement
  <2> QED
    BY <1>2, <1>4, <1>6, <2>2, ChoosersCounted DEF Rotation
<1>7. CASE streak' = 1
  <2>1. /\ IsFiniteSet(Choosers \ {d})
        /\ Cardinality(Choosers \ {d}) = Cardinality(Choosers) - 1
    BY CastingAssumption, FS_RemoveElement
  <2>2. Cardinality(Behind') <= Cardinality(Choosers) - 1 /\ Cardinality(Behind') \in Nat
    BY <1>3, <2>1, FS_Subset, FS_CardinalityType
  <2> QED
    BY <1>2, <1>7, <2>2, ChoosersCounted DEF Rotation
<1> QED
  BY <1>5, <1>6, <1>7 DEF SaveLastPersona

LEMMA RotationStep == CastingTypeOK /\ Rotation /\ [Next]_vars => Rotation'
<1> SUFFICES ASSUME CastingTypeOK, Rotation, [Next]_vars PROVE Rotation'
  OBVIOUS
<1> USE DEF Goto
(* The step of chooser d keeps the rotation when the key stays, nobody     *)
(* else is touched, and d is not newly behind.                             *)
<1> DEFINE Others(d) ==
             /\ UNCHANGED <<lastPersona, streak>>
             /\ \A e \in Choosers : e # d =>
                  /\ pc'[e] = pc[e] /\ last'[e] = last[e]
                  /\ open'[e] = open[e] /\ voice'[e] = voice[e]
<1>k. ASSUME NEW d \in Choosers, Others(d), d \in Behind' => d \in Behind,
             last'[d] \notin open'[d] \/ pc'[d] \notin {"scan", "pick"}
      PROVE  Rotation'
  <2>1. Behind' \subseteq Behind
    BY <1>k DEF Behind
  <2>2. \A e \in Choosers : last'[e] \notin open'[e] \/ pc'[e] \notin {"scan", "pick"}
    BY <1>k DEF Rotation
  <2> QED
    BY <1>k, <2>1, <2>2, RotationKept
<1>1. ASSUME NEW d \in Choosers, GetLastPersona(d) PROVE Rotation'
  <2>1. Others(d)
    BY <1>1 DEF GetLastPersona, Failed, CastingTypeOK
  <2>2. pc'[d] = "scan" => last'[d] = lastPersona /\ open'[d] = {}
    BY <1>1 DEF GetLastPersona, Failed, CastingTypeOK
  <2>3. pc'[d] \in {"scan", "fallback", "reuse", "end"}
    BY <1>1 DEF GetLastPersona, Failed, CastingTypeOK
  <2> QED
    BY <1>k, <2>1, <2>2, <2>3 DEF Behind
<1>2. ASSUME NEW d \in Choosers, IsOnCoolDown(d) PROVE Rotation'
  <2>1. Others(d)
    BY <1>2 DEF IsOnCoolDown, Failed, CastingTypeOK
  <2>2. /\ pc[d] = "scan" /\ pc'[d] \in {"scan", "pick", "fallback", "reuse", "end"}
        /\ last'[d] = last[d] /\ open'[d] \subseteq open[d] \cup Candidates(d)
    BY <1>2 DEF IsOnCoolDown, Failed, CastingTypeOK
  <2>3. last[d] \notin Candidates(d) /\ last[d] \notin open[d]
    BY <2>2 DEF Candidates, Rotation
  <2> QED
    BY <1>k, <2>1, <2>2, <2>3 DEF Behind
<1>3. ASSUME NEW d \in Choosers, SetCoolDown(d) PROVE Rotation'
  <2>1. Others(d)
    BY <1>3 DEF SetCoolDown, CastingTypeOK
  <2>2. pc[d] = "pick" /\ pc'[d] = "save" /\ voice'[d] \in open[d]
    BY <1>3 DEF SetCoolDown, PickWeightedRandom, CastingTypeOK
  <2>3. last[d] # voice'[d]
    BY <2>2 DEF Rotation
  <2> QED
    BY <1>k, <2>1, <2>2, <2>3 DEF Behind
<1>4. ASSUME NEW d \in Choosers, SaveLastPersona(d) PROVE Rotation'
  BY <1>4, RotationSaved
<1>5. ASSUME NEW d \in Choosers, FallbackFound(d) PROVE Rotation'
  <2>1. Others(d) /\ pc'[d] = "end"
    BY <1>5 DEF FallbackFound, CastingTypeOK
  <2> QED
    BY <1>k, <2>1 DEF Behind
<1>6. ASSUME NEW d \in Choosers, FallbackMissed(d) PROVE Rotation'
  <2>1. Others(d) /\ pc'[d] \in {"fallback", "reuse", "end"}
    BY <1>6 DEF FallbackMissed, Failed, CastingTypeOK
  <2> QED
    BY <1>k, <2>1 DEF Behind
<1>7. ASSUME NEW d \in Choosers, SelectPersonaAllowReuse(d) PROVE Rotation'
  <2>1. Others(d) /\ pc'[d] = "end"
    BY <1>7 DEF SelectPersonaAllowReuse, CastingTypeOK
  <2> QED
    BY <1>k, <2>1 DEF Behind
<1>8. ASSUME NEW d \in Choosers, NextItem(d) PROVE Rotation'
  <2>1. Others(d) /\ pc'[d] \in {"last", "done"}
    BY <1>8 DEF NextItem, CastingTypeOK
  <2> QED
    BY <1>k, <2>1 DEF Behind
<1>9. ASSUME NEW p \in Personas, CooldownLapses(p) PROVE Rotation'
  BY <1>9, RotationKept DEF CooldownLapses, localVars, Behind, Rotation
<1>10. CASE UNCHANGED vars
  BY <1>10, RotationKept DEF vars, localVars, Behind, Rotation
<1> QED
  BY <1>1, <1>2, <1>3, <1>4, <1>5, <1>6, <1>7, <1>8, <1>9, <1>10 DEF Next, Choose

LEMMA RotationBound == CastingTypeOK /\ Rotation => SpeakersRotate
<1> SUFFICES ASSUME CastingTypeOK, Rotation PROVE streak <= Cardinality(Choosers)
  BY DEF SpeakersRotate
<1>1. streak \in Nat /\ Cardinality(Behind) \in Nat
  BY ChoosersCounted DEF CastingTypeOK, Behind
<1> QED
  BY <1>1, ChoosersCounted DEF Rotation

(* The last-speaker key takes one value at most once from each chooser in  *)
(* a row, whatever else fails or lapses.                                   *)
THEOREM RotationBounded == Spec => []SpeakersRotate
<1>1. Init => CastingTypeOK /\ Rotation
  BY CastingTypeInit, RotationInit
<1>2. CastingTypeOK /\ Rotation /\ [Next]_vars => (CastingTypeOK /\ Rotation)'
  BY CastingTypeStep, RotationStep
<1>3. CastingTypeOK /\ Rotation => SpeakersRotate
  BY RotationBound
<1> QED
  BY <1>1, <1>2, <1>3, PTL DEF Spec
===========================================================================
