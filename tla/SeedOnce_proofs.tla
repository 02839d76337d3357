-------------------------- MODULE SeedOnce_proofs --------------------------
(* SeedOnce sends each event at most once per ticket, for any claims and   *)
(* events.                                                                 *)
EXTENDS SeedOnce, FiniteSetTheorems, TLAPS

LEMMA TypeStep == TypeOK /\ [Next]_vars => TypeOK'
<1> SUFFICES ASSUME TypeOK, [Next]_vars PROVE TypeOK'
  OBVIOUS
<1> USE DEF TypeOK
<1>1. ASSUME NEW c \in Claims, NEW e \in Events, Take(c, e) PROVE TypeOK'
  BY <1>1 DEF Take
<1>2. ASSUME NEW e \in Events, Waste(e) PROVE TypeOK'
  BY <1>2 DEF Waste
<1>3. ASSUME NEW e \in Events, Lapse(e) PROVE TypeOK'
  BY <1>3 DEF Lapse
<1>4. ASSUME NEW c \in Claims, Send(c) PROVE TypeOK'
  BY <1>4 DEF Send
<1>5. ASSUME NEW c \in Claims, Drop(c) PROVE TypeOK'
  BY <1>5 DEF Drop
<1>6. CASE Die
  BY <1>6 DEF Die
<1>7. CASE UNCHANGED vars
  BY <1>7 DEF vars
<1> QED
  BY <1>1, <1>2, <1>3, <1>4, <1>5, <1>6, <1>7 DEF Next

(* Holding sets are finite, and change by one claim at a time. *)
LEMMA HoldersCount ==
  ASSUME TypeOK, NEW e \in Events
  PROVE  /\ IsFiniteSet(Holders(e))
         /\ Cardinality(Holders(e)) \in Nat
<1>1. IsFiniteSet(Holders(e))
  BY FiniteClaims, FS_Subset DEF Holders
<1> QED
  BY <1>1, FS_CardinalityType

LEMMA FewerHolders ==
  ASSUME TypeOK, NEW e \in Events, Holders(e)' \subseteq Holders(e)
  PROVE  /\ Cardinality(Holders(e)') \in Nat
         /\ Cardinality(Holders(e)') <= Cardinality(Holders(e))
         /\ Holders(e)' # Holders(e) =>
              Cardinality(Holders(e)') < Cardinality(Holders(e))
<1>1. IsFiniteSet(Holders(e))
  BY HoldersCount
<1>2. IsFiniteSet(Holders(e)')
  BY <1>1, FS_Subset
<1> QED
  BY <1>1, <1>2, FS_Subset, FS_CardinalityType, HoldersCount

LEMMA BoundStep == TypeOK /\ TicketBound /\ [Next]_vars => TicketBound'
<1> SUFFICES ASSUME TypeOK, TicketBound, [Next]_vars, NEW e \in Events
             PROVE  (sent[e] + Cardinality(Holders(e)) <=
                       lapses[e] + (IF e \in taken THEN 1 ELSE 0))'
  BY DEF TicketBound
<1>0. sent[e] + Cardinality(Holders(e)) <= lapses[e] + (IF e \in taken THEN 1 ELSE 0)
  BY DEF TicketBound
<1>t. /\ sent[e] \in Nat /\ lapses[e] \in Nat
      /\ Cardinality(Holders(e)) \in Nat
  BY HoldersCount DEF TypeOK
<1>1. ASSUME NEW c \in Claims, NEW d \in Events, Take(c, d)
      PROVE  (sent[e] + Cardinality(Holders(e)) <=
                lapses[e] + (IF e \in taken THEN 1 ELSE 0))'
  <2>1. CASE e = d
    <3>1. Holders(e)' = Holders(e) \cup {c} /\ c \notin Holders(e)
      BY <1>1, <2>1, NoneAssumption DEF Take, Holders, TypeOK
    <3>2. Cardinality(Holders(e)') = Cardinality(Holders(e)) + 1
      BY <3>1, HoldersCount, FS_AddElement
    <3> QED
      BY <1>0, <1>t, <1>1, <2>1, <3>2 DEF Take
  <2>2. CASE e # d
    <3>1. Holders(e)' = Holders(e)
      BY <1>1, <2>2, NoneAssumption DEF Take, Holders, TypeOK
    <3> QED
      BY <1>0, <1>1, <2>2, <3>1 DEF Take
  <2> QED
    BY <2>1, <2>2
<1>2. ASSUME NEW d \in Events, Waste(d)
      PROVE  (sent[e] + Cardinality(Holders(e)) <=
                lapses[e] + (IF e \in taken THEN 1 ELSE 0))'
  <2>1. Holders(e)' = Holders(e)
    BY <1>2 DEF Waste, Holders
  <2> QED
    BY <1>0, <1>t, <1>2, <2>1 DEF Waste
<1>3. ASSUME NEW d \in Events, Lapse(d)
      PROVE  (sent[e] + Cardinality(Holders(e)) <=
                lapses[e] + (IF e \in taken THEN 1 ELSE 0))'
  <2>1. Holders(e)' = Holders(e)
    BY <1>3 DEF Lapse, Holders
  <2> QED
    BY <1>0, <1>t, <1>3, <2>1 DEF Lapse, TypeOK
<1>4. ASSUME NEW c \in Claims, Send(c)
      PROVE  (sent[e] + Cardinality(Holders(e)) <=
                lapses[e] + (IF e \in taken THEN 1 ELSE 0))'
  <2>1. Holders(e)' = Holders(e) \ {c}
    BY <1>4, NoneAssumption DEF Send, Holders, TypeOK
  <2>2. /\ Cardinality(Holders(e)') \in Nat
        /\ Cardinality(Holders(e)') <= Cardinality(Holders(e))
        /\ holder[c] = e => Cardinality(Holders(e)') < Cardinality(Holders(e))
    <3>1. holder[c] = e => c \in Holders(e)
      BY DEF Holders
    <3> QED
      BY <2>1, <3>1, FewerHolders
  <2>3. sent'[e] = IF holder[c] = e THEN sent[e] + 1 ELSE sent[e]
    BY <1>4 DEF Send, TypeOK
  <2> QED
    BY <1>0, <1>t, <1>4, <2>2, <2>3 DEF Send
<1>5. ASSUME NEW c \in Claims, Drop(c)
      PROVE  (sent[e] + Cardinality(Holders(e)) <=
                lapses[e] + (IF e \in taken THEN 1 ELSE 0))'
  <2>1. Holders(e)' \subseteq Holders(e)
    BY <1>5, NoneAssumption DEF Drop, Holders, TypeOK
  <2> QED
    BY <1>0, <1>t, <1>5, <2>1, FewerHolders DEF Drop
<1>6. CASE Die
  <2>1. Holders(e)' \subseteq Holders(e)
    BY <1>6, NoneAssumption DEF Die, Holders
  <2> QED
    BY <1>0, <1>t, <1>6, <2>1, FewerHolders DEF Die
<1>7. CASE UNCHANGED vars
  BY <1>0, <1>7 DEF vars, Holders
<1> QED
  BY <1>1, <1>2, <1>3, <1>4, <1>5, <1>6, <1>7 DEF Next

(* Every reachable state of the promise is well typed. *)
THEOREM Typing == Spec => []TypeOK
<1>1. Init => TypeOK
  BY DEF Init, TypeOK
<1> QED
  BY <1>1, TypeStep, PTL DEF Spec

LEMMA BoundInit == Init => TicketBound
<1> SUFFICES ASSUME Init, NEW e \in Events
             PROVE  sent[e] + Cardinality(Holders(e)) <=
                      lapses[e] + (IF e \in taken THEN 1 ELSE 0)
  BY DEF TicketBound
<1>1. Holders(e) = {}
  BY NoneAssumption DEF Init, Holders
<1> QED
  BY <1>1, FS_EmptySet DEF Init

(* What was sent for an event and what still may be, by the claims that    *)
(* hold its ticket, never exceeds the tickets issued.                      *)
THEOREM TicketsBounded == Spec => []TicketBound
BY BoundInit, BoundStep, Typing, PTL DEF Spec

(* However claims take, drop, lose and re-take tickets, an event is sent   *)
(* at most once per ticket: the promise behind IsDuplicateEvent's SETNX.   *)
THEOREM SendsAtMostOnce == Spec => []AtMostOnce
<1>1. TypeOK /\ TicketBound => AtMostOnce
  <2> SUFFICES ASSUME TypeOK, TicketBound, NEW e \in Events
               PROVE  sent[e] <= 1 + lapses[e]
    BY DEF AtMostOnce
  <2>1. /\ sent[e] \in Nat /\ lapses[e] \in Nat
        /\ Cardinality(Holders(e)) \in Nat
    BY HoldersCount DEF TypeOK
  <2> QED
    BY <2>1 DEF TicketBound
<1> QED
  BY <1>1, Typing, TicketsBounded, PTL
===========================================================================
