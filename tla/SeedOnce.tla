------------------------------ MODULE SeedOnce ------------------------------
(***************************************************************************)
(* What the dedup key promises: of all the deliveries of an event only the *)
(* one that takes its ticket may send a message, and only one.  A ticket   *)
(* is taken, then used or dropped; it can be lost with its holder, and be  *)
(* issued again when its time is over.                                     *)
(***************************************************************************)
EXTENDS Naturals, FiniteSets

CONSTANTS
  Claims, Events, None,
  MaxLapses    \* bound: times a ticket is issued again

ASSUME NoneAssumption == None \notin Events
ASSUME FiniteClaims == IsFiniteSet(Claims)

VARIABLES
  taken,   \* events whose ticket is out
  holder,  \* the event each claim holds the ticket of, or None
  sent,    \* messages sent, per event
  lapses   \* times the ticket was issued again

vars == <<taken, holder, sent, lapses>>

TypeOK ==
  /\ taken \subseteq Events
  /\ holder \in [Claims -> Events \cup {None}]
  /\ sent \in [Events -> Nat]
  /\ lapses \in [Events -> Nat]

Init ==
  /\ taken = {}
  /\ holder = [c \in Claims |-> None]
  /\ sent = [e \in Events |-> 0]
  /\ lapses = [e \in Events |-> 0]

(* Mutant: a ticket that is out is issued again. *)
TakeAgain(c, e) ==
  /\ holder[c] = None
  /\ taken' = taken \cup {e}
  /\ holder' = [holder EXCEPT ![c] = e]
  /\ UNCHANGED <<sent, lapses>>

Take(c, e) ==
  /\ holder[c] = None /\ e \notin taken
  /\ taken' = taken \cup {e}
  /\ holder' = [holder EXCEPT ![c] = e]
  /\ UNCHANGED <<sent, lapses>>

(* The ticket is taken and the claim never learns that it has it. *)
Waste(e) ==
  /\ taken' = taken \cup {e}
  /\ UNCHANGED <<holder, sent, lapses>>

(* Mutant: the ticket is kept after use. *)
SendKeepsTicket(c) ==
  /\ holder[c] # None
  /\ sent' = [sent EXCEPT ![holder[c]] = @ + 1]
  /\ UNCHANGED <<taken, holder, lapses>>

Send(c) ==
  /\ holder[c] # None
  /\ sent' = [sent EXCEPT ![holder[c]] = @ + 1]
  /\ holder' = [holder EXCEPT ![c] = None]
  /\ UNCHANGED <<taken, lapses>>

Drop(c) ==
  /\ holder' = [holder EXCEPT ![c] = None]
  /\ UNCHANGED <<taken, sent, lapses>>

Die ==
  /\ holder' = [c \in Claims |-> None]
  /\ UNCHANGED <<taken, sent, lapses>>

Lapse(e) ==
  /\ e \in taken /\ lapses[e] < MaxLapses
  /\ taken' = taken \ {e}
  /\ lapses' = [lapses EXCEPT ![e] = @ + 1]
  /\ UNCHANGED <<holder, sent>>

Next ==
  \/ \E c \in Claims, e \in Events : Take(c, e)
  \/ \E e \in Events : Waste(e) \/ Lapse(e)
  \/ \E c \in Claims : Send(c) \/ Drop(c)
  \/ Die

Spec == Init /\ [][Next]_vars

(* One message per life of the ticket. *)
AtMostOnce == \A e \in Events : sent[e] <= 1 + lapses[e]

Holders(e) == {c \in Claims : holder[c] = e}

(* The tickets handed out so far are those used, those held, and those     *)
(* that went unused; there were as many as lapses, and one if it is out.   *)
TicketBound ==
  \A e \in Events :
    sent[e] + Cardinality(Holders(e)) <= lapses[e] + (IF e \in taken THEN 1 ELSE 0)
===========================================================================
