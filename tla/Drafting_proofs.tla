-------------------------- MODULE Drafting_proofs --------------------------
(* Theorems about Drafting, for any drafters, work, personas, templates    *)
(* and crowds.                                                             *)
EXTENDS Drafting, FiniteSetTheorems, TLAPS

LEMMA Lengths == \A d \in Drafters : Work[d] \in Seq(Items) /\ Len(Work[d]) \in Nat \ {0}
BY DraftingAssumption

LEMMA ItemsType ==
  ASSUME NEW d \in Drafters, NEW i \in 1 .. Len(Work[d])
  PROVE  /\ Work[d][i] \in Items
         /\ Work[d][i].phase \in Phases /\ Work[d][i].minute \in Int /\ Work[d][i].lead \in Int
         /\ Work[d][i].id \in Ids
<1>1. Work[d][i] \in Items
  BY Lengths
<1> QED
  BY <1>1, ItemsAssumption DEF Ids

(* The part of the type invariant that is about the drafters themselves.   *)
Locals ==
  /\ pc \in [Drafters -> Labels] /\ at \in [Drafters -> Nat \ {0}]
  /\ view \in [Drafters -> [state : States, tells : Ids]]
  /\ draft \in [Drafters -> Drafts \cup {None}]
  /\ \A d \in Drafters :
       /\ at[d] <= Len(Work[d]) + 1 /\ (pc[d] = "done" <=> at[d] > Len(Work[d]))
       /\ IsBurst(d) => pc[d] \notin {"push", "lookup", "store"}
       /\ ~IsBurst(d) => pc[d] # "send"
       /\ pc[d] \in {"lookup", "store", "send"} <=> draft[d] # None

Shared ==
  /\ state \in States /\ newest \in Ids /\ hashes \subseteq Texts
  /\ faults \in 0 .. MaxFaults /\ lapses \in 0 .. MaxLapses
  /\ disturbed \subseteq Claims
  /\ passes \in [Texts -> Nat]

LEMMA Parts == DraftingTypeOK <=> Shared /\ Locals
BY DEF DraftingTypeOK, Shared, Locals

LEMMA NowType ==
  ASSUME Locals, NEW d \in Drafters, pc[d] # "done"
  PROVE  /\ Now(d) \in Items /\ Now(d).id \in Ids /\ Now(d).minute \in Int
         /\ OwnState(d) \in States
<1>1. at[d] \in 1 .. Len(Work[d])
  BY Lengths DEF Locals
<1> QED
  BY <1>1, ItemsType DEF Now, OwnState, States

LEMMA NoViewType == NoView \in [state : States, tells : Ids] /\ NoState \in States /\ None \in Ids
BY DEF NoView, NoState, States, Ids, Phases

(* A step of d on its label, view and draft leaves the others as they are. *)
LEMMA LocalMoves ==
  ASSUME Locals, NEW d \in Drafters, NEW label \in Labels, UNCHANGED at,
         pc[d] # "done", label # "done", pc' = [pc EXCEPT ![d] = label],
         NEW v \in [state : States, tells : Ids], view' = [view EXCEPT ![d] = v],
         NEW m \in Drafts \cup {None}, draft' = [draft EXCEPT ![d] = m],
         IsBurst(d) => label \notin {"push", "lookup", "store"},
         ~IsBurst(d) => label # "send",
         label \in {"lookup", "store", "send"} <=> m # None
  PROVE  Locals'
BY DEF Locals

LEMMA EndItemKeeps ==
  ASSUME Locals, NEW d \in Drafters, pc[d] # "done", EndItem(d)
  PROVE  Locals'
<1>1. /\ at[d] \in Nat \ {0} /\ Len(Work[d]) \in Nat /\ at[d] <= Len(Work[d])
  BY Lengths DEF Locals
<1>2. /\ at' = [at EXCEPT ![d] = @ + 1] /\ view' = [view EXCEPT ![d] = NoView]
      /\ draft' = [draft EXCEPT ![d] = None]
      /\ pc' = [pc EXCEPT ![d] = IF at[d] = Len(Work[d]) THEN "done"
                                 ELSE IF IsBurst(d) THEN "bundle" ELSE "write"]
  BY DEF EndItem, Goto
<1>3. /\ at' \in [Drafters -> Nat \ {0}] /\ view' \in [Drafters -> [state : States, tells : Ids]]
      /\ draft' \in [Drafters -> Drafts \cup {None}] /\ pc' \in [Drafters -> Labels]
  BY <1>1, <1>2, NoViewType DEF Locals, Labels
<1>4. /\ at'[d] = at[d] + 1 /\ draft'[d] = None /\ pc'[d] \in {"done", "bundle", "write"}
      /\ pc'[d] = "done" <=> at[d] = Len(Work[d])
  BY <1>1, <1>2 DEF Locals
<1>5. at'[d] <= Len(Work[d]) + 1 /\ (pc'[d] = "done" <=> at'[d] > Len(Work[d]))
  BY <1>1, <1>4
<1>6. \A e \in Drafters : e # d =>
        at'[e] = at[e] /\ pc'[e] = pc[e] /\ draft'[e] = draft[e]
  BY <1>2 DEF Locals
<1>7. ASSUME NEW e \in Drafters
      PROVE  /\ at'[e] <= Len(Work[e]) + 1 /\ (pc'[e] = "done" <=> at'[e] > Len(Work[e]))
             /\ IsBurst(e) => pc'[e] \notin {"push", "lookup", "store"}
             /\ ~IsBurst(e) => pc'[e] # "send"
             /\ pc'[e] \in {"lookup", "store", "send"} <=> draft'[e] # None
  <2>1. CASE e = d
    BY <1>4, <1>5, <2>1
  <2>2. CASE e # d
    BY <1>6, <2>2 DEF Locals
  <2> QED
    BY <2>1, <2>2
<1> QED
  BY <1>3, <1>7 DEF Locals

---------------------------------------------------------------------------
(* What a draft is. *)

LEMMA PlayerType == \A i : PlayerOf(i) \in {e.player : e \in Items} \cup {None}
<1> SUFFICES ASSUME NEW i, \E e \in Items : e.id = i
             PROVE  PlayerOf(i) \in {e.player : e \in Items} \cup {None}
  BY DEF PlayerOf
<1>1. (CHOOSE e \in Items : e.id = i) \in Items
  OBVIOUS
<1> QED
  BY <1>1 DEF PlayerOf

LEMMA BestOf == \A ts, phase : Best(ts, phase) \subseteq ts
BY DEF Best

(* A templated draft comes from a template that matches the view.          *)
LEMMA TemplateDraftType ==
  ASSUME Locals, NEW d \in Drafters, NEW p \in Personas, NEW m \in TemplateDrafts(d, p)
  PROVE  /\ m \in Drafts /\ m.tells = view[d].tells /\ m.by = p
         /\ m.template \in Templates
         /\ Matches(m.template, view[d].state, Now(d).type, p)
<1> DEFINE found == {t \in Templates : Matches(t, view[d].state, Now(d).type, p)}
<1>1. PICK t \in Best(found, view[d].state.phase) :
        m = [by |-> p, template |-> t, tells |-> view[d].tells, passes |-> Now(d).type \in t.passes,
             text |-> Text(d, t.id, IF t.named THEN PlayerOf(view[d].tells) ELSE None)]
  BY DEF TemplateDrafts
<1>2. t \in found
  BY BestOf
<1>3. t \in Templates /\ Matches(t, view[d].state, Now(d).type, p)
  BY <1>2
<1>4. view[d].tells \in Ids
  BY DEF Locals
<1>5. Text(d, t.id, IF t.named THEN PlayerOf(view[d].tells) ELSE None) \in Texts
  BY <1>3, PlayerType DEF Text, Texts
<1>6. (Now(d).type \in t.passes) \in BOOLEAN
  OBVIOUS
<1> QED
  BY <1>1, <1>3, <1>4, <1>5, <1>6 DEF Drafts

LEMMA OtherDraftType ==
  ASSUME Locals, NEW d \in Drafters, pc[d] # "done", NEW p \in Personas, NEW m \in OtherDrafts(d, p)
  PROVE  m \in Drafts /\ m.template = None
<1>1. Now(d) \in Items /\ Now(d).id \in Ids
  BY NowType
<1>2. \A a \in {None, Now(d).player} : Text(d, "llm", a) \in Texts
  BY <1>1 DEF Text, Texts
<1>3. Text(d, Now(d).type, Now(d).player) \in Texts
  BY <1>1 DEF Text, Texts
<1>4. \A text \in Texts, ok \in BOOLEAN :
        FreeDraft(d, p, text, ok) \in Drafts /\ FreeDraft(d, p, text, ok).template = None
  BY <1>1 DEF FreeDraft, Drafts
<1>5. CASE m \in LLMDrafts(d, p)
  <2>1. PICK a \in {None, Now(d).player}, ok \in BOOLEAN : m = FreeDraft(d, p, Text(d, "llm", a), ok)
    BY <1>5 DEF LLMDrafts
  <2> QED
    BY <1>2, <1>4, <2>1
<1>6. CASE m = GenericDraft(d, p)
  BY <1>3, <1>4, <1>6 DEF GenericDraft
<1> QED
  BY <1>5, <1>6 DEF OtherDrafts

(* What a claim or a burst reads.                                          *)
LEMMA BundleType ==
  ASSUME Shared, Locals, NEW d \in Drafters, pc[d] # "done"
  PROVE  /\ StateFor(d) \in States
         /\ EventFor(d, newest) \in Ids /\ EventFor(d, None) \in Ids
         /\ IsBurst(d) => StateFor(d).phase = "prematch" /\ StateFor(d).minute = Now(d).minute
         /\ ~IsBurst(d) => StateFor(d) = state /\ \A read : EventFor(d, read) = Now(d).id
<1>1. /\ state \in States /\ newest \in Ids /\ Now(d).id \in Ids /\ Now(d).minute \in Int
  BY NowType DEF Shared
<1> DEFINE s == [state EXCEPT !.phase = "prematch", !.minute = Now(d).minute]
<1>2. s \in States /\ s.phase = "prematch" /\ s.minute = Now(d).minute
  BY <1>1 DEF States, Phases
<1> QED
  BY <1>1, <1>2, NoViewType DEF StateFor, EventFor

(* What the two reads leave in the view.                                   *)
LEMMA ReadSteps ==
  ASSUME Shared, Locals, NEW d \in Drafters
  PROVE  /\ GetMatchState(d) =>
              /\ view'[d].state = StateFor(d)
              /\ view' = [view EXCEPT ![d] = view'[d]]
              /\ view'[d] \in [state : States, tells : Ids]
         /\ GetRecentEvents(d) =>
              /\ view'[d].state = view[d].state
              /\ view'[d].tells \in {EventFor(d, newest), EventFor(d, None)}
              /\ view' = [view EXCEPT ![d] = view'[d]]
              /\ view'[d] \in [state : States, tells : Ids]
<1>1. view \in [Drafters -> [state : States, tells : Ids]]
  BY DEF Locals
<1>2. ASSUME GetMatchState(d)
      PROVE  /\ view'[d].state = StateFor(d) /\ view' = [view EXCEPT ![d] = view'[d]]
             /\ view'[d] \in [state : States, tells : Ids]
  <2>1. view' = [view EXCEPT ![d].state = StateFor(d)] /\ StateFor(d) \in States
    BY <1>2, BundleType DEF GetMatchState
  <2> QED
    BY <1>1, <2>1
<1>3. ASSUME GetRecentEvents(d)
      PROVE  /\ view'[d].state = view[d].state
             /\ view'[d].tells \in {EventFor(d, newest), EventFor(d, None)}
             /\ view' = [view EXCEPT ![d] = view'[d]]
             /\ view'[d] \in [state : States, tells : Ids]
  <2>1. PICK i \in {EventFor(d, newest), EventFor(d, None)} : view' = [view EXCEPT ![d].tells = i]
    BY <1>3 DEF GetRecentEvents
  <2>2. i \in Ids
    BY <1>3, BundleType DEF GetRecentEvents
  <2> QED
    BY <1>1, <2>1, <2>2
<1> QED
  BY <1>2, <1>3

---------------------------------------------------------------------------
(* Type correctness, one step per action. *)

LEMMA DraftingInit == Init => Shared /\ Locals
<1> SUFFICES ASSUME Init PROVE Shared /\ Locals
  OBVIOUS
<1>1. Shared
  BY NoViewType, DraftingAssumption DEF Init, Shared
<1>2. Locals
  BY NoViewType, Lengths DEF Init, Locals, Labels
<1> QED
  BY <1>1, <1>2

LEMMA SharedStep == Shared /\ Locals /\ [Next]_vars => Shared'
<1> SUFFICES ASSUME Shared, Locals, [Next]_vars PROVE Shared'
  OBVIOUS
<1> USE DEF Shared, NoFault, sharedVars, history
<1>f. Fault => faults' \in 0 .. MaxFaults
  BY DraftingAssumption DEF Fault
<1>d. \A d \in Drafters : pc[d] # "done" =>
        OwnState(d) \in States /\ Now(d).id \in Ids
  BY NowType
<1>t. \A d \in Drafters : pc[d] \in {"lookup", "store", "send"} => draft[d].text \in Texts
  BY DEF Locals, Drafts
<1>1. ASSUME NEW d \in Drafters, WriteState(d) PROVE Shared'
  BY <1>1, <1>f, <1>d DEF WriteState, Claims
<1>2. ASSUME NEW d \in Drafters, PushEvent(d) PROVE Shared'
  BY <1>2, <1>f, <1>d DEF PushEvent
<1>3. ASSUME NEW d \in Drafters,
             GetMatchState(d) \/ BuildBundleFails(d) \/ GetRecentEvents(d) \/ NobodyFound(d)
               \/ SkipForScale(d) \/ GenerateMessage(d) \/ RejectDraft(d) \/ IsMessageDuplicated(d) \/ Send(d)
      PROVE  Shared'
  <2>1. UNCHANGED <<state, newest, hashes, lapses, passes, disturbed>>
    BY <1>3 DEF GetMatchState, BuildBundleFails, GetRecentEvents, NobodyFound, SkipForScale,
         GenerateMessage, RejectDraft, IsMessageDuplicated, Send
  <2>2. faults' \in 0 .. MaxFaults
    BY <1>3, <1>f DEF GetMatchState, BuildBundleFails, GetRecentEvents, NobodyFound, SkipForScale,
         GenerateMessage, ScaleAllows, RejectDraft, IsMessageDuplicated, Send
  <2> QED
    BY <2>1, <2>2
<1>4. ASSUME NEW d \in Drafters, SaveMessageHash(d) PROVE Shared'
  BY <1>4, <1>f, <1>t DEF SaveMessageHash
<1>5. ASSUME NEW h \in Texts, HashLapses(h) PROVE Shared'
  BY <1>5, DraftingAssumption DEF HashLapses
<1>6. CASE UNCHANGED vars
  BY <1>6 DEF vars
<1> QED
  BY <1>1, <1>2, <1>3, <1>4, <1>5, <1>6 DEF Next, DraftStep

LEMMA LocalsStep == Shared /\ Locals /\ [Next]_vars => Locals'
<1> SUFFICES ASSUME Shared, Locals, [Next]_vars PROVE Locals'
  OBVIOUS
<1> USE DEF Goto
<1>e. ASSUME NEW d \in Drafters PROVE /\ view' = view => view' = [view EXCEPT ![d] = view[d]]
                                      /\ draft' = draft => draft' = [draft EXCEPT ![d] = draft[d]]
                                      /\ view[d] \in [state : States, tells : Ids]
                                      /\ draft[d] \in Drafts \cup {None}
  BY DEF Locals
<1>n. \A d \in Drafters : pc[d] \notin {"lookup", "store", "send"} => draft[d] = None
  BY DEF Locals
<1>l. \A d \in Drafters : pc[d] \in {"lookup", "store"} => ~IsBurst(d) /\ draft[d] # None
  BY DEF Locals
<1>1. ASSUME NEW d \in Drafters, WriteState(d) PROVE Locals'
  BY <1>1, <1>e, <1>n, LocalMoves DEF WriteState, localVars, Labels
<1>2. ASSUME NEW d \in Drafters, PushEvent(d) PROVE Locals'
  BY <1>2, <1>e, <1>n, LocalMoves DEF PushEvent, localVars, Labels
<1>3. ASSUME NEW d \in Drafters, GetMatchState(d) \/ GetRecentEvents(d) PROVE Locals'
  <2>1. /\ pc[d] \in {"bundle", "recent"} /\ UNCHANGED <<at, draft>>
        /\ pc' = [pc EXCEPT ![d] = "recent"] \/ pc' = [pc EXCEPT ![d] = "generate"]
    BY <1>3 DEF GetMatchState, GetRecentEvents
  <2>2. view' = [view EXCEPT ![d] = view'[d]] /\ view'[d] \in [state : States, tells : Ids]
    BY <1>3, ReadSteps
  <2> QED
    BY <1>e, <1>n, <2>1, <2>2, LocalMoves DEF Labels
<1>4. ASSUME NEW d \in Drafters, BuildBundleFails(d) PROVE Locals'
  <2>1. CASE IsBurst(d)
    BY <1>4, <2>1, EndItemKeeps DEF BuildBundleFails
  <2>2. CASE ~IsBurst(d)
    <3> DEFINE v == [NoView EXCEPT !.tells = Now(d).id]
    <3>1. pc[d] = "bundle" /\ pc' = [pc EXCEPT ![d] = "generate"] /\ UNCHANGED <<at, draft>>
          /\ view' = [view EXCEPT ![d] = v]
      BY <1>4, <2>2 DEF BuildBundleFails
    <3>2. v \in [state : States, tells : Ids]
      BY <3>1, NowType, NoViewType DEF NoView
    <3> HIDE DEF v
    <3> QED
      BY <1>e, <1>n, <2>2, <3>1, <3>2, LocalMoves DEF Labels
  <2> QED
    BY <2>1, <2>2
<1>5. ASSUME NEW d \in Drafters, NobodyFound(d) \/ SkipForScale(d) \/ RejectDraft(d)
               \/ SaveMessageHash(d) \/ Send(d)
      PROVE  Locals'
  BY <1>5, EndItemKeeps DEF NobodyFound, SkipForScale, RejectDraft, SaveMessageHash, Send
<1>6. ASSUME NEW d \in Drafters, GenerateMessage(d) PROVE Locals'
  <2>1. PICK p \in Personas :
          \E m \in IF TemplateDrafts(d, p) # {} THEN TemplateDrafts(d, p) ELSE OtherDrafts(d, p) :
            draft' = [draft EXCEPT ![d] = m]
    BY <1>6 DEF GenerateMessage
  <2>2. PICK m \in TemplateDrafts(d, p) \cup OtherDrafts(d, p) : draft' = [draft EXCEPT ![d] = m]
    BY <2>1
  <2>3. pc[d] = "generate" /\ UNCHANGED at /\ view' = [view EXCEPT ![d] = NoView]
        /\ pc' = [pc EXCEPT ![d] = IF IsBurst(d) THEN "send" ELSE "lookup"]
    BY <1>6 DEF GenerateMessage
  <2>4. m \in Drafts /\ m # None
    BY <2>3, TemplateDraftType, OtherDraftType, NoDraftAssumption
  <2> QED
    BY <2>2, <2>3, <2>4, NoViewType, LocalMoves DEF Labels
<1>7. ASSUME NEW d \in Drafters, IsMessageDuplicated(d) PROVE Locals'
  BY <1>7, <1>e, <1>l, LocalMoves DEF IsMessageDuplicated, localVars, Labels
<1>8. CASE (\E h \in Texts : HashLapses(h)) \/ UNCHANGED vars
  <2>1. UNCHANGED <<pc, at, view, draft>>
    BY <1>8 DEF HashLapses, vars, localVars
  <2> QED
    BY <2>1 DEF Locals
<1> QED
  BY <1>1, <1>2, <1>3, <1>4, <1>5, <1>6, <1>7, <1>8 DEF Next, DraftStep

(* The types hold for any work, cast and book of templates; a drafter has  *)
(* a draft exactly while it is checked or sent.                            *)
THEOREM DraftingTyping == Spec => []DraftingTypeOK
BY DraftingInit, SharedStep, LocalsStep, Parts, PTL DEF Spec
---------------------------------------------------------------------------
(* DraftFitsEvent.  From its own write to its read a claim that nobody     *)
(* disturbed finds the state it wrote; who reads it, and what is chosen by *)
(* it, has it from there.                                                  *)

Fits ==
  \A d \in Drafters :
    /\ (~IsBurst(d) /\ d \notin disturbed /\ pc[d] \in {"push", "bundle"}) => state = OwnState(d)
    /\ (~IsBurst(d) /\ pc[d] = "generate") => view[d].tells = Now(d).id
    /\ (~IsBurst(d) /\ d \notin disturbed /\ pc[d] \in {"recent", "generate"}) =>
         view[d].state \in {OwnState(d), NoState}
    /\ (IsBurst(d) /\ pc[d] \in {"recent", "generate"}) =>
         view[d].state.phase = "prematch" /\ view[d].state.minute = Now(d).minute

LEMMA DraftingStep == Shared /\ Locals /\ [Next]_vars => (Shared /\ Locals)'
BY SharedStep, LocalsStep

LEMMA FitsInit == Init => Fits /\ DraftFitsEvent
BY DEF Init, Fits, DraftFitsEvent

(* What no step of another drafter touches.                                *)
Untouched(e) ==
  /\ pc'[e] = pc[e] /\ at'[e] = at[e] /\ view'[e] = view[e] /\ draft'[e] = draft[e]

(* One drafter moves; what the others rely on stays.                       *)
LEMMA FitsMoves ==
  ASSUME Fits, DraftFitsEvent, NEW d \in Drafters,
         \A e \in Drafters : e # d =>
           /\ Untouched(e)
           /\ e \notin disturbed' => e \notin disturbed
           /\ (~IsBurst(e) /\ e \notin disturbed' /\ pc[e] \in {"push", "bundle"}) => UNCHANGED state,
         (~IsBurst(d) /\ d \notin disturbed' /\ pc'[d] \in {"push", "bundle"}) => state' = OwnState(d)',
         (~IsBurst(d) /\ pc'[d] = "generate") => view'[d].tells = Now(d)'.id,
         (~IsBurst(d) /\ d \notin disturbed' /\ pc'[d] \in {"recent", "generate"}) =>
           view'[d].state \in {OwnState(d)', NoState},
         (IsBurst(d) /\ pc'[d] \in {"recent", "generate"}) =>
           view'[d].state.phase = "prematch" /\ view'[d].state.minute = Now(d)'.minute,
         draft'[d] # None /\ draft'[d].template # None =>
           IF IsBurst(d)
           THEN draft'[d].template.phase = "prematch" /\ Now(d)'.minute \in draft'[d].template.minutes
           ELSE /\ draft'[d].tells = Now(d)'.id
                /\ d \notin disturbed' =>
                     Matches(draft'[d].template, OwnState(d)', Now(d)'.type, draft'[d].by)
  PROVE  Fits' /\ DraftFitsEvent'
<1>1. \A e \in Drafters : e # d => Now(e)' = Now(e) /\ OwnState(e)' = OwnState(e)
  BY DEF Untouched, Now, OwnState
<1>2. Fits'
  <2> SUFFICES ASSUME NEW e \in Drafters
               PROVE  /\ (~IsBurst(e) /\ e \notin disturbed' /\ pc'[e] \in {"push", "bundle"})
                            => state' = OwnState(e)'
                      /\ (~IsBurst(e) /\ pc'[e] = "generate") => view'[e].tells = Now(e)'.id
                      /\ (~IsBurst(e) /\ e \notin disturbed' /\ pc'[e] \in {"recent", "generate"}) =>
                           view'[e].state \in {OwnState(e)', NoState}
                      /\ (IsBurst(e) /\ pc'[e] \in {"recent", "generate"}) =>
                           view'[e].state.phase = "prematch" /\ view'[e].state.minute = Now(e)'.minute
    BY DEF Fits
  <2>1. CASE e = d
    BY <2>1
  <2>2. CASE e # d
    BY <1>1, <2>2 DEF Fits, Untouched
  <2> QED
    BY <2>1, <2>2
<1>3. DraftFitsEvent'
  <2> SUFFICES ASSUME NEW e \in Drafters, draft'[e] # None, draft'[e].template # None
               PROVE  IF IsBurst(e)
                      THEN draft'[e].template.phase = "prematch" /\ Now(e)'.minute \in draft'[e].template.minutes
                      ELSE /\ draft'[e].tells = Now(e)'.id
                           /\ e \notin disturbed' =>
                                Matches(draft'[e].template, OwnState(e)', Now(e)'.type, draft'[e].by)
    BY DEF DraftFitsEvent
  <2>1. CASE e = d
    BY <2>1
  <2>2. CASE e # d
    BY <1>1, <2>2 DEF DraftFitsEvent, Untouched
  <2> QED
    BY <2>1, <2>2
<1> QED
  BY <1>2, <1>3

LEMMA EndItemFits ==
  ASSUME Locals, Fits, DraftFitsEvent, NEW d \in Drafters, EndItem(d), UNCHANGED <<state, disturbed>>
  PROVE  Fits' /\ DraftFitsEvent'
<1>1. /\ pc'[d] \in {"done", "bundle", "write"} /\ draft'[d] = None
      /\ ~IsBurst(d) => pc'[d] # "bundle"
      /\ \A e \in Drafters : e # d => Untouched(e)
  BY DEF EndItem, Goto, Locals, Untouched
<1> QED
  BY <1>1, FitsMoves

LEMMA FitsStep == Shared /\ Locals /\ Fits /\ DraftFitsEvent /\ [Next]_vars => Fits' /\ DraftFitsEvent'
<1> SUFFICES ASSUME Shared, Locals, Fits, DraftFitsEvent, [Next]_vars
             PROVE  Fits' /\ DraftFitsEvent'
  OBVIOUS
<1> USE DEF Goto, sharedVars, history, localVars
<1>s. \A d \in Drafters : UNCHANGED at => Now(d)' = Now(d) /\ OwnState(d)' = OwnState(d)
  BY DEF Now, OwnState
<1>u. UNCHANGED <<state, pc, at, view, draft, disturbed>> => Fits' /\ DraftFitsEvent'
  BY DEF Fits, DraftFitsEvent, Now, OwnState
<1>n. \A d \in Drafters : pc[d] \notin {"lookup", "store", "send"} => draft[d] = None
  BY DEF Locals
<1>1. ASSUME NEW d \in Drafters, WriteState(d) PROVE Fits' /\ DraftFitsEvent'
  <2>1. /\ pc[d] = "write" /\ UNCHANGED <<at, view, draft>>
        /\ pc' = [pc EXCEPT ![d] = IF IsBurst(d) THEN "bundle" ELSE "push"]
    BY <1>1 DEF WriteState
  <2>2. /\ pc'[d] \in {"bundle", "push"} /\ draft'[d] = None
        /\ \A e \in Drafters : e # d => Untouched(e)
    BY <2>1, <1>n DEF Locals, Untouched
  <2>3. CASE /\ state' = OwnState(d)
             /\ disturbed' = (disturbed \ {d}) \cup {c \in Claims \ {d} : pc[c] \in {"push", "bundle"}}
    BY <2>1, <2>2, <2>3, <1>s, FitsMoves DEF Claims
  <2>4. CASE UNCHANGED state /\ disturbed' = disturbed \cup (Claims \cap {d})
    BY <2>1, <2>2, <2>4, <1>s, FitsMoves DEF Claims
  <2> QED
    BY <1>1, <2>3, <2>4 DEF WriteState
<1>2. ASSUME NEW d \in Drafters, PushEvent(d) PROVE Fits' /\ DraftFitsEvent'
  <2>1. /\ pc[d] = "push" /\ pc'[d] = "bundle" /\ UNCHANGED <<state, disturbed, at>>
        /\ draft'[d] = None /\ ~IsBurst(d)
        /\ \A e \in Drafters : e # d => Untouched(e)
    BY <1>2, <1>n DEF PushEvent, Locals, Untouched
  <2> QED
    BY <2>1, <1>s, FitsMoves DEF Fits
<1>3. ASSUME NEW d \in Drafters, GetMatchState(d) PROVE Fits' /\ DraftFitsEvent'
  <2>1. /\ pc[d] = "bundle" /\ pc'[d] = "recent" /\ UNCHANGED <<state, disturbed, at>>
        /\ draft'[d] = None /\ view'[d].state = StateFor(d)
        /\ \A e \in Drafters : e # d => Untouched(e)
    BY <1>3, <1>n, ReadSteps DEF GetMatchState, Locals, Untouched
  <2>2. /\ IsBurst(d) => view'[d].state.phase = "prematch" /\ view'[d].state.minute = Now(d).minute
        /\ ~IsBurst(d) => view'[d].state = state
    BY <2>1, BundleType
  <2>3. ~IsBurst(d) /\ d \notin disturbed => state = OwnState(d)
    BY <2>1 DEF Fits
  <2> QED
    BY <2>1, <2>2, <2>3, <1>s, FitsMoves
<1>9. ASSUME NEW d \in Drafters, GetRecentEvents(d) PROVE Fits' /\ DraftFitsEvent'
  <2>1. /\ pc[d] = "recent" /\ pc'[d] = "generate" /\ UNCHANGED <<state, disturbed, at>>
        /\ draft'[d] = None /\ view'[d].state = view[d].state
        /\ \A e \in Drafters : e # d => Untouched(e)
    BY <1>9, <1>n, ReadSteps DEF GetRecentEvents, Locals, Untouched
  <2>2. ~IsBurst(d) => view'[d].tells = Now(d).id
    BY <1>9, <2>1, ReadSteps, BundleType
  <2>3. /\ (~IsBurst(d) /\ d \notin disturbed) => view[d].state \in {OwnState(d), NoState}
        /\ IsBurst(d) => view[d].state.phase = "prematch" /\ view[d].state.minute = Now(d).minute
    BY <2>1 DEF Fits
  <2> QED
    BY <2>1, <2>2, <2>3, <1>s, FitsMoves
<1>4. ASSUME NEW d \in Drafters, BuildBundleFails(d) PROVE Fits' /\ DraftFitsEvent'
  <2>1. CASE IsBurst(d)
    BY <1>4, <2>1, EndItemFits DEF BuildBundleFails
  <2>2. CASE ~IsBurst(d)
    <3>1. /\ pc[d] = "bundle" /\ pc'[d] = "generate" /\ UNCHANGED <<state, disturbed, at>>
          /\ draft'[d] = None /\ view'[d] = [NoView EXCEPT !.tells = Now(d).id]
          /\ \A e \in Drafters : e # d => Untouched(e)
      BY <1>4, <1>n, <2>2 DEF BuildBundleFails, Locals, Untouched
    <3>2. view'[d].tells = Now(d).id /\ view'[d].state = NoState
      BY <3>1 DEF NoView
    <3> QED
      BY <2>2, <3>1, <3>2, <1>s, FitsMoves
  <2> QED
    BY <2>1, <2>2
<1>5. ASSUME NEW d \in Drafters, NobodyFound(d) \/ SkipForScale(d) \/ RejectDraft(d)
               \/ SaveMessageHash(d) \/ Send(d)
      PROVE  Fits' /\ DraftFitsEvent'
  BY <1>5, EndItemFits DEF NobodyFound, SkipForScale, RejectDraft, SaveMessageHash, Send
<1>6. ASSUME NEW d \in Drafters, GenerateMessage(d) PROVE Fits' /\ DraftFitsEvent'
  <2>1. PICK p \in Personas :
          \E m \in IF TemplateDrafts(d, p) # {} THEN TemplateDrafts(d, p) ELSE OtherDrafts(d, p) :
            draft' = [draft EXCEPT ![d] = m]
    BY <1>6 DEF GenerateMessage
  <2>2. PICK m \in TemplateDrafts(d, p) \cup OtherDrafts(d, p) : draft' = [draft EXCEPT ![d] = m]
    BY <2>1
  <2>3. /\ pc[d] = "generate" /\ pc'[d] \in {"send", "lookup"} /\ UNCHANGED <<state, disturbed, at>>
        /\ draft'[d] = m
        /\ \A e \in Drafters : e # d => Untouched(e)
    BY <1>6, <2>2 DEF GenerateMessage, Locals, Untouched
  <2>4. m.template # None =>
          /\ m.template \in Templates /\ m.tells = view[d].tells /\ m.by = p
          /\ Matches(m.template, view[d].state, Now(d).type, p)
    BY <2>3, TemplateDraftType, OtherDraftType
  <2>5. m.template # None => view[d].state # NoState
    <3>1. m.template # None => m.template.phase = view[d].state.phase
      BY <2>4 DEF Matches
    <3>2. m.template # None => m.template.phase # ""
      BY <2>4, TemplatesAssumption
    <3>3. NoState.phase = ""
      BY DEF NoState
    <3> QED
      BY <3>1, <3>2, <3>3
  <2>6. CASE m.template # None /\ IsBurst(d)
    <3>1. m.template.phase = "prematch" /\ Now(d).minute \in m.template.minutes
      BY <2>3, <2>4, <2>6 DEF Fits, Matches
    <3> QED
      BY <2>3, <2>6, <3>1, <1>s, FitsMoves
  <2>7. CASE m.template # None /\ ~IsBurst(d)
    <3>1. /\ m.tells = Now(d).id
          /\ d \notin disturbed => Matches(m.template, OwnState(d), Now(d).type, m.by)
      BY <2>3, <2>4, <2>5, <2>7 DEF Fits
    <3> QED
      BY <2>3, <2>7, <3>1, <1>s, FitsMoves
  <2>8. CASE m.template = None
    BY <2>3, <2>8, FitsMoves
  <2> QED
    BY <2>6, <2>7, <2>8
<1>7. ASSUME NEW d \in Drafters, IsMessageDuplicated(d) PROVE Fits' /\ DraftFitsEvent'
  <2>1. /\ pc'[d] = "store" /\ UNCHANGED <<state, disturbed, at, draft>>
        /\ \A e \in Drafters : e # d => Untouched(e)
    BY <1>7 DEF IsMessageDuplicated, Locals, Untouched
  <2>2. draft[d] # None /\ draft[d].template # None =>
          IF IsBurst(d)
          THEN draft[d].template.phase = "prematch" /\ Now(d).minute \in draft[d].template.minutes
          ELSE /\ draft[d].tells = Now(d).id
               /\ d \notin disturbed => Matches(draft[d].template, OwnState(d), Now(d).type, draft[d].by)
    BY DEF DraftFitsEvent
  <2> QED
    BY <2>1, <2>2, <1>s, FitsMoves
<1>8. CASE (\E h \in Texts : HashLapses(h)) \/ UNCHANGED vars
  BY <1>8, <1>u DEF HashLapses, vars
<1> QED
  BY <1>1, <1>2, <1>3, <1>4, <1>5, <1>6, <1>7, <1>8, <1>9 DEF Next, DraftStep

(* Whatever claims, bursts and templates there are, an undisturbed claim   *)
(* speaks of its own event in its own situation, and a burst of the time   *)
(* before the kickoff.                                                     *)
THEOREM DraftsFit == Spec => []DraftFitsEvent
<1>1. Init => Shared /\ Locals /\ Fits /\ DraftFitsEvent
  BY DraftingInit, FitsInit
<1>2. Shared /\ Locals /\ Fits /\ DraftFitsEvent /\ [Next]_vars
        => (Shared /\ Locals /\ Fits /\ DraftFitsEvent)'
  BY DraftingStep, FitsStep
<1> QED
  BY <1>1, <1>2, PTL DEF Spec

---------------------------------------------------------------------------
(* TextRepeats.  Who has looked a text up and not stored it may still pass *)
(* it; nobody new comes to that point while the text has its key, unless   *)
(* its look-up fails.                                                      *)

Storers(h) == {d \in Claims : pc[d] = "store" /\ draft[d].text = h}

Repeats ==
  \A h \in Texts :
    IF h \in hashes THEN passes[h] + Cardinality(Storers(h)) <= Cardinality(Claims) + faults
                   ELSE passes[h] <= faults

LEMMA ClaimsCounted ==
  /\ IsFiniteSet(Claims) /\ Cardinality(Claims) \in Nat
  /\ \A S \in SUBSET Claims :
       /\ IsFiniteSet(S) /\ Cardinality(S) \in Nat
       /\ Cardinality(S) <= Cardinality(Claims)
<1>1. IsFiniteSet(Claims)
  BY DraftingAssumption, FS_Subset DEF Claims
<1> QED
  BY <1>1, FS_Subset, FS_CardinalityType

LEMMA StorersCounted ==
  \A h : /\ Storers(h) \subseteq Claims /\ IsFiniteSet(Storers(h))
         /\ Cardinality(Storers(h)) \in Nat /\ Cardinality(Storers(h)) <= Cardinality(Claims)
BY ClaimsCounted DEF Storers

LEMMA RepeatsInit == Init => Repeats
BY DEF Init, Repeats

(* No new storer of a stored text without a fault.                         *)
LEMMA RepeatsKept ==
  ASSUME Shared, Shared', Repeats, UNCHANGED <<hashes, passes>>, faults' >= faults,
         \A h \in hashes : Cardinality(Storers(h)') <= Cardinality(Storers(h)) + (faults' - faults)
  PROVE  Repeats'
<1> SUFFICES ASSUME NEW h \in Texts
             PROVE  IF h \in hashes THEN passes[h] + Cardinality(Storers(h)') <= Cardinality(Claims) + faults'
                                    ELSE passes[h] <= faults'
  BY DEF Repeats
<1>1. passes[h] \in Nat /\ faults \in Nat /\ faults' \in Nat
  BY DraftingAssumption DEF Shared
<1>2. Cardinality(Storers(h)') \in Nat
  <2>1. Storers(h)' \subseteq Claims
    BY DEF Storers, Claims
  <2> QED
    BY <2>1, ClaimsCounted
<1> QED
  BY <1>1, <1>2, ClaimsCounted, StorersCounted DEF Repeats

LEMMA RepeatsSaved ==
  ASSUME Shared, Shared', Locals, Repeats, NEW d \in Drafters, SaveMessageHash(d)
  PROVE  Repeats'
<1> DEFINE x == draft[d].text
<1>1. /\ pc[d] = "store" /\ d \in Claims /\ x \in Texts
      /\ passes' = [passes EXCEPT ![x] = @ + 1]
      /\ (NoFault /\ hashes' = hashes \cup {x}) \/ (Fault /\ UNCHANGED hashes)
  BY DEF SaveMessageHash, Locals, Claims, Drafts
<1>2. /\ pc'[d] # "store"
      /\ \A e \in Drafters : e # d => pc'[e] = pc[e] /\ draft'[e] = draft[e]
  BY DEF SaveMessageHash, EndItem, Goto, Locals
<1>3. /\ passes \in [Texts -> Nat] /\ faults \in Nat /\ faults' \in Nat
      /\ hashes \subseteq Texts
  BY DraftingAssumption DEF Shared
<1>4. \A h \in Texts : Storers(h)' = Storers(h) \ {d}
  BY <1>2 DEF Storers, Claims
<1> SUFFICES ASSUME NEW h \in Texts
             PROVE  IF h \in hashes' THEN passes'[h] + Cardinality(Storers(h)') <= Cardinality(Claims) + faults'
                                     ELSE passes'[h] <= faults'
  BY DEF Repeats
<1> DEFINE held == Cardinality(Storers(h))
           left == Cardinality(Storers(h)')
           all  == Cardinality(Claims)
<1>5. /\ held \in Nat /\ left \in Nat /\ all \in Nat /\ held <= all
      /\ left = IF d \in Storers(h) THEN held - 1 ELSE held
  BY <1>4, StorersCounted, ClaimsCounted, FS_RemoveElement, FS_CardinalityType
<1>6. left <= all - 1
  <2>1. Storers(h)' \subseteq Claims \ {d} /\ IsFiniteSet(Claims \ {d})
    BY <1>4, StorersCounted, ClaimsCounted, FS_RemoveElement
  <2>2. Cardinality(Claims \ {d}) = all - 1
    BY <1>1, ClaimsCounted, FS_RemoveElement
  <2> QED
    BY <2>1, <2>2, FS_Subset
<1>7. /\ h \in hashes => passes[h] + held <= all + faults
      /\ h \notin hashes => passes[h] <= faults
  BY DEF Repeats
<1>8. passes[h] \in Nat
  BY <1>3
<1>9. h = x => d \in Storers(h)
  BY <1>1 DEF Storers
<1> HIDE DEF held, left, all, x
<1>10. CASE h # x
  <2>1. passes'[h] = passes[h] /\ (h \in hashes' <=> h \in hashes)
    BY <1>1, <1>3, <1>10
  <2>2. faults' >= faults
    BY <1>1, <1>3 DEF Fault, NoFault
  <2> QED
    BY <1>3, <1>5, <1>7, <1>8, <2>1, <2>2 DEF left, all
<1>11. CASE h = x
  <2>1. passes'[h] = passes[h] + 1
    BY <1>1, <1>3, <1>11
  <2>2. left = held - 1
    BY <1>5, <1>9, <1>11
  <2>3. CASE NoFault /\ hashes' = hashes \cup {x}
    <3>1. h \in hashes' /\ faults' = faults
      BY <2>3, <1>11 DEF NoFault
    <3>2. passes'[h] + left <= all + faults'
      BY <3>1, <2>1, <2>2, <1>3, <1>5, <1>6, <1>7, <1>8
    <3> QED
      BY <3>1, <3>2 DEF left, all
  <2>4. CASE Fault /\ UNCHANGED hashes
    <3>1. faults' = faults + 1 /\ (h \in hashes' <=> h \in hashes)
      BY <2>4 DEF Fault
    <3>2. h \in hashes => passes'[h] + left <= all + faults'
      BY <3>1, <2>1, <2>2, <1>3, <1>5, <1>7, <1>8
    <3>3. h \notin hashes => passes'[h] <= faults'
      BY <3>1, <2>1, <1>3, <1>7, <1>8
    <3> QED
      BY <3>1, <3>2, <3>3 DEF left, all
  <2> QED
    BY <1>1, <2>3, <2>4
<1> QED
  BY <1>10, <1>11

LEMMA RepeatsStep == Shared /\ Shared' /\ Locals /\ Repeats /\ [Next]_vars => Repeats'
<1> SUFFICES ASSUME Shared, Shared', Locals, Repeats, [Next]_vars PROVE Repeats'
  OBVIOUS
<1> USE DEF Goto, sharedVars, history, localVars
<1>f. faults \in Nat /\ faults' \in Nat
  BY DraftingAssumption DEF Shared
<1>g. (Fault => faults' = faults + 1) /\ (NoFault => faults' = faults)
  BY DEF Fault, NoFault
(* A step that brings no storer keeps the bound.                           *)
<1>k. ASSUME NEW d \in Drafters, UNCHANGED <<hashes, passes>>, faults' >= faults,
             \A e \in Drafters : e # d => pc'[e] = pc[e] /\ draft'[e] = draft[e],
             pc'[d] # "store"
      PROVE  Repeats'
  <2>1. \A h : Storers(h)' \subseteq Storers(h)
    BY <1>k DEF Storers, Claims
  <2>2. \A h : Cardinality(Storers(h)') \in Nat /\ Cardinality(Storers(h)') <= Cardinality(Storers(h))
    BY <2>1, StorersCounted, FS_Subset, FS_CardinalityType
  <2>3. \A h : Cardinality(Storers(h)') <= Cardinality(Storers(h)) + (faults' - faults)
    BY <2>2, <1>f, <1>k, StorersCounted
  <2> QED
    BY <1>k, <2>3, RepeatsKept
<1>1. ASSUME NEW d \in Drafters,
             WriteState(d) \/ PushEvent(d) \/ GetMatchState(d) \/ BuildBundleFails(d)
               \/ GetRecentEvents(d) \/ NobodyFound(d)
               \/ SkipForScale(d) \/ GenerateMessage(d) \/ RejectDraft(d) \/ Send(d)
      PROVE  Repeats'
  <2>1. UNCHANGED <<hashes, passes>> /\ faults' >= faults
    BY <1>1, <1>f, <1>g DEF WriteState, PushEvent, GetMatchState, BuildBundleFails, GetRecentEvents, NobodyFound,
         SkipForScale, ScaleAllows, GenerateMessage, RejectDraft, Send
  <2>2. /\ pc'[d] # "store"
        /\ \A e \in Drafters : e # d => pc'[e] = pc[e] /\ draft'[e] = draft[e]
    BY <1>1 DEF WriteState, PushEvent, GetMatchState, BuildBundleFails, GetRecentEvents, NobodyFound,
         SkipForScale, GenerateMessage, RejectDraft, Send, EndItem, Locals
  <2> QED
    BY <1>k, <2>1, <2>2
<1>2. ASSUME NEW d \in Drafters, IsMessageDuplicated(d) PROVE Repeats'
  <2>1. /\ pc[d] = "lookup" /\ pc'[d] = "store" /\ UNCHANGED <<hashes, passes, draft>>
        /\ \A e \in Drafters : e # d => pc'[e] = pc[e]
        /\ (NoFault /\ ~Rejected(d)) \/ Fault
    BY <1>2 DEF IsMessageDuplicated, Locals
  <2>2. \A h : Storers(h)' \subseteq Storers(h) \cup {d}
    BY <2>1 DEF Storers, Claims
  <2>3. CASE Fault
    <3>1. ASSUME NEW h PROVE Cardinality(Storers(h)') <= Cardinality(Storers(h)) + 1
      <4>1. /\ IsFiniteSet(Storers(h) \cup {d})
            /\ Cardinality(Storers(h) \cup {d}) <= Cardinality(Storers(h)) + 1
        BY StorersCounted, FS_AddElement
      <4>2. /\ Cardinality(Storers(h)') <= Cardinality(Storers(h) \cup {d})
            /\ Cardinality(Storers(h)') \in Nat /\ Cardinality(Storers(h) \cup {d}) \in Nat
        BY <2>2, <4>1, FS_Subset, FS_CardinalityType
      <4> QED
        BY <4>1, <4>2, StorersCounted
    <3>2. faults' = faults + 1 /\ faults' >= faults /\ faults' - faults = 1
      BY <2>3, <1>f, <1>g
    <3>3. \A h \in hashes : Cardinality(Storers(h)') <= Cardinality(Storers(h)) + (faults' - faults)
      BY <3>1, <3>2
    <3> QED
      BY <2>1, <3>2, <3>3, RepeatsKept
  <2>4. CASE NoFault /\ ~Rejected(d)
    <3>1. \A h \in hashes : Storers(h)' \subseteq Storers(h)
      BY <2>1, <2>4 DEF Rejected, Storers, Claims
    <3>2. faults' = faults /\ faults' >= faults /\ faults' - faults = 0
      BY <2>4, <1>f, <1>g
    <3>3. \A h \in hashes : /\ Cardinality(Storers(h)') <= Cardinality(Storers(h))
                            /\ Cardinality(Storers(h)') \in Nat
      BY <3>1, StorersCounted, FS_Subset, FS_CardinalityType
    <3>4. \A h \in hashes : Cardinality(Storers(h)') <= Cardinality(Storers(h)) + (faults' - faults)
      BY <3>2, <3>3, StorersCounted
    <3> QED
      BY <2>1, <3>2, <3>4, RepeatsKept
  <2> QED
    BY <2>1, <2>3, <2>4
<1>3. ASSUME NEW d \in Drafters, SaveMessageHash(d) PROVE Repeats'
  BY <1>3, RepeatsSaved
<1>4. ASSUME NEW x \in Texts, HashLapses(x) PROVE Repeats'
  <2>1. /\ hashes' = hashes \ {x} /\ passes' = [passes EXCEPT ![x] = 0]
        /\ UNCHANGED <<pc, draft, faults>> /\ x \in hashes
    BY <1>4 DEF HashLapses
  <2>2. passes \in [Texts -> Nat]
    BY DEF Shared
  <2> QED
    BY <2>1, <2>2, <1>f DEF Repeats, Storers
<1>5. CASE UNCHANGED vars
  BY <1>5 DEF vars, Repeats, Storers
<1> QED
  BY <1>1, <1>2, <1>3, <1>4, <1>5 DEF Next, DraftStep

LEMMA RepeatsBound == Shared /\ Repeats => TextRepeats
<1> SUFFICES ASSUME Shared, Repeats, NEW h \in Texts
             PROVE  passes[h] <= Cardinality(Claims) + faults
  BY DEF TextRepeats
<1>1. passes[h] \in Nat /\ faults \in Nat
  BY DraftingAssumption DEF Shared
<1> QED
  BY <1>1, StorersCounted, ClaimsCounted DEF Repeats

(* A text passes at most once for each claim in one life of its hash, and  *)
(* once more for each failed command.                                      *)
THEOREM RepeatsBounded == Spec => []TextRepeats
<1>1. Init => Shared /\ Locals /\ Repeats
  BY DraftingInit, RepeatsInit
<1>2. Shared /\ Locals /\ Repeats /\ [Next]_vars => (Shared /\ Locals /\ Repeats)'
  BY DraftingStep, RepeatsStep
<1>3. Shared /\ Locals /\ Repeats => TextRepeats
  BY RepeatsBound
<1> QED
  BY <1>1, <1>2, <1>3, PTL DEF Spec
===========================================================================
