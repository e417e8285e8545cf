--------------------------- MODULE TaskGuardProofs ---------------------------
(***************************************************************************)
(* Theorems about TaskGuard, for any number of workers, operations, units  *)
(* and calls. First what the ledger operators do to a well-kept ledger:    *)
(* facts about values, with no variable of the specification in them. Then *)
(* the invariant: the file and the copy about to replace it are both sound *)
(* ledgers that attest, the copy extends the file by one event, and every  *)
(* caller whose block may run has an unsettled reservation of its own.     *)
(***************************************************************************)
EXTENDS TaskGuard, FiniteSetTheorems, SequenceTheorems, TLAPS

\* Event n of ledger s has an outcome; the reservations of o that have none.
Settled(s, n) ==
  \E m \in 1..Len(s.events) :
    s.events[m].kind \in Outcomes /\ s.events[m].res = <<s.run, n>>
Unsettled(s, o) ==
  {n \in 1..Len(s.events) :
     s.events[n].kind = "RESERVED" /\ s.events[n].op = o /\ ~Settled(s, n)}

\* SettledOnce and NoReservationAfterClose, of any ledger.
OutcomesFit(s) ==
  \A m, n \in 1..Len(s.events) :
    s.events[m].kind \in Outcomes =>
      /\ s.events[m].res \in {s.run} \X (1..(m - 1))
      /\ s.events[s.events[m].res[2]].kind = "RESERVED"
      /\ s.events[n].kind \in Outcomes /\ s.events[n].res = s.events[m].res => m = n
CloseFits(s) ==
  \A m, n \in 1..Len(s.events) :
    s.events[m].kind = "CLOSE" =>
      /\ s.status = "CLOSED"
      /\ m < n => s.events[n].kind # "RESERVED"

\* A ledger as the operations keep it.
Sound(s) ==
  /\ s \in Ledgers
  /\ \A o \in BudgetedOps : s.used[o] = Cardinality(Held(s, o)) /\ s.used[o] <= Budgets[o]
  /\ OutcomesFit(s)
  /\ CloseFits(s)

\* Ledger t is s with event e at its end.
Extends(t, s, e) == t.run = s.run /\ t.events = Append(s.events, e)

-----------------------------------------------------------------------------
(* The chain *)

\* What _append_event leaves of the events, and where the new one is.
LEMMA ExtendsEvents ==
  ASSUME NEW s \in Ledgers, NEW e \in Events, NEW t, Extends(t, s, e)
  PROVE  /\ Len(s.events) \in Nat
         /\ Len(t.events) = Len(s.events) + 1
         /\ \A i \in 1..Len(s.events) : t.events[i] = s.events[i] /\ s.events[i] \in Events
         /\ t.events[Len(s.events) + 1] = e
<1>1. s.events \in Seq(Events)
  BY DEF Ledgers
<1> QED
  BY <1>1, AppendProperties, LenProperties, ElementOfSeq DEF Extends

\* _append_event keeps a ledger a ledger.
LEMMA AppendedType ==
  ASSUME NEW s \in Ledgers, NEW e \in Events
  PROVE  /\ Appended(s, e) \in Ledgers
         /\ Extends(Appended(s, e), s, e)
         /\ Appended(s, e).used = s.used
         /\ Appended(s, e).status = s.status
<1> DEFINE es == Append(s.events, e)
           k  == Len(s.events) + 1
           h  == <<s.run, k>>
<1>1. es \in Seq(Events) /\ k \in Nat /\ h \in Digests
  BY AppendProperties, LenProperties DEF Ledgers, Digests
<1>2. Appended(s, e) = [s EXCEPT !.events = es, !.event_count = k, !.head = h]
  BY DEF Appended
<1> HIDE DEF es, k, h
<1>3. Appended(s, e) \in Ledgers
  BY <1>1, <1>2 DEF Ledgers
<1>4. Appended(s, e).events = es /\ Appended(s, e).run = s.run
  BY <1>1, <1>2 DEF Ledgers
<1>5. Appended(s, e).used = s.used /\ Appended(s, e).status = s.status
  BY <1>1, <1>2 DEF Ledgers
<1> QED
  BY <1>3, <1>4, <1>5 DEF Extends, es

\* An event settles or refunds the reservation it names and no other.
LEMMA SettledAfter ==
  ASSUME NEW s \in Ledgers, NEW e \in Events, NEW t, Extends(t, s, e), NEW n
  PROVE  /\ Settled(t, n) <=> Settled(s, n) \/ (e.kind \in Outcomes /\ e.res = <<s.run, n>>)
         /\ Refunded(t, n) <=> Refunded(s, n) \/ (e.kind = "RELEASED" /\ e.res = <<s.run, n>>)
<1> DEFINE L == Len(s.events)
<1>1. /\ L \in Nat
      /\ Len(t.events) = L + 1
      /\ \A i \in 1..L : t.events[i] = s.events[i]
      /\ t.events[L + 1] = e
      /\ t.run = s.run
  BY ExtendsEvents DEF Extends
<1>2. 1..Len(t.events) = (1..L) \cup {L + 1}
  BY <1>1
<1> HIDE DEF L
<1>3. Settled(t, n) <=> Settled(s, n) \/ (e.kind \in Outcomes /\ e.res = <<s.run, n>>)
  BY <1>1, <1>2 DEF Settled, L
<1>4. Refunded(t, n) <=> Refunded(s, n) \/ (e.kind = "RELEASED" /\ e.res = <<s.run, n>>)
  BY <1>1, <1>2 DEF Refunded, L
<1> QED
  BY <1>3, <1>4

\* In a ledger whose outcomes fit, nothing past the end is settled.
LEMMA NotYetSettled ==
  ASSUME NEW s \in Ledgers, OutcomesFit(s)
  PROVE  ~Settled(s, Len(s.events) + 1) /\ ~Refunded(s, Len(s.events) + 1)
<1> DEFINE L == Len(s.events)
<1>1. L \in Nat
  BY LenProperties DEF Ledgers
<1>2. ASSUME NEW m \in 1..L, s.events[m].kind \in Outcomes, s.events[m].res = <<s.run, L + 1>>
      PROVE  FALSE
  <2>1. s.events[m].res \in {s.run} \X (1..(m - 1))
    BY <1>2 DEF OutcomesFit
  <2>2. L + 1 \in 1..(m - 1)
    BY <1>2, <2>1
  <2> QED
    BY <1>1, <2>2
<1> QED
  BY <1>2 DEF Settled, Refunded, Outcomes

\* What an event does to the reservations that are held and to those unsettled.
LEMMA HeldAfter ==
  ASSUME NEW s \in Ledgers, NEW e \in Events, NEW t, Extends(t, s, e), OutcomesFit(s),
         NEW o, e.kind \in Outcomes => e.res # <<s.run, Len(s.events) + 1>>
  PROVE  LET new == IF e.kind = "RESERVED" /\ e.op = o THEN {Len(s.events) + 1} ELSE {}
         IN  /\ Held(t, o) = (Held(s, o) \cup new)
                               \ {n \in Nat : e.kind = "RELEASED" /\ e.res = <<s.run, n>>}
             /\ Unsettled(t, o) = (Unsettled(s, o) \cup new)
                               \ {n \in Nat : e.kind \in Outcomes /\ e.res = <<s.run, n>>}
<1> DEFINE L == Len(s.events)
<1>1. /\ L \in Nat
      /\ Len(t.events) = L + 1
      /\ \A i \in 1..L : t.events[i] = s.events[i]
      /\ t.events[L + 1] = e
  BY ExtendsEvents
<1>2. /\ 1..Len(t.events) = (1..L) \cup {L + 1}
      /\ (1..L) \cup {L + 1} \subseteq Nat
      /\ L + 1 \notin 1..L
  BY <1>1
<1>3. ~Settled(s, L + 1) /\ ~Refunded(s, L + 1)
  BY NotYetSettled
<1>4. e.kind = "RELEASED" => e.res # <<s.run, L + 1>>
  BY DEF Outcomes
<1> HIDE DEF L
<1>5. Held(t, o) = (Held(s, o) \cup (IF e.kind = "RESERVED" /\ e.op = o THEN {L + 1} ELSE {}))
                     \ {n \in Nat : e.kind = "RELEASED" /\ e.res = <<s.run, n>>}
  BY <1>1, <1>2, <1>3, <1>4, SettledAfter DEF Held, L
<1>6. Unsettled(t, o) = (Unsettled(s, o) \cup (IF e.kind = "RESERVED" /\ e.op = o THEN {L + 1} ELSE {}))
                     \ {n \in Nat : e.kind \in Outcomes /\ e.res = <<s.run, n>>}
  BY <1>1, <1>2, <1>3, SettledAfter DEF Unsettled, L
<1> QED
  BY <1>5, <1>6 DEF L

\* SettledOnce survives an event whose outcome, if it is one, settles a
\* reservation that had none.
LEMMA OutcomesFitAfter ==
  ASSUME NEW s \in Ledgers, NEW e \in Events, NEW t, Extends(t, s, e), OutcomesFit(s), NEW n,
         e.kind \in Outcomes =>
           /\ e.res = <<s.run, n>>
           /\ n \in 1..Len(s.events)
           /\ s.events[n].kind = "RESERVED"
           /\ ~Settled(s, n)
  PROVE  OutcomesFit(t)
<1> DEFINE L == Len(s.events)
<1>1. /\ L \in Nat
      /\ Len(t.events) = L + 1
      /\ \A i \in 1..L : t.events[i] = s.events[i]
      /\ t.events[L + 1] = e
      /\ t.run = s.run
  BY ExtendsEvents DEF Extends
<1> HIDE DEF L
<1>2. ASSUME NEW i \in 1..(L + 1), t.events[i].kind \in Outcomes
      PROVE  /\ \E j \in 1..(i - 1) : t.events[i].res = <<s.run, j>> /\ t.events[j].kind = "RESERVED"
             /\ \A j \in 1..(L + 1) :
                  t.events[j].kind \in Outcomes /\ t.events[j].res = t.events[i].res => i = j
  <2>1. CASE i = L + 1
    <3>1. e.res = <<s.run, n>> /\ n \in 1..L /\ s.events[n].kind = "RESERVED" /\ ~Settled(s, n)
      BY <1>1, <1>2, <2>1 DEF L
    <3>2. \A j \in 1..L : ~(s.events[j].kind \in Outcomes /\ s.events[j].res = <<s.run, n>>)
      BY <3>1 DEF Settled, L
    <3>3. n \in 1..(i - 1) /\ t.events[i].res = <<s.run, n>> /\ t.events[n].kind = "RESERVED"
      BY <1>1, <2>1, <3>1
    <3>4. ASSUME NEW j \in 1..(L + 1), t.events[j].kind \in Outcomes,
                 t.events[j].res = t.events[i].res
          PROVE  i = j
      <4>1. j \notin 1..L
        BY <1>1, <2>1, <3>1, <3>2, <3>4
      <4> QED
        BY <1>1, <2>1, <4>1
    <3> QED
      BY <3>3, <3>4
  <2>2. CASE i \in 1..L
    <3>1. /\ s.events[i].res \in {s.run} \X (1..(i - 1))
          /\ s.events[s.events[i].res[2]].kind = "RESERVED"
          /\ \A j \in 1..L :
               s.events[j].kind \in Outcomes /\ s.events[j].res = s.events[i].res => i = j
      BY <1>1, <1>2, <2>2 DEF OutcomesFit, L
    <3>2. PICK j \in 1..(i - 1) : s.events[i].res = <<s.run, j>> /\ s.events[j].kind = "RESERVED"
      BY <3>1
    <3>3. Settled(s, j)
      BY <1>1, <1>2, <2>2, <3>2 DEF Settled, L
    <3>4. ~(e.kind \in Outcomes /\ e.res = <<s.run, j>>)
      BY <3>3
    <3>5. t.events[i].res = <<s.run, j>> /\ t.events[j].kind = "RESERVED"
      <4>1. j \in 1..L
        BY <1>1, <2>2, <3>2
      <4> QED
        BY <1>1, <2>2, <3>2, <4>1
    <3>6. ASSUME NEW k \in 1..(L + 1), t.events[k].kind \in Outcomes,
                 t.events[k].res = t.events[i].res
          PROVE  i = k
      <4>1. k # L + 1
        BY <1>1, <3>4, <3>5, <3>6
      <4>2. k \in 1..L
        BY <1>1, <4>1
      <4> QED
        BY <1>1, <2>2, <3>1, <3>6, <4>2
    <3> QED
      BY <3>5, <3>6
  <2> QED
    BY <1>1, <2>1, <2>2
<1>3. ASSUME NEW i \in 1..Len(t.events), NEW j \in 1..Len(t.events), t.events[i].kind \in Outcomes
      PROVE  /\ t.events[i].res \in {t.run} \X (1..(i - 1))
             /\ t.events[t.events[i].res[2]].kind = "RESERVED"
             /\ t.events[j].kind \in Outcomes /\ t.events[j].res = t.events[i].res => i = j
  <2>1. i \in 1..(L + 1) /\ j \in 1..(L + 1)
    BY <1>1
  <2>2. PICK k \in 1..(i - 1) : t.events[i].res = <<s.run, k>> /\ t.events[k].kind = "RESERVED"
    BY <1>2, <1>3, <2>1
  <2>3. t.events[j].kind \in Outcomes /\ t.events[j].res = t.events[i].res => i = j
    BY <1>2, <1>3, <2>1
  <2>4. t.events[i].res \in {t.run} \X (1..(i - 1))
    BY <1>1, <2>2
  <2>5. t.events[i].res[2] = k
    BY <2>2
  <2> QED
    BY <2>2, <2>3, <2>4, <2>5
<1> QED
  BY <1>3 DEF OutcomesFit

\* NoReservationAfterClose survives an event that is a reservation only in an
\* open ledger, if a closed ledger stays closed and CLOSE closes it.
LEMMA CloseFitsAfter ==
  ASSUME NEW s \in Ledgers, NEW e \in Events, NEW t, Extends(t, s, e), CloseFits(s),
         s.status = "CLOSED" \/ e.kind = "CLOSE" => t.status = "CLOSED",
         e.kind = "RESERVED" => s.status = "OPEN"
  PROVE  CloseFits(t)
<1> DEFINE L == Len(s.events)
<1>1. /\ L \in Nat
      /\ Len(t.events) = L + 1
      /\ \A i \in 1..L : t.events[i] = s.events[i]
      /\ t.events[L + 1] = e
  BY ExtendsEvents
<1>2. \A i \in 1..L, j \in 1..L : s.events[i].kind = "CLOSE" =>
        s.status = "CLOSED" /\ (i < j => s.events[j].kind # "RESERVED")
  BY DEF CloseFits
<1> HIDE DEF L
<1>3. ASSUME NEW i \in 1..(L + 1), NEW j \in 1..(L + 1), t.events[i].kind = "CLOSE"
      PROVE  t.status = "CLOSED" /\ (i < j => t.events[j].kind # "RESERVED")
  <2>1. CASE i = L + 1
    BY <1>1, <1>3, <2>1
  <2>2. CASE i \in 1..L
    BY <1>1, <1>2, <1>3, <2>2
  <2> QED
    BY <1>1, <2>1, <2>2
<1> QED
  BY <1>1, <1>3 DEF CloseFits

\* The reservations an operation holds are finitely many.
LEMMA HeldFinite ==
  ASSUME NEW s \in Ledgers, NEW o
  PROVE  IsFiniteSet(Held(s, o)) /\ Cardinality(Held(s, o)) \in Nat
<1>1. Len(s.events) \in Nat
  BY LenProperties DEF Ledgers
<1>2. IsFiniteSet(1..Len(s.events)) /\ Held(s, o) \subseteq 1..Len(s.events)
  BY <1>1, FS_Interval DEF Held
<1> QED
  BY <1>2, FS_Subset, FS_CardinalityType

-----------------------------------------------------------------------------
(* The operations *)

\* Journal rows, and any event that is no reservation, outcome or close.
LEMMA SoundOther ==
  ASSUME NEW s, Sound(s), NEW e \in Events, e.kind \in {"OPEN", "BROKER"}
  PROVE  Sound(Appended(s, e)) /\ Extends(Appended(s, e), s, e)
<1> DEFINE t == Appended(s, e)
<1>1. /\ s \in Ledgers /\ t \in Ledgers /\ Extends(t, s, e)
      /\ t.used = s.used /\ t.status = s.status
  BY AppendedType DEF Sound
<1>2. OutcomesFit(s) /\ CloseFits(s) /\ s.status \in {"OPEN", "CLOSED"}
  BY DEF Sound, Ledgers
<1>3. /\ e.kind # "RESERVED" /\ e.kind # "RELEASED" /\ e.kind # "CLOSE"
      /\ e.kind \notin Outcomes
  BY DEF Outcomes
<1> HIDE DEF t
<1>4. ASSUME NEW o PROVE Held(t, o) = Held(s, o)
  <2>1. Held(t, o) = (Held(s, o) \cup (IF e.kind = "RESERVED" /\ e.op = o
                                         THEN {Len(s.events) + 1} ELSE {}))
                       \ {n \in Nat : e.kind = "RELEASED" /\ e.res = <<s.run, n>>}
    BY <1>1, <1>2, <1>3, HeldAfter
  <2> QED
    BY <1>3, <2>1
<1>5. OutcomesFit(t)
  BY <1>1, <1>2, <1>3, OutcomesFitAfter
<1>6. CloseFits(t)
  BY <1>1, <1>2, <1>3, CloseFitsAfter
<1>7. \A o \in BudgetedOps : t.used[o] = Cardinality(Held(t, o)) /\ t.used[o] <= Budgets[o]
  BY <1>1, <1>4 DEF Sound
<1>8. Sound(t)
  BY <1>1, <1>5, <1>6, <1>7 DEF Sound
<1> QED
  BY <1>1, <1>8 DEF t

\* start_state opens a sound ledger.
LEMMA SoundStart ==
  ASSUME NEW run \in Nat
  PROVE  Sound(StartState(run)) /\ StartState(run).run = run
<1> DEFINE zero == [o \in BudgetedOps |-> 0]
           base == [run |-> run, status |-> "OPEN", used |-> zero,
                    events |-> <<>>, event_count |-> 0, head |-> Genesis]
           e == Event("OPEN", NoOp, Genesis)
<1>1. base \in Ledgers
  BY EmptySeq DEF Ledgers, Genesis, Digests
<1>2. 1..Len(base.events) = {}
  BY EmptySeq
<1>3. \A o \in BudgetedOps : base.used[o] = 0 /\ Held(base, o) = {} /\ 0 <= Budgets[o]
  BY <1>2, ConstantsAssumption DEF Held
<1>4. OutcomesFit(base) /\ CloseFits(base)
  BY <1>2 DEF OutcomesFit, CloseFits
<1>5. Sound(base)
  BY <1>1, <1>3, <1>4, FS_EmptySet DEF Sound
<1>6. e \in Events /\ e.kind = "OPEN"
  BY DEF Event, Events, Kinds, Digests, Genesis
<1>7. Sound(Appended(base, e)) /\ Extends(Appended(base, e), base, e)
  BY <1>5, <1>6, SoundOther
<1>8. StartState(run) = Appended(base, e)
  BY DEF StartState
<1> QED
  BY <1>7, <1>8 DEF Extends

\* Reserving the unit HasUnit found keeps the ledger sound.
LEMMA SoundReserve ==
  ASSUME NEW s, Sound(s), NEW o \in BudgetedOps, s.status = "OPEN", HasUnit(s, o)
  PROVE  LET e == Event("RESERVED", o, Genesis)
             t == [Appended(s, e) EXCEPT !.used[o] = s.used[o] + 1]
         IN  /\ Sound(t) /\ e \in Events /\ Extends(t, s, e)
<1> DEFINE e == Event("RESERVED", o, Genesis)
           a == Appended(s, e)
           u == [s.used EXCEPT ![o] = s.used[o] + 1]
           t == [a EXCEPT !.used[o] = s.used[o] + 1]
<1>1. e \in Events /\ e.kind = "RESERVED" /\ e.op = o /\ e.kind \notin Outcomes
  BY ConstantsAssumption DEF Event, Events, Kinds, Digests, Genesis, Outcomes
<1>2. /\ s \in Ledgers /\ a \in Ledgers /\ Extends(a, s, e)
      /\ a.used = s.used /\ a.status = s.status
  BY <1>1, AppendedType DEF Sound
<1>3. OutcomesFit(s) /\ CloseFits(s) /\ s.used \in [BudgetedOps -> Nat]
  BY DEF Sound, Ledgers
<1> HIDE DEF e, a
<1>4. t \in Ledgers
  <2>1. u \in [BudgetedOps -> Nat]
    BY <1>3
  <2>2. t = [a EXCEPT !.used = u]
    BY <1>2
  <2> HIDE DEF u, t
  <2> QED
    BY <1>2, <2>1, <2>2 DEF Ledgers
<1>5. t.run = a.run /\ t.events = a.events /\ t.status = a.status
  BY <1>2 DEF Ledgers
<1>6. t.used = u
  BY <1>2 DEF Ledgers
<1>7. Extends(t, s, e)
  BY <1>2, <1>5 DEF Extends
<1> HIDE DEF t
<1>8. OutcomesFit(t)
  BY <1>1, <1>2, <1>3, <1>7, OutcomesFitAfter
<1>9. CloseFits(t)
  BY <1>1, <1>2, <1>3, <1>5, <1>7, CloseFitsAfter
<1>10. ASSUME NEW p \in BudgetedOps
       PROVE  t.used[p] = Cardinality(Held(t, p)) /\ t.used[p] <= Budgets[p]
  <2> DEFINE L == Len(s.events)
  <2>1. Held(t, p) = (Held(s, p) \cup (IF e.kind = "RESERVED" /\ e.op = p THEN {L + 1} ELSE {}))
                       \ {n \in Nat : e.kind = "RELEASED" /\ e.res = <<s.run, n>>}
    BY <1>1, <1>2, <1>3, <1>7, HeldAfter
  <2>2. s.used[p] = Cardinality(Held(s, p)) /\ s.used[p] <= Budgets[p]
    BY DEF Sound
  <2>3. CASE p = o
    <3>1. Held(t, p) = Held(s, p) \cup {L + 1}
      BY <1>1, <2>1, <2>3
    <3>2. L \in Nat
      BY <1>2, LenProperties DEF Ledgers
    <3>3. L + 1 \notin Held(s, p)
      BY <3>2 DEF Held
    <3>4. Cardinality(Held(t, p)) = Cardinality(Held(s, p)) + 1
      BY <1>2, <3>1, <3>3, HeldFinite, FS_AddElement
    <3> QED
      BY <1>3, <1>6, <2>2, <2>3, <3>4, ConstantsAssumption DEF HasUnit
  <2>4. CASE p # o
    <3>1. Held(t, p) = Held(s, p)
      BY <1>1, <2>1, <2>4
    <3> QED
      BY <1>3, <1>6, <2>2, <2>4, <3>1
  <2> QED
    BY <2>3, <2>4
<1>11. Sound(t)
  BY <1>4, <1>8, <1>9, <1>10 DEF Sound
<1> QED
  BY <1>1, <1>7, <1>11 DEF e, a, t

\* Closing an open ledger keeps it sound.
LEMMA SoundClose ==
  ASSUME NEW s, Sound(s), s.status = "OPEN"
  PROVE  LET e == Event("CLOSE", NoOp, Genesis)
             t == Appended([s EXCEPT !.status = "CLOSED"], e)
         IN  /\ Sound(t) /\ e \in Events /\ Extends(t, s, e)
<1> DEFINE e == Event("CLOSE", NoOp, Genesis)
           c == [s EXCEPT !.status = "CLOSED"]
           t == Appended(c, e)
<1>1. /\ e \in Events /\ e.kind # "RESERVED" /\ e.kind # "RELEASED"
      /\ e.kind \notin Outcomes
  BY DEF Event, Events, Kinds, Digests, Genesis, Outcomes
<1>2. /\ s \in Ledgers /\ c \in Ledgers /\ c.run = s.run /\ c.events = s.events
      /\ c.used = s.used /\ c.status = "CLOSED"
  BY DEF Sound, Ledgers
<1>3. OutcomesFit(s) /\ CloseFits(s)
  BY DEF Sound
<1> HIDE DEF e, c
<1>4. t \in Ledgers /\ Extends(t, c, e) /\ t.used = s.used /\ t.status = "CLOSED"
  BY <1>1, <1>2, AppendedType
<1> HIDE DEF t
<1>5. Extends(t, s, e)
  BY <1>2, <1>4 DEF Extends
<1>6. OutcomesFit(t)
  BY <1>1, <1>2, <1>3, <1>5, OutcomesFitAfter
<1>7. CloseFits(t)
  BY <1>1, <1>2, <1>3, <1>4, <1>5, CloseFitsAfter
<1>8. ASSUME NEW o PROVE Held(t, o) = Held(s, o)
  <2>1. Held(t, o) = (Held(s, o) \cup (IF e.kind = "RESERVED" /\ e.op = o
                                         THEN {Len(s.events) + 1} ELSE {}))
                       \ {n \in Nat : e.kind = "RELEASED" /\ e.res = <<s.run, n>>}
    BY <1>1, <1>2, <1>3, <1>5, HeldAfter
  <2> QED
    BY <1>1, <2>1
<1>9. Sound(t)
  BY <1>4, <1>6, <1>7, <1>8 DEF Sound
<1> QED
  BY <1>1, <1>5, <1>9 DEF e, c, t

\* _commit's refund touches one counter.
LEMMA GiveBackType ==
  ASSUME NEW s \in Ledgers, NEW o \in BudgetedOps
  PROVE  LET c == GiveBack(s, o) IN
         /\ c \in Ledgers
         /\ c.run = s.run /\ c.events = s.events /\ c.status = s.status
         /\ c.used = [s.used EXCEPT ![o] = Max0(s.used[o] - 1)]
<1> DEFINE u == [s.used EXCEPT ![o] = Max0(s.used[o] - 1)]
           c == GiveBack(s, o)
<1>1. s.used \in [BudgetedOps -> Nat]
  BY DEF Ledgers
<1>2. Max0(s.used[o] - 1) \in Nat
  BY <1>1 DEF Max0
<1>3. u \in [BudgetedOps -> Nat]
  BY <1>1, <1>2
<1>4. c = [s EXCEPT !.used = u]
  BY DEF GiveBack
<1> HIDE DEF u, c
<1>5. c \in Ledgers
  BY <1>3, <1>4 DEF Ledgers
<1>6. c.run = s.run /\ c.events = s.events /\ c.status = s.status /\ c.used = u
  BY <1>4 DEF Ledgers
<1> QED
  BY <1>5, <1>6 DEF u, c

\* An unsettled reservation is held.
LEMMA UnsettledIsHeld ==
  ASSUME NEW s, NEW o, NEW n \in Unsettled(s, o)
  PROVE  /\ n \in Held(s, o)
         /\ n \in 1..Len(s.events) /\ s.events[n].kind = "RESERVED" /\ s.events[n].op = o
         /\ ~Settled(s, n)
BY DEF Unsettled, Held, Settled, Refunded, Outcomes

\* _commit on a reservation that is unsettled keeps the ledger sound: the refund
\* is of a unit that is held, so the floor at zero is never met.
LEMMA SoundOutcome ==
  ASSUME NEW s, Sound(s), NEW o \in BudgetedOps, NEW k \in Outcomes, NEW n \in Unsettled(s, o)
  PROVE  LET e == Event(k, o, <<s.run, n>>)
             t == Appended(IF k = "RELEASED" THEN GiveBack(s, o) ELSE s, e)
         IN  /\ Sound(t) /\ e \in Events /\ Extends(t, s, e)
<1> DEFINE e == Event(k, o, <<s.run, n>>)
           c == IF k = "RELEASED" THEN GiveBack(s, o) ELSE s
           t == Appended(c, e)
           L == Len(s.events)
<1>1. /\ n \in Held(s, o) /\ n \in 1..L /\ s.events[n].kind = "RESERVED"
      /\ s.events[n].op = o /\ ~Settled(s, n)
  BY UnsettledIsHeld
<1>2. s \in Ledgers /\ s.run \in Nat /\ L \in Nat /\ s.used \in [BudgetedOps -> Nat]
  BY LenProperties DEF Sound, Ledgers
<1>3. e.kind = k /\ e.op = o /\ e.res = <<s.run, n>> /\ k # "RESERVED" /\ k # "CLOSE"
  BY DEF Event, Outcomes
<1>4. e \in Events
  BY <1>1, <1>2, ConstantsAssumption DEF Event, Events, Kinds, Digests
<1>5. /\ c \in Ledgers /\ c.run = s.run /\ c.events = s.events /\ c.status = s.status
      /\ c.used = IF k = "RELEASED" THEN [s.used EXCEPT ![o] = Max0(s.used[o] - 1)]
                  ELSE s.used
  BY <1>2, GiveBackType
<1>6. OutcomesFit(s) /\ CloseFits(s)
  BY DEF Sound
<1> HIDE DEF e, c, L
<1>7. /\ t \in Ledgers /\ Extends(t, c, e) /\ t.used = c.used /\ t.status = s.status
  BY <1>4, <1>5, AppendedType
<1> HIDE DEF t
<1>8. Extends(t, s, e)
  BY <1>5, <1>7 DEF Extends
<1>9. OutcomesFit(t)
  BY <1>1, <1>2, <1>3, <1>4, <1>6, <1>8, OutcomesFitAfter DEF L
<1>10. CloseFits(t)
  BY <1>2, <1>3, <1>4, <1>6, <1>7, <1>8, CloseFitsAfter
<1>11. ASSUME NEW p \in BudgetedOps
       PROVE  t.used[p] = Cardinality(Held(t, p)) /\ t.used[p] <= Budgets[p]
  <2>1. e.res # <<s.run, L + 1>>
    BY <1>1, <1>2, <1>3
  <2>2. Held(t, p) = (Held(s, p) \cup (IF e.kind = "RESERVED" /\ e.op = p THEN {L + 1} ELSE {}))
                       \ {m \in Nat : e.kind = "RELEASED" /\ e.res = <<s.run, m>>}
    BY <1>2, <1>4, <1>6, <1>8, <2>1, HeldAfter DEF L
  <2>3. s.used[p] = Cardinality(Held(s, p)) /\ s.used[p] <= Budgets[p]
    BY DEF Sound
  <2>4. {m \in Nat : e.kind = "RELEASED" /\ e.res = <<s.run, m>>}
          = IF k = "RELEASED" THEN {n} ELSE {}
    BY <1>1, <1>2, <1>3
  <2>5. Held(t, p) = IF k = "RELEASED" THEN Held(s, p) \ {n} ELSE Held(s, p)
    BY <1>3, <2>2, <2>4
  <2>6. CASE k = "RELEASED" /\ p = o
    <3>1. Cardinality(Held(t, p)) = Cardinality(Held(s, p)) - 1
      <4>1. Held(t, p) = Held(s, p) \ {n} /\ n \in Held(s, p)
        BY <1>1, <2>5, <2>6
      <4> QED
        BY <1>2, <4>1, HeldFinite, FS_RemoveElement
    <3>2. t.used[p] = Max0(s.used[p] - 1)
      BY <1>2, <1>5, <1>7, <2>6
    <3>3. Cardinality(Held(s, p)) # 0
      BY <1>1, <1>2, <2>6, HeldFinite, FS_EmptySet
    <3> QED
      BY <1>2, <2>3, <3>1, <3>2, <3>3, HeldFinite, ConstantsAssumption DEF Max0
  <2>7. CASE k = "RELEASED" /\ p # o
    <3>1. n \notin Held(s, p)
      BY <1>1, <2>7 DEF Held
    <3>2. Held(t, p) = Held(s, p)
      BY <2>5, <2>7, <3>1
    <3> QED
      BY <1>2, <1>5, <1>7, <2>3, <2>7, <3>2
  <2>8. CASE k # "RELEASED"
    BY <1>5, <1>7, <2>3, <2>5, <2>8
  <2> QED
    BY <2>6, <2>7, <2>8
<1>12. Sound(t)
  BY <1>7, <1>9, <1>10, <1>11 DEF Sound
<1> QED
  BY <1>4, <1>8, <1>12 DEF e, c, t

-----------------------------------------------------------------------------
(* Reservations that somebody will settle *)

\* Digest d names an unsettled reservation of the budgeted operation o.
HoldsIn(s, o, d) == o \in BudgetedOps /\ \E n \in Unsettled(s, o) : d = <<s.run, n>>

\* An event settles no reservation but the one it names.
LEMMA HoldsAfter ==
  ASSUME NEW s \in Ledgers, NEW e \in Events, NEW t, Extends(t, s, e),
         NEW o, NEW d, HoldsIn(s, o, d), e.kind \in Outcomes => e.res # d
  PROVE  HoldsIn(t, o, d)
<1>1. PICK n \in Unsettled(s, o) : d = <<s.run, n>>
  BY DEF HoldsIn
<1>2. /\ Len(s.events) \in Nat
      /\ Len(t.events) = Len(s.events) + 1
      /\ \A i \in 1..Len(s.events) : t.events[i] = s.events[i]
      /\ t.run = s.run
  BY ExtendsEvents DEF Extends
<1>3. /\ n \in 1..Len(s.events) /\ s.events[n].kind = "RESERVED" /\ s.events[n].op = o
      /\ ~Settled(s, n)
  BY <1>1, UnsettledIsHeld
<1>4. ~Settled(t, n)
  BY <1>1, <1>3, SettledAfter
<1>5. n \in 1..Len(t.events) /\ t.events[n] = s.events[n]
  BY <1>2, <1>3
<1>6. n \in Unsettled(t, o)
  BY <1>3, <1>4, <1>5 DEF Unsettled
<1> QED
  BY <1>1, <1>2, <1>6 DEF HoldsIn

\* A reservation just appended is unsettled, and nobody else's.
LEMMA HoldsNew ==
  ASSUME NEW s \in Ledgers, OutcomesFit(s), NEW o \in BudgetedOps,
         NEW e \in Events, e.kind = "RESERVED", e.op = o, NEW t, Extends(t, s, e)
  PROVE  /\ HoldsIn(t, o, NextDigest(s))
         /\ \A p, d : HoldsIn(s, p, d) => d # NextDigest(s)
<1> DEFINE L == Len(s.events)
<1>1. /\ L \in Nat /\ Len(t.events) = L + 1
      /\ t.events[L + 1] = e /\ t.run = s.run
  BY ExtendsEvents DEF Extends
<1>2. ~Settled(s, L + 1)
  BY NotYetSettled
<1>3. ~Settled(t, L + 1)
  BY <1>2, SettledAfter DEF Outcomes
<1> HIDE DEF L
<1>4. L + 1 \in Unsettled(t, o)
  BY <1>1, <1>3 DEF Unsettled
<1>5. HoldsIn(t, o, NextDigest(s))
  BY <1>1, <1>4 DEF HoldsIn, NextDigest, L
<1>6. ASSUME NEW p, NEW d, HoldsIn(s, p, d) PROVE d # NextDigest(s)
  <2>1. PICK n \in 1..L : d = <<s.run, n>>
    BY <1>6 DEF HoldsIn, Unsettled, L
  <2> QED
    BY <1>1, <2>1 DEF NextDigest, L
<1> QED
  BY <1>5, <1>6

\* An extended chain has the old one as its prefix.
LEMMA ExtendsPrefix ==
  ASSUME NEW s \in Ledgers, NEW e \in Events, NEW t, Extends(t, s, e)
  PROVE  /\ Len(t.events) = Len(s.events) + 1
         /\ SubSeq(t.events, 1, Len(s.events)) = s.events
<1>1. s.events \in Seq(Events)
  BY DEF Ledgers
<1>2. t.events = s.events \o <<e>> /\ <<e>> \in Seq(Events)
  BY <1>1, AppendIsConcat DEF Extends
<1>3. Len(t.events) = Len(s.events) + 1
  BY ExtendsEvents
<1>4. SubSeq(s.events \o <<e>>, 1, Len(s.events)) = SubSeq(s.events, 1, Len(s.events))
  BY <1>1, <1>2, SubSeqOfConcat1, LenProperties
<1>5. SubSeq(s.events, 1, Len(s.events)) = s.events
  BY <1>1, SubSeqFull
<1> QED
  BY <1>2, <1>3, <1>4, <1>5

-----------------------------------------------------------------------------
(* attest(): the counters are what the chain replays to *)

\* What an event adds to the counter of o, and one step of the replay.
Adds(e, o) == IF e.op # o THEN 0
               ELSE IF e.kind = "RESERVED" THEN 1
               ELSE IF e.kind = "RELEASED" THEN -1 ELSE 0
Replays(u, events, o, n) ==
  u[0] = 0 /\ \A i \in 1..n : u[i] = Max0(u[i - 1] + Adds(events[i], o))
Counted(s) == \A o \in BudgetedOps : s.used[o] = ReplayUsed(s, o)
Agree(a, b, n) == \A i \in 1..n : a[i] = b[i]

\* Every set of natural numbers has a least element.
LEMMA LeastOf ==
  ASSUME NEW T \in SUBSET Nat, T # {}
  PROVE  \E n \in T : \A m \in T : n <= m
<1>1. PICK n \in T : \A m \in T : ~(<<m, n>> \in OpToRel(<, Nat))
  BY NatLessThanWellFounded, WFMin
<1>2. \A m \in T : ~(m < n)
  BY <1>1 DEF OpToRel
<1> QED
  BY <1>2

\* The replay of a chain is a number for each of its prefixes.
LEMMA ReplayExists ==
  ASSUME NEW events, NEW o, NEW n \in Nat
  PROVE  \E u \in [0..n -> Nat] : Replays(u, events, o, n)
<1> DEFINE Open == {k \in Nat : ~ \E u \in [0..k -> Nat] : Replays(u, events, o, k)}
<1> SUFFICES ASSUME Open # {} PROVE FALSE
  OBVIOUS
<1>1. PICK k \in Open : \A m \in Open : k <= m
  BY LeastOf
<1>2. k # 0
  <2>1. [i \in 0..0 |-> 0] \in [0..0 -> Nat] /\ Replays([i \in 0..0 |-> 0], events, o, 0)
    BY DEF Replays
  <2> QED
    BY <2>1
<1>3. k - 1 \in Nat /\ k - 1 \notin Open
  BY <1>1, <1>2
<1>4. PICK u \in [0..(k - 1) -> Nat] : Replays(u, events, o, k - 1)
  BY <1>3
<1> DEFINE last == Max0(u[k - 1] + Adds(events[k], o))
           v == [i \in 0..k |-> IF i = k THEN last ELSE u[i]]
<1>5. last \in Nat
  BY <1>3, <1>4 DEF Max0, Adds
<1>6. v \in [0..k -> Nat]
  BY <1>4, <1>5
<1>7. v[0] = 0
  BY <1>2, <1>3, <1>4 DEF Replays
<1>8. ASSUME NEW i \in 1..k PROVE v[i] = Max0(v[i - 1] + Adds(events[i], o))
  <2>1. CASE i = k
    BY <1>3, <2>1
  <2>2. CASE i # k
    <3>1. i \in 1..(k - 1) /\ i \in 0..k /\ i - 1 \in 0..k /\ i - 1 # k
      BY <1>3, <2>2
    <3> QED
      BY <1>4, <2>2, <3>1 DEF Replays
  <2> QED
    BY <2>1, <2>2
<1>9. Replays(v, events, o, k)
  BY <1>7, <1>8 DEF Replays
<1> QED
  BY <1>1, <1>6, <1>9

\* Two replays agree as far as their chains do.
LEMMA ReplayUnique ==
  ASSUME NEW a, NEW b, NEW o, NEW n \in Nat, NEW u, NEW v,
         Replays(u, a, o, n), Replays(v, b, o, n), Agree(a, b, n)
  PROVE  \A i \in 0..n : u[i] = v[i]
<1> DEFINE Differ == {i \in 0..n : u[i] # v[i]}
<1> SUFFICES ASSUME Differ # {} PROVE FALSE
  OBVIOUS
<1>1. PICK k \in Differ : \A m \in Differ : k <= m
  <2>1. Differ \in SUBSET Nat
    OBVIOUS
  <2> QED
    BY <2>1, LeastOf
<1>2. k # 0
  BY DEF Replays
<1>3. k \in 1..n /\ k - 1 \in 0..n /\ k - 1 \notin Differ
  BY <1>1, <1>2
<1>4. u[k] = v[k]
  BY <1>3 DEF Replays, Agree
<1> QED
  BY <1>4

\* replay_used is the last number of the replay.
LEMMA UsedIsReplayed ==
  ASSUME NEW s \in Ledgers, NEW o
  PROVE  \E u \in [0..Len(s.events) -> Nat] :
           Replays(u, s.events, o, Len(s.events)) /\ ReplayUsed(s, o) = u[Len(s.events)]
<1> DEFINE L == Len(s.events)
           Step(u) == [n \in 0..L |-> IF n = 0 THEN 0 ELSE Max0(u[n - 1] + Adds(s.events[n], o))]
           c == CHOOSE u : u = Step(u)
<1>1. L \in Nat
  BY LenProperties DEF Ledgers
<1>2. ReplayUsed(s, o) = c[L]
  BY DEF ReplayUsed, Adds
<1> HIDE DEF L
<1>3. PICK u \in [0..L -> Nat] : Replays(u, s.events, o, L)
  BY <1>1, ReplayExists
<1>4. u = Step(u)
  <2>1. ASSUME NEW i \in 0..L
        PROVE  u[i] = IF i = 0 THEN 0 ELSE Max0(u[i - 1] + Adds(s.events[i], o))
    BY <1>1, <1>3 DEF Replays
  <2> QED
    BY <1>3, <2>1
<1>5. c = Step(c)
  BY <1>4
<1> HIDE DEF c
<1>6. Replays(c, s.events, o, L)
  BY <1>1, <1>5 DEF Replays
<1>7. c[L] = u[L]
  BY <1>1, <1>3, <1>6, ReplayUnique DEF Agree
<1> QED
  BY <1>2, <1>3, <1>7 DEF L

\* An event moves the replayed counter by what it adds, and not below zero.
LEMMA UsedAfter ==
  ASSUME NEW s \in Ledgers, NEW e \in Events, NEW t \in Ledgers, Extends(t, s, e), NEW o
  PROVE  /\ ReplayUsed(s, o) \in Nat
         /\ ReplayUsed(t, o) = Max0(ReplayUsed(s, o) + Adds(e, o))
<1> DEFINE L == Len(s.events)
<1>1. PICK u \in [0..L -> Nat] : Replays(u, s.events, o, L) /\ ReplayUsed(s, o) = u[L]
  BY UsedIsReplayed
<1>2. PICK v \in [0..Len(t.events) -> Nat] :
        Replays(v, t.events, o, Len(t.events)) /\ ReplayUsed(t, o) = v[Len(t.events)]
  BY UsedIsReplayed
<1>3. /\ L \in Nat /\ Len(t.events) = L + 1 /\ t.events[L + 1] = e
      /\ \A i \in 1..L : t.events[i] = s.events[i]
  BY ExtendsEvents
<1> HIDE DEF L
<1>4. Replays(v, t.events, o, L) /\ v[L + 1] = Max0(v[L] + Adds(e, o))
  BY <1>2, <1>3 DEF Replays
<1>5. v[L] = u[L]
  <2>1. Agree(s.events, t.events, L)
    BY <1>3 DEF Agree
  <2>2. \A i \in 0..L : u[i] = v[i]
    BY <1>1, <1>3, <1>4, <2>1, ReplayUnique
  <2> QED
    BY <1>3, <2>2
<1> QED
  BY <1>1, <1>2, <1>3, <1>4, <1>5

\* A ledger that extends one whose counters replay, moves them as the replay does
\* and re-anchors the tip is attested.
LEMMA AttestsAfter ==
  ASSUME NEW s \in Ledgers, NEW e \in Events, NEW t \in Ledgers, Extends(t, s, e), Counted(s),
         t.event_count = Len(s.events) + 1, t.head = NextDigest(s),
         NEW used, used = t.used,
         \A o \in BudgetedOps : used[o] = Max0(s.used[o] + Adds(e, o))
  PROVE  Attests(t)
<1>1. Len(t.events) = Len(s.events) + 1
  BY ExtendsEvents
<1>2. t.head = TipDigest(t)
  BY <1>1 DEF TipDigest, NextDigest, Extends
<1>3. ASSUME NEW o \in BudgetedOps PROVE t.used[o] = ReplayUsed(t, o)
  BY UsedAfter DEF Counted
<1> QED
  BY <1>1, <1>2, <1>3 DEF Attests

\* What _append_event says of the tip.
LEMMA AppendedTip ==
  ASSUME NEW s \in Ledgers, NEW e \in Events
  PROVE  Appended(s, e).event_count = Len(s.events) + 1 /\ Appended(s, e).head = NextDigest(s)
<1> DEFINE es == Append(s.events, e)
<1>1. PICK k, h : k = Len(s.events) + 1 /\ h = NextDigest(s)
  OBVIOUS
<1>2. Appended(s, e) = [s EXCEPT !.events = es, !.event_count = k, !.head = h]
  BY <1>1 DEF Appended, NextDigest
<1> HIDE DEF es
<1> QED
  BY <1>1, <1>2 DEF Ledgers

\* start_state is attested.
LEMMA AttestsStart == Attests(StartState(1)) /\ StartState(1) \in Ledgers
<1> DEFINE e == Event("OPEN", NoOp, Genesis)
           s == [run |-> 1, status |-> "OPEN", used |-> [o \in BudgetedOps |-> 0],
                 events |-> <<>>, event_count |-> 0, head |-> Genesis]
           t == StartState(1)
<1>1. e \in Events /\ Genesis \in Digests
  BY DEF Event, Events, Kinds, Digests, Genesis
<1>2. s \in Ledgers
  BY <1>1 DEF Ledgers
<1>3. t = Appended(s, e)
  BY DEF StartState
<1>4. ASSUME NEW o \in BudgetedOps PROVE ReplayUsed(s, o) = 0
  <2>1. PICK u \in [0..Len(s.events) -> Nat] :
          Replays(u, s.events, o, Len(s.events)) /\ ReplayUsed(s, o) = u[Len(s.events)]
    BY <1>2, UsedIsReplayed
  <2>2. Len(s.events) = 0
    OBVIOUS
  <2> QED
    BY <2>1, <2>2 DEF Replays
<1>5. Counted(s)
  BY <1>4 DEF Counted
<1>6. ASSUME NEW o \in BudgetedOps PROVE s.used[o] = Max0(s.used[o] + Adds(e, o))
  BY ConstantsAssumption DEF Event, Adds, Max0
<1>7. /\ t \in Ledgers /\ Extends(t, s, e) /\ t.used = s.used
      /\ t.event_count = Len(s.events) + 1 /\ t.head = NextDigest(s)
  BY <1>1, <1>2, <1>3, AppendedType, AppendedTip
<1> HIDE DEF s, t, e
<1> QED
  BY <1>1, <1>2, <1>5, <1>6, <1>7, AttestsAfter DEF t

-----------------------------------------------------------------------------
(* The invariant                                                             *)

\* w is inside the lock; w holds a copy that will replace the file; w has a saved
\* reservation that it has still to settle.
Critical(w) == step[w] \in {"load", "write", "replace", "unlock"}
Ahead(w) == step[w] \in {"write", "replace"}
Live(w) ==
  \/ phase[w] = "reserve" /\ step[w] = "unlock" /\ result[w] = "none"
  \/ phase[w] = "body" /\ step[w] = "run"
  \/ phase[w] = "commit" /\ step[w] \in {"acquire", "load", "write", "replace"}

Mutex == \A w \in Workers : Critical(w) <=> lock = w
LiveHeld == \A w \in Workers : Live(w) => HoldsIn(file, req[w].op, resv[w])
LiveDistinct ==
  \A v, w \in Workers : v # w /\ Live(v) /\ Live(w) => resv[v] # resv[w]
CopySound ==
  \A w \in Workers : Ahead(w) =>
    Sound(buf[w]) /\ \E e \in Events : Extends(buf[w], file, e)
CopyHolds ==
  \A v, w \in Workers : Ahead(w) /\ v # w /\ Live(v) => HoldsIn(buf[w], req[v].op, resv[v])
CopyReserves ==
  \A w \in Workers : Ahead(w) /\ phase[w] = "reserve" =>
    /\ HoldsIn(buf[w], req[w].op, resv[w])
    /\ \A v \in Workers : Live(v) => resv[v] # resv[w]
TempIsCopy == \A w \in Workers : step[w] = "replace" => temp = buf[w]

IInv ==
  /\ TypeOK /\ Sound(file) /\ Mutex
  /\ LiveHeld /\ LiveDistinct
  /\ CopySound /\ CopyHolds /\ CopyReserves /\ TempIsCopy

-----------------------------------------------------------------------------
(* The invariant holds initially *)

\* Init establishes the inductive invariant.
LEMMA InitIInv == Init => IInv
<1> SUFFICES ASSUME Init PROVE IInv
  OBVIOUS
<1>1. Sound(file) /\ file \in Ledgers
  BY SoundStart DEF Init, Sound
<1>2. TypeOK
  BY <1>1 DEF Init, TypeOK, Steps, Phases, Results, Digests, Genesis
<1>3. \A w \in Workers : ~Critical(w) /\ ~Ahead(w) /\ ~Live(w) /\ lock # w /\ step[w] # "replace"
  BY ConstantsAssumption DEF Init, Critical, Ahead, Live
<1> QED
  BY <1>1, <1>2, <1>3 DEF IInv, Mutex, LiveHeld, LiveDistinct, CopySound, CopyHolds,
                          CopyReserves, TempIsCopy

\* Beginning a call: the worker is in no critical section and holds nothing.
LEMMA CallStep ==
  ASSUME IInv, NEW w \in Workers, NEW p \in {"reserve", "close", "journal"},
         NEW r \in Requests \cup {NoRequest}, Begin(w, p, r)
  PROVE  IInv'
<1>1. TypeOK'
  BY ConstantsAssumption DEF IInv, TypeOK, Steps, Phases, Results, Begin, Genesis, Digests
<1>2. Sound(file)'
  BY DEF IInv, Begin
<1>3. Mutex'
  BY ConstantsAssumption DEF IInv, TypeOK, Mutex, Critical, Begin
<1>4. LiveHeld'
  BY DEF IInv, TypeOK, LiveHeld, Live, Begin
<1>5. LiveDistinct'
  BY DEF IInv, TypeOK, LiveDistinct, Live, Begin
<1>6. CopySound'
  BY DEF IInv, TypeOK, CopySound, Ahead, Begin
<1>7. CopyHolds'
  BY DEF IInv, TypeOK, CopyHolds, Ahead, Live, Begin
<1>8. CopyReserves'
  BY DEF IInv, TypeOK, CopyReserves, Ahead, Live, Begin
<1>9. TempIsCopy'
  BY DEF IInv, TypeOK, TempIsCopy, Begin
<1> QED
  BY <1>1, <1>2, <1>3, <1>4, <1>5, <1>6, <1>7, <1>8, <1>9 DEF IInv

\* Taking the lock: nobody else is critical, so nobody is ahead of the file.
LEMMA AcquireStep ==
  ASSUME IInv, NEW w \in Workers, Acquire(w)
  PROVE  IInv'
<1>1. TypeOK'
  BY ConstantsAssumption DEF IInv, TypeOK, Steps, Phases, Results, Acquire, LockFree
<1>2. Sound(file)'
  BY DEF IInv, Acquire, LockFree
<1>3. Mutex'
  BY ConstantsAssumption DEF IInv, TypeOK, Mutex, Critical, Acquire, LockFree
<1>4. LiveHeld'
  BY DEF IInv, TypeOK, LiveHeld, Live, Acquire, LockFree
<1>5. LiveDistinct'
  BY DEF IInv, TypeOK, LiveDistinct, Live, Acquire, LockFree
<1>6. CopySound'
  BY DEF IInv, TypeOK, CopySound, Ahead, Acquire, LockFree
<1>7. CopyHolds'
  BY DEF IInv, TypeOK, CopyHolds, Ahead, Live, Acquire, LockFree
<1>8. CopyReserves'
  BY DEF IInv, TypeOK, CopyReserves, Ahead, Live, Acquire, LockFree
<1>9. TempIsCopy'
  BY DEF IInv, TypeOK, TempIsCopy, Acquire, LockFree
<1> QED
  BY <1>1, <1>2, <1>3, <1>4, <1>5, <1>6, <1>7, <1>8, <1>9 DEF IInv

\* Timing out: what the worker held it no longer means to settle.
LEMMA TimeoutStep ==
  ASSUME IInv, NEW w \in Workers, LockTimeout(w)
  PROVE  IInv'
<1>1. TypeOK'
  BY ConstantsAssumption DEF IInv, TypeOK, Steps, Phases, Results, LockTimeout
<1>2. Sound(file)'
  BY DEF IInv, LockTimeout
<1>3. Mutex'
  BY ConstantsAssumption DEF IInv, TypeOK, Mutex, Critical, LockTimeout
<1>4. LiveHeld'
  BY DEF IInv, TypeOK, LiveHeld, Live, LockTimeout
<1>5. LiveDistinct'
  BY DEF IInv, TypeOK, LiveDistinct, Live, LockTimeout
<1>6. CopySound'
  BY DEF IInv, TypeOK, CopySound, Ahead, LockTimeout
<1>7. CopyHolds'
  BY DEF IInv, TypeOK, CopyHolds, Ahead, Live, LockTimeout
<1>8. CopyReserves'
  BY DEF IInv, TypeOK, CopyReserves, Ahead, Live, LockTimeout
<1>9. TempIsCopy'
  BY DEF IInv, TypeOK, TempIsCopy, LockTimeout
<1> QED
  BY <1>1, <1>2, <1>3, <1>4, <1>5, <1>6, <1>7, <1>8, <1>9 DEF IInv

\* Performing the operation touches only the history.
LEMMA PerformStep ==
  ASSUME IInv, NEW w \in Workers, Perform(w)
  PROVE  IInv'
<1>1. TypeOK'
  BY ConstantsAssumption DEF IInv, TypeOK, Steps, Phases, Results, Perform, workerVars
<1>2. Sound(file)'
  BY DEF IInv, Perform, workerVars
<1>3. Mutex'
  BY ConstantsAssumption DEF IInv, TypeOK, Mutex, Critical, Perform, workerVars
<1>4. LiveHeld'
  BY DEF IInv, TypeOK, LiveHeld, Live, Perform, workerVars
<1>5. LiveDistinct'
  BY DEF IInv, TypeOK, LiveDistinct, Live, Perform, workerVars
<1>6. CopySound'
  BY DEF IInv, TypeOK, CopySound, Ahead, Perform, workerVars
<1>7. CopyHolds'
  BY DEF IInv, TypeOK, CopyHolds, Ahead, Live, Perform, workerVars
<1>8. CopyReserves'
  BY DEF IInv, TypeOK, CopyReserves, Ahead, Live, Perform, workerVars
<1>9. TempIsCopy'
  BY DEF IInv, TypeOK, TempIsCopy, Perform, workerVars
<1> QED
  BY <1>1, <1>2, <1>3, <1>4, <1>5, <1>6, <1>7, <1>8, <1>9 DEF IInv

\* Leaving the block: the reservation is now the commit's to settle.
LEMMA LeaveStep ==
  ASSUME IInv, NEW w \in Workers, LeaveBody(w)
  PROVE  IInv'
<1>1. TypeOK'
  BY ConstantsAssumption DEF IInv, TypeOK, Steps, Phases, Results, LeaveBody, At
<1>2. Sound(file)'
  BY DEF IInv, LeaveBody, At
<1>3. Mutex'
  BY ConstantsAssumption DEF IInv, TypeOK, Mutex, Critical, LeaveBody, At
<1>4. LiveHeld'
  BY DEF IInv, TypeOK, LiveHeld, Live, LeaveBody, At
<1>5. LiveDistinct'
  BY DEF IInv, TypeOK, LiveDistinct, Live, LeaveBody, At
<1>6. CopySound'
  BY DEF IInv, TypeOK, CopySound, Ahead, LeaveBody, At
<1>7. CopyHolds'
  BY DEF IInv, TypeOK, CopyHolds, Ahead, Live, LeaveBody, At
<1>8. CopyReserves'
  BY DEF IInv, TypeOK, CopyReserves, Ahead, Live, LeaveBody, At
<1>9. TempIsCopy'
  BY DEF IInv, TypeOK, TempIsCopy, LeaveBody, At
<1> QED
  BY <1>1, <1>2, <1>3, <1>4, <1>5, <1>6, <1>7, <1>8, <1>9 DEF IInv

\* A call that raises inside the lock saves nothing and holds nothing.
LEMMA RefuseStep ==
  ASSUME IInv, NEW w \in Workers, step[w] = "load",
         NEW s \in Ledgers, NEW why \in {"BindingMismatch", "BudgetExhausted"},
         Refuse(w, s, why), UNCHANGED resv
  PROVE  IInv'
<1>1. TypeOK'
  BY ConstantsAssumption DEF IInv, TypeOK, Steps, Phases, Results, Refuse
<1>2. Sound(file)'
  BY DEF IInv, Refuse
<1>3. Mutex'
  BY ConstantsAssumption DEF IInv, TypeOK, Mutex, Critical, Refuse
<1>4. LiveHeld'
  BY DEF IInv, TypeOK, LiveHeld, Live, Refuse
<1>5. LiveDistinct'
  BY DEF IInv, TypeOK, LiveDistinct, Live, Refuse
<1>6. CopySound'
  BY DEF IInv, TypeOK, CopySound, Ahead, Refuse
<1>7. CopyHolds'
  BY DEF IInv, TypeOK, CopyHolds, Ahead, Live, Refuse
<1>8. CopyReserves'
  BY DEF IInv, TypeOK, CopyReserves, Ahead, Live, Refuse
<1>9. TempIsCopy'
  BY DEF IInv, TypeOK, TempIsCopy, Refuse
<1> QED
  BY <1>1, <1>2, <1>3, <1>4, <1>5, <1>6, <1>7, <1>8, <1>9 DEF IInv

\* Writing the temporary file makes it the copy; nobody else is about to rename.
LEMMA WriteTempStep ==
  ASSUME IInv, NEW w \in Workers, WriteTemp(w)
  PROVE  IInv'
<1>1. TypeOK'
  BY ConstantsAssumption DEF IInv, TypeOK, Steps, Phases, Results, WriteTemp
<1>2. Sound(file)'
  BY DEF IInv, WriteTemp
<1>3. Mutex'
  BY ConstantsAssumption DEF IInv, TypeOK, Mutex, Critical, WriteTemp
<1>4. LiveHeld'
  BY DEF IInv, TypeOK, LiveHeld, Live, WriteTemp
<1>5. LiveDistinct'
  BY DEF IInv, TypeOK, LiveDistinct, Live, WriteTemp
<1>6. CopySound'
  BY DEF IInv, TypeOK, CopySound, Ahead, WriteTemp
<1>7. CopyHolds'
  BY DEF IInv, TypeOK, CopyHolds, Ahead, Live, WriteTemp
<1>8. CopyReserves'
  BY DEF IInv, TypeOK, CopyReserves, Ahead, Live, WriteTemp
<1>9. TempIsCopy'
  BY DEF IInv, TypeOK, Mutex, Critical, TempIsCopy, WriteTemp
<1> QED
  BY <1>1, <1>2, <1>3, <1>4, <1>5, <1>6, <1>7, <1>8, <1>9 DEF IInv

\* Releasing the lock: a saved reservation stays with its worker.
LEMMA UnlockStep ==
  ASSUME IInv, NEW w \in Workers, Unlock(w)
  PROVE  IInv'
<1>1. TypeOK'
  BY ConstantsAssumption DEF IInv, TypeOK, Steps, Phases, Results, Unlock, Admitted
<1>2. Sound(file)'
  BY DEF IInv, Unlock, Admitted
<1>3. Mutex'
  BY ConstantsAssumption DEF IInv, TypeOK, Mutex, Critical, Unlock, Admitted
<1>4. LiveHeld'
  BY DEF IInv, TypeOK, LiveHeld, Live, Unlock, Admitted
<1>5. LiveDistinct'
  BY DEF IInv, TypeOK, LiveDistinct, Live, Unlock, Admitted
<1>6. CopySound'
  BY DEF IInv, TypeOK, CopySound, Ahead, Unlock, Admitted
<1>7. CopyHolds'
  BY DEF IInv, TypeOK, CopyHolds, Ahead, Live, Unlock, Admitted
<1>8. CopyReserves'
  BY DEF IInv, TypeOK, CopyReserves, Ahead, Live, Unlock, Admitted
<1>9. TempIsCopy'
  BY DEF IInv, TypeOK, TempIsCopy, Unlock, Admitted
<1> QED
  BY <1>1, <1>2, <1>3, <1>4, <1>5, <1>6, <1>7, <1>8, <1>9 DEF IInv

\* Dying: the file is whole, and what the worker held stays unsettled.
LEMMA CrashStep ==
  ASSUME IInv, NEW w \in Workers, Crash(w)
  PROVE  IInv'
<1>1. TypeOK'
  BY ConstantsAssumption DEF IInv, TypeOK, Steps, Phases, Results, Crash, LockAfterDeath
<1>2. Sound(file)'
  BY DEF IInv, Crash, LockAfterDeath
<1>3. Mutex'
  BY ConstantsAssumption DEF IInv, TypeOK, Mutex, Critical, Crash, LockAfterDeath
<1>4. LiveHeld'
  BY DEF IInv, TypeOK, LiveHeld, Live, Crash, LockAfterDeath
<1>5. LiveDistinct'
  BY DEF IInv, TypeOK, LiveDistinct, Live, Crash, LockAfterDeath
<1>6. CopySound'
  BY DEF IInv, TypeOK, CopySound, Ahead, Crash, LockAfterDeath
<1>7. CopyHolds'
  BY DEF IInv, TypeOK, CopyHolds, Ahead, Live, Crash, LockAfterDeath
<1>8. CopyReserves'
  BY DEF IInv, TypeOK, CopyReserves, Ahead, Live, Crash, LockAfterDeath
<1>9. TempIsCopy'
  BY DEF IInv, TypeOK, Mutex, Critical, TempIsCopy, Crash
<1> QED
  BY <1>1, <1>2, <1>3, <1>4, <1>5, <1>6, <1>7, <1>8, <1>9 DEF IInv

\* Renaming installs the copy, in which every live reservation is held.
LEMMA ReplaceStep ==
  ASSUME IInv, NEW w \in Workers, Replace(w)
  PROVE  IInv'
<1>a. /\ step[w] = "replace" /\ lock = w /\ temp = buf[w] /\ file' = buf[w]
      /\ Sound(buf[w]) /\ Ahead(w)
  BY DEF IInv, Mutex, Critical, TempIsCopy, CopySound, Ahead, Replace
<1>b. \A v \in Workers : v # w => ~Critical(v) /\ ~Critical(v)'
  BY <1>a DEF IInv, TypeOK, Mutex, Critical, Replace
<1>c. \A v \in Workers : ~Ahead(v)' /\ step'[v] # "replace"
  BY <1>a, <1>b DEF IInv, TypeOK, Critical, Ahead, Replace
<1>d. \A v \in Workers : v # w /\ Live(v)' => Live(v)
  BY DEF IInv, TypeOK, Live, Replace
<1>e. Live(w)' => phase[w] = "reserve"
  BY <1>a DEF IInv, TypeOK, Live, Replace
<1>1. TypeOK'
  <2>1. file' \in Ledgers
    BY <1>a DEF Sound
  <2> QED
    BY <2>1 DEF IInv, TypeOK, Steps, Replace
<1>2. Sound(file)'
  BY <1>a
<1>3. Mutex'
  BY ConstantsAssumption DEF IInv, TypeOK, Mutex, Critical, Replace
<1>4. LiveHeld'
  <2>1. ASSUME NEW v \in Workers, Live(v)'
        PROVE  HoldsIn(buf[w], req[v].op, resv[v])
    BY <1>a, <1>d, <1>e, <2>1 DEF IInv, CopyHolds, CopyReserves
  <2> QED
    BY <1>a, <2>1 DEF LiveHeld, Replace
<1>5. LiveDistinct'
  BY <1>a, <1>d, <1>e DEF IInv, LiveDistinct, CopyReserves, Replace
<1>6. CopySound'
  BY <1>c DEF CopySound
<1>7. CopyHolds'
  BY <1>c DEF CopyHolds
<1>8. CopyReserves'
  BY <1>c DEF CopyReserves
<1>9. TempIsCopy'
  BY <1>c DEF TempIsCopy
<1> QED
  BY <1>1, <1>2, <1>3, <1>4, <1>5, <1>6, <1>7, <1>8, <1>9 DEF IInv

\* A mutated copy is sound and ahead by one event that settles no reservation but the
\* worker's own.
LEMMA LoadedStep ==
  ASSUME IInv, NEW w \in Workers, step[w] = "load", phase[w] # "reserve",
         NEW e \in Events, NEW t, Sound(t), Extends(t, file, e),
         e.kind \in Outcomes => e.res = resv[w] /\ Live(w),
         Loaded(w, t), UNCHANGED resv
  PROVE  IInv'
<1>a. lock = w /\ file \in Ledgers /\ t \in Ledgers /\ step' = [step EXCEPT ![w] = "write"]
  BY DEF IInv, Mutex, Critical, Sound, Loaded
<1>b. \A v \in Workers : v # w => ~Ahead(v) /\ ~Ahead(v)'
  BY <1>a DEF IInv, TypeOK, Mutex, Critical, Ahead, Loaded
<1>c. \A v \in Workers : Live(v)' => Live(v)
  BY DEF IInv, TypeOK, Live, Loaded
<1>d. buf'[w] = t
  BY DEF IInv, TypeOK, Loaded
<1>1. TypeOK'
  BY <1>a DEF IInv, TypeOK, Steps, Loaded
<1>2. Sound(file)'
  BY DEF IInv, Loaded
<1>3. Mutex'
  BY ConstantsAssumption DEF IInv, TypeOK, Mutex, Critical, Loaded
<1>4. LiveHeld'
  BY <1>c DEF IInv, LiveHeld, Loaded
<1>5. LiveDistinct'
  BY <1>c DEF IInv, LiveDistinct
<1>6. CopySound'
  BY <1>b, <1>d DEF CopySound, Loaded
<1>7. CopyHolds'
  <2>1. ASSUME NEW v \in Workers, v # w, Live(v)'
        PROVE  HoldsIn(t, req[v].op, resv[v])
    <3>1. HoldsIn(file, req[v].op, resv[v]) /\ (Live(w) => resv[v] # resv[w])
      BY <1>c, <2>1 DEF IInv, LiveHeld, LiveDistinct
    <3> QED
      BY <1>a, <3>1, HoldsAfter
  <2> QED
    BY <1>b, <1>d, <2>1 DEF CopyHolds, Loaded
<1>8. CopyReserves'
  BY <1>b DEF CopyReserves, Loaded
<1>9. TempIsCopy'
  BY DEF IInv, TypeOK, TempIsCopy, Loaded
<1> QED
  BY <1>1, <1>2, <1>3, <1>4, <1>5, <1>6, <1>7, <1>8, <1>9 DEF IInv

\* A reservation in a copy is new, so it is nobody else's.
LEMMA ReserveStep ==
  ASSUME IInv, NEW w \in Workers, Reserve(w)
  PROVE  IInv'
<1> DEFINE o == req[w].op
           e == Event("RESERVED", o, Genesis)
           t == [Appended(file, e) EXCEPT !.used[o] = file.used[o] + 1]
<1>a. /\ phase[w] = "reserve" /\ step[w] = "load" /\ Loaded(w, t)
      /\ o \in BudgetedOps /\ file.status = "OPEN" /\ HasUnit(file, o)
      /\ resv' = [resv EXCEPT ![w] = NextDigest(file)]
  BY DEF Reserve, At, Bound
<1>b. Sound(file) /\ file \in Ledgers /\ OutcomesFit(file)
  BY DEF IInv, Sound
<1>c. Sound(t) /\ e \in Events /\ Extends(t, file, e)
  BY <1>a, <1>b, SoundReserve
<1>d. e.kind = "RESERVED" /\ e.op = o /\ e.kind \notin Outcomes
  BY DEF Event, Outcomes
<1> HIDE DEF t, e
<1>e. HoldsIn(t, o, NextDigest(file)) /\ \A p, d : HoldsIn(file, p, d) => d # NextDigest(file)
  BY <1>a, <1>b, <1>c, <1>d, HoldsNew
<1>f. lock = w /\ t \in Ledgers /\ step' = [step EXCEPT ![w] = "write"] /\ buf'[w] = t
  BY <1>a, <1>c DEF IInv, TypeOK, Mutex, Critical, Sound, Loaded
<1>g. \A v \in Workers : v # w => ~Ahead(v) /\ ~Ahead(v)' /\ resv'[v] = resv[v]
  BY <1>a, <1>f DEF IInv, TypeOK, Mutex, Critical, Ahead, Loaded
<1>h. \A v \in Workers : Live(v)' => Live(v) /\ v # w
  BY <1>a DEF IInv, TypeOK, Live, Loaded
<1>i. req' = req /\ file' = file /\ phase' = phase /\ temp' = temp /\ resv'[w] = NextDigest(file)
  BY <1>a DEF IInv, TypeOK, Loaded
<1>j. \A v \in Workers : Live(v) => HoldsIn(file, req[v].op, resv[v]) /\ resv[v] # NextDigest(file)
  BY <1>e DEF IInv, LiveHeld
<1>1. TypeOK'
  <2>1. NextDigest(file) \in Digests
    BY <1>b, LenProperties DEF Ledgers, NextDigest, Digests
  <2> QED
    BY <1>a, <1>f, <2>1 DEF IInv, TypeOK, Steps, Loaded
<1>2. Sound(file)'
  BY <1>b, <1>i
<1>3. Mutex'
  BY <1>a, <1>f DEF IInv, TypeOK, Mutex, Critical, Loaded
<1>4. LiveHeld'
  BY <1>g, <1>h, <1>i, <1>j DEF LiveHeld
<1>5. LiveDistinct'
  BY <1>g, <1>h DEF IInv, LiveDistinct
<1>6. CopySound'
  BY <1>c, <1>f, <1>g, <1>i DEF CopySound
<1>7. CopyHolds'
  <2>1. ASSUME NEW v \in Workers, v # w, Live(v)'
        PROVE  HoldsIn(t, req[v].op, resv[v])
    BY <1>b, <1>c, <1>d, <1>h, <1>j, <2>1, HoldsAfter
  <2> QED
    BY <1>f, <1>g, <1>i, <2>1 DEF CopyHolds
<1>8. CopyReserves'
  BY <1>e, <1>f, <1>g, <1>h, <1>i, <1>j DEF CopyReserves
<1>9. TempIsCopy'
  BY <1>f, <1>g, <1>i DEF IInv, TypeOK, TempIsCopy, Ahead
<1> QED
  BY <1>1, <1>2, <1>3, <1>4, <1>5, <1>6, <1>7, <1>8, <1>9 DEF IInv

\* Settling the worker's own reservation.
LEMMA CommitStep ==
  ASSUME IInv, NEW w \in Workers, Commit(w)
  PROVE  IInv'
<1> DEFINE o == req[w].op
<1>1. /\ phase[w] = "commit" /\ step[w] = "load" /\ Live(w)
      /\ Outcome(w) \in Outcomes /\ Sound(file)
  BY DEF Commit, At, Live, Outcome, Outcomes, IInv
<1>2. PICK n \in Unsettled(file, o) : resv[w] = <<file.run, n>>
  BY <1>1 DEF IInv, LiveHeld, HoldsIn
<1>3. o \in BudgetedOps
  BY <1>1 DEF IInv, LiveHeld, HoldsIn
<1> DEFINE e == Event(Outcome(w), o, <<file.run, n>>)
           t == Appended(IF Outcome(w) = "RELEASED" THEN GiveBack(file, o) ELSE file, e)
<1>4. Sound(t) /\ e \in Events /\ Extends(t, file, e)
  BY <1>1, <1>2, <1>3, SoundOutcome
<1>5. e.res = resv[w]
  BY <1>2 DEF Event
<1>6. Loaded(w, t) /\ UNCHANGED resv
  BY <1>2 DEF Commit
<1> HIDE DEF t, e
<1> QED
  BY <1>1, <1>4, <1>5, <1>6, LoadedStep

\* Closing the run.
LEMMA CloseStep ==
  ASSUME IInv, NEW w \in Workers, CloseRun(w)
  PROVE  IInv'
<1> DEFINE e == Event("CLOSE", NoOp, Genesis)
           t == Appended([file EXCEPT !.status = "CLOSED"], e)
<1>1. phase[w] = "close" /\ step[w] = "load" /\ Loaded(w, t) /\ UNCHANGED resv
  BY DEF CloseRun, At
<1>2. Sound(t) /\ e \in Events /\ Extends(t, file, e)
  BY SoundClose DEF IInv, CloseRun
<1>3. e.kind \notin Outcomes
  BY DEF Event, Outcomes
<1> HIDE DEF t, e
<1> QED
  BY <1>1, <1>2, <1>3, LoadedStep

\* Journalling a decision.
LEMMA JournalStep ==
  ASSUME IInv, NEW w \in Workers, Journal(w)
  PROVE  IInv'
<1> DEFINE e == Event("BROKER", NoOp, Genesis)
           t == Appended(file, e)
<1>1. phase[w] = "journal" /\ step[w] = "load" /\ Loaded(w, t) /\ UNCHANGED resv
  BY DEF Journal, At
<1>2. e \in Events /\ e.kind = "BROKER" /\ e.kind \notin Outcomes
  BY DEF Event, Events, Kinds, Digests, Genesis, Outcomes
<1>3. Sound(t) /\ Extends(t, file, e)
  BY <1>2, SoundOther DEF IInv
<1> HIDE DEF t, e
<1> QED
  BY <1>1, <1>2, <1>3, LoadedStep

\* A call that is refused: the copy it leaves behind is a ledger nobody saves.
LEMMA RefusedStep ==
  ASSUME IInv, NEW w \in Workers, RefuseBinding(w) \/ RefuseBudget(w) \/ RefuseClose(w)
  PROVE  IInv'
<1> DEFINE e == Event("BLOCKED_BUDGET", req[w].op, Genesis)
<1>1. file \in Ledgers /\ step[w] = "load"
  BY DEF IInv, Sound, RefuseBinding, RefuseBudget, RefuseClose, At
<1>2. CASE RefuseBinding(w)
  <2>1. Refuse(w, file, "BindingMismatch") /\ UNCHANGED resv
    BY <1>2 DEF RefuseBinding, Refuse
  <2> QED
    BY <1>1, <2>1, RefuseStep
<1>3. CASE RefuseBudget(w)
  <2>1. Refuse(w, Appended(file, e), "BudgetExhausted") /\ UNCHANGED resv
    BY <1>3 DEF RefuseBudget, Refuse
  <2>2. e \in Events
    BY <1>3, ConstantsAssumption
    DEF RefuseBudget, Event, Events, Kinds, Digests, Genesis
  <2>3. Appended(file, e) \in Ledgers
    BY <1>1, <2>2, AppendedType
  <2> QED
    BY <1>1, <2>1, <2>3, RefuseStep
<1>4. CASE RefuseClose(w)
  <2>1. Refuse(w, file, "BindingMismatch") /\ UNCHANGED resv
    BY <1>4 DEF RefuseClose, Refuse
  <2> QED
    BY <1>1, <2>1, RefuseStep
<1> QED
  BY <1>2, <1>3, <1>4

\* Every step preserves the invariant.
LEMMA NextIInv == IInv /\ [Next]_vars => IInv'
<1> SUFFICES ASSUME IInv, [Next]_vars PROVE IInv'
  OBVIOUS
<1>1. CASE UNCHANGED vars
  BY <1>1 DEF IInv, vars, workerVars, TypeOK, Mutex, Critical, LiveHeld, LiveDistinct, Live,
              CopySound, CopyHolds, CopyReserves, Ahead, TempIsCopy
<1>2. ASSUME NEW w \in Workers, Work(w) \/ Crash(w) PROVE IInv'
  <2>1. CASE CallGuarded(w) \/ CallClose(w) \/ CallJournal(w)
    <3>1. \E p \in {"reserve", "close", "journal"}, r \in Requests \cup {NoRequest} : Begin(w, p, r)
      BY <2>1 DEF CallGuarded, CallClose, CallJournal
    <3> QED
      BY <3>1, CallStep
  <2>2. CASE Acquire(w)
    BY <2>2, AcquireStep
  <2>3. CASE LockTimeout(w)
    BY <2>3, TimeoutStep
  <2>4. CASE Mutate(w)
    BY <2>4, ReserveStep, CommitStep, CloseStep, JournalStep, RefusedStep DEF Mutate
  <2>5. CASE Save(w)
    BY <2>5, WriteTempStep, ReplaceStep DEF Save
  <2>6. CASE Unlock(w)
    BY <2>6, UnlockStep
  <2>7. CASE Perform(w)
    BY <2>7, PerformStep
  <2>8. CASE LeaveBody(w)
    BY <2>8, LeaveStep
  <2>9. CASE Crash(w)
    BY <2>9, CrashStep
  <2> QED
    BY <1>2, <2>1, <2>2, <2>3, <2>4, <2>5, <2>6, <2>7, <2>8, <2>9 DEF Work
<1> QED
  BY <1>1, <1>2 DEF Next

\* The inductive invariant holds of the specification.
THEOREM Invariant == Spec => []IInv
BY InitIInv, NextIInv, PTL DEF Spec

-----------------------------------------------------------------------------
(* What follows *)

\* The state file, its temporary file and every worker keep their types.
THEOREM TypeCorrect == Spec => []TypeOK
<1>1. IInv => TypeOK
  BY DEF IInv
<1> QED
  BY <1>1, Invariant, PTL

\* No interleaving, timeout or crash lets the reservations held exceed a budget.
THEOREM BudgetSafe == Spec => []BudgetNeverExceeded
<1>1. IInv => BudgetNeverExceeded
  BY DEF IInv, Sound, BudgetNeverExceeded
<1> QED
  BY <1>1, Invariant, PTL

\* A caller's block runs only under a reservation of its own in the file.
THEOREM BlocksAreReserved == Spec => []RunsUnderReservation
<1>1. IInv => RunsUnderReservation
  <2> SUFFICES ASSUME IInv, NEW w \in Workers,
                      At(w, "body", "run") \/ At(w, "commit", "acquire") \/ At(w, "commit", "load")
               PROVE  resv[w][1] = file.run /\ resv[w][2] \in Held(file, req[w].op)
    BY DEF RunsUnderReservation
  <2>1. HoldsIn(file, req[w].op, resv[w])
    BY DEF IInv, LiveHeld, Live, At
  <2> QED
    BY <2>1, UnsettledIsHeld DEF HoldsIn
<1> QED
  BY <1>1, Invariant, PTL

\* No reservation is settled twice, or before it is made.
THEOREM SettlesOnce == Spec => []SettledOnce
<1>1. IInv => SettledOnce
  BY DEF IInv, Sound, OutcomesFit, SettledOnce
<1> QED
  BY <1>1, Invariant, PTL

\* A closed run admits no reservation.
THEOREM ClosedAdmitsNone == Spec => []NoReservationAfterClose
<1>1. IInv => NoReservationAfterClose
  BY DEF IInv, Sound, CloseFits, NoReservationAfterClose
<1> QED
  BY <1>1, Invariant, PTL

\* Every save extends the chain that is there by one event: no update is lost.
THEOREM SavesExtend == Spec => ChainGrowsByOne
<1> DEFINE Grows == Len(file'.events) = Len(file.events) + 1
                      /\ SubSeq(file'.events, 1, Len(file.events)) = file.events
<1>1. IInv /\ [Next]_vars => [Grows]_file
  <2> SUFFICES ASSUME IInv, Next, file' # file PROVE Grows
    BY DEF vars
  <2>1. PICK w \in Workers : Replace(w)
    BY DEF Next, Work, Mutate, Save, CallGuarded, CallClose, CallJournal, Begin, Acquire,
           LockTimeout, Reserve, RefuseBinding, RefuseBudget, Commit, CloseRun, RefuseClose,
           Journal, Loaded, Refuse, WriteTemp, Unlock, Perform, LeaveBody, Crash
  <2>2. file' = buf[w] /\ Ahead(w) /\ file \in Ledgers
    BY <2>1 DEF IInv, TempIsCopy, Replace, Ahead, Sound
  <2>3. PICK e \in Events : Extends(buf[w], file, e)
    BY <2>2 DEF IInv, CopySound
  <2> QED
    BY <2>2, <2>3, ExtendsPrefix
<1>2. Grows => Grows
  OBVIOUS
<1> QED
  BY <1>1, Invariant, PTL DEF Spec, ChainGrowsByOne

-----------------------------------------------------------------------------
(* The file attests                                                          *)

\* The file attests, and so does the copy that is about to replace it.
AttestInv ==
  /\ Attests(file)
  /\ \A w \in Workers : Ahead(w) => Attests(buf[w])

\* Loading an attested copy under the lock.
LEMMA AttestLoaded ==
  ASSUME IInv, AttestInv, NEW w \in Workers, step[w] = "load", NEW t, Loaded(w, t), Attests(t)
  PROVE  AttestInv'
<1>1. lock = w /\ file' = file /\ step' = [step EXCEPT ![w] = "write"] /\ buf'[w] = t
  BY DEF IInv, TypeOK, Mutex, Critical, Loaded
<1>2. \A v \in Workers : v # w => ~Ahead(v)'
  BY <1>1 DEF IInv, TypeOK, Mutex, Critical, Ahead
<1> QED
  BY <1>1, <1>2 DEF AttestInv

\* Reserving moves one counter, and so does the replay.
LEMMA AttestReserve ==
  ASSUME IInv, AttestInv, NEW w \in Workers, Reserve(w)
  PROVE  AttestInv'
<1> DEFINE o == req[w].op
           e == Event("RESERVED", o, Genesis)
           a == Appended(file, e)
           t == [a EXCEPT !.used[o] = file.used[o] + 1]
<1>1. /\ step[w] = "load" /\ Loaded(w, t) /\ o \in BudgetedOps
      /\ file.status = "OPEN" /\ HasUnit(file, o)
  BY DEF Reserve, At, Bound
<1>2. Sound(file) /\ file \in Ledgers /\ file.used \in [BudgetedOps -> Nat] /\ Counted(file)
  BY DEF IInv, Sound, Ledgers, AttestInv, Attests, Counted
<1>3. Sound(t) /\ t \in Ledgers /\ e \in Events /\ Extends(t, file, e)
  BY <1>1, <1>2, SoundReserve DEF Sound
<1>4. /\ a \in Ledgers /\ a.used = file.used
      /\ a.event_count = Len(file.events) + 1 /\ a.head = NextDigest(file)
  BY <1>2, <1>3, AppendedType, AppendedTip
<1>5. e.kind = "RESERVED" /\ e.op = o
  BY DEF Event
<1> HIDE DEF a, e
<1>6. /\ t.used = [file.used EXCEPT ![o] = file.used[o] + 1]
      /\ t.event_count = a.event_count /\ t.head = a.head
  BY <1>4 DEF Ledgers
<1> HIDE DEF t
<1>7. ASSUME NEW p \in BudgetedOps PROVE t.used[p] = Max0(file.used[p] + Adds(e, p))
  BY <1>1, <1>2, <1>5, <1>6 DEF Adds, Max0
<1>8. Attests(t)
  BY <1>2, <1>3, <1>4, <1>6, <1>7, AttestsAfter
<1> QED
  BY <1>1, <1>8, AttestLoaded

\* A commit moves the counter as the replay does, with the same floor at zero.
LEMMA AttestCommit ==
  ASSUME IInv, AttestInv, NEW w \in Workers, Commit(w)
  PROVE  AttestInv'
<1> DEFINE o == req[w].op
           k == Outcome(w)
           g == IF k = "RELEASED" THEN GiveBack(file, o) ELSE file
           e == Event(k, o, resv[w])
           t == Appended(g, e)
<1>1. step[w] = "load" /\ Live(w) /\ Loaded(w, t)
  BY DEF Commit, At, Live
<1>2. o \in BudgetedOps /\ k \in Outcomes
  BY <1>1 DEF IInv, LiveHeld, HoldsIn, Outcome, Outcomes
<1>3. file \in Ledgers /\ file.used \in [BudgetedOps -> Nat] /\ Counted(file)
  BY DEF IInv, Sound, Ledgers, AttestInv, Attests, Counted
<1>4. e \in Events /\ e.kind = k /\ e.op = o
  BY <1>2, ConstantsAssumption DEF IInv, TypeOK, Event, Events, Kinds, Outcomes
<1>5. /\ g \in Ledgers /\ g.run = file.run /\ g.events = file.events
      /\ g.used = IF k = "RELEASED" THEN [file.used EXCEPT ![o] = Max0(file.used[o] - 1)]
                  ELSE file.used
  BY <1>2, <1>3, GiveBackType
<1> HIDE DEF g, e, k
<1>6. /\ t \in Ledgers /\ Extends(t, g, e) /\ t.used = g.used
      /\ t.event_count = Len(g.events) + 1 /\ t.head = NextDigest(g)
  BY <1>4, <1>5, AppendedType, AppendedTip
<1> HIDE DEF t
<1>7. Extends(t, file, e) /\ t.event_count = Len(file.events) + 1 /\ t.head = NextDigest(file)
  BY <1>5, <1>6 DEF Extends, NextDigest
<1>8. ASSUME NEW p \in BudgetedOps PROVE t.used[p] = Max0(file.used[p] + Adds(e, p))
  BY <1>2, <1>3, <1>4, <1>5, <1>6 DEF Adds, Max0, Outcomes
<1>9. Attests(t)
  BY <1>3, <1>4, <1>6, <1>7, <1>8, AttestsAfter
<1> QED
  BY <1>1, <1>9, AttestLoaded

\* A close and a journal row move no counter.
LEMMA AttestOther ==
  ASSUME IInv, AttestInv, NEW w \in Workers, CloseRun(w) \/ Journal(w)
  PROVE  AttestInv'
<1>1. PICK g, e : /\ step[w] = "load" /\ Loaded(w, Appended(g, e))
                  /\ g \in {file, [file EXCEPT !.status = "CLOSED"]}
                  /\ e \in {Event("CLOSE", NoOp, Genesis), Event("BROKER", NoOp, Genesis)}
  <2>1. CASE CloseRun(w)
    BY <2>1 DEF CloseRun, At
  <2>2. CASE Journal(w)
    BY <2>2 DEF Journal, At
  <2> QED
    BY <2>1, <2>2
<1>2. file \in Ledgers /\ file.used \in [BudgetedOps -> Nat] /\ Counted(file)
  BY DEF IInv, Sound, Ledgers, AttestInv, Attests, Counted
<1>3. e \in Events /\ e.op = NoOp
  BY <1>1 DEF Event, Events, Kinds, Digests, Genesis
<1>4. /\ g \in Ledgers /\ g.run = file.run /\ g.events = file.events /\ g.used = file.used
  BY <1>1, <1>2 DEF Ledgers
<1> DEFINE t == Appended(g, e)
<1>5. /\ t \in Ledgers /\ Extends(t, g, e) /\ t.used = g.used
      /\ t.event_count = Len(g.events) + 1 /\ t.head = NextDigest(g)
  BY <1>3, <1>4, AppendedType, AppendedTip
<1>6. step[w] = "load" /\ Loaded(w, t)
  BY <1>1
<1> HIDE DEF t
<1>7. Extends(t, file, e) /\ t.event_count = Len(file.events) + 1 /\ t.head = NextDigest(file)
  BY <1>4, <1>5 DEF Extends, NextDigest
<1>8. ASSUME NEW p \in BudgetedOps PROVE t.used[p] = Max0(file.used[p] + Adds(e, p))
  BY <1>2, <1>3, <1>4, <1>5, ConstantsAssumption DEF Adds, Max0
<1>9. Attests(t)
  BY <1>2, <1>3, <1>5, <1>7, <1>8, AttestsAfter
<1> QED
  BY <1>6, <1>9, AttestLoaded

\* Only a rename changes the file, only a load makes a copy that is ahead of it.
LEMMA AttestStep == IInv /\ AttestInv /\ [Next]_vars => AttestInv'
<1> SUFFICES ASSUME IInv, AttestInv, [Next]_vars PROVE AttestInv'
  OBVIOUS
<1>1. CASE UNCHANGED vars
  BY <1>1 DEF AttestInv, Ahead, vars, workerVars
<1>2. ASSUME NEW w \in Workers, Work(w) \/ Crash(w) PROVE AttestInv'
  <2>1. CASE Reserve(w) \/ Commit(w) \/ CloseRun(w) \/ Journal(w)
    BY <2>1, AttestReserve, AttestCommit, AttestOther
  <2>2. CASE Replace(w)
    <3>1. file' = buf[w] /\ Ahead(w) /\ \A v \in Workers : Ahead(v)' => Ahead(v)
      BY <2>2 DEF IInv, TypeOK, TempIsCopy, Replace, Ahead
    <3>2. buf' = buf
      BY <2>2 DEF Replace
    <3> QED
      BY <3>1, <3>2 DEF AttestInv
  <2>3. CASE CallGuarded(w) \/ CallClose(w) \/ CallJournal(w) \/ Acquire(w) \/ LockTimeout(w)
               \/ WriteTemp(w) \/ Perform(w) \/ LeaveBody(w)
    <3>1. file' = file /\ buf' = buf
      BY <2>3 DEF CallGuarded, CallClose, CallJournal, Begin, Acquire, LockTimeout, WriteTemp,
                  Perform, LeaveBody, workerVars
    <3>2. \A v \in Workers : Ahead(v)' => Ahead(v)
      BY <2>3 DEF IInv, TypeOK, Ahead, CallGuarded, CallClose, CallJournal, Begin, Acquire,
                  LockTimeout, WriteTemp, Perform, LeaveBody, workerVars
    <3> QED
      BY <3>1, <3>2 DEF AttestInv
  <2>4. CASE RefuseBinding(w) \/ RefuseBudget(w) \/ RefuseClose(w) \/ Unlock(w) \/ Crash(w)
    <3>1. file' = file /\ \A v \in Workers : v # w => buf'[v] = buf[v]
      BY <2>4 DEF IInv, TypeOK, RefuseBinding, RefuseBudget, RefuseClose, Refuse, Unlock, Crash
    <3>2. \A v \in Workers : Ahead(v)' => Ahead(v) /\ v # w
      BY <2>4 DEF IInv, TypeOK, Ahead, RefuseBinding, RefuseBudget, RefuseClose, Refuse, Unlock,
                  Crash
    <3> QED
      BY <3>1, <3>2 DEF AttestInv
  <2> QED
    BY <1>2, <2>1, <2>2, <2>3, <2>4 DEF Work, Mutate, Save
<1> QED
  BY <1>1, <1>2 DEF Next

\* FileAttests: after every save, and whichever process dies or times out, the tip
\* the file records is the tip it has, and every counter replays from its chain.
THEOREM AttestedFile == Spec => []FileAttests
<1>1. Init => AttestInv
  BY AttestsStart DEF Init, AttestInv, Ahead
<1>2. AttestInv => FileAttests
  BY DEF AttestInv, FileAttests
<1> QED
  BY <1>1, <1>2, AttestStep, Invariant, PTL DEF Spec
=============================================================================
