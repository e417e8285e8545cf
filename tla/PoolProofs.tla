----------------------------- MODULE PoolProofs -----------------------------
(***************************************************************************)
(* TaskGuard implements BudgetPool: the proof that every step of every     *)
(* process is a step of the pool or none. Only the rename of a saved copy  *)
(* can be seen from the pool, so the invariant of TaskGuardProofs is       *)
(* extended by what the copy is to the file it will replace.               *)
(***************************************************************************)
EXTENDS TaskGuardPool, TaskGuardProofs

\* Ledger t is s after one event, and the event is one the pool has a step for,
\* or a journal row.
Reserves(s, t, e) ==
  /\ e.kind = "RESERVED" /\ e.op \in BudgetedOps
  /\ s.status = "OPEN" /\ t.status = "OPEN" /\ HasUnit(s, e.op)
Settles(s, t, e) ==
  /\ e.kind \in Outcomes /\ e.op \in BudgetedOps
  /\ t.status = s.status
  /\ \E n \in Unsettled(s, e.op) : e.res = <<s.run, n>>
Closes(s, t, e) == e.kind = "CLOSE" /\ s.status = "OPEN" /\ t.status = "CLOSED"
Journals(s, t, e) == e.kind = "BROKER" /\ t.status = s.status

Moves(s, t) ==
  \E e \in Events :
    /\ Extends(t, s, e)
    /\ Reserves(s, t, e) \/ Settles(s, t, e) \/ Closes(s, t, e) \/ Journals(s, t, e)

\* Every copy that will replace the file is one move ahead of it.
CopyMoves == \A w \in Workers : Ahead(w) => Moves(file, buf[w])

-----------------------------------------------------------------------------
(* What a move does to the pool *)

\* Issued and pending reservations after an event.
LEMMA IssuedAfter ==
  ASSUME NEW s \in Ledgers, NEW e \in Events, NEW t, Extends(t, s, e), OutcomesFit(s),
         e.kind \in Outcomes => e.res # <<s.run, Len(s.events) + 1>>
  PROVE  LET new == IF e.kind = "RESERVED" THEN {Len(s.events) + 1} ELSE {}
         IN  /\ Issued(t) = Issued(s) \cup new
             /\ Pending(t) = (Pending(s) \cup new)
                               \ {n \in Nat : e.kind \in Outcomes /\ e.res = <<s.run, n>>}
<1> DEFINE L == Len(s.events)
           new == IF e.kind = "RESERVED" THEN {L + 1} ELSE {}
<1>1. /\ L \in Nat
      /\ Len(t.events) = L + 1
      /\ \A i \in 1..L : t.events[i] = s.events[i]
      /\ t.events[L + 1] = e
  BY ExtendsEvents
<1>2. /\ 1..Len(t.events) = (1..L) \cup {L + 1}
      /\ (1..L) \cup {L + 1} \subseteq Nat
      /\ L + 1 \notin 1..L
  BY <1>1
<1>3. ~Settled(s, L + 1)
  BY NotYetSettled
<1>4. \A n : Settled(t, n) <=> Settled(s, n) \/ (e.kind \in Outcomes /\ e.res = <<s.run, n>>)
  BY SettledAfter
<1>5. /\ \A n : n \in Issued(s) <=> n \in 1..L /\ s.events[n].kind = "RESERVED"
      /\ \A n : n \in Issued(t) <=> n \in 1..Len(t.events) /\ t.events[n].kind = "RESERVED"
      /\ \A n : n \in Pending(s) <=> n \in Issued(s) /\ ~Settled(s, n)
      /\ \A n : n \in Pending(t) <=> n \in Issued(t) /\ ~Settled(t, n)
  BY DEF Issued, Pending, Settled
<1> HIDE DEF L
<1>6. \A n : n \in Issued(t) <=> n \in Issued(s) \/ n \in new
  BY <1>1, <1>2, <1>5
<1>7. ASSUME NEW n
      PROVE  n \in Pending(t) <=>
               /\ n \in Pending(s) \/ n \in new
               /\ ~(n \in Nat /\ e.kind \in Outcomes /\ e.res = <<s.run, n>>)
  <2>1. n \in new => n = L + 1 /\ ~Settled(s, n)
    BY <1>3
  <2>2. n \in Issued(s) \/ n \in new => n \in Nat
    BY <1>2, <1>5
  <2> QED
    BY <1>4, <1>5, <1>6, <2>1, <2>2
<1> QED
  BY <1>6, <1>7 DEF L

\* A reservation is a charge: a new ticket, held and pending.
LEMMA ReserveIsCharge ==
  ASSUME NEW s, Sound(s), NEW t, NEW e \in Events, Extends(t, s, e), Reserves(s, t, e)
  PROVE  LET o == e.op
             n == Len(s.events) + 1
         IN  /\ n \in Nat /\ n \notin Issued(s) /\ Cardinality(Held(s, o)) < Budgets[o]
             /\ Issued(t) = Issued(s) \cup {n}
             /\ Pending(t) = Pending(s) \cup {n}
             /\ \A p \in BudgetedOps : Held(t, p) = IF p = o THEN Held(s, p) \cup {n} ELSE Held(s, p)
<1> DEFINE o == e.op
           n == Len(s.events) + 1
<1>1. s \in Ledgers /\ OutcomesFit(s) /\ n \in Nat /\ n - 1 = Len(s.events)
  BY LenProperties DEF Sound, Ledgers
<1>2. e.kind = "RESERVED" /\ e.kind # "RELEASED" /\ e.kind \notin Outcomes
  BY DEF Reserves, Outcomes
<1>3. Cardinality(Held(s, o)) < Budgets[o]
  BY DEF Sound, Reserves, HasUnit
<1>4. n \notin Issued(s)
  BY <1>1 DEF Issued
<1>5. Issued(t) = Issued(s) \cup {n} /\ Pending(t) = Pending(s) \cup {n}
  BY <1>1, <1>2, IssuedAfter
<1>6. ASSUME NEW p
      PROVE  Held(t, p) = IF p = o THEN Held(s, p) \cup {n} ELSE Held(s, p)
  <2>1. Held(t, p) = (Held(s, p) \cup (IF e.kind = "RESERVED" /\ e.op = p THEN {n} ELSE {}))
                       \ {m \in Nat : e.kind = "RELEASED" /\ e.res = <<s.run, m>>}
    BY <1>1, <1>2, HeldAfter
  <2> QED
    BY <1>2, <2>1
<1> QED
  BY <1>1, <1>3, <1>4, <1>5, <1>6

\* An outcome is a keep or a refund of a pending ticket.
LEMMA SettleIsKeepOrRefund ==
  ASSUME NEW s, Sound(s), NEW t, NEW e \in Events, Extends(t, s, e), Settles(s, t, e)
  PROVE  \E n \in Pending(s) :
           /\ n \in Nat /\ n \in Held(s, e.op)
           /\ Issued(t) = Issued(s) /\ Pending(t) = Pending(s) \ {n}
           /\ \A p \in BudgetedOps :
                Held(t, p) = IF e.kind = "RELEASED" /\ p = e.op THEN Held(s, p) \ {n} ELSE Held(s, p)
<1>1. PICK n \in Unsettled(s, e.op) : e.res = <<s.run, n>>
  BY DEF Settles
<1>2. /\ n \in Held(s, e.op) /\ n \in 1..Len(s.events) /\ s.events[n].kind = "RESERVED"
      /\ s.events[n].op = e.op /\ ~Settled(s, n)
  BY UnsettledIsHeld
<1>3. s \in Ledgers /\ OutcomesFit(s) /\ Len(s.events) \in Nat
  BY LenProperties DEF Sound, Ledgers
<1>4. e.kind # "RESERVED" /\ e.kind \in Outcomes /\ e.res # <<s.run, Len(s.events) + 1>>
  BY <1>1, <1>2, <1>3 DEF Settles, Outcomes
<1>5. n \in Pending(s) /\ n \in Nat
  BY <1>2, <1>3 DEF Pending, Issued, Settled
<1>6. \A m : e.res = <<s.run, m>> <=> m = n
  BY <1>1
<1>7. {m \in Nat : e.kind \in Outcomes /\ e.res = <<s.run, m>>} = {n}
  BY <1>4, <1>5, <1>6
<1>8. {m \in Nat : e.kind = "RELEASED" /\ e.res = <<s.run, m>>}
        = IF e.kind = "RELEASED" THEN {n} ELSE {}
  BY <1>5, <1>6
<1>9. Issued(t) = Issued(s) /\ Pending(t) = Pending(s) \ {n}
  BY <1>3, <1>4, <1>7, IssuedAfter
<1>10. ASSUME NEW p
       PROVE  Held(t, p) = IF e.kind = "RELEASED" /\ p = e.op THEN Held(s, p) \ {n} ELSE Held(s, p)
  <2>1. Held(t, p) = (Held(s, p) \cup (IF e.kind = "RESERVED" /\ e.op = p
                                         THEN {Len(s.events) + 1} ELSE {}))
                       \ {m \in Nat : e.kind = "RELEASED" /\ e.res = <<s.run, m>>}
    BY <1>3, <1>4, HeldAfter
  <2>2. Held(t, p) = IF e.kind = "RELEASED" THEN Held(s, p) \ {n} ELSE Held(s, p)
    BY <1>4, <1>8, <2>1
  <2>3. p # e.op => n \notin Held(s, p)
    BY <1>2 DEF Held
  <2> QED
    BY <2>2, <2>3
<1> QED
  BY <1>2, <1>5, <1>9, <1>10

\* A close or a journal row moves no ticket.
LEMMA OthersMoveNone ==
  ASSUME NEW s, Sound(s), NEW t, NEW e \in Events, Extends(t, s, e),
         e.kind \in {"CLOSE", "BROKER"}
  PROVE  /\ Issued(t) = Issued(s) /\ Pending(t) = Pending(s)
         /\ \A p \in BudgetedOps : Held(t, p) = Held(s, p)
<1>1. s \in Ledgers /\ OutcomesFit(s)
  BY DEF Sound
<1>2. e.kind # "RESERVED" /\ e.kind # "RELEASED" /\ e.kind \notin Outcomes
  BY DEF Outcomes
<1>3. Issued(t) = Issued(s) /\ Pending(t) = Pending(s)
  BY <1>1, <1>2, IssuedAfter
<1>4. ASSUME NEW p PROVE Held(t, p) = Held(s, p)
  <2>1. Held(t, p) = (Held(s, p) \cup (IF e.kind = "RESERVED" /\ e.op = p
                                         THEN {Len(s.events) + 1} ELSE {}))
                       \ {m \in Nat : e.kind = "RELEASED" /\ e.res = <<s.run, m>>}
    BY <1>1, <1>2, HeldAfter
  <2> QED
    BY <1>2, <2>1
<1> QED
  BY <1>3, <1>4

-----------------------------------------------------------------------------
(* The copy is one move ahead *)

\* A mutated copy is a move.
LEMMA LoadedMoves ==
  ASSUME IInv, NEW w \in Workers, Reserve(w) \/ Commit(w) \/ CloseRun(w) \/ Journal(w)
  PROVE  \E t : Moves(file, t) /\ Loaded(w, t)
<1>1. Sound(file) /\ file \in Ledgers
  BY DEF IInv, Sound
<1>2. CASE Reserve(w)
  <2> DEFINE o == req[w].op
             e == Event("RESERVED", o, Genesis)
             t == [Appended(file, e) EXCEPT !.used[o] = file.used[o] + 1]
  <2>1. /\ o \in BudgetedOps /\ file.status = "OPEN" /\ HasUnit(file, o) /\ Loaded(w, t)
    BY <1>2 DEF Reserve, Bound
  <2>2. e \in Events /\ Extends(t, file, e)
    BY <1>1, <2>1, SoundReserve
  <2>3. t.status = "OPEN"
    <3>1. Appended(file, e) \in Ledgers /\ Appended(file, e).status = "OPEN"
      BY <1>1, <2>1, <2>2, AppendedType
    <3> QED
      BY <3>1 DEF Ledgers
  <2>4. Reserves(file, t, e)
    BY <2>1, <2>3 DEF Reserves, Event
  <2> HIDE DEF t, e
  <2> QED
    BY <2>1, <2>2, <2>4 DEF Moves
<1>3. CASE Commit(w)
  <2> DEFINE o == req[w].op
  <2>1. Live(w) /\ Outcome(w) \in Outcomes
    BY <1>3 DEF Commit, At, Live, Outcome, Outcomes
  <2>2. HoldsIn(file, o, resv[w])
    BY <2>1 DEF IInv, LiveHeld
  <2>3. o \in BudgetedOps /\ \E n \in Unsettled(file, o) : resv[w] = <<file.run, n>>
    BY <2>2 DEF HoldsIn
  <2>4. PICK n \in Unsettled(file, o) : resv[w] = <<file.run, n>>
    BY <2>3
  <2> DEFINE e == Event(Outcome(w), o, <<file.run, n>>)
             c == IF Outcome(w) = "RELEASED" THEN GiveBack(file, o) ELSE file
             t == Appended(c, e)
  <2>5. e \in Events /\ Extends(t, file, e)
    BY <1>1, <2>1, <2>3, SoundOutcome
  <2>6. Loaded(w, t)
    BY <1>3, <2>4 DEF Commit
  <2>7. t.status = file.status
    <3>1. c \in Ledgers /\ c.status = file.status
      BY <1>1, <2>3, GiveBackType
    <3> HIDE DEF c, e
    <3> QED
      BY <2>5, <3>1, AppendedType
  <2>8. e.kind = Outcome(w) /\ e.op = o /\ e.res = <<file.run, n>>
    BY DEF Event
  <2> HIDE DEF t, e
  <2>9. Settles(file, t, e)
    BY <2>1, <2>3, <2>7, <2>8 DEF Settles
  <2> QED
    BY <2>5, <2>6, <2>9 DEF Moves
<1>4. CASE CloseRun(w)
  <2> DEFINE e == Event("CLOSE", NoOp, Genesis)
             c == [file EXCEPT !.status = "CLOSED"]
             t == Appended(c, e)
  <2>1. file.status = "OPEN" /\ Loaded(w, t)
    BY <1>4 DEF CloseRun
  <2>2. e \in Events /\ Extends(t, file, e)
    BY <1>1, <2>1, SoundClose
  <2>3. t.status = "CLOSED"
    <3>1. c \in Ledgers /\ c.status = "CLOSED"
      BY <1>1 DEF Ledgers
    <3> HIDE DEF c, e
    <3> QED
      BY <2>2, <3>1, AppendedType
  <2>4. Closes(file, t, e)
    BY <2>1, <2>3 DEF Closes, Event
  <2> HIDE DEF t, e
  <2> QED
    BY <2>1, <2>2, <2>4 DEF Moves
<1>5. CASE Journal(w)
  <2> DEFINE e == Event("BROKER", NoOp, Genesis)
             t == Appended(file, e)
  <2>1. Loaded(w, t)
    BY <1>5 DEF Journal
  <2>2. e \in Events /\ e.kind = "BROKER"
    BY DEF Event, Events, Kinds, Digests, Genesis
  <2>3. Extends(t, file, e) /\ t.status = file.status
    BY <1>1, <2>2, AppendedType
  <2>4. Journals(file, t, e)
    BY <2>2, <2>3 DEF Journals
  <2> HIDE DEF t, e
  <2> QED
    BY <2>1, <2>2, <2>3, <2>4 DEF Moves
<1> QED
  BY <1>2, <1>3, <1>4, <1>5

\* Every step keeps the copies one move ahead.
LEMMA NextCopyMoves ==
  ASSUME IInv, CopyMoves, [Next]_vars
  PROVE  CopyMoves'
<1>1. CASE UNCHANGED vars
  BY <1>1 DEF CopyMoves, Ahead, Moves, vars, workerVars
<1>2. ASSUME NEW w \in Workers, Reserve(w) \/ Commit(w) \/ CloseRun(w) \/ Journal(w)
      PROVE  CopyMoves'
  <2>1. PICK t : Moves(file, t) /\ Loaded(w, t)
    BY <1>2, LoadedMoves
  <2> QED
    BY <2>1 DEF CopyMoves, Ahead, IInv, TypeOK, Loaded
<1>3. ASSUME NEW w \in Workers, Replace(w)
      PROVE  CopyMoves'
  <2>1. lock = w /\ step' = [step EXCEPT ![w] = "unlock"]
    BY <1>3 DEF IInv, Mutex, Critical, Replace
  <2>2. \A v \in Workers : ~Ahead(v)'
    BY <2>1 DEF IInv, TypeOK, Mutex, Critical, Ahead
  <2> QED
    BY <2>2 DEF CopyMoves
<1>4. ASSUME NEW w \in Workers,
             \/ CallGuarded(w) \/ CallClose(w) \/ CallJournal(w)
             \/ Acquire(w) \/ LockTimeout(w)
             \/ RefuseBinding(w) \/ RefuseBudget(w) \/ RefuseClose(w)
             \/ WriteTemp(w) \/ Unlock(w) \/ Perform(w) \/ LeaveBody(w) \/ Crash(w)
      PROVE  CopyMoves'
  <2>1. file' = file
    BY <1>4 DEF CallGuarded, CallClose, CallJournal, Begin, Acquire, LockTimeout, RefuseBinding,
                RefuseBudget, RefuseClose, Refuse, WriteTemp, Unlock, Perform, LeaveBody, Crash
  <2>2. ASSUME NEW v \in Workers, Ahead(v)'
        PROVE  Ahead(v) /\ buf'[v] = buf[v]
    BY <1>4, <2>2
    DEF IInv, TypeOK, Ahead, CallGuarded, CallClose, CallJournal, Begin, Acquire, LockTimeout,
        RefuseBinding, RefuseBudget, RefuseClose, Refuse, WriteTemp, Unlock, Perform, LeaveBody,
        Crash, workerVars
  <2> QED
    BY <2>1, <2>2 DEF CopyMoves
<1> QED
  BY <1>1, <1>2, <1>3, <1>4 DEF Next, Work, Mutate, Save

-----------------------------------------------------------------------------
(* The refinement *)

\* The ledger starts as a fresh pool.
LEMMA InitRefines == Init => Pool!Init
<1> SUFFICES ASSUME Init PROVE Pool!Init
  OBVIOUS
<1>1. file.status = "OPEN" /\ file.events = <<Event("OPEN", NoOp, Genesis)>>
  BY DEF Init, StartState, Appended
<1>2. Len(file.events) = 1 /\ file.events[1].kind = "OPEN"
  BY <1>1 DEF Event
<1>3. Issued(file) = {} /\ Pending(file) = {} /\ \A o : Held(file, o) = {}
  BY <1>2 DEF Issued, Pending, Held
<1> QED
  BY <1>1, <1>3 DEF Pool!Init

\* A rename is a step of the pool or none.
LEMMA ReplaceRefines ==
  ASSUME Nat \subseteq Tickets, IInv, CopyMoves, NEW w \in Workers, Replace(w)
  PROVE  [Pool!Next]_(Pool!poolVars)
<1>1. Sound(file) /\ Moves(file, file')
  BY DEF IInv, CopyMoves, Ahead, TempIsCopy, Replace
<1>2. PICK e \in Events :
        /\ Extends(file', file, e)
        /\ Reserves(file, file', e) \/ Settles(file, file', e)
           \/ Closes(file, file', e) \/ Journals(file, file', e)
  BY <1>1 DEF Moves
<1>3. CASE Reserves(file, file', e)
  <2> DEFINE n == Len(file.events) + 1
  <2>1. /\ n \in Tickets /\ n \notin Issued(file)
        /\ Cardinality(Held(file, e.op)) < Budgets[e.op]
        /\ Issued(file') = Issued(file) \cup {n}
        /\ Pending(file') = Pending(file) \cup {n}
        /\ \A p \in BudgetedOps :
             Held(file', p) = IF p = e.op THEN Held(file, p) \cup {n} ELSE Held(file, p)
    BY <1>1, <1>2, <1>3, ReserveIsCharge
  <2>2. e.op \in BudgetedOps /\ file.status = "OPEN" /\ file'.status = "OPEN"
    BY <1>3 DEF Reserves
  <2> HIDE DEF n
  <2>3. Pool!Cardinality(Held(file, e.op)) = Cardinality(Held(file, e.op))
    BY DEF Pool!Cardinality, Cardinality
  <2>4. Pool!Charge(e.op, n)
    BY <2>1, <2>2, <2>3 DEF Pool!Charge
  <2> QED
    BY <2>1, <2>2, <2>4 DEF Pool!Next
<1>4. CASE Settles(file, file', e)
  <2>1. PICK n \in Pending(file) :
          /\ n \in Nat /\ n \in Held(file, e.op)
          /\ Issued(file') = Issued(file) /\ Pending(file') = Pending(file) \ {n}
          /\ \A p \in BudgetedOps :
               Held(file', p) = IF e.kind = "RELEASED" /\ p = e.op THEN Held(file, p) \ {n}
                                ELSE Held(file, p)
    BY <1>1, <1>2, <1>4, SettleIsKeepOrRefund
  <2>2. e.op \in BudgetedOps /\ file'.status = file.status /\ n \in Tickets
    BY <1>4, <2>1 DEF Settles
  <2>3. CASE e.kind = "RELEASED"
    <3>1. Pool!Refund(e.op, n)
      BY <2>1, <2>2, <2>3 DEF Pool!Refund
    <3> QED
      BY <2>2, <3>1 DEF Pool!Next
  <2>4. CASE e.kind # "RELEASED"
    <3>1. Pool!Keep(n)
      BY <2>1, <2>2, <2>4 DEF Pool!Keep
    <3> QED
      BY <2>2, <3>1 DEF Pool!Next
  <2> QED
    BY <2>3, <2>4
<1>5. CASE Closes(file, file', e) \/ Journals(file, file', e)
  <2>1. /\ Issued(file') = Issued(file) /\ Pending(file') = Pending(file)
        /\ \A p \in BudgetedOps : Held(file', p) = Held(file, p)
    BY <1>1, <1>2, <1>5, OthersMoveNone DEF Closes, Journals
  <2>2. CASE Closes(file, file', e)
    <3>1. Pool!Close
      BY <2>1, <2>2 DEF Closes, Pool!Close
    <3> QED
      BY <3>1 DEF Pool!Next
  <2>3. CASE Journals(file, file', e)
    BY <2>1, <2>3 DEF Journals, Pool!poolVars
  <2> QED
    BY <1>5, <2>2, <2>3
<1> QED
  BY <1>2, <1>3, <1>4, <1>5

\* No other step can be seen from the pool.
LEMMA NextRefines ==
  ASSUME Nat \subseteq Tickets, IInv, CopyMoves, [Next]_vars
  PROVE  [Pool!Next]_(Pool!poolVars)
<1>1. CASE file' = file
  BY <1>1 DEF Pool!poolVars
<1>2. CASE file' # file
  <2>1. PICK w \in Workers : Replace(w)
    BY <1>2 DEF vars, Next, Work, Mutate, Save, CallGuarded, CallClose, CallJournal, Begin, Acquire,
                LockTimeout, Reserve, RefuseBinding, RefuseBudget, Commit, CloseRun, RefuseClose,
                Journal, Loaded, Refuse, WriteTemp, Unlock, Perform, LeaveBody, Crash
  <2> QED
    BY <2>1, ReplaceRefines
<1> QED
  BY <1>1, <1>2

\* The ledger implements the pool of units, for any instance of either.
THEOREM RefinesPool == Nat \subseteq Tickets => (Spec => ImplementsPool)
<1> SUFFICES ASSUME Nat \subseteq Tickets PROVE Spec => ImplementsPool
  OBVIOUS
<1>1. Init => CopyMoves
  BY DEF Init, CopyMoves, Ahead
<1>2. IInv /\ CopyMoves /\ [Next]_vars => CopyMoves'
  BY NextCopyMoves
<1>3. IInv /\ CopyMoves /\ [Next]_vars => [Pool!Next]_(Pool!poolVars)
  BY NextRefines
<1> QED
  BY <1>1, <1>2, <1>3, Invariant, InitRefines, PTL DEF Spec, ImplementsPool, Pool!Spec
=============================================================================
