----------------------------- MODULE FoilProofs -----------------------------
(***************************************************************************)
(* Theorems about FOIL. First its two decisions: what a profile signal may *)
(* change in a decision of the policy, and what a commit of a repair rests *)
(* on; they hold of every task, signal, candidate and check, so no         *)
(* invariant of the loops that ask for the decisions is needed. Then the   *)
(* file of the intervention ledger: what the temporary file and the rename *)
(* promise without a lock, and what the status of an intervention rests    *)
(* on. Last the profile files: every operation only adds to a profile      *)
(* (Grown), so a copy continues the file it was read from until another    *)
(* command writes that file.                                               *)
(***************************************************************************)
EXTENDS FoilPolicy, FoilAuthority, InterventionLedger, FoilStore, FiniteSetTheorems,
        SequenceTheorems, TLAPS

-----------------------------------------------------------------------------
(* The policy                                                              *)

\* No signal opens no route: the person is not in the decision.
LEMMA NoRoute == \A t : ~Route(t, None)
  BY DEF Route

\* The mode, the resources and the stop read the task alone.
LEMMA EffortIgnoresSignal ==
  \A t, s : /\ Stops(t, s) = Stops(t, None)
            /\ Mode(t, s) = Mode(t, None)
            /\ Allocation(t, s) = Allocation(t, None)
            /\ NextExternal(t, s) = NextExternal(t, None)
            /\ Actions(t, s) = Actions(t, None)
  <1>1. \A t, s : Stops(t, s) = Stops(t, None)
    BY DEF Stops
  <1>2. \A t, s : Mode(t, s) = Mode(t, None)
    BY DEF Mode, Stops
  <1>3. \A t, s : Allocation(t, s) = Allocation(t, None)
    BY DEF Allocation, Mode, Stops
  <1>4. \A t, s : NextExternal(t, s) = NextExternal(t, None)
    BY DEF NextExternal, Allocation, Mode, Stops
  <1>5. \A t, s : Actions(t, s) = Actions(t, None)
    BY DEF Actions
  <1>6. QED
    BY <1>1, <1>2, <1>3, <1>4, <1>5

\* The complement is an action of its own, which nothing but the route adds.
LEMMA OnlyRouteApplies ==
  \A t, s : "apply_targeted_complement" \notin Actions(t, s)
  BY DEF Actions

\* Of a decision, the signal can only choose the target and add its action.
LEMMA SignalOnlyComplements ==
  \A t, s :
    LET with == Decide(t, s)
        without == Decide(t, None)
    IN  /\ [with EXCEPT !.target = None, !.actions = @ \ {"apply_targeted_complement"}] = without
        /\ with.target # None => with.target \in with.complements /\ ~with.stop
  <1> SUFFICES ASSUME NEW t, NEW s
               PROVE  /\ [Decide(t, s) EXCEPT !.target = None,
                            !.actions = @ \ {"apply_targeted_complement"}] = Decide(t, None)
                      /\ Decide(t, s).target # None =>
                           /\ Decide(t, s).target \in Decide(t, s).complements
                           /\ ~Decide(t, s).stop
    OBVIOUS
  <1> DEFINE route == Route(t, s) /\ ~Stops(t, s)
             more == (IF t.contract /\ "output_contract" \in Pending(t)
                      THEN {"check_output_contract"} ELSE {})
             halt == IF Stops(t, None) THEN {"stop"} ELSE {}
             acts == Actions(t, None) \cup more
                       \cup (IF route THEN {"apply_targeted_complement"} ELSE {}) \cup halt
             none == Actions(t, None) \cup more \cup {} \cup halt
  <1>1. Decide(t, s) =
          [regime |-> Regime(t), mode |-> Mode(t, None), stop |-> Stops(t, None),
           complements |-> TaskComplements(t), required |-> Required(t), pending |-> Pending(t),
           allocation |-> Allocation(t, None),
           target |-> IF route THEN s.complement ELSE None, actions |-> acts]
    BY EffortIgnoresSignal DEF Decide
  <1>2. Decide(t, None) =
          [regime |-> Regime(t), mode |-> Mode(t, None), stop |-> Stops(t, None),
           complements |-> TaskComplements(t), required |-> Required(t), pending |-> Pending(t),
           allocation |-> Allocation(t, None), target |-> None, actions |-> none]
    BY NoRoute DEF Decide
  <1>3. acts \ {"apply_targeted_complement"} = none
    BY OnlyRouteApplies
  <1>4. route => s.complement \in TaskComplements(t) /\ ~Stops(t, None)
    BY EffortIgnoresSignal DEF Route
  <1> HIDE DEF route, more, halt, acts, none
  <1>5. [Decide(t, s) EXCEPT !.target = None, !.actions = @ \ {"apply_targeted_complement"}]
          = Decide(t, None)
    <2>1. Decide(t, s).actions = acts
      BY <1>1
    <2>2. PICK d : d = Decide(t, s)
      OBVIOUS
    <2>3. PICK r : r = [d EXCEPT !.target = None]
      OBVIOUS
    <2>4. r = [regime |-> Regime(t), mode |-> Mode(t, None), stop |-> Stops(t, None),
               complements |-> TaskComplements(t), required |-> Required(t),
               pending |-> Pending(t), allocation |-> Allocation(t, None),
               target |-> None, actions |-> acts]
      BY <2>2, <2>3, <1>1
    <2>5. [r EXCEPT !.actions = none] = Decide(t, None)
      BY <2>4, <1>2
    <2>6. [Decide(t, s) EXCEPT !.target = None, !.actions = none] = [r EXCEPT !.actions = none]
      BY <2>2, <2>3, Zenon
    <2>7. QED
      BY <2>1, <2>5, <2>6, <1>3, Zenon
  <1>6. Decide(t, s).target # None =>
          Decide(t, s).target \in Decide(t, s).complements /\ ~Decide(t, s).stop
    BY <1>1, <1>4
  <1>7. QED
    BY <1>5, <1>6

\* Whatever the tasks, the signals and the ceilings are: of what decide returns,
\* the profile moves one complement, which the task needs, and nothing else.
THEOREM PolicyIgnoresPerson == PolicyInit /\ [][PolicyNext]_pvars => []ProfileOnlyComplements
  <1>1. ProfileOnlyComplements
    BY SignalOnlyComplements, EffortIgnoresSignal DEF ProfileOnlyComplements
  <1>2. QED
    BY <1>1, PTL

-----------------------------------------------------------------------------
(* The admission of a repair                                               *)

\* Three parties are three.
LEMMA ThreeDistinct ==
  ASSUME NEW a, NEW b, NEW c, a # b, b # c, a # c
  PROVE  Cardinality({a, b, c}) = 3
  <1>1. IsFiniteSet({}) /\ Cardinality({}) = 0
    BY FS_EmptySet
  <1>2. IsFiniteSet({a}) /\ Cardinality({a}) = 1
    BY FS_Singleton
  <1>3. IsFiniteSet({a} \cup {b}) /\ Cardinality({a} \cup {b}) = 2
    BY <1>2, FS_AddElement
  <1>4. Cardinality(({a} \cup {b}) \cup {c}) = 3
    BY <1>3, FS_AddElement
  <1>5. {a, b, c} = ({a} \cup {b}) \cup {c}
    OBVIOUS
  <1>6. QED
    BY <1>4, <1>5

\* What decide_admission lets through.
LEMMA CommittableMeans ==
  ASSUME NEW c, NEW cert, NEW sem, Admission(c, cert, sem) = "COMMITTABLE"
  PROVE  /\ cert.binding = Binding(c) /\ sem.binding = Binding(c)
         /\ cert.by # c.by /\ sem.by # c.by /\ sem.by # cert.by
         /\ cert.status \notin {"FAIL", "UNKNOWN"} /\ sem.status \notin {"FAIL", "UNKNOWN"}
  BY DEF Admission

\* A check that was made has one of the three statuses, whatever became of the
\* candidate it was made of.
Statuses == {"PASS", "FAIL", "UNKNOWN"}
ChecksTyped ==
  /\ certificate # None => certificate.status \in Statuses
  /\ semantic # None => semantic.status \in Statuses

\* No checks yet.
LEMMA ChecksInit == AuthorityInit => ChecksTyped
  BY DEF AuthorityInit, ChecksTyped

\* A check keeps its type.
LEMMA ChecksStep == ChecksTyped /\ [AuthorityNext]_yvars => ChecksTyped'
  <1> SUFFICES ASSUME ChecksTyped, [AuthorityNext]_yvars PROVE ChecksTyped'
    OBVIOUS
  <1>1. CASE Certify
    BY <1>1 DEF Certify, Checked, ChecksTyped, Statuses
  <1>2. CASE VerifySemantics
    BY <1>2 DEF VerifySemantics, Checked, ChecksTyped, Statuses
  <1>3. CASE Sense \/ Propose \/ AnswerMoves \/ UNCHANGED yvars
    BY <1>3 DEF Sense, Propose, AnswerMoves, yvars, ChecksTyped
  <1>4. QED
    BY <1>1, <1>2, <1>3 DEF AuthorityNext

\* A commit rests on the checks of what is committed.
LEMMA CommitRests == ChecksTyped => CommittableIsCurrent
  <1> SUFFICES ASSUME ChecksTyped, candidate # None,
                      Admission(candidate, certificate, semantic) = "COMMITTABLE"
               PROVE  /\ Cardinality({candidate.by, certificate.by, semantic.by}) = 3
                      /\ \A check \in {certificate, semantic} :
                           /\ check.status = "PASS"
                           /\ check.binding.digest = candidate.digest
                           /\ check.binding.base = candidate.base
                           /\ check.binding.scope = candidate.scope
                           /\ check.binding.obligations = candidate.obligations
    BY DEF CommittableIsCurrent
  <1>1. Cardinality({candidate.by, certificate.by, semantic.by}) = 3
    <2>1. /\ candidate.by # certificate.by
          /\ certificate.by # semantic.by
          /\ candidate.by # semantic.by
      BY CommittableMeans
    <2>2. QED
      BY <2>1, ThreeDistinct
  <1>2. certificate # None /\ semantic # None
    BY DEF Admission
  <1>3. certificate.status = "PASS" /\ semantic.status = "PASS"
    BY <1>2, CommittableMeans DEF ChecksTyped, Statuses
  <1>4. certificate.binding = Binding(candidate) /\ semantic.binding = Binding(candidate)
    BY CommittableMeans
  <1>5. QED
    BY <1>1, <1>3, <1>4 DEF Binding

\* Whoever proposes, checks and moves the answer on, in whatever order, and
\* however many parties and versions there are: a candidate is committable only
\* when two parties without another part in it passed this very candidate.
THEOREM CommitIsCurrent == AuthorityInit /\ [][AuthorityNext]_yvars => []CommittableIsCurrent
  <1>1. QED
    BY ChecksInit, ChecksStep, CommitRests, PTL

-----------------------------------------------------------------------------
(* The file of the intervention ledger                                     *)

LedgerSpec == LedgerInit /\ [][LedgerNext]_lvars

\* A command of s, and one that has opened the temporary file.
Runs(s) == scribe[s] # None
Saves(s) == Runs(s) /\ scribe[s].file # None

Typed ==
  /\ book \in Books \cup {None, Garbled}
  /\ temp \in Books \cup {None, Garbled}
  /\ scribe \in [Scribes -> Commands \cup {None}]
  /\ overlapped \in BOOLEAN

\* A command holds a file from the moment it opens one until it is done.
Opened == \A s \in Scribes : Runs(s) => (scribe[s].step = "open" <=> scribe[s].file = None)

\* Until two saves overlap: one process saves, the handle it holds is on the
\* temporary file, whose content follows its steps, and the ledger is whole.
Alone ==
  ~overlapped =>
    /\ book # Garbled
    /\ \A s, q \in Scribes : Saves(s) /\ Saves(q) => s = q
    /\ \A s \in Scribes : Saves(s) =>
         /\ scribe[s].file = "temp"
         /\ scribe[s].step = "write" => temp = Garbled
         /\ scribe[s].step = "replace" => temp = scribe[s].ledger

FileInv == Typed /\ Opened /\ Alone

\* A blank book is a book.
LEMMA BlankTyped == Blank \in Books
  BY DEF Blank, Books

\* The ledger starts with a file or none.
LEMMA FileInit == LedgerInit => FileInv
  <1> SUFFICES ASSUME LedgerInit PROVE FileInv
    OBVIOUS
  <1>1. [gaps |-> Gaps, remedies |-> Remedies, outcomes |-> <<>>] \in Books
    BY DEF Books
  <1>2. Typed
    BY <1>1 DEF LedgerInit, Typed
  <1>3. Opened /\ Alone
    BY <1>1, LedgerAssumption DEF LedgerInit, Opened, Alone, Runs, Saves
  <1>4. QED
    BY <1>2, <1>3 DEF FileInv

-----------------------------------------------------------------------------
(* A command begins with a copy, of the file or a new one                  *)

\* A command begins.
LEMMA BeginsKeeps ==
  ASSUME FileInv, NEW s \in Scribes, NEW ledger \in Books, Begins(s, ledger)
  PROVE  FileInv'
  <1> DEFINE cmd == [ledger |-> ledger, step |-> "open", file |-> None]
  <1>1. cmd \in Commands
    BY DEF Commands
  <1>2. scribe' = [scribe EXCEPT ![s] = cmd] /\ UNCHANGED <<book, temp, overlapped>>
    BY DEF Begins
  <1>3. scribe[s] = None
    BY DEF Begins
  <1>4. Typed'
    BY <1>1, <1>2 DEF FileInv, Typed
  <1>5. cmd.step = "open" /\ cmd.file = None
    OBVIOUS
  <1>6. \A q \in Scribes : scribe'[q] = IF q = s THEN cmd ELSE scribe[q]
    BY <1>2 DEF FileInv, Typed
  <1> HIDE DEF cmd
  <1>7. Opened'
    BY <1>5, <1>6 DEF FileInv, Opened, Runs
  <1>8. \A q \in Scribes : Saves(q)' => Saves(q) /\ scribe'[q] = scribe[q]
    BY <1>5, <1>6 DEF Saves, Runs
  <1>9. Alone'
    BY <1>2, <1>8 DEF FileInv, Alone
  <1>10. QED
    BY <1>4, <1>7, <1>9 DEF FileInv

\* Every command begins with a book.
LEMMA CommandKeeps ==
  ASSUME FileInv, NEW s \in Scribes,
         NewLedger(s) \/ AddGap(s) \/ AddIntervention(s) \/ AddOutcome(s)
  PROVE  FileInv'
  <1>1. CASE NewLedger(s)
    BY <1>1, BlankTyped, BeginsKeeps DEF NewLedger
  <1>2. Readable => book \in Books
    BY DEF FileInv, Typed, Readable
  <1>3. CASE AddGap(s)
    <2>1. PICK g \in Gaps : Begins(s, [book EXCEPT !.gaps = @ \cup {g}])
      BY <1>3 DEF AddGap
    <2>2. [book EXCEPT !.gaps = @ \cup {g}] \in Books
      BY <1>2, <1>3 DEF AddGap, Books
    <2>3. QED
      BY <2>1, <2>2, BeginsKeeps
  <1>4. CASE AddIntervention(s)
    <2>1. PICK r \in Remedies : Begins(s, [book EXCEPT !.remedies = @ \cup {r}])
      BY <1>4 DEF AddIntervention
    <2>2. [book EXCEPT !.remedies = @ \cup {r}] \in Books
      BY <1>2, <1>4 DEF AddIntervention, Books
    <2>3. QED
      BY <2>1, <2>2, BeginsKeeps
  <1>5. CASE AddOutcome(s)
    <2>1. PICK r \in book.remedies, f \in Findings :
            Begins(s, [book EXCEPT !.outcomes = Append(@, [remedy |-> r, finding |-> f])])
      BY <1>5 DEF AddOutcome
    <2> DEFINE rows == [remedy : Remedies, finding : Findings]
    <2>2. /\ book \in [gaps : SUBSET Gaps, remedies : SUBSET Remedies, outcomes : Seq(rows)]
          /\ [remedy |-> r, finding |-> f] \in rows
      BY <1>2, <1>5 DEF AddOutcome, Books
    <2>3. Append(book.outcomes, [remedy |-> r, finding |-> f]) \in Seq(rows)
      BY <2>2
    <2> HIDE DEF rows
    <2>4. [book EXCEPT !.outcomes = Append(@, [remedy |-> r, finding |-> f])]
            \in [gaps : SUBSET Gaps, remedies : SUBSET Remedies, outcomes : Seq(rows)]
      BY <2>2, <2>3
    <2>5. QED
      BY <2>1, <2>4, BeginsKeeps DEF Books, rows
  <1>6. QED
    BY <1>1, <1>3, <1>4, <1>5

-----------------------------------------------------------------------------
(* The steps of a save                                                     *)

\* Opening the temporary file.
LEMMA OpenKeeps ==
  ASSUME FileInv, NEW s \in Scribes, OpenTemp(s)
  PROVE  FileInv'
  <1>1. /\ temp' = Garbled /\ book' = book
        /\ scribe' = [scribe EXCEPT ![s].step = "write", ![s].file = "temp"]
        /\ overlapped' = (overlapped \/ Saving # {})
    BY DEF OpenTemp, Put, Target
  <1>2. scribe[s] \in Commands
    BY DEF FileInv, Typed, OpenTemp
  <1>3. \A q \in Scribes \ {s} : scribe'[q] = scribe[q]
    BY <1>1 DEF FileInv, Typed
  <1>4. /\ scribe'[s] \in Commands
        /\ scribe'[s].step = "write" /\ scribe'[s].file = "temp"
    BY <1>1, <1>2 DEF FileInv, Typed, Commands
  <1>5. Typed'
    <2>1. scribe' \in [Scribes -> Commands \cup {None}]
      BY <1>1, <1>3, <1>4 DEF FileInv, Typed
    <2>2. QED
      BY <1>1, <2>1 DEF FileInv, Typed
  <1>6. Opened'
    BY <1>3, <1>4, LedgerAssumption DEF FileInv, Opened, Runs
  <1>7. ASSUME ~overlapped' PROVE \A q \in Scribes \ {s} : ~Saves(q)'
    BY <1>1, <1>3, <1>7 DEF Saving, Saves, Runs
  <1>8. ~overlapped' => book' # Garbled
    BY <1>1 DEF FileInv, Alone
  <1>9. Alone'
    BY <1>1, <1>4, <1>7, <1>8 DEF Alone
  <1>10. QED
    BY <1>5, <1>6, <1>9 DEF FileInv

\* Writing it.
LEMMA WriteKeeps ==
  ASSUME FileInv, NEW s \in Scribes, WriteTemp(s)
  PROVE  FileInv'
  <1>1. scribe[s] \in Commands /\ scribe[s].step = "write" /\ scribe[s].file # None
    BY DEF FileInv, Typed, Opened, Runs, WriteTemp
  <1>2. /\ scribe' = [scribe EXCEPT ![s].step = "replace"]
        /\ UNCHANGED overlapped
    BY DEF WriteTemp
  <1>3. PICK content \in {scribe[s].ledger} \cup (IF SaveFile(s) = Garbled THEN {} ELSE {Garbled}) :
          Put(scribe[s].file, content)
    BY DEF WriteTemp
  <1>4. content \in Books \cup {Garbled}
    BY <1>1 DEF Commands
  <1>5. \A q \in Scribes \ {s} : scribe'[q] = scribe[q]
    BY <1>2 DEF FileInv, Typed
  <1>6. /\ scribe'[s] \in Commands
        /\ scribe'[s].step = "replace"
        /\ scribe'[s].file = scribe[s].file /\ scribe'[s].ledger = scribe[s].ledger
    BY <1>1, <1>2 DEF FileInv, Typed, Commands
  <1>7. Typed'
    <2>1. scribe' \in [Scribes -> Commands \cup {None}]
      BY <1>2, <1>5, <1>6 DEF FileInv, Typed
    <2>2. book' \in Books \cup {None, Garbled} /\ temp' \in Books \cup {None, Garbled}
      BY <1>3, <1>4 DEF Put, FileInv, Typed
    <2>3. QED
      BY <1>2, <2>1, <2>2 DEF FileInv, Typed
  <1>8. Opened'
    BY <1>1, <1>5, <1>6 DEF FileInv, Opened, Runs
  <1>9. ASSUME ~overlapped' PROVE temp' = scribe[s].ledger /\ book' = book
    <2>1. scribe[s].file = "temp" /\ temp = Garbled
      BY <1>1, <1>2, <1>9, LedgerAssumption DEF FileInv, Alone, Saves, Runs
    <2>2. SaveFile(s) = Garbled
      BY <2>1 DEF SaveFile
    <2>3. QED
      BY <1>3, <2>1, <2>2 DEF Put
  <1>10. \A q \in Scribes : Saves(q)' => Saves(q)
    BY <1>1, <1>5, <1>6, LedgerAssumption DEF Saves, Runs
  <1>11. Saves(s)
    BY <1>1, LedgerAssumption DEF Saves, Runs
  <1>12. ASSUME ~overlapped', NEW q \in Scribes, Saves(q)' PROVE q = s
    BY <1>2, <1>10, <1>11, <1>12 DEF FileInv, Alone
  <1>13. ~overlapped' => scribe'[s].file = "temp"
    BY <1>2, <1>6, <1>11 DEF FileInv, Alone
  <1>14. ~overlapped' => book' # Garbled
    BY <1>2, <1>9 DEF FileInv, Alone
  <1>15. Alone'
    BY <1>6, <1>9, <1>12, <1>13, <1>14 DEF Alone
  <1>16. QED
    BY <1>7, <1>8, <1>15 DEF FileInv

\* Renaming it.
LEMMA ReplaceKeeps ==
  ASSUME FileInv, NEW s \in Scribes, ReplaceBook(s)
  PROVE  FileInv'
  <1>1. scribe[s] \in Commands /\ scribe[s].step = "replace" /\ scribe[s].file # None
    BY DEF FileInv, Typed, Opened, Runs, ReplaceBook
  <1> DEFINE moved(q) ==
        [scribe[q] EXCEPT !.file = CASE @ = "temp" -> "book" [] @ = "book" -> "gone"
                                     [] OTHER -> @]
  <1>2. \A q \in Scribes :
          scribe'[q] = IF q = s THEN None
                       ELSE IF scribe[q] = None \/ temp = None THEN scribe[q] ELSE moved(q)
    BY DEF ReplaceBook
  <1>3. \A q \in Scribes : scribe[q] # None =>
          /\ moved(q) \in Commands
          /\ moved(q).step = scribe[q].step /\ moved(q).ledger = scribe[q].ledger
          /\ moved(q).file = None <=> scribe[q].file = None
    <2> SUFFICES ASSUME NEW q \in Scribes, scribe[q] \in Commands
                 PROVE  /\ moved(q) \in Commands
                        /\ moved(q).step = scribe[q].step /\ moved(q).ledger = scribe[q].ledger
                        /\ moved(q).file = None <=> scribe[q].file = None
      BY DEF FileInv, Typed
    <2> DEFINE f == CASE scribe[q].file = "temp" -> "book" [] scribe[q].file = "book" -> "gone"
                      [] OTHER -> scribe[q].file
    <2>1. f \in {None, "temp", "book", "gone"} /\ (f = None <=> scribe[q].file = None)
      BY LedgerAssumption DEF Commands
    <2>2. moved(q) = [scribe[q] EXCEPT !.file = f]
      OBVIOUS
    <2> HIDE DEF f, moved
    <2>3. QED
      BY <2>1, <2>2 DEF Commands
  <1> HIDE DEF moved
  <1>4. /\ book' = IF temp = None THEN book ELSE temp
        /\ temp' = None /\ UNCHANGED overlapped
    BY DEF ReplaceBook
  <1>5. scribe' \in [Scribes -> Commands \cup {None}]
    <2>1. scribe' = [q \in Scribes |-> scribe'[q]]
      BY DEF ReplaceBook
    <2>2. \A q \in Scribes : scribe'[q] \in Commands \cup {None}
      BY <1>2, <1>3 DEF FileInv, Typed
    <2>3. QED
      BY <2>1, <2>2
  <1>6. Typed'
    BY <1>4, <1>5 DEF FileInv, Typed
  <1>7. Opened'
    BY <1>2, <1>3 DEF FileInv, Opened, Runs
  <1>8. \A q \in Scribes : Saves(q)' => Saves(q) /\ q # s
    BY <1>2, <1>3 DEF Saves, Runs
  <1>9. Saves(s)
    BY <1>1, LedgerAssumption DEF Saves, Runs
  <1>10. ~overlapped' => \A q \in Scribes : ~Saves(q)'
    BY <1>4, <1>8, <1>9 DEF FileInv, Alone
  <1>11. ~overlapped' => book' # Garbled
    <2> SUFFICES ASSUME ~overlapped' PROVE book' # Garbled
      OBVIOUS
    <2>1. temp = scribe[s].ledger
      BY <1>1, <1>4, <1>9 DEF FileInv, Alone
    <2>2. temp \in Books
      BY <1>1, <2>1 DEF Commands
    <2>3. QED
      BY <1>4, <2>2, LedgerAssumption
  <1>12. Alone'
    BY <1>10, <1>11 DEF Alone
  <1>13. QED
    BY <1>6, <1>7, <1>12 DEF FileInv

\* Dying with it half written.
LEMMA DiesKeeps ==
  ASSUME FileInv, NEW s \in Scribes, Dies(s)
  PROVE  FileInv'
  <1>1. scribe' = [scribe EXCEPT ![s] = None] /\ UNCHANGED <<book, temp, overlapped>>
    BY DEF Dies
  <1>2. Typed'
    BY <1>1 DEF FileInv, Typed
  <1>3. \A q \in Scribes : Runs(q)' => Runs(q) /\ scribe'[q] = scribe[q]
    BY <1>1 DEF FileInv, Typed, Runs
  <1>4. Opened'
    BY <1>3 DEF FileInv, Opened
  <1>5. Alone'
    BY <1>1, <1>3 DEF FileInv, Alone, Saves
  <1>6. QED
    BY <1>2, <1>4, <1>5 DEF FileInv

\* Every step.
LEMMA FileStep == FileInv /\ [LedgerNext]_lvars => FileInv'
  <1> SUFFICES ASSUME FileInv, [LedgerNext]_lvars PROVE FileInv'
    OBVIOUS
  <1>1. CASE UNCHANGED lvars
    BY <1>1 DEF lvars, FileInv, Typed, Opened, Alone, Runs, Saves
  <1>2. ASSUME NEW s \in Scribes,
               \/ NewLedger(s) \/ AddGap(s) \/ AddIntervention(s) \/ AddOutcome(s)
               \/ OpenTemp(s) \/ WriteTemp(s) \/ ReplaceBook(s) \/ Dies(s)
        PROVE  FileInv'
    BY <1>2, CommandKeeps, OpenKeeps, WriteKeeps, ReplaceKeeps, DiesKeeps
  <1>3. QED
    BY <1>1, <1>2 DEF LedgerNext

\* However many processes record, and wherever they die: the ledger file is
\* unreadable only after two saves ran at once. A temporary file that a dead
\* process left behind is truncated by the next, and never renamed half written.
THEOREM WholeWhileAlone == LedgerSpec => []GarbledNeedsOverlap
  <1>1. FileInv => GarbledNeedsOverlap
    BY DEF FileInv, Alone, GarbledNeedsOverlap
  <1>2. QED
    BY FileInit, FileStep, <1>1, PTL DEF LedgerSpec

-----------------------------------------------------------------------------
(* What a status rests on                                                  *)

\* Of a set of ranks of the phases there is a strongest.
LEMMA StrongestHeld ==
  ASSUME NEW held \in SUBSET (1..4), held # {}
  PROVE  \E n \in held : \A m \in held : n <= m
  <1>1. CASE 1 \in held
    BY <1>1
  <1>2. CASE 1 \notin held /\ 2 \in held
    BY <1>2
  <1>3. CASE 1 \notin held /\ 2 \notin held /\ 3 \in held
    BY <1>3
  <1>4. CASE 1 \notin held /\ 2 \notin held /\ 3 \notin held
    <2>1. \A m \in held : m \in 1..4 /\ m # 1 /\ m # 2 /\ m # 3
      BY <1>4
    <2>2. \A m \in held : m = 4
      BY <2>1
    <2>3. 4 \in held
      BY <2>2
    <2>4. QED
      BY <2>2, <2>3
  <1>5. QED
    BY <1>1, <1>2, <1>3, <1>4

\* A phase that is the status of an intervention is one whose latest row passed.
LEMMA StatusPassed ==
  ASSUME NEW out, NEW r, Status(out, r) \in Phases
  PROVE  Passed(out, r, Status(out, r))
  <1> DEFINE held == {n \in DOMAIN Strongest : Passed(out, r, Strongest[n])}
  <1>1. DOMAIN Strongest = 1..4
    BY DEF Strongest
  <1>2. CASE held = {}
    <2>1. Status(out, r) \in {"verified failure", "none"}
      BY <1>2 DEF Status
    <2>2. QED
      BY <2>1 DEF Phases
  <1>3. CASE held # {}
    <2> DEFINE first == CHOOSE n \in held : \A m \in held : n <= m
    <2>1. Status(out, r) = Strongest[first]
      BY <1>3 DEF Status
    <2>2. \E n \in held : \A m \in held : n <= m
      BY <1>1, <1>3, StrongestHeld
    <2>3. first \in held
      BY <2>2
    <2> HIDE DEF first
    <2>4. QED
      BY <2>1, <2>3
  <1>4. QED
    BY <1>2, <1>3

\* The outcomes of a remedy are rows of the book.
LEMMA RowsOf ==
  ASSUME NEW S, NEW s \in Seq(S)
  PROVE  \A k \in DOMAIN s : s[k] \in S
  OBVIOUS

\* The status rests on the rows it was computed from.
LEMMA StatusRests == Typed => ClaimRestsOnOwnWork
  <1> SUFFICES ASSUME Typed, Readable, NEW r \in book.remedies,
                      Status(book.outcomes, r) \in Phases \ {"immediate"}
               PROVE
    LET phase == Status(book.outcomes, r)
        own(k) == /\ book.outcomes[k].remedy = r
                  /\ book.outcomes[k].finding.phase = phase
                  /\ book.outcomes[k].finding.verified
                  /\ book.outcomes[k].finding.label = "A0"
                  /\ book.outcomes[k].finding.owner = "USER"
        passes == {k \in DOMAIN book.outcomes : own(k) /\ book.outcomes[k].finding.result = "pass"}
        losses == {k \in DOMAIN book.outcomes : own(k) /\ book.outcomes[k].finding.result # "pass"}
    IN  \E k \in passes : \A j \in losses :
          book.outcomes[j].finding.at <= book.outcomes[k].finding.at
    BY DEF ClaimRestsOnOwnWork
  <1> DEFINE out == book.outcomes
             phase == Status(out, r)
             own(k) == /\ out[k].remedy = r /\ out[k].finding.phase = phase
                       /\ out[k].finding.verified /\ out[k].finding.label = "A0"
                       /\ out[k].finding.owner = "USER"
             rows == {k \in DOMAIN out : out[k].remedy = r /\ AdmissibleIn(out[k].finding, phase)}
  <1>1. \A k \in DOMAIN out : out[k].finding.at \in Int
    <2>1. out \in Seq([remedy : Remedies, finding : Findings])
      BY DEF Typed, Readable, Books
    <2> DEFINE row == [remedy : Remedies, finding : Findings]
    <2>2. \A k \in DOMAIN out : out[k] \in row
      BY <2>1, RowsOf
    <2>3. QED
      BY <2>2, LedgerAssumption
  <1>2. Passed(out, r, phase)
    BY StatusPassed
  <1>3. PICK k \in rows : /\ \A j \in rows \ {k} : After(out, k, j)
                         /\ out[k].finding.result = "pass"
    BY <1>2 DEF Passed
  <1>4. \A j \in DOMAIN out : j \in rows <=> own(j)
    BY DEF AdmissibleIn
  <1> HIDE DEF out, phase, rows
  <1>5. ASSUME NEW j \in DOMAIN out, own(j), out[j].finding.result # "pass"
        PROVE  out[j].finding.at <= out[k].finding.at
    <2>1. j \in rows \ {k}
      BY <1>3, <1>4, <1>5
    <2>2. After(out, k, j)
      BY <1>3, <2>1
    <2>3. out[k].finding.at \in Int /\ out[j].finding.at \in Int
      BY <1>1, <1>3 DEF rows
    <2>4. QED
      BY <2>2, <2>3 DEF After
  <1>6. k \in DOMAIN out /\ own(k) /\ out[k].finding.result = "pass"
    BY <1>3, <1>4 DEF rows
  <1>7. QED
    BY <1>5, <1>6 DEF out, phase

\* Whatever is recorded, by whom and in which order: a status above immediate
\* rests on verified work of the person alone that no later loss took back.
THEOREM ClaimsRest == LedgerSpec => []ClaimRestsOnOwnWork
  <1>1. FileInv => ClaimRestsOnOwnWork
    BY StatusRests DEF FileInv
  <1>2. QED
    BY FileInit, FileStep, <1>1, PTL DEF LedgerSpec

-----------------------------------------------------------------------------
(* Numbers and sums                                                        *)

\* The numbers up to another are finitely many.
LEMMA UpToFinite == \A n \in Nat : IsFiniteSet(1..n)
  BY FS_Interval

\* A set of numbers that is not empty has a least one.
LEMMA LeastIn ==
  ASSUME NEW T \in SUBSET Nat, T # {}
  PROVE  \E n \in T : \A m \in T : n <= m
<1>1. PICK n \in T : \A m \in T : ~(<<m, n>> \in OpToRel(<, Nat))
  BY NatLessThanWellFounded, WFMin
<1>2. \A m \in T : ~(m < n)
  BY <1>1 DEF OpToRel
<1> QED
  BY <1>2

\* What starts in a set and never leaves it in a step stays there.
LEMMA StaysIn ==
  ASSUME NEW n \in Nat, NEW f, NEW S, f[0] \in S, \A k \in 1..n : f[k - 1] \in S => f[k] \in S
  PROVE  \A k \in 0..n : f[k] \in S
<1> DEFINE Out == {k \in 0..n : f[k] \notin S}
<1> SUFFICES ASSUME Out # {} PROVE FALSE
  OBVIOUS
<1>0. Out \in SUBSET Nat
  OBVIOUS
<1>1. PICK k \in Out : \A m \in Out : k <= m
  BY <1>0, LeastIn
<1>2. k \in 1..n /\ k - 1 \in 0..n /\ k - 1 \notin Out
  BY <1>1
<1> QED
  BY <1>1, <1>2

Steppers(n, S) == [1..n -> [S -> S]]
Iterated(f, n, S, first, step) ==
  f \in [0..n -> S] /\ f[0] = first /\ \A k \in 1..n : f[k] = step[k][f[k - 1]]

\* A first value and a step that stays in a set give a sequence of values.
LEMMA Iterates ==
  ASSUME NEW n \in Nat, NEW S, NEW first \in S, NEW step \in Steppers(n, S)
  PROVE  \E f : Iterated(f, n, S, first, step)
<1>0. step \in [1..n -> [S -> S]]
  BY DEF Steppers
<1> DEFINE Good(f, k) == f[0] = first /\ \A i \in 1..k : f[i] = step[i][f[i - 1]]
           Open == {k \in 0..n : ~ \E f \in [0..k -> S] : Good(f, k)}
<1>1. Open = {}
  <2> SUFFICES ASSUME Open # {} PROVE FALSE
    OBVIOUS
  <2>0. Open \in SUBSET Nat
    OBVIOUS
  <2>1. PICK k \in Open : \A m \in Open : k <= m
    BY <2>0, LeastIn
  <2>2. k # 0
    <3> DEFINE g == [i \in 0..0 |-> first]
    <3>1. g \in [0..0 -> S] /\ Good(g, 0)
      OBVIOUS
    <3> QED
      BY <3>1
  <2>3. k \in 1..n /\ k - 1 \in 0..n /\ k - 1 \notin Open
    <3>1. k \in 0..n
      BY <2>1
    <3> HIDE DEF Open
    <3> QED
      BY <2>1, <2>2, <3>1
  <2>4. PICK f \in [0..(k - 1) -> S] : Good(f, k - 1)
    BY <2>3
  <2> DEFINE last == step[k][f[k - 1]]
             g == [i \in 0..k |-> IF i = k THEN last ELSE f[i]]
  <2>5. f[k - 1] \in S /\ last \in S
    BY <1>0, <2>3, <2>4
  <2> HIDE DEF last
  <2>6. g \in [0..k -> S]
    BY <2>3, <2>4, <2>5
  <2>7. g[0] = first
    BY <2>3, <2>4
  <2>8. ASSUME NEW i \in 1..k PROVE g[i] = step[i][g[i - 1]]
    <3>1. CASE i = k
      BY <2>3, <2>4, <3>1 DEF last
    <3>2. CASE i # k
      <4>1. i \in 1..(k - 1) /\ i \in 0..k /\ i - 1 \in 0..k /\ i - 1 # k
        BY <2>3, <3>2
      <4>2. g[i] = f[i] /\ g[i - 1] = f[i - 1]
        BY <4>1, <3>2
      <4>3. f[i] = step[i][f[i - 1]]
        BY <2>4, <4>1
      <4> QED
        BY <4>2, <4>3
    <3> QED
      BY <3>1, <3>2
  <2> HIDE DEF g
  <2>9. Good(g, k)
    BY <2>7, <2>8
  <2> QED
    BY <2>1, <2>6, <2>9
<1>2. \E f \in [0..n -> S] : Good(f, n)
  <2>1. n \in 0..n
    OBVIOUS
  <2> HIDE DEF Good
  <2> QED
    BY <1>1, <2>1
<1> QED
  BY <1>2 DEF Iterated

\* More of what weighs as much is enough when less was.
LEMMA MoreOf ==
  ASSUME NEW a \in Nat, NEW b \in Nat, NEW w \in Nat, NEW l \in Nat, NEW e \in Nat,
         a <= b, e <= a * w, e >= l
  PROVE  b * w >= l
<1>1. PICK c \in Nat : b = a + c
  <2>1. b - a \in Nat /\ b = a + (b - a)
    OBVIOUS
  <2> QED
    BY <2>1
<1>2. (a + c) * w = a * w + c * w /\ c * w \in Nat /\ a * w \in Nat
  OBVIOUS
<1> QED
  BY <1>1, <1>2

\* One observation more weighs one weight more.
LEMMA OneMore == \A c, w \in Nat : (c + 1) * w = c * w + w /\ c * w \in Nat
  OBVIOUS

\* The sum over k observations of which the picked ones weigh at most w each.
LEMMA SumBound ==
  ASSUME NEW n \in Nat, NEW picked \in SUBSET (1..n), NEW w \in Nat, NEW f \in [0..n -> Nat],
         f[0] = 0, \A k \in 1..n : f[k] <= f[k - 1] + IF k \in picked THEN w ELSE 0
  PROVE  IsFiniteSet(picked) /\ f[n] <= Cardinality(picked) * w
<1> DEFINE Up(k) == picked \cap (1..k)
           Bad == {k \in 0..n : ~(f[k] <= Cardinality(Up(k)) * w)}
<1>1. \A k \in 0..n : IsFiniteSet(Up(k)) /\ Cardinality(Up(k)) \in Nat
  <2> TAKE k \in 0..n
  <2>1. IsFiniteSet(1..k)
    BY UpToFinite
  <2>2. Up(k) \in SUBSET (1..k)
    OBVIOUS
  <2> HIDE DEF Up
  <2> QED
    BY <2>1, <2>2, FS_Subset, FS_CardinalityType
<1>2. Bad = {}
  <2> SUFFICES ASSUME Bad # {} PROVE FALSE
    OBVIOUS
  <2>0. Bad \in SUBSET Nat
    OBVIOUS
  <2>1. PICK k \in Bad : \A m \in Bad : k <= m
    BY <2>0, LeastIn
  <2>2. k # 0
    <3>1. Up(0) = {}
      OBVIOUS
    <3>2. Cardinality(Up(0)) = 0
      BY <3>1, FS_EmptySet
    <3>3. 0 * w = 0
      OBVIOUS
    <3>4. 0 <= Cardinality(Up(0)) * w
      BY <3>2, <3>3
    <3> HIDE DEF Up
    <3> QED
      BY <2>1, <3>4
  <2>3. k \in 1..n /\ k - 1 \in 0..n /\ k - 1 \notin Bad
    BY <2>1, <2>2
  <2>4. f[k - 1] <= Cardinality(Up(k - 1)) * w
    BY <2>3
  <2>5. CASE k \notin picked
    <3>1. Up(k) = Up(k - 1)
      BY <2>3, <2>5
    <3> QED
      <4>1. f[k] <= f[k - 1] + 0 /\ f[k] \in Nat /\ f[k - 1] \in Nat
        BY <2>3, <2>5
      <4>2. Cardinality(Up(k - 1)) * w \in Nat
        BY <1>1, <2>3, OneMore
      <4>3. f[k] <= Cardinality(Up(k)) * w
        <5>1. Cardinality(Up(k)) = Cardinality(Up(k - 1))
          BY <3>1
        <5> HIDE DEF Up
        <5> QED
          BY <2>4, <4>1, <4>2, <5>1
      <4> QED
        BY <2>1, <4>3
  <2>6. CASE k \in picked
    <3>1. Up(k) = Up(k - 1) \cup {k} /\ k \notin Up(k - 1)
      BY <2>3, <2>6
    <3>2. Cardinality(Up(k)) = Cardinality(Up(k - 1)) + 1
      BY <1>1, <2>3, <3>1, FS_AddElement
    <3> DEFINE c == Cardinality(Up(k - 1))
    <3>3. c \in Nat /\ (c + 1) * w = c * w + w
      BY <1>1, <2>3, OneMore
    <3>4. f[k] <= c * w + w
      <4>1. f[k] <= f[k - 1] + w /\ f[k] \in Nat /\ f[k - 1] \in Nat
        BY <2>3, <2>6
      <4>2. c * w \in Nat
        BY <3>3, OneMore
      <4> QED
        BY <2>4, <4>1, <4>2
    <3> QED
      BY <2>1, <3>2, <3>3, <3>4
  <2> QED
    BY <2>5, <2>6
<1>3. Up(n) = picked
  OBVIOUS
<1>4. n \in 0..n /\ n \notin Bad
  <2>1. n \in 0..n
    OBVIOUS
  <2> HIDE DEF Bad
  <2> QED
    BY <1>2, <2>1
<1>5. f[n] <= Cardinality(Up(n)) * w
  BY <1>4
<1>6. IsFiniteSet(Up(n))
  BY <1>1, <1>4
<1> QED
  BY <1>3, <1>5, <1>6

-----------------------------------------------------------------------------
(* What the estimator says is earned                                       *)

\* Observations a v2 profile may hold at a time, and the tier each has.
SoundAt(now) ==
  {o \in Observations : o.tier = Tier(o) /\ (o.time # None => o.time \in 0..now)}
Owned(obs) == {k \in DOMAIN obs : obs[k].right # None /\ Own(obs[k])}
Earned(row) ==
  /\ Cardinality(Owned(row.obs)) * Weight("REAL_WORK", 0) >= Least
  /\ \E k \in Owned(row.obs) : \/ None \in {row.seen, row.obs[k].time}
                               \/ row.seen - row.obs[k].time <= Horizon
RowsAt(now) ==
  {r \in Rows(Observations) :
     /\ \A k \in DOMAIN r.obs : r.obs[k] \in SoundAt(now)
     /\ r.class \in LoadBearing => Earned(r)
     /\ r.class \notin Classifications => r.obs = <<>>}
ProfilesAt(now) ==
  {p \in Profiles : \A d \in Domains : p.rows[d] # None => p.rows[d] \in RowsAt(now)}

\* What an observation weighs at a time the clock can show.
LEMMA WeightOf ==
  ASSUME NEW now \in 0..MaxClock, NEW o \in SoundAt(now)
  PROVE  /\ Age(o, now) \in 0..MaxClock
         /\ Weight(o.tier, Age(o, now)) \in 0..Weight(o.tier, 0)
         /\ Weight(o.tier, 0) \in Nat
<1>1. o.tier \in Tiers /\ (o.time # None => o.time \in 0..now)
  BY DEF SoundAt, Observations
<1>2. MaxClock \in Nat
  BY StoreAssumption
<1>3. Age(o, now) \in 0..MaxClock
  BY <1>1, <1>2 DEF Age
<1> QED
  BY <1>1, <1>3, StoreAssumption, EvidenceAssumption

\* The real work of a row weighs at most as much as it would when fresh.
LEMMA EffectiveBound ==
  ASSUME NEW now \in 0..MaxClock, NEW obs \in Seq(Observations),
         \A k \in DOMAIN obs : obs[k] \in SoundAt(now)
  PROVE  /\ IsFiniteSet(RealWork(obs)) /\ Cardinality(RealWork(obs)) \in Nat
         /\ Effective(obs, now, RealWork(obs)) \in Nat
         /\ Effective(obs, now, RealWork(obs))
              <= Cardinality(RealWork(obs)) * Weight("REAL_WORK", 0)
<1> DEFINE n == Len(obs)
           picked == RealWork(obs)
           w == Weight("REAL_WORK", 0)
           gain(k) == IF k \in picked THEN Weight(obs[k].tier, Age(obs[k], now)) ELSE 0
           Step(g) == [k \in 0..n |-> IF k = 0 THEN 0 ELSE g[k - 1] + gain(k)]
           sum == CHOOSE g : g = Step(g)
<1>1. n \in Nat /\ DOMAIN obs = 1..n
  OBVIOUS
<1>2. picked \in SUBSET (1..n) /\ \A k \in picked : obs[k].tier = "REAL_WORK" /\ k \in DOMAIN obs
  BY <1>1 DEF RealWork, Answered
<1>3. w \in Nat
  BY EvidenceAssumption DEF Tiers
<1>4. Effective(obs, now, picked) = sum[n]
  BY DEF Effective
<1>5. ASSUME NEW k \in 1..n
      PROVE  gain(k) \in Nat /\ gain(k) <= IF k \in picked THEN w ELSE 0
  <2>1. CASE k \in picked
    <3>1. Weight(obs[k].tier, Age(obs[k], now)) \in 0..Weight(obs[k].tier, 0)
      BY <1>2, <2>1, WeightOf
    <3>2. obs[k].tier = "REAL_WORK"
      BY <1>2, <2>1
    <3> QED
      BY <1>3, <2>1, <3>1, <3>2
  <2>2. CASE k \notin picked
    BY <2>2
  <2> QED
    BY <2>1, <2>2
<1> HIDE DEF n, picked, w, gain
<1> DEFINE step == [k \in 1..n |-> [x \in Nat |-> x + gain(k)]]
<1>6. step \in [1..n -> [Nat -> Nat]]
  BY <1>5
<1>7. PICK f \in [0..n -> Nat] : f[0] = 0 /\ \A k \in 1..n : f[k] = step[k][f[k - 1]]
  <2>1. 0 \in Nat /\ step \in Steppers(n, Nat)
    BY <1>6 DEF Steppers
  <2> HIDE DEF step
  <2>2. \E f : Iterated(f, n, Nat, 0, step)
    BY <1>1, <2>1, Iterates
  <2> QED
    BY <2>2 DEF Iterated
<1>8. f = Step(f)
  <2>1. ASSUME NEW k \in 0..n PROVE f[k] = IF k = 0 THEN 0 ELSE f[k - 1] + gain(k)
    <3>1. CASE k = 0
      BY <1>7, <3>1
    <3>2. CASE k # 0
      <4>1. k \in 1..n /\ k - 1 \in 0..n
        BY <1>1, <3>2
      <4>2. f[k - 1] \in Nat /\ f[k] = step[k][f[k - 1]]
        BY <1>7, <3>2, <4>1
      <4>3. step[k][f[k - 1]] = f[k - 1] + gain(k)
        BY <4>1, <4>2
      <4> QED
        BY <3>2, <4>2, <4>3
    <3> QED
      BY <3>1, <3>2
  <2> QED
    BY <1>7, <2>1
<1>9. sum = Step(sum)
  BY <1>8
<1> HIDE DEF sum, step
<1>10. \A k \in 0..n : sum[k] = IF k = 0 THEN 0 ELSE sum[k - 1] + gain(k)
  BY <1>9
<1>11. \A k \in 0..n : sum[k] \in Nat
  <2>1. sum[0] \in Nat
    BY <1>1, <1>10
  <2>2. ASSUME NEW k \in 1..n, sum[k - 1] \in Nat PROVE sum[k] \in Nat
    <3>1. k \in 0..n /\ k # 0
      BY <1>1
    <3>2. sum[k] = sum[k - 1] + gain(k)
      BY <1>10, <3>1
    <3>3. gain(k) \in Nat
      BY <1>5
    <3> QED
      BY <2>2, <3>2, <3>3
  <2> QED
    BY <1>1, <2>1, <2>2, StaysIn
<1>12. sum \in [0..n -> Nat]
  BY <1>9, <1>11
<1>13. sum[0] = 0
  BY <1>1, <1>10
<1>14. \A k \in 1..n : sum[k] <= sum[k - 1] + IF k \in picked THEN w ELSE 0
  <2> TAKE k \in 1..n
  <2>1. k \in 0..n /\ k # 0 /\ k - 1 \in 0..n
    BY <1>1
  <2>2. sum[k] = sum[k - 1] + gain(k)
    BY <1>10, <2>1
  <2>3. gain(k) \in Nat /\ gain(k) <= IF k \in picked THEN w ELSE 0
    BY <1>5
  <2>4. sum[k - 1] \in Nat /\ (IF k \in picked THEN w ELSE 0) \in Nat
    BY <1>3, <1>11, <2>1
  <2> QED
    BY <2>2, <2>3, <2>4
<1>15. IsFiniteSet(picked) /\ sum[n] <= Cardinality(picked) * w
  BY <1>1, <1>2, <1>3, <1>12, <1>13, <1>14, SumBound
<1>16. sum[n] \in Nat /\ Cardinality(picked) \in Nat
  BY <1>1, <1>11, <1>15, FS_CardinalityType
<1> QED
  BY <1>4, <1>15, <1>16 DEF picked, w

\* Real work was checked, unaided and the person's own.
LEMMA RealIsOwn ==
  ASSUME NEW now, NEW obs \in Seq(Observations), \A k \in DOMAIN obs : obs[k] \in SoundAt(now)
  PROVE  RealWork(obs) \subseteq Owned(obs)
<1> SUFFICES ASSUME NEW k \in RealWork(obs) PROVE k \in Owned(obs)
  OBVIOUS
<1>1. k \in DOMAIN obs /\ obs[k].right # None /\ obs[k].tier = "REAL_WORK"
  BY DEF RealWork, Answered
<1>2. PICK o \in SoundAt(now) : o = obs[k]
  BY <1>1
<1>3. Tier(o) = "REAL_WORK" /\ o.verified \in BOOLEAN
  BY <1>1, <1>2 DEF SoundAt, Observations
<1>4. o.source \notin ScreenSources /\ Admissible(o)
  BY <1>3 DEF Tier
<1> QED
  BY <1>1, <1>2, <1>4 DEF Owned, Own

\* What the estimator says of a gap or a strength, somebody earned.
LEMMA ClassIsEarned ==
  ASSUME NEW now \in 0..MaxClock, NEW row, row.obs \in Seq(Observations),
         \A k \in DOMAIN row.obs : row.obs[k] \in SoundAt(now),
         row.class = Classify(row.obs, now),
         row.seen \in 0..now \cup {None}
  PROVE  /\ row.class \in Classifications
         /\ row.class \in LoadBearing => Earned(row)
<1> DEFINE obs == row.obs
<1>1. row.class \in Classifications /\ (row.class \in LoadBearing => Sufficient(obs, now))
  BY DEF Classify, Summarize, Classifications, LoadBearing
<1>2. ASSUME Sufficient(obs, now) PROVE Earned(row)
  <2>1. Effective(obs, now, RealWork(obs)) >= Least /\ ~StaleOnly(obs, now)
    BY <1>2 DEF Sufficient
  <2>2. /\ IsFiniteSet(RealWork(obs)) /\ Cardinality(RealWork(obs)) \in Nat
        /\ Effective(obs, now, RealWork(obs)) \in Nat
        /\ Effective(obs, now, RealWork(obs)) <= Cardinality(RealWork(obs)) * Weight("REAL_WORK", 0)
    BY EffectiveBound
  <2>3. RealWork(obs) \subseteq Owned(obs) /\ IsFiniteSet(Owned(obs))
    <3>1. Owned(obs) \in SUBSET (1..Len(obs)) /\ Len(obs) \in Nat
      BY DEF Owned
    <3>2. IsFiniteSet(1..Len(obs))
      BY <3>1, UpToFinite
    <3>3. IsFiniteSet(Owned(obs))
      BY <3>1, <3>2, FS_Subset
    <3> QED
      BY <3>3, RealIsOwn
  <2>4. Cardinality(RealWork(obs)) <= Cardinality(Owned(obs)) /\ Cardinality(Owned(obs)) \in Nat
    BY <2>3, FS_Subset, FS_CardinalityType
  <2>5. Weight("REAL_WORK", 0) \in Nat /\ Least \in Nat \ {0}
    BY EvidenceAssumption DEF Tiers
  <2>6. Cardinality(Owned(obs)) * Weight("REAL_WORK", 0) >= Least
    <3>1. \A a, b, w, l, e \in Nat : a <= b /\ e <= a * w /\ e >= l => b * w >= l
      BY MoreOf
    <3>2. PICK own \in Nat : own = Cardinality(Owned(obs))
      BY <2>4
    <3>3. PICK real \in Nat : real = Cardinality(RealWork(obs))
      BY <2>2
    <3>4. PICK w \in Nat : w = Weight("REAL_WORK", 0)
      BY <2>5
    <3>5. PICK e \in Nat : e = Effective(obs, now, RealWork(obs))
      BY <2>2
    <3>6. real <= own /\ e <= real * w /\ e >= Least /\ Least \in Nat
      BY <2>1, <2>2, <2>4, <2>5, <3>2, <3>3, <3>4, <3>5
    <3>7. own * w >= Least
      BY ONLY <3>1, <3>6
    <3> QED
      BY <3>2, <3>4, <3>7
  <2>7. RealWork(obs) # {}
    BY <2>1, <2>2, <2>5, FS_EmptySet
  <2>8. PICK k \in RealWork(obs) : ~(Age(obs[k], now) > Horizon)
    BY <2>1, <2>7 DEF StaleOnly
  <2>9. k \in Owned(obs) /\ obs[k] \in SoundAt(now)
    BY <2>3, <2>8 DEF RealWork, Answered
  <2>10. obs[k].time = None \/ (obs[k].time \in 0..now /\ now - obs[k].time <= Horizon)
    BY <2>8, <2>9, EvidenceAssumption DEF SoundAt, Age
  <2>11. \/ None \in {row.seen, obs[k].time}
         \/ row.seen - obs[k].time <= Horizon
    BY <2>10, EvidenceAssumption
  <2> QED
    BY <2>6, <2>9, <2>11 DEF Earned
<1> QED
  BY <1>1, <1>2

-----------------------------------------------------------------------------
(* What a profile keeps                                                    *)

\* A profile with another row for a domain.
Sets(p, d, r) == [p EXCEPT !.rows[d] = r]

\* One step of a row: it forgets neither flags nor counts, and of its
\* observations only the oldest, to make room for a new one.
Moves(r, s) ==
  r # None =>
    /\ r.declared => s.declared
    /\ r.mentioned => s.mentioned
    /\ \A m \in Counters : s.count[m] >= r.count[m]
    /\ s.obs = r.obs \/ \E e \in Observations : s.obs = LastOf(Append(r.obs, e), Kept)

\* As long as the history is not full, numbers stay within counts, which only grow.
Keeps(p, q) ==
  /\ Full(p) => Full(q)
  /\ (~Full(q) /\ Numbered(p)) =>
       Numbered(q) /\ \A kind \in Kinds : Count(q, kind) >= Count(p, kind)

\* What may become of a profile in a command that is careful about its probes.
Grown(p, now, careful) ==
  {q \in ProfilesAt(now) : Continues(p, q) /\ (careful => Keeps(p, q))}

\* The last n elements of s are those after the first k.
Drops(s, n, k, S) ==
  /\ k = IF Len(s) > n THEN Len(s) - n ELSE 0
  /\ LastOf(s, n) \in Seq(S)
  /\ Len(LastOf(s, n)) = Len(s) - k
  /\ \A i \in 1..(Len(s) - k) : LastOf(s, n)[i] = s[k + i]

\* What LastOf keeps of a sequence.
LEMMA LastOfIs ==
  ASSUME NEW S, NEW s \in Seq(S), NEW n \in Nat, n > 0
  PROVE  \E k \in 0..Len(s) : Drops(s, n, k, S)
<1>1. PICK k : k = IF Len(s) > n THEN Len(s) - n ELSE 0
  OBVIOUS
<1>2. k \in 0..Len(s) /\ Len(s) \in Nat
  BY <1>1
<1>3. LastOf(s, n) = SubSeq(s, k + 1, Len(s))
  BY <1>1, <1>2 DEF LastOf
<1>4. \A i \in (k + 1)..Len(s) : s[i] \in S
  BY <1>2
<1>5. /\ SubSeq(s, k + 1, Len(s)) \in Seq(S)
      /\ Len(SubSeq(s, k + 1, Len(s))) = Len(s) - k
      /\ \A i \in 1..(Len(s) - k) : SubSeq(s, k + 1, Len(s))[i] = s[k + i]
  BY <1>2, <1>4
<1> QED
  BY <1>1, <1>2, <1>3, <1>5 DEF Drops

\* A profile with another row is a profile, and nothing else of it changed.
LEMMA SetsShape ==
  ASSUME NEW p \in Profiles, NEW d \in Domains, NEW r \in Rows(Observations)
  PROVE  /\ Sets(p, d, r) \in Profiles
         /\ Sets(p, d, r).probes = p.probes
         /\ Sets(p, d, r).facets = p.facets
         /\ \A e \in Domains : Sets(p, d, r).rows[e] = IF e = d THEN r ELSE p.rows[e]
<1>1. PICK rows \in [Domains -> Rows(Observations) \cup {None}] :
        /\ rows = p.rows /\ p.schema = "v2"
        /\ p.probes \in Seq(Probes) /\ p.facets \in [Facets -> FacetCounts]
  BY DEF Profiles
<1>2. PICK new : new = [rows EXCEPT ![d] = r]
  OBVIOUS
<1>3. /\ new \in [Domains -> Rows(Observations) \cup {None}]
      /\ \A e \in Domains : new[e] = IF e = d THEN r ELSE rows[e]
  BY <1>2
<1>4. Sets(p, d, r) = [p EXCEPT !.rows = new]
  BY <1>1, <1>2 DEF Sets, Profiles
<1> QED
  BY <1>1, <1>3, <1>4 DEF Profiles

\* Counts and numbers depend on the probes alone.
LEMMA SameProbes ==
  ASSUME NEW p, NEW q, p.probes = q.probes
  PROVE  /\ Full(p) <=> Full(q)
         /\ \A kind : Count(p, kind) = Count(q, kind)
         /\ Numbered(p) <=> Numbered(q)
  BY DEF Full, Count, Held, Numbered

\* So does what a careful command keeps.
LEMMA SameKeeps ==
  ASSUME NEW p, NEW q, NEW r, q.probes = r.probes, Keeps(p, q)
  PROVE  Keeps(p, r)
  BY SameProbes DEF Keeps

\* A prefix, element by element.
LEMMA PrefixIs ==
  ASSUME NEW S, NEW s \in Seq(S), NEW t \in Seq(S)
  PROVE  IsPrefix(s, t) <=> (Len(s) <= Len(t) /\ \A i \in 1..Len(s) : s[i] = t[i])
<1>1. CASE ~(Len(s) <= Len(t))
  BY <1>1 DEF IsPrefix
<1>2. CASE Len(s) <= Len(t)
  <2>1. /\ SubSeq(s, 1, Len(s)) \in Seq(S) /\ Len(SubSeq(s, 1, Len(s))) = Len(s)
        /\ \A i \in 1..Len(s) : SubSeq(s, 1, Len(s))[i] = s[i]
    OBVIOUS
  <2>2. /\ SubSeq(t, 1, Len(s)) \in Seq(S) /\ Len(SubSeq(t, 1, Len(s))) = Len(s)
        /\ \A i \in 1..Len(s) : SubSeq(t, 1, Len(s))[i] = t[i]
    <3>1. \A i \in 1..Len(s) : t[i] \in S
      BY <1>2
    <3> QED
      BY <1>2, <3>1
  <2>3. SubSeq(s, 1, Len(s)) = SubSeq(t, 1, Len(s)) <=> \A i \in 1..Len(s) : s[i] = t[i]
    <3>1. ASSUME \A i \in 1..Len(s) : s[i] = t[i]
          PROVE  SubSeq(s, 1, Len(s)) = SubSeq(t, 1, Len(s))
      BY <2>1, <2>2, <3>1, SeqEqual
    <3>2. ASSUME SubSeq(s, 1, Len(s)) = SubSeq(t, 1, Len(s))
          PROVE  \A i \in 1..Len(s) : s[i] = t[i]
      BY <2>1, <2>2, <3>2
    <3> QED
      BY <3>1, <3>2
  <2> QED
    BY <1>2, <2>3 DEF IsPrefix
<1> QED
  BY <1>1, <1>2

\* What is left of a after its first k elements.
LEMMA RestIs ==
  ASSUME NEW S, NEW a \in Seq(S), NEW k \in 0..Len(a)
  PROVE  /\ SubSeq(a, k + 1, Len(a)) \in Seq(S)
         /\ Len(SubSeq(a, k + 1, Len(a))) = Len(a) - k
         /\ \A i \in 1..(Len(a) - k) : SubSeq(a, k + 1, Len(a))[i] = a[k + i]
<1>1. \A i \in (k + 1)..Len(a) : a[i] \in S
  OBVIOUS
<1> QED
  BY <1>1

\* A prefix that lost its first elements, element by element.
LEMMA RestPrefix ==
  ASSUME NEW S, NEW a \in Seq(S), NEW c \in Seq(S), NEW k \in 0..Len(a)
  PROVE  IsPrefix(SubSeq(a, k + 1, Len(a)), c) <=>
           (Len(a) - k <= Len(c) /\ \A i \in 1..(Len(a) - k) : c[i] = a[k + i])
<1> DEFINE r == SubSeq(a, k + 1, Len(a))
<1>1. r \in Seq(S) /\ Len(r) = Len(a) - k /\ \A i \in 1..(Len(a) - k) : r[i] = a[k + i]
  BY RestIs
<1> HIDE DEF r
<1>2. IsPrefix(r, c) <=> (Len(r) <= Len(c) /\ \A i \in 1..Len(r) : r[i] = c[i])
  BY <1>1, PrefixIs
<1>3. IsPrefix(r, c) <=>
        (Len(a) - k <= Len(c) /\ \A i \in 1..(Len(a) - k) : c[i] = a[k + i])
  BY <1>1, <1>2
<1> QED
  BY <1>3 DEF r

\* What the cap leaves of a continued row's observations, and what it means that
\* one profile continues another, row by row.
Remains(a, b) ==
  \E k \in 0..Len(a) : IsPrefix(SubSeq(a, k + 1, Len(a)), b) /\ (k > 0 => Len(b) = Kept)
RowContinues(r, s) ==
  /\ s # None
  /\ r.declared => s.declared
  /\ r.mentioned => s.mentioned
  /\ \A m \in Counters : s.count[m] >= r.count[m]
  /\ Remains(r.obs, s.obs)

\* Continuing a profile is continuing each row and each facet.
LEMMA ContinuesIs ==
  ASSUME NEW p, NEW q
  PROVE  Continues(p, q) <=>
           /\ \A d \in Domains : p.rows[d] # None => RowContinues(p.rows[d], q.rows[d])
           /\ \A f \in Facets : \A m \in DOMAIN NewFacet : q.facets[f][m] >= p.facets[f][m]
  BY DEF Continues, RowContinues, Remains

\* An observation more, under the cap, still leaves what remains.
LEMMA ObsContinue ==
  ASSUME NEW S, NEW a \in Seq(S), NEW b \in Seq(S), NEW e \in S, Remains(a, b)
  PROVE  Remains(a, LastOf(Append(b, e), Kept))
<1>0. PICK k \in 0..Len(a) : IsPrefix(SubSeq(a, k + 1, Len(a)), b) /\ (k > 0 => Len(b) = Kept)
  BY DEF Remains
<1>1. Kept \in Nat /\ Kept > 0 /\ Len(a) \in Nat /\ Len(b) \in Nat
  BY StoreAssumption
<1>2. Len(a) - k <= Len(b) /\ \A i \in 1..(Len(a) - k) : b[i] = a[k + i]
  BY <1>0, RestPrefix
<1>3. PICK l : l = Append(b, e)
  OBVIOUS
<1>4. l \in Seq(S) /\ Len(l) = Len(b) + 1 /\ \A i \in 1..Len(b) : l[i] = b[i]
  BY <1>3
<1>5. PICK n \in 0..Len(l) : Drops(l, Kept, n, S)
  BY <1>1, <1>4, LastOfIs
<1>6. PICK c \in Seq(S) : c = LastOf(l, Kept)
  BY <1>5 DEF Drops
<1>7. Len(c) = Len(b) + 1 - n /\ \A i \in 1..(Len(b) + 1 - n) : c[i] = l[n + i]
  BY <1>4, <1>5, <1>6 DEF Drops
<1>8. CASE Len(l) <= Kept
  <2>1. n = 0 /\ k = 0
    BY <1>0, <1>1, <1>4, <1>5, <1>8 DEF Drops
  <2>2. ASSUME NEW i \in 1..(Len(a) - 0) PROVE c[i] = a[0 + i]
    <3>1. i \in 1..(Len(a) - k) /\ i \in 1..Len(b) /\ i \in 1..(Len(b) + 1 - n) /\ n + i = i
          /\ 0 + i = i /\ k + i = i
      BY <1>1, <1>2, <2>1
    <3>2. c[i] = l[i] /\ l[i] = b[i] /\ b[i] = a[i]
      BY <1>2, <1>4, <1>7, <3>1
    <3> QED
      BY <3>1, <3>2
  <2>3. Len(a) - 0 <= Len(c) /\ 0 \in 0..Len(a)
    BY <1>1, <1>2, <1>7, <2>1
  <2>4. IsPrefix(SubSeq(a, 0 + 1, Len(a)), c)
    BY <2>2, <2>3, RestPrefix
  <2> QED
    BY <1>3, <1>6, <2>3, <2>4 DEF Remains
<1>9. CASE Len(l) > Kept
  <2>1. n \in Nat \ {0} /\ n = Len(b) + 1 - Kept /\ Len(c) = Kept
    BY <1>1, <1>4, <1>5, <1>7, <1>9 DEF Drops
  <2>2. PICK j : j = IF k + n <= Len(a) THEN k + n ELSE Len(a)
    OBVIOUS
  <2>3. j \in 0..Len(a) /\ Len(a) - j <= Len(c)
    BY <1>1, <1>2, <2>1, <2>2
  <2>4. ASSUME NEW i \in 1..(Len(a) - j) PROVE c[i] = a[j + i]
    <3>1. j = k + n /\ i + n \in 1..(Len(a) - k) /\ i + n <= Len(b)
      BY <1>1, <1>2, <2>1, <2>2, <2>3
    <3>2. i \in 1..(Len(b) + 1 - n) /\ i + n \in 1..Len(b) /\ n + i = i + n /\ k + (i + n) = j + i
      BY <1>1, <2>1, <3>1
    <3>3. c[i] = l[i + n] /\ l[i + n] = b[i + n] /\ b[i + n] = a[k + (i + n)]
      BY <1>2, <1>4, <1>7, <3>1, <3>2
    <3> QED
      BY <3>2, <3>3
  <2>5. IsPrefix(SubSeq(a, j + 1, Len(a)), c)
    BY <2>3, <2>4, RestPrefix
  <2> QED
    BY <1>3, <1>6, <2>1, <2>3, <2>5 DEF Remains
<1> QED
  BY <1>1, <1>4, <1>8, <1>9

\* A step of a row is a step of the profile.
LEMMA SetsGrown ==
  ASSUME NEW now, NEW careful, NEW p \in Profiles, NEW q \in Grown(p, now, careful),
         NEW d \in Domains, NEW s \in RowsAt(now), Moves(q.rows[d], s)
  PROVE  Sets(q, d, s) \in Grown(p, now, careful)
<1>1. /\ q \in Profiles /\ Continues(p, q) /\ (careful => Keeps(p, q))
      /\ \A e \in Domains : q.rows[e] # None => q.rows[e] \in RowsAt(now)
      /\ s \in Rows(Observations) /\ s # None
  BY StoreAssumption DEF Grown, ProfilesAt, RowsAt
<1>2. PICK t : t = Sets(q, d, s)
  OBVIOUS
<1>3. /\ t \in Profiles /\ t.probes = q.probes /\ t.facets = q.facets
      /\ \A e \in Domains : t.rows[e] = IF e = d THEN s ELSE q.rows[e]
  BY <1>1, <1>2, SetsShape
<1>4. t \in ProfilesAt(now)
  BY <1>1, <1>3 DEF ProfilesAt
<1>5. careful => Keeps(p, t)
  BY <1>1, <1>3, SameKeeps
<1>6. ASSUME NEW e \in Domains, p.rows[e] # None
      PROVE  RowContinues(p.rows[e], t.rows[e])
  <2>1. RowContinues(p.rows[e], q.rows[e])
    BY <1>1, <1>6, ContinuesIs
  <2>2. CASE e # d
    BY <1>3, <2>1, <2>2
  <2>3. CASE e = d
    <3>1. t.rows[e] = s /\ Moves(q.rows[e], s) /\ q.rows[e] # None
      BY <1>3, <2>1, <2>3 DEF RowContinues
    <3>2. PICK a, b : a = p.rows[e] /\ b = q.rows[e]
      OBVIOUS
    <3>3. a \in Rows(Observations) /\ b \in Rows(Observations)
      BY <1>1, <1>6, <3>1, <3>2 DEF Profiles, RowsAt
    <3>4. /\ a.obs \in Seq(Observations) /\ b.obs \in Seq(Observations)
          /\ \A m \in Counters : a.count[m] \in Nat /\ b.count[m] \in Nat /\ s.count[m] \in Nat
      BY <1>1, <3>3 DEF Rows
    <3>5. RowContinues(a, b) /\ Moves(b, s) /\ b # None
      BY <2>1, <3>1, <3>2
    <3>6. \A m \in Counters : s.count[m] >= a.count[m]
      BY <3>4, <3>5 DEF Moves, RowContinues
    <3>7. Remains(a.obs, s.obs)
      <4>1. CASE s.obs = b.obs
        BY <3>5, <4>1 DEF RowContinues
      <4>2. CASE s.obs # b.obs
        <5>1. PICK o \in Observations : s.obs = LastOf(Append(b.obs, o), Kept)
          BY <3>5, <4>2 DEF Moves
        <5>2. Remains(a.obs, b.obs)
          BY <3>5 DEF RowContinues
        <5> QED
          BY <3>4, <5>1, <5>2, ObsContinue
      <4> QED
        BY <4>1, <4>2
    <3>8. RowContinues(a, s)
      BY <1>1, <3>5, <3>6, <3>7 DEF Moves, RowContinues
    <3> QED
      BY <3>1, <3>2, <3>8
  <2> QED
    BY <2>2, <2>3
<1>7. \A f \in Facets : \A m \in DOMAIN NewFacet : t.facets[f][m] >= p.facets[f][m]
  BY <1>1, <1>3 DEF Continues
<1>8. Continues(p, t)
  BY <1>6, <1>7, ContinuesIs
<1> QED
  BY <1>2, <1>4, <1>5, <1>8 DEF Grown

\* Counting gives numbers.
LEMMA CountedTyped ==
  ASSUME NEW S, NEW obs \in Seq(S)
  PROVE  Counted(obs) \in [Counters -> Nat]
<1>1. Len(obs) \in Nat /\ DOMAIN obs = 1..Len(obs) /\ IsFiniteSet(1..Len(obs))
  BY UpToFinite
<1>2. ASSUME NEW n \in Counters
      PROVE  Cardinality({k \in DOMAIN obs : obs[k].right # None /\ CounterOf(obs[k]) = n}) \in Nat
  <2> DEFINE P == {k \in DOMAIN obs : obs[k].right # None /\ CounterOf(obs[k]) = n}
  <2>1. P \in SUBSET (1..Len(obs))
    BY <1>1
  <2> HIDE DEF P
  <2>2. Cardinality(P) \in Nat
    BY <1>1, <2>1, FS_Subset, FS_CardinalityType
  <2> QED
    BY <2>2 DEF P
<1> QED
  BY <1>2 DEF Counted

\* A new row claims nothing.
LEMMA NewRowSound ==
  ASSUME NEW now, NEW b \in BOOLEAN
  PROVE  NewRow(b) \in RowsAt(now)
<1>1. <<>> \in Seq(Observations)
  OBVIOUS
<1>2. Counted(<<>>) \in [Counters -> Nat]
  BY <1>1, CountedTyped
<1>3. PICK r : r = NewRow(b)
  OBVIOUS
<1>4. /\ r.obs = <<>> /\ r.class = None /\ r.seen = None /\ r.count = Counted(<<>>)
      /\ r \in Rows(Observations)
  <2>1. PICK n : n = Counted(<<>>)
    OBVIOUS
  <2>2. PICK none : none = <<>> /\ none \in Seq(Observations)
    BY <1>1
  <2>3. PICK state \in States : state = IF b THEN "DECLARED_RELEVANT" ELSE "CANDIDATE"
    BY DEF States
  <2>4. r = [state |-> state, declared |-> b, mentioned |-> FALSE, obs |-> none, count |-> n,
             seen |-> None, class |-> None]
    BY <1>3, <2>1, <2>2, <2>3 DEF NewRow
  <2>5. r \in Rows(Observations)
    BY <1>2, <2>1, <2>2, <2>4 DEF Rows
  <2> QED
    BY <2>1, <2>2, <2>4, <2>5
<1>5. r.class \notin LoadBearing
  BY <1>4, StoreAssumption
<1> QED
  BY <1>3, <1>4, <1>5 DEF RowsAt
\* The observations a row keeps are old ones and the new one.
LEMMA LastSound ==
  ASSUME NEW now, NEW old \in Seq(Observations), \A k \in DOMAIN old : old[k] \in SoundAt(now),
         NEW e \in Observations, e \in SoundAt(now), NEW obs, obs = LastOf(Append(old, e), Kept)
  PROVE  obs \in Seq(Observations) /\ \A k \in DOMAIN obs : obs[k] \in SoundAt(now)
<1>1. PICK l : l = Append(old, e)
  OBVIOUS
<1>2. l \in Seq(Observations) /\ Len(l) = Len(old) + 1 /\ Len(old) \in Nat
  BY <1>1
<1>3. \A k \in 1..Len(l) : l[k] \in SoundAt(now)
  BY <1>1
<1>4. Kept \in Nat /\ Kept > 0
  BY StoreAssumption
<1>5. PICK n \in 0..Len(l) : Drops(l, Kept, n, Observations)
  BY <1>2, <1>4, LastOfIs
<1>6. obs \in Seq(Observations) /\ DOMAIN obs = 1..(Len(l) - n)
      /\ \A i \in 1..(Len(l) - n) : obs[i] = l[n + i]
  BY <1>1, <1>2, <1>5 DEF Drops
<1>7. ASSUME NEW k \in DOMAIN obs PROVE obs[k] \in SoundAt(now)
  <2>1. k \in 1..(Len(l) - n) /\ n + k \in 1..Len(l)
    BY <1>2, <1>6
  <2> QED
    BY <1>3, <1>6, <2>1
<1> QED
  BY <1>6, <1>7

-----------------------------------------------------------------------------
(* Domains and observations                                                *)

\* The row a domain has, or would begin with.
LEMMA RowOf ==
  ASSUME NEW now, NEW q \in ProfilesAt(now), NEW d \in Domains, NEW b \in BOOLEAN
  PROVE  (IF q.rows[d] = None THEN NewRow(b) ELSE q.rows[d]) \in RowsAt(now)
  BY NewRowSound DEF ProfilesAt

\* A row whose flags and state alone differ says nothing else.
LEMMA SameSound ==
  ASSUME NEW now, NEW r \in RowsAt(now), NEW s \in Rows(Observations),
         s.obs = r.obs, s.seen = r.seen, s.class = r.class
  PROVE  s \in RowsAt(now)
<1>1. Earned(r) <=> Earned(s)
  BY DEF Earned
<1> QED
  BY <1>1 DEF RowsAt

\* ensure_domain() adds to a profile.
LEMMA EnsureGrown ==
  ASSUME NEW now, NEW careful, NEW p \in Profiles, NEW q \in Grown(p, now, careful),
         NEW d \in Domains, NEW b \in BOOLEAN
  PROVE  /\ EnsureDomain(q, d, b) \in Grown(p, now, careful)
         /\ EnsureDomain(q, d, b).probes = q.probes
         /\ EnsureDomain(q, d, b).rows[d] # None
<1>1. q \in Profiles /\ q \in ProfilesAt(now)
  BY DEF Grown, ProfilesAt
<1>2. PICK r \in RowsAt(now) : r = IF q.rows[d] = None THEN NewRow(b) ELSE q.rows[d]
  BY <1>1, RowOf
<1>3. PICK s : s = [r EXCEPT !.declared = @ \/ b,
                             !.state = IF b /\ @ = "CANDIDATE" THEN "DECLARED_RELEVANT" ELSE @]
  OBVIOUS
<1>4. r \in Rows(Observations)
  BY DEF RowsAt
<1>5. /\ s \in Rows(Observations)
      /\ s.obs = r.obs /\ s.seen = r.seen /\ s.class = r.class /\ s.count = r.count
      /\ s.mentioned = r.mentioned /\ (r.declared => s.declared)
  <2>1. r.declared \in BOOLEAN /\ r.state \in States
    BY <1>4 DEF Rows
  <2>2. PICK declared \in BOOLEAN : declared = (r.declared \/ b)
    BY <2>1
  <2>3. PICK state \in States :
          state = IF b /\ r.state = "CANDIDATE" THEN "DECLARED_RELEVANT" ELSE r.state
    BY <2>1 DEF States
  <2>4. s = [r EXCEPT !.declared = declared, !.state = state]
    BY <1>3, <2>2, <2>3
  <2>5. /\ s \in Rows(Observations) /\ s.declared = declared
        /\ s.obs = r.obs /\ s.seen = r.seen /\ s.class = r.class /\ s.count = r.count
        /\ s.mentioned = r.mentioned
    BY <1>4, <2>4 DEF Rows
  <2> QED
    BY <2>2, <2>5
<1>6. s \in RowsAt(now)
  BY <1>5, SameSound
<1>7. Moves(q.rows[d], s)
  <2>1. \A m \in Counters : r.count[m] \in Nat
    BY <1>4 DEF Rows
  <2> QED
    BY <1>2, <1>5, <2>1 DEF Moves
<1>8. EnsureDomain(q, d, b) = Sets(q, d, s)
  BY <1>2, <1>3 DEF EnsureDomain, Sets
<1>9. /\ Sets(q, d, s).probes = q.probes /\ Sets(q, d, s).rows[d] = s /\ s # None
  BY <1>1, <1>5, SetsShape, StoreAssumption
<1> QED
  BY <1>6, <1>7, <1>8, <1>9, SetsGrown

\* mark_relevance() adds to a profile.
LEMMA MarkGrown ==
  ASSUME NEW now, NEW careful, NEW p \in Profiles, NEW q \in Grown(p, now, careful),
         NEW d \in Domains
  PROVE  MarkRelevance(q, d) \in Grown(p, now, careful)
<1>1. PICK t \in Grown(p, now, careful) : t = EnsureDomain(q, d, FALSE) /\ t.rows[d] # None
  <2>1. /\ EnsureDomain(q, d, FALSE) \in Grown(p, now, careful)
        /\ EnsureDomain(q, d, FALSE).rows[d] # None
        /\ EnsureDomain(q, d, FALSE).probes = q.probes
    <3>1. \A b \in BOOLEAN : /\ EnsureDomain(q, d, b) \in Grown(p, now, careful)
                              /\ EnsureDomain(q, d, b).rows[d] # None
                              /\ EnsureDomain(q, d, b).probes = q.probes
      BY EnsureGrown
    <3> QED
      BY <3>1
  <2> QED
    BY <2>1
<1>2. t \in Profiles /\ t.rows[d] \in RowsAt(now)
  BY <1>1 DEF Grown, ProfilesAt
<1>3. PICK r \in RowsAt(now) : r = t.rows[d]
  BY <1>2
<1>4. PICK s : s = [r EXCEPT !.mentioned = TRUE,
                             !.state = IF @ = "CANDIDATE" THEN "ACTIVE_RELEVANT" ELSE @]
  OBVIOUS
<1>5. r \in Rows(Observations)
  BY DEF RowsAt
<1>6. /\ s \in Rows(Observations)
      /\ s.obs = r.obs /\ s.seen = r.seen /\ s.class = r.class /\ s.count = r.count
      /\ s.declared = r.declared /\ s.mentioned = TRUE
  <2>1. PICK state \in States : state = IF r.state = "CANDIDATE" THEN "ACTIVE_RELEVANT" ELSE r.state
    BY <1>5 DEF Rows, States
  <2>2. s = [r EXCEPT !.mentioned = TRUE, !.state = state]
    BY <1>4, <2>1
  <2> QED
    BY <1>5, <2>1, <2>2 DEF Rows
<1>7. s \in RowsAt(now)
  BY <1>6, SameSound
<1>8. Moves(t.rows[d], s)
  <2>1. \A m \in Counters : r.count[m] \in Nat
    BY <1>5 DEF Rows
  <2> QED
    BY <1>3, <1>6, <2>1 DEF Moves
<1>9. MarkRelevance(q, d) = Sets(t, d, s)
  BY <1>1, <1>2, <1>3, <1>4 DEF MarkRelevance, Sets, Profiles
<1> QED
  BY <1>1, <1>7, <1>8, <1>9, SetsGrown

\* Every attempt has a tier.
LEMMA TierTyped ==
  ASSUME NEW a \in Attempted
  PROVE  Tier(a) \in Tiers
<1>1. a.verified \in BOOLEAN /\ Admissible(a) \in BOOLEAN
  BY DEF Attempted, Admissible, Independent
<1> QED
  BY <1>1 DEF Tier, Tiers

\* observe() adds to a profile, and leaves its probes alone.
LEMMA ObserveGrown ==
  ASSUME NEW now \in 0..MaxClock, NEW careful, NEW p \in Profiles, NEW q \in Grown(p, now, careful),
         NEW d \in Domains, NEW a \in Attempted
  PROVE  /\ Observe(q, d, a, now) \in Grown(p, now, careful)
         /\ Observe(q, d, a, now).probes = q.probes
<1>1. PICK t \in Grown(p, now, careful) :
        t = EnsureDomain(q, d, FALSE) /\ t.rows[d] # None /\ t.probes = q.probes
  <2>1. /\ EnsureDomain(q, d, FALSE) \in Grown(p, now, careful)
        /\ EnsureDomain(q, d, FALSE).rows[d] # None
        /\ EnsureDomain(q, d, FALSE).probes = q.probes
    <3>1. \A b \in BOOLEAN : /\ EnsureDomain(q, d, b) \in Grown(p, now, careful)
                              /\ EnsureDomain(q, d, b).rows[d] # None
                              /\ EnsureDomain(q, d, b).probes = q.probes
      BY EnsureGrown
    <3> QED
      BY <3>1
  <2> QED
    BY <2>1
<1>2. t \in Profiles /\ t.rows[d] \in RowsAt(now)
  BY <1>1 DEF Grown, ProfilesAt
<1>3. PICK r \in RowsAt(now) : r = t.rows[d]
  BY <1>2
<1>4. PICK e : e = [right |-> a.right, verified |-> a.verified, label |-> a.label,
                    owner |-> a.owner, source |-> a.source, time |-> now, tier |-> Tier(a)]
  OBVIOUS
<1>5. e \in SoundAt(now) /\ e \in Observations
  <2>1. MaxClock \in Nat /\ now \in Nat /\ now \in 0..now
    BY StoreAssumption
  <2>2. Tier(e) = Tier(a) /\ e.tier = Tier(a) /\ e.time = now
    BY <1>4 DEF Tier, Admissible
  <2>3. e \in Observations
    BY <1>4, <2>1, TierTyped DEF Attempted, Observations
  <2> QED
    BY <2>1, <2>2, <2>3 DEF SoundAt
<1>6. PICK obs : obs = LastOf(Append(r.obs, e), Kept)
  OBVIOUS
<1>7. /\ r \in Rows(Observations) /\ r.obs \in Seq(Observations)
      /\ \A k \in DOMAIN r.obs : r.obs[k] \in SoundAt(now)
  BY DEF RowsAt, Rows
<1>8. obs \in Seq(Observations) /\ \A k \in DOMAIN obs : obs[k] \in SoundAt(now)
  BY <1>5, <1>6, <1>7, LastSound
<1>9. PICK count : count = IF e.right = None THEN r.count
                            ELSE [r.count EXCEPT ![CounterOf(e)] = @ + 1]
  OBVIOUS
<1>10. PICK class : class = Classify(obs, now)
  OBVIOUS
<1>11. PICK state : state = IF Len(obs) >= 2 /\ r.state \in {"CANDIDATE", "ACTIVE_RELEVANT"}
                            THEN "ACTIVE" ELSE r.state
  OBVIOUS
<1>12. PICK s : s = [r EXCEPT !.obs = obs, !.seen = now, !.count = count,
                              !.class = class, !.state = state]
  OBVIOUS
<1>13. /\ s \in Rows(Observations)
       /\ s.obs = obs /\ s.seen = now /\ s.class = Classify(obs, now)
       /\ s.declared = r.declared /\ s.mentioned = r.mentioned
       /\ \A m \in Counters : s.count[m] >= r.count[m]
  <2>1. r.count \in [Counters -> Nat] /\ r.state \in States
    BY <1>7 DEF Rows
  <2>3. count \in [Counters -> Nat] /\ \A m \in Counters : count[m] >= r.count[m]
    <3>1. CounterOf(e) \in Counters
      BY DEF CounterOf, Counters
    <3>2. CASE e.right = None
      BY <1>9, <2>1, <3>2
    <3>3. CASE e.right # None
      BY <1>9, <2>1, <3>1, <3>3
    <3> QED
      BY <3>2, <3>3
  <2>4. class \in Classifications
    BY <1>10 DEF Classify, Summarize, Classifications, LoadBearing
  <2>5. state \in States
    BY <1>11, <2>1 DEF States
  <2>7. now \in Nat
    BY StoreAssumption
  <2>8. /\ s \in Rows(Observations)
        /\ s.obs = obs /\ s.seen = now /\ s.class = class /\ s.count = count
        /\ s.declared = r.declared /\ s.mentioned = r.mentioned
    BY <1>7, <1>8, <1>12, <2>3, <2>4, <2>5, <2>7 DEF Rows
  <2> QED
    BY <1>10, <2>3, <2>8
<1>14. s \in RowsAt(now)
  <2>1. /\ s.class \in Classifications
        /\ s.class \in LoadBearing => Earned(s)
    <3>1. s.seen \in 0..now \cup {None}
      BY <1>13, StoreAssumption
    <3> QED
      BY <1>8, <1>13, <3>1, ClassIsEarned
  <2> QED
    BY <1>8, <1>13, <2>1 DEF RowsAt
<1>15. Moves(t.rows[d], s)
  BY <1>3, <1>5, <1>6, <1>13 DEF Moves
<1>16. Observe(q, d, a, now) = Sets(t, d, s)
  BY <1>1, <1>2, <1>3, <1>4, <1>6, <1>9, <1>10, <1>11, <1>12 DEF Observe, Sets, Profiles
<1>17. Sets(t, d, s).probes = t.probes
  BY <1>2, <1>13, SetsShape
<1> QED
  BY <1>1, <1>14, <1>15, <1>16, <1>17, SetsGrown

-----------------------------------------------------------------------------
(* Probes and their numbers                                                *)

\* What is short enough is kept as it is.
LEMMA AllOf ==
  ASSUME NEW S, NEW s \in Seq(S), NEW n \in Nat, Len(s) <= n
  PROVE  LastOf(s, n) = s
<1>1. LastOf(s, n) = SubSeq(s, 1, Len(s))
  <2>1. PICK k : k = IF Len(s) > n THEN Len(s) - n + 1 ELSE 1
    OBVIOUS
  <2>2. k = 1 /\ LastOf(s, n) = SubSeq(s, k, Len(s))
    BY <2>1 DEF LastOf
  <2> QED
    BY <2>2
<1>2. /\ SubSeq(s, 1, Len(s)) \in Seq(S) /\ Len(SubSeq(s, 1, Len(s))) = Len(s)
      /\ \A i \in 1..Len(s) : SubSeq(s, 1, Len(s))[i] = s[i]
  OBVIOUS
<1> QED
  BY <1>1, <1>2, SeqEqual

\* An id of a kind is that kind and a number.
LEMMA IdNumber ==
  ASSUME NEW s \in Seq(Probes), NEW k \in DOMAIN s, s[k].id[1] \in Kinds
  PROVE  s[k].id[2] \in Nat
<1>1. PICK id \in Ids : id = s[k].id
  <2>1. s[k] \in Probes
    OBVIOUS
  <2> QED
    BY <2>1 DEF Probes
<1>2. id[1] # "layer2"
  BY <1>1, StoreAssumption
<1>3. id \in Kinds \X Nat
  BY <1>1, <1>2 DEF Ids
<1> QED
  BY <1>1, <1>3

\* A count is a number.
LEMMA CountNat ==
  ASSUME NEW q, q.probes \in Seq(Probes)
  PROVE  \A kind : Count(q, kind) \in Nat
<1> TAKE kind
<1>1. Held(q, kind) \in SUBSET (1..Len(q.probes)) /\ Len(q.probes) \in Nat
  BY DEF Held
<1>2. IsFiniteSet(1..Len(q.probes))
  BY <1>1, UpToFinite
<1> QED
  BY <1>1, <1>2, FS_Subset, FS_CardinalityType DEF Count

\* A probe more: its kind's count is one more, and no other's.
LEMMA CountMore ==
  ASSUME NEW q, NEW t, q.probes \in Seq(Probes), NEW x \in Probes, t.probes = Append(q.probes, x)
  PROVE  \A kind : /\ Count(q, kind) \in Nat
                   /\ Count(t, kind) = Count(q, kind) + IF x.id[1] = kind THEN 1 ELSE 0
<1> TAKE kind
<1>0. PICK s \in Seq(Probes) : s = q.probes
  OBVIOUS
<1>1. PICK u \in Seq(Probes) : s = q.probes /\ u = Append(s, x)
  <2>1. Append(s, x) \in Seq(Probes)
    BY <1>0
  <2> QED
    BY <1>0, <2>1
<1>2. /\ Len(s) \in Nat /\ DOMAIN s = 1..Len(s) /\ DOMAIN u = 1..(Len(s) + 1)
      /\ u[Len(s) + 1] = x /\ \A k \in 1..Len(s) : u[k] = s[k]
  BY <1>1
<1>3. PICK h : h = Held(q, kind)
  OBVIOUS
<1>4. h \in SUBSET (1..Len(s)) /\ IsFiniteSet(1..Len(s))
  <2>1. h \in SUBSET (1..Len(s))
    BY <1>1, <1>2, <1>3 DEF Held
  <2>2. IsFiniteSet(1..Len(s))
    BY <1>2, UpToFinite
  <2> QED
    BY <2>1, <2>2
<1>5. IsFiniteSet(h) /\ Cardinality(h) \in Nat
  BY <1>4, FS_Subset, FS_CardinalityType
<1>6. CASE x.id[1] = kind
  <2>1. Held(t, kind) = h \cup {Len(s) + 1} /\ Len(s) + 1 \notin h
    BY <1>1, <1>2, <1>3, <1>6 DEF Held
  <2> QED
    <3>1. Cardinality(h \cup {Len(s) + 1}) = Cardinality(h) + 1
      BY <1>5, <2>1, FS_AddElement
    <3>2. Count(q, kind) = Cardinality(h) /\ Count(t, kind) = Cardinality(h) + 1
      BY <1>3, <2>1, <3>1 DEF Count
    <3> QED
      BY <1>5, <1>6, <3>2
<1>7. CASE x.id[1] # kind
  <2>1. Held(t, kind) = h
    BY <1>1, <1>2, <1>3, <1>7 DEF Held
  <2> QED
    BY <1>3, <1>5, <1>7, <2>1 DEF Count
<1> QED
  BY <1>6, <1>7

\* A probe of no kind, or with a number no plan skipped, keeps the numbers right.
LEMMA ProbeKeeps ==
  ASSUME NEW p, NEW q, NEW t, p.probes \in Seq(Probes), q.probes \in Seq(Probes), Keeps(p, q),
         NEW x \in Probes, t.probes = LastOf(Append(q.probes, x), HistoryCap),
         ~Full(q) /\ Numbered(q) /\ x.id[1] \in Kinds =>
           x.id[2] \in Nat /\ x.id[2] <= Count(q, x.id[1]) + 1
  PROVE  Keeps(p, t)
<1>1. HistoryCap \in Nat /\ HistoryCap > 0
  BY StoreAssumption
<1>0. PICK s \in Seq(Probes) : s = q.probes
  OBVIOUS
<1>2. PICK u \in Seq(Probes) : s = q.probes /\ u = Append(s, x)
  <2>1. Append(s, x) \in Seq(Probes)
    OBVIOUS
  <2> QED
    BY <1>0, <2>1
<1>3. Len(s) \in Nat /\ Len(u) = Len(s) + 1 /\ t.probes = LastOf(u, HistoryCap)
  BY <1>2
<1>4. CASE Len(u) > HistoryCap
  <2>1. PICK n \in 0..Len(u) : Drops(u, HistoryCap, n, Probes)
    BY <1>1, LastOfIs
  <2>2. Full(t)
    BY <1>1, <1>3, <1>4, <2>1 DEF Full, Drops
  <2> QED
    BY <2>2 DEF Keeps
<1>5. CASE Len(u) <= HistoryCap
  <2>1. t.probes = u /\ ~Full(q)
    <3>1. LastOf(u, HistoryCap) = u
      BY <1>1, <1>5, AllOf
    <3> QED
      BY <1>1, <1>2, <1>3, <1>5, <3>1 DEF Full
  <2>2. Full(p) => Full(t)
    BY <2>1 DEF Keeps
  <2>3. ASSUME ~Full(t), Numbered(p)
        PROVE  Numbered(t) /\ \A kind \in Kinds : Count(t, kind) >= Count(p, kind)
    <3>1. Numbered(q) /\ \A kind \in Kinds : Count(q, kind) >= Count(p, kind)
      BY <2>1, <2>3 DEF Keeps
    <3>2. \A kind : /\ Count(q, kind) \in Nat
                    /\ Count(t, kind) = Count(q, kind) + IF x.id[1] = kind THEN 1 ELSE 0
      BY <1>2, <2>1, CountMore
    <3>3. ASSUME NEW kind \in Kinds PROVE Count(t, kind) >= Count(p, kind)
      <4>1. Count(p, kind) \in Nat
        BY CountNat
      <4> QED
        BY <3>1, <3>2, <4>1
    <3>4. ASSUME NEW k \in DOMAIN t.probes, t.probes[k].id[1] \in Kinds
          PROVE  t.probes[k].id[2] <= Count(t, t.probes[k].id[1])
      <4>1. PICK kind \in Kinds : kind = t.probes[k].id[1]
        BY <3>4
      <4>2. CASE k = Len(s) + 1
        <5>1. t.probes[k] = x
          BY <1>2, <1>3, <2>1, <4>2
        <5>2. x.id[1] = kind /\ x.id[2] \in Nat /\ x.id[2] <= Count(q, kind) + 1
          BY <2>1, <3>1, <4>1, <5>1
        <5> QED
          BY <3>2, <4>1, <5>1, <5>2
      <4>3. CASE k # Len(s) + 1
        <5>1. k \in DOMAIN s /\ t.probes[k] = s[k]
          BY <1>2, <1>3, <2>1, <3>4, <4>3
        <5>2. s[k].id[2] <= Count(q, kind)
          BY <1>2, <3>1, <4>1, <5>1 DEF Numbered
        <5>3. s[k].id[2] \in Nat
          BY <4>1, <5>1, IdNumber
        <5> QED
          BY <3>2, <4>1, <5>1, <5>2, <5>3
      <4> QED
        BY <4>2, <4>3
    <3> QED
      BY <3>3, <3>4 DEF Numbered
  <2> QED
    BY <2>2, <2>3 DEF Keeps
<1> QED
  BY <1>1, <1>3, <1>4, <1>5

\* One more outcome of a facet.
LEMMA FacetsMore ==
  ASSUME NEW facets \in [Facets -> FacetCounts], NEW f \in Facets, NEW c \in DOMAIN NewFacet,
         NEW t, t = [facets EXCEPT ![f][c] = @ + 1]
  PROVE  /\ t \in [Facets -> FacetCounts]
         /\ \A g \in Facets : \A m \in DOMAIN NewFacet : t[g][m] >= facets[g][m]
<1>1. facets[f] \in [DOMAIN NewFacet -> Nat]
  BY DEF FacetCounts
<1>2. PICK row : row = [facets[f] EXCEPT ![c] = @ + 1]
  OBVIOUS
<1>3. row \in FacetCounts /\ \A m \in DOMAIN NewFacet : row[m] >= facets[f][m]
  BY <1>1, <1>2 DEF FacetCounts
<1>4. t = [facets EXCEPT ![f] = row]
  BY <1>2
<1>5. t \in [Facets -> FacetCounts]
  BY <1>3, <1>4
<1>6. ASSUME NEW g \in Facets, NEW m \in DOMAIN NewFacet PROVE t[g][m] >= facets[g][m]
  <2>1. facets[g][m] \in Nat
    BY DEF FacetCounts
  <2> QED
    BY <1>3, <1>4, <2>1
<1> QED
  BY <1>5, <1>6

\* What a probe must be for record() to take it.
Probed ==
  [id : Ids, facet : Facets, domain : Domains \cup {None}, right : BOOLEAN \cup {None},
   label : Labels, verified : BOOLEAN, source : Sources]

\* record() adds to a profile, and keeps the numbers of its probes if the new one fits.
LEMMA RecordGrown ==
  ASSUME NEW now \in 0..MaxClock, NEW careful, NEW p \in Profiles, NEW q \in Grown(p, now, careful),
         NEW x \in Probed,
         careful /\ ~Full(q) /\ Numbered(q) /\ x.id[1] \in Kinds =>
           x.id[2] \in Nat /\ x.id[2] <= Count(q, x.id[1]) + 1
  PROVE  Record(q, x, now) \in Grown(p, now, careful)
<1>1. /\ q \in Profiles /\ q \in ProfilesAt(now) /\ Continues(p, q) /\ (careful => Keeps(p, q))
      /\ p.probes \in Seq(Probes) /\ q.probes \in Seq(Probes)
      /\ p.facets \in [Facets -> FacetCounts] /\ q.facets \in [Facets -> FacetCounts]
      /\ q.rows \in [Domains -> Rows(Observations) \cup {None}] /\ q.schema = "v2"
  BY DEF Grown, ProfilesAt, Profiles
<1>2. PICK y \in Probes : y = [id |-> x.id, facet |-> x.facet, source |-> x.source]
  BY DEF Probed, Probes
<1>3. PICK probes : probes = LastOf(Append(q.probes, y), HistoryCap)
  OBVIOUS
<1>4. probes \in Seq(Probes)
  <2>1. PICK l \in Seq(Probes) : l = Append(q.probes, y)
    <3>1. Append(q.probes, y) \in Seq(Probes)
      BY <1>1
    <3> QED
      BY <3>1
  <2>2. PICK n \in 0..Len(l) : Drops(l, HistoryCap, n, Probes)
    BY StoreAssumption, LastOfIs
  <2> QED
    BY <1>3, <2>1, <2>2 DEF Drops
<1>5. FacetCounter(x) \in DOMAIN NewFacet
  BY DEF FacetCounter, NewFacet
<1>6. PICK facets : facets = [q.facets EXCEPT ![x.facet][FacetCounter(x)] = @ + 1]
  OBVIOUS
<1>7. /\ facets \in [Facets -> FacetCounts] /\ x.facet \in Facets
      /\ \A g \in Facets : \A m \in DOMAIN NewFacet : facets[g][m] >= q.facets[g][m]
  <2>1. x.facet \in Facets
    BY DEF Probed
  <2> QED
    <3>1. PICK old \in [Facets -> FacetCounts] : old = q.facets
      BY <1>1
    <3>2. PICK c \in DOMAIN NewFacet : c = FacetCounter(x)
      BY <1>5
    <3>3. facets = [old EXCEPT ![x.facet][c] = @ + 1]
      BY <1>6, <3>1, <3>2
    <3>4. /\ facets \in [Facets -> FacetCounts]
          /\ \A g \in Facets : \A m \in DOMAIN NewFacet : facets[g][m] >= old[g][m]
      BY <2>1, <3>3, FacetsMore
    <3> QED
      BY <2>1, <3>1, <3>4
<1>8. PICK t : t = [q EXCEPT !.probes = probes, !.facets = facets]
  OBVIOUS
<1>9. /\ t \in Profiles /\ t.probes = probes /\ t.facets = facets /\ t.rows = q.rows
  BY <1>1, <1>4, <1>7, <1>8 DEF Profiles
<1>10. t \in ProfilesAt(now)
  BY <1>1, <1>9 DEF ProfilesAt
<1>11. Continues(p, t)
  <2>1. \A g \in Facets : \A m \in DOMAIN NewFacet :
          p.facets[g][m] \in Nat /\ q.facets[g][m] \in Nat /\ t.facets[g][m] \in Nat
    BY <1>1, <1>7, <1>9 DEF FacetCounts
  <2>2. \A g \in Facets : \A m \in DOMAIN NewFacet : t.facets[g][m] >= p.facets[g][m]
    <3>1. \A g \in Facets : \A m \in DOMAIN NewFacet : q.facets[g][m] >= p.facets[g][m]
      BY <1>1 DEF Continues
    <3> QED
      BY <1>7, <1>9, <2>1, <3>1
  <2> QED
    BY <1>1, <1>9, <2>2, ContinuesIs
<1>12. careful => Keeps(p, t)
  <2> SUFFICES ASSUME careful PROVE Keeps(p, t)
    OBVIOUS
  <2>1. y.id = x.id
    BY <1>2
  <2> QED
    BY <1>1, <1>3, <1>9, <2>1, ProbeKeeps
<1>13. t \in Grown(p, now, careful)
  BY <1>10, <1>11, <1>12 DEF Grown
<1>14. CASE x.verified /\ x.right # None /\ x.domain # None
  <2>1. PICK a : a = Item(x.right, x.label, x.source)
    OBVIOUS
  <2>2. a \in Attempted /\ x.domain \in Domains
    BY <1>14, <2>1 DEF Item, Attempted, Probed, Owners
  <2>3. Record(q, x, now) = Observe(t, x.domain, a, now)
    BY <1>1, <1>2, <1>3, <1>6, <1>8, <1>14, <2>1 DEF Record
  <2> QED
    BY <1>13, <2>2, <2>3, ObserveGrown
<1>15. CASE ~(x.verified /\ x.right # None /\ x.domain # None)
  <2>1. Record(q, x, now) = t
    BY <1>1, <1>2, <1>3, <1>6, <1>8, <1>15 DEF Record
  <2> QED
    BY <1>13, <2>1
<1> QED
  BY <1>14, <1>15

-----------------------------------------------------------------------------
(* Reports                                                                 *)

\* apply_to_profile() of the screen adds to a profile, item by item.
LEMMA AssessmentGrown ==
  ASSUME NEW now \in 0..MaxClock, NEW careful, NEW p \in Profiles, NEW q \in Grown(p, now, careful),
         NEW d \in Domains, NEW items \in Seq(Scored)
  PROVE  ApplyAssessment(q, d, items, now) \in Grown(p, now, careful)
<1> DEFINE n == Len(items)
           S == Grown(p, now, careful)
           first == EnsureDomain(q, d, TRUE)
           Next(k, x) == Observe(x, d, Item(items[k].right, items[k].label, "assessment"), now)
           Step(g) == [k \in 0..n |-> IF k = 0 THEN first ELSE Next(k, g[k - 1])]
           after == CHOOSE g : g = Step(g)
<1>1. n \in Nat
  OBVIOUS
<1>2. ApplyAssessment(q, d, items, now) = after[n]
  BY DEF ApplyAssessment
<1>3. first \in S
  <2>1. \A b \in BOOLEAN : EnsureDomain(q, d, b) \in Grown(p, now, careful)
    BY EnsureGrown
  <2> QED
    BY <2>1
<1>4. ASSUME NEW k \in 1..n, NEW x \in S PROVE Next(k, x) \in S
  <2>1. items[k] \in Scored
    OBVIOUS
  <2>2. PICK a : a = Item(items[k].right, items[k].label, "assessment")
    OBVIOUS
  <2>3. a \in Attempted
    BY <2>1, <2>2 DEF Scored, Item, Attempted, Owners, Sources, ScreenSources
  <2>4. Next(k, x) = Observe(x, d, a, now)
    BY <2>2
  <2> QED
    BY <2>3, <2>4, ObserveGrown
<1> HIDE DEF n, S, first, Next
<1> DEFINE step == [k \in 1..n |-> [x \in S |-> Next(k, x)]]
<1>5. step \in Steppers(n, S)
  BY <1>4 DEF Steppers
<1>6. PICK f : Iterated(f, n, S, first, step)
  <2> HIDE DEF step
  <2> QED
    BY <1>1, <1>3, <1>5, Iterates
<1>7. f \in [0..n -> S] /\ f = Step(f)
  <2>1. f \in [0..n -> S] /\ f[0] = first
    BY <1>6 DEF Iterated
  <2>2. ASSUME NEW k \in 1..n PROVE f[k] = Next(k, f[k - 1])
    <3>1. k - 1 \in 0..n /\ f[k - 1] \in S
      BY <1>1, <2>1
    <3>2. f[k] = step[k][f[k - 1]]
      BY <1>6 DEF Iterated
    <3> QED
      BY <3>1, <3>2
  <2>3. ASSUME NEW k \in 0..n PROVE f[k] = IF k = 0 THEN first ELSE Next(k, f[k - 1])
    <3>1. k = 0 \/ k \in 1..n
      BY <1>1
    <3> QED
      BY <2>1, <2>2, <3>1
  <2> QED
    BY <2>1, <2>3
<1>8. after = Step(after)
  BY <1>7
<1> HIDE DEF after, step
<1>9. after[0] = first /\ \A k \in 1..n : after[k] = Next(k, after[k - 1])
  <2>1. \A k \in 0..n : after[k] = IF k = 0 THEN first ELSE Next(k, after[k - 1])
    BY <1>8
  <2>2. 0 \in 0..n /\ \A k \in 1..n : k \in 0..n /\ k # 0
    BY <1>1
  <2> QED
    BY <2>1, <2>2
<1>10. \A k \in 0..n : after[k] \in S
  <2>1. \A k \in 1..n : after[k - 1] \in S => after[k] \in S
    BY <1>4, <1>9
  <2>2. after[0] \in S
    BY <1>3, <1>9
  <2> QED
    BY <1>1, <2>1, <2>2, StaysIn
<1>11. after[n] \in S
  BY <1>1, <1>10
<1> QED
  BY <1>2, <1>11 DEF S
\* apply_to_profile() of layer 2 adds to a profile, item by item.
LEMMA LayerTwoGrown ==
  ASSUME NEW now \in 0..MaxClock, NEW careful, NEW p \in Profiles, NEW q \in Grown(p, now, careful),
         NEW fac \in Facets, NEW seed \in Seeds, NEW items \in Seq(Scored)
  PROVE  ApplyLayer2(q, fac, seed, items, now) \in Grown(p, now, careful)
<1> DEFINE n == Len(items)
           S == Grown(p, now, careful)
           first == q
           id(k) == <<"layer2", seed, fac, k>>
           probe(k) == [id |-> id(k), facet |-> fac, domain |-> None, right |-> items[k].right,
                        label |-> items[k].label, verified |-> TRUE, source |-> "layer2_screen"]
           Next(k, x) == IF Recorded(x, id(k)) THEN x ELSE Record(x, probe(k), now)
           Step(g) == [k \in 0..n |-> IF k = 0 THEN first ELSE Next(k, g[k - 1])]
           after == CHOOSE g : g = Step(g)
<1>1. n \in Nat
  OBVIOUS
<1>2. ApplyLayer2(q, fac, seed, items, now) = after[n]
  BY DEF ApplyLayer2
<1>3. first \in S
  OBVIOUS
<1>4. ASSUME NEW k \in 1..n, NEW x \in S PROVE Next(k, x) \in S
  <2>1. items[k] \in Scored /\ k \in Nat
    OBVIOUS
  <2>2. PICK y : y = probe(k)
    OBVIOUS
  <2>3. id(k) \in Ids
    BY <2>1 DEF Ids
  <2>4. y \in Probed /\ y.id = id(k)
    BY <2>1, <2>2, <2>3 DEF Scored, Probed, Sources, ScreenSources
  <2>5. y.id[1] \notin Kinds
    BY <2>4, StoreAssumption
  <2>6. Record(x, y, now) \in S
    BY <2>4, <2>5, RecordGrown
  <2> QED
    BY <2>2, <2>6
<1> HIDE DEF n, S, first, id, probe, Next
<1> DEFINE step == [k \in 1..n |-> [x \in S |-> Next(k, x)]]
<1>5. step \in Steppers(n, S)
  BY <1>4 DEF Steppers
<1>6. PICK f : Iterated(f, n, S, first, step)
  <2> HIDE DEF step
  <2> QED
    BY <1>1, <1>3, <1>5, Iterates
<1>7. f \in [0..n -> S] /\ f = Step(f)
  <2>1. f \in [0..n -> S] /\ f[0] = first
    BY <1>6 DEF Iterated
  <2>2. ASSUME NEW k \in 1..n PROVE f[k] = Next(k, f[k - 1])
    <3>1. k - 1 \in 0..n /\ f[k - 1] \in S
      BY <1>1, <2>1
    <3>2. f[k] = step[k][f[k - 1]]
      BY <1>6 DEF Iterated
    <3> QED
      BY <3>1, <3>2
  <2>3. ASSUME NEW k \in 0..n PROVE f[k] = IF k = 0 THEN first ELSE Next(k, f[k - 1])
    <3>1. k = 0 \/ k \in 1..n
      BY <1>1
    <3> QED
      BY <2>1, <2>2, <3>1
  <2> QED
    BY <2>1, <2>3
<1>8. after = Step(after)
  BY <1>7
<1> HIDE DEF after, step
<1>9. after[0] = first /\ \A k \in 1..n : after[k] = Next(k, after[k - 1])
  <2>1. \A k \in 0..n : after[k] = IF k = 0 THEN first ELSE Next(k, after[k - 1])
    BY <1>8
  <2>2. 0 \in 0..n /\ \A k \in 1..n : k \in 0..n /\ k # 0
    BY <1>1
  <2> QED
    BY <2>1, <2>2
<1>10. \A k \in 0..n : after[k] \in S
  <2>1. \A k \in 1..n : after[k - 1] \in S => after[k] \in S
    BY <1>4, <1>9
  <2>2. after[0] \in S
    BY <1>3, <1>9
  <2> QED
    BY <1>1, <2>1, <2>2, StaysIn
<1>11. after[n] \in S
  BY <1>1, <1>10
<1> QED
  BY <1>2, <1>11 DEF S

-----------------------------------------------------------------------------
(* Reading a file, of v1 or v2                                             *)

\* What a row is, but for its classification.
SameHistory(p, q) ==
  /\ q.probes = p.probes /\ q.facets = p.facets
  /\ \A d \in Domains :
       /\ p.rows[d] = None <=> q.rows[d] = None
       /\ p.rows[d] # None =>
            /\ q.rows[d].declared = p.rows[d].declared
            /\ q.rows[d].mentioned = p.rows[d].mentioned
            /\ q.rows[d].count = p.rows[d].count
            /\ q.rows[d].obs = p.rows[d].obs

\* Profiles of one history are continued by the same profiles.
LEMMA SameContinues ==
  ASSUME NEW p, NEW q, NEW r, SameHistory(p, q), Continues(p, r)
  PROVE  Continues(q, r)
<1>1. ASSUME NEW d \in Domains, q.rows[d] # None
      PROVE  RowContinues(q.rows[d], r.rows[d])
  <2>1. p.rows[d] # None
    BY <1>1 DEF SameHistory
  <2>2. RowContinues(p.rows[d], r.rows[d])
    BY <2>1, ContinuesIs
  <2>3. /\ q.rows[d].declared = p.rows[d].declared
        /\ q.rows[d].mentioned = p.rows[d].mentioned
        /\ q.rows[d].count = p.rows[d].count
        /\ q.rows[d].obs = p.rows[d].obs
    BY <2>1 DEF SameHistory
  <2> QED
    BY <2>2, <2>3 DEF RowContinues
<1>2. \A f \in Facets : \A m \in DOMAIN NewFacet : r.facets[f][m] >= q.facets[f][m]
  <2>1. q.facets = p.facets
    BY DEF SameHistory
  <2> QED
    BY <2>1, ContinuesIs
<1> QED
  BY <1>1, <1>2, ContinuesIs

\* A profile continues itself.
LEMMA ContinuesItself ==
  ASSUME NEW now, NEW careful, NEW p \in ProfilesAt(now)
  PROVE  p \in Grown(p, now, careful)
<1>1. p \in Profiles
  BY DEF ProfilesAt
<1>2. ASSUME NEW d \in Domains, p.rows[d] # None
      PROVE  RowContinues(p.rows[d], p.rows[d])
  <2>1. PICK r \in Rows(Observations) : r = p.rows[d]
    BY <1>1, <1>2 DEF Profiles
  <2>2. r.obs \in Seq(Observations) /\ \A m \in Counters : r.count[m] \in Nat
    BY DEF Rows
  <2>3. IsPrefix(SubSeq(r.obs, 0 + 1, Len(r.obs)), r.obs) /\ 0 \in 0..Len(r.obs)
    <3>1. Len(r.obs) - 0 <= Len(r.obs) /\ \A i \in 1..(Len(r.obs) - 0) : r.obs[i] = r.obs[0 + i]
      BY <2>2
    <3>2. 0 \in 0..Len(r.obs)
      BY <2>2
    <3> QED
      BY <2>2, <3>1, <3>2, RestPrefix
  <2>4. Remains(r.obs, r.obs)
    BY <2>3 DEF Remains
  <2> QED
    BY <1>2, <2>1, <2>2, <2>4 DEF RowContinues
<1>3. \A f \in Facets : \A m \in DOMAIN NewFacet : p.facets[f][m] >= p.facets[f][m]
  BY <1>1 DEF Profiles, FacetCounts
<1>4. Continues(p, p)
  BY <1>2, <1>3, ContinuesIs
<1>5. Keeps(p, p)
  <2>1. p.probes \in Seq(Probes)
    BY <1>1 DEF Profiles
  <2>2. \A kind : Count(p, kind) \in Nat
    BY <2>1, CountNat
  <2> QED
    BY <2>2 DEF Keeps
<1> QED
  BY <1>4, <1>5 DEF Grown

\* A migrated observation is one a v2 profile may hold.
LEMMA MigratedSound ==
  ASSUME NEW now \in 0..MaxClock, NEW e \in LegacyObservations
  PROVE  Migrated(e) \in SoundAt(now) /\ Migrated(e) \in Observations
<1>1. PICK verified, owner :
        /\ verified = IF e.verified = None THEN e.source \in ScreenSources ELSE e.verified
        /\ owner = IF e.owner = None THEN "USER" ELSE e.owner
  OBVIOUS
<1>2. verified \in BOOLEAN /\ owner \in Owners
  <2>1. e.verified \in BOOLEAN \cup {None} /\ e.owner \in Owners \cup {None}
    BY DEF LegacyObservations
  <2>2. (e.source \in ScreenSources) \in BOOLEAN
    OBVIOUS
  <2>3. verified \in BOOLEAN
    <3>1. CASE e.verified = None
      BY <1>1, <2>2, <3>1
    <3>2. CASE e.verified # None
      BY <1>1, <2>1, <3>2
    <3> QED
      BY <3>1, <3>2
  <2>4. owner \in Owners
    BY <1>1, <2>1 DEF Owners
  <2> QED
    BY <2>3, <2>4
<1>3. PICK k : k = [e EXCEPT !.verified = verified, !.owner = owner]
  OBVIOUS
<1>4. Migrated(e) = [k EXCEPT !.tier = Tier(k)]
  BY <1>1, <1>3 DEF Migrated
<1>5. k.verified = verified /\ k.owner = owner /\ k.right = e.right /\ k.label = e.label
      /\ k.source = e.source /\ k.time = e.time
  BY <1>3 DEF LegacyObservations
<1>6. Tier(k) \in Tiers
  <2>1. k.verified \in BOOLEAN
    BY <1>2, <1>5
  <2> QED
    BY <2>1 DEF Tier, Tiers
<1>7. PICK m : m = [k EXCEPT !.tier = Tier(k)]
  OBVIOUS
<1>8. m \in Observations
  <2>1. /\ e.right \in BOOLEAN \cup {None} /\ e.label \in Labels /\ e.source \in Sources
        /\ e.time \in Nat \cup {None}
    BY DEF LegacyObservations
  <2>2. PICK t \in Tiers : t = Tier(k)
    BY <1>6
  <2>3. m = [right |-> e.right, verified |-> verified, label |-> e.label, owner |-> owner,
             source |-> e.source, time |-> e.time, tier |-> t]
    BY <1>3, <1>7, <2>2 DEF LegacyObservations
  <2> QED
    BY <1>2, <2>1, <2>2, <2>3 DEF Observations
<1>9. /\ m.verified = k.verified /\ m.owner = k.owner /\ m.label = k.label
      /\ m.source = k.source /\ m.time = k.time /\ m.tier = Tier(k)
  BY <1>3, <1>7 DEF LegacyObservations
<1>10. Tier(m) = Tier(k)
  BY <1>9 DEF Tier, Admissible
<1>11. m.time # None => m.time \in 0..now
  <2>1. e.time \in {0, None} /\ now \in Nat
    BY StoreAssumption DEF LegacyObservations
  <2> QED
    BY <1>5, <1>9, <2>1
<1> QED
  BY <1>4, <1>7, <1>8, <1>9, <1>10, <1>11 DEF SoundAt

\* What migration makes of the observations of a row, and of the row.
Migrations(obs) == [k \in DOMAIN obs |-> Migrated(obs[k])]
Renewed(r, now) ==
  [r EXCEPT !.obs = Migrations(r.obs), !.count = Counted(Migrations(r.obs)),
            !.class = Classify(Migrations(r.obs), now)]

\* A row is migrated with its observations, its counters and its classification.
LEMMA RenewedSound ==
  ASSUME NEW now \in 0..MaxClock, NEW r \in Rows(LegacyObservations), r.seen \in {0, None}
  PROVE  /\ Renewed(r, now) \in RowsAt(now)
         /\ Renewed(r, now).obs = Migrations(r.obs)
         /\ Renewed(r, now).count = Counted(Migrations(r.obs))
         /\ Renewed(r, now).declared = r.declared
         /\ Renewed(r, now).mentioned = r.mentioned
<1>1. r.obs \in Seq(LegacyObservations)
  BY DEF Rows
<1>2. PICK obs : obs = Migrations(r.obs)
  OBVIOUS
<1>3. /\ obs \in Seq(Observations) /\ \A k \in DOMAIN obs : obs[k] \in SoundAt(now)
  <2>1. ASSUME NEW k \in DOMAIN r.obs
        PROVE  Migrated(r.obs[k]) \in SoundAt(now) /\ Migrated(r.obs[k]) \in Observations
    <3>1. r.obs[k] \in LegacyObservations
      BY <1>1
    <3> QED
      BY <3>1, MigratedSound
  <2>2. DOMAIN r.obs = 1..Len(r.obs) /\ Len(r.obs) \in Nat
    BY <1>1
  <2>3. obs = [k \in 1..Len(r.obs) |-> Migrated(r.obs[k])]
    BY <1>2, <2>2 DEF Migrations
  <2>4. obs \in [1..Len(r.obs) -> Observations]
    BY <2>1, <2>2, <2>3
  <2>5. obs \in Seq(Observations)
    BY <2>2, <2>4
  <2> QED
    BY <2>1, <2>2, <2>3, <2>5
<1>4. PICK count \in [Counters -> Nat] : count = Counted(obs)
  BY <1>3, CountedTyped
<1>5. PICK class : class = Classify(obs, now)
  OBVIOUS
<1>6. class \in Classifications
  BY <1>5 DEF Classify, Summarize, Classifications, LoadBearing
<1>7. PICK s : s = [r EXCEPT !.obs = obs, !.count = count, !.class = class]
  OBVIOUS
<1>8. s = Renewed(r, now)
  BY <1>2, <1>4, <1>5, <1>7 DEF Renewed
<1>9. /\ s \in Rows(Observations)
      /\ s.obs = obs /\ s.count = count /\ s.class = class /\ s.seen = r.seen
      /\ s.declared = r.declared /\ s.mentioned = r.mentioned
  BY <1>3, <1>6, <1>7 DEF Rows
<1>10. s.seen \in 0..now \cup {None}
  BY <1>9, StoreAssumption
<1>11. s.class \in Classifications /\ (s.class \in LoadBearing => Earned(s))
  BY <1>3, <1>5, <1>9, <1>10, ClassIsEarned
<1>12. s \in RowsAt(now)
  BY <1>3, <1>9, <1>11 DEF RowsAt
<1> QED
  BY <1>2, <1>4, <1>8, <1>9, <1>12

\* A file of v1, row by row.
LEMMA LegacyLoaded ==
  ASSUME NEW p \in LegacyProfiles, NEW now
  PROVE  /\ Loaded(p, now).schema = "v2"
         /\ Loaded(p, now).probes = p.probes /\ Loaded(p, now).facets = p.facets
         /\ \A d \in Domains :
              Loaded(p, now).rows[d] = IF p.rows[d] = None THEN None ELSE Renewed(p.rows[d], now)
         /\ \A d \in Domains : p.rows[d] # None =>
              p.rows[d] \in Rows(LegacyObservations) /\ p.rows[d].seen \in {0, None}
<1>1. PICK rows :
        rows = [d \in Domains |-> IF p.rows[d] = None THEN None ELSE Renewed(p.rows[d], now)]
  OBVIOUS
<1>2. Loaded(p, now) = [p EXCEPT !.schema = "v2", !.rows = rows]
  BY <1>1 DEF Loaded, Renewed, Migrations, LegacyProfiles
<1>3. PICK q : q = [p EXCEPT !.schema = "v2", !.rows = rows]
  OBVIOUS
<1>4. q.schema = "v2" /\ q.probes = p.probes /\ q.facets = p.facets /\ q.rows = rows
  BY <1>3 DEF LegacyProfiles
<1>5. \A d \in Domains : p.rows[d] # None =>
        p.rows[d] \in Rows(LegacyObservations) /\ p.rows[d].seen \in {0, None}
  BY DEF LegacyProfiles
<1> QED
  BY <1>1, <1>2, <1>3, <1>4, <1>5

\* Reading a file gives a profile of v2.
LEMMA LoadedSound ==
  ASSUME NEW now \in 0..MaxClock, NEW p \in ProfilesAt(now) \cup LegacyProfiles
  PROVE  /\ Loaded(p, now) \in ProfilesAt(now)
         /\ Loaded(p, now).probes = p.probes
<1>1. CASE p \in ProfilesAt(now)
  <2>1. Loaded(p, now) = p
    BY <1>1 DEF Loaded, ProfilesAt, Profiles
  <2> QED
    BY <1>1, <2>1
<1>2. CASE p \in LegacyProfiles
  <2>1. p.probes \in Seq(Probes) /\ p.facets \in [Facets -> FacetCounts]
    BY <1>2 DEF LegacyProfiles
  <2>2. PICK rows :
          rows = [d \in Domains |-> IF p.rows[d] = None THEN None ELSE Renewed(p.rows[d], now)]
    OBVIOUS
  <2>3. Loaded(p, now) = [p EXCEPT !.schema = "v2", !.rows = rows]
    BY <1>2, <2>2 DEF Loaded, Renewed, Migrations, LegacyProfiles
  <2>4. ASSUME NEW d \in Domains, p.rows[d] # None
        PROVE  Renewed(p.rows[d], now) \in RowsAt(now)
    <3>1. p.rows[d] \in Rows(LegacyObservations) /\ p.rows[d].seen \in {0, None}
      BY <1>2, <2>4, LegacyLoaded
    <3> QED
      BY <3>1, RenewedSound
  <2>5. rows \in [Domains -> Rows(Observations) \cup {None}]
    BY <2>2, <2>4 DEF RowsAt
  <2>6. \A d \in Domains : rows[d] # None => rows[d] \in RowsAt(now)
    BY <2>2, <2>4
  <2>7. PICK q : q = Loaded(p, now)
    OBVIOUS
  <2>8. q \in Profiles /\ q.probes = p.probes /\ q.rows = rows
    BY <1>2, <2>1, <2>3, <2>5, <2>7 DEF Profiles, LegacyProfiles
  <2> QED
    BY <2>6, <2>7, <2>8 DEF ProfilesAt
<1> QED
  BY <1>1, <1>2

\* What is sound at a time is sound later.
LEMMA Later ==
  ASSUME NEW now \in Nat, NEW then \in Nat, now <= then
  PROVE  /\ SoundAt(now) \subseteq SoundAt(then)
         /\ RowsAt(now) \subseteq RowsAt(then)
         /\ ProfilesAt(now) \subseteq ProfilesAt(then)
<1>1. SoundAt(now) \subseteq SoundAt(then)
  <2> SUFFICES ASSUME NEW o \in SoundAt(now) PROVE o \in SoundAt(then)
    OBVIOUS
  <2>1. \A t : t \in 0..now => t \in 0..then
    OBVIOUS
  <2> QED
    BY <2>1 DEF SoundAt
<1>2. RowsAt(now) \subseteq RowsAt(then)
  BY <1>1 DEF RowsAt
<1>3. ProfilesAt(now) \subseteq ProfilesAt(then)
  BY <1>2 DEF ProfilesAt
<1> QED
  BY <1>1, <1>2, <1>3

\* What became of a profile by a time, it became by a later one.
LEMMA GrownLater ==
  ASSUME NEW now \in Nat, NEW then \in Nat, now <= then, NEW p, NEW careful \in BOOLEAN,
         NEW more \in BOOLEAN, more => careful, NEW q \in Grown(p, now, careful)
  PROVE  q \in Grown(p, then, more)
  BY Later DEF Grown

\* The profile a file stands for, whenever it is read.
LEMMA LoadedGrown ==
  ASSUME NEW now \in 0..MaxClock, NEW p \in ProfilesAt(now) \cup LegacyProfiles,
         NEW careful \in BOOLEAN
  PROVE  /\ Loaded(p, 0) \in Profiles
         /\ SameHistory(Loaded(p, 0), Loaded(p, now))
         /\ Loaded(p, now) \in Grown(Loaded(p, 0), now, careful)
         /\ Loaded(p, now).probes = p.probes
<1>1. 0 \in 0..MaxClock /\ now \in Nat
  BY StoreAssumption
<1>2. Loaded(p, now) \in ProfilesAt(now) /\ Loaded(p, now).probes = p.probes
  BY LoadedSound
<1>3. Loaded(p, 0) \in Profiles /\ Loaded(p, 0).probes = p.probes
  <2>1. CASE p \in ProfilesAt(now)
    BY <2>1 DEF ProfilesAt, Profiles, Loaded
  <2>2. CASE p \in LegacyProfiles
    <3>1. Loaded(p, 0) \in ProfilesAt(0) /\ Loaded(p, 0).probes = p.probes
      BY <1>1, <2>2, LoadedSound
    <3> QED
      BY <3>1 DEF ProfilesAt
  <2> QED
    BY <2>1, <2>2
<1>4. /\ Loaded(p, 0).facets = Loaded(p, now).facets
      /\ \A d \in Domains :
           /\ Loaded(p, 0).rows[d] = None <=> Loaded(p, now).rows[d] = None
           /\ Loaded(p, 0).rows[d] # None =>
                /\ Loaded(p, now).rows[d].declared = Loaded(p, 0).rows[d].declared
                /\ Loaded(p, now).rows[d].mentioned = Loaded(p, 0).rows[d].mentioned
                /\ Loaded(p, now).rows[d].count = Loaded(p, 0).rows[d].count
                /\ Loaded(p, now).rows[d].obs = Loaded(p, 0).rows[d].obs
  <2>1. CASE p \in ProfilesAt(now)
    <3>1. Loaded(p, 0) = p /\ Loaded(p, now) = p
      BY <2>1 DEF ProfilesAt, Profiles, Loaded
    <3> QED
      BY <3>1
  <2>2. CASE p \in LegacyProfiles
    <3>2. ASSUME NEW t \in 0..MaxClock
          PROVE  /\ Loaded(p, t).facets = p.facets
                 /\ \A d \in Domains :
                      /\ p.rows[d] = None <=> Loaded(p, t).rows[d] = None
                      /\ p.rows[d] # None =>
                           /\ Loaded(p, t).rows[d].declared = p.rows[d].declared
                           /\ Loaded(p, t).rows[d].mentioned = p.rows[d].mentioned
                           /\ Loaded(p, t).rows[d].count = Counted(Migrations(p.rows[d].obs))
                           /\ Loaded(p, t).rows[d].obs = Migrations(p.rows[d].obs)
      <4>1. Loaded(p, t).facets = p.facets
        BY <2>2, LegacyLoaded
      <4>2. ASSUME NEW d \in Domains
            PROVE  Loaded(p, t).rows[d] = IF p.rows[d] = None THEN None ELSE Renewed(p.rows[d], t)
        BY <2>2, LegacyLoaded
      <4>3. ASSUME NEW d \in Domains, p.rows[d] # None
            PROVE  /\ Loaded(p, t).rows[d] # None
                   /\ Loaded(p, t).rows[d].declared = p.rows[d].declared
                   /\ Loaded(p, t).rows[d].mentioned = p.rows[d].mentioned
                   /\ Loaded(p, t).rows[d].count = Counted(Migrations(p.rows[d].obs))
                   /\ Loaded(p, t).rows[d].obs = Migrations(p.rows[d].obs)
        <5>1. p.rows[d] \in Rows(LegacyObservations) /\ p.rows[d].seen \in {0, None}
          BY <2>2, <4>3, LegacyLoaded
        <5>2. Loaded(p, t).rows[d] = Renewed(p.rows[d], t)
          BY <4>2, <4>3
        <5>3. Renewed(p.rows[d], t) # None
          BY <5>1, RenewedSound, StoreAssumption DEF RowsAt
        <5> QED
          BY <5>1, <5>2, <5>3, RenewedSound
      <4> QED
        BY <4>1, <4>2, <4>3
    <3> QED
      BY <1>1, <3>2
  <2> QED
    BY <2>1, <2>2
<1>5. SameHistory(Loaded(p, 0), Loaded(p, now)) /\ SameHistory(Loaded(p, now), Loaded(p, 0))
  BY <1>2, <1>3, <1>4 DEF SameHistory
<1>6. Loaded(p, now) \in Grown(Loaded(p, now), now, careful)
  BY <1>2, ContinuesItself
<1>7. Continues(Loaded(p, 0), Loaded(p, now))
  BY <1>5, <1>6, SameContinues DEF Grown
<1>8. Keeps(Loaded(p, 0), Loaded(p, now)) \/ ~careful
  <2>1. careful => Keeps(Loaded(p, now), Loaded(p, now))
    BY <1>6 DEF Grown
  <2>2. careful => Keeps(Loaded(p, 0), Loaded(p, now))
    BY <1>2, <1>3, <2>1, SameProbes DEF Keeps
  <2> QED
    BY <2>2
<1> QED
  BY <1>2, <1>3, <1>5, <1>7, <1>8 DEF Grown

-----------------------------------------------------------------------------
(* The store: the invariant                                                *)

\* What a command still has to do.
Todo ==
  {<<"save">>, <<"save", "activate">>, <<"activate">>}
    \cup {<<"save", "activate", d, "save">> : d \in Domains}
    \cup {<<"activate", d, "save">> : d \in Domains} \cup {<<d, "save">> : d \in Domains}
Underway(now) ==
  [name : Names, copy : ProfilesAt(now), fresh : BOOLEAN, stale : BOOLEAN, steps : Todo]
Files(now) == ProfilesAt(now) \cup LegacyProfiles

\* A command's copy continues the file, unless it does not come from the file or
\* the file changed since.
CopyFits(k, file, now, careful) ==
  /\ k.stale => file # None
  /\ k.fresh => k.copy = NewProfile /\ Head(k.steps) = "save"
  /\ ~k.stale /\ ~k.fresh => file # None /\ k.copy \in Grown(Loaded(file, 0), now, careful)

\* The numbers of planned and of recorded probes are at most what is counted.
PlansFit(made, file) ==
  /\ file = None => made = {}
  /\ file # None /\ ~Full(file) =>
       Numbered(file) /\ \A id \in made : id[2] <= Count(file, id[1]) + 1

StoreTyped ==
  /\ clock \in 0..MaxClock
  /\ disk \in [Names -> Files(clock) \cup {None}]
  /\ pointer \in Names \cup {None}
  /\ client \in [Clients -> Underway(clock) \cup {None}]
  /\ plans \in [Names -> SUBSET (Kinds \X Nat)]
  /\ lossy \in [Names -> BOOLEAN]
CopiesFit ==
  \A c \in Clients : client[c] # None =>
    CopyFits(client[c], disk[client[c].name], clock, ~lossy[client[c].name])
NumbersFit == \A n \in Names : ~lossy[n] => PlansFit(plans[n], disk[n])
StoreInv == StoreTyped /\ CopiesFit /\ NumbersFit

\* A new profile claims nothing.
LEMMA NewSound ==
  ASSUME NEW now
  PROVE  NewProfile \in ProfilesAt(now) /\ NewProfile.probes = <<>>
<1>1. NewFacet \in FacetCounts
  BY DEF NewFacet, FacetCounts
<1>2. <<>> \in Seq(Probes)
  OBVIOUS
<1> QED
  BY <1>1, <1>2 DEF NewProfile, ProfilesAt, Profiles

\* An empty history fits no plan but the empty one.
LEMMA EmptyFits ==
  ASSUME NEW p, p.probes = <<>>
  PROVE  PlansFit({}, p) /\ Numbered(p) /\ ~Full(p)
<1>1. Len(p.probes) = 0 /\ DOMAIN p.probes = {}
  OBVIOUS
<1> QED
  BY <1>1, StoreAssumption DEF PlansFit, Numbered, Full

\* Files and commands stay what they are as time passes.
LEMMA FilesLater ==
  ASSUME NEW now \in Nat, NEW then \in Nat, now <= then
  PROVE  Files(now) \subseteq Files(then) /\ Underway(now) \subseteq Underway(then)
  BY Later DEF Files, Underway

\* The files FOIL starts with.
LEMMA StoreStart == StoreInit => StoreInv
<1> SUFFICES ASSUME StoreInit PROVE StoreInv
  OBVIOUS
<1>1. clock = 0 /\ clock \in 0..MaxClock
  BY StoreAssumption DEF StoreInit
<1>2. Initial \subseteq Files(clock)
  BY NewSound, StoreAssumption DEF Files
<1>3. disk \in [Names -> Files(clock) \cup {None}]
  BY <1>2 DEF StoreInit
<1>4. StoreTyped
  BY <1>1, <1>3 DEF StoreInit, StoreTyped
<1>5. CopiesFit
  BY DEF StoreInit, CopiesFit
<1>6. NumbersFit
  <2> SUFFICES ASSUME NEW n \in Names PROVE PlansFit({}, disk[n])
    BY DEF StoreInit, NumbersFit
  <2>1. CASE disk[n] = None
    BY <2>1 DEF PlansFit
  <2>2. CASE disk[n] # None
    <3>1. Full(disk[n]) \/ Numbered(disk[n])
      BY <2>2, StoreAssumption DEF StoreInit
    <3> QED
      BY <2>2, <3>1 DEF PlansFit
  <2> QED
    BY <2>1, <2>2
<1> QED
  BY <1>4, <1>5, <1>6 DEF StoreInv

\* What a command reads.
LEMMA ReadGrown ==
  ASSUME StoreTyped, NEW n \in Names, disk[n] # None, NEW careful \in BOOLEAN
  PROVE  /\ Loaded(disk[n], 0) \in Profiles
         /\ Read(n) \in Grown(Loaded(disk[n], 0), clock, careful)
         /\ SameHistory(Loaded(disk[n], 0), Read(n))
         /\ Read(n) \in ProfilesAt(clock)
         /\ Read(n).probes = disk[n].probes
<1>1. disk[n] \in ProfilesAt(clock) \cup LegacyProfiles /\ clock \in 0..MaxClock
  BY DEF StoreTyped, Files
<1> QED
  BY <1>1, LoadedGrown, LoadedSound DEF Read

\* A command begins with a copy that continues its file, or with a new profile.
LEMMA BeginKeeps ==
  ASSUME StoreInv, NEW c \in Clients, NEW n \in Names, NEW copy \in ProfilesAt(clock),
         NEW fresh \in BOOLEAN, NEW steps \in Todo, Begin(c, n, copy, fresh, steps),
         fresh => copy = NewProfile /\ Head(steps) = "save",
         ~fresh => disk[n] # None /\ copy \in Grown(Loaded(disk[n], 0), clock, ~lossy[n])
  PROVE  StoreInv'
<1>1. PICK k : k = [name |-> n, copy |-> copy, fresh |-> fresh, stale |-> FALSE, steps |-> steps]
  OBVIOUS
<1>2. k \in Underway(clock) /\ k.name = n
  BY <1>1 DEF Underway
<1>3. CopyFits(k, disk[n], clock, ~lossy[n])
  BY <1>1 DEF CopyFits
<1>4. client' = [client EXCEPT ![c] = k] /\ UNCHANGED <<disk, pointer, plans, lossy, clock>>
  BY <1>1 DEF Begin
<1>5. StoreTyped'
  BY <1>2, <1>4 DEF StoreInv, StoreTyped
<1>6. CopiesFit'
  <2> SUFFICES ASSUME NEW q \in Clients, client'[q] # None
               PROVE  CopyFits(client'[q], disk[client'[q].name], clock, ~lossy[client'[q].name])
    BY <1>4 DEF CopiesFit
  <2>1. CASE q = c
    <3>1. client'[q] = k
      BY <1>4, <2>1 DEF StoreInv, StoreTyped
    <3> QED
      BY <1>2, <1>3, <3>1
  <2>2. CASE q # c
    <3>1. client'[q] = client[q]
      BY <1>4, <2>2 DEF StoreInv, StoreTyped
    <3> QED
      BY <3>1 DEF StoreInv, CopiesFit
  <2> QED
    BY <2>1, <2>2
<1>7. NumbersFit'
  BY <1>4 DEF StoreInv, NumbersFit
<1> QED
  BY <1>5, <1>6, <1>7 DEF StoreInv

\* The same of a command that edits what it read.
LEMMA EditKeeps ==
  ASSUME StoreInv, NEW c \in Clients, NEW n \in Names, NEW copy, Edit(c, n, copy),
         copy \in Grown(Loaded(disk[n], 0), clock, ~lossy[n])
  PROVE  StoreInv'
<1>1. disk[n] # None /\ Begin(c, n, copy, FALSE, <<"save">>)
  BY DEF Edit
<1>2. copy \in ProfilesAt(clock) /\ <<"save">> \in Todo
  BY DEF Grown, Todo
<1>3. \A b \in BOOLEAN : ~b /\ Begin(c, n, copy, b, <<"save">>) => StoreInv'
  BY <1>1, <1>2, BeginKeeps
<1> QED
  BY <1>1, <1>3

-----------------------------------------------------------------------------
(* Beginning a command                                                     *)

\* init begins with a new profile.
LEMMA InitKeeps ==
  ASSUME StoreInv, NEW c \in Clients, InitProfile(c)
  PROVE  StoreInv'
<1>1. PICK n \in Names, steps \in {<<"save">>, <<"save", "activate">>} :
        Begin(c, n, NewProfile, TRUE, steps)
  BY DEF InitProfile
<1>2. steps \in Todo /\ Head(steps) = "save"
  BY DEF Todo
<1>3. NewProfile \in ProfilesAt(clock)
  BY NewSound
<1>4. \A b \in BOOLEAN : b /\ Begin(c, n, NewProfile, b, steps) => StoreInv'
  BY <1>2, <1>3, BeginKeeps
<1> QED
  BY <1>1, <1>4

\* set-domain edits a row.
LEMMA SetDomainKeeps ==
  ASSUME StoreInv, NEW c \in Clients, SetDomain(c)
  PROVE  StoreInv'
<1>1. PICK n \in Names, d \in Domains : Edit(c, n, EnsureDomain(Read(n), d, TRUE))
  BY DEF SetDomain
<1>2. PICK p, q, careful :
        /\ p = Loaded(disk[n], 0) /\ q = Read(n)
        /\ careful \in BOOLEAN /\ careful = ~lossy[n]
  OBVIOUS
<1>3. p \in Profiles /\ q \in Grown(p, clock, careful)
  BY <1>1, <1>2, ReadGrown DEF Edit, StoreInv
<1>4. \A b \in BOOLEAN : EnsureDomain(q, d, b) \in Grown(p, clock, careful)
  BY <1>3, EnsureGrown
<1>5. EnsureDomain(q, d, TRUE) \in Grown(p, clock, careful)
  BY <1>4
<1> QED
  BY <1>1, <1>2, <1>5, EditKeeps

\* observe adds an observation.
LEMMA ObserveKeeps ==
  ASSUME StoreInv, NEW c \in Clients, ObserveCmd(c)
  PROVE  StoreInv'
<1>1. PICK n \in Names, d \in Domains, a \in Attempts : Edit(c, n, Observe(Read(n), d, a, clock))
  BY DEF ObserveCmd
<1>2. PICK p, q, careful :
        /\ p = Loaded(disk[n], 0) /\ q = Read(n)
        /\ careful \in BOOLEAN /\ careful = ~lossy[n]
  OBVIOUS
<1>3. p \in Profiles /\ q \in Grown(p, clock, careful)
  BY <1>1, <1>2, ReadGrown DEF Edit, StoreInv
<1>4. a \in Attempted /\ clock \in 0..MaxClock
  BY StoreAssumption DEF StoreInv, StoreTyped
<1>5. Observe(q, d, a, clock) \in Grown(p, clock, careful)
  BY <1>3, <1>4, ObserveGrown
<1> QED
  BY <1>1, <1>2, <1>5, EditKeeps

\* apply of an assessment adds its items.
LEMMA AssessKeeps ==
  ASSUME StoreInv, NEW c \in Clients, Assess(c)
  PROVE  StoreInv'
<1>1. PICK n \in Names, d \in Domains, items \in Reports :
        Edit(c, n, ApplyAssessment(Read(n), d, items, clock))
  BY DEF Assess
<1>2. PICK p, q, careful :
        /\ p = Loaded(disk[n], 0) /\ q = Read(n)
        /\ careful \in BOOLEAN /\ careful = ~lossy[n]
  OBVIOUS
<1>3. p \in Profiles /\ q \in Grown(p, clock, careful)
  BY <1>1, <1>2, ReadGrown DEF Edit, StoreInv
<1>4. items \in Seq(Scored) /\ clock \in 0..MaxClock
  BY StoreAssumption DEF StoreInv, StoreTyped
<1>5. ApplyAssessment(q, d, items, clock) \in Grown(p, clock, careful)
  BY <1>3, <1>4, AssessmentGrown
<1> QED
  BY <1>1, <1>2, <1>5, EditKeeps

\* apply of layer 2 records the items the history does not hold.
LEMMA LayerTwoKeeps ==
  ASSUME StoreInv, NEW c \in Clients, Layer2(c)
  PROVE  StoreInv'
<1>1. PICK n \in Names, f \in Facets, seed \in Seeds, items \in Reports :
        Edit(c, n, ApplyLayer2(Read(n), f, seed, items, clock))
  BY DEF Layer2
<1>2. PICK p, q, careful :
        /\ p = Loaded(disk[n], 0) /\ q = Read(n)
        /\ careful \in BOOLEAN /\ careful = ~lossy[n]
  OBVIOUS
<1>3. p \in Profiles /\ q \in Grown(p, clock, careful)
  BY <1>1, <1>2, ReadGrown DEF Edit, StoreInv
<1>4. items \in Seq(Scored) /\ clock \in 0..MaxClock
  BY StoreAssumption DEF StoreInv, StoreTyped
<1>5. ApplyLayer2(q, f, seed, items, clock) \in Grown(p, clock, careful)
  BY <1>3, <1>4, LayerTwoGrown
<1> QED
  BY <1>1, <1>2, <1>5, EditKeeps

\* A probe that comes from a plan has a number the history is ready for.
LEMMA RecordProbeKeeps ==
  ASSUME StoreInv, NEW c \in Clients, RecordProbe(c)
  PROVE  StoreInv'
<1>1. PICK n \in Names : \E id \in plans[n] :
      \E f \in Facets, d \in Domains \cup {None}, a \in Attempts :
        /\ disk[n] # None
        /\ Edit(c, n, Record(Read(n), [id |-> id, facet |-> f, domain |-> d, right |-> a.right,
              label |-> a.label, verified |-> a.verified, source |-> a.source], clock))
  BY DEF RecordProbe
<1>2. PICK id \in plans[n] : \E f \in Facets, d \in Domains \cup {None}, a \in Attempts :
        /\ disk[n] # None
        /\ Edit(c, n, Record(Read(n), [id |-> id, facet |-> f, domain |-> d, right |-> a.right,
              label |-> a.label, verified |-> a.verified, source |-> a.source], clock))
  BY <1>1
<1>3. PICK f \in Facets, d \in Domains \cup {None}, a \in Attempts :
        /\ disk[n] # None
        /\ Edit(c, n, Record(Read(n), [id |-> id, facet |-> f, domain |-> d, right |-> a.right,
              label |-> a.label, verified |-> a.verified, source |-> a.source], clock))
  BY <1>2
<1>4. PICK p, q, careful :
        /\ p = Loaded(disk[n], 0) /\ q = Read(n)
        /\ careful \in BOOLEAN /\ careful = ~lossy[n]
  OBVIOUS
<1>5. p \in Profiles /\ q \in Grown(p, clock, careful) /\ q.probes = disk[n].probes
  BY <1>3, <1>4, ReadGrown DEF StoreInv
<1>6. a \in Attempted /\ clock \in 0..MaxClock
  BY StoreAssumption DEF StoreInv, StoreTyped
<1>7. PICK x : x = [id |-> id, facet |-> f, domain |-> d, right |-> a.right,
                    label |-> a.label, verified |-> a.verified, source |-> a.source]
  OBVIOUS
<1>8. id \in Kinds \X Nat
  BY DEF StoreInv, StoreTyped
<1>9. x \in Probed /\ x.id = id
  BY <1>6, <1>7, <1>8 DEF Probed, Ids, Attempted, Sources
<1>10. careful /\ ~Full(q) /\ Numbered(q) /\ x.id[1] \in Kinds =>
        x.id[2] \in Nat /\ x.id[2] <= Count(q, x.id[1]) + 1
  <2> SUFFICES ASSUME careful, ~Full(q)
               PROVE  id[2] \in Nat /\ id[2] <= Count(q, id[1]) + 1
    BY <1>9
  <2>1. ~lossy[n] /\ ~Full(disk[n])
    BY <1>4, <1>5, SameProbes
  <2>2. PlansFit(plans[n], disk[n])
    BY <2>1 DEF StoreInv, NumbersFit
  <2>3. id[2] <= Count(disk[n], id[1]) + 1
    BY <1>3, <2>1, <2>2 DEF PlansFit
  <2>4. Count(q, id[1]) = Count(disk[n], id[1])
    BY <1>5, SameProbes
  <2> QED
    BY <1>8, <2>3, <2>4
<1>11. Record(q, x, clock) \in Grown(p, clock, careful)
  BY <1>5, <1>6, <1>9, <1>10, RecordGrown
<1>12. Edit(c, n, Record(q, x, clock))
  BY <1>3, <1>4, <1>7
<1> QED
  BY <1>4, <1>11, <1>12, EditKeeps

\* The prompt hook begins a profile, or marks a domain of the active one.
LEMMA PromptKeeps ==
  ASSUME StoreInv, NEW c \in Clients, Prompt(c)
  PROVE  StoreInv'
<1>1. PICK d \in Domains :
        IF pointer = None
        THEN Begin(c, Default, NewProfile, TRUE, <<"save", "activate", d, "save">>)
        ELSE Edit(c, pointer, MarkRelevance(Read(pointer), d))
  BY DEF Prompt
<1>2. CASE pointer = None
  <2>1. PICK steps : steps = <<"save", "activate", d, "save">>
    OBVIOUS
  <2>2. steps \in Todo /\ Head(steps) = "save"
    BY <2>1 DEF Todo
  <2>3. NewProfile \in ProfilesAt(clock) /\ Default \in Names
    BY NewSound, StoreAssumption
  <2>4. \A b \in BOOLEAN : b /\ Begin(c, Default, NewProfile, b, steps) => StoreInv'
    BY <2>2, <2>3, BeginKeeps
  <2> QED
    BY <1>1, <1>2, <2>1, <2>4
<1>3. CASE pointer # None
  <2>1. PICK n \in Names : n = pointer
    BY <1>3 DEF StoreInv, StoreTyped
  <2>2. PICK p, q, careful :
        /\ p = Loaded(disk[n], 0) /\ q = Read(n)
        /\ careful \in BOOLEAN /\ careful = ~lossy[n]
    OBVIOUS
  <2>3. Edit(c, n, MarkRelevance(q, d))
    BY <1>1, <1>3, <2>1, <2>2
  <2>4. p \in Profiles /\ q \in Grown(p, clock, careful)
    BY <2>2, <2>3, ReadGrown DEF Edit, StoreInv
  <2>5. MarkRelevance(q, d) \in Grown(p, clock, careful)
    BY <2>4, MarkGrown
  <2> QED
    BY <2>2, <2>3, <2>5, EditKeeps
<1> QED
  BY <1>2, <1>3

\* A plan proposes the number after the last.
LEMMA PlanKeeps ==
  ASSUME StoreInv, Plan
  PROVE  StoreInv'
<1>1. PICK n \in Names, kind \in Kinds :
        /\ disk[n] # None
        /\ plans' = [plans EXCEPT ![n] = @ \cup {PlannedId(Read(n), kind)}]
        /\ UNCHANGED <<disk, pointer, client, lossy, clock, commands>>
  BY DEF Plan
<1>2. PICK count \in Nat : count = Count(disk[n], kind)
  <2>1. Read(n).probes = disk[n].probes /\ Read(n) \in Profiles
    BY <1>1, ReadGrown DEF StoreInv, ProfilesAt
  <2>2. Count(Read(n), kind) \in Nat
    BY <2>1, CountNat DEF Profiles
  <2> QED
    BY <2>1, <2>2, SameProbes
<1>3. PlannedId(Read(n), kind) = <<kind, 1 + count>>
  <2>1. Read(n).probes = disk[n].probes
    BY <1>1, ReadGrown DEF StoreInv
  <2> QED
    BY <1>2, <2>1 DEF PlannedId, Count, Held
<1>4. PICK id \in Kinds \X Nat : id = <<kind, 1 + count>>
  <2>1. <<kind, 1 + count>> \in Kinds \X Nat
    BY <1>2
  <2> QED
    BY <2>1
<1>5. plans' = [plans EXCEPT ![n] = plans[n] \cup {id}]
  BY <1>1, <1>3, <1>4
<1>6. StoreTyped'
  BY <1>1, <1>5 DEF StoreInv, StoreTyped
<1>7. CopiesFit'
  BY <1>1 DEF StoreInv, CopiesFit
<1>8. NumbersFit'
  <2> SUFFICES ASSUME NEW m \in Names, ~lossy[m] PROVE PlansFit(plans'[m], disk[m])
    BY <1>1 DEF NumbersFit
  <2>1. PlansFit(plans[m], disk[m])
    BY DEF StoreInv, NumbersFit
  <2>2. CASE m = n
    <3>1. plans'[m] = plans[m] \cup {id}
      BY <1>5, <2>2 DEF StoreInv, StoreTyped
    <3>2. id[1] = kind /\ id[2] <= Count(disk[n], kind) + 1
      BY <1>2, <1>4
    <3> QED
      BY <1>1, <2>1, <2>2, <3>1, <3>2 DEF PlansFit
  <2>3. CASE m # n
    BY <1>5, <2>1, <2>3 DEF StoreInv, StoreTyped
  <2> QED
    BY <2>2, <2>3
<1> QED
  BY <1>6, <1>7, <1>8 DEF StoreInv

-----------------------------------------------------------------------------
(* Finishing it                                                            *)

\* What a step that leaves one command changes of the commands.
LEMMA ClientKeeps ==
  ASSUME StoreInv, NEW c \in Clients, NEW k \in Underway(clock) \cup {None},
         client' = [client EXCEPT ![c] = k], UNCHANGED <<disk, plans, lossy, clock>>,
         pointer' \in Names \cup {None},
         k # None => CopyFits(k, disk[k.name], clock, ~lossy[k.name])
  PROVE  StoreInv'
<1>1. StoreTyped'
  BY DEF StoreInv, StoreTyped
<1>2. CopiesFit'
  <2> SUFFICES ASSUME NEW q \in Clients, client'[q] # None
               PROVE  CopyFits(client'[q], disk[client'[q].name], clock, ~lossy[client'[q].name])
    BY DEF CopiesFit
  <2>1. CASE q = c
    <3>1. client'[q] = k
      BY <2>1 DEF StoreInv, StoreTyped
    <3> QED
      BY <3>1
  <2>2. CASE q # c
    <3>1. client'[q] = client[q]
      BY <2>2 DEF StoreInv, StoreTyped
    <3> QED
      BY <3>1 DEF StoreInv, CopiesFit
  <2> QED
    BY <2>1, <2>2
<1>3. NumbersFit'
  BY DEF StoreInv, NumbersFit
<1> QED
  BY <1>1, <1>2, <1>3 DEF StoreInv

\* What is left to do.
LEMMA TodoIs ==
  ASSUME NEW steps \in Todo
  PROVE  /\ Len(steps) \in Nat \ {0}
         /\ Len(steps) = 1 => Head(steps) \in {"save", "activate"}
         /\ Len(steps) # 1 => Tail(steps) \in Todo
<1>1. CASE steps = <<"save">> \/ steps = <<"activate">>
  BY <1>1
<1>2. CASE steps = <<"save", "activate">>
  BY <1>2 DEF Todo
<1>3. CASE \E d \in Domains : steps = <<"save", "activate", d, "save">>
  BY <1>3 DEF Todo
<1>4. CASE \E d \in Domains : steps = <<"activate", d, "save">>
  BY <1>4 DEF Todo
<1>5. CASE \E d \in Domains : steps = <<d, "save">>
  BY <1>5 DEF Todo
<1> QED
  BY <1>1, <1>2, <1>3, <1>4, <1>5 DEF Todo

\* A command that did a step of which nothing is left to say.
LEMMA DoneFits ==
  ASSUME NEW now, NEW k \in Underway(now), NEW file, NEW careful, CopyFits(k, file, now, careful),
         ~k.fresh, Len(k.steps) # 1
  PROVE  /\ Done(k) \in Underway(now)
         /\ Done(k).name = k.name /\ Done(k).copy = k.copy
         /\ CopyFits(Done(k), file, now, careful)
<1>1. Done(k) = [k EXCEPT !.steps = Tail(k.steps)]
  BY DEF Done
<1>2. Tail(k.steps) \in Todo
  BY <1>1, TodoIs DEF Underway
<1> QED
  BY <1>1, <1>2 DEF Underway, CopyFits

\* The pointer moves, the copy stays.
LEMMA PointKeeps ==
  ASSUME StoreInv, NEW c \in Clients, Point(c)
  PROVE  StoreInv'
<1>1. PICK k \in Underway(clock) : k = client[c] /\ Head(k.steps) = "activate"
  BY DEF Point, Doing, StoreInv, StoreTyped
<1>2. CopyFits(k, disk[k.name], clock, ~lossy[k.name])
  BY <1>1 DEF Point, Doing, StoreInv, CopiesFit
<1>3. ~k.fresh
  BY <1>1, <1>2 DEF CopyFits
<1>4. PICK l : l = Done(k)
  OBVIOUS
<1>5. l # None => /\ l \in Underway(clock) /\ l.name = k.name
                  /\ CopyFits(l, disk[k.name], clock, ~lossy[k.name])
  <2>1. l # None => Len(k.steps) # 1
    BY <1>4 DEF Done
  <2> QED
    BY <1>2, <1>3, <1>4, <2>1, DoneFits
<1>6. /\ client' = [client EXCEPT ![c] = l] /\ pointer' \in Names \cup {None}
      /\ UNCHANGED <<disk, plans, lossy, clock>>
  BY <1>1, <1>4 DEF Point, Underway
<1> QED
  BY <1>5, <1>6, ClientKeeps

\* A mark on the copy continues what the file still is.
LEMMA MarkKeeps ==
  ASSUME StoreInv, NEW c \in Clients, Mark(c)
  PROVE  StoreInv'
<1>1. PICK d \in Domains :
        /\ Doing(c, d)
        /\ LET me == client[c]
           IN  client' = [client EXCEPT ![c] = [Done(me) EXCEPT !.copy = MarkRelevance(me.copy, d)]]
        /\ UNCHANGED <<disk, pointer, plans, lossy, clock, commands>>
  BY DEF Mark
<1>2. PICK k \in Underway(clock) : k = client[c] /\ Head(k.steps) = d
  BY <1>1 DEF Doing, StoreInv, StoreTyped
<1>3. CopyFits(k, disk[k.name], clock, ~lossy[k.name])
  BY <1>1, <1>2 DEF Doing, StoreInv, CopiesFit
<1>4. ~k.fresh /\ Len(k.steps) # 1
  BY <1>2, <1>3, TodoIs, StoreAssumption DEF CopyFits, Underway
<1>5. PICK l : l = Done(k)
  OBVIOUS
<1>6. /\ l \in Underway(clock) /\ l.name = k.name /\ l.copy = k.copy
      /\ CopyFits(l, disk[k.name], clock, ~lossy[k.name])
  BY <1>3, <1>4, <1>5, DoneFits
<1>7. PICK copy : copy = MarkRelevance(k.copy, d)
  OBVIOUS
<1>8. k.copy \in ProfilesAt(clock) /\ k.copy \in Profiles
  BY DEF Underway, ProfilesAt
<1>9. copy \in ProfilesAt(clock)
  <2>1. \A b : k.copy \in Grown(k.copy, clock, b)
    BY <1>8, ContinuesItself
  <2>2. MarkRelevance(k.copy, d) \in Grown(k.copy, clock, FALSE)
    BY <1>8, <2>1, MarkGrown
  <2> QED
    BY <1>7, <2>2 DEF Grown
<1>10. PICK m : m = [l EXCEPT !.copy = copy]
  OBVIOUS
<1>11. m \in Underway(clock) /\ m.name = k.name
  BY <1>6, <1>9, <1>10 DEF Underway
<1>12. CopyFits(m, disk[k.name], clock, ~lossy[k.name])
  <2>1. /\ m.stale = l.stale /\ m.fresh = l.fresh /\ m.copy = copy /\ l.fresh = FALSE
    BY <1>4, <1>5, <1>6, <1>10 DEF Underway, Done
  <2>2. ASSUME ~l.stale
        PROVE  disk[k.name] # None /\ copy \in Grown(Loaded(disk[k.name], 0), clock, ~lossy[k.name])
    <3>1. disk[k.name] # None /\ k.copy \in Grown(Loaded(disk[k.name], 0), clock, ~lossy[k.name])
      BY <1>6, <2>1, <2>2 DEF CopyFits
    <3>2. Loaded(disk[k.name], 0) \in Profiles
      BY <3>1, ReadGrown DEF StoreInv, Underway
    <3> QED
      BY <1>7, <3>1, <3>2, MarkGrown
  <2> QED
    BY <1>6, <2>1, <2>2 DEF CopyFits
<1>13. client' = [client EXCEPT ![c] = m]
  BY <1>1, <1>2, <1>5, <1>7, <1>10
<1>14. pointer' \in Names \cup {None} /\ UNCHANGED <<disk, plans, lossy, clock>>
  BY <1>1 DEF StoreInv, StoreTyped
<1> QED
  BY <1>11, <1>12, <1>13, <1>14, ClientKeeps

\* A dead command leaves the files.
LEMMA DieKeeps ==
  ASSUME StoreInv, NEW c \in Clients, Die(c)
  PROVE  StoreInv'
<1>1. client' = [client EXCEPT ![c] = None] /\ UNCHANGED <<disk, pointer, plans, lossy, clock>>
  BY DEF Die
<1>2. pointer' \in Names \cup {None}
  BY <1>1 DEF StoreInv, StoreTyped
<1>3. \A k : k = None /\ client' = [client EXCEPT ![c] = k] => StoreInv'
  BY <1>1, <1>2, ClientKeeps
<1> QED
  BY <1>1, <1>3

\* Time passes.
LEMMA TickKeeps ==
  ASSUME StoreInv, Tick
  PROVE  StoreInv'
<1>1. /\ clock \in Nat /\ clock' = clock + 1 /\ clock' \in 0..MaxClock
      /\ UNCHANGED <<disk, pointer, client, plans, lossy>>
  BY StoreAssumption DEF Tick, StoreInv, StoreTyped
<1>2. Files(clock) \subseteq Files(clock') /\ Underway(clock) \subseteq Underway(clock')
  BY <1>1, FilesLater
<1>3. StoreTyped'
  <2>1. disk' \in [Names -> Files(clock') \cup {None}]
    BY <1>1, <1>2 DEF StoreInv, StoreTyped
  <2>2. client' \in [Clients -> Underway(clock') \cup {None}]
    BY <1>1, <1>2 DEF StoreInv, StoreTyped
  <2> QED
    BY <1>1, <2>1, <2>2 DEF StoreInv, StoreTyped
<1>4. CopiesFit'
  <2> SUFFICES ASSUME NEW q \in Clients, client[q] # None
               PROVE  CopyFits(client[q], disk[client[q].name], clock', ~lossy[client[q].name])
    BY <1>1 DEF CopiesFit
  <2>1. PICK k, file, careful : /\ k = client[q] /\ file = disk[client[q].name]
                                /\ careful \in BOOLEAN /\ careful = ~lossy[client[q].name]
    OBVIOUS
  <2>2. CopyFits(k, file, clock, careful)
    BY <2>1 DEF StoreInv, CopiesFit
  <2>3. CopyFits(k, file, clock', careful)
    <3>1. Grown(Loaded(file, 0), clock, careful) \subseteq Grown(Loaded(file, 0), clock', careful)
      <4> SUFFICES ASSUME NEW x \in Grown(Loaded(file, 0), clock, careful)
                   PROVE  x \in Grown(Loaded(file, 0), clock', careful)
        OBVIOUS
      <4>1. PICK p, then : p = Loaded(file, 0) /\ then = clock' /\ then \in Nat /\ clock <= then
        BY <1>1
      <4> QED
        BY <1>1, <2>1, <4>1, GrownLater
    <3> QED
      BY <2>2, <3>1 DEF CopyFits
  <2> QED
    BY <2>1, <2>3
<1>5. NumbersFit'
  BY <1>1 DEF StoreInv, NumbersFit
<1> QED
  BY <1>3, <1>4, <1>5 DEF StoreInv

\* Numbers that fit a file fit what a careful command makes of it.
LEMMA NumbersGrow ==
  ASSUME NEW made \in SUBSET (Kinds \X Nat), NEW file, file # None, PlansFit(made, file),
         file.probes \in Seq(Probes), NEW p, p.probes = file.probes, NEW q, Keeps(p, q),
         q.probes \in Seq(Probes)
  PROVE  PlansFit(made, q) \/ q = None
<1> SUFFICES ASSUME q # None, ~Full(q)
             PROVE  Numbered(q) /\ \A id \in made : id[2] <= Count(q, id[1]) + 1
  BY DEF PlansFit
<1>1. ~Full(file) /\ Numbered(p)
  BY SameProbes DEF Keeps, PlansFit
<1>2. Numbered(q) /\ \A kind \in Kinds : Count(q, kind) >= Count(file, kind)
  BY <1>1, SameProbes DEF Keeps
<1>3. ASSUME NEW id \in made PROVE id[2] <= Count(q, id[1]) + 1
  <2>1. id[1] \in Kinds /\ id[2] \in Nat /\ id[2] <= Count(file, id[1]) + 1
    BY <1>1 DEF PlansFit
  <2>2. Count(q, id[1]) \in Nat /\ Count(file, id[1]) \in Nat
    BY CountNat
  <2> QED
    BY <1>2, <2>1, <2>2
<1> QED
  BY <1>2, <1>3

\* A save makes every other copy of the file stale.
LEMMA SaveKeeps ==
  ASSUME StoreInv, NEW c \in Clients, Save(c)
  PROVE  StoreInv'
<1>1. PICK k \in Underway(clock), n \in Names :
        k = client[c] /\ k # None /\ n = k.name /\ Head(k.steps) = "save"
  BY DEF Save, Doing, StoreInv, StoreTyped, Underway
<1>2. CopyFits(k, disk[n], clock, ~lossy[n])
  BY <1>1 DEF StoreInv, CopiesFit
<1>3. PICK k0 : k0 = [k EXCEPT !.stale = FALSE, !.fresh = FALSE]
  OBVIOUS
<1>4. PICK m : m = Done(k0)
  OBVIOUS
<1>5. /\ disk' = [disk EXCEPT ![n] = k.copy]
      /\ lossy' = [lossy EXCEPT ![n] = lossy[n] \/ (disk[n] # None /\ (k.stale \/ k.fresh))]
      /\ client' = [q \in Clients |->
            IF q = c THEN m
            ELSE IF client[q] # None /\ client[q].name = n
                 THEN [client[q] EXCEPT !.stale = TRUE] ELSE client[q]]
      /\ UNCHANGED <<pointer, plans, clock>>
  BY <1>1, <1>3, <1>4 DEF Save
<1>6. k.copy \in ProfilesAt(clock) /\ k.copy \in Profiles /\ k.copy # None
      /\ k.copy.probes \in Seq(Probes)
  BY StoreAssumption DEF Underway, ProfilesAt, Profiles
<1>7. ASSUME m # None
      PROVE  m \in Underway(clock) /\ m.name = n /\ \A b : CopyFits(m, k.copy, clock, b)
  <2>1. k0 \in Underway(clock) /\ k0.name = n /\ k0.copy = k.copy /\ ~k0.stale /\ ~k0.fresh
    BY <1>1, <1>3 DEF Underway
  <2>2. Loaded(k.copy, 0) = k.copy
    BY <1>6 DEF Loaded, Profiles
  <2>3. \A b : k.copy \in Grown(Loaded(k.copy, 0), clock, b)
    BY <1>6, <2>2, ContinuesItself
  <2>4. \A b : CopyFits(k0, k.copy, clock, b)
    BY <1>6, <2>1, <2>3 DEF CopyFits
  <2>5. Len(k0.steps) # 1
    BY <1>4, <1>7 DEF Done
  <2> QED
    BY <1>4, <2>1, <2>4, <2>5, DoneFits
<1>8. PICK old : old = [q \in Clients |->
            IF client[q] # None /\ client[q].name = n
            THEN [client[q] EXCEPT !.stale = TRUE] ELSE client[q]]
  OBVIOUS
<1>9. ASSUME NEW q \in Clients, q # c, client'[q] # None
      PROVE  /\ client'[q] \in Underway(clock)
             /\ CopyFits(client'[q], disk'[client'[q].name], clock, ~lossy'[client'[q].name])
  <2>1. client[q] \in Underway(clock) \cup {None}
    BY DEF StoreInv, StoreTyped
  <2>2. CASE client[q] # None /\ client[q].name = n
    <3>1. PICK l \in Underway(clock) : l = client[q] /\ l.name = n
      BY <2>1, <2>2
    <3>2. PICK s : s = [l EXCEPT !.stale = TRUE]
      OBVIOUS
    <3>3. client'[q] = s
      BY <1>5, <1>9, <2>2, <3>1, <3>2
    <3>4. /\ s \in Underway(clock) /\ s.name = n /\ s.stale = TRUE
          /\ s.fresh = l.fresh /\ s.copy = l.copy /\ s.steps = l.steps
      BY <3>1, <3>2 DEF Underway
    <3>5. disk'[n] = k.copy
      BY <1>5 DEF StoreInv, StoreTyped
    <3>6. CopyFits(l, disk[n], clock, ~lossy[n])
      BY <2>2, <3>1 DEF StoreInv, CopiesFit
    <3>7. \A b : CopyFits(s, disk'[n], clock, b)
      BY <1>6, <3>4, <3>5, <3>6 DEF CopyFits
    <3> QED
      BY <3>3, <3>4, <3>7
  <2>3. CASE client[q] # None /\ client[q].name # n
    <3>1. PICK l \in Underway(clock) : l = client[q] /\ l.name # n /\ l.name \in Names
      BY <2>1, <2>3 DEF Underway
    <3>2. client'[q] = l
      BY <1>5, <1>9, <2>3, <3>1
    <3>3. disk'[l.name] = disk[l.name] /\ lossy'[l.name] = lossy[l.name]
      BY <1>5, <3>1 DEF StoreInv, StoreTyped
    <3>4. CopyFits(l, disk[l.name], clock, ~lossy[l.name])
      BY <2>3, <3>1 DEF StoreInv, CopiesFit
    <3> QED
      BY <3>2, <3>3, <3>4
  <2>4. CASE client[q] = None
    BY <1>5, <1>9, <2>4
  <2> QED
    BY <2>2, <2>3, <2>4
<1>10. StoreTyped'
  <2>1. disk' \in [Names -> Files(clock) \cup {None}]
    BY <1>5, <1>6 DEF StoreInv, StoreTyped, Files
  <2>2. lossy' \in [Names -> BOOLEAN]
    BY <1>5 DEF StoreInv, StoreTyped
  <2>3. client' \in [Clients -> Underway(clock) \cup {None}]
    <3>1. ASSUME NEW q \in Clients PROVE client'[q] \in Underway(clock) \cup {None}
      <4>1. CASE q = c
        BY <1>5, <1>7, <4>1
      <4>2. CASE q # c
        BY <1>9, <4>2
      <4> QED
        BY <4>1, <4>2
    <3>2. DOMAIN client' = Clients /\ client' = [q \in DOMAIN client' |-> client'[q]]
      BY <1>5
    <3> QED
      BY <3>1, <3>2
  <2> QED
    BY <1>5, <2>1, <2>2, <2>3 DEF StoreInv, StoreTyped
<1>11. CopiesFit'
  <2> SUFFICES ASSUME NEW q \in Clients, client'[q] # None
               PROVE  CopyFits(client'[q], disk'[client'[q].name], clock, ~lossy'[client'[q].name])
    BY <1>5 DEF CopiesFit
  <2>1. CASE q = c
    <3>1. client'[q] = m /\ disk'[n] = k.copy
      BY <1>5, <2>1 DEF StoreInv, StoreTyped
    <3> QED
      BY <1>7, <3>1
  <2>2. CASE q # c
    BY <1>9, <2>2
  <2> QED
    BY <2>1, <2>2
<1>12. NumbersFit'
  <2> SUFFICES ASSUME NEW i \in Names, ~lossy'[i] PROVE PlansFit(plans[i], disk'[i])
    BY <1>5 DEF NumbersFit
  <2>1. CASE i # n
    BY <1>5, <2>1 DEF StoreInv, StoreTyped, NumbersFit
  <2>2. CASE i = n
    <3>1. ~lossy[n] /\ (disk[n] = None \/ (~k.stale /\ ~k.fresh)) /\ disk'[i] = k.copy
      BY <1>5, <2>2 DEF StoreInv, StoreTyped
    <3>2. PlansFit(plans[n], disk[n])
      BY <3>1 DEF StoreInv, NumbersFit
    <3>3. CASE disk[n] = None
      <4>1. plans[n] = {} /\ k.copy = NewProfile
        BY <1>2, <3>2, <3>3 DEF PlansFit, CopyFits
      <4> QED
        BY <2>2, <3>1, <4>1, NewSound, EmptyFits
    <3>4. CASE disk[n] # None
      <4>1. PICK p : p = Loaded(disk[n], 0)
        OBVIOUS
      <4>2. k.copy \in Grown(p, clock, TRUE)
        BY <1>2, <3>1, <3>4, <4>1 DEF CopyFits, Grown
      <4>3. Keeps(p, k.copy)
        BY <4>2 DEF Grown
      <4>4. p.probes = disk[n].probes /\ p.probes \in Seq(Probes)
        BY <3>4, <4>1, ReadGrown DEF StoreInv, SameHistory, Profiles
      <4>5. plans[n] \in SUBSET (Kinds \X Nat)
        BY DEF StoreInv, StoreTyped
      <4> QED
        BY <1>6, <2>2, <3>1, <3>2, <3>4, <4>3, <4>4, <4>5, NumbersGrow
    <3> QED
      BY <3>3, <3>4
  <2> QED
    BY <2>1, <2>2
<1> QED
  BY <1>10, <1>11, <1>12 DEF StoreInv

\* Every step.
LEMMA StoreStep == StoreInv /\ [StoreNext]_svars => StoreInv'
<1> SUFFICES ASSUME StoreInv, [StoreNext]_svars PROVE StoreInv'
  OBVIOUS
<1>1. ASSUME NEW c \in Clients,
             InitProfile(c) \/ SetDomain(c) \/ ObserveCmd(c) \/ Assess(c) \/ Layer2(c)
               \/ RecordProbe(c) \/ Prompt(c)
      PROVE  StoreInv'
  BY <1>1, InitKeeps, SetDomainKeeps, ObserveKeeps, AssessKeeps, LayerTwoKeeps, RecordProbeKeeps,
     PromptKeeps
<1>2. ASSUME NEW c \in Clients, Save(c) \/ Point(c) \/ Mark(c) \/ Die(c)
      PROVE  StoreInv'
  BY <1>2, SaveKeeps, PointKeeps, MarkKeeps, DieKeeps
<1>3. CASE ActivateCmd
  BY <1>3 DEF ActivateCmd, StoreInv, StoreTyped, CopiesFit, NumbersFit
<1>4. CASE Plan
  BY <1>4, PlanKeeps
<1>5. CASE Tick
  BY <1>5, TickKeeps
<1>6. CASE UNCHANGED svars
  BY <1>6 DEF svars, StoreInv, StoreTyped, CopiesFit, NumbersFit
<1> QED
  BY <1>1, <1>2, <1>3, <1>4, <1>5, <1>6 DEF StoreNext

StoreSpec == StoreInit /\ [][StoreNext]_svars

\* What the profile files, the commands' copies and the plans are to each other.
THEOREM StoreInvariant == StoreSpec => []StoreInv
  BY StoreStart, StoreStep, PTL DEF StoreSpec

\* Of no observations the estimator claims nothing.
LEMMA NothingClaimed ==
  ASSUME NEW now \in 0..MaxClock
  PROVE  Classify(<<>>, now) \notin LoadBearing
<1>1. <<>> \in Seq(Observations) /\ RealWork(<<>>) = {}
  BY DEF RealWork, Answered
<1>2. Effective(<<>>, now, RealWork(<<>>)) <= Cardinality(RealWork(<<>>)) * Weight("REAL_WORK", 0)
      /\ Effective(<<>>, now, RealWork(<<>>)) \in Nat
  <2>1. PICK obs \in Seq(Observations) : obs = <<>>
    BY <1>1
  <2>2. \A k \in DOMAIN obs : obs[k] \in SoundAt(now)
    BY <2>1
  <2>3. /\ Effective(obs, now, RealWork(obs)) \in Nat
        /\ Effective(obs, now, RealWork(obs)) <= Cardinality(RealWork(obs)) * Weight("REAL_WORK", 0)
    BY <2>2, EffectiveBound
  <2> QED
    BY <2>1, <2>3
<1>3. Cardinality(RealWork(<<>>)) = 0 /\ Weight("REAL_WORK", 0) \in Nat
  BY <1>1, FS_EmptySet, EvidenceAssumption DEF Tiers
<1>4. ~Sufficient(<<>>, now)
  BY <1>2, <1>3, EvidenceAssumption DEF Sufficient
<1> QED
  BY <1>4 DEF Classify, Summarize, LoadBearing

\* A line is a stored claim, which was earned, or claims nothing.
LEMMA LinesEarned == StoreInv => DomainClaimsAreEarned
<1> SUFFICES ASSUME StoreInv, NEW n \in Names, disk[n] # None,
                    NEW line \in DomainLines(Read(n), clock), line[2] \in LoadBearing
             PROVE  Earned(Read(n).rows[line[1]])
  BY DEF DomainClaimsAreEarned, Earned, Owned
<1>1. PICK p \in ProfilesAt(clock) : p = Read(n)
  BY ReadGrown DEF StoreInv
<1>2. PICK d \in Domains : /\ p.rows[d] # None /\ line[1] = d
                           /\ line[2] = IF p.rows[d].class \in Classifications
                                        THEN p.rows[d].class ELSE Classify(p.rows[d].obs, clock)
  BY <1>1 DEF DomainLines
<1>3. PICK r \in RowsAt(clock) : r = p.rows[d]
  BY <1>2 DEF ProfilesAt
<1>4. clock \in 0..MaxClock
  BY DEF StoreInv, StoreTyped
<1>5. CASE r.class \in Classifications
  BY <1>1, <1>2, <1>3, <1>5 DEF RowsAt
<1>6. CASE r.class \notin Classifications
  <2>1. r.obs = <<>>
    BY <1>6 DEF RowsAt
  <2> QED
    BY <1>2, <1>3, <1>4, <1>6, <2>1, NothingClaimed
<1> QED
  BY <1>5, <1>6

\* The domain lines of a prompt claim a strength or a gap only from enough checked work
\* of one's own, fresh when it was last classified, whatever screens, v1 files, races and
\* crashes came before. (observe, _domain_lines; the facet lines are another matter)
THEOREM DomainClaimsEarned == StoreSpec => []DomainClaimsAreEarned
  BY StoreInvariant, LinesEarned, PTL

\* A planned number is past every recorded one.
LEMMA PlanFits == StoreInv => PlanIsRecordable
<1> SUFFICES ASSUME StoreInv, NEW n \in Names, NEW kind \in Kinds, disk[n] # None,
                    Recorded(Read(n), PlannedId(Read(n), kind)), ~lossy[n], ~Full(disk[n])
             PROVE  FALSE
  BY DEF PlanIsRecordable, Full
<1>1. PICK p \in Profiles : p = Read(n) /\ p.probes = disk[n].probes /\ p.probes \in Seq(Probes)
  BY ReadGrown DEF StoreInv, ProfilesAt, Profiles
<1>2. Numbered(p)
  <2>1. PlansFit(plans[n], disk[n])
    BY DEF StoreInv, NumbersFit
  <2>2. Numbered(disk[n])
    BY <2>1 DEF PlansFit
  <2> QED
    BY <1>1, <2>2, SameProbes
<1>3. PICK k \in DOMAIN p.probes : p.probes[k].id = <<kind, 1 + Count(p, kind)>>
  BY <1>1 DEF Recorded, PlannedId, Count, Held
<1>4. 1 + Count(p, kind) <= Count(p, kind) /\ Count(p, kind) \in Nat
  BY <1>1, <1>2, <1>3, CountNat DEF Numbered
<1> QED
  BY <1>4

\* A planned probe can be recorded until the history is full or a write was lost,
\* where every recorded id came from a plan.
\* (_probe_id, record)
THEOREM PlanRecordable == StoreSpec => []PlanIsRecordable
  BY StoreInvariant, PlanFits, PTL

\* Only a save changes a file, and a copy that continues it continues what is read.
LEMMA AloneLosesNothing ==
  ASSUME StoreInv, StoreNext, NEW n \in Names, disk[n] # None, disk'[n] # disk[n]
  PROVE  \E c \in Clients :
           /\ Doing(c, "save") /\ client[c].name = n /\ disk'[n] = client[c].copy
           /\ client[c].stale \/ client[c].fresh \/ Continues(Read(n), disk'[n])
<1>1. PICK c \in Clients : Save(c)
  <2>1. ~(ActivateCmd \/ Plan \/ Tick)
    BY DEF ActivateCmd, Plan, Tick
  <2>2. PICK c \in Clients :
          \/ InitProfile(c) \/ SetDomain(c) \/ ObserveCmd(c) \/ Assess(c) \/ Layer2(c)
          \/ RecordProbe(c) \/ Prompt(c) \/ Save(c) \/ Point(c) \/ Mark(c) \/ Die(c)
    BY <2>1 DEF StoreNext
  <2>3. ~(InitProfile(c) \/ SetDomain(c) \/ ObserveCmd(c) \/ Assess(c) \/ Layer2(c))
    BY DEF InitProfile, SetDomain, ObserveCmd, Assess, Layer2, Edit, Begin
  <2>4. ~(RecordProbe(c) \/ Prompt(c) \/ Point(c) \/ Mark(c) \/ Die(c))
    BY DEF RecordProbe, Prompt, Edit, Begin, Point, Mark, Die
  <2> QED
    BY <2>2, <2>3, <2>4
<1>2. PICK k : k = client[c]
  OBVIOUS
<1>3. k # None /\ Doing(c, "save") /\ disk' = [disk EXCEPT ![k.name] = k.copy]
  BY <1>1, <1>2 DEF Save, Doing
<1>4. k.name = n /\ disk'[n] = k.copy
  BY <1>3 DEF StoreInv, StoreTyped
<1>5. ASSUME ~k.stale, ~k.fresh PROVE Continues(Read(n), k.copy)
  <2>1. CopyFits(k, disk[n], clock, ~lossy[n])
    BY <1>2, <1>3, <1>4 DEF StoreInv, CopiesFit
  <2>2. Continues(Loaded(disk[n], 0), k.copy)
    BY <1>5, <2>1 DEF CopyFits, Grown
  <2>3. SameHistory(Loaded(disk[n], 0), Read(n))
    BY ReadGrown DEF StoreInv
  <2> QED
    BY <2>2, <2>3, SameContinues
<1> QED
  BY <1>2, <1>3, <1>4, <1>5

\* A write that no other write overlapped keeps what the file had learnt. (save)
THEOREM NothingLost == StoreSpec => NothingLostAlone
<1>1. StoreInv /\ [StoreNext]_svars =>
        [\A n \in Names : (disk[n] # None /\ disk'[n] # disk[n]) =>
           \E c \in Clients :
             /\ Doing(c, "save") /\ client[c].name = n /\ disk'[n] = client[c].copy
             /\ client[c].stale \/ client[c].fresh \/ Continues(Read(n), disk'[n])]_svars
  BY AloneLosesNothing
<1> QED
  BY <1>1, StoreInvariant, PTL DEF StoreSpec, NothingLostAlone
=============================================================================
