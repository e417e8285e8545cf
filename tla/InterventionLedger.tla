------------------------- MODULE InterventionLedger -------------------------
(***************************************************************************)
(* tools/foil_interventions.py: gaps, the interventions that answer them   *)
(* and the outcomes that followed, in one JSON file. Every command loads   *)
(* the file, appends to its copy and saves it through one temporary file   *)
(* whose name all the processes share. What an intervention achieved is    *)
(* read off its outcomes: the strongest phase whose latest outcome passed. *)
(***************************************************************************)
EXTENDS Integers, Sequences, FiniteSets, Absence

CONSTANTS
  Scribes,        \* processes
  Gaps, Remedies, \* ids of gaps and of interventions
  Garbled,        \* a file cut short, or with two texts one over the other
  Findings,       \* what an outcome may say: phase, result, verified, label, owner, at
  MaxEntries      \* bound: commands begun

VARIABLES
  book,        \* the ledger file: None, Garbled, or a ledger
  temp,        \* the shared temporary file, likewise
  scribe,      \* scribe[s]: the command s runs, or None
  overlapped,  \* history: two saves were under way at once
  entries

lvars == <<book, temp, scribe, overlapped, entries>>

Blank == [gaps |-> {}, remedies |-> {}, outcomes |-> <<>>]
Books == [gaps : SUBSET Gaps, remedies : SUBSET Remedies,
          outcomes : Seq([remedy : Remedies, finding : Findings])]
Commands == [ledger : Books, step : {"open", "write", "replace"},
             file : {None, "temp", "book", "gone"}]

\* No ledger is an absent one or one cut short; observation times are compared.
ASSUME LedgerAssumption ==
  /\ Garbled # None /\ Garbled \notin Books /\ None \notin Books
  /\ None \notin Commands /\ None \notin {"temp", "book", "gone"}
  /\ \A f \in Findings : f.at \in Int

Readable == book \notin {None, Garbled}

\* A ledger that nothing was recorded in yet, or none.
LedgerInit ==
  /\ book \in {None, [gaps |-> Gaps, remedies |-> Remedies, outcomes |-> <<>>]}
  /\ temp = None
  /\ scribe = [s \in Scribes |-> None]
  /\ overlapped = FALSE /\ entries = 0

-----------------------------------------------------------------------------
(* The operations on a copy                                                *)

Begins(s, ledger) ==
  /\ scribe[s] = None
  /\ entries < MaxEntries
  /\ entries' = entries + 1
  /\ scribe' = [scribe EXCEPT ![s] = [ledger |-> ledger, step |-> "open", file |-> None]]
  /\ UNCHANGED <<book, temp, overlapped>>

NewLedger(s) == Begins(s, Blank)
AddGap(s) == Readable /\ \E g \in Gaps :
  Begins(s, [book EXCEPT !.gaps = @ \cup {g}])
\* An intervention names a gap the ledger has, an outcome an intervention.
AddIntervention(s) == Readable /\ \E r \in Remedies :
  /\ book.gaps # {}
  /\ Begins(s, [book EXCEPT !.remedies = @ \cup {r}])
AddOutcome(s) == Readable /\ \E r \in book.remedies, f \in Findings :
  Begins(s, [book EXCEPT !.outcomes = Append(@, [remedy |-> r, finding |-> f])])

-----------------------------------------------------------------------------
(* save(): truncate the temporary file, write it, rename it. A handle stays *)
(* on the file it opened when another process renames that file.            *)

SaveFile(s) == IF scribe[s].file = "temp" THEN temp ELSE book
Saving == {s \in Scribes : scribe[s] # None /\ scribe[s].file # None}

Target_Book(s) == "book"
Target(s) == "temp"
Put(file, content) ==
  /\ temp' = IF file = "temp" THEN content ELSE temp
  /\ book' = IF file = "book" THEN content ELSE book

OpenTemp(s) ==
  /\ scribe[s] # None /\ scribe[s].step = "open"
  /\ Put(Target(s), Garbled)
  /\ scribe' = [scribe EXCEPT ![s].step = "write", ![s].file = Target(s)]
  /\ overlapped' = (overlapped \/ Saving # {})
  /\ UNCHANGED entries

\* Over another process's text the result may be a mixture of both.
WriteTemp(s) ==
  /\ scribe[s] # None /\ scribe[s].step = "write"
  /\ \E content \in {scribe[s].ledger} \cup (IF SaveFile(s) = Garbled THEN {} ELSE {Garbled}) :
       Put(scribe[s].file, content)
  /\ scribe' = [scribe EXCEPT ![s].step = "replace"]
  /\ UNCHANGED <<overlapped, entries>>

\* A temporary file that is gone raises FileNotFoundError.
ReplaceBook(s) ==
  /\ scribe[s] # None /\ scribe[s].step = "replace"
  /\ book' = IF temp = None THEN book ELSE temp
  /\ temp' = None
  /\ scribe' = [q \in Scribes |->
       IF q = s THEN None
       ELSE IF scribe[q] = None \/ temp = None THEN scribe[q]
       ELSE [scribe[q] EXCEPT !.file = CASE @ = "temp" -> "book" [] @ = "book" -> "gone"
                                         [] OTHER -> @]]
  /\ UNCHANGED <<overlapped, entries>>

Dies(s) ==
  /\ scribe[s] # None
  /\ scribe' = [scribe EXCEPT ![s] = None]
  /\ UNCHANGED <<book, temp, overlapped, entries>>

LedgerNext == \E s \in Scribes :
  \/ NewLedger(s) \/ AddGap(s) \/ AddIntervention(s) \/ AddOutcome(s)
  \/ OpenTemp(s) \/ WriteTemp(s) \/ ReplaceBook(s) \/ Dies(s)

-----------------------------------------------------------------------------
(* intervention_status                                                     *)

Phases == {"immediate", "independent", "transfer", "defense"}

AdmissibleIn_AnyOwner(f, phase) ==
  /\ f.verified /\ f.phase = phase
  /\ phase # "immediate" => f.label = "A0"
AdmissibleIn(f, phase) ==
  /\ f.verified /\ f.phase = phase
  /\ phase # "immediate" => f.label = "A0" /\ f.owner = "USER"

\* The sort by observation time is stable.
After(out, j, k) ==
  \/ out[j].finding.at > out[k].finding.at
  \/ out[j].finding.at = out[k].finding.at /\ j > k

Passed(out, r, phase) ==
  LET rows == {k \in DOMAIN out : out[k].remedy = r /\ AdmissibleIn(out[k].finding, phase)}
  IN  \E k \in rows : /\ \A j \in rows \ {k} : After(out, k, j)
                      /\ out[k].finding.result = "pass"

Strongest == <<"defense", "transfer", "independent", "immediate">>
Status(out, r) ==
  LET held == {n \in DOMAIN Strongest : Passed(out, r, Strongest[n])}
  IN  IF held # {} THEN Strongest[CHOOSE n \in held : \A m \in held : n <= m]
      ELSE IF \E k \in DOMAIN out : out[k].remedy = r /\ out[k].finding.verified
                                      /\ out[k].finding.result = "fail"
      THEN "verified failure" ELSE "none"

-----------------------------------------------------------------------------
(* Properties                                                              *)

\* A status above immediate rests on a verified pass of that phase which the
\* person reached alone, and which no later such outcome of the phase took back,
\* in whatever order the outcomes were recorded. (_admissible, intervention_status)
ClaimRestsOnOwnWork ==
  Readable => \A r \in book.remedies :
    LET phase == Status(book.outcomes, r)
        own(k) == /\ book.outcomes[k].remedy = r
                  /\ book.outcomes[k].finding.phase = phase
                  /\ book.outcomes[k].finding.verified
                  /\ book.outcomes[k].finding.label = "A0"
                  /\ book.outcomes[k].finding.owner = "USER"
        passes == {k \in DOMAIN book.outcomes : own(k) /\ book.outcomes[k].finding.result = "pass"}
        losses == {k \in DOMAIN book.outcomes : own(k) /\ book.outcomes[k].finding.result # "pass"}
    IN  phase \in Phases \ {"immediate"} =>
          \E k \in passes : \A j \in losses :
            book.outcomes[j].finding.at <= book.outcomes[k].finding.at

\* The ledger file is unreadable only after two saves ran at once: a crash in a
\* save leaves the ledger as it was. (save)
GarbledNeedsOverlap == book = Garbled => overlapped
=============================================================================
