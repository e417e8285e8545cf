--------------------------- MODULE CouncilReview ---------------------------
(***************************************************************************)
(* The Evidence Review Panel of tools/council_runtime.py: seats commit,    *)
(* reveal and cross-critique, controls are recorded, and finalize writes   *)
(* the receipt of the REVIEW obligation, which the release gate of         *)
(* tools/soul_runtime.py reads. Each call loads the council's file, checks *)
(* and changes its copy, and writes it back, with no lock between.         *)
(*                                                                         *)
(* A commitment is the SHA-256 of seat, nonce and submission: here it is   *)
(* the submission itself, which only a reveal that knows the nonce can     *)
(* match.                                                                  *)
(***************************************************************************)
EXTENDS Integers, Sequences, FiniteSets, Absence

CONSTANTS
  Seats, Submissions,
  Callers,       \* processes that call the runtime
  MaxOverlaps,   \* bound: calls that begin while another is in progress
  MaxReceipts    \* bound: receipts stored for the obligation

ASSUME CouncilAssumption ==
  /\ Cardinality(Seats) \in 3..6
  /\ None \notin Submissions
  /\ MaxOverlaps \in Nat /\ MaxReceipts \in Nat

VARIABLES
  council,    \* the council's file
  filed,      \* receipts of the obligation, in _receipt_order
  turn,       \* turn[c]: what caller c has still to write
  copy,       \* copy[c]: the state c will write back
  filing,     \* filing[c]: the receipt finalize will store after that
  exposed,    \* history: seats whose submission has been in the file
  first,      \* history: first[s]: what s first committed
  overlaps    \* history: calls that began while another was in progress

cvars == <<council, filed, turn, copy, filing, exposed, first, overlaps>>

Phases == {"COMMIT", "REVEAL", "CROSS_CRITIQUE", "CLOSED"}
Critiques == {p \in Seats \X Seats : p[1] # p[2]}

\* Actions of the receipts council_runtime writes under the obligation. matched:
\* a control's kind, artifact, budget and obligation are those of this review.
Controls == [action : {"control"}, verdict : {"CLEARED", "ISSUE"}, matched : BOOLEAN]
NoReceipt == [action |-> "none"]
NoCopy == [phase |-> "none"]

Given(f) == {s \in Seats : f[s] # None}

CouncilInit ==
  /\ council = [phase |-> "COMMIT", commitments |-> [s \in Seats |-> None],
                revealed |-> [s \in Seats |-> None], critiques |-> {}]
  /\ filed = <<>>
  /\ turn = [c \in Callers |-> "idle"]
  /\ copy = [c \in Callers |-> NoCopy]
  /\ filing = [c \in Callers |-> NoReceipt]
  /\ exposed = {}
  /\ first = [s \in Seats |-> None]
  /\ overlaps = 0

-----------------------------------------------------------------------------
(* What each call makes of the state it loads. A call that raises, or a      *)
(* reveal that returns False, writes nothing.                                *)

Committed(s, x, m) ==
  [s EXCEPT !.commitments[x] = m,
            !.phase = IF Given(s.commitments) \cup {x} = Seats THEN "REVEAL" ELSE @]
Commit(s) == {Committed(s, x, m) : x \in Seats \ Given(s.commitments), m \in Submissions}

\* Only the nonce and the submission that were committed pass; a repeated reveal
\* passes again.
Reveal_AnySubmission(s) ==
  {[s EXCEPT !.revealed[x] = m,
             !.phase = IF Given(s.revealed) \cup {x} = Seats THEN "CROSS_CRITIQUE" ELSE @]
     : x \in Given(s.commitments), m \in Submissions}
Reveal(s) ==
  {[s EXCEPT !.revealed[x] = s.commitments[x],
             !.phase = IF Given(s.revealed) \cup {x} = Seats THEN "CROSS_CRITIQUE" ELSE @]
     : x \in Given(s.commitments)}

CrossCritique(s) == {[s EXCEPT !.critiques = @ \cup {p}] : p \in Critiques \ s.critiques}

Change_RevealEarly(s) ==
  CASE s.phase = "COMMIT" -> Commit(s) \cup Reveal(s)
    [] s.phase = "REVEAL" -> Reveal(s)
    [] s.phase = "CROSS_CRITIQUE" -> Reveal(s) \cup CrossCritique(s)
    [] s.phase = "CLOSED" -> {}
Change_CritiqueLate(s) ==
  CASE s.phase = "COMMIT" -> Commit(s)
    [] s.phase = "REVEAL" -> Reveal(s)
    [] s.phase = "CROSS_CRITIQUE" -> Reveal(s) \cup CrossCritique(s)
    [] s.phase = "CLOSED" -> CrossCritique(s)
Change(s) ==
  CASE s.phase = "COMMIT" -> Commit(s)
    [] s.phase = "REVEAL" -> Reveal(s)
    [] s.phase = "CROSS_CRITIQUE" -> Reveal(s) \cup CrossCritique(s)
    [] s.phase = "CLOSED" -> {}

\* finalize: the direct control it is given, if any, must match and be CLEARED.
DirectControl(r) == r.action = "control" /\ r.matched /\ r.verdict = "CLEARED"
CritiqueComplete_AllCritiqued(s) == {p[2] : p \in s.critiques} = Seats
CritiqueComplete(s) == {p[1] : p \in s.critiques} = Seats

Verdict(s, direct, supported, unresolved) ==
  IF /\ Given(s.revealed) = Seats
     /\ CritiqueComplete(s)
     /\ direct
     /\ supported
     /\ ~unresolved
    THEN "CLEARED" ELSE "UNKNOWN"

-----------------------------------------------------------------------------
(* Actions *)

Active == {c \in Callers : turn[c] # "idle"}

Enter(c, to) ==
  /\ turn[c] = "idle"
  /\ Active # {} => overlaps < MaxOverlaps
  /\ turn' = [turn EXCEPT ![c] = to]
  /\ overlaps' = IF Active = {} THEN overlaps ELSE overlaps + 1

\* commit, reveal or record_cross_critique: load and compute.
Load(c) ==
  /\ \E s \in Change(council) : copy' = [copy EXCEPT ![c] = s]
  /\ Enter(c, "write")
  /\ UNCHANGED <<council, filed, filing, exposed, first>>

MayFinalize(s) == s.phase # "CLOSED"

LoadFinalize(c) ==
  /\ MayFinalize(council)
  /\ copy' = [copy EXCEPT ![c] = [council EXCEPT !.phase = "CLOSED"]]
  /\ \E direct \in BOOLEAN, supported \in BOOLEAN, unresolved \in BOOLEAN :
       /\ direct => \E n \in 1..Len(filed) : DirectControl(filed[n])
       /\ filing' = [filing EXCEPT ![c] =
            [action |-> "review", state |-> council,
             verdict |-> Verdict(council, direct, supported, unresolved)]]
  /\ Enter(c, "close")
  /\ UNCHANGED <<council, filed, exposed, first>>

\* write_named_state: the file becomes this caller's copy, whatever it holds now.
Store(c) ==
  /\ turn[c] \in {"write", "close"}
  /\ council' = copy[c]
  /\ turn' = [turn EXCEPT ![c] = IF @ = "close" THEN "file" ELSE "idle"]
  /\ exposed' = exposed \cup Given(copy[c].revealed)
  /\ first' = [s \in Seats |-> IF first[s] = None THEN copy[c].commitments[s] ELSE first[s]]
  /\ copy' = [copy EXCEPT ![c] = NoCopy]
  /\ UNCHANGED <<filed, filing, overlaps>>

FileReceipt(c) ==
  /\ turn[c] = "file"
  /\ Len(filed) < MaxReceipts
  /\ filed' = Append(filed, filing[c])
  /\ filing' = [filing EXCEPT ![c] = NoReceipt]
  /\ turn' = [turn EXCEPT ![c] = "idle"]
  /\ UNCHANGED <<council, copy, exposed, first, overlaps>>

\* record_control touches no council; its receipt carries module "council" and
\* the obligation it was given.
RecordControl ==
  /\ Len(filed) < MaxReceipts
  /\ \E r \in Controls : filed' = Append(filed, r)
  /\ UNCHANGED <<council, turn, copy, filing, exposed, first, overlaps>>

CouncilNext ==
  \/ \E c \in Callers : Load(c) \/ LoadFinalize(c) \/ Store(c) \/ FileReceipt(c)
  \/ RecordControl

CouncilSpec == CouncilInit /\ [][CouncilNext]_cvars

\* The verdict the release gate gives the REVIEW obligation: that of the last
\* receipt of module "council", whatever its action.
GateVerdict == IF filed = <<>> THEN "UNKNOWN" ELSE filed[Len(filed)].verdict

-----------------------------------------------------------------------------
(* Properties *)

\* Whatever calls overlap, a review receipt is CLEARED only if, in the state its
\* finalize loaded, every seat had revealed what it committed and critiqued
\* another, and a matching control had cleared before.
ClearedIsEarned ==
  \A n \in 1..Len(filed) :
    filed[n].action = "review" /\ filed[n].verdict = "CLEARED" =>
      LET s == filed[n].state IN
        /\ s.revealed = s.commitments
        /\ \A x \in Seats : s.revealed[x] # None /\ \E y \in Seats : <<x, y>> \in s.critiques
        /\ \E m \in 1..(n - 1) : DirectControl(filed[m])

\* Until two calls overlap, a seat commits before it can have read anyone's
\* submission: the file has held none.
CommitsAreBlind ==
  [][ \A s \in Seats :
        overlaps' = 0 /\ council'.commitments[s] # council.commitments[s] => exposed = {} ]_cvars

\* Until two calls overlap, what a seat reveals is what it first committed.
RevealsAreBound ==
  overlaps = 0 => \A s \in Seats : council.revealed[s] \in {None, first[s]}

\* Until two calls overlap, a closed council never changes: it is finalized once.
ClosedIsFinal ==
  [][ overlaps' = 0 /\ council.phase = "CLOSED" => council' = council ]_cvars

\* A cleared REVIEW obligation was reviewed (council_runtime.py: a cleared Council
\* receipt requires complete commit/reveal, cross-critique and a control).
ClearedObligationWasReviewed ==
  GateVerdict = "CLEARED" =>
    \E n \in 1..Len(filed) :
      filed[n].action = "review" /\ filed[n].verdict = "CLEARED"
=============================================================================
