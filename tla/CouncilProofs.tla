---------------------------- MODULE CouncilProofs ----------------------------
(***************************************************************************)
(* Theorems about CouncilReview, for any panel, any submissions and any    *)
(* callers: what a CLEARED review rests on whichever calls overlap, and    *)
(* the protocol order while none do.                                       *)
(***************************************************************************)
EXTENDS CouncilReview, TLAPS

Ballots == [Seats -> Submissions \cup {None}]
States == [phase : Phases, commitments : Ballots, revealed : Ballots, critiques : SUBSET Critiques]

\* A seat's revelation is what it committed, and a seat that has not committed
\* has revealed nothing.
Bound(s) == s \in States /\ \A x \in Seats : s.revealed[x] \in {None, s.commitments[x]}

\* Of a review receipt r, filed after those of rs.
Earned(r, rs) ==
  r.action = "review" /\ r.verdict = "CLEARED" =>
    /\ r.state.revealed = r.state.commitments
    /\ \A x \in Seats : r.state.revealed[x] # None /\ \E y \in Seats : <<x, y>> \in r.state.critiques
    /\ \E m \in 1..Len(rs) : DirectControl(rs[m])

Reviews == [action : {"review"}, state : States, verdict : {"CLEARED", "UNKNOWN"}]

\* The state the file holds and every state about to be written is bound, and
\* every verdict that is filed or about to be is earned.
EarnedInv ==
  /\ turn \in [Callers -> {"idle", "write", "close", "file"}]
  /\ copy \in [Callers -> States \cup {NoCopy}]
  /\ filing \in [Callers -> Reviews \cup {NoReceipt}]
  /\ filed \in Seq(Reviews \cup Controls)
  /\ Bound(council)
  /\ \A c \in Callers : turn[c] \in {"write", "close"} => Bound(copy[c])
  /\ \A c \in Callers : turn[c] \in {"close", "file"} =>
       filing[c] \in Reviews /\ Earned(filing[c], filed)
  /\ ClearedIsEarned

\* What a caller is about to store, when nobody else is at work.
Pending(c) ==
  /\ turn[c] = "write" => copy[c] \in Change(council)
  /\ turn[c] = "close" => /\ MayFinalize(council)
                        /\ copy[c] = [council EXCEPT !.phase = "CLOSED"]

\* While no two calls have overlapped: one caller works on the state that is in the
\* file, what was first committed still is, and nothing is exposed in COMMIT.
Serial ==
  /\ \A c, d \in Active : c = d
  /\ \A c \in Callers : Pending(c)
  /\ \A x \in Seats : first[x] = council.commitments[x]
  /\ council.phase = "COMMIT" => exposed = {} /\ \A x \in Seats : council.revealed[x] = None

SerialInv == overlaps \in Nat /\ (overlaps = 0 => Serial)

-----------------------------------------------------------------------------
(* The calls                                                               *)

\* The next state of one call: a new commitment before anyone reveals, one
\* revelation of what is committed, or a critique.
LEMMA WriteCases ==
  ASSUME NEW s \in States, NEW n \in Change(s)
  PROVE  \/ s.phase = "COMMIT" /\ n \in Commit(s)
         \/ s.phase \in {"REVEAL", "CROSS_CRITIQUE"} /\ n \in Reveal(s)
         \/ s.phase = "CROSS_CRITIQUE" /\ n \in CrossCritique(s)
  BY DEF Change, States, Phases

LEMMA CommitBound ==
  ASSUME NEW s, Bound(s), NEW n \in Commit(s)
  PROVE  /\ Bound(n)
         /\ n.revealed = s.revealed
         /\ n.phase \in {s.phase, "REVEAL"}
         /\ \A x \in Seats : s.commitments[x] # None => n.commitments[x] = s.commitments[x]
  <1>1. PICK x \in Seats \ Given(s.commitments), m \in Submissions : n = Committed(s, x, m)
    BY DEF Commit
  <1>2. /\ n.revealed = s.revealed /\ n.critiques = s.critiques
        /\ n.phase \in {s.phase, "REVEAL"}
        /\ n.commitments = [s.commitments EXCEPT ![x] = m]
        /\ n \in States
    BY <1>1 DEF Committed, Bound, States, Ballots, Phases
  <1>3. s.commitments[x] = None /\ s.revealed[x] = None
    BY <1>1 DEF Bound, Given
  <1>4. \A y \in Seats \ {x} : n.commitments[y] = s.commitments[y]
    BY <1>2 DEF Bound, States, Ballots
  <1>5. QED
    BY <1>2, <1>3, <1>4 DEF Bound

LEMMA RevealBound ==
  ASSUME NEW s, Bound(s), NEW n \in Reveal(s)
  PROVE  /\ Bound(n)
         /\ n.commitments = s.commitments
         /\ n.phase \in {s.phase, "CROSS_CRITIQUE"}
  <1>1. PICK x \in Given(s.commitments) :
          n = [s EXCEPT !.revealed[x] = s.commitments[x],
                        !.phase = IF Given(s.revealed) \cup {x} = Seats
                                    THEN "CROSS_CRITIQUE" ELSE @]
    BY DEF Reveal
  <1>2. x \in Seats /\ s.commitments[x] \in Submissions \cup {None}
    BY <1>1 DEF Given, Bound, States, Ballots
  <1>3. /\ n.commitments = s.commitments /\ n.critiques = s.critiques
        /\ n.phase \in {s.phase, "CROSS_CRITIQUE"}
        /\ n.revealed = [s.revealed EXCEPT ![x] = s.commitments[x]]
        /\ n \in States
    BY <1>1, <1>2 DEF Bound, States, Ballots, Phases
  <1>4. \A y \in Seats : n.revealed[y] = IF y = x THEN s.commitments[x] ELSE s.revealed[y]
    BY <1>2, <1>3 DEF Bound, States, Ballots
  <1>5. QED
    BY <1>3, <1>4 DEF Bound

LEMMA CritiqueBound ==
  ASSUME NEW s, Bound(s), NEW n \in CrossCritique(s)
  PROVE  Bound(n) /\ n.commitments = s.commitments /\ n.phase = s.phase
  BY DEF CrossCritique, Bound, States

LEMMA WriteBound ==
  ASSUME NEW s, Bound(s), NEW n \in Change(s)
  PROVE  /\ Bound(n) /\ s.phase # "CLOSED"
         /\ \A x \in Seats : s.commitments[x] # None => n.commitments[x] = s.commitments[x]
         /\ s.phase # "COMMIT" => n.commitments = s.commitments /\ n.phase # "COMMIT"
         /\ s.phase = "COMMIT" => n.revealed = s.revealed
  BY WriteCases, CommitBound, RevealBound, CritiqueBound DEF Bound

LEMMA CloseBound ==
  ASSUME Bound(council)
  PROVE  Bound([council EXCEPT !.phase = "CLOSED"])
  BY DEF Bound, States, Phases

\* finalize's verdict is earned by the state it was computed from.
LEMMA VerdictEarned ==
  ASSUME NEW s, Bound(s), NEW direct \in BOOLEAN, NEW supported \in BOOLEAN,
         NEW unresolved \in BOOLEAN, NEW rs,
         direct => \E m \in 1..Len(rs) : DirectControl(rs[m])
  PROVE  LET r == [action |-> "review", state |-> s,
                   verdict |-> Verdict(s, direct, supported, unresolved)]
         IN  r \in Reviews /\ Earned(r, rs)
  <1> DEFINE v == Verdict(s, direct, supported, unresolved)
             r == [action |-> "review", state |-> s, verdict |-> v]
  <1>1. v \in {"CLEARED", "UNKNOWN"}
    BY DEF Verdict
  <1>2. r \in Reviews
    BY <1>1 DEF Reviews, Bound
  <1>3. ASSUME v = "CLEARED"
        PROVE  /\ s.revealed = s.commitments
               /\ \A x \in Seats : s.revealed[x] # None /\ \E y \in Seats : <<x, y>> \in s.critiques
               /\ \E m \in 1..Len(rs) : DirectControl(rs[m])
    <2>1. Given(s.revealed) = Seats /\ CritiqueComplete(s) /\ direct
      BY <1>3 DEF Verdict
    <2>2. \A x \in Seats : s.revealed[x] # None /\ s.revealed[x] = s.commitments[x]
      BY <2>1 DEF Given, Bound
    <2>3. s.revealed = s.commitments
      BY <2>2 DEF Bound, States, Ballots
    <2>4. ASSUME NEW x \in Seats PROVE \E y \in Seats : <<x, y>> \in s.critiques
      <3>1. PICK p \in s.critiques : p[1] = x
        BY <2>1 DEF CritiqueComplete
      <3>2. PICK y \in Seats, z \in Seats : p = <<z, y>>
        BY <3>1 DEF Bound, States, Critiques
      <3>3. QED
        BY <3>1, <3>2
    <2>5. QED
      BY <2>1, <2>2, <2>3, <2>4
  <1>4. Earned(r, rs)
    BY <1>3 DEF Earned
  <1>5. QED
    BY <1>2, <1>4

\* More receipts do not make a verdict less earned, and a receipt filed at the end
\* has all others before it.
LEMMA AppendEarned ==
  ASSUME EarnedInv, NEW r \in Reviews \cup Controls, filed' = Append(filed, r),
         Earned(r, filed) \/ r \in Controls
  PROVE  /\ filed' \in Seq(Reviews \cup Controls)
         /\ ClearedIsEarned'
         /\ \A f : Earned(f, filed) => Earned(f, filed)'
  <1>1. /\ filed \in Seq(Reviews \cup Controls)
        /\ Len(filed) \in Nat /\ Len(filed') = Len(filed) + 1
        /\ filed' \in Seq(Reviews \cup Controls)
    BY DEF EarnedInv
  <1>2. /\ filed'[Len(filed) + 1] = r
        /\ \A m \in 1..Len(filed) : filed'[m] = filed[m]
    BY <1>1
  <1>3. \A f : Earned(f, filed) => Earned(f, filed)'
    BY <1>1, <1>2 DEF Earned, DirectControl
  <1>4. ClearedIsEarned'
    <2>1. SUFFICES ASSUME NEW n \in 1..Len(filed'),
                          filed'[n].action = "review", filed'[n].verdict = "CLEARED"
                   PROVE  LET s == filed'[n].state IN
                            /\ s.revealed = s.commitments
                            /\ \A x \in Seats : /\ s.revealed[x] # None
                                                /\ \E y \in Seats : <<x, y>> \in s.critiques
                            /\ \E m \in 1..(n - 1) : DirectControl(filed'[m])
      BY DEF ClearedIsEarned, DirectControl
    <2>2. CASE n \in 1..Len(filed)
      <3>1. /\ filed'[n] = filed[n]
            /\ \A m \in 1..(n - 1) : filed'[m] = filed[m]
        BY <1>1, <1>2, <2>2
      <3>2. QED
        BY <2>1, <2>2, <3>1 DEF EarnedInv, ClearedIsEarned
    <2>3. CASE n = Len(filed) + 1
      <3>1. r \notin Controls
        BY <1>2, <2>1, <2>3 DEF Controls
      <3>2. Earned(r, filed) /\ n - 1 = Len(filed)
        BY <1>1, <2>3, <3>1
      <3>3. QED
        BY <1>2, <2>1, <2>3, <3>2 DEF Earned
    <2>4. n \in 1..Len(filed) \/ n = Len(filed) + 1
      BY <1>1
    <2>5. QED
      BY <2>2, <2>3, <2>4
  <1>5. QED
    BY <1>1, <1>3, <1>4

-----------------------------------------------------------------------------
(* What a cleared review rests on                                          *)

LEMMA EarnedInit == CouncilInit => EarnedInv
  <1> SUFFICES ASSUME CouncilInit PROVE EarnedInv
    OBVIOUS
  <1>1. Bound(council)
    BY DEF CouncilInit, Bound, States, Ballots, Phases
  <1>2. /\ turn = [c \in Callers |-> "idle"] /\ copy = [c \in Callers |-> NoCopy]
        /\ filing = [c \in Callers |-> NoReceipt] /\ filed = <<>>
    BY DEF CouncilInit
  <1>3. \A c \in Callers : turn[c] = "idle"
    BY <1>2
  <1>4. turn \in [Callers -> {"idle", "write", "close", "file"}]
    BY <1>2
  <1>5. ClearedIsEarned
    BY <1>2 DEF ClearedIsEarned
  <1>6. filed \in Seq(Reviews \cup Controls)
    BY <1>2
  <1>7. QED
    BY <1>1, <1>2, <1>3, <1>4, <1>5, <1>6 DEF EarnedInv

LEMMA EarnedLoad ==
  ASSUME EarnedInv, NEW c \in Callers, Load(c)
  PROVE  EarnedInv'
  <1>1. PICK s \in Change(council) : copy' = [copy EXCEPT ![c] = s]
    BY DEF Load
  <1>2. /\ turn' = [turn EXCEPT ![c] = "write"]
        /\ UNCHANGED <<council, filed, filing>>
    BY DEF Load, Enter
  <1>3. Bound(s) /\ s \in States
    BY WriteBound DEF EarnedInv, Bound
  <1>4. /\ copy' \in [Callers -> States \cup {NoCopy}]
        /\ turn' \in [Callers -> {"idle", "write", "close", "file"}]
        /\ copy'[c] = s /\ turn'[c] = "write"
        /\ \A d \in Callers \ {c} : copy'[d] = copy[d] /\ turn'[d] = turn[d]
    BY <1>1, <1>2, <1>3 DEF EarnedInv
  <1>5. \A d \in Callers : turn'[d] \in {"write", "close"} => Bound(copy'[d])
    BY <1>3, <1>4 DEF EarnedInv
  <1>6. \A d \in Callers : turn'[d] \in {"close", "file"} =>
          filing'[d] \in Reviews /\ Earned(filing'[d], filed')
    BY <1>2, <1>4 DEF EarnedInv
  <1>7. Bound(council')
    BY <1>2 DEF EarnedInv
  <1>8. ClearedIsEarned'
    BY <1>2 DEF EarnedInv, ClearedIsEarned, DirectControl
  <1>9. QED
    BY <1>2, <1>4, <1>5, <1>6, <1>7, <1>8 DEF EarnedInv, Bound, Earned, DirectControl

LEMMA EarnedFinalize ==
  ASSUME EarnedInv, NEW c \in Callers, LoadFinalize(c)
  PROVE  EarnedInv'
  <1> DEFINE closed == [council EXCEPT !.phase = "CLOSED"]
  <1>1. PICK direct \in BOOLEAN, supported \in BOOLEAN, unresolved \in BOOLEAN :
          /\ direct => \E n \in 1..Len(filed) : DirectControl(filed[n])
          /\ filing' = [filing EXCEPT ![c] =
               [action |-> "review", state |-> council,
                verdict |-> Verdict(council, direct, supported, unresolved)]]
    BY DEF LoadFinalize
  <1>2. /\ turn' = [turn EXCEPT ![c] = "close"]
        /\ copy' = [copy EXCEPT ![c] = closed]
        /\ UNCHANGED <<council, filed>>
    BY DEF LoadFinalize, Enter
  <1>3. Bound(closed) /\ closed \in States
    BY CloseBound DEF EarnedInv, Bound
  <1>4. PICK r : /\ filing' = [filing EXCEPT ![c] = r]
                 /\ r \in Reviews /\ Earned(r, filed)
    BY <1>1, VerdictEarned DEF EarnedInv
  <1> HIDE DEF closed
  <1>5. /\ copy' \in [Callers -> States \cup {NoCopy}]
        /\ turn' \in [Callers -> {"idle", "write", "close", "file"}]
        /\ filing' \in [Callers -> Reviews \cup {NoReceipt}]
        /\ copy'[c] = closed /\ turn'[c] = "close" /\ filing'[c] = r
        /\ \A d \in Callers \ {c} : copy'[d] = copy[d] /\ turn'[d] = turn[d] /\ filing'[d] = filing[d]
    BY <1>2, <1>3, <1>4 DEF EarnedInv
  <1>6. \A d \in Callers : turn'[d] \in {"write", "close"} => Bound(copy'[d])
    BY <1>3, <1>5 DEF EarnedInv
  <1>7. \A d \in Callers : turn'[d] \in {"close", "file"} =>
          filing'[d] \in Reviews /\ Earned(filing'[d], filed)
    BY <1>4, <1>5 DEF EarnedInv
  <1>8. Bound(council')
    BY <1>2 DEF EarnedInv
  <1>9. ClearedIsEarned'
    BY <1>2 DEF EarnedInv, ClearedIsEarned, DirectControl
  <1>10. QED
    BY <1>2, <1>5, <1>6, <1>7, <1>8, <1>9 DEF EarnedInv, Bound, Earned, DirectControl

LEMMA EarnedStore ==
  ASSUME EarnedInv, NEW c \in Callers, Store(c)
  PROVE  EarnedInv'
  <1>1. /\ turn[c] \in {"write", "close"}
        /\ turn' = [turn EXCEPT ![c] = IF @ = "close" THEN "file" ELSE "idle"]
        /\ council' = copy[c]
        /\ copy' = [copy EXCEPT ![c] = NoCopy]
        /\ UNCHANGED <<filed, filing>>
    BY DEF Store
  <1>2. /\ copy' \in [Callers -> States \cup {NoCopy}]
        /\ turn' \in [Callers -> {"idle", "write", "close", "file"}]
        /\ turn'[c] = IF turn[c] = "close" THEN "file" ELSE "idle"
        /\ \A d \in Callers \ {c} : copy'[d] = copy[d] /\ turn'[d] = turn[d]
    BY <1>1 DEF EarnedInv
  <1>3. Bound(council')
    BY <1>1 DEF EarnedInv
  <1>4. \A d \in Callers : turn'[d] \in {"write", "close"} => Bound(copy'[d])
    BY <1>2 DEF EarnedInv
  <1>5. \A d \in Callers : turn'[d] \in {"close", "file"} =>
          filing'[d] \in Reviews /\ Earned(filing'[d], filed')
    BY <1>1, <1>2 DEF EarnedInv
  <1>6. ClearedIsEarned'
    BY <1>1 DEF EarnedInv, ClearedIsEarned, DirectControl
  <1>7. QED
    BY <1>1, <1>2, <1>3, <1>4, <1>5, <1>6 DEF EarnedInv, Bound, Earned, DirectControl

LEMMA EarnedFile ==
  ASSUME EarnedInv, NEW c \in Callers, FileReceipt(c)
  PROVE  EarnedInv'
  <1>1. /\ turn[c] = "file" /\ turn' = [turn EXCEPT ![c] = "idle"]
        /\ filed' = Append(filed, filing[c])
        /\ filing' = [filing EXCEPT ![c] = NoReceipt]
        /\ UNCHANGED <<council, copy>>
    BY DEF FileReceipt
  <1>2. filing[c] \in Reviews /\ Earned(filing[c], filed)
    BY <1>1 DEF EarnedInv
  <1>3. /\ filed' \in Seq(Reviews \cup Controls)
        /\ ClearedIsEarned'
        /\ \A f : Earned(f, filed) => Earned(f, filed)'
    BY <1>1, <1>2, AppendEarned
  <1>4. /\ filing' \in [Callers -> Reviews \cup {NoReceipt}]
        /\ turn' \in [Callers -> {"idle", "write", "close", "file"}]
        /\ turn'[c] = "idle"
        /\ \A d \in Callers \ {c} : filing'[d] = filing[d] /\ turn'[d] = turn[d]
    BY <1>1 DEF EarnedInv
  <1>5. \A d \in Callers : turn'[d] \in {"close", "file"} =>
          filing'[d] \in Reviews /\ Earned(filing[d], filed)' /\ filing'[d] = filing[d]
    BY <1>3, <1>4 DEF EarnedInv
  <1>6. QED
    BY <1>1, <1>3, <1>4, <1>5 DEF EarnedInv, Bound

LEMMA EarnedControl ==
  ASSUME EarnedInv, RecordControl
  PROVE  EarnedInv'
  <1>1. PICK r \in Controls : filed' = Append(filed, r)
    BY DEF RecordControl
  <1>2. /\ filed' \in Seq(Reviews \cup Controls)
        /\ ClearedIsEarned'
        /\ \A f : Earned(f, filed) => Earned(f, filed)'
    BY <1>1, AppendEarned
  <1>3. UNCHANGED <<council, turn, copy, filing>>
    BY DEF RecordControl
  <1>4. \A d \in Callers : turn'[d] \in {"close", "file"} =>
          filing'[d] \in Reviews /\ Earned(filing[d], filed)' /\ filing'[d] = filing[d]
    BY <1>2, <1>3 DEF EarnedInv
  <1>5. QED
    BY <1>2, <1>3, <1>4 DEF EarnedInv, Bound

LEMMA EarnedStep == EarnedInv /\ [CouncilNext]_cvars => EarnedInv'
  <1>1. ASSUME EarnedInv, UNCHANGED cvars PROVE EarnedInv'
    BY <1>1 DEF cvars, EarnedInv, Bound, Earned, ClearedIsEarned, DirectControl
  <1>2. QED
    BY <1>1, EarnedLoad, EarnedFinalize, EarnedStore, EarnedFile, EarnedControl DEF CouncilNext

\* Whatever calls overlap, and however many: a review receipt is CLEARED only if in
\* the state its finalize loaded every seat had revealed what it committed and
\* critiqued another, and a matching control had cleared before
\* (council_runtime.py, finalize).
THEOREM ClearedEarned == CouncilSpec => []ClearedIsEarned
  <1>1. EarnedInv => ClearedIsEarned
    BY DEF EarnedInv
  <1>2. QED
    BY <1>1, EarnedInit, EarnedStep, PTL DEF CouncilSpec

-----------------------------------------------------------------------------
(* The order of the protocol                                               *)

LEMMA SerialInit == CouncilInit => SerialInv
  <1> SUFFICES ASSUME CouncilInit PROVE SerialInv
    OBVIOUS
  <1>1. /\ council.phase = "COMMIT"
        /\ \A x \in Seats : council.commitments[x] = None /\ council.revealed[x] = None
        /\ exposed = {} /\ overlaps = 0
        /\ \A x \in Seats : first[x] = None
        /\ \A c \in Callers : turn[c] = "idle"
    BY DEF CouncilInit
  <1>2. QED
    BY <1>1 DEF SerialInv, Serial, Active, Pending

\* A call that began without making an overlap is the only one.
LEMMA SerialEnter ==
  ASSUME EarnedInv, SerialInv, NEW c \in Callers, NEW to \in {"write", "close"}, Enter(c, to),
         UNCHANGED <<council, exposed, first>>, Pending(c)'
  PROVE  SerialInv'
  <1>1. overlaps' \in Nat /\ (overlaps' = 0 => overlaps = 0 /\ Active = {})
    BY DEF SerialInv, Enter
  <1>2. turn'[c] = to /\ \A d \in Callers \ {c} : turn'[d] = turn[d]
    BY DEF Enter, EarnedInv
  <1>3. ASSUME overlaps' = 0 PROVE Serial'
    <2>1. \A d \in Callers \ {c} : turn'[d] = "idle"
      BY <1>1, <1>2, <1>3 DEF Active
    <2>2. \A d \in Callers : Pending(d)'
      BY <2>1 DEF Pending
    <2>3. \A d, e \in Active' : d = e
      BY <2>1 DEF Active
    <2>4. QED
      BY <1>1, <1>3, <2>2, <2>3 DEF SerialInv, Serial
  <1>4. QED
    BY <1>1, <1>3 DEF SerialInv

LEMMA SerialLoad ==
  ASSUME EarnedInv, SerialInv, NEW c \in Callers, Load(c) \/ LoadFinalize(c)
  PROVE  SerialInv'
  <1>1. UNCHANGED <<council, exposed, first>>
    BY DEF Load, LoadFinalize
  <1>2. CASE Load(c)
    <2>1. turn'[c] = "write" /\ copy'[c] \in Change(council)
      BY <1>2 DEF Load, Enter, EarnedInv
    <2>2. Change(council)' = Change(council)
      BY <1>1 DEF Change, Commit, Committed, Reveal, CrossCritique, Given
    <2>3. Pending(c)'
      BY <2>1, <2>2 DEF Pending
    <2>4. QED
      BY <1>1, <1>2, <2>3, SerialEnter DEF Load
  <1>3. CASE LoadFinalize(c)
    <2>1. /\ turn'[c] = "close" /\ MayFinalize(council)
          /\ copy'[c] = [council EXCEPT !.phase = "CLOSED"]
      BY <1>3 DEF LoadFinalize, Enter, EarnedInv
    <2>2. Pending(c)'
      BY <1>1, <2>1 DEF Pending, MayFinalize
    <2>3. QED
      BY <1>1, <1>3, <2>2, SerialEnter DEF LoadFinalize
  <1>4. QED
    BY <1>2, <1>3

\* What the one caller at work may do to the council.
LEMMA StoreEffect ==
  ASSUME EarnedInv, Serial, NEW c \in Callers, Store(c)
  PROVE  /\ council' = copy[c] /\ council.phase # "CLOSED"
         /\ \A x \in Seats : council.commitments[x] # None =>
              council'.commitments[x] = council.commitments[x]
         /\ council.phase # "COMMIT" => council'.commitments = council.commitments
         /\ council'.phase = "COMMIT" =>
              council.phase = "COMMIT" /\ council'.revealed = council.revealed
  <1>1. council' = copy[c] /\ turn[c] \in {"write", "close"} /\ Pending(c) /\ Bound(council)
    BY DEF Store, Serial, EarnedInv
  <1>2. CASE turn[c] = "write"
    BY <1>1, <1>2, WriteBound DEF Pending
  <1>3. CASE turn[c] = "close"
    <2>1. council' = [council EXCEPT !.phase = "CLOSED"] /\ council.phase # "CLOSED"
      BY <1>1, <1>3 DEF Pending, MayFinalize
    <2>2. council'.phase = "CLOSED" /\ council'.commitments = council.commitments
      BY <1>1, <2>1 DEF Bound, States
    <2>3. QED
      BY <1>1, <2>1, <2>2
  <1>4. QED
    BY <1>1, <1>2, <1>3

LEMMA SerialStore ==
  ASSUME EarnedInv, SerialInv, NEW c \in Callers, Store(c)
  PROVE  SerialInv'
  <1>1. overlaps' = overlaps
    BY DEF Store
  <1>2. ASSUME overlaps = 0 PROVE Serial'
    <2>1. Serial
      BY <1>2 DEF SerialInv
    <2>2. /\ turn[c] \in {"write", "close"} /\ turn'[c] \in {"file", "idle"}
          /\ \A d \in Callers \ {c} : turn'[d] = turn[d]
          /\ exposed' = exposed \cup Given(copy[c].revealed)
          /\ \A x \in Seats :
               first'[x] = IF first[x] = None THEN copy[c].commitments[x] ELSE first[x]
      BY DEF Store, EarnedInv
    <2>3. \A d \in Callers \ {c} : turn'[d] = "idle"
      BY <2>1, <2>2 DEF Serial, Active
    <2>4. (\A d, e \in Active' : d = e) /\ \A d \in Callers : Pending(d)'
      BY <2>2, <2>3 DEF Active, Pending
    <2>5. \A x \in Seats : first'[x] = council'.commitments[x]
      BY <2>1, <2>2, StoreEffect DEF Serial
    <2>6. council'.phase = "COMMIT" => exposed' = {} /\ \A x \in Seats : council'.revealed[x] = None
      BY <2>1, <2>2, StoreEffect DEF Serial, Given
    <2>7. QED
      BY <2>4, <2>5, <2>6 DEF Serial
  <1>3. QED
    BY <1>1, <1>2 DEF SerialInv

LEMMA SerialFile ==
  ASSUME EarnedInv, SerialInv, (\E c \in Callers : FileReceipt(c)) \/ RecordControl \/ UNCHANGED cvars
  PROVE  SerialInv'
  <1>1. UNCHANGED <<council, copy, exposed, first, overlaps>>
    BY DEF FileReceipt, RecordControl, cvars
  <1>2. \A d \in Callers : turn'[d] \in {turn[d], "idle"}
    BY DEF FileReceipt, RecordControl, cvars, EarnedInv
  <1>3. ASSUME Serial PROVE Serial'
    <2>1. \A d \in Callers : Pending(d)'
      <3>1. Change(council)' = Change(council) /\ MayFinalize(council)' = MayFinalize(council)
        BY <1>1 DEF Change, Commit, Committed, Reveal, CrossCritique, Given, MayFinalize
      <3>2. QED
        BY <1>1, <1>2, <1>3, <3>1 DEF Serial, Pending
    <2>2. \A d, e \in Active' : d = e
      BY <1>2, <1>3 DEF Serial, Active
    <2>3. QED
      BY <1>1, <1>3, <2>1, <2>2 DEF Serial
  <1>4. QED
    BY <1>1, <1>3 DEF SerialInv

ProtocolInv == EarnedInv /\ SerialInv

LEMMA ProtocolStep == ProtocolInv /\ [CouncilNext]_cvars => ProtocolInv'
  BY EarnedStep, SerialLoad, SerialStore, SerialFile DEF ProtocolInv, CouncilNext

LEMMA ProtocolInvariant == CouncilSpec => []ProtocolInv
  <1>1. CouncilInit => ProtocolInv
    BY EarnedInit, SerialInit DEF ProtocolInv
  <1>2. QED
    BY <1>1, ProtocolStep, PTL DEF CouncilSpec

\* The council changes when a caller stores its copy, and at no other time.
LEMMA OnlyStore ==
  ASSUME [CouncilNext]_cvars, ~\E c \in Callers : Store(c)
  PROVE  council' = council
  BY DEF CouncilNext, Load, LoadFinalize, FileReceipt, RecordControl, cvars

\* Until two calls overlap, what a seat reveals is what it first committed.
THEOREM RevealsBound == CouncilSpec => []RevealsAreBound
  <1>1. ProtocolInv => RevealsAreBound
    BY DEF ProtocolInv, EarnedInv, Bound, SerialInv, Serial, RevealsAreBound
  <1>2. QED
    BY <1>1, ProtocolInvariant, PTL

\* Until two calls overlap, a seat commits before any submission has been in the file
\* (council_runtime.py: no submission is stored at commit time).
THEOREM CommitsBlind == CouncilSpec => CommitsAreBlind
  <1>1. ProtocolInv /\ [CouncilNext]_cvars =>
          [ \A s \in Seats :
              overlaps' = 0 /\ council'.commitments[s] # council.commitments[s] => exposed = {} ]_cvars
    <2> SUFFICES ASSUME ProtocolInv, [CouncilNext]_cvars, NEW s \in Seats, overlaps' = 0,
                        council'.commitments[s] # council.commitments[s]
                 PROVE  exposed = {}
      OBVIOUS
    <2>1. PICK c \in Callers : Store(c)
      BY OnlyStore
    <2>2. Serial /\ EarnedInv
      BY <2>1 DEF Store, ProtocolInv, SerialInv
    <2>3. council.phase = "COMMIT"
      BY <2>1, <2>2, StoreEffect
    <2>4. QED
      BY <2>2, <2>3 DEF Serial
  <1>2. QED
    BY <1>1, ProtocolInvariant, PTL DEF CouncilSpec, CommitsAreBlind

\* Until two calls overlap, a closed council never changes.
THEOREM ClosedFinal == CouncilSpec => ClosedIsFinal
  <1>1. ProtocolInv /\ [CouncilNext]_cvars =>
          [ overlaps' = 0 /\ council.phase = "CLOSED" => council' = council ]_cvars
    <2> SUFFICES ASSUME ProtocolInv, [CouncilNext]_cvars, overlaps' = 0, council.phase = "CLOSED"
                 PROVE  council' = council
      OBVIOUS
    <2>1. ASSUME NEW c \in Callers, Store(c) PROVE FALSE
      <3>1. Serial /\ EarnedInv
        BY <2>1 DEF Store, ProtocolInv, SerialInv
      <3>2. QED
        BY <2>1, <3>1, StoreEffect
    <2>2. QED
      BY <2>1, OnlyStore
  <1>2. QED
    BY <1>1, ProtocolInvariant, PTL DEF CouncilSpec, ClosedIsFinal
=============================================================================
