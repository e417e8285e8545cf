--------------------------- MODULE BoundaryMonitor ---------------------------
(***************************************************************************)
(* The turn-boundary evaluator of tools/gauntlet_boundary.py. Each Stop    *)
(* hook reads the state file, decides whether the turn shows a stuck or a  *)
(* costumed line of work, may ask a judge for minutes, and writes the file *)
(* back: a turn counter, the last fingerprints and the incidents already   *)
(* blocked, each with its turn. There is no lock.                          *)
(*                                                                         *)
(* A message is its fingerprint and what the patterns find in it; two      *)
(* messages are near duplicates when their fingerprints are equal.         *)
(***************************************************************************)
EXTENDS Integers, Sequences, FiniteSets, SequencesExt, Absence

CONSTANTS
  Hooks,       \* Stop hooks, of one session or of several
  Prints,      \* fingerprints of messages
  Tails,       \* last tool calls of a transcript: an input and whether it failed
  ReadOnly,    \* inputs of tools that only read
  Refractory,  \* incident_refractory_turns
  Ledger,      \* incidents kept: 64 in the code
  MaxTurns     \* bound: evaluations begun

ASSUME BoundaryAssumption ==
  /\ None \notin Prints
  /\ Refractory \in Nat /\ Ledger \in Nat /\ MaxTurns \in Nat
  /\ Ledger > Refractory

VARIABLES
  bstate,   \* gauntlet_boundary.json
  bpc,      \* bpc[h]: what hook h has still to do
  mine,     \* mine[h]: the state h will write
  case,     \* case[h]: the candidate h asks about: op, loop and incident
  blocks,   \* history: the incidents blocked since the last reset, with their turn
  mixed     \* history: an evaluation overlapped another, or a reset

bvars == <<bstate, bpc, mine, case, blocks, mixed>>

NoIncidents == {}
Empty == [turn |-> 0, history |-> <<>>, incidents |-> NoIncidents, unavailable |-> FALSE]
NoCase == [op |-> None]

\* action_loop: an input that keeps failing, two inputs in turn, an input repeated
\* although it is no mere reading. The answer names the count, so a loop that goes
\* on is another answer.
Of(calls, x) == SelectSeq(calls, LAMBDA c : c.input = x)
Errors(calls, x) == Len(SelectSeq(Of(calls, x), LAMBDA c : c.error))
Erring(calls, x) ==
  Len(Of(calls, x)) >= 3 /\ Errors(calls, x) >= 2 /\ Last(Of(calls, x)).error
Alternating(calls) ==
  LET inputs == {c.input : c \in ToSet(calls)} IN
    /\ Len(calls) >= 6 /\ Cardinality(inputs) = 2
    /\ \A x \in inputs : Len(Of(calls, x)) >= 3
    /\ ~(inputs \subseteq ReadOnly)
Repeated(calls, x) == Len(Of(calls, x)) >= 4 /\ (Errors(calls, x) > 0 \/ x \notin ReadOnly)

\* The first input of the transcript that is one of these.
FirstOf(calls, inputs) ==
  calls[CHOOSE i \in DOMAIN calls :
          calls[i].input \in inputs /\ \A j \in 1..(i - 1) : calls[j].input \notin inputs].input
Found(rule, calls, x) == [rule |-> rule, input |-> x, times |-> Len(Of(calls, x))]
ActionLoop(calls) ==
  LET inputs == {c.input : c \in ToSet(calls)}
      erring == {x \in inputs : Erring(calls, x)}
      repeated == {x \in inputs : Repeated(calls, x)}
  IN  IF Len(calls) < 3 THEN None
      ELSE IF erring # {} THEN Found("erring", calls, FirstOf(calls, erring))
      ELSE IF Alternating(calls) THEN Found("alternating", calls, calls[1].input)
      ELSE IF repeated # {} THEN Found("repeated", calls, FirstOf(calls, repeated))
      ELSE None

\* What stage1 finds in the words alone. PRIOR_ART is folded into "plain".
Words == {"repeats", "novel", "plain"}
Lastly(s, n) == IF Len(s) <= n THEN s ELSE SubSeq(s, Len(s) - n + 1, Len(s))

\* stage1, on the last two fingerprints before this turn's.
Stage1(print, words, previous) ==
  IF words = "repeats" \/ print \in ToSet(previous) THEN "frame"
  ELSE IF words = "novel" THEN "costume" ELSE None
Op(print, words, previous, loop) ==
  IF Stage1(print, words, previous) = None /\ loop # None THEN "frame"
  ELSE Stage1(print, words, previous)

\* _incident_key: a loop names the incident, whatever the message says.
Incident(op, print, loop) == [op |-> op, of |-> IF loop # None THEN loop ELSE print]

Suppressed_Strict(s, incident) ==
  \E x \in s.incidents : x.what = incident /\ s.turn - x.turn < Refractory
Suppressed(s, incident) ==
  \E x \in s.incidents : x.what = incident /\ s.turn - x.turn <= Refractory

\* The ledger keeps its latest entries.
Pruned(incidents) ==
  {x \in incidents : Cardinality({y \in incidents : y.turn > x.turn}) < Ledger}
Blocked(s, incident) ==
  [s EXCEPT !.incidents =
     Pruned({x \in @ : x.what # incident} \cup {[what |-> incident, turn |-> s.turn]}),
     !.unavailable = FALSE]

BoundaryInit ==
  /\ bstate = Empty
  /\ bpc = [h \in Hooks |-> "idle"]
  /\ mine = [h \in Hooks |-> Empty]
  /\ case = [h \in Hooks |-> NoCase]
  /\ blocks = <<>>
  /\ mixed = 0

Evaluating == {h \in Hooks : bpc[h] # "idle"}

\* evaluate: load_state, the counter and the history, then the candidate. An
\* unreadable or missing file is an empty state.
Evaluate(h) ==
  /\ bpc[h] = "idle"
  /\ bstate.turn < MaxTurns
  /\ Evaluating # {} => mixed = 0
  /\ mixed' = IF Evaluating # {} THEN 1 ELSE mixed
  /\ \E print \in Prints, words \in Words, calls \in Tails :
       LET loop == ActionLoop(calls)
           previous == Lastly(bstate.history, 2)
           s == [bstate EXCEPT !.turn = @ + 1, !.history = Append(previous, print)]
           op == Op(print, words, previous, loop)
           incident == Incident(op, print, loop)
       IN  \/ /\ op = None
              /\ mine' = [mine EXCEPT ![h] = [s EXCEPT !.unavailable = FALSE]]
              /\ bpc' = [bpc EXCEPT ![h] = "save"]
              /\ UNCHANGED case
           \/ /\ op # None /\ Suppressed(s, incident)
              /\ mine' = [mine EXCEPT ![h] = s]
              /\ bpc' = [bpc EXCEPT ![h] = "save"]
              /\ UNCHANGED case
           \/ /\ op # None /\ ~Suppressed(s, incident)
              /\ mine' = [mine EXCEPT ![h] = s]
              /\ bpc' = [bpc EXCEPT ![h] = "judge"]
              /\ case' = [case EXCEPT ![h] = [op |-> op, loop |-> loop, what |-> incident]]
  /\ UNCHANGED <<bstate, blocks>>

\* A tool loop behind a "frame" needs no judge; anything else does, and a judge
\* that is missing, unreachable or unreadable is not an answer.
NeedsJudge(c) == ~(c.op = "frame" /\ c.loop # None)
JudgeAnswers(h) ==
  /\ bpc[h] = "judge"
  /\ \E fires \in (IF NeedsJudge(case[h]) THEN {"yes", "no", "unavailable"} ELSE {"yes"}) :
       /\ mine' = [mine EXCEPT ![h] =
            CASE fires = "yes" -> Blocked(@, case[h].what)
              [] fires = "no" -> [@ EXCEPT !.unavailable = FALSE]
              [] fires = "unavailable" -> [@ EXCEPT !.unavailable = TRUE]]
       /\ bpc' = [bpc EXCEPT ![h] = IF fires = "yes" THEN "block" ELSE "save"]
  /\ UNCHANGED <<bstate, case, blocks, mixed>>

\* save_state, and the answer to the host.
SaveState(h) ==
  /\ bpc[h] \in {"save", "block"}
  /\ bstate' = mine[h]
  /\ blocks' = IF bpc[h] = "block"
               THEN Append(blocks, [what |-> case[h].what, turn |-> mine[h].turn]) ELSE blocks
  /\ bpc' = [bpc EXCEPT ![h] = "idle"]
  /\ mine' = [mine EXCEPT ![h] = Empty]
  /\ case' = [case EXCEPT ![h] = NoCase]
  /\ UNCHANGED mixed

\* The host kills the hook while it waits for the judge: nothing is written.
HookKilled(h) ==
  /\ bpc[h] = "judge"
  /\ bpc' = [bpc EXCEPT ![h] = "idle"]
  /\ mine' = [mine EXCEPT ![h] = Empty]
  /\ case' = [case EXCEPT ![h] = NoCase]
  /\ UNCHANGED <<bstate, blocks, mixed>>

\* reset, at the start of a session.
ResetBoundary ==
  /\ bstate # Empty
  /\ bstate' = Empty
  /\ blocks' = <<>>
  /\ mixed' = IF Evaluating # {} THEN 1 ELSE mixed
  /\ UNCHANGED <<bpc, mine, case>>

BoundaryNext ==
  \/ ResetBoundary
  \/ \E h \in Hooks : Evaluate(h) \/ JudgeAnswers(h) \/ SaveState(h) \/ HookKilled(h)

-----------------------------------------------------------------------------
(* Properties *)

\* One incident does not block twice within the refractory turns, though the
\* ledger forgets its oldest entries, as long as no evaluation overlaps another
\* or a reset: a repeated block is what keeps a session from ending.
BlocksAreSpaced ==
  mixed = 0 =>
    \A i, j \in DOMAIN blocks :
      i < j /\ blocks[i].what = blocks[j].what => blocks[j].turn - blocks[i].turn > Refractory
=============================================================================
