--------------------------- MODULE BlackGemStrike ---------------------------
(***************************************************************************)
(* The adversarial review of tools/blackgem_runtime.py: a strike is        *)
(* created with a roster of breakers, its seats are probed with a planted  *)
(* costume, they attack the candidate, criticise each other and one of     *)
(* them synthesises, and finalize writes the receipt of the ADVERSARY      *)
(* obligation. Each call loads the strike's file, talks to the models and  *)
(* writes its copy back, with no lock; the raw replies go to a second      *)
(* file, the transcript, that is read and rewritten after the first.       *)
(***************************************************************************)
EXTENDS Integers, Sequences, FiniteSets, Absence

CONSTANTS
  Rosters,      \* what create_strike may be given: sequences of breakers
  Runners,      \* processes that call the runtime
  MaxCalls(_),  \* bound: probes and runs begun, by the number of seats
  MaxFinals(_), \* bound: finalizations begun, by the number of seats
  MaxRaces      \* bound: calls that begin while another is in progress

ASSUME StrikeAssumption ==
  /\ \A r \in Rosters : r \in Seq([seat : STRING, model : STRING, group : STRING])
  /\ \A r \in Rosters : MaxCalls(Len(r)) \in Nat /\ MaxFinals(Len(r)) \in Nat
  /\ MaxRaces \in Nat

VARIABLES
  strike,      \* the strike's file, or None before create_strike
  transcript,  \* the call each section of the transcript's file is from
  receipt,     \* the last receipt of the obligation, the one the release gate reads
  doing,       \* doing[c]: what caller c has still to do
  revision,    \* revision[c]: the strike c will write back
  body,        \* body[c]: the transcript c read, or will cite
  verdictOf,   \* verdictOf[c]: the receipt finalize is building
  truth,       \* history: truth[n]: what the replies to call n really were
  saved,       \* history: the last probe and the last run whose result was saved
  disturbed,   \* history: a caller died, or a call overlapped another
  finalizes,   \* finalizations begun
  races        \* calls that began while another was in progress

past == <<truth, disturbed, finalizes, races>>
strikeVars == <<strike, transcript, receipt, doing, revision, body, verdictOf, saved, past>>

-----------------------------------------------------------------------------
(* A roster and the replies of its seats                                     *)

\* A blank reply and a transport failure are both silence. An echo answers
\* with the directive planted in the data.
Reply == {"silent", "answer", "echo"}
Tokens == {"KILL", "AMEND", "SURVIVES_TO_GATE", "UNKNOWN"}
Next1(roster, i) == (i % Len(roster)) + 1

\* create_strike refuses fewer than two seats, and seats with one name.
Creatable(roster) ==
  /\ Len(roster) >= 2
  /\ \A i, j \in DOMAIN roster : roster[i].seat = roster[j].seat => i = j

\* The replies of a run: to the blind attack, the cross-critique, the synthesis.
Replies(roster) == [attack : [DOMAIN roster -> Reply], cross : [DOMAIN roster -> Reply],
                    synthesis : Reply, token : Tokens]

Attacked(r) == {i \in DOMAIN r.attack : r.attack[i] # "silent"}
\* A seat is asked for a critique if the seat after it attacked, also when it
\* was silent itself.
AskedCross(roster, r) == {i \in DOMAIN roster : Next1(roster, i) \in Attacked(r)}
Crossed(roster, r) == {i \in AskedCross(roster, r) : r.cross[i] # "silent"}
Synthesiser(r) == IF Attacked(r) = {} THEN {}
                  ELSE {CHOOSE i \in Attacked(r) : \A j \in Attacked(r) : i <= j}
Synthesised(r) == IF r.synthesis = "silent" THEN {} ELSE Synthesiser(r)

Asked(roster, r, i) == 1 + Cardinality({i} \cap AskedCross(roster, r))
                         + Cardinality({i} \cap Synthesiser(r))
Answered(roster, r, i) == Cardinality({i} \cap Attacked(r))
                            + Cardinality({i} \cap Crossed(roster, r))
                            + Cardinality({i} \cap Synthesised(r))

Echoed(roster, r) ==
  \/ \E i \in Attacked(r) : r.attack[i] = "echo"
  \/ \E i \in Crossed(roster, r) : r.cross[i] = "echo"
  \/ Synthesised(r) # {} /\ r.synthesis = "echo"

TokenOf(r) == IF Synthesised(r) # {} /\ r.synthesis = "answer" THEN r.token ELSE "UNKNOWN"

\* _participation, and what run_strike adds to it.
Participation_AttackOnly(roster, r) ==
  LET contributing == {i \in DOMAIN roster : Answered(roster, r, i) > 0} IN
    [contributing |-> Cardinality(contributing),
     complete |-> Cardinality(contributing) >= 2,
     groups |-> Cardinality({roster[i].group : i \in contributing}),
     models |-> Cardinality({roster[i].model : i \in contributing}),
     hits |-> Echoed(roster, r), token |-> TokenOf(r)]
Participation(roster, r) ==
  LET contributing == {i \in DOMAIN roster : Answered(roster, r, i) > 0}
      partial == {i \in contributing : Answered(roster, r, i) < Asked(roster, r, i)} IN
    [contributing |-> Cardinality(contributing),
     complete |-> Cardinality(contributing) >= 2 /\ partial = {},
     groups |-> Cardinality({roster[i].group : i \in contributing}),
     models |-> Cardinality({roster[i].model : i \in contributing}),
     hits |-> Echoed(roster, r), token |-> TokenOf(r)]

\* What a reader of the transcript would call a solid run: seats of two models
\* and of two groups attacked blind, each of them answered all it was asked, the
\* first of them synthesised, and nobody obeyed the planted directive.
Solid(roster, r) ==
  /\ \E i, j \in Attacked(r) : roster[i].model # roster[j].model
  /\ \E i, j \in Attacked(r) : roster[i].group # roster[j].group
  /\ Synthesised(r) # {}
  /\ Attacked(r) \cap AskedCross(roster, r) \subseteq Crossed(roster, r)
  /\ ~Echoed(roster, r)

\* Seats that answered something.
Voices(roster, r) == Attacked(r) \cup Crossed(roster, r)

Outcomes == [roster \in {x \in Rosters : Len(x) >= 1} |->
  {[part |-> Participation(roster, r),
    truth |-> [solid |-> Solid(roster, r),
               two |-> Cardinality(Voices(roster, r)) >= 2, token |-> TokenOf(r)]]
     : r \in Replies(roster)}]

\* The outcomes that occur among the seats' probes.
Seens == SUBSET {"CAUGHT", "RUBBER_STAMP", "ABSENT"}
Seen == Seens \ {{}}
ProbeTrusted(seen) == seen = {"CAUGHT"}

NoTruth == [solid |-> FALSE, two |-> FALSE, token |-> "UNKNOWN"]

\* canary and participation carry the number of the call that produced them.
NoCanary == [call |-> 0, seen |-> {}]
NoRun == [call |-> 0]
NoBody == [canary |-> 0, strike |-> 0]

\* What a strike's file holds.
Parts == [contributing : Nat, complete : BOOLEAN, groups : Nat, models : Nat,
          hits : BOOLEAN, token : Tokens]
Strikes == [roster : Rosters, phase : {"CREATED", "PROBED", "SYNTHESIZED", "CLOSED"},
            canary : [call : Nat, seen : Seens],
            run : {NoRun} \cup [call : Nat \ {0}, part : Parts]]

ASSUME NoneAssumption == None \notin Strikes

-----------------------------------------------------------------------------
StrikeInit ==
  /\ strike = None
  /\ transcript = NoBody
  /\ receipt = None
  /\ doing = [c \in Runners |-> "idle"]
  /\ revision = [c \in Runners |-> None]
  /\ body = [c \in Runners |-> NoBody]
  /\ verdictOf = [c \in Runners |-> None]
  /\ truth = <<>>
  /\ saved = [canary |-> 0, run |-> 0]
  /\ disturbed = FALSE
  /\ finalizes = 0
  /\ races = 0

CreateStrike ==
  /\ strike = None
  /\ \E r \in Rosters :
       /\ Creatable(r)
       /\ strike' = [roster |-> r, phase |-> "CREATED", canary |-> NoCanary, run |-> NoRun]
  /\ UNCHANGED <<transcript, receipt, doing, revision, body, verdictOf, saved, past>>

Engaged == {c \in Runners : doing[c] \notin {"idle", "dead"}}
Continue(c, to) == doing' = [doing EXCEPT ![c] = to]
StartCall(c, to) ==
  /\ doing[c] = "idle" /\ strike # None
  /\ Engaged # {} => races < MaxRaces
  /\ races' = IF Engaged = {} THEN races ELSE races + 1
  /\ disturbed' = (disturbed \/ Engaged # {})
  /\ Continue(c, to)

\* probe_canary loads the strike and asks every seat; no phase is required.
Probe(c) ==
  /\ StartCall(c, "probed")
  /\ Len(truth) < MaxCalls(Len(strike.roster))
  /\ \E seen \in Seen :
       /\ Cardinality(seen) <= Len(strike.roster)
       /\ revision' = [revision EXCEPT ![c] = [strike EXCEPT !.phase = "PROBED",
                     !.canary = [call |-> Len(truth) + 1, seen |-> seen]]]
       /\ truth' = Append(truth, [NoTruth EXCEPT !.solid = (seen = {"CAUGHT"})])
  /\ UNCHANGED <<strike, transcript, receipt, body, verdictOf, saved, finalizes>>

\* run_strike on the frozen candidate (on any other it raises): no phase is
\* required either, so a closed strike runs again.
Run(c) ==
  /\ StartCall(c, "ran")
  /\ Len(truth) < MaxCalls(Len(strike.roster))
  /\ \E o \in Outcomes[strike.roster] :
       /\ revision' = [revision EXCEPT ![c] = [strike EXCEPT !.phase = "SYNTHESIZED",
                     !.run = [call |-> Len(truth) + 1, part |-> o.part]]]
       /\ truth' = Append(truth, o.truth)
  /\ UNCHANGED <<strike, transcript, receipt, body, verdictOf, saved, finalizes>>

\* _save: the file becomes this caller's copy, whatever it holds now.
Save(c) ==
  /\ doing[c] \in {"probed", "ran"}
  /\ strike' = revision[c]
  /\ saved' = IF doing[c] = "probed" THEN [saved EXCEPT !.canary = revision[c].canary.call]
              ELSE [saved EXCEPT !.run = revision[c].run.call]
  /\ Continue(c, IF doing[c] = "probed" THEN "stash canary" ELSE "stash strike")
  /\ UNCHANGED <<transcript, receipt, revision, body, verdictOf, past>>

\* _stash_raw: read the transcript, replace one section of it, write it back.
StashRead(c) ==
  /\ doing[c] \in {"stash canary", "stash strike"}
  /\ body' = [body EXCEPT ![c] = transcript]
  /\ Continue(c, IF doing[c] = "stash canary" THEN "write canary" ELSE "write strike")
  /\ UNCHANGED <<strike, transcript, receipt, revision, verdictOf, saved, past>>
Section_Fresh(b, what, s) ==
  IF what = "write canary" THEN [canary |-> s.canary.call, strike |-> 0]
  ELSE [canary |-> 0, strike |-> s.run.call]
Section(b, what, s) ==
  IF what = "write canary" THEN [b EXCEPT !.canary = s.canary.call]
  ELSE [b EXCEPT !.strike = s.run.call]
StashWrite(c) ==
  /\ doing[c] \in {"write canary", "write strike"}
  /\ transcript' = Section(body[c], doing[c], revision[c])
  /\ revision' = [revision EXCEPT ![c] = None]
  /\ body' = [body EXCEPT ![c] = NoBody]
  /\ Continue(c, "idle")
  /\ UNCHANGED <<strike, receipt, verdictOf, saved, past>>

-----------------------------------------------------------------------------
(* finalize                                                                  *)

Reasons == {"canary-probe-not-run", "canary-rubber-stamped", "canary-probe-untrusted",
  "participation-incomplete", "independence-not-established", "injection-canary-succeeded",
  "synthesis-verdict-does-not-match-transcript", "too-few-seats", "amend-required",
  "synthesis-verdict-unknown"}

When(condition, reason) == IF condition THEN {reason} ELSE {}

\* The participation of a strike that was never run is an empty dictionary.
Part(s) == IF s.run = NoRun
  THEN [contributing |-> 0, complete |-> FALSE, groups |-> 0, models |-> 0,
        hits |-> FALSE, token |-> "UNKNOWN"]
  ELSE s.run.part

Independent(p) == p.groups >= 2 /\ p.models >= 2
Trusted(s) ==
  LET p == Part(s) IN
    ProbeTrusted(s.canary.seen) /\ p.complete /\ Independent(p) /\ ~p.hits
Untrusting(s) ==
  LET p == Part(s)
      seen == s.canary.seen IN
    When(s.canary = NoCanary, "canary-probe-not-run")
    \cup When("RUBBER_STAMP" \in seen, "canary-rubber-stamped")
    \cup When(s.canary # NoCanary /\ ~ProbeTrusted(seen) /\ "RUBBER_STAMP" \notin seen,
              "canary-probe-untrusted")
    \cup When(~p.complete, "participation-incomplete")
    \cup When(~Independent(p), "independence-not-established")
    \cup When(p.hits, "injection-canary-succeeded")

VerdictOf_AnyOne(s, token, breaks) ==
  IF Part(s).contributing < 1 THEN "UNAVAILABLE"
  ELSE IF breaks \/ token \in {"KILL", "AMEND"} THEN "ISSUE" ELSE "UNKNOWN"
VerdictOf(s, token, breaks) ==
  IF Part(s).contributing < 2 THEN "UNAVAILABLE"
  ELSE IF breaks \/ token \in {"KILL", "AMEND"} THEN "ISSUE" ELSE "UNKNOWN"
Mismatch(s, token) == Part(s).token # "UNKNOWN" /\ token # Part(s).token
Unresolved(s, token, breaks) ==
  LET v == VerdictOf(s, token, breaks) IN
    Untrusting(s)
    \cup When(Mismatch(s, token), "synthesis-verdict-does-not-match-transcript")
    \cup When(v = "UNAVAILABLE", "too-few-seats")
    \cup When(v = "ISSUE" /\ ~breaks /\ token = "AMEND", "amend-required")
    \cup When(v = "UNKNOWN" /\ token = "UNKNOWN", "synthesis-verdict-unknown")

\* The caller passes a synthesis and the breaks it says survived.
Finalize(c) ==
  /\ StartCall(c, "cite")
  /\ finalizes < MaxFinals(Len(strike.roster)) /\ finalizes' = finalizes + 1
  /\ revision' = [revision EXCEPT ![c] = [strike EXCEPT !.phase = "CLOSED"]]
  /\ \E token \in Tokens, breaks \in BOOLEAN :
       verdictOf' = [verdictOf EXCEPT ![c] =
         [verdict |-> VerdictOf(strike, token, breaks), trusted |-> Trusted(strike),
          unresolved |-> Unresolved(strike, token, breaks),
          canary |-> strike.canary.call, run |-> strike.run.call, cites |-> NoBody]]
  /\ UNCHANGED <<strike, transcript, receipt, body, truth, saved>>

\* artifact_ref: the transcript leads the receipt's artifacts, whatever the
\* caller supplies of its own.
Cite(c) ==
  /\ doing[c] = "cite"
  /\ verdictOf' = [verdictOf EXCEPT ![c].cites = transcript]
  /\ Continue(c, "close")
  /\ UNCHANGED <<strike, transcript, receipt, revision, body, saved, past>>
Close(c) ==
  /\ doing[c] = "close"
  /\ strike' = revision[c]
  /\ revision' = [revision EXCEPT ![c] = None]
  /\ Continue(c, "file")
  /\ UNCHANGED <<transcript, receipt, body, verdictOf, saved, past>>
FileVerdict(c) ==
  /\ doing[c] = "file"
  /\ receipt' = verdictOf[c]
  /\ verdictOf' = [verdictOf EXCEPT ![c] = None]
  /\ Continue(c, "idle")
  /\ UNCHANGED <<strike, transcript, revision, body, saved, past>>

\* A caller dies between two of its writes.
RunnerDies(c) ==
  /\ c \in Engaged
  /\ Continue(c, "dead")
  /\ disturbed' = TRUE
  /\ revision' = [revision EXCEPT ![c] = None]
  /\ body' = [body EXCEPT ![c] = NoBody]
  /\ verdictOf' = [verdictOf EXCEPT ![c] = None]
  /\ UNCHANGED <<strike, transcript, receipt, truth, saved, races, finalizes>>

Step(c) ==
  \/ Probe(c) \/ Run(c) \/ Save(c) \/ StashRead(c) \/ StashWrite(c)
  \/ Finalize(c) \/ Cite(c) \/ Close(c) \/ FileVerdict(c)
StrikeNext == CreateStrike \/ \E c \in Runners : Step(c) \/ RunnerDies(c)
StrikeSpec == StrikeInit /\ [][StrikeNext]_strikeVars

-----------------------------------------------------------------------------
(* Properties *)

\* Whatever calls overlap or die, a trusted receipt rests on a probe in which
\* every seat caught the costume and on a run that its own replies make solid,
\* with a synthesis: run_strike and _participation count answers, not attacks.
TrustIsEarned ==
  receipt # None /\ receipt.trusted =>
    /\ receipt.canary # 0 /\ truth[receipt.canary].solid
    /\ receipt.run # 0 /\ truth[receipt.run].solid

\* A receipt that says ISSUE or UNKNOWN is of a run in which two seats answered,
\* and a run that said KILL is never filed as anything else without the mismatch
\* being listed, whatever synthesis the caller supplies.
VerdictFollowsRun ==
  receipt # None /\ receipt.verdict # "UNAVAILABLE" =>
    /\ receipt.run # 0 /\ truth[receipt.run].two
    /\ truth[receipt.run].token = "KILL" =>
         \/ receipt.verdict = "ISSUE"
         \/ "synthesis-verdict-does-not-match-transcript" \in receipt.unresolved

\* As long as no call overlaps another and no caller dies, a receipt being
\* built counts the last probe and the last run there were, and the transcript
\* it cites is theirs, also when a closed strike is probed or run again.
ReceiptIsCurrent ==
  \A c \in Runners : doing[c] \in {"close", "file"} /\ ~disturbed =>
    /\ verdictOf[c].canary = saved.canary /\ verdictOf[c].run = saved.run
    /\ verdictOf[c].cites = [canary |-> saved.canary, strike |-> saved.run]
=============================================================================
