---------------------------- MODULE StrikeProofs ----------------------------
(***************************************************************************)
(* The adversarial review, for any rosters, callers and bounds. What a     *)
(* receipt says is traced back to the replies: every strike, in the file   *)
(* or in a caller's memory, carries the number of the probe and of the run *)
(* it counts, and what it says of them is what their replies were. As long *)
(* as calls do not overlap, those are the last probe and the last run.     *)
(***************************************************************************)
EXTENDS BlackGemStrike, FiniteSetTheorems, SequenceTheorems, TLAPS

Bodies == [canary : Nat, strike : Nat]
Verdicts == [verdict : {"UNAVAILABLE", "ISSUE", "UNKNOWN"}, trusted : BOOLEAN,
             unresolved : SUBSET Reasons, canary : Nat, run : Nat, cites : Bodies]
Truths == [solid : BOOLEAN, two : BOOLEAN, token : Tokens]

\* Where a caller has a strike to write back, and where a receipt to file.
Holding == {"probed", "ran", "stash canary", "write canary", "stash strike", "write strike",
            "cite", "close"}
Filing == {"cite", "close", "file"}

StrikeTyped ==
  /\ truth \in Seq(Truths)
  /\ transcript \in Bodies
  /\ doing \in [Runners -> Holding \cup {"file", "idle", "dead"}]
  /\ body \in [Runners -> Bodies]
  /\ revision \in [Runners -> Strikes \cup {None}]
  /\ verdictOf \in [Runners -> Verdicts \cup {None}]
  /\ saved \in [canary : Nat, run : Nat]
  /\ disturbed \in BOOLEAN

\* What a strike says of its probe and of its run is what their replies were.
CanaryIsTrue(k) ==
  \/ k = NoCanary
  \/ k.call \in DOMAIN truth /\ (truth[k.call].solid <=> k.seen = {"CAUGHT"})
RunIsTrue(s) ==
  \/ s.run = NoRun
  \/ /\ s.run.call \in DOMAIN truth
     /\ \E o \in Outcomes[s.roster] : s.run.part = o.part /\ truth[s.run.call] = o.truth
TrueStrikes == {s \in Strikes : Creatable(s.roster) /\ CanaryIsTrue(s.canary) /\ RunIsTrue(s)}

\* What a receipt says rests on the probe and the run it names.
TrustJustified(v) ==
  v.trusted =>
    /\ v.canary \in DOMAIN truth /\ truth[v.canary].solid
    /\ v.run \in DOMAIN truth /\ truth[v.run].solid
VerdictJustified(v) ==
  v.verdict # "UNAVAILABLE" =>
    /\ v.run \in DOMAIN truth /\ truth[v.run].two
    /\ truth[v.run].token = "KILL" =>
         \/ v.verdict = "ISSUE"
         \/ "synthesis-verdict-does-not-match-transcript" \in v.unresolved
Justified == {v \in Verdicts : TrustJustified(v) /\ VerdictJustified(v)}

AllTrue ==
  /\ strike # None => strike \in TrueStrikes
  /\ \A c \in Runners : doing[c] \in Holding => revision[c] \in TrueStrikes
  /\ \A c \in Runners : doing[c] \in Filing => verdictOf[c] \in Justified
  /\ receipt # None => receipt \in Justified

\* The order of undisturbed calls: a strike counts the last probe and the last run,
\* and the transcript is theirs but for the section being written.
Counts(s) == s.canary.call = saved.canary /\ s.run.call = saved.run
Whole == transcript = [canary |-> saved.canary, strike |-> saved.run]
Undisturbed ==
  /\ \A b, c \in Engaged : b = c
  /\ strike = None => saved = [canary |-> 0, run |-> 0]
  /\ strike # None => Counts(strike)
  /\ (\A c \in Runners : doing[c] \notin {"stash canary", "write canary", "stash strike",
                                       "write strike"}) => Whole
  /\ \A c \in Runners :
       /\ doing[c] = "probed" => revision[c].run.call = saved.run
       /\ doing[c] = "ran" => revision[c].canary.call = saved.canary
       /\ doing[c] \in {"stash canary", "write canary", "stash strike", "write strike", "cite",
                     "close"} => Counts(revision[c])
       /\ doing[c] = "stash canary" => transcript.strike = saved.run
       /\ doing[c] = "write canary" => body[c].strike = saved.run
       /\ doing[c] = "stash strike" => transcript.canary = saved.canary
       /\ doing[c] = "write strike" => body[c].canary = saved.canary
       /\ doing[c] \in Filing =>
            verdictOf[c].canary = saved.canary /\ verdictOf[c].run = saved.run
       /\ doing[c] \in {"close", "file"} =>
            verdictOf[c].cites = [canary |-> saved.canary, strike |-> saved.run]

StrikeInv == StrikeTyped /\ AllTrue /\ (~disturbed => Undisturbed)

-----------------------------------------------------------------------------
(* The replies of a run                                                      *)

\* Every set of natural numbers has a least element.
LEMMA Least ==
  ASSUME NEW T \in SUBSET Nat, T # {}
  PROVE  \E n \in T : \A m \in T : n <= m
  <1>1. PICK n \in T : \A m \in T : ~(<<m, n>> \in OpToRel(<, Nat))
    BY NatLessThanWellFounded, WFMin
  <1>2. \A m \in T : ~(m < n)
    BY <1>1 DEF OpToRel
  <1>3. QED
    BY <1>2

\* A finite set with two elements or more has two that differ.
LEMMA TwoDiffer ==
  ASSUME NEW S, IsFiniteSet(S), Cardinality(S) >= 2
  PROVE  \E x, y \in S : x # y
  <1>1. SUFFICES ASSUME \A x, y \in S : x = y PROVE FALSE
    OBVIOUS
  <1>2. CASE S = {}
    BY <1>2, FS_EmptySet
  <1>3. CASE S # {}
    <2>1. PICK x \in S : S = {x}
      BY <1>1, <1>3
    <2>2. QED
      BY <2>1, FS_Singleton
  <1>4. QED
    BY <1>2, <1>3

\* A set that is cut down to one possible element counts it.
LEMMA CountOne ==
  ASSUME NEW i, NEW S
  PROVE  Cardinality({i} \cap S) = IF i \in S THEN 1 ELSE 0
  <1>1. CASE i \in S
    <2>1. {i} \cap S = {i}
      BY <1>1
    <2>2. QED
      BY <1>1, <2>1, FS_Singleton
  <1>2. CASE i \notin S
    <2>1. {i} \cap S = {}
      BY <1>2
    <2>2. QED
      BY <1>2, <2>1, FS_EmptySet
  <1>3. QED
    BY <1>1, <1>2

\* The seats of a roster, and who synthesises.
LEMMA Seats ==
  ASSUME NEW roster \in Rosters, Creatable(roster), NEW r \in Replies(roster)
  PROVE  /\ DOMAIN roster = 1..Len(roster) /\ Len(roster) \in Nat
         /\ Attacked(r) \subseteq DOMAIN roster
         /\ AskedCross(roster, r) \subseteq DOMAIN roster
         /\ Crossed(roster, r) \subseteq AskedCross(roster, r)
         /\ Synthesiser(r) \subseteq Attacked(r)
         /\ Synthesised(r) \subseteq Synthesiser(r)
         /\ Attacked(r) # {} => Synthesiser(r) # {}
  <1>1. DOMAIN roster = 1..Len(roster) /\ Len(roster) \in Nat
    BY StrikeAssumption, LenProperties
  <1>2. Attacked(r) \subseteq DOMAIN roster
    BY DEF Attacked, Replies
  <1>3. AskedCross(roster, r) \subseteq DOMAIN roster /\ Crossed(roster, r) \subseteq AskedCross(roster, r)
    BY DEF AskedCross, Crossed
  <1>4. Attacked(r) # {} =>
          (CHOOSE i \in Attacked(r) : \A j \in Attacked(r) : i <= j) \in Attacked(r)
    <2>1. Attacked(r) \in SUBSET Nat
      BY <1>1, <1>2
    <2>2. Attacked(r) # {} => \E i \in Attacked(r) : \A j \in Attacked(r) : i <= j
      BY <2>1, Least
    <2>3. QED
      BY <2>2
  <1>5. Synthesiser(r) \subseteq Attacked(r) /\ (Attacked(r) # {} => Synthesiser(r) # {})
    BY <1>4 DEF Synthesiser
  <1>6. Synthesised(r) \subseteq Synthesiser(r)
    BY DEF Synthesised
  <1>7. QED
    BY <1>1, <1>2, <1>3, <1>5, <1>6

\* A seat that answered all it was asked attacked, criticised and synthesised as asked.
LEMMA AnsweredAll ==
  ASSUME NEW roster \in Rosters, Creatable(roster), NEW r \in Replies(roster),
         NEW i \in DOMAIN roster, ~(Answered(roster, r, i) < Asked(roster, r, i))
  PROVE  /\ i \in Attacked(r)
         /\ i \in AskedCross(roster, r) => i \in Crossed(roster, r)
         /\ i \in Synthesiser(r) => i \in Synthesised(r)
  BY Seats, CountOne DEF Answered, Asked

\* Who answered something answered an attack or a critique; who attacked answered.
LEMMA AnsweredSome ==
  ASSUME NEW roster \in Rosters, Creatable(roster), NEW r \in Replies(roster),
         NEW i \in DOMAIN roster
  PROVE  /\ Answered(roster, r, i) > 0 => i \in Voices(roster, r)
         /\ i \in Attacked(r) => Answered(roster, r, i) > 0
  <1>1. Answered(roster, r, i) = (IF i \in Attacked(r) THEN 1 ELSE 0)
          + (IF i \in Crossed(roster, r) THEN 1 ELSE 0) + (IF i \in Synthesised(r) THEN 1 ELSE 0)
    BY CountOne DEF Answered
  <1>2. QED
    BY <1>1, Seats DEF Voices

\* A run that counts as complete, independent and free of the directive is solid.
LEMMA SolidRun ==
  ASSUME NEW roster \in Rosters, Creatable(roster), NEW r \in Replies(roster),
         LET p == Participation(roster, r) IN p.complete /\ Independent(p) /\ ~p.hits
  PROVE  Solid(roster, r)
  <1> DEFINE contributing == {i \in DOMAIN roster : Answered(roster, r, i) > 0}
             partial == {i \in contributing : Answered(roster, r, i) < Asked(roster, r, i)}
             groups == {roster[i].group : i \in contributing}
             models == {roster[i].model : i \in contributing}
  <1>1. /\ Cardinality(contributing) >= 2 /\ partial = {} /\ ~Echoed(roster, r)
        /\ Cardinality(groups) >= 2 /\ Cardinality(models) >= 2
    BY DEF Participation, Independent
  <1>2. IsFiniteSet(contributing)
    <2>1. IsFiniteSet(DOMAIN roster)
      BY Seats, FS_Interval
    <2>2. QED
      BY <2>1, FS_Subset
  <1>3. IsFiniteSet(groups) /\ IsFiniteSet(models)
    <2> DEFINE f == [i \in contributing |-> roster[i].group]
               g == [i \in contributing |-> roster[i].model]
    <2>1. f \in Surjection(contributing, groups) /\ g \in Surjection(contributing, models)
      BY DEF Surjection
    <2>2. QED
      BY <1>2, <2>1, FS_Surjection
  <1>4. \A i \in contributing : ~(Answered(roster, r, i) < Asked(roster, r, i))
    BY <1>1
  <1>5. contributing \subseteq Attacked(r)
    BY <1>4, AnsweredAll
  <1>6. Attacked(r) \subseteq contributing
    BY AnsweredSome, Seats
  <1> HIDE DEF contributing, partial
  <1>7. (\E i, j \in Attacked(r) : roster[i].group # roster[j].group)
        /\ (\E i, j \in Attacked(r) : roster[i].model # roster[j].model)
    <2>1. \E x, y \in groups : x # y
      BY <1>1, <1>3, TwoDiffer
    <2>2. \E x, y \in models : x # y
      BY <1>1, <1>3, TwoDiffer
    <2>3. QED
      BY <1>5, <2>1, <2>2
  <1>8. Attacked(r) \cap AskedCross(roster, r) \subseteq Crossed(roster, r)
    BY <1>4, <1>6, Seats, AnsweredAll
  <1>9. Synthesised(r) # {}
    <2>1. PICK i \in Synthesiser(r) : i \in Attacked(r)
      BY <1>7, Seats
    <2>2. QED
      BY <1>4, <1>6, <2>1, Seats, AnsweredAll
  <1>10. QED
    BY <1>1, <1>7, <1>8, <1>9 DEF Solid

\* A run with two seats that count has two voices.
LEMMA TwoVoices ==
  ASSUME NEW roster \in Rosters, Creatable(roster), NEW r \in Replies(roster),
         Participation(roster, r).contributing >= 2
  PROVE  Cardinality(Voices(roster, r)) >= 2
  <1> DEFINE contributing == {i \in DOMAIN roster : Answered(roster, r, i) > 0}
  <1>1. Cardinality(contributing) >= 2
    BY DEF Participation
  <1>2. contributing \subseteq Voices(roster, r)
    BY AnsweredSome
  <1>3. IsFiniteSet(Voices(roster, r))
    <2>1. IsFiniteSet(DOMAIN roster) /\ Voices(roster, r) \subseteq DOMAIN roster
      BY Seats, FS_Interval DEF Voices
    <2>2. QED
      BY <2>1, FS_Subset
  <1> HIDE DEF contributing
  <1>4. /\ IsFiniteSet(contributing) /\ Cardinality(contributing) <= Cardinality(Voices(roster, r))
        /\ Cardinality(contributing) \in Nat /\ Cardinality(Voices(roster, r)) \in Nat
    BY <1>2, <1>3, FS_Subset, FS_CardinalityType
  <1>5. QED
    BY <1>1, <1>4

-----------------------------------------------------------------------------
(* What strikes and receipts say                                             *)

\* An outcome is that of some replies.
LEMMA OutcomeOf ==
  ASSUME NEW roster \in Rosters, Creatable(roster), NEW o \in Outcomes[roster]
  PROVE  \E r \in Replies(roster) :
           /\ o.part = Participation(roster, r)
           /\ o.truth.solid = Solid(roster, r)
           /\ o.truth.two = (Cardinality(Voices(roster, r)) >= 2)
           /\ o.truth.token = TokenOf(r)
  <1>1. roster \in {x \in Rosters : Len(x) >= 1}
    BY Seats, StrikeAssumption, LenProperties DEF Creatable
  <1>2. QED
    BY <1>1 DEF Outcomes

LEMMA OutcomeType ==
  ASSUME NEW roster \in Rosters, Creatable(roster), NEW o \in Outcomes[roster]
  PROVE  o.part \in Parts /\ o.truth \in Truths
  <1>1. roster \in {x \in Rosters : Len(x) >= 1}
    BY StrikeAssumption, LenProperties DEF Creatable
  <1>2. PICK r \in Replies(roster) :
          o = [part |-> Participation(roster, r),
               truth |-> [solid |-> Solid(roster, r),
                          two |-> Cardinality(Voices(roster, r)) >= 2, token |-> TokenOf(r)]]
    BY <1>1 DEF Outcomes
  <1>3. TokenOf(r) \in Tokens
    BY DEF TokenOf, Tokens, Replies
  <1>4. Solid(roster, r) \in BOOLEAN /\ Echoed(roster, r) \in BOOLEAN
    BY DEF Solid, Echoed
  <1>5. o.truth \in Truths
    BY <1>2, <1>3, <1>4 DEF Truths
  <1> DEFINE contributing == {i \in DOMAIN roster : Answered(roster, r, i) > 0}
             partial == {i \in contributing : Answered(roster, r, i) < Asked(roster, r, i)}
             groups == {roster[i].group : i \in contributing}
             models == {roster[i].model : i \in contributing}
  <1>6. IsFiniteSet(contributing)
    <2>1. IsFiniteSet(DOMAIN roster)
      BY <1>2, Seats, FS_Interval
    <2>2. QED
      BY <2>1, FS_Subset
  <1>7. IsFiniteSet(groups) /\ IsFiniteSet(models)
    <2> DEFINE f == [i \in contributing |-> roster[i].group]
               g == [i \in contributing |-> roster[i].model]
    <2>1. f \in Surjection(contributing, groups) /\ g \in Surjection(contributing, models)
      BY DEF Surjection
    <2>2. QED
      BY <1>6, <2>1, FS_Surjection
  <1>8. Cardinality(contributing) \in Nat /\ Cardinality(groups) \in Nat /\ Cardinality(models) \in Nat
    BY <1>6, <1>7, FS_CardinalityType
  <1>9. o.part = [contributing |-> Cardinality(contributing),
                  complete |-> Cardinality(contributing) >= 2 /\ partial = {},
                  groups |-> Cardinality(groups), models |-> Cardinality(models),
                  hits |-> Echoed(roster, r), token |-> TokenOf(r)]
    BY <1>2 DEF Participation
  <1> HIDE DEF contributing, partial, groups, models
  <1>10. o.part \in Parts
    BY <1>3, <1>4, <1>8, <1>9 DEF Parts
  <1>11. QED
    BY <1>5, <1>10

\* What is true of earlier calls stays true when a call is added.
LEMMA TruthGrows ==
  ASSUME truth \in Seq(Truths), NEW t \in Truths, truth' = Append(truth, t)
  PROVE  /\ truth' \in Seq(Truths) /\ Len(truth) \in Nat
         /\ Len(truth) + 1 \in DOMAIN truth' /\ truth'[Len(truth) + 1] = t
         /\ DOMAIN truth \subseteq DOMAIN truth'
         /\ \A n \in DOMAIN truth : truth'[n] = truth[n]
         /\ TrueStrikes \subseteq TrueStrikes' /\ Justified \subseteq Justified'
  <1>1. /\ truth' \in Seq(Truths) /\ Len(truth) \in Nat
        /\ Len(truth) + 1 \in DOMAIN truth' /\ truth'[Len(truth) + 1] = t
        /\ DOMAIN truth \subseteq DOMAIN truth'
        /\ \A n \in DOMAIN truth : truth'[n] = truth[n]
    <2>1. truth' \in Seq(Truths) /\ Len(truth') = Len(truth) + 1
      BY AppendProperties
    <2>2. /\ DOMAIN truth = 1..Len(truth) /\ DOMAIN truth' = 1..(Len(truth) + 1)
          /\ Len(truth) \in Nat
      BY <2>1, LenProperties
    <2>3. QED
      BY <2>1, <2>2, AppendProperties
  <1>2. ASSUME NEW s \in TrueStrikes PROVE s \in TrueStrikes'
    <2>1. CanaryIsTrue(s.canary)'
      BY <1>1 DEF TrueStrikes, CanaryIsTrue
    <2>2. RunIsTrue(s)'
      BY <1>1 DEF TrueStrikes, RunIsTrue
    <2>3. QED
      BY <2>1, <2>2 DEF TrueStrikes
  <1>3. ASSUME NEW v \in Justified PROVE v \in Justified'
    <2>1. TrustJustified(v)'
      BY <1>1 DEF Justified, TrustJustified
    <2>2. VerdictJustified(v)'
      BY <1>1 DEF Justified, VerdictJustified
    <2>3. QED
      BY <2>1, <2>2 DEF Justified
  <1>4. QED
    BY <1>1, <1>2, <1>3

\* A probe, a run and a closing leave a strike that is true.
LEMMA ProbedIsTrue ==
  ASSUME truth \in Seq(Truths), NEW s \in TrueStrikes, NEW seen \in Seen,
         NEW t, t = [NoTruth EXCEPT !.solid = (seen = {"CAUGHT"})], truth' = Append(truth, t),
         NEW p, p = [s EXCEPT !.phase = "PROBED", !.canary = [call |-> Len(truth) + 1, seen |-> seen]]
  PROVE  t \in Truths /\ p \in TrueStrikes' /\ p.run = s.run /\ p \in Strikes
  <1>1. t \in Truths /\ t.solid = (seen = {"CAUGHT"})
    BY DEF NoTruth, Truths, Tokens
  <1>2. /\ Len(truth) \in Nat /\ Len(truth) + 1 \in DOMAIN truth'
        /\ truth'[Len(truth) + 1] = t /\ s \in TrueStrikes'
    BY <1>1, TruthGrows
  <1>3. PICK k : k = [call |-> Len(truth) + 1, seen |-> seen]
    OBVIOUS
  <1>4. k \in [call : Nat, seen : Seens] /\ k.call = Len(truth) + 1 /\ k.seen = seen
    BY <1>2, <1>3 DEF Seen, Seens
  <1>5. s \in Strikes
    BY DEF TrueStrikes
  <1>6. p = [s EXCEPT !.phase = "PROBED", !.canary = k]
    BY <1>3
  <1>7. p \in Strikes /\ p.canary = k /\ p.run = s.run /\ p.roster = s.roster
    BY <1>4, <1>5, <1>6 DEF Strikes
  <1>8. CanaryIsTrue(k)'
    BY <1>1, <1>2, <1>4 DEF CanaryIsTrue
  <1>9. RunIsTrue(s)' /\ Creatable(s.roster)
    BY <1>2 DEF TrueStrikes
  <1>10. RunIsTrue(p)'
    BY <1>7, <1>9 DEF RunIsTrue
  <1>11. p \in TrueStrikes'
    BY <1>7, <1>8, <1>9, <1>10 DEF TrueStrikes
  <1>12. QED
    BY <1>1, <1>7, <1>11

LEMMA RunIsRecorded ==
  ASSUME truth \in Seq(Truths), NEW s \in TrueStrikes, NEW o \in Outcomes[s.roster],
         truth' = Append(truth, o.truth),
         NEW p, p = [s EXCEPT !.phase = "SYNTHESIZED",
                              !.run = [call |-> Len(truth) + 1, part |-> o.part]]
  PROVE  o.truth \in Truths /\ p \in TrueStrikes' /\ p.canary = s.canary /\ p \in Strikes
  <1>1. s \in Strikes /\ Creatable(s.roster) /\ s.roster \in Rosters
    BY DEF TrueStrikes, Strikes
  <1>2. o.part \in Parts /\ o.truth \in Truths
    BY <1>1, OutcomeType
  <1>3. /\ Len(truth) \in Nat /\ Len(truth) + 1 \in DOMAIN truth'
        /\ truth'[Len(truth) + 1] = o.truth /\ s \in TrueStrikes'
    BY <1>2, TruthGrows
  <1>4. PICK k : k = [call |-> Len(truth) + 1, part |-> o.part]
    OBVIOUS
  <1>5. /\ k \in [call : Nat \ {0}, part : Parts] /\ k.call = Len(truth) + 1 /\ k.part = o.part
    BY <1>2, <1>3, <1>4
  <1>6. p = [s EXCEPT !.phase = "SYNTHESIZED", !.run = k]
    BY <1>4
  <1>7. p \in Strikes /\ p.canary = s.canary /\ p.run = k /\ p.roster = s.roster
    BY <1>1, <1>5, <1>6 DEF Strikes
  <1>8. CanaryIsTrue(p.canary)'
    BY <1>3, <1>7 DEF TrueStrikes
  <1>9. RunIsTrue(p)'
    BY <1>3, <1>5, <1>7 DEF RunIsTrue
  <1>10. p \in TrueStrikes'
    BY <1>1, <1>7, <1>8, <1>9 DEF TrueStrikes
  <1>11. QED
    BY <1>2, <1>7, <1>10

LEMMA ClosedIsTrue ==
  ASSUME NEW s \in TrueStrikes, NEW p, p = [s EXCEPT !.phase = "CLOSED"]
  PROVE  p \in TrueStrikes /\ p.canary = s.canary /\ p.run = s.run
  <1>1. p \in Strikes /\ p.canary = s.canary /\ p.run = s.run /\ p.roster = s.roster
    BY DEF TrueStrikes, Strikes
  <1>2. QED
    BY <1>1 DEF TrueStrikes, CanaryIsTrue, RunIsTrue

\* The participation of a strike is that of the replies to the run it counts.
LEMMA PartIsTrue ==
  ASSUME NEW s \in TrueStrikes, s.run # NoRun
  PROVE  /\ s.run.call \in DOMAIN truth /\ Part(s) = s.run.part /\ s.run.part \in Parts
         /\ \E r \in Replies(s.roster) :
              /\ s.run.part = Participation(s.roster, r)
              /\ truth[s.run.call].solid = Solid(s.roster, r)
              /\ truth[s.run.call].two = (Cardinality(Voices(s.roster, r)) >= 2)
              /\ truth[s.run.call].token = TokenOf(r)
  <1>1. s.roster \in Rosters /\ Creatable(s.roster) /\ RunIsTrue(s)
    BY DEF TrueStrikes, Strikes
  <1>2. PICK o \in Outcomes[s.roster] : s.run.part = o.part /\ truth[s.run.call] = o.truth
    BY <1>1 DEF RunIsTrue
  <1>3. QED
    BY <1>1, <1>2, OutcomeOf, OutcomeType DEF RunIsTrue, Part

\* A finalization of a true strike makes a justified receipt.
LEMMA VerdictIsJustified ==
  ASSUME truth \in Seq(Truths), NEW s \in TrueStrikes, NEW token \in Tokens, NEW breaks \in BOOLEAN,
         NEW v, v = [verdict |-> VerdictOf(s, token, breaks), trusted |-> Trusted(s),
                     unresolved |-> Unresolved(s, token, breaks),
                     canary |-> s.canary.call, run |-> s.run.call, cites |-> NoBody]
  PROVE  v \in Justified
  <1>1. s \in Strikes /\ s.roster \in Rosters /\ Creatable(s.roster) /\ CanaryIsTrue(s.canary)
    BY DEF TrueStrikes, Strikes
  <1>2. v \in Verdicts
    <2>1. VerdictOf(s, token, breaks) \in {"UNAVAILABLE", "ISSUE", "UNKNOWN"}
      BY DEF VerdictOf
    <2>2. Unresolved(s, token, breaks) \subseteq Reasons
      BY DEF Unresolved, Untrusting, When, Reasons
    <2>3. Trusted(s) \in BOOLEAN
      <3>1. Part(s).complete \in BOOLEAN
        <4>1. CASE s.run = NoRun
          BY <4>1 DEF Part
        <4>2. CASE s.run # NoRun
          BY <4>2, PartIsTrue DEF Parts
        <4>3. QED
          BY <4>1, <4>2
      <3>2. QED
        BY <3>1 DEF Trusted
    <2>4. s.canary.call \in Nat /\ s.run.call \in Nat
      BY <1>1 DEF Strikes, NoRun
    <2>5. NoBody \in Bodies
      BY DEF NoBody, Bodies
    <2>6. QED
      BY <2>1, <2>2, <2>3, <2>4, <2>5 DEF Verdicts
  <1>3. /\ v.verdict = VerdictOf(s, token, breaks) /\ v.trusted = Trusted(s)
        /\ v.unresolved = Unresolved(s, token, breaks)
        /\ v.canary = s.canary.call /\ v.run = s.run.call
    OBVIOUS
  <1>4. TrustJustified(v)
    <2> SUFFICES ASSUME Trusted(s)
                 PROVE  /\ s.canary.call \in DOMAIN truth /\ truth[s.canary.call].solid
                        /\ s.run.call \in DOMAIN truth /\ truth[s.run.call].solid
      BY <1>3 DEF TrustJustified
    <2>1. s.canary.seen = {"CAUGHT"}
      BY DEF Trusted, ProbeTrusted
    <2>2. s.canary # NoCanary
      <3>1. NoCanary.seen = {} /\ {"CAUGHT"} # {}
        BY DEF NoCanary
      <3>2. QED
        BY <2>1, <3>1
    <2>3. s.run # NoRun
      BY DEF Trusted, Part
    <2>4. PICK r \in Replies(s.roster) :
            s.run.part = Participation(s.roster, r) /\ truth[s.run.call].solid = Solid(s.roster, r)
      BY <2>3, PartIsTrue
    <2>5. s.run.part.complete /\ Independent(s.run.part) /\ ~s.run.part.hits
      BY <2>3, PartIsTrue DEF Trusted
    <2>6. Solid(s.roster, r)
      BY <1>1, <2>4, <2>5, SolidRun
    <2>7. QED
      BY <1>1, <2>1, <2>2, <2>3, <2>4, <2>6, PartIsTrue DEF CanaryIsTrue
  <1>5. VerdictJustified(v)
    <2> SUFFICES ASSUME VerdictOf(s, token, breaks) # "UNAVAILABLE"
                 PROVE  /\ s.run.call \in DOMAIN truth /\ truth[s.run.call].two
                        /\ truth[s.run.call].token = "KILL" =>
                             \/ VerdictOf(s, token, breaks) = "ISSUE"
                             \/ "synthesis-verdict-does-not-match-transcript"
                                  \in Unresolved(s, token, breaks)
      BY <1>3 DEF VerdictJustified
    <2>1. ~(Part(s).contributing < 2)
      BY DEF VerdictOf
    <2>2. s.run # NoRun
      BY <2>1 DEF Part
    <2>3. PICK r \in Replies(s.roster) :
            /\ s.run.part = Participation(s.roster, r)
            /\ truth[s.run.call].two = (Cardinality(Voices(s.roster, r)) >= 2)
            /\ truth[s.run.call].token = TokenOf(r)
      BY <2>2, PartIsTrue
    <2>4. s.run.call \in DOMAIN truth /\ Part(s) = s.run.part /\ s.run.part \in Parts
      BY <2>2, PartIsTrue
    <2>5. Participation(s.roster, r).contributing >= 2
      BY <2>1, <2>3, <2>4 DEF Parts
    <2>6. truth[s.run.call].two
      BY <1>1, <2>3, <2>5, TwoVoices
    <2>7. Part(s).token = truth[s.run.call].token
      BY <2>3, <2>4 DEF Participation
    <2>8. truth[s.run.call].token = "KILL" /\ token # "KILL" => Mismatch(s, token)
      BY <2>7 DEF Mismatch
    <2>9. Mismatch(s, token) =>
            "synthesis-verdict-does-not-match-transcript" \in Unresolved(s, token, breaks)
      BY DEF Unresolved, When
    <2>10. token = "KILL" => VerdictOf(s, token, breaks) = "ISSUE"
      BY <2>1 DEF VerdictOf
    <2>11. QED
      BY <2>4, <2>6, <2>8, <2>9, <2>10
  <1>6. QED
    BY <1>2, <1>4, <1>5 DEF Justified

-----------------------------------------------------------------------------
(* The steps                                                                 *)

LEMMA StrikeInitial == StrikeInit => StrikeInv
  <1> SUFFICES ASSUME StrikeInit PROVE StrikeInv
    OBVIOUS
  <1>1. StrikeTyped
    <2>1. truth \in Seq(Truths)
      BY DEF StrikeInit
    <2>2. NoBody \in Bodies
      BY DEF NoBody, Bodies
    <2>3. saved \in [canary : Nat, run : Nat]
      BY DEF StrikeInit
    <2>4. QED
      BY <2>1, <2>2, <2>3 DEF StrikeInit, StrikeTyped
  <1>2. AllTrue
    BY DEF StrikeInit, AllTrue, Holding, Filing
  <1>3. Undisturbed
    BY DEF StrikeInit, Undisturbed, Engaged, Whole, NoBody, Filing
  <1>4. QED
    BY <1>1, <1>2, <1>3 DEF StrikeInv

\* What is true and justified depends on the replies alone.
LEMMA TruthStays ==
  ASSUME truth' = truth
  PROVE  TrueStrikes' = TrueStrikes /\ Justified' = Justified
  BY DEF TrueStrikes, CanaryIsTrue, RunIsTrue, Justified, TrustJustified, VerdictJustified

\* The fields of a true strike.
LEMMA TrueFields ==
  ASSUME NEW s \in TrueStrikes
  PROVE  /\ s \in Strikes /\ s # None /\ s.roster \in Rosters /\ Creatable(s.roster)
         /\ s.canary.call \in Nat /\ s.run.call \in Nat
  BY NoneAssumption DEF TrueStrikes, Strikes, NoRun

\* As long as nothing is disturbed, a caller that is at work is alone.
LEMMA Alone ==
  ASSUME StrikeInv, ~disturbed, NEW c \in Runners, doing[c] \notin {"idle", "dead"}
  PROVE  \A q \in Runners : q # c => doing[q] \in {"idle", "dead"}
  BY DEF StrikeInv, Undisturbed, Engaged

\* A call that begins reads a true strike; if it disturbs nothing, nobody is at work.
LEMMA Entered ==
  ASSUME StrikeInv, NEW c \in Runners, NEW to \in {"probed", "ran", "cite"}, StartCall(c, to)
  PROVE  /\ strike \in TrueStrikes
         /\ doing' \in [Runners -> Holding \cup {"file", "idle", "dead"}] /\ disturbed' \in BOOLEAN
         /\ doing'[c] = to /\ \A q \in Runners : q # c => doing'[q] = doing[q]
         /\ ~disturbed' =>
              /\ Undisturbed /\ Whole /\ Counts(strike) /\ strike # None
              /\ \A q \in Runners : q # c => doing'[q] \in {"idle", "dead"}
  <1>1. doing \in [Runners -> Holding \cup {"file", "idle", "dead"}] /\ disturbed \in BOOLEAN
    BY DEF StrikeInv, StrikeTyped
  <1>2. strike \in TrueStrikes /\ strike # None
    BY DEF StartCall, StrikeInv, AllTrue
  <1>3. doing' = [doing EXCEPT ![c] = to] /\ disturbed' = (disturbed \/ Engaged # {})
    BY DEF StartCall, Continue
  <1>4. doing' \in [Runners -> Holding \cup {"file", "idle", "dead"}]
        /\ doing'[c] = to /\ \A q \in Runners : q # c => doing'[q] = doing[q]
    BY <1>1, <1>3 DEF Holding
  <1>5. disturbed' \in BOOLEAN
    BY <1>1, <1>3
  <1>6. ASSUME ~disturbed'
        PROVE  /\ Undisturbed /\ Whole /\ Counts(strike)
               /\ \A q \in Runners : q # c => doing'[q] \in {"idle", "dead"}
    <2>1. Undisturbed /\ Engaged = {}
      BY <1>3, <1>6 DEF StrikeInv
    <2>2. \A q \in Runners : doing[q] \in {"idle", "dead"}
      BY <2>1 DEF Engaged
    <2>3. QED
      BY <1>2, <1>4, <2>1, <2>2 DEF Undisturbed
  <1>7. QED
    BY <1>2, <1>4, <1>5, <1>6

LEMMA CreateKeeps == StrikeInv /\ CreateStrike => StrikeInv'
  <1> SUFFICES ASSUME StrikeInv, CreateStrike PROVE StrikeInv'
    OBVIOUS
  <1>1. PICK r \in Rosters :
          /\ Creatable(r)
          /\ strike' = [roster |-> r, phase |-> "CREATED", canary |-> NoCanary, run |-> NoRun]
    BY DEF CreateStrike
  <1>2. /\ strike = None
        /\ UNCHANGED <<transcript, receipt, doing, revision, body, verdictOf, saved, truth, disturbed>>
    BY DEF CreateStrike, past
  <1>3. StrikeTyped'
    BY <1>2 DEF StrikeInv, StrikeTyped
  <1>4. TrueStrikes' = TrueStrikes /\ Justified' = Justified
    BY <1>2, TruthStays
  <1>5. strike' \in TrueStrikes /\ strike'.canary.call = 0 /\ strike'.run.call = 0
    <2>1. NoCanary \in [call : Nat, seen : Seens]
      BY DEF NoCanary, Seens
    <2>2. strike' \in Strikes
      BY <1>1, <2>1 DEF Strikes
    <2>3. QED
      BY <1>1, <2>2 DEF TrueStrikes, CanaryIsTrue, RunIsTrue, NoCanary, NoRun
  <1>6. AllTrue'
    BY <1>2, <1>4, <1>5 DEF StrikeInv, AllTrue
  <1>7. ASSUME ~disturbed PROVE Undisturbed'
    <2>1. Undisturbed /\ strike' # None
      BY <1>5, <1>7, TrueFields DEF StrikeInv
    <2>2. Counts(strike)'
      <3>1. saved = [canary |-> 0, run |-> 0]
        BY <1>2, <2>1 DEF Undisturbed
      <3>2. QED
        BY <1>2, <1>5, <3>1 DEF Counts
    <2>3. QED
      BY <1>2, <2>1, <2>2 DEF Undisturbed, Engaged, Whole, Counts
  <1>8. QED
    BY <1>2, <1>3, <1>6, <1>7 DEF StrikeInv

LEMMA ProbeKeeps == \A c \in Runners : StrikeInv /\ Probe(c) => StrikeInv'
  <1> SUFFICES ASSUME NEW c \in Runners, StrikeInv, Probe(c) PROVE StrikeInv'
    OBVIOUS
  <1>1. PICK seen \in Seen :
          /\ revision' = [revision EXCEPT ![c] = [strike EXCEPT !.phase = "PROBED",
                        !.canary = [call |-> Len(truth) + 1, seen |-> seen]]]
          /\ truth' = Append(truth, [NoTruth EXCEPT !.solid = (seen = {"CAUGHT"})])
    BY DEF Probe
  <1>2. StartCall(c, "probed") /\ UNCHANGED <<strike, transcript, receipt, body, verdictOf, saved>>
    BY DEF Probe
  <1>3. PICK t : t = [NoTruth EXCEPT !.solid = (seen = {"CAUGHT"})]
    OBVIOUS
  <1>4. PICK p : p = [strike EXCEPT !.phase = "PROBED",
                        !.canary = [call |-> Len(truth) + 1, seen |-> seen]]
    OBVIOUS
  <1>5. StrikeTyped /\ truth \in Seq(Truths) /\ truth' = Append(truth, t)
    BY <1>1, <1>3 DEF StrikeInv, StrikeTyped
  <1>6. /\ strike \in TrueStrikes
        /\ doing' \in [Runners -> Holding \cup {"file", "idle", "dead"}] /\ disturbed' \in BOOLEAN
        /\ doing'[c] = "probed" /\ \A q \in Runners : q # c => doing'[q] = doing[q]
        /\ ~disturbed' =>
              /\ Undisturbed /\ Whole /\ Counts(strike) /\ strike # None
              /\ \A q \in Runners : q # c => doing'[q] \in {"idle", "dead"}
    BY <1>2, Entered
  <1>7. t \in Truths /\ p \in TrueStrikes' /\ p.run = strike.run /\ p \in Strikes
    BY <1>3, <1>4, <1>5, <1>6, ProbedIsTrue
  <1>8. /\ truth' \in Seq(Truths)
        /\ TrueStrikes \subseteq TrueStrikes' /\ Justified \subseteq Justified'
    BY <1>5, <1>7, TruthGrows
  <1>9. revision' \in [Runners -> Strikes \cup {None}] /\ revision'[c] = p
        /\ \A q \in Runners : q # c => revision'[q] = revision[q]
    BY <1>1, <1>4, <1>5, <1>7 DEF StrikeTyped
  <1>10. StrikeTyped'
    BY <1>2, <1>5, <1>6, <1>8, <1>9 DEF StrikeTyped
  <1>11. AllTrue'
    BY <1>2, <1>6, <1>7, <1>8, <1>9 DEF StrikeInv, AllTrue, Filing
  <1>12. ASSUME ~disturbed' PROVE Undisturbed'
    <2>1. \A q \in Runners : doing'[q] \in {"idle", "dead", "probed"} /\ (doing'[q] = "probed" => q = c)
      BY <1>6, <1>12
    <2>2. revision'[c].run.call = saved.run
      BY <1>6, <1>7, <1>9, <1>12 DEF Counts
    <2>3. Whole' /\ Counts(strike)'
      BY <1>2, <1>6, <1>12 DEF Whole, Counts
    <2>4. QED
      BY <1>2, <1>6, <1>12, <2>1, <2>2, <2>3 DEF Undisturbed, Engaged, Filing
  <1>13. QED
    BY <1>10, <1>11, <1>12 DEF StrikeInv

LEMMA RunKeeps == \A c \in Runners : StrikeInv /\ Run(c) => StrikeInv'
  <1> SUFFICES ASSUME NEW c \in Runners, StrikeInv, Run(c) PROVE StrikeInv'
    OBVIOUS
  <1>1. PICK o \in Outcomes[strike.roster] :
          /\ revision' = [revision EXCEPT ![c] = [strike EXCEPT !.phase = "SYNTHESIZED",
                        !.run = [call |-> Len(truth) + 1, part |-> o.part]]]
          /\ truth' = Append(truth, o.truth)
    BY DEF Run
  <1>2. StartCall(c, "ran") /\ UNCHANGED <<strike, transcript, receipt, body, verdictOf, saved>>
    BY DEF Run
  <1>3. PICK p : p = [strike EXCEPT !.phase = "SYNTHESIZED",
                        !.run = [call |-> Len(truth) + 1, part |-> o.part]]
    OBVIOUS
  <1>4. StrikeTyped /\ truth \in Seq(Truths)
    BY DEF StrikeInv, StrikeTyped
  <1>5. /\ strike \in TrueStrikes
        /\ doing' \in [Runners -> Holding \cup {"file", "idle", "dead"}] /\ disturbed' \in BOOLEAN
        /\ doing'[c] = "ran" /\ \A q \in Runners : q # c => doing'[q] = doing[q]
        /\ ~disturbed' =>
              /\ Undisturbed /\ Whole /\ Counts(strike) /\ strike # None
              /\ \A q \in Runners : q # c => doing'[q] \in {"idle", "dead"}
    BY <1>2, Entered
  <1>6. o.truth \in Truths /\ p \in TrueStrikes' /\ p.canary = strike.canary /\ p \in Strikes
    BY <1>1, <1>3, <1>4, <1>5, RunIsRecorded
  <1>7. /\ truth' \in Seq(Truths)
        /\ TrueStrikes \subseteq TrueStrikes' /\ Justified \subseteq Justified'
    BY <1>1, <1>4, <1>6, TruthGrows
  <1>8. revision' \in [Runners -> Strikes \cup {None}] /\ revision'[c] = p
        /\ \A q \in Runners : q # c => revision'[q] = revision[q]
    BY <1>1, <1>3, <1>4, <1>6 DEF StrikeTyped
  <1>9. StrikeTyped'
    BY <1>2, <1>4, <1>5, <1>7, <1>8 DEF StrikeTyped
  <1>10. AllTrue'
    BY <1>2, <1>5, <1>6, <1>7, <1>8 DEF StrikeInv, AllTrue, Filing
  <1>11. ASSUME ~disturbed' PROVE Undisturbed'
    <2>1. \A q \in Runners : doing'[q] \in {"idle", "dead", "ran"} /\ (doing'[q] = "ran" => q = c)
      BY <1>5, <1>11
    <2>2. revision'[c].canary.call = saved.canary
      BY <1>5, <1>6, <1>8, <1>11 DEF Counts
    <2>3. Whole' /\ Counts(strike)'
      BY <1>2, <1>5, <1>11 DEF Whole, Counts
    <2>4. QED
      BY <1>2, <1>5, <1>11, <2>1, <2>2, <2>3 DEF Undisturbed, Engaged, Filing
  <1>12. QED
    BY <1>9, <1>10, <1>11 DEF StrikeInv

LEMMA SaveKeeps == \A c \in Runners : StrikeInv /\ Save(c) => StrikeInv'
  <1> SUFFICES ASSUME NEW c \in Runners, StrikeInv, Save(c) PROVE StrikeInv'
    OBVIOUS
  <1> DEFINE to == IF doing[c] = "probed" THEN "stash canary" ELSE "stash strike"
  <1>1. /\ doing[c] \in {"probed", "ran"} /\ strike' = revision[c]
        /\ saved' = IF doing[c] = "probed" THEN [saved EXCEPT !.canary = revision[c].canary.call]
                    ELSE [saved EXCEPT !.run = revision[c].run.call]
        /\ doing' = [doing EXCEPT ![c] = to]
        /\ UNCHANGED <<transcript, receipt, revision, body, verdictOf, truth, disturbed>>
    BY DEF Save, Continue, past
  <1>2. /\ StrikeTyped /\ revision[c] \in TrueStrikes
        /\ doing \in [Runners -> Holding \cup {"file", "idle", "dead"}]
        /\ saved \in [canary : Nat, run : Nat]
    BY <1>1 DEF StrikeInv, StrikeTyped, AllTrue, Holding
  <1>3. /\ revision[c] \in Strikes /\ revision[c] # None
        /\ revision[c].canary.call \in Nat /\ revision[c].run.call \in Nat
    BY <1>2, TrueFields
  <1>4. TrueStrikes' = TrueStrikes /\ Justified' = Justified
    BY <1>1, TruthStays
  <1>5. /\ doing' \in [Runners -> Holding \cup {"file", "idle", "dead"}] /\ doing'[c] = to
        /\ \A q \in Runners : q # c => doing'[q] = doing[q]
    BY <1>1, <1>2 DEF Holding
  <1>6. saved' \in [canary : Nat, run : Nat]
    BY <1>1, <1>2, <1>3
  <1>7. StrikeTyped'
    BY <1>1, <1>2, <1>5, <1>6 DEF StrikeTyped
  <1>8. AllTrue'
    BY <1>1, <1>2, <1>4, <1>5 DEF StrikeInv, AllTrue, Holding, Filing
  <1>9. ASSUME ~disturbed PROVE Undisturbed'
    <2>1. Undisturbed /\ \A q \in Runners : q # c => doing[q] \in {"idle", "dead"}
      BY <1>1, <1>9, Alone DEF StrikeInv
    <2>2. \A q \in Runners : q # c => doing'[q] \in {"idle", "dead"}
      BY <1>5, <2>1
    <2>3. Whole
      BY <1>1, <2>1 DEF Undisturbed
    <2>4. CASE doing[c] = "probed"
      <3>1. /\ doing'[c] = "stash canary" /\ saved'.canary = revision[c].canary.call
            /\ saved'.run = saved.run /\ saved.run = revision[c].run.call
        BY <1>1, <1>2, <1>5, <2>1, <2>4 DEF Undisturbed
      <3>2. Counts(strike)' /\ transcript'.strike = saved'.run /\ strike' # None
        BY <1>1, <1>3, <2>3, <3>1 DEF Counts, Whole
      <3>3. QED
        BY <1>1, <2>2, <3>1, <3>2 DEF Undisturbed, Engaged, Filing, Counts
    <2>5. CASE doing[c] = "ran"
      <3>1. /\ doing'[c] = "stash strike" /\ saved'.run = revision[c].run.call
            /\ saved'.canary = saved.canary /\ saved.canary = revision[c].canary.call
        BY <1>1, <1>2, <1>5, <2>1, <2>5 DEF Undisturbed
      <3>2. Counts(strike)' /\ transcript'.canary = saved'.canary /\ strike' # None
        BY <1>1, <1>3, <2>3, <3>1 DEF Counts, Whole
      <3>3. QED
        BY <1>1, <2>2, <3>1, <3>2 DEF Undisturbed, Engaged, Filing, Counts
    <2>6. QED
      BY <1>1, <2>4, <2>5
  <1>10. QED
    BY <1>1, <1>7, <1>8, <1>9 DEF StrikeInv

LEMMA StashReadKeeps == \A c \in Runners : StrikeInv /\ StashRead(c) => StrikeInv'
  <1> SUFFICES ASSUME NEW c \in Runners, StrikeInv, StashRead(c) PROVE StrikeInv'
    OBVIOUS
  <1> DEFINE to == IF doing[c] = "stash canary" THEN "write canary" ELSE "write strike"
  <1>1. /\ doing[c] \in {"stash canary", "stash strike"}
        /\ body' = [body EXCEPT ![c] = transcript] /\ doing' = [doing EXCEPT ![c] = to]
        /\ UNCHANGED <<strike, transcript, receipt, revision, verdictOf, saved, truth, disturbed>>
    BY DEF StashRead, Continue, past
  <1>2. StrikeTyped /\ revision[c] \in TrueStrikes /\ transcript \in Bodies
        /\ doing \in [Runners -> Holding \cup {"file", "idle", "dead"}] /\ body \in [Runners -> Bodies]
    BY <1>1 DEF StrikeInv, StrikeTyped, AllTrue, Holding
  <1>3. TrueStrikes' = TrueStrikes /\ Justified' = Justified
    BY <1>1, TruthStays
  <1>4. /\ doing' \in [Runners -> Holding \cup {"file", "idle", "dead"}] /\ doing'[c] = to
        /\ \A q \in Runners : q # c => doing'[q] = doing[q]
    BY <1>1, <1>2 DEF Holding
  <1>5. body' \in [Runners -> Bodies] /\ body'[c] = transcript
    BY <1>1, <1>2
  <1>6. StrikeTyped'
    BY <1>1, <1>2, <1>4, <1>5 DEF StrikeTyped
  <1>7. AllTrue'
    BY <1>1, <1>2, <1>3, <1>4 DEF StrikeInv, AllTrue, Holding, Filing
  <1>8. ASSUME ~disturbed PROVE Undisturbed'
    <2>1. Undisturbed /\ \A q \in Runners : q # c => doing'[q] \in {"idle", "dead"}
      BY <1>1, <1>4, <1>8, Alone DEF StrikeInv
    <2>2. /\ Counts(revision[c]) /\ (strike # None => Counts(strike))
          /\ strike = None => saved = [canary |-> 0, run |-> 0]
          /\ doing[c] = "stash canary" => transcript.strike = saved.run
          /\ doing[c] = "stash strike" => transcript.canary = saved.canary
      BY <1>1, <2>1 DEF Undisturbed
    <2>3. QED
      BY <1>1, <1>4, <1>5, <2>1, <2>2 DEF Undisturbed, Engaged, Filing, Counts
  <1>9. QED
    BY <1>1, <1>6, <1>7, <1>8 DEF StrikeInv

LEMMA StashWriteKeeps == \A c \in Runners : StrikeInv /\ StashWrite(c) => StrikeInv'
  <1> SUFFICES ASSUME NEW c \in Runners, StrikeInv, StashWrite(c) PROVE StrikeInv'
    OBVIOUS
  <1>1. /\ doing[c] \in {"write canary", "write strike"}
        /\ transcript' = Section(body[c], doing[c], revision[c])
        /\ revision' = [revision EXCEPT ![c] = None] /\ body' = [body EXCEPT ![c] = NoBody]
        /\ doing' = [doing EXCEPT ![c] = "idle"]
        /\ UNCHANGED <<strike, receipt, verdictOf, saved, truth, disturbed>>
    BY DEF StashWrite, Continue, past
  <1>2. StrikeTyped /\ revision[c] \in TrueStrikes /\ body \in [Runners -> Bodies]
        /\ doing \in [Runners -> Holding \cup {"file", "idle", "dead"}]
        /\ revision \in [Runners -> Strikes \cup {None}] /\ saved \in [canary : Nat, run : Nat]
    BY <1>1 DEF StrikeInv, StrikeTyped, AllTrue, Holding
  <1>3. TrueStrikes' = TrueStrikes /\ Justified' = Justified
    BY <1>1, TruthStays
  <1>4. /\ doing' \in [Runners -> Holding \cup {"file", "idle", "dead"}] /\ doing'[c] = "idle"
        /\ \A q \in Runners : q # c => doing'[q] = doing[q]
    BY <1>1, <1>2 DEF Holding
  <1>5. /\ body' \in [Runners -> Bodies] /\ revision' \in [Runners -> Strikes \cup {None}]
        /\ \A q \in Runners : q # c => revision'[q] = revision[q] /\ body'[q] = body[q]
    BY <1>1, <1>2 DEF NoBody, Bodies
  <1>6. PICK b \in Bodies : b = body[c]
    BY <1>2
  <1>7. revision[c].canary.call \in Nat /\ revision[c].run.call \in Nat
    BY <1>2, TrueFields
  <1>8. /\ transcript' \in Bodies
        /\ doing[c] = "write canary" =>
             transcript' = [canary |-> revision[c].canary.call, strike |-> b.strike]
        /\ doing[c] = "write strike" =>
             transcript' = [canary |-> b.canary, strike |-> revision[c].run.call]
    <2>1. CASE doing[c] = "write canary"
      <3>1. transcript' = [b EXCEPT !.canary = revision[c].canary.call]
        BY <1>1, <1>6, <2>1 DEF Section
      <3>2. QED
        BY <1>7, <2>1, <3>1 DEF Bodies
    <2>2. CASE doing[c] = "write strike"
      <3>1. transcript' = [b EXCEPT !.strike = revision[c].run.call]
        BY <1>1, <1>6, <2>2 DEF Section
      <3>2. QED
        BY <1>7, <2>2, <3>1 DEF Bodies
    <2>3. QED
      BY <1>1, <2>1, <2>2
  <1>9. StrikeTyped'
    BY <1>1, <1>2, <1>4, <1>5, <1>8 DEF StrikeTyped
  <1>10. AllTrue'
    BY <1>1, <1>2, <1>3, <1>4, <1>5 DEF StrikeInv, AllTrue, Holding, Filing
  <1>11. ASSUME ~disturbed PROVE Undisturbed'
    <2>1. Undisturbed /\ \A q \in Runners : doing'[q] \in {"idle", "dead"}
      BY <1>1, <1>4, <1>11, Alone DEF StrikeInv
    <2>2. /\ Counts(revision[c]) /\ (strike # None => Counts(strike))
          /\ strike = None => saved = [canary |-> 0, run |-> 0]
          /\ doing[c] = "write canary" => b.strike = saved.run
          /\ doing[c] = "write strike" => b.canary = saved.canary
      BY <1>1, <1>6, <2>1 DEF Undisturbed
    <2>3. Whole'
      BY <1>1, <1>8, <2>2 DEF Whole, Counts
    <2>4. (strike # None => Counts(strike))'
      BY <1>1, <2>2 DEF Counts
    <2>5. QED
      BY <1>1, <2>1, <2>2, <2>3, <2>4 DEF Undisturbed, Engaged, Filing
  <1>12. QED
    BY <1>1, <1>9, <1>10, <1>11 DEF StrikeInv

LEMMA FinalizeKeeps == \A c \in Runners : StrikeInv /\ Finalize(c) => StrikeInv'
  <1> SUFFICES ASSUME NEW c \in Runners, StrikeInv, Finalize(c) PROVE StrikeInv'
    OBVIOUS
  <1>1. PICK token \in Tokens, breaks \in BOOLEAN :
          verdictOf' = [verdictOf EXCEPT ![c] =
            [verdict |-> VerdictOf(strike, token, breaks), trusted |-> Trusted(strike),
             unresolved |-> Unresolved(strike, token, breaks),
             canary |-> strike.canary.call, run |-> strike.run.call, cites |-> NoBody]]
    BY DEF Finalize
  <1>2. /\ StartCall(c, "cite") /\ revision' = [revision EXCEPT ![c] = [strike EXCEPT !.phase = "CLOSED"]]
        /\ UNCHANGED <<strike, transcript, receipt, body, truth, saved>>
    BY DEF Finalize
  <1>3. PICK v : v = [verdict |-> VerdictOf(strike, token, breaks), trusted |-> Trusted(strike),
             unresolved |-> Unresolved(strike, token, breaks),
             canary |-> strike.canary.call, run |-> strike.run.call, cites |-> NoBody]
    OBVIOUS
  <1>4. PICK p : p = [strike EXCEPT !.phase = "CLOSED"]
    OBVIOUS
  <1>5. StrikeTyped /\ truth \in Seq(Truths)
    BY DEF StrikeInv, StrikeTyped
  <1>6. /\ strike \in TrueStrikes
        /\ doing' \in [Runners -> Holding \cup {"file", "idle", "dead"}] /\ disturbed' \in BOOLEAN
        /\ doing'[c] = "cite" /\ \A q \in Runners : q # c => doing'[q] = doing[q]
        /\ ~disturbed' =>
              /\ Undisturbed /\ Whole /\ Counts(strike) /\ strike # None
              /\ \A q \in Runners : q # c => doing'[q] \in {"idle", "dead"}
    BY <1>2, Entered
  <1>7. TrueStrikes' = TrueStrikes /\ Justified' = Justified
    BY <1>2, TruthStays
  <1>8. v \in Justified /\ v \in Verdicts
    BY <1>3, <1>5, <1>6, VerdictIsJustified DEF Justified
  <1>9. p \in TrueStrikes /\ p \in Strikes /\ p.canary = strike.canary /\ p.run = strike.run
    BY <1>4, <1>6, ClosedIsTrue, TrueFields
  <1>10. revision' \in [Runners -> Strikes \cup {None}] /\ revision'[c] = p
         /\ \A q \in Runners : q # c => revision'[q] = revision[q]
    BY <1>2, <1>4, <1>5, <1>9 DEF StrikeTyped
  <1>11. verdictOf' \in [Runners -> Verdicts \cup {None}] /\ verdictOf'[c] = v
         /\ \A q \in Runners : q # c => verdictOf'[q] = verdictOf[q]
    BY <1>1, <1>3, <1>5, <1>8 DEF StrikeTyped
  <1>12. StrikeTyped'
    BY <1>2, <1>5, <1>6, <1>10, <1>11 DEF StrikeTyped
  <1>13. AllTrue'
    BY <1>2, <1>6, <1>7, <1>8, <1>9, <1>10, <1>11 DEF StrikeInv, AllTrue, Filing
  <1>14. ASSUME ~disturbed' PROVE Undisturbed'
    <2>1. \A q \in Runners : doing'[q] \in {"idle", "dead", "cite"} /\ (doing'[q] = "cite" => q = c)
      BY <1>6, <1>14
    <2>2. Counts(revision[c])' /\ v.canary = saved.canary /\ v.run = saved.run
      BY <1>2, <1>3, <1>6, <1>9, <1>10, <1>14 DEF Counts
    <2>3. Whole' /\ Counts(strike)'
      BY <1>2, <1>6, <1>14 DEF Whole, Counts
    <2>4. QED
      BY <1>2, <1>6, <1>11, <1>14, <2>1, <2>2, <2>3 DEF Undisturbed, Engaged, Filing
  <1>15. QED
    BY <1>12, <1>13, <1>14 DEF StrikeInv

LEMMA CiteKeeps == \A c \in Runners : StrikeInv /\ Cite(c) => StrikeInv'
  <1> SUFFICES ASSUME NEW c \in Runners, StrikeInv, Cite(c) PROVE StrikeInv'
    OBVIOUS
  <1>1. /\ doing[c] = "cite" /\ verdictOf' = [verdictOf EXCEPT ![c].cites = transcript]
        /\ doing' = [doing EXCEPT ![c] = "close"]
        /\ UNCHANGED <<strike, transcript, receipt, revision, body, saved, truth, disturbed>>
    BY DEF Cite, Continue, past
  <1>2. StrikeTyped /\ revision[c] \in TrueStrikes /\ verdictOf[c] \in Justified /\ transcript \in Bodies
        /\ doing \in [Runners -> Holding \cup {"file", "idle", "dead"}]
        /\ verdictOf \in [Runners -> Verdicts \cup {None}]
    BY <1>1 DEF StrikeInv, StrikeTyped, AllTrue, Holding, Filing
  <1>3. TrueStrikes' = TrueStrikes /\ Justified' = Justified
    BY <1>1, TruthStays
  <1>4. /\ doing' \in [Runners -> Holding \cup {"file", "idle", "dead"}] /\ doing'[c] = "close"
        /\ \A q \in Runners : q # c => doing'[q] = doing[q]
    BY <1>1, <1>2 DEF Holding
  <1>5. PICK w \in Justified : w = verdictOf[c]
    BY <1>2
  <1>6. PICK v : v = [w EXCEPT !.cites = transcript]
    OBVIOUS
  <1>7. /\ v \in Verdicts /\ v.cites = transcript /\ v.trusted = w.trusted /\ v.verdict = w.verdict
        /\ v.unresolved = w.unresolved /\ v.canary = w.canary /\ v.run = w.run
    BY <1>2, <1>6 DEF Justified, Verdicts
  <1>8. v \in Justified
    BY <1>7 DEF Justified, TrustJustified, VerdictJustified
  <1>9. verdictOf' \in [Runners -> Verdicts \cup {None}] /\ verdictOf'[c] = v
        /\ \A q \in Runners : q # c => verdictOf'[q] = verdictOf[q]
    BY <1>1, <1>2, <1>5, <1>6, <1>7
  <1>10. StrikeTyped'
    BY <1>1, <1>2, <1>4, <1>9 DEF StrikeTyped
  <1>11. AllTrue'
    BY <1>1, <1>2, <1>3, <1>4, <1>8, <1>9 DEF StrikeInv, AllTrue, Holding, Filing
  <1>12. ASSUME ~disturbed PROVE Undisturbed'
    <2>1. Undisturbed /\ \A q \in Runners : q # c => doing'[q] \in {"idle", "dead"}
      BY <1>1, <1>4, <1>12, Alone DEF StrikeInv
    <2>2. \A q \in Runners : q # c => doing[q] \in {"idle", "dead"}
      BY <1>4, <2>1
    <2>3. /\ Counts(revision[c]) /\ Whole /\ (strike # None => Counts(strike))
          /\ strike = None => saved = [canary |-> 0, run |-> 0]
          /\ w.canary = saved.canary /\ w.run = saved.run
      BY <1>1, <1>5, <2>1, <2>2 DEF Undisturbed, Filing
    <2>4. Counts(revision[c])' /\ Whole' /\ (strike # None => Counts(strike))'
      BY <1>1, <2>3 DEF Counts, Whole
    <2>5. /\ verdictOf'[c].canary = saved.canary /\ verdictOf'[c].run = saved.run
          /\ verdictOf'[c].cites = [canary |-> saved.canary, strike |-> saved.run]
      BY <1>7, <1>9, <2>3 DEF Whole
    <2>6. QED
      BY <1>1, <1>4, <2>1, <2>3, <2>4, <2>5 DEF Undisturbed, Engaged, Filing
  <1>13. QED
    BY <1>1, <1>10, <1>11, <1>12 DEF StrikeInv

LEMMA CloseKeeps == \A c \in Runners : StrikeInv /\ Close(c) => StrikeInv'
  <1> SUFFICES ASSUME NEW c \in Runners, StrikeInv, Close(c) PROVE StrikeInv'
    OBVIOUS
  <1>1. /\ doing[c] = "close" /\ strike' = revision[c] /\ revision' = [revision EXCEPT ![c] = None]
        /\ doing' = [doing EXCEPT ![c] = "file"]
        /\ UNCHANGED <<transcript, receipt, body, verdictOf, saved, truth, disturbed>>
    BY DEF Close, Continue, past
  <1>2. StrikeTyped /\ revision[c] \in TrueStrikes /\ revision \in [Runners -> Strikes \cup {None}]
        /\ doing \in [Runners -> Holding \cup {"file", "idle", "dead"}]
    BY <1>1 DEF StrikeInv, StrikeTyped, AllTrue, Holding
  <1>3. TrueStrikes' = TrueStrikes /\ Justified' = Justified /\ revision[c] # None
    BY <1>1, <1>2, TruthStays, TrueFields
  <1>4. /\ doing' \in [Runners -> Holding \cup {"file", "idle", "dead"}] /\ doing'[c] = "file"
        /\ \A q \in Runners : q # c => doing'[q] = doing[q]
    BY <1>1, <1>2 DEF Holding
  <1>5. /\ revision' \in [Runners -> Strikes \cup {None}]
        /\ \A q \in Runners : q # c => revision'[q] = revision[q]
    BY <1>1, <1>2
  <1>6. StrikeTyped'
    BY <1>1, <1>2, <1>4, <1>5 DEF StrikeTyped
  <1>7. AllTrue'
    BY <1>1, <1>2, <1>3, <1>4, <1>5 DEF StrikeInv, AllTrue, Holding, Filing
  <1>8. ASSUME ~disturbed PROVE Undisturbed'
    <2>1. Undisturbed /\ \A q \in Runners : q # c => doing'[q] \in {"idle", "dead"}
      BY <1>1, <1>4, <1>8, Alone DEF StrikeInv
    <2>2. \A q \in Runners : q # c => doing[q] \in {"idle", "dead"}
      BY <1>4, <2>1
    <2>3. /\ Counts(revision[c]) /\ Whole
          /\ verdictOf[c].canary = saved.canary /\ verdictOf[c].run = saved.run
          /\ verdictOf[c].cites = [canary |-> saved.canary, strike |-> saved.run]
      BY <1>1, <2>1, <2>2 DEF Undisturbed, Filing
    <2>4. Counts(strike)' /\ Whole' /\ strike' # None
      BY <1>1, <1>3, <2>3 DEF Counts, Whole
    <2>5. QED
      BY <1>1, <1>4, <2>1, <2>3, <2>4 DEF Undisturbed, Engaged, Filing
  <1>9. QED
    BY <1>1, <1>6, <1>7, <1>8 DEF StrikeInv

LEMMA FileReceiptKeeps == \A c \in Runners : StrikeInv /\ FileVerdict(c) => StrikeInv'
  <1> SUFFICES ASSUME NEW c \in Runners, StrikeInv, FileVerdict(c) PROVE StrikeInv'
    OBVIOUS
  <1>1. /\ doing[c] = "file" /\ receipt' = verdictOf[c] /\ verdictOf' = [verdictOf EXCEPT ![c] = None]
        /\ doing' = [doing EXCEPT ![c] = "idle"]
        /\ UNCHANGED <<strike, transcript, revision, body, saved, truth, disturbed>>
    BY DEF FileVerdict, Continue, past
  <1>2. StrikeTyped /\ verdictOf[c] \in Justified /\ verdictOf \in [Runners -> Verdicts \cup {None}]
        /\ doing \in [Runners -> Holding \cup {"file", "idle", "dead"}]
    BY <1>1 DEF StrikeInv, StrikeTyped, AllTrue, Filing
  <1>3. TrueStrikes' = TrueStrikes /\ Justified' = Justified
    BY <1>1, TruthStays
  <1>4. /\ doing' \in [Runners -> Holding \cup {"file", "idle", "dead"}] /\ doing'[c] = "idle"
        /\ \A q \in Runners : q # c => doing'[q] = doing[q]
    BY <1>1, <1>2
  <1>5. /\ verdictOf' \in [Runners -> Verdicts \cup {None}]
        /\ \A q \in Runners : q # c => verdictOf'[q] = verdictOf[q]
    BY <1>1, <1>2
  <1>6. StrikeTyped'
    BY <1>1, <1>2, <1>4, <1>5 DEF StrikeTyped
  <1>7. AllTrue'
    BY <1>1, <1>2, <1>3, <1>4, <1>5 DEF StrikeInv, AllTrue, Holding, Filing
  <1>8. ASSUME ~disturbed PROVE Undisturbed'
    <2>1. Undisturbed /\ \A q \in Runners : q # c => doing[q] \in {"idle", "dead"}
      BY <1>1, <1>8, Alone DEF StrikeInv
    <2>2. \A q \in Runners : doing'[q] \in {"idle", "dead"}
      BY <1>4, <2>1
    <2>3. Whole /\ (strike # None => Counts(strike)) /\ (strike = None => saved = [canary |-> 0, run |-> 0])
      BY <1>1, <2>1 DEF Undisturbed
    <2>4. Whole' /\ (strike # None => Counts(strike))'
      BY <1>1, <2>3 DEF Counts, Whole
    <2>5. QED
      BY <1>1, <2>2, <2>3, <2>4 DEF Undisturbed, Engaged, Filing
  <1>9. QED
    BY <1>1, <1>6, <1>7, <1>8 DEF StrikeInv

LEMMA CrashKeeps == \A c \in Runners : StrikeInv /\ RunnerDies(c) => StrikeInv'
  <1> SUFFICES ASSUME NEW c \in Runners, StrikeInv, RunnerDies(c) PROVE StrikeInv'
    OBVIOUS
  <1>1. /\ doing' = [doing EXCEPT ![c] = "dead"] /\ disturbed' = TRUE
        /\ revision' = [revision EXCEPT ![c] = None] /\ body' = [body EXCEPT ![c] = NoBody]
        /\ verdictOf' = [verdictOf EXCEPT ![c] = None]
        /\ UNCHANGED <<strike, transcript, receipt, truth, saved>>
    BY DEF RunnerDies, Continue
  <1>2. StrikeTyped
    BY DEF StrikeInv
  <1>3. TrueStrikes' = TrueStrikes /\ Justified' = Justified
    BY <1>1, TruthStays
  <1>4. /\ doing' \in [Runners -> Holding \cup {"file", "idle", "dead"}] /\ doing'[c] = "dead"
        /\ \A q \in Runners : q # c => doing'[q] = doing[q]
    BY <1>1, <1>2 DEF StrikeTyped
  <1>5. StrikeTyped'
    BY <1>1, <1>2, <1>4 DEF StrikeTyped, NoBody, Bodies
  <1>6. AllTrue'
    BY <1>1, <1>2, <1>3, <1>4 DEF StrikeInv, StrikeTyped, AllTrue, Holding, Filing
  <1>7. QED
    BY <1>1, <1>5, <1>6 DEF StrikeInv

LEMMA StrikeStutters == StrikeInv /\ UNCHANGED strikeVars => StrikeInv'
  <1> SUFFICES ASSUME StrikeInv, UNCHANGED strikeVars PROVE StrikeInv'
    OBVIOUS
  <1>1. UNCHANGED <<strike, transcript, receipt, doing, revision, body, verdictOf, saved, truth, disturbed>>
    BY DEF strikeVars, past
  <1>2. TrueStrikes' = TrueStrikes /\ Justified' = Justified
    BY <1>1, TruthStays
  <1>3. StrikeTyped' /\ AllTrue'
    BY <1>1, <1>2 DEF StrikeInv, StrikeTyped, AllTrue
  <1>4. Undisturbed => Undisturbed'
    BY <1>1 DEF Undisturbed, Engaged, Whole, Counts
  <1>5. QED
    BY <1>1, <1>3, <1>4 DEF StrikeInv

-----------------------------------------------------------------------------
(* The theorems                                                              *)

\* In every reachable state of the review, for any rosters and any number of
\* callers that overlap and die: what strikes and receipts say is what the
\* replies they count were, and undisturbed calls count the last ones.
THEOREM StrikeInvariant == StrikeSpec => []StrikeInv
  <1>1. StrikeInv /\ [StrikeNext]_strikeVars => StrikeInv'
    BY CreateKeeps, ProbeKeeps, RunKeeps, SaveKeeps, StashReadKeeps, StashWriteKeeps,
       FinalizeKeeps, CiteKeeps, CloseKeeps, FileReceiptKeeps, CrashKeeps, StrikeStutters
       DEF StrikeNext, Step
  <1>2. QED
    BY StrikeInitial, <1>1, PTL DEF StrikeSpec

\* TrustIsEarned: finalize trusts no receipt whose probe was not caught by every
\* seat or whose run was not solid, whatever overlaps or dies.
THEOREM TrustEarned == StrikeSpec => []TrustIsEarned
  <1>1. StrikeInv => TrustIsEarned
    <2> SUFFICES ASSUME StrikeInv, receipt # None, receipt.trusted
                 PROVE  /\ receipt.canary # 0 /\ truth[receipt.canary].solid
                        /\ receipt.run # 0 /\ truth[receipt.run].solid
      BY DEF TrustIsEarned
    <2>1. receipt \in Justified /\ truth \in Seq(Truths)
      BY DEF StrikeInv, AllTrue, StrikeTyped
    <2>2. DOMAIN truth = 1..Len(truth) /\ Len(truth) \in Nat
      BY <2>1, LenProperties
    <2>3. /\ receipt.canary \in DOMAIN truth /\ truth[receipt.canary].solid
          /\ receipt.run \in DOMAIN truth /\ truth[receipt.run].solid
      BY <2>1 DEF Justified, TrustJustified
    <2>4. QED
      BY <2>2, <2>3
  <1>2. QED
    BY StrikeInvariant, <1>1, PTL

\* VerdictFollowsRun: an ISSUE or UNKNOWN rests on a run two seats answered, and
\* a run that said KILL is filed as an ISSUE or with the mismatch listed.
THEOREM VerdictFollows == StrikeSpec => []VerdictFollowsRun
  <1>1. StrikeInv => VerdictFollowsRun
    <2> SUFFICES ASSUME StrikeInv, receipt # None, receipt.verdict # "UNAVAILABLE"
                 PROVE  /\ receipt.run # 0 /\ truth[receipt.run].two
                        /\ truth[receipt.run].token = "KILL" =>
                             \/ receipt.verdict = "ISSUE"
                             \/ "synthesis-verdict-does-not-match-transcript" \in receipt.unresolved
      BY DEF VerdictFollowsRun
    <2>1. receipt \in Justified /\ truth \in Seq(Truths)
      BY DEF StrikeInv, AllTrue, StrikeTyped
    <2>2. DOMAIN truth = 1..Len(truth) /\ Len(truth) \in Nat
      BY <2>1, LenProperties
    <2>3. VerdictJustified(receipt) /\ receipt.run \in DOMAIN truth
      BY <2>1 DEF Justified, VerdictJustified
    <2>4. QED
      BY <2>2, <2>3 DEF VerdictJustified
  <1>2. QED
    BY StrikeInvariant, <1>1, PTL

\* ReceiptIsCurrent: as long as no call overlaps another and nobody dies, the
\* receipt finalize builds counts and cites the last probe and the last run.
THEOREM ReceiptCurrent == StrikeSpec => []ReceiptIsCurrent
  <1>1. StrikeInv => ReceiptIsCurrent
    BY DEF StrikeInv, Undisturbed, ReceiptIsCurrent, Filing
  <1>2. QED
    BY StrikeInvariant, <1>1, PTL
=============================================================================
