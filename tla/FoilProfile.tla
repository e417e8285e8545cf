----------------------------- MODULE FoilProfile -----------------------------
(***************************************************************************)
(* tools/foil_profile.py: what the operations on one profile do to it. A   *)
(* profile keeps, per domain, its last observations, counters that are     *)
(* never cut, and the classification the estimator gave when it was last   *)
(* observed. Goals, preferences, the event log and the Brier terms are     *)
(* left out: no competence claim reads them.                               *)
(***************************************************************************)
EXTENDS FoilEvidence, SequencesExt

CONSTANTS
  Domains,
  Facets,  \* foil_calibration.FACETS
  Kept     \* observations a domain keeps

\* An attempt: what observe() is told. right is None for an outcome that is
\* neither a pass nor a miss. A v1 event has no verified, owner or tier.
Labels == {"none", "A0", "hint"}
Independent(label) == label \in {"none", "A0"}
Owners == {"USER", "SHARED", "TOOL"}
ScreenSources == {"assessment", "layer2_screen"}
Sources == ScreenSources \cup {"usage"}  \* usage: any other
Attempted ==
  [right : BOOLEAN \cup {None}, verified : BOOLEAN, label : Labels, owner : Owners, source : Sources]
Admissible(e) == e.verified /\ Independent(e.label) /\ e.owner = "USER"

Tier_Unchecked(e) ==
  CASE e.source \in ScreenSources -> "SCREEN"
    [] e.source \notin ScreenSources /\ (~Independent(e.label) \/ e.owner # "USER") -> "ASSISTED"
    [] OTHER -> "REAL_WORK"
Tier(e) ==
  CASE e.source \in ScreenSources -> "SCREEN"
    [] e.source \notin ScreenSources /\ ~e.verified -> "UNVERIFIED"
    [] e.source \notin ScreenSources /\ e.verified /\ ~Admissible(e) -> "ASSISTED"
    [] OTHER -> "REAL_WORK"

Counters == {"independent_correct", "independent_incorrect", "assisted_correct", "assisted_incorrect"}
CounterOf(e) ==
  IF Admissible(e) THEN IF e.right THEN "independent_correct" ELSE "independent_incorrect"
                   ELSE IF e.right THEN "assisted_correct" ELSE "assisted_incorrect"
Counted(obs) ==
  [n \in Counters |-> Cardinality({k \in DOMAIN obs : obs[k].right # None /\ CounterOf(obs[k]) = n})]

\* The shared estimator, asked what the observations of a row say.
Classify(obs, now) == Summarize(obs, now)

NewFacet == [pass |-> 0, fail |-> 0, mixed |-> 0, other |-> 0]
NewProfile ==
  [schema |-> "v2", rows |-> [d \in Domains |-> None],
   probes |-> <<>>, facets |-> [f \in Facets |-> NewFacet]]

NewRow(declared) ==
  [state |-> IF declared THEN "DECLARED_RELEVANT" ELSE "CANDIDATE", declared |-> declared,
   mentioned |-> FALSE, obs |-> <<>>, count |-> Counted(<<>>), seen |-> None,
   class |-> None]

\* What a row keeps: the last attempts, when they came and their tiers. An event
\* of a v1 profile may lack what says whether it was verified, and by whom.
Observations ==
  [right : BOOLEAN \cup {None}, verified : BOOLEAN, label : Labels, owner : Owners, source : Sources,
   time : Nat \cup {None}, tier : Tiers]
LegacyObservations ==
  [right : BOOLEAN \cup {None}, verified : BOOLEAN \cup {None}, label : Labels,
   owner : Owners \cup {None}, source : Sources, time : {0, None}, tier : Tiers \cup {None}]
States == {"CANDIDATE", "DECLARED_RELEVANT", "ACTIVE_RELEVANT", "ACTIVE", "DORMANT"}
Rows(events) ==
  [state : States, declared : BOOLEAN, mentioned : BOOLEAN, obs : Seq(events),
   count : [Counters -> Nat], seen : Nat \cup {None}, class : Classifications \cup {None}]

EnsureDomain_Anew(p, d, declared) == [p EXCEPT !.rows[d] = NewRow(declared)]
EnsureDomain(p, d, declared) ==
  LET row == IF p.rows[d] = None THEN NewRow(declared) ELSE p.rows[d]
  IN  [p EXCEPT !.rows[d] =
         [row EXCEPT !.declared = @ \/ declared,
                     !.state = IF declared /\ @ = "CANDIDATE" THEN "DECLARED_RELEVANT" ELSE @]]

\* Relevance is metadata: the observations and the classification stay.
MarkRelevance(p, d) ==
  LET q == EnsureDomain(p, d, FALSE)
  IN  [q EXCEPT !.rows[d].mentioned = TRUE,
                !.rows[d].state = IF @ = "CANDIDATE" THEN "ACTIVE_RELEVANT" ELSE @]

LastOf(s, n) == SubSeq(s, IF Len(s) > n THEN Len(s) - n + 1 ELSE 1, Len(s))

Observe(p, d, attempt, now) ==
  LET q     == EnsureDomain(p, d, FALSE)
      event == [right |-> attempt.right, verified |-> attempt.verified, label |-> attempt.label,
                owner |-> attempt.owner, source |-> attempt.source,
                time |-> now, tier |-> Tier(attempt)]
      row   == q.rows[d]
      obs   == LastOf(Append(row.obs, event), Kept)
      count == IF event.right = None THEN row.count
               ELSE [row.count EXCEPT ![CounterOf(event)] = @ + 1]
      state == IF Len(obs) >= 2 /\ row.state \in {"CANDIDATE", "ACTIVE_RELEVANT"}
               THEN "ACTIVE" ELSE row.state
  IN  [q EXCEPT !.rows[d] =
         [row EXCEPT !.obs = obs, !.seen = now, !.count = count,
                     !.class = Classify(obs, now), !.state = state]]

\* migrate_v1_to_v2: an event says whether it was verified, or its source has
\* an answer key, or it counts for nothing; the counters are counted again.
Migrated(e) ==
  LET known == [e EXCEPT !.verified = IF @ = None THEN e.source \in ScreenSources ELSE @,
                         !.owner    = IF @ = None THEN "USER" ELSE @]
  IN  [known EXCEPT !.tier = Tier(known)]
Loaded(p, now) ==
  IF p.schema = "v2" THEN p
  ELSE [p EXCEPT !.schema = "v2",
                 !.rows = [d \in Domains |->
                   IF @[d] = None THEN None
                   ELSE LET obs == [k \in DOMAIN @[d].obs |-> Migrated(@[d].obs[k])]
                        IN  [@[d] EXCEPT !.obs = obs, !.count = Counted(obs),
                                         !.class = Classify(obs, now)]]]

\* _domain_lines: what the hook prints of the profile, from the stored class.
DomainLines(p, now) ==
  LET class(d) == IF p.rows[d].class \in Classifications
                  THEN p.rows[d].class ELSE Classify(p.rows[d].obs, now)
  IN  {<<d, class(d)>> : d \in
         {e \in Domains : /\ p.rows[e] # None
                          /\ \/ p.rows[e].declared \/ p.rows[e].mentioned
                             \/ class(e) # "INSUFFICIENT_EVIDENCE"}}
=============================================================================
