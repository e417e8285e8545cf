--------------------------- MODULE FoilCalibration ---------------------------
(***************************************************************************)
(* What tools/foil_assessment.py, foil_calibration.py and foil_layer2.py   *)
(* write into a profile: the scored items of the onboarding screen, the    *)
(* recorded probes of deep calibration and the scored items of layer 2. A  *)
(* probe leaves its id in a history that is cut, and a count in the row of *)
(* its facet that is not.                                                  *)
(***************************************************************************)
EXTENDS FoilProfile

CONSTANTS
  Kinds,       \* kinds of probe a plan proposes
  HistoryCap   \* probes the history keeps

\* The labels these three tools take for independent; foil_profile parses the
\* ladder's own labels too.
UnaidedLabel(label) == label = "none"

\* A scored item, as the answer key marked it.
Scored == [right : BOOLEAN, label : Labels]
Item(right, label, source) ==
  [right |-> right, verified |-> TRUE, label |-> label, owner |-> "USER", source |-> source]

\* apply_to_profile of the screen: it declares the domain and replays the items,
\* however often the report was applied before.
ApplyAssessment(p, d, items, now) ==
  LET after[k \in 0..Len(items)] ==
        IF k = 0 THEN EnsureDomain(p, d, TRUE)
        ELSE Observe(after[k - 1], d, Item(items[k].right, items[k].label, "assessment"), now)
  IN  after[Len(items)]

\* The probes of a kind in the history, and a history at its cap.
Held(p, kind) == {k \in DOMAIN p.probes : p.probes[k].id[1] = kind}
Count(p, kind) == Cardinality(Held(p, kind))
Full(p) == Len(p.probes) = HistoryCap
Recorded(p, id) == \E k \in DOMAIN p.probes : p.probes[k].id = id

\* _probe_id: the kind, and one more than the probes of that kind in the history.
PlannedId_Uncounted(p, kind) == <<kind, 1>>
PlannedId(p, kind) == <<kind, 1 + Count(p, kind)>>

FacetCounter(probe) ==
  IF probe.verified /\ UnaidedLabel(probe.label)
  THEN CASE probe.right = TRUE -> "pass" [] probe.right = FALSE -> "fail" [] OTHER -> "mixed"
  ELSE "other"

\* record(): a probe of the history is refused by the caller. Domain None stands
\* for cross_domain and domain_discovery.
Record(p, probe, now) ==
  LET counter == FacetCounter(probe)
      q == [p EXCEPT !.probes = LastOf(Append(@, [id |-> probe.id, facet |-> probe.facet,
                                                  source |-> probe.source]), HistoryCap),
                     !.facets[probe.facet][counter] = @ + 1]
  IN  IF probe.verified /\ probe.right # None /\ probe.domain # None
      THEN Observe(q, probe.domain, Item(probe.right, probe.label, probe.source), now)
      ELSE q

\* _classification of a facet: its two counters, taken for real work of no time.
FacetClass(row) ==
  LET work == [k \in 1..(row.pass + row.fail) |->
                 [right |-> k <= row.pass, tier |-> "REAL_WORK", time |-> None]]
  IN  Summarize(work, 0)

\* deep_context: what the hook prints of the facets, next to the domain lines.
FacetLines(p) ==
  {<<f, FacetClass(p.facets[f])>> :
     f \in {g \in Facets : FacetClass(p.facets[g]) # "INSUFFICIENT_EVIDENCE"}}

\* apply_to_profile of layer 2: an item of this seed that the history holds is
\* skipped, the others are recorded.
ApplyLayer2(p, f, seed, items, now) ==
  LET id(k) == <<"layer2", seed, f, k>>
      probe(k) == [id |-> id(k), facet |-> f, domain |-> None, right |-> items[k].right,
                   label |-> items[k].label, verified |-> TRUE, source |-> "layer2_screen"]
      after[k \in 0..Len(items)] ==
        IF k = 0 THEN p
        ELSE IF Recorded(after[k - 1], id(k)) THEN after[k - 1]
             ELSE Record(after[k - 1], probe(k), now)
  IN  after[Len(items)]
=============================================================================
