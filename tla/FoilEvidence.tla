---------------------------- MODULE FoilEvidence ----------------------------
(***************************************************************************)
(* tools/foil_evidence.py: the estimator every FOIL layer asks what a pile *)
(* of observations says about a person. The Beta posterior is a pair of    *)
(* constant relations between the weight of correct and of incorrect       *)
(* observations; what is kept is what the weights are taken from, the      *)
(* sufficiency gate and the freshness gate.                                *)
(***************************************************************************)
EXTENDS Integers, Sequences, FiniteSets, Absence

CONSTANTS
  Weight(_, _),  \* tier weight times recency weight at an age
  Least,         \* min_effective_n, in the unit of Weight
  Horizon,       \* freshness_horizon_days, in the unit of the clock
  Strong(_, _),  \* P(theta > theta_hi) >= confidence for these two weights
  Weak(_, _)     \* P(theta < theta_lo) >= confidence

Tiers == {"REAL_WORK", "SCREEN", "ASSISTED", "UNVERIFIED"}
LoadBearing == {"POSSIBLE_GAP", "PROMISING_STRENGTH"}
Classifications == LoadBearing \cup {"UNCERTAIN", "INSUFFICIENT_EVIDENCE"}

\* confidence > 1/2 and theta_lo <= theta_hi: the two tails cannot both hold.
ASSUME EvidenceAssumption ==
  /\ Least \in Nat \ {0} /\ Horizon \in Nat
  /\ \A t \in Tiers : Weight(t, 0) \in Nat
  /\ \A c, i \in 0..Least : ~(Strong(c, i) /\ Weak(c, i))

\* An observation without a time cannot be shown to be stale.
Age(o, now) == IF o.time = None THEN 0 ELSE now - o.time

Effective(obs, now, picked) ==
  LET sum[k \in 0..Len(obs)] ==
        IF k = 0 THEN 0
        ELSE sum[k - 1] + IF k \in picked THEN Weight(obs[k].tier, Age(obs[k], now)) ELSE 0
  IN  sum[Len(obs)]

\* What neither passed nor failed carries no signal.
Answered(obs) == {k \in DOMAIN obs : obs[k].right # None}
RealWork(obs) == {k \in Answered(obs) : obs[k].tier = "REAL_WORK"}

StaleOnly(obs, now) ==
  /\ RealWork(obs) # {}
  /\ \A k \in RealWork(obs) : Age(obs[k], now) > Horizon

Sufficient(obs, now) ==
  /\ Effective(obs, now, RealWork(obs)) >= Least
  /\ ~StaleOnly(obs, now)

Summarize(obs, now) ==
  LET correct   == Effective(obs, now, {k \in Answered(obs) : obs[k].right})
      incorrect == Effective(obs, now, {k \in Answered(obs) : ~obs[k].right})
  IN  CASE ~Sufficient(obs, now)    -> "INSUFFICIENT_EVIDENCE"
        [] Sufficient(obs, now) /\ Strong(correct, incorrect) -> "PROMISING_STRENGTH"
        [] Sufficient(obs, now) /\ Weak(correct, incorrect)   -> "POSSIBLE_GAP"
        [] OTHER                    -> "UNCERTAIN"
=============================================================================
