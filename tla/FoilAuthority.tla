---------------------------- MODULE FoilAuthority ----------------------------
(***************************************************************************)
(* tools/foil_authority.py: what a registered sensor may recommend, and    *)
(* when a candidate repair may be committed. Candidates, certificates and  *)
(* semantic verifications are made by different parties while the answer   *)
(* under repair moves on, so a check may be about an earlier candidate.    *)
(***************************************************************************)
EXTENDS Integers, FiniteSets, Absence

CONSTANTS
  Parties,      \* repair producers and verifiers
  Versions,     \* the digests a base, candidate, scope or obligation set may have
  MaxProposals  \* bound: candidates proposed

VARIABLES
  sensor,       \* the registration
  report,       \* the last report of it, with its context, or None
  base,         \* digest of the answer that stands
  candidate, certificate, semantic,  \* records, or None
  proposals

yvars == <<sensor, report, base, candidate, certificate, semantic, proposals>>

Surfaces == {"PROMPT", "ANSWER", "PERSON"}
Ceilings == {"OBSERVE_ONLY", "FLAG_ONLY", "ASK_OR_ABSTAIN", "ESCALATION_RECOMMENDED",
             "REPAIR_PROPOSAL_ALLOWED"}
SurfaceCeilings(s) ==
  IF s = "ANSWER" THEN Ceilings ELSE {"OBSERVE_ONLY", "FLAG_ONLY", "ASK_OR_ABSTAIN"}
Registrations == {r \in [surface : Surfaces, ceiling : Ceilings] : r.ceiling \in SurfaceCeilings(r.surface)}

Prerequisites == {"repair_proposals_enabled", "calibration_current", "owner_risk_allows_repair"}
\* ours: the report names this sensor and its scope. context: what the caller grants.
Reports_ ==
  [ours : BOOLEAN, applies : {"APPLICABLE", "NOT_APPLICABLE", "UNKNOWN"},
   outcome : {"CLEAR", "DEFECT", "UNKNOWN"}, context : SUBSET Prerequisites]

Action(r, rep) ==
  CASE ~(rep.ours /\ rep.applies = "APPLICABLE" /\ rep.outcome = "DEFECT") -> "STAND_DOWN"
    [] OTHER ->
       CASE r.ceiling = "OBSERVE_ONLY"           -> "RECORD_OBSERVATION"
         [] r.ceiling = "FLAG_ONLY"              -> "FLAG"
         [] r.ceiling = "ASK_OR_ABSTAIN"         -> "ASK_OR_ABSTAIN"
         [] r.ceiling = "ESCALATION_RECOMMENDED" -> "RECOMMEND_ESCALATION"
         [] OTHER -> IF rep.context = Prerequisites THEN "PROPOSE_REPAIR_SHADOW" ELSE "STAND_DOWN"

\* What a check is bound to, of the candidate it looked at: its four digests.
Binding(c) ==
  [base |-> c.base, digest |-> c.digest, scope |-> c.scope, obligations |-> c.obligations]

Admission_Unbound(c, cert, sem) ==
  CASE cert = None -> "CERTIFICATE_REQUIRED"
    [] cert # None /\ (cert.binding # Binding(c) \/ cert.by = c.by \/ cert.status = "FAIL") -> "REJECTED"
    [] cert # None /\ cert.binding = Binding(c) /\ cert.by # c.by /\ cert.status = "UNKNOWN" -> "UNKNOWN"
    [] OTHER ->
       CASE sem = None -> "SEMANTIC_VERIFICATION_REQUIRED"
         [] sem # None /\ (sem.by \in {cert.by, c.by} \/ sem.status = "FAIL") -> "REJECTED"
         [] sem # None /\ sem.by \notin {cert.by, c.by} /\ sem.status = "UNKNOWN" -> "UNKNOWN"
         [] OTHER -> "COMMITTABLE"

\* decide_admission, for the certificate and then for the semantic verification:
\* about this candidate, by a party with no other part in it, passed.
Admission(c, cert, sem) ==
  LET refused(check, parties) ==
        check.binding # Binding(c) \/ check.by \in parties \/ check.status = "FAIL"
  IN  IF cert = None THEN "CERTIFICATE_REQUIRED"
      ELSE IF refused(cert, {c.by}) THEN "REJECTED"
      ELSE IF cert.status = "UNKNOWN" THEN "UNKNOWN"
      ELSE IF sem = None THEN "SEMANTIC_VERIFICATION_REQUIRED"
      ELSE IF refused(sem, {cert.by, c.by}) THEN "REJECTED"
      ELSE IF sem.status = "UNKNOWN" THEN "UNKNOWN" ELSE "COMMITTABLE"

AuthorityInit ==
  /\ sensor \in Registrations
  /\ report = None
  /\ base \in Versions
  /\ candidate = None /\ certificate = None /\ semantic = None
  /\ proposals = 0

Sense == \E rep \in Reports_ :
  /\ report = None
  /\ report' = rep
  /\ UNCHANGED <<sensor, base, candidate, certificate, semantic, proposals>>

\* A repair differs from the answer it repairs.
Propose == \E p \in Parties, digest \in Versions \ {base}, scope, set \in Versions :
  /\ proposals < MaxProposals
  /\ proposals' = proposals + 1
  /\ candidate' = [by |-> p, base |-> base, digest |-> digest, scope |-> scope,
                   obligations |-> set]
  /\ UNCHANGED <<sensor, report, base, certificate, semantic>>
Checked(p, status) == [by |-> p, status |-> status, binding |-> Binding(candidate)]
Certify == \E p \in Parties, status \in {"PASS", "FAIL", "UNKNOWN"} :
  /\ candidate # None /\ certificate = None
  /\ certificate' = Checked(p, status)
  /\ UNCHANGED <<sensor, report, base, candidate, semantic, proposals>>
VerifySemantics == \E p \in Parties, status \in {"PASS", "FAIL", "UNKNOWN"} :
  /\ candidate # None /\ semantic = None
  /\ semantic' = Checked(p, status)
  /\ UNCHANGED <<sensor, report, base, candidate, certificate, proposals>>
AnswerMoves == \E v \in Versions \ {base} :
  /\ proposals < MaxProposals
  /\ base' = v
  /\ UNCHANGED <<sensor, report, candidate, certificate, semantic, proposals>>
AuthorityNext == Sense \/ Propose \/ Certify \/ VerifySemantics \/ AnswerMoves

-----------------------------------------------------------------------------
(* Properties                                                              *)

\* A candidate is committable only if two parties that had no other part in it
\* passed this candidate, and not an earlier one. (decide_admission)
CommittableIsCurrent ==
  (candidate # None /\ Admission(candidate, certificate, semantic) = "COMMITTABLE") =>
    /\ Cardinality({candidate.by, certificate.by, semantic.by}) = 3
    /\ \A check \in {certificate, semantic} :
         /\ check.status = "PASS"
         /\ check.binding.digest = candidate.digest
         /\ check.binding.base = candidate.base /\ check.binding.scope = candidate.scope
         /\ check.binding.obligations = candidate.obligations
=============================================================================
