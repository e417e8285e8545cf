------------------------------- MODULE MCFoil -------------------------------
(* The parts of FOIL that keep state of their own: the profile store, the      *)
(* intervention ledger, the policy, the authority gate and the bridge that     *)
(* records prompts. A behaviour follows one of them; the store is followed     *)
(* twice, once over time with one process that observes, once without time     *)
(* with two that do everything.                                                *)
EXTENDS FoilStore, InterventionLedger, FoilPolicy, FoilAuthority, AdaptationBridge

CONSTANTS c1, mine, spare, v1

VARIABLE focus
allvars == <<focus, svars, lvars, pvars, yvars, avars>>

\* Half-lives of the recency weight are taken whole: the unit is 1/40.
MCWeight(tier, age) == (CASE tier = "REAL_WORK" -> 40 [] tier = "SCREEN" -> 16 [] OTHER -> 0) \div 2^age
\* The Beta tails for at most five observations, as straight lines.
MCStrong(c, i) == c - i >= 144
MCWeak(c, i) == i - c >= 88

Attempt(right, verified, label, owner, source) ==
  [right |-> right, verified |-> verified, label |-> label, owner |-> owner, source |-> source]
Good == Attempt(TRUE, TRUE, "none", "USER", "usage")
MCAttempts ==
  {Good, [Good EXCEPT !.right = FALSE], [Good EXCEPT !.verified = FALSE], [Good EXCEPT !.source = "assessment"]}
MCReports == {<<[right |-> TRUE, label |-> "none"], [right |-> TRUE, label |-> "none"]>>}

\* A v1 profile: events that do not say whether they were verified, or by whom.
Old == [Good EXCEPT !.verified = None, !.owner = None] @@ [time |-> None, tier |-> None]
V1 == [NewProfile EXCEPT !.schema = "v1",
         !.rows = [d \in Domains |->
            [NewRow(TRUE) EXCEPT !.class = "PROMISING_STRENGTH",
               !.obs = <<Old, [Old EXCEPT !.label = "hint", !.verified = TRUE],
                         [Old EXCEPT !.verified = TRUE], [Old EXCEPT !.verified = TRUE]>>]]]
MCInitial == {NewProfile, V1}

\* A pass and a loss of the phase that counts, at two times, and a pass that
\* does not count, for one reason each.
MCFindings ==
  LET found(phase, result, at) == [phase |-> phase, result |-> result, at |-> at, verified |-> TRUE,
                                   label |-> "A0", owner |-> "USER"]
      pass == found("transfer", "pass", 2)
  IN  {found("transfer", result, at) : result \in {"pass", "fail"}, at \in {1, 2}}
        \cup {[pass EXCEPT !.verified = FALSE], [pass EXCEPT !.label = "A2"],
              [pass EXCEPT !.owner = "CODEX"], [pass EXCEPT !.phase = "immediate"]}

MCStarts ==
  [flags : {{}, {"freshness_sensitive"}, {"closed_context", "multi_hop"},
            {"abstract_transformation", "freshness_sensitive"}, {"abstract_transformation"},
            {"closed_book", "technical_reasoning"}, {"requires_external_retrieval"}},
   candidate : {FALSE}, open : {{}, {"numeric"}, {"logical", "fresh_fact"}},
   examples : BOOLEAN, contract : BOOLEAN, completed : {{}}, needs : {{}, {"tool_selection"}}]
\* The strongest gap there is, and what is short of it in one way.
MCSignals ==
  LET gap(c) == [relevance |-> 90, support |-> 85, observations |-> 5, transfers |-> 2,
                 stale |-> FALSE, direction |-> "gap", complement |-> c]
      short(g) == {[g EXCEPT !.relevance = n] : n \in {34, 60, 75}}
                    \cup {[g EXCEPT !.observations = n] : n \in {1, 3}}
                    \cup {[g EXCEPT !.transfers = n] : n \in {0, 1}}
                    \cup {[g EXCEPT !.support = 70], [g EXCEPT !.stale = TRUE],
                          [g EXCEPT !.direction = "strength"]}
  IN  {None} \cup UNION {{gap(c)} \cup short(gap(c)) : c \in {"tool_selection", "quantitative_check"}}
MCCeiling == [search_query |-> 1, source_followup |-> 1]

MCInit ==
  /\ focus \in {"evidence", "profile", "ledger", "policy", "sensor", "admission", "adaptation"}
  /\ \/ focus = "policy"
     \/ focus # "policy" /\ task = (CHOOSE t \in Starts : TRUE) /\ signal = None
  /\ \/ focus = "sensor"
     \/ focus # "sensor" /\ sensor = (CHOOSE r \in Registrations : TRUE)
  /\ base = v1
  /\ \/ /\ focus = "profile"
        /\ disk \in {[n \in Names |-> IF n = mine THEN p ELSE q] : p \in {None, NewProfile}, q \in {None, V1}}
     \/ focus = "evidence" /\ disk \in {[n \in Names |-> IF n = mine THEN p ELSE None] : p \in Initial}
     \/ focus \notin {"evidence", "profile"} /\ disk = [n \in Names |-> None]
  /\ \/ focus = "ledger"
     \/ focus # "ledger" /\ book = None
  /\ StoreInit /\ LedgerInit /\ PolicyInit /\ AuthorityInit /\ AdaptInit

Over == ObserveCmd(c1) \/ Save(c1) \/ Tick

\* Where everything is done, what is done of it is done right.
AllRight(p) ==
  /\ \A f \in Facets : p.facets[f].fail = 0
  /\ \A d \in Domains : p.rows[d] # None => \A k \in DOMAIN p.rows[d].obs : p.rows[d].obs[k].right
Finishing ==
  \/ \E c \in Clients : Save(c) \/ Point(c) \/ Mark(c) \/ Die(c)
  \/ ActivateCmd \/ Plan
Anything ==
  /\ \/ commands < 2 /\ StoreNext
     \/ commands = 2 /\ Finishing
  /\ clock' = 0
  /\ \A c \in Clients : client'[c] # None => AllRight(client'[c].copy)

Repairing == Propose \/ Certify \/ VerifySemantics \/ AnswerMoves

MCNext ==
  \/ focus = "evidence" /\ Over /\ UNCHANGED <<focus, lvars, pvars, yvars, avars>>
  \/ focus = "profile" /\ Anything /\ UNCHANGED <<focus, lvars, pvars, yvars, avars>>
  \/ focus = "ledger" /\ LedgerNext /\ UNCHANGED <<focus, svars, pvars, yvars, avars>>
  \/ focus = "policy" /\ PolicyNext /\ UNCHANGED <<focus, svars, lvars, yvars, avars>>
  \/ focus = "sensor" /\ Sense /\ UNCHANGED <<focus, svars, lvars, pvars, avars>>
  \/ focus = "admission" /\ Repairing /\ UNCHANGED <<focus, svars, lvars, pvars, avars>>
  \/ focus = "adaptation" /\ AdaptNext /\ UNCHANGED <<focus, svars, lvars, pvars, yvars>>
MCSpec == MCInit /\ [][MCNext]_allvars

MCSymmetry == Permutations(Clients) \cup Permutations(Tasks)
=============================================================================
