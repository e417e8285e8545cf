----------------------------- MODULE FoilPolicy -----------------------------
(***************************************************************************)
(* tools/foil_policy.py, RuntimePolicyV2: from the properties of a task    *)
(* and one signal of the profile to the regime, the verifiers, the effort, *)
(* the resources and at most one complement. A research loop that asks it  *)
(* before every step is the environment: the task changes as uncertainties *)
(* are resolved and verifiers complete.                                    *)
(***************************************************************************)
EXTENDS Integers, Sequences, FiniteSets, Absence

CONSTANTS
  Starts,   \* tasks a session may start with
  Signals,  \* profile signals, or None
  Ceiling   \* Ceiling[k]: max_search_queries, max_source_followups

VARIABLES
  task,    \* TaskContext; open: the claims of decisive unresolved uncertainties
  signal,  \* the profile signal
  used     \* used[k]: external actions taken

pvars == <<task, signal, used>>

Resources == {"search_query", "source_followup"}
Verifier == [external_fact |-> "source_evidence", fresh_fact |-> "current_source",
             numeric |-> "exact_calculation", supplied_examples |-> "supplied_example_consistency",
             executable |-> "execution_test", logical |-> "contradiction_counterexample",
             output_contract |-> "output_contract"]
Complements ==
  [external_fact |-> {"evidence_discipline", "tool_selection"},
   fresh_fact |-> {"evidence_discipline", "tool_selection"},
   numeric |-> {"quantitative_check"},
   supplied_examples |-> {"transfer_adaptation", "error_detection"},
   executable |-> {"implementation_execution"},
   logical |-> {"formalization", "error_detection"},
   output_contract |-> {"error_detection"}]

\* classify_regime: the first property that holds decides.
Regime(t) ==
  LET has(flags) == flags \subseteq t.flags
      order == <<<<{"freshness_sensitive"}, "freshness">>,
                 <<{"closed_context", "multi_hop"}, "multi_hop">>,
                 <<{"abstract_transformation"}, "abstract">>,
                 <<{"closed_book", "technical_reasoning"}, "closed_book">>,
                 <<{"requires_external_retrieval"}, "retrieval">>,
                 <<{}, "mixed">>>>
      first == CHOOSE n \in DOMAIN order :
                 has(order[n][1]) /\ \A k \in 1..(n - 1) : ~has(order[k][1])
  IN  order[first][2]
Closed == {"closed_book", "abstract", "multi_hop"}

TaskComplements(t) ==
  t.needs \cup UNION {Complements[c] : c \in t.open}
    \cup (CASE Regime(t) = "freshness" -> {"evidence_discipline", "tool_selection"}
            [] Regime(t) = "retrieval" -> {"tool_selection"}
            [] Regime(t) = "multi_hop" -> {"decomposition"}
            [] Regime(t) = "abstract"  -> {"transfer_adaptation", "error_detection"}
            [] OTHER -> {})

\* _profile_evidence_tier; relevance and support in hundredths.
Influence(s) ==
  LET atLeast(r, p, n) == s.relevance >= r /\ s.support >= p /\ s.observations >= n
  IN  CASE s.stale -> "none"
        [] ~s.stale /\ ~atLeast(60, 60, 2) -> IF atLeast(35, 35, 0) THEN "low" ELSE "none"
        [] ~s.stale /\ atLeast(90, 85, 5) /\ s.transfers >= 2 -> "high"
        [] ~s.stale /\ atLeast(75, 70, 3) /\ ~(atLeast(90, 85, 5) /\ s.transfers >= 2) -> "moderate"
        [] OTHER -> "low"

\* profile_gate: only a confirmed gap in what the task needs opens a route.
Route(t, s) ==
  /\ s # None
  /\ Influence(s) \in {"moderate", "high"}
  /\ s.direction = "gap"
  /\ s.transfers >= 1
  /\ s.complement \in TaskComplements(t)

Required(t) ==
  {Verifier[c] : c \in t.open}
    \cup (IF Regime(t) = "freshness" THEN {"current_source"} ELSE {})
    \cup (IF Regime(t) = "abstract" /\ t.examples THEN {"supplied_example_consistency"} ELSE {})
    \cup (IF t.contract THEN {"output_contract"} ELSE {})
Pending(t) == Required(t) \ t.completed

Stops_WithoutRoute(t, s) == t.candidate /\ t.open = {} /\ Pending(t) = {} /\ ~Route(t, s)
Stops(t, s) == t.candidate /\ t.open = {} /\ Pending(t) = {}

Mode(t, s) ==
  LET r == Regime(t)
  IN  CASE Stops(t, s) -> IF r \in {"retrieval", "freshness", "abstract"} THEN "verification" ELSE "reasoning"
        [] ~Stops(t, s) /\ r \in {"retrieval", "freshness"} ->
             IF t.candidate THEN "verification" ELSE "discovery"
        [] ~Stops(t, s) /\ r = "abstract" -> IF t.candidate THEN "verification" ELSE "reasoning"
        [] ~Stops(t, s) /\ r \in {"closed_book", "multi_hop"} -> "reasoning"
        [] OTHER -> "mixed"

\* _resource_allocation: whether retrieval is allowed, and the two priorities.
Allocation(t, s) ==
  CASE Regime(t) \in Closed -> <<FALSE, 0, 0>>
    [] Regime(t) \notin Closed /\ Mode(t, s) = "discovery"    -> <<TRUE, 3, 1>>
    [] Regime(t) \notin Closed /\ Mode(t, s) = "verification" -> <<TRUE, 1, 3>>
    [] Regime(t) \notin Closed /\ Mode(t, s) = "mixed"        -> <<TRUE, 2, 2>>
    [] OTHER -> <<t.candidate, 0, 0>>

Actions(t, s) ==
  LET find == IF t.candidate THEN "verify_candidate" ELSE "discover_candidates"
  IN  CASE Regime(t) = "retrieval"   -> {find}
        [] Regime(t) = "freshness"   -> {"prefer_current_source", find}
        [] Regime(t) = "abstract"    -> {"induce_rule"} \cup
             (IF t.candidate /\ t.examples THEN {"check_rule_against_all_examples"} ELSE {})
        [] Regime(t) = "closed_book" -> {"reason_closed_book"}
        [] Regime(t) = "multi_hop"   -> {"decompose_supplied_evidence"}
        [] OTHER                     -> {"mix_tools_and_reasoning"}

Decide(t, s) ==
  LET route == Route(t, s) /\ ~Stops(t, s)
  IN  [regime |-> Regime(t), mode |-> Mode(t, s), stop |-> Stops(t, s),
       complements |-> TaskComplements(t), required |-> Required(t), pending |-> Pending(t),
       allocation |-> Allocation(t, s),
       target |-> IF route THEN s.complement ELSE None,
       actions |-> Actions(t, s)
         \cup (IF t.contract /\ "output_contract" \in Pending(t) THEN {"check_output_contract"} ELSE {})
         \cup (IF route THEN {"apply_targeted_complement"} ELSE {})
         \cup (IF Stops(t, s) THEN {"stop"} ELSE {})]

\* next_external_action: what is left of the ceilings, in the order of the mode.
NextExternal(t, s) ==
  LET left == {k \in Resources : used[k] < Ceiling[k]}
      liked == IF Mode(t, s) = "verification" THEN "source_followup" ELSE "search_query"
  IN  IF Stops(t, s) \/ ~Allocation(t, s)[1] \/ left = {} THEN None
      ELSE IF liked \in left THEN liked ELSE CHOOSE k \in left : TRUE

-----------------------------------------------------------------------------
(* The loop                                                                *)

PolicyInit ==
  /\ task \in Starts
  /\ signal \in Signals
  /\ used = [k \in Resources |-> 0]

\* What a step may find out: a candidate, a claim, the verdict of a verifier.
Learns ==
  \/ ~task.candidate /\ task' = [task EXCEPT !.candidate = TRUE]
  \/ \E c \in task.open : task' = [task EXCEPT !.open = @ \ {c}]
  \/ \E v \in Pending(task) : task' = [task EXCEPT !.completed = @ \cup {v}]
External ==
  /\ NextExternal(task, signal) # None
  /\ used' = [used EXCEPT ![NextExternal(task, signal)] = @ + 1]
  /\ UNCHANGED signal
  /\ UNCHANGED task \/ Learns
Internal ==
  /\ ~Decide(task, signal).stop
  /\ Learns
  /\ UNCHANGED <<signal, used>>
PolicyNext == External \/ Internal

-----------------------------------------------------------------------------
(* Properties                                                              *)

\* The profile adds at most one complement, which the task needs and only while
\* work is left; it never moves the regime, the verifiers, the effort, the
\* resources, the external actions or the stop. (decide, profile_gate)
ProfileOnlyComplements ==
  signal # None =>
  LET with == Decide(task, signal)
      without == Decide(task, None)
  IN  /\ [with EXCEPT !.target = None, !.actions = @ \ {"apply_targeted_complement"}] = without
      /\ with.target # None => with.target \in with.complements /\ ~with.stop
      /\ NextExternal(task, signal) = NextExternal(task, None)
=============================================================================
