-------------------------- MODULE AdaptationBridge --------------------------
(***************************************************************************)
(* tools/foil_runtime_bridge.py, as the prompt hook of tools/foil_hook.py  *)
(* and its other callers run it: it records that FOIL adapted its routing, *)
(* as receipts of module "foil" for ADAPTATION obligations. Only a prompt  *)
(* that asks for it clears one. Every call reads the active task, then the *)
(* task's obligations, then writes, while the task runtime moves on.       *)
(*                                                                         *)
(* tools/soul_runtime.py is here only as far as the bridge sees it: the    *)
(* active task and the obligations of a task.                              *)
(***************************************************************************)
EXTENDS Integers, Sequences, FiniteSets, SequencesExt, Absence

CONSTANTS
  Sessions,    \* processes that run the bridge
  Tasks,
  Obligations,
  FoilOwned,   \* those whose required module is foil, load-bearing
  MaxRecords,  \* bound: receipts stored
  MaxPrompts   \* bound: bridge calls begun

\* What a prompt asks: the /foil alias, or obligations by their id. The calls in
\* progress: a prompt's, with the obligations still to write, and a route's.
Prompts == [alias : BOOLEAN, named : SUBSET Obligations]
PromptCalls == [at : {"prompt", "write"}, prompt : Prompts, task : Tasks \cup {None},
                todo : SUBSET Obligations]
RouteCalls == [at : {"route"}, obl : Obligations \cup {None}, task : Tasks \cup {None}]

ASSUME BridgeAssumption ==
  /\ FoilOwned \subseteq Obligations
  /\ None \notin Tasks \cup Obligations
  /\ None \notin PromptCalls \cup RouteCalls
  /\ MaxRecords \in Nat /\ MaxPrompts \in Nat

VARIABLES
  active,    \* active_task, or None
  obls,      \* obls[t]: obligations in the file of task t
  records,   \* the receipts of module foil, in _receipt_order
  sess,      \* sess[s]: the call in progress, or None
  handled,   \* history: the prompts whose call returned, with the task they saw
  crossed,   \* history: a call overlapped another, or died
  calls      \* bridge calls begun

avars == <<active, obls, records, sess, handled, crossed, calls>>

Asks_Always(prompt, o) == TRUE
Asks(prompt, o) == prompt.alias \/ o \in prompt.named

Owner(o) == {t \in Tasks : o \in obls[t]}
\* write_receipt looks up the task of a receipt that names none.
TaskOf(t, o) == IF t # None \/ Owner(o) = {} THEN t ELSE CHOOSE u \in Owner(o) : TRUE

AdaptInit ==
  /\ active = None
  /\ obls = [t \in Tasks |-> {}]
  /\ records = <<>>
  /\ sess = [s \in Sessions |-> None]
  /\ handled = <<>>
  /\ crossed = FALSE
  /\ calls = 0

-----------------------------------------------------------------------------
(* The task runtime *)

Activate ==
  /\ \E t \in (Tasks \cup {None}) \ {active} : active' = t
  /\ UNCHANGED <<obls, records, sess, handled, crossed, calls>>
Oblige ==
  /\ \E t \in Tasks, o \in Obligations :
       /\ Owner(o) = {}
       /\ obls' = [obls EXCEPT ![t] = @ \cup {o}]
  /\ UNCHANGED <<active, records, sess, handled, crossed, calls>>

-----------------------------------------------------------------------------
(* The bridge *)

Calling == {s \in Sessions : sess[s] # None}
Call(s, c) ==
  /\ sess[s] = None
  /\ calls < MaxPrompts
  /\ calls' = calls + 1
  /\ sess' = [sess EXCEPT ![s] = c]
  /\ crossed' = (crossed \/ Calling # {})

\* foil_hook.prompt, then record_prompt_adaptation: the active task is read here.
SubmitPrompt(s) ==
  /\ \E prompt \in Prompts :
       Call(s, [at |-> "prompt", prompt |-> prompt, task |-> active, todo |-> {}])
  /\ UNCHANGED <<active, obls, records, handled>>
\* _adaptation_obligations: those the task has by now.
ReadObligations(s) ==
  /\ sess[s] # None /\ sess[s].at = "prompt"
  /\ sess' = [sess EXCEPT ![s].at = "write",
       ![s].todo = IF sess[s].task = None THEN {} ELSE obls[sess[s].task] \cap FoilOwned]
  /\ UNCHANGED <<active, obls, records, handled, crossed, calls>>
Verdict(prompt, o) == IF Asks(prompt, o) THEN "CLEARED" ELSE "UNKNOWN"
RecordAdaptation(s) ==
  /\ sess[s] # None /\ sess[s].at = "write"
  /\ Len(records) < MaxRecords
  /\ \E o \in sess[s].todo :
       /\ records' = Append(records,
            [obl |-> o, task |-> sess[s].task, verdict |-> Verdict(sess[s].prompt, o),
             action |-> "prompt", prompt |-> sess[s].prompt])
       /\ sess' = [sess EXCEPT ![s].todo = @ \ {o}]
  /\ UNCHANGED <<active, obls, handled, crossed, calls>>
PromptReturns(s) ==
  /\ sess[s] # None /\ sess[s].at = "write" /\ sess[s].todo = {}
  /\ handled' = Append(handled, [task |-> sess[s].task, prompt |-> sess[s].prompt])
  /\ sess' = [sess EXCEPT ![s] = None]
  /\ UNCHANGED <<active, obls, records, crossed, calls>>

\* record_redteam_routing: an obligation the caller names, whosever it is, or the
\* first of the active task's own.
RouteRedteam(s) ==
  /\ \E o \in Obligations \cup {None} :
       Call(s, [at |-> "route", obl |-> o, task |-> active])
  /\ UNCHANGED <<active, obls, records, handled>>
RouteVerdict(available, o) ==
  IF ~available THEN "UNAVAILABLE"
  ELSE IF o \in FoilOwned /\ Owner(o) # {} THEN "CLEARED" ELSE "UNKNOWN"
Candidates(t) == IF t = None THEN {} ELSE obls[t] \cap FoilOwned
RecordRouting(s) ==
  /\ sess[s] # None /\ sess[s].at = "route"
  /\ Len(records) < MaxRecords
  /\ \E available \in BOOLEAN :
       \E o \in (IF sess[s].obl # None THEN {sess[s].obl}
                 ELSE IF Candidates(sess[s].task) = {} THEN {None}
                 ELSE Candidates(sess[s].task)) :
         records' = Append(records,
           [obl |-> o, task |-> TaskOf(sess[s].task, o), verdict |-> RouteVerdict(available, o),
            action |-> "redteam", prompt |-> None])
  /\ sess' = [sess EXCEPT ![s] = None]
  /\ UNCHANGED <<active, obls, handled, crossed, calls>>

\* snapshot_adaptation names no task, and never clears.
Snapshot(s) ==
  /\ sess[s] = None
  /\ Len(records) < MaxRecords
  /\ calls < MaxPrompts /\ calls' = calls + 1
  /\ \E o \in Obligations, v \in {"UNKNOWN", "UNAVAILABLE"} :
       records' = Append(records, [obl |-> o, task |-> TaskOf(None, o), verdict |-> v,
                                   action |-> "snapshot", prompt |-> None])
  /\ crossed' = (crossed \/ Calling # {})
  /\ UNCHANGED <<active, obls, sess, handled>>

\* The process dies, or the typed store raises: the hook reports it and goes on.
BridgeFails(s) ==
  /\ sess[s] # None
  /\ sess' = [sess EXCEPT ![s] = None]
  /\ crossed' = TRUE
  /\ UNCHANGED <<active, obls, records, handled, calls>>

BridgeStep(s) ==
  \/ SubmitPrompt(s) \/ ReadObligations(s) \/ RecordAdaptation(s) \/ PromptReturns(s)
  \/ RouteRedteam(s) \/ RecordRouting(s) \/ Snapshot(s) \/ BridgeFails(s)
AdaptNext == Activate \/ Oblige \/ \E s \in Sessions : BridgeStep(s)

-----------------------------------------------------------------------------
(* Properties *)

\* The receipts release_gate accepts for obligation o of task t, and the prompts
\* under task t, by their positions.
Counts(r, t, o) == r.obl = o /\ o \in FoilOwned /\ r.task = t /\ o \in obls[t]
Counting(t, o) == {i \in DOMAIN records : Counts(records[i], t, o)}
PromptsUnder(t) == {j \in DOMAIN handled : handled[j].task = t}
IsLast(i, positions) == i \in positions /\ \A k \in positions : k <= i

\* An adaptation a prompt cleared stays cleared only until the next prompt: while
\* nothing overlapped, the obligation the gate sees cleared by a prompt is one the
\* last prompt under its task asked for.
ClearedByTheLastPrompt ==
  ~crossed /\ Calling = {} =>
    \A t \in Tasks, o \in Obligations, i \in DOMAIN records :
      IsLast(i, Counting(t, o)) /\ records[i].verdict = "CLEARED" /\ records[i].action = "prompt" =>
        \E j \in DOMAIN handled :
          /\ IsLast(j, PromptsUnder(t))
          /\ handled[j].prompt.alias \/ o \in handled[j].prompt.named
=============================================================================
