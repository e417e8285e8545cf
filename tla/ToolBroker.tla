----------------------------- MODULE ToolBroker -----------------------------
(***************************************************************************)
(* The PreToolUse hook of tools/foil_tool_broker.py over the budget ledger *)
(* of TaskGuard. The host starts one hook process per tool call; the hook  *)
(* classifies the tool, reads its binding from the environment, charges    *)
(* the ledger through guarded_operation(spend_on_error=True) around an     *)
(* empty block, journals its decision and only then reports it. The host   *)
(* runs the tool after an allow. Operators may close the run meanwhile.    *)
(***************************************************************************)
EXTENDS TaskGuard

CONSTANTS
  Hooks,      \* workers that are hook processes; the others are operators
  WriteTool,  \* a tool classified as "write"
  OtherTool   \* a tool no pattern classifies

ASSUME BrokerAssumption ==
  /\ Hooks \subseteq Workers
  /\ WriteTool \notin Ops \cup {NoOp}
  /\ OtherTool \notin Ops \cup {NoOp, WriteTool}

VARIABLES
  env,       \* the session's environment variables
  asked,     \* asked[h]: class of the tool the host runs if h allows it
  tool,      \* tool[h]: class of the tool that the payload of h names
  stage,     \* stage[h]: where handle() is
  verdict,   \* verdict[h]: the decision h is about to journal
  decision,  \* decision[h]: what h reported to the host
  charge,    \* history: charge[h] is the reservation h made
  executed   \* history: hooks whose tool the host ran

brokerVars == <<env, asked, tool, stage, verdict, decision, charge, executed>>
allVars == <<vars, brokerVars>>

\* classify_tool maps a name to a budgeted operation, to "write", or to None; it
\* maps no name to None as well.
Tools == Ops \cup {WriteTool, OtherTool}

\* FOIL_TASK_RUN unset; set with a variable missing or no file behind it; set
\* and complete. The binding may still be that of another run.
Environments ==
  {e \in [run : {"unset", "broken", "set"}, bound : BOOLEAN, writes : BOOLEAN] :
     e.run = "set" \/ ~(e.bound \/ e.writes)}

BInit ==
  /\ Init
  /\ env \in Environments
  /\ asked    = [h \in Hooks |-> OtherTool]
  /\ tool     = [h \in Hooks |-> OtherTool]
  /\ stage    = [h \in Hooks |-> "new"]
  /\ verdict  = [h \in Hooks |-> "none"]
  /\ decision = [h \in Hooks |-> "none"]
  /\ charge   = [h \in Hooks |-> Genesis]
  /\ executed = {}

-----------------------------------------------------------------------------
(* handle(): the paths that touch no ledger *)

\* The payload says t of a call of a; the hook reports d at once and exits, and
\* nothing is journalled.
Report(h, a, t, d) ==
  /\ stage[h] = "new"
  /\ asked'    = [asked EXCEPT ![h] = a]
  /\ tool'     = [tool EXCEPT ![h] = t]
  /\ stage'    = [stage EXCEPT ![h] = "done"]
  /\ decision' = [decision EXCEPT ![h] = d]
  /\ UNCHANGED <<vars, env, verdict, charge, executed>>

\* The payload is empty, is not JSON, or is not an object: denied exactly when a
\* run is asserted.
Unreadable(h) ==
  \E a \in Tools : Report(h, a, OtherTool, IF env.run = "unset" THEN "allow" ELSE "deny")

\* The payload is an object without a tool_name, or with an empty one: what it is
\* about is classified None, and allowed before anything else is looked at.
Nameless(h) == \E a \in Tools : Report(h, a, OtherTool, "allow")

\* _binding raised BrokerConfigError.
Misconfigured(h) ==
  /\ env.run = "broken"
  /\ \E t \in Tools \ {OtherTool} : Report(h, t, t, "deny")

NotBrokered(h) ==
  \/ Report(h, OtherTool, OtherTool, "allow")
  \/ /\ env.run = "unset"
     /\ \E t \in Tools : Report(h, t, t, "allow")

-----------------------------------------------------------------------------
(* handle(): the paths through the ledger *)

\* _record: one best-effort journal append, whatever its outcome.
Record(h, v) ==
  /\ Begin(h, "journal", NoRequest)
  /\ stage'   = [stage EXCEPT ![h] = "journaling"]
  /\ verdict' = [verdict EXCEPT ![h] = v]

HandleWrite(h) ==
  /\ stage[h] = "new"
  /\ env.run = "set"
  /\ asked' = [asked EXCEPT ![h] = WriteTool]
  /\ tool' = [tool EXCEPT ![h] = WriteTool]
  /\ Record(h, IF env.writes THEN "allow" ELSE "deny")
  /\ UNCHANGED <<env, decision, charge, executed>>

HandleBudgeted(h) ==
  /\ stage[h] = "new"
  /\ env.run = "set"
  /\ \E o \in Ops :
       /\ asked' = [asked EXCEPT ![h] = o]
       /\ tool' = [tool EXCEPT ![h] = o]
       /\ Begin(h, "reserve", [op |-> o, bound |-> env.bound, spend |-> TRUE])
  /\ stage' = [stage EXCEPT ![h] = "charging"]
  /\ UNCHANGED <<env, verdict, decision, charge, executed>>

\* Fail closed: only a charge that was committed is allowed.
ChargeVerdict_FailOpen(h) == IF result[h] \in {"ok", "LockTimeout"} THEN "allow" ELSE "deny"
ChargeVerdict(h) == IF result[h] = "ok" THEN "allow" ELSE "deny"

\* guarded_operation has returned or raised.
ChargeEnds(h) ==
  /\ stage[h] = "charging"
  /\ step[h] = "idle"
  /\ charge' = [charge EXCEPT ![h] = resv[h]]
  /\ Record(h, ChargeVerdict(h))
  /\ UNCHANGED <<env, asked, tool, decision, executed>>

\* Whether the journal append succeeded makes no difference.
Journalled_OnSuccess(h) == stage[h] = "journaling" /\ step[h] = "idle" /\ result[h] = "ok"
Journalled(h) == stage[h] = "journaling" /\ step[h] = "idle"
Reported_IfJournalled(h) == IF result[h] = "ok" THEN verdict[h] ELSE "deny"
Reported(h) == verdict[h]

Decide(h) ==
  /\ Journalled(h)
  /\ decision' = [decision EXCEPT ![h] = Reported(h)]
  /\ stage'    = [stage EXCEPT ![h] = "done"]
  /\ UNCHANGED <<vars, env, asked, tool, verdict, charge, executed>>

-----------------------------------------------------------------------------
(* Steps inside the ledger, operators and the host *)

EmptyBody_NoCommit(h) ==
  /\ At(h, "body", "run")
  /\ step'   = [step EXCEPT ![h] = "idle"]
  /\ result' = [result EXCEPT ![h] = "ok"]
  /\ UNCHANGED <<file, temp, lock, phase, req, buf, resv, raised, calls, performed>>

\* The block inside guarded_operation is `pass`: it cannot raise.
EmptyBody(h) == LeaveBody(h) /\ raised' = raised

InLedger(h) ==
  /\ \/ Acquire(h) \/ LockTimeout(h)
     \/ Mutate(h) \/ Save(h) \/ Unlock(h)
     \/ EmptyBody(h)
  /\ UNCHANGED brokerVars

\* The hook dies in the ledger or between two of its ledger calls. What a host
\* does with a call whose hook said nothing is not this program's to decide.
HookCrash(h) ==
  /\ stage[h] \in {"charging", "journaling"}
  /\ Crash(h)
  /\ UNCHANGED brokerVars

Operate(w) ==
  /\ CallClose(w) \/ Acquire(w) \/ LockTimeout(w) \/ Mutate(w) \/ Save(w) \/ Unlock(w)
  /\ UNCHANGED brokerVars

\* The host executes the tool once the hook has allowed it.
RunTool(h) ==
  /\ decision[h] = "allow"
  /\ h \notin executed
  /\ executed' = executed \cup {h}
  /\ UNCHANGED <<vars, env, asked, tool, stage, verdict, decision, charge>>

Handle(h) ==
  \/ Unreadable(h) \/ Nameless(h) \/ Misconfigured(h) \/ NotBrokered(h)
  \/ HandleWrite(h) \/ HandleBudgeted(h)
  \/ ChargeEnds(h) \/ Decide(h)

BNext ==
  \/ \E h \in Hooks : Handle(h) \/ InLedger(h) \/ HookCrash(h) \/ RunTool(h)
  \/ \E w \in Workers \ Hooks : Operate(w)

BSpec == BInit /\ [][BNext]_allVars

\* A hook that has started runs to its end: straight-line code and a lock wait
\* that a deadline bounds.
BFairness ==
  /\ \A h \in Hooks :
       /\ WF_allVars(ChargeEnds(h) \/ Decide(h))
       /\ WF_allVars(InLedger(h))
  /\ \A w \in Workers \ Hooks : WF_allVars(Operate(w) /\ calls' = calls)

BFairSpec == BSpec /\ BFairness

-----------------------------------------------------------------------------
(* Properties *)

\* The hooks, their journal and the operators only ever use the ledger the way
\* TaskGuard says, so what holds of its specification holds here.
ImplementsTaskGuard == Spec

\* No more than its budget of each operation, as class tells the executed calls,
\* and none at all when the configuration is broken or is another run's.
WithinBudget(class) ==
  env.run # "unset" =>
    \A o \in Ops :
      LET ran == {h \in executed : class[h] = o}
      IN  IF env.run = "set" /\ env.bound /\ o \in BudgetedOps
            THEN Cardinality(ran) <= Budgets[o]
            ELSE ran = {}

\* While a run is asserted, the calls that name their tool and that the host runs
\* stay within the budget, whatever the interleaving, a crash or a timeout.
\* (classify_tool, handle, guarded_operation)
NamedCallsWithinBudget == WithinBudget(tool)

\* While a run is asserted, everything the host runs stays within the budget,
\* whatever the payload: "A run was asserted, so the missing information fails
\* closed." (main). But a payload that names no tool is let through.
ExecutedWithinBudget == WithinBudget(asked)

\* An admitted call that names its tool holds a unit of its own: the ledger has
\* its reservation, no refund can give it back, and no other call was admitted on
\* it.
AdmittedHoldsItsUnit ==
  \A g, h \in Hooks :
    env.run = "set" /\ decision[h] = "allow" /\ tool[h] \in Ops =>
      /\ charge[h][1] = file.run /\ charge[h][2] \in Held(file, tool[h])
      /\ g # h => charge[g] # charge[h]

\* A denied call has charged nothing, or its reservation was left unsettled: a
\* hook never commits a unit for a call it then denies. (The unsettled case is a
\* lock timeout between reservation and commit; the unit stays held.)
DeniedIsNotCommitted ==
  \A h \in Hooks :
    decision[h] = "deny" /\ charge[h] # Genesis =>
      ~\E m \in 1..Len(file.events) : file.events[m].res = charge[h]

\* A unit that was reserved and never settled is that of one hook, which is still
\* at work on it, died at it, or timed out and denies the call: no order of events
\* loses the commit of a call that is allowed.
UnsettledIsExplained ==
  \A n \in 1..Len(file.events) :
    file.events[n].kind = "RESERVED" =>
      \/ \E m \in 1..Len(file.events) : file.events[m].res = <<file.run, n>>
      \/ \E h \in Hooks :
           \/ stage[h] = "charging" /\ resv[h] = <<file.run, n>>
           \/ charge[h] = <<file.run, n>> /\ verdict[h] = "deny"

\* Every call of a brokered tool that a configured run allows has a journal row
\* in the ledger (docs/RUNTIME_SETUP.md: both allows and denies are appended).
EveryAllowJournalled ==
  LET allowed == {h \in Hooks : decision[h] = "allow" /\ tool[h] # OtherTool}
      rows == {n \in 1..Len(file.events) : file.events[n].kind = "BROKER"}
  IN  env.run = "set" => Cardinality(allowed) <= Cardinality(rows)

\* Every hook that has asked the ledger reports a decision, or has died.
HookAnswers ==
  \A h \in Hooks :
    (stage[h] \in {"charging", "journaling"}) ~> (stage[h] = "done" \/ step[h] = "dead")
=============================================================================
