---------------------------- MODULE BrokerProofs ----------------------------
(***************************************************************************)
(* Theorems about ToolBroker, for any number of hooks, operators, tools    *)
(* and units. The broker implements TaskGuard: whatever the hooks, the     *)
(* operators and the host do, the ledger sees a behaviour of its own       *)
(* specification. And what the broker adds to it: no hook refunds, each    *)
(* paid hook has a reservation of its own, and a reservation nobody has    *)
(* settled is known to the hook it belongs to.                             *)
(***************************************************************************)
EXTENDS ToolBroker, TaskGuardProofs

-----------------------------------------------------------------------------
(* The broker implements the ledger *)

\* A journal append begins like any other, and a charge is a guarded operation
\* whose request is one callers make.
LEMMA RecordBegins ==
  ASSUME NEW h \in Workers, NEW v, Record(h, v)
  PROVE  CallJournal(h)
BY DEF Record, CallJournal

\* A step of handle() is a call of the ledger, or none of its business.
LEMMA HandleSteps ==
  ASSUME NEW h \in Hooks, Handle(h), env \in Environments
  PROVE  [Next]_vars
<1>1. h \in Workers
  BY BrokerAssumption
<1>2. CASE Unreadable(h) \/ Nameless(h) \/ Misconfigured(h) \/ NotBrokered(h) \/ Decide(h)
  BY <1>2 DEF Unreadable, Nameless, Misconfigured, NotBrokered, Report, Decide
<1>3. CASE HandleWrite(h) \/ ChargeEnds(h)
  <2>1. CallJournal(h)
    BY <1>1, <1>3, RecordBegins DEF HandleWrite, ChargeEnds
  <2> QED
    BY <1>1, <2>1 DEF Next, Work
<1>4. CASE HandleBudgeted(h)
  <2>1. PICK o \in Ops : Begin(h, "reserve", [op |-> o, bound |-> env.bound, spend |-> TRUE])
    BY <1>4 DEF HandleBudgeted
  <2>2. CallGuarded(h)
    BY <2>1 DEF CallGuarded, Requests, Environments
  <2> QED
    BY <1>1, <2>2 DEF Next, Work
<1> QED
  BY <1>2, <1>3, <1>4 DEF Handle

\* Every step of the broker's specification is a step of the ledger's or none.
LEMMA BrokerSteps ==
  ASSUME [BNext]_allVars, env \in Environments
  PROVE  [Next]_vars
<1>1. CASE UNCHANGED allVars
  BY <1>1 DEF allVars
<1>2. CASE \E h \in Hooks : Handle(h)
  BY <1>2, HandleSteps
<1>3. CASE \E h \in Hooks : InLedger(h)
  <2>1. PICK h \in Hooks : InLedger(h)
    BY <1>3
  <2>2. Work(h)
    BY <2>1 DEF InLedger, EmptyBody, Work
  <2> QED
    BY <2>2, BrokerAssumption DEF Next
<1>4. CASE \E h \in Hooks : HookCrash(h)
  BY <1>4, BrokerAssumption DEF HookCrash, Next
<1>5. CASE \E h \in Hooks : RunTool(h)
  BY <1>5 DEF RunTool
<1>6. CASE \E w \in Workers \ Hooks : Operate(w)
  BY <1>6 DEF Operate, Next, Work
<1> QED
  BY <1>1, <1>2, <1>3, <1>4, <1>5, <1>6 DEF BNext

\* The broker never uses the ledger in a way its specification does not allow.
\* (The environment is what it was when the session began.)
THEOREM BrokerRefines == BSpec => ImplementsTaskGuard
<1>1. BInit => Init /\ env \in Environments
  BY DEF BInit
<1>2. env \in Environments /\ [BNext]_allVars => (env \in Environments)'
  BY DEF BNext, Handle, Unreadable, Nameless, Misconfigured, NotBrokered, Report, HandleWrite,
         HandleBudgeted, ChargeEnds, Decide, InLedger, HookCrash, RunTool, Operate,
         allVars, brokerVars
<1>3. env \in Environments /\ [BNext]_allVars => [Next]_vars
  BY BrokerSteps
<1> QED
  BY <1>1, <1>2, <1>3, PTL DEF BSpec, ImplementsTaskGuard, Spec

-----------------------------------------------------------------------------
(* The invariant of the broker *)

\* The event a worker's copy is ahead by. The broker's commits always spend.
NextEvent(w) ==
  CASE phase[w] = "reserve" -> Event("RESERVED", req[w].op, Genesis)
    [] phase[w] = "commit"  -> Event("SPENT", req[w].op, resv[w])
    [] phase[w] = "close"   -> Event("CLOSE", NoOp, Genesis)
    [] OTHER                -> Event("BROKER", NoOp, Genesis)
CopyIsNext ==
  \A w \in Workers : Ahead(w) =>
    /\ Extends(buf[w], file, NextEvent(w))
    /\ phase[w] = "reserve" => resv[w] = NextDigest(file)

\* Nothing is refunded, and only settlements name a reservation.
Plain(s) ==
  \A n \in 1..Len(s.events) :
    s.events[n].kind # "RELEASED" /\ (s.events[n].kind # "SPENT" => s.events[n].res = Genesis)

Stages == {"new", "charging", "journaling", "done"}
Answers == {"none", "allow", "deny"}
BTypes ==
  /\ env \in Environments
  /\ tool \in [Hooks -> Tools]
  /\ stage \in [Hooks -> Stages]
  /\ verdict \in [Hooks -> Answers]
  /\ decision \in [Hooks -> Answers]
  /\ charge \in [Hooks -> Digests]
  /\ executed \subseteq Hooks

\* A hook in guarded_operation: its request is the one of its tool, the empty block
\* does not raise, and what was refused has reserved nothing.
Charging(h) ==
  stage[h] = "charging" =>
    /\ env.run = "set" /\ tool[h] \in Ops
    /\ req[h] = [op |-> tool[h], bound |-> env.bound, spend |-> TRUE]
    /\ ~raised[h]
    /\ phase[h] \in {"reserve", "body", "commit"}
    /\ phase[h] = "body" => step[h] \in {"run", "dead"}
    /\ phase[h] # "body" => step[h] # "run"
    /\ step[h] \in {"acquire", "load", "write", "replace", "run"} => result[h] = "none"
    /\ phase[h] = "commit" /\ step[h] = "unlock" => result[h] = "none"
    /\ phase[h] = "reserve" =>
         /\ result[h] # "ok"
         /\ step[h] = "idle" => result[h] # "none"
         /\ (step[h] \in {"acquire", "load"} \/ result[h] # "none") => resv[h] = Genesis
    /\ resv[h] # Genesis => env.bound /\ tool[h] \in BudgetedOps

\* A hook elsewhere: what it will report or has reported is what it journals.
Resting(h) ==
  /\ stage[h] \in {"new", "done"} => step[h] = "idle"
  /\ stage[h] = "journaling" => phase[h] = "journal"
  /\ stage[h] \in {"new", "charging"} => charge[h] = Genesis /\ verdict[h] = "none"
  /\ decision[h] # "none" => stage[h] = "done"
  /\ stage[h] = "done" /\ charge[h] # Genesis => decision[h] = verdict[h]
  /\ charge[h] # Genesis =>
       verdict[h] # "none" /\ env.run = "set" /\ env.bound /\ tool[h] \in BudgetedOps
  /\ tool[h] \in Ops /\ verdict[h] = "allow" => charge[h] # Genesis
  /\ tool[h] \in Ops /\ decision[h] = "allow" => env.run = "unset" \/ verdict[h] = "allow"
  /\ h \in executed => decision[h] = "allow"

Operators == \A w \in Workers \ Hooks : phase[w] \in {"none", "close"}

\* The hook has a saved reservation, and which; and it has left it unsettled.
Paid(h) ==
  \/ stage[h] = "charging" /\ (Live(h) \/ phase[h] \in {"body", "commit"})
  \/ stage[h] # "charging" /\ charge[h] # Genesis
Mine(h) == IF stage[h] = "charging" THEN resv[h] ELSE charge[h]
Left(h) ==
  /\ Paid(h)
  /\ stage[h] = "charging" => phase[h] = "commit" /\ step[h] = "idle" /\ result[h] # "ok"
  /\ stage[h] # "charging" => verdict[h] = "deny"

Booked(s, o, d) == \E n \in Held(s, o) : d = <<s.run, n>>
PaidBooked == \A h \in Hooks : Paid(h) => Booked(file, tool[h], Mine(h))
PaidDistinct == \A g, h \in Hooks : g # h /\ Paid(g) /\ Paid(h) => Mine(g) # Mine(h)
LeftOpen == \A h \in Hooks : Left(h) => ~Settled(file, Mine(h)[2])
CommitSettles ==
  \A h \in Hooks :
    /\ stage[h] = "charging" /\ phase[h] = "commit"
    /\ step[h] = "unlock" \/ (step[h] = "idle" /\ result[h] = "ok")
    => Settled(file, resv[h][2])
Explained ==
  \A n \in 1..Len(file.events) :
    file.events[n].kind = "RESERVED" =>
      \/ Settled(file, n)
      \/ \E h \in Hooks : Mine(h) = <<file.run, n>> /\ (stage[h] = "charging" \/ verdict[h] = "deny")

Control == BTypes /\ Operators /\ \A h \in Hooks : Charging(h) /\ Resting(h)
Money ==
  /\ CopyIsNext /\ Plain(file)
  /\ PaidBooked /\ PaidDistinct /\ LeftOpen /\ CommitSettles /\ Explained

BInv == IInv /\ Control /\ Money

-----------------------------------------------------------------------------
(* It holds initially *)

\* Nothing is reserved and no hook has begun.
LEMMA InitBInv == BInit => BInv
<1> SUFFICES ASSUME BInit PROVE BInv
  OBVIOUS
<1>1. IInv
  BY InitIInv DEF BInit
<1>2. Control
  BY BrokerAssumption DEF BInit, Init, Control, BTypes, Tools, Stages, Answers, Digests, Genesis,
        Operators, Charging, Resting
<1>3. /\ file.events = <<Event("OPEN", NoOp, Genesis)>> /\ Len(file.events) = 1
      /\ file.events[1] = Event("OPEN", NoOp, Genesis)
  BY DEF BInit, Init, StartState, Appended
<1>4. \A h \in Hooks : ~Paid(h) /\ ~Left(h) /\ phase[h] # "commit"
  BY BrokerAssumption DEF BInit, Init, Paid, Left
<1>5. \A w \in Workers : ~Ahead(w)
  BY DEF BInit, Init, Ahead
<1>6. Plain(file) /\ Explained
  BY <1>3 DEF Plain, Explained, Event
<1> QED
  BY <1>1, <1>2, <1>4, <1>5, <1>6
     DEF BInv, Money, CopyIsNext, PaidBooked, PaidDistinct, LeftOpen, CommitSettles

-----------------------------------------------------------------------------
(* Control *)

\* What a worker's step in the ledger is, and what it leaves of another worker.
LedgerStep(w) ==
  \/ Acquire(w) \/ LockTimeout(w) \/ Mutate(w) \/ Save(w) \/ Unlock(w) \/ Crash(w)
  \/ \E p \in {"reserve", "close", "journal"}, r \in Requests \cup {NoRequest} : Begin(w, p, r)
LEMMA OthersStay ==
  ASSUME TypeOK, NEW w \in Workers, LedgerStep(w) \/ EmptyBody(w), NEW v \in Workers, v # w
  PROVE  /\ phase'[v] = phase[v] /\ step'[v] = step[v] /\ req'[v] = req[v]
         /\ resv'[v] = resv[v] /\ raised'[v] = raised[v] /\ result'[v] = result[v]
         /\ (buf'[v] = buf[v])
<1>1. CASE Mutate(w)
  BY <1>1 DEF TypeOK, Mutate, Reserve, RefuseBinding, RefuseBudget, Commit, CloseRun, RefuseClose,
              Journal, Loaded, Refuse
<1>2. CASE ~Mutate(w)
  BY <1>2 DEF TypeOK, LedgerStep, Acquire, LockTimeout, Save, WriteTemp, Replace, Unlock, Crash,
              Begin, EmptyBody, LeaveBody
<1> QED
  BY <1>1, <1>2

\* A hook's own step in the ledger keeps it charging as it should.
LEMMA ChargingStep ==
  ASSUME TypeOK, NEW h \in Hooks, h \in Workers, Charging(h), InLedger(h) \/ HookCrash(h)
  PROVE  Charging(h)'
<1> SUFFICES ASSUME stage[h] = "charging" PROVE Charging(h)'
  BY DEF InLedger, HookCrash, brokerVars, Charging
<1>a. /\ UNCHANGED <<env, tool, stage>>
      /\ req[h] = [op |-> tool[h], bound |-> env.bound, spend |-> TRUE]
      /\ req[h].op = tool[h] /\ req[h].bound = env.bound
  BY DEF InLedger, HookCrash, brokerVars, Charging
<1>1. CASE Acquire(h) \/ LockTimeout(h) \/ Save(h) \/ Crash(h)
  BY <1>1, <1>a DEF TypeOK, Charging, Acquire, LockTimeout, Save, WriteTemp, Replace, Crash
<1>2. CASE Unlock(h)
  BY <1>2, <1>a DEF TypeOK, Charging, Unlock, Admitted
<1>3. CASE EmptyBody(h)
  BY <1>3, <1>a DEF TypeOK, Charging, EmptyBody, LeaveBody, At
<1>4. CASE Mutate(h)
  <2>1. CASE Reserve(h)
    <3>1. /\ step' = [step EXCEPT ![h] = "write"] /\ UNCHANGED <<phase, req, raised, result>>
          /\ phase[h] = "reserve" /\ step[h] = "load" /\ env.bound /\ tool[h] \in BudgetedOps
      BY <2>1, <1>a DEF Reserve, Loaded, At, Bound
    <3> QED
      BY <3>1, <1>a DEF TypeOK, Charging
  <2>2. CASE RefuseBinding(h) \/ RefuseBudget(h) \/ RefuseClose(h)
    BY <2>2, <1>a DEF TypeOK, Charging, RefuseBinding, RefuseBudget, RefuseClose, Refuse, At
  <2>3. CASE Commit(h) \/ CloseRun(h) \/ Journal(h)
    BY <2>3, <1>a DEF TypeOK, Charging, Commit, CloseRun, Journal, Loaded, At
  <2> QED
    BY <1>4, <2>1, <2>2, <2>3 DEF Mutate
<1> QED
  BY <1>1, <1>2, <1>3, <1>4 DEF InLedger, HookCrash

\* Steps in the ledger, by whomever, keep control.
LEMMA ControlLedger ==
  ASSUME TypeOK, Control, NEW w \in Workers,
         \/ w \in Hooks /\ (InLedger(w) \/ HookCrash(w))
         \/ w \in Workers \ Hooks /\ Operate(w)
  PROVE  Control'
<1>a. UNCHANGED brokerVars /\ (LedgerStep(w) \/ EmptyBody(w))
  BY DEF InLedger, HookCrash, Operate, LedgerStep, CallClose
<1>b. \A v \in Workers : v # w =>
        /\ phase'[v] = phase[v] /\ step'[v] = step[v] /\ req'[v] = req[v]
        /\ resv'[v] = resv[v] /\ raised'[v] = raised[v] /\ result'[v] = result[v]
  BY <1>a, OthersStay
<1>1. BTypes'
  BY <1>a DEF Control, BTypes, brokerVars
<1>2. Operators'
  <2>1. ASSUME Operate(w), phase[w] \in {"none", "close"} PROVE phase'[w] \in {"none", "close"}
    <3>1. CASE Mutate(w)
      BY <3>1, <2>1 DEF Mutate, Reserve, RefuseBinding, RefuseBudget, Commit, CloseRun, RefuseClose,
                        Journal, Loaded, Refuse
    <3>2. CASE ~Mutate(w)
      BY <3>2, <2>1 DEF TypeOK, Operate, CallClose, Begin, Acquire, LockTimeout, Save, WriteTemp,
                        Replace, Unlock, Admitted
    <3> QED
      BY <3>1, <3>2
  <2> QED
    BY <1>b, <2>1 DEF Control, Operators
<1>3. ASSUME NEW h \in Hooks PROVE Charging(h)' /\ Resting(h)'
  <2>a. h \in Workers /\ Charging(h) /\ Resting(h)
    BY <1>3, BrokerAssumption DEF Control
  <2>1. CASE h # w
    BY <1>a, <1>b, <2>1, <2>a DEF Charging, Resting, brokerVars
  <2>2. CASE h = w
    <3>1. InLedger(h) \/ HookCrash(h)
      BY <2>2
    <3>2. Charging(h)'
      BY <2>a, <3>1, ChargingStep
    <3>3. stage[h] \in {"charging", "journaling"}
      BY <2>a, <3>1 DEF Control, BTypes, Stages, Resting, InLedger, HookCrash, Acquire, LockTimeout,
           Mutate, Reserve, RefuseBinding, RefuseBudget, Commit, CloseRun, RefuseClose, Journal,
           Save, WriteTemp, Replace, Unlock, EmptyBody, LeaveBody, At
    <3>4. stage[h] = "journaling" => phase'[h] = "journal"
      <4>1. CASE Mutate(h)
        BY <4>1, <2>a DEF Resting, Mutate, Reserve, RefuseBinding, RefuseBudget, Commit,
                          CloseRun, RefuseClose, Journal, Loaded, Refuse
      <4>2. CASE ~Mutate(h)
        BY <4>2, <2>a, <3>1 DEF TypeOK, Resting, InLedger, HookCrash, Acquire, LockTimeout, Save,
             WriteTemp, Replace, Unlock, Admitted, EmptyBody, LeaveBody, At, Crash
      <4> QED
        BY <4>1, <4>2
    <3> QED
      BY <1>a, <2>a, <3>2, <3>3, <3>4 DEF Resting, brokerVars
  <2> QED
    BY <2>1, <2>2
<1> QED
  BY <1>1, <1>2, <1>3 DEF Control

\* What is booked is an event of the chain.
LEMMA BookedInChain ==
  ASSUME NEW s, NEW o, NEW d, Booked(s, o, d)
  PROVE  /\ d[1] = s.run /\ d[2] \in 1..Len(s.events) /\ d # Genesis
         /\ s.events[d[2]].kind = "RESERVED" /\ s.events[d[2]].op = o
         /\ d = <<s.run, d[2]>> /\ d[2] \in Held(s, o)
BY DEF Booked, Held, Genesis

\* Steps of handle() and of the host keep control.
LEMMA ControlHandle ==
  ASSUME TypeOK, Control, PaidBooked, NEW h \in Hooks, Handle(h) \/ RunTool(h)
  PROVE  Control'
<1>a. /\ h \in Workers /\ Hooks \subseteq Workers /\ Charging(h) /\ Resting(h) /\ BTypes
      /\ WriteTool \notin Ops /\ OtherTool \notin Ops
  BY BrokerAssumption DEF Control
<1>b. ASSUME NEW g \in Hooks, g # h
      PROVE  /\ tool'[g] = tool[g] /\ stage'[g] = stage[g] /\ verdict'[g] = verdict[g]
             /\ decision'[g] = decision[g] /\ charge'[g] = charge[g]
             /\ (g \in executed' <=> g \in executed)
  BY <1>a, <1>b DEF BTypes, Handle, RunTool, Unreadable, Nameless, Misconfigured, NotBrokered,
           Report, HandleWrite, HandleBudgeted, ChargeEnds, Decide, Record
<1>c. env' = env
  BY DEF Handle, RunTool, Unreadable, Nameless, Misconfigured, NotBrokered, Report, HandleWrite,
         HandleBudgeted, ChargeEnds, Decide
<1>d. ASSUME NEW v \in Workers, v # h
      PROVE  /\ phase'[v] = phase[v] /\ step'[v] = step[v] /\ req'[v] = req[v]
             /\ resv'[v] = resv[v] /\ raised'[v] = raised[v] /\ result'[v] = result[v]
  BY <1>a, <1>d DEF TypeOK, vars, workerVars, Handle, RunTool, Unreadable, Nameless, Misconfigured,
           NotBrokered, Report, HandleWrite, HandleBudgeted, ChargeEnds, Decide, Record, Begin
<1>1. Operators'
  BY <1>d, <1>a DEF Control, Operators
<1>2. \A g \in Hooks : g # h => Charging(g)' /\ Resting(g)'
  BY <1>a, <1>b, <1>c, <1>d DEF Control, Charging, Resting
<1>3. CASE \E a, t \in Tools, d \in {"allow", "deny"} :
             /\ Report(h, a, t, d)
             /\ t \in Ops /\ d = "allow" => env.run = "unset"
  <2>1. PICK a, t \in Tools, d \in {"allow", "deny"} :
          Report(h, a, t, d) /\ (t \in Ops /\ d = "allow" => env.run = "unset")
    BY <1>3
  <2>2. BTypes'
    BY <2>1, <1>a DEF BTypes, Report, Stages, Answers
  <2>3. Charging(h)' /\ Resting(h)'
    BY <2>1, <1>a DEF BTypes, Report, Charging, Resting, vars, workerVars
  <2> QED
    BY <1>1, <1>2, <2>2, <2>3 DEF Control
<1>4. CASE HandleWrite(h)
  <2>1. BTypes'
    BY <1>4, <1>a DEF BTypes, HandleWrite, Record, Stages, Answers, Tools
  <2>2. Charging(h)' /\ Resting(h)'
    BY <1>4, <1>a DEF TypeOK, BTypes, HandleWrite, Record, Begin, Charging, Resting
  <2> QED
    BY <1>1, <1>2, <2>1, <2>2 DEF Control
<1>5. CASE HandleBudgeted(h)
  <2>1. BTypes'
    BY <1>5, <1>a DEF BTypes, HandleBudgeted, Stages, Tools
  <2>2. Charging(h)' /\ Resting(h)'
    BY <1>5, <1>a DEF TypeOK, BTypes, HandleBudgeted, Begin, Charging, Resting
  <2> QED
    BY <1>1, <1>2, <2>1, <2>2 DEF Control
<1>6. CASE ChargeEnds(h)
  <2>1. BTypes'
    BY <1>6, <1>a DEF TypeOK, BTypes, ChargeEnds, Record, ChargeVerdict, Stages, Answers
  <2>2. Charging(h)'
    BY <1>6, <1>a DEF BTypes, ChargeEnds, Record, Charging
  <2>3. result[h] = "ok" => phase[h] = "commit" /\ Paid(h)
    BY <1>6, <1>a DEF ChargeEnds, Charging, Paid
  <2>4. ASSUME result[h] = "ok" PROVE resv[h] # Genesis
    BY <2>3, <2>4, <1>6, BookedInChain DEF ChargeEnds, PaidBooked, Mine
  <2>5. Resting(h)'
    BY <1>6, <1>a, <2>4 DEF TypeOK, BTypes, ChargeEnds, Record, Begin, ChargeVerdict, Charging, Resting
  <2> QED
    BY <1>1, <1>2, <2>1, <2>2, <2>5 DEF Control
<1>7. CASE Decide(h)
  <2>1. BTypes'
    BY <1>7, <1>a DEF BTypes, Decide, Reported, Stages, Answers
  <2>2. Charging(h)' /\ Resting(h)'
    BY <1>7, <1>a DEF BTypes, Decide, Journalled, Reported, Charging, Resting, vars, workerVars
  <2> QED
    BY <1>1, <1>2, <2>1, <2>2 DEF Control
<1>8. CASE RunTool(h)
  <2>1. BTypes'
    BY <1>8, <1>a DEF BTypes, RunTool
  <2>2. Charging(h)' /\ Resting(h)'
    BY <1>8, <1>a DEF RunTool, Charging, Resting, vars, workerVars
  <2> QED
    BY <1>1, <1>2, <2>1, <2>2 DEF Control
<1>9. CASE Unreadable(h) \/ Nameless(h) \/ Misconfigured(h) \/ NotBrokered(h)
  <2>1. \E a, t \in Tools, d \in {"allow", "deny"} :
             /\ Report(h, a, t, d)
             /\ t \in Ops /\ d = "allow" => env.run = "unset"
    BY <1>9, <1>a DEF Unreadable, Nameless, Misconfigured, NotBrokered, Tools
  <2> QED
    BY <1>3, <2>1
<1> QED
  BY <1>4, <1>5, <1>6, <1>7, <1>8, <1>9 DEF Handle

-----------------------------------------------------------------------------
(* Money: steps that save nothing *)

\* The hook's mark on a reservation that is not settled.
Answerable(h) == stage[h] = "charging" \/ verdict[h] = "deny"

\* As long as the file stays, it is enough to look at what hooks say of it.
LEMMA MoneyStays ==
  ASSUME Money, UNCHANGED file, CopyIsNext',
         \A h \in Hooks : Paid(h)' => Paid(h) /\ Mine(h)' = Mine(h) /\ tool'[h] = tool[h],
         \A h \in Hooks : Left(h)' => ~Settled(file, Mine(h)'[2]),
         \A h \in Hooks :
           /\ stage'[h] = "charging" /\ phase'[h] = "commit"
           /\ step'[h] = "unlock" \/ (step'[h] = "idle" /\ result'[h] = "ok")
           => Settled(file, resv'[h][2]),
         \A h \in Hooks : Mine(h) # Genesis /\ Answerable(h) =>
           Settled(file, Mine(h)[2]) \/ (Mine(h)' = Mine(h) /\ Answerable(h)')
  PROVE  Money'
<1>1. Plain(file)'
  BY DEF Money, Plain
<1>2. PaidBooked'
  <2> SUFFICES ASSUME NEW h \in Hooks, Paid(h)' PROVE Booked(file', tool'[h], Mine(h)')
    BY DEF PaidBooked
  <2> QED
    BY DEF Money, PaidBooked
<1>3. PaidDistinct'
  BY DEF Money, PaidDistinct
<1>4. LeftOpen'
  BY DEF LeftOpen, Settled
<1>5. CommitSettles'
  BY DEF CommitSettles, Settled
<1>6. Explained'
  <2> SUFFICES ASSUME NEW n \in 1..Len(file.events), file.events[n].kind = "RESERVED",
                      ~Settled(file, n)
               PROVE  \E h \in Hooks : Mine(h)' = <<file.run, n>> /\ Answerable(h)'
    BY DEF Explained, Settled, Answerable
  <2>1. PICK h \in Hooks : Mine(h) = <<file.run, n>> /\ Answerable(h)
    BY DEF Money, Explained, Answerable
  <2>2. Mine(h) # Genesis /\ Mine(h)[2] = n
    BY <2>1 DEF Genesis
  <2> QED
    BY <2>1, <2>2
<1> QED
  BY <1>1, <1>2, <1>3, <1>4, <1>5, <1>6 DEF Money

\* A worker's own step in the ledger changes nothing of what the others say.
LEMMA MoneyOwn ==
  ASSUME TypeOK, Money, NEW w \in Workers, LedgerStep(w) \/ EmptyBody(w), UNCHANGED brokerVars,
         UNCHANGED file,
         Ahead(w)' => /\ Extends(buf'[w], file, NextEvent(w)')
                      /\ phase'[w] = "reserve" => resv'[w] = NextDigest(file),
         w \in Hooks /\ Paid(w)' => Paid(w) /\ Mine(w)' = Mine(w),
         w \in Hooks /\ Left(w)' => ~Settled(file, Mine(w)'[2]),
         /\ w \in Hooks /\ stage[w] = "charging" /\ phase'[w] = "commit"
         /\ step'[w] = "unlock" \/ (step'[w] = "idle" /\ result'[w] = "ok")
         => Settled(file, resv'[w][2]),
         w \in Hooks /\ Mine(w) # Genesis => Mine(w)' = Mine(w)
  PROVE  Money'
<1>a. \A v \in Workers : v # w =>
        /\ phase'[v] = phase[v] /\ step'[v] = step[v] /\ req'[v] = req[v]
        /\ resv'[v] = resv[v] /\ raised'[v] = raised[v] /\ result'[v] = result[v]
        /\ (buf'[v] = buf[v])
  BY OthersStay
<1>b. Hooks \subseteq Workers
  BY BrokerAssumption
<1>c. UNCHANGED <<stage, tool, verdict, charge>>
  BY DEF brokerVars
<1>1. CopyIsNext'
  <2>1. \A v \in Workers : v # w /\ Ahead(v)' =>
          Ahead(v) /\ (NextEvent(v)' = NextEvent(v))
    BY <1>a DEF Ahead, NextEvent
  <2> QED
    BY <1>a, <2>1 DEF Money, CopyIsNext, Extends, NextDigest
<1>2. ASSUME NEW h \in Hooks, h # w
      PROVE  (Paid(h)' <=> Paid(h)) /\ Mine(h)' = Mine(h) /\ (Left(h)' <=> Left(h))
  BY <1>a, <1>b, <1>c, <1>2 DEF Paid, Mine, Left, Live
<1>3. \A h \in Hooks : Paid(h)' => Paid(h) /\ Mine(h)' = Mine(h) /\ tool'[h] = tool[h]
  BY <1>2, <1>c
<1>4. \A h \in Hooks : Left(h)' => ~Settled(file, Mine(h)'[2])
  BY <1>2 DEF Money, LeftOpen
<1>5. \A h \in Hooks :
           /\ stage'[h] = "charging" /\ phase'[h] = "commit"
           /\ step'[h] = "unlock" \/ (step'[h] = "idle" /\ result'[h] = "ok")
           => Settled(file, resv'[h][2])
  BY <1>a, <1>b, <1>c DEF Money, CommitSettles
<1>6. \A h \in Hooks : Mine(h) # Genesis /\ Answerable(h) =>
           Settled(file, Mine(h)[2]) \/ (Mine(h)' = Mine(h) /\ Answerable(h)')
  BY <1>2, <1>c DEF Answerable
<1> QED
  BY <1>1, <1>3, <1>4, <1>5, <1>6, MoneyStays

\* A step in the ledger, by a hook or an operator of the broker.
BrokerWorks(w) ==
  \/ w \in Hooks /\ (InLedger(w) \/ HookCrash(w))
  \/ w \in Workers \ Hooks /\ Operate(w)

\* The lock, the temporary file, the empty block, a crash: nobody's money moves. A hook
\* that gives up on the lock leaves its reservation open.
LEMMA MoneyLock ==
  ASSUME BInv, NEW w \in Workers, BrokerWorks(w),
         \/ Acquire(w) \/ LockTimeout(w) \/ WriteTemp(w) \/ EmptyBody(w) \/ Crash(w)
         \/ CallClose(w) /\ w \notin Hooks
  PROVE  Money'
<1>a. TypeOK /\ Money /\ UNCHANGED brokerVars /\ (LedgerStep(w) \/ EmptyBody(w))
  BY DEF BInv, IInv, BrokerWorks, InLedger, HookCrash, Operate, LedgerStep, Save, CallClose
<1>b. UNCHANGED <<file, stage, tool, verdict, charge>>
  BY <1>a DEF brokerVars, Acquire, LockTimeout, WriteTemp, EmptyBody, LeaveBody, Crash, CallClose, Begin
<1>c. w \in Hooks => w \in Workers /\ Charging(w)
  BY BrokerAssumption DEF BInv, Control
<1>1. ASSUME Ahead(w)'
      PROVE  Ahead(w) /\ buf'[w] = buf[w] /\ NextEvent(w)' = NextEvent(w)
             /\ phase'[w] = phase[w] /\ resv'[w] = resv[w]
  BY <1>1, <1>a DEF TypeOK, Ahead, NextEvent, Acquire, LockTimeout, WriteTemp, EmptyBody, LeaveBody,
       Crash, CallClose, Begin
<1>2. w \in Hooks /\ Paid(w)' => Paid(w) /\ Mine(w)' = Mine(w)
  BY <1>a, <1>b, <1>c DEF TypeOK, Paid, Mine, Live, Acquire, LockTimeout, WriteTemp, EmptyBody,
       LeaveBody, At, Crash
<1>3. w \in Hooks => Mine(w)' = Mine(w)
  BY <1>a, <1>b DEF TypeOK, Mine, Acquire, LockTimeout, WriteTemp, EmptyBody, LeaveBody, Crash
<1>4. ASSUME w \in Hooks, Left(w)' PROVE ~Settled(file, Mine(w)'[2])
  <2>1. CASE Left(w)
    BY <1>3, <1>4, <2>1 DEF Money, LeftOpen, BInv
  <2>2. CASE ~Left(w)
    <3>1. LockTimeout(w) /\ stage[w] = "charging" /\ phase[w] = "commit" /\ step[w] = "acquire"
      BY <1>a, <1>b, <1>c, <1>4, <2>2 DEF TypeOK, Paid, Left, Live, Acquire, LockTimeout,
           WriteTemp, EmptyBody, LeaveBody, At, Crash
    <3>2. HoldsIn(file, req[w].op, resv[w])
      BY <3>1 DEF BInv, IInv, LiveHeld, Live
    <3>3. PICK n \in Unsettled(file, req[w].op) : resv[w] = <<file.run, n>>
      BY <3>2 DEF HoldsIn
    <3> QED
      BY <1>3, <1>4, <3>1, <3>3 DEF Unsettled, Mine
  <2> QED
    BY <2>1, <2>2
<1>5.   /\ w \in Hooks /\ stage[w] = "charging" /\ phase'[w] = "commit"
        /\ step'[w] = "unlock" \/ (step'[w] = "idle" /\ result'[w] = "ok")
        => Settled(file, resv'[w][2])
  BY <1>a, <1>c DEF TypeOK, Charging, Money, CommitSettles, Acquire, LockTimeout, WriteTemp, EmptyBody,
       LeaveBody, At, Crash
<1> QED
  BY <1>a, <1>b, <1>1, <1>2, <1>3, <1>4, <1>5, MoneyOwn DEF Money, CopyIsNext, NextDigest

\* Leaving the lock: a reservation lets the block run, and a commit has settled.
LEMMA MoneyUnlock ==
  ASSUME BInv, NEW w \in Workers, BrokerWorks(w), Unlock(w)
  PROVE  Money'
<1>a. TypeOK /\ Money /\ UNCHANGED brokerVars /\ (LedgerStep(w) \/ EmptyBody(w))
  BY DEF BInv, IInv, BrokerWorks, InLedger, HookCrash, Operate, LedgerStep, CallClose
<1>b. UNCHANGED <<file, stage, tool, verdict, charge>>
  BY <1>a DEF brokerVars, Unlock
<1>c. w \in Hooks => w \in Workers /\ Charging(w) /\ Resting(w)
  BY BrokerAssumption DEF BInv, Control
<1>d. resv' = resv /\ step[w] = "unlock"
  BY DEF Unlock
<1>1. ~Ahead(w)'
  BY <1>a DEF TypeOK, Ahead, Unlock
<1>2. w \in Hooks => Mine(w)' = Mine(w)
  BY <1>b, <1>d DEF Mine
<1>3. w \in Hooks /\ Paid(w)' => Paid(w)
  BY <1>a, <1>b, <1>c DEF TypeOK, Paid, Live, Unlock, Admitted
<1>4. w \in Hooks /\ Left(w)' => Left(w)
  BY <1>a, <1>b, <1>c, <1>3 DEF TypeOK, Left, Charging, Unlock, Admitted
<1>5.   /\ w \in Hooks /\ stage[w] = "charging" /\ phase'[w] = "commit"
        /\ step'[w] = "unlock" \/ (step'[w] = "idle" /\ result'[w] = "ok")
        => Settled(file, resv'[w][2])
  BY <1>a, <1>c, <1>d DEF TypeOK, Money, CommitSettles, Unlock, Admitted
<1> QED
  BY <1>a, <1>b, <1>1, <1>2, <1>3, <1>4, <1>5, MoneyOwn DEF Money, LeftOpen

\* A refusal reserves nothing and saves nothing.
LEMMA MoneyRefuse ==
  ASSUME BInv, NEW w \in Workers, BrokerWorks(w),
         RefuseBinding(w) \/ RefuseBudget(w) \/ RefuseClose(w)
  PROVE  Money'
<1>a. TypeOK /\ Money /\ UNCHANGED brokerVars /\ (LedgerStep(w) \/ EmptyBody(w))
  BY DEF BInv, IInv, BrokerWorks, InLedger, HookCrash, Operate, LedgerStep, CallClose
<1>b. UNCHANGED <<file, stage, tool, verdict, charge, resv, phase, req>>
  BY <1>a DEF brokerVars, RefuseBinding, RefuseBudget, RefuseClose, Refuse
<1>c. /\ step[w] = "load" /\ step'[w] = "unlock" /\ phase[w] # "commit" /\ phase[w] # "body"
      /\ result'[w] # "none"
  BY <1>a DEF TypeOK, RefuseBinding, RefuseBudget, RefuseClose, Refuse, At
<1>1. ~Ahead(w)'
  BY <1>c DEF Ahead
<1>2. w \in Hooks => Mine(w)' = Mine(w)
  BY <1>b DEF Mine
<1>3. w \in Hooks => (Paid(w)' => Paid(w)) /\ (Left(w)' => Left(w))
  BY <1>b, <1>c DEF Paid, Live, Left
<1> QED
  BY <1>a, <1>b, <1>c, <1>1, <1>2, <1>3, MoneyOwn DEF Money, LeftOpen

\* A copy is made, which is ahead by the next event of its worker.
LEMMA MoneyLoad ==
  ASSUME BInv, NEW w \in Workers, BrokerWorks(w),
         Reserve(w) \/ Commit(w) \/ CloseRun(w) \/ Journal(w)
  PROVE  Money'
<1>a. TypeOK /\ Money /\ UNCHANGED brokerVars /\ (LedgerStep(w) \/ EmptyBody(w)) /\ Sound(file)
  BY DEF BInv, IInv, BrokerWorks, InLedger, HookCrash, Operate, LedgerStep, Mutate, CallClose
<1>b. UNCHANGED <<file, stage, tool, verdict, charge, phase, req>>
  BY <1>a DEF brokerVars, Reserve, Commit, CloseRun, Journal, Loaded
<1>c. w \in Hooks => w \in Workers /\ Charging(w) /\ Resting(w)
  BY BrokerAssumption DEF BInv, Control
<1>d. /\ step[w] = "load" /\ step'[w] = "write"
      /\ phase[w] \in {"reserve", "commit", "close", "journal"}
  BY <1>a DEF TypeOK, Reserve, Commit, CloseRun, Journal, Loaded, At
<1>e. file \in Ledgers
  BY <1>a DEF Sound
<1>1. /\ Extends(buf'[w], file, NextEvent(w)')
      /\ phase'[w] = "reserve" => resv'[w] = NextDigest(file)
  <2>1. CASE Reserve(w)
    <3> DEFINE e == Event("RESERVED", req[w].op, Genesis)
               t == [Appended(file, e) EXCEPT !.used[req[w].op] = file.used[req[w].op] + 1]
    <3>1. Extends(t, file, e)
      BY <1>a, <2>1, SoundReserve DEF Reserve, Bound
    <3>2. buf'[w] = t /\ resv'[w] = NextDigest(file) /\ phase[w] = "reserve"
      BY <1>a, <2>1 DEF TypeOK, Reserve, Loaded, At
    <3>3. NextEvent(w)' = e
      BY <1>b, <3>2 DEF NextEvent
    <3> QED
      BY <3>1, <3>2, <3>3
  <2>2. CASE Commit(w)
    <3>1. phase[w] = "commit" /\ UNCHANGED resv
      BY <2>2 DEF Commit, At
    <3>2. w \in Hooks
      BY <3>1 DEF BInv, Control, Operators
    <3>3. stage[w] = "charging"
      BY <1>d, <3>1, <3>2 DEF BInv, Control, BTypes, Stages, Resting
    <3>4. Outcome(w) = "SPENT"
      BY <1>c, <3>2, <3>3 DEF Charging, Outcome
    <3>5. HoldsIn(file, req[w].op, resv[w])
      BY <1>d, <3>1 DEF BInv, IInv, LiveHeld, Live
    <3> DEFINE e == Event("SPENT", req[w].op, resv[w])
    <3>6. e \in Events
      <4>1. req[w].op \in Ops
        BY <3>5, ConstantsAssumption DEF HoldsIn
      <4> QED
        BY <1>a, <4>1 DEF TypeOK, Event, Events, Kinds, Outcomes
    <3>7. Extends(Appended(file, e), file, e)
      BY <1>e, <3>6, AppendedType
    <3>8. buf'[w] = Appended(file, e)
      BY <1>a, <2>2, <3>4 DEF TypeOK, Commit, Loaded
    <3>9. NextEvent(w)' = e
      BY <1>b, <3>1 DEF NextEvent
    <3> QED
      BY <1>b, <3>1, <3>7, <3>8, <3>9
  <2>3. CASE CloseRun(w)
    <3> DEFINE e == Event("CLOSE", NoOp, Genesis)
               t == Appended([file EXCEPT !.status = "CLOSED"], e)
    <3>1. Extends(t, file, e)
      BY <1>a, <2>3, SoundClose DEF CloseRun
    <3>2. buf'[w] = t /\ phase[w] = "close"
      BY <1>a, <2>3 DEF TypeOK, CloseRun, Loaded, At
    <3>3. NextEvent(w)' = e
      BY <1>b, <3>2 DEF NextEvent
    <3> QED
      BY <1>b, <3>1, <3>2, <3>3
  <2>4. CASE Journal(w)
    <3> DEFINE e == Event("BROKER", NoOp, Genesis)
    <3>1. e \in Events
      BY DEF Event, Events, Kinds, Digests, Genesis
    <3>2. Extends(Appended(file, e), file, e)
      BY <1>e, <3>1, AppendedType
    <3>3. buf'[w] = Appended(file, e) /\ phase[w] = "journal"
      BY <1>a, <2>4 DEF TypeOK, Journal, Loaded, At
    <3>4. NextEvent(w)' = e
      BY <1>b, <3>3 DEF NextEvent
    <3> QED
      BY <1>b, <3>2, <3>3, <3>4
  <2> QED
    BY <2>1, <2>2, <2>3, <2>4
<1>2. w \in Hooks /\ Mine(w) # Genesis => Mine(w)' = Mine(w)
  BY <1>a, <1>b, <1>c DEF TypeOK, Charging, Mine, Reserve, Commit, CloseRun, Journal, Loaded, At
<1>3. w \in Hooks => (Paid(w)' => Paid(w) /\ Mine(w)' = Mine(w)) /\ (Left(w)' => Left(w))
  <2> SUFFICES ASSUME w \in Hooks
               PROVE  (Paid(w)' => Paid(w) /\ Mine(w)' = Mine(w)) /\ (Left(w)' => Left(w))
    OBVIOUS
  <2>1. CASE stage[w] = "charging"
    BY <1>a, <1>b, <1>c, <1>d, <2>1 DEF TypeOK, Charging, Mine, Paid, Left, Live, Reserve, Commit,
         CloseRun, Journal, Loaded, At
  <2>2. CASE stage[w] # "charging"
    BY <1>b, <2>2 DEF Mine, Paid, Left
  <2> QED
    BY <2>1, <2>2
<1>4. w \in Hooks /\ Left(w)' => ~Settled(file, Mine(w)'[2])
  BY <1>a, <1>2, <1>3 DEF Money, LeftOpen, Left
<1> QED
  BY <1>a, <1>b, <1>d, <1>1, <1>2, <1>3, <1>4, MoneyOwn

-----------------------------------------------------------------------------
(* Money: the rename, and the broker's own steps *)

\* The rename books the reservation of its worker, or settles it, and nobody else's.
LEMMA MoneyReplace ==
  ASSUME BInv, NEW w \in Workers, BrokerWorks(w), Replace(w)
  PROVE  Money'
<1> DEFINE e == NextEvent(w)
           L == Len(file.events)
<1>a. TypeOK /\ Money /\ UNCHANGED brokerVars /\ Sound(file) /\ OutcomesFit(file) /\ file \in Ledgers
  BY DEF BInv, IInv, Sound, BrokerWorks, InLedger, HookCrash, Operate
<1>b. UNCHANGED <<stage, tool, verdict, charge, phase, req, resv, result, raised>>
      /\ step' = [step EXCEPT ![w] = "unlock"] /\ step[w] = "replace" /\ Ahead(w)
  BY <1>a DEF brokerVars, Replace, Ahead
<1>c. file' = buf[w] /\ Extends(file', file, e)
      /\ (phase[w] = "reserve" => resv[w] = <<file.run, L + 1>>)
  BY <1>b DEF BInv, IInv, TempIsCopy, Replace, Money, CopyIsNext, NextDigest
<1>d. w \in Hooks => w \in Workers /\ Charging(w) /\ Resting(w)
  BY BrokerAssumption DEF BInv, Control
<1>e. /\ phase[w] \in {"reserve", "commit"} => w \in Hooks /\ stage[w] = "charging"
      /\ w \in Hooks /\ stage[w] = "charging" => phase[w] \in {"reserve", "commit"}
  BY <1>b, <1>d DEF BInv, Control, Operators, BTypes, Stages, Charging, Resting
<1>f. phase[w] = "commit" => Paid(w) /\ ~Left(w) /\ Mine(w) = resv[w] /\ Booked(file, tool[w], resv[w])
  BY <1>a, <1>b, <1>e DEF Money, PaidBooked, Paid, Left, Mine
<1>g. phase[w] = "commit" => e.res = resv[w] /\ e.kind = "SPENT"
  BY DEF NextEvent, Event
<1>h. /\ phase[w] = "reserve" => e.kind = "RESERVED" /\ e.op = tool[w] /\ e.res = Genesis
      /\ phase[w] # "reserve" => e.kind # "RESERVED"
      /\ phase[w] # "commit" => e.kind \notin Outcomes /\ e.res = Genesis
      /\ e.kind # "RELEASED"
  BY <1>d, <1>e DEF NextEvent, Event, Outcomes, Charging
<1>i. e \in Events
  <2>1. NoOp \in Ops \cup {NoOp} /\ Genesis \in Digests
    BY DEF Digests, Genesis
  <2>2. phase[w] \in {"reserve", "commit"} => req[w].op \in Ops \cup {NoOp}
    BY <1>d, <1>e DEF Charging
  <2> QED
    BY <1>a, <2>1, <2>2 DEF TypeOK, NextEvent, Event, Events, Kinds, Outcomes
<1>j. /\ L \in Nat /\ Len(file'.events) = L + 1 /\ file'.events[L + 1] = e
      /\ file'.run = file.run
      /\ \A n \in 1..L : file'.events[n] = file.events[n]
  BY <1>a, <1>c, <1>i, ExtendsEvents DEF Extends
<1> HIDE DEF e, L
<1>k. \A n : Settled(file', n) <=>
        Settled(file, n) \/ (e.kind \in Outcomes /\ e.res = <<file.run, n>>)
  BY <1>a, <1>c, <1>i, SettledAfter
<1>l. e.kind \in Outcomes => e.res # <<file.run, L + 1>>
  <2> SUFFICES ASSUME phase[w] = "commit" PROVE resv[w][2] # L + 1
    BY <1>g, <1>h
  <2> QED
    BY <1>f, <1>j, BookedInChain DEF L
<1>m. ASSUME NEW o, NEW n \in Held(file, o) PROVE n \in Held(file', o)
  BY <1>a, <1>c, <1>h, <1>i, <1>l, <1>m, HeldAfter DEF L
<1>n. phase[w] = "reserve" => L + 1 \in Held(file', tool[w])
  <2> SUFFICES ASSUME phase[w] = "reserve" PROVE L + 1 \in Held(file', tool[w])
    OBVIOUS
  <2>1. Held(file', tool[w]) = (Held(file, tool[w]) \cup {L + 1})
                                 \ {n \in Nat : e.kind = "RELEASED" /\ e.res = <<file.run, n>>}
    BY <1>a, <1>c, <1>h, <1>i, <1>l, HeldAfter DEF L
  <2> QED
    BY <1>h, <2>1
<1>o. ASSUME NEW h \in Hooks
      PROVE  Mine(h)' = Mine(h) /\ (Left(h)' => Left(h))
             /\ (Paid(h)' => Paid(h) \/ (h = w /\ phase[w] = "reserve" /\ Mine(h) = <<file.run, L + 1>>))
  <2>1. h \in Workers
    BY BrokerAssumption
  <2> QED
    BY <1>a, <1>b, <1>c, <2>1 DEF TypeOK, Mine, Left, Paid, Live, L
<1>1. CopyIsNext'
  <2>1. \A v \in Workers : ~Ahead(v)'
    BY <1>a, <1>b DEF BInv, IInv, TypeOK, Mutex, Critical, Ahead
  <2> QED
    BY <2>1 DEF CopyIsNext
<1>2. Plain(file)'
  <2>1. \A n \in 1..(L + 1) : n \in 1..L \/ n = L + 1
    BY <1>j
  <2>2. e.kind # "RELEASED" /\ (e.kind # "SPENT" => e.res = Genesis)
    BY <1>g, <1>h
  <2>3. \A n \in 1..L : file.events[n].kind # "RELEASED"
                         /\ (file.events[n].kind # "SPENT" => file.events[n].res = Genesis)
    BY <1>a DEF Money, Plain, L
  <2> QED
    BY <1>j, <2>1, <2>2, <2>3 DEF Plain
<1>3. PaidBooked'
  <2> SUFFICES ASSUME NEW h \in Hooks, Paid(h)' PROVE Booked(file', tool[h], Mine(h))
    BY <1>b, <1>o DEF PaidBooked
  <2>1. CASE Paid(h)
    <3>1. Booked(file, tool[h], Mine(h))
      BY <1>a, <2>1 DEF Money, PaidBooked
    <3> QED
      BY <3>1, <1>j, <1>m DEF Booked
  <2>2. CASE h = w /\ phase[w] = "reserve" /\ Mine(h) = <<file.run, L + 1>>
    BY <2>2, <1>j, <1>n DEF Booked
  <2> QED
    BY <1>o, <2>1, <2>2
<1>4. PaidDistinct'
  <2>1. \A h \in Hooks : Paid(h) => Mine(h) # <<file.run, L + 1>>
    BY <1>a, <1>j, BookedInChain DEF Money, PaidBooked, L
  <2> QED
    BY <1>a, <1>o, <2>1 DEF Money, PaidDistinct
<1>5. LeftOpen'
  <2> SUFFICES ASSUME NEW h \in Hooks, Left(h) PROVE ~Settled(file', Mine(h)[2])
    BY <1>o DEF LeftOpen
  <2>1. ~Settled(file, Mine(h)[2]) /\ Paid(h) /\ Booked(file, tool[h], Mine(h))
    BY <1>a DEF Money, LeftOpen, PaidBooked, Left
  <2>2. phase[w] = "commit" => e.res # <<file.run, Mine(h)[2]>>
    <3> SUFFICES ASSUME phase[w] = "commit" PROVE resv[w] # <<file.run, Mine(h)[2]>>
      BY <1>g
    <3>1. w # h /\ w \in Hooks
      BY <1>e, <1>f
    <3>2. Mine(w) # Mine(h)
      BY <1>a, <1>f, <2>1, <3>1 DEF Money, PaidDistinct
    <3> QED
      BY <1>f, <2>1, <3>2, BookedInChain
  <2> QED
    BY <1>h, <1>k, <2>1, <2>2
<1>6. CommitSettles'
  <2> SUFFICES ASSUME NEW h \in Hooks, stage[h] = "charging", phase[h] = "commit",
                      step'[h] = "unlock" \/ (step'[h] = "idle" /\ result[h] = "ok")
               PROVE  Settled(file', resv[h][2])
    BY <1>b DEF CommitSettles
  <2>1. CASE h = w
    <3>1. e.res = <<file.run, resv[h][2]>> /\ e.kind \in Outcomes
      BY <1>f, <1>g, <2>1, BookedInChain DEF Outcomes
    <3> QED
      BY <1>k, <3>1
  <2>2. CASE h # w
    <3>1. step'[h] = step[h]
      BY <1>a, <1>b, <2>2, BrokerAssumption DEF TypeOK
    <3> QED
      BY <1>a, <1>b, <1>k, <3>1 DEF Money, CommitSettles
  <2> QED
    BY <2>1, <2>2
<1>7. Explained'
  <2> SUFFICES ASSUME NEW n \in 1..(L + 1), file'.events[n].kind = "RESERVED"
               PROVE  \/ Settled(file', n)
                      \/ \E h \in Hooks : Mine(h) = <<file.run, n>>
                                           /\ (stage[h] = "charging" \/ verdict[h] = "deny")
    BY <1>b, <1>j, <1>o DEF Explained
  <2>1. CASE n \in 1..L
    BY <1>a, <1>j, <1>k, <2>1 DEF Money, Explained, L
  <2>2. CASE n = L + 1
    <3>1. phase[w] = "reserve"
      BY <1>h, <1>j, <2>2
    <3> QED
      BY <1>c, <1>e, <2>2, <3>1 DEF Mine, L
  <2> QED
    BY <1>j, <2>1, <2>2
<1> QED
  BY <1>1, <1>2, <1>3, <1>4, <1>5, <1>6, <1>7 DEF Money

\* The broker's own steps: a charge that ends is allowed if it was settled, and
\* denied otherwise; no other step is about money.
LEMMA MoneyHandle ==
  ASSUME BInv, NEW h \in Hooks, Handle(h) \/ RunTool(h)
  PROVE  Money'
<1>a. TypeOK /\ Money /\ BTypes /\ h \in Workers /\ Charging(h) /\ Resting(h)
  BY BrokerAssumption DEF BInv, IInv, Control
<1>b. UNCHANGED <<file, buf>>
  BY DEF Handle, RunTool, Unreadable, Nameless, Misconfigured, NotBrokered, Report, HandleWrite,
         HandleBudgeted, ChargeEnds, Decide, Record, Begin, vars, workerVars
<1>c. ASSUME NEW g \in Hooks, g # h
      PROVE  tool'[g] = tool[g] /\ stage'[g] = stage[g] /\ verdict'[g] = verdict[g]
             /\ charge'[g] = charge[g]
  BY <1>a, <1>c DEF BTypes, Handle, RunTool, Unreadable, Nameless, Misconfigured, NotBrokered,
           Report, HandleWrite, HandleBudgeted, ChargeEnds, Decide, Record
<1>d. ASSUME NEW v \in Workers, v # h
      PROVE  /\ phase'[v] = phase[v] /\ step'[v] = step[v] /\ req'[v] = req[v]
             /\ resv'[v] = resv[v] /\ result'[v] = result[v]
  BY <1>a, <1>d DEF TypeOK, vars, workerVars, Handle, RunTool, Unreadable, Nameless, Misconfigured,
           NotBrokered, Report, HandleWrite, HandleBudgeted, ChargeEnds, Decide, Record, Begin
<1>e. \/ step' = step /\ UNCHANGED <<phase, resv, req, result>>
      \/ step[h] = "idle" /\ step'[h] = "acquire" /\ phase'[h] # "commit"
  BY <1>a DEF TypeOK, vars, workerVars, Handle, RunTool, Unreadable, Nameless, Misconfigured,
           NotBrokered, Report, HandleWrite, HandleBudgeted, ChargeEnds, Decide, Record, Begin
<1>1. CopyIsNext'
  <2>1. ASSUME NEW v \in Workers, Ahead(v)'
        PROVE  Ahead(v) /\ NextEvent(v)' = NextEvent(v) /\ phase'[v] = phase[v] /\ resv'[v] = resv[v]
    BY <1>d, <1>e, <2>1 DEF Ahead, NextEvent
  <2> QED
    BY <1>a, <1>b, <2>1 DEF Money, CopyIsNext, Extends, NextDigest
<1>2. ASSUME NEW g \in Hooks, g # h
      PROVE  (Paid(g)' <=> Paid(g)) /\ Mine(g)' = Mine(g) /\ (Left(g)' <=> Left(g))
  <2>1. g \in Workers
    BY BrokerAssumption
  <2> QED
    BY <1>c, <1>d, <1>2, <2>1 DEF Paid, Mine, Left, Live
<1>3. /\ Paid(h)' => Paid(h) /\ Mine(h)' = Mine(h) /\ tool'[h] = tool[h]
      /\ Left(h)' => ~Settled(file, Mine(h)'[2])
      /\ ~(stage'[h] = "charging" /\ phase'[h] = "commit")
           \/ (UNCHANGED <<step, phase, resv, result>> /\ stage'[h] = stage[h])
      /\ Mine(h) # Genesis /\ Answerable(h) =>
           Settled(file, Mine(h)[2]) \/ (Mine(h)' = Mine(h) /\ Answerable(h)')
  <2>1. CASE ChargeEnds(h)
    <3>1. /\ stage[h] = "charging" /\ step[h] = "idle" /\ stage'[h] = "journaling"
          /\ charge'[h] = resv[h] /\ tool' = tool /\ Mine(h) = resv[h] /\ Mine(h)' = resv[h]
          /\ verdict'[h] = IF result[h] = "ok" THEN "allow" ELSE "deny"
      BY <1>a, <2>1 DEF BTypes, ChargeEnds, Record, ChargeVerdict, Mine
    <3>2. resv[h] # Genesis \/ result[h] = "ok" => phase[h] = "commit"
      BY <1>a, <3>1 DEF Charging
    <3>3. result[h] = "ok" => Settled(file, resv[h][2])
      BY <1>a, <3>1, <3>2 DEF Money, CommitSettles
    <3>4. Paid(h)' => Paid(h)
      BY <3>1, <3>2 DEF Paid
    <3>5. Left(h)' => Left(h)
      BY <3>1, <3>2, <3>4 DEF Left, Paid
    <3> QED
      BY <1>a, <3>1, <3>3, <3>4, <3>5 DEF Money, LeftOpen, Answerable
  <2>2. CASE HandleWrite(h) \/ HandleBudgeted(h)
    <3>1. /\ stage[h] = "new" /\ charge[h] = Genesis /\ charge' = charge
          /\ stage'[h] = "charging" => resv'[h] = Genesis /\ phase'[h] = "reserve"
          /\ step'[h] = "acquire"
      BY <1>a, <2>2 DEF TypeOK, BTypes, HandleWrite, HandleBudgeted, Record, Begin, Resting
    <3> QED
      BY <3>1 DEF Paid, Mine, Left, Live
  <2>3. CASE Unreadable(h) \/ Nameless(h) \/ Misconfigured(h) \/ NotBrokered(h)
    <3>1. stage[h] = "new" /\ charge[h] = Genesis /\ charge' = charge /\ stage'[h] = "done"
      BY <1>a, <2>3 DEF BTypes, Unreadable, Nameless, Misconfigured, NotBrokered, Report, Resting
    <3> QED
      BY <3>1 DEF Paid, Mine, Left
  <2>4. CASE Decide(h) \/ RunTool(h)
    <3>1. /\ UNCHANGED <<vars, tool, verdict, charge>>
          /\ stage'[h] = stage[h] \/ (stage[h] = "journaling" /\ stage'[h] = "done")
      BY <1>a, <2>4 DEF BTypes, Decide, RunTool, Journalled
    <3>2. Mine(h)' = Mine(h) /\ (Paid(h)' <=> Paid(h)) /\ (Left(h)' <=> Left(h))
      BY <3>1 DEF Paid, Mine, Left, Live, vars, workerVars
    <3> QED
      BY <1>a, <3>1, <3>2 DEF Money, LeftOpen, Answerable, vars, workerVars
  <2> QED
    BY <2>1, <2>2, <2>3, <2>4 DEF Handle
<1>4. \A g \in Hooks :
           /\ stage'[g] = "charging" /\ phase'[g] = "commit"
           /\ step'[g] = "unlock" \/ (step'[g] = "idle" /\ result'[g] = "ok")
           => Settled(file, resv'[g][2])
  BY <1>a, <1>c, <1>d, <1>3, BrokerAssumption DEF Money, CommitSettles
<1>5. \A g \in Hooks : Mine(g) # Genesis /\ Answerable(g) =>
           Settled(file, Mine(g)[2]) \/ (Mine(g)' = Mine(g) /\ Answerable(g)')
  BY <1>2, <1>3, <1>c DEF Answerable
<1>6. \A g \in Hooks : Left(g)' => ~Settled(file, Mine(g)'[2])
  BY <1>a, <1>2, <1>3 DEF Money, LeftOpen
<1>7. \A g \in Hooks : Paid(g)' => Paid(g) /\ Mine(g)' = Mine(g) /\ tool'[g] = tool[g]
  BY <1>2, <1>3, <1>c
<1> QED
  BY <1>a, <1>b, <1>1, <1>4, <1>5, <1>6, <1>7, MoneyStays

-----------------------------------------------------------------------------
(* Theorems *)

\* Every step of the broker preserves the invariant.
LEMMA NextBInv == BInv /\ [BNext]_allVars => BInv'
<1> SUFFICES ASSUME BInv, [BNext]_allVars PROVE BInv'
  OBVIOUS
<1>1. IInv'
  BY BrokerSteps, NextIInv DEF BInv, Control, BTypes
<1>2. CASE UNCHANGED allVars
  <2>1. Control'
    BY <1>2 DEF BInv, Control, BTypes, Operators, Charging, Resting, allVars, vars, workerVars,
                brokerVars
  <2>2. Money'
    BY <1>2 DEF BInv, Money, CopyIsNext, NextEvent, Ahead, Plain, PaidBooked, PaidDistinct, LeftOpen,
                CommitSettles, Explained, Paid, Mine, Left, Live, allVars, vars, workerVars, brokerVars
  <2> QED
    BY <1>1, <2>1, <2>2 DEF BInv
<1>3. CASE \E h \in Hooks : Handle(h) \/ RunTool(h)
  BY <1>1, <1>3, ControlHandle, MoneyHandle DEF BInv, IInv, Money
<1>4. ASSUME NEW w \in Workers, BrokerWorks(w) PROVE BInv'
  <2>1. Control'
    BY <1>4, ControlLedger DEF BInv, IInv, BrokerWorks
  <2>2. Money'
    BY <1>4, MoneyLock, MoneyUnlock, MoneyRefuse, MoneyLoad, MoneyReplace
       DEF BrokerWorks, InLedger, HookCrash, Operate, Mutate, Save
  <2> QED
    BY <1>1, <2>1, <2>2 DEF BInv
<1> QED
  BY <1>2, <1>3, <1>4, BrokerAssumption DEF BNext, BrokerWorks

\* The invariant of the broker holds of its specification.
THEOREM BrokerInvariant == BSpec => []BInv
BY InitBInv, NextBInv, PTL DEF BSpec

\* A call that was admitted has a reservation of its own in the ledger, which nothing
\* refunds.
THEOREM AdmittedHolds == BSpec => []AdmittedHoldsItsUnit
<1>1. BInv => AdmittedHoldsItsUnit
  <2> SUFFICES ASSUME BInv, NEW g \in Hooks, NEW h \in Hooks,
                      env.run = "set", decision[h] = "allow", tool[h] \in Ops
               PROVE  /\ charge[h][1] = file.run /\ charge[h][2] \in Held(file, tool[h])
                      /\ g # h => charge[g] # charge[h]
    BY DEF AdmittedHoldsItsUnit
  <2>1. /\ stage[h] = "done" /\ charge[h] # Genesis /\ Paid(h) /\ Mine(h) = charge[h]
        /\ stage[g] = "charging" => charge[g] = Genesis
    BY DEF BInv, Control, Resting, Paid, Mine
  <2>2. Booked(file, tool[h], charge[h])
    BY <2>1 DEF BInv, Money, PaidBooked
  <2>3. g # h => charge[g] # charge[h]
    BY <2>1 DEF BInv, Money, PaidDistinct, Paid, Mine
  <2> QED
    BY <2>2, <2>3, BookedInChain
<1> QED
  BY <1>1, BrokerInvariant, PTL

\* Inside a run the host never runs more calls of an operation than its budget, as
\* far as their payloads name the tool: handle() lets the others through unpaid.
THEOREM NamedBounded == BSpec => []NamedCallsWithinBudget
<1>1. BInv => NamedCallsWithinBudget
  <2> SUFFICES ASSUME BInv, env.run # "unset", NEW o \in Ops
               PROVE  LET ran == {h \in executed : tool[h] = o}
                      IN  IF env.run = "set" /\ env.bound /\ o \in BudgetedOps
                            THEN Cardinality(ran) <= Budgets[o]
                            ELSE ran = {}
    BY DEF NamedCallsWithinBudget, WithinBudget
  <2> DEFINE ran == {h \in executed : tool[h] = o}
             slot == [h \in ran |-> charge[h][2]]
  <2>1. ASSUME NEW h \in ran
        PROVE  /\ h \in Hooks /\ env.run = "set" /\ env.bound /\ o \in BudgetedOps
               /\ Paid(h) /\ Mine(h) = charge[h]
               /\ charge[h] = <<file.run, charge[h][2]>> /\ charge[h][2] \in Held(file, o)
    <3>1. h \in Hooks /\ tool[h] = o /\ decision[h] = "allow" /\ Resting(h)
      BY DEF BInv, Control, BTypes, Resting
    <3>2. stage[h] = "done" /\ charge[h] # Genesis
      BY <3>1 DEF Resting
    <3>3. env.run = "set" /\ env.bound /\ o \in BudgetedOps /\ Paid(h) /\ Mine(h) = charge[h]
      BY <3>1, <3>2 DEF Resting, Paid, Mine
    <3>4. Booked(file, o, charge[h])
      BY <3>1, <3>3 DEF BInv, Money, PaidBooked
    <3> QED
      BY <3>1, <3>3, <3>4, BookedInChain
  <2>2. CASE env.run = "set" /\ env.bound /\ o \in BudgetedOps
    <3>1. slot \in [ran -> Held(file, o)]
      BY <2>1
    <3>2. \A g, h \in ran : slot[g] = slot[h] => g = h
      BY <2>1 DEF BInv, Money, PaidDistinct
    <3>3. slot \in Injection(ran, Held(file, o))
      BY <3>1, <3>2 DEF Injection, IsInjective
    <3>4. /\ IsFiniteSet(Held(file, o)) /\ Cardinality(Held(file, o)) <= Budgets[o]
          /\ Cardinality(Held(file, o)) \in Nat
      <4>1. Sound(file) /\ file \in Ledgers
        BY DEF BInv, IInv, Sound
      <4>2. IsFiniteSet(Held(file, o))
        BY <4>1, HeldFinite
      <4> QED
        BY <2>2, <4>1, <4>2, FS_CardinalityType DEF Sound
    <3>5. Cardinality(ran) <= Cardinality(Held(file, o)) /\ Cardinality(ran) \in Nat
      BY <3>3, <3>4, FS_Injection, FS_CardinalityType
    <3> QED
      BY <2>2, <3>4, <3>5, ConstantsAssumption
  <2>3. CASE ~(env.run = "set" /\ env.bound /\ o \in BudgetedOps)
    BY <2>1, <2>3
  <2> QED
    BY <2>2, <2>3
<1> QED
  BY <1>1, BrokerInvariant, PTL

\* A hook that denies a call has committed nothing for it.
THEOREM DeniedUncommitted == BSpec => []DeniedIsNotCommitted
<1>1. BInv => DeniedIsNotCommitted
  <2> SUFFICES ASSUME BInv, NEW h \in Hooks, decision[h] = "deny", charge[h] # Genesis,
                      NEW m \in 1..Len(file.events), file.events[m].res = charge[h]
               PROVE  FALSE
    BY DEF DeniedIsNotCommitted
  <2>1. stage[h] = "done" /\ verdict[h] = "deny"
    BY DEF BInv, Control, Resting
  <2>2. Paid(h) /\ Left(h) /\ Mine(h) = charge[h]
    BY <2>1 DEF Paid, Left, Mine
  <2>3. ~Settled(file, charge[h][2]) /\ charge[h] = <<file.run, charge[h][2]>>
    BY <2>2, BookedInChain DEF BInv, Money, LeftOpen, PaidBooked
  <2>4. file.events[m].kind = "SPENT"
    BY DEF BInv, Money, Plain
  <2> QED
    BY <2>3, <2>4 DEF Settled, Outcomes
<1> QED
  BY <1>1, BrokerInvariant, PTL

\* A reservation that is not settled is that of a hook which is charging, or which
\* denies its call.
THEOREM UnsettledExplained == BSpec => []UnsettledIsExplained
<1>1. BInv => UnsettledIsExplained
  <2> SUFFICES ASSUME BInv, NEW n \in 1..Len(file.events), file.events[n].kind = "RESERVED"
               PROVE  \/ \E m \in 1..Len(file.events) : file.events[m].res = <<file.run, n>>
                      \/ \E h \in Hooks :
                           \/ stage[h] = "charging" /\ resv[h] = <<file.run, n>>
                           \/ charge[h] = <<file.run, n>> /\ verdict[h] = "deny"
    BY DEF UnsettledIsExplained
  <2>1. CASE Settled(file, n)
    BY <2>1 DEF Settled
  <2>2. ASSUME NEW h \in Hooks, Mine(h) = <<file.run, n>>, stage[h] = "charging" \/ verdict[h] = "deny"
        PROVE  \/ stage[h] = "charging" /\ resv[h] = <<file.run, n>>
               \/ charge[h] = <<file.run, n>> /\ verdict[h] = "deny"
    BY <2>2 DEF Mine
  <2> QED
    BY <2>1, <2>2 DEF BInv, Money, Explained
<1> QED
  BY <1>1, BrokerInvariant, PTL
=============================================================================
