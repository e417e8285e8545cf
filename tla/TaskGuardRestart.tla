-------------------------- MODULE TaskGuardRestart --------------------------
(***************************************************************************)
(* `foil_task_guard.py start` run over a state file that is already in     *)
(* use. The command does not look for an existing run and does not take    *)
(* the lock: it builds a fresh ledger and saves it through the same        *)
(* temporary file the workers use. Workers of the old run live on; none of *)
(* them crashes here (TaskGuard has the crashes).                          *)
(***************************************************************************)
EXTENDS TaskGuard

CONSTANT MaxStarts   \* bound: starts after the one that opened the run

VARIABLES
  starts,     \* runs opened so far
  starting    \* the start command has written its temporary file

restartVars == <<vars, starts, starting>>

RInit == Init /\ starts = 1 /\ starting = FALSE

\* start_state and the first half of _atomic_save.
StartWrite ==
  /\ ~starting
  /\ starts < 1 + MaxStarts
  /\ starts' = starts + 1
  /\ starting' = TRUE
  /\ temp' = StartState(starts + 1)
  /\ UNCHANGED <<file, lock, workerVars, performed>>

\* The rename installs whatever <state>.tmp holds by now; if a worker has
\* renamed it first, the command fails.
StartReplace ==
  /\ starting
  /\ starting' = FALSE
  /\ file' = IF temp = NoLedger THEN file ELSE temp
  /\ temp' = NoLedger
  /\ UNCHANGED <<lock, workerVars, performed, starts>>

\* A worker whose temporary file the start command renamed: FileNotFoundError
\* leaves the locked block, and the call with it.
ReplaceFails(w) ==
  /\ step[w] = "replace"
  /\ temp = NoLedger
  /\ step'   = [step EXCEPT ![w] = "unlock"]
  /\ result' = [result EXCEPT ![w] = "Error"]
  /\ UNCHANGED <<file, temp, lock, phase, req, buf, resv, raised, calls, performed>>

RNext ==
  \/ \E w \in Workers : (Work(w) \/ ReplaceFails(w)) /\ UNCHANGED <<starts, starting>>
  \/ StartWrite \/ StartReplace

RestartSpec == RInit /\ [][RNext]_restartVars
=============================================================================
