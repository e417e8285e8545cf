------------------------------ MODULE MCReviews ------------------------------
(* What clears the obligations of a task: the store with its release gate,    *)
(* and the review panel. The models share no state, so a behaviour follows    *)
(* one of them and the other stands still.                                    *)
EXTENDS ReleaseGate, CouncilReview, TLC

\* The two processes p and the two values v serve both components.
CONSTANTS p1, p2, v1, v2, t1, t2, o1, o2, power, mind, g1, r1, s1, s2, s3

VARIABLE focus
allVars == <<focus, vars, cvars>>

\* One task to begin with and one that may start; two obligations, one of each of
\* two modules. Good and bad news from the right module, and two receipts the gate
\* must ignore; of the verdicts, those that Worse tells apart.
Claim(t, m, v) == [task |-> t, obl |-> o1, module |-> m, verdict |-> v]
MCClaims == {Claim(t1, power, "CLEARED"), Claim(t1, power, "ISSUE"),
             Claim(t2, power, "CLEARED"), Claim(t1, mind, "CLEARED")}
MCRequired == (o1 :> power) @@ (o2 :> mind)

MCInit == focus \in {"gate", "council"} /\ Init /\ CouncilInit
GateStarts == focus = "gate" /\ Init /\ CouncilInit
CouncilStarts == focus = "council" /\ Init /\ CouncilInit

MCNext ==
  \/ focus = "gate" /\ Next /\ UNCHANGED <<focus, cvars>>
  \/ focus = "council" /\ CouncilNext /\ UNCHANGED <<focus, vars>>

MCSpec == MCInit /\ [][MCNext]_allVars
MCGate == GateStarts /\ [][MCNext]_allVars
MCCouncil == CouncilStarts /\ [][MCNext]_allVars

MCSymmetry == Permutations({p1, p2}) \cup Permutations({v1, v2})
=============================================================================
