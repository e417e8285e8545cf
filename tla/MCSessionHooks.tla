--------------------------- MODULE MCSessionHooks ---------------------------
(* The three components that watch a session, and the adversarial review it   *)
(* runs. They share no state that the models keep, so a behaviour follows one *)
(* of them and the others stand still: the states add up instead of           *)
(* multiplying.                                                               *)
EXTENDS EventTrace, BoundaryMonitor, AuthorityWatch, BlackGemStrike

\* The two processes p and the two values v serve every component.
CONSTANTS p1, p2, v1, v2, g1, g2, h1, h2

VARIABLE focus
allvars == <<focus, tvars, bvars, wvars, strikeVars>>

MCWatchable == DOMAIN Inputs
MCMaxWrites(o) == CASE o = "audit" -> 5 [] o \in {"explain", "costume"} -> 3 [] OTHER -> 4

Tool(input, error) == [input |-> input, error |-> error]
\* A loop of reads, which is none, a failing loop, and two tools in turn.
MCTails ==
  LET bad == Tool("edit", TRUE)
      good == Tool("edit", FALSE)
      read == Tool("read", FALSE)
  IN  {<<read, read, read, read>>, <<bad, bad, bad>>, <<read, good, read, good, read, good>>}

\* Three seats of two models and two groups, or two independent seats, and two
\* rosters create_strike refuses.
Breaker(seat, model, group) == [seat |-> seat, model |-> model, group |-> group]
MCRosters ==
  LET a == Breaker("a", "m", "g")
      b == Breaker("b", "n", "h")
      c == Breaker("c", "m", "h")
  IN  {<<a, b, c>>, <<a, b>>, <<a, a>>, <<b>>}
MCMaxCalls(seats) == 2
MCMaxFinals(seats) == IF seats = 2 THEN 2 ELSE 1

MCInit ==
  /\ focus \in {"trace", "boundary", "authority", "strike"}
  /\ TraceInit /\ BoundaryInit /\ WatchInit /\ StrikeInit
  /\ focus # "trace" => op = "audit"
  /\ world.head = h1
  /\ focus # "authority" => world.files = [f \in Governing |-> None]

MCNext ==
  \/ focus = "trace" /\ TraceNext /\ UNCHANGED <<focus, bvars, wvars, strikeVars>>
  \/ focus = "boundary" /\ BoundaryNext /\ UNCHANGED <<focus, tvars, wvars, strikeVars>>
  \/ focus = "authority" /\ WatchNext /\ UNCHANGED <<focus, tvars, bvars, strikeVars>>
  \/ focus = "strike" /\ StrikeNext /\ UNCHANGED <<focus, tvars, bvars, wvars>>
MCSpec == MCInit /\ [][MCNext]_allvars

MCSymmetry == Permutations({p1, p2}) \cup Permutations({v1, v2})
=============================================================================
