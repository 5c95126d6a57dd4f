---------------------------- MODULE MCShutdown -----------------------------
(* Model values for Shutdown; the configurations give the bounds. *)
EXTENDS Shutdown, TLC

CONSTANTS m1, m2, m3, run, stop, exec

\* The workload, an emergency Shutdown beside it, and an Execute.
Roles == run :> "run" @@ stop :> "shutdown" @@ exec :> "execute"

ThreePhases == <<m1, m2, m3>>
\* The second phase asks for more than is left when the first has taken its time.
Durations == m1 :> 2 @@ m2 :> 3 @@ m3 :> 1
=============================================================================
