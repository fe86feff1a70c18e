---- MODULE MCRunners ----
(***************************************************************************)
(* The in-process queue of the v1 routes, side by side: run_job's runners  *)
(* of one job (JobRunner) and the scan of a repository that they run       *)
(* (ScannerJob).  Each is seen alone, so in a behaviour one of them runs   *)
(* and the other rests in its initial state.                               *)
(***************************************************************************)
EXTENDS JobRunner

CONSTANTS Starters, Resumers, Pausers, StartJob

VARIABLES part, doc, flag, durable, run, handler, catalog, indexed, past

scanVars == <<doc, flag, durable, run, handler, catalog, indexed, past>>
allVars == <<part, vars, scanVars>>

S == INSTANCE ScannerJob WITH Faults <- {"phase_fails"}

AllInit ==
    /\ part \in {"runner", "scan"}
    /\ Init /\ S!Init
    /\ catalog = "none"

Runner(Move) == part = "runner" /\ Move /\ UNCHANGED <<part, scanVars>>
Scan(Move) == part = "scan" /\ Move /\ UNCHANGED <<part, vars>>

AllNext ==
    \/ Runner(\E r \in Runners : Schedule(r))
    \/ Runner(\E r \in Runners : Continue(r))
    \/ Runner(\E r \in Runners : RunnerLost(r))
    \/ Runner(\E c \in Cancellers : CancelRead(c) \/ CancelMark(c))
    \/ Scan(\E h \in S!Handlers : S!Arrive(h))
    \/ Scan(\E h \in S!Handlers : S!Continue(h))
    \/ Scan(\E d \in S!Jobs : S!RunnerStep(d))
    \/ Scan(\E d \in S!Jobs : S!PhaseEnds(d))
    \/ Scan(\E d \in S!Jobs : S!Progress(d) \/ S!SkipPause(d))

(* The fairness of each: runners, calls and threads that have begun go on. *)
AllSpec ==
    /\ AllInit /\ [][AllNext]_allVars
    /\ \A r \in Runners : WF_allVars(Runner(Continue(r)))
    /\ \A h \in S!Handlers : WF_allVars(Scan(S!Continue(h)))
    /\ \A d \in S!Jobs :
          WF_allVars(Scan(S!RunnerStep(d))) /\ WF_allVars(Scan(S!PhaseEnds(d)))

-----------------------------------------------------------------------------
(* Scans: one that is shown running is so for some time only, unless what  *)
(* ScannerJob names has come between.                                      *)
ScanSettles == S!ScanSettles
====
