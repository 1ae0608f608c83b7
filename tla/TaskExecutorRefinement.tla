----------------------- MODULE TaskExecutorRefinement -----------------------
(***************************************************************************)
(* The refinement mapping from TaskExecutor to the promise AsyncService.   *)
(***************************************************************************)
EXTENDS TaskExecutor

\* The popped task is still the oldest outstanding one until its reply has
\* been dealt with.
Popped == IF stack # << >> /\ Top.at \in Fetching /\ Top.task # Sync
          THEN << Top.task >> ELSE << >>

\* A retained task counts no sending attempt.
Unsent  == { n \in Accepted : task[n].held /\ task[n].attempt = 1 }
Waiting == { <<n, task[n].dep>> : n \in Unsent }

Service == INSTANCE AsyncService WITH
               Task        <- Num,
               accepted    <- Accepted,
               waiting     <- Waiting,
               outstanding <- Popped \o running,
               answered    <- { n \in Num : Answered(n) },
               given       <- written

\* The executor keeps the promise of the asynchronous mode whatever the line
\* does: one queue, answered from its head, waiting tasks released after the
\* one they wait for, results given to the user only once answered.
ImplementsService == Service!Spec
=============================================================================
