----------------------- MODULE InvestigationLifecycle -----------------------
(***************************************************************************)
(* What the service promises about one investigation, with no worker,      *)
(* clock, lease or transaction in sight: the phase a reader of             *)
(* GET /api/v1/investigations/{id} sees and the number of attempts spent   *)
(* on it.  JobQueue and WorkerPipeline implement this specification.       *)
(***************************************************************************)
EXTENDS Naturals

CONSTANTS Inv,          \* investigations
          MaxAttempts   \* jobs.MAX_ATTEMPTS

VARIABLES phase,        \* investigation -> what the API shows
          spent         \* investigation -> attempts started so far

lifecycleVars == <<phase, spent>>

Move(i, from, to, n) ==
  /\ phase[i] = from
  /\ phase' = [phase EXCEPT ![i] = to]
  /\ spent' = [spent EXCEPT ![i] = n]

Queue(i)   == Move(i, "ABSENT", "QUEUED", 0)

(* An attempt starts, for the first time, after a scheduled retry, or in   *)
(* place of an attempt whose worker is taken for dead.                     *)
Attempt(i) == \E from \in {"QUEUED", "RUNNING"} :
                /\ spent[i] < MaxAttempts
                /\ Move(i, from, "RUNNING", spent[i] + 1)

Retry(i)   == spent[i] < MaxAttempts /\ Move(i, "RUNNING", "QUEUED", spent[i])
GiveUp(i)  == spent[i] = MaxAttempts /\ Move(i, "RUNNING", "FAILED", spent[i])
Deliver(i) == Move(i, "RUNNING", "AWAITING_REVIEW", spent[i])
Approve(i) == Move(i, "AWAITING_REVIEW", "COMPLETED", spent[i])

LifecycleInit == /\ phase = [i \in Inv |-> "ABSENT"]
                 /\ spent = [i \in Inv |-> 0]

LifecycleNext == \E i \in Inv : \/ Queue(i) \/ Attempt(i) \/ Retry(i)
                                \/ GiveUp(i) \/ Deliver(i) \/ Approve(i)

LifecycleSpec == LifecycleInit /\ [][LifecycleNext]_lifecycleVars
=============================================================================
