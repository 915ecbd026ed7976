----------------------------- MODULE MCCronJobs -----------------------------
(* Instances of CronJobs for TLC: a one-shot, a job with an expression or *)
(* an anchor, and one with a period only.                                  *)
EXTENDS CronJobs, TLC

CONSTANTS once, named, every

NamedSlots == once :> {2} @@ named :> {1, 2, 3} @@ every :> {}
Periods == once :> 0 @@ named :> 0 @@ every :> 1
=============================================================================
