---------------------------- MODULE MCCronService ----------------------------
(* Model checking instances of CronService. *)
EXTENDS CronService, TLC

CONSTANTS s1, s2, daily, hourly, once

\* A job with a cron expression, one with an interval, and a one-shot.
Kinds == daily :> "cron" @@ hourly :> "every" @@ once :> "at"
TwoKinds == daily :> "cron" @@ once :> "at"
OneKind == hourly :> "every"
=============================================================================
