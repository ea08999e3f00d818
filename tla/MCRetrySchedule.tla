-------------------------- MODULE MCRetrySchedule --------------------------
(***************************************************************************)
(* RetrySchedule with the default policy and room for the whole ladder.     *)
(***************************************************************************)
EXTENDS RetrySchedule

\* 5, 15 and 60 minutes.
DefaultBackoffMs == <<300000, 900000, 3600000>>

\* None, half a second, a second, 41 seconds, 20 minutes, 6 hours, 7 hours.
SomeRetryAfters == {0, 500, 1000, 41000, 1200000, 21600000, 25200000}

=============================================================================
