--------------------------- MODULE MCCloudScheduler ---------------------------
(* CloudScheduler for TLC.                                                   *)
EXTENDS CloudScheduler

RetryForAWhile ==
    {[count |-> 2, min |-> 1, max |-> 1, doublings |-> 1, duration |-> 1]}
==============================================================================
