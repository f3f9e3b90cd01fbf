-------------------------------- MODULE MCParts --------------------------------
(***************************************************************************)
(* Small instances of the parts.  A scenario of Secret Manager opens one   *)
(* or two of its dimensions at a time, which the others multiply: versions *)
(* and re-creation, expiry, delayed destruction, rotation, a               *)
(* customer-managed key, and the key with delayed destruction; each but    *)
(* the rotation and the last with one failing request.  Of `up` there are  *)
(* six components in the groups of its steps.                              *)
(***************************************************************************)
EXTENDS Parts

CONSTANTS c1, c2, c3, w1, w2, h1, h2

MCRawConfigs == [attempts: {-1, 0, 2}, min: {0, 1, 3}, max: {0, 25},
                 doublings: {0, 1, 3}, duration: {0, 1}]

Quiet == [keyed |-> FALSE, versions |-> 1, made |-> 1, expiries |-> {0}, rotations |-> {0},
          ttls |-> {0}, base |-> 1, offset |-> 0, faults |-> 0]

MCScenarios == {
    [Quiet EXCEPT !.versions = 2, !.made = 2, !.faults = 1],
    [Quiet EXCEPT !.made = 2, !.expiries = {0, 1}, !.base = 2, !.faults = 1],
    [Quiet EXCEPT !.ttls = {1}, !.base = 2, !.offset = 1, !.faults = 1],
    [Quiet EXCEPT !.expiries = {0, 1}, !.rotations = {0, 1}, !.base = 2, !.offset = 2],
    [Quiet EXCEPT !.keyed = TRUE, !.made = 2, !.faults = 1],
    [Quiet EXCEPT !.keyed = TRUE, !.ttls = {1}, !.base = 2]}

MCGroups == <<0, 1, 1, 2, 2, 0>>
==============================================================================
