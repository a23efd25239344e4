---------------------------- MODULE MCIpTracker ----------------------------
(* Small instances of IpTracker for TLC.                                   *)
EXTENDS IpTracker

CONSTANTS r1, r2, e1, e2

TwoRequests == {r1, r2}
TwoEndpoints == {e1, e2}
=============================================================================
