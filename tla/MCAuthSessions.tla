--------------------------- MODULE MCAuthSessions ---------------------------
(* Small instances of AuthSessions for TLC.                                *)
EXTENDS AuthSessions, TLC

CONSTANTS w1, r1, r2

OneWallet == {w1}
TwoRequests == {r1, r2}
FirstOnly == {1}
RequestSymmetry == Permutations(Requests)
=============================================================================
