----------------------------- MODULE MCGateway -----------------------------
(* Small instances of Gateway.                                             *)
EXTENDS Gateway, TLC

CONSTANTS d1, d2, k1, k2

Perms == Permutations(Devices)

\* With an empty report only the polling order and the queue matter.
NoEntries == <<>>
TwoEntries == <<k1, k2>>
=============================================================================
