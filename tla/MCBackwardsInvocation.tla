----------------------- MODULE MCBackwardsInvocation -----------------------
(***************************************************************************)
(* BackwardsInvocation on one call, or on two that share the connection.   *)
(***************************************************************************)
EXTENDS BackwardsInvocation, TLC

CONSTANTS call1, call2

MCInvocations == {call1, call2}
MCHandedOn == {HandedOn}
MCAnswered == AllMethods \ {storage_set}
MCStorageSet == {storage_set}
CallSymmetry == Permutations(MCInvocations)
=============================================================================
