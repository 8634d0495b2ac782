-------------------------- MODULE MCEnforcedPipeline ---------------------------
(* Two calls of one operation (a retry, a double click) and one call of     *)
(* another, over a quota window that has room for two of them.              *)
EXTENDS EnforcedPipeline, TLC

CONSTANTS first, retry, other, op, uuid, quota, user

MCCalls == {first, retry, other}
MCKeys == {op, uuid}
MCOperations == {op}
MCKeyOf == first :> op @@ retry :> op @@ other :> uuid
MCScopeOf == [c \in Calls \ {retry} |-> user]
MCBuckets == {quota}
MCLimit == quota :> 2
MCBackfill == quota :> 0
MCAsk == [c \in Calls |-> quota :> 1]
MCSlow == {other}
MCFaulty == {first}
MCMortal == {other}

(* Two calls that share nothing but the window, the breaker and the cap,    *)
(* where everything may go wrong with either.                               *)
MCPair == {first, other}
MCPairKeyOf == first :> op @@ other :> uuid

(* A call and its retry, where nothing goes wrong but the provider call.    *)
MCRetried == {first, retry}
MCRetriedKeyOf == first :> op @@ retry :> op
Nobody == {}
===============================================================================
