--------------------------- MODULE MCBreakerClients ----------------------------
(* Three concurrent calls; thresholds scaled down so that both the run of   *)
(* failures and the failure rate of the window can open the breaker.        *)
EXTENDS BreakerClients

CONSTANTS a, b, c

MCClients == {a, b, c}
MCQuitters == {c}
===============================================================================
