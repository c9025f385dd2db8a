---------------------------- MODULE LimiterPlaces ----------------------------
(* Where a limiter keeps its counts: Redis, which all API instances share,  *)
(* and the memory of each instance, used while Redis does not answer.      *)
EXTENDS Naturals

CONSTANTS Instances,    \* the API processes
          Shared,       \* Redis
          Horizon       \* bound: ticks of the clock

ASSUME PlacesAssumption == Shared \notin Instances /\ Horizon \in Nat

Places == Instances \cup {Shared}

\* The observers of the limiters have not started to watch.
NotYet == Horizon + 1

=============================================================================
