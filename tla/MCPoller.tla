------------------------------ MODULE MCPoller ------------------------------
(* Instances of Poller for TLC: two buses of one hour, the second reported     *)
(* later, and a tram of the next hour.                                         *)
EXTENDS Poller

CONSTANTS b0, b1, t2

MCPings == {b0, b1, t2}
MCModeOf == [r \in {b0, b1, t2} |-> IF r = t2 THEN 2 ELSE 1]
MCTimeOf == [r \in {b0, b1, t2} |-> IF r = b0 THEN 0 ELSE IF r = b1 THEN 1 ELSE 2]

=============================================================================
