----------------------------- MODULE CountLedger -----------------------------
(* What the health counters promise about poll attempts: the durable count of  *)
(* every hour only grows, and by one attempt at a time.                        *)
EXTENDS Naturals

CONSTANT Hours

VARIABLE count

CountInit == count = [h \in Hours |-> 0]

CountAttempt(h) == count' = [count EXCEPT ![h] = @ + 1]

CountSpec == CountInit /\ [][\E h \in Hours : CountAttempt(h)]_count

==============================================================================
