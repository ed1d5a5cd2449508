------------------------------ MODULE MCReporting -----------------------------
(* Small instances of Reporting for TLC.                                   *)
EXTENDS Reporting, TLC

Config(on, local, max, retries, dest) ==
  [enabled |-> on, local_only |-> local, max_queue_size |-> max,
   max_retries |-> retries, destination |-> dest]

\* One configuration of each kind flush distinguishes.
MCConfigs ==
  {Config(TRUE, FALSE, 2, 2, "generic"), Config(TRUE, FALSE, 1, 0, "durable"),
   Config(TRUE, FALSE, 2, 1, "invalid"), Config(FALSE, TRUE, 2, 1, "none")}

\* Calls of one kind are interchangeable.
MCSymmetry == Permutations(Verifiers) \cup Permutations(Flushers)

\* The destinations that deliver, for rows of either format; an operator may
\* change from one to the other.
MCDelivering ==
  {Config(TRUE, FALSE, 3, 0, "generic"), Config(TRUE, FALSE, 3, 1, "durable")}
===============================================================================
