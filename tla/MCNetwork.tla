----------------------------- MODULE MCNetwork -----------------------------
(***************************************************************************)
(* Two clients, the first used by two threads.                             *)
(***************************************************************************)
EXTENDS Network, TLC
CONSTANTS a, b, d

MCClientOf == [t \in Callers |-> IF t = d THEN 2 ELSE 1]

Run(ofA, ofB, ofD, calls, timeouts, breaks, fails, errors, silent) ==
  [ops |-> a :> ofA @@ b :> ofB @@ d :> ofD, calls |-> calls, timeouts |-> timeouts,
   breaks |-> breaks, fails |-> fails, errors |-> errors, silent |-> silent]

\* One thread on a connection that breaks, late answers, and a closed client; two
\* threads on one client; two clients with transactions.
MCPrograms ==
  {Run({"select", "insert", "close"}, {}, {}, 3, 2, 1, 0, FALSE, FALSE),
   Run({"select", "insert"}, {"ping", "close"}, {}, 2, 1, 0, 0, TRUE, FALSE),
   Run({"select"}, {"insert"}, {}, 2, 0, 1, 0, TRUE, FALSE),
   Run({"insert", "transaction"}, {}, {"insert"}, 4, 0, 1, 1, FALSE, FALSE),
   Run({"transaction"}, {}, {"transaction"}, 4, 0, 1, 0, FALSE, TRUE)}
=============================================================================
