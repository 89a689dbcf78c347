--------------------------- MODULE MCWorkerBatches ---------------------------
(* Small instances of WorkerBatches. *)
EXTENDS WorkerBatches, TLC

CONSTANTS a, b, c, expirer, rec1, rec2, buyer

\* Two lines in one reservation, one in another.
TwoAndOne == <<{a, b}, {c}>>

\* A line in each of three reservations.
OneEach == <<{a}, {b}, {c}>>
=============================================================================
