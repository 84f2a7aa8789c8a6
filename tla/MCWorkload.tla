----------------------------- MODULE MCWorkload -----------------------------
(* Workload: a range whose counts are 0, 1 and 2 with 17 * 17 among them, and *)
(* two whose counts are all below the margin, one of them with 5 * 7 and 37.  *)
EXTENDS Workload

MCStarts == {1, 35, 287}

=============================================================================
