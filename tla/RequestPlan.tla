----------------------------- MODULE RequestPlan -----------------------------
(***************************************************************************)
(* What one download pass asks the server for, said without an algorithm:  *)
(* the block ranges that ZsyncAssembly::download_missing_blocks works      *)
(* through, as a function of the blocks still missing.  Ranges.tla holds   *)
(* the three loops that compute them and checks the two agree.             *)
(***************************************************************************)
EXTENDS Integers

\* The block distance up to which two runs share a request: the runs are
\* (s2 - e1) * blocksize bytes apart, so the byte threshold is a whole number
\* of blocks here.
Opens(missing, gap, b) ==
    /\ b \in missing
    /\ \A m \in missing : m < b => b - m - 1 > gap

Closes(missing, gap, b) ==
    /\ b \in missing
    /\ \A m \in missing : b < m => m - b - 1 > gap

\* The half-open block ranges <<first, end>> of one pass over `missing`, a set
\* of blocks below n: each runs from an opening block to the closing block that
\* follows it with no other opening block between.
Requests(n, missing, gap) ==
    {r \in (0 .. n - 1) \X (1 .. n) :
        /\ Opens(missing, gap, r[1])
        /\ Closes(missing, gap, r[2] - 1)
        /\ r[1] < r[2]
        /\ \A b \in missing : r[1] < b /\ b < r[2] => ~Opens(missing, gap, b)}
==============================================================================
