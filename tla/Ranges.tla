-------------------------------- MODULE Ranges --------------------------------
(***************************************************************************)
(* How the blocks still missing become byte ranges to request: the three   *)
(* loops behind a download pass (needed_block_ranges in src/src/matcher.rs,*)
(* byte_ranges_from_block_ranges and merge_byte_ranges in src/src/http.rs),*)
(* as folds, run on what ControlFile accepted, with a matcher whose blocks *)
(* become known in any order.                                              *)
(*                                                                         *)
(* RequestPlan says without a loop what a pass should request, in blocks;  *)
(* Assembly uses that.  The runs of this module check the two agree.       *)
(***************************************************************************)
EXTENDS ControlFile, RequestPlan, SequencesExt

CONSTANTS
    MaxGap      \* bound: the gap threshold, in bytes

ASSUME RangesAssumption == MaxGap \in Nat

VARIABLES
    threshold,  \* range_gap_threshold
    known       \* the blocks known

vars == <<controlVars, threshold, known>>

\* Blocks of the target: as many as there are checksums.
Count == records
Blocks == 0 .. Count - 1

-----------------------------------------------------------------------------
\* One turn of the loop over known_blocks: a run of unknown blocks opens at its
\* first one and is pushed by the known block after it.
NoStart == -1

Step(state, b) ==
    IF b \notin known /\ state.start = NoStart
    THEN [state EXCEPT !.start = b]
    ELSE IF b \in known /\ state.start # NoStart
    THEN [start |-> NoStart, ranges |-> Append(state.ranges, <<state.start, b>>)]
    ELSE state

\* Mistake: a run that reaches the end of the target is not pushed.
RangesLeftOpen ==
    FoldLeft(Step, [start |-> NoStart, ranges |-> <<>>],
             [i \in 1 .. Count |-> i - 1]).ranges

NeededBlockRanges ==
    LET end == FoldLeft(Step, [start |-> NoStart, ranges |-> <<>>],
                        [i \in 1 .. Count |-> i - 1])
    IN  IF end.start = NoStart THEN end.ranges
        ELSE Append(end.ranges, <<end.start, Count>>)

\* Inclusive byte ranges; the last ends with the file, not with its block.
ByteRange(r) ==
    <<r[1] * blocksize,
      IF r[2] * blocksize - 1 < length - 1 THEN r[2] * blocksize - 1 ELSE length - 1>>

ByteRangesFromBlockRanges(ranges) == [i \in DOMAIN ranges |-> ByteRange(ranges[i])]

\* Mistake: an inclusive end taken for an exclusive one.
BytesFromEnd(r, q) == IF q[1] > r[2] THEN q[1] - r[2] ELSE 0

\* Saturating subtraction: ranges that touch or overlap are no bytes apart.
BytesBetween(r, q) == IF q[1] > r[2] + 1 THEN q[1] - (r[2] + 1) ELSE 0

\* Mistake: a gap of exactly the threshold is not merged.
MergeBelow(merged, r) ==
    IF BytesBetween(Last(merged), r) < threshold
    THEN [merged EXCEPT ![Len(merged)] = <<@[1], r[2]>>]
    ELSE Append(merged, r)

Merge(merged, r) ==
    IF BytesBetween(Last(merged), r) <= threshold
    THEN [merged EXCEPT ![Len(merged)] = <<@[1], r[2]>>]
    ELSE Append(merged, r)

MergeByteRanges(ranges) ==
    IF Len(ranges) <= 1 THEN ranges
    ELSE FoldLeft(Merge, <<Head(ranges)>>, Tail(ranges))

Requested == MergeByteRanges(ByteRangesFromBlockRanges(NeededBlockRanges))

-----------------------------------------------------------------------------
Init == ControlInit /\ threshold = 0 /\ known = {}

Make == ControlNext /\ UNCHANGED <<threshold, known>>

\* The assembly is made of what was parsed.
Begin ==
    /\ at = "accepted"
    /\ at' = "planning"
    /\ threshold' \in 0 .. MaxGap
    /\ known' = {}
    /\ UNCHANGED <<makerVars, lines, body, limit, headerVars, records, reserved>>

MarkKnown ==
    /\ at = "planning"
    /\ \E b \in Blocks \ known : known' = known \cup {b}
    /\ UNCHANGED <<controlVars, threshold>>

Next == Make \/ Begin \/ MarkKnown

Spec == Init /\ [][Next]_vars

\* The parser runs on: every read brings a line, a record or an error.
FairSpec == Spec /\ WF_vars(ParseStep /\ UNCHANGED <<threshold, known>>)

-----------------------------------------------------------------------------
(* Properties. *)

Bytes(r) == r[1] .. r[2]

BytesOf(b) == {n \in 0 .. length - 1 : n \div blocksize = b}

\* What is requested, merged and clamped, is the plan Assembly works from: the
\* threshold counts in bytes, the plan in whole blocks.
RequestedAsPlanned ==
    at = "planning" => ToSet(Requested) =
        {ByteRange(r) : r \in Requests(Count, Blocks \ known, threshold \div blocksize)}

\* Every byte of a missing block is requested, no byte is requested twice or
\* past the end of the file, and a request begins and ends with missing bytes
\* so that merging never adds bytes at either side.
RequestsCoverWhatIsMissing ==
    at = "planning" =>
    /\ \A b \in Blocks \ known : \A n \in BytesOf(b) :
           \E i \in DOMAIN Requested : n \in Bytes(Requested[i])
    /\ \A i, j \in DOMAIN Requested :
           i < j => Requested[i][2] < Requested[j][1]
    /\ \A i \in DOMAIN Requested :
           /\ Bytes(Requested[i]) \subseteq 0 .. length - 1
           /\ Requested[i][1] \div blocksize \notin known
           /\ Requested[i][2] \div blocksize \notin known

\* The known bytes fetched again come in runs no longer than the threshold,
\* and requests are further apart than it.
GapsAreBounded ==
    at = "planning" =>
    /\ \A i \in DOMAIN Requested : \A n \in Bytes(Requested[i]) :
           \E m \in n - threshold .. n :
               m \in Bytes(Requested[i]) /\ m \div blocksize \notin known
    /\ \A i \in 1 .. Len(Requested) - 1 :
           Requested[i + 1][1] - Requested[i][2] - 1 > threshold
==============================================================================
