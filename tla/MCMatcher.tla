------------------------------- MODULE MCMatcher -------------------------------
(***************************************************************************)
(* The shapes of target and seed on which Matcher is run.                  *)
(***************************************************************************)
EXTENDS Matcher

Input(shift, seq, width, abits, bytes, length) ==
    [blocksize |-> 2 ^ shift, blockshift |-> shift, seq |-> seq, width |-> width,
     abits |-> abits, bbits |-> width, bytes |-> bytes, length |-> length, self |-> FALSE]

\* One byte of two is stored of the b sum, none of the a sum.
OneByte(c) == [c EXCEPT !.abits = 0, !.bbits = c.width \div 2]

TempFile(shift, seq, width, abits, bytes) ==
    [Input(shift, seq, width, abits, bytes, 0) EXCEPT !.self = TRUE]

\* The temporary file, with single matches and with pairs.
TempFileCases ==
    {TempFile(0, 1, 2, 2, {0, 1, 2}), TempFile(1, 1, 2, 0, {0, 1}),
     TempFile(0, 2, 2, 0, {0, 1})}

\* Single matches in two chunks, and, with a shift as wide as the sums, in a file
\* that ends with its chunk; pairs in two chunks of one-byte blocks, whose sums
\* collide with one bit or do not; pairs of longer blocks; a file too short to
\* scan.
MCCases ==
    TempFileCases \cup
    {Input(1, 1, 2, 1, {0, 1}, 5),
     Input(1, 1, 1, 0, {0, 1}, 4),
     Input(0, 2, 1, 0, {0, 1, 2}, 5),
     Input(0, 2, 2, 2, {0, 1}, 6),
     Input(1, 2, 2, 0, {0, 1}, 4),
     Input(1, 2, 2, 0, {0, 1}, 3)}

OneByteCases == {OneByte(Input(0, 2, 2, 0, {0, 1, 2}, 4)),
                 OneByte(Input(0, 1, 2, 0, {0, 1, 2}, 4))}
==============================================================================
