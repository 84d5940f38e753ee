------------------------------- MODULE MCRanges -------------------------------
(***************************************************************************)
(* The hash lengths on which Ranges is run: the default, one that          *)
(* generate can choose for several blocks and for one, and two refused.    *)
(***************************************************************************)
EXTENDS Ranges

MCHashTried == {<<1, 4, 16>>, <<2, 2, 4>>, <<1, 2, 4>>, <<0, 0, 0>>, <<2, 1, 17>>}
MCLengths == 0 .. 14
==============================================================================
