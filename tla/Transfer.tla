------------------------------- MODULE Transfer -------------------------------
(***************************************************************************)
(* What one zsync transfer promises whoever looks at the output path: the  *)
(* file there is the old one, or none, until every block of the target is  *)
(* held and verified, and from then on it is the whole target.  How blocks *)
(* are found, fetched and stored is Assembly.tla, which implements this.   *)
(***************************************************************************)
EXTENDS Integers

CONSTANTS
    Blocks      \* the blocks of the target

VARIABLES
    have,       \* the blocks this transfer counts as known
    output,     \* the file at the output path
    active      \* whether a transfer is under way

tvars == <<have, output, active>>

TInit ==
    /\ have = {}
    /\ output \in {"none", "old"}
    /\ active = TRUE

\* Blocks are found or downloaded; one that is known stays known.
Gain ==
    /\ active
    /\ \E found \in SUBSET Blocks : have' = have \cup found
    /\ UNCHANGED <<output, active>>

\* The target takes the place of whatever was at the output path.
Finish ==
    /\ active
    /\ have = Blocks
    /\ output' = "target"
    /\ active' = FALSE
    /\ UNCHANGED have

\* The transfer fails, is abandoned or is killed: the output is not touched.
Fail ==
    /\ active
    /\ active' = FALSE
    /\ UNCHANGED <<have, output>>

\* A later transfer starts from nothing.
Begin ==
    /\ ~active
    /\ active' = TRUE
    /\ have' = {}
    /\ UNCHANGED output

TNext == Gain \/ Finish \/ Fail \/ Begin

TSpec == TInit /\ [][TNext]_tvars
==============================================================================
