---------------------------------- MODULE Cli ----------------------------------
(***************************************************************************)
(* The zsync program (main in src/src/bin/zsync.rs) driving one Assembly:  *)
(* scan the inputs, scan the temporary file, download with retries, then   *)
(* complete.  Every step is a step of the caller, which makes calls of     *)
(* Assembly and reads what they returned, or a step of the call under way. *)
(*                                                                         *)
(* Left out: messages and progress events, and the waits between retries,  *)
(* which only delay.  The program never raises the abort flag.             *)
(***************************************************************************)
EXTENDS Assembly

CONSTANTS
    Inputs,     \* input files named on the command line
    Retries     \* --retries

ASSUME CliAssumption == Inputs \in Nat /\ Retries \in Nat

VARIABLES
    at,              \* where main is
    inputs,          \* input files left to scan
    failures,        \* failures
    knownAtFailure,  \* known_at_failure
    dry,             \* history: retries made since the last block became known
    retried          \* history: retries made by this run

cliVars == <<at, inputs, failures, knownAtFailure>>
allVars == <<vars, cliVars, dry, retried>>

Exited == {"unstarted", "exit0", "exit1", "killed"}

CliTypeOK ==
    /\ TypeOK
    /\ at \in Exited \cup {"fetch", "inputs", "self", "attempt", "returned",
                           "check", "failing", "completing"}
    /\ inputs \in 0 .. Inputs
    /\ failures \in 0 .. Retries
    /\ knownAtFailure \in 0 .. NBlocks
    /\ dry \in Nat /\ retried \in Nat

CliStart ==
    /\ at = "fetch" /\ inputs = Inputs
    /\ failures = 0 /\ knownAtFailure = 0
    /\ dry = 0 /\ retried = 0

CliInit == Init /\ CliStart

\* from_url: the control file is fetched and parsed and the assembly made, or
\* the program ends having made none.
Fetch ==
    /\ at = "fetch"
    /\ at' \in {"inputs", "unstarted"}
    /\ UNCHANGED <<vars, inputs, failures, knownAtFailure, dry, retried>>

\* Each input is scanned; an error is only a warning.
ScanInput ==
    /\ at = "inputs" /\ pc = "idle"
    /\ inputs > 0
    /\ SubmitSourceFile
    /\ inputs' = inputs - 1
    /\ UNCHANGED <<at, failures, knownAtFailure, dry, retried>>

\* The temporary file is worth scanning if a block was found and one is still
\* missing.
ScanSelf ==
    /\ at = "inputs" /\ pc = "idle"
    /\ inputs = 0
    /\ IF known # {} /\ known # Blocks THEN SubmitSelfReferential ELSE UNCHANGED vars
    /\ at' = "self"
    /\ UNCHANGED <<inputs, failures, knownAtFailure, dry, retried>>

BeginDownload ==
    /\ at = "self" /\ pc = "idle"
    /\ at' = IF known = Blocks THEN "check" ELSE "attempt"
    /\ failures' = 0
    /\ knownAtFailure' = Cardinality(known)
    /\ UNCHANGED <<vars, inputs, dry, retried>>

Attempt ==
    /\ at = "attempt" /\ pc = "idle"
    /\ DownloadMissingBlocks
    /\ at' = "returned"
    /\ UNCHANGED <<inputs, failures, knownAtFailure, dry, retried>>

\* Mistake: passes are made until the target is complete.
PassUntilComplete ==
    /\ at = "returned" /\ pc = "idle"
    /\ result \in {"ok", "nothing"}
    /\ at' = IF known = Blocks THEN "check" ELSE "attempt"
    /\ UNCHANGED <<vars, inputs, failures, knownAtFailure, dry, retried>>

\* A pass that added blocks is followed by another, one that added none ends
\* the loop.
PassReturned ==
    /\ at = "returned" /\ pc = "idle"
    /\ result \in {"ok", "nothing"}
    /\ at' = IF result = "ok" THEN "attempt" ELSE "check"
    /\ UNCHANGED <<vars, inputs, failures, knownAtFailure, dry, retried>>

\* Mistake: progress does not start the count over.
NoReset == failures

\* Mistake: neither does it take any progress to.
AlwaysReset == IF Cardinality(known) >= knownAtFailure THEN 0 ELSE failures

\* The failures in a row, as counted when another one comes in.
InARow == IF Cardinality(known) > knownAtFailure THEN 0 ELSE failures

\* Mistake: the failures are counted but not held against --retries.
RetryForever ==
    /\ at = "returned" /\ pc = "idle"
    /\ result = "transient"
    /\ failures' = InARow + 1
    /\ knownAtFailure' = Cardinality(known)
    /\ dry' = dry + 1 /\ retried' = retried + 1
    /\ at' = "attempt"
    /\ UNCHANGED <<vars, inputs>>

RetryPass ==
    /\ at = "returned" /\ pc = "idle"
    /\ result = "transient"
    /\ InARow < Retries
    /\ failures' = InARow + 1
    /\ knownAtFailure' = Cardinality(known)
    /\ dry' = dry + 1 /\ retried' = retried + 1
    /\ at' = "attempt"
    /\ UNCHANGED <<vars, inputs>>

\* Mistake: exit() is called with the assembly alive.
ExitAtOnce ==
    /\ at = "returned" /\ pc = "idle"
    /\ \/ result \in {"permanent", "io", "aborted", "nourl"}
       \/ result = "transient" /\ InARow >= Retries
    /\ at' = "exit1"
    /\ UNCHANGED <<vars, inputs, failures, knownAtFailure, dry, retried>>

\* exit() skips destructors, so the assembly is dropped first.
GiveUp ==
    /\ at = "returned" /\ pc = "idle"
    /\ \/ result \in {"permanent", "io", "aborted", "nourl"}
       \/ result = "transient" /\ InARow >= Retries
    /\ Abandon
    /\ failures' = InARow
    /\ knownAtFailure' = Cardinality(known)
    /\ at' = "failing"
    /\ UNCHANGED <<inputs, dry, retried>>

\* Blocks still missing end the program; otherwise the file is completed.
Check ==
    /\ at = "check" /\ pc = "idle"
    /\ IF known = Blocks THEN Complete /\ at' = "completing"
                         ELSE Abandon /\ at' = "failing"
    /\ UNCHANGED <<inputs, failures, knownAtFailure, dry, retried>>

Exit ==
    /\ at \in {"failing", "completing"} /\ pc = "gone"
    /\ at' = IF at = "completing" /\ result = "done" THEN "exit0" ELSE "exit1"
    /\ UNCHANGED <<vars, inputs, failures, knownAtFailure, dry, retried>>

\* A step of the call under way.
CallStep ==
    /\ Step
    /\ dry' = IF known' = known THEN dry ELSE 0
    /\ UNCHANGED <<cliVars, retried>>

Stopped ==
    /\ at \notin Exited
    /\ Kill \/ PowerLoss
    /\ at' = "killed"
    /\ UNCHANGED <<inputs, failures, knownAtFailure, dry, retried>>

\* The next run of the program.
RunAgain ==
    /\ at \in Exited
    /\ Restart
    /\ at' = "fetch" /\ inputs' = Inputs
    /\ failures' = 0 /\ knownAtFailure' = 0
    /\ dry' = 0 /\ retried' = 0

CliStep == \/ Fetch \/ ScanInput \/ ScanSelf \/ BeginDownload \/ Attempt
           \/ PassReturned \/ RetryPass \/ GiveUp \/ Check \/ Exit \/ CallStep

CliNext == CliStep \/ Stopped \/ RunAgain

CliSpec == CliInit /\ [][CliNext]_allVars

\* The program runs on, and every response ends or fails.
CliFairSpec == CliSpec /\ WF_allVars(CliStep)

-----------------------------------------------------------------------------
(* Properties. *)

\* A program that has made its assembly and ends by itself leaves no temporary
\* file: exit() skips Drop, so each exit has to drop the assembly before it.  One
\* that gets no control file ends before that, and leaves what a killed run left.
ExitLeavesNoTemp == at \in {"exit0", "exit1"} => ~exists

\* Success is reported only when the output is the target.
ExitZeroMeansWhole == at = "exit0" => out = "target"

\* The program gives up on the network only when the retries allowed have all
\* been spent in a row, with not one block gained since the first of them: the
\* count is kept at failures and compares totals, yet misses no progress.
GivesUpAfterRetriesInARow ==
    at = "failing" /\ result = "transient" => dry = Retries

\* A server that keeps failing cannot keep the program at it: each block gained
\* buys at most one more round of retries.
RetriesAreBounded == retried <= Retries * (NBlocks + 1)

\* The program ends, whatever the server and the disk do.
Exits == <>(at \in Exited)

\* When the program reports that blocks did not match, every missing block
\* arrived and was refused.
MissingWasRefused ==
    at = "failing" /\ result = "nothing" => Blocks \ known \subseteq refused
==============================================================================
