----------------------------- MODULE Progress_proofs -----------------------------
(***************************************************************************)
(* Theorems about the program and what it shows of its progress, for any   *)
(* number of blocks, inputs, retries, runs and whole percents, and any     *)
(* mode.  Its steps are steps of the assembly, whose theorems it uses.     *)
(***************************************************************************)
EXTENDS Progress, Assembly_proofs

-----------------------------------------------------------------------------
(* The program. *)

LEMMA ProgramStepIsStep == [CliNext]_allVars => [Next]_vars
<1> SUFFICES ASSUME [CliNext]_allVars PROVE [Next]_vars
  OBVIOUS
<1>1. CASE CliStep
  BY <1>1 DEF CliStep, Fetch, ScanInput, ScanSelf, BeginDownload, Attempt, PassReturned,
     RetryPass, GiveUp, Check, Exit, CallStep, Next, Call
<1>2. CASE Stopped
  BY <1>2 DEF Stopped, Next, Environment
<1>3. CASE RunAgain
  BY <1>3 DEF RunAgain, Next, Environment
<1>4. CASE UNCHANGED allVars
  BY <1>4 DEF allVars
<1> QED BY <1>1, <1>2, <1>3, <1>4 DEF CliNext

LEMMA ProgramIsAssembly == CliSpec => Spec
BY ProgramStepIsStep, PTL DEF CliSpec, CliInit, Spec

\* What a step of a call may do to what the program reads.
StepEffect ==
    /\ pc \in Busy
    /\ known \subseteq known'
    /\ pc \in ScanTops \cup ScanWrites =>
           /\ pc' \in ScanTops \cup ScanWrites \cup {"idle"}
           /\ result' \in {result, "ok", "io", "aborted"}
    /\ pc \in Passing => pc' \in Passing \cup {"idle"}
    /\ pc \in Completing => pc' \in Completing \cup {"drop"} /\ known' = known
    /\ pc = "drop" => pc' = "gone" /\ known' = known /\ result' = result
    /\ pc' \in {"drop", "gone"} => pc \in Completing \cup {"drop"}

LEMMA StepHasEffect == TypeOK /\ Step => StepEffect
<1> SUFFICES ASSUME TypeOK, Step PROVE StepEffect
  OBVIOUS
<1> USE DEF StepEffect, Busy, ScanTops, ScanWrites, Passing, Completing, matchVars,
            passVars, fileVars, outVars, ReturnOnly, Return, DropWith
<1>1. CASE Scan
  <2>1. CASE ScanStops BY <2>1 DEF ScanStops
  <2>2. CASE ScanChunk BY <2>2 DEF ScanChunk
  <2>3. CASE ScanWrite BY <2>3 DEF ScanWrite
  <2>4. CASE ScanWriteFails BY <2>4 DEF ScanWriteFails, WriteFails
  <2>5. CASE ScanChunkDone BY <2>5 DEF ScanChunkDone
  <2> QED BY <1>1, <2>1, <2>2, <2>3, <2>4, <2>5 DEF Scan
<1>2. CASE Pass
  <2>1. CASE PassAborts BY <2>1 DEF PassAborts
  <2>2. CASE OpenRange BY <2>2 DEF OpenRange
  <2>3. CASE OpenRangeFails BY <2>3 DEF OpenRangeFails
  <2>4. CASE SkipBlock BY <2>4 DEF SkipBlock, BlockInBuffer
  <2>5. CASE AcceptBlock BY <2>5 DEF AcceptBlock, BlockInBuffer
  <2>6. CASE BlockWrite BY <2>6 DEF BlockWrite
  <2>7. CASE BodyFails BY <2>7 DEF BodyFails
  <2>8. CASE BodyEnds BY <2>8 DEF BodyEnds
  <2>9. CASE AcceptTail BY <2>9 DEF AcceptTail
  <2>10. CASE TailWrite BY <2>10 DEF TailWrite
  <2>11. CASE PassWriteFails BY <2>11 DEF PassWriteFails, WriteFails
  <2>12. CASE PassDone BY <2>12 DEF PassDone
  <2> QED BY <1>2, <2>1, <2>2, <2>3, <2>4, <2>5, <2>6, <2>7, <2>8, <2>9, <2>10,
             <2>11, <2>12 DEF Pass
<1>3. CASE Finish
  <2>1. CASE CompleteFails BY <2>1 DEF CompleteFails
  <2>2. CASE EnsureFile BY <2>2 DEF EnsureFile
  <2>3. CASE SetLen BY <2>3 DEF SetLen
  <2>4. CASE CheckSha BY <2>4 DEF CheckSha
  <2>5. CASE SyncAll BY <2>5 DEF SyncAll
  <2>6. CASE CarryPermissions BY <2>6 DEF CarryPermissions
  <2>7. CASE Rename BY <2>7 DEF Rename
  <2>8. CASE DropAssembly BY <2>8 DEF DropAssembly
  <2> QED BY <1>3, <2>1, <2>2, <2>3, <2>4, <2>5, <2>6, <2>7, <2>8 DEF Finish
<1> QED BY <1>1, <1>2, <1>3 DEF Step

-----------------------------------------------------------------------------
(* Where the call is, for each place main can be. *)

Scanning == ScanTops \cup ScanWrites

Place ==
    /\ at \in Exited \cup {"fetch", "inputs", "self", "attempt", "returned", "check",
                           "failing", "completing"}
    /\ at \in {"fetch", "unstarted", "attempt", "check"} => pc = "idle"
    /\ at \in {"inputs", "self"} => pc \in Scanning \cup {"idle"}
    /\ at = "returned" => pc \in Passing \cup {"idle"}
    /\ at = "failing" => pc \in {"drop", "gone"}
    /\ at = "completing" => pc \in Completing \cup {"drop", "gone"}
    /\ at \in {"exit0", "exit1"} => pc = "gone"
    /\ at = "killed" => pc = "dead"
    /\ at = "exit0" => result = "done"
    /\ at \in {"fetch", "inputs", "self", "check"} => result # "transient"

LEMMA PlaceKept ==
    ASSUME TypeOK, Place, [CliNext]_allVars
    PROVE  Place'
<1> USE DEF Place, Exited, Scanning, ScanTops, ScanWrites, Passing, Completing,
            ReturnOnly, Return, DropWith, cliVars
<1>1. CASE Fetch BY <1>1 DEF Fetch, vars
<1>2. CASE ScanInput BY <1>2 DEF ScanInput, SubmitSourceFile
<1>3. CASE ScanSelf BY <1>3 DEF ScanSelf, SubmitSelfReferential, vars
<1>4. CASE BeginDownload BY <1>4 DEF BeginDownload, vars
<1>5. CASE Attempt BY <1>5 DEF Attempt, DownloadMissingBlocks
<1>6. CASE PassReturned BY <1>6 DEF PassReturned, vars
<1>7. CASE RetryPass BY <1>7 DEF RetryPass, vars
<1>8. CASE GiveUp BY <1>8 DEF GiveUp, Abandon
<1>9. CASE Check BY <1>9 DEF Check, Complete, Abandon
<1>10. CASE Exit BY <1>10 DEF Exit, vars
<1>11. CASE CallStep
  <2>1. StepEffect /\ UNCHANGED at
    BY <1>11, StepHasEffect DEF CallStep
  <2> QED BY <2>1 DEF StepEffect, Busy
<1>12. CASE Stopped BY <1>12 DEF Stopped, Kill, PowerLoss
<1>13. CASE RunAgain BY <1>13 DEF RunAgain, Restart
<1>14. CASE UNCHANGED allVars BY <1>14 DEF allVars, vars
<1> QED BY <1>1, <1>2, <1>3, <1>4, <1>5, <1>6, <1>7, <1>8, <1>9, <1>10, <1>11,
           <1>12, <1>13, <1>14 DEF CliNext, CliStep

THEOREM PlaceHolds == CliSpec => []Place
<1>1. CliInit => Place
  BY DEF CliInit, CliStart, Init, Place, Exited
<1> QED BY <1>1, PlaceKept, ProgramIsAssembly, TypeCorrect, PTL DEF CliSpec

-----------------------------------------------------------------------------
(* Exits. *)

\* Whatever fails, a program that ends by itself has dropped its assembly, which
\* removes the temporary file.
THEOREM ExitsClean == CliSpec => []ExitLeavesNoTemp
<1>1. Place /\ NothingLeftBehind => ExitLeavesNoTemp
  BY DEF Place, NothingLeftBehind, ExitLeavesNoTemp
<1> QED BY <1>1, PlaceHolds, ProgramIsAssembly, TempRemoved, PTL

\* complete() has succeeded only if it has renamed the target into place.
DoneMeansTarget == result = "done" => pc \in {"drop"} \cup Ended /\ out = "target"

LEMMA DoneKept ==
    ASSUME TypeOK, LifeCycle, Assured, DoneMeansTarget, [Next]_vars
    PROVE  DoneMeansTarget'
<1> USE DEF DoneMeansTarget, Ended, ReturnOnly, Return, DropWith, matchVars, passVars,
            fileVars, outVars, ScanTops, ScanWrites, Passing, Completing
<1>1. CASE Call
  BY <1>1 DEF Call, SubmitSourceFile, SubmitSelfReferential, DownloadMissingBlocks,
     Complete, Abandon
<1>2. CASE Scan
  BY <1>2 DEF Scan, ScanStops, ScanChunk, ScanWrite, ScanWriteFails, ScanChunkDone,
     WriteFails
<1>3. CASE Pass
  <2>1. pc \in Passing /\ (result' = result \/ result' # "done")
    BY <1>3 DEF Pass, PassAborts, OpenRange, OpenRangeFails, SkipBlock, BlockInBuffer,
       AcceptBlock, BlockWrite, BodyFails, BodyEnds, AcceptTail, TailWrite,
       PassWriteFails, PassDone, WriteFails
  <2> QED BY <2>1
<1>4. CASE Finish
  <2>1. CASE Rename
    BY <2>1 DEF Rename, Assured
  <2>2. CASE DropAssembly
    BY <2>2 DEF DropAssembly
  <2>3. CASE Finish /\ ~Rename /\ ~DropAssembly
    BY <2>3 DEF Finish, CompleteFails, EnsureFile, SetLen, CheckSha, SyncAll,
       CarryPermissions
  <2> QED BY <1>4, <2>1, <2>2, <2>3
<1>5. CASE RaiseAbort \/ LowerAbort \/ Kill
  BY <1>5 DEF RaiseAbort, LowerAbort, Kill
<1>6. CASE PowerLoss
  BY <1>6 DEF PowerLoss, LifeCycle
<1>7. CASE Restart
  BY <1>7 DEF Restart
<1>8. CASE UNCHANGED vars
  BY <1>8 DEF vars
<1> QED BY <1>1, <1>2, <1>3, <1>4, <1>5, <1>6, <1>7, <1>8 DEF Next, Step, Environment

\* Success means the output is the target, on the condition on which the output
\* is safe at all.
THEOREM ExitZeroIsWhole ==
    ASSUME HasSha \/ (~IOFails /\ (ShortBodies => ZeroTail = {}))
    PROVE  CliSpec => []ExitZeroMeansWhole
<1>1. Init => DoneMeansTarget
  BY DEF Init, DoneMeansTarget
<1>2. Spec => []DoneMeansTarget
  BY <1>1, DoneKept, TypeCorrect, LifeCycleHolds, AssuredHolds, PTL DEF Spec
<1>3. Place /\ DoneMeansTarget => ExitZeroMeansWhole
  BY DEF Place, DoneMeansTarget, ExitZeroMeansWhole
<1> QED BY <1>2, <1>3, PlaceHolds, ProgramIsAssembly, PTL

-----------------------------------------------------------------------------
(* Retries. *)

LEMMA BlockCount ==
    ASSUME NEW some \in SUBSET Blocks
    PROVE  IsFiniteSet(some) /\ Cardinality(some) \in 0 .. NBlocks
<1>1. IsFiniteSet(0 .. NBlocks - 1) /\ Cardinality(0 .. NBlocks - 1) = NBlocks
  BY FS_Interval, AssemblyAssumption DEF AssemblyAssumption
<1>2. some \subseteq 0 .. NBlocks - 1
  BY DEF Blocks
<1>3. IsFiniteSet(some) /\ Cardinality(some) <= NBlocks
  BY <1>1, <1>2, FS_Subset
<1> QED BY <1>3, FS_CardinalityType

\* Blocks only become known while a call is under way, and are counted.
LEMMA KnownGrows ==
    ASSUME TypeOK, TypeOK', known \subseteq known'
    PROVE  /\ Cardinality(known) <= Cardinality(known')
           /\ known # known' => Cardinality(known) < Cardinality(known')
<1>1. known \in SUBSET Blocks /\ known' \in SUBSET Blocks
  BY DEF TypeOK, MatchOK
<1>2. /\ IsFiniteSet(known')
      /\ Cardinality(known') \in Nat /\ Cardinality(known) \in Nat
  BY <1>1, BlockCount
<1> QED BY <1>2, FS_Subset

\* The totals main compares at failures miss no progress: while it downloads, dry
\* is its count of failures if nothing was gained since the last, and zero if
\* something was.  Each round of retries is paid for by a block.
Counting ==
    /\ inputs \in 0 .. Inputs
    /\ failures \in 0 .. Retries
    /\ knownAtFailure \in 0 .. NBlocks
    /\ dry \in Nat /\ retried \in Nat
    /\ at \in {"fetch", "inputs", "self", "unstarted"} => dry = 0 /\ retried = 0
    /\ at \in {"attempt", "returned"} =>
           /\ knownAtFailure <= Cardinality(known)
           /\ dry = IF Cardinality(known) = knownAtFailure THEN failures ELSE 0
    /\ retried <= Retries * knownAtFailure + failures
    /\ GivesUpAfterRetriesInARow

\* A gain of one block pays for one round of retries.
LEMMA Round ==
    ASSUME NEW k \in Nat, NEW n \in Nat, k < n, NEW r \in Nat
    PROVE  r * k + r <= r * n
<1>1. PICK d \in Nat : n = k + 1 + d
  <2>1. n - k - 1 \in Nat /\ n = k + 1 + (n - k - 1)
    OBVIOUS
  <2> QED BY <2>1
<1>2. r * n = r * k + r + r * d
  BY <1>1
<1>3. r * d \in Nat
  BY <1>1
<1> QED BY <1>2, <1>3

LEMMA CountingKept ==
    ASSUME TypeOK, TypeOK', Place, Counting, [CliNext]_allVars
    PROVE  Counting'
<1> DEFINE count == Cardinality(known)
<1> USE DEF Counting, GivesUpAfterRetriesInARow
<1>a. Retries \in Nat /\ Inputs \in Nat /\ NBlocks \in Nat
  BY CliAssumption, AssemblyAssumption DEF CliAssumption, AssemblyAssumption
<1>b. count \in 0 .. NBlocks
  BY BlockCount DEF TypeOK, MatchOK
<1>c. Retries * knownAtFailure \in Nat /\ Retries * count \in Nat
  BY <1>a, <1>b
<1>d. ASSUME at = "returned" PROVE retried <= Retries * count + InARow
  <2>1. CASE count = knownAtFailure
    BY <1>d, <2>1 DEF InARow
  <2>2. CASE count > knownAtFailure
    <3>1. Retries * knownAtFailure + Retries <= Retries * count
      BY <1>a, <1>b, <2>2, Round
    <3>2. retried <= Retries * knownAtFailure + Retries
      BY <1>a, <1>c
    <3>3. InARow = 0
      BY <2>2 DEF InARow
    <3>. HIDE DEF count
    <3> QED BY <1>a, <1>c, <3>1, <3>2, <3>3
  <2> QED BY <1>b, <1>d, <2>1, <2>2
<1>e. at = "returned" => dry = InARow
  BY <1>b DEF InARow
<1>1. CASE Fetch BY <1>1 DEF Fetch
<1>2. CASE ScanInput
  BY <1>2, <1>a DEF ScanInput
<1>3. CASE ScanSelf BY <1>3 DEF ScanSelf
<1>4. CASE BeginDownload
  BY <1>4, <1>a, <1>b, <1>c DEF BeginDownload, vars, matchVars
<1>5. CASE Attempt
  <2>1. known' = known
    BY <1>5 DEF Attempt, DownloadMissingBlocks, ReturnOnly, matchVars
  <2> QED BY <1>5, <2>1 DEF Attempt
<1>6. CASE PassReturned BY <1>6 DEF PassReturned, vars, matchVars
<1>7. CASE RetryPass
  <2>1. /\ failures' = InARow + 1 /\ knownAtFailure' = count /\ count' = count
        /\ dry' = dry + 1 /\ retried' = retried + 1
        /\ InARow \in Nat /\ InARow < Retries /\ at = "returned" /\ at' = "attempt"
        /\ inputs' = inputs
    BY <1>7, <1>a DEF RetryPass, InARow, vars, matchVars
  <2>2. retried <= Retries * count + InARow
    BY <1>d, <2>1
  <2> HIDE DEF count
  <2>3. retried' <= Retries * knownAtFailure' + failures'
    BY <1>a, <1>c, <2>1, <2>2
  <2> USE DEF count
  <2> QED BY <1>a, <1>b, <1>e, <2>1, <2>3
<1>8. CASE GiveUp
  <2>1. /\ failures' = InARow /\ knownAtFailure' = count
        /\ dry' = dry /\ retried' = retried /\ inputs' = inputs
        /\ at = "returned" /\ at' = "failing"
        /\ InARow \in 0 .. Retries
        /\ result' = "transient" => InARow >= Retries
    BY <1>8, <1>a DEF GiveUp, InARow, Abandon, DropWith
  <2>2. retried' <= Retries * knownAtFailure' + failures'
    BY <1>d, <2>1
  <2> QED BY <1>a, <1>b, <1>e, <2>1, <2>2
<1>9. CASE Check
  BY <1>9 DEF Check, Abandon, DropWith, Place
<1>10. CASE Exit BY <1>10 DEF Exit
<1>11. CASE CallStep
  <2>1. StepEffect /\ UNCHANGED <<cliVars, retried>>
        /\ dry' = IF known' = known THEN dry ELSE 0
    BY <1>11, StepHasEffect DEF CallStep
  <2>2. /\ count <= count'
        /\ known' # known => count < count'
        /\ count' \in 0 .. NBlocks
    <3>1. known \subseteq known'
      BY <2>1 DEF StepEffect
    <3>2. count' \in 0 .. NBlocks
      BY BlockCount DEF TypeOK, MatchOK
    <3> QED BY <3>1, <3>2, KnownGrows
  <2>3. at \in {"attempt", "returned"} =>
           /\ knownAtFailure <= count'
           /\ dry' = IF count' = knownAtFailure THEN failures ELSE 0
    BY <1>b, <2>1, <2>2
  <2>4. at = "failing" => known' = known /\ result' = result
    BY <2>1 DEF StepEffect, Place, Busy, Completing, Passing, ScanTops, ScanWrites
  <2> QED BY <2>1, <2>3, <2>4 DEF cliVars
<1>12. CASE Stopped BY <1>12 DEF Stopped
<1>13. CASE RunAgain BY <1>13, <1>a DEF RunAgain
<1>14. CASE UNCHANGED allVars
  BY <1>14 DEF allVars, cliVars, vars, matchVars
<1> QED BY <1>1, <1>2, <1>3, <1>4, <1>5, <1>6, <1>7, <1>8, <1>9, <1>10, <1>11,
           <1>12, <1>13, <1>14 DEF CliNext, CliStep

LEMMA CountingHolds == CliSpec => []Counting
<1>1. CliInit => Counting
  <2>1. Retries \in Nat /\ Inputs \in Nat /\ NBlocks \in Nat
    BY CliAssumption, AssemblyAssumption DEF CliAssumption, AssemblyAssumption
  <2> QED BY <2>1 DEF CliInit, CliStart, Counting, GivesUpAfterRetriesInARow
<1> QED BY <1>1, CountingKept, PlaceHolds, ProgramIsAssembly, TypeCorrect, PTL DEF CliSpec

\* Every state of the program has its type.
THEOREM ProgramTyped == CliSpec => []CliTypeOK
<1>1. TypeOK /\ Place /\ Counting => CliTypeOK
  BY DEF Place, Counting, CliTypeOK
<1> QED BY <1>1, CountingHolds, PlaceHolds, ProgramIsAssembly, TypeCorrect, PTL

\* The program gives up on the network exactly when the retries allowed were
\* spent in a row, with no block gained since the first of them.
THEOREM GivesUpRight == CliSpec => []GivesUpAfterRetriesInARow
<1>1. Counting => GivesUpAfterRetriesInARow
  BY DEF Counting
<1> QED BY <1>1, CountingHolds, PTL

\* However a server fails, each block it sends buys one more round of retries.
THEOREM RetriesBounded == CliSpec => []RetriesAreBounded
<1>1. Counting => RetriesAreBounded
  <2> SUFFICES ASSUME Counting PROVE RetriesAreBounded
    OBVIOUS
  <2>1. Retries \in Nat /\ NBlocks \in Nat /\ knownAtFailure \in 0 .. NBlocks
        /\ failures \in 0 .. Retries /\ retried \in Nat
    BY CliAssumption, AssemblyAssumption DEF CliAssumption, AssemblyAssumption, Counting
  <2>2. Retries * knownAtFailure + Retries <= Retries * (NBlocks + 1)
    BY <2>1, Round
  <2>3. retried <= Retries * knownAtFailure + failures
    BY DEF Counting
  <2>4. Retries * knownAtFailure \in Nat /\ Retries * (NBlocks + 1) \in Nat
    BY <2>1
  <2> QED BY <2>1, <2>2, <2>3, <2>4 DEF RetriesAreBounded
<1> QED BY <1>1, CountingHolds, PTL

\* If bodies come whole, blocks the program blames on the server did arrive and
\* did not match.
THEOREM BlamedRightly ==
    ASSUME ~ShortBodies
    PROVE  CliSpec => []MissingWasRefused
<1>1. (result = "nothing" => Blocks \ known \subseteq refused) => MissingWasRefused
  BY DEF MissingWasRefused
<1> QED BY <1>1, ProgramIsAssembly, NothingMeansRefused, PTL

-----------------------------------------------------------------------------
(* What it shows. *)

LEMMA ShownStepIsProgramStep == [ProgNext]_progVars => [CliNext]_allVars
<1> SUFFICES ASSUME [ProgNext]_progVars PROVE [CliNext]_allVars
  OBVIOUS
<1> USE DEF CliNext, CliStep
<1>1. CASE FetchShown BY <1>1 DEF FetchShown
<1>2. CASE ScanInputShown BY <1>2 DEF ScanInputShown
<1>3. CASE ScanReturned BY <1>3 DEF ScanReturned
<1>4. CASE ScanSelfShown BY <1>4 DEF ScanSelfShown
<1>5. CASE BeginDownloadShown BY <1>5 DEF BeginDownloadShown
<1>6. CASE PassShown BY <1>6 DEF PassShown
<1>7. CASE RetryShown BY <1>7 DEF RetryShown
<1>8. CASE GiveUpShown BY <1>8 DEF GiveUpShown
<1>9. CASE CheckShown BY <1>9 DEF CheckShown
<1>10. CASE ExitShown BY <1>10 DEF ExitShown
<1>11. CASE CallShown BY <1>11 DEF CallShown
<1>12. CASE StoppedShown BY <1>12 DEF StoppedShown
<1>13. CASE RunAgainShown BY <1>13 DEF RunAgainShown
<1>14. CASE UNCHANGED progVars BY <1>14 DEF progVars
<1> QED BY <1>1, <1>2, <1>3, <1>4, <1>5, <1>6, <1>7, <1>8, <1>9, <1>10, <1>11,
           <1>12, <1>13, <1>14 DEF ProgNext, ProgStep

\* Showing progress changes nothing of what the program does.
LEMMA ShownIsProgram == ProgSpec => CliSpec
<1>1. ProgInit => CliInit
  BY DEF ProgInit
<1> QED BY <1>1, ShownStepIsProgramStep, PTL DEF ProgSpec, CliSpec

-----------------------------------------------------------------------------
(* What a step of a call means for what is reported. *)

BlockWrites == {"blockWrite", "tailWrite", "headWrite"}

\* A block becomes known before it is written and is reported once it is; a
\* write that fails ends the call in a way main never goes on from.
WriteEffect ==
    /\ pc \in Scanning => chunks' <= chunks
    /\ pc \in BlockWrites =>
           IF pc' \in Passing THEN known' = known /\ pc' \notin BlockWrites
                              ELSE result' = "io"
    /\ pc \in {"pass", "body"} => known' = known \/ pc' \in BlockWrites

LEMMA StepHasWriteEffect == TypeOK /\ Step => WriteEffect
<1> SUFFICES ASSUME TypeOK, Step PROVE WriteEffect
  OBVIOUS
<1> USE DEF WriteEffect, BlockWrites, Scanning, ScanTops, ScanWrites, Passing,
            Completing, matchVars, passVars, ReturnOnly, Return, DropWith
<1>0. chunks \in Nat
  BY AssemblyAssumption DEF TypeOK, MatchOK, AssemblyAssumption
<1>1. CASE Scan
  <2>1. CASE ScanStops BY <1>0, <2>1 DEF ScanStops
  <2>2. CASE ScanChunk BY <1>0, <2>2 DEF ScanChunk
  <2>3. CASE ScanWrite BY <1>0, <2>3 DEF ScanWrite
  <2>4. CASE ScanWriteFails BY <1>0, <2>4 DEF ScanWriteFails, WriteFails
  <2>5. CASE ScanChunkDone BY <1>0, <2>5 DEF ScanChunkDone
  <2> QED BY <1>1, <2>1, <2>2, <2>3, <2>4, <2>5 DEF Scan
<1>2. CASE Pass
  <2>1. CASE PassAborts BY <2>1 DEF PassAborts
  <2>2. CASE OpenRange BY <2>2 DEF OpenRange
  <2>3. CASE OpenRangeFails BY <2>3 DEF OpenRangeFails
  <2>4. CASE SkipBlock BY <2>4 DEF SkipBlock, BlockInBuffer
  <2>5. CASE AcceptBlock BY <2>5 DEF AcceptBlock, BlockInBuffer
  <2>6. CASE BlockWrite BY <2>6 DEF BlockWrite
  <2>7. CASE BodyFails BY <2>7 DEF BodyFails
  <2>8. CASE BodyEnds BY <2>8 DEF BodyEnds
  <2>9. CASE AcceptTail BY <2>9 DEF AcceptTail
  <2>10. CASE TailWrite BY <2>10 DEF TailWrite
  <2>11. CASE PassWriteFails BY <2>11 DEF PassWriteFails, WriteFails
  <2>12. CASE PassDone BY <2>12 DEF PassDone
  <2> QED BY <1>2, <2>1, <2>2, <2>3, <2>4, <2>5, <2>6, <2>7, <2>8, <2>9, <2>10,
             <2>11, <2>12 DEF Pass
<1>3. CASE Finish
  <2>1. pc \in Completing \cup {"drop"}
    BY <1>3 DEF Finish, CompleteFails, EnsureFile, SetLen, CheckSha, SyncAll,
       CarryPermissions, Rename, DropAssembly
  <2> QED BY <2>1
<1> QED BY <1>1, <1>2, <1>3 DEF Step

-----------------------------------------------------------------------------
(* The reporter's invariant. *)

Counts == Nat \X Nat

\* What finish falls back on is the last count reported, shown or not.
ReporterTyped ==
    /\ mode \in {"bar", "lines", "json"}
    /\ reported \in {NoCount} \cup Counts
    /\ latest = reported
    /\ shown \in [count : {NoCount} \cup Counts, final : BOOLEAN]
    /\ lastPercent \in Int
    /\ lastEmit \in BOOLEAN /\ recent \in BOOLEAN
    /\ finished \in BOOLEAN /\ barDrawn \in BOOLEAN
    /\ torn = FALSE

\* The first report of a phase is always shown, and the percent kept is that of
\* what was shown last.
Underway ==
    ~finished =>
        /\ shown.final = FALSE
        /\ reported = NoCount =>
               shown = Nothing /\ ~lastEmit /\ ~recent /\ lastPercent = -1
        /\ reported # NoCount =>
               lastEmit /\ shown.count # NoCount /\ lastPercent = Percent(shown.count)

Downloading == {"attempt", "returned", "check"}
Reporting   == {"inputs", "self"} \cup Downloading

\* Which phase the reporter is in, for each place main can be.
PhaseInPlace ==
    /\ scanned \in Nat
    /\ at = "fetch" =>
           failures = 0 /\ phase = "download" /\ ~finished /\ reported = NoCount
    /\ at \in {"inputs", "self"} =>
           /\ failures = 0
           /\ phase = "download" => ~finished /\ reported = NoCount /\ pc = "idle"
           /\ phase # "download" => chunks <= scanned
           /\ pc # "idle" => ~finished
    /\ at \in Downloading => ~finished
    /\ at = "completing" => finished

\* A retry's message has taken the bar off the screen and nothing was reported
\* since.  The next report draws it again, and one is to come before the download
\* ends well: a block is missing, or is being written, or was not.
LeftForRetry ==
    /\ at \in Downloading /\ ~recent
    /\ \/ known # Blocks
       \/ pc \in BlockWrites
       \/ at = "returned" /\ pc = "idle" /\ result = "io"

\* A bar is on the screen from a phase's first report to its end, unless it was
\* left for a retry.
BarInPlace ==
    /\ barDrawn => /\ mode = "bar" /\ ~finished /\ reported # NoCount
                   /\ at \in Reporting \cup {"killed"}
    /\ mode = "bar" /\ ~finished /\ reported # NoCount /\ at \in Reporting
           => barDrawn \/ LeftForRetry

\* Main goes on to another pass or to the end only with every known block reported.
ReportedIsKnown ==
    reported # NoCount =>
        /\ at \in {"attempt", "check"} => reported = <<Cardinality(known), NBlocks>>
        /\ at = "returned" /\ pc \notin BlockWrites /\ (pc = "idle" => result # "io") =>
               reported = <<Cardinality(known), NBlocks>>

ReporterInv ==
    /\ ReporterTyped
    /\ Underway
    /\ PhaseInPlace
    /\ BarInPlace
    /\ ReportedIsKnown
    /\ PhaseEndsWithLast

-----------------------------------------------------------------------------
(* What the reporter's operations do. *)

LEMMA PercentIsNat ==
    ASSUME NEW count \in Counts
    PROVE  Percent(count) \in Nat
<1>1. PICK n \in Nat, m \in Nat : count = <<n, m>>
  BY DEF Counts
<1>2. Percents \in Nat
  BY ProgressAssumption DEF ProgressAssumption
<1>3. PICK p \in Nat : p = n * Percents
  BY <1>2
<1>4. m # 0 => p \div m \in Nat
  OBVIOUS
<1> QED BY <1>1, <1>2, <1>3, <1>4 DEF Percent

\* A report is kept whether or not it is shown, and it is drawn unless another was
\* made just before.
LEMMA ReportKeeps ==
    ASSUME ReporterTyped, Underway, ~finished,
           NEW count \in Counts, ReportProgress(count)
    PROVE  /\ ReporterTyped' /\ Underway' /\ ~finished'
           /\ reported' = count /\ mode' = mode /\ phase' = phase
           /\ barDrawn' => mode = "bar" \/ barDrawn
           /\ barDrawn => barDrawn'
           /\ mode = "bar" /\ ~recent => barDrawn'
<1>1. Percent(count) \in Nat /\ count # NoCount
  BY PercentIsNat DEF Counts, NoCount
<1>2. /\ reported' = count /\ latest' = count
      /\ mode' = mode /\ phase' = phase /\ finished' = finished /\ torn' = torn
      /\ HeldBack(count) \/ Emit(count)
  BY DEF ReportProgress
<1>3. CASE HeldBack(count)
  <2>1. /\ UNCHANGED <<lastPercent, lastEmit, recent, shown, barDrawn>>
        /\ recent \/ Percent(count) = lastPercent
    BY <1>3 DEF HeldBack, RepeatsPercent
  <2>2. reported # NoCount
    BY <1>1, <2>1 DEF Underway
  <2>3. mode = "bar" => recent
    BY <1>3 DEF HeldBack, RepeatsPercent
  <2> QED BY <1>1, <1>2, <2>1, <2>2, <2>3 DEF ReporterTyped, Underway, Percent
<1>4. CASE Emit(count)
  <2>1. /\ lastEmit' = TRUE /\ recent' = TRUE /\ lastPercent' = Percent(count)
        /\ barDrawn' = (barDrawn \/ mode = "bar")
        /\ shown' = [count |-> count, final |-> FALSE]
    BY <1>4 DEF Emit, Show
  <2>2. /\ barDrawn' \in BOOLEAN
        /\ mode = "bar" => barDrawn'
        /\ barDrawn' => mode = "bar" \/ barDrawn
        /\ barDrawn => barDrawn'
    BY <2>1, Zenon DEF ReporterTyped
  <2>3. /\ shown' \in [count : {NoCount} \cup Counts, final : BOOLEAN]
        /\ shown'.final = FALSE /\ shown'.count = count
    BY <2>1
  <2>4. Underway'
    BY <1>1, <1>2, <2>1, <2>3 DEF Underway, Percent
  <2>5. ReporterTyped'
    <3>1. lastPercent' \in Int
      BY <1>1, <2>1
    <3>2. lastEmit' \in BOOLEAN /\ recent' \in BOOLEAN
      BY <2>1, Zenon
    <3>3. finished' \in BOOLEAN /\ torn' = FALSE /\ mode' \in {"bar", "lines", "json"}
      BY <1>2, Zenon DEF ReporterTyped
    <3>4. reported' \in {NoCount} \cup Counts /\ latest' = reported'
      BY <1>2
    <3> QED BY <2>2, <2>3, <3>1, <3>2, <3>3, <3>4 DEF ReporterTyped
  <2> QED BY <1>2, <2>2, <2>4, <2>5
<1> QED BY <1>2, <1>3, <1>4

\* A phase that reported anything ends with what it reported last, if that is
\* the count it is ended with.
LEMMA FinishShows ==
    ASSUME ReporterTyped, Underway, torn' = torn,
           mode = "bar" /\ reported # NoCount => barDrawn,
           NEW count \in Counts, FinishWith(count),
           reported # NoCount => reported = count
    PROVE  /\ ReporterTyped' /\ PhaseEndsWithLast'
           /\ finished' /\ ~barDrawn' /\ UNCHANGED <<mode, phase, reported>>
<1>1. /\ ~finished /\ finished' = TRUE /\ barDrawn' = FALSE
      /\ UNCHANGED <<mode, phase, latest, lastPercent, lastEmit, recent, reported>>
      /\ IF \/ mode = "json"
            \/ mode = "bar" /\ barDrawn
            \/ mode = "lines" /\ lastEmit /\ Percent(count) # lastPercent
         THEN shown' = [count |-> count, final |-> (mode = "json")]
         ELSE shown' = shown
  BY DEF FinishWith, Show
<1>2. ReporterTyped'
  <2>1. (mode = "json") \in BOOLEAN
    OBVIOUS
  <2>2. PICK final \in BOOLEAN : final = (mode = "json")
    BY <2>1, Zenon
  <2>3. [count |-> count, final |-> final]
            \in [count : {NoCount} \cup Counts, final : BOOLEAN]
    OBVIOUS
  <2>4. shown' \in [count : {NoCount} \cup Counts, final : BOOLEAN]
    BY <1>1, <2>2, <2>3, Zenon DEF ReporterTyped
  <2> QED BY <1>1, <2>4 DEF ReporterTyped
<1>3. ASSUME reported # NoCount PROVE PhaseEndsWithLast'
  <2>1. /\ shown.final = FALSE /\ lastEmit /\ shown.count # NoCount
        /\ lastPercent = Percent(shown.count) /\ reported = count /\ reported' = count
    BY <1>1, <1>3 DEF Underway
  <2>2. /\ shown # Nothing
        /\ mode = "lines" => Percent(count) = Percent(reported)
    BY <2>1 DEF Nothing
  <2>3. CASE shown' = [count |-> count, final |-> (mode = "json")]
    <3>1. shown'.count = count /\ shown'.final = (mode = "json")
      BY <2>3
    <3>2. shown' # Nothing
      BY <1>3, <2>1, <3>1 DEF Nothing
    <3> QED BY <1>1, <2>1, <3>1, <3>2 DEF PhaseEndsWithLast, Percent
  <2>4. CASE shown' = shown /\ mode # "json" /\ ~(mode = "bar" /\ barDrawn)
    <3>1. shown'.final = (mode = "json")
      BY <2>1, <2>4
    <3>2. mode = "lines" => Percent(shown.count) = Percent(count)
      BY <1>1, <2>1, <2>4
    <3>3. mode # "bar"
      BY <1>1, <1>3, <2>4
    <3>4. mode = "lines" /\ shown' # Nothing
      BY <2>2, <2>4, <3>3 DEF ReporterTyped
    <3> QED BY <1>1, <2>1, <2>4, <3>1, <3>2, <3>4 DEF PhaseEndsWithLast, Percent
  <2> QED BY <1>1, <2>3, <2>4
<1>4. reported = NoCount => PhaseEndsWithLast'
  BY <1>1 DEF PhaseEndsWithLast
<1> QED BY <1>1, <1>2, <1>3, <1>4

\* What a message to a line of its own leaves of the phase.
LEMMA SameShown ==
    ASSUME ReporterTyped, Underway, PhaseEndsWithLast,
           UNCHANGED <<mode, latest, lastPercent, finished, lastEmit, reported, shown>>,
           recent' = recent \/ recent' = FALSE,
           barDrawn' = barDrawn \/ barDrawn' = FALSE,
           torn' = FALSE
    PROVE  ReporterTyped' /\ Underway' /\ PhaseEndsWithLast'
<1>1. ReporterTyped'
  BY DEF ReporterTyped
<1>2. Underway'
  BY DEF Underway, Percent
<1>3. PhaseEndsWithLast'
  BY DEF PhaseEndsWithLast, Percent
<1> QED BY <1>1, <1>2, <1>3

LEMMA FreshPhase ==
    ASSUME NEW p, Fresh(p), mode' \in {"bar", "lines", "json"},
           barDrawn' = FALSE, torn' = FALSE
    PROVE  /\ ReporterTyped' /\ Underway' /\ PhaseEndsWithLast'
           /\ ~finished' /\ reported' = NoCount /\ phase' = p
<1>1. /\ phase' = p /\ latest' = NoCount /\ lastPercent' = -1
      /\ finished' = FALSE /\ lastEmit' = FALSE /\ recent' = FALSE
      /\ reported' = NoCount /\ shown' = Nothing
  BY DEF Fresh
<1>2. shown' \in [count : {NoCount} \cup Counts, final : BOOLEAN] /\ shown'.final = FALSE
  BY <1>1 DEF Nothing
<1>3. ReporterTyped'
  <2>1. /\ lastEmit' \in BOOLEAN /\ recent' \in BOOLEAN
        /\ finished' \in BOOLEAN /\ barDrawn' \in BOOLEAN
    BY <1>1, Zenon
  <2> QED BY <1>1, <1>2, <2>1 DEF ReporterTyped
<1>4. Underway'
  BY <1>1, <1>2 DEF Underway
<1>5. PhaseEndsWithLast'
  BY <1>1 DEF PhaseEndsWithLast
<1> QED BY <1>1, <1>3, <1>4, <1>5

\* A phase begins on a line of its own.
LEMMA PhaseBegins ==
    ASSUME ReporterTyped, ~barDrawn, NEW p, Begin(p), Message(barDrawn)
    PROVE  /\ ReporterTyped' /\ Underway' /\ PhaseEndsWithLast'
           /\ ~finished' /\ reported' = NoCount /\ phase' = p /\ ~barDrawn'
<1>1. Fresh(p) /\ mode' \in {"bar", "lines", "json"}
  BY DEF Begin, ReporterTyped
<1>2. barDrawn = FALSE
  BY Zenon DEF ReporterTyped
<1>3. barDrawn' = FALSE
  BY <1>2 DEF Begin
<1>4. torn' = FALSE
  BY <1>2, Zenon DEF Message, ReporterTyped
<1> QED BY <1>1, <1>3, <1>4, FreshPhase

\* A message that leaves the bar's line first.
LEMMA BarEnds ==
    ASSUME ReporterTyped, Underway, PhaseEndsWithLast, EndBar
    PROVE  /\ ReporterTyped' /\ Underway' /\ PhaseEndsWithLast'
           /\ ~barDrawn' /\ UNCHANGED <<mode, phaseVars, scanned>>
<1>1. barDrawn' = FALSE /\ UNCHANGED <<mode, phaseVars, scanned>>
  BY DEF EndBar
<1>2. torn' = FALSE
  BY Zenon DEF EndBar, Message, ReporterTyped
<1> QED BY <1>1, <1>2, SameShown DEF phaseVars

-----------------------------------------------------------------------------
(* Every step keeps the invariant. *)

\* Between two phases of the scans no bar is drawn, and what was reported has
\* been ended.
LEMMA PhaseIsOver ==
    ASSUME ReporterInv, ScanOver, at \in {"inputs", "self"}
    PROVE  ~barDrawn /\ (reported = NoCount \/ finished) /\ failures = 0
<1>1. /\ failures = 0
      /\ phase = "download" => ~finished /\ reported = NoCount /\ pc = "idle"
  BY DEF ReporterInv, PhaseInPlace
<1>2. phase = "download" \/ finished
  BY DEF ScanOver
<1> QED BY <1>1, <1>2 DEF ReporterInv, BarInPlace

LEMMA ScanShown ==
    ASSUME TypeOK', ReporterInv, ScanInputShown \/ ScanSelfShown, Place
    PROVE  ReporterInv'
<1>0. chunks' \in Nat
  BY AssemblyAssumption DEF TypeOK, MatchOK, AssemblyAssumption
<1>1. /\ at \in {"inputs", "self"} /\ at' \in {"inputs", "self"}
      /\ failures' = failures /\ ScanOver /\ pc = "idle"
  BY DEF ScanInputShown, ScanSelfShown, ScanInput, ScanSelf
<1>2. ~barDrawn /\ (reported = NoCount \/ finished) /\ failures = 0
  BY <1>1, PhaseIsOver
<1>3. CASE \E p \in {"scan", "self_scan"} : Begin(p) /\ Message(barDrawn) /\ scanned' = chunks'
  <2>1. PICK p \in {"scan", "self_scan"} :
            Begin(p) /\ Message(barDrawn) /\ scanned' = chunks'
    BY <1>3
  <2>2. /\ ReporterTyped' /\ Underway' /\ PhaseEndsWithLast'
        /\ ~finished' /\ reported' = NoCount /\ phase' = p /\ ~barDrawn'
    BY <1>2, <2>1, PhaseBegins DEF ReporterInv
  <2>3. PhaseInPlace'
    BY <1>0, <1>1, <1>2, <2>1, <2>2 DEF PhaseInPlace, Downloading
  <2>4. BarInPlace' /\ ReportedIsKnown'
    BY <2>2 DEF BarInPlace, ReportedIsKnown
  <2> QED BY <2>2, <2>3, <2>4 DEF ReporterInv
<1>4. CASE Silently /\ UNCHANGED vars
  <2>1. /\ ReporterTyped' /\ Underway' /\ PhaseEndsWithLast'
        /\ UNCHANGED <<mode, phase, finished, reported, barDrawn, scanned, pc, chunks>>
    BY <1>1, <1>4, SameShown DEF Silently, repVars, phaseVars, screenVars, ReporterInv,
       ReporterTyped, vars, matchVars
  <2>2. PhaseInPlace'
    BY <1>1, <2>1 DEF PhaseInPlace, Downloading, ReporterInv
  <2>3. BarInPlace'
    BY <1>1, <2>1 DEF BarInPlace, Reporting, Downloading, ReporterInv, LeftForRetry
  <2>4. ReportedIsKnown'
    BY <1>1 DEF ReportedIsKnown
  <2> QED BY <2>1, <2>2, <2>3, <2>4 DEF ReporterInv
<1>5. CASE ScanInputShown
  BY <1>3, <1>5 DEF ScanInputShown
<1>6. CASE ScanSelfShown
  BY <1>3, <1>4, <1>6 DEF ScanSelfShown, ScanSelf
<1> QED BY <1>5, <1>6

LEMMA ScanReturnShown ==
    ASSUME ReporterInv, ScanReturned
    PROVE  ReporterInv'
<1>1. /\ at \in {"inputs", "self"} /\ pc = "idle" /\ ~ScanOver
      /\ FinishScan /\ UNCHANGED <<torn, scanned, at, failures, pc, known, chunks, result>>
  BY DEF ScanReturned, allVars, cliVars, vars, matchVars
<1>2. ~finished /\ phase # "download"
  BY <1>1 DEF ScanOver
<1>3. /\ ReporterTyped' /\ PhaseEndsWithLast'
      /\ finished' /\ ~barDrawn' /\ phase' = phase
  <2>1. CASE latest # NoCount
    <3>1. FinishWith(latest) /\ latest \in Counts /\ latest = reported
      BY <1>1, <2>1 DEF FinishScan, ReporterInv, ReporterTyped
    <3>2. mode = "bar" /\ reported # NoCount => barDrawn
      BY <1>1, <1>2 DEF ReporterInv, BarInPlace, Reporting, LeftForRetry, Downloading
    <3> QED BY <1>1, <3>1, <3>2, FinishShows DEF ReporterInv
  <2>2. CASE latest = NoCount
    <3>1. /\ finished' = TRUE /\ barDrawn' = FALSE /\ torn' = torn
          /\ UNCHANGED <<mode, phase, latest, lastPercent, lastEmit, recent, reported,
                         shown>>
      BY <1>1, <2>2 DEF FinishScan
    <3>2. reported' = NoCount
      BY <2>2, <3>1 DEF ReporterInv, ReporterTyped
    <3>3. PhaseEndsWithLast'
      BY <3>2 DEF PhaseEndsWithLast
    <3> QED BY <3>1, <3>3 DEF ReporterInv, ReporterTyped
  <2> QED BY <2>1, <2>2
<1>4. Underway'
  BY <1>3 DEF Underway
<1>5. PhaseInPlace'
  BY <1>1, <1>2, <1>3 DEF PhaseInPlace, ReporterInv, Downloading
<1>6. BarInPlace' /\ ReportedIsKnown'
  BY <1>1, <1>3 DEF BarInPlace, ReportedIsKnown
<1> QED BY <1>3, <1>4, <1>5, <1>6 DEF ReporterInv

LEMMA DownloadShown ==
    ASSUME ReporterInv, BeginDownloadShown
    PROVE  ReporterInv'
<1>1. /\ at = "self" /\ at' \in {"check", "attempt"} /\ ScanOver
      /\ Begin("download") /\ Message(barDrawn) /\ scanned' = scanned
  BY DEF BeginDownloadShown, BeginDownload
<1>2. ~barDrawn
  BY <1>1, PhaseIsOver
<1>3. /\ ReporterTyped' /\ Underway' /\ PhaseEndsWithLast'
      /\ ~finished' /\ reported' = NoCount /\ ~barDrawn'
  BY <1>1, <1>2, PhaseBegins DEF ReporterInv
<1>4. PhaseInPlace'
  BY <1>1, <1>3 DEF PhaseInPlace, ReporterInv
<1>5. BarInPlace' /\ ReportedIsKnown'
  BY <1>3 DEF BarInPlace, ReportedIsKnown
<1> QED BY <1>3, <1>4, <1>5 DEF ReporterInv

\* A step that shows nothing, or only leaves the bar's line, while main goes on
\* with the download or gives up on it.
LEMMA PassStepShown ==
    ASSUME ReporterInv, result = "transient" => known # Blocks,
           PassShown \/ RetryShown \/ GiveUpShown
    PROVE  ReporterInv'
<1>1. CASE PassShown
  <2>1. /\ at \in Downloading /\ at' \in Downloading /\ failures' = failures
        /\ Silently /\ known' = known
        /\ pc = "idle"
        /\ at = "attempt" => at' = "returned"
        /\ at = "returned" => result \in {"ok", "nothing"} /\ result' = result
    BY <1>1 DEF PassShown, Attempt, PassReturned, Downloading, vars, matchVars,
       DownloadMissingBlocks, ReturnOnly
  <2>2. UNCHANGED <<mode, phaseVars, barDrawn, torn, scanned>>
    BY <2>1 DEF Silently, repVars, screenVars
  <2>3. ReporterTyped' /\ Underway' /\ PhaseEndsWithLast'
    BY <2>1, <2>2, SameShown DEF phaseVars, ReporterInv, ReporterTyped
  <2>4. PhaseInPlace'
    BY <2>1, <2>2 DEF phaseVars, PhaseInPlace, ReporterInv, Downloading
  <2>5. BarInPlace'
    BY <2>1, <2>2 DEF phaseVars, BarInPlace, ReporterInv, Downloading, Reporting,
       LeftForRetry, BlockWrites, Blocks
  <2>6. ReportedIsKnown'
    BY <1>1, <2>1, <2>2 DEF phaseVars, ReportedIsKnown, ReporterInv, Downloading,
       PassShown, Attempt, PassReturned, BlockWrites
  <2> QED BY <2>3, <2>4, <2>5, <2>6 DEF ReporterInv
<1>2. CASE RetryShown
  <2>1. /\ at = "returned" /\ at' = "attempt" /\ failures' = InARow + 1
        /\ known' = known /\ pc = "idle" /\ result = "transient" /\ known # Blocks
        /\ barDrawn' = FALSE /\ Message(FALSE) /\ recent' = FALSE
        /\ UNCHANGED <<mode, phase, latest, lastPercent, finished, lastEmit, reported,
                       shown, scanned>>
    BY <1>2 DEF RetryShown, RetryPass, vars, matchVars
  <2>2. ~finished
    BY <2>1 DEF ReporterInv, PhaseInPlace, Downloading
  <2>3. torn' = FALSE
    BY <2>1, Zenon DEF Message, ReporterInv, ReporterTyped
  <2>4. ReporterTyped' /\ Underway' /\ PhaseEndsWithLast'
    BY <2>1, <2>2, <2>3, SameShown DEF ReporterInv
  <2>5. PhaseInPlace'
    BY <2>1, <2>2 DEF PhaseInPlace, ReporterInv, Downloading
  <2>6. known' # Blocks'
    BY <2>1 DEF Blocks
  <2>7. BarInPlace'
    BY <2>1, <2>6 DEF BarInPlace, LeftForRetry, Downloading
  <2>8. ReportedIsKnown'
    BY <2>1 DEF ReportedIsKnown, ReporterInv, BlockWrites
  <2> QED BY <2>4, <2>5, <2>7, <2>8 DEF ReporterInv
<1>3. CASE GiveUpShown
  <2>1. at = "returned" /\ at' = "failing" /\ EndBar
    BY <1>3 DEF GiveUpShown, GiveUp
  <2>2. ~finished
    BY <2>1 DEF ReporterInv, PhaseInPlace, Downloading
  <2>3. /\ ReporterTyped' /\ Underway' /\ PhaseEndsWithLast'
        /\ ~barDrawn' /\ UNCHANGED <<mode, phaseVars, scanned>>
    BY <2>1, <2>2, BarEnds DEF ReporterInv
  <2>4. PhaseInPlace' /\ BarInPlace' /\ ReportedIsKnown'
    BY <2>1, <2>3 DEF PhaseInPlace, BarInPlace, ReportedIsKnown, ReporterInv,
       Downloading, Reporting
  <2> QED BY <2>3, <2>4 DEF ReporterInv
<1> QED BY <1>1, <1>2, <1>3

\* Success is announced with the whole count, which is the last one reported;
\* either way the bar's line is left.
LEMMA LastStepsShown ==
    ASSUME ReporterInv, CheckShown \/ ExitShown
    PROVE  ReporterInv'
<1>1. CASE CheckShown
  <2>1. /\ at = "check" /\ at' = IF known = Blocks THEN "completing" ELSE "failing"
        /\ failures' = failures /\ ~finished /\ pc = "idle"
    BY <1>1 DEF CheckShown, Check, ReporterInv, PhaseInPlace, Downloading
  <2>2. CASE known = Blocks
    <3>1. FinishWith(<<NBlocks, NBlocks>>) /\ Message(FALSE) /\ scanned' = scanned
      BY <1>1, <2>2 DEF CheckShown
    <3>2. torn' = torn
      BY <3>1, Zenon DEF Message, ReporterInv, ReporterTyped
    <3>3. Cardinality(known) = NBlocks /\ <<NBlocks, NBlocks>> \in Counts
      <4>1. NBlocks \in Nat /\ Blocks = 0 .. NBlocks - 1
        BY AssemblyAssumption DEF AssemblyAssumption, Blocks
      <4>2. Cardinality(0 .. NBlocks - 1) = NBlocks
        BY <4>1, FS_Interval
      <4> QED BY <2>2, <4>1, <4>2 DEF Counts
    <3>4. reported # NoCount => reported = <<NBlocks, NBlocks>>
      BY <2>1, <3>3 DEF ReporterInv, ReportedIsKnown
    <3>5. mode = "bar" /\ reported # NoCount => barDrawn
      BY <2>1, <2>2 DEF ReporterInv, BarInPlace, Reporting, Downloading, LeftForRetry,
         BlockWrites
    <3>6. /\ ReporterTyped' /\ PhaseEndsWithLast'
          /\ finished' /\ ~barDrawn'
      BY <2>1, <3>1, <3>2, <3>3, <3>4, <3>5, FinishShows DEF ReporterInv
    <3>7. at' = "completing" /\ Underway'
      BY <2>1, <2>2, <3>6 DEF Underway
    <3>8. PhaseInPlace' /\ BarInPlace' /\ ReportedIsKnown'
      BY <3>1, <3>6, <3>7 DEF PhaseInPlace, BarInPlace, ReportedIsKnown, ReporterInv,
         Reporting, Downloading
    <3> QED BY <3>6, <3>7, <3>8 DEF ReporterInv
  <2>3. CASE known # Blocks
    <3>1. EndBar /\ at' = "failing"
      BY <1>1, <2>1, <2>3 DEF CheckShown
    <3>2. /\ ReporterTyped' /\ Underway' /\ PhaseEndsWithLast'
          /\ ~barDrawn' /\ UNCHANGED <<mode, phaseVars, scanned>>
      BY <2>1, <3>1, BarEnds DEF ReporterInv
    <3>3. PhaseInPlace' /\ BarInPlace' /\ ReportedIsKnown'
      BY <3>1, <3>2 DEF PhaseInPlace, BarInPlace, ReportedIsKnown, ReporterInv,
         Reporting, Downloading
    <3> QED BY <3>2, <3>3 DEF ReporterInv
  <2> QED BY <2>2, <2>3
<1>2. CASE ExitShown
  <2>1. at \in {"failing", "completing"} /\ at' \in {"exit0", "exit1"}
        /\ failures' = failures
    BY <1>2 DEF ExitShown, Exit
  <2>2. ~barDrawn
    BY <2>1 DEF ReporterInv, BarInPlace, Reporting, Downloading
  <2>3. CASE EndBar
    <3>1. /\ ReporterTyped' /\ Underway' /\ PhaseEndsWithLast'
          /\ ~barDrawn' /\ UNCHANGED <<mode, phaseVars, scanned>>
      BY <2>1, <2>3, BarEnds DEF ReporterInv
    <3>2. PhaseInPlace' /\ BarInPlace' /\ ReportedIsKnown'
      BY <2>1, <3>1 DEF PhaseInPlace, BarInPlace, ReportedIsKnown, ReporterInv,
         Reporting, Downloading
    <3> QED BY <3>1, <3>2 DEF ReporterInv
  <2>4. CASE Message(barDrawn) /\ UNCHANGED <<mode, phaseVars, barDrawn, scanned>>
    <3>1. torn' = FALSE
      BY <2>2, <2>4, Zenon DEF Message, ReporterInv, ReporterTyped
    <3>2. ReporterTyped' /\ Underway' /\ PhaseEndsWithLast'
      BY <2>1, <2>4, <3>1, SameShown DEF phaseVars, ReporterInv
    <3>3. PhaseInPlace' /\ BarInPlace' /\ ReportedIsKnown'
      BY <2>1, <2>2, <2>4 DEF PhaseInPlace, BarInPlace, ReportedIsKnown, ReporterInv,
         Reporting, Downloading
    <3> QED BY <3>2, <3>3 DEF ReporterInv
  <2> QED BY <1>2, <2>3, <2>4 DEF ExitShown
<1> QED BY <1>1, <1>2

\* The step of a call, with the report it makes.
LEMMA CallStepShown ==
    ASSUME TypeOK, TypeOK', Place, ReporterInv, CallShown
    PROVE  ReporterInv'
<1>1. /\ StepEffect /\ WriteEffect
      /\ UNCHANGED <<at, failures, scanned>>
  BY StepHasEffect, StepHasWriteEffect DEF CallShown, CallStep, cliVars
<1>2. /\ chunks \in Nat /\ chunks' \in Nat
      /\ known \subseteq Blocks /\ known' \subseteq Blocks
  BY AssemblyAssumption DEF TypeOK, MatchOK, AssemblyAssumption
<1>3. /\ NBlocks \in Nat /\ Cardinality(known) \in Nat
  BY <1>2, BlockCount, AssemblyAssumption DEF AssemblyAssumption
<1>4. \* Main waits in the place it made the call from.
      /\ at \in {"inputs", "self"} =>
             /\ pc \in Scanning /\ ~finished /\ phase # "download"
             /\ chunks' <= chunks /\ chunks <= scanned
      /\ at = "returned" => /\ pc \in Passing /\ ~finished
                            /\ pc' \in Passing \cup {"idle"}
      /\ at \in {"inputs", "self", "returned", "failing", "completing"}
  <2>1. pc \in Busy
    BY <1>1 DEF StepEffect
  <2>2. /\ at \notin {"fetch", "unstarted", "attempt", "check", "exit0", "exit1", "killed"}
        /\ at \in {"inputs", "self"} => pc \in Scanning
        /\ at = "returned" => pc \in Passing
    BY <2>1 DEF Place, Busy, Scanning, ScanTops, ScanWrites, Passing, Completing
  <2>3. at \in {"inputs", "self"} => /\ ~finished /\ phase # "download"
                                     /\ chunks <= scanned
    BY <2>2 DEF ReporterInv, PhaseInPlace, Scanning, ScanTops, ScanWrites
  <2>4. at = "returned" => ~finished
    BY DEF ReporterInv, PhaseInPlace, Downloading
  <2> QED BY <1>1, <2>2, <2>3, <2>4 DEF StepEffect, WriteEffect, Place, Exited
<1>5. CASE UNCHANGED <<mode, phaseVars, screenVars>>
           /\ ~(pc \in BlockWrites /\ pc' \in Passing)
  <2>1. UNCHANGED <<mode, phase, latest, lastPercent, finished, lastEmit, recent,
                    reported, shown, barDrawn, torn>>
    BY <1>5 DEF phaseVars, screenVars
  <2>2. ReporterTyped' /\ Underway' /\ PhaseEndsWithLast'
    BY <1>1, <2>1, SameShown DEF ReporterInv, ReporterTyped
  <2>3. PhaseInPlace'
    BY <1>1, <1>2, <1>4, <2>1 DEF PhaseInPlace, ReporterInv
  <2>4. BarInPlace'
    <3>1. ASSUME LeftForRetry PROVE LeftForRetry'
      <4>1. at = "returned" /\ at' = at /\ ~recent' /\ pc \in Passing /\ pc # "idle"
        BY <1>1, <1>4, <2>1, <3>1 DEF LeftForRetry, Downloading, Passing
      <4>2. CASE pc' \in BlockWrites
        BY <4>1, <4>2 DEF LeftForRetry, Downloading, BlockWrites
      <4>3. CASE pc' \notin BlockWrites /\ pc \in BlockWrites
        <5>1. pc' = "idle" /\ result' = "io"
          BY <1>1, <1>4, <1>5, <4>1, <4>3 DEF WriteEffect
        <5> QED BY <4>1, <5>1 DEF LeftForRetry, Downloading
      <4>4. CASE pc' \notin BlockWrites /\ pc \notin BlockWrites
        <5>1. known # Blocks
          BY <3>1, <4>1, <4>4 DEF LeftForRetry
        <5>2. known' = known
          BY <1>1, <4>1, <4>4 DEF WriteEffect, Passing, BlockWrites
        <5> QED BY <4>1, <5>1, <5>2 DEF LeftForRetry, Downloading, Blocks
      <4> QED BY <4>2, <4>3, <4>4
    <3> QED BY <1>1, <2>1, <3>1 DEF BarInPlace, ReporterInv
  <2>5. ASSUME at = "returned", pc' \notin BlockWrites, pc' = "idle" => result' # "io"
        PROVE  known' = known /\ pc \notin BlockWrites /\ pc # "idle"
    <3>1. pc \notin BlockWrites /\ pc # "idle"
      BY <1>1, <1>4, <1>5, <2>5 DEF WriteEffect, Passing
    <3>2. known' = known
      BY <1>1, <1>4, <2>5, <3>1 DEF WriteEffect, Passing, BlockWrites
    <3> QED BY <3>1, <3>2
  <2>6. ReportedIsKnown'
    BY <1>1, <1>4, <2>1, <2>5 DEF ReportedIsKnown, ReporterInv
  <2> QED BY <2>2, <2>3, <2>4, <2>6 DEF ReporterInv
<1>6. ASSUME NEW count \in Counts, ReportProgress(count), at \in {"inputs", "self", "returned"},
             at = "returned" => count = <<Cardinality(known'), NBlocks>>
      PROVE  ReporterInv'
  <2>1. /\ ReporterTyped' /\ Underway' /\ ~finished'
        /\ reported' = count /\ mode' = mode /\ phase' = phase
        /\ barDrawn' => mode = "bar" \/ barDrawn
        /\ barDrawn => barDrawn'
        /\ mode = "bar" /\ ~recent => barDrawn'
    BY <1>4, <1>6, ReportKeeps DEF ReporterInv
  <2>2. count # NoCount
    BY DEF Counts, NoCount
  <2>3. PhaseInPlace'
    BY <1>1, <1>2, <1>4, <1>6, <2>1 DEF PhaseInPlace, ReporterInv, Downloading
  <2>4. BarInPlace'
    <3>1. mode = "bar" => barDrawn'
      BY <1>4, <1>6, <2>1 DEF BarInPlace, ReporterInv, Reporting, Downloading, Underway,
         LeftForRetry
    <3> QED BY <1>1, <1>4, <1>6, <2>1, <2>2, <3>1
            DEF BarInPlace, ReporterInv, Reporting, Downloading
  <2>5. ReportedIsKnown' /\ PhaseEndsWithLast'
    BY <1>1, <1>6, <2>1 DEF ReportedIsKnown, PhaseEndsWithLast
  <2> QED BY <2>1, <2>3, <2>4, <2>5 DEF ReporterInv
<1>7. CASE pc \in ScanWrites /\ pc' \in ScanTops
  <2>1. ReportProgress(<<scanned - chunks, scanned>>)
    BY <1>7 DEF CallShown
  <2>2. at \in {"inputs", "self"}
    BY <1>1, <1>4, <1>7 DEF Passing, ScanWrites, ScanTops, Place, Completing
  <2>3. <<scanned - chunks, scanned>> \in Counts
    BY <1>2, <1>4, <2>2 DEF ReporterInv, PhaseInPlace, Counts
  <2> QED BY <1>6, <2>1, <2>2, <2>3
<1>8. CASE ~(pc \in ScanWrites /\ pc' \in ScanTops) /\ pc \in BlockWrites /\ pc' \in Passing
  <2>1. ReportProgress(<<Cardinality(known), NBlocks>>)
    BY <1>8 DEF CallShown, BlockWrites
  <2>2. at = "returned" /\ known' = known
    BY <1>1, <1>4, <1>8 DEF BlockWrites, Scanning, ScanWrites, ScanTops, Place,
       Completing, WriteEffect
  <2>3. <<Cardinality(known), NBlocks>> \in Counts
    BY <1>3 DEF Counts
  <2> QED BY <1>6, <2>1, <2>2, <2>3
<1>9. CASE ~(pc \in ScanWrites /\ pc' \in ScanTops) /\ ~(pc \in BlockWrites /\ pc' \in Passing)
  <2>1. UNCHANGED <<mode, phaseVars, screenVars>>
    BY <1>9 DEF CallShown, BlockWrites
  <2> QED BY <1>5, <1>9, <2>1
<1> QED BY <1>7, <1>8, <1>9

LEMMA ReporterKept ==
    ASSUME TypeOK, TypeOK', Place, result = "transient" => known # Blocks, ReporterInv,
           [ProgNext]_progVars
    PROVE  ReporterInv'
<1> DEFINE screen == <<mode, phase, latest, lastPercent, finished, lastEmit, recent,
                       reported, shown, barDrawn, torn, scanned>>
<1>1. CASE FetchShown
  <2>1. /\ at = "fetch" /\ at' \in {"inputs", "unstarted"} /\ pc = "idle"
        /\ UNCHANGED <<pc, chunks, failures>> /\ UNCHANGED screen
    BY <1>1 DEF FetchShown, Fetch, Silently, repVars, phaseVars, screenVars, Place,
       vars, matchVars
  <2>2. failures = 0 /\ ~barDrawn /\ phase = "download" /\ ~finished /\ reported = NoCount
    BY <2>1 DEF ReporterInv, PhaseInPlace, BarInPlace
  <2>3. ReporterTyped' /\ Underway' /\ PhaseEndsWithLast'
    BY <2>1, SameShown DEF ReporterInv, ReporterTyped
  <2>4. PhaseInPlace' /\ BarInPlace' /\ ReportedIsKnown'
    BY <2>1, <2>2 DEF PhaseInPlace, BarInPlace, ReportedIsKnown, ReporterInv, Downloading
  <2> QED BY <2>3, <2>4 DEF ReporterInv
<1>2. CASE ScanInputShown \/ ScanSelfShown
  BY <1>2, ScanShown
<1>3. CASE ScanReturned
  BY <1>3, ScanReturnShown
<1>4. CASE BeginDownloadShown
  BY <1>4, DownloadShown
<1>5. CASE PassShown \/ RetryShown \/ GiveUpShown
  BY <1>5, PassStepShown
<1>6. CASE CheckShown \/ ExitShown
  BY <1>6, LastStepsShown
<1>7. CASE CallShown
  BY <1>7, CallStepShown
<1>8. CASE StoppedShown
  <2>1. at' = "killed" /\ UNCHANGED failures /\ UNCHANGED screen
    BY <1>8 DEF StoppedShown, Stopped, Silently, repVars, phaseVars, screenVars
  <2>2. ReporterTyped' /\ Underway' /\ PhaseEndsWithLast'
    BY <2>1, SameShown DEF ReporterInv, ReporterTyped
  <2>3. PhaseInPlace' /\ BarInPlace' /\ ReportedIsKnown'
    BY <2>1 DEF PhaseInPlace, BarInPlace, ReportedIsKnown, ReporterInv, Downloading,
       Reporting
  <2> QED BY <2>2, <2>3 DEF ReporterInv
<1>9. CASE RunAgainShown
  <2>1. /\ at' = "fetch" /\ failures' = 0 /\ mode' \in {"bar", "lines", "json"}
        /\ Fresh("download") /\ barDrawn' = FALSE /\ torn' = FALSE /\ scanned' = 0
    BY <1>9, ProgressAssumption DEF RunAgainShown, RunAgain, ProgressAssumption
  <2>2. /\ ReporterTyped' /\ Underway' /\ PhaseEndsWithLast'
        /\ ~finished' /\ reported' = NoCount /\ phase' = "download"
    BY <2>1, FreshPhase
  <2>3. PhaseInPlace' /\ BarInPlace' /\ ReportedIsKnown'
    BY <2>1, <2>2 DEF PhaseInPlace, BarInPlace, ReportedIsKnown, Downloading
  <2> QED BY <2>2, <2>3 DEF ReporterInv
<1>10. CASE UNCHANGED progVars
  <2>1. UNCHANGED <<at, failures, pc, known, chunks, result>> /\ UNCHANGED screen
    BY <1>10 DEF progVars, allVars, cliVars, vars, matchVars, repVars, phaseVars,
       screenVars
  <2>2. ReporterTyped' /\ Underway' /\ PhaseEndsWithLast'
    BY <2>1, SameShown DEF ReporterInv, ReporterTyped
  <2>3. PhaseInPlace' /\ BarInPlace' /\ ReportedIsKnown'
    BY <2>1 DEF PhaseInPlace, BarInPlace, ReportedIsKnown, ReporterInv, LeftForRetry, Blocks
  <2> QED BY <2>2, <2>3 DEF ReporterInv
<1> QED BY <1>1, <1>2, <1>3, <1>4, <1>5, <1>6, <1>7, <1>8, <1>9, <1>10
        DEF ProgNext, ProgStep

\* What was reported, what was shown of it, the bar and the place main is at fit
\* one another.
THEOREM ReporterInvariant == ProgSpec => []ReporterInv
<1>1. ProgInit => ReporterInv
  <2> SUFFICES ASSUME ProgInit PROVE ReporterInv
    OBVIOUS
  <2>1. /\ mode \in {"bar", "lines", "json"} /\ at = "fetch" /\ failures = 0
        /\ phase = "download" /\ latest = NoCount /\ lastPercent = -1
        /\ finished = FALSE /\ lastEmit = FALSE /\ recent = FALSE
        /\ barDrawn = FALSE /\ torn = FALSE
        /\ scanned = 0 /\ reported = NoCount /\ shown = Nothing
    BY ProgressAssumption DEF ProgInit, New, CliInit, CliStart, ProgressAssumption
  <2>2. ReporterTyped
    <3>1. /\ lastEmit \in BOOLEAN /\ recent \in BOOLEAN
          /\ finished \in BOOLEAN /\ barDrawn \in BOOLEAN
      BY <2>1, Zenon
    <3>2. shown \in [count : {NoCount} \cup Counts, final : BOOLEAN]
      BY <2>1 DEF Nothing
    <3> QED BY <2>1, <3>1, <3>2 DEF ReporterTyped
  <2>3. Underway
    BY <2>1 DEF Underway, Nothing
  <2>4. PhaseInPlace /\ BarInPlace /\ ReportedIsKnown /\ PhaseEndsWithLast
    BY <2>1 DEF PhaseInPlace, BarInPlace, ReportedIsKnown, PhaseEndsWithLast, Downloading
  <2> QED BY <2>2, <2>3, <2>4 DEF ReporterInv
<1> QED BY <1>1, ReporterKept, ShownIsProgram, PlaceHolds, TransientMeansMissing,
           ProgramIsAssembly, TypeCorrect, PTL DEF ProgSpec

-----------------------------------------------------------------------------
(* What the user sees. *)

\* However the throttle, the retries and the failures fall, a phase that
\* reported anything ends by showing what it reported last.
THEOREM PhaseEndsRight == ProgSpec => []PhaseEndsWithLast
<1>1. ReporterInv => PhaseEndsWithLast
  BY DEF ReporterInv
<1> QED BY <1>1, ReporterInvariant, PTL

\* No message is written into a bar, whichever way a call ends.
THEOREM NothingTorn == ProgSpec => []MessagesHaveTheirLine
<1>1. ReporterInv => MessagesHaveTheirLine
  BY DEF ReporterInv, ReporterTyped, MessagesHaveTheirLine
<1> QED BY <1>1, ReporterInvariant, PTL

\* The step that starts a phase or reports success finds the last phase ended.
LEMMA EndsBeforeNext ==
    ASSUME ReporterInv, [ProgNext]_progVars, at \notin Exited, reported # NoCount,
           reported' = NoCount \/ at' = "exit0"
    PROVE  finished
<1>1. CASE ScanInputShown \/ ScanSelfShown \/ BeginDownloadShown
  <2>1. ScanOver /\ at \in {"inputs", "self"}
    BY <1>1 DEF ScanInputShown, ScanSelfShown, BeginDownloadShown, ScanInput, ScanSelf,
       BeginDownload
  <2> QED BY <2>1, PhaseIsOver
<1>2. CASE ExitShown
  <2>1. at' = "exit0"
    BY <1>2 DEF ExitShown, EndBar, phaseVars
  <2>2. at = "completing"
    BY <1>2, <2>1 DEF ExitShown, Exit
  <2> QED BY <2>2 DEF ReporterInv, PhaseInPlace
<1>3. ASSUME ~(ScanInputShown \/ ScanSelfShown \/ BeginDownloadShown), ~ExitShown
      PROVE  FALSE
  <2>1. CASE FetchShown
    BY <2>1 DEF FetchShown, Fetch, Silently, repVars, phaseVars
  <2>2. CASE ScanReturned
    BY <2>2 DEF ScanReturned, FinishScan, FinishWith, ScanOver, allVars, cliVars
  <2>3. CASE PassShown
    BY <2>3 DEF PassShown, Attempt, PassReturned, Silently, repVars, phaseVars
  <2>4. CASE RetryShown
    BY <2>4 DEF RetryShown, RetryPass
  <2>5. CASE GiveUpShown
    BY <2>5 DEF GiveUpShown, GiveUp, EndBar, phaseVars
  <2>6. CASE CheckShown
    BY <2>6 DEF CheckShown, Check, FinishWith, EndBar, phaseVars
  <2>7. CASE CallShown
    <3>1. at' = at
      BY <2>7 DEF CallShown, CallStep, cliVars
    <3>2. UNCHANGED reported \/ \E n, m : reported' = <<n, m>>
      BY <2>7 DEF CallShown, ReportProgress, phaseVars
    <3> QED BY <3>1, <3>2 DEF Exited, NoCount
  <2>8. CASE StoppedShown
    BY <2>8 DEF StoppedShown, Stopped, Silently, repVars, phaseVars
  <2>9. CASE RunAgainShown
    BY <2>9 DEF RunAgainShown, RunAgain
  <2>10. CASE UNCHANGED progVars
    BY <2>10 DEF progVars, allVars, cliVars, repVars, phaseVars, Exited
  <2> QED BY <1>3, <2>1, <2>2, <2>3, <2>4, <2>5, <2>6, <2>7, <2>8, <2>9, <2>10
          DEF ProgNext, ProgStep
<1> QED BY <1>1, <1>2, <1>3

\* No phase is left for the next, or for a successful exit, without its end.
THEOREM PhasesEnd == ProgSpec => EveryPhaseEnds
<1>1. ReporterInv /\ [ProgNext]_progVars =>
          [at \notin Exited /\ reported # NoCount
               /\ (reported' = NoCount \/ at' = "exit0") => finished]_progVars
  BY EndsBeforeNext
<1> QED BY <1>1, ReporterInvariant, PTL DEF ProgSpec, EveryPhaseEnds
==================================================================================
