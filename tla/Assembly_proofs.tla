---------------------------- MODULE Assembly_proofs ----------------------------
(***************************************************************************)
(* Theorems about Assembly, for any number of blocks, chunks and runs.     *)
(***************************************************************************)
EXTENDS Assembly, Lemmas

\* Every range of a pass lies in the target.
LEMMA RequestsType ==
    ASSUME NEW missing, NEW gap
    PROVE  Requests(NBlocks, missing, gap) \subseteq Blocks \X (1 .. NBlocks)
BY DEF Requests, Blocks

\* A call that returns and changes nothing else, whatever it returns.
LEMMA ReturnOnlyType ==
    ASSUME TypeOK, NEW outcome \in Outcomes, ReturnOnly(outcome)
    PROVE  TypeOK'
<1> USE AssemblyAssumption DEF AssemblyAssumption, ReturnOnly, Return, TypeOK
<1> USE DEF matchVars, passVars, fileVars, outVars
<1>1. ControlOK' BY DEF ControlOK
<1>2. MatchOK' BY DEF MatchOK
<1>3. PassOK' BY DEF PassOK
<1>4. FileOK' BY DEF FileOK
<1> QED BY <1>1, <1>2, <1>3, <1>4

\* A failed write leaves the block as it was or as something else.
LEMMA WriteFailsType ==
    ASSUME TypeOK, NEW b \in Blocks, WriteFails(b)
    PROVE  TypeOK'
<1> USE AssemblyAssumption DEF AssemblyAssumption, WriteFails, Return, TypeOK
<1> USE DEF matchVars, passVars, fileVars, outVars
<1>1. ControlOK' BY DEF ControlOK, Outcomes
<1>2. MatchOK' BY DEF MatchOK
<1>3. PassOK' BY DEF PassOK
<1>4. FileOK'
  <2>1. CASE UNCHANGED <<open, fileVars>>
    BY <2>1 DEF FileOK
  <2>2. CASE ~UNCHANGED <<open, fileVars>>
    <3>1. PICK left \in {data[b], "other"} : data' = [data EXCEPT ![b] = left]
      BY <2>2
    <3>2. data' \in [Blocks -> Cell]
      BY <3>1 DEF FileOK, Cell
    <3>3. size' \in Sizes
      BY <2>2 DEF FileOK, SizeWith, Sizes, Under, Exact, Over
    <3> QED BY <2>2, <3>2, <3>3 DEF FileOK
  <2> QED BY <2>1, <2>2
<1> QED BY <1>1, <1>2, <1>3, <1>4

\* The type invariant of the whole life cycle, from any stale temporary file.
THEOREM TypeCorrect == Spec => []TypeOK
<1> USE AssemblyAssumption DEF AssemblyAssumption
<1>1. Init => TypeOK
  <2> SUFFICES ASSUME Init PROVE TypeOK
    OBVIOUS
  <2> USE DEF Init
  <2>1. ControlOK BY DEF ControlOK, Outcomes
  <2>2. MatchOK BY DEF MatchOK
  <2>3. PassOK BY DEF PassOK
  <2>4. FileOK BY DEF FileOK, Empty, Cell, Sizes, Under
  <2> QED BY <2>1, <2>2, <2>3, <2>4 DEF TypeOK
<1>2. TypeOK /\ [Next]_vars => TypeOK'
  <2> SUFFICES ASSUME TypeOK, [Next]_vars PROVE TypeOK'
    OBVIOUS
  <2> USE DEF TypeOK, ControlOK, MatchOK, PassOK, FileOK
  <2> USE DEF matchVars, passVars, fileVars, outVars
  <2>1. CASE SubmitSourceFile
    <3>1. CASE \E outcome \in Outcomes : ReturnOnly(outcome)
      BY <3>1, ReturnOnlyType
    <3>2. CASE ~\E outcome \in Outcomes : ReturnOnly(outcome)
      <4> USE <2>1, <3>2 DEF SubmitSourceFile, Outcomes
      <4>1. ControlOK'
        BY DEF ControlOK, Busy, Ended, ScanTops, ScanWrites, Passing, Completing, Outcomes
      <4>2. MatchOK' BY DEF MatchOK
      <4>3. PassOK' BY DEF PassOK
      <4>4. FileOK' BY DEF FileOK
      <4> QED BY <4>1, <4>2, <4>3, <4>4 DEF TypeOK
    <3> QED BY <3>1, <3>2
  <2>2. CASE SubmitSelfReferential
    <3>1. CASE ReturnOnly("ok") \/ ReturnOnly("io")
      BY <3>1, ReturnOnlyType DEF Outcomes
    <3>2. CASE ~ReturnOnly("ok") /\ ~ReturnOnly("io")
      <4> USE <2>2, <3>2
      <4>1. UNCHANGED <<known, refused, open, exists, data, size, outVars,
                        aborting, run>>
        BY DEF SubmitSelfReferential
      <4>2. CASE Return("ok")
        <5> USE <4>1, <4>2 DEF Return
        <5>. synced' = TRUE BY DEF SubmitSelfReferential
        <5>1. ControlOK' BY DEF ControlOK, Outcomes
        <5>2. MatchOK' BY DEF MatchOK
        <5>3. PassOK' BY DEF PassOK
        <5>4. FileOK' BY DEF FileOK
        <5> QED BY <5>1, <5>2, <5>3, <5>4
      <4>3. CASE /\ pc' = "self" /\ result' = "none" /\ chunks' \in 0 .. MaxChunks
                 /\ UNCHANGED <<pending, passVars>>
        <5> USE <4>1, <4>3
        <5>. synced' = TRUE BY DEF SubmitSelfReferential
        <5>1. ControlOK'
          BY DEF ControlOK, Busy, ScanTops, Outcomes
        <5>2. MatchOK' BY DEF MatchOK
        <5>3. PassOK' BY DEF PassOK
        <5>4. FileOK' BY DEF FileOK
        <5> QED BY <5>1, <5>2, <5>3, <5>4
      <4> QED BY <4>2, <4>3 DEF SubmitSelfReferential
    <3> QED BY <2>2, <3>1, <3>2 DEF SubmitSelfReferential
  <2>3. CASE DownloadMissingBlocks
    <3>1. CASE \E outcome \in Outcomes : ReturnOnly(outcome)
      BY <3>1, ReturnOnlyType
    <3>2. CASE ~\E outcome \in Outcomes : ReturnOnly(outcome)
      <4> USE <2>3, <3>2 DEF DownloadMissingBlocks, Outcomes
      <4>1. ControlOK'
        BY DEF ControlOK, Busy, Ended, ScanTops, ScanWrites, Passing, Completing, Outcomes
      <4>2. MatchOK' BY DEF MatchOK
      <4>3. PassOK' BY RequestsType DEF PassOK
      <4>4. FileOK' BY DEF FileOK
      <4> QED BY <4>1, <4>2, <4>3, <4>4 DEF TypeOK
    <3> QED BY <3>1, <3>2
  <2>4. CASE Complete
    <3> USE <2>4 DEF Complete, DropWith
    <3>1. ControlOK'
      BY DEF ControlOK, Busy, Ended, ScanTops, ScanWrites, Passing, Completing, Outcomes
    <3>2. MatchOK' BY DEF MatchOK, PassOK, Blocks
    <3>3. PassOK' BY DEF PassOK, Blocks
    <3>4. FileOK' BY DEF FileOK, Sizes, Under, Exact, Over, Cell, Empty
    <3> QED BY <3>1, <3>2, <3>3, <3>4 DEF TypeOK
  <2>5. CASE Abandon
    <3> USE <2>5 DEF Abandon, DropWith
    <3>1. ControlOK'
      BY DEF ControlOK, Busy, Ended, ScanTops, ScanWrites, Passing, Completing, Outcomes
    <3>2. MatchOK' BY DEF MatchOK, PassOK, Blocks
    <3>3. PassOK' BY DEF PassOK, Blocks
    <3>4. FileOK' BY DEF FileOK, Sizes, Under, Exact, Over, Cell, Empty
    <3> QED BY <3>1, <3>2, <3>3, <3>4 DEF TypeOK
  <2>6. CASE ScanStops
    BY <2>6, ReturnOnlyType DEF ScanStops, Outcomes
  <2>7. CASE ScanChunk
    <3> USE <2>7 DEF ScanChunk
    <3>1. ControlOK'
      BY DEF ControlOK, Busy, Ended, ScanTops, ScanWrites, Passing, Completing, Outcomes
    <3>2. MatchOK' BY DEF MatchOK, PassOK, Blocks
    <3>3. PassOK' BY DEF PassOK, Blocks
    <3>4. FileOK' BY DEF FileOK, Sizes, Under, Exact, Over, Cell, Empty
    <3> QED BY <3>1, <3>2, <3>3, <3>4 DEF TypeOK
  <2>8. CASE ScanWrite
    <3> USE <2>8 DEF ScanWrite, WriteBlock, SizeWith
    <3>1. ControlOK'
      BY DEF ControlOK, Busy, Ended, ScanTops, ScanWrites, Passing, Completing, Outcomes
    <3>2. MatchOK' BY DEF MatchOK, PassOK, Blocks
    <3>3. PassOK' BY DEF PassOK, Blocks
    <3>4. FileOK' BY DEF FileOK, Sizes, Under, Exact, Over, Cell, Empty
    <3> QED BY <3>1, <3>2, <3>3, <3>4 DEF TypeOK
  <2>9. CASE ScanWriteFails
    BY <2>9, WriteFailsType DEF ScanWriteFails, MatchOK, TypeOK
  <2>10. CASE ScanChunkDone
    <3> USE <2>10 DEF ScanChunkDone
    <3>1. ControlOK'
      BY DEF ControlOK, Busy, Ended, ScanTops, ScanWrites, Passing, Completing, Outcomes
    <3>2. MatchOK' BY DEF MatchOK, PassOK, Blocks
    <3>3. PassOK' BY DEF PassOK, Blocks
    <3>4. FileOK' BY DEF FileOK, Sizes, Under, Exact, Over, Cell, Empty
    <3> QED BY <3>1, <3>2, <3>3, <3>4 DEF TypeOK
  <2>11. CASE PassAborts
    BY <2>11, ReturnOnlyType DEF PassAborts, Outcomes
  <2>12. CASE OpenRange
    <3> USE <2>12 DEF OpenRange
    <3>1. ControlOK'
      BY DEF ControlOK, Busy, Ended, ScanTops, ScanWrites, Passing, Completing, Outcomes
    <3>2. MatchOK' BY DEF MatchOK, PassOK, Blocks
    <3>3. PassOK' BY DEF PassOK, Blocks
    <3>4. FileOK' BY DEF FileOK, Sizes, Under, Exact, Over, Cell, Empty
    <3> QED BY <3>1, <3>2, <3>3, <3>4 DEF TypeOK
  <2>13. CASE OpenRangeFails
    BY <2>13, ReturnOnlyType DEF OpenRangeFails, Outcomes
  <2>14. CASE SkipBlock
    <3> USE <2>14 DEF SkipBlock, BlockInBuffer
    <3>1. ControlOK'
      BY DEF ControlOK, Busy, Ended, ScanTops, ScanWrites, Passing, Completing, Outcomes
    <3>2. MatchOK' BY DEF MatchOK, PassOK, Blocks
    <3>3. PassOK' BY DEF PassOK, Blocks
    <3>4. FileOK' BY DEF FileOK, Sizes, Under, Exact, Over, Cell, Empty
    <3> QED BY <3>1, <3>2, <3>3, <3>4 DEF TypeOK
  <2>15. CASE AcceptBlock
    <3> USE <2>15 DEF AcceptBlock, BlockInBuffer
    <3>1. ControlOK'
      BY DEF ControlOK, Busy, Ended, ScanTops, ScanWrites, Passing, Completing, Outcomes
    <3>2. MatchOK' BY DEF MatchOK, PassOK, Blocks
    <3>3. PassOK' BY DEF PassOK, Blocks
    <3>4. FileOK' BY DEF FileOK, Sizes, Under, Exact, Over, Cell, Empty
    <3> QED BY <3>1, <3>2, <3>3, <3>4 DEF TypeOK
  <2>16. CASE BlockWrite
    <3> USE <2>16 DEF BlockWrite, WriteBlock, SizeWith
    <3>1. ControlOK'
      BY DEF ControlOK, Busy, Ended, ScanTops, ScanWrites, Passing, Completing, Outcomes
    <3>2. MatchOK' BY DEF MatchOK, PassOK, Blocks
    <3>3. PassOK' BY DEF PassOK, Blocks
    <3>4. FileOK' BY DEF FileOK, Sizes, Under, Exact, Over, Cell, Empty
    <3> QED BY <3>1, <3>2, <3>3, <3>4 DEF TypeOK
  <2>17. CASE BodyFails
    BY <2>17, ReturnOnlyType DEF BodyFails, Outcomes
  <2>18. CASE BodyEnds
    <3> USE <2>18 DEF BodyEnds
    <3>1. ControlOK'
      BY DEF ControlOK, Busy, Ended, ScanTops, ScanWrites, Passing, Completing, Outcomes
    <3>2. MatchOK' BY DEF MatchOK, PassOK, Blocks
    <3>3. PassOK'
      <4>1. refused' \subseteq Blocks
        <5>1. CASE UNCHANGED refused
          BY <5>1 DEF PassOK
        <5>2. CASE cur < stop /\ refused' = refused \cup ({cur} \ known)
          BY <5>2 DEF PassOK, Blocks
        <5> QED BY <5>1, <5>2
      <4> QED BY <4>1 DEF PassOK
    <3>4. FileOK' BY DEF FileOK, Sizes, Under, Exact, Over, Cell, Empty
    <3> QED BY <3>1, <3>2, <3>3, <3>4 DEF TypeOK
  <2>19. CASE AcceptTail
    <3> USE <2>19 DEF AcceptTail
    <3>1. ControlOK'
      BY DEF ControlOK, Busy, Ended, ScanTops, ScanWrites, Passing, Completing, Outcomes
    <3>2. MatchOK' BY DEF MatchOK, PassOK, Blocks
    <3>3. PassOK' BY DEF PassOK, Blocks
    <3>4. FileOK' BY DEF FileOK, Sizes, Under, Exact, Over, Cell, Empty
    <3> QED BY <3>1, <3>2, <3>3, <3>4 DEF TypeOK
  <2>20. CASE TailWrite
    <3> USE <2>20 DEF TailWrite, WriteBlock, WriteHead, SizeWith
    <3>1. ControlOK'
      BY DEF ControlOK, Busy, Ended, ScanTops, ScanWrites, Passing, Completing, Outcomes
    <3>2. MatchOK' BY DEF MatchOK, PassOK, Blocks
    <3>3. PassOK' BY DEF PassOK, Blocks
    <3>4. FileOK' BY DEF FileOK, Sizes, Under, Exact, Over, Cell, Empty
    <3> QED BY <3>1, <3>2, <3>3, <3>4 DEF TypeOK
  <2>21. CASE PassWriteFails
    BY <2>21, WriteFailsType DEF PassWriteFails, PassOK, TypeOK
  <2>22. CASE PassDone
    BY <2>22, ReturnOnlyType DEF PassDone, Outcomes
  <2>23. CASE CompleteFails
    <3> USE <2>23 DEF CompleteFails, DropWith
    <3>1. ControlOK'
      BY DEF ControlOK, Busy, Ended, ScanTops, ScanWrites, Passing, Completing, Outcomes
    <3>2. MatchOK' BY DEF MatchOK, PassOK, Blocks
    <3>3. PassOK' BY DEF PassOK, Blocks
    <3>4. FileOK' BY DEF FileOK, Sizes, Under, Exact, Over, Cell, Empty
    <3> QED BY <3>1, <3>2, <3>3, <3>4 DEF TypeOK
  <2>24. CASE EnsureFile
    <3> USE <2>24 DEF EnsureFile
    <3>1. ControlOK'
      BY DEF ControlOK, Busy, Ended, ScanTops, ScanWrites, Passing, Completing, Outcomes
    <3>2. MatchOK' BY DEF MatchOK, PassOK, Blocks
    <3>3. PassOK' BY DEF PassOK, Blocks
    <3>4. FileOK' BY DEF FileOK, Sizes, Under, Exact, Over, Cell, Empty
    <3> QED BY <3>1, <3>2, <3>3, <3>4 DEF TypeOK
  <2>25. CASE SetLen
    <3> USE <2>25 DEF SetLen
    <3>1. ControlOK'
      BY DEF ControlOK, Busy, Ended, ScanTops, ScanWrites, Passing, Completing, Outcomes
    <3>2. MatchOK' BY DEF MatchOK, PassOK, Blocks
    <3>3. PassOK' BY DEF PassOK, Blocks
    <3>4. FileOK' BY DEF FileOK, Sizes, Under, Exact, Over, Cell, Empty
    <3> QED BY <3>1, <3>2, <3>3, <3>4 DEF TypeOK
  <2>26. CASE CheckSha
    <3> USE <2>26 DEF CheckSha, DropWith
    <3>1. ControlOK'
      BY DEF ControlOK, Busy, Ended, ScanTops, ScanWrites, Passing, Completing, Outcomes
    <3>2. MatchOK' BY DEF MatchOK, PassOK, Blocks
    <3>3. PassOK' BY DEF PassOK, Blocks
    <3>4. FileOK' BY DEF FileOK, Sizes, Under, Exact, Over, Cell, Empty
    <3> QED BY <3>1, <3>2, <3>3, <3>4 DEF TypeOK
  <2>27. CASE SyncAll
    <3> USE <2>27 DEF SyncAll
    <3>1. ControlOK'
      BY DEF ControlOK, Busy, Ended, ScanTops, ScanWrites, Passing, Completing, Outcomes
    <3>2. MatchOK' BY DEF MatchOK, PassOK, Blocks
    <3>3. PassOK' BY DEF PassOK, Blocks
    <3>4. FileOK' BY DEF FileOK, Sizes, Under, Exact, Over, Cell, Empty
    <3> QED BY <3>1, <3>2, <3>3, <3>4 DEF TypeOK
  <2>28. CASE CarryPermissions
    <3> USE <2>28 DEF CarryPermissions
    <3>1. ControlOK'
      BY DEF ControlOK, Busy, Ended, ScanTops, ScanWrites, Passing, Completing, Outcomes
    <3>2. MatchOK' BY DEF MatchOK, PassOK, Blocks
    <3>3. PassOK' BY DEF PassOK, Blocks
    <3>4. FileOK' BY DEF FileOK, Sizes, Under, Exact, Over, Cell, Empty
    <3> QED BY <3>1, <3>2, <3>3, <3>4 DEF TypeOK
  <2>29. CASE Rename
    <3> USE <2>29 DEF Rename, NoTempFile
    <3>1. ControlOK'
      BY DEF ControlOK, Busy, Ended, ScanTops, ScanWrites, Passing, Completing, Outcomes
    <3>2. MatchOK' BY DEF MatchOK, PassOK, Blocks
    <3>3. PassOK' BY DEF PassOK, Blocks
    <3>4. FileOK' BY DEF FileOK, Sizes, Under, Exact, Over, Cell, Empty
    <3> QED BY <3>1, <3>2, <3>3, <3>4 DEF TypeOK
  <2>30. CASE DropAssembly
    <3> USE <2>30 DEF DropAssembly, NoTempFile
    <3>1. ControlOK'
      BY DEF ControlOK, Busy, Ended, ScanTops, ScanWrites, Passing, Completing, Outcomes
    <3>2. MatchOK' BY DEF MatchOK, PassOK, Blocks
    <3>3. PassOK' BY DEF PassOK, Blocks
    <3>4. FileOK' BY DEF FileOK, Sizes, Under, Exact, Over, Cell, Empty
    <3> QED BY <3>1, <3>2, <3>3, <3>4 DEF TypeOK
  <2>31. CASE RaiseAbort
    <3> USE <2>31 DEF RaiseAbort
    <3>1. ControlOK'
      BY DEF ControlOK, Busy, Ended, ScanTops, ScanWrites, Passing, Completing, Outcomes
    <3>2. MatchOK' BY DEF MatchOK, PassOK, Blocks
    <3>3. PassOK' BY DEF PassOK, Blocks
    <3>4. FileOK' BY DEF FileOK, Sizes, Under, Exact, Over, Cell, Empty
    <3> QED BY <3>1, <3>2, <3>3, <3>4 DEF TypeOK
  <2>32. CASE LowerAbort
    <3> USE <2>32 DEF LowerAbort
    <3>1. ControlOK'
      BY DEF ControlOK, Busy, Ended, ScanTops, ScanWrites, Passing, Completing, Outcomes
    <3>2. MatchOK' BY DEF MatchOK, PassOK, Blocks
    <3>3. PassOK' BY DEF PassOK, Blocks
    <3>4. FileOK' BY DEF FileOK, Sizes, Under, Exact, Over, Cell, Empty
    <3> QED BY <3>1, <3>2, <3>3, <3>4 DEF TypeOK
  <2>33. CASE Kill
    <3> USE <2>33 DEF Kill
    <3>1. ControlOK'
      BY DEF ControlOK, Busy, Ended, ScanTops, ScanWrites, Passing, Completing, Outcomes
    <3>2. MatchOK' BY DEF MatchOK, PassOK, Blocks
    <3>3. PassOK' BY DEF PassOK, Blocks
    <3>4. FileOK' BY DEF FileOK, Sizes, Under, Exact, Over, Cell, Empty
    <3> QED BY <3>1, <3>2, <3>3, <3>4 DEF TypeOK
  <2>34. CASE PowerLoss
    <3> USE <2>34 DEF PowerLoss
    <3>1. ControlOK'
      BY DEF ControlOK, Busy, Ended, ScanTops, ScanWrites, Passing, Completing, Outcomes
    <3>2. MatchOK' BY DEF MatchOK, PassOK, Blocks
    <3>3. PassOK' BY DEF PassOK, Blocks
    <3>4. FileOK' BY DEF FileOK, Sizes, Under, Exact, Over, Cell, Empty
    <3> QED BY <3>1, <3>2, <3>3, <3>4 DEF TypeOK
  <2>35. CASE Restart
    <3> USE <2>35 DEF Restart
    <3>1. ControlOK'
      <4>1. run' \in Nat BY DEF ControlOK
      <4> QED BY <4>1 DEF ControlOK, Outcomes
    <3>2. MatchOK' BY DEF MatchOK, PassOK, Blocks
    <3>3. PassOK' BY DEF PassOK, Blocks
    <3>4. FileOK' BY DEF FileOK, Sizes, Under, Exact, Over, Cell, Empty
    <3> QED BY <3>1, <3>2, <3>3, <3>4 DEF TypeOK
  <2>36. CASE UNCHANGED vars
    BY <2>36 DEF vars
  <2> QED
    BY <2>1, <2>2, <2>3, <2>4, <2>5, <2>6, <2>7, <2>8, <2>9, <2>10, <2>11,
       <2>12, <2>13, <2>14, <2>15, <2>16, <2>17, <2>18, <2>19, <2>20, <2>21,
       <2>22, <2>23, <2>24, <2>25, <2>26, <2>27, <2>28, <2>29, <2>30, <2>31,
       <2>32, <2>33, <2>34, <2>35, <2>36
       DEF Next, Call, Step, Scan, Pass, Finish, Environment
<1> QED
  BY <1>1, <1>2, PTL DEF Spec
\* The order of the steps of complete(), from which the rest follows.
THEOREM LifeCycleHolds == Spec => []LifeCycle
<1> USE AssemblyAssumption DEF AssemblyAssumption
<1>1. Init => LifeCycle
  BY DEF Init, LifeCycle, Completing, Ended
<1>2. TypeOK /\ LifeCycle /\ [Next]_vars => LifeCycle'
  <2> SUFFICES ASSUME TypeOK, LifeCycle, [Next]_vars PROVE LifeCycle'
    OBVIOUS
  <2> USE DEF LifeCycle, Completing, Ended, ScanTops, ScanWrites, matchVars,
              passVars, fileVars, outVars
  <2>1. CASE SubmitSourceFile
    BY <2>1 DEF SubmitSourceFile, ReturnOnly, Return
  <2>2. CASE SubmitSelfReferential
    BY <2>2 DEF SubmitSelfReferential, ReturnOnly, Return
  <2>3. CASE DownloadMissingBlocks
    BY <2>3 DEF DownloadMissingBlocks, ReturnOnly, Return
  <2>4. CASE Complete
    BY <2>4 DEF Complete, DropWith
  <2>5. CASE Abandon
    BY <2>5 DEF Abandon, DropWith
  <2>6. CASE ScanStops
    BY <2>6 DEF ScanStops, ReturnOnly, Return
  <2>7. CASE ScanChunk
    BY <2>7 DEF ScanChunk
  <2>8. CASE ScanWrite
    BY <2>8 DEF ScanWrite, WriteBlock, SizeWith
  <2>9. CASE ScanWriteFails
    BY <2>9 DEF ScanWriteFails, WriteFails, Return, SizeWith
  <2>10. CASE ScanChunkDone
    BY <2>10 DEF ScanChunkDone
  <2>11. CASE PassAborts
    BY <2>11 DEF PassAborts, ReturnOnly, Return
  <2>12. CASE OpenRange
    BY <2>12 DEF OpenRange
  <2>13. CASE OpenRangeFails
    BY <2>13 DEF OpenRangeFails, ReturnOnly, Return
  <2>14. CASE SkipBlock
    BY <2>14 DEF SkipBlock, BlockInBuffer
  <2>15. CASE AcceptBlock
    BY <2>15 DEF AcceptBlock, BlockInBuffer
  <2>16. CASE BlockWrite
    BY <2>16 DEF BlockWrite, WriteBlock, SizeWith
  <2>17. CASE BodyFails
    BY <2>17 DEF BodyFails, ReturnOnly, Return
  <2>18. CASE BodyEnds
    BY <2>18 DEF BodyEnds
  <2>19. CASE AcceptTail
    BY <2>19 DEF AcceptTail
  <2>20. CASE TailWrite
    BY <2>20 DEF TailWrite, WriteBlock, WriteHead, SizeWith
  <2>21. CASE PassWriteFails
    BY <2>21 DEF PassWriteFails, WriteFails, Return, SizeWith
  <2>22. CASE PassDone
    BY <2>22 DEF PassDone, ReturnOnly, Return
  <2>23. CASE CompleteFails
    BY <2>23 DEF CompleteFails, DropWith
  <2>24. CASE EnsureFile
    BY <2>24 DEF EnsureFile
  <2>25. CASE SetLen
    BY <2>25 DEF SetLen
  <2>26. CASE CheckSha
    BY <2>26 DEF CheckSha, DropWith
  <2>27. CASE SyncAll
    BY <2>27 DEF SyncAll
  <2>28. CASE CarryPermissions
    BY <2>28 DEF CarryPermissions
  <2>29. CASE Rename
    BY <2>29 DEF Rename, NoTempFile
  <2>30. CASE DropAssembly
    BY <2>30 DEF DropAssembly, NoTempFile
  <2>31. CASE RaiseAbort
    BY <2>31 DEF RaiseAbort
  <2>32. CASE LowerAbort
    BY <2>32 DEF LowerAbort
  <2>33. CASE Kill
    BY <2>33 DEF Kill
  <2>34. CASE PowerLoss
    BY <2>34 DEF PowerLoss
  <2>35. CASE Restart
    BY <2>35 DEF Restart
  <2>36. CASE UNCHANGED vars
    BY <2>36 DEF vars
  <2> QED
    BY <2>1, <2>2, <2>3, <2>4, <2>5, <2>6, <2>7, <2>8, <2>9, <2>10, <2>11,
       <2>12, <2>13, <2>14, <2>15, <2>16, <2>17, <2>18, <2>19, <2>20, <2>21,
       <2>22, <2>23, <2>24, <2>25, <2>26, <2>27, <2>28, <2>29, <2>30, <2>31,
       <2>32, <2>33, <2>34, <2>35, <2>36
       DEF Next, Call, Step, Scan, Pass, Finish, Environment
<1> QED
  BY <1>1, <1>2, TypeCorrect, PTL DEF Spec
\* A transfer that fails or succeeds leaves no temporary file behind.
THEOREM TempRemoved == Spec => []NothingLeftBehind
<1>1. LifeCycle => NothingLeftBehind
  BY DEF LifeCycle, NothingLeftBehind
<1> QED
  BY <1>1, LifeCycleHolds, PTL

\* With writes that do not fail, and no block whose missing end passes for
\* zeros, a block that counts as known is in the file.
THEOREM KnownWritten ==
    ASSUME ~IOFails, ShortBodies => ZeroTail = {}
    PROVE  Spec => []KnownIsWritten
<1> USE AssemblyAssumption DEF AssemblyAssumption
<1> DEFINE Inv == KnownIsWritten /\ pc # "headWrite"
<1>1. Init => Inv
  BY DEF Init, KnownIsWritten
<1>2. TypeOK /\ LifeCycle /\ Inv /\ [Next]_vars => Inv'
  <2> SUFFICES ASSUME TypeOK, LifeCycle, Inv, [Next]_vars PROVE Inv'
    OBVIOUS
  <2> USE DEF KnownIsWritten, Active, InFlight, Ended, ScanTops, ScanWrites,
              Completing, TypeOK, MatchOK, FileOK, PassOK, LifeCycle, matchVars,
              passVars, fileVars, outVars
  <2>1. CASE SubmitSourceFile
    BY <2>1 DEF SubmitSourceFile, ReturnOnly, Return
  <2>2. CASE SubmitSelfReferential
    BY <2>2 DEF SubmitSelfReferential, ReturnOnly, Return
  <2>3. CASE DownloadMissingBlocks
    BY <2>3 DEF DownloadMissingBlocks, ReturnOnly, Return
  <2>4. CASE Complete
    BY <2>4 DEF Complete, DropWith
  <2>5. CASE Abandon
    BY <2>5 DEF Abandon, DropWith
  <2>6. CASE ScanStops
    BY <2>6 DEF ScanStops, ReturnOnly, Return
  <2>7. CASE ScanChunk
    BY <2>7 DEF ScanChunk
  <2>8. CASE ScanWrite
    BY <2>8 DEF ScanWrite, WriteBlock, SizeWith
  <2>9. CASE ScanWriteFails
    BY <2>9 DEF ScanWriteFails, WriteFails, Return, SizeWith
  <2>10. CASE ScanChunkDone
    BY <2>10 DEF ScanChunkDone
  <2>11. CASE PassAborts
    BY <2>11 DEF PassAborts, ReturnOnly, Return
  <2>12. CASE OpenRange
    BY <2>12 DEF OpenRange
  <2>13. CASE OpenRangeFails
    BY <2>13 DEF OpenRangeFails, ReturnOnly, Return
  <2>14. CASE SkipBlock
    BY <2>14 DEF SkipBlock, BlockInBuffer
  <2>15. CASE AcceptBlock
    BY <2>15 DEF AcceptBlock, BlockInBuffer
  <2>16. CASE BlockWrite
    BY <2>16 DEF BlockWrite, WriteBlock, SizeWith
  <2>17. CASE BodyFails
    BY <2>17 DEF BodyFails, ReturnOnly, Return
  <2>18. CASE BodyEnds
    BY <2>18 DEF BodyEnds
  <2>19. CASE AcceptTail
    BY <2>19 DEF AcceptTail
  <2>20. CASE TailWrite
    BY <2>20 DEF TailWrite, WriteBlock, WriteHead, SizeWith
  <2>21. CASE PassWriteFails
    BY <2>21 DEF PassWriteFails, WriteFails, Return, SizeWith
  <2>22. CASE PassDone
    BY <2>22 DEF PassDone, ReturnOnly, Return
  <2>23. CASE CompleteFails
    BY <2>23 DEF CompleteFails, DropWith
  <2>24. CASE EnsureFile
    BY <2>24 DEF EnsureFile
  <2>25. CASE SetLen
    BY <2>25 DEF SetLen
  <2>26. CASE CheckSha
    BY <2>26 DEF CheckSha, DropWith
  <2>27. CASE SyncAll
    BY <2>27 DEF SyncAll
  <2>28. CASE CarryPermissions
    BY <2>28 DEF CarryPermissions
  <2>29. CASE Rename
    BY <2>29 DEF Rename, NoTempFile
  <2>30. CASE DropAssembly
    BY <2>30 DEF DropAssembly, NoTempFile
  <2>31. CASE RaiseAbort
    BY <2>31 DEF RaiseAbort
  <2>32. CASE LowerAbort
    BY <2>32 DEF LowerAbort
  <2>33. CASE Kill
    BY <2>33 DEF Kill
  <2>34. CASE PowerLoss
    BY <2>34 DEF PowerLoss
  <2>35. CASE Restart
    BY <2>35 DEF Restart
  <2>36. CASE UNCHANGED vars
    BY <2>36 DEF vars
  <2> QED
    BY <2>1, <2>2, <2>3, <2>4, <2>5, <2>6, <2>7, <2>8, <2>9, <2>10, <2>11,
       <2>12, <2>13, <2>14, <2>15, <2>16, <2>17, <2>18, <2>19, <2>20, <2>21,
       <2>22, <2>23, <2>24, <2>25, <2>26, <2>27, <2>28, <2>29, <2>30, <2>31,
       <2>32, <2>33, <2>34, <2>35, <2>36
       DEF Next, Call, Step, Scan, Pass, Finish, Environment
<1>3. Inv => KnownIsWritten
  OBVIOUS
<1> QED
  BY <1>1, <1>2, <1>3, TypeCorrect, LifeCycleHolds, PTL DEF Spec

\* By the time complete() flushes the file it is the whole target: its SHA-1 says
\* so, or else no write failed and what is known is what is written.
THEOREM AssuredHolds ==
    ASSUME HasSha \/ (~IOFails /\ (ShortBodies => ZeroTail = {}))
    PROVE  Spec => []Assured
<1> USE AssemblyAssumption DEF AssemblyAssumption
<1> DEFINE Sure == ~HasSha => KnownIsWritten
<1>1. Init => Assured
  BY DEF Init, Assured
<1>2. TypeOK /\ LifeCycle /\ Sure /\ Assured /\ [Next]_vars => Assured'
  <2> SUFFICES ASSUME TypeOK, LifeCycle, Sure, Assured, [Next]_vars
               PROVE  Assured'
    OBVIOUS
  <2> USE DEF Assured, Whole, LifeCycle, Ended, ScanTops, ScanWrites, Completing,
              matchVars, passVars, fileVars, outVars
  <2>1. CASE SubmitSourceFile
    BY <2>1 DEF SubmitSourceFile, ReturnOnly, Return
  <2>2. CASE SubmitSelfReferential
    BY <2>2 DEF SubmitSelfReferential, ReturnOnly, Return
  <2>3. CASE DownloadMissingBlocks
    BY <2>3 DEF DownloadMissingBlocks, ReturnOnly, Return
  <2>4. CASE Complete
    BY <2>4 DEF Complete, DropWith
  <2>5. CASE Abandon
    BY <2>5 DEF Abandon, DropWith
  <2>6. CASE ScanStops
    BY <2>6 DEF ScanStops, ReturnOnly, Return
  <2>7. CASE ScanChunk
    BY <2>7 DEF ScanChunk
  <2>8. CASE ScanWrite
    BY <2>8 DEF ScanWrite, WriteBlock, SizeWith
  <2>9. CASE ScanWriteFails
    BY <2>9 DEF ScanWriteFails, WriteFails, Return, SizeWith
  <2>10. CASE ScanChunkDone
    BY <2>10 DEF ScanChunkDone
  <2>11. CASE PassAborts
    BY <2>11 DEF PassAborts, ReturnOnly, Return
  <2>12. CASE OpenRange
    BY <2>12 DEF OpenRange
  <2>13. CASE OpenRangeFails
    BY <2>13 DEF OpenRangeFails, ReturnOnly, Return
  <2>14. CASE SkipBlock
    BY <2>14 DEF SkipBlock, BlockInBuffer
  <2>15. CASE AcceptBlock
    BY <2>15 DEF AcceptBlock, BlockInBuffer
  <2>16. CASE BlockWrite
    BY <2>16 DEF BlockWrite, WriteBlock, SizeWith
  <2>17. CASE BodyFails
    BY <2>17 DEF BodyFails, ReturnOnly, Return
  <2>18. CASE BodyEnds
    BY <2>18 DEF BodyEnds
  <2>19. CASE AcceptTail
    BY <2>19 DEF AcceptTail
  <2>20. CASE TailWrite
    BY <2>20 DEF TailWrite, WriteBlock, WriteHead, SizeWith
  <2>21. CASE PassWriteFails
    BY <2>21 DEF PassWriteFails, WriteFails, Return, SizeWith
  <2>22. CASE PassDone
    BY <2>22 DEF PassDone, ReturnOnly, Return
  <2>23. CASE CompleteFails
    BY <2>23 DEF CompleteFails, DropWith
  <2>24. CASE EnsureFile
    BY <2>24 DEF EnsureFile
  <2>25. CASE SetLen
    BY <2>25 DEF SetLen
  <2>26. CASE CheckSha
    <3>1. CASE HasSha
      BY <2>26, <3>1 DEF CheckSha, DropWith
    <3>2. CASE ~HasSha
      <4>1. \A b \in Blocks : data[b] = "target"
        BY <2>26, <3>2 DEF CheckSha, KnownIsWritten, Active, InFlight
      <4> QED
        BY <2>26, <4>1 DEF CheckSha, DropWith
    <3> QED BY <3>1, <3>2
  <2>27. CASE SyncAll
    BY <2>27 DEF SyncAll
  <2>28. CASE CarryPermissions
    BY <2>28 DEF CarryPermissions
  <2>29. CASE Rename
    BY <2>29 DEF Rename, NoTempFile
  <2>30. CASE DropAssembly
    BY <2>30 DEF DropAssembly, NoTempFile
  <2>31. CASE RaiseAbort
    BY <2>31 DEF RaiseAbort
  <2>32. CASE LowerAbort
    BY <2>32 DEF LowerAbort
  <2>33. CASE Kill
    BY <2>33 DEF Kill
  <2>34. CASE PowerLoss
    BY <2>34 DEF PowerLoss
  <2>35. CASE Restart
    BY <2>35 DEF Restart
  <2>36. CASE UNCHANGED vars
    BY <2>36 DEF vars
  <2> QED
    BY <2>1, <2>2, <2>3, <2>4, <2>5, <2>6, <2>7, <2>8, <2>9, <2>10, <2>11,
       <2>12, <2>13, <2>14, <2>15, <2>16, <2>17, <2>18, <2>19, <2>20, <2>21,
       <2>22, <2>23, <2>24, <2>25, <2>26, <2>27, <2>28, <2>29, <2>30, <2>31,
       <2>32, <2>33, <2>34, <2>35, <2>36
       DEF Next, Call, Step, Scan, Pass, Finish, Environment
<1>3. Spec => []Sure
  <2>1. CASE HasSha
    <3>1. Sure
      BY <2>1
    <3> QED BY <3>1, PTL
  <2>2. CASE ~HasSha
    <3>1. Spec => []KnownIsWritten
      BY <2>2, KnownWritten
    <3>2. KnownIsWritten => Sure
      OBVIOUS
    <3> QED BY <3>1, <3>2, PTL
  <2> QED BY <2>1, <2>2
<1> QED
  BY <1>1, <1>2, <1>3, TypeCorrect, LifeCycleHolds, PTL DEF Spec
\* The output path holds what it held before or the whole target, whenever the
\* process is killed or the power fails: with a SHA-1 whatever else fails,
\* without one when writes do not.
THEOREM OutputSafe ==
    ASSUME HasSha \/ (~IOFails /\ (ShortBodies => ZeroTail = {}))
    PROVE  Spec => []OutputOldOrWhole
<1>1. Assured => OutputOldOrWhole
  BY DEF Assured, OutputOldOrWhole
<1> QED
  BY <1>1, AssuredHolds, PTL

\* Under the same condition the assembly implements the abstract transfer.
THEOREM Refinement ==
    ASSUME HasSha \/ (~IOFails /\ (ShortBodies => ZeroTail = {}))
    PROVE  Spec => RefinesTransfer
<1> USE AssemblyAssumption DEF AssemblyAssumption
<1> USE DEF Abstract!tvars, Abstract!TInit, Abstract!TNext, Abstract!Gain,
            Abstract!Finish, Abstract!Fail, Abstract!Begin, Active
<1>1. Init => Abstract!TInit
  BY DEF Init, Ended
<1>2. TypeOK /\ LifeCycle /\ Assured /\ [Next]_vars
        => [Abstract!TNext]_(Abstract!tvars)
  <2> SUFFICES ASSUME TypeOK, LifeCycle, Assured, [Next]_vars
               PROVE  [Abstract!TNext]_(Abstract!tvars)
    OBVIOUS
  <2> USE DEF Assured, LifeCycle, TypeOK, MatchOK, PassOK, Ended, ScanTops,
              ScanWrites, Completing, matchVars, passVars, fileVars, outVars
  <2>1. CASE SubmitSourceFile
    BY <2>1 DEF SubmitSourceFile, ReturnOnly, Return
  <2>2. CASE SubmitSelfReferential
    BY <2>2 DEF SubmitSelfReferential, ReturnOnly, Return
  <2>3. CASE DownloadMissingBlocks
    BY <2>3 DEF DownloadMissingBlocks, ReturnOnly, Return
  <2>4. CASE Complete
    BY <2>4 DEF Complete, DropWith
  <2>5. CASE Abandon
    BY <2>5 DEF Abandon, DropWith
  <2>6. CASE ScanStops
    BY <2>6 DEF ScanStops, ReturnOnly, Return
  <2>7. CASE ScanChunk
    BY <2>7 DEF ScanChunk
  <2>8. CASE ScanWrite
    BY <2>8 DEF ScanWrite, WriteBlock, SizeWith
  <2>9. CASE ScanWriteFails
    BY <2>9 DEF ScanWriteFails, WriteFails, Return, SizeWith
  <2>10. CASE ScanChunkDone
    BY <2>10 DEF ScanChunkDone
  <2>11. CASE PassAborts
    BY <2>11 DEF PassAborts, ReturnOnly, Return
  <2>12. CASE OpenRange
    BY <2>12 DEF OpenRange
  <2>13. CASE OpenRangeFails
    BY <2>13 DEF OpenRangeFails, ReturnOnly, Return
  <2>14. CASE SkipBlock
    BY <2>14 DEF SkipBlock, BlockInBuffer
  <2>15. CASE AcceptBlock
    <3>1. cur \in Blocks
      BY <2>15 DEF AcceptBlock, BlockInBuffer, Blocks
    <3>2. {cur} \in SUBSET Blocks /\ known' = known \cup {cur}
      BY <2>15, <3>1 DEF AcceptBlock
    <3>3. Active /\ UNCHANGED <<out, Active>>
      BY <2>15 DEF AcceptBlock, BlockInBuffer
    <3>4. Abstract!Gain
      BY <3>2, <3>3
    <3> QED BY <3>4
  <2>16. CASE BlockWrite
    BY <2>16 DEF BlockWrite, WriteBlock, SizeWith
  <2>17. CASE BodyFails
    BY <2>17 DEF BodyFails, ReturnOnly, Return
  <2>18. CASE BodyEnds
    BY <2>18 DEF BodyEnds
  <2>19. CASE AcceptTail
    <3>1. cur \in Blocks
      BY <2>19 DEF AcceptTail, Blocks
    <3>2. {cur} \in SUBSET Blocks /\ known' = known \cup {cur}
      BY <2>19, <3>1 DEF AcceptTail
    <3>3. Active /\ UNCHANGED <<out, Active>>
      BY <2>19 DEF AcceptTail
    <3>4. Abstract!Gain
      BY <3>2, <3>3
    <3> QED BY <3>4
  <2>20. CASE TailWrite
    BY <2>20 DEF TailWrite, WriteBlock, WriteHead, SizeWith
  <2>21. CASE PassWriteFails
    BY <2>21 DEF PassWriteFails, WriteFails, Return, SizeWith
  <2>22. CASE PassDone
    BY <2>22 DEF PassDone, ReturnOnly, Return
  <2>23. CASE CompleteFails
    BY <2>23 DEF CompleteFails, DropWith
  <2>24. CASE EnsureFile
    BY <2>24 DEF EnsureFile
  <2>25. CASE SetLen
    BY <2>25 DEF SetLen
  <2>26. CASE CheckSha
    BY <2>26 DEF CheckSha, DropWith
  <2>27. CASE SyncAll
    BY <2>27 DEF SyncAll
  <2>28. CASE CarryPermissions
    BY <2>28 DEF CarryPermissions
  <2>29. CASE Rename
    BY <2>29 DEF Rename, NoTempFile
  <2>30. CASE DropAssembly
    BY <2>30 DEF DropAssembly, NoTempFile
  <2>31. CASE RaiseAbort
    BY <2>31 DEF RaiseAbort
  <2>32. CASE LowerAbort
    BY <2>32 DEF LowerAbort
  <2>33. CASE Kill
    BY <2>33 DEF Kill
  <2>34. CASE PowerLoss
    BY <2>34 DEF PowerLoss
  <2>35. CASE Restart
    BY <2>35 DEF Restart
  <2>36. CASE UNCHANGED vars
    BY <2>36 DEF vars
  <2> QED
    BY <2>1, <2>2, <2>3, <2>4, <2>5, <2>6, <2>7, <2>8, <2>9, <2>10, <2>11,
       <2>12, <2>13, <2>14, <2>15, <2>16, <2>17, <2>18, <2>19, <2>20, <2>21,
       <2>22, <2>23, <2>24, <2>25, <2>26, <2>27, <2>28, <2>29, <2>30, <2>31,
       <2>32, <2>33, <2>34, <2>35, <2>36
       DEF Next, Call, Step, Scan, Pass, Finish, Environment
<1> QED
  BY <1>1, <1>2, TypeCorrect, LifeCycleHolds, AssuredHolds, PTL
     DEF Spec, RefinesTransfer, Abstract!TSpec

-----------------------------------------------------------------------------
(* Download passes, for any number of blocks and any gap. *)

In(b, r) == r[1] <= b /\ b < r[2]

\* The requests left come after the one under way and do not overlap.
Ahead ==
    /\ pc \in ScanTops \cup ScanWrites \cup {"idle"} => stop = 0
    /\ pc \in Passing =>
           /\ \A b \in Blocks \ known : b < stop \/ \E r \in ranges : In(b, r)
           /\ \A r \in ranges : stop <= r[1] /\ r[1] < r[2]
           /\ \A r, q \in ranges : r # q => r[2] <= q[1] \/ q[2] <= r[1]

LEMMA PlanFacts ==
    ASSUME TypeOK
    PROVE  /\ \A b \in Blocks \ known :
                  \E r \in Requests(NBlocks, Blocks \ known, Gap) : In(b, r)
           /\ \A r \in Requests(NBlocks, Blocks \ known, Gap) : 0 <= r[1] /\ r[1] < r[2]
           /\ \A r, q \in Requests(NBlocks, Blocks \ known, Gap) :
                  r # q => r[2] <= q[1] \/ q[2] <= r[1]
<1> DEFINE missing == Blocks \ known
<1>1. NBlocks \in Nat /\ Gap \in Nat /\ missing \in SUBSET (0 .. NBlocks - 1)
  BY AssemblyAssumption DEF AssemblyAssumption, Blocks
<1> HIDE DEF missing
<1>2. \A b \in missing : \E r \in Requests(NBlocks, missing, Gap) : In(b, r)
  BY <1>1, PlanCovers DEF In
<1>3. \A r, q \in Requests(NBlocks, missing, Gap) : r # q => r[2] <= q[1] \/ q[2] <= r[1]
  BY <1>1, PlanIsDisjoint
<1>4. \A r \in Requests(NBlocks, missing, Gap) : 0 <= r[1] /\ r[1] < r[2]
  BY DEF Requests
<1> QED BY <1>2, <1>3, <1>4 DEF missing

LEMMA AheadKept ==
    ASSUME TypeOK, Ahead, [Next]_vars
    PROVE  Ahead'
<1> USE AssemblyAssumption DEF AssemblyAssumption, Ahead, ScanTops, ScanWrites, Passing,
       Completing, Ended, matchVars, passVars, fileVars, outVars
<1>1. CASE SubmitSourceFile
  BY <1>1 DEF SubmitSourceFile, ReturnOnly, Return
<1>2. CASE SubmitSelfReferential
  BY <1>2 DEF SubmitSelfReferential, ReturnOnly, Return
<1>3. CASE DownloadMissingBlocks
  <2>1. CASE pc' = "pass"
    <3>1. ranges' = Requests(NBlocks, Blocks \ known, Gap) /\ UNCHANGED <<known, stop>>
      BY <1>3, <2>1 DEF DownloadMissingBlocks, ReturnOnly, Return
    <3>2. stop = 0
      BY <1>3 DEF DownloadMissingBlocks
    <3> QED BY <2>1, <3>1, <3>2, PlanFacts
  <2>2. CASE pc' # "pass"
    BY <1>3, <2>2 DEF DownloadMissingBlocks, ReturnOnly, Return
  <2> QED BY <2>1, <2>2
<1>4. CASE Complete
  BY <1>4 DEF Complete, DropWith
<1>5. CASE Abandon
  BY <1>5 DEF Abandon, DropWith
<1>6. CASE ScanStops
  BY <1>6 DEF ScanStops, ReturnOnly, Return
<1>7. CASE ScanChunk
  BY <1>7 DEF ScanChunk
<1>8. CASE ScanWrite
  BY <1>8 DEF ScanWrite, WriteBlock
<1>9. CASE ScanWriteFails
  BY <1>9 DEF ScanWriteFails, WriteFails, Return
<1>10. CASE ScanChunkDone
  BY <1>10 DEF ScanChunkDone
<1>11. CASE PassAborts
  BY <1>11 DEF PassAborts, ReturnOnly, Return
<1>12. CASE OpenRange
  <2>1. PICK r \in ranges :
          /\ \A q \in ranges : r[1] <= q[1]
          /\ ranges' = ranges \ {r} /\ stop' = r[2] /\ pc' = "body"
    BY <1>12 DEF OpenRange
  <2>2. known' = known /\ pc = "pass"
    BY <1>12 DEF OpenRange
  <2>3. \A q \in ranges : q[1] \in Int /\ q[2] \in Int
    BY DEF TypeOK, PassOK, Blocks
  <2>4. \A q \in ranges' : stop' <= q[1]
    BY <2>1, <2>2, <2>3
  <2>5. \A b \in Blocks \ known' : b < stop' \/ \E q \in ranges' : In(b, q)
    <3> SUFFICES ASSUME NEW b \in Blocks \ known PROVE b < r[2] \/ \E q \in ranges' : In(b, q)
      BY <2>1, <2>2
    <3>1. CASE b < stop
      BY <2>1, <2>2, <2>3, <3>1 DEF TypeOK, PassOK, Blocks
    <3>2. CASE \E q \in ranges : In(b, q)
      BY <2>1, <3>2 DEF In
    <3> QED BY <2>2, <3>1, <3>2
  <2> QED BY <2>1, <2>2, <2>4, <2>5
<1>13. CASE OpenRangeFails
  BY <1>13 DEF OpenRangeFails, ReturnOnly, Return
<1>14. CASE SkipBlock
  BY <1>14 DEF SkipBlock, BlockInBuffer
<1>15. CASE AcceptBlock
  BY <1>15 DEF AcceptBlock, BlockInBuffer
<1>16. CASE BlockWrite
  BY <1>16 DEF BlockWrite, WriteBlock
<1>17. CASE BodyFails
  BY <1>17 DEF BodyFails, ReturnOnly, Return
<1>18. CASE BodyEnds
  BY <1>18 DEF BodyEnds
<1>19. CASE AcceptTail
  BY <1>19 DEF AcceptTail
<1>20. CASE TailWrite
  BY <1>20 DEF TailWrite, WriteBlock, WriteHead
<1>21. CASE PassWriteFails
  BY <1>21 DEF PassWriteFails, WriteFails, Return
<1>22. CASE PassDone
  BY <1>22 DEF PassDone, ReturnOnly, Return
<1>23. CASE Finish
  BY <1>23 DEF Finish, CompleteFails, EnsureFile, SetLen, CheckSha, SyncAll, CarryPermissions, Rename, DropAssembly, DropWith
<1>24. CASE RaiseAbort
  BY <1>24 DEF RaiseAbort
<1>25. CASE LowerAbort
  BY <1>25 DEF LowerAbort
<1>26. CASE Kill
  BY <1>26 DEF Kill
<1>27. CASE PowerLoss
  BY <1>27 DEF PowerLoss
<1>28. CASE Restart
  BY <1>28 DEF Restart
<1>29. CASE UNCHANGED vars
  BY <1>29 DEF vars
<1> QED BY <1>1, <1>2, <1>3, <1>4, <1>5, <1>6, <1>7, <1>8, <1>9, <1>10,
           <1>11, <1>12, <1>13, <1>14, <1>15, <1>16, <1>17, <1>18, <1>19, <1>20,
           <1>21, <1>22, <1>23, <1>24, <1>25, <1>26, <1>27, <1>28, <1>29
           DEF Next, Call, Step, Scan, Pass, Environment

\* A pass asks for every missing block, in order and none twice.
THEOREM PassCovers == Spec => []PassCoversMissing
<1>1. Init => Ahead
  BY DEF Init, Ahead, Passing
<1>2. Ahead => PassCoversMissing
  BY DEF Ahead, PassCoversMissing, In
<1> QED BY <1>1, <1>2, AheadKept, TypeCorrect, PTL DEF Spec

\* Each request left, and what is left of the one under way, ends with a block
\* still missing; so a pass that the server fails has not brought the last block.
EndsMissing ==
    /\ pc \in ScanTops \cup ScanWrites \cup Passing => result # "transient"
    /\ pc \in Passing => \A r \in ranges : r[2] - 1 \notin known
    /\ pc = "body" /\ cur < stop => stop - 1 \notin known
    /\ pc = "blockWrite" => cur < stop
    /\ pc = "blockWrite" /\ cur + 1 < stop => stop - 1 \notin known
    /\ result = "transient" => known # Blocks

LEMMA EndsMissingKept ==
    ASSUME TypeOK, Ahead, EndsMissing, [Next]_vars
    PROVE  EndsMissing'
<1> USE AssemblyAssumption DEF AssemblyAssumption, EndsMissing, ScanTops, ScanWrites, Passing,
       Completing, Ended, matchVars, passVars, fileVars, outVars
<1>0. /\ cur \in Nat /\ stop \in 0 .. NBlocks /\ NBlocks \in Nat
      /\ \A r \in ranges : r[1] \in Int /\ r[2] \in 1 .. NBlocks
  BY DEF TypeOK, PassOK, Blocks
<1>a. \A b \in 1 .. NBlocks : b - 1 \in Blocks
  BY DEF Blocks
<1>1. CASE SubmitSourceFile
  BY <1>1 DEF SubmitSourceFile, ReturnOnly, Return
<1>2. CASE SubmitSelfReferential
  BY <1>2 DEF SubmitSelfReferential, ReturnOnly, Return
<1>3. CASE DownloadMissingBlocks
  <2>1. CASE pc' = "pass"
    <3>1. /\ ranges' = Requests(NBlocks, Blocks \ known, Gap) /\ UNCHANGED known
          /\ result' = "none"
      BY <1>3, <2>1 DEF DownloadMissingBlocks, ReturnOnly, Return
    <3>2. \A r \in Requests(NBlocks, Blocks \ known, Gap) : r[2] - 1 \in Blocks \ known
      BY DEF Requests, Closes
    <3> QED BY <2>1, <3>1, <3>2
  <2>2. CASE pc' # "pass"
    BY <1>3, <2>2 DEF DownloadMissingBlocks, ReturnOnly, Return
  <2> QED BY <2>1, <2>2
<1>4. CASE Complete
  BY <1>4 DEF Complete, DropWith
<1>5. CASE Abandon
  BY <1>5 DEF Abandon, DropWith
<1>6. CASE ScanStops
  BY <1>6 DEF ScanStops, ReturnOnly, Return
<1>7. CASE ScanChunk
  BY <1>7 DEF ScanChunk
<1>8. CASE ScanWrite
  BY <1>8 DEF ScanWrite, WriteBlock
<1>9. CASE ScanWriteFails
  BY <1>9 DEF ScanWriteFails, WriteFails, Return
<1>10. CASE ScanChunkDone
  BY <1>10 DEF ScanChunkDone
<1>11. CASE PassAborts
  BY <1>11 DEF PassAborts, ReturnOnly, Return
<1>12. CASE OpenRange
  <2>1. PICK r \in ranges :
          ranges' = ranges \ {r} /\ cur' = r[1] /\ stop' = r[2] /\ pc' = "body"
    BY <1>12 DEF OpenRange
  <2>2. UNCHANGED <<known, result>> /\ pc = "pass"
    BY <1>12 DEF OpenRange
  <2> QED BY <2>1, <2>2
<1>13. CASE OpenRangeFails
  <2>1. /\ pc = "pass" /\ ranges # {} /\ UNCHANGED known /\ pc' = "idle"
    BY <1>13 DEF OpenRangeFails, ReturnOnly, Return
  <2>2. known # Blocks
    BY <1>0, <1>a, <2>1
  <2> QED BY <2>1, <2>2
<1>14. CASE SkipBlock
  <2>1. /\ cur < stop /\ cur' = cur + 1 /\ pc = "body"
        /\ UNCHANGED <<pc, known, ranges, stop, result>>
    BY <1>14 DEF SkipBlock, BlockInBuffer
  <2> QED BY <1>0, <2>1
<1>15. CASE AcceptBlock
  <2>1. /\ cur < stop /\ pc = "body" /\ pc' = "blockWrite" /\ known' = known \cup {cur}
        /\ UNCHANGED <<cur, ranges, stop, result>>
    BY <1>15 DEF AcceptBlock, BlockInBuffer, passVars
  <2>2. \A r \in ranges : r[2] - 1 # cur
    BY <1>0, <2>1 DEF Ahead
  <2> QED BY <1>0, <2>1, <2>2
<1>16. CASE BlockWrite
  <2>1. /\ cur' = cur + 1 /\ pc = "blockWrite" /\ pc' = "body"
        /\ UNCHANGED <<known, ranges, stop, result>>
    BY <1>16 DEF BlockWrite
  <2> QED BY <1>0, <2>1
<1>17. CASE BodyFails
  <2>1. pc = "body" /\ cur < stop /\ UNCHANGED known /\ pc' = "idle"
    BY <1>17 DEF BodyFails, ReturnOnly, Return
  <2>2. stop \in 1 .. NBlocks
    BY <1>0, <2>1
  <2>3. known # Blocks
    BY <1>a, <2>1, <2>2
  <2> QED BY <2>1, <2>3
<1>18. CASE BodyEnds
  BY <1>18 DEF BodyEnds
<1>19. CASE AcceptTail
  <2>1. /\ cur < stop /\ pc = "body" /\ pc' \in {"tailWrite", "headWrite"}
        /\ known' = known \cup {cur} /\ UNCHANGED <<cur, ranges, stop, result>>
    BY <1>19 DEF AcceptTail
  <2>2. \A r \in ranges : r[2] - 1 # cur
    BY <1>0, <2>1 DEF Ahead
  <2> QED BY <2>1, <2>2
<1>20. CASE TailWrite
  BY <1>20 DEF TailWrite, WriteBlock, WriteHead
<1>21. CASE PassWriteFails
  BY <1>21 DEF PassWriteFails, WriteFails, Return
<1>22. CASE PassDone
  BY <1>22 DEF PassDone, ReturnOnly, Return
<1>23. CASE Finish
  BY <1>23 DEF Finish, CompleteFails, EnsureFile, SetLen, CheckSha, SyncAll, CarryPermissions, Rename, DropAssembly, DropWith
<1>24. CASE RaiseAbort
  BY <1>24 DEF RaiseAbort
<1>25. CASE LowerAbort
  BY <1>25 DEF LowerAbort
<1>26. CASE Kill
  BY <1>26 DEF Kill
<1>27. CASE PowerLoss
  BY <1>27 DEF PowerLoss
<1>28. CASE Restart
  BY <1>28 DEF Restart
<1>29. CASE UNCHANGED vars
  BY <1>29 DEF vars
<1> QED BY <1>1, <1>2, <1>3, <1>4, <1>5, <1>6, <1>7, <1>8, <1>9, <1>10,
           <1>11, <1>12, <1>13, <1>14, <1>15, <1>16, <1>17, <1>18, <1>19, <1>20,
           <1>21, <1>22, <1>23, <1>24, <1>25, <1>26, <1>27, <1>28, <1>29
           DEF Next, Call, Step, Scan, Pass, Environment

\* A request that fails, or a body that does, leaves a block missing.
THEOREM TransientMeansMissing == Spec => [](result = "transient" => known # Blocks)
<1>1. Init => Ahead
  BY DEF Init, Ahead, Passing
<1>2. Init => EndsMissing
  BY DEF Init, EndsMissing, ScanTops, ScanWrites, Passing
<1>3. EndsMissing => (result = "transient" => known # Blocks)
  BY DEF EndsMissing
<1> QED BY <1>1, <1>2, <1>3, AheadKept, EndsMissingKept, TypeCorrect, PTL DEF Spec

\* With bodies that are whole, a missing block the pass no longer has ahead of it
\* was refused; so after a pass that added nothing, every missing one was.
Accounted ==
    /\ pc \in Passing =>
           /\ result # "nothing"
           /\ \A b \in Blocks \ known :
                  \/ b \in refused
                  \/ \E r \in ranges : In(b, r)
                  \/ pc # "pass" /\ cur <= b /\ b < stop
    /\ pc \in {"blockWrite", "tailWrite"} => cur < stop /\ cur \in known
    /\ pc = "tailWrite" => cur = Last
    /\ pc # "headWrite"
    /\ result = "nothing" => Blocks \ known \subseteq refused

LEMMA AccountedKept ==
    ASSUME TypeOK, Accounted, [Next]_vars, ~ShortBodies
    PROVE  Accounted'
<1> USE AssemblyAssumption DEF AssemblyAssumption, Accounted, ScanTops, ScanWrites, Passing,
       Completing, Ended, matchVars, passVars, fileVars, outVars
<1>1. CASE SubmitSourceFile
  BY <1>1 DEF SubmitSourceFile, ReturnOnly, Return
<1>2. CASE SubmitSelfReferential
  BY <1>2 DEF SubmitSelfReferential, ReturnOnly, Return
<1>3. CASE DownloadMissingBlocks
  <2>1. CASE pc' = "pass"
    <3>1. /\ ranges' = Requests(NBlocks, Blocks \ known, Gap) /\ UNCHANGED known
          /\ result' = "none"
      BY <1>3, <2>1 DEF DownloadMissingBlocks, ReturnOnly, Return
    <3> QED BY <2>1, <3>1, PlanFacts
  <2>2. CASE pc' # "pass"
    BY <1>3, <2>2 DEF DownloadMissingBlocks, ReturnOnly, Return
  <2> QED BY <2>1, <2>2
<1>4. CASE Complete
  BY <1>4 DEF Complete, DropWith
<1>5. CASE Abandon
  BY <1>5 DEF Abandon, DropWith
<1>6. CASE ScanStops
  BY <1>6 DEF ScanStops, ReturnOnly, Return
<1>7. CASE ScanChunk
  BY <1>7 DEF ScanChunk
<1>8. CASE ScanWrite
  BY <1>8 DEF ScanWrite, WriteBlock
<1>9. CASE ScanWriteFails
  <2>1. Return("io") /\ UNCHANGED <<known, refused>>
    BY <1>9 DEF ScanWriteFails, WriteFails
  <2> QED BY <2>1 DEF Return
<1>10. CASE ScanChunkDone
  BY <1>10 DEF ScanChunkDone
<1>11. CASE PassAborts
  BY <1>11 DEF PassAborts, ReturnOnly, Return
<1>12. CASE OpenRange
  <2>1. PICK r \in ranges :
          ranges' = ranges \ {r} /\ cur' = r[1] /\ stop' = r[2] /\ pc' = "body"
    BY <1>12 DEF OpenRange
  <2>2. UNCHANGED <<known, refused, result>> /\ pc = "pass"
    BY <1>12 DEF OpenRange
  <2> QED BY <2>1, <2>2 DEF In
<1>13. CASE OpenRangeFails
  BY <1>13 DEF OpenRangeFails, ReturnOnly, Return
<1>14. CASE SkipBlock
  <2>1. /\ refused' = IF cur \in known THEN refused ELSE refused \cup {cur}
        /\ cur' = cur + 1 /\ pc = "body"
        /\ UNCHANGED <<pc, known, ranges, stop, result>>
    BY <1>14 DEF SkipBlock, BlockInBuffer
  <2>2. cur \in Int /\ \A b \in Blocks : b \in Int
    BY DEF TypeOK, PassOK, Blocks
  <2> QED BY <2>1, <2>2
<1>15. CASE AcceptBlock
  BY <1>15 DEF AcceptBlock, BlockInBuffer
<1>16. CASE BlockWrite
  <2>1. /\ cur' = cur + 1 /\ pc = "blockWrite" /\ pc' = "body"
        /\ UNCHANGED <<known, ranges, stop, refused, result>>
    BY <1>16 DEF BlockWrite
  <2>2. cur \in Int /\ \A b \in Blocks : b \in Int
    BY DEF TypeOK, PassOK, Blocks
  <2> QED BY <2>1, <2>2
<1>17. CASE BodyFails
  BY <1>17 DEF BodyFails, ReturnOnly, Return
<1>18. CASE BodyEnds
  <2>1. /\ pc = "body" /\ pc' = "pass"
        /\ UNCHANGED <<known, ranges, result>>
        /\ \/ cur = stop /\ refused' = refused
           \/ cur = Last /\ refused' = refused \cup ({cur} \ known)
    BY <1>18 DEF BodyEnds
  <2>2. cur \in Int /\ stop \in 0 .. NBlocks /\ \A b \in Blocks : b \in Int /\ b <= Last
    BY DEF TypeOK, PassOK, Blocks, Last
  <2> QED BY <2>1, <2>2 DEF Last
<1>19. CASE AcceptTail
  BY <1>19 DEF AcceptTail
<1>20. CASE TailWrite
  <2>1. /\ pc = "tailWrite" /\ pc' = "pass"
        /\ UNCHANGED <<known, ranges, refused, result>>
    BY <1>20 DEF TailWrite
  <2>2. cur \in Int /\ \A b \in Blocks : b \in Int /\ b <= Last
    BY DEF TypeOK, PassOK, Blocks, Last
  <2>3. \A b \in Blocks \ known : ~(cur <= b /\ b < stop)
    BY <2>1, <2>2 DEF Last
  <2> QED BY <2>1, <2>3
<1>21. CASE PassWriteFails
  <2>1. Return("io") /\ UNCHANGED <<known, refused>>
    BY <1>21 DEF PassWriteFails, WriteFails
  <2> QED BY <2>1 DEF Return
<1>22. CASE PassDone
  BY <1>22 DEF PassDone, ReturnOnly, Return
<1>23. CASE Finish
  BY <1>23 DEF Finish, CompleteFails, EnsureFile, SetLen, CheckSha, SyncAll, CarryPermissions, Rename, DropAssembly, DropWith
<1>24. CASE RaiseAbort
  BY <1>24 DEF RaiseAbort
<1>25. CASE LowerAbort
  BY <1>25 DEF LowerAbort
<1>26. CASE Kill
  BY <1>26 DEF Kill
<1>27. CASE PowerLoss
  BY <1>27 DEF PowerLoss
<1>28. CASE Restart
  BY <1>28 DEF Restart
<1>29. CASE UNCHANGED vars
  BY <1>29 DEF vars
<1> QED BY <1>1, <1>2, <1>3, <1>4, <1>5, <1>6, <1>7, <1>8, <1>9, <1>10,
           <1>11, <1>12, <1>13, <1>14, <1>15, <1>16, <1>17, <1>18, <1>19, <1>20,
           <1>21, <1>22, <1>23, <1>24, <1>25, <1>26, <1>27, <1>28, <1>29
           DEF Next, Call, Step, Scan, Pass, Environment

\* What the program reports as not matching did arrive, unless bodies may be cut
\* short.
THEOREM NothingMeansRefused ==
    ASSUME ~ShortBodies
    PROVE  Spec => [](result = "nothing" => Blocks \ known \subseteq refused)
<1>1. Init => Accounted
  BY DEF Init, Accounted, Passing
<1>2. Accounted => (result = "nothing" => Blocks \ known \subseteq refused)
  BY DEF Accounted
<1> QED BY <1>1, <1>2, AccountedKept, TypeCorrect, PTL DEF Spec
==============================================================================
