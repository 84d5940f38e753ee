---------------------------- MODULE Ranges_proofs ----------------------------
(***************************************************************************)
(* Theorems about the control file and the requests planned from it, for   *)
(* every cap, every target, every set of known blocks and every gap: what  *)
(* is accepted can be worked with, what was written is read back, and the  *)
(* loops behind a pass compute the plan that RequestPlan states.           *)
(***************************************************************************)
EXTENDS Ranges, ControlFile_proofs

-----------------------------------------------------------------------------
(* The control file. *)

LEMMA BeginKeeps == ASSUME ControlInv, Begin PROVE ControlInv'
BY DEF Begin, ControlInv, ControlTyped, Counted, Measured, MadeIsUsable, ReservedAsArrived,
       ReadsWhatWasWritten, Full, Usable, makerVars, headerVars

LEMMA StepKeeps == ASSUME ControlInv, [Next]_vars PROVE ControlInv'
BY ControlKeeps, BeginKeeps, UnchangedKeeps DEF Next, Make, MarkKnown, vars

\* In every state of every run, what was read of a file is what was written.
THEOREM ControlInvariant == Spec => []ControlInv
<1>1. ControlInv /\ [Next]_vars => ControlInv'
  BY StepKeeps
<1>2. Init => ControlInv
  BY InitControl DEF Init
<1> QED BY <1>1, <1>2, PTL DEF Spec

\* Whatever a server sends, what is accepted is what scanning and planning rest on.
THEOREM UsableTheorem == Spec => []AcceptedIsUsable
<1>1. ControlInv => AcceptedIsUsable
  BY UsableWhenAccepted DEF AcceptedIsUsable
<1> QED BY ControlInvariant, <1>1, PTL

\* Room is reserved for records that have arrived, never for claimed ones.
THEOREM ReservedTheorem == Spec => []ReservedAsArrived
<1>1. ControlInv => ReservedAsArrived
  BY DEF ControlInv
<1> QED BY ControlInvariant, <1>1, PTL

\* What zsyncmake left behind when it failed or was killed is never accepted.
THEOREM PartialTheorem == Spec => []PartialIsRefused
<1>1. ControlInv => PartialIsRefused
  BY WholeWhenAccepted DEF PartialIsRefused, ControlInv, ControlTyped
<1> QED BY ControlInvariant, <1>1, PTL

\* What zsyncmake writes whole parses back to what it generated, under any cap
\* that its own eight lines fit in.
THEOREM RoundTrip == ASSUME MaxHeader >= 8 PROVE Spec => []WrittenParsesBack
<1>1. ControlInv /\ WholeIsAccepted => WrittenParsesBack
  BY ReadBack DEF WrittenParsesBack, WholeIsAccepted
<1>2. Init => WholeIsAccepted
  BY DEF Init, ControlInit, WholeIsAccepted
<1>3. ControlInv /\ WholeIsAccepted /\ [Next]_vars => WholeIsAccepted'
  <2>1. Begin \/ MarkKnown \/ UNCHANGED vars => (WholeIsAccepted => WholeIsAccepted')
    BY DEF Begin, MarkKnown, vars, controlVars, makerVars, WholeIsAccepted
  <2> QED BY <2>1, WholeStays DEF Next, Make
<1> QED BY ControlInvariant, <1>1, <1>2, <1>3, PTL DEF Spec

-----------------------------------------------------------------------------
(* The loop over known_blocks. *)

Scan == [start : {NoStart} \cup Nat, ranges : Seq(Nat \X Nat)]
Started == [start |-> NoStart, ranges |-> <<>>]
Scanned == [i \in 1 .. Count |-> i - 1]

LEMMA StepTyped ==
    ASSUME NEW state \in Scan, NEW b \in Nat
    PROVE  Step(state, b) \in Scan
<1>1. CASE b \notin known /\ state.start = NoStart
  BY <1>1 DEF Step, Scan
<1>2. CASE b \in known /\ state.start # NoStart
  <2>1. <<state.start, b>> \in Nat \X Nat /\ state.ranges \in Seq(Nat \X Nat)
    BY <1>2 DEF Scan
  <2>2. Append(state.ranges, <<state.start, b>>) \in Seq(Nat \X Nat)
    BY <2>1
  <2> QED BY <1>2, <2>2 DEF Step, Scan
<1>3. CASE ~(b \notin known /\ state.start = NoStart) /\ ~(b \in known /\ state.start # NoStart)
  BY <1>3 DEF Step
<1> QED BY <1>1, <1>2, <1>3

\* The fold goes through one state per block, in order.
LEMMA ScanTrace ==
    ASSUME Count \in Nat
    PROVE  \E g : /\ g[0] = Started
                  /\ \A i \in 1 .. Count : g[i] = Step(g[i - 1], i - 1)
                  /\ FoldLeft(Step, Started, Scanned) = g[Count]
<1> DEFINE Loop(h) == [s \in SUBSET (DOMAIN Scanned) |->
                          IF s = {} THEN Started
                          ELSE Step(h[s \ {Max(s)}], Scanned[Max(s)])]
           iter == CHOOSE h : h = Loop(h)
           f == [x \in Scan \X (1 .. Count) |-> Step(x[1], Scanned[x[2]])]
           g == [i \in 0 .. Count |-> iter[1 .. i]]
<1>1. DOMAIN Scanned = 1 .. Count /\ \A i \in 1 .. Count : Scanned[i] = i - 1 /\ i - 1 \in Nat
  BY DEF Scanned
<1>2. Started \in Scan
  BY DEF Started, Scan
<1>3. f \in [Scan \X (1 .. Count) -> Scan]
  <2>1. ASSUME NEW x \in Scan \X (1 .. Count) PROVE Step(x[1], Scanned[x[2]]) \in Scan
    <3>1. x[1] \in Scan /\ x[2] \in 1 .. Count
      OBVIOUS
    <3> QED BY <1>1, <3>1, StepTyped
  <2> QED BY <2>1
<1>4. \E h : h = Loop(h)
  <2>1. PICK h \in [SUBSET (1 .. Count) -> Scan] :
               \A s \in SUBSET (1 .. Count) :
                   h[s] = IF s = {} THEN Started ELSE f[<<h[s \ {Max(s)}], Max(s)>>]
    <3> HIDE DEF f
    <3>1. \E h \in [SUBSET (1 .. Count) -> Scan] : Solves(h, Count, Started, f)
      BY <1>2, <1>3, FoldExists
    <3> QED BY <3>1 DEF Solves
  <2>2. ASSUME NEW s \in SUBSET (1 .. Count)
        PROVE  h[s] = IF s = {} THEN Started ELSE Step(h[s \ {Max(s)}], Scanned[Max(s)])
    <3>1. CASE s = {}
      BY <2>1, <3>1
    <3>2. CASE s # {}
      <4>1. Max(s) \in 1 .. Count
        BY <3>2, MaxOf
      <4>2. h[s \ {Max(s)}] \in Scan
        OBVIOUS
      <4>3. <<h[s \ {Max(s)}], Max(s)>> \in Scan \X (1 .. Count)
        BY <4>1, <4>2
      <4>4. f[<<h[s \ {Max(s)}], Max(s)>>] = Step(h[s \ {Max(s)}], Scanned[Max(s)])
        BY <4>3
      <4> QED BY <2>1, <3>2, <4>4
    <3> QED BY <3>1, <3>2
  <2>3. h = Loop(h)
    BY <1>1, <2>2
  <2> QED BY <2>3
<1>5. iter = Loop(iter)
  BY <1>4
<1>6. FoldLeft(Step, Started, Scanned) = iter[DOMAIN Scanned]
  BY DEF FoldLeft, MapThenFoldSet
<1> HIDE DEF iter
<1>7. iter[{}] = Started
  BY <1>5
<1>8. ASSUME NEW i \in 1 .. Count PROVE iter[1 .. i] = Step(iter[1 .. i - 1], i - 1)
  <2>1. 1 .. i # {} /\ Max(1 .. i) = i /\ (1 .. i) \ {i} = 1 .. i - 1
    <3>1. i \in Nat \ {0}
      OBVIOUS
    <3> QED BY <3>1, MaxOfInterval
  <2>2. 1 .. i \in SUBSET (DOMAIN Scanned)
    BY <1>1
  <2>3. iter[1 .. i] = Step(iter[(1 .. i) \ {Max(1 .. i)}], Scanned[Max(1 .. i)])
    BY <1>5, <2>1, <2>2
  <2> QED BY <1>1, <2>1, <2>3
<1>9. g[0] = Started
  <2>1. 1 .. 0 = {}
    OBVIOUS
  <2> QED BY <1>7, <2>1
<1>10. \A i \in 1 .. Count : g[i] = Step(g[i - 1], i - 1)
  BY <1>8
<1>11. FoldLeft(Step, Started, Scanned) = g[Count]
  BY <1>1, <1>6
<1> HIDE DEF g
<1> QED BY <1>9, <1>10, <1>11

Missing == Blocks \ known

\* Runs of missing blocks, in order, each as long as it can be.
Runs(rs) ==
    /\ rs \in Seq(Nat \X Nat)
    /\ \A i \in 1 .. Len(rs) :
        /\ rs[i][1] < rs[i][2]
        /\ \A b \in Nat : rs[i][1] <= b /\ b < rs[i][2] => b \in Missing
        /\ rs[i][2] \notin Missing /\ rs[i][1] - 1 \notin Missing
    /\ \A i, j \in 1 .. Len(rs) : i < j => rs[i][2] < rs[j][1]

In(rs, b) == \E i \in 1 .. Len(rs) : rs[i][1] <= b /\ b < rs[i][2]

\* Pushing a run.
LEMMA RunPushed ==
    ASSUME NEW rs, Runs(rs), NEW s \in Nat, NEW e \in Nat, s < e,
           \A b \in Nat : s <= b /\ b < e => b \in Missing,
           e \notin Missing, s - 1 \notin Missing,
           \A i \in 1 .. Len(rs) : rs[i][2] < s
    PROVE  /\ Runs(Append(rs, <<s, e>>))
           /\ \A b \in Nat : In(rs, b) \/ (s <= b /\ b < e) => In(Append(rs, <<s, e>>), b)
           /\ \A i \in 1 .. Len(Append(rs, <<s, e>>)) : Append(rs, <<s, e>>)[i][2] <= e
<1>1. PICK qs : qs = Append(rs, <<s, e>>)
  OBVIOUS
<1>2. PICK r \in Nat \X Nat : r = <<s, e>>
  OBVIOUS
<1>3. r[1] = s /\ r[2] = e
  BY <1>2
<1>4. rs \in Seq(Nat \X Nat)
  BY DEF Runs
<1>5. /\ qs \in Seq(Nat \X Nat) /\ Len(qs) = Len(rs) + 1 /\ Len(rs) \in Nat
      /\ \A i \in 1 .. Len(rs) : qs[i] = rs[i]
      /\ qs[Len(rs) + 1] = r
  BY <1>1, <1>2, <1>4, Appended
<1>6. \A i \in 1 .. Len(qs) : i \in 1 .. Len(rs) \/ i = Len(rs) + 1
  BY <1>5
<1>7. \A i \in 1 .. Len(rs) : rs[i][1] \in Nat /\ rs[i][2] \in Nat
  <2>1. \A i \in 1 .. Len(rs) : rs[i] \in Nat \X Nat
    BY <1>4
  <2> QED BY <2>1
<1>8. ASSUME NEW i \in 1 .. Len(qs)
      PROVE  /\ qs[i][1] < qs[i][2]
             /\ \A b \in Nat : qs[i][1] <= b /\ b < qs[i][2] => b \in Missing
             /\ qs[i][2] \notin Missing /\ qs[i][1] - 1 \notin Missing
             /\ qs[i][2] <= e
  <2>1. CASE i \in 1 .. Len(rs)
    <3>1. qs[i] = rs[i] /\ rs[i][2] < s
      BY <1>5, <2>1
    <3>2. rs[i][2] <= e
      BY <1>7, <2>1, <3>1
    <3> QED BY <2>1, <3>1, <3>2 DEF Runs
  <2>2. CASE i = Len(rs) + 1
    BY <1>3, <1>5, <2>2
  <2> QED BY <1>6, <2>1, <2>2
<1>9. ASSUME NEW i \in 1 .. Len(qs), NEW j \in 1 .. Len(qs), i < j
      PROVE  qs[i][2] < qs[j][1]
  <2>1. i \in 1 .. Len(rs)
    BY <1>5, <1>9
  <2>2. CASE j \in 1 .. Len(rs)
    BY <1>5, <1>9, <2>1, <2>2 DEF Runs
  <2>3. CASE j = Len(rs) + 1
    BY <1>3, <1>5, <2>1, <2>3
  <2> QED BY <1>6, <2>2, <2>3
<1>10. Runs(qs)
  BY <1>5, <1>8, <1>9 DEF Runs
<1>11. ASSUME NEW b \in Nat, In(rs, b) \/ (s <= b /\ b < e) PROVE In(qs, b)
  <2>1. CASE In(rs, b)
    <3>1. PICK i \in 1 .. Len(rs) : rs[i][1] <= b /\ b < rs[i][2]
      BY <2>1 DEF In
    <3>2. i \in 1 .. Len(qs) /\ qs[i] = rs[i]
      BY <1>5
    <3> QED BY <3>1, <3>2 DEF In
  <2>2. CASE s <= b /\ b < e
    <3>1. Len(rs) + 1 \in 1 .. Len(qs)
      BY <1>5
    <3> QED BY <1>3, <1>5, <2>2, <3>1 DEF In
  <2> QED BY <1>11, <2>1, <2>2
<1> QED BY <1>1, <1>8, <1>10, <1>11

\* After the blocks below k: what is pushed, and the run that is open.
ScanInv(state, k) ==
    /\ state \in Scan /\ Runs(state.ranges)
    /\ state.start = NoStart =>
        /\ k - 1 \notin Missing
        /\ \A i \in 1 .. Len(state.ranges) : state.ranges[i][2] < k
        /\ \A b \in Missing : b < k => In(state.ranges, b)
    /\ state.start # NoStart =>
        /\ state.start < k /\ state.start - 1 \notin Missing
        /\ \A b \in Nat : state.start <= b /\ b < k => b \in Missing
        /\ \A i \in 1 .. Len(state.ranges) : state.ranges[i][2] < state.start
        /\ \A b \in Missing : b < state.start => In(state.ranges, b)

LEMMA ScanStep ==
    ASSUME Count \in Nat, NEW k \in Nat, k < Count, NEW state, ScanInv(state, k)
    PROVE  ScanInv(Step(state, k), k + 1)
<1>1. state \in Scan /\ Runs(state.ranges) /\ Step(state, k) \in Scan
  BY StepTyped DEF ScanInv
<1>2. k \in Missing <=> k \notin known
  BY DEF Missing, Blocks
<1>3. Missing \subseteq Nat
  BY DEF Missing, Blocks
<1>4. state.start = NoStart \/ state.start \in Nat
  BY <1>1 DEF Scan
<1>5. ASSUME NEW i \in 1 .. Len(state.ranges) PROVE state.ranges[i][2] \in Nat
  <2>1. state.ranges[i] \in Nat \X Nat
    BY <1>1 DEF Scan
  <2> QED BY <2>1
<1>6. CASE k \notin known /\ state.start = NoStart
  <2>1. Step(state, k) = [state EXCEPT !.start = k]
    BY <1>6 DEF Step
  <2>2. Step(state, k).start = k /\ Step(state, k).ranges = state.ranges /\ k # NoStart
    BY <1>1, <2>1 DEF Scan, NoStart
  <2>3. \A b \in Nat : k <= b /\ b < k + 1 => b = k
    OBVIOUS
  <2> QED BY <1>1, <1>2, <1>6, <2>2, <2>3 DEF ScanInv
<1>7. CASE k \in known /\ state.start # NoStart
  <2>1. Step(state, k) = [start |-> NoStart, ranges |-> Append(state.ranges, <<state.start, k>>)]
    BY <1>7 DEF Step
  <2>2. /\ Step(state, k).start = NoStart
        /\ Step(state, k).ranges = Append(state.ranges, <<state.start, k>>)
    BY <2>1
  <2>3. PICK s \in Nat : s = state.start
    BY <1>4, <1>7
  <2>4. /\ s < k /\ s - 1 \notin Missing /\ k \notin Missing
        /\ \A b \in Nat : s <= b /\ b < k => b \in Missing
        /\ \A i \in 1 .. Len(state.ranges) : state.ranges[i][2] < s
        /\ \A b \in Missing : b < s => In(state.ranges, b)
    BY <1>2, <1>7, <2>3 DEF ScanInv
  <2>5. PICK rs : rs = state.ranges
    OBVIOUS
  <2>6. PICK qs : qs = Append(rs, <<s, k>>)
    OBVIOUS
  <2>7. /\ Runs(qs) /\ \A b \in Nat : In(rs, b) \/ (s <= b /\ b < k) => In(qs, b)
        /\ \A i \in 1 .. Len(qs) : qs[i][2] <= k
    BY <1>1, <2>4, <2>5, <2>6, RunPushed
  <2>8. ASSUME NEW b \in Missing, b < k + 1 PROVE In(qs, b)
    <3>1. b \in Nat /\ b # k
      BY <1>3, <2>4
    <3> QED BY <2>4, <2>5, <2>7, <2>8, <3>1
  <2>9. ASSUME NEW i \in 1 .. Len(qs) PROVE qs[i][2] < k + 1
    <3>1. qs[i] \in Nat \X Nat
      BY <2>7 DEF Runs
    <3> QED BY <2>7, <3>1
  <2>10. (k + 1) - 1 \notin Missing
    BY <2>4
  <2> QED BY <1>1, <2>2, <2>3, <2>5, <2>6, <2>7, <2>8, <2>9, <2>10 DEF ScanInv
<1>8. CASE k \in known /\ state.start = NoStart
  <2>1. Step(state, k) = state
    BY <1>8 DEF Step
  <2>2. k \notin Missing /\ (k + 1) - 1 = k
    BY <1>2, <1>8
  <2>3. \A b \in Missing : b < k + 1 => b < k
    BY <1>3, <2>2
  <2>4. \A i \in 1 .. Len(state.ranges) : state.ranges[i][2] < k + 1
    BY <1>5, <1>8 DEF ScanInv
  <2> QED BY <1>1, <1>8, <2>1, <2>2, <2>3, <2>4 DEF ScanInv
<1>9. CASE k \notin known /\ state.start # NoStart
  <2>1. Step(state, k) = state
    BY <1>9 DEF Step
  <2>2. k \in Missing
    BY <1>2, <1>9
  <2>3. state.start \in Nat /\ state.start < k + 1
    BY <1>4, <1>9 DEF ScanInv
  <2>4. \A b \in Nat : state.start <= b /\ b < k + 1 => b \in Missing
    <3>1. \A b \in Nat : b < k + 1 => b < k \/ b = k
      OBVIOUS
    <3> QED BY <1>9, <2>2, <3>1 DEF ScanInv
  <2> QED BY <1>1, <1>9, <2>1, <2>3, <2>4 DEF ScanInv
<1> QED BY <1>6, <1>7, <1>8, <1>9

\* needed_block_ranges: the runs of missing blocks, all of them and no other
\* block.
LEMMA NeededRuns ==
    ASSUME Count \in Nat, known \subseteq Nat
    PROVE  /\ Runs(NeededBlockRanges)
           /\ \A b \in Missing : In(NeededBlockRanges, b)
           /\ \A i \in 1 .. Len(NeededBlockRanges) : NeededBlockRanges[i][2] <= Count
<1>1. PICK g : /\ g[0] = Started
               /\ \A i \in 1 .. Count : g[i] = Step(g[i - 1], i - 1)
               /\ FoldLeft(Step, Started, Scanned) = g[Count]
  BY ScanTrace
<1> DEFINE S == {k \in Nat : k <= Count => ScanInv(g[k], k)}
<1>2. 0 \in S
  <2>1. Started \in Scan /\ Started.start = NoStart /\ Started.ranges = <<>>
    BY DEF Started, Scan
  <2>2. Runs(<<>>)
    BY DEF Runs
  <2>3. \A b \in Missing : ~(b < 0)
    BY DEF Missing, Blocks
  <2>4. 0 - 1 \notin Missing
    BY DEF Missing, Blocks
  <2>5. ScanInv(Started, 0)
    BY <2>1, <2>2, <2>3, <2>4 DEF ScanInv
  <2> QED BY <1>1, <2>5
<1>3. ASSUME NEW k \in Nat, k \in S PROVE k + 1 \in S
  <2>1. SUFFICES ASSUME k + 1 <= Count PROVE ScanInv(g[k + 1], k + 1)
    OBVIOUS
  <2>2. k < Count /\ k + 1 \in 1 .. Count /\ (k + 1) - 1 = k
    BY <2>1
  <2>3. ScanInv(g[k], k)
    BY <1>3, <2>2
  <2>4. g[k + 1] = Step(g[k], k)
    BY <1>1, <2>2
  <2> QED BY <2>2, <2>3, <2>4, ScanStep
<1>4. ScanInv(g[Count], Count)
  <2>1. Count \in S
    <3> HIDE DEF S
    <3> QED BY <1>2, <1>3, FromZeroOn
  <2> QED BY <2>1
<1>5. PICK end : end = g[Count]
  OBVIOUS
<1>6. NeededBlockRanges = IF end.start = NoStart THEN end.ranges
                          ELSE Append(end.ranges, <<end.start, Count>>)
  BY <1>1, <1>5 DEF NeededBlockRanges, Started, Scanned
<1>7. end \in Scan /\ Runs(end.ranges) /\ ScanInv(end, Count)
  BY <1>4, <1>5 DEF ScanInv
<1>8. Missing \subseteq Nat /\ \A b \in Missing : b < Count
  BY DEF Missing, Blocks
<1>9. CASE end.start = NoStart
  <2>1. \A i \in 1 .. Len(end.ranges) : end.ranges[i][2] \in Nat
    <3>1. \A i \in 1 .. Len(end.ranges) : end.ranges[i] \in Nat \X Nat
      BY <1>7 DEF Scan
    <3> QED BY <3>1
  <2>2. \A i \in 1 .. Len(end.ranges) : end.ranges[i][2] <= Count
    BY <1>7, <1>9, <2>1 DEF ScanInv
  <2> QED BY <1>6, <1>7, <1>8, <1>9, <2>2 DEF ScanInv
<1>10. CASE end.start # NoStart
  <2>1. PICK s \in Nat : s = end.start
    BY <1>7, <1>10 DEF Scan
  <2>2. Count \notin Missing
    BY <1>8
  <2>3. /\ s < Count /\ s - 1 \notin Missing
        /\ \A b \in Nat : s <= b /\ b < Count => b \in Missing
        /\ \A i \in 1 .. Len(end.ranges) : end.ranges[i][2] < s
        /\ \A b \in Missing : b < s => In(end.ranges, b)
    BY <1>7, <1>10, <2>1 DEF ScanInv
  <2>4. PICK rs : rs = end.ranges
    OBVIOUS
  <2>5. PICK qs : qs = Append(rs, <<s, Count>>)
    OBVIOUS
  <2>6. /\ Runs(qs) /\ \A b \in Nat : In(rs, b) \/ (s <= b /\ b < Count) => In(qs, b)
        /\ \A i \in 1 .. Len(qs) : qs[i][2] <= Count
    BY <1>7, <2>2, <2>3, <2>4, <2>5, RunPushed
  <2>7. \A b \in Missing : In(qs, b)
    <3>1. ASSUME NEW b \in Missing PROVE In(rs, b) \/ (s <= b /\ b < Count)
      <4>1. b \in Nat /\ b < Count
        BY <1>8
      <4> QED BY <2>3, <2>4, <4>1
    <3> QED BY <1>8, <2>6, <3>1
  <2> QED BY <1>6, <1>10, <2>1, <2>4, <2>5, <2>6, <2>7
<1> QED BY <1>9, <1>10

-----------------------------------------------------------------------------
(* Blocks and bytes. *)

Gap == threshold \div blocksize

\* What planning starts from: what the control file gave.
PlanReady ==
    /\ Count \in Nat /\ known \subseteq Nat /\ threshold \in Nat
    /\ blocksize \in Nat \ {0} /\ length \in Nat
    /\ length <= Count * blocksize /\ Count * blocksize < length + blocksize

\* The threshold in blocks.
LEMMA GapInBlocks ==
    ASSUME PlanReady
    PROVE  /\ Gap \in Nat /\ Gap * blocksize <= threshold
           /\ \A d \in Nat : d * blocksize <= threshold <=> d <= Gap
<1>1. blocksize \in Nat \ {0} /\ threshold \in Nat
  BY DEF PlanReady
<1>2. PICK gap \in Nat : gap = Gap /\ gap * blocksize <= threshold
                         /\ threshold < gap * blocksize + blocksize
  BY <1>1, Divided DEF Gap
<1>3. PICK whole_gap \in Nat : whole_gap = gap * blocksize
  BY <1>1, Times
<1>4. ASSUME NEW d \in Nat PROVE d * blocksize <= threshold <=> d <= gap
  <2>1. PICK bytes \in Nat : bytes = d * blocksize
    BY <1>1, Times
  <2>2. d <= gap => bytes <= whole_gap
    BY <1>1, <1>3, <2>1, Times
  <2>3. gap < d => whole_gap + blocksize <= bytes
    BY <1>1, <1>3, <2>1, Times
  <2> QED BY <1>1, <1>2, <1>3, <2>1, <2>2, <2>3
<1> QED BY <1>2, <1>4

\* The bytes of a range of blocks: only that of the last block is cut short.
LEMMA BytesOfRange ==
    ASSUME PlanReady, NEW s \in Nat, NEW e \in Nat, s < e, e <= Count
    PROVE  /\ ByteRange(<<s, e>>) \in Nat \X Nat
           /\ ByteRange(<<s, e>>)[1] = s * blocksize
           /\ ByteRange(<<s, e>>)[2] = IF e < Count THEN e * blocksize - 1 ELSE length - 1
           /\ ByteRange(<<s, e>>)[2] <= e * blocksize - 1
           /\ ByteRange(<<s, e>>)[2] <= length - 1
           /\ ByteRange(<<s, e>>)[1] \div blocksize = s
           /\ ByteRange(<<s, e>>)[2] \div blocksize = e - 1
<1>1. /\ blocksize \in Nat \ {0} /\ length \in Nat /\ Count \in Nat
      /\ length <= Count * blocksize /\ Count * blocksize < length + blocksize
  BY DEF PlanReady
<1>2. PICK n \in Nat : n = Count * blocksize
  BY <1>1, Times
<1>3. PICK a \in Nat : a = s * blocksize
  BY <1>1, Times
<1>4. PICK z \in Nat : z = e * blocksize
  BY <1>1, Times
<1>5. PICK y \in Nat : y = (e - 1) * blocksize
  <2>1. e - 1 \in Nat
    OBVIOUS
  <2> QED BY <1>1, <2>1, Times
<1>6. z = y + blocksize
  BY <1>1, <1>4, <1>5
<1>7. a + blocksize <= z
  BY <1>1, <1>3, <1>4, Times
<1>8. e < Count => z + blocksize <= n
  BY <1>1, <1>2, <1>4, Times
<1>9. length <= n /\ n < length + blocksize
  BY <1>1, <1>2
<1>10. PICK last \in Int : last = IF e < Count THEN z - 1 ELSE length - 1
  BY <1>1
<1>11. last = IF z - 1 < length - 1 THEN z - 1 ELSE length - 1
  <2>1. CASE e < Count
    BY <1>1, <1>8, <1>9, <1>10, <2>1
  <2>2. CASE ~(e < Count)
    <3>1. e = Count
      BY <1>1, <2>2
    <3>2. z = n
      BY <1>2, <1>4, <3>1
    <3> QED BY <1>1, <1>9, <1>10, <2>2, <3>2
  <2> QED BY <2>1, <2>2
<1>12. last <= z - 1 /\ last <= length - 1
  BY <1>1, <1>11
<1>13. y <= last /\ last < y + blocksize
  <2>1. CASE e < Count
    BY <1>1, <1>6, <1>10, <2>1
  <2>2. CASE ~(e < Count)
    <3>1. z = n
      BY <1>1, <1>2, <1>4, <2>2
    <3> QED BY <1>1, <1>6, <1>9, <1>10, <2>2, <3>1
  <2> QED BY <2>1, <2>2
<1>14. last \in Nat
  BY <1>13
<1>15. last \div blocksize = e - 1
  <2>1. e - 1 \in Nat
    OBVIOUS
  <2> QED BY <1>1, <1>5, <1>13, <1>14, <2>1, Divided
<1>16. a \div blocksize = s
  BY <1>1, <1>3, Divided
<1>17. ByteRange(<<s, e>>) = <<a, last>>
  BY <1>3, <1>4, <1>11 DEF ByteRange
<1> QED BY <1>3, <1>4, <1>10, <1>12, <1>14, <1>15, <1>16, <1>17

-----------------------------------------------------------------------------
(* The loop over the byte ranges. *)

Image(G) == [j \in 1 .. Len(G) |-> ByteRange(G[j])]

\* After k runs: what is requested, in blocks; its last request still open.
Joined(G, k, rs) ==
    /\ G \in Seq(Nat \X Nat) /\ Len(G) >= 1
    /\ G[Len(G)][2] = rs[k][2]
    /\ \A j \in 1 .. Len(G) :
        /\ G[j][1] < G[j][2] /\ G[j][2] <= Count
        /\ Opens(Missing, Gap, G[j][1]) /\ G[j][2] - 1 \in Missing
        /\ \A b \in Missing : G[j][1] < b /\ b < G[j][2] => ~Opens(Missing, Gap, b)
    /\ \A j \in 1 .. Len(G) : j < Len(G) => Closes(Missing, Gap, G[j][2] - 1)
    /\ \A i, j \in 1 .. Len(G) : i < j => G[i][2] < G[j][1]
    /\ \A b \in Missing : b < rs[k][2] => In(G, b)

LEMMA ImageIs ==
    ASSUME PlanReady, NEW G \in Seq(Nat \X Nat),
           \A j \in 1 .. Len(G) : G[j][1] < G[j][2] /\ G[j][2] <= Count
    PROVE  /\ Image(G) \in Seq(Nat \X Nat) /\ Len(Image(G)) = Len(G) /\ Len(G) \in Nat
           /\ \A j \in 1 .. Len(G) : Image(G)[j] = ByteRange(G[j]) /\ ByteRange(G[j]) \in Nat \X Nat
<1>1. ASSUME NEW j \in 1 .. Len(G) PROVE ByteRange(G[j]) \in Nat \X Nat
  <2>1. G[j] \in Nat \X Nat
    OBVIOUS
  <2>2. PICK s \in Nat, e \in Nat : G[j] = <<s, e>>
    <3>1. G[j][1] \in Nat /\ G[j][2] \in Nat /\ G[j] = <<G[j][1], G[j][2]>>
      BY <2>1
    <3> QED BY <3>1
  <2>3. s < e /\ e <= Count
    BY <2>2
  <2> QED BY <2>2, <2>3, BytesOfRange
<1>2. Len(G) \in Nat
  OBVIOUS
<1>3. Image(G) \in [1 .. Len(G) -> Nat \X Nat]
  BY <1>1 DEF Image
<1>4. Image(G) \in Seq(Nat \X Nat) /\ Len(Image(G)) = Len(G)
  BY <1>2, <1>3, IsSequence
<1> QED BY <1>1, <1>2, <1>4 DEF Image

\* Between one run and the next nothing is missing.
LEMMA BetweenRuns ==
    ASSUME NEW rs, Runs(rs), NEW k \in 1 .. Len(rs), k + 1 <= Len(rs),
           \A b \in Missing : In(rs, b)
    PROVE  /\ rs[k] \in Nat \X Nat /\ rs[k + 1] \in Nat \X Nat
           /\ rs[k][2] < rs[k + 1][1] /\ rs[k + 1][1] < rs[k + 1][2]
           /\ rs[k + 1][1] \in Missing
           /\ \A b \in Missing : b < rs[k][2] \/ rs[k + 1][1] <= b
<1>1. k \in 1 .. Len(rs) /\ k + 1 \in 1 .. Len(rs) /\ rs \in Seq(Nat \X Nat)
  BY DEF Runs
<1>2. \A i \in 1 .. Len(rs) : rs[i] \in Nat \X Nat
  BY <1>1
<1>3. \A i \in 1 .. Len(rs) : rs[i][1] \in Nat /\ rs[i][2] \in Nat
  BY <1>2
<1>4. rs[k][2] < rs[k + 1][1] /\ rs[k + 1][1] < rs[k + 1][2]
  BY <1>1 DEF Runs
<1>5. rs[k + 1][1] \in Missing
  <2>1. \A b \in Nat : rs[k + 1][1] <= b /\ b < rs[k + 1][2] => b \in Missing
    BY <1>1 DEF Runs
  <2>2. PICK c \in Nat : c = rs[k + 1][1]
    BY <1>1, <1>3
  <2> QED BY <1>4, <2>1, <2>2
<1>6. ASSUME NEW b \in Missing PROVE b < rs[k][2] \/ rs[k + 1][1] <= b
  <2>1. PICK i \in 1 .. Len(rs) : rs[i][1] <= b /\ b < rs[i][2]
    BY DEF In
  <2>2. b \in Int
    BY DEF Missing, Blocks
  <2>3. i < k \/ i = k \/ i = k + 1 \/ i > k + 1
    BY <1>1
  <2>4. CASE i < k
    <3>1. rs[i][2] < rs[k][1] /\ rs[k][1] < rs[k][2]
      BY <1>1, <2>4 DEF Runs
    <3>2. /\ rs[i][2] \in Nat /\ rs[k][1] \in Nat /\ rs[k][2] \in Nat
      BY <1>1, <1>3
    <3> QED BY <2>1, <2>2, <3>1, <3>2
  <2>5. CASE i > k + 1
    <3>1. rs[k + 1][2] < rs[i][1]
      BY <1>1, <2>5 DEF Runs
    <3>2. /\ rs[i][1] \in Nat /\ rs[k + 1][1] \in Nat /\ rs[k + 1][2] \in Nat
      BY <1>1, <1>3
    <3> QED BY <1>4, <2>1, <2>2, <3>1, <3>2
  <2> QED BY <2>1, <2>3, <2>4, <2>5
<1> QED BY <1>1, <1>2, <1>4, <1>5, <1>6

\* What the last request and the next run are to each other.
LEMMA NextRun ==
    ASSUME PlanReady, NEW rs, Runs(rs), NEW k \in 1 .. Len(rs), k + 1 <= Len(rs),
           \A b \in Missing : In(rs, b), \A i \in 1 .. Len(rs) : rs[i][2] <= Count,
           NEW G, Joined(G, k, rs),
           NEW n, n = Len(G), NEW o, o = G[n][1], NEW e, e = rs[k][2],
           NEW s, s = rs[k + 1][1], NEW t, t = rs[k + 1][2]
    PROVE  /\ n \in Nat \ {0} /\ o \in Nat /\ e \in Nat /\ s \in Nat /\ t \in Nat
           /\ G[n] = <<o, e>> /\ rs[k + 1] = <<s, t>>
           /\ o < e /\ e < s /\ s < t /\ t <= Count
           /\ s \in Missing /\ e - 1 \in Missing /\ t - 1 \in Missing
           /\ \A b \in Missing : b < e \/ s <= b
           /\ \A b \in Nat : s <= b /\ b < t => b \in Missing
<1>1. k + 1 \in 1 .. Len(rs)
  OBVIOUS
<1>2. /\ rs[k] \in Nat \X Nat /\ rs[k + 1] \in Nat \X Nat
      /\ e < s /\ s < t /\ s \in Missing
      /\ \A b \in Missing : b < e \/ s <= b
  BY BetweenRuns
<1>3. e \in Nat /\ s \in Nat /\ t \in Nat /\ rs[k + 1] = <<s, t>>
  BY <1>2
<1>4. G \in Seq(Nat \X Nat) /\ n \in Nat \ {0} /\ n \in 1 .. Len(G)
  BY DEF Joined
<1>5. G[n] \in Nat \X Nat /\ G[n][2] = e
  BY <1>4 DEF Joined
<1>6. o \in Nat /\ G[n] = <<o, e>>
  BY <1>5
<1>7. o < e /\ e - 1 \in Missing
  BY <1>4, <1>5 DEF Joined
<1>8. t <= Count
  BY <1>1
<1>9. \A b \in Nat : s <= b /\ b < t => b \in Missing
  BY <1>1 DEF Runs
<1>10. t - 1 \in Missing
  <2>1. \A i \in Nat, j \in Nat : i < j => j - 1 \in Nat /\ i <= j - 1 /\ j - 1 < j
    OBVIOUS
  <2>2. t - 1 \in Nat /\ s <= t - 1 /\ t - 1 < t
    BY <1>2, <1>3, <2>1
  <2> QED BY <1>9, <2>2
<1> QED BY <1>2, <1>3, <1>4, <1>6, <1>7, <1>8, <1>9, <1>10

\* merge_byte_ranges counts the bytes between two ranges; here the blocks.
LEMMA BytesApart ==
    ASSUME PlanReady, NEW o \in Nat, NEW e \in Nat, NEW s \in Nat, NEW t \in Nat,
           o < e, e < s, s < t, t <= Count
    PROVE  BytesBetween(ByteRange(<<o, e>>), ByteRange(<<s, t>>)) <= threshold <=> s - e <= Gap
<1>1. blocksize \in Nat \ {0} /\ Count \in Nat
  BY DEF PlanReady
<1>2. PICK at_e \in Nat : at_e = e * blocksize
  BY <1>1, Times
<1>3. PICK at_s \in Nat : at_s = s * blocksize
  BY <1>1, Times
<1>4. PICK apart \in Nat : apart = (s - e) * blocksize
  <2>1. s - e \in Nat
    OBVIOUS
  <2> QED BY <1>1, <2>1, Times
<1>5. at_s = at_e + apart
  <2>1. s * blocksize = e * blocksize + (s - e) * blocksize
    BY <1>1
  <2> QED BY <1>2, <1>3, <1>4, <2>1
<1>6. ByteRange(<<o, e>>)[2] = at_e - 1
  <2>1. e < Count /\ e <= Count
    BY <1>1
  <2> QED BY <1>2, <2>1, BytesOfRange
<1>7. ByteRange(<<s, t>>)[1] = at_s
  BY <1>3, BytesOfRange
<1>8. BytesBetween(ByteRange(<<o, e>>), ByteRange(<<s, t>>)) = apart
  BY <1>2, <1>3, <1>5, <1>6, <1>7 DEF BytesBetween
<1>9. s - e \in Nat
  OBVIOUS
<1> QED BY <1>4, <1>8, <1>9, GapInBlocks

\* Of two runs no further apart than the gap, the second opens no request.
LEMMA JoinedDoesNotOpen ==
    ASSUME PlanReady, NEW e \in Nat, NEW s \in Nat, NEW t \in Nat, e < s, s - e <= Gap,
           e - 1 \in Missing, \A b \in Nat : s <= b /\ b < t => b \in Missing,
           NEW b \in Missing, s <= b, b < t
    PROVE  ~Opens(Missing, Gap, b)
<1>1. Gap \in Nat /\ b \in Nat
  BY GapInBlocks DEF Missing, Blocks
<1>2. CASE b = s
  <2>1. e - 1 < b /\ ~(b - (e - 1) - 1 > Gap)
    BY <1>1, <1>2
  <2> QED BY <2>1 DEF Opens
<1>3. CASE s < b
  <2>1. b - 1 \in Missing /\ b - 1 < b /\ ~(b - (b - 1) - 1 > Gap)
    BY <1>1, <1>3
  <2> QED BY <2>1 DEF Opens
<1> QED BY <1>1, <1>2, <1>3

LEMMA MergeStep ==
    ASSUME PlanReady, NEW rs, Runs(rs), NEW k \in 1 .. Len(rs), k + 1 <= Len(rs),
           \A b \in Missing : In(rs, b), \A i \in 1 .. Len(rs) : rs[i][2] <= Count,
           NEW G, Joined(G, k, rs)
    PROVE  \E H : Joined(H, k + 1, rs) /\ Merge(Image(G), ByteRange(rs[k + 1])) = Image(H)
<1>1. PICK n, o, e, s, t : /\ n = Len(G) /\ o = G[n][1] /\ e = rs[k][2]
                           /\ s = rs[k + 1][1] /\ t = rs[k + 1][2]
  OBVIOUS
<1>2. /\ n \in Nat \ {0} /\ o \in Nat /\ e \in Nat /\ s \in Nat /\ t \in Nat
      /\ G[n] = <<o, e>> /\ rs[k + 1] = <<s, t>>
      /\ o < e /\ e < s /\ s < t /\ t <= Count
      /\ s \in Missing /\ e - 1 \in Missing /\ t - 1 \in Missing
      /\ \A b \in Missing : b < e \/ s <= b
      /\ \A b \in Nat : s <= b /\ b < t => b \in Missing
  BY <1>1, NextRun
<1>last. n \in 1 .. n /\ n \in 1 .. Len(G)
  BY <1>1, <1>2
<1>3. /\ G \in Seq(Nat \X Nat)
      /\ \A j \in 1 .. n :
            /\ G[j][1] < G[j][2] /\ G[j][2] <= Count
            /\ Opens(Missing, Gap, G[j][1]) /\ G[j][2] - 1 \in Missing
            /\ \A b \in Missing : G[j][1] < b /\ b < G[j][2] => ~Opens(Missing, Gap, b)
      /\ \A j \in 1 .. n : j < n => Closes(Missing, Gap, G[j][2] - 1)
      /\ \A i, j \in 1 .. n : i < j => G[i][2] < G[j][1]
      /\ \A b \in Missing : b < e => In(G, b)
  BY <1>1 DEF Joined
<1>4. \A j \in 1 .. n : G[j] \in Nat \X Nat /\ G[j][1] \in Nat /\ G[j][2] \in Nat
  <2>1. \A j \in 1 .. n : G[j] \in Nat \X Nat
    BY <1>1, <1>3
  <2> QED BY <2>1
<1>5. Gap \in Nat /\ Missing \subseteq Nat
  BY GapInBlocks DEF Missing, Blocks
<1>6. /\ Image(G) \in Seq(Nat \X Nat) /\ Len(Image(G)) = n
      /\ \A j \in 1 .. n : Image(G)[j] = ByteRange(G[j])
  BY <1>1, <1>3, ImageIs
<1>7. PICK r \in Nat \X Nat : r = ByteRange(<<s, t>>)
  BY <1>2, BytesOfRange
<1>8. Last(Image(G)) = ByteRange(<<o, e>>)
  BY <1>2, <1>last, <1>6 DEF Last
<1>9. BytesBetween(Last(Image(G)), r) <= threshold <=> s - e <= Gap
  BY <1>2, <1>7, <1>8, BytesApart
<1>10. ByteRange(<<o, t>>) = <<ByteRange(<<o, e>>)[1], r[2]>>
  BY <1>7 DEF ByteRange
<1>11. ASSUME s - e <= Gap
       PROVE  \E H : Joined(H, k + 1, rs) /\ Merge(Image(G), ByteRange(rs[k + 1])) = Image(H)
  <2>1. PICK H : H = [G EXCEPT ![n] = <<o, t>>]
    OBVIOUS
  <2>2. /\ H \in Seq(Nat \X Nat) /\ Len(H) = n
        /\ H[n] = <<o, t>> /\ \A j \in 1 .. n : j # n => H[j] = G[j]
    <3>1. <<o, t>> \in Nat \X Nat
      BY <1>2
    <3>2. PICK S : S = Nat \X Nat
      OBVIOUS
    <3>3. /\ [G EXCEPT ![n] = <<o, t>>] \in Seq(S) /\ Len([G EXCEPT ![n] = <<o, t>>]) = Len(G)
          /\ [G EXCEPT ![n] = <<o, t>>][n] = <<o, t>>
          /\ \A j \in 1 .. Len(G) : j # n => [G EXCEPT ![n] = <<o, t>>][j] = G[j]
      <4>1. G \in Seq(S) /\ n \in 1 .. Len(G) /\ <<o, t>> \in S
        BY <1>last, <1>3, <3>1, <3>2
      <4> QED BY ONLY <4>1, Replaced
    <3> QED BY <1>1, <2>1, <3>2, <3>3
  <2>3. H[n][1] = o /\ H[n][2] = t /\ G[n][1] = o /\ G[n][2] = e
    BY <1>2, <2>2
  <2>4. ASSUME NEW j \in 1 .. n PROVE H[j][1] = G[j][1] /\ (j < n => H[j][2] = G[j][2])
    <3>1. CASE j = n
      BY <1>2, <2>3, <3>1
    <3>2. CASE j # n
      BY <2>2, <3>2
    <3> QED BY <3>1, <3>2
  <2>5. ASSUME NEW b \in Missing, o < b, b < t PROVE ~Opens(Missing, Gap, b)
    <3>1. CASE b < e
      <4>1. G[n][1] < b /\ b < G[n][2]
        BY <2>3, <2>5, <3>1
      <4> QED BY <1>last, <1>3, <4>1
    <3>2. CASE s <= b
      BY <1>2, <1>11, <2>5, <3>2, JoinedDoesNotOpen
    <3> QED BY <1>2, <3>1, <3>2
  <2>6. ASSUME NEW j \in 1 .. n
        PROVE  /\ H[j][1] < H[j][2] /\ H[j][2] <= Count
               /\ Opens(Missing, Gap, H[j][1]) /\ H[j][2] - 1 \in Missing
               /\ \A b \in Missing : H[j][1] < b /\ b < H[j][2] => ~Opens(Missing, Gap, b)
    <3>1. CASE j = n
      <4>1. o < t
        BY <1>2
      <4> QED BY <1>2, <1>3, <2>3, <2>5, <3>1, <4>1
    <3>2. CASE j # n
      BY <1>3, <2>2, <3>2
    <3> QED BY <3>1, <3>2
  <2>7. \A j \in 1 .. n : j < n => Closes(Missing, Gap, H[j][2] - 1)
    BY <1>3, <2>4
  <2>8. \A i, j \in 1 .. n : i < j => H[i][2] < H[j][1]
    <3>1. \A i, j \in 1 .. n : i < j => i < n
      BY <1>2
    <3> QED BY <1>3, <2>4, <3>1
  <2>9. ASSUME NEW b \in Missing, b < t PROVE In(H, b)
    <3>1. CASE b < e
      <4>1. PICK j \in 1 .. n : G[j][1] <= b /\ b < G[j][2]
        BY <1>1, <1>3, <3>1 DEF In
      <4>2. CASE j = n
        BY <2>2, <2>3, <2>9, <4>1, <4>2 DEF In
      <4>3. CASE j # n
        BY <2>2, <4>1, <4>3 DEF In
      <4> QED BY <4>2, <4>3
    <3>2. CASE s <= b
      <4>1. o <= b /\ n \in 1 .. n
        BY <1>2, <1>5, <3>2
      <4> QED BY <2>2, <2>3, <2>9, <4>1 DEF In
    <3> QED BY <1>2, <3>1, <3>2
  <2>10. Joined(H, k + 1, rs)
    BY <1>1, <1>2, <2>2, <2>3, <2>6, <2>7, <2>8, <2>9 DEF Joined
  <2>11. Merge(Image(G), r) = [Image(G) EXCEPT ![n] = <<@[1], r[2]>>]
    BY <1>6, <1>9, <1>11 DEF Merge
  <2>12. [Image(G) EXCEPT ![n] = <<@[1], r[2]>>] = Image(H)
    <3>1. PICK S : S = [Image(G) EXCEPT ![n] = <<@[1], r[2]>>]
      OBVIOUS
    <3>2. PICK z \in Nat \X Nat : z = <<Image(G)[n][1], r[2]>>
      <4>1. Image(G)[n] \in Nat \X Nat
        BY <1>2, <1>6
      <4> QED BY <1>7, <4>1
    <3>3. S = [Image(G) EXCEPT ![n] = z]
      BY <3>1, <3>2
    <3>4. /\ S \in Seq(Nat \X Nat) /\ Len(S) = n
          /\ S[n] = z /\ \A j \in 1 .. n : j # n => S[j] = Image(G)[j]
      BY <1>2, <1>6, <3>3, Replaced
    <3>5. /\ Image(H) \in Seq(Nat \X Nat) /\ Len(Image(H)) = n
          /\ \A j \in 1 .. n : Image(H)[j] = ByteRange(H[j])
      BY <2>2, <2>6, ImageIs
    <3>6. S[n] = Image(H)[n]
      <4>1. Image(G)[n] = ByteRange(<<o, e>>) /\ Image(H)[n] = ByteRange(<<o, t>>)
        BY <1>2, <1>last, <1>6, <2>2, <3>5
      <4> QED BY <1>10, <3>2, <3>4, <4>1
    <3>7. \A j \in 1 .. n : S[j] = Image(H)[j]
      BY <1>6, <2>2, <3>4, <3>5, <3>6
    <3> QED BY <3>1, <3>4, <3>5, <3>7, SameSequence
  <2> QED BY <1>2, <1>7, <2>10, <2>11, <2>12
<1>12. ASSUME ~(s - e <= Gap)
       PROVE  \E H : Joined(H, k + 1, rs) /\ Merge(Image(G), ByteRange(rs[k + 1])) = Image(H)
  <2>1. PICK H : H = Append(G, <<s, t>>)
    OBVIOUS
  <2>2. /\ H \in Seq(Nat \X Nat) /\ Len(H) = n + 1
        /\ H[n + 1] = <<s, t>> /\ \A j \in 1 .. n : H[j] = G[j]
    <3>1. <<s, t>> \in Nat \X Nat
      BY <1>2
    <3> QED BY <1>1, <1>3, <2>1, <3>1, Appended
  <2>3. H[n + 1][1] = s /\ H[n + 1][2] = t /\ G[n][1] = o /\ G[n][2] = e
    BY <1>2, <2>2
  <2>4. \A j \in 1 .. n + 1 : j \in 1 .. n \/ j = n + 1
    <3>1. n \in Nat
      BY <1>2
    <3> QED BY ONLY <3>1
  <2>5. Opens(Missing, Gap, s)
    <3>1. ASSUME NEW m \in Missing, m < s PROVE s - m - 1 > Gap
      <4>1. m < e /\ m \in Nat
        BY <1>2, <1>5, <3>1
      <4> QED BY <1>2, <1>5, <1>12, <4>1
    <3> QED BY <1>2, <3>1 DEF Opens
  <2>6. Closes(Missing, Gap, e - 1)
    <3>1. ASSUME NEW m \in Missing, e - 1 < m PROVE m - (e - 1) - 1 > Gap
      <4>1. s <= m /\ m \in Nat
        BY <1>2, <1>5, <3>1
      <4> QED BY <1>2, <1>5, <1>12, <4>1
    <3> QED BY <1>2, <3>1 DEF Closes
  <2>7. ASSUME NEW b \in Missing, s < b, b < t PROVE ~Opens(Missing, Gap, b)
    <3>1. b - 1 \in Nat /\ s <= b - 1 /\ b - 1 < t /\ b - 1 < b /\ ~(b - (b - 1) - 1 > Gap)
      BY <1>2, <1>5, <2>7
    <3> QED BY <1>2, <3>1 DEF Opens
  <2>8. ASSUME NEW j \in 1 .. n + 1
        PROVE  /\ H[j][1] < H[j][2] /\ H[j][2] <= Count
               /\ Opens(Missing, Gap, H[j][1]) /\ H[j][2] - 1 \in Missing
               /\ \A b \in Missing : H[j][1] < b /\ b < H[j][2] => ~Opens(Missing, Gap, b)
    <3>1. CASE j = n + 1
      BY <1>2, <2>3, <2>5, <2>7, <3>1
    <3>2. CASE j \in 1 .. n
      BY <1>3, <2>2, <3>2
    <3> QED BY <2>4, <3>1, <3>2
  <2>9. ASSUME NEW j \in 1 .. n + 1, j < n + 1 PROVE Closes(Missing, Gap, H[j][2] - 1)
    <3>1. j \in 1 .. n
      BY <2>4, <2>9
    <3>2. CASE j = n
      BY <2>2, <2>3, <2>6, <3>1, <3>2
    <3>3. CASE j < n
      BY <1>3, <2>2, <3>1, <3>3
    <3> QED BY <1>2, <3>1, <3>2, <3>3
  <2>10. ASSUME NEW i \in 1 .. n + 1, NEW j \in 1 .. n + 1, i < j PROVE H[i][2] < H[j][1]
    <3>1. i \in 1 .. n
      BY <1>2, <2>10
    <3>2. CASE j \in 1 .. n
      BY <1>3, <2>2, <2>10, <3>1, <3>2
    <3>3. CASE j = n + 1
      <4>1. G[i][2] <= e
        <5>1. CASE i = n
          BY <1>2, <2>3, <5>1
        <5>2. CASE i < n
          <6>1. G[i][2] < o
            BY <1>last, <1>3, <2>3, <3>1, <5>2
          <6>2. G[i][2] \in Nat /\ o \in Nat /\ e \in Nat /\ o < e
            BY <1>2, <1>4, <3>1
          <6> QED BY ONLY <6>1, <6>2
        <5> QED BY <1>2, <3>1, <5>1, <5>2
      <4>2. PICK c \in Nat : c = H[i][2] /\ c = G[i][2]
        BY <1>4, <2>2, <3>1
      <4>3. c < s
        <5>1. e \in Nat /\ s \in Nat /\ c <= e /\ e < s
          BY <1>2, <4>1, <4>2
        <5> QED BY ONLY c \in Nat, <5>1
      <4> QED BY <2>3, <3>3, <4>2, <4>3
    <3> QED BY <2>4, <3>2, <3>3
  <2>11. ASSUME NEW b \in Missing, b < t PROVE In(H, b)
    <3>1. CASE b < e
      <4>1. PICK j \in 1 .. n : G[j][1] <= b /\ b < G[j][2]
        BY <1>1, <1>3, <3>1 DEF In
      <4>2. j \in 1 .. Len(H)
        BY <1>2, <2>2
      <4> QED BY <2>2, <4>1, <4>2 DEF In
    <3>2. CASE s <= b
      <4>1. n + 1 \in 1 .. Len(H)
        BY <1>2, <2>2
      <4> QED BY <2>3, <2>11, <3>2, <4>1 DEF In
    <3> QED BY <1>2, <3>1, <3>2
  <2>12. n + 1 >= 1
    BY <1>2
  <2>13. Joined(H, k + 1, rs)
    BY <1>1, <2>2, <2>3, <2>8, <2>9, <2>10, <2>11, <2>12 DEF Joined
  <2>14. Merge(Image(G), r) = Append(Image(G), r)
    BY <1>6, <1>9, <1>12 DEF Merge
  <2>15. Append(Image(G), r) = Image(H)
    <3>1. PICK S : S = Append(Image(G), r)
      OBVIOUS
    <3>2. /\ S \in Seq(Nat \X Nat) /\ Len(S) = n + 1
          /\ S[n + 1] = r /\ \A j \in 1 .. n : S[j] = Image(G)[j]
      BY <1>6, <1>7, <3>1, Appended
    <3>3. /\ Image(H) \in Seq(Nat \X Nat) /\ Len(Image(H)) = n + 1
          /\ \A j \in 1 .. n + 1 : Image(H)[j] = ByteRange(H[j])
      BY <2>2, <2>8, ImageIs
    <3>4. n + 1 \in 1 .. n + 1 /\ \A j \in 1 .. n : j \in 1 .. n + 1
      BY <1>2
    <3>5. S[n + 1] = Image(H)[n + 1]
      BY <1>7, <2>2, <3>2, <3>3, <3>4
    <3>6. ASSUME NEW j \in 1 .. n PROVE S[j] = Image(H)[j]
      <4>1. S[j] = ByteRange(G[j]) /\ H[j] = G[j]
        BY <1>6, <2>2, <3>2
      <4>2. Image(H)[j] = ByteRange(H[j])
        BY <3>3, <3>4
      <4> QED BY <4>1, <4>2
    <3>7. \A j \in 1 .. n + 1 : S[j] = Image(H)[j]
      BY <2>4, <3>5, <3>6
    <3> QED BY <3>1, <3>2, <3>3, <3>7, SameSequence
  <2> QED BY <1>2, <1>7, <2>13, <2>14, <2>15
<1> QED BY <1>11, <1>12

Some == Seq(Nat \X Nat) \ {<<>>}

LEMMA MergeTyped ==
    ASSUME NEW merged \in Some, NEW r \in Nat \X Nat
    PROVE  Merge(merged, r) \in Some
<1>1. merged \in Seq(Nat \X Nat) /\ Len(merged) \in 1 .. Len(merged)
  BY DEF Some
<1>2. CASE BytesBetween(Last(merged), r) <= threshold
  <2>1. PICK z \in Nat \X Nat : z = <<merged[Len(merged)][1], r[2]>>
    <3>1. merged[Len(merged)] \in Nat \X Nat
      BY <1>1
    <3> QED BY <3>1
  <2>2. Merge(merged, r) = [merged EXCEPT ![Len(merged)] = z]
    BY <1>2, <2>1 DEF Merge
  <2>3. /\ [merged EXCEPT ![Len(merged)] = z] \in Seq(Nat \X Nat)
        /\ Len([merged EXCEPT ![Len(merged)] = z]) = Len(merged)
    BY <1>1, Replaced
  <2> QED BY <1>1, <2>2, <2>3 DEF Some
<1>3. CASE ~(BytesBetween(Last(merged), r) <= threshold)
  <2>1. Merge(merged, r) = Append(merged, r)
    BY <1>3 DEF Merge
  <2> QED BY <1>1, <2>1 DEF Some
<1> QED BY <1>2, <1>3

Folded(base, ss) == FoldLeft(Merge, base, ss)

LEMMA MergeTrace ==
    ASSUME NEW base \in Some, NEW ss \in Seq(Nat \X Nat), NEW m \in Nat, m = Len(ss)
    PROVE  \E g : /\ g[0] = base
                  /\ \A i \in 1 .. m : g[i] = Merge(g[i - 1], ss[i])
                  /\ Folded(base, ss) = g[m]
<1> DEFINE Loop(h) == [s \in SUBSET (DOMAIN ss) |->
                          IF s = {} THEN base ELSE Merge(h[s \ {Max(s)}], ss[Max(s)])]
           iter == CHOOSE h : h = Loop(h)
           f == [x \in Some \X (1 .. m) |-> Merge(x[1], ss[x[2]])]
           g == [i \in 0 .. m |-> iter[1 .. i]]
<1>1. DOMAIN ss = 1 .. m /\ \A i \in 1 .. m : ss[i] \in Nat \X Nat
  OBVIOUS
<1>2. f \in [Some \X (1 .. m) -> Some]
  <2>1. ASSUME NEW x \in Some \X (1 .. m) PROVE Merge(x[1], ss[x[2]]) \in Some
    <3>1. x[1] \in Some /\ x[2] \in 1 .. m
      OBVIOUS
    <3> QED BY <1>1, <3>1, MergeTyped
  <2> QED BY <2>1
<1>3. \E h : h = Loop(h)
  <2>1. PICK h \in [SUBSET (1 .. m) -> Some] : Solves(h, m, base, f)
    <3> HIDE DEF f
    <3> QED BY <1>2, FoldExists
  <2>2. ASSUME NEW s \in SUBSET (1 .. m)
        PROVE  h[s] = IF s = {} THEN base ELSE Merge(h[s \ {Max(s)}], ss[Max(s)])
    <3>1. CASE s = {}
      BY <2>1, <3>1 DEF Solves
    <3>2. CASE s # {}
      <4>1. Max(s) \in 1 .. m
        BY <3>2, MaxOf
      <4>2. h[s \ {Max(s)}] \in Some
        OBVIOUS
      <4>3. <<h[s \ {Max(s)}], Max(s)>> \in Some \X (1 .. m)
        BY <4>1, <4>2
      <4>4. f[<<h[s \ {Max(s)}], Max(s)>>] = Merge(h[s \ {Max(s)}], ss[Max(s)])
        BY <4>3
      <4> QED BY <2>1, <3>2, <4>4 DEF Solves
    <3> QED BY <3>1, <3>2
  <2>3. h = Loop(h)
    BY <1>1, <2>2
  <2> QED BY <2>3
<1>4. iter = Loop(iter)
  BY <1>3
<1>5. FoldLeft(Merge, base, ss) = iter[DOMAIN ss]
  BY DEF FoldLeft, MapThenFoldSet
<1> HIDE DEF iter
<1>6. iter[{}] = base
  BY <1>4
<1>7. ASSUME NEW i \in 1 .. m PROVE iter[1 .. i] = Merge(iter[1 .. i - 1], ss[i])
  <2>1. 1 .. i # {} /\ Max(1 .. i) = i /\ (1 .. i) \ {i} = 1 .. i - 1
    <3>1. i \in Nat \ {0}
      OBVIOUS
    <3> QED BY <3>1, MaxOfInterval
  <2>2. 1 .. i \in SUBSET (DOMAIN ss)
    BY <1>1
  <2>3. iter[1 .. i] = Merge(iter[(1 .. i) \ {Max(1 .. i)}], ss[Max(1 .. i)])
    BY <1>4, <2>1, <2>2
  <2> QED BY <2>1, <2>3
<1>8. g[0] = base
  <2>1. 1 .. 0 = {}
    OBVIOUS
  <2> QED BY <1>6, <2>1
<1>9. \A i \in 1 .. m : g[i] = Merge(g[i - 1], ss[i])
  BY <1>7
<1>10. Folded(base, ss) = g[m]
  BY <1>1, <1>5 DEF Folded
<1> HIDE DEF g
<1> QED BY <1>8, <1>9, <1>10

\* The first run is the first request begun.
LEMMA FirstRun ==
    ASSUME PlanReady, NEW rs, Runs(rs), 1 <= Len(rs),
           \A b \in Missing : In(rs, b), \A i \in 1 .. Len(rs) : rs[i][2] <= Count
    PROVE  Joined(<<rs[1]>>, 1, rs)
<1>1. rs \in Seq(Nat \X Nat) /\ 1 \in 1 .. Len(rs)
  BY DEF Runs
<1>2. \A i \in 1 .. Len(rs) : rs[i] \in Nat \X Nat
  BY <1>1
<1>3. \A i \in 1 .. Len(rs) : rs[i][1] \in Nat /\ rs[i][2] \in Nat
  BY <1>2
<1>4. PICK s \in Nat, t \in Nat : s = rs[1][1] /\ t = rs[1][2]
  BY <1>1, <1>3
<1>5. /\ s < t /\ t <= Count
      /\ \A b \in Nat : s <= b /\ b < t => b \in Missing
  BY <1>1, <1>4 DEF Runs
<1>6. Gap \in Nat /\ Missing \subseteq Nat
  BY GapInBlocks DEF Missing, Blocks
<1>7. ASSUME NEW b \in Missing PROVE s <= b
  <2>1. PICK i \in 1 .. Len(rs) : rs[i][1] <= b /\ b < rs[i][2]
    BY DEF In
  <2>2. CASE i = 1
    BY <1>4, <2>1, <2>2
  <2>3. CASE i # 1
    <3>1. 1 < i
      BY <2>3
    <3>2. t < rs[i][1]
      BY <1>1, <1>4, <3>1 DEF Runs
    <3>3. b \in Nat /\ rs[i][1] \in Nat
      BY <1>3, <1>6
    <3> QED BY <1>5, <2>1, <3>2, <3>3
  <2> QED BY <2>2, <2>3
<1>8. s \in Missing
  BY <1>5
<1>9. t - 1 \in Missing
  <2>1. t - 1 \in Nat /\ s <= t - 1 /\ t - 1 < t
    BY <1>5
  <2> QED BY <1>5, <2>1
<1>10. Opens(Missing, Gap, s)
  <2>1. \A m \in Missing : ~(m < s)
    BY <1>6, <1>7
  <2> QED BY <1>8, <2>1 DEF Opens
<1>11. ASSUME NEW b \in Missing, s < b, b < t PROVE ~Opens(Missing, Gap, b)
  <2>1. b - 1 \in Nat /\ s <= b - 1 /\ b - 1 < t /\ b - 1 < b /\ ~(b - (b - 1) - 1 > Gap)
    BY <1>6, <1>11
  <2> QED BY <1>5, <2>1 DEF Opens
<1>12. PICK G : G = <<rs[1]>>
  OBVIOUS
<1>13. G \in Seq(Nat \X Nat) /\ Len(G) = 1 /\ G[1] = rs[1]
  BY <1>1, <1>2, <1>12
<1>14. \A b \in Missing : b < t => In(G, b)
  <2>1. 1 \in 1 .. Len(G)
    BY <1>13
  <2> QED BY <1>4, <1>7, <1>13, <2>1 DEF In
<1>15. \A j \in 1 .. Len(G) : j = 1
  BY <1>13
<1>16. Joined(G, 1, rs)
  BY <1>4, <1>5, <1>9, <1>10, <1>11, <1>13, <1>14, <1>15 DEF Joined
<1> QED BY <1>12, <1>16

\* The requests of a pass, in blocks and in order.
Plan(G) ==
    /\ G \in Seq(Nat \X Nat)
    /\ \A j \in 1 .. Len(G) :
        /\ G[j][1] < G[j][2] /\ G[j][2] <= Count
        /\ Opens(Missing, Gap, G[j][1]) /\ Closes(Missing, Gap, G[j][2] - 1)
        /\ \A b \in Missing : G[j][1] < b /\ b < G[j][2] => ~Opens(Missing, Gap, b)
    /\ \A i, j \in 1 .. Len(G) : i < j => G[i][2] < G[j][1]
    /\ \A b \in Missing : In(G, b)

\* With every run merged, the last request closes too.
LEMMA AllJoined ==
    ASSUME PlanReady, NEW rs, Runs(rs), NEW k, k = Len(rs), 1 <= k,
           \A b \in Missing : In(rs, b), NEW G, Joined(G, k, rs)
    PROVE  Plan(G)
<1>1. rs \in Seq(Nat \X Nat) /\ k \in 1 .. Len(rs) /\ k \in Nat
  BY DEF Runs
<1>2. \A i \in 1 .. Len(rs) : rs[i] \in Nat \X Nat
  BY <1>1
<1>3. \A i \in 1 .. Len(rs) : rs[i][1] \in Nat /\ rs[i][2] \in Nat
  BY <1>2
<1>4. PICK e \in Nat : e = rs[k][2]
  BY <1>1, <1>3
<1>5. ASSUME NEW b \in Missing PROVE b < e
  <2>1. PICK i \in 1 .. Len(rs) : rs[i][1] <= b /\ b < rs[i][2]
    BY DEF In
  <2>2. b \in Int /\ rs[i][2] \in Nat /\ rs[k][1] \in Nat
    BY <1>1, <1>3 DEF Missing, Blocks
  <2>3. CASE i = k
    BY <1>4, <2>1, <2>3
  <2>4. CASE i # k
    <3>1. i < k
      BY <1>1, <2>4
    <3>2. rs[i][2] < rs[k][1] /\ rs[k][1] < rs[k][2]
      BY <1>1, <3>1 DEF Runs
    <3> QED BY <1>4, <2>1, <2>2, <3>2
  <2> QED BY <2>3, <2>4
<1>6. PICK n \in Nat \ {0} : n = Len(G) /\ n \in 1 .. Len(G)
  BY DEF Joined
<1>7. Closes(Missing, Gap, G[n][2] - 1)
  <2>1. G[n][2] = e /\ e - 1 \in Missing
    BY <1>4, <1>6 DEF Joined
  <2>2. \A m \in Missing : ~(e - 1 < m)
    <3>1. \A m \in Missing : m \in Int
      BY DEF Missing, Blocks
    <3> QED BY <1>5, <3>1
  <2> QED BY <2>1, <2>2 DEF Closes
<1>8. ASSUME NEW j \in 1 .. Len(G) PROVE Closes(Missing, Gap, G[j][2] - 1)
  <2>1. j < n \/ j = n
    BY <1>6
  <2> QED BY <1>6, <1>7, <2>1 DEF Joined
<1>9. \A b \in Missing : In(G, b)
  BY <1>4, <1>5 DEF Joined
<1> QED BY <1>8, <1>9 DEF Joined, Plan

LEMMA Planned ==
    ASSUME PlanReady
    PROVE  \E G : Plan(G) /\ Requested = Image(G)
<1>1. PICK rs : rs = NeededBlockRanges
  OBVIOUS
<1>2. /\ Runs(rs) /\ \A b \in Missing : In(rs, b)
      /\ \A i \in 1 .. Len(rs) : rs[i][2] <= Count
  BY <1>1, NeededRuns DEF PlanReady
<1>3. rs \in Seq(Nat \X Nat) /\ \A i \in 1 .. Len(rs) : rs[i][1] < rs[i][2] /\ rs[i][2] <= Count
  BY <1>2 DEF Runs
<1>4. PICK m \in Nat : m = Len(rs)
  BY <1>3
<1>5. /\ Image(rs) \in Seq(Nat \X Nat) /\ Len(Image(rs)) = m
      /\ \A i \in 1 .. m : Image(rs)[i] = ByteRange(rs[i])
  BY <1>3, <1>4, ImageIs
<1>6. ByteRangesFromBlockRanges(rs) = Image(rs)
  <2>1. DOMAIN rs = 1 .. Len(rs)
    BY <1>3
  <2> QED BY <2>1 DEF ByteRangesFromBlockRanges, Image
<1>7. Requested = MergeByteRanges(Image(rs))
  BY <1>1, <1>6 DEF Requested
<1>8. CASE m <= 1
  <2>1. Requested = Image(rs)
    BY <1>5, <1>7, <1>8 DEF MergeByteRanges
  <2>2. CASE m = 0
    <3>1. rs = <<>>
      <4>1. ~(Len(rs) >= 1)
        BY <1>4, <2>2
      <4> QED BY <1>3, <4>1, Rest
    <3>2. \A b \in Missing : FALSE
      BY <1>2, <1>4, <2>2 DEF In
    <3>3. Plan(rs)
      BY <1>3, <1>4, <2>2, <3>2 DEF Plan
    <3> QED BY <2>1, <3>3
  <2>3. CASE m = 1
    <3>0. 1 = Len(rs) /\ 1 <= Len(rs) /\ rs[1] \in Nat \X Nat
      <4>1. \A i \in 1 .. Len(rs) : rs[i] \in Nat \X Nat
        BY <1>3
      <4>2. 1 \in 1 .. Len(rs)
        BY <1>4, <2>3
      <4> QED BY <1>4, <2>3, <4>1, <4>2
    <3>1. Joined(<<rs[1]>>, 1, rs)
      BY <1>2, <3>0, FirstRun
    <3>2. PICK G : G = <<rs[1]>>
      OBVIOUS
    <3>3. Plan(G)
      BY <1>2, <3>0, <3>1, <3>2, AllJoined
    <3>4. G = rs
      <4>1. G \in Seq(Nat \X Nat) /\ Len(G) = 1 /\ G[1] = rs[1]
        BY <3>0, <3>2
      <4>2. \A i \in 1 .. Len(G) : G[i] = rs[i]
        <5>1. \A i \in 1 .. Len(G) : i = 1
          BY <4>1
        <5> QED BY <4>1, <5>1
      <4> QED BY <1>3, <3>0, <4>1, <4>2, SameSequence
    <3> QED BY <2>1, <3>3, <3>4
  <2> QED BY <1>4, <1>8, <2>2, <2>3
<1>9. CASE m > 1
  <2>1. PICK ss : ss = Tail(Image(rs))
    OBVIOUS
  <2>2. /\ ss \in Seq(Nat \X Nat) /\ Len(ss) = m - 1
        /\ \A i \in 1 .. m - 1 : ss[i] = Image(rs)[i + 1]
    BY <1>4, <1>5, <1>9, <2>1
  <2>3. Head(Image(rs)) = ByteRange(rs[1])
    BY <1>4, <1>5, <1>9
  <2>4. Joined(<<rs[1]>>, 1, rs)
    BY <1>2, <1>4, <1>9, FirstRun
  <2>5. <<Head(Image(rs))>> = Image(<<rs[1]>>)
    BY <2>3 DEF Image
  <2>6. PICK base \in Some : base = Image(<<rs[1]>>)
    <3>1. Image(rs)[1] \in Nat \X Nat
      BY <1>5, <1>9
    <3>2. <<Head(Image(rs))>> \in Seq(Nat \X Nat) /\ <<Head(Image(rs))>> # <<>>
      BY <1>5, <1>9, <2>3, <3>1
    <3> QED BY <2>5, <3>2 DEF Some
  <2>7. PICK last \in Nat : last = m - 1
    BY <1>4, <1>9
  <2>8. PICK g : /\ g[0] = base
                 /\ \A i \in 1 .. last : g[i] = Merge(g[i - 1], ss[i])
                 /\ Folded(base, ss) = g[last]
    <3>1. last = Len(ss)
      BY <2>2, <2>7
    <3> QED BY ONLY base \in Some, last \in Nat, <2>2, <3>1, MergeTrace
  <2>9. Requested = g[last]
    BY <1>5, <1>7, <1>9, <2>1, <2>5, <2>6, <2>8 DEF MergeByteRanges, Folded
  <2> DEFINE Good(k) == \E G : Joined(G, k + 1, rs) /\ g[k] = Image(G)
             S == {k \in Nat : k <= last => Good(k)}
  <2>10. Good(0)
    <3>1. 0 + 1 = 1
      OBVIOUS
    <3> QED BY <2>4, <2>6, <2>8, <3>1
  <2>11. ASSUME NEW k \in Nat, Good(k), k + 1 <= last PROVE Good(k + 1)
    <3>1. PICK G : Joined(G, k + 1, rs) /\ g[k] = Image(G)
      BY <2>11
    <3>2. PICK i \in 1 .. last : i = k + 1 /\ i \in 1 .. Len(rs) /\ i + 1 <= Len(rs)
      BY <1>4, <2>7, <2>11
    <3>3. i - 1 = k
      BY <3>2
    <3>4. ss[i] = ByteRange(rs[i + 1])
      <4>1. i \in 1 .. m - 1 /\ i + 1 \in 1 .. m
        BY <2>7
      <4> QED BY <1>5, <2>2, <4>1
    <3>5. g[i] = Merge(Image(G), ByteRange(rs[i + 1]))
      BY <2>8, <3>1, <3>3, <3>4
    <3>6. PICK H : Joined(H, i + 1, rs) /\ Merge(Image(G), ByteRange(rs[i + 1])) = Image(H)
      BY <1>2, <3>1, <3>2, MergeStep
    <3> QED BY <3>2, <3>5, <3>6
  <2> HIDE DEF Good
  <2>12. 0 \in S /\ \A k \in Nat : k \in S => k + 1 \in S
    BY <2>10, <2>11
  <2>13. last \in S
    <3> HIDE DEF S
    <3> QED BY <2>12, FromZeroOn
  <2>14. PICK G : Joined(G, last + 1, rs) /\ g[last] = Image(G)
    BY <2>13 DEF Good
  <2>15. last + 1 = m
    BY <1>4, <2>7
  <2>16. Plan(G)
    BY <1>2, <1>4, <1>9, <2>14, <2>15, AllJoined
  <2> QED BY <2>9, <2>14, <2>16
<1> QED BY <1>4, <1>8, <1>9

\* The plan of RequestPlan, in order.
LEMMA PlanIsRequests ==
    ASSUME PlanReady, NEW G, Plan(G)
    PROVE  {G[j] : j \in 1 .. Len(G)} = Requests(Count, Missing, Gap)
<1>1. Count \in Nat /\ Gap \in Nat /\ Missing \in SUBSET (0 .. Count - 1)
  BY GapInBlocks DEF PlanReady, Missing, Blocks
<1>2. G \in Seq(Nat \X Nat)
  BY DEF Plan
<1>3. ASSUME NEW j \in 1 .. Len(G) PROVE G[j] \in Requests(Count, Missing, Gap)
  <2>1. G[j] \in Nat \X Nat
    BY <1>2
  <2>2. /\ G[j][1] < G[j][2] /\ G[j][2] <= Count
        /\ Opens(Missing, Gap, G[j][1]) /\ Closes(Missing, Gap, G[j][2] - 1)
        /\ \A b \in Missing : G[j][1] < b /\ b < G[j][2] => ~Opens(Missing, Gap, b)
    BY DEF Plan
  <2>3. G[j] \in (0 .. Count - 1) \X (1 .. Count)
    BY <1>1, <2>1, <2>2
  <2> QED BY <2>2, <2>3 DEF Requests
<1>4. ASSUME NEW r \in Requests(Count, Missing, Gap)
      PROVE  \E j \in 1 .. Len(G) : r = G[j]
  <2>1. r[1] \in Missing /\ Opens(Missing, Gap, r[1]) /\ r[1] < r[2] /\ r[1] \in Nat /\ r[2] \in Nat
    BY <1>1 DEF Requests, Opens
  <2>2. PICK j \in 1 .. Len(G) : G[j][1] <= r[1] /\ r[1] < G[j][2]
    BY <2>1 DEF Plan, In
  <2>3. G[j] \in Requests(Count, Missing, Gap)
    BY <1>3
  <2>4. G[j] \in Nat \X Nat /\ G[j][1] \in Nat /\ G[j][2] \in Nat
    <3>1. G[j] \in Nat \X Nat
      BY <1>2
    <3> QED BY <3>1
  <2>5. G[j][1] = r[1]
    <3>1. G[j][1] < r[1] => FALSE
      BY <2>1, <2>2 DEF Plan
    <3> QED BY <2>1, <2>2, <2>4, <3>1
  <2>6. ~(r[2] <= G[j][1]) /\ ~(G[j][2] <= r[1])
    BY <2>1, <2>2, <2>4, <2>5
  <2> QED BY <1>1, <2>3, <2>6, PlanIsDisjoint
<1> QED BY <1>3, <1>4

LEMMA PlannedInBytes ==
    ASSUME PlanReady, NEW G, Plan(G), Requested = Image(G)
    PROVE  /\ Requested \in Seq(Nat \X Nat) /\ Len(Requested) = Len(G) /\ Len(G) \in Nat
           /\ DOMAIN Requested = 1 .. Len(G)
           /\ \A j \in 1 .. Len(G) :
                  /\ G[j] \in Nat \X Nat /\ G[j] = <<G[j][1], G[j][2]>>
                  /\ G[j][1] \in Nat /\ G[j][2] \in Nat
                  /\ G[j][1] < G[j][2] /\ G[j][2] <= Count
                  /\ Requested[j] = ByteRange(G[j])
<1>1. G \in Seq(Nat \X Nat) /\ \A j \in 1 .. Len(G) : G[j][1] < G[j][2] /\ G[j][2] <= Count
  BY DEF Plan
<1>2. /\ Requested \in Seq(Nat \X Nat) /\ Len(Requested) = Len(G) /\ Len(G) \in Nat
      /\ \A j \in 1 .. Len(G) : Requested[j] = ByteRange(G[j])
  BY <1>1, ImageIs
<1>3. ASSUME NEW j \in 1 .. Len(G)
      PROVE  /\ G[j] \in Nat \X Nat /\ G[j] = <<G[j][1], G[j][2]>>
             /\ G[j][1] \in Nat /\ G[j][2] \in Nat
  <2>1. G[j] \in Nat \X Nat
    BY <1>1
  <2> QED BY <2>1
<1>4. DOMAIN Requested = 1 .. Len(G)
  BY <1>2
<1> QED BY <1>1, <1>2, <1>3, <1>4

\* The three loops give the plan that Assembly works from.
LEMMA LoopsPlan ==
    ASSUME PlanReady
    PROVE  ToSet(Requested) =
               {ByteRange(r) : r \in Requests(Count, Blocks \ known, threshold \div blocksize)}
<1>1. PICK G : Plan(G) /\ Requested = Image(G)
  BY Planned
<1>2. /\ DOMAIN Requested = 1 .. Len(G)
      /\ \A j \in 1 .. Len(G) : Requested[j] = ByteRange(G[j])
  BY <1>1, PlannedInBytes
<1>3. {G[j] : j \in 1 .. Len(G)} = Requests(Count, Missing, Gap)
  BY <1>1, PlanIsRequests
<1>4. ToSet(Requested) = {ByteRange(r) : r \in Requests(Count, Missing, Gap)}
  <2>1. ToSet(Requested) = {ByteRange(G[j]) : j \in 1 .. Len(G)}
    BY <1>2 DEF ToSet
  <2> QED BY <1>3, <2>1
<1> QED BY <1>4 DEF Missing, Gap

\* A byte and its block.
LEMMA BlockOfByte ==
    ASSUME PlanReady, NEW s \in Nat, NEW e \in Nat, s < e, e <= Count,
           NEW n \in Bytes(ByteRange(<<s, e>>)), NEW q, q = n \div blocksize
    PROVE  /\ n \in Nat /\ q \in Nat /\ s <= q /\ q < e
           /\ q * blocksize <= n /\ n < q * blocksize + blocksize
<1>1. blocksize \in Nat \ {0}
  BY DEF PlanReady
<1>2. /\ ByteRange(<<s, e>>)[1] = s * blocksize /\ ByteRange(<<s, e>>)[2] <= e * blocksize - 1
      /\ ByteRange(<<s, e>>) \in Nat \X Nat
  BY BytesOfRange
<1>3. PICK a \in Nat : a = s * blocksize
  BY <1>1, Times
<1>4. PICK z \in Nat : z = e * blocksize
  BY <1>1, Times
<1>5. PICK last \in Nat : last = ByteRange(<<s, e>>)[2]
  BY <1>2
<1>6. n \in a .. last /\ last <= z - 1
  BY <1>2, <1>3, <1>4, <1>5 DEF Bytes
<1>7. n \in Nat /\ a <= n /\ n < z
  BY <1>6
<1>8. q \in Nat /\ q * blocksize <= n /\ n < q * blocksize + blocksize
  BY <1>1, <1>7, Divided
<1>9. PICK y \in Nat : y = q * blocksize
  BY <1>1, <1>8, Times
<1>10. q < s => y + blocksize <= a
  BY <1>1, <1>3, <1>8, <1>9, Times
<1>11. e <= q => z <= y
  BY <1>1, <1>4, <1>8, <1>9, Times
<1> QED BY <1>1, <1>7, <1>8, <1>9, <1>10, <1>11

LEMMA LoopsCover ==
    ASSUME PlanReady
    PROVE  /\ \A b \in Blocks \ known : \A n \in BytesOf(b) :
                  \E i \in DOMAIN Requested : n \in Bytes(Requested[i])
           /\ \A i, j \in DOMAIN Requested : i < j => Requested[i][2] < Requested[j][1]
           /\ \A i \in DOMAIN Requested :
                  /\ Bytes(Requested[i]) \subseteq 0 .. length - 1
                  /\ Requested[i][1] \div blocksize \notin known
                  /\ Requested[i][2] \div blocksize \notin known
<1>1. PICK G : Plan(G) /\ Requested = Image(G)
  BY Planned
<1>2. /\ DOMAIN Requested = 1 .. Len(G)
      /\ \A j \in 1 .. Len(G) :
            /\ G[j] = <<G[j][1], G[j][2]>>
            /\ G[j][1] \in Nat /\ G[j][2] \in Nat
            /\ G[j][1] < G[j][2] /\ G[j][2] <= Count
            /\ Requested[j] = ByteRange(G[j])
  BY <1>1, PlannedInBytes
<1>3. blocksize \in Nat \ {0} /\ length \in Nat
  BY DEF PlanReady
<1>4. ASSUME NEW j \in 1 .. Len(G)
      PROVE  /\ Requested[j] \in Nat \X Nat /\ Requested[j][1] \in Nat /\ Requested[j][2] \in Nat
             /\ Requested[j][1] = G[j][1] * blocksize
             /\ Requested[j][2] = IF G[j][2] < Count THEN G[j][2] * blocksize - 1 ELSE length - 1
             /\ Requested[j][2] <= G[j][2] * blocksize - 1
             /\ Requested[j][2] <= length - 1
             /\ Requested[j][1] \div blocksize = G[j][1]
             /\ Requested[j][2] \div blocksize = G[j][2] - 1
  <2>1. PICK s \in Nat, e \in Nat : s = G[j][1] /\ e = G[j][2] /\ s < e /\ e <= Count
    BY <1>2
  <2>2. Requested[j] = ByteRange(<<s, e>>)
    BY <1>2, <2>1
  <2>3. PICK r \in Nat \X Nat : r = ByteRange(<<s, e>>)
    BY <2>1, BytesOfRange
  <2>4. r[1] \in Nat /\ r[2] \in Nat
    BY <2>3
  <2> QED BY <2>1, <2>2, <2>3, <2>4, BytesOfRange
<1>5. ASSUME NEW b \in Missing, NEW n \in BytesOf(b)
      PROVE  \E i \in 1 .. Len(G) : n \in Bytes(Requested[i])
  <2>1. PICK i \in 1 .. Len(G) : G[i][1] <= b /\ b < G[i][2]
    BY <1>1 DEF Plan, In
  <2>2. PICK s \in Nat, e \in Nat : s = G[i][1] /\ e = G[i][2]
    BY <1>2
  <2>3. n \in Nat /\ n <= length - 1 /\ n \div blocksize = b /\ b \in Nat
    BY <1>3 DEF BytesOf, Missing, Blocks
  <2>4. PICK y \in Nat : y = b * blocksize
    BY <1>3, <2>3, Times
  <2>5. y <= n /\ n < y + blocksize
    BY <1>3, <2>3, <2>4, Divided
  <2>6. PICK a \in Nat : a = s * blocksize
    BY <1>3, Times
  <2>7. PICK z \in Nat : z = e * blocksize
    BY <1>3, Times
  <2>8. a <= y
    BY <1>3, <2>1, <2>2, <2>3, <2>4, <2>6, Times
  <2>9. y + blocksize <= z
    BY <1>3, <2>1, <2>2, <2>3, <2>4, <2>7, Times
  <2>10. Requested[i][1] = a /\ (Requested[i][2] = z - 1 \/ Requested[i][2] = length - 1)
    BY <1>4, <2>2, <2>6, <2>7
  <2>11. n \in a .. Requested[i][2]
    BY <1>3, <2>3, <2>5, <2>8, <2>9, <2>10
  <2> QED BY <2>10, <2>11 DEF Bytes
<1>6. ASSUME NEW i \in 1 .. Len(G), NEW j \in 1 .. Len(G), i < j
      PROVE  Requested[i][2] < Requested[j][1]
  <2>1. PICK e \in Nat, s \in Nat : e = G[i][2] /\ s = G[j][1]
    BY <1>2
  <2>2. e < s
    BY <1>1, <1>6, <2>1 DEF Plan
  <2>3. PICK z \in Nat : z = e * blocksize
    BY <1>3, Times
  <2>4. PICK a \in Nat : a = s * blocksize
    BY <1>3, Times
  <2>5. z <= a
    BY <1>3, <2>2, <2>3, <2>4, Times
  <2>6. Requested[i][2] \in Nat /\ Requested[i][2] <= z - 1 /\ Requested[j][1] = a
    BY <1>4, <2>1, <2>3, <2>4
  <2> QED BY <2>5, <2>6
<1>7. ASSUME NEW i \in 1 .. Len(G)
      PROVE  /\ Bytes(Requested[i]) \subseteq 0 .. length - 1
             /\ Requested[i][1] \div blocksize \notin known
             /\ Requested[i][2] \div blocksize \notin known
  <2>1. Requested[i][1] \in Nat /\ Requested[i][2] \in Nat /\ Requested[i][2] <= length - 1
    BY <1>4
  <2>2. Bytes(Requested[i]) \subseteq 0 .. length - 1
    BY <1>3, <2>1 DEF Bytes
  <2>3. G[i][1] \in Missing /\ G[i][2] - 1 \in Missing
    BY <1>1 DEF Plan, Opens, Closes
  <2> QED BY <1>4, <2>2, <2>3 DEF Missing
<1> QED BY <1>2, <1>5, <1>6, <1>7 DEF Missing

\* Two missing blocks with none between, in one request: no further than the gap.
LEMMA InsideOneRequest ==
    ASSUME PlanReady, NEW s \in Missing, NEW e \in Nat, e <= Count, e - 1 \in Missing,
           \A b \in Missing : s < b /\ b < e => ~Opens(Missing, Gap, b),
           NEW q \in Nat, s <= q, q < e, q \notin Missing
    PROVE  \E p \in Missing : s <= p /\ p < q /\ q - p <= Gap
<1>1. Count \in Nat /\ Gap \in Nat /\ Missing \in SUBSET (0 .. Count - 1) /\ Missing \subseteq Nat
  BY GapInBlocks DEF PlanReady, Missing, Blocks
<1> DEFINE Before == {m \in Missing : m < q}
           After == {m \in Missing : q < m}
<1>2. s \in Nat /\ s # q /\ e - 1 # q
  BY <1>1
<1>3. PICK p \in Before : \A y \in Before : y <= p
  <2>1. s < q
    BY <1>2
  <2>2. s \in Before
    BY <2>1
  <2>3. Before \subseteq Missing
    OBVIOUS
  <2>4. Before \in SUBSET (0 .. Count - 1)
    BY <1>1, <2>3
  <2> HIDE DEF Before
  <2> QED BY <1>1, <2>2, <2>4, GreatestOf
<1>4. PICK z \in After : \A y \in After : z <= y
  <2>1. q < e - 1
    BY <1>2
  <2>2. e - 1 \in After
    BY <2>1
  <2>3. After \subseteq Missing
    OBVIOUS
  <2>4. After \in SUBSET Nat
    BY <1>1, <2>3
  <2> HIDE DEF After
  <2> QED BY <2>2, <2>4, LeastOf
<1>5. s <= p /\ p < q /\ q < z /\ p \in Nat /\ z \in Nat /\ s < z
  BY <1>1, <1>2, <1>3, <1>4
<1>6. z < e
  <2>1. e - 1 \in After
    BY <1>1, <1>2
  <2>2. z <= e - 1
    BY <1>4, <2>1
  <2> QED BY <1>5, <2>2
<1>7. ~Opens(Missing, Gap, z)
  BY <1>5, <1>6
<1>8. PICK m \in Missing : m < z /\ ~(z - m - 1 > Gap)
  BY <1>7 DEF Opens
<1>9. m \in Nat /\ m < q
  <2>1. m \in Nat /\ m # q
    BY <1>1
  <2>2. ~(q < m)
    BY <1>4, <1>5, <1>8, <2>1
  <2> QED BY <2>1, <2>2
<1>10. m <= p
  BY <1>3, <1>9
<1>11. q - p <= Gap
  BY <1>1, <1>5, <1>8, <1>9, <1>10
<1> QED BY <1>3, <1>5, <1>11

LEMMA LoopsBoundGaps ==
    ASSUME PlanReady
    PROVE  /\ \A i \in DOMAIN Requested : \A n \in Bytes(Requested[i]) :
                  \E m \in n - threshold .. n :
                      m \in Bytes(Requested[i]) /\ m \div blocksize \notin known
           /\ \A i \in 1 .. Len(Requested) - 1 :
                  Requested[i + 1][1] - Requested[i][2] - 1 > threshold
<1>1. PICK G : Plan(G) /\ Requested = Image(G)
  BY Planned
<1>2. /\ DOMAIN Requested = 1 .. Len(G) /\ Len(Requested) = Len(G) /\ Len(G) \in Nat
      /\ \A j \in 1 .. Len(G) :
            /\ G[j] = <<G[j][1], G[j][2]>>
            /\ G[j][1] \in Nat /\ G[j][2] \in Nat
            /\ G[j][1] < G[j][2] /\ G[j][2] <= Count
            /\ Requested[j] = ByteRange(G[j])
  BY <1>1, PlannedInBytes
<1>3. blocksize \in Nat \ {0} /\ threshold \in Nat
  BY DEF PlanReady
<1>4. ASSUME NEW i \in 1 .. Len(G), NEW n \in Bytes(Requested[i])
      PROVE  \E m \in n - threshold .. n :
                 m \in Bytes(Requested[i]) /\ m \div blocksize \notin known
  <2>1. PICK s \in Nat, e \in Nat : s = G[i][1] /\ e = G[i][2] /\ s < e /\ e <= Count
    BY <1>2
  <2>2. Requested[i] = ByteRange(<<s, e>>)
    BY <1>2, <2>1
  <2>3. s \in Missing /\ e - 1 \in Missing
        /\ \A b \in Missing : s < b /\ b < e => ~Opens(Missing, Gap, b)
    BY <1>1, <2>1 DEF Plan, Opens, Closes
  <2>4. PICK q : q = n \div blocksize
    OBVIOUS
  <2>5. /\ n \in Nat /\ q \in Nat /\ s <= q /\ q < e
        /\ q * blocksize <= n /\ n < q * blocksize + blocksize
    BY <2>1, <2>2, <2>4, BlockOfByte
  <2>6. CASE q \in Missing
    <3>1. n \in n - threshold .. n
      BY <1>3, <2>5
    <3> QED BY <2>4, <2>6, <3>1 DEF Missing
  <2>7. CASE q \notin Missing
    <3>1. PICK p \in Missing : s <= p /\ p < q /\ q - p <= Gap
      BY <2>1, <2>3, <2>5, <2>7, InsideOneRequest
    <3>2. p \in Nat /\ p + 1 \in Nat /\ q - p \in Nat
      BY <2>5, <3>1 DEF Missing, Blocks
    <3>3. PICK y \in Nat : y = p * blocksize
      BY <1>3, <3>2, Times
    <3>4. PICK x \in Nat : x = q * blocksize
      BY <1>3, <2>5, Times
    <3>5. PICK d \in Nat : d = (q - p) * blocksize
      BY <1>3, <3>2, Times
    <3>6. x = y + d
      <4>1. q * blocksize = p * blocksize + (q - p) * blocksize
        BY <1>3, <2>5, <3>2
      <4> QED BY <3>3, <3>4, <3>5, <4>1
    <3>7. d <= threshold
      BY <3>1, <3>2, <3>5, GapInBlocks
    <3>8. y + blocksize <= x
      BY <1>3, <2>5, <3>1, <3>2, <3>3, <3>4, Times
    <3>9. PICK a \in Nat : a = s * blocksize
      BY <1>3, Times
    <3>10. a <= y
      BY <1>3, <2>1, <3>1, <3>2, <3>3, <3>9, Times
    <3>11. PICK m \in Nat : m = y + blocksize - 1
      BY <1>3
    <3>12. y <= m /\ m < y + blocksize /\ m <= n /\ n - threshold <= m /\ a <= m
      BY <1>3, <2>5, <3>4, <3>6, <3>7, <3>8, <3>10, <3>11
    <3>13. m \div blocksize = p
      BY <1>3, <3>2, <3>3, <3>12, Divided
    <3>14. PICK last \in Nat : last = Requested[i][2] /\ Requested[i][1] = a
      <4>1. ByteRange(<<s, e>>) \in Nat \X Nat /\ ByteRange(<<s, e>>)[1] = a
        BY <2>1, <3>9, BytesOfRange
      <4> QED BY <2>2, <4>1
    <3>15. m \in Bytes(Requested[i])
      <4>1. n <= last
        BY <3>14 DEF Bytes
      <4> QED BY <2>5, <3>12, <3>14, <4>1 DEF Bytes
    <3>16. m \in n - threshold .. n
      BY <1>3, <2>5, <3>12
    <3> QED BY <3>1, <3>13, <3>15, <3>16 DEF Missing
  <2> QED BY <2>6, <2>7
<1>5. ASSUME NEW i \in 1 .. Len(G) - 1
      PROVE  Requested[i + 1][1] - Requested[i][2] - 1 > threshold
  <2>1. i \in 1 .. Len(G) /\ i + 1 \in 1 .. Len(G) /\ i < i + 1
    BY <1>2
  <2>2. PICK s \in Nat, e \in Nat : s = G[i][1] /\ e = G[i][2] /\ s < e /\ e <= Count
    BY <1>2, <2>1
  <2>3. PICK f \in Nat, h \in Nat : f = G[i + 1][1] /\ h = G[i + 1][2] /\ f < h /\ h <= Count
    BY <1>2, <2>1
  <2>4. Requested[i] = ByteRange(<<s, e>>) /\ Requested[i + 1] = ByteRange(<<f, h>>)
    BY <1>2, <2>1, <2>2, <2>3
  <2>5. e < f /\ e - 1 \in Missing /\ Opens(Missing, Gap, f)
    BY <1>1, <2>1, <2>2, <2>3 DEF Plan, Closes
  <2>6. f - e > Gap /\ Gap \in Nat /\ f - e \in Nat
    <3>1. f - (e - 1) - 1 > Gap
      BY <2>2, <2>3, <2>5 DEF Opens
    <3>2. Gap \in Nat
      BY GapInBlocks
    <3>3. e \in Nat /\ f \in Nat /\ e < f
      BY <2>5
    <3> QED BY ONLY <3>1, <3>2, <3>3
  <2>7. PICK d \in Nat : d = (f - e) * blocksize
    BY <1>3, <2>6, Times
  <2>8. d > threshold
    BY <1>3, <2>6, <2>7, GapInBlocks
  <2>9. PICK z \in Nat : z = e * blocksize
    BY <1>3, Times
  <2>10. PICK a \in Nat : a = f * blocksize
    BY <1>3, Times
  <2>11. a = z + d
    <3>1. f * blocksize = e * blocksize + (f - e) * blocksize
      BY <1>3
    <3> QED BY <2>7, <2>9, <2>10, <3>1
  <2>12. PICK last \in Nat : last = Requested[i][2] /\ last <= z - 1
    <3>1. ByteRange(<<s, e>>) \in Nat \X Nat /\ ByteRange(<<s, e>>)[2] <= z - 1
      BY <2>2, <2>9, BytesOfRange
    <3> QED BY <2>4, <3>1
  <2>13. Requested[i + 1][1] = a
    BY <2>3, <2>4, <2>10, BytesOfRange
  <2>14. PICK most \in Nat : most = threshold
    BY <1>3
  <2>15. a - last - 1 > most
    BY <2>8, <2>11, <2>12, <2>14
  <2> QED BY <2>12, <2>13, <2>14, <2>15
<1> QED BY <1>2, <1>4, <1>5

-----------------------------------------------------------------------------
(* In every state of every run. *)

PassTyped == threshold \in Nat /\ known \subseteq Nat

LEMMA PassTypedAlways == Spec => []PassTyped
<1>1. Init => PassTyped
  BY DEF Init, PassTyped
<1>2. ControlInv /\ PassTyped /\ [Next]_vars => PassTyped'
  <2> SUFFICES ASSUME ControlInv, PassTyped, [Next]_vars PROVE PassTyped'
    OBVIOUS
  <2>1. CASE Make \/ UNCHANGED vars
    BY <2>1 DEF Make, vars, PassTyped
  <2>2. CASE Begin
    BY <2>2, RangesAssumption DEF Begin, PassTyped
  <2>3. CASE MarkKnown
    <3>1. PICK b \in Blocks : known' = known \cup {b}
      BY <2>3 DEF MarkKnown
    <3>2. b \in Nat /\ threshold' = threshold
      BY <2>3 DEF MarkKnown, Blocks
    <3> QED BY <3>1, <3>2 DEF PassTyped
  <2> QED BY <2>1, <2>2, <2>3 DEF Next
<1> QED BY ControlInvariant, <1>1, <1>2, PTL DEF Spec

LEMMA ReadyToPlan ==
    ASSUME ControlInv, PassTyped, at = "planning"
    PROVE  PlanReady
<1>1. /\ records \in Nat /\ blocksize \in Nat \ {0} /\ length \in Nat
      /\ records = NumBlocks(length, blocksize)
  BY UsableBlocksizeType DEF ControlInv, ControlTyped, Counted, Measured
<1> QED BY <1>1, NumBlocksBounds DEF PassTyped, PlanReady, Count

\* What the three loops request is the plan Assembly works from.
THEOREM LoopsTheorem == Spec => []RequestedAsPlanned
<1>1. ControlInv /\ PassTyped => RequestedAsPlanned
  BY ReadyToPlan, LoopsPlan DEF RequestedAsPlanned
<1> QED BY ControlInvariant, PassTypedAlways, <1>1, PTL

\* Every missing byte is requested, and none twice.
THEOREM CoverTheorem == Spec => []RequestsCoverWhatIsMissing
<1>1. ControlInv /\ PassTyped => RequestsCoverWhatIsMissing
  BY ReadyToPlan, LoopsCover DEF RequestsCoverWhatIsMissing
<1> QED BY ControlInvariant, PassTypedAlways, <1>1, PTL

\* Known bytes are requested again only in runs no longer than the threshold.
THEOREM GapsTheorem == Spec => []GapsAreBounded
<1>1. ControlInv /\ PassTyped => GapsAreBounded
  BY ReadyToPlan, LoopsBoundGaps DEF GapsAreBounded
<1> QED BY ControlInvariant, PassTypedAlways, <1>1, PTL
=============================================================================
