# zsync-rs in TLA+

A verification development of zsync-rs: TLA+ modules of its transfer engine, its
block matcher, its HTTP client, its control files and its command-line programs, TLC
configurations that check them on small instances, and proofs, checked by TLAPS, of
the safety of the engine, the program, the client and the shared temporary file for
every instance. Paths below are relative to the repository (`src/assembly.rs` and so on
are `src/src/...` in `PROJECT.json`).

Run a check with `tlc -config AssemblyVerified.cfg Assembly.tla`, and the proofs
with `tlapm` on each `*_proofs.tla`.

## 1. The system

A control file lists the checksums of a target's blocks. The client finds the
blocks it has locally, downloads the others by HTTP range requests into a
temporary file beside the output, checks the result and renames it into place.

| Component | State it keeps | Operations | What makes it correct |
|---|---|---|---|
| `ZsyncAssembly` (`assembly.rs`) | matcher, temporary file (opened lazily, never truncated on opening), output path, abort flag | `submit_source_file`, `submit_self_referential`, `download_missing_blocks`, `complete`, `abort`, `Drop` | A block that counts as known is in the file. The output path holds the old file or the whole target, whatever fails. The temporary file does not outlive the assembly. Every call returns. A pass asks for every missing block. |
| `BlockMatcher`, record (`matcher.rs`) | `known_blocks`, `known_count` | `submit_blocks`, `mark_known`, `needed_block_ranges`, `is_complete` | Known only grows; the ranges needed are exactly the unknown blocks. |
| `BlockMatcher`, scan (`matcher.rs`, `rsum.rs`) | hash chains, bit filter, two rolling checksums, hint | `new`, `submit_source_data`, `scan_chunk`, `match_chain`, `remove_block_from_hash` | What is reported is there, at that offset. No offset goes untested. Rolled checksums equal computed ones. Unlinking a block loses no other. |
| Range planning (`matcher.rs`, `http.rs`) | none | `needed_block_ranges`, `byte_ranges_from_block_ranges`, `merge_byte_ranges` | Every missing byte requested once, gaps no longer than the threshold, nothing past the end. |
| `HttpClient` (`http.rs`) | the last redirect, behind a mutex | `fetch_control_file`, `fetch_range_reader`, `HttpRangeReader::read` | A range is never answered from another URL's redirect; a remembered target that has expired is forgotten. |
| `zsync` program (`bin/zsync.rs`) | inputs left, retry counter, known blocks at the last failure | `main` | Exit 0 means the output is the target; every exit of its own, once it has made its assembly, removes the temporary file; it gives up after the retries allowed and not before; it ends. |
| Progress reporter (`bin/zsync.rs`) | phase, throttle, last counts, whether a bar is drawn | `begin`, `progress`, `finish`, `end_bar` | No phase is left without its end, which shows the last count whatever the throttle held back. No message is written into a bar. |
| `ControlFile` (`control.rs`) and `zsyncmake` | the parsed fields | `parse`, `generate`, `write` | What is accepted is usable, whoever sent it; what was written in part is refused; what is written whole parses back; parsing ends, in memory bounded by what arrived. |
| Checksums (`checksum.rs`, `rsum.rs`) | none | MD4, SHA-1, rolling checksum | as above |
| Tests, fuzz targets | none | | read as documentation |

**How they interact.** The program owns one assembly and calls it; the assembly
owns the matcher and a client and calls both; the only concurrency inside is the
threads of one scan, which share the matcher read-only, and the abort flag, which
another thread may raise at any moment. A client may be shared by threads, with one
remembered redirect behind a mutex. Everything that survives a run is on disk:
the temporary file, at a path derived from the output's, and the output; two
processes with one output path meet there, with no lock. Progress callbacks run
inside the library's calls, on the caller's thread.

**What is hard.**

- *Order within a call.* Blocks are marked known first and written after, and
  nothing reads them back before `complete`. Any step between may fail.
- *What is left behind.* A killed run leaves its temporary file, which the next one
  opens without truncating. `process::exit` skips `Drop`.
- *Crashes.* Power may fail between writing, flushing and renaming.
- *Boundaries.* A short last block is written padded by a scan and unpadded by a
  download. Inclusive byte ranges meet half-open block ranges. Chunks, threads and
  files use different origins for the same offset.
- *The server.* It may refuse, fail, stop early without an error, or send
  anything. Retries start over on progress, judged by comparing totals.
- *Servers that change their mind.* A signed redirect target expires between two
  requests, or between two threads' requests.
- *Stale measures.* The self scan writes to the file it reads, whose size it took
  once.
- *Stale data structures.* Chains lose blocks while later chunks rely on them;
  rolling checksums are carried over, recomputed or left alone after a match.

`PROJECT.json` lists each hazard at its line, with the properties that cover it.

## 2. The modules

```
 Transfer  <-- implemented by --  Assembly  <-- extended by --  Cli  <-- extended by --  Progress
                                     |
                                     | uses the plan
                                     v
 ControlFile <-- extended by -- Ranges -- checks --> RequestPlan
                                  |
                              MCRanges

 Matcher  <-- MCMatcher        SharedTemp  <-- MCSharedTemp        HttpClient

 Proofs:  Lemmas --+--> Assembly_proofs --> Progress_proofs (and Cli's)
                   |
                   +--> ControlFile_proofs --> Ranges_proofs
                   |
                   +--> Matcher_proofs

          HttpClient_proofs         SharedTemp_proofs
```

### Transfer: what is promised

The abstract specification: blocks held, the file at the output path, whether a
transfer is under way. The output changes once, to the target, when every block is
held. Failure and restart do not touch it.

### Assembly: the engine

One action for each step of each call that another party can come between. Variables and
the code they stand for:

| Variable | Code |
|---|---|
| `pc` | where the call under way is; `"idle"` between calls, `"drop"` in `Drop`, `"gone"` after it, `"dead"` after a kill or a power loss |
| `known`, `pending` | `known_blocks`; the tail of `matched_blocks` still to be written |
| `chunks` | what a scan has left to read |
| `ranges`, `cur`, `stop`, `got` | the rest of the merged ranges, `current_block_id`, the end of the range, `downloaded_blocks` |
| `open`, `exists`, `data`, `size`, `synced` | `self.file`, and the temporary file on disk |
| `out`, `outSynced` | the file at the output path |
| `aborting`, `result`, `run` | the abort flag, what the call returned, which run of the program |
| `refused` | history: blocks the last pass received whole and refused |

A cell of `data` is a hole, the target's block or something else; `size` is below,
at or above the target's length. A scan of `submit_source_file` is `SubmitSourceFile`, then
`ScanStops` or `ScanChunk` at the top of the loop, `ScanWrite` once per block
(or `ScanWriteFails`), `ScanChunkDone`; the self scan is the same with `pc` in
`"self"`, after a flush. A pass is `DownloadMissingBlocks`, `OpenRange` (or
`OpenRangeFails`), then per block `SkipBlock` or `AcceptBlock` and `BlockWrite`,
`BodyEnds`, `BodyFails` or `AcceptTail` and `TailWrite` at the end of a body, and
`PassDone`. `Complete` is followed by `EnsureFile`, `SetLen`, `CheckSha`, `SyncAll`,
`CarryPermissions`, `Rename`, any of which may fail, and by `DropAssembly` on every
path. `RaiseAbort`, `Kill` and `PowerLoss` may come between any two steps; a power
loss takes whatever was not flushed. `Restart` starts a new assembly on what is on
disk.

The caller of this module is any caller: calls come in any order, after any error.

Abstractions, all stated in the module: checksums do not collide; a scan finds any
set of the unknown blocks (a superset of what `Matcher` says it may find); a body comes a
block at a time; removing the temporary file in `Drop` succeeds (the code
ignores the result); progress callbacks only read. What may go wrong is switched by constants
(`IOFails`, `ShortBodies`, `StaleTemp`, `ZeroTail`), so that a run or a theorem
can say which failures it needs to exclude.

### RequestPlan and Ranges: what a pass requests

`RequestPlan` says without a loop which block ranges a pass requests. `Ranges`
holds the three loops of the code as folds and checks that they
compute that plan, for each control file that `ControlFile` accepted and with blocks
that become known one by one in any order. `Assembly` uses the plan.
`Lemmas` proves that it covers what is missing, and `Ranges_proofs` that the
loops compute it.

### ControlFile: making and parsing

`Generate` and `Write` are `zsyncmake`: what it generates, and what is in its file when
it ends, fails or is killed at any line or byte of a record. `parse` then reads that file, or
a header and records of a server that sends anything in any order and without end:
`Field`, `BadLine`, `HeaderStops` and `HeaderEnds` for the header under its cap,
`ReadRecord` and `RecordsStop` for the records, and `Accept`. The cap counts lines instead
of bytes; a line cut short by it is one that reads as something else or has no colon.
`MAX_BLOCKSIZE`, `MAX_HEADER_BYTES`, `MAX_BLOCKS` and `MAX_PREALLOC` are parameters.

### Cli: the program

`main` of `bin/zsync.rs`, composed with `Assembly` by `EXTENDS`: its steps make the assembly's
calls and branch on what they returned. `at` is where `main` is, `inputs` the files
left to scan, `failures` and `knownAtFailure` the variables of those names. `dry`
and `retried` are history. The program never raises the abort flag, so
`RaiseAbort` is not a step here. Waits between retries only delay and are left out.

### Progress: what the program shows

`Cli` with the `Reporter` of `bin/zsync.rs` and every call `main` makes to it, in the three
modes: a bar, lines, or `--json`. Each action `XShown` is the action `X` of `Cli` with
what it reports. The library's callbacks are part of the step of `Assembly` that
makes them: the end of a chunk of a scan, or the write of a downloaded block. The
clock is not modelled: after the first report of a phase the throttle may hold any
other back or let it through, except that the wait before a retry outlasts it.
`reported`, `shown` and `torn` are history. A count is in chunks or blocks instead of bytes.

### Matcher: the scan

`BlockMatcher` on real data, in small: targets of three blocks, inputs of a few bytes,
sums of one or two bits. The hash table is its head and next pointers, the windows
roll by the code's formula, a pair match sets a hint, each chunk is cut in parts for
the threads, and what is found is unlinked from its chain at the end of the chunk and
copied from the buffer into the temporary file: `BufOffset` takes an offset of the file back
to one of the buffer, which begins with the context carried over from the chunk before. The scan is the one of an input file
or, when `case.self`, of the temporary file itself, which grows under it: `size` is what
was measured at the start, `BytesRead` what the file has by now. The
code's constants 16 (bits of a sum), 5 (least hash bits), 3 (`BITHASH_BITS`), 32 MiB
(chunk) and 2 MiB (per thread) are parameters, and so is how many bits of each sum a
control file stores. Threads only read, and their results
are joined in order, so their parts are scanned one after the other. A block
stands for its MD4. `MCMatcher` names the shapes tried.

### HttpClient: the remembered redirect

One client shared by threads that fetch ranges and control files of several URLs. `gen` is
the server's side: the target each URL redirects to, renewed at any time, upon which
earlier targets answer with an error status. `memo` is `redirect`; it is copied out
(`FetchRangeReader`) and stored (`Store`) under the lock, with the request between.
`Answered`, `RangeIgnored`, `Refused` and `TransportFails` are `open_range` and what
`fetch_range_reader` makes of it, `Read` and `ReadEnds` the capped reader. `asked` is
history. A body is where in the file it begins and how long it is.

### SharedTemp: several assemblies of one output

The temporary path is the output's with a suffix, so assemblies of one output in
several processes share it. A handle stays on its file while the path comes to
name another: `handle`, `path`, `out` and `right` (which blocks of a file hold the
target's bytes) are kept apart. Calls are coarser than in `Assembly`, with which it shares
their order: marking before writing, cutting before checking, checking by handle and
renaming by path, and a `Drop` that removes whatever is at the path. `WriteFails` is a write of
a scan or a download that fails: the blocks stay known, and the assembly may go on, as finding 1 says. Whether there is a SHA-1
(`sha`) is chosen at the start; `undercut` and `missed` are history.

## 3. The runs

| Run | Module, configuration | Properties | Distinct states |
|---|---|---|---|
| `assembly_verified` | Assembly, `AssemblyVerified.cfg` | `TypeOK`, `OutputOldOrWhole`, `NothingLeftBehind`, `RefinesTransfer` | 250,934 |
| `assembly_calls` | Assembly, `AssemblyCalls.cfg` | `KnownIsWritten`, `OutputOldOrWhole`, `PassCoversMissing`, `CallsReturn` | 705,756 |
| `program` | Progress, `Program.cfg` | `CliTypeOK`, `ExitLeavesNoTemp`, `ExitZeroMeansWhole`, `GivesUpAfterRetriesInARow`, `RetriesAreBounded`, `MissingWasRefused`, `PhaseEndsWithLast`, `MessagesHaveTheirLine`, `EveryPhaseEnds`, `Exits` | 857,988 |
| `requests` | MCRanges, `Requests.cfg` | `AcceptedIsUsable`, `ReservedAsArrived`, `PartialIsRefused`, `WrittenParsesBack`, `ParseEnds`, `RequestedAsPlanned`, `RequestsCoverWhatIsMissing`, `GapsAreBounded` | 228,777 |
| `matcher` | MCMatcher, `Matcher.cfg` | `FoundIsThere`, `RollingIsFresh`, `IndexHoldsUnknown`, `NothingMissed`, `KnownIsInFile`, `ReportsAscend`, `InputIsReportedWhole` | about 967,000 |
| `http_client` | HttpClient, `HttpClient.cfg` | `OwnTarget`, `StatusIsOwn`, `BodyIsTheRange`, `CallsEnd` | about 166,000 |
| `shared_temp` | MCSharedTemp, `SharedTemp.cfg` | `UndisturbedBlocksAreRight`, `TwoLeaveRightBlocks` | 2,516,785 |
| `cli_write_fails` | Cli, `CliWriteFails.cfg` | `KnownIsWritten`, violated | |
| `cli_short_bodies` | Cli, `CliShortBodies.cfg` | `MissingWasRefused`, violated | |
| `assembly_stale_tail` | Assembly, `AssemblyStaleTail.cfg` | `OutputOldOrWhole`, violated | |
| `matcher_one_byte` | MCMatcher, `MatcherOneByte.cfg` | `NothingMissed`, violated | |
| `scan_progress` | MCMatcher, `ScanProgress.cfg` | `LastReportIsWhole`, violated | |

- **assembly_verified.** Control file with a SHA-1; everything that may fail fails: local I/O,
  short and wrong bodies, a stale temporary file, aborts, kills, power
  losses, two runs. The output is the old file or the whole target, an assembly
  that ends leaves no temporary file, and each step is one of `Transfer` or unseen
  by it.
- **assembly_calls.** Without a SHA-1, so that the record of known blocks is all `complete`
  has to go by. It suffices as long as writes do not fail and no block's missing
  end can pass for zeros; two of the violations show that both conditions are needed,
  and the proof covers the stale file this run leaves out. Four blocks and a gap of one, so
  that passes make two separate requests, or one that spans a known block: each
  missing block is in what is requested, and each call returns.
- **program.** The program with its reporter, run twice, in each mode, against a failing
  disk and a server that fails at will. The temporary file is
  gone after each exit of its own once the assembly is made, and exit code 0 means the output is the target. The
  retry counter is compared only at failures, and yet
  gives up exactly when the retries were spent with nothing gained between; it is
  bounded by a round of retries per block; the program ends; with bodies that are whole, blocks
  reported as not matching did arrive. A phase that reported anything ends by
  showing its last count, whatever was held back; none is left for the next
  without its end; no message is written into a bar.
- **requests.** Every header of up to nine lines from a server, in any order and with
  any value in and just out of range, and every file `zsyncmake` leaves for targets of up to 14
  bytes: what is accepted has what matching and planning rest on, what is partial is refused, room is
  reserved as records arrive, a parse ends. Then every set of known blocks, and thresholds 0 to 5
  bytes: what the three loops request is the plan.
- **matcher.** Every target of three blocks and every input of each shape, each with and
  without a block already known, and every temporary file that holds some of the blocks.
  What is reported lies in the buffer it is
  copied from and is the target's, and so is what the copies leave in the file, though the
  self scan writes to what it reads; rolled checksums equal fresh ones, also when a
  shift is as wide as the sum; an unknown block stays in its chain; at the end an
  unknown block occurs nowhere in the zero-padded file except inside a stretch
  that matched other blocks. `Occurs` asks for the neighbour as well when
  `seq_matches` is 2, as the code does; a block whose neighbour does not follow it
  may be found or not, depending on hints and on where chunks are cut. In a self scan,
  `Untouched` leaves aside what was written while it ran.
- **http_client.** Two threads and two URLs, each renewed twice at any time. A call is never
  sent to another URL's target, reports an error status only after asking its own URL, reads a
  body only from where its range begins, and ends.
- **shared_temp.** Three assemblies over a stale file, with a SHA-1 or without one. Any write may
  fail and its assembly go on with blocks known that are nowhere. Blocks in
  the output are right as long as no assembly takes the path from under another; with two
  of them they are right whatever one takes from the other. Without a SHA-1 this is claimed only until
  a write fails (`Told`), as it must be even for one assembly (finding 1).

**Bounds.** `NBlocks` of 2 has a first block and a short last one, which are the
only kinds the file's length and the tail's treatment tell apart; 4 with a gap of 1
is the least that has both a merged and a separate request. `MaxChunks` is 1 in the
runs of `Assembly`, because chunks of a scan
only repeat a loop that keeps nothing but `known`, and 2 in `program`, the least in which
a report is followed by another in its scan. `MaxRuns` is 2: what one run leaves to
the next is on disk, and `StaleTemp` starts the first run on an arbitrary file.
`Retries` of 2 tells "in a row" from "in total". `Percents` of 2 gives lines mode percents that
repeat and percents that do not. `MaxHeader` of 9 is one line more than the header
`zsyncmake` writes, `MaxPrealloc` of 2 and `MaxBlocks` of 6 are both reached and passed by
targets of 14 bytes. In `Matcher`, three blocks are the
least with a pair and a hint after it, and the inputs of each two-chunk shape are
longer than one chunk and its overlap; collisions are common with
sums of one or two bits. `MaxGen` of 2 gives a remembered target that is
renewed and renewed again during one call. Three assemblies are the least in which one may put a new
file at the path between another's check and its rename. Deadlock is not checked where a
program that has ended, a scanned file, assemblies that are all gone, or requests with
no block left to mark take no further step; `http_client` checks it.

**Fairness.** `FairSpec` has weak fairness on `Step`, the steps of a call
under way, `CliFairSpec` and `ProgSpec` on the program's own, `FairSpec` of `HttpClient` on the steps
of each thread's call and that of `Ranges` on the parser's. Nothing of the environment is
fair: aborts, kills, power losses and restarts need not happen, and no call is forced on
the library's caller. Fairness of `Step` includes the arrival of a body's next bytes. The client bounds only the lookup and
the connection ("Neither bounds the transfer itself", `http.rs`), so a server that
accepts a request and then neither sends nor closes blocks the program; that case
is excluded by the assumption and not by the code. Choices within `Step` are not fair:
a server may fail each time, and the program still ends; it may send header lines for
ever, and the parse still ends.

## 4. Findings

1. **Blocks are known before they are written** (`cli_write_fails`,
   `assembly.rs:341`). A scan marks everything it found in a chunk, then writes. When
   a write fails the scan returns an error with the rest of the chunk known and
   absent. The program treats the error as a warning and downloads only what is
   not known, so the transfer can only end in `ChecksumMismatch`, or without
   a SHA-1 in a corrupt output. The same in the self scan.
2. **Blocks that never came are reported as mismatched** (`cli_short_bodies`,
   `bin/zsync.rs:511`). A body that ends early without an error counts as the end of
   its range. A pass that gains nothing this way returns `Ok(0)`, is not retried, and the
   message blames the data.
3. **A stale byte can stay in a verified block** (`assembly_stale_tail`,
   `assembly.rs:640`). A body cut inside a block is padded with zeros and verified padded,
   but only the bytes that came are written. Over a temporary file left
   by a killed run, the bytes behind them stay. Without a SHA-1 the corrupt file is
   renamed into place.

4. **One stored byte of rolling checksum matches almost nothing** (`matcher_one_byte`,
   `matcher.rs:78`). The header accepts `rsum_bytes` of 1, as documented. The byte is read as a
   whole b sum whose upper half is zero and compared with all bits of the rolling one, so a
   block is found only where that half happens to be zero. With `seq_matches` of 1 the
   shift of the hash is computed below zero besides (`matcher.rs:340`), which panics in a debug build.
   `generate` never chooses 1.
5. **The self scan reports more than the file has** (`scan_progress`, `assembly.rs:477`). It
   measures the file before it writes to it and reads on into what it has written, over several chunks;
   the documented last report "with both equal" has more done than the total.

Noted without a run of their own:

- `README.md:107` of the repository says that each phase ends with a final event. A
  download that fails ends with an `error` event and has none.
- `generate` sets no limit on blocks, so a file of more than 2^26 of them is written and does not
  parse back. `WrittenParsesBack` says so.
- With three assemblies on one path, one whose path is taken away may rename a file that it
  never checked; the padding of a scan by one may lengthen the file after another has cut
  it. `undercut` and the absence of a length in the properties of `SharedTemp` stand for these.
- A remembered redirect target that fails without a status, or ignores `Range`, is never
  forgotten; only an error status leads back to the URL.

## 5. The proofs

From the named assumptions on the constants alone (their types), for every number of blocks,
gaps, runs, inputs, retries, threads, URLs and processes, any limits of the parser, and any number
of lines, records, chunks and percents:

| Module | Theorem | Statement | Extra assumption |
|---|---|---|---|
| `Assembly_proofs` | `TypeCorrect` | `Spec => []TypeOK` | |
| | `LifeCycleHolds` | `Spec => []LifeCycle` | |
| | `TempRemoved` | `Spec => []NothingLeftBehind` | |
| | `KnownWritten` | `Spec => []KnownIsWritten` | writes do not fail; bodies are whole or no block ends in zeros |
| | `AssuredHolds` | `Spec => []Assured` | a SHA-1, or the assumption of `KnownWritten` |
| | `OutputSafe` | `Spec => []OutputOldOrWhole` | the same |
| | `Refinement` | `Spec => RefinesTransfer` | the same |
| | `PassCovers` | `Spec => []PassCoversMissing` | |
| | `TransientMeansMissing` | a pass that failed on the network leaves a block missing | |
| | `NothingMeansRefused` | a pass that added nothing received and refused each missing block | bodies are whole |
| `Lemmas` | `PlanCovers`, `PlanIsDisjoint` | the plan covers each missing block and no block is in two requests | |
| `Ranges_proofs` | `ControlInvariant` | `Spec => []ControlInv` | |
| | `UsableTheorem`, `ReservedTheorem`, `PartialTheorem` | `AcceptedIsUsable`, `ReservedAsArrived`, `PartialIsRefused` | |
| | `RoundTrip` | `Spec => []WrittenParsesBack` | `MaxHeader >= 8` |
| | `LoopsTheorem` | `Spec => []RequestedAsPlanned` | |
| | `CoverTheorem`, `GapsTheorem` | `RequestsCoverWhatIsMissing`, `GapsAreBounded` | |
| `Progress_proofs` | `PlaceHolds`, `ProgramTyped` | `CliSpec => []Place`, `CliSpec => []CliTypeOK` | |
| | `ExitsClean` | `CliSpec => []ExitLeavesNoTemp` | |
| | `ExitZeroIsWhole` | `CliSpec => []ExitZeroMeansWhole` | as for `OutputSafe` |
| | `GivesUpRight`, `RetriesBounded` | `CliSpec => []GivesUpAfterRetriesInARow`, `CliSpec => []RetriesAreBounded` | |
| | `BlamedRightly` | `CliSpec => []MissingWasRefused` | bodies are whole |
| | `ReporterInvariant` | `ProgSpec => []ReporterInv` | |
| | `PhaseEndsRight`, `NothingTorn` | `PhaseEndsWithLast`, `MessagesHaveTheirLine` | |
| | `PhasesEnd` | `ProgSpec => EveryPhaseEnds` | |
| `Matcher_proofs` | `MatcherInvariant` | `Spec => []MatcherInv` | |
| | `FoundIsAlwaysThere`, `RollingIsAlwaysFresh` | `FoundIsThere`, `RollingIsFresh` | |
| | `KnownIsAlwaysInFile`, `IndexAlwaysHoldsUnknown` | `KnownIsInFile`, `IndexHoldsUnknown` | |
| | `InputIsAlwaysReportedWhole` | `Spec => []InputIsReportedWhole` | |
| | `ReportsAlwaysAscend` | `Spec => ReportsAscend` | |
| | `NothingIsMissed` | `Spec => []NothingMissed` | whole b sums are stored |
| `HttpClient_proofs` | `RequestsStayOwn`, `ExpiryIsHidden`, `BodiesAreRanges` | `OwnTarget`, `StatusIsOwn`, `BodyIsTheRange` | |
| `SharedTemp_proofs` | `UndisturbedIsRight` | `Spec => []UndisturbedBlocksAreRight` | |
| | `TwoAreRight` | `Spec => []TwoLeaveRightBlocks` | |

**The assembly.** The argument goes in layers. `TypeOK` is inductive and gives each action the range
of its block numbers, in particular that a block about to be written is one of the target's.
Neither of the output's properties is inductive: that a rename is harmless depends on
what `complete` did before it. `LifeCycle` records that: completion runs only with
every block known, the file has the target's length once cut, it is flushed from
the flush to the rename, no found block waits outside a scan's writing loop, and
the output is always on disk, since only a flushed file is renamed.
`KnownIsWritten` excludes the blocks in flight and needs `LifeCycle` to know that none are in
flight when a scan ends or fails; its induction also carries that the write of a
block's head alone is never reached. `Assured` says the file is whole from the check
to the rename: with a SHA-1 because the check compared it, otherwise
because every block is known, hence written, and the length exact. From it
follows that the output is never corrupt, and the refinement: `Rename` is
`Finish`, marking blocks is `Gain`, entering `Drop` or dying is `Fail`, `Restart` is
`Begin` and every other step changes nothing `Transfer` sees.

**A pass.** That the plan covers a missing block takes the last opening block before it and the
first closing block after it, which exist because the natural numbers are well founded.
`PassCoversMissing` is not inductive, since it does not say that the requests left come after
the one under way; `Ahead` does, and that they do not overlap. `Accounted` says where
a missing block is during a pass: refused, ahead in a request left, or in the body being read.
A request ends with a missing block (`EndsMissing`), and the reader swallows an error after its last byte
(`http.rs:88-95`), so whenever a pass can fail on the network some block is still missing
(`TransientMeansMissing`).

**The program.** Every step of `CliSpec` is one of `Assembly`, so its theorems hold of the program
(`ProgramIsAssembly`). `Place` ties where `main` is to where its call is, in particular that
it exits only with its assembly dropped. `Counting` is the retry loop: while it runs,
`dry` equals `failures` if no block was gained since the last failure and is 0 otherwise,
and the retries made fit in `Retries * knownAtFailure + failures`, where a round is paid for by
a block gained since.

**The reporter.** Every step of `ProgSpec` is one of `CliSpec` (`ShownIsProgram`). What `finish`
shows depends on what the throttle held back in the phase, so `PhaseEndsWithLast` is not
inductive. `ReporterInv` adds four things: while a phase is under way its first report
has been shown and the percent kept is that of what was shown last (`Underway`); each place of
`main` has its phase, ended or not (`PhaseInPlace`); a bar is drawn from the first report to the
end of the phase, unless `main` has left it for a retry and no report has come since (`BarInPlace`,
`LeftForRetry`); and whenever `main` goes on from a pass, the
count last reported is that of the known blocks, which makes the whole count that `Check`
ends the download with the last one reported (`ReportedIsKnown`). The last depends on a detail of
passes: a block becomes known before it is written and is reported after, so a write that fails leaves
a known block unreported, but `main` gives up after it. A download does not end with its bar
left for a retry: a block is missing then (`TransientMeansMissing`), and the report of one gained draws
the bar again, with no throttle to hold it back after the wait.

**Control files.** `ControlInv` says of a parse under way what has been counted, reserved and checked
so far (`Counted`), of what was made that it is within the clamps (`MadeIsUsable`), and of a parse of
one's own file that each line read is the one written in that place (`ReadsWhatWasWritten`).
It is stated over the steps of `Ranges`, where parsing goes on into planning. `RoundTrip` assumes that
the cap on the header leaves room for the eight lines `zsyncmake` writes, which 1 MiB does.

**The three loops.** They are folds, and what a fold computes is proved by induction. The library's
theorem for that takes an operator, which the provers cannot instantiate, so `FromZeroOn` states
it for a set of numbers: it follows from the least number not in the set. With it, `FoldExists`
gives the states that a fold goes through, `ScanTrace` and `MergeTrace` those of the two
kinds of loop. `ScanInv` is the invariant of the loop over the blocks: the runs closed so far
and the one open are the missing blocks before the current one. `NeededRuns` reads it at the end, `Joined` says what
merging has put together, `MergeStep` keeps it, `Planned` compares it with the plan. The two thresholds
differ, whole blocks in the plan and bytes in the code; since ranges begin and end at blocks, except for
the last, they separate the same runs (`Times` and `Divided` hold the arithmetic).

**The scan.** `MatcherInv` has five parts beside the two properties that are inductive with them. What
a case fixes keeps its type. `KnownInv`: the temporary file holds each known block, and the index is
right (`IndexOK`): links lead upwards, each chain holds blocks of its own bucket, and each unknown block
is in one. Links lead upwards because blocks are inserted from the last to the first, and removing
keeps that; so a walk ends, whatever it adds (`WalkExists`, an induction down from the end of
the chain), its recursive definition has that one solution, and no block stands in a chain twice.
`WalkGathers` says that what a walk adds is what the blocks of the chain add. `WithinChunk` keeps
windows far enough from the end of the buffer that a pair found at one lies inside it; what is found
is then the target's data in the buffer, and copying it there is right (`WriteHolds`, `CopyHolds`),
even when the file copied into is the one scanned. `ReportInv` ties the report to the offset reached.
The rolling checksum is a fold over the window and `SlidSums` compares the folds over two
windows a byte apart, sum by sum, up to multiples of a power of two (`Multiples`): each step of the
second is behind the first by the byte that left, and the b sum by as many of it as the window has bytes.
A shift as wide as the word counts for nothing, which is a multiple too (`ShiftCounts`).

**What a scan misses.** `NothingMissed` speaks of the end of a scan only. `CompleteInv` says of every
window tested so far that a block there is known, was found or lies inside a stretch passed over
(`SeenInv`), where the windows tested are counted from the place of the scan (`Tested`). Three facts keep
it. The parts of a chunk, and the chunks, leave no gap between them (`CutsInv`, `PartsMeet`). What the
buffer has at a window is what the file has there (`WindowIsSource`), and a window equal to a block, and
the one behind it to its neighbour, matches it, hashes to its bucket and passes the filter, so the walk
of the chain adds it (`MatchesHere`, `ChainFindsIt`); this is where the whole b sum is needed, since the
hash of a window is made of whole sums and that of a block of stored ones. And what a chunk finds becomes
known, and the copies of a self scan leave alone the bytes that no new block covers (`ChunkLeaves`,
`SourceLeft`). The assumption `WholeSums` holds of all control files with `rsum_bytes` of 2 or more,
hence of all that `generate` writes; with 1 the property is false, as `matcher_one_byte` shows.

**The client and the shared path.** What is remembered for a URL is that URL's redirect, and a
call that has moved on from its URL has asked it. While nothing is undercut, all open handles are on the
file at the path, and what an assembly counts as known and written is in that file, until a write
fails; with a SHA-1 what it has verified is right whatever it counts (`Sound`). With two
assemblies the path may be taken from under one of them. `Paired` says why that does no harm to the
blocks: the path is empty under an open assembly only once the other has ended, so nobody is left to
put another file there, and what is at the path, if anything is, is the file the handle is on.

**Only model-checked.** `CallsReturn`, `Exits`, `CallsEnd` and `ParseEnds`: liveness under
fairness is beyond TLAPS. Every other property of a passing run is a theorem.

## 6. Not modelled, and why

- `resolve_url` and the choice of output name: string work with no state.
- Argument parsing, the wording of messages, escaping in JSON: pure input and output.
- The formula by which `generate` chooses hash lengths, in floating point: any lengths within
  its clamps. The digests: collision-free tests, their arithmetic being external crates'.
- ureq: connections, pools and timeouts appear as answers and failures.
- Input files changed by others while they are read, and reads that return less
  than asked for in the middle of a regular file.
- Builds of 32 bits, where `as usize` (`control.rs:267`) cuts a block count; and the panics of a debug
  build on arithmetic that wraps in a release build (`matcher.rs:340`): the model's shift is the
  release build's.
- Offsets of a thread within its slice (`matcher.rs:510`): the model's windows have their place in the
  whole buffer, so that a wrong base there would not be seen. The base of a chunk in the file is modelled.
- A power loss in `SharedTemp`, and short bodies there: `Assembly` has both.

## 7. Plan

Written: all of section 2, and a theorem for each property of a passing run that is not one of liveness.
