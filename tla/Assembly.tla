------------------------------- MODULE Assembly -------------------------------
(***************************************************************************)
(* ZsyncAssembly (src/src/assembly.rs): one transfer of a target file into *)
(* a temporary file beside the output, with the part of BlockMatcher       *)
(* (src/src/matcher.rs) that records which blocks are known.               *)
(*                                                                         *)
(* A caller makes one call at a time; between any two steps of a call the  *)
(* abort flag may rise, the disk or the server may fail, the process may   *)
(* be killed or the power lost, and another run may follow on what is left *)
(* on disk.                                                                *)
(*                                                                         *)
(* What is abstracted:                                                     *)
(*  - data: a block of the temporary file is the target's, is unwritten or *)
(*    is something else; block checksums and SHA-1 do not collide;         *)
(*  - a scan: each chunk yields any set of the blocks still unknown, since *)
(*    a seed may hold any of them (which ones, and at which offsets, is    *)
(*    the matcher's business); the chunks left are a number;               *)
(*  - a response: its bytes come a block at a time, right or wrong, and    *)
(*    may stop early, with or without an error;                            *)
(*  - progress callbacks, which only read.                                 *)
(***************************************************************************)
EXTENDS Integers, FiniteSets, RequestPlan

CONSTANTS
    NBlocks,     \* blocks in the target
    Partial,     \* whether the last one is shorter than the block size
    ZeroTail,    \* the blocks whose last bytes in the target are zeros
    Gap,         \* range gap threshold, in blocks
    HasSha,      \* whether the control file carries a SHA-1
    HasUrl,      \* whether the control file lists a URL
    IOFails,     \* whether local reads, writes, syncs and renames may fail
    ShortBodies, \* whether a response may end early without an error
    StaleTemp,   \* whether an earlier, killed run may have left a temp file
    MaxChunks,   \* bound: chunks of a scanned file
    MaxRuns      \* bound: runs of the program

Blocks == 0 .. NBlocks - 1
Last == NBlocks - 1

ASSUME AssemblyAssumption ==
    /\ NBlocks \in Nat
    /\ ZeroTail \subseteq Blocks
    /\ Gap \in Nat
    /\ Partial \in BOOLEAN /\ HasSha \in BOOLEAN /\ HasUrl \in BOOLEAN
    /\ IOFails \in BOOLEAN /\ ShortBodies \in BOOLEAN /\ StaleTemp \in BOOLEAN
    /\ MaxChunks \in Nat
    /\ MaxRuns \in Nat

VARIABLES
    pc,         \* where the call under way is, "idle" between calls
    known,      \* BlockMatcher::known_blocks
    pending,    \* blocks a scan has marked known and not written yet
    chunks,     \* chunks the scan under way has left to read
    ranges,     \* requests the download pass has left to make
    cur,        \* current_block_id
    stop,       \* end of the range being received
    got,        \* downloaded_blocks
    refused,    \* history: blocks the last pass received whole and refused
    open,       \* file.is_some()
    exists,     \* whether the temporary file exists
    data,       \* its blocks
    size,       \* its length against the target's
    synced,     \* whether its contents are all on disk
    out,        \* the file at the output path
    outSynced,  \* whether that file's contents are all on disk
    aborting,   \* the abort flag
    result,     \* what the last call returned
    run         \* the current run of the program

matchVars == <<known, pending, chunks>>
passVars  == <<ranges, cur, stop, got>>
fileVars  == <<exists, data, size, synced>>
outVars   == <<out, outSynced>>
vars == <<pc, matchVars, passVars, refused, open, fileVars, outVars,
          aborting, result, run>>

Cell == {"hole", "target", "other"}   \* "hole" reads as zeros
Under == 0   \* shorter than the target
Exact == 1
Over  == 2   \* longer than the target
Sizes == {Under, Exact, Over}

Outcomes == {"none", "ok", "nothing", "io", "aborted", "transient",
             "permanent", "nourl", "incomplete", "mismatch", "done"}

ScanTops   == {"seed", "self"}
ScanWrites == {"seedWrite", "selfWrite"}
Passing    == {"pass", "body", "blockWrite", "tailWrite", "headWrite"}
Completing == {"ensure", "cut", "sha", "sync", "perms", "rename"}
Busy       == ScanTops \cup ScanWrites \cup Passing \cup Completing \cup {"drop"}
Ended      == {"gone", "dead"}

ControlOK ==
    /\ pc \in Busy \cup Ended \cup {"idle"}
    /\ aborting \in BOOLEAN
    /\ result \in Outcomes
    /\ run \in Nat

MatchOK ==
    /\ known \subseteq Blocks
    /\ pending \subseteq known
    /\ chunks \in 0 .. MaxChunks

\* A block about to be written by a pass is one of the target's.
PassOK ==
    /\ ranges \subseteq Blocks \X (1 .. NBlocks)
    /\ cur \in 0 .. NBlocks
    /\ stop \in 0 .. NBlocks
    /\ got \in Nat
    /\ refused \subseteq Blocks
    /\ pc \in {"blockWrite", "tailWrite", "headWrite"} => cur \in Blocks

FileOK ==
    /\ open \in BOOLEAN /\ exists \in BOOLEAN /\ synced \in BOOLEAN
    /\ data \in [Blocks -> Cell]
    /\ size \in Sizes
    /\ out \in {"none", "old", "target", "corrupt"}
    /\ outSynced \in BOOLEAN

TypeOK == ControlOK /\ MatchOK /\ PassOK /\ FileOK

Empty == [b \in Blocks |-> "hole"]

-----------------------------------------------------------------------------
(* Starting. *)

\* A new assembly knows nothing and has no file open, but the temp path may
\* hold what an earlier run left there.
Init ==
    /\ pc = "idle" /\ result = "none" /\ run = 1
    /\ known = {} /\ pending = {} /\ chunks = 0
    /\ ranges = {} /\ cur = 0 /\ stop = 0 /\ got = 0 /\ refused = {}
    /\ open = FALSE /\ aborting = FALSE
    /\ \/ exists = FALSE /\ data = Empty /\ size = Under
       \/ StaleTemp /\ exists = TRUE /\ data \in [Blocks -> Cell] /\ size \in Sizes
    /\ synced = TRUE
    /\ out \in {"none", "old"} /\ outSynced = TRUE

\* The end of a call: its locals are gone.
Return(outcome) ==
    /\ pc' = "idle"
    /\ result' = outcome
    /\ pending' = {} /\ chunks' = 0
    /\ ranges' = {} /\ cur' = 0 /\ stop' = 0 /\ got' = 0

\* A call that returns at once, or a step that ends one without touching
\* anything else.
ReturnOnly(outcome) ==
    /\ Return(outcome)
    /\ UNCHANGED <<known, refused, open, fileVars, outVars, aborting, run>>

\* The write of a whole block, ensure_file included: a scan writes the padded
\* block, which runs past the end of the target when the last block is short.
SizeWith(b, padded) ==
    IF b # Last THEN size
    ELSE IF padded /\ Partial THEN Over
    ELSE IF size < Exact THEN Exact ELSE size

WriteBlock(b, padded) ==
    /\ open' = TRUE /\ exists' = TRUE /\ synced' = FALSE
    /\ data' = [data EXCEPT ![b] = "target"]
    /\ size' = SizeWith(b, padded)

\* The write of a block's first bytes only.  What followed them stays, so the
\* block is right only over zeros, as in a part of the file never written.
WriteHead(b) ==
    /\ open' = TRUE /\ exists' = TRUE /\ synced' = FALSE
    /\ data' = [data EXCEPT ![b] = IF @ = "other" THEN "other" ELSE "target"]
    /\ UNCHANGED size

\* ensure_file fails and changes nothing, or the write fails part way.
WriteFails(b) ==
    /\ IOFails
    /\ \/ UNCHANGED <<open, fileVars>>
       \/ /\ open' = TRUE /\ exists' = TRUE /\ synced' = FALSE
          /\ \E left \in {data[b], "other"} : data' = [data EXCEPT ![b] = left]
          /\ size' \in size .. SizeWith(b, TRUE)
    /\ Return("io")
    /\ UNCHANGED <<known, refused, outVars, aborting, run>>

-----------------------------------------------------------------------------
(* submit_source_file and submit_self_referential. *)

\* Opening the seed fails, or the seed is too short to hold a match, or the
\* scan begins.
SubmitSourceFile ==
    /\ pc = "idle"
    /\ \/ IOFails /\ ReturnOnly("io")
       \/ ReturnOnly("ok")
       \/ /\ pc' = "seed" /\ result' = "none" /\ chunks' \in 0 .. MaxChunks
          /\ UNCHANGED <<known, pending, passVars, refused, open, fileVars,
                         outVars, aborting, run>>

\* The temporary file is flushed, then measured: too short to scan, or not.
SubmitSelfReferential ==
    /\ pc = "idle"
    /\ \/ ~open /\ ReturnOnly("ok")
       \/ open /\ IOFails /\ ReturnOnly("io")
       \/ /\ open /\ synced' = TRUE
          /\ \/ Return("ok")
             \/ /\ pc' = "self" /\ result' = "none" /\ chunks' \in 0 .. MaxChunks
                /\ UNCHANGED <<pending, passVars>>
          /\ UNCHANGED <<known, refused, open, exists, data, size, outVars,
                         aborting, run>>

\* The top of the scan loop: the flag is polled, then the next chunk is read.
ScanStops ==
    /\ pc \in ScanTops
    /\ \/ aborting /\ ReturnOnly("aborted")
       \/ ~aborting /\ IOFails /\ ReturnOnly("io")
       \/ ~aborting /\ chunks = 0 /\ ReturnOnly("ok")

\* Mistake: the next chunk is read from where the last one was.
ScanChunkAgain ==
    /\ pc \in ScanTops
    /\ ~aborting
    /\ chunks > 0
    /\ \E found \in SUBSET (Blocks \ known) :
        /\ known' = known \cup found
        /\ pending' = found
    /\ pc' = IF pc = "seed" THEN "seedWrite" ELSE "selfWrite"
    /\ UNCHANGED <<chunks, passVars, refused, open, fileVars, outVars, aborting,
                   result, run>>

\* BlockMatcher::submit_source_data marks every block it finds known before
\* the first of them is written.
ScanChunk ==
    /\ pc \in ScanTops
    /\ ~aborting
    /\ chunks > 0
    /\ chunks' = chunks - 1
    /\ \E found \in SUBSET (Blocks \ known) :
        /\ known' = known \cup found
        /\ pending' = found
    /\ pc' = IF pc = "seed" THEN "seedWrite" ELSE "selfWrite"
    /\ UNCHANGED <<passVars, refused, open, fileVars, outVars, aborting,
                   result, run>>

ScanWrite ==
    /\ pc \in ScanWrites
    /\ \E b \in pending :
        /\ WriteBlock(b, TRUE)
        /\ pending' = pending \ {b}
    /\ UNCHANGED <<pc, known, chunks, passVars, refused, outVars, aborting,
                   result, run>>

\* The blocks of the chunk after the one that failed are not written either.
ScanWriteFails ==
    /\ pc \in ScanWrites
    /\ \E b \in pending : WriteFails(b)

\* Mistake: the writing loop leaves early.
ScanChunkLeft ==
    /\ pc \in ScanWrites
    /\ pc' = IF pc = "seedWrite" THEN "seed" ELSE "self"
    /\ UNCHANGED <<matchVars, passVars, refused, open, fileVars, outVars,
                   aborting, result, run>>

ScanChunkDone ==
    /\ pc \in ScanWrites
    /\ pending = {}
    /\ pc' = IF pc = "seedWrite" THEN "seed" ELSE "self"
    /\ UNCHANGED <<matchVars, passVars, refused, open, fileVars, outVars,
                   aborting, result, run>>

-----------------------------------------------------------------------------
(* download_missing_blocks. *)

DownloadMissingBlocks ==
    /\ pc = "idle"
    /\ \/ ~HasUrl /\ ReturnOnly("nourl")
       \/ HasUrl /\ known = Blocks /\ ReturnOnly("nothing")
       \/ /\ HasUrl /\ known # Blocks
          /\ pc' = "pass" /\ result' = "none"
          /\ ranges' = Requests(NBlocks, Blocks \ known, Gap)
          /\ refused' = {}
          /\ UNCHANGED <<matchVars, cur, stop, got, open, fileVars, outVars,
                         aborting, run>>

\* The flag is polled before each request and before each read of a body.
PassAborts ==
    /\ pc \in {"pass", "body"}
    /\ aborting
    /\ ReturnOnly("aborted")

\* Mistake: the last range is popped first.
OpenLastRange ==
    /\ pc = "pass"
    /\ ~aborting
    /\ \E r \in ranges :
        /\ \A q \in ranges : q[1] <= r[1]
        /\ ranges' = ranges \ {r}
        /\ cur' = r[1]
        /\ stop' = r[2]
    /\ pc' = "body"
    /\ UNCHANGED <<matchVars, got, refused, open, fileVars, outVars, aborting,
                   result, run>>

\* The ranges are requested in ascending order.
OpenRange ==
    /\ pc = "pass"
    /\ ~aborting
    /\ \E r \in ranges :
        /\ \A q \in ranges : r[1] <= q[1]
        /\ ranges' = ranges \ {r}
        /\ cur' = r[1]
        /\ stop' = r[2]
    /\ pc' = "body"
    /\ UNCHANGED <<matchVars, got, refused, open, fileVars, outVars, aborting,
                   result, run>>

\* A refused connection or a busy server may answer later; a missing file or
\* an ignored Range header never will.
OpenRangeFails ==
    /\ pc = "pass"
    /\ ~aborting
    /\ ranges # {}
    /\ \E outcome \in {"transient", "permanent"} : ReturnOnly(outcome)

\* Mistake: blocks are counted up with no regard for where the range ends.
AnyBuffer == pc = "body"

\* A whole block's worth of bytes is in the buffer.  A short last block never
\* fills it and is left to the end of the body.
BlockInBuffer ==
    /\ pc = "body"
    /\ cur < stop
    /\ ~(cur = Last /\ Partial)

\* A known block is passed over, and so is one that fails its checksum.
SkipBlock ==
    /\ BlockInBuffer
    /\ refused' = IF cur \in known THEN refused ELSE refused \cup {cur}
    /\ cur' = cur + 1
    /\ UNCHANGED <<pc, matchVars, ranges, stop, got, open, fileVars, outVars,
                   aborting, result, run>>

\* submit_blocks verifies a block and marks it known; only then is it written.
AcceptBlock ==
    /\ BlockInBuffer
    /\ cur \notin known
    /\ known' = known \cup {cur}
    /\ pc' = "blockWrite"
    /\ UNCHANGED <<pending, chunks, passVars, refused, open, fileVars, outVars,
                   aborting, result, run>>

BlockWrite ==
    /\ pc = "blockWrite"
    /\ WriteBlock(cur, FALSE)
    /\ got' = got + 1
    /\ cur' = cur + 1
    /\ pc' = "body"
    /\ UNCHANGED <<matchVars, ranges, stop, refused, outVars, aborting, result,
                   run>>

\* read() fails: always a transient error.  Once the range has been read to its
\* end, HttpRangeReader discards what else goes wrong and reports the end.
BodyFails ==
    /\ pc = "body"
    /\ ~aborting
    /\ cur < stop
    /\ ReturnOnly("transient")

\* The body ends, and what it leaves in the buffer is nothing, part of a known
\* block, or part of one refused once padded.  It ends at the end of its range,
\* where a short last block is left over, or before that if the server stops.
BodyEnds ==
    /\ pc = "body"
    /\ ~aborting
    /\ \/ (cur = stop \/ ShortBodies) /\ UNCHANGED refused
       \/ cur < stop /\ cur = Last /\ Partial /\ refused' = refused \cup ({cur} \ known)
    /\ pc' = "pass"
    /\ UNCHANGED <<matchVars, passVars, open, fileVars, outVars, aborting,
                   result, run>>

\* Padded with zeros, what arrived of the block matches its checksum: it is a
\* short last block, or all that is missing of the block is zeros.
AcceptTail ==
    /\ pc = "body"
    /\ ~aborting
    /\ cur < stop
    /\ cur \notin known
    /\ \/ cur = Last /\ Partial /\ pc' = "tailWrite"
       \/ ShortBodies /\ cur \in ZeroTail /\ pc' = "headWrite"
    /\ known' = known \cup {cur}
    /\ UNCHANGED <<pending, chunks, passVars, refused, open, fileVars, outVars,
                   aborting, result, run>>

\* Only the bytes that arrived are written, not the padding.
TailWrite ==
    /\ pc \in {"tailWrite", "headWrite"}
    /\ IF pc = "tailWrite" THEN WriteBlock(cur, FALSE) ELSE WriteHead(cur)
    /\ got' = got + 1
    /\ pc' = "pass"
    /\ UNCHANGED <<matchVars, ranges, cur, stop, refused, outVars, aborting,
                   result, run>>

PassWriteFails ==
    /\ pc \in {"blockWrite", "tailWrite", "headWrite"}
    /\ WriteFails(cur)

\* Mistake: a pass stops at the first range that adds nothing.
PassStopsEarly ==
    /\ pc = "pass"
    /\ ReturnOnly(IF got = 0 THEN "nothing" ELSE "ok")

PassDone ==
    /\ pc = "pass"
    /\ ranges = {}
    /\ ReturnOnly(IF got = 0 THEN "nothing" ELSE "ok")

-----------------------------------------------------------------------------
(* complete, abort and Drop. *)

\* complete() consumes the assembly, so every way out of it goes through Drop.
DropWith(outcome) ==
    /\ pc' = "drop"
    /\ result' = outcome
    /\ UNCHANGED <<matchVars, passVars, refused, open, fileVars, outVars,
                   aborting, run>>

\* Mistake: the file is completed without asking whether it is complete.
CompleteAnyway ==
    /\ pc = "idle"
    /\ pc' = "ensure" /\ result' = "none"
    /\ UNCHANGED <<matchVars, passVars, refused, open, fileVars, outVars, aborting,
                   run>>

Complete ==
    /\ pc = "idle"
    /\ \/ known # Blocks /\ DropWith("incomplete")
       \/ /\ known = Blocks
          /\ pc' = "ensure" /\ result' = "none"
          /\ UNCHANGED <<matchVars, passVars, refused, open, fileVars, outVars,
                         aborting, run>>

\* abort(), or the assembly going out of scope.
Abandon ==
    /\ pc = "idle"
    /\ DropWith(result)

CompleteFails ==
    /\ pc \in Completing
    /\ IOFails
    /\ pc = "ensure" => ~open
    /\ pc = "sha" => HasSha
    /\ pc = "perms" => out # "none"
    /\ DropWith("io")

EnsureFile ==
    /\ pc = "ensure"
    /\ open' = TRUE /\ exists' = TRUE
    /\ synced' = (synced /\ exists)
    /\ pc' = "cut"
    /\ UNCHANGED <<matchVars, passVars, refused, data, size, outVars, aborting,
                   result, run>>

\* Mistake: the padding of the last block stays.
KeepLen ==
    /\ pc = "cut"
    /\ pc' = "sha"
    /\ UNCHANGED <<matchVars, passVars, refused, open, fileVars, outVars, aborting,
                   result, run>>

\* set_len drops what runs past the target and fills a short file with zeros.
SetLen ==
    /\ pc = "cut"
    /\ size' = Exact /\ synced' = FALSE
    /\ pc' = "sha"
    /\ UNCHANGED <<matchVars, passVars, refused, open, exists, data, outVars,
                   aborting, result, run>>

Whole == size = Exact /\ \A b \in Blocks : data[b] = "target"

\* Mistake: the digest is computed and never compared.
IgnoreSha ==
    /\ pc = "sha"
    /\ pc' = "sync"
    /\ UNCHANGED <<matchVars, passVars, refused, open, fileVars, outVars,
                   aborting, result, run>>

CheckSha ==
    /\ pc = "sha"
    /\ \/ HasSha /\ ~Whole /\ DropWith("mismatch")
       \/ /\ HasSha => Whole
          /\ pc' = "sync"
          /\ UNCHANGED <<matchVars, passVars, refused, open, fileVars, outVars,
                         aborting, result, run>>

\* Mistake: the file is closed without being flushed.
NoSync ==
    /\ pc = "sync"
    /\ open' = FALSE
    /\ pc' = "perms"
    /\ UNCHANGED <<matchVars, passVars, refused, fileVars, outVars, aborting,
                   result, run>>

SyncAll ==
    /\ pc = "sync"
    /\ synced' = TRUE
    /\ open' = FALSE
    /\ pc' = "perms"
    /\ UNCHANGED <<matchVars, passVars, refused, exists, data, size, outVars,
                   aborting, result, run>>

\* Permissions carry over from the file about to be replaced, if there is one;
\* failing to read them is not an error, failing to set them is.
CarryPermissions ==
    /\ pc = "perms"
    /\ pc' = "rename"
    /\ UNCHANGED <<matchVars, passVars, refused, open, fileVars, outVars,
                   aborting, result, run>>

NoTempFile == exists' = FALSE /\ data' = Empty /\ size' = Under /\ synced' = TRUE

Rename ==
    /\ pc = "rename"
    /\ out' = IF Whole THEN "target" ELSE "corrupt"
    /\ outSynced' = synced
    /\ NoTempFile
    /\ pc' = "drop" /\ result' = "done"
    /\ UNCHANGED <<matchVars, passVars, refused, open, aborting, run>>

\* Mistake: dropping the assembly closes the file and no more.
CloseOnly ==
    /\ pc = "drop"
    /\ open' = FALSE
    /\ pc' = "gone"
    /\ UNCHANGED <<matchVars, passVars, refused, fileVars, outVars, aborting,
                   result, run>>

\* Drop removes the temp path, or finds nothing there after the rename.
DropAssembly ==
    /\ pc = "drop"
    /\ NoTempFile
    /\ open' = FALSE
    /\ pc' = "gone"
    /\ UNCHANGED <<matchVars, passVars, refused, outVars, aborting, result, run>>

-----------------------------------------------------------------------------
(* Around the calls: the abort flag, the operating system, the next run. *)

\* Another thread raises the flag whenever it likes.
RaiseAbort ==
    /\ pc \notin Ended
    /\ ~aborting
    /\ aborting' = TRUE
    /\ UNCHANGED <<pc, matchVars, passVars, refused, open, fileVars, outVars,
                   result, run>>

\* The caller lowers it before it calls again.
LowerAbort ==
    /\ pc = "idle"
    /\ aborting
    /\ aborting' = FALSE
    /\ UNCHANGED <<pc, matchVars, passVars, refused, open, fileVars, outVars,
                   result, run>>

\* The process dies without running Drop; files keep what was written.
Kill ==
    /\ pc \notin Ended
    /\ pc' = "dead"
    /\ UNCHANGED <<matchVars, passVars, refused, open, fileVars, outVars,
                   aborting, result, run>>

\* The machine stops.  A file not flushed may have lost any of its blocks,
\* or, if it was new, be gone.  (A rename that is itself undone leaves what
\* power lost just before it leaves.)
PowerLoss ==
    /\ pc # "dead"
    /\ pc' = "dead"
    /\ synced' = TRUE
    /\ \/ synced /\ UNCHANGED <<exists, data, size>>
       \/ ~synced /\ exists' = FALSE /\ data' = Empty /\ size' = Under
       \/ /\ ~synced /\ UNCHANGED exists
          /\ data' \in {d \in [Blocks -> Cell] :
                        \A b \in Blocks : d[b] \in {data[b], "hole", "other"}}
          /\ size' \in Sizes
    /\ outSynced' = TRUE
    /\ out' \in IF outSynced THEN {out} ELSE {out, "corrupt"}
    /\ UNCHANGED <<matchVars, passVars, refused, open, aborting, result, run>>

\* The program is run again: a fresh assembly on the same output path.
Restart ==
    /\ pc \in Ended
    /\ run < MaxRuns
    /\ run' = run + 1
    /\ pc' = "idle" /\ result' = "none"
    /\ known' = {} /\ pending' = {} /\ chunks' = 0
    /\ ranges' = {} /\ cur' = 0 /\ stop' = 0 /\ got' = 0 /\ refused' = {}
    /\ open' = FALSE /\ aborting' = FALSE
    /\ UNCHANGED <<fileVars, outVars>>

-----------------------------------------------------------------------------
Call == \/ SubmitSourceFile \/ SubmitSelfReferential
        \/ DownloadMissingBlocks \/ Complete \/ Abandon

Scan == ScanStops \/ ScanChunk \/ ScanWrite \/ ScanWriteFails \/ ScanChunkDone

Pass == \/ PassAborts \/ OpenRange \/ OpenRangeFails \/ SkipBlock
        \/ AcceptBlock \/ BlockWrite \/ BodyFails \/ BodyEnds
        \/ AcceptTail \/ TailWrite \/ PassWriteFails \/ PassDone

Finish == \/ CompleteFails \/ EnsureFile \/ SetLen \/ CheckSha \/ SyncAll
          \/ CarryPermissions \/ Rename \/ DropAssembly

Step == Scan \/ Pass \/ Finish

Environment == RaiseAbort \/ LowerAbort \/ Kill \/ PowerLoss \/ Restart

Next == Call \/ Step \/ Environment

Spec == Init /\ [][Next]_vars

\* Code that runs goes on running, and a server that has taken a request goes
\* on sending or lets the connection fail.
FairSpec == Spec /\ WF_vars(Step)
-----------------------------------------------------------------------------
(* Properties. *)

\* The transfer is under way: neither over nor about to drop its file.
Active == pc \notin Ended \cup {"drop"}

\* A block marked known whose write has yet to be made.
InFlight ==
    pending \cup
    IF pc \in {"blockWrite", "tailWrite", "headWrite"} THEN {cur} ELSE {}

\* Every block that counts as known is in the temporary file, apart from those
\* being written: blocks are marked first and written after, and nothing reads
\* them back before complete().
KnownIsWritten == Active => \A b \in known \ InFlight : data[b] = "target"

\* Whatever fails, and whenever the machine stops, the output path holds what
\* it held before the transfer or the whole target: complete() checks, cuts
\* and flushes the file before it renames it.
OutputOldOrWhole == out # "corrupt"

\* What complete() can rely on at each of its steps: it only runs with every
\* block known, the file has the target's length once cut and is flushed before
\* it is renamed.  No block waits to be written outside a scan's writing loop.
LifeCycle ==
    /\ pc \in Completing => known = Blocks
    /\ pc \in {"sha", "sync", "perms", "rename"} => size = Exact
    /\ pc \in {"perms", "rename"} => synced
    /\ pc \notin ScanWrites \cup Ended => pending = {}
    /\ outSynced
    /\ pc = "gone" => ~exists

\* What complete() has made sure of by the time it flushes the file.
Assured == /\ out # "corrupt"
           /\ pc \in {"sync", "perms", "rename"} => Whole

\* However a transfer ends short of being killed, its temporary file is gone:
\* every error path reaches Drop.
NothingLeftBehind == pc = "gone" => ~exists

\* A download pass asks for every missing block, and for none twice: a missing
\* block is in a range still to be requested or below the end of the last one
\* requested, and what is still to be requested is above that end.
PassCoversMissing ==
    pc \in Passing =>
        /\ \A b \in Blocks \ known :
               b < stop \/ \E r \in ranges : r[1] <= b /\ b < r[2]
        /\ \A r \in ranges : stop <= r[1]

\* Blocks are counted and the output replaced only as the abstract transfer
\* allows: complete() replaces the output by the target once every block is
\* known, and nothing else touches it.
Abstract == INSTANCE Transfer WITH have <- known, output <- out, active <- Active
RefinesTransfer == Abstract!TSpec

\* Every call returns: each loop of a scan or a download pass ends.
CallsReturn == (pc \in Busy) ~> (pc \in Ended \cup {"idle"})
==============================================================================
