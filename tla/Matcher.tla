-------------------------------- MODULE Matcher --------------------------------
(***************************************************************************)
(* BlockMatcher (src/src/matcher.rs) scanning one file, chunk by chunk as  *)
(* submit_source_file and submit_self_referential read it                  *)
(* (src/src/assembly.rs): the index of target blocks, the windows that     *)
(* roll over the data, what is recorded as found, its copy into the        *)
(* temporary file and its removal from the index.                          *)
(*                                                                         *)
(* Data is real here, in small: bytes from a small alphabet, a sum of a    *)
(* few bits wherever the code has 16.  A block stands for its own MD4.     *)
(* An input file does not change while it is scanned; the temporary file,  *)
(* scanned for copies of what it holds, is written to by that scan.        *)
(* The threads of a chunk only read and their finds are joined in order,   *)
(* so their segments are scanned one after the other.                      *)
(***************************************************************************)
EXTENDS Integers, Sequences, FiniteSets, SequencesExt, FiniteSetsExt

CONSTANTS
    NBlocks,        \* blocks in the target
    Cases,          \* bound: the shapes of target and seed tried, as records
    ChunkSize,      \* STREAM_CHUNK_SIZE
    MinPerThread,   \* min_per_thread
    MaxThreads,     \* bound: threads the machine may have
    MinHashBits,    \* 5 in the code
    BithashBits     \* BITHASH_BITS

\* A case: the block size and its logarithm, seq_matches, the bits of a sum,
\* how many of them are stored of the a and the b sum, the bytes used, how many
\* of them the input has, and whether it is the temporary file that is scanned.
ASSUME MatcherAssumption ==
    /\ NBlocks \in Nat \ {0}
    /\ ChunkSize \in Nat /\ MinPerThread \in Nat \ {0} /\ MaxThreads \in Nat \ {0}
    /\ MinHashBits \in Nat /\ BithashBits \in Nat
    /\ \A c \in Cases :
        /\ c.blockshift \in Nat /\ c.blocksize = 2 ^ c.blockshift
        /\ c.width \in Nat /\ c.length \in Nat
        /\ c.seq \in {1, 2}
        /\ c.abits \in 0 .. c.width /\ c.bbits \in 0 .. c.width
        /\ c.self \in BOOLEAN
        /\ c.bytes \subseteq Nat /\ 0 \in c.bytes

VARIABLES
    case,       \* the case at hand
    target,     \* the target's blocks, the last one padded
    sums,       \* their rolling checksums, as stored
    input,      \* the input file
    file,       \* the temporary file
    had,        \* history: the blocks known before the scan
    known,      \* known_blocks
    hash,       \* hash_table and hash_next
    at,         \* where the scan is
    size,       \* file_size, as measured when the scan starts
    offset,     \* file_offset
    report,     \* history: what was last reported, of how much
    chunk,      \* the buffer: its first offset in the file, where what was
                \* read ends, and where the buffer does
    segments,   \* parts of the chunk left to scan, one for each thread
    x,          \* offset of the window in the file: base_offset + x
    limit,      \* where the segment's windows end
    r0, r1,     \* rolling checksums of the window and of the one behind it
    hint,       \* next_match_id
    found,      \* matched_blocks, of every thread so far
    jumps       \* history: the stretches matched and passed over

fixed    == <<case, target, sums, input, had>>
readVars == <<size, offset, chunk, report>>
scanVars == <<segments, x, limit, r0, r1, hint>>
vars == <<fixed, file, known, hash, at, readVars, scanVars, found, jumps>>

Blocks == 0 .. NBlocks - 1
Empty == NBlocks     \* HASH_EMPTY
NoHint == NBlocks

BlockSize == case.blocksize
Context == case.blocksize * case.seq
Least(a, b) == IF a < b THEN a ELSE b
Above(a, b) == IF a > b THEN a - b ELSE 0    \* saturating_sub

-----------------------------------------------------------------------------
(* Checksums. *)

Wrap(width, n) == n % 2 ^ width
Word(n) == Wrap(case.width, n)

\* The sums of a window, from scratch.
CalcRsum(width, window) ==
    FoldLeft(LAMBDA r, byte : [a |-> Wrap(width, r.a + byte),
                               b |-> Wrap(width, r.b + r.a + byte)],
             [a |-> 0, b |-> 0], window)
CalcRsumBlock(window) == CalcRsum(case.width, window)

\* Mistake: the shift wraps around at the width of the sum.
ShiftedOutWraps(byte) == Word(byte * 2 ^ (case.blockshift % case.width))

\* What a byte leaving the window counts for in the b sum.
ShiftedOut(byte) ==
    IF case.blockshift < case.width THEN Word(byte * 2 ^ case.blockshift) ELSE 0

\* One byte leaves the window and one enters.
Roll(r, leaving, entering) ==
    LET a == Word(r.a + entering - leaving)
    IN  [a |-> a, b |-> Word(r.b + a - ShiftedOut(leaving))]

Masked(a) == a % 2 ^ case.abits

\* The checksum stored for a block: its last bits, those of the b sum.
Stored(block) ==
    LET r == CalcRsumBlock(block)
    IN  [a |-> Masked(r.a), b |-> r.b % 2 ^ case.bbits]

RsumMatch(b, r) == sums[b].a = Masked(r.a) /\ sums[b].b = r.b

-----------------------------------------------------------------------------
(* The index. *)

AvailBits ==
    IF case.seq > 1 THEN 2 * Least(case.abits + case.bbits, case.width)
    ELSE case.abits + case.bbits

HashBits ==
    CHOOSE k \in 0 .. AvailBits :
        /\ k <= MinHashBits \/ 2 ^ (k - 1) <= NBlocks
        /\ \A m \in k + 1 .. AvailBits : ~(m <= MinHashBits \/ 2 ^ (m - 1) <= NBlocks)

TotalBits == Least(HashBits + BithashBits, AvailBits)

\* With one byte stored and seq_matches 1, avail_bits - 16 wraps around, where
\* it does not panic, and the shift saturates at 0.
HashShift ==
    IF case.seq > 1 THEN Above(TotalBits, AvailBits \div 2)
    ELSE IF AvailBits < case.width THEN 0
    ELSE Above(TotalBits, AvailBits - case.width)

Bit(n, k) == (n \div 2 ^ k) % 2

\* The exclusive or of a word and one shifted by at most the bits of a hash.
Xor(m, n) == SumSet({2 ^ k : k \in {k \in 0 .. 3 * case.width : Bit(m, k) # Bit(n, k)}})

Combine(first, second) == Xor(first, second * 2 ^ HashShift)

BlockHash(b) ==
    Combine(sums[b].b,
            IF case.seq = 1 THEN sums[b].a
            ELSE IF b + 1 \in Blocks THEN sums[b + 1].b ELSE 0)

WindowHash == Combine(r0.b, IF case.seq = 1 THEN Masked(r0.a) ELSE r1.b)

Bucket(h) == h % 2 ^ HashBits
Buckets == 0 .. 2 ^ HashBits - 1

\* The bit filter: set when the index is built and never cleared.
InBithash(h) == \E b \in Blocks : BlockHash(b) % 2 ^ TotalBits = h % 2 ^ TotalBits

\* The chain of a bucket is walked from its head; each block adds something.
Walk(table, bucket, adds) ==
    LET from[b \in Blocks \cup {Empty}] ==
            IF b = Empty THEN <<>> ELSE adds[b] \o from[table.next[b]]
    IN  from[table.head[bucket]]

Chain(table, bucket) == Walk(table, bucket, [b \in Blocks |-> <<b>>])

Insert(table, b) ==
    LET bucket == Bucket(BlockHash(b))
    IN  [head |-> [table.head EXCEPT ![bucket] = b],
         next |-> [table.next EXCEPT ![b] = table.head[bucket]]]

\* Blocks are put in from the last to the first.
NewTable ==
    FoldRight(LAMBDA b, table : Insert(table, b),
              [i \in 1 .. NBlocks |-> i - 1],
              [head |-> [k \in Buckets |-> Empty], next |-> [b \in Blocks |-> Empty]])

\* Mistake: what stands before the block in its chain is dropped with it.
CutChain(table, b) ==
    LET bucket == Bucket(BlockHash(b))
    IN  IF ~Contains(Chain(table, bucket), b) THEN table
        ELSE [table EXCEPT !.head[bucket] = table.next[b]]

\* The block before it in the chain, or the head, is made to skip it.
RemoveBlockFromHash(table, b) ==
    LET bucket == Bucket(BlockHash(b))
        chain  == Chain(table, bucket)
        place  == SelectInSeq(chain, LAMBDA c : c = b)
    IN  CASE place = 0 -> table
          [] place = 1 -> [table EXCEPT !.head[bucket] = table.next[b]]
          [] OTHER     -> [table EXCEPT !.next[chain[place - 1]] = table.next[b]]

-----------------------------------------------------------------------------
(* Files. *)

\* The file scanned, and n bytes of it from offset i, or of what is read as
\* ending at `end`: zeros follow.
Source == IF case.self THEN file ELSE input
BytesOf(data, i, n, end) ==
    [k \in 1 .. n |-> IF i + k <= Least(Len(data), end) THEN data[i + k] ELSE 0]

\* A block in the buffer, and as it is in the file.
Byte(i) == BytesOf(Source, i, 1, chunk.read)[1]
Window(i) == BytesOf(Source, i, BlockSize, chunk.read)
InSource(i) == BytesOf(Source, i, BlockSize, Len(Source))

\* A block written into the temporary file, which grows to hold it.
Write(data, b, block) ==
    LET end == (b + 1) * BlockSize
    IN  [i \in 1 .. IF Len(data) > end THEN Len(data) ELSE end |->
            IF (i - 1) \div BlockSize = b THEN block[((i - 1) % BlockSize) + 1]
            ELSE IF i <= Len(data) THEN data[i] ELSE 0]

\* The temporary file is scanned once blocks have been found and written to it.
Init ==
    /\ case \in Cases
    /\ target \in [Blocks -> [1 .. case.blocksize -> case.bytes]]
    /\ sums = [b \in Blocks |-> Stored(target[b])]
    /\ input \in [1 .. case.length -> case.bytes]
    /\ had \in IF case.self THEN (SUBSET Blocks) \ {{}} ELSE {{}}
    /\ known = had
    /\ file = FoldSet(LAMBDA b, data : Write(data, b, target[b]), <<>>, had)
    /\ hash = FoldSet(LAMBDA b, table : RemoveBlockFromHash(table, b), NewTable, had)
    /\ at = "idle" /\ size = 0 /\ offset = 0 /\ report = <<0, 0>>
    /\ chunk = [first |-> 0, read |-> 0, end |-> 0]
    /\ segments = <<>> /\ x = 0 /\ limit = 0
    /\ r0 = [a |-> 0, b |-> 0] /\ r1 = r0 /\ hint = NoHint
    /\ found = <<>> /\ jumps = {}

\* A downloaded block that verifies becomes known and is written, and stays in
\* the index.  Bound: once.
SubmitBlocks ==
    /\ at = "idle" /\ known = {}
    /\ \E b \in Blocks : known' = {b} /\ file' = Write(file, b, target[b])
    /\ UNCHANGED <<fixed, hash, at, readVars, scanVars, found, jumps>>

\* submit_source_file or submit_self_referential is called.
BeginScan ==
    /\ at = "idle"
    /\ size' = Len(Source)
    /\ at' = IF Len(Source) < Context THEN "done" ELSE "read"
    /\ UNCHANGED <<fixed, file, known, hash, offset, chunk, report, scanVars, found, jumps>>

\* The file is read to where it ends now, be it past the size measured.
ReadLen == IF ChunkSize > 2 * Context THEN ChunkSize ELSE 2 * Context
BytesRead == Least(ReadLen, Above(Len(Source), offset))

\* Mistake: a thread's part ends where the next one's begins.
NoOverlap(threads, len) ==
    LET part == (len - Context) \div threads
    IN  [i \in 1 .. threads |->
            <<(i - 1) * part, IF i = threads THEN len ELSE i * part>>]

\* The parts of a chunk of len bytes, each with the bytes its last windows need.
Parts(threads, len) ==
    LET part == (len - Context) \div threads
    IN  [i \in 1 .. threads |->
            <<(i - 1) * part, IF i = threads THEN len ELSE i * part + Context>>]

Threads(len) ==
    LET scannable == len - Context
    IN  {IF n > 1 /\ scannable >= 2 * MinPerThread
         THEN Least(n, scannable \div MinPerThread) ELSE 1 : n \in 1 .. MaxThreads}

\* A chunk overlaps the one before it and runs on into the next by as much as
\* a match may need.
ReadChunk ==
    /\ at = "read"
    /\ BytesRead > 0
    /\ LET first == Above(offset, Context)
           data  == offset + BytesRead
           end   == data + Context
           read  == IF data < size THEN Least(size, end) ELSE data
       IN  /\ chunk' = [first |-> first, read |-> read, end |-> end]
           /\ \E n \in Threads(end - first) : segments' = Parts(n, end - first)
    /\ at' = "segment"
    /\ UNCHANGED <<fixed, file, known, hash, size, offset, report, x, limit, r0, r1, hint,
                   found, jumps>>

ReadNothing ==
    /\ at = "read"
    /\ BytesRead = 0
    /\ at' = "done"
    /\ UNCHANGED <<fixed, file, known, hash, readVars, scanVars, found, jumps>>

-----------------------------------------------------------------------------
(* scan_chunk. *)

NoSum == [a |-> 0, b |-> 0]
Following(i) == IF case.seq > 1 THEN CalcRsumBlock(Window(i + BlockSize)) ELSE NoSum

\* Windows are tested up to the context at the end of the segment.
BeginSegment ==
    /\ at = "segment" /\ segments # <<>>
    /\ LET s == Head(segments)
       IN  /\ x' = chunk.first + s[1]
           /\ limit' = chunk.first + s[2] - Context
    /\ r0' = CalcRsumBlock(Window(x')) /\ r1' = Following(x')
    /\ hint' = NoHint
    /\ segments' = Tail(segments)
    /\ at' = "scan"
    /\ UNCHANGED <<fixed, file, known, hash, readVars, found, jumps>>

\* A match must continue into the block after it, where there is one.
Paired(b) == case.seq > 1 /\ b + 1 \in Blocks

\* Mistake: the block after it is never looked at.
MatchesAlone(b) == RsumMatch(b, r0) /\ Window(x) = target[b]

Matches(b) ==
    /\ RsumMatch(b, r0) /\ Window(x) = target[b]
    /\ Paired(b) => RsumMatch(b + 1, r1) /\ Window(x + BlockSize) = target[b + 1]

\* What a block that matches adds to matched_blocks: itself with its offset, and
\* the block after it with its own.
Sighting(b) ==
    IF Paired(b) THEN << <<b, x>>, <<b + 1, x + BlockSize>> >> ELSE << <<b, x>> >>

\* What the blocks of the window's chain add, save one already matched.
MatchChain(matched) ==
    IF ~InBithash(WindowHash) THEN <<>>
    ELSE Walk(hash, Bucket(WindowHash),
              [b \in Blocks |-> IF b # matched /\ Matches(b) THEN Sighting(b) ELSE <<>>])

NextBlock(b) == IF b \in Blocks THEN b ELSE NoHint

\* The windows move past the n blocks matched.
Jump(n) ==
    /\ x' = x + n * BlockSize
    /\ jumps' = jumps \cup {<<x, x'>>}
    /\ IF x' >= limit THEN UNCHANGED <<r0, r1>>
       ELSE /\ r0' = IF case.seq > 1 /\ n = 1 THEN r1 ELSE CalcRsumBlock(Window(x'))
            /\ r1' = Following(x')

HintHolds == hint \in Blocks /\ RsumMatch(hint, r0) /\ Window(x) = target[hint]

\* The block expected here is here; the chain may hold other copies of it.
ContinueMatch ==
    /\ at = "scan" /\ x < limit
    /\ HintHolds
    /\ found' = Append(found, <<hint, x>>) \o MatchChain(hint)
    /\ hint' = NextBlock(hint + 1)
    /\ Jump(1)
    /\ UNCHANGED <<fixed, file, known, hash, at, readVars, segments, limit>>

MatchHere ==
    /\ at = "scan" /\ x < limit
    /\ ~HintHolds
    /\ LET here  == MatchChain(Empty)
           first == here[1][1]
       IN  /\ here # <<>>
           /\ found' = found \o here
           /\ IF Paired(first) THEN Jump(2) /\ hint' = NextBlock(first + 2)
                               ELSE Jump(1) /\ hint' = NoHint
    /\ UNCHANGED <<fixed, file, known, hash, at, readVars, segments, limit>>

Slide ==
    /\ at = "scan" /\ x < limit
    /\ ~HintHolds
    /\ MatchChain(Empty) = <<>>
    /\ hint' = NoHint
    /\ r0' = Roll(r0, Byte(x), Byte(x + BlockSize))
    /\ r1' = IF case.seq > 1
             THEN Roll(r1, Byte(x + BlockSize), Byte(x + 2 * BlockSize)) ELSE r1
    /\ x' = x + 1
    /\ UNCHANGED <<fixed, file, known, hash, at, readVars, segments, limit, found, jumps>>

SegmentDone ==
    /\ at = "scan" /\ x >= limit
    /\ at' = "segment"
    /\ UNCHANGED <<fixed, file, known, hash, readVars, scanVars, found, jumps>>

\* Only the first sighting of a block still unknown counts.
TakeFound(state, match) ==
    IF match[1] \in state.known THEN state
    ELSE [known |-> state.known \cup {match[1]},
          hash  |-> RemoveBlockFromHash(state.hash, match[1]),
          new   |-> Append(state.new, match)]

Taken == FoldLeft(TakeFound, [known |-> known, hash |-> hash, new |-> <<>>], found)

\* Mistake: the offset in the file is taken for one in the buffer.
FileOffset(o) == o

\* Where in the buffer lies what was found at offset o of the file, and the block
\* the buffer holds there.
BufOffset(o) == Above(o, chunk.first)
BlockData(o) == Window(chunk.first + BufOffset(o))

\* Mistake: each is copied from the file, which the copies before it changed.
CopyFromFile(new) ==
    FoldLeft(LAMBDA data, match :
                Write(data, match[1],
                      BytesOf(IF case.self THEN data ELSE input, match[2], BlockSize,
                              chunk.read)),
             file, new)

\* Each is copied from the buffer to its place in the temporary file.
Copy(new) ==
    FoldLeft(LAMBDA data, match : Write(data, match[1], BlockData(match[2])), file, new)

\* Mistake: the chunk is reported, not the file up to it.
ReportChunk == <<BytesRead, size>>

Report == <<offset + BytesRead, size>>

\* The chunk is done: what was found becomes known, leaves the index and is
\* written, and a read that came short was the last one.
ChunkDone ==
    /\ at = "segment" /\ segments = <<>>
    /\ known' = Taken.known /\ hash' = Taken.hash /\ file' = Copy(Taken.new)
    /\ offset' = offset + BytesRead /\ report' = Report
    /\ at' = IF BytesRead < ReadLen THEN "done" ELSE "read"
    /\ found' = <<>>
    /\ UNCHANGED <<fixed, size, chunk, scanVars, jumps>>

Next == \/ SubmitBlocks \/ BeginScan \/ ReadChunk \/ ReadNothing
        \/ BeginSegment \/ ContinueMatch \/ MatchHere \/ Slide \/ SegmentDone
        \/ ChunkDone

Spec == Init /\ [][Next]_vars

-----------------------------------------------------------------------------
(* Properties. *)

\* What is reported found is there: each block recorded is the target's, and
\* lies inside the buffer it will be copied from, for every split of the file.
FoundIsThere ==
    \A i \in DOMAIN found :
        LET b == found[i][1]  o == found[i][2]
        IN  /\ Window(o) = target[b]
            /\ chunk.first <= o /\ o + BlockSize <= chunk.end

\* The rolling checksums are at every window what they would be computed from
\* scratch, after any mix of slides and jumps and at any width of the sums.
RollingIsFresh ==
    at = "scan" /\ x < limit =>
        /\ r0 = CalcRsumBlock(Window(x))
        /\ r1 = Following(x)

\* However many blocks have been unlinked, an unknown one can still be found:
\* it is in the chain of its bucket, once.
IndexHoldsUnknown ==
    \A b \in Blocks \ known :
        Cardinality({i \in DOMAIN Chain(hash, Bucket(BlockHash(b))) :
                     Chain(hash, Bucket(BlockHash(b)))[i] = b}) = 1

\* A block, alone with seq_matches 1 and otherwise with its neighbour behind
\* it (zeros for the last one), lies at offset o of the padded file.
Occurs(b, o) ==
    /\ InSource(o) = target[b]
    /\ case.seq > 1 =>
        InSource(o + BlockSize) = IF b + 1 \in Blocks THEN target[b + 1]
                                  ELSE [k \in 1 .. BlockSize |-> 0]

\* What a scan writes while it runs may come after or before it is read.
Untouched(o) ==
    case.self =>
        /\ o + Context <= size
        /\ \A i \in o .. o + Context - 1 : i \div BlockSize \notin known \ had

\* A scan tests every offset: when it is over, a block still unknown occurs
\* nowhere in the file but inside a stretch that matched other blocks.
NothingMissed ==
    at = "done" /\ size >= Context =>
        \A b \in Blocks \ known : \A o \in 0 .. size - 1 :
            Occurs(b, o) /\ Untouched(o) => \E j \in jumps : j[1] < o /\ o < j[2]

\* The temporary file holds the data of every known block, the scan of the
\* file itself included, which writes to what it reads.
KnownIsInFile ==
    \A b \in known : BytesOf(file, b * BlockSize, BlockSize, Len(file)) = target[b]

\* A scan reports more each time, and last that all of an input was scanned.
ReportsAscend == [][report' # report => report'[1] > report[1]]_vars
InputIsReportedWhole ==
    at = "done" /\ ~case.self /\ size >= Context => report = <<size, size>>

\* The last report of a scan is that all of the file was scanned.
LastReportIsWhole == at = "done" /\ size >= Context => report[1] = report[2]
==============================================================================
