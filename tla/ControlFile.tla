----------------------------- MODULE ControlFile -----------------------------
(***************************************************************************)
(* The control file (src/src/control.rs): generated and written by         *)
(* zsyncmake (src/src/bin/zsyncmake.rs), and parsed by the client from     *)
(* what zsyncmake left, or from what any server sends.                     *)
(*                                                                         *)
(* A header line is its key and its value; text that is only kept, such as *)
(* the Filename, is a line that changes nothing.  The header is counted in *)
(* lines, not in bytes: a line cut at the cap is one more line, of         *)
(* whatever key.  A record is the bytes it takes.  generate chooses hash   *)
(* lengths by a formula in floating point, here any within its clamps.     *)
(***************************************************************************)
EXTENDS Integers, Sequences

CONSTANTS
    MaxBlocksize,   \* MAX_BLOCKSIZE
    MaxHeader,      \* MAX_HEADER_BYTES, in lines
    MaxBlocks,      \* MAX_BLOCKS
    MaxPrealloc,    \* MAX_PREALLOC
    Lengths,        \* bound: lengths of a target
    HashTried       \* bound: hash lengths, as <<seq, rsum, checksum>>

ASSUME ControlAssumption ==
    /\ MaxBlocksize \in Nat \ {0} /\ MaxHeader \in Nat \ {0}
    /\ MaxBlocks \in Nat \ {0} /\ MaxPrealloc \in Nat \ {0}
    /\ Lengths \subseteq Nat /\ HashTried \subseteq Nat \X Nat \X Nat

VARIABLES
    at,         \* where zsyncmake, then the parser, is
    made,       \* what zsyncmake generated
    whole,      \* whether its file was written whole
    lines,      \* lines of that file not read yet
    body,       \* bytes of its records not read yet
    limit,      \* what is left of the cap on the header
    blocksize, length, hash, sha1, url,     \* what the header has given so far
    records,    \* block_checksums read
    reserved    \* room reserved for them

makerVars  == <<made, whole>>
headerVars == <<blocksize, length, hash, sha1, url>>
controlVars == <<at, makerVars, lines, body, limit, headerVars, records, reserved>>

Absent == -1
Nothing == [blocksize |-> Absent, length |-> Absent, hash |-> <<0, 0, 0>>]

\* HashLengths::default.
DefaultHash == <<1, 4, 16>>

PowersOfTwo == {2 ^ k : k \in 0 .. MaxBlocksize}
UsableBlocksize(n) == n \in PowersOfTwo /\ n <= MaxBlocksize
UsableHash(h) == h[1] \in 1 .. 2 /\ h[2] \in 1 .. 4 /\ h[3] \in 3 .. 16

Entry(h) == h[2] + h[3]

\* Mistake: a last block that is short is not counted.
WholeBlocks(len, size) == len \div size

NumBlocks(len, size) == (len + size - 1) \div size

-----------------------------------------------------------------------------
(* zsyncmake. *)

\* calculate_hash_lengths: pairs for a file of several blocks.
Generated(len, size) ==
    {h \in HashTried : /\ h[1] = IF len > size THEN 2 ELSE 1
                       /\ h[2] \in 2 .. 4 /\ h[3] \in 4 .. 16}

\* generate: an empty file, or a block size that parse would not take, is an
\* error.
Generate ==
    /\ at = "generate"
    /\ \E len \in Lengths, size \in 0 .. 2 * MaxBlocksize :
        \/ /\ len = 0 \/ ~UsableBlocksize(size)
           /\ at' = "refused" /\ UNCHANGED made
        \/ /\ len # 0 /\ UsableBlocksize(size)
           /\ \E h \in Generated(len, size) :
                  made' = [blocksize |-> size, length |-> len, hash |-> h]
           /\ at' = "write"
    /\ UNCHANGED <<whole, lines, body, limit, headerVars, records, reserved>>

Plain == <<"plain", 0>>
Blank == <<"blank", 0>>

\* Mistake: the hash lengths are left to the default.
HeaderWithoutHash(c) ==
    << Plain, Plain, <<"Blocksize", c.blocksize>>, <<"Length", c.length>>,
       <<"URL", 0>>, <<"SHA-1", 40>>, Blank >>

Header(c) ==
    << Plain, Plain, <<"Blocksize", c.blocksize>>, <<"Length", c.length>>,
       <<"Hash-Lengths", c.hash>>, <<"URL", 0>>, <<"SHA-1", 40>>, Blank >>

\* What a line cut short may read as; the header's closing line is never one.
CutLine(line) == {<<"nocolon", 0>>, Plain, line}

\* write and the flush: all of it, or what was written when one failed or the
\* program was killed.
Write ==
    /\ at = "write"
    /\ LET header == Header(made)
           full == NumBlocks(made.length, made.blocksize) * Entry(made.hash)
       IN  \/ /\ \E n \in 0 .. full : body' = n
              /\ lines' = header
              /\ whole' = (body' = full)
           \/ /\ \E k \in 1 .. Len(header) - 1 : \E cut \in CutLine(header[k]) :
                     lines' = Append(SubSeq(header, 1, k - 1), cut)
              /\ body' = 0 /\ whole' = FALSE
    /\ at' = "header"
    /\ UNCHANGED <<made, limit, headerVars, records, reserved>>

-----------------------------------------------------------------------------
(* ControlFile::parse. *)

FromNetwork == made = Nothing
Refuse == at' = "refused" /\ UNCHANGED <<headerVars, records, reserved>>

AnyLine ==
    {Plain, Blank, <<"nocolon", 0>>, <<"URL", 0>>, <<"SHA-1", 40>>, <<"SHA-1", 39>>}
        \cup {<<"Blocksize", n>> : n \in 0 .. 2 * MaxBlocksize}
        \cup {<<"Length", n>> : n \in Lengths \cup {Absent}}
        \cup {<<"Hash-Lengths", h>> : h \in HashTried}

\* Mistake: the cap starts over with each line.
LimitPerLine(line) ==
    /\ at = "header"
    /\ limit > 0
    /\ IF FromNetwork THEN line \in AnyLine /\ UNCHANGED lines
       ELSE lines # <<>> /\ line = Head(lines) /\ lines' = Tail(lines)
    /\ UNCHANGED limit

\* The next line, from the file or the network, under the cap.
ReadLine(line) ==
    /\ at = "header"
    /\ limit > 0
    /\ IF FromNetwork THEN line \in AnyLine /\ UNCHANGED lines
       ELSE lines # <<>> /\ line = Head(lines) /\ lines' = Tail(lines)
    /\ limit' = limit - 1

\* A later line of the same key overrides an earlier one.
Field(line) ==
    /\ ReadLine(line)
    /\ \/ /\ line[1] = "Blocksize" /\ UsableBlocksize(line[2])
          /\ blocksize' = line[2] /\ UNCHANGED <<length, hash, sha1, url>>
       \/ /\ line[1] = "Length" /\ line[2] # Absent
          /\ length' = line[2] /\ UNCHANGED <<blocksize, hash, sha1, url>>
       \/ /\ line[1] = "Hash-Lengths" /\ UsableHash(line[2])
          /\ hash' = line[2] /\ UNCHANGED <<blocksize, length, sha1, url>>
       \/ /\ line[1] = "SHA-1" /\ line[2] = 40
          /\ sha1' = TRUE /\ UNCHANGED <<blocksize, length, hash, url>>
       \/ /\ line[1] = "URL"
          /\ url' = TRUE /\ UNCHANGED <<blocksize, length, hash, sha1>>
       \/ line[1] = "plain" /\ UNCHANGED headerVars
    /\ UNCHANGED <<at, makerVars, body, records, reserved>>

\* A value is refused as it is read, and so is a line without a colon.
BadLine(line) ==
    /\ ReadLine(line)
    /\ \/ line[1] = "Blocksize" /\ ~UsableBlocksize(line[2])
       \/ line[1] = "Length" /\ line[2] = Absent
       \/ line[1] = "Hash-Lengths" /\ ~UsableHash(line[2])
       \/ line[1] = "SHA-1" /\ line[2] # 40
       \/ line[1] = "nocolon"
    /\ Refuse
    /\ UNCHANGED <<makerVars, body>>

\* The header stops without a blank line, or runs past the cap.
HeaderStops ==
    /\ at = "header"
    /\ limit = 0 \/ FromNetwork \/ lines = <<>>
    /\ Refuse
    /\ UNCHANGED <<makerVars, lines, body, limit>>

\* Mistake: room is made for as many records as the header claims.
ReserveClaimed(n) == n

Reserve(n) == IF n < MaxPrealloc THEN n ELSE MaxPrealloc

HeaderEnds ==
    /\ ReadLine(Blank)
    /\ IF \/ blocksize = Absent \/ length = Absent
          \/ NumBlocks(length, blocksize) > MaxBlocks
       THEN Refuse
       ELSE /\ at' = "records"
            /\ records' = 0 /\ reserved' = Reserve(NumBlocks(length, blocksize))
            /\ UNCHANGED headerVars
    /\ UNCHANGED <<makerVars, body>>

\* One record; room for more is made by doubling.
ReadRecord ==
    /\ at = "records"
    /\ records < NumBlocks(length, blocksize)
    /\ FromNetwork \/ body >= Entry(hash)
    /\ body' = IF FromNetwork THEN body ELSE body - Entry(hash)
    /\ records' = records + 1
    /\ reserved' = IF records = reserved THEN 2 * reserved ELSE reserved
    /\ UNCHANGED <<at, makerVars, lines, limit, headerVars>>

\* Mistake: the records that came are taken for all of them.
TakeWhatCame ==
    /\ at = "records"
    /\ records < NumBlocks(length, blocksize)
    /\ FromNetwork \/ body < Entry(hash)
    /\ at' = "accepted"
    /\ UNCHANGED <<makerVars, lines, body, limit, headerVars, records, reserved>>

RecordsStop ==
    /\ at = "records"
    /\ records < NumBlocks(length, blocksize)
    /\ FromNetwork \/ body < Entry(hash)
    /\ Refuse
    /\ UNCHANGED <<makerVars, lines, body, limit>>

Accept ==
    /\ at = "records"
    /\ records = NumBlocks(length, blocksize)
    /\ at' = "accepted"
    /\ UNCHANGED <<makerVars, lines, body, limit, headerVars, records, reserved>>

ParseStep ==
    \/ \E line \in AnyLine : Field(line) \/ BadLine(line)
    \/ HeaderStops \/ HeaderEnds \/ ReadRecord \/ RecordsStop \/ Accept

ControlInit ==
    /\ at \in {"generate", "header"}
    /\ made = Nothing /\ whole = FALSE /\ lines = <<>> /\ body = 0
    /\ limit = MaxHeader
    /\ blocksize = Absent /\ length = Absent /\ hash = DefaultHash
    /\ sha1 = FALSE /\ url = FALSE
    /\ records = 0 /\ reserved = 0

ControlNext == Generate \/ Write \/ ParseStep

-----------------------------------------------------------------------------
(* Properties. *)

\* Whatever a server sends, a control file that is accepted has what scanning
\* and planning rest on: a power of two for a block size, hash lengths in their
\* ranges and a checksum for each block, the last one short or not.
AcceptedIsUsable ==
    at = "accepted" =>
        /\ blocksize <= MaxBlocksize /\ \E k \in 0 .. blocksize : blocksize = 2 ^ k
        /\ hash[1] \in {1, 2} /\ hash[2] \in 1 .. 4 /\ hash[3] \in 3 .. 16
        /\ records <= MaxBlocks
        /\ records * blocksize >= length /\ length > (records - 1) * blocksize

\* Room is reserved for the records that have arrived, never for those a header
\* of a few bytes claims.
ReservedAsArrived ==
    reserved <= (IF 2 * records > MaxPrealloc THEN 2 * records ELSE MaxPrealloc)

\* What zsyncmake left behind when it failed or was killed is refused, wherever
\* it stopped.
PartialIsRefused == made # Nothing /\ ~whole => at # "accepted"

\* What it wrote whole parses back to what it generated.  A target of more
\* blocks than the parser takes is left aside: generate sets no such limit.
WrittenParsesBack ==
    whole /\ at \in {"accepted", "refused"} =>
        \/ /\ at = "accepted"
           /\ made = [blocksize |-> blocksize, length |-> length, hash |-> hash]
           /\ body = 0 /\ sha1 /\ url
        \/ NumBlocks(made.length, made.blocksize) > MaxBlocks

\* A parse ends, though the server never stops sending lines.
ParseEnds == at \in {"header", "records"} ~> at \in {"accepted", "refused"}
==============================================================================
