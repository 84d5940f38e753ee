-------------------------- MODULE ControlFile_proofs --------------------------
(***************************************************************************)
(* What holds of the control file at every step, for every cap and every   *)
(* target: the invariant behind its properties, and that each action keeps *)
(* it.  Ranges_proofs has the theorems, about runs that go on to plan.     *)
(***************************************************************************)
EXTENDS ControlFile, Lemmas

-----------------------------------------------------------------------------
(* The invariant: at each point of a parse, what has been read and what is *)
(* left of the file make up what zsyncmake wrote.                          *)

Key == {"plain", "blank", "nocolon", "Blocksize", "Length", "Hash-Lengths", "URL", "SHA-1"}
Line == Key \X (Nat \cup (Nat \X Nat \X Nat))

ControlTyped ==
    /\ at \in {"generate", "write", "header", "records", "accepted", "refused", "planning"}
    /\ blocksize = Absent \/ UsableBlocksize(blocksize)
    /\ length \in Nat \cup {Absent}
    /\ hash \in Nat \X Nat \X Nat /\ UsableHash(hash)
    /\ lines \in Seq(Line) /\ body \in Nat /\ limit \in Nat
    /\ records \in Nat /\ reserved \in Nat
    /\ whole \in BOOLEAN

Measured == {"records", "accepted", "planning"}

\* From the header's end on, the target is measured and its records are counted.
Counted ==
    /\ at \in Measured =>
        /\ blocksize # Absent /\ length # Absent
        /\ NumBlocks(length, blocksize) <= MaxBlocks
        /\ records <= NumBlocks(length, blocksize)
    /\ at \in {"accepted", "planning"} => records = NumBlocks(length, blocksize)

Usable(c) ==
    /\ UsableBlocksize(c.blocksize)
    /\ c.length \in Nat \ {0}
    /\ c.hash \in Nat \X Nat \X Nat /\ UsableHash(c.hash)
    /\ c = [blocksize |-> c.blocksize, length |-> c.length, hash |-> c.hash]

\* What zsyncmake generates is what parse takes.
MadeIsUsable ==
    /\ at = "generate" => made = Nothing
    /\ at = "write" => made # Nothing
    /\ made # Nothing => Usable(made)
    /\ whole => made # Nothing

Full == NumBlocks(made.length, made.blocksize) * Entry(made.hash)

\* The whole header was written: what is left of it, and what was read.
HeaderLeft ==
    /\ Len(lines) \in 1 .. 8
    /\ \A i \in 1 .. Len(lines) : lines[i] = Header(made)[8 - Len(lines) + i]
    /\ Len(lines) < 6 => blocksize = made.blocksize
    /\ Len(lines) < 5 => length = made.length
    /\ Len(lines) < 4 => hash = made.hash
    /\ Len(lines) < 3 => url
    /\ Len(lines) < 2 => sha1
    /\ limit = MaxHeader + Len(lines) - 8
    /\ IF whole THEN body = Full ELSE body < Full

\* A header cut short has lost its closing line.
HeaderCut == ~whole /\ \A i \in 1 .. Len(lines) : lines[i] # Blank

ReadsWhatWasWritten ==
    /\ at \in {"generate", "write"} => limit = MaxHeader
    /\ made # Nothing /\ at = "header" => HeaderLeft \/ HeaderCut
    /\ made # Nothing /\ at \in Measured =>
        /\ made = [blocksize |-> blocksize, length |-> length, hash |-> hash]
        /\ sha1 /\ url
        /\ IF whole THEN body + records * Entry(hash) = Full
                    ELSE body + records * Entry(hash) < Full

ControlInv ==
    ControlTyped /\ Counted /\ MadeIsUsable /\ ReservedAsArrived /\ ReadsWhatWasWritten

-----------------------------------------------------------------------------
(* Numbers and sequences. *)

LEMMA UsableBlocksizeType ==
    ASSUME NEW n, UsableBlocksize(n)
    PROVE  n \in Nat \ {0} /\ n # Absent
BY ControlAssumption, Power DEF UsableBlocksize, PowersOfTwo, Absent

\* As many blocks as it takes to hold the target, and not one more.
LEMMA NumBlocksBounds ==
    ASSUME NEW len \in Nat, NEW size \in Nat \ {0}
    PROVE  /\ NumBlocks(len, size) \in Nat
           /\ len <= NumBlocks(len, size) * size
           /\ NumBlocks(len, size) * size < len + size
<1> DEFINE a == len + size - 1
<1>1. a \in Nat
  OBVIOUS
<1>2. (a \div size) \in Nat /\ (a \div size) * size <= a /\ a < (a \div size) * size + size
  <2> HIDE DEF a
  <2> QED BY <1>1
<1> QED BY <1>2 DEF NumBlocks

LEMMA EntryType ==
    ASSUME NEW h \in Nat \X Nat \X Nat
    PROVE  Entry(h) \in Nat
BY DEF Entry

-----------------------------------------------------------------------------
(* Each step keeps the invariant. *)

LEMMA HeaderLines ==
    ASSUME NEW c, Usable(c)
    PROVE  /\ Header(c) \in Seq(Line) /\ Len(Header(c)) = 8
           /\ Header(c)[1] = Plain /\ Header(c)[2] = Plain
           /\ Header(c)[3] = <<"Blocksize", c.blocksize>>
           /\ Header(c)[4] = <<"Length", c.length>>
           /\ Header(c)[5] = <<"Hash-Lengths", c.hash>>
           /\ Header(c)[6] = <<"URL", 0>> /\ Header(c)[7] = <<"SHA-1", 40>>
           /\ Header(c)[8] = Blank
<1>1. c.blocksize \in Nat /\ c.length \in Nat /\ c.hash \in Nat \X Nat \X Nat
  BY UsableBlocksizeType DEF Usable
<1>2. /\ Plain \in Line /\ Blank \in Line
      /\ <<"Blocksize", c.blocksize>> \in Line /\ <<"Length", c.length>> \in Line
      /\ <<"Hash-Lengths", c.hash>> \in Line
      /\ <<"URL", 0>> \in Line /\ <<"SHA-1", 40>> \in Line
  <2>1. \A k \in Key, v \in Nat \cup (Nat \X Nat \X Nat) : <<k, v>> \in Line
    BY DEF Line
  <2>2. /\ 0 \in Nat \cup (Nat \X Nat \X Nat) /\ 40 \in Nat \cup (Nat \X Nat \X Nat)
        /\ c.blocksize \in Nat \cup (Nat \X Nat \X Nat)
        /\ c.length \in Nat \cup (Nat \X Nat \X Nat)
        /\ c.hash \in Nat \cup (Nat \X Nat \X Nat)
    BY <1>1
  <2> QED BY <2>1, <2>2 DEF Plain, Blank, Key
<1> QED BY <1>2 DEF Header

LEMMA InitControl == ControlInit => ControlInv
<1> SUFFICES ASSUME ControlInit PROVE ControlInv
  OBVIOUS
<1>1. hash \in Nat \X Nat \X Nat /\ UsableHash(hash)
  BY DEF ControlInit, DefaultHash, UsableHash
<1>2. lines \in Seq(Line)
  BY DEF ControlInit
<1>3. ControlTyped
  BY <1>1, <1>2, ControlAssumption DEF ControlInit, ControlTyped, Absent
<1>4. MaxPrealloc \in Nat
  BY ControlAssumption
<1> QED BY <1>3, <1>4 DEF ControlInv, ControlInit, Counted, Measured, MadeIsUsable,
                   ReservedAsArrived, ReadsWhatWasWritten

LEMMA GenerateKeeps == ASSUME ControlInv, Generate PROVE ControlInv'
<1> USE DEF ControlInv
<1>1. UNCHANGED <<whole, lines, body, limit, headerVars, records, reserved>>
  BY DEF Generate
<1>2. at = "generate" /\ made = Nothing /\ ~whole /\ limit \in Nat
  BY DEF Generate, MadeIsUsable, ControlTyped
<1>3. CASE at' = "refused" /\ made' = made
  BY <1>1, <1>2, <1>3 DEF ControlTyped, Counted, Measured, MadeIsUsable, ReservedAsArrived,
     ReadsWhatWasWritten, headerVars
<1>4. CASE /\ at' = "write"
           /\ \E len \in Lengths, size \in 0 .. 2 * MaxBlocksize :
                  /\ len # 0 /\ UsableBlocksize(size)
                  /\ \E h \in Generated(len, size) :
                         made' = [blocksize |-> size, length |-> len, hash |-> h]
  <2>1. PICK len \in Lengths, size \in 0 .. 2 * MaxBlocksize, h \in HashTried :
            /\ len # 0 /\ UsableBlocksize(size)
            /\ h[1] \in {1, 2} /\ h[2] \in 2 .. 4 /\ h[3] \in 4 .. 16
            /\ made' = [blocksize |-> size, length |-> len, hash |-> h]
    BY <1>4 DEF Generated
  <2>2. h \in Nat \X Nat \X Nat /\ len \in Nat
    BY ControlAssumption
  <2>3. UsableHash(h)
    BY <2>1, <2>2 DEF UsableHash
  <2>4. made'.blocksize = size /\ made'.length = len /\ made'.hash = h
    BY <2>1
  <2>5. Usable(made)'
    BY <2>1, <2>2, <2>3, <2>4 DEF Usable
  <2>6. made' # Nothing
    BY <2>2, <2>4 DEF Nothing, Absent
  <2>7. limit = MaxHeader
    BY <1>2 DEF ReadsWhatWasWritten
  <2> QED BY <1>1, <1>2, <1>4, <2>5, <2>6, <2>7 DEF ControlTyped, Counted, Measured,
         MadeIsUsable, ReservedAsArrived, ReadsWhatWasWritten, headerVars
<1> QED BY <1>3, <1>4 DEF Generate

LEMMA WriteKeeps == ASSUME ControlInv, Write PROVE ControlInv'
<1> USE DEF ControlInv
<1>1. /\ at = "write" /\ at' = "header" /\ made # Nothing /\ limit = MaxHeader
      /\ UNCHANGED <<made, limit, headerVars, records, reserved>>
  BY DEF Write, MadeIsUsable, ReadsWhatWasWritten
<1>2. Usable(made) /\ Full \in Nat
  <2>1. Usable(made)
    BY <1>1 DEF MadeIsUsable
  <2>2. NumBlocks(made.length, made.blocksize) \in Nat /\ Entry(made.hash) \in Nat
    BY <2>1, UsableBlocksizeType, NumBlocksBounds, EntryType DEF Usable
  <2> QED BY <2>1, <2>2 DEF Full
<1>3. Full' = Full
  BY <1>1 DEF Full
<1>4. PICK header : header = Header(made)
  OBVIOUS
<1>5. /\ header \in Seq(Line) /\ Len(header) = 8
      /\ header[1] = Plain /\ header[2] = Plain
      /\ header[3] = <<"Blocksize", made.blocksize>>
      /\ header[4] = <<"Length", made.length>>
      /\ header[5] = <<"Hash-Lengths", made.hash>>
      /\ header[6] = <<"URL", 0>> /\ header[7] = <<"SHA-1", 40>>
  BY <1>2, <1>4, HeaderLines
<1>6. \A i \in 1 .. 7 : header[i] # Blank /\ header[i] \in Line
  <2>1. /\ header[1] # Blank /\ header[2] # Blank /\ header[3] # Blank /\ header[4] # Blank
        /\ header[5] # Blank /\ header[6] # Blank /\ header[7] # Blank
    BY <1>5 DEF Plain, Blank
  <2>2. ASSUME NEW i \in 1 .. 7 PROVE header[i] \in Line
    <3>1. i \in 1 .. Len(header)
      BY <1>5
    <3> QED BY <1>5, <3>1, Element, Zenon
  <2>3. \A i \in 1 .. 7 : i = 1 \/ i = 2 \/ i = 3 \/ i = 4 \/ i = 5 \/ i = 6 \/ i = 7
    OBVIOUS
  <2>4. \A i \in 1 .. 7 : header[i] # Blank
    BY <2>1, <2>3
  <2> QED BY <2>2, <2>4
<1>7. CASE /\ \E n \in 0 .. Full : body' = n
           /\ lines' = header /\ whole' = (body' = Full)
  <2>1. lines' \in Seq(Line) /\ Len(lines') = 8 /\ body' \in Nat /\ whole' \in BOOLEAN
    BY <1>2, <1>5, <1>7
  <2>2. Header(made)' = header
    BY <1>1, <1>4
  <2>3. \A i \in 1 .. Len(lines') : lines'[i] = Header(made)'[8 - Len(lines') + i]
    <3>1. \A i \in 1 .. 8 : 8 - 8 + i = i
      OBVIOUS
    <3> QED BY <1>5, <1>7, <2>2, <3>1
  <2>4. limit' = MaxHeader + Len(lines') - 8
    BY <1>1, <2>1, ControlAssumption
  <2>5. IF whole' THEN body' = Full' ELSE body' < Full'
    <3>1. body' <= Full /\ body' \in Nat /\ whole' = (body' = Full)
      BY <1>2, <1>7
    <3>2. CASE body' = Full
      BY <1>3, <3>1, <3>2
    <3>3. CASE body' # Full
      <4>1. body' < Full
        BY <1>2, <3>1, <3>3
      <4> QED BY <1>3, <3>1, <3>3, <4>1
    <3> QED BY <3>2, <3>3
  <2>6. HeaderLeft'
    BY <2>1, <2>3, <2>4, <2>5 DEF HeaderLeft
  <2> QED BY <1>1, <2>1, <2>6 DEF ControlTyped, Counted, Measured, MadeIsUsable,
         ReservedAsArrived, ReadsWhatWasWritten, headerVars
<1>8. CASE /\ \E k \in 1 .. Len(header) - 1 : \E cut \in CutLine(header[k]) :
                  lines' = Append(SubSeq(header, 1, k - 1), cut)
           /\ body' = 0 /\ whole' = FALSE
  <2>0. PICK k \in 1 .. 7 : \E cut \in CutLine(header[k]) :
                                lines' = Append(SubSeq(header, 1, k - 1), cut)
    <3>1. 1 .. Len(header) - 1 = 1 .. 7
      BY <1>5
    <3> QED BY <1>8, <3>1
  <2>1. PICK cut \in CutLine(header[k]) : lines' = Append(SubSeq(header, 1, k - 1), cut)
    BY <2>0
  <2>2. cut \in Line /\ cut # Blank
    <3>1. <<"nocolon", 0>> \in Line /\ <<"nocolon", 0>> # Blank /\ Plain \in Line /\ Plain # Blank
      BY DEF Line, Key, Plain, Blank
    <3> QED BY <1>6, <2>1, <3>1 DEF CutLine
  <2> DEFINE kept == SubSeq(header, 1, k - 1)
  <2>3. kept \in Seq(Line) /\ Len(kept) = k - 1 /\ \A i \in 1 .. k - 1 : kept[i] = header[i]
    <3>1. k \in 1 .. Len(header)
      BY <1>5
    <3> QED BY <1>5, <3>1, Prefix, Zenon
  <2>4. /\ lines' \in Seq(Line) /\ Len(lines') = k
        /\ \A i \in 1 .. k - 1 : lines'[i] = header[i]
        /\ lines'[k] = cut
    <3> HIDE DEF kept
    <3> QED BY <2>1, <2>2, <2>3 DEF kept
  <2>5. \A i \in 1 .. Len(lines') : lines'[i] # Blank
    BY <1>6, <2>2, <2>4
  <2>6. HeaderCut'
    BY <1>8, <2>5 DEF HeaderCut
  <2> QED BY <1>1, <1>8, <2>4, <2>6 DEF ControlTyped, Counted, Measured, MadeIsUsable,
         ReservedAsArrived, ReadsWhatWasWritten, headerVars
<1> QED BY <1>4, <1>5, <1>7, <1>8 DEF Write, Full

\* What reading a line does to what is still to be read.
LEMMA ReadLineTyped ==
    ASSUME ControlTyped, NEW line, ReadLine(line)
    PROVE  /\ at = "header" /\ limit >= 1 /\ limit' = limit - 1 /\ limit' \in Nat
           /\ lines' \in Seq(Line)
           /\ made # Nothing =>
                  /\ lines # <<>> /\ Len(lines) >= 1 /\ line = lines[1]
                  /\ Len(lines') = Len(lines) - 1
                  /\ \A i \in 1 .. Len(lines') : lines'[i] = lines[i + 1]
<1>1. at = "header" /\ limit >= 1 /\ limit' = limit - 1 /\ limit' \in Nat
  BY DEF ReadLine, ControlTyped
<1>2. lines \in Seq(Line)
  BY DEF ControlTyped
<1>3. CASE made = Nothing
  BY <1>1, <1>2, <1>3 DEF ReadLine, FromNetwork
<1>4. CASE made # Nothing
  <2>1. lines # <<>> /\ line = Head(lines) /\ lines' = Tail(lines)
    BY <1>4 DEF ReadLine, FromNetwork
  <2> QED BY <1>1, <1>2, <2>1, Rest
<1> QED BY <1>3, <1>4

\* The next line of a header written whole is the one zsyncmake wrote there.
LEMMA NextLine ==
    ASSUME ControlInv, NEW line, ReadLine(line), made # Nothing, HeaderLeft
    PROVE  /\ line = Header(made)[9 - Len(lines)]
           /\ \A i \in 1 .. Len(lines') : lines'[i] = Header(made)[8 - Len(lines') + i]
<1>1. /\ Len(lines) >= 1 /\ line = lines[1] /\ Len(lines') = Len(lines) - 1
      /\ \A i \in 1 .. Len(lines') : lines'[i] = lines[i + 1]
      /\ lines' \in Seq(Line) /\ lines \in Seq(Line)
  BY ReadLineTyped DEF ControlInv, ControlTyped
<1>2. \A i \in 1 .. Len(lines) : lines[i] = Header(made)[8 - Len(lines) + i]
  BY DEF HeaderLeft
<1>3. PICK m \in Nat : m = Len(lines)
  BY <1>1
<1>4. m >= 1 /\ Len(lines') = m - 1
  BY <1>1, <1>3
<1>5. line = Header(made)[8 - m + 1] /\ 8 - m + 1 = 9 - m
  BY <1>1, <1>2, <1>3, <1>4
<1>6. ASSUME NEW i \in 1 .. m - 1
      PROVE  lines'[i] = Header(made)[8 - (m - 1) + i]
  <2>1. lines'[i] = lines[i + 1] /\ i + 1 \in 1 .. m
    BY <1>1, <1>4
  <2>2. lines[i + 1] = Header(made)[8 - m + (i + 1)]
    BY <1>2, <1>3, <2>1
  <2>3. 8 - m + (i + 1) = 8 - (m - 1) + i
    OBVIOUS
  <2> QED BY <2>1, <2>2, <2>3
<1> QED BY <1>3, <1>4, <1>5, <1>6

LEMMA AnyLineTyped ==
    ASSUME NEW line \in AnyLine
    PROVE  /\ line[1] = "Length" /\ line[2] # Absent => line[2] \in Nat
           /\ line[1] = "Hash-Lengths" => line[2] \in Nat \X Nat \X Nat
BY ControlAssumption DEF AnyLine, Plain, Blank, Absent

LEMMA FieldTyped ==
    ASSUME ControlInv, NEW line \in AnyLine, Field(line)
    PROVE  ControlTyped'
<1>1. limit' \in Nat /\ lines' \in Seq(Line)
  BY ReadLineTyped DEF Field, ControlInv
<1>2. /\ blocksize' = Absent \/ UsableBlocksize(blocksize')
      /\ length' \in Nat \cup {Absent}
      /\ hash' \in Nat \X Nat \X Nat /\ UsableHash(hash')
  <2> USE DEF ControlInv, ControlTyped
  <2>1. CASE UNCHANGED <<blocksize, length, hash>>
    BY <2>1
  <2>2. CASE UsableBlocksize(line[2]) /\ blocksize' = line[2] /\ UNCHANGED <<length, hash>>
    BY <2>2
  <2>3. CASE /\ line[1] = "Length" /\ line[2] # Absent
             /\ length' = line[2] /\ UNCHANGED <<blocksize, hash>>
    BY <2>3, AnyLineTyped
  <2>4. CASE /\ line[1] = "Hash-Lengths" /\ UsableHash(line[2])
             /\ hash' = line[2] /\ UNCHANGED <<blocksize, length>>
    BY <2>4, AnyLineTyped
  <2> QED BY <2>1, <2>2, <2>3, <2>4 DEF Field, headerVars
<1> QED BY <1>1, <1>2 DEF Field, ControlInv, ControlTyped, makerVars

\* A field of a header written whole is read back as it was generated.
LEMMA FieldReadsBack ==
    ASSUME ControlInv, NEW line \in AnyLine, Field(line), made # Nothing, HeaderLeft
    PROVE  HeaderLeft'
<1>1. /\ ReadLine(line) /\ UNCHANGED <<made, whole, body>>
  BY DEF Field, makerVars
<1>2. Usable(made)
  BY DEF ControlInv, MadeIsUsable
<1>3. PICK m \in Nat : m = Len(lines)
  BY DEF HeaderLeft
<1>4. m \in 1 .. 8 /\ Len(lines') = m - 1 /\ limit' = limit - 1 /\ limit = MaxHeader + m - 8
  BY <1>1, <1>3, ReadLineTyped DEF HeaderLeft, ControlInv
<1>5. PICK header : header = Header(made)
  OBVIOUS
<1>6. /\ header[1] = Plain /\ header[2] = Plain
      /\ header[3] = <<"Blocksize", made.blocksize>>
      /\ header[4] = <<"Length", made.length>>
      /\ header[5] = <<"Hash-Lengths", made.hash>>
      /\ header[6] = <<"URL", 0>> /\ header[7] = <<"SHA-1", 40>>
      /\ header[8] = Blank
  BY <1>2, <1>5, HeaderLines
<1>7. line = header[9 - m] /\ \A i \in 1 .. m - 1 : lines'[i] = header[8 - (m - 1) + i]
  BY <1>1, <1>3, <1>4, <1>5, NextLine
<1>8. /\ m < 6 => blocksize = made.blocksize
      /\ m < 5 => length = made.length
      /\ m < 4 => hash = made.hash
      /\ m < 3 => url
      /\ m < 2 => sha1
  BY <1>3 DEF HeaderLeft
<1> DEFINE Read ==
      /\ m - 1 < 6 => blocksize' = made.blocksize
      /\ m - 1 < 5 => length' = made.length
      /\ m - 1 < 4 => hash' = made.hash
      /\ m - 1 < 3 => url'
      /\ m - 1 < 2 => sha1'
<1>9. m # 1 /\ Read
  <2>1. CASE m = 8 \/ m = 7
    <3>1. line = Plain
      BY <1>6, <1>7, <2>1
    <3>2. UNCHANGED headerVars
      BY <3>1 DEF Plain, Field
    <3> QED BY <1>8, <2>1, <3>2 DEF headerVars
  <2>2. CASE m = 6
    <3>1. line = <<"Blocksize", made.blocksize>>
      BY <1>6, <1>7, <2>2
    <3>2. blocksize' = made.blocksize /\ UNCHANGED <<length, hash, sha1, url>>
      BY <3>1 DEF Field
    <3> QED BY <1>8, <2>2, <3>2
  <2>3. CASE m = 5
    <3>1. line = <<"Length", made.length>>
      BY <1>6, <1>7, <2>3
    <3>2. length' = made.length /\ UNCHANGED <<blocksize, hash, sha1, url>>
      BY <3>1 DEF Field
    <3> QED BY <1>8, <2>3, <3>2
  <2>4. CASE m = 4
    <3>1. line = <<"Hash-Lengths", made.hash>>
      BY <1>6, <1>7, <2>4
    <3>2. hash' = made.hash /\ UNCHANGED <<blocksize, length, sha1, url>>
      BY <3>1 DEF Field
    <3> QED BY <1>8, <2>4, <3>2
  <2>5. CASE m = 3
    <3>1. line = <<"URL", 0>>
      BY <1>6, <1>7, <2>5
    <3>2. url' /\ UNCHANGED <<blocksize, length, hash, sha1>>
      BY <3>1 DEF Field
    <3> QED BY <1>8, <2>5, <3>2
  <2>6. CASE m = 2
    <3>1. line = <<"SHA-1", 40>>
      BY <1>6, <1>7, <2>6
    <3>2. sha1' /\ UNCHANGED <<blocksize, length, hash, url>>
      BY <3>1 DEF Field
    <3> QED BY <1>8, <2>6, <3>2
  <2>7. CASE m = 1
    <3>1. line = Blank
      BY <1>6, <1>7, <2>7
    <3> QED BY <3>1 DEF Blank, Field
  <2> QED BY <1>4, <2>1, <2>2, <2>3, <2>4, <2>5, <2>6, <2>7
<1>10. Len(lines') \in 1 .. 8 /\ limit' = MaxHeader + Len(lines') - 8
  BY <1>4, <1>9, ControlAssumption
<1>11. \A i \in 1 .. Len(lines') : lines'[i] = Header(made)'[8 - Len(lines') + i]
  BY <1>1, <1>4, <1>5, <1>7
<1>12. IF whole' THEN body' = Full' ELSE body' < Full'
  BY <1>1 DEF HeaderLeft, Full
<1> HIDE DEF Read
<1>13. /\ Len(lines') < 6 => blocksize' = made'.blocksize
       /\ Len(lines') < 5 => length' = made'.length
       /\ Len(lines') < 4 => hash' = made'.hash
       /\ Len(lines') < 3 => url'
       /\ Len(lines') < 2 => sha1'
  BY <1>1, <1>4, <1>9 DEF Read
<1> QED BY <1>10, <1>11, <1>12, <1>13 DEF HeaderLeft

LEMMA FieldKeeps == ASSUME ControlInv, NEW line \in AnyLine, Field(line) PROVE ControlInv'
<1>1. ControlTyped'
  BY FieldTyped
<1>2. at = "header" /\ at' = "header" /\ UNCHANGED <<made, whole, records, reserved>>
  BY ReadLineTyped DEF Field, ControlInv, makerVars
<1>3. ASSUME made # Nothing PROVE (HeaderLeft \/ HeaderCut)'
  <2>1. HeaderLeft \/ HeaderCut
    BY <1>2, <1>3 DEF ControlInv, ReadsWhatWasWritten
  <2>2. CASE HeaderLeft
    BY <1>3, <2>2, FieldReadsBack
  <2>3. CASE HeaderCut
    <3>1. /\ Len(lines) >= 1 /\ Len(lines') = Len(lines) - 1
          /\ \A i \in 1 .. Len(lines') : lines'[i] = lines[i + 1]
          /\ lines \in Seq(Line)
      BY <1>3, ReadLineTyped DEF Field, ControlInv, ControlTyped
    <3>2. \A i \in 1 .. Len(lines') : i + 1 \in 1 .. Len(lines)
      BY <3>1
    <3>3. \A i \in 1 .. Len(lines') : lines'[i] # Blank
      BY <2>3, <3>1, <3>2 DEF HeaderCut
    <3> QED BY <1>2, <2>3, <3>3 DEF HeaderCut
  <2> QED BY <2>1, <2>2, <2>3
<1> QED BY <1>1, <1>2, <1>3 DEF ControlInv, Counted, Measured, MadeIsUsable,
       ReservedAsArrived, ReadsWhatWasWritten

LEMMA RefusalKeeps ==
    ASSUME ControlInv, Refuse, UNCHANGED makerVars, body' \in Nat, lines' \in Seq(Line),
           limit' \in Nat
    PROVE  ControlInv'
BY DEF Refuse, ControlInv, ControlTyped, Counted, Measured, MadeIsUsable, ReservedAsArrived,
       ReadsWhatWasWritten, makerVars, headerVars

LEMMA BadLineKeeps == ASSUME ControlInv, NEW line \in AnyLine, BadLine(line) PROVE ControlInv'
BY ReadLineTyped, RefusalKeeps DEF BadLine, ControlInv, ControlTyped

LEMMA HeaderStopsKeeps == ASSUME ControlInv, HeaderStops PROVE ControlInv'
BY RefusalKeeps DEF HeaderStops, ControlInv, ControlTyped

\* The header of a file written by zsyncmake ends where it was written to end.
LEMMA BlankIsLast ==
    ASSUME ControlInv, ReadLine(Blank), made # Nothing
    PROVE  /\ HeaderLeft /\ Usable(made)
           /\ made = [blocksize |-> blocksize, length |-> length, hash |-> hash]
           /\ url /\ sha1
<1>1. Usable(made) /\ at = "header"
  BY ReadLineTyped DEF ControlInv, MadeIsUsable
<1>2. HeaderLeft
  <2>1. HeaderLeft \/ HeaderCut
    BY <1>1 DEF ControlInv, ReadsWhatWasWritten
  <2>2. lines # <<>> /\ Len(lines) >= 1 /\ lines[1] = Blank /\ lines \in Seq(Line)
    BY ReadLineTyped DEF ControlInv, ControlTyped
  <2>3. 1 \in 1 .. Len(lines)
    BY <2>2
  <2>4. ~HeaderCut
    BY <2>2, <2>3 DEF HeaderCut
  <2> QED BY <2>1, <2>4
<1>3. PICK m \in Nat : m = Len(lines)
  BY <1>2 DEF HeaderLeft
<1>4. PICK header : header = Header(made)
  OBVIOUS
<1>5. m \in 1 .. 8 /\ header[9 - m] = Blank
  BY <1>2, <1>3, <1>4, NextLine DEF HeaderLeft
<1>6. /\ header[1] = Plain /\ header[2] = Plain
      /\ header[3][1] = "Blocksize" /\ header[4][1] = "Length"
      /\ header[5][1] = "Hash-Lengths"
      /\ header[6][1] = "URL" /\ header[7][1] = "SHA-1"
  BY <1>1, <1>4, HeaderLines
<1>7. \A i \in 1 .. 7 : header[i] # Blank
  <2>1. \A i \in 1 .. 7 : i = 1 \/ i = 2 \/ i = 3 \/ i = 4 \/ i = 5 \/ i = 6 \/ i = 7
    OBVIOUS
  <2> QED BY <1>6, <2>1 DEF Plain, Blank
<1>8. m = 1
  <2>1. m # 1 => 9 - m \in 1 .. 7
    BY <1>5
  <2> QED BY <1>5, <1>7, <2>1
<1>9. /\ blocksize = made.blocksize /\ length = made.length /\ hash = made.hash
      /\ url /\ sha1
  BY <1>2, <1>3, <1>8 DEF HeaderLeft
<1> QED BY <1>1, <1>2, <1>9 DEF Usable

LEMMA HeaderEndsKeeps == ASSUME ControlInv, HeaderEnds PROVE ControlInv'
<1>1. /\ at = "header" /\ limit' \in Nat /\ lines' \in Seq(Line)
      /\ ReadLine(Blank) /\ UNCHANGED <<makerVars, body>>
  BY ReadLineTyped DEF HeaderEnds, ControlInv
<1>2. CASE Refuse
  BY <1>1, <1>2, RefusalKeeps DEF ControlInv, ControlTyped
<1>3. CASE /\ blocksize # Absent /\ length # Absent
           /\ NumBlocks(length, blocksize) <= MaxBlocks
           /\ at' = "records" /\ records' = 0
           /\ reserved' = Reserve(NumBlocks(length, blocksize))
           /\ UNCHANGED headerVars
  <2>1. blocksize \in Nat \ {0} /\ length \in Nat /\ Entry(hash) \in Nat
    BY <1>3, UsableBlocksizeType, EntryType DEF ControlInv, ControlTyped
  <2>2. NumBlocks(length, blocksize) \in Nat
    BY <2>1, NumBlocksBounds
  <2>3. reserved' \in Nat /\ reserved' <= MaxPrealloc
    BY <1>3, <2>2, ControlAssumption DEF Reserve
  <2>4. ControlTyped'
    BY <1>1, <1>3, <2>3 DEF ControlInv, ControlTyped, makerVars, headerVars
  <2>5. NumBlocks(length, blocksize)' = NumBlocks(length, blocksize)
    BY <1>3 DEF headerVars
  <2>6. Counted' /\ MadeIsUsable'
    BY <1>1, <1>3, <2>2, <2>5 DEF Counted, Measured, ControlInv, MadeIsUsable, makerVars, headerVars
  <2>7. ReservedAsArrived'
    BY <1>3, <2>3, ControlAssumption DEF ReservedAsArrived
  <2>8. ASSUME made # Nothing
        PROVE  /\ made = [blocksize |-> blocksize, length |-> length, hash |-> hash]
               /\ sha1 /\ url
               /\ IF whole THEN body + 0 * Entry(hash) = Full
                           ELSE body + 0 * Entry(hash) < Full
    <3>1. body + 0 * Entry(hash) = body
      BY <2>1 DEF ControlInv, ControlTyped
    <3> QED BY <1>1, <2>8, <3>1, BlankIsLast DEF HeaderLeft
  <2>9. ReadsWhatWasWritten'
    <3>1. Full' = Full /\ Entry(hash)' = Entry(hash)
      BY <1>1, <1>3 DEF Full, makerVars, headerVars
    <3> QED BY <1>1, <1>3, <2>8, <3>1 DEF ReadsWhatWasWritten, makerVars, headerVars, Measured
  <2> QED BY <2>4, <2>6, <2>7, <2>9 DEF ControlInv
<1>4. Refuse \/ ~(\/ blocksize = Absent \/ length = Absent
                  \/ NumBlocks(length, blocksize) > MaxBlocks)
  BY DEF HeaderEnds
<1>5. CASE /\ blocksize # Absent /\ length # Absent
           /\ ~(NumBlocks(length, blocksize) > MaxBlocks)
  <2>1. blocksize \in Nat \ {0} /\ length \in Nat
    BY <1>5, UsableBlocksizeType DEF ControlInv, ControlTyped
  <2>2. NumBlocks(length, blocksize) \in Nat
    BY <2>1, NumBlocksBounds
  <2>3. NumBlocks(length, blocksize) <= MaxBlocks
    BY <1>5, <2>2, ControlAssumption
  <2> QED BY <1>3, <1>5, <2>3 DEF HeaderEnds
<1> QED BY <1>2, <1>4, <1>5

\* What is known while records are read.
LEMMA InRecords ==
    ASSUME ControlInv, at = "records"
    PROVE  /\ blocksize \in Nat \ {0} /\ length \in Nat /\ Entry(hash) \in Nat
           /\ NumBlocks(length, blocksize) \in Nat /\ records <= NumBlocks(length, blocksize)
           /\ made # Nothing => Full = NumBlocks(length, blocksize) * Entry(hash)
<1>1. blocksize \in Nat \ {0} /\ length \in Nat /\ Entry(hash) \in Nat
  BY UsableBlocksizeType, EntryType DEF ControlInv, ControlTyped, Counted, Measured
<1>2. NumBlocks(length, blocksize) \in Nat
  BY <1>1, NumBlocksBounds
<1>3. ASSUME made # Nothing PROVE Full = NumBlocks(length, blocksize) * Entry(hash)
  <2>1. made = [blocksize |-> blocksize, length |-> length, hash |-> hash]
    BY <1>3 DEF ControlInv, ReadsWhatWasWritten, Measured
  <2>2. made.blocksize = blocksize /\ made.length = length /\ made.hash = hash
    BY <2>1
  <2> QED BY <2>2 DEF Full
<1> QED BY <1>1, <1>2, <1>3 DEF ControlInv, Counted, Measured

LEMMA ReadRecordKeeps == ASSUME ControlInv, ReadRecord PROVE ControlInv'
<1>1. /\ at = "records" /\ at' = "records" /\ records < NumBlocks(length, blocksize)
      /\ records' = records + 1
      /\ UNCHANGED <<made, whole, lines, limit, blocksize, length, hash, sha1, url>>
  BY DEF ReadRecord, makerVars, headerVars
<1>2. /\ records \in Nat /\ body \in Nat /\ reserved \in Nat
      /\ NumBlocks(length, blocksize) \in Nat /\ Entry(hash) \in Nat
  BY <1>1, InRecords DEF ControlInv, ControlTyped
<1>3. body' \in Nat /\ (made # Nothing => body' = body - Entry(hash))
  BY <1>2 DEF ReadRecord, FromNetwork
<1>4. reserved' = IF records = reserved THEN 2 * reserved ELSE reserved
  BY DEF ReadRecord
<1>5. ControlTyped'
  BY <1>1, <1>2, <1>3, <1>4 DEF ControlInv, ControlTyped
<1>6. NumBlocks(length, blocksize)' = NumBlocks(length, blocksize)
      /\ Full' = Full /\ Entry(hash)' = Entry(hash)
  BY <1>1 DEF Full
<1>7. Counted'
  BY <1>1, <1>2, <1>6 DEF ControlInv, Counted, Measured
<1>8. ReservedAsArrived'
  <2>1. ReservedAsArrived
    BY DEF ControlInv
  <2>2. MaxPrealloc \in Nat
    BY ControlAssumption
  <2> QED BY <1>1, <1>2, <1>4, <2>1, <2>2 DEF ReservedAsArrived
<1>9. ASSUME made # Nothing
      PROVE  IF whole' THEN body' + records' * Entry(hash)' = Full'
                       ELSE body' + records' * Entry(hash)' < Full'
  <2>1. body' + records' * Entry(hash) = body + records * Entry(hash)
    <3>1. (records + 1) * Entry(hash) = records * Entry(hash) + Entry(hash)
      BY <1>2
    <3>2. records * Entry(hash) \in Nat
      BY <1>2
    <3> QED BY <1>1, <1>2, <1>3, <1>9, <3>1, <3>2
  <2> QED BY <1>1, <1>6, <1>9, <2>1 DEF ControlInv, ReadsWhatWasWritten, Measured
<1>10. ReadsWhatWasWritten'
  BY <1>1, <1>9 DEF ControlInv, ReadsWhatWasWritten, Measured
<1>11. MadeIsUsable'
  BY <1>1 DEF ControlInv, MadeIsUsable
<1> QED BY <1>5, <1>7, <1>8, <1>10, <1>11 DEF ControlInv

LEMMA RecordsStopKeeps == ASSUME ControlInv, RecordsStop PROVE ControlInv'
BY RefusalKeeps DEF RecordsStop, ControlInv, ControlTyped

LEMMA AcceptKeeps == ASSUME ControlInv, Accept PROVE ControlInv'
BY DEF Accept, ControlInv, ControlTyped, Counted, Measured, MadeIsUsable, ReservedAsArrived,
       ReadsWhatWasWritten, Full, Usable, makerVars, headerVars

LEMMA UnchangedKeeps == ASSUME ControlInv, UNCHANGED controlVars PROVE ControlInv'
BY DEF controlVars, ControlInv, ControlTyped, Counted, Measured, MadeIsUsable,
       ReservedAsArrived, ReadsWhatWasWritten, HeaderLeft, HeaderCut, Full, Usable,
       makerVars, headerVars

LEMMA ControlKeeps == ASSUME ControlInv, ControlNext PROVE ControlInv'
<1>1. CASE ParseStep
  BY <1>1, FieldKeeps, BadLineKeeps, HeaderStopsKeeps, HeaderEndsKeeps, ReadRecordKeeps,
     RecordsStopKeeps, AcceptKeeps DEF ParseStep
<1> QED BY <1>1, GenerateKeeps, WriteKeeps DEF ControlNext

-----------------------------------------------------------------------------
(* What the invariant says once a file is accepted. *)

LEMMA UsableWhenAccepted ==
    ASSUME ControlInv, at = "accepted"
    PROVE  AcceptedIsUsable
<1>1. blocksize \in Nat \ {0} /\ length \in Nat /\ UsableBlocksize(blocksize)
  BY UsableBlocksizeType DEF ControlInv, ControlTyped, Counted, Measured
<1>2. records = NumBlocks(length, blocksize) /\ records <= MaxBlocks
  BY DEF ControlInv, Counted, Measured
<1>3. records * blocksize >= length /\ length > (records - 1) * blocksize
  <2>1. /\ records \in Nat /\ length <= records * blocksize
        /\ records * blocksize < length + blocksize
    BY <1>1, <1>2, NumBlocksBounds
  <2>2. (records - 1) * blocksize = records * blocksize - blocksize
    BY <1>1, <2>1
  <2>3. records * blocksize \in Nat
    BY <1>1, <2>1
  <2> QED BY <1>1, <2>1, <2>2, <2>3
<1>4. \E k \in 0 .. blocksize : blocksize = 2 ^ k
  <2>1. PICK k \in 0 .. MaxBlocksize : blocksize = 2 ^ k
    BY <1>1 DEF UsableBlocksize, PowersOfTwo
  <2>2. k \in Nat
    BY ControlAssumption
  <2>3. k <= blocksize
    BY <2>1, <2>2, Power
  <2> QED BY <1>1, <2>1, <2>2, <2>3
<1>5. blocksize <= MaxBlocksize
  BY <1>1 DEF UsableBlocksize
<1>6. hash[1] \in {1, 2} /\ hash[2] \in 1 .. 4 /\ hash[3] \in 3 .. 16
  BY DEF ControlInv, ControlTyped, UsableHash
<1> QED BY <1>2, <1>3, <1>4, <1>5, <1>6 DEF AcceptedIsUsable

LEMMA WholeWhenAccepted ==
    ASSUME ControlInv, made # Nothing, at = "accepted"
    PROVE  whole
<1>1. /\ records = NumBlocks(length, blocksize) /\ blocksize # Absent /\ length # Absent
      /\ made = [blocksize |-> blocksize, length |-> length, hash |-> hash]
      /\ ~whole => body + records * Entry(hash) < Full
  BY DEF ControlInv, Counted, ReadsWhatWasWritten, Measured
<1>2. made.blocksize = blocksize /\ made.length = length /\ made.hash = hash
  BY <1>1
<1>3. Full = records * Entry(hash)
  BY <1>1, <1>2 DEF Full
<1>4. body \in Nat /\ records \in Nat /\ whole \in BOOLEAN /\ Entry(hash) \in Nat
  BY EntryType DEF ControlInv, ControlTyped
<1>5. records * Entry(hash) \in Nat
  BY <1>4
<1> QED BY <1>1, <1>3, <1>4, <1>5

\* A file written whole is refused only for having more blocks than are taken.
WholeIsAccepted ==
    at = "refused" /\ whole => NumBlocks(made.length, made.blocksize) > MaxBlocks

\* None of the lines zsyncmake writes is refused as it is read.
LEMMA NoBadLine ==
    ASSUME ControlInv, made # Nothing, HeaderLeft, NEW line, BadLine(line)
    PROVE  FALSE
<1>1. Usable(made) /\ ReadLine(line)
  BY DEF ControlInv, MadeIsUsable, BadLine
<1>2. PICK m \in Nat : m = Len(lines)
  BY DEF HeaderLeft
<1>3. PICK header : header = Header(made)
  OBVIOUS
<1>4. /\ header[1] = Plain /\ header[2] = Plain
      /\ header[3] = <<"Blocksize", made.blocksize>>
      /\ header[4] = <<"Length", made.length>>
      /\ header[5] = <<"Hash-Lengths", made.hash>>
      /\ header[6] = <<"URL", 0>> /\ header[7] = <<"SHA-1", 40>>
      /\ header[8] = Blank
  BY <1>1, <1>3, HeaderLines
<1>5. m \in 1 .. 8 /\ line = header[9 - m]
  BY <1>1, <1>2, <1>3, NextLine DEF HeaderLeft
<1>6. UsableBlocksize(made.blocksize) /\ made.length # Absent /\ UsableHash(made.hash)
  BY <1>1 DEF Usable, Absent
<1>7. 9 - m = 1 \/ 9 - m = 2 \/ 9 - m = 3 \/ 9 - m = 4 \/ 9 - m = 5 \/ 9 - m = 6
          \/ 9 - m = 7 \/ 9 - m = 8
  BY <1>5
<1>8. CASE line = Plain \/ line = Blank
  BY <1>8 DEF BadLine, Plain, Blank
<1>9. CASE line = <<"Blocksize", made.blocksize>> \/ line = <<"Length", made.length>>
  BY <1>6, <1>9 DEF BadLine
<1>10. CASE line = <<"Hash-Lengths", made.hash>>
  BY <1>6, <1>10 DEF BadLine
<1>11. CASE line = <<"URL", 0>> \/ line = <<"SHA-1", 40>>
  BY <1>11 DEF BadLine
<1> QED BY <1>4, <1>5, <1>7, <1>8, <1>9, <1>10, <1>11

LEMMA WholeStays ==
    ASSUME MaxHeader >= 8, ControlInv, WholeIsAccepted, ControlNext
    PROVE  WholeIsAccepted'
<1>1. ASSUME at = "header", whole PROVE made # Nothing /\ HeaderLeft
  BY <1>1 DEF ControlInv, MadeIsUsable, ReadsWhatWasWritten, HeaderCut
<1>2. CASE Generate
  BY <1>2 DEF Generate, ControlInv, MadeIsUsable, WholeIsAccepted
<1>3. CASE Write \/ ReadRecord \/ Accept
  BY <1>3 DEF Write, ReadRecord, Accept, WholeIsAccepted
<1>4. ASSUME NEW line, Field(line) PROVE WholeIsAccepted'
  BY <1>4, ReadLineTyped DEF Field, WholeIsAccepted, ControlInv
<1>5. ASSUME NEW line, BadLine(line) PROVE ~whole'
  <2>1. at = "header" /\ whole' = whole
    BY <1>5, ReadLineTyped DEF BadLine, ControlInv, makerVars
  <2> QED BY <1>1, <1>5, <2>1, NoBadLine
<1>6. CASE HeaderStops
  <2>1. SUFFICES ASSUME whole PROVE FALSE
    BY <1>6 DEF HeaderStops, WholeIsAccepted, makerVars
  <2>2. made # Nothing /\ HeaderLeft
    BY <1>1, <1>6, <2>1 DEF HeaderStops
  <2>3. Len(lines) \in 1 .. 8 /\ limit = MaxHeader + Len(lines) - 8
    BY <2>2 DEF HeaderLeft
  <2>4. limit # 0
    <3>1. PICK n \in 1 .. 8 : limit = MaxHeader + n - 8
      BY <2>3
    <3>2. MaxHeader \in Nat
      BY ControlAssumption
    <3> QED BY <3>1, <3>2
  <2>5. lines # <<>>
    <3>1. lines \in Seq(Line)
      BY DEF ControlInv, ControlTyped
    <3>2. CASE lines = <<>>
      BY <2>3, <3>2
    <3> QED BY <3>2
  <2> QED BY <1>6, <2>2, <2>4, <2>5 DEF HeaderStops, FromNetwork
<1>7. CASE HeaderEnds
  <2>1. SUFFICES ASSUME at' = "refused", whole
                 PROVE  NumBlocks(made.length, made.blocksize)' > MaxBlocks
    BY <1>7 DEF HeaderEnds, WholeIsAccepted, makerVars
  <2>2. at = "header" /\ made' = made
    BY <1>7, ReadLineTyped DEF HeaderEnds, ControlInv, makerVars
  <2>3. made # Nothing
    BY <1>1, <2>1, <2>2
  <2>4. Usable(made) /\ made = [blocksize |-> blocksize, length |-> length, hash |-> hash]
    BY <1>7, <2>3, BlankIsLast DEF HeaderEnds
  <2>5. made.blocksize = blocksize /\ made.length = length
    BY <2>4
  <2>6. blocksize # Absent /\ length # Absent
    BY <2>4, <2>5, UsableBlocksizeType DEF Usable, Absent
  <2> QED BY <1>7, <2>1, <2>2, <2>5, <2>6 DEF HeaderEnds
<1>8. CASE RecordsStop
  <2>1. SUFFICES ASSUME whole PROVE FALSE
    BY <1>8 DEF RecordsStop, WholeIsAccepted, makerVars
  <2>2. /\ at = "records" /\ records < NumBlocks(length, blocksize) /\ made # Nothing
        /\ body < Entry(hash)
    BY <1>8, <2>1 DEF RecordsStop, ControlInv, MadeIsUsable, FromNetwork
  <2>3. body + records * Entry(hash) = NumBlocks(length, blocksize) * Entry(hash)
    BY <2>1, <2>2, InRecords DEF ControlInv, ReadsWhatWasWritten, Measured
  <2>4. /\ records \in Nat /\ body \in Nat /\ Entry(hash) \in Nat
        /\ NumBlocks(length, blocksize) \in Nat
    BY <2>2, InRecords DEF ControlInv, ControlTyped
  <2>5. ASSUME NEW r \in Nat, NEW n \in Nat, NEW e \in Nat, r < n
        PROVE  r * e + e <= n * e /\ r * e \in Nat
    <3>1. PICK d \in Nat : n = r + 1 + d
      <4>1. n - (r + 1) \in Nat /\ n = r + 1 + (n - (r + 1))
        BY <2>5
      <4> QED BY <4>1
    <3>2. n * e = r * e + e + d * e /\ d * e \in Nat /\ r * e \in Nat
      BY <3>1
    <3> QED BY <3>2
  <2>6. /\ records * Entry(hash) + Entry(hash) <= NumBlocks(length, blocksize) * Entry(hash)
        /\ records * Entry(hash) \in Nat
    BY <2>2, <2>4, <2>5
  <2> QED BY <2>2, <2>3, <2>4, <2>6
<1>9. CASE ParseStep
  <2>1. ASSUME NEW line, BadLine(line) PROVE WholeIsAccepted'
    BY <1>5, <2>1 DEF WholeIsAccepted
  <2> QED BY <1>3, <1>4, <1>6, <1>7, <1>8, <1>9, <2>1 DEF ParseStep
<1> QED BY <1>2, <1>3, <1>9 DEF ControlNext

LEMMA ReadBack ==
    ASSUME ControlInv, at = "accepted", whole
    PROVE  /\ made = [blocksize |-> blocksize, length |-> length, hash |-> hash]
           /\ body = 0 /\ sha1 /\ url
<1>1. /\ records = NumBlocks(length, blocksize)
      /\ made = [blocksize |-> blocksize, length |-> length, hash |-> hash]
      /\ sha1 /\ url /\ body + records * Entry(hash) = Full
  BY DEF ControlInv, Counted, MadeIsUsable, ReadsWhatWasWritten, Measured
<1>2. made.blocksize = blocksize /\ made.length = length /\ made.hash = hash
  BY <1>1
<1>3. Full = records * Entry(hash)
  BY <1>1, <1>2 DEF Full
<1>4. body \in Nat /\ records \in Nat /\ Entry(hash) \in Nat
  BY EntryType DEF ControlInv, ControlTyped
<1>5. records * Entry(hash) \in Nat
  BY <1>4
<1> QED BY <1>1, <1>3, <1>4, <1>5
=============================================================================
