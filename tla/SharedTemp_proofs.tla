---------------------------- MODULE SharedTemp_proofs ----------------------------
(***************************************************************************)
(* For any number of assemblies on one path, with a SHA-1 or until a       *)
(* write fails: as long as the path is not taken from under an open one,   *)
(* the blocks of the output are right; and they are whatever is taken      *)
(* while no more than two have started.                                    *)
(***************************************************************************)
EXTENDS SharedTemp, FiniteSetTheorems, TLAPS

\* As long as no write failed, what an assembly counts as known is in the file at
\* the path, or still to be written.
Counted ==
    /\ \A p \in Procs :
           at[p] \in {"new", "work"} /\ handle[p] = None => known[p] = writing[p]
    /\ \A p \in Procs :
           Using(p) /\ at[p] \in {"work"} \cup Completing
               => known[p] \ writing[p] \subseteq right[path]

\* While nothing is undercut, all that is open is the file at the path, and it is
\* right once an assembly has checked it.
Sound ==
    /\ \A p \in Procs : Using(p) => path # None
    /\ \A p \in Procs : handle[p] # None => handle[p] = path
    /\ ~missed => Counted
    /\ \A p \in Procs : at[p] \in {"perms", "rename"} => right[path] = Blocks
    /\ \A p \in Procs : at[p] \in Completing => known[p] = Blocks /\ writing[p] = {}
    /\ \A p \in Procs :
           at[p] \in {"new", "perms", "rename", "gone", "dead"} => handle[p] = None
    /\ \A p \in Procs : at[p] \in {"cut", "verify"} => handle[p] # None
    /\ out # None => right[out] = Blocks

SoundUnlessUndercut == SharedTypeOK /\ (Told /\ ~undercut => Sound)

USE NoneIsNoFile

LEMMA InitSound == Init => SoundUnlessUndercut
<1> SUFFICES ASSUME Init PROVE SoundUnlessUndercut
  OBVIOUS
<1>1. SharedTypeOK
  <2>1. 0 \in Files
    BY SharedTempAssumption, FS_CardinalityType DEF Files
  <2> QED BY <2>1 DEF Init, SharedTypeOK
<1>2. Sound
  BY DEF Init, Sound, Counted, Using, Completing
<1> QED BY <1>1, <1>2 DEF SoundUnlessUndercut

\* What an assembly does leaves its own record and the others' sound.
LEMMA StepSound ==
    ASSUME SoundUnlessUndercut, NEW p \in Procs,
           \/ Find(p) \/ Open(p) \/ Write(p) \/ WriteFails(p) \/ Complete(p)
           \/ SetLen(p) \/ Verify(p) \/ CarryPermissions(p) \/ Rename(p) \/ Fail(p)
           \/ DropAssembly(p) \/ Kill(p)
    PROVE  SoundUnlessUndercut'
<1> USE DEF SoundUnlessUndercut, Told
<1>1. CASE Find(p)
  <2>1. SharedTypeOK'
    BY <1>1 DEF SharedTypeOK, Find, Go, Completing
  <2>2. ASSUME Told', ~undercut' PROVE Sound'
    <3>1. Sound /\ SharedTypeOK
      BY <1>1, <2>2 DEF Find
    <3>2. PICK found \in SUBSET Blocks :
            /\ writing' = [writing EXCEPT ![p] = found]
            /\ known' = [known EXCEPT ![p] = @ \cup found]
      BY <1>1 DEF Find
    <3>3. at' = [at EXCEPT ![p] = "work"] /\ at[p] \in {"new", "work"} /\ writing[p] = {}
      BY <1>1 DEF Find, Go
    <3>4. UNCHANGED <<handle, right, path, out, missed>>
      BY <1>1 DEF Find
    <3>5. \A q \in Procs : Using(q)' => Using(q)
      BY <3>1, <3>3, <3>4 DEF SharedTypeOK, Using
    <3>6. ~missed => \A q \in Procs :
             at'[q] \in {"new", "work"} /\ handle'[q] = None => known'[q] = writing'[q]
      BY <3>1, <3>2, <3>3, <3>4 DEF SharedTypeOK, Sound, Counted
    <3>7. ~missed => \A q \in Procs :
             Using(q)' /\ at'[q] \in {"work"} \cup Completing
                 => known'[q] \ writing'[q] \subseteq right'[path']
      <4> SUFFICES ASSUME ~missed,
                          NEW q \in Procs, Using(q)', at'[q] \in {"work"} \cup Completing
                   PROVE known'[q] \ writing'[q] \subseteq right'[path']
        OBVIOUS
      <4>1. CASE q # p
        BY <3>1, <3>2, <3>3, <3>4, <3>5, <4>1 DEF SharedTypeOK, Sound, Counted
      <4>2. CASE q = p
        <5>1. handle[p] # None /\ at[p] = "work"
          BY <3>1, <3>3, <3>4, <4>2 DEF SharedTypeOK, Sound, Using
        <5>2. known[p] \ writing[p] \subseteq right[path]
          BY <3>1, <5>1 DEF Sound, Counted, Using
        <5> QED BY <3>1, <3>2, <3>3, <3>4, <4>2, <5>2 DEF SharedTypeOK
      <4> QED BY <4>1, <4>2
    <3>8. \A q \in Procs : at'[q] \in Completing => known'[q] = Blocks /\ writing'[q] = {}
      BY <3>1, <3>2, <3>3 DEF SharedTypeOK, Sound, Completing
    <3> QED BY <3>1, <3>3, <3>4, <3>5, <3>6, <3>7, <3>8 DEF Sound, Counted, SharedTypeOK
  <2> QED BY <2>1, <2>2
<1>2. CASE Open(p)
  <2>1. SharedTypeOK'
    BY <1>2 DEF SharedTypeOK, Open, EnsureFile, Create, NeedsFile, Go, Completing
  <2>2. ASSUME Told', ~undercut' PROVE Sound'
    <3>1. Sound /\ SharedTypeOK
      BY <1>2, <2>2 DEF Open, EnsureFile, Create, NeedsFile
    <3> QED BY <1>2, <2>2, <3>1 DEF Sound, Counted, SharedTypeOK, Using, Open, EnsureFile, Create, NeedsFile, Go, Completing
  <2> QED BY <2>1, <2>2
<1>3. CASE Write(p)
  <2>1. SharedTypeOK'
    <3>1. PICK b \in writing[p] :
            /\ writing' = [writing EXCEPT ![p] = @ \ {b}]
            /\ right' = [right EXCEPT ![handle[p]] = @ \cup {b}]
            /\ \/ UNCHANGED long
               \/ long' = [long EXCEPT ![handle[p]] = TRUE]
      BY <1>3 DEF Write
    <3>2. b \in Blocks
      BY <3>1 DEF SharedTypeOK
    <3>3. right' \in [Files -> SUBSET Blocks]
      BY <3>1, <3>2 DEF SharedTypeOK
    <3>4. long' \in [Files -> BOOLEAN]
      BY <3>1 DEF SharedTypeOK
    <3>5. writing' \in [Procs -> SUBSET Blocks]
      BY <3>1 DEF SharedTypeOK
    <3> QED BY <1>3, <3>3, <3>4, <3>5 DEF SharedTypeOK, Write
  <2>2. ASSUME Told', ~undercut' PROVE Sound'
    <3>1. Sound /\ SharedTypeOK
      BY <1>3, <2>2 DEF Write
    <3>2. PICK b \in writing[p] : right' = [right EXCEPT ![handle[p]] = @ \cup {b}]
      BY <1>3 DEF Write
    <3>3. b \in Blocks /\ handle[p] \in Files /\ handle[p] = path
      BY <1>3, <3>1, <3>2 DEF SharedTypeOK, Sound, Write
    <3>4. right[path] = Blocks => right'[path] = Blocks
      BY <3>1, <3>2, <3>3 DEF SharedTypeOK
    <3>5. ~missed => Counted'
      BY <1>3, <3>1, <3>3 DEF Sound, Counted, SharedTypeOK, Using, Write, Completing
    <3>6. out # None => right'[out] = Blocks
      BY <3>1, <3>2, <3>3 DEF SharedTypeOK, Sound
    <3> QED BY <1>3, <3>1, <3>4, <3>5, <3>6 DEF Sound, SharedTypeOK, Using, Write
  <2> QED BY <2>1, <2>2
<1>4. CASE Complete(p)
  <2>1. SharedTypeOK'
    BY <1>4 DEF SharedTypeOK, Complete, Go, Completing
  <2>2. ASSUME Told', ~undercut' PROVE Sound'
    <3>1. Sound /\ SharedTypeOK
      BY <1>4, <2>2 DEF Complete
    <3> QED BY <1>4, <2>2, <3>1 DEF Sound, Counted, SharedTypeOK, Using, Complete, Go, Completing
  <2> QED BY <2>1, <2>2
<1>5. CASE SetLen(p)
  <2>1. SharedTypeOK'
    BY <1>5 DEF SharedTypeOK, SetLen, Go, Completing
  <2>2. ASSUME Told', ~undercut' PROVE Sound'
    <3>1. Sound /\ SharedTypeOK
      BY <1>5, <2>2 DEF SetLen
    <3> QED BY <1>5, <2>2, <3>1 DEF Sound, Counted, SharedTypeOK, Using, SetLen, Go, Completing
  <2> QED BY <2>1, <2>2
<1>6. CASE Verify(p)
  <2>1. SharedTypeOK'
    BY <1>6 DEF SharedTypeOK, Verify, Go, Completing
  <2>2. ASSUME Told', ~undercut' PROVE Sound'
    <3>1. Sound /\ SharedTypeOK
      BY <1>6, <2>2 DEF Verify
    <3>2. at[p] = "verify" /\ handle[p] = path /\ path # None
      BY <1>6, <3>1 DEF Verify, Sound
    <3>3. at'[p] = "perms" => right[path] = Blocks
      <4>1. CASE sha
        BY <1>6, <3>1, <3>2, <4>1 DEF Verify, Go, Whole, SharedTypeOK
      <4>2. CASE ~missed
        <5>1. known[p] \ writing[p] \subseteq right[path]
          BY <3>1, <3>2, <4>2 DEF Sound, Counted, Using, Completing
        <5>2. known[p] = Blocks /\ writing[p] = {}
          BY <3>1, <3>2 DEF Sound, Completing
        <5>3. right[path] \subseteq Blocks
          BY <3>1, <3>2 DEF SharedTypeOK
        <5> QED BY <5>1, <5>2, <5>3
      <4> QED BY <1>6, <2>2, <4>1, <4>2 DEF Told, Verify
    <3> QED BY <1>6, <3>1, <3>2, <3>3
            DEF Sound, Counted, SharedTypeOK, Using, Verify, Go, Completing
  <2> QED BY <2>1, <2>2
<1>7. CASE CarryPermissions(p)
  <2>1. SharedTypeOK'
    BY <1>7 DEF SharedTypeOK, CarryPermissions, Go, Completing
  <2>2. ASSUME Told', ~undercut' PROVE Sound'
    <3>1. Sound /\ SharedTypeOK
      BY <1>7, <2>2 DEF CarryPermissions
    <3> QED BY <1>7, <2>2, <3>1 DEF Sound, Counted, SharedTypeOK, Using, CarryPermissions, Go, Completing
  <2> QED BY <2>1, <2>2
<1>8. CASE Rename(p)
  <2>1. SharedTypeOK'
    BY <1>8 DEF SharedTypeOK, Rename, TakePath, Go, Completing
  <2>2. ASSUME Told', ~undercut' PROVE Sound'
    <3>1. Sound /\ SharedTypeOK
      BY <1>8, <2>2 DEF Rename, TakePath
    <3>2. path # None /\ out' = path /\ path' = None
      BY <1>8, <3>1 DEF Rename, TakePath, Sound, Using
    <3>3. at[p] = "rename" /\ at' = [at EXCEPT ![p] = "drop"]
      BY <1>8 DEF Rename, Go
    <3>4. UNCHANGED <<known, writing, handle, right, missed>>
      BY <1>8 DEF Rename
    <3>5. \A q \in Procs \ {p} : ~Using(q)
      BY <1>8, <2>2, <3>2 DEF Rename, TakePath
    <3>6. right[path] = Blocks
      BY <3>1, <3>3 DEF Sound
    <3>7. \A q \in Procs : handle[q] = None /\ ~Using(q)'
      <4> SUFFICES ASSUME NEW q \in Procs PROVE handle[q] = None /\ ~Using(q)'
        OBVIOUS
      <4>1. CASE q # p
        BY <3>1, <3>3, <3>4, <3>5, <4>1 DEF SharedTypeOK, Using
      <4>2. CASE q = p
        BY <3>1, <3>3, <3>4, <4>2 DEF SharedTypeOK, Using, Sound
      <4> QED BY <4>1, <4>2
    <3>8. \A q \in Procs : at'[q] \notin {"perms", "rename"}
      BY <3>7 DEF Using
    <3> QED BY <3>1, <3>2, <3>3, <3>4, <3>6, <3>7, <3>8
            DEF Sound, Counted, SharedTypeOK, Completing
  <2> QED BY <2>1, <2>2
<1>9. CASE Fail(p)
  <2>1. SharedTypeOK'
    BY <1>9 DEF SharedTypeOK, Fail, Go, Completing
  <2>2. ASSUME Told', ~undercut' PROVE Sound'
    <3>1. Sound /\ SharedTypeOK
      BY <1>9, <2>2 DEF Fail
    <3> QED BY <1>9, <2>2, <3>1 DEF Sound, Counted, SharedTypeOK, Using, Fail, Go, Completing
  <2> QED BY <2>1, <2>2
<1>10. CASE DropAssembly(p)
  <2>1. SharedTypeOK'
    BY <1>10 DEF SharedTypeOK, DropAssembly, TakePath, Go, Completing
  <2>2. ASSUME Told', ~undercut' PROVE Sound'
    <3>1. Sound /\ SharedTypeOK
      BY <1>10, <2>2 DEF DropAssembly, TakePath
    <3> QED BY <1>10, <2>2, <3>1 DEF Sound, Counted, SharedTypeOK, Using, DropAssembly, TakePath, Go, Completing
  <2> QED BY <2>1, <2>2
<1>11. CASE Kill(p)
  <2>1. SharedTypeOK'
    BY <1>11 DEF SharedTypeOK, Kill, Go, Completing
  <2>2. ASSUME Told', ~undercut' PROVE Sound'
    <3>1. Sound /\ SharedTypeOK
      BY <1>11, <2>2 DEF Kill
    <3> QED BY <1>11, <2>2, <3>1 DEF Sound, Counted, SharedTypeOK, Using, Kill, Go, Completing
  <2> QED BY <2>1, <2>2
<1>12. CASE WriteFails(p)
  <2>1. SharedTypeOK'
    BY <1>12 DEF SharedTypeOK, WriteFails
  <2>2. ASSUME Told', ~undercut' PROVE Sound'
    <3>1. Sound /\ SharedTypeOK
      BY <1>12, <2>2 DEF WriteFails
    <3>2. missed' /\ at[p] = "work" /\ writing' = [writing EXCEPT ![p] = {}]
      BY <1>12 DEF WriteFails
    <3>3. UNCHANGED <<at, known, handle, right, path, out>>
      BY <1>12 DEF WriteFails
    <3> QED BY <3>1, <3>2, <3>3 DEF Sound, SharedTypeOK, Using, Completing
  <2> QED BY <2>1, <2>2
<1> QED BY <1>1, <1>2, <1>3, <1>4, <1>5, <1>6, <1>7, <1>8, <1>9, <1>10, <1>11, <1>12

\* In every state the output's blocks are the target's, unless an assembly was
\* undercut: opening does not truncate, and writes only add.  With a SHA-1 this
\* is so whatever fails, without one until a write does.
THEOREM UndisturbedIsRight == Spec => []UndisturbedBlocksAreRight
<1>1. Init => SoundUnlessUndercut
  BY InitSound
<1>2. SoundUnlessUndercut /\ [Next]_vars => SoundUnlessUndercut'
  <2> SUFFICES ASSUME SoundUnlessUndercut, [Next]_vars PROVE SoundUnlessUndercut'
    OBVIOUS
  <2>1. CASE Next
    BY <2>1, StepSound DEF Next
  <2>2. CASE UNCHANGED vars
    BY <2>2 DEF vars, SoundUnlessUndercut, SharedTypeOK, Told, Sound, Counted, Using
  <2> QED BY <2>1, <2>2
<1>3. SoundUnlessUndercut => UndisturbedBlocksAreRight
  BY DEF SoundUnlessUndercut, Sound, UndisturbedBlocksAreRight
<1> QED BY <1>1, <1>2, <1>3, PTL DEF Spec

-----------------------------------------------------------------------------
(* Two assemblies, however they end. *)

\* No three assemblies have started.
TwoOnly == \A a, b, c \in Started : a = b \/ b = c \/ a = c

Ended(p) == at[p] \in {"drop", "gone", "dead"}

\* As Counted, of the file that each assembly has open.
CountedOwn ==
    /\ \A p \in Procs :
           at[p] \in {"new", "work"} /\ handle[p] = None => known[p] = writing[p]
    /\ \A p \in Procs :
           handle[p] # None /\ at[p] \in {"work"} \cup Completing
               => known[p] \ writing[p] \subseteq right[handle[p]]

\* The path is empty under an open assembly only once the other has ended, so
\* nobody is left to put another file there.
Paired ==
    /\ \A p \in Procs : Using(p) /\ path = None => \E r \in Procs \ {p} : Ended(r)
    /\ \A p \in Procs : handle[p] # None /\ path # None => handle[p] = path
    /\ ~missed => CountedOwn
    /\ \A p \in Procs : at[p] \in Completing => known[p] = Blocks /\ writing[p] = {}
    /\ \A p \in Procs :
           at[p] \in {"perms", "rename"} /\ path # None => right[path] = Blocks
    /\ \A p \in Procs :
           at[p] \in {"new", "perms", "rename", "gone", "dead"} => handle[p] = None
    /\ \A p \in Procs : at[p] \in {"cut", "verify"} => handle[p] # None
    /\ out # None => right[out] = Blocks

SoundForTwo == SharedTypeOK /\ (Told /\ TwoOnly => Paired)

LEMMA OneMore ==
    ASSUME NEW S, IsFiniteSet(S), NEW x, x \notin S
    PROVE  Cardinality(S \cup {x}) = Cardinality(S) + 1 /\ IsFiniteSet(S \cup {x})
BY FS_AddElement

LEMMA AtMostTwoOnly ==
    ASSUME Cardinality(Started) <= 2
    PROVE  TwoOnly
<1> SUFFICES ASSUME NEW a \in Started, NEW b \in Started, NEW c \in Started,
                    a # b, b # c, a # c
             PROVE  FALSE
  BY DEF TwoOnly
<1>1. IsFiniteSet(Started)
  BY SharedTempAssumption, FS_Subset DEF Started
<1>2. Cardinality({a}) = 1 /\ IsFiniteSet({a})
  BY FS_Singleton
<1>3. Cardinality({a} \cup {b}) = 2 /\ IsFiniteSet({a} \cup {b})
  <2>1. b \notin {a}
    OBVIOUS
  <2>2. Cardinality({a} \cup {b}) = Cardinality({a}) + 1 /\ IsFiniteSet({a} \cup {b})
    BY <1>2, <2>1, OneMore, Zenon
  <2> QED BY <1>2, <2>2
<1>4. Cardinality(({a} \cup {b}) \cup {c}) = 3
  <2>1. c \notin {a} \cup {b}
    OBVIOUS
  <2>2. Cardinality(({a} \cup {b}) \cup {c}) = Cardinality({a} \cup {b}) + 1
    BY <1>3, <2>1, OneMore, Zenon
  <2> QED BY <1>3, <2>2
<1>5. Cardinality(({a} \cup {b}) \cup {c}) <= Cardinality(Started)
  <2>1. (({a} \cup {b}) \cup {c}) \subseteq Started
    OBVIOUS
  <2> QED BY <1>1, <2>1, FS_Subset
<1>6. Cardinality(Started) \in Nat
  BY <1>1, FS_CardinalityType
<1> QED BY <1>4, <1>5, <1>6

LEMMA InitSoundForTwo == Init => SoundForTwo
<1> SUFFICES ASSUME Init PROVE SoundForTwo
  OBVIOUS
<1>1. SharedTypeOK
  BY InitSound DEF SoundUnlessUndercut
<1>2. Paired
  BY DEF Init, Paired, CountedOwn, Using, Completing
<1> QED BY <1>1, <1>2 DEF SoundForTwo

\* A step of one of two assemblies: no assembly is ever new again.
LEMMA StepSoundForTwo ==
    ASSUME SoundForTwo, SharedTypeOK', NEW p \in Procs,
           \/ Find(p) \/ Open(p) \/ Write(p) \/ WriteFails(p) \/ Complete(p)
           \/ SetLen(p) \/ Verify(p) \/ CarryPermissions(p) \/ Rename(p) \/ Fail(p)
           \/ DropAssembly(p) \/ Kill(p)
    PROVE  SoundForTwo'
<1> SUFFICES ASSUME Told', TwoOnly' PROVE Paired'
  BY DEF SoundForTwo
<1>1. Started \subseteq Started'
  BY DEF SoundForTwo, SharedTypeOK, Started, Go, Completing, Find, Open, Write,
         WriteFails, Complete, SetLen, Verify, CarryPermissions, Rename, Fail, DropAssembly, Kill
<1>2. Told /\ TwoOnly /\ Paired /\ SharedTypeOK
  <2>1. Told
    BY DEF Told, Find, Open, Write, WriteFails, Complete, SetLen, Verify, CarryPermissions,
           Rename, Fail, DropAssembly, Kill
  <2> QED BY <1>1, <2>1 DEF TwoOnly, SoundForTwo
<1>3. CASE Find(p)
  <2>1. PICK found \in SUBSET Blocks :
          /\ writing' = [writing EXCEPT ![p] = found]
          /\ known' = [known EXCEPT ![p] = @ \cup found]
    BY <1>3 DEF Find
  <2>2. at' = [at EXCEPT ![p] = "work"] /\ at[p] \in {"new", "work"} /\ writing[p] = {}
    BY <1>3 DEF Find, Go
  <2>3. UNCHANGED <<handle, right, path, out, missed>>
    BY <1>3 DEF Find
  <2>4. \A q \in Procs : Using(q)' => Using(q)
    BY <1>2, <2>2, <2>3 DEF SharedTypeOK, Using
  <2>5. \A q \in Procs : Ended(q) => Ended(q)'
    BY <1>2, <2>2 DEF SharedTypeOK, Ended
  <2>6. ~missed => \A q \in Procs :
           at'[q] \in {"new", "work"} /\ handle'[q] = None => known'[q] = writing'[q]
    <3> SUFFICES ASSUME ~missed
                 PROVE  \A q \in Procs : at'[q] \in {"new", "work"} /\ handle'[q] = None
                                            => known'[q] = writing'[q]
      OBVIOUS
    <3>1. handle[p] = None => known[p] = {}
      BY <1>2, <2>2 DEF Paired, CountedOwn
    <3>2. handle[p] = None => known'[p] = writing'[p]
      BY <1>2, <2>1, <3>1 DEF SharedTypeOK
    <3>3. \A q \in Procs \ {p} : /\ at'[q] = at[q] /\ handle'[q] = handle[q]
                                 /\ known'[q] = known[q] /\ writing'[q] = writing[q]
      BY <1>2, <2>1, <2>2, <2>3 DEF SharedTypeOK
    <3> QED BY <1>2, <2>3, <3>2, <3>3 DEF Paired, CountedOwn
  <2>7. ~missed => \A q \in Procs :
           handle'[q] # None /\ at'[q] \in {"work"} \cup Completing
               => known'[q] \ writing'[q] \subseteq right'[handle'[q]]
    <3> SUFFICES ASSUME ~missed,
                        NEW q \in Procs, handle[q] # None,
                        at'[q] \in {"work"} \cup Completing
                 PROVE  known'[q] \ writing'[q] \subseteq right[handle[q]]
      BY <2>3
    <3>1. CASE q # p
      BY <1>2, <2>1, <2>2, <3>1 DEF SharedTypeOK, Paired, CountedOwn
    <3>2. CASE q = p
      <4>1. at[p] = "work"
        BY <1>2, <2>2, <3>2 DEF Paired
      <4>2. known[p] \subseteq right[handle[p]]
        BY <1>2, <2>2, <3>2, <4>1 DEF Paired, CountedOwn
      <4> QED BY <1>2, <2>1, <3>2, <4>2 DEF SharedTypeOK
    <3> QED BY <3>1, <3>2
  <2>8. \A q \in Procs : at'[q] \in Completing => known'[q] = Blocks /\ writing'[q] = {}
    BY <1>2, <2>1, <2>2 DEF SharedTypeOK, Paired, Completing
  <2> QED BY <1>2, <2>2, <2>3, <2>4, <2>5, <2>6, <2>7, <2>8 DEF Paired, CountedOwn, SharedTypeOK
<1>4. CASE Open(p)
  BY <1>2, <1>4 DEF Paired, CountedOwn, Ended, SharedTypeOK, Using, Go, Completing, Open,
                    EnsureFile, Create, NeedsFile, TwoOnly, Started
<1>5. CASE Write(p)
  BY <1>2, <1>5 DEF Paired, CountedOwn, Ended, SharedTypeOK, Using, Go, Completing, Write
<1>6. CASE Complete(p)
  BY <1>2, <1>6 DEF Paired, CountedOwn, Ended, SharedTypeOK, Using, Go, Completing, Complete
<1>7. CASE SetLen(p)
  BY <1>2, <1>7 DEF Paired, CountedOwn, Ended, SharedTypeOK, Using, Go, Completing, SetLen
<1>8. CASE Verify(p)
  <2>1. at[p] = "verify" /\ handle[p] # None
    BY <1>2, <1>8 DEF Verify, Paired
  <2>2. at'[p] = "perms" => right[handle[p]] = Blocks
    <3>1. CASE sha
      BY <1>2, <1>8, <2>1, <3>1 DEF Verify, Go, Whole, SharedTypeOK
    <3>2. CASE ~missed
      <4>1. known[p] = Blocks /\ writing[p] = {}
        BY <1>2, <2>1 DEF Paired, Completing
      <4>2. Blocks \ {} \subseteq right[handle[p]]
        BY <1>2, <2>1, <3>2, <4>1 DEF Paired, CountedOwn, Completing
      <4>3. right[handle[p]] \subseteq Blocks
        BY <1>2, <2>1 DEF SharedTypeOK
      <4> QED BY <4>2, <4>3
    <3> QED BY <1>2, <3>1, <3>2 DEF Told
  <2>3. at'[p] = "perms" /\ path # None => right[path] = Blocks
    BY <1>2, <2>1, <2>2 DEF Paired
  <2> QED BY <1>2, <1>8, <2>1, <2>3
          DEF Paired, CountedOwn, Ended, SharedTypeOK, Using, Go, Completing, Verify
<1>9. CASE CarryPermissions(p)
  BY <1>2, <1>9 DEF Paired, CountedOwn, Ended, SharedTypeOK, Using, Go, Completing, CarryPermissions
<1>10. CASE Rename(p)
  <2>1. at[p] = "rename" /\ at' = [at EXCEPT ![p] = "drop"] /\ handle[p] = None
    BY <1>2, <1>10 DEF Rename, Go, Paired
  <2>2. UNCHANGED <<known, writing, handle, right, missed>> /\ path' = None
    BY <1>10 DEF Rename, TakePath
  <2>3. out' = out \/ (path # None /\ out' = path)
    BY <1>10 DEF Rename
  <2>4. out' # None => right[out'] = Blocks
    BY <1>2, <2>1, <2>3 DEF Paired
  <2>5. \A q \in Procs : Using(q)' => \E r \in Procs \ {q} : Ended(r)'
    BY <1>2, <2>1, <2>2 DEF Using, Ended, SharedTypeOK
  <2> QED BY <1>2, <2>1, <2>2, <2>4, <2>5 DEF Paired, CountedOwn, SharedTypeOK, Completing
<1>11. CASE Fail(p)
  BY <1>2, <1>11 DEF Paired, CountedOwn, Ended, SharedTypeOK, Using, Go, Completing, Fail
<1>12. CASE DropAssembly(p)
  BY <1>2, <1>12 DEF Paired, CountedOwn, Ended, SharedTypeOK, Using, Go, Completing, DropAssembly, TakePath
<1>13. CASE Kill(p)
  BY <1>2, <1>13 DEF Paired, CountedOwn, Ended, SharedTypeOK, Using, Go, Completing, Kill
<1>14. CASE WriteFails(p)
  <2>1. missed' /\ at[p] = "work" /\ writing' = [writing EXCEPT ![p] = {}]
    BY <1>14 DEF WriteFails
  <2>2. UNCHANGED <<at, known, handle, right, path, out>>
    BY <1>14 DEF WriteFails
  <2> QED BY <1>2, <2>1, <2>2 DEF Paired, Ended, SharedTypeOK, Using, Completing
<1> QED BY <1>3, <1>4, <1>5, <1>6, <1>7, <1>8, <1>9, <1>10, <1>11, <1>12, <1>13, <1>14

\* With two assemblies at most, the output's blocks are the target's whatever
\* either does to the path under the other, under the same condition.
THEOREM TwoAreRight == Spec => []TwoLeaveRightBlocks
<1>1. Init => SoundUnlessUndercut /\ SoundForTwo
  BY InitSound, InitSoundForTwo
<1>2. SoundUnlessUndercut /\ SoundForTwo /\ [Next]_vars
        => (SoundUnlessUndercut /\ SoundForTwo)'
  <2> SUFFICES ASSUME SoundUnlessUndercut, SoundForTwo, [Next]_vars
               PROVE  SoundUnlessUndercut' /\ SoundForTwo'
    OBVIOUS
  <2>1. CASE Next
    <3>1. SoundUnlessUndercut'
      BY <2>1, StepSound DEF Next
    <3>2. SharedTypeOK'
      BY <3>1 DEF SoundUnlessUndercut
    <3> QED BY <2>1, <3>1, <3>2, StepSoundForTwo DEF Next
  <2>2. CASE UNCHANGED vars
    BY <2>2 DEF vars, SoundUnlessUndercut, SharedTypeOK, Sound, Using, SoundForTwo,
                Told, Counted, TwoOnly, Started, Paired, CountedOwn, Ended
  <2> QED BY <2>1, <2>2
<1>3. SoundForTwo => TwoLeaveRightBlocks
  BY AtMostTwoOnly DEF SoundForTwo, Paired, TwoLeaveRightBlocks
<1> QED BY <1>1, <1>2, <1>3, PTL DEF Spec
==============================================================================
