------------------------------- MODULE SharedTemp -------------------------------
(***************************************************************************)
(* Several assemblies of one output path (src/src/assembly.rs).  The       *)
(* temporary path is derived from the output's, so they share it: what one *)
(* writes, renames or removes there is whatever file is there at the time, *)
(* while its handle stays on the file it opened.  Nothing locks the path.  *)
(*                                                                         *)
(* The calls are those of Assembly, coarser: any block may be found or     *)
(* downloaded at any time, a write may fail and its assembly go on, an     *)
(* assembly may be given up at any time, and a process may be killed.      *)
(* Left out: power losses, and bodies cut short in a block.                *)
(***************************************************************************)
EXTENDS Integers, FiniteSets

CONSTANTS
    Procs,      \* the assemblies, each in a process of its own
    NBlocks,    \* blocks in the target, the same for all of them
    Partial,    \* whether the last one is short
    StaleTemp,  \* whether a file may be there before any of them starts
    None        \* no file

ASSUME SharedTempAssumption ==
    /\ NBlocks \in Nat \ {0}
    /\ IsFiniteSet(Procs)
    /\ Partial \in BOOLEAN /\ StaleTemp \in BOOLEAN

Blocks == 0 .. NBlocks - 1
Files == 0 .. Cardinality(Procs)    \* each assembly creates one at most

ASSUME NoneIsNoFile == None \notin Files

VARIABLES
    sha,      \* whether the control file carries a SHA-1
    at,       \* where each assembly is
    known,    \* its known blocks
    writing,  \* the blocks it has marked known and not written yet
    handle,   \* its self.file
    right,    \* of each file, the blocks that hold the target's bytes
    long,     \* and whether it is longer than the target
    used,     \* the files created so far
    path,     \* the file at the temporary path
    out,      \* the file at the output path, None for the one replaced
    undercut, \* history: the path was taken from under an open assembly
    missed    \* history: a write of a scan or a download failed

vars == <<sha, at, known, writing, handle, right, long, used, path, out, undercut, missed>>

Completing == {"cut", "verify", "perms", "rename"}

SharedTypeOK ==
    /\ at \in [Procs -> {"new", "work", "drop", "gone", "dead"} \cup Completing]
    /\ known \in [Procs -> SUBSET Blocks]
    /\ writing \in [Procs -> SUBSET Blocks]
    /\ handle \in [Procs -> Files \cup {None}]
    /\ right \in [Files -> SUBSET Blocks] /\ long \in [Files -> BOOLEAN]
    /\ used \subseteq Files
    /\ path \in used \cup {None} /\ out \in used \cup {None}
    /\ sha \in BOOLEAN /\ undercut \in BOOLEAN /\ missed \in BOOLEAN

Init ==
    /\ sha \in BOOLEAN
    /\ at = [p \in Procs |-> "new"]
    /\ known = [p \in Procs |-> {}] /\ writing = [p \in Procs |-> {}]
    /\ handle = [p \in Procs |-> None]
    /\ long = [f \in Files |-> FALSE]
    /\ \/ /\ path = None /\ used = {}
          /\ right = [f \in Files |-> {}]
       \/ /\ StaleTemp /\ path = 0 /\ used = {0}
          /\ \E kept \in SUBSET Blocks :
                 right = [f \in Files |-> IF f = 0 THEN kept ELSE {}]
    /\ out = None
    /\ undercut = FALSE /\ missed = FALSE

Go(p, place) == at' = [at EXCEPT ![p] = place]

\* A scan or a download marks blocks known before it writes them.
Find(p) ==
    /\ at[p] \in {"new", "work"} /\ writing[p] = {}
    /\ \E found \in SUBSET (Blocks \ known[p]) \ {{}} :
        /\ writing' = [writing EXCEPT ![p] = found]
        /\ known' = [known EXCEPT ![p] = @ \cup found]
    /\ Go(p, "work")
    /\ UNCHANGED <<sha, handle, right, long, used, path, out, undercut, missed>>

\* A file that was not there before; the number only names it.
Create(p) ==
    \E f \in Files \ used :
        /\ \A g \in Files \ used : f <= g
        /\ path' = f /\ used' = used \cup {f}
        /\ handle' = [handle EXCEPT ![p] = f]
        /\ UNCHANGED <<right, long>>

\* Mistake: the file is emptied on opening.
OpenTruncated(p) ==
    IF path = None THEN Create(p)
    ELSE /\ handle' = [handle EXCEPT ![p] = path]
         /\ right' = [right EXCEPT ![path] = {}] /\ long' = [long EXCEPT ![path] = FALSE]
         /\ UNCHANGED <<path, used>>

\* Mistake: a file found there is replaced by one of its own.
OpenAnew(p) == Create(p)

\* ensure_file opens what is at the path and does not truncate it, or creates
\* a file there.
EnsureFile(p) ==
    IF path = None THEN Create(p)
    ELSE /\ handle' = [handle EXCEPT ![p] = path]
         /\ UNCHANGED <<right, long, used, path>>

\* complete() opens it too, if no write of this assembly did.
NeedsFile(p) == writing[p] # {} \/ known[p] = Blocks

Open(p) ==
    /\ at[p] = "work" /\ handle[p] = None
    /\ NeedsFile(p)
    /\ EnsureFile(p)
    /\ UNCHANGED <<sha, at, known, writing, out, undercut, missed>>

\* A scan writes a short last block with its padding, a download without.
Write(p) ==
    /\ at[p] = "work" /\ handle[p] # None
    /\ \E b \in writing[p] :
        /\ writing' = [writing EXCEPT ![p] = @ \ {b}]
        /\ right' = [right EXCEPT ![handle[p]] = @ \cup {b}]
        /\ \/ UNCHANGED long
           \/ Partial /\ b = NBlocks - 1 /\ long' = [long EXCEPT ![handle[p]] = TRUE]
    /\ UNCHANGED <<sha, at, known, handle, used, path, out, undercut, missed>>

\* ensure_file or a write fails: what has not been written of the chunk stays
\* known and is never written, and the assembly may go on, as main does after a
\* scan.  Bytes written before the failure are the target's, so they make no
\* block wrong; a padded last block may get beyond the end.
WriteFails(p) ==
    /\ at[p] = "work" /\ writing[p] # {}
    /\ writing' = [writing EXCEPT ![p] = {}]
    /\ \/ UNCHANGED long
       \/ /\ handle[p] # None
          /\ Partial /\ NBlocks - 1 \in writing[p]
          /\ long' = [long EXCEPT ![handle[p]] = TRUE]
    /\ missed' = TRUE
    /\ UNCHANGED <<sha, at, known, handle, right, used, path, out, undercut>>

Complete(p) ==
    /\ at[p] = "work" /\ known[p] = Blocks /\ writing[p] = {}
    /\ handle[p] # None
    /\ Go(p, "cut")
    /\ UNCHANGED <<sha, known, writing, handle, right, long, used, path, out, undercut, missed>>

SetLen(p) ==
    /\ at[p] = "cut"
    /\ long' = [long EXCEPT ![handle[p]] = FALSE]
    /\ Go(p, "verify")
    /\ UNCHANGED <<sha, known, writing, handle, right, used, path, out, undercut, missed>>

Whole(f) == right[f] = Blocks /\ ~long[f]   \* the digests agree

\* Mistake: the digest is computed and never compared.
VerifyNothing(p) ==
    /\ at[p] = "verify"
    /\ Go(p, "perms") /\ handle' = [handle EXCEPT ![p] = None]
    /\ UNCHANGED <<sha, known, writing, right, long, used, path, out, undercut, missed>>

\* The digest is of the file the handle is on, which is then flushed and closed.
Verify(p) ==
    /\ at[p] = "verify"
    /\ IF sha /\ ~Whole(handle[p])
       THEN Go(p, "drop") /\ UNCHANGED handle
       ELSE Go(p, "perms") /\ handle' = [handle EXCEPT ![p] = None]
    /\ UNCHANGED <<sha, known, writing, right, long, used, path, out, undercut, missed>>

\* Permissions are set by path, which fails with nothing there; the first
\* output may have no file to take permissions from.
CarryPermissions(p) ==
    /\ at[p] = "perms"
    /\ path # None \/ out = None
    /\ Go(p, "rename")
    /\ UNCHANGED <<sha, known, writing, handle, right, long, used, path, out, undercut, missed>>

\* An assembly that has opened its file and not ended.
Using(p) == handle[p] # None \/ at[p] \in {"perms", "rename"}

TakePath(p) ==
    /\ path' = None
    /\ undercut' =
        \/ undercut
        \/ path # None /\ \E q \in Procs \ {p} : Using(q)

Rename(p) ==
    /\ at[p] = "rename"
    /\ IF path = None THEN UNCHANGED <<out, path, undercut>>
                      ELSE out' = path /\ TakePath(p)
    /\ Go(p, "drop")
    /\ UNCHANGED <<sha, known, writing, handle, right, long, used, missed>>

\* The caller gives the assembly up, after a failure or without one, or a step of
\* complete() fails: it is dropped.
Fail(p) ==
    /\ at[p] \in {"new", "work"} \cup Completing
    /\ Go(p, "drop")
    /\ UNCHANGED <<sha, known, writing, handle, right, long, used, path, out, undercut, missed>>

\* Drop removes what is at the path, its own or not, even after the rename.
DropAssembly(p) ==
    /\ at[p] = "drop"
    /\ TakePath(p)
    /\ handle' = [handle EXCEPT ![p] = None]
    /\ Go(p, "gone")
    /\ UNCHANGED <<sha, known, writing, right, long, used, out, missed>>

Kill(p) ==
    /\ at[p] \notin {"new", "gone", "dead"}
    /\ handle' = [handle EXCEPT ![p] = None]
    /\ Go(p, "dead")
    /\ UNCHANGED <<sha, known, writing, right, long, used, path, out, undercut, missed>>

Next == \E p \in Procs :
    \/ Find(p) \/ Open(p) \/ Write(p) \/ WriteFails(p) \/ Complete(p) \/ SetLen(p)
    \/ Verify(p) \/ CarryPermissions(p) \/ Rename(p) \/ Fail(p) \/ DropAssembly(p) \/ Kill(p)

Spec == Init /\ [][Next]_vars

-----------------------------------------------------------------------------
(* Properties. *)

Started == {p \in Procs : at[p] # "new"}

\* What is claimed without a SHA-1 needs writes that do not fail: a block whose
\* write failed stays known, and nothing else tells.
Told == sha \/ ~missed

\* Assemblies that overlap put no wrong block in the output as long as none
\* renames or removes the path while another has its file open: they write the
\* same bytes to the same file, which opening does not truncate.  This holds with
\* a SHA-1 whatever fails, and without one until a write fails.  The length is
\* not safe: one may pad the file after another has cut it.
UndisturbedBlocksAreRight == Told /\ ~undercut /\ out # None => right[out] = Blocks

\* With two it holds whatever either takes from under the other, under the same
\* condition: one may make the other fail, but the file completed under its handle
\* and renamed by its path is the same one unless a third assembly has put
\* another there.
TwoLeaveRightBlocks ==
    Told /\ Cardinality(Started) <= 2 /\ out # None => right[out] = Blocks
==============================================================================
