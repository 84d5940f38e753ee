-------------------------------- MODULE Progress --------------------------------
(***************************************************************************)
(* The program with what it shows of its progress: Reporter and the calls  *)
(* main makes to it (src/src/bin/zsync.rs), composed with Cli.  The        *)
(* library's callbacks run inside its calls, on the thread that made them. *)
(*                                                                         *)
(* A count is <<done, total>>: chunks in a scan, blocks in the download,   *)
(* which stand for bytes.  The throttle depends on the clock, so a report  *)
(* after the first one of a phase may or may not be shown.                 *)
(***************************************************************************)
EXTENDS Cli

CONSTANTS
    Modes,      \* the modes tried, of "bar", "lines" and "json"
    Percents    \* whole percents in the total: 100 in the program

ASSUME ProgressAssumption ==
    /\ Modes \subseteq {"bar", "lines", "json"} /\ Modes # {}
    /\ Percents \in Nat

VARIABLES
    mode, phase, latest, lastPercent, barDrawn, finished,  \* Reporter's fields
    lastEmit,   \* last_emit.is_some()
    recent,     \* whether it may be within PROGRESS_INTERVAL
    scanned,    \* chunks of the file being scanned
    reported,   \* history: the count last reported to this phase
    shown,      \* history: the progress last shown of this phase
    torn        \* history: whether a message was written into a bar

phaseVars  == <<phase, latest, lastPercent, finished, lastEmit, recent, reported, shown>>
screenVars == <<barDrawn, torn>>
repVars    == <<mode, phaseVars, screenVars, scanned>>
progVars   == <<allVars, repVars>>

NoCount == <<>>
Nothing == [count |-> NoCount, final |-> FALSE]

\* whole_percent: nothing of nothing is all of it.
Percent(count) ==
    IF count[2] = 0 THEN Percents ELSE (count[1] * Percents) \div count[2]

New ==
    /\ mode \in Modes
    /\ phase = "download" /\ latest = NoCount /\ lastPercent = -1
    /\ finished = FALSE /\ lastEmit = FALSE /\ recent = FALSE
    /\ barDrawn = FALSE /\ torn = FALSE
    /\ scanned = 0 /\ reported = NoCount /\ shown = Nothing

Fresh(p) ==
    /\ phase' = p /\ latest' = NoCount /\ lastPercent' = -1
    /\ finished' = FALSE /\ lastEmit' = FALSE /\ recent' = FALSE
    /\ reported' = NoCount /\ shown' = Nothing

Begin(p) == Fresh(p) /\ UNCHANGED <<mode, barDrawn>>

Show(count, final) == shown' = [count |-> count, final |-> final]

RepeatsPercent(count) == mode = "lines" /\ Percent(count) = lastPercent

\* The throttle holds a report back, or lines mode would repeat itself.
HeldBack(count) ==
    /\ recent \/ RepeatsPercent(count)
    /\ UNCHANGED <<lastPercent, lastEmit, recent, shown, barDrawn>>

Emit(count) ==
    /\ ~RepeatsPercent(count)
    /\ lastEmit' = TRUE /\ recent' = TRUE /\ lastPercent' = Percent(count)
    /\ barDrawn' = (barDrawn \/ mode = "bar")
    /\ Show(count, FALSE)

\* Mistake: a report held back is forgotten.
ReportUnlessHeld(count) ==
    /\ ~finished
    /\ reported' = count
    /\ \/ HeldBack(count) /\ UNCHANGED latest
       \/ Emit(count) /\ latest' = count
    /\ UNCHANGED <<mode, phase, finished, torn>>

\* Reporter::progress.
ReportProgress(count) ==
    \/ finished /\ UNCHANGED <<mode, phaseVars, screenVars>>
    \/ /\ ~finished
       /\ reported' = count /\ latest' = count
       /\ HeldBack(count) \/ Emit(count)
       /\ UNCHANGED <<mode, phase, finished, torn>>

\* Reporter::finish.  Lines mode does not repeat its last line, and a phase
\* that showed nothing ends without a word except in json.
FinishWith(count) ==
    /\ ~finished
    /\ finished' = TRUE
    /\ IF \/ mode = "json"
          \/ mode = "bar" /\ barDrawn
          \/ mode = "lines" /\ lastEmit /\ Percent(count) # lastPercent
       THEN Show(count, mode = "json") ELSE UNCHANGED shown
    /\ barDrawn' = FALSE
    /\ UNCHANGED <<mode, phase, latest, lastPercent, lastEmit, recent, reported>>

FinishScan ==
    IF latest # NoCount THEN FinishWith(latest)
    ELSE /\ finished' = TRUE /\ barDrawn' = FALSE
         /\ UNCHANGED <<mode, phase, latest, lastPercent, lastEmit, recent, reported, shown>>

\* A message goes to the line the cursor is on.
Message(drawn) == torn' = (torn \/ drawn)

\* Mistake: the retry is announced without leaving the bar's line.
MessageInBar == Message(barDrawn) /\ UNCHANGED <<mode, phaseVars, barDrawn, scanned>>

\* emit_retry and emit_error leave the bar's line first.
EndBar ==
    /\ barDrawn' = FALSE
    /\ Message(FALSE)
    /\ UNCHANGED <<mode, phaseVars, scanned>>

-----------------------------------------------------------------------------
(* main's steps, with what each reports. *)

Silently == UNCHANGED repVars

\* Mistake: the phase of a scan that failed is left as it is.
ScanOverOrFailed == phase = "download" \/ finished \/ result # "ok"

\* A scan's phase is over before main goes on.
ScanOver == phase = "download" \/ finished

ScanReturned ==
    /\ at \in {"inputs", "self"} /\ pc = "idle"
    /\ ~ScanOver
    /\ FinishScan
    /\ UNCHANGED <<allVars, torn, scanned>>

FetchShown == Fetch /\ Silently

ScanInputShown ==
    /\ ScanOver
    /\ ScanInput
    /\ Begin("scan")
    /\ Message(barDrawn)
    /\ scanned' = chunks'

ScanSelfShown ==
    /\ ScanOver
    /\ ScanSelf
    /\ IF known # {} /\ known # Blocks
       THEN Begin("self_scan") /\ Message(barDrawn) /\ scanned' = chunks'
       ELSE Silently

BeginDownloadShown ==
    /\ ScanOver
    /\ BeginDownload
    /\ Begin("download")
    /\ Message(barDrawn)
    /\ UNCHANGED scanned

PassShown == (Attempt \/ PassReturned) /\ Silently

\* The wait before a retry is longer than the throttle's interval.
RetryShown ==
    /\ RetryPass
    /\ barDrawn' = FALSE
    /\ Message(FALSE)
    /\ recent' = FALSE
    /\ UNCHANGED <<mode, phase, latest, lastPercent, finished, lastEmit, reported,
                   shown, scanned>>

GiveUpShown == GiveUp /\ EndBar

\* Success is announced with the whole count and the next phase.
CheckShown ==
    /\ Check
    /\ IF known = Blocks
       THEN FinishWith(<<NBlocks, NBlocks>>) /\ Message(FALSE) /\ UNCHANGED scanned
       ELSE EndBar

ExitShown ==
    /\ Exit
    /\ IF at' = "exit1" /\ at = "completing" THEN EndBar
       ELSE Message(barDrawn) /\ UNCHANGED <<mode, phaseVars, barDrawn, scanned>>

\* The library reports after each chunk of a scan is dealt with, and after each
\* block of a download is written.
CallShown ==
    /\ CallStep
    /\ UNCHANGED scanned
    /\ IF pc \in ScanWrites /\ pc' \in ScanTops
       THEN ReportProgress(<<scanned - chunks, scanned>>)
       ELSE IF pc \in {"blockWrite", "tailWrite", "headWrite"} /\ pc' \in Passing
       THEN ReportProgress(<<Cardinality(known), NBlocks>>)
       ELSE UNCHANGED <<mode, phaseVars, screenVars>>

StoppedShown == Stopped /\ Silently

RunAgainShown ==
    /\ RunAgain
    /\ mode' \in Modes
    /\ Fresh("download")
    /\ barDrawn' = FALSE /\ torn' = FALSE /\ scanned' = 0

ProgStep == \/ FetchShown \/ ScanInputShown \/ ScanReturned \/ ScanSelfShown
            \/ BeginDownloadShown \/ PassShown \/ RetryShown \/ GiveUpShown
            \/ CheckShown \/ ExitShown \/ CallShown

ProgNext == ProgStep \/ StoppedShown \/ RunAgainShown

ProgInit == CliInit /\ New

\* As in Cli, the program runs on.
ProgSpec == ProgInit /\ [][ProgNext]_progVars /\ WF_progVars(ProgStep)

-----------------------------------------------------------------------------
(* Properties. *)

\* A phase that reported anything ends by showing what it reported last,
\* whatever the throttle held back: in json as its final event, in lines to the
\* percent.  A bar that was left for the message of a retry is drawn again before
\* the phase ends: a pass that brought the last block does not fail after it.
PhaseEndsWithLast ==
    finished /\ reported # NoCount =>
        /\ shown # Nothing
        /\ shown.final = (mode = "json")
        /\ IF mode = "lines" THEN Percent(shown.count) = Percent(reported)
                             ELSE shown.count = reported

\* No phase is left for the next, or for a successful exit, without its end:
\* the reporter keeps one phase, so what is not ended is lost.
EveryPhaseEnds ==
    [][at \notin Exited /\ reported # NoCount
           /\ (reported' = NoCount \/ at' = "exit0") => finished]_progVars

\* No message is written into a bar: whichever way a call ends, main leaves the
\* bar's line before it says so.
MessagesHaveTheirLine == ~torn
==============================================================================
