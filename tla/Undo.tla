-------------------------------- MODULE Undo --------------------------------
(***************************************************************************)
(* trajectory.py with the structured edits of executor.py: every edit of a *)
(* run leaves a record in memory, the end of a batch and an interrupt save  *)
(* the records to the journal and then the trajectory that refers to it,    *)
(* and mca undo applies the records of the journal, the last one first.     *)
(* A run may be interrupted or killed at any step and resumed, an undo may  *)
(* be killed and repeated, and others write the same files.                 *)
(* A trajectory path is used by one run and its resumptions.                *)
(***************************************************************************)
EXTENDS Integers, Sequences, FiniteSets

CONSTANTS
    Path, FileText, \* files and contents
    Absent,         \* no such file
    Unread,         \* undo has not looked at the file
    MaxFileEdits,   \* bound on the edits
    MaxOthers       \* bound on the files that others write, each once

ASSUME UndoAssumption == MaxFileEdits \in Nat /\ MaxOthers \in Nat

VARIABLES
    files,          \* Path -> content
    runner,         \* the run: its step, its records, the edit to be recorded
    journal,        \* the records on disk
    trajectory,     \* whether it refers to the journal, and the edits it reports
    undo,           \* the undo: its step, what is left to do and what it knows
    baseline,       \* the contents before the first run (history)
    fileEdits,      \* number of edits (history)
    others          \* files that others wrote (history)

undoVars == <<files, runner, journal, trajectory, undo, baseline, fileEdits, others>>

FileContent == FileText \cup {Absent}

Off == [pc |-> "off", records |-> <<>>, edit |-> <<>>, reported |-> 0, ends |-> FALSE]

NoUndo == [pc |-> "off", left |-> 0, force |-> FALSE, known |-> [f \in Path |-> Unread]]

Running(pc) == runner.pc = pc /\ undo.pc = "off"

\* The trajectory goes before the journal that it refers to.
TrajectoryFirst == <<"trajectory", "journal">>

(* _checkpoint *)
SaveOrder == <<"journal", "trajectory">>

AfterSave(pc) == IF pc = SaveOrder[1] THEN SaveOrder[2] ELSE "batch"

(* run, and _restore_state of a resumption, which loads the records. *)
StartRun ==
    /\ Running("off")
    /\ runner' = [Off EXCEPT !.pc = "batch", !.reported = trajectory.reported,
                             !.records = IF trajectory.journaled THEN journal ELSE <<>>]
    /\ UNCHANGED <<files, journal, trajectory, undo, baseline, fileEdits, others>>

(* write_file, apply_patch, replace_lines: the file is read, and replaced by a *)
(* rename; only write_file makes a new one.                                    *)
EditFile(f, text) ==
    /\ Running("batch") /\ ~runner.ends /\ runner.edit = <<>> /\ fileEdits < MaxFileEdits
    /\ files' = [files EXCEPT ![f] = text]
    /\ runner' = [runner EXCEPT !.edit = <<[path |-> f, before |-> files[f], after |-> text]>>]
    /\ fileEdits' = fileEdits + 1
    /\ UNCHANGED <<journal, trajectory, undo, baseline, others>>

(* _record_undo *)
Record ==
    /\ Running("batch") /\ runner.edit # <<>>
    /\ runner' = [runner EXCEPT !.records = @ \o runner.edit, !.edit = <<>>,
                                !.reported = @ + 1]
    /\ UNCHANGED <<files, journal, trajectory, undo, baseline, fileEdits, others>>

(* _checkpoint at the end of the batch, or, by an interrupt, before it is: then *)
(* the trajectory has the events of the batches before, and the run ends.       *)
EndBatch(interrupted) ==
    /\ Running("batch") /\ ~runner.ends /\ (runner.edit = <<>> \/ interrupted)
    /\ runner' = [runner EXCEPT !.pc = SaveOrder[1], !.edit = <<>>, !.ends = interrupted,
                                !.reported = IF interrupted THEN trajectory.reported ELSE @]
    /\ UNCHANGED <<files, journal, trajectory, undo, baseline, fileEdits, others>>

SaveJournal ==
    /\ Running("journal")
    /\ journal' = IF runner.records = <<>> THEN journal ELSE runner.records
    /\ runner' = [runner EXCEPT !.pc = AfterSave("journal")]
    /\ UNCHANGED <<files, trajectory, undo, baseline, fileEdits, others>>

SaveTrajectory ==
    /\ Running("trajectory")
    /\ trajectory' = [journaled |-> runner.records # <<>>, reported |-> runner.reported]
    /\ runner' = [runner EXCEPT !.pc = AfterSave("trajectory")]
    /\ UNCHANGED <<files, journal, undo, baseline, fileEdits, others>>

(* The end of the run, an interrupt after the checkpoint, a kill. *)
StopRun ==
    /\ runner.pc # "off" /\ runner' = Off
    /\ UNCHANGED <<files, journal, trajectory, undo, baseline, fileEdits, others>>

----------------------------------------------------------------------------
(* undo_command with undo_trajectory *)
StartUndo(force) ==
    /\ Running("off") /\ trajectory.journaled
    /\ undo' = [NoUndo EXCEPT !.pc = "undo", !.left = Len(journal), !.force = force]
    /\ UNCHANGED <<files, runner, journal, trajectory, baseline, fileEdits, others>>

NextRecord == journal[undo.left]

(* What undo takes for the content: what it wrote itself, or else the file. *)
Current(f) == IF undo.known[f] = Unread THEN files[f] ELSE undo.known[f]

SkipRecord ==
    /\ undo.pc = "undo" /\ undo.left > 0
    /\ ~undo.force /\ Current(NextRecord.path) # NextRecord.after
    /\ undo' = [undo EXCEPT !.left = @ - 1]
    /\ UNCHANGED <<files, runner, journal, trajectory, baseline, fileEdits, others>>

UndoRecord ==
    /\ undo.pc = "undo" /\ undo.left > 0
    /\ undo.force \/ Current(NextRecord.path) = NextRecord.after
    /\ files' = [files EXCEPT ![NextRecord.path] = NextRecord.before]
    /\ undo' = [undo EXCEPT !.left = @ - 1, !.known[NextRecord.path] = NextRecord.before]
    /\ UNCHANGED <<runner, journal, trajectory, baseline, fileEdits, others>>

EndUndo ==
    /\ undo.pc = "undo" /\ undo.left = 0
    /\ undo' = [NoUndo EXCEPT !.pc = "done"]
    /\ UNCHANGED <<files, runner, journal, trajectory, baseline, fileEdits, others>>

(* The command returns, or is killed on the way. *)
StopUndo ==
    /\ undo.pc # "off" /\ undo' = NoUndo
    /\ UNCHANGED <<files, runner, journal, trajectory, baseline, fileEdits, others>>

(* A bash call of the agent or the user writes or removes a file. *)
OtherWrites(f, content) ==
    /\ f \notin others /\ Cardinality(others) < MaxOthers /\ others' = others \cup {f}
    /\ files' = [files EXCEPT ![f] = content]
    /\ UNCHANGED <<runner, journal, trajectory, undo, baseline, fileEdits>>

----------------------------------------------------------------------------
InitUndo ==
    /\ files \in [Path -> FileContent] /\ baseline = files
    /\ runner = Off /\ undo = NoUndo /\ journal = <<>>
    /\ trajectory = [journaled |-> FALSE, reported |-> 0] /\ fileEdits = 0 /\ others = {}

NextUndo ==
    \/ StartRun \/ Record \/ SaveJournal \/ SaveTrajectory \/ StopRun
    \/ SkipRecord \/ UndoRecord \/ EndUndo \/ StopUndo
    \/ \E f \in Path, text \in FileText : EditFile(f, text)
    \/ \E f \in Path, content \in FileContent : OtherWrites(f, content)
    \/ \E interrupted \in BOOLEAN : EndBatch(interrupted)
    \/ \E force \in BOOLEAN : StartUndo(force)

UndoTypeOK ==
    /\ files \in [Path -> FileContent] /\ baseline \in [Path -> FileContent]
    /\ runner.pc \in {"off", "batch", "journal", "trajectory"} /\ runner.reported \in 0 .. fileEdits
    /\ \A i \in 1 .. Len(journal) :
          journal[i].path \in Path /\ journal[i].before \in FileContent /\ journal[i].after \in FileText
    /\ undo.pc \in {"off", "undo", "done"} /\ undo.left \in 0 .. Len(journal)

(* An undo that went through brings back every file as it was before the run,  *)
(* created files included, but for those that others wrote too, when the        *)
(* trajectory reports all edits: whatever was interrupted, killed, resumed,     *)
(* undone in part or undone before (undo_trajectory, _checkpoint).              *)
UndoneIsBaseline ==
    undo.pc = "done" /\ trajectory.reported = fileEdits =>
        \A f \in Path \ others : files[f] = baseline[f]
=============================================================================
