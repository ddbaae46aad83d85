---------------------------- MODULE GitContent ----------------------------
(***************************************************************************)
(* Workspace contents and the Git operations that transaction.py performs  *)
(* on them: the checkout of a commit into a detached worktree, the         *)
(* snapshot that fingerprints every file and directory, the difference of  *)
(* two snapshots, the patch that `git diff` writes and what `git apply`    *)
(* does with it.  A fingerprint is the content itself: SHA-256 is taken to *)
(* be injective.  A file's value stands for its bytes and mode.            *)
(* Directories are one level deep.                                         *)
(***************************************************************************)

CONSTANTS File,     \* file paths
          Dir,      \* directory paths below the root
          Value,    \* what a file may hold
          Absent,   \* the value of a path with no file
          Root,     \* the parent of a file of the top directory
          DirOf,    \* DirOf[f]: the directory that holds file f
          Ignored   \* paths .gitignore excludes

ASSUME ContentAssumption ==
    /\ Absent \notin Value
    /\ Root \notin Dir
    /\ File \cap Dir = {}
    /\ DirOf \in [File -> Dir \cup {Root}]
    /\ Ignored \subseteq File

Tree == [File -> Value \cup {Absent}]

Present(files) == {f \in File : files[f] # Absent}

Parents(S) == {DirOf[f] : f \in S} \ {Root}

(* What WorkspaceSnapshot records: files and directories, empty ones included. *)
Snapshot == [files : Tree, dirs : SUBSET Dir]

(* A workspace: every file is in a directory. *)
Content == {c \in Snapshot : Parents(Present(c.files)) \subseteq c.dirs}

(* What a commit of this workspace would hold: every file Git does not ignore. *)
Tracked(c) == [f \in File |-> IF f \in Ignored THEN Absent ELSE c.files[f]]

(* `git worktree add --detach`: Git creates files and the directories they need. *)
Checkout(tree) == [files |-> tree, dirs |-> Parents(Present(tree))]

(* The paths in any of the three lists of WorkspaceSnapshot.diff. *)
ChangedFiles(before, after) == {f \in File : before.files[f] # after.files[f]}
ChangedDirs(before, after) == (before.dirs \ after.dirs) \cup (after.dirs \ before.dirs)
ChangedPaths(before, after) == ChangedFiles(before, after) \cup ChangedDirs(before, after)

(* `git diff HEAD` after `git add -N` of the untracked files: Git names files, *)
(* never directories, and never an ignored untracked file.                     *)
PatchNames(tree, c) == {f \in File \ Ignored : tree[f] # c.files[f]}

(* A patch holds what each named file was and what it becomes. *)
PatchOf(tree, c) ==
    [f \in PatchNames(tree, c) |-> [old |-> tree[f], new |-> c.files[f]]]

Patch == UNION {[S -> [old : Value \cup {Absent}, new : Value \cup {Absent}]] :
                  S \in SUBSET File}

(* The files after `git apply` has written the part S of the patch. *)
PatchedFiles(patch, S, files) ==
    [f \in File |-> IF f \in S THEN patch[f].new ELSE files[f]]

(* `git apply` creates the directories it needs and removes those it empties. *)
ApplyPart(patch, S, c) ==
    LET files == PatchedFiles(patch, S, c.files)
        removed == {f \in S : patch[f].new = Absent}
    IN  [files |-> files,
         dirs |-> (c.dirs \ Parents(removed)) \cup Parents(Present(files))]

ApplyPatch(patch, c) == ApplyPart(patch, DOMAIN patch, c)

(* What `git apply` may write.  Where a file differs from what the patch   *)
(* found, its hunks may still find their context elsewhere in it: the     *)
(* result is then a merged value, neither the file as it was nor the file *)
(* that was tested.  A file to create or delete must match exactly.       *)
Mismatched(patch, c) == {f \in DOMAIN patch : c.files[f] # patch[f].old}

ApplyOutcomes(patch, c) ==
    LET bad == Mismatched(patch, c)
        merged(m) == [f \in DOMAIN patch |->
                        IF f \in bad THEN [patch[f] EXCEPT !.new = m[f]] ELSE patch[f]]
    IN  {ApplyPatch(merged(m), c) :
           m \in {x \in [bad -> Value] :
                   \A f \in bad :
                      /\ {c.files[f], patch[f].old, patch[f].new} \subseteq Value
                      /\ x[f] \notin {c.files[f], patch[f].new}}}

ProjectedWithoutOverlay(source, wsBase, c) == source    \* mutant

(* The content prepare expects the source to have after the commit: the   *)
(* source baseline with the changed paths of the worktree laid over it.   *)
Projected(source, wsBase, c) ==
    [files |-> [f \in File |-> IF f \in ChangedFiles(wsBase, c)
                                THEN c.files[f] ELSE source.files[f]],
     dirs |-> (source.dirs \ (wsBase.dirs \ c.dirs)) \cup (c.dirs \ wsBase.dirs)]
===========================================================================
