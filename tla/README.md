# A TLA+ development of mini-code-agent

mini-code-agent is a coding agent: it calls a language model, executes the tools the model asks for
in a workspace, and lets a change through only when the configured checks have passed on exactly the
content that is submitted. Around this it keeps transactions, trajectories with an undo, chat
sessions and a memory of what earlier runs and chats established. This directory holds TLA+ modules
of these parts, the TLC configurations that check them on small instances, and theorems about them
with proofs for the TLA+ proof system. Paths below are relative to `src/src/mini_code_agent/` unless
they say otherwise.

## 1. The system

| Component | Source | State it keeps | Operations | What makes it correct |
|---|---|---|---|---|
| Transactions | `transaction.py`, `transaction_adapter.py`, `transaction_cli.py` | per transaction a directory with `manifest.json`, `trajectory.json`, `change.patch`, `receipt.json`, a lock file and a Git worktree | begin, run, resume, prepare, commit, abort | only a tested content is prepared; the source changes only by a tested change; a refused commit has not written; terminal states are final; the audit of the attempts is true |
| Receipts, locks | `receipt.py`, `locking.py` | a key file, lock files | issue, validate; lock | a prepared transaction has all commit asks for; no two holders |
| File access | `security.py`, `utils.py` | files, temporary files | atomic write, unlink, read | files are whole, across failures, kills and power loss |
| Verification gate | `verification.py`, `checks.py` | baseline, current and verified fingerprint, status | sync, record_test, submission_error, accept_submission, execute_tool_batch, the matrix | evidence covers the content it is used for |
| Agent runs | `agent.py` | messages, steps, gate, event log, the trajectory on disk | run, resume, call model, run tools, checkpoint, interrupt | a resumed run trusts no evidence; the step ceiling is cumulative, but for one answer of each attempt that was cut off; a run ends |
| Chat sessions | `chat.py`, `cli.py` (`chat_command`) | messages, gate, mode, the session file | turn, `/ask`, `/code`, `/clear`, accept, interrupt, resume, close | what a turn calls verified was tested; a failure is not forgotten |
| Tool executor | `executor.py` | running processes | file tools, bash, run_tests | tool effects are seen; nothing a command started outlives it |
| Context window | `context.py` | the message history | compact, limit tool calls | calls keep their results |
| Workspace fingerprints | `workspace.py` | fingerprint cache | capture, diff | a fingerprint is of contents that were there |
| Trajectories, undo | `trajectory.py` | the signed undo journal | write, undo | undo restores what the agent changed and nothing else |
| Memory store | `memory_store.py`, `memory_models.py` | an SQLite file of signed cards, sources, edges, events, decisions, outcomes | add, supersede, upsert_scoped_singleton, transition, search, verify | one active card of a singleton; retired cards stay retired |
| Conversation memory, ledger | `conversation_memory.py`, `conversation_ledger.py` | chained, signed logs (events of each chat, candidates of all) beside the store | record, stage, approve, dismiss, remember, forget, correct, migrate | one decision per candidate; quoted evidence exists; a row whose append returned stays |
| Memory admission, control | `memory_admission.py`, `memory_control.py` | rows of the store | admit, enforce the capacity, decide, record outcome | admitted once, within the capacity; feedback counted once |
| Memory retrieval | `memory_retrieval.py` | an embedding cache | retrieve | nothing retired is brought back |
| Memory backup | `memory_backup.py` | an archive | export, purge, restore | an archive misses nothing that was recorded before it |
| Canonical mutations | `../memory_core/mutations.py` | an in-memory log of one stream, a snapshot | append, compact, materialize, restore | one state per revision; what was withdrawn stays so |
| Memory core | the rest of `../memory_core/` | a checkpoint ledger; plans | form, import, roll back, plan retention, render | a summary covers a prefix; capacity; anchors |
| Model client, adapters, prompts, diagnostics, probes | `model.py`, `memory_adapters/`, `prompts.py`, `diagnostics.py`, `sandbox_probe.py` | none | request with retries; conversions; text | environment |

How they interact. A run of `tx run` creates a worktree, drives an agent in it (`MiniCodeAgent.run`),
whose tools go through `TransactionExecutor`, which saves the manifest before and after each call;
when the run is submitted, `TransactionStore.prepare` reads the trajectory's verified fingerprint and
binds it to the worktree. `commit` and `abort` are other processes, in other terminals, at any time.
A committed transaction is admitted to the memory store. The agent and the chat share the gate,
`execute_tool_batch`, the executor, the context window and the fingerprinter. The chat feeds the
conversation memory, whose logs and store other sessions share through `flock`, and which an export
reads with no lock at all. Every file of the state directory is written by the atomic writer.

What is hard. Several processes share a transaction's directory, but only some of their reads and
writes happen under its lock; a process can be killed between any two of the files it writes; the
user edits the source, and processes that tools left behind write to a worktree, while prepare and
commit compare fingerprints they took earlier; evidence must not survive an edit, a failed test, a
restart or an edit that is taken back; one assistant message may hold edits, tests and a submission
in any order; an interrupt lands between a tool call and its result. In the memory, sessions decide
about candidates they looked up before they took the lock, an admission is several writes that other
admissions cross, observations arrive out of order or twice, a recall reads the store in many
statements, and messages that were summed up are edited afterwards.

`PROJECT.json` lists the hazards one by one, each at its line, with the properties that cover it.
Each of the forty has at least one.

## 2. Modules

The core is `Transaction` (with `GitContent`) and the `VerificationGate` with the two loops that
extend it, `AgentRun` and `ChatSession`. What these rest on has modules of its own (`FileAccess`,
`AttemptAudit`, `WorkspaceScan`, `CommandProcess`, `ContextCompaction`, `Undo`), and so have the two
halves of the memory: the local store and the library `memory_core`.

### Transactions and what they rest on

**GitContent** - what a directory tree is to the fingerprint and to Git. A tree gives every file a
value or `Absent`, and the set of directories that exist. A fingerprint sees directories and ignored
files (`Snapshot`); Git sees neither (`Tracked`, `PatchOf`), makes a directory when it writes a file
in it and removes one when it removes its last file (`ApplyPatch`). `Projected` is prepare's
prediction of the source after the patch. Fingerprints are injective, files are whole values, and
directories have depth one.

**Transaction** - the transaction directory and the processes on it. `disk[t]` is `manifest.json`;
`traj`, `patchFile`, `receiptFile`, `worktree`, `lock` are the other files; `source` and `head` are
the user's checkout. `proc[p]` is one invocation of the command line with its place and its memory,
its copy `mem` of the manifest among it. Each step that reads or writes a file another process can
see is an action: `CommitCheck`, `CommitApply`, `CommitVerify` and `CommitMark` are four, the reads of prepare
(`PrepareSnapshot`, `PrepareContent`, `PrepareNames`, `PreparePatch`) and its four writes are eight, a tool call is
its saved start, its effect and its saved end. What the code does within one lock and no other
process can tell apart is one action: `Begin` (clean check, HEAD, two captures), `CommitLock` (lock,
status, HEAD and source check), `Abort`. `Crash` ends a process and frees its lock; `Interrupt` is
Ctrl-C in the agent; `CommitTorn` is a `git apply` that was stopped half way. `UserEdit`,
`UserCommit` and `WorktreeEdit` are the environment. Refusals at the start of a command that leave
everything as it was are disabled actions.

**FileAccess** - `atomic_write_text`, `unlink_file` and `read_text`: a writer reserves or finds its
directory, fills a temporary file, syncs it, renames it, syncs the directory. `entry` is what the
path shows and `returnable` what a power failure may make it show. Both the descriptor-relative
variant and the fallback are there. `Transaction` and the other modules take a saved file as one
write; this module is why they may.

**AttemptAudit** - the audit of a transaction's attempts. The agent's checkpoints do not know of it;
the command merges it into the last one when the agent has returned, computed from the trajectory it
started with, and offers a command whose step limit is to let the next attempt make progress.

### Agent runs and chats

**VerificationGate** - the gate as a record with its operations (`Create`, `Sync`, `RecordTest`,
`Lost`, `MaySubmit`, `AcceptSubmission`), and `execute_tool_batch` call by call, with
`run_verification_matrix` check by check. A tool may leave any content, whatever it reports; any
capture may fail; something else may write at every step.

**AgentRun** - `MiniCodeAgent.run`: the loop, its checkpoints, step ceiling, failures, Ctrl-C, kills
and resumption from the trajectory file.

**ChatSession** - `ConversationalCodeAgent` with `chat_command`'s modes. The session file keeps the
gate and how the messages end.

**WorkspaceScan** - the scan behind a fingerprint: list, stat, open, read, stat again, against a
cache that earlier scans left, while files are changed, replaced and removed between any two of
these. The gate's modules take a capture as one read; `ScanIsTrue` says what that is worth.

**CommandProcess** - `_run_argv`: a process group, its leader and what the leader leaves behind, the
wait ended by exit, timeout, Ctrl-C or SIGTERM, then SIGTERM, grace and SIGKILL to the group, and
`docker rm` for a container.

**ContextCompaction** - `compact_messages` and `limit_model_tool_calls` on histories of calls and
results. A message is its length and whom it calls or answers.

**Undo** - the edits of a run, their records, the journal, the trajectory that refers to it, and
`mca undo`, with kills, interrupts and resumptions of both.

### The local memory

**SignedLog** - the append of a chained, signed row under the lock, the migration of old logs, and the
creation of the key in the three ways the code has. An append can stop after a part of its row or between
the row and its newline; `lastLine` says how the last line then ends. **Conversation** - the commands of
a chat over the events, the candidates and the cards. **MemoryStore** - cards, evidence and events;
every write of it is an operator from a store to a store, because it holds the lock and an immediate
transaction. **Admission** - the workflow and the repair of a committed transaction, and the capacity.
**MemoryFeedback** - decisions, outcomes and the utility they add up to. **Recall** - the statements
of a retrieval, each a step, with the writes of others in between. **MemoryBackup** - export, purge
and restore around running chats; an export lists the files, reads one after the other, and tries the
archive.

### memory_core

**MutationLedger** - optimistic append, conflicts, replays, compaction and restart, with deliveries
that are late, repeated or lost. **SemanticState** - its abstract specification: one state per
revision, changed only by a writer who knew it, with no log, snapshot or second delivery.
**Checkpoints** - summaries of a chat that is edited, deleted from, imported again and rolled back.
**Retention** - the planner, the host that does what it says, and what a new session is told.

### Instances and proofs

**MCTransaction**, **MCScenarios**, **MCAgentRun**, **MCSession**, **MCChatSession** and **MCMemory**
give TLC its instances. Where several modules share no state, one run checks them side by side: a
behaviour chooses a part (`Part`, `Scenario`) when it starts and stays in it, and the other parts keep
their initial state. **TransactionInv** holds the inductive invariants of `Transaction`,
and the specification `CalmSpec` of commits that are left alone. The theorems are in
**TransactionProofs** (with `AttemptAudit`), **FileAccessProofs**, **AgentRunProofs** (with `Undo` and
`ContextCompaction`),
**ChatSessionProofs** (with `SignedLog`), **ToolProofs** (`CommandProcess` and `WorkspaceScan`),
**StoreProofs** (`MemoryStore`, `Recall`, `Admission`, `Retention`, `Conversation` with `MemoryBackup`) and
**MemoryProofs** (`MutationLedger`, `Checkpoints`, `MemoryFeedback`); **GateProofs** has the lemmas on the
gate and its batches that the agent's and the chat's proofs share.

A definition marked *mutant* is a faulty version of the definition that follows it, used to see that
a property can fail.

## 3. What the runs show

| Run | Instance | Properties |
|---|---|---|
| `TransactionCrash` | scenarios *crash* (1 transaction, 3 invocations one after the other, each any command, 3 tool calls, 1 kill or interrupt), *pair* (2 transactions on one source, 4 invocations, runs and commits interleaved), *files* (2 writers, 1 removal, 1 reader, 1 change by another program, 1 actor killed, 1 power failure), *attempts* (4 attempts, ceiling and margin 1, 2 breaks) | the access log is written ahead of every effect; whatever is prepared on disk can be committed; first committer wins; files are whole; the audit is true; committed and aborted are final |
| `TransactionOverlap` | scenarios *overlap* (run, resume and commit/abort of one transaction at the same time, 2 tool calls), *conflict* (2 invocations one after the other, 3 tool calls in the first and 2 in the second, an ignored file, 1 write from outside to source, HEAD or worktree at any moment, 1 kill or interrupt, inside `git apply` too) | prepare, commit and abort exclude each other; evidence of one run is not used by another; what commit finds in the source before it marks the transaction was tested |
| `TransactionQuiet` | 3 invocations, an ignored file, no kill, weak fairness | commit fails closed; no worktree is left; invocations end |
| `AgentRun` | parts *run* (3 attempts, 2 steps, 2 checks, 2 calls per message, 1 outside write, 1 Ctrl-C, 1 kill), *undo*, *context*, *command*; weak fairness | submissions are tested and of this attempt; the ceiling; undo gives back the baseline; calls keep their results; nothing of a command is left; attempts end |
| `ChatSession` | parts *chat* (any number of turns and restarts, 2 model calls per turn, 1 outside write), *scan*, *log*, *recall*; weak fairness | accepted submissions are covered, failures last, verified turns were tested; a scan is true; a row whose append returned stays and can be read unless a write was cut off; recall brings back nothing retired; turns end |
| `Memory` | parts *summaries*, *facts*, *retention*, *admission*, *chats*, *backup*, *feedback* | summaries cover a prefix; the ledger implements `SemanticState`, and what was withdrawn stays so; capacity, anchors and what a new session is told; one workflow and one repair per receipt, retired cards stay retired, repairs fit; numbers are places, quoted evidence exists, approvals are backed; an archive has all that was recorded before it began, and so has a directory restored from it; feedback counts once |

### Bounds

Three tool calls are an edit, a passing test and a submission, the shortest work that prepares a
change; two are a test and a submission, which is what overlapping runs race for; three invocations
in sequence are a run, what interrupts it and what finishes it; two contents tell tested from
untested, and a third adds states but no behaviour that was not met with two (`AgentRun` and
`ChatSession` were also run with three). One outside write separates every pair of reads. Two checks
are the least for which something can happen between checks.

| Part | Bounds and why they meet the cases |
|---|---|
| files | A text of one part: a file is empty, whole or being replaced. Writers are alike and start in turn; kinds of platform that differ only where the directory is new are read on one. The theorem holds for all of these. |
| attempts | Four tries put two breaks between an attempt that counts and one that is offered; two edits tell progress of one attempt from that of another. |
| undo | 3 edits of 2 files with 2 contents, one file written once by others: two records of one file, another file between them, and a conflict. |
| context | Budget 1500, lengths 50 and 900, 6 messages, fan-out 0 or 3 with a limit of 2 calls: one long message fits, two do not, and a block can be cut anywhere but inside. |
| command | A leader and two descendants, so one can be left by another. |
| scan | 2 files, 1 Git control, 2 changes: one while the file is read, one after it; the cache goes from scan to scan with no bound on their number. |
| log | 3 processes, each of the three ways to make a key, 1 poll, 4 texts, 2 faults: two that race and one that comes later. |
| recall | 2 texts, one similar and one of the same meaning, 3 changes. |
| summaries | 4 messages, 1 edit or deletion, 3 checkpoints, batches of 2: a chain of two and one beside it. |
| facts | 2 fields, 2 schemas, 4 mutations built. |
| retention | 3 records, 5 characters, every class, an anchor and two classes for it; a prompt with room for 2 records and 3 characters. |
| admission | 3 receipts, the checks changed and changed back, 2 processes, 2 repairs of capacity, one forget. |
| chats, backup | 2 sessions on one log of 3 rows; one archive, made and restored once, with one chat that writes and ends meanwhile. |
| feedback | 2 agents, 2 decisions on one card. |

`CHECK_DEADLOCK FALSE` is set because the bounded instances do stop: all invocations are over, the
attempts are used up, or the rows are. Clocks are monotone.

### Fairness

`WF_vars(Proceed(p))` and `WF(Step)`: a started process goes on. The code justifies it by the command
time limits of the executor, the request timeout of the model client and the step ceilings; nobody is
obliged to start a command, to edit, or to crash. A lock that is held is waited for without limit
(POSIX `flock`), so `InvocationEnds` needs every path to release it. No strong fairness is assumed.

### Where the code does not do what its documents say

Each is a run that TLC ends with a counterexample; `PROJECT.json` quotes the document.

* `TransactionEmptied`: a commit that empties a directory writes the source and then refuses itself.
* `TransactionReopened`: a stale save of a manifest reopens a committed transaction.
* `ChatSessionUnpaired`: a session interrupted in a tool call cannot be resumed although its file
  says so.
* `LogGlued`: of two processes that append to one log the first is killed between its row and the newline;
  the second takes that row for the last one, writes its own onto the same line and returns, and the log
  can never be read again.
* `WorkflowReplaced`: a receipt issued between the first and the last one that confirmed the active
  workflow replaces it, although the workflow was confirmed later.
* `CandidateDecidedTwice`: two sessions decide one candidate; from then on verification and backups
  refuse.

### Known limits

What the modules show, or reading the code for them showed, and no run asserts.

Transactions. The changed paths that prepare compares with `git diff --name-only`
(`transaction.py:330-342`) hold the entry of a directory the agent made, which Git never names, so a
tested file in a new directory is refused as unrepresentable (`PreparePatch` models it, no run
asserts it). A kill between the checkpoint of a submission and prepare's last save leaves an open
transaction that cannot be resumed. Two commits on one source take different locks, so both can pass
the source check, and one is refused after it wrote (`CommitFailsClosed` is checked on one
transaction for that reason). Two outside writes to the worktree, one between prepare's reads and
one back, get an untested patch committed (hence one). What `CommittedSourceIsTested` says is of the
source as commit finds it before the mark; a second commit that is refused has written all the same.
A kill between the save of a terminal status and the removal of the worktree leaves the worktree and
skips the memory. A killed or interrupted resume loses the recovery audit and the retrieval audit of
the attempts before it, which `src/docs/transaction-protocol.md` (lines 42 and 48) says are carried
forward and appended to; after an interrupt the audit may count fewer steps than the model answered.

Files. A write whose directory sync fails reports an error although the file was replaced, so an edit
may lack its undo record. The entry of a newly made directory is not synced, so a write in it that
returned may vanish on power loss. Of two writers that make one new directory through descriptors, one
fails. The fallback syncs no directory. `WritesAreWhole` is about torn and older texts, not these.

Agent and chat. After an interrupt and a failed resume the step ceiling is passed by the answer
whose batch was stopped (`NearlyCumulativeCeiling` says by how much at most). A `run_tests` that was
blocked in `/ask` mode, or has no check to run, leaves the gate failed although nothing failed. A
check's own write can cancel another writer's. An edit whose batch was killed before its save may
lack its undo record; what a user writes during an undo, between two records of one file, is
overwritten; `write_file` asks for confirmation between its read and its write. The last resort of
`compact_messages` can never fit, so it always raises. A second Ctrl-C in the grace period skips
SIGKILL and the removal of the container, and a SIGTERM outside the deferred window ends the agent
and leaves the group. A write within one tick of the clock keeps a stale cached hash; digests of
different files may be of different moments; with an entry that cannot be read a new file may be
missed.

Memory. Two concurrent repairs under a tight capacity can retire each other, and a replay of a stale
repair can retire an active one. `transition` accepts any earlier status. A workflow the user
deleted becomes a new active card when it is observed again. Concurrent corrections give two active
cards, and a corrected workflow card keeps its kind, so `ObservedOnce` is stated without
corrections. `/remember @C` of a forgotten card says it remembered. A killed creator of a key leaves
an empty key file for ever; the receipt and undo keys poll for it, the ledger and the store do not.
A record and a selection between two statements of `verify` make it fail. An export that a new
conversation crosses is refused when a card of it is copied: its log was not there when the files
were listed. A correction between the rows and the statuses of one recall hides both versions from
it; with a relation chain asked for, the best direct match may be left out; when an embedding model
changes its dimensions, the cached vectors make every later recall go on without embeddings.

`memory_core`. After an edit of the root checkpoint's sources the checkpoint ledger has no valid
checkpoint again. One episodic checkpoint that is too long alone is asked to be compacted for ever. The
planner refuses with `protected_capacity_exhausted` while unprotected records remain. A pinned durable
memory is told before a core memory that is not pinned and may push it out, although the docstring of
`select_continuity_context` says core memories are considered first (`CoreIsTold` says what holds). Compaction
forgets mutation ids, so a redelivery is answered as a conflict.

## 4. What is proved

For every value of the constants that their assumptions allow, so for any number of processes,
transactions, chats, files, contents, checks, calls and steps. "A run's property" is one that section 3
also shows on an instance.

| Theorem | Statement | Hypothesis |
|---|---|---|
| `TransactionProofs.TypeCorrect` | `Spec => []TypeOK` | |
| `MutualExclusion` | `Spec => []LockExclusive` | |
| `OnlyTestedIsPrepared` | `Spec => []PreparedWasTested` | |
| `EffectsAreLogged` | `Spec => []LoggedBeforeEffect` | commands on a transaction do not overlap |
| `EndsAreFinal` | `Spec => TerminalStates` | the same |
| `PreparedIsWhole` | `PreparedIsCommittable` always | the same, and nobody wrote to a worktree |
| `CommitsAreTested` | a save that commits finds the baseline with exactly the tested changes in the source | the same, and at most one write from outside |
| `CommitsFailClosed` | `CalmSpec => []CommitFailsClosed` | commands do not overlap, one commit at a time and left alone, nobody else in a worktree, no empty directory is kept |
| `AuditIsTold` | `AuditSpec => []AuditIsTrue` | |
| `FileAccessProofs.FilesAreAlwaysWhole` | `AccessSpec => []WritesAreWhole` | |
| `AgentRunProofs.RunTypeCorrect` | `Spec => []TypeOK` | |
| `CeilingNearlyCumulative` | `Spec => []NearlyCumulativeCeiling` | |
| `SubmissionsAreTested` | `SubmittedIsTested` always | at most one write from outside so far |
| `UndoBringsBack`, `UndoTypeCorrect` | `UndoSpec => []UndoneIsBaseline` and `[]UndoTypeOK` | |
| `CallsAreAnswered`, `ContextTypeCorrect` | `ContextSpec => []CallsKeepResults` and `[]ContextTypeOK` | |
| `ChatSessionProofs.VerifiedTurnsAreTested` | `VerifiedTurnWasTested` always | at most one write from outside so far |
| `SubmissionsAreCovered` | `AcceptsOnlyCovered` | at most one write from outside |
| `ChatTypeCorrect` | `Spec => []TypeOK` | |
| `RowsAreAlwaysKept` | `LogSpec => []RowsAreKept` | |
| `ToolProofs.CommandsEnd`, `CommandTypeCorrect` | `[]CommandIsGone` and `[]CommandTypeOK` | |
| `ScansAreTrue` | `[]ScanIsTrue` | |
| `StoreProofs.RecallsAreTrue`, `RecallTypeCorrect` | `RecallSpec => []RecallIsTrue` and `[](RecallTypeOK /\ StoreTypeOK)` | |
| `RecallRevivesNothing` | `RecallSpec => RetiredStaysRetired` | |
| `ReceiptsAreObservedOnce` | `AdmissionSpec => []ObservedOnce` | |
| `RepairsSettleWithinCapacity` | `AdmissionSpec => []SettledRepairsFit` | |
| `AdmissionRevivesNothing` | `AdmissionSpec => RetiredStaysRetired` | |
| `AdmissionTypeCorrect` | `AdmissionSpec => [](AdmissionTypeOK /\ StoreTypeOK)` | |
| `LogsAreNumbered` | `LocalSpec => []SequenceIsPlace` | |
| `QuotedIsRecorded` | `LocalSpec => []EvidenceIsDurable` | |
| `ApprovalsAreBacked` | `LocalSpec => []ApprovedIsBacked` | |
| `ArchivesMissNothing` | `LocalSpec => []ArchiveMissesNothing` | there is a text (`Anchor # {}`) |
| `ChatsReviveNothing` | `LocalSpec => RetiredStaysRetired` | there is a text (`Anchor # {}`) |
| `LocalTypeCorrect` | `LocalSpec => [](ConversationTypeOK /\ BackupTypeOK)` | |
| `RetentionWithinCapacity`, `RetentionTypeCorrect` | `RetentionSpec => []WithinCapacity` and `[]RetentionTypeOK` | |
| `RetentionKeepsAnchors` | `RetentionSpec => AnchorsKept` | the policy preserves the coverage of anchors (`preserve_anchor_coverage`) |
| `MemoryProofs.FeedbackIsCountedOnce`, `FeedbackTypeCorrect` | `[]FeedbackCountedOnce` and `[]FeedbackTypeOK` | |
| `LedgerIsSemantic` | `MutationSpec => LedgerImplementsSemantic`, the refinement of `SemanticState` | |
| `ForgottenIsForgotten`, `MutationsTypeCorrect` | `MutationSpec => ForgottenStaysForgotten` and `[]MutationsTypeOK` | |
| `SummariesCoverAPrefix`, `CheckpointsTypeCorrect` | `CheckpointsSpec => []CoversThePrefix` and `[]CheckpointsTypeOK` | the value that stands for no checkpoint is none (`NoCheckpoint`) |

The hypotheses are what the code needs, not what the proofs do. With overlap `TransactionReopened` ends
in a committed transaction that is open again, so everything that follows from "nobody else saves this
manifest" needs it. With two writes from outside to a worktree the second can take the first back between
two captures, and what lies between them is never compared: `CommittedSourceIsTested` and
`SubmittedIsTested` are then false, and one is the most for which they hold. The instances keep the same
bounds.

**Transactions.** `TransactionInv` strengthens the properties to `IInv`: an invocation at a point inside
prepare, commit or abort holds the lock of its transaction; what a process carries as evidence, in its
memory, was tested by that process; what is on disk or in any process's copy of a manifest as prepared
was tested by the run the receipt names. The third part is why the invariant must speak of every copy
and not only of the disk: a stale copy can be saved at any time. Initial states satisfy it; each action
is one lemma, and `StepKeeps`, `FreeStep` and `HoldStep` carry the parts an action does not disturb.

Without overlap `SerialInv` says more. At most one invocation is active on a transaction (`Alone`).
What the files of its directory say of each other is a function of the directory alone (`DirectoryOK`),
and so is what an active invocation at each of its points may rely on (`WorkOK`): which of the four
files of prepare it has written, that the copy it will save is the one on disk but for what it changed,
that the content between its two captures is the one it compared. A crash leaves a directory that
satisfies `DirectoryOK` at every point, which is what the atomicity of prepare comes to.

`CommitFailsClosed` needs that a commit is left alone: `CalmSpec` is the specification in which one
commit runs at a time and nobody writes to the source or ends the process between its checks and the
removal of the worktree; the user may edit, and processes may die, at any other point. What
two commits or a kill can do otherwise is among the known limits, and the run `TransactionEmptied` shows
that the last hypothesis is needed: a commit that empties a directory is refused after it wrote. `CalmInv` adds to
`SerialInv` where the source stands - on the baseline up to the application of the patch, on what the
manifest expects after it - so that a written source belongs to a transaction that is committed or about
to be (`Written`). The step that matters is the application: `PatchIsExpected` shows that `git apply`,
which merges file by file and drops empty directories, makes of the baseline just what prepare
projected, wherever no content has a directory without a file in it (`Tidy`).

**Attempts.** `AuditInv` says what each copy of the trajectory tells while an attempt is under way: the
file, what the attempt loaded, what it has seen since, and what the command offers. Its events are those
it was started with and one answer for each step (`OnlyAnswers`); what an audit tells of an attempt that
is whole is true of it, and only the attempts since the last one that was cut off are whole (`TellsAll`).

**The history.** A history that a session may go on from is `Replayable`: it opens with the instructions
and, in a run, the task; results stand behind their call with nothing but results between; no call is
made twice; and no message has more than `MaxToolCalls`. `CompactedSound` shows that `compact_messages`
makes of such a history another one or raises. What it keeps of a history from a block on has one message
for each message, with the same calls and answers (`Mirrors`), by an induction over the blocks from the
last one back; no block begins with a result (`PrefixOpens`); and the results that the filter of
`_compact_block` would drop are none, since `limit_model_tool_calls` let no message exceed the limit.
Sizes play no part: whichever blocks fit, the pairing holds.

**Files.** `AccessInv` adds to the property what a writer knows of its text at each step - it is on disk
before it is shown - and that no text is shown twice but by a power failure: so an actor that has
displaced a text never meets it again, which is what a single step cannot see.

**The log.** `LogInv` has seven parts: types (`Typed`); one process at most is writing the key, and
who has a key has the file's (`OneKey`); where a process stands says what it holds (`Held`); the log
is either a chain under the key or an old log as it was (`Chained`); the row a process is about to
write follows from the log (`RowFits`), which holds because it has the lock; appended texts stay
(`AllLogged`); a last line that is not one whole row was cut by a fault or is being written
(`TornByFault`). `AppendVerifies` and the lemma on the migration are about rows alone.

**The gate.** `GateInv` relates the gate to the workspace across a batch: where the batch is, what its
captures found, which checks of the matrix have passed on which content, and that evidence which covers
the present content was earned on it while at most one write came from outside. One lemma for each
operation of the gate says what it returns; one for each step of a batch says that it keeps the
invariant. `RunInv` adds that a run requires verification from its first gate on, that evidence is
always of the latest run of the tests (`PassIsLast`), and that the gate saved with a submission is the one
that accepted it (`SubmissionOK`). `ChatInv` adds that a failed run of the tests stays pending in the gate
and, while the session is closed, in its file (`FailureIsPending`), and that nothing changes the gate
between the decision and `accept_submission` (`AcceptOK`).

**Undo.** No step of an undo knows what the baseline was: it only compares a file with what a record
says of it. What makes the last record of a file lead back to its first content is that the contents
and the records are *grounded*: whatever a file holds, and whatever a record says was there before it, is the
first content or was written by a record before it. `Sound` says so of what a run has in hand, of what
the journal holds and of what is left to an undo after each record; files that others wrote are
excepted, and a trajectory promises something only when it reports every edit.

**Commands and scans.** `CommandInv` adds to `CommandIsGone` that the group is empty before the leader
is reaped. `ScanInv` relates the clock, the cache and the file system: no time a file shows is later
than the clock, an entry of the cache was read from the file whose identity it has (`CacheOK`), and
what the scan has in hand between two of its steps is of a content the file had since the scan began,
or will be refused by the second look (`OpenedOK`, `ExamineOK`). The cache part is what carries the
property from one scan to the next.

**Recalls and admissions.** A card's status is that of its last event, which is the last row of the
card because the clock never goes back (`Timed`). Each write of the store adds rows and makes no
card that was there active (`Later`): `RetiredStaysRetired` follows for whoever writes that way.
`RecallInv` says of every set a recall has read that it holds no card that was gone when the recall
began; writes of others in between can only add to what is gone.

`AdmissionInv` says that at most one workflow is active and that the repairs are one for each receipt
(`OneWorkflow`, `OneRepair`); that no repair is larger than the capacity (`RepairsAreSmall`), without which
retiring all others would not be enough; and that from its reading on an admission has only to retire
what is on its list for the rest to fit (`AdmissionOK`), which stays true because other processes only
retire, and what they add is not on the list. `Upserted` supersedes a set of cards in a fold
(`AllSupersededMarks`), and the characters of a set are a fold too (`CharsAreTotal`, `TotalUnfolds`).

**Retention.** `RetentionInv` says that the active memories are within the capacity under ids of their
own. Whatever plan admits has room for one more beside what it leaves, and nothing it retires or compacts
is protected (`PlanIs`); a checkpoint stands for at least one memory and is no longer than what it is
of. Of the memories of one anchor one outlasts all others (`BestOutlasts`), so an anchor always has a
protected one (`AnchorIsProtected`). That a session can be told memories in turn is an induction over the
sets that are told (`SomeAreTold`); the core and what is pinned come before all others, so together
they need no more room than they have (`CoreHasRoom`).

**Memory.** `FeedbackInv`: no two outcomes are of one decision, and what counts for a card is what it
was told of. `LocalInv` joins what the files say of each other (`Honest`) to what each chat is about to
write (`Good`): an event in hand is in a log; the card of a decision is backed before the decision is
written; the number of the next row is the number of rows, whatever number the process remembers.
Every action but purge and restore only adds to the files, and adding keeps what other chats rely on
(`LogsGrow`, `Richer`); a purge needs every chat closed, and a restore writes what was verified.
`LocalSpec` has any number of chats with the backup beside them, where the instance looks at two chats,
or one and the backup. That its chats bring no card back (`ChatsReviveNothing`) follows like that of the
other writers of the store: each command makes a later store (`ChatAges`) of one whose events are in the
order of time (`Aged`). The copy in the archive has to be such a store too, for a restore installs it, and
where there is no directory there is no card (`AgedInv`), so nothing is there for a restore to bring back.
`ArchiveInv` says of an export under way that each file it has read carries what that file held when the
export began, and that the files in the directory still do (`CopiedCarries`, `Carries`); that every command of a
chat only adds (`ChatCarries`) keeps it, and when no file is left to read it is the property.

`LedgerInv` is why the ledger after a restart is the one before it. What a recursion over the log
computes cannot be proved by induction here, so the invariant speaks of the replay itself: there is a
sequence of states in which each follows from the one before it by one mutation of the log, and every such
sequence ends in the present state. A commit makes the sequence longer (`ReplayExtends`), and a longer one
has a shorter one in it (`ReplayShortens`). That fewer than `MaxSent` revisions were committed when one
is left to build, and that no field was changed by a later revision than the present one, complete it.

**Summaries.** `CheckpointsInv` says that no checkpoint has passed over a message: its sources are in the
order in which the messages were written, they begin behind the last one of its parent, and a message that
lies between the two and is still in the chat is one of them (`Closes`). Nothing the host does to a message
brings one back into such a gap (`MessagesMove`), so this holds of the checkpoints whose sources are gone
as well, and a batch behind a valid checkpoint keeps it (`StretchCloses`). Only where all sources are current
does more follow: they enumerate a stretch of the chat in its order, hence are that stretch
(`ShiftIs`, `SourcesAreStretch`), and the stretches of a valid lineage join (`LineageCovers`). The
recursions over parents and earlier summaries are functions because each goes back to a smaller number
(`LineageIs`, `ImportedIs`).

Assumptions. Those of the modules on their constants, which TLC evaluates in the runs. Three say that a
value which stands for nothing is none of the values: `TrajectoryAssumption` (no trajectory is `None`),
`GoneAssumption` (a missing file is no file) and `NothingAssumption` (no memory and no snapshot is
`Nothing`).

Model-checked only:

* Liveness: fairness and `ENABLED` are out of the prover's reach. (So are the induction theorems of the
  library, which take an operator. Where a proof needs an induction it is made for the operator at hand, as
  an argument about the smallest number that is a counterexample, `SmallestIsThere`, or about a property of
  sets that an element less passes on, `RemoveInduction`.)
* `FirstCommitterWins`: it holds of two transactions, not of more - with three, a patch that merges can
  bring the baseline of another back, and that commit is then rightly accepted.
* `CommittedSourceIsTested` as it stands: it names a scenario of its instance. `CommitsAreTested` is the
  same for every instance.
* The type invariants of scans and signed logs, and `StoreTypeOK` where chats write the store. Those of the
  other parts that the instances join under `HostTypeOK`, `SessionTypeOK` and `MCMemory.TypeOK` are proved
  part by part.

## 5. What is abstracted, and what is not modelled

* A fingerprint is the content it is of; files are whole values; `git apply` merges per file. A
  signature or a digest is what it signs.
* The captures of one `begin` are one step; two saves of the same manifest in a row are one; so are
  the agent's last checkpoint and its final trajectory.
* A check run by the matrix does not put back what another writer changed while it ran
  (`docs/transaction-protocol.md` states the limit).
* A tool call and the capture after it are one step of the batch; the legacy single test command is
  the matrix with one check; exceptions inside the tools node, such as a checkpoint that cannot be
  written, are not modelled.
* Locks are the POSIX ones. Unlocked reads that see a row being written are not modelled. In
  `Conversation` and `MemoryBackup` a cut row is always one that cannot be parsed; a row that lacks
  only its newline is in `SignedLog`, where `LogGlued` shows that the log can no longer be read
  after the next append. An export reads the store's file in one step, though SQLite may be writing
  to it; a copy that is cut in such a write is left to the trial restore.
* The scan leaves out recursion, hooks and attributes (the same steps), ignored paths, the pointers
  of linked worktrees and the path-based fallback. Processes that leave their group, a failing
  `docker rm` and Windows are left out of `CommandProcess`. One trajectory path serves one run.
* Scores of retrieval are left open between matching and not; scopes are one workspace and its user.
  The costs in tokens of feedback are left out, and so are a forget that crosses a correct, a purge
  while a chat is open, and messages that are moved.
* The text of messages, prompts and output, command-line parsing, path resolution, redaction, the
  sandbox profiles and the search of the store are not modelled.
* The model client is the environment: any answer, any calls, any failure. `memory_adapters/`
  converts records and keeps no state. Diagnostics and probes look at the host.
* The evaluations, benchmarks and scripts (`src/evals/`, `src/scripts/` and their like), about 9,650
  of the 26,727 implementation lines, measure the agent from outside and are not part of the system.

Reasons per component are in `PROJECT.json`.

## 6. Plan

Done: the modules of section 2 and the theorems of section 4.

Left, in this order:

1. An abstract specification of a commit - the source goes from its baseline to a tested content or
   stays - and `Transaction` without overlap shown to implement it.
2. `UndoneIsBaseline` for more than one writer beside the undo, and messages that move in
   `Checkpoints`.
