-------------------------- MODULE SelfImprovement --------------------------
(***************************************************************************)
(* SelfImprovementManager (src/mordecai/self_improvement.py): change        *)
(* candidates are judged once, and the judged ones are copied over the live *)
(* workspace with a backup per file, and rolled back from those backups.    *)
(*                                                                         *)
(* The runtime server is one process (its handlers run one at a time on the *)
(* event loop) and every call of self_mod/apply_change.py or                *)
(* self_mod/propose_change.py is another, with a manager and a StateStore   *)
(* of its own over the same directories.  Nothing locks the workspace, the  *)
(* backups or the store between processes, any of them may be killed, or    *)
(* fail with an OSError, between two files, and people edit the workspace.  *)
(***************************************************************************)
EXTENDS Integers, Sequences, Lists

CONSTANTS
  Candidates, Files, Procs,
  Changes,      \* the files each candidate lists, in order
  Original, Edited, Torn, Absent,  \* contents that are not a candidate's
  MaxLog,       \* max_log_entries: candidates the store keeps
  MaxOps, MaxEdits, MaxCrashes     \* bounds: applies and rollbacks, edits, crashes

VARIABLES
  live,         \* the workspace
  backup,       \* state_dir/backups/<candidate>/<file>
  hasBackups,   \* state_dir/backups/<candidate> exists
  gate,         \* how each candidate was judged
  store,        \* candidates.json
  pc, cand, pos, kind, snap,  \* what each process is doing, and its locals
  ops, edits, crashes,        \* what the bounds have left
  pre, reached, clean, undone \* history: see the properties

disk == <<live, backup, hasBackups>>
locals == <<pc, cand, pos, kind, snap>>
budget == <<ops, edits, crashes>>
history == <<pre, reached, clean, undone>>
vars == <<live, backup, hasBackups, gate, store, pc, cand, pos, kind, snap,
          ops, edits, crashes, pre, reached, clean, undone>>

Others == {Original, Edited, Torn, Absent}
Content == Candidates \cup Others

ASSUME ContentAssumption ==
  Candidates \cap Others = {} /\ Absent \notin {Original, Edited, Torn}
ASSUME ChangesAssumption ==
  \A c \in Candidates : Changes[c] \in Seq(Files) /\ Changes[c] # <<>>
ASSUME SelfImprovementBounds ==
  MaxLog \in Nat \ {0} /\ MaxOps \in Nat /\ MaxEdits \in Nat /\ MaxCrashes \in Nat

TouchedBy(c) == {Changes[c][i] : i \in 1..Len(Changes[c])}
NoDuplicates(c) ==
  \A i, j \in 1..Len(Changes[c]) : Changes[c][i] = Changes[c][j] => i = j

\* blocked: a protected path or a diff filter; untested: tests_passed is None;
\* failed and passed: what pytest said of the sandbox copy.
Verdict == {"blocked", "untested", "failed", "passed"}

\* propose is a create that goes on to apply (auto_apply): first auto, the apply,
\* then confirm, its own save of the candidate it holds.
Kind == {"none", "create", "propose", "auto", "confirm", "apply", "rollback"}
Step == {"idle", "load", "save", "auto", "backup", "install", "restore"}
Record == [id : Candidates, applied : BOOLEAN]

Working(p, c) == pc[p] # "idle" /\ cand[p] = c
File(p) == Changes[cand[p]][pos[p]]
Recorded(c) == \E i \in DOMAIN store : store[i].id = c

\* A mutated form: only a failed test run is refused.
MayApplyUntested(c) == gate[c] \in {"untested", "passed"}
\* apply_candidate: not blocked, tests_passed is True.
MayApply(c) == gate[c] = "passed"

\* A write to f by c, or by nobody's candidate, spoils the history of the others.
Disturbed(f, c) == [d \in Candidates |-> clean[d] /\ (d = c \/ f \notin TouchedBy(d))]

Idle(p) ==
  /\ pc' = [pc EXCEPT ![p] = "idle"]
  /\ cand' = [cand EXCEPT ![p] = Absent]
  /\ pos' = [pos EXCEPT ![p] = 0]
  /\ kind' = [kind EXCEPT ![p] = "none"]
  /\ snap' = [snap EXCEPT ![p] = <<>>]

(***************************************************************************)
(* create_candidate.  The sandbox is written and tested before anything     *)
(* else can see the candidate, so judging it is one step.                   *)
(***************************************************************************)
BeginCreate(p, c) ==
  /\ pc[p] = "idle"
  /\ gate[c] = "none"
  /\ \E verdict \in Verdict, auto \in BOOLEAN :
       /\ gate' = [gate EXCEPT ![c] = verdict]
       /\ kind' = [kind EXCEPT ![p] =
                     IF auto /\ verdict = "passed" THEN "propose" ELSE "create"]
  /\ pc' = [pc EXCEPT ![p] = "load"]
  /\ cand' = [cand EXCEPT ![p] = c]
  /\ UNCHANGED <<disk, store, pos, snap, budget, history>>

(***************************************************************************)
(* StateStore.save_candidate: load, filter, append, keep the last MaxLog.   *)
(* The lock is the process's own: another process may save in between.  The *)
(* new file replaces the old one, so a crash leaves one or the other.       *)
(***************************************************************************)
LoadStore(p) ==
  /\ pc[p] = "load"
  /\ snap' = [snap EXCEPT ![p] = store]
  /\ pc' = [pc EXCEPT ![p] = "save"]
  /\ UNCHANGED <<disk, gate, store, cand, pos, kind, budget, history>>

\* A mutated form: the log is never cut.
KeptAll(s) == s
Kept(s) == IF Len(s) <= MaxLog THEN s ELSE SubSeq(s, Len(s) - MaxLog + 1, Len(s))

Replaced(s, record) ==
  Append(Among(s, {r \in Record : r.id # record.id}), record)

SaveStore(p) ==
  LET c == cand[p]
      record == [id |-> c, applied |-> kind[p] \in {"apply", "auto", "confirm"}] IN
  /\ pc[p] = "save"
  /\ store' = Kept(Replaced(snap[p], record))
  /\ CASE kind[p] = "propose" ->
            /\ pc' = [pc EXCEPT ![p] = "auto"]
            /\ snap' = [snap EXCEPT ![p] = <<>>]
            /\ UNCHANGED <<cand, pos, kind>>
       [] kind[p] = "auto" ->
            /\ pc' = [pc EXCEPT ![p] = "load"]
            /\ kind' = [kind EXCEPT ![p] = "confirm"]
            /\ snap' = [snap EXCEPT ![p] = <<>>]
            /\ UNCHANGED <<cand, pos>>
       [] OTHER -> Idle(p)
  /\ UNCHANGED <<disk, gate, budget, history>>

(***************************************************************************)
(* apply_candidate                                                          *)
(***************************************************************************)
\* No other process is at work on c, and no backup will outlive its file.
StartsClean(p, c) ==
  /\ NoDuplicates(c)
  /\ \A q \in Procs \ {p} : ~Working(q, c)
  /\ \A f \in TouchedBy(c) : backup[c][f] # Absent => live[f] # Absent

\* backup_root.mkdir; the loop over candidate.files begins.
OpenApply(p, c) ==
  /\ hasBackups' = [hasBackups EXCEPT ![c] = TRUE]
  /\ pc' = [pc EXCEPT ![p] = "backup"]
  /\ pos' = [pos EXCEPT ![p] = 1]
  /\ pre' = [pre EXCEPT ![c] =
               [f \in Files |-> IF f \in TouchedBy(c) THEN live[f] ELSE Absent]]
  /\ reached' = [reached EXCEPT ![c] = {}]
  /\ clean' = [clean EXCEPT ![c] = StartsClean(p, c)]
  /\ undone' = [undone EXCEPT ![c] = FALSE]
  /\ UNCHANGED <<live, backup, gate, store, snap, edits, crashes>>

BeginApply(p, c) ==
  /\ pc[p] = "idle"
  /\ ops > 0 /\ ops' = ops - 1
  /\ Recorded(c) /\ MayApply(c)
  /\ cand' = [cand EXCEPT ![p] = c]
  /\ kind' = [kind EXCEPT ![p] = "apply"]
  /\ OpenApply(p, c)

\* create_candidate calls apply_candidate on the candidate it has just saved.
AutoApply(p) ==
  LET c == cand[p] IN
  /\ pc[p] = "auto"
  /\ Recorded(c) /\ MayApply(c)
  /\ kind' = [kind EXCEPT ![p] = "auto"]
  /\ OpenApply(p, c)
  /\ UNCHANGED <<cand, ops>>

\* Another process's save lost the candidate: KeyError.
AutoApplyUnknown(p) ==
  /\ pc[p] = "auto"
  /\ ~Recorded(cand[p])
  /\ Idle(p)
  /\ UNCHANGED <<disk, gate, store, budget, history>>

\* A mutated form: a backup that is there is not written again.
BackupOnce(p) ==
  LET c == cand[p] f == File(p) IN
  /\ pc[p] = "backup"
  /\ backup' = IF live[f] = Absent \/ backup[c][f] # Absent THEN backup
               ELSE [backup EXCEPT ![c][f] = live[f]]
  /\ reached' = [reached EXCEPT ![c] = @ \cup {f}]
  /\ pc' = [pc EXCEPT ![p] = "install"]
  /\ UNCHANGED <<live, hasBackups, gate, store, cand, pos, kind, snap, budget, pre,
                 clean, undone>>

\* A file that exists is copied to the backup directory.
Backup(p) ==
  LET c == cand[p] f == File(p) IN
  /\ pc[p] = "backup"
  /\ backup' = IF live[f] = Absent THEN backup ELSE [backup EXCEPT ![c][f] = live[f]]
  /\ reached' = [reached EXCEPT ![c] = @ \cup {f}]
  /\ pc' = [pc EXCEPT ![p] = "install"]
  /\ UNCHANGED <<live, hasBackups, gate, store, cand, pos, kind, snap, budget, pre,
                 clean, undone>>

\* The next file of the loop, or out of it to save_candidate.
NextFile(p, step) ==
  IF pos[p] < Len(Changes[cand[p]])
    THEN /\ pc' = [pc EXCEPT ![p] = step]
         /\ pos' = [pos EXCEPT ![p] = @ + 1]
    ELSE /\ pc' = [pc EXCEPT ![p] = "load"]
         /\ pos' = [pos EXCEPT ![p] = 0]

\* The sandbox's content, which is the candidate's, goes live.
Install(p) ==
  /\ pc[p] = "install"
  /\ live' = [live EXCEPT ![File(p)] = cand[p]]
  /\ clean' = Disturbed(File(p), cand[p])
  /\ NextFile(p, "backup")
  /\ UNCHANGED <<backup, hasBackups, gate, store, cand, kind, snap, budget, pre,
                 reached, undone>>

(***************************************************************************)
(* rollback_candidate asks for a record and a backup directory, not for an  *)
(* applied candidate.                                                       *)
(***************************************************************************)
BeginRollback(p, c) ==
  /\ pc[p] = "idle"
  /\ ops > 0 /\ ops' = ops - 1
  /\ Recorded(c) /\ hasBackups[c]
  /\ pc' = [pc EXCEPT ![p] = "restore"]
  /\ cand' = [cand EXCEPT ![p] = c]
  /\ pos' = [pos EXCEPT ![p] = 1]
  /\ kind' = [kind EXCEPT ![p] = "rollback"]
  /\ clean' = [clean EXCEPT ![c] = @ /\ \A q \in Procs : ~Working(q, c)]
  /\ undone' = [undone EXCEPT ![c] = FALSE]
  /\ UNCHANGED <<disk, gate, store, snap, edits, crashes, pre, reached>>

\* A mutated form: files the candidate added are left behind.
RestoreNoUnlink(p) ==
  LET c == cand[p] f == File(p) IN
  /\ pc[p] = "restore"
  /\ live' = IF backup[c][f] = Absent THEN live ELSE [live EXCEPT ![f] = backup[c][f]]
  /\ clean' = Disturbed(f, c)
  /\ NextFile(p, "restore")
  /\ undone' = [undone EXCEPT ![c] = pos[p] = Len(Changes[c])]
  /\ UNCHANGED <<backup, hasBackups, gate, store, cand, kind, snap, budget, pre, reached>>

\* The backup is copied back; without one a file that exists is deleted.
Restore(p) ==
  LET c == cand[p] f == File(p) IN
  /\ pc[p] = "restore"
  /\ live' = [live EXCEPT ![f] = backup[c][f]]
  /\ clean' = Disturbed(f, c)
  /\ NextFile(p, "restore")
  /\ undone' = [undone EXCEPT ![c] = pos[p] = Len(Changes[c])]
  /\ UNCHANGED <<backup, hasBackups, gate, store, cand, kind, snap, budget, pre, reached>>

(***************************************************************************)
(* A process is killed or fails; somebody edits or deletes a file.          *)
(***************************************************************************)
\* write_text truncates first: the file being written may be left torn.
Crash(p) ==
  /\ pc[p] # "idle"
  /\ crashes > 0 /\ crashes' = crashes - 1
  /\ \/ UNCHANGED <<live, backup, clean>>
     \/ /\ pc[p] = "backup" /\ live[File(p)] # Absent
        /\ backup' = [backup EXCEPT ![cand[p]][File(p)] = Torn]
        /\ UNCHANGED <<live, clean>>
     \/ /\ \/ pc[p] = "install"
           \/ pc[p] = "restore" /\ backup[cand[p]][File(p)] # Absent
        /\ live' = [live EXCEPT ![File(p)] = Torn]
        /\ clean' = Disturbed(File(p), cand[p])
        /\ UNCHANGED backup
  /\ Idle(p)
  /\ UNCHANGED <<hasBackups, gate, store, ops, edits, pre, reached, undone>>

Edit(f) ==
  /\ edits > 0 /\ edits' = edits - 1
  /\ \E content \in {Edited, Absent} :
       /\ content # live[f]
       /\ live' = [live EXCEPT ![f] = content]
  /\ clean' = [d \in Candidates |-> clean[d] /\ f \notin TouchedBy(d)]
  /\ UNCHANGED <<backup, hasBackups, gate, store, locals, ops, crashes, pre, reached,
                 undone>>

Init ==
  /\ live \in [Files -> {Original, Absent}]
  /\ backup = [c \in Candidates |-> [f \in Files |-> Absent]]
  /\ hasBackups = [c \in Candidates |-> FALSE]
  /\ gate = [c \in Candidates |-> "none"]
  /\ store = <<>>
  /\ pc = [p \in Procs |-> "idle"]
  /\ cand = [p \in Procs |-> Absent]
  /\ pos = [p \in Procs |-> 0]
  /\ kind = [p \in Procs |-> "none"]
  /\ snap = [p \in Procs |-> <<>>]
  /\ ops = MaxOps /\ edits = MaxEdits /\ crashes = MaxCrashes
  /\ pre = [c \in Candidates |-> [f \in Files |-> Absent]]
  /\ reached = [c \in Candidates |-> {}]
  /\ clean = [c \in Candidates |-> FALSE]
  /\ undone = [c \in Candidates |-> FALSE]

Next ==
  \/ \E p \in Procs, c \in Candidates :
       BeginCreate(p, c) \/ BeginApply(p, c) \/ BeginRollback(p, c)
  \/ \E p \in Procs :
       \/ LoadStore(p) \/ SaveStore(p)
       \/ AutoApply(p) \/ AutoApplyUnknown(p)
       \/ Backup(p) \/ Install(p) \/ Restore(p)
       \/ Crash(p)
  \/ \E f \in Files : Edit(f)

Spec == Init /\ [][Next]_vars

(***************************************************************************)
(* Properties.  History: pre[c] is what c's files were when its last apply   *)
(* began, reached[c] the files that apply has backed up since, undone[c]     *)
(* that a rollback has run to its end since, and clean[c] that c's files     *)
(* have had no other writer since: no edit, no other candidate, no second    *)
(* process on c, no file listed twice, and no backup left of a file that no  *)
(* longer exists.                                                            *)
(***************************************************************************)
StateTypes ==
  /\ live \in [Files -> Content]
  /\ backup \in [Candidates -> [Files -> Content]]
  /\ hasBackups \in [Candidates -> BOOLEAN]
  /\ gate \in [Candidates -> Verdict \cup {"none"}]
  /\ pc \in [Procs -> Step]
  /\ cand \in [Procs -> Candidates \cup {Absent}]
  /\ pos \in [Procs -> Nat]
  /\ kind \in [Procs -> Kind]
  /\ pre \in [Candidates -> [Files -> Content]]
  /\ reached \in [Candidates -> SUBSET Files]
  /\ clean \in [Candidates -> BOOLEAN]
  /\ undone \in [Candidates -> BOOLEAN]

\* Every variable has its type, and the store is cut to max_log_entries.
TypeOK ==
  /\ StateTypes
  /\ store \in Seq(Record) /\ Len(store) <= MaxLog
  /\ snap \in [Procs -> Seq(Record)]
  /\ ops \in 0..MaxOps /\ edits \in 0..MaxEdits /\ crashes \in 0..MaxCrashes

\* What is in the workspace, or may come back to it from a backup, is never the
\* content of a candidate that policy blocked or whose tests did not pass,
\* whatever the processes do at the same time and wherever they are killed
\* (the checks at the head of apply_candidate).
OnlyVettedContent ==
  \A f \in Files, c \in Candidates :
    /\ live[f] = c => gate[c] = "passed"
    /\ \A d \in Candidates : backup[d][f] = c => gate[c] = "passed"

\* A rollback that runs to its end puts every file its apply reached back to what
\* it was when that apply began: rewritten, or deleted if the apply had added it.
\* This holds when the apply or earlier rollbacks were killed half-way, and beside
\* other candidates at work on other files.
RollbackRestores ==
  \A c \in Candidates :
    clean[c] /\ undone[c] => \A f \in reached[c] : live[f] = pre[c][f]

\* apply_candidate is about to overwrite a file only when its backup holds just that
\* content, so what is overwritten is never lost to a crash.
BackupBeforeOverwrite ==
  \A p \in Procs :
    pc[p] = "install" /\ clean[cand[p]] =>
      live[File(p)] \in {Absent, backup[cand[p]][File(p)]}

(***************************************************************************)
(* The inductive strengthening: where a process at work on c has got to,     *)
(* and what the history says of c meanwhile.                                 *)
(***************************************************************************)
Applying(p) == pc[p] \in {"backup", "install"}

\* What OnlyVettedContent rests on: a process past the checks works for a vetted
\* candidate.
VettedWork == \A p \in Procs : Applying(p) => gate[cand[p]] = "passed"

PositionInList ==
  \A p \in Procs :
    /\ pc[p] # "idle" => cand[p] \in Candidates
    /\ Applying(p) \/ pc[p] = "restore" => pos[p] \in 1..Len(Changes[cand[p]])

\* p's apply of c: files from the loop's position on are as the apply found them.
ApplyAt(p, c) ==
  /\ ~undone[c]
  /\ pc[p] = "install" => File(p) \in reached[c]
  /\ \A i \in pos[p]..Len(Changes[c]) :
       LET f == Changes[c][i] IN
       /\ live[f] = pre[c][f]
       /\ i > pos[p] \/ pc[p] = "backup" =>
            f \notin reached[c] /\ (backup[c][f] # Absent => live[f] # Absent)

\* p's rollback of c: files before the loop's position are restored.
RollbackAt(p, c) ==
  /\ ~undone[c]
  /\ \A i \in 1..(pos[p] - 1) :
       Changes[c][i] \in reached[c] => live[Changes[c][i]] = pre[c][Changes[c][i]]

CleanAt(c) ==
  /\ gate[c] # "none" /\ NoDuplicates(c)
  /\ \A p, q \in Procs : Working(p, c) /\ Working(q, c) => p = q
  /\ \A f \in reached[c] : backup[c][f] = pre[c][f]
  /\ \A p \in Procs : Applying(p) /\ cand[p] = c => ApplyAt(p, c)
  /\ \A p \in Procs : pc[p] = "restore" /\ cand[p] = c => RollbackAt(p, c)
  /\ undone[c] => \A f \in reached[c] : live[f] = pre[c][f]

RInv ==
  \A c \in Candidates : reached[c] \subseteq TouchedBy(c) /\ (clean[c] => CleanAt(c))
=============================================================================
