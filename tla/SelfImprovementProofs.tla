----------------------- MODULE SelfImprovementProofs -----------------------
(***************************************************************************)
(* Proofs about SelfImprovement, for any candidates, files, change lists,   *)
(* processes and bounds.                                                    *)
(***************************************************************************)
EXTENDS SelfImprovement, ListProofs, SequenceTheorems, TLAPS

\* The entries of a change list are files.
LEMMA ChangesFacts ==
  ASSUME NEW c \in Candidates
  PROVE  /\ Len(Changes[c]) \in Nat /\ 1 \in 1..Len(Changes[c])
         /\ TouchedBy(c) \subseteq Files
         /\ \A i \in 1..Len(Changes[c]) :
              Changes[c][i] \in Files /\ Changes[c][i] \in TouchedBy(c)
BY ChangesAssumption DEF TouchedBy

\* None of the contents that are not a candidate's is a candidate, and an absent
\* file is not a torn one.
LEMMA ContentFacts ==
  /\ Absent \notin Candidates /\ Torn \notin Candidates /\ Original \notin Candidates
  /\ Edited \notin Candidates /\ Torn # Absent
BY ContentAssumption DEF Others

\* A process in one of the loops has a file of its candidate in hand.
LEMMA FileFacts ==
  ASSUME PositionInList, NEW p \in Procs, Applying(p) \/ pc[p] = "restore"
  PROVE  /\ cand[p] \in Candidates /\ pos[p] \in 1..Len(Changes[cand[p]])
         /\ File(p) \in Files /\ File(p) \in TouchedBy(cand[p])
BY ChangesFacts DEF PositionInList, Applying, File

\* The loops keep the types of what they step.
LEMMA NextFileTypes ==
  ASSUME StateTypes, NEW p \in Procs, NEW step \in Step, NextFile(p, step)
  PROVE  pc' \in [Procs -> Step] /\ pos' \in [Procs -> Nat]
<1>1. pc \in [Procs -> Step] /\ pos \in [Procs -> Nat]
  BY DEF StateTypes
<1>2. PICK s \in Step : pc' = [pc EXCEPT ![p] = s]
  BY DEF NextFile, Step
<1>3. pos' = [pos EXCEPT ![p] = pos[p] + 1] \/ pos' = [pos EXCEPT ![p] = 0]
  BY DEF NextFile
<1>4. pos[p] + 1 \in Nat
  BY <1>1
<1> QED
  BY <1>1, <1>2, <1>3, <1>4

\* The part of the invariant OnlyVettedContent rests on.
VInv == StateTypes /\ PositionInList /\ VettedWork /\ OnlyVettedContent

\* A live or backed-up candidate is a vetted one: the checks at the head of
\* apply_candidate stand between the sandbox and every copy.
THEOREM VettedInvariant == Spec => []VInv
<1>1. Init => VInv
  BY ContentFacts DEF Init, VInv, StateTypes, PositionInList, VettedWork,
     OnlyVettedContent,
     Applying, Step, Kind, Content, Others
<1>2. VInv /\ [Next]_vars => VInv'
  <2> SUFFICES ASSUME VInv, [Next]_vars PROVE VInv'
    OBVIOUS
  <2> USE ChangesFacts, ContentFacts DEF VInv
  <2>1. ASSUME NEW p \in Procs, NEW c \in Candidates, BeginCreate(p, c) PROVE VInv'
    <3>1. StateTypes'
      BY <2>1 DEF BeginCreate, disk, budget, history, StateTypes, Step, Kind, Verdict,
         Content, Others
    <3>2. PositionInList'
      BY <2>1 DEF BeginCreate, disk, budget, history, PositionInList, Applying,
         StateTypes
    <3>3. VettedWork'
      BY <2>1 DEF BeginCreate, disk, budget, history, VettedWork, PositionInList,
         Applying, MayApply, StateTypes
    <3>4. OnlyVettedContent'
      BY <2>1 DEF BeginCreate, disk, budget, history, OnlyVettedContent, VettedWork,
         PositionInList, Applying, StateTypes
    <3> QED
      BY <3>1, <3>2, <3>3, <3>4
  <2>2. ASSUME NEW p \in Procs, NEW c \in Candidates, BeginApply(p, c) PROVE VInv'
    <3>1. StateTypes'
      BY <2>2 DEF BeginApply, OpenApply, StartsClean, StateTypes, Step, Kind, Verdict,
         Content, Others
    <3>2. PositionInList'
      BY <2>2 DEF BeginApply, OpenApply, StartsClean, PositionInList, Applying,
         StateTypes
    <3>3. VettedWork'
      BY <2>2 DEF BeginApply, OpenApply, StartsClean, VettedWork, PositionInList,
         Applying, MayApply, StateTypes
    <3>4. OnlyVettedContent'
      BY <2>2 DEF BeginApply, OpenApply, StartsClean, OnlyVettedContent, VettedWork,
         PositionInList, Applying, StateTypes
    <3> QED
      BY <3>1, <3>2, <3>3, <3>4
  <2>3. ASSUME NEW p \in Procs, NEW c \in Candidates, BeginRollback(p, c) PROVE VInv'
    <3>1. StateTypes'
      BY <2>3 DEF BeginRollback, disk, StateTypes, Step, Kind, Verdict, Content, Others
    <3>2. PositionInList'
      BY <2>3 DEF BeginRollback, disk, PositionInList, Applying, StateTypes
    <3>3. VettedWork'
      BY <2>3 DEF BeginRollback, disk, VettedWork, PositionInList, Applying, MayApply,
         StateTypes
    <3>4. OnlyVettedContent'
      BY <2>3 DEF BeginRollback, disk, OnlyVettedContent, VettedWork, PositionInList,
         Applying, StateTypes
    <3> QED
      BY <3>1, <3>2, <3>3, <3>4
  <2>4. ASSUME NEW p \in Procs, LoadStore(p) PROVE VInv'
    <3>1. StateTypes'
      BY <2>4 DEF LoadStore, disk, budget, history, StateTypes, Step, Kind, Verdict,
         Content, Others
    <3>2. PositionInList'
      BY <2>4 DEF LoadStore, disk, budget, history, PositionInList, Applying, StateTypes
    <3>3. VettedWork'
      BY <2>4 DEF LoadStore, disk, budget, history, VettedWork, PositionInList,
         Applying, MayApply, StateTypes
    <3>4. OnlyVettedContent'
      BY <2>4 DEF LoadStore, disk, budget, history, OnlyVettedContent, VettedWork,
         PositionInList, Applying, StateTypes
    <3> QED
      BY <3>1, <3>2, <3>3, <3>4
  <2>5. ASSUME NEW p \in Procs, SaveStore(p) PROVE VInv'
    <3>1. StateTypes'
      <4>1. \/ Idle(p)
            \/ pc' = [pc EXCEPT ![p] = "auto"] /\ UNCHANGED <<cand, pos, kind>>
            \/ /\ pc' = [pc EXCEPT ![p] = "load"] /\ kind' = [kind EXCEPT ![p] = "confirm"]
               /\ UNCHANGED <<cand, pos>>
        BY <2>5 DEF SaveStore
      <4>2. /\ cand' = cand \/ cand' = [cand EXCEPT ![p] = Absent]
            /\ pos' = pos \/ pos' = [pos EXCEPT ![p] = 0]
        BY <4>1 DEF Idle
      <4>3. pc' \in [Procs -> Step] /\ kind' \in [Procs -> Kind]
        BY <4>1 DEF Idle, StateTypes, Step, Kind
      <4> QED
        <5>1. cand' \in [Procs -> Candidates \cup {Absent}]
          BY <4>2 DEF StateTypes
        <5>2. pos' \in [Procs -> Nat]
          <6>1. pos \in [Procs -> Nat]
            BY DEF StateTypes
          <6> HIDE ChangesFacts, ContentFacts DEF VInv
          <6> QED
            BY <4>2, <6>1
        <5> QED
          BY <2>5, <5>1, <5>2, <4>3 DEF SaveStore, StateTypes, disk, history
    <3>2. PositionInList'
      <4>1. \A q \in Procs : q # p => pc'[q] = pc[q] /\ cand'[q] = cand[q] /\ pos'[q] = pos[q]
        BY <2>5 DEF SaveStore, Idle, StateTypes
      <4>2. \/ Idle(p)
            \/ pc' = [pc EXCEPT ![p] = "auto"] /\ cand' = cand
            \/ pc' = [pc EXCEPT ![p] = "load"] /\ cand' = cand
        BY <2>5 DEF SaveStore
      <4>3. pc[p] = "save"
        BY <2>5 DEF SaveStore
      <4> QED
        BY <4>1, <4>2, <4>3 DEF PositionInList, Applying, Idle, StateTypes
    <3>3. VettedWork'
      BY <2>5 DEF SaveStore, Idle, disk, budget, history, VettedWork, PositionInList,
         Applying, MayApply, StateTypes
    <3>4. OnlyVettedContent'
      BY <2>5 DEF SaveStore, Idle, disk, budget, history, OnlyVettedContent,
         VettedWork, PositionInList, Applying, StateTypes
    <3> QED
      BY <3>1, <3>2, <3>3, <3>4
  <2>6. ASSUME NEW p \in Procs, AutoApply(p) PROVE VInv'
    <3>1. StateTypes'
      BY <2>6 DEF AutoApply, OpenApply, StartsClean, StateTypes, Step, Kind, Verdict,
         Content, Others
    <3>2. PositionInList'
      BY <2>6 DEF AutoApply, OpenApply, StartsClean, PositionInList, Applying,
         StateTypes
    <3>3. VettedWork'
      BY <2>6 DEF AutoApply, OpenApply, StartsClean, VettedWork, PositionInList,
         Applying, MayApply, StateTypes
    <3>4. OnlyVettedContent'
      BY <2>6 DEF AutoApply, OpenApply, StartsClean, OnlyVettedContent, VettedWork,
         PositionInList, Applying, StateTypes
    <3> QED
      BY <3>1, <3>2, <3>3, <3>4
  <2>7. ASSUME NEW p \in Procs, AutoApplyUnknown(p) PROVE VInv'
    <3>1. StateTypes'
      BY <2>7 DEF AutoApplyUnknown, Idle, disk, budget, history, StateTypes, Step,
         Kind, Verdict, Content, Others
    <3>2. PositionInList'
      BY <2>7 DEF AutoApplyUnknown, Idle, disk, budget, history, PositionInList,
         Applying, StateTypes
    <3>3. VettedWork'
      BY <2>7 DEF AutoApplyUnknown, Idle, disk, budget, history, VettedWork,
         PositionInList, Applying, MayApply, StateTypes
    <3>4. OnlyVettedContent'
      BY <2>7 DEF AutoApplyUnknown, Idle, disk, budget, history, OnlyVettedContent,
         VettedWork, PositionInList, Applying, StateTypes
    <3> QED
      BY <3>1, <3>2, <3>3, <3>4
  <2>8. ASSUME NEW p \in Procs, Backup(p) PROVE VInv'
    <3>1. StateTypes'
      <4>1. cand[p] \in Candidates /\ File(p) \in Files
        BY <2>8, FileFacts DEF Backup, Applying
      <4>2. backup' \in [Candidates -> [Files -> Content]]
        <5>1. live[File(p)] \in Content
          BY <4>1 DEF StateTypes
        <5>2. CASE live[File(p)] = Absent
          BY <2>8, <5>2 DEF Backup, StateTypes
        <5>3. CASE live[File(p)] # Absent
          BY <2>8, <4>1, <5>1, <5>3 DEF Backup, StateTypes
        <5> QED
          BY <5>2, <5>3
      <4>3. reached' \in [Candidates -> SUBSET Files] /\ pc' \in [Procs -> Step]
        BY <2>8, <4>1 DEF Backup, StateTypes, Step
      <4> QED
        BY <2>8, <4>2, <4>3 DEF Backup, StateTypes
    <3>2. PositionInList'
      BY <2>8 DEF Backup, File, budget, PositionInList, Applying, StateTypes
    <3>3. VettedWork'
      BY <2>8 DEF Backup, File, budget, VettedWork, PositionInList, Applying,
         MayApply, StateTypes
    <3>4. OnlyVettedContent'
      BY <2>8 DEF Backup, File, budget, OnlyVettedContent, VettedWork, PositionInList,
         Applying, StateTypes
    <3> QED
      BY <3>1, <3>2, <3>3, <3>4
  <2>9. ASSUME NEW p \in Procs, Install(p) PROVE VInv'
    <3>1. StateTypes'
      <4>1. cand[p] \in Candidates /\ File(p) \in Files
        BY <2>9, FileFacts DEF Install, Applying
      <4>2. live' \in [Files -> Content]
        BY <2>9, <4>1 DEF Install, StateTypes, Content
      <4>3. pc' \in [Procs -> Step] /\ pos' \in [Procs -> Nat]
        BY <2>9, NextFileTypes DEF Install, Step
      <4>4. clean' \in [Candidates -> BOOLEAN]
        BY <2>9 DEF Install, Disturbed, StateTypes
      <4> QED
        BY <2>9, <4>2, <4>3, <4>4 DEF Install, StateTypes
    <3>2. PositionInList'
      BY <2>9 DEF Install, NextFile, File, Disturbed, budget, PositionInList,
         Applying, StateTypes
    <3>3. VettedWork'
      BY <2>9 DEF Install, NextFile, File, Disturbed, budget, VettedWork,
         PositionInList, Applying, MayApply, StateTypes
    <3>4. OnlyVettedContent'
      BY <2>9 DEF Install, NextFile, File, Disturbed, budget, OnlyVettedContent,
         VettedWork, PositionInList, Applying, StateTypes
    <3> QED
      BY <3>1, <3>2, <3>3, <3>4
  <2>10. ASSUME NEW p \in Procs, Restore(p) PROVE VInv'
    <3>1. StateTypes'
      <4>1. cand[p] \in Candidates /\ File(p) \in Files
        BY <2>10, FileFacts DEF Restore
      <4>2. live' \in [Files -> Content]
        BY <2>10, <4>1 DEF Restore, StateTypes
      <4>3. pc' \in [Procs -> Step] /\ pos' \in [Procs -> Nat]
        BY <2>10, NextFileTypes DEF Restore, Step
      <4>4. clean' \in [Candidates -> BOOLEAN] /\ undone' \in [Candidates -> BOOLEAN]
        BY <2>10 DEF Restore, Disturbed, StateTypes
      <4> QED
        BY <2>10, <4>2, <4>3, <4>4 DEF Restore, StateTypes
    <3>2. PositionInList'
      BY <2>10 DEF Restore, NextFile, File, Disturbed, budget, PositionInList,
         Applying, StateTypes
    <3>3. VettedWork'
      BY <2>10 DEF Restore, NextFile, File, Disturbed, budget, VettedWork,
         PositionInList, Applying, MayApply, StateTypes
    <3>4. OnlyVettedContent'
      BY <2>10 DEF Restore, NextFile, File, Disturbed, budget, OnlyVettedContent,
         VettedWork, PositionInList, Applying, StateTypes
    <3> QED
      BY <3>1, <3>2, <3>3, <3>4
  <2>11. ASSUME NEW p \in Procs, Crash(p) PROVE VInv'
    <3>1. StateTypes'
      <4>1. /\ pc' \in [Procs -> Step] /\ cand' \in [Procs -> Candidates \cup {Absent}]
            /\ pos' \in [Procs -> Nat] /\ kind' \in [Procs -> Kind]
        BY <2>11 DEF Crash, Idle, StateTypes, Step, Kind
      <4>2. live' \in [Files -> Content]
        BY <2>11 DEF Crash, StateTypes, Content, Others
      <4>3. backup' \in [Candidates -> [Files -> Content]]
        <5>1. CASE backup' = backup
          BY <5>1 DEF StateTypes
        <5>2. CASE backup' # backup
          <6>1. pc[p] = "backup" /\ backup' = [backup EXCEPT ![cand[p]][File(p)] = Torn]
            BY <2>11, <5>2 DEF Crash
          <6>2. cand[p] \in Candidates /\ File(p) \in Files
            BY <6>1, FileFacts DEF Applying
          <6> QED
            BY <6>1, <6>2 DEF StateTypes, Content, Others
        <5> QED
          BY <5>1, <5>2
      <4>4. clean' \in [Candidates -> BOOLEAN]
        BY <2>11 DEF Crash, Disturbed, StateTypes
      <4> QED
        BY <2>11, <4>1, <4>2, <4>3, <4>4 DEF Crash, StateTypes
    <3>2. PositionInList'
      BY <2>11 DEF Crash, Idle, File, Disturbed, PositionInList, Applying, StateTypes
    <3>3. VettedWork'
      BY <2>11 DEF Crash, Idle, File, Disturbed, VettedWork, PositionInList, Applying,
         MayApply, StateTypes
    <3>4. OnlyVettedContent'
      <4>1. \A f \in Files : live'[f] \in {live[f], Torn}
        BY <2>11 DEF Crash, StateTypes
      <4>2. \A d \in Candidates, f \in Files : backup'[d][f] \in {backup[d][f], Torn}
        <5>1. backup' = backup \/ backup' = [backup EXCEPT ![cand[p]][File(p)] = Torn]
          BY <2>11 DEF Crash
        <5>2. ASSUME NEW d \in Candidates, NEW f \in Files, backup' # backup
              PROVE  backup'[d][f] \in {backup[d][f], Torn}
          <6>1. cand[p] \in Candidates
            BY <2>11, <5>2, FileFacts DEF Crash, Applying
          <6>2. backup'[d] = IF d = cand[p] THEN [backup[d] EXCEPT ![File(p)] = Torn]
                             ELSE backup[d]
            BY <5>1, <5>2, <6>1 DEF StateTypes
          <6> QED
            BY <6>2 DEF StateTypes
        <5> QED
          BY <5>2
      <4>3. gate' = gate
        BY <2>11 DEF Crash
      <4> QED
        BY <4>1, <4>2, <4>3 DEF OnlyVettedContent
    <3> QED
      BY <3>1, <3>2, <3>3, <3>4
  <2>12. ASSUME NEW f \in Files, Edit(f) PROVE VInv'
    <3>1. StateTypes'
      BY <2>12 DEF Edit, locals, StateTypes, Step, Kind, Verdict, Content, Others
    <3>2. PositionInList'
      BY <2>12 DEF Edit, locals, PositionInList, Applying, StateTypes
    <3>3. VettedWork'
      BY <2>12 DEF Edit, locals, VettedWork, PositionInList, Applying, MayApply,
         StateTypes
    <3>4. OnlyVettedContent'
      BY <2>12 DEF Edit, locals, OnlyVettedContent, VettedWork, PositionInList,
         Applying, StateTypes
    <3> QED
      BY <3>1, <3>2, <3>3, <3>4
  <2>13. CASE UNCHANGED vars
    BY <2>13 DEF vars, StateTypes, PositionInList, VettedWork, OnlyVettedContent,
       Applying
  <2> QED
    BY <2>1, <2>2, <2>3, <2>4, <2>5, <2>6, <2>7, <2>8, <2>9, <2>10, <2>11, <2>12, <2>13
    DEF Next
<1> QED
  BY <1>1, <1>2, PTL DEF Spec

\* Whatever the processes, crashes and edits, only vetted content goes live.
THEOREM OnlyVettedContentGoesLive == Spec => []OnlyVettedContent
BY VettedInvariant, PTL DEF VInv

(***************************************************************************)
(* The store: what save_candidate makes of a list is a list, of no more     *)
(* than max_log_entries candidates.                                         *)
(***************************************************************************)
IsLog(s) == s \in Seq(Record) /\ Len(s) <= MaxLog

\* The last max_log_entries of a list.
LEMMA KeptIsLog ==
  ASSUME NEW s \in Seq(Record)
  PROVE  IsLog(Kept(s))
<1>1. MaxLog \in Nat /\ MaxLog # 0 /\ Len(s) \in Nat
  BY SelfImprovementBounds
<1>2. CASE Len(s) <= MaxLog
  BY <1>2 DEF Kept, IsLog
<1>3. CASE ~(Len(s) <= MaxLog)
  <2> DEFINE m == Len(s) - MaxLog + 1
  <2>1. m \in Int /\ 1 <= m /\ m <= Len(s) /\ Len(s) - m + 1 = MaxLog
    BY <1>1, <1>3
  <2>2. \A i \in m..Len(s) : s[i] \in Record
    BY <2>1
  <2>3. SubSeq(s, m, Len(s)) \in Seq(Record) /\ Len(SubSeq(s, m, Len(s))) = MaxLog
    BY <1>1, <2>1, <2>2, SubSeqProperties
  <2>4. Kept(s) = SubSeq(s, m, Len(s))
    BY <1>3 DEF Kept
  <2> QED
    BY <1>1, <2>3, <2>4 DEF IsLog
<1> QED
  BY <1>2, <1>3

\* A record takes the place of the one of the same candidate.
LEMMA ReplacedIsList ==
  ASSUME NEW s \in Seq(Record), NEW record \in Record
  PROVE  Replaced(s, record) \in Seq(Record)
<1>1. Among(s, {r \in Record : r.id # record.id}) \in Seq(Record)
  BY AmongIsFaithful
<1> QED
  BY <1>1 DEF Replaced

\* The store, and what each process has read of it.
Logs == IsLog(store) /\ snap \in [Procs -> Seq(Record)]

\* A process forgets what it has read, or keeps it.
LEMMA Forgetting ==
  ASSUME Logs, NEW p \in Procs,
         snap' = snap \/ snap' = [snap EXCEPT ![p] = <<>>], store' = store
  PROVE  Logs'
<1>1. <<>> \in Seq(Record)
  OBVIOUS
<1> QED
  BY <1>1 DEF Logs

\* Two processes may each save what they read before the other's save: whatever is
\* lost that way, the file is a list of candidates within max_log_entries.
THEOREM LogsInvariant == Spec => []Logs
<1>1. Init => Logs
  <2>1. <<>> \in Seq(Record) /\ Len(<<>>) = 0 /\ 0 <= MaxLog
    BY SelfImprovementBounds
  <2> QED
    BY <2>1 DEF Init, Logs, IsLog
<1>2. VInv /\ Logs /\ [Next]_vars => Logs'
  <2> SUFFICES ASSUME PositionInList, Logs, [Next]_vars PROVE Logs'
    BY DEF VInv
  <2>1. ASSUME NEW p \in Procs, NEW c \in Candidates,
               BeginCreate(p, c) \/ BeginApply(p, c) \/ BeginRollback(p, c)
        PROVE  Logs'
    <3>1. store' = store /\ snap' = snap
      BY <2>1 DEF BeginCreate, BeginApply, OpenApply, BeginRollback
    <3> QED
      BY <3>1, Forgetting
  <2>2. ASSUME NEW p \in Procs, LoadStore(p) PROVE Logs'
    BY <2>2 DEF LoadStore, Logs, IsLog
  <2>3. ASSUME NEW p \in Procs, SaveStore(p) PROVE Logs'
    <3> DEFINE record == [id |-> cand[p], applied |-> kind[p] \in {"apply", "auto", "confirm"}]
    <3>1. record \in Record
      BY <2>3 DEF SaveStore, PositionInList, Record
    <3>2. store' = Kept(Replaced(snap[p], record))
      BY <2>3 DEF SaveStore
    <3>3. snap' = [snap EXCEPT ![p] = <<>>]
      BY <2>3 DEF SaveStore, Idle
    <3> HIDE DEF record
    <3>4. snap[p] \in Seq(Record)
      BY DEF Logs
    <3>5. IsLog(store')
      BY <3>1, <3>2, <3>4, ReplacedIsList, KeptIsLog
    <3>6. <<>> \in Seq(Record)
      OBVIOUS
    <3> QED
      BY <3>3, <3>5, <3>6 DEF Logs, IsLog
  <2>4. ASSUME NEW p \in Procs,
               AutoApply(p) \/ AutoApplyUnknown(p) \/ Backup(p) \/ Install(p)
                 \/ Restore(p) \/ Crash(p)
        PROVE  Logs'
    <3>1. store' = store /\ (snap' = snap \/ snap' = [snap EXCEPT ![p] = <<>>])
      BY <2>4 DEF AutoApply, OpenApply, AutoApplyUnknown, Backup, Install, Restore,
         Crash, Idle
    <3> QED
      BY <3>1, Forgetting
  <2>5. ASSUME NEW f \in Files, Edit(f) PROVE Logs'
    BY <2>5 DEF Edit, locals, Logs, IsLog
  <2>6. CASE UNCHANGED vars
    BY <2>6 DEF vars, Logs, IsLog
  <2> QED
    BY <2>1, <2>2, <2>3, <2>4, <2>5, <2>6 DEF Next
<1> QED
  BY <1>1, <1>2, VettedInvariant, PTL DEF Spec

\* What the bounds have left.
Budget == ops \in 0..MaxOps /\ edits \in 0..MaxEdits /\ crashes \in 0..MaxCrashes

\* No step takes more than is left.
THEOREM BudgetInvariant == Spec => []Budget
<1> USE SelfImprovementBounds
<1>1. Init => Budget
  BY DEF Init, Budget
<1>2. Budget /\ [Next]_vars => Budget'
  <2> SUFFICES ASSUME Budget, [Next]_vars PROVE Budget'
    OBVIOUS
  <2>1. ASSUME NEW p \in Procs, NEW c \in Candidates,
               BeginCreate(p, c) \/ BeginApply(p, c) \/ BeginRollback(p, c)
        PROVE  Budget'
    BY <2>1 DEF BeginCreate, BeginApply, OpenApply, BeginRollback, budget, Budget
  <2>2. ASSUME NEW p \in Procs,
               LoadStore(p) \/ SaveStore(p) \/ AutoApply(p) \/ AutoApplyUnknown(p)
                 \/ Backup(p) \/ Install(p) \/ Restore(p)
        PROVE  Budget'
    <3>1. UNCHANGED budget
      BY <2>2 DEF LoadStore, SaveStore, AutoApply, OpenApply, AutoApplyUnknown, Backup,
         Install, Restore, budget
    <3> QED
      BY <3>1 DEF budget, Budget
  <2>3. ASSUME NEW p \in Procs, Crash(p) PROVE Budget'
    BY <2>3 DEF Crash, Budget
  <2>4. ASSUME NEW f \in Files, Edit(f) PROVE Budget'
    BY <2>4 DEF Edit, Budget
  <2>5. CASE UNCHANGED vars
    BY <2>5 DEF vars, Budget
  <2> QED
    BY <2>1, <2>2, <2>3, <2>4, <2>5 DEF Next
<1> QED
  BY <1>1, <1>2, PTL DEF Spec

\* Every variable has its type, and the store is never longer than max_log_entries.
THEOREM TypeCorrect == Spec => []TypeOK
<1>1. VInv /\ Logs /\ Budget => TypeOK
  BY DEF VInv, Logs, IsLog, Budget, TypeOK
<1> QED
  BY <1>1, VettedInvariant, LogsInvariant, BudgetInvariant, PTL

(***************************************************************************)
(* Rollback.  Frame is what every step that is not a step of c's own loops   *)
(* comes down to; the loops' steps are taken one by one.                     *)
(***************************************************************************)
Looping(p, c) == cand[p] = c /\ pc[p] \in {"backup", "install", "restore"}

\* What a step that leaves the files and the loops of c alone preserves.
LEMMA Frame ==
  ASSUME NEW c \in Candidates, StateTypes, PositionInList,
         CleanAt(c), reached[c] \subseteq TouchedBy(c),
         gate'[c] # "none",
         \A f \in TouchedBy(c) : live'[f] = live[f],
         backup'[c] = backup[c], pre'[c] = pre[c], reached'[c] = reached[c],
         undone'[c] = undone[c],
         \A q \in Procs : Working(q, c)' => Working(q, c),
         \A q \in Procs : Looping(q, c)' =>
           Looping(q, c) /\ pc'[q] = pc[q] /\ pos'[q] = pos[q]
  PROVE  CleanAt(c)'
<1>1. gate'[c] # "none" /\ NoDuplicates(c)
  BY DEF CleanAt
<1>2. \A p, q \in Procs : Working(p, c)' /\ Working(q, c)' => p = q
  BY DEF CleanAt
<1>3. \A f \in reached'[c] : backup'[c][f] = pre'[c][f]
  BY DEF CleanAt
<1>4. ASSUME NEW p \in Procs, Applying(p)', cand'[p] = c PROVE ApplyAt(p, c)'
  <2>1. /\ Applying(p) /\ cand[p] = c /\ pc'[p] = pc[p] /\ pos'[p] = pos[p]
        /\ ApplyAt(p, c) /\ pos[p] \in 1..Len(Changes[c])
    BY <1>4 DEF Looping, Applying, CleanAt, PositionInList
  <2>2. \A i \in pos[p]..Len(Changes[c]) : live'[Changes[c][i]] = live[Changes[c][i]]
    BY <2>1, ChangesFacts
  <2>3. File(p)' = File(p)
    BY <1>4, <2>1 DEF File
  <2> QED
    BY <2>1, <2>2, <2>3 DEF ApplyAt
<1>5. ASSUME NEW p \in Procs, pc'[p] = "restore", cand'[p] = c PROVE RollbackAt(p, c)'
  <2>1. pc[p] = "restore" /\ cand[p] = c /\ pos'[p] = pos[p] /\ RollbackAt(p, c)
    BY <1>5 DEF Looping, CleanAt
  <2> QED
    BY <2>1 DEF RollbackAt
<1>6. undone'[c] => \A f \in reached'[c] : live'[f] = pre'[c][f]
  BY DEF CleanAt
<1> QED
  BY <1>1, <1>2, <1>3, <1>4, <1>5, <1>6 DEF CleanAt, NoDuplicates

\* The state an apply starts from.
LEMMA Opening ==
  ASSUME NEW p \in Procs, NEW k \in Candidates,
         StateTypes, PositionInList, RInv,
         MayApply(k), OpenApply(p, k), cand' = [cand EXCEPT ![p] = k],
         pc[p] = "idle" \/ cand[p] = k
  PROVE  RInv'
<1> SUFFICES ASSUME NEW c \in Candidates
             PROVE  (reached[c] \subseteq TouchedBy(c) /\ (clean[c] => CleanAt(c)))'
  BY DEF RInv
<1>1. reached'[c] \subseteq TouchedBy(c)
  BY DEF OpenApply, RInv, StateTypes
<1>2. CASE c # k
  <2>1. ASSUME clean'[c] PROVE CleanAt(c)'
    <3>1. clean[c] /\ CleanAt(c) /\ reached[c] \subseteq TouchedBy(c) /\ gate'[c] # "none"
      BY <1>2, <2>1 DEF OpenApply, RInv, StateTypes, CleanAt
    <3>2. /\ pre'[c] = pre[c] /\ reached'[c] = reached[c] /\ undone'[c] = undone[c]
          /\ backup' = backup /\ live' = live
      BY <1>2 DEF OpenApply, StateTypes
    <3>3. \A q \in Procs : cand'[q] = c => q # p /\ pc'[q] = pc[q] /\ pos'[q] = pos[q]
                                          /\ cand[q] = c
      BY <1>2 DEF OpenApply, StateTypes
    <3> QED
      BY <3>1, <3>2, <3>3, Frame DEF Working, Looping
  <2> QED
    BY <1>1, <2>1
<1>3. CASE c = k
  <2>1. ASSUME clean'[c] PROVE CleanAt(c)'
    <3>1. StartsClean(p, c) /\ gate'[c] # "none"
      BY <1>3, <2>1 DEF OpenApply, StateTypes, MayApply
    <3>2. /\ reached'[c] = {} /\ ~undone'[c] /\ backup' = backup /\ live' = live
          /\ pc'[p] = "backup" /\ pos'[p] = 1
          /\ \A f \in TouchedBy(c) : pre'[c][f] = live[f]
      BY <1>3, ChangesFacts DEF OpenApply, StateTypes
    <3>3. \A q \in Procs : Working(q, c)' => q = p
      BY <3>1 DEF StartsClean, Working, OpenApply, StateTypes
    <3>4. ApplyAt(p, c)'
      BY <3>1, <3>2, ChangesFacts DEF ApplyAt, StartsClean
    <3>5. \A q \in Procs : (Applying(q) \/ pc[q] = "restore")' /\ cand'[q] = c => q = p
      BY <3>3 DEF Working, Applying
    <3> QED
      BY <3>1, <3>2, <3>3, <3>4, <3>5 DEF CleanAt, StartsClean, NoDuplicates
  <2> QED
    BY <1>1, <2>1
<1> QED
  BY <1>2, <1>3

\* The state a rollback starts from.
LEMMA OpeningRollback ==
  ASSUME NEW p \in Procs, NEW k \in Candidates,
         StateTypes, PositionInList, RInv, BeginRollback(p, k)
  PROVE  RInv'
<1> SUFFICES ASSUME NEW c \in Candidates
             PROVE  (reached[c] \subseteq TouchedBy(c) /\ (clean[c] => CleanAt(c)))'
  BY DEF RInv
<1>1. reached'[c] \subseteq TouchedBy(c)
  BY DEF BeginRollback, RInv
<1>2. ASSUME clean'[c] PROVE CleanAt(c)'
  <2>1. clean[c] /\ CleanAt(c) /\ reached[c] \subseteq TouchedBy(c)
    BY <1>2 DEF BeginRollback, RInv, StateTypes
  <2>2. /\ gate' = gate /\ live' = live /\ backup' = backup
        /\ pre' = pre /\ reached' = reached
    BY DEF BeginRollback, disk
  <2>3. CASE c # k
    <3>1. undone'[c] = undone[c] /\ gate'[c] # "none"
      BY <2>1, <2>2, <2>3 DEF BeginRollback, StateTypes, CleanAt
    <3>2. \A q \in Procs : cand'[q] = c => q # p /\ pc'[q] = pc[q] /\ pos'[q] = pos[q]
                                          /\ cand[q] = c
      BY <2>3 DEF BeginRollback, StateTypes
    <3> QED
      BY <2>1, <2>2, <3>1, <3>2, Frame DEF Working, Looping
  <2>4. CASE c = k
    <3>1. /\ ~undone'[c] /\ pc'[p] = "restore" /\ pos'[p] = 1
          /\ \A q \in Procs : ~Working(q, c)
      BY <1>2, <2>4 DEF BeginRollback, StateTypes
    <3>2. \A q \in Procs : Working(q, c)' => q = p
      BY <3>1 DEF Working, BeginRollback, StateTypes
    <3>3. RollbackAt(p, c)'
      BY <3>1 DEF RollbackAt
    <3>4. \A q \in Procs : Applying(q)' => cand'[q] # c
      BY <3>1, <3>2 DEF Working, Applying
    <3>5. \A q \in Procs : pc'[q] = "restore" /\ cand'[q] = c => q = p
      BY <3>2 DEF Working
    <3> QED
      BY <2>1, <2>2, <3>1, <3>2, <3>3, <3>4, <3>5 DEF CleanAt, NoDuplicates
  <2> QED
    BY <2>3, <2>4
<1> QED
  BY <1>1, <1>2

\* One file of an apply is backed up.
LEMMA BackingUp ==
  ASSUME NEW p \in Procs, StateTypes, PositionInList, RInv, Backup(p)
  PROVE  RInv'
<1> DEFINE k == cand[p]
           g == File(p)
<1>1. /\ k \in Candidates /\ pos[p] \in 1..Len(Changes[k]) /\ g \in Files
      /\ g \in TouchedBy(k) /\ g = Changes[k][pos[p]]
  BY FileFacts DEF Backup, Applying, File
<1>2. /\ gate' = gate /\ live' = live /\ pre' = pre /\ undone' = undone
      /\ clean' = clean /\ cand' = cand /\ pos' = pos
      /\ pc' = [pc EXCEPT ![p] = "install"] /\ pc[p] = "backup"
      /\ reached' = [reached EXCEPT ![k] = @ \cup {g}]
  BY DEF Backup
<1>3. backup' = IF live[g] = Absent THEN backup ELSE [backup EXCEPT ![k][g] = live[g]]
  BY DEF Backup
<1> HIDE DEF k, g
<1> SUFFICES ASSUME NEW c \in Candidates
             PROVE  (reached[c] \subseteq TouchedBy(c) /\ (clean[c] => CleanAt(c)))'
  BY DEF RInv
<1>4. reached'[c] \subseteq TouchedBy(c)
  BY <1>1, <1>2 DEF RInv, StateTypes
<1>5. ASSUME clean'[c] PROVE CleanAt(c)'
  <2>1. clean[c] /\ CleanAt(c) /\ reached[c] \subseteq TouchedBy(c) /\ gate'[c] # "none"
    BY <1>2, <1>5 DEF RInv, CleanAt
  <2>2. CASE c # k
    <3>1. backup'[c] = backup[c] /\ reached'[c] = reached[c]
      BY <1>1, <1>2, <1>3, <2>2 DEF StateTypes
    <3>2. \A q \in Procs : cand[q] = c => q # p /\ pc'[q] = pc[q]
      BY <1>2, <2>2 DEF StateTypes, k
    <3> QED
      BY <1>2, <2>1, <3>1, <3>2, Frame DEF Working, Looping
  <2>3. CASE c = k
    <3>1. cand[p] = c /\ Applying(p) /\ ApplyAt(p, c)
      BY <1>2, <2>1, <2>3 DEF CleanAt, Applying, k
    <3>2. /\ live[g] = pre[c][g] /\ g \notin reached[c]
          /\ (backup[c][g] # Absent => live[g] # Absent)
      BY <1>1, <1>2, <2>3, <3>1 DEF ApplyAt
    <3>3. \A q \in Procs : Working(q, c) => q = p
      BY <1>2, <2>1, <3>1 DEF CleanAt, Working
    <3>4. \A q \in Procs : Working(q, c)' => q = p
      BY <1>2, <3>3 DEF Working, StateTypes
    <3>5. backup'[c][g] = live[g] /\ \A f \in Files : f # g => backup'[c][f] = backup[c][f]
      <4>1. CASE live[g] = Absent
        BY <1>3, <3>2, <4>1
      <4>2. CASE live[g] # Absent
        BY <1>1, <1>3, <2>3, <4>2 DEF StateTypes
      <4> QED
        BY <4>1, <4>2
    <3>6. reached'[c] = reached[c] \cup {g}
      BY <1>2, <2>3 DEF StateTypes
    <3>7. \A f \in reached'[c] : backup'[c][f] = pre'[c][f]
      <4>1. \A f \in reached[c] : f \in Files /\ backup[c][f] = pre[c][f]
        BY <2>1 DEF CleanAt, StateTypes
      <4> QED
        BY <1>2, <3>2, <3>5, <3>6, <4>1
    <3>8. ApplyAt(p, c)'
      <4>1. ~undone'[c] /\ File(p)' \in reached'[c] /\ pc'[p] = "install"
        BY <1>1, <1>2, <2>3, <3>1, <3>6 DEF ApplyAt, File, StateTypes, k
      <4>2. ASSUME NEW i \in pos[p]..Len(Changes[c])
            PROVE  LET f == Changes[c][i] IN
                   /\ live[f] = pre[c][f]
                   /\ i > pos[p] => f \notin reached'[c]
                                    /\ (backup'[c][f] # Absent => live[f] # Absent)
        <5>1. i \in 1..Len(Changes[c]) /\ Changes[c][i] \in Files
          BY <1>1, <2>3, ChangesFacts
        <5>2. live[Changes[c][i]] = pre[c][Changes[c][i]]
          BY <3>1 DEF ApplyAt
        <5>3. ASSUME i > pos[p] PROVE Changes[c][i] # g
          BY <1>1, <2>1, <2>3, <5>1, <5>3 DEF CleanAt, NoDuplicates
        <5>4. ASSUME i > pos[p]
              PROVE  /\ Changes[c][i] \notin reached[c]
                     /\ backup[c][Changes[c][i]] # Absent => live[Changes[c][i]] # Absent
          BY <3>1, <5>4 DEF ApplyAt
        <5> QED
          BY <3>5, <3>6, <5>1, <5>2, <5>3, <5>4
      <4> QED
        BY <1>2, <4>1, <4>2 DEF ApplyAt
    <3>9. ~undone'[c]
      BY <1>2, <3>1 DEF ApplyAt
    <3>10. \A q \in Procs : (Applying(q) \/ pc[q] = "restore")' /\ cand'[q] = c =>
             q = p /\ pc'[q] = "install"
      BY <1>2, <3>4 DEF Working, Applying, StateTypes
    <3> QED
      BY <2>1, <3>4, <3>7, <3>8, <3>9, <3>10 DEF CleanAt, NoDuplicates
  <2> QED
    BY <2>2, <2>3
<1> QED
  BY <1>4, <1>5

\* One file of an apply goes live.
LEMMA Installing ==
  ASSUME NEW p \in Procs, StateTypes, PositionInList, RInv, Install(p)
  PROVE  RInv'
<1> DEFINE k == cand[p]
           g == File(p)
<1>1. /\ k \in Candidates /\ pos[p] \in 1..Len(Changes[k]) /\ Len(Changes[k]) \in Nat
      /\ g \in Files /\ g \in TouchedBy(k) /\ g = Changes[k][pos[p]]
  BY FileFacts, ChangesFacts DEF Install, Applying, File
<1>2. /\ gate' = gate /\ backup' = backup /\ pre' = pre /\ undone' = undone
      /\ reached' = reached /\ cand' = cand /\ pc[p] = "install"
      /\ live' = [live EXCEPT ![g] = k] /\ clean' = Disturbed(g, k)
  BY DEF Install
<1>3. \/ /\ pos[p] < Len(Changes[k])
         /\ pc' = [pc EXCEPT ![p] = "backup"] /\ pos' = [pos EXCEPT ![p] = @ + 1]
      \/ pc' = [pc EXCEPT ![p] = "load"] /\ pos' = [pos EXCEPT ![p] = 0]
  BY DEF Install, NextFile
<1> HIDE DEF k, g
<1>4. \A q \in Procs : q # p => pc'[q] = pc[q] /\ pos'[q] = pos[q]
  BY <1>3 DEF StateTypes
<1>5. \A f \in Files : f # g => live'[f] = live[f]
  BY <1>2 DEF StateTypes
<1> SUFFICES ASSUME NEW c \in Candidates
             PROVE  (reached[c] \subseteq TouchedBy(c) /\ (clean[c] => CleanAt(c)))'
  BY DEF RInv
<1>6. reached'[c] \subseteq TouchedBy(c)
  BY <1>2 DEF RInv
<1>7. ASSUME clean'[c] PROVE CleanAt(c)'
  <2>1. clean[c] /\ (c = k \/ g \notin TouchedBy(c))
    BY <1>2, <1>7 DEF Disturbed
  <2>2. CleanAt(c) /\ reached[c] \subseteq TouchedBy(c) /\ gate'[c] # "none"
    BY <1>2, <2>1 DEF RInv, CleanAt
  <2>3. CASE c # k
    <3>1. \A f \in TouchedBy(c) : live'[f] = live[f]
      BY <1>5, <2>1, <2>3, ChangesFacts
    <3>2. \A q \in Procs : cand[q] = c => q # p
      BY <2>3 DEF k
    <3> QED
      BY <1>2, <1>4, <2>2, <3>1, <3>2, Frame DEF Working, Looping
  <2>4. CASE c = k
    <3>1. cand[p] = c /\ Applying(p) /\ ApplyAt(p, c)
      BY <1>2, <2>2, <2>4 DEF CleanAt, Applying, k
    <3>2. \A q \in Procs : Working(q, c)' => q = p
      BY <1>2, <1>4, <2>2, <3>1 DEF CleanAt, Working, Applying
    <3>3. ~undone'[c]
      BY <1>2, <3>1 DEF ApplyAt
    <3>4. \A q \in Procs : pc'[q] = "restore" => cand'[q] # c
      BY <1>3, <3>2 DEF Working, StateTypes
    <3>5. ASSUME pc'[p] = "backup" PROVE ApplyAt(p, c)'
      <4>1. pos'[p] = pos[p] + 1
        BY <1>3, <3>5 DEF StateTypes
      <4>2. ASSUME NEW i \in (pos[p] + 1)..Len(Changes[c])
            PROVE  LET f == Changes[c][i] IN
                   /\ live'[f] = pre[c][f]
                   /\ f \notin reached[c]
                   /\ backup[c][f] # Absent => live'[f] # Absent
        <5>1. /\ i \in 1..Len(Changes[c]) /\ i \in pos[p]..Len(Changes[c]) /\ i > pos[p]
              /\ Changes[c][i] \in Files
          BY <1>1, <2>4, ChangesFacts
        <5>2. Changes[c][i] # g
          BY <1>1, <2>2, <2>4, <5>1 DEF CleanAt, NoDuplicates
        <5>3. live'[Changes[c][i]] = live[Changes[c][i]]
          BY <1>5, <5>1, <5>2
        <5> QED
          BY <3>1, <5>1, <5>3 DEF ApplyAt
      <4> QED
        BY <1>2, <3>3, <3>5, <4>1, <4>2 DEF ApplyAt
    <3>6. \A q \in Procs : Applying(q)' /\ cand'[q] = c => q = p /\ pc'[q] = "backup"
      BY <1>3, <3>2 DEF Working, Applying, StateTypes
    <3> QED
      BY <1>2, <2>2, <3>2, <3>3, <3>4, <3>5, <3>6 DEF CleanAt, NoDuplicates
  <2> QED
    BY <2>3, <2>4
<1> QED
  BY <1>6, <1>7

\* One file of a rollback is put back.
LEMMA Restoring ==
  ASSUME NEW p \in Procs, StateTypes, PositionInList, RInv, Restore(p)
  PROVE  RInv'
<1> DEFINE k == cand[p]
           g == File(p)
<1>1. /\ k \in Candidates /\ pos[p] \in 1..Len(Changes[k]) /\ Len(Changes[k]) \in Nat
      /\ g \in Files /\ g \in TouchedBy(k) /\ g = Changes[k][pos[p]]
  BY FileFacts, ChangesFacts DEF Restore, Applying, File
<1>2. /\ gate' = gate /\ backup' = backup /\ pre' = pre
      /\ undone' = [undone EXCEPT ![k] = pos[p] = Len(Changes[k])]
      /\ reached' = reached /\ cand' = cand /\ pc[p] = "restore"
      /\ live' = [live EXCEPT ![g] = backup[k][g]] /\ clean' = Disturbed(g, k)
  BY DEF Restore
<1>3. \/ /\ pos[p] < Len(Changes[k])
         /\ pc' = [pc EXCEPT ![p] = "restore"] /\ pos' = [pos EXCEPT ![p] = @ + 1]
      \/ pc' = [pc EXCEPT ![p] = "load"] /\ pos' = [pos EXCEPT ![p] = 0]
         /\ pos[p] = Len(Changes[k])
  BY <1>1 DEF Restore, NextFile
<1> HIDE DEF k, g
<1>4. \A q \in Procs : q # p => pc'[q] = pc[q] /\ pos'[q] = pos[q]
  BY <1>3 DEF StateTypes
<1>5. live'[g] = backup[k][g] /\ \A f \in Files : f # g => live'[f] = live[f]
  BY <1>1, <1>2 DEF StateTypes
<1> SUFFICES ASSUME NEW c \in Candidates
             PROVE  (reached[c] \subseteq TouchedBy(c) /\ (clean[c] => CleanAt(c)))'
  BY DEF RInv
<1>6. reached'[c] \subseteq TouchedBy(c)
  BY <1>2 DEF RInv
<1>7. ASSUME clean'[c] PROVE CleanAt(c)'
  <2>1. clean[c] /\ (c = k \/ g \notin TouchedBy(c))
    BY <1>2, <1>7 DEF Disturbed
  <2>2. CleanAt(c) /\ reached[c] \subseteq TouchedBy(c) /\ gate'[c] # "none"
    BY <1>2, <2>1 DEF RInv, CleanAt
  <2>3. CASE c # k
    <3>1. \A f \in TouchedBy(c) : live'[f] = live[f]
      BY <1>5, <2>1, <2>3, ChangesFacts
    <3>2. \A q \in Procs : cand[q] = c => q # p
      BY <2>3 DEF k
    <3>3. undone'[c] = undone[c]
      BY <1>2, <2>3 DEF StateTypes
    <3> QED
      BY <1>2, <1>4, <2>2, <3>1, <3>2, <3>3, Frame DEF Working, Looping
  <2>4. CASE c = k
    <3>1. cand[p] = c /\ RollbackAt(p, c)
      BY <1>2, <2>2, <2>4 DEF CleanAt, k
    <3>2. \A q \in Procs : Working(q, c)' => q = p
      BY <1>2, <1>4, <2>2, <3>1 DEF CleanAt, Working
    <3>3. \A i \in 1..pos[p] :
            Changes[c][i] \in reached[c] => live'[Changes[c][i]] = pre[c][Changes[c][i]]
      <4> TAKE i \in 1..pos[p]
      <4> HAVE Changes[c][i] \in reached[c]
      <4>1. Changes[c][i] \in Files
        BY <1>1, <2>4, ChangesFacts
      <4>2. CASE Changes[c][i] = g
        BY <1>5, <2>2, <2>4, <4>2 DEF CleanAt
      <4>3. CASE Changes[c][i] # g
        <5>1. i \in 1..(pos[p] - 1)
          BY <1>1, <2>4, <4>3
        <5> QED
          BY <1>5, <3>1, <4>1, <4>3, <5>1 DEF RollbackAt
      <4> QED
        BY <4>2, <4>3
    <3>4. undone'[c] <=> pos[p] = Len(Changes[c])
      BY <1>2, <2>4 DEF StateTypes
    <3>5. undone'[c] => \A f \in reached'[c] : live'[f] = pre'[c][f]
      BY <1>2, <2>2, <3>3, <3>4 DEF TouchedBy
    <3>6. \A q \in Procs : Applying(q)' => cand'[q] # c
      BY <1>3, <3>2 DEF Working, Applying, StateTypes
    <3>7. ASSUME pc'[p] = "restore" PROVE RollbackAt(p, c)'
      <4>1. pos'[p] = pos[p] + 1 /\ pos[p] < Len(Changes[c])
        BY <1>3, <2>4, <3>7 DEF StateTypes
      <4>2. 1..(pos'[p] - 1) = 1..pos[p] /\ ~undone'[c]
        BY <1>1, <3>4, <4>1
      <4> QED
        BY <1>2, <3>3, <4>2 DEF RollbackAt
    <3>8. \A q \in Procs : pc'[q] = "restore" /\ cand'[q] = c => q = p
      BY <3>2 DEF Working
    <3> QED
      BY <1>2, <2>2, <3>2, <3>5, <3>6, <3>7, <3>8 DEF CleanAt, NoDuplicates
  <2> QED
    BY <2>3, <2>4
<1> QED
  BY <1>6, <1>7

\* A process dies; the file it was writing may be torn.
LEMMA Crashing ==
  ASSUME NEW p \in Procs, StateTypes, PositionInList, RInv, Crash(p)
  PROVE  RInv'
<1> DEFINE k == cand[p]
           g == File(p)
<1>1. /\ gate' = gate /\ pre' = pre /\ undone' = undone /\ reached' = reached
      /\ pc[p] # "idle" /\ k \in Candidates
      /\ pc' = [pc EXCEPT ![p] = "idle"] /\ cand' = [cand EXCEPT ![p] = Absent]
      /\ pos' = [pos EXCEPT ![p] = 0]
  BY DEF Crash, Idle, PositionInList
<1>2. \/ live' = live /\ backup' = backup /\ clean' = clean
      \/ /\ pc[p] = "backup" /\ backup' = [backup EXCEPT ![k][g] = Torn]
         /\ live' = live /\ clean' = clean
      \/ /\ pc[p] \in {"install", "restore"} /\ live' = [live EXCEPT ![g] = Torn]
         /\ clean' = Disturbed(g, k) /\ backup' = backup
  BY DEF Crash
<1>3. pc[p] \in {"backup", "install", "restore"} =>
        /\ pos[p] \in 1..Len(Changes[k]) /\ g \in Files /\ g \in TouchedBy(k)
        /\ g = Changes[k][pos[p]]
  BY FileFacts DEF Applying, File
<1> HIDE DEF k, g
<1>4. /\ \A q \in Procs : q # p => pc'[q] = pc[q] /\ pos'[q] = pos[q] /\ cand'[q] = cand[q]
      /\ pc'[p] = "idle"
  BY <1>1 DEF StateTypes
<1> SUFFICES ASSUME NEW c \in Candidates
             PROVE  (reached[c] \subseteq TouchedBy(c) /\ (clean[c] => CleanAt(c)))'
  BY DEF RInv
<1>5. reached'[c] \subseteq TouchedBy(c)
  BY <1>1 DEF RInv
<1>6. ASSUME clean'[c] PROVE CleanAt(c)'
  <2>1. clean[c] /\ (live' = live \/ c = k \/ \A f \in TouchedBy(c) : f # g)
    BY <1>2, <1>6 DEF Disturbed
  <2>2. CleanAt(c) /\ reached[c] \subseteq TouchedBy(c) /\ gate'[c] # "none"
    BY <1>1, <2>1 DEF RInv, CleanAt
  <2>3. CASE c # k
    <3>1. \A f \in TouchedBy(c) : live'[f] = live[f]
      BY <1>2, <2>1, <2>3, ChangesFacts DEF StateTypes
    <3>2. backup'[c] = backup[c]
      BY <1>1, <1>2, <2>3 DEF StateTypes
    <3> QED
      BY <1>1, <1>4, <2>2, <3>1, <3>2, Frame DEF Working, Looping
  <2>4. CASE c = k
    <3>1. \A q \in Procs : ~Working(q, c)'
      BY <1>1, <1>4, <2>2, <2>4 DEF CleanAt, Working, k
    <3>2. \A q \in Procs : (Applying(q) \/ pc[q] = "restore")' => cand'[q] # c
      BY <3>1 DEF Working, Applying
    <3>3. \A f \in reached[c] : backup'[c][f] = pre[c][f]
      <4>1. CASE backup' = backup
        BY <2>2, <4>1 DEF CleanAt
      <4>2. CASE pc[p] = "backup" /\ backup' = [backup EXCEPT ![k][g] = Torn]
        <5>1. ApplyAt(p, c)
          BY <2>2, <2>4, <4>2 DEF CleanAt, Applying, k
        <5>2. g \notin reached[c]
          BY <1>3, <2>4, <4>2, <5>1, ChangesFacts DEF ApplyAt
        <5>3. \A f \in Files : f # g => backup'[c][f] = backup[c][f]
          BY <1>1, <2>4, <4>2 DEF StateTypes
        <5>4. \A f \in reached[c] : f \in Files /\ backup[c][f] = pre[c][f]
          BY <2>2 DEF CleanAt, StateTypes
        <5> QED
          BY <5>2, <5>3, <5>4
      <4> QED
        BY <1>2, <4>1, <4>2
    <3>4. undone[c] => live' = live
      <4>1. CASE pc[p] = "install"
        BY <2>2, <2>4, <4>1 DEF CleanAt, Applying, ApplyAt, k
      <4>2. CASE pc[p] = "restore"
        BY <2>2, <2>4, <4>2 DEF CleanAt, RollbackAt, k
      <4> QED
        BY <1>2, <4>1, <4>2
    <3> QED
      BY <1>1, <2>2, <3>1, <3>2, <3>3, <3>4 DEF CleanAt, NoDuplicates
  <2> QED
    BY <2>3, <2>4
<1> QED
  BY <1>5, <1>6

\* Steps that touch no file: a candidate is judged, saved, or lost.
LEMMA Bookkeeping ==
  ASSUME NEW p \in Procs, StateTypes, PositionInList, RInv,
         \/ \E c \in Candidates : BeginCreate(p, c)
         \/ LoadStore(p) \/ SaveStore(p) \/ AutoApplyUnknown(p)
  PROVE  RInv'
<1>1. UNCHANGED <<live, backup, pre, reached, clean, undone>>
  BY DEF BeginCreate, LoadStore, SaveStore, AutoApplyUnknown, disk, history
<1>2. ASSUME NEW q \in Procs, q # p
      PROVE  pc'[q] = pc[q] /\ pos'[q] = pos[q] /\ cand'[q] = cand[q]
  BY <1>2 DEF BeginCreate, LoadStore, SaveStore, AutoApplyUnknown, Idle, StateTypes
<1>3. pc'[p] \notin {"backup", "install", "restore"}
  BY DEF BeginCreate, LoadStore, SaveStore, AutoApplyUnknown, Idle, StateTypes
<1> SUFFICES ASSUME NEW c \in Candidates
             PROVE  (reached[c] \subseteq TouchedBy(c) /\ (clean[c] => CleanAt(c)))'
  BY DEF RInv
<1>4. ASSUME clean[c] PROVE CleanAt(c)'
  <2>1. CleanAt(c) /\ reached[c] \subseteq TouchedBy(c) /\ gate[c] # "none"
    BY <1>4 DEF RInv, CleanAt
  <2>2. gate'[c] # "none" /\ (Working(p, c)' => Working(p, c))
    <3>1. CASE \E d \in Candidates : BeginCreate(p, d)
      <4>1. PICK d \in Candidates : BeginCreate(p, d)
        BY <3>1
      <4>2. d # c
        BY <2>1, <4>1 DEF BeginCreate
      <4> QED
        BY <2>1, <4>1, <4>2 DEF BeginCreate, Working, StateTypes
    <3>2. CASE LoadStore(p) \/ SaveStore(p) \/ AutoApplyUnknown(p)
      <4>1. gate' = gate /\ pc[p] # "idle" /\ (cand' = cand \/ pc'[p] = "idle")
        BY <3>2 DEF LoadStore, SaveStore, AutoApplyUnknown, Idle, StateTypes
      <4> QED
        BY <2>1, <4>1 DEF Working
    <3> QED
      BY <3>1, <3>2
  <2> QED
    BY <1>1, <1>2, <1>3, <2>1, <2>2, Frame DEF Working, Looping
<1> QED
  BY <1>1, <1>4 DEF RInv

\* A file is edited or deleted by hand.
LEMMA Editing ==
  ASSUME NEW f \in Files, StateTypes, PositionInList, RInv, Edit(f)
  PROVE  RInv'
<1>1. UNCHANGED <<backup, gate, pc, cand, pos, pre, reached, undone>>
  BY DEF Edit, locals
<1>2. \A g \in Files : g # f => live'[g] = live[g]
  BY DEF Edit, StateTypes
<1> SUFFICES ASSUME NEW c \in Candidates
             PROVE  (reached[c] \subseteq TouchedBy(c) /\ (clean[c] => CleanAt(c)))'
  BY DEF RInv
<1>3. ASSUME clean'[c] PROVE CleanAt(c)'
  <2>1. clean[c] /\ f \notin TouchedBy(c)
    BY <1>3 DEF Edit
  <2>2. CleanAt(c) /\ reached[c] \subseteq TouchedBy(c) /\ gate[c] # "none"
    BY <2>1 DEF RInv, CleanAt
  <2>3. \A g \in TouchedBy(c) : live'[g] = live[g]
    BY <1>2, <2>1, ChangesFacts
  <2> QED
    BY <1>1, <2>2, <2>3, Frame DEF Working, Looping
<1> QED
  BY <1>1, <1>3 DEF RInv

\* For a candidate whose files have had one writer, the backups of the files reached
\* are what the files were, and each loop is where its position says it is.
THEOREM RollbackInvariant == Spec => []RInv
<1>1. Init => RInv
  BY DEF Init, RInv
<1>2. VInv /\ RInv /\ [Next]_vars => RInv'
  <2> SUFFICES ASSUME StateTypes, PositionInList, RInv, [Next]_vars PROVE RInv'
    BY DEF VInv
  <2>1. ASSUME NEW p \in Procs, NEW c \in Candidates, BeginCreate(p, c) PROVE RInv'
    BY <2>1, Bookkeeping
  <2>2. ASSUME NEW p \in Procs, NEW c \in Candidates, BeginApply(p, c) PROVE RInv'
    BY <2>2, Opening DEF BeginApply
  <2>3. ASSUME NEW p \in Procs, NEW c \in Candidates, BeginRollback(p, c) PROVE RInv'
    BY <2>3, OpeningRollback
  <2>4. ASSUME NEW p \in Procs, LoadStore(p) \/ SaveStore(p) \/ AutoApplyUnknown(p)
        PROVE  RInv'
    BY <2>4, Bookkeeping
  <2>5. ASSUME NEW p \in Procs, AutoApply(p) PROVE RInv'
    <3>1. cand[p] \in Candidates /\ MayApply(cand[p]) /\ OpenApply(p, cand[p])
      BY <2>5 DEF AutoApply, PositionInList
    <3>2. cand' = [cand EXCEPT ![p] = cand[p]]
      BY <2>5 DEF AutoApply, StateTypes
    <3> QED
      BY <3>1, <3>2, Opening
  <2>6. ASSUME NEW p \in Procs, Backup(p) PROVE RInv'
    BY <2>6, BackingUp
  <2>7. ASSUME NEW p \in Procs, Install(p) PROVE RInv'
    BY <2>7, Installing
  <2>8. ASSUME NEW p \in Procs, Restore(p) PROVE RInv'
    BY <2>8, Restoring
  <2>9. ASSUME NEW p \in Procs, Crash(p) PROVE RInv'
    BY <2>9, Crashing
  <2>10. ASSUME NEW f \in Files, Edit(f) PROVE RInv'
    BY <2>10, Editing
  <2>11. CASE UNCHANGED vars
    BY <2>11 DEF vars, RInv, CleanAt, Working, Applying, ApplyAt, RollbackAt, File
  <2> QED
    BY <2>1, <2>2, <2>3, <2>4, <2>5, <2>6, <2>7, <2>8, <2>9, <2>10, <2>11 DEF Next
<1> QED
  BY <1>1, <1>2, VettedInvariant, PTL DEF Spec

\* A rollback run to its end puts back every file its apply reached, for any
\* number of processes, crashes and other candidates.
THEOREM RollbackIsFaithful == Spec => []RollbackRestores
<1>1. RInv => RollbackRestores
  BY DEF RInv, CleanAt, RollbackRestores
<1> QED
  BY <1>1, RollbackInvariant, PTL

\* No file is overwritten before its backup holds what it held.
THEOREM BackupsComeFirst == Spec => []BackupBeforeOverwrite
<1>1. VInv /\ RInv => BackupBeforeOverwrite
  <2> SUFFICES ASSUME VInv, RInv, NEW p \in Procs,
                      pc[p] = "install", clean[cand[p]]
               PROVE  live[File(p)] \in {Absent, backup[cand[p]][File(p)]}
    BY DEF BackupBeforeOverwrite
  <2>1. /\ cand[p] \in Candidates /\ pos[p] \in 1..Len(Changes[cand[p]])
        /\ Len(Changes[cand[p]]) \in Nat
    BY ChangesFacts DEF VInv, PositionInList, Applying
  <2>2. CleanAt(cand[p]) /\ ApplyAt(p, cand[p])
    BY <2>1 DEF RInv, CleanAt, Applying
  <2>3. File(p) \in reached[cand[p]] /\ live[File(p)] = pre[cand[p]][File(p)]
    BY <2>1, <2>2 DEF ApplyAt, File
  <2> QED
    BY <2>2, <2>3 DEF CleanAt
<1> QED
  BY <1>1, VettedInvariant, RollbackInvariant, PTL
=============================================================================
