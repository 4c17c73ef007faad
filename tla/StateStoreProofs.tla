-------------------------- MODULE StateStoreProofs --------------------------
(***************************************************************************)
(* Proofs about StateStore, for any processes, threads, files, keys and     *)
(* bounds.                                                                  *)
(***************************************************************************)
EXTENDS StateStore, ListProofs, SequenceTheorems, TLAPS

\* The shapes of the variables.
Shapes ==
  /\ stage \in [Process -> Nat]
  /\ pc \in [Thread -> {"idle", "defaulting", "blank", "saving", "opened", "written"}]
  /\ at \in [Thread -> {"closed", "temp", "file", "gone"}]
  /\ DOMAIN job = Thread /\ DOMAIN value = Thread
  /\ DOMAIN file = File /\ DOMAIN temp = File /\ DOMAIN expected = File
  /\ \A t \in Thread : at[t] # "closed" <=> pc[t] \in {"blank", "opened"}

\* Defaults are written by the main thread of a process that starts, saves made by the
\* threads of one that has.
Turns ==
  \A t \in Thread :
    /\ pc[t] # "idle" => job[t].file \in File
    /\ pc[t] \in {"defaulting", "blank"} => t = Main[Of[t]] /\ Starting(Of[t])
    /\ pc[t] \in {"saving", "opened", "written"} => Up(Of[t])

\* The lock of a process.
Exclusion ==
  \A t, u \in Thread : Of[t] = Of[u] /\ pc[t] # "idle" /\ pc[u] # "idle" => t = u

LockInv == Shapes /\ Turns /\ Exclusion /\ ready \subseteq File

\* What the stage of a process says.
LEMMA Stages ==
  ASSUME NEW p \in Process
  PROVE  /\ Starting(p) => Files[stage[p]] \in File
         /\ ~(Starting(p) /\ Up(p))
         /\ stage[p] = 0 => ~Starting(p) /\ ~Up(p)
<1> Files \in Seq(File)
  BY StoreAssumption
<1> QED
  BY DEF Starting, Up

\* Whatever a file is written over with, the shapes stay.
LEMMA Putting ==
  ASSUME LockInv, NEW t \in Thread, NEW f \in File, NEW s, Put(t, f, s)
  PROVE  /\ DOMAIN file' = File /\ DOMAIN temp' = File
         /\ at' = [at EXCEPT ![t] = "closed"]
         /\ \A g \in File \ {f} : file'[g] = file[g] /\ temp'[g] = temp[g]
BY DEF LockInv, Shapes, Put, disk

\* Threads of one process share its lock, and only what starts writes defaults.
THEOREM LockInvariant == Spec => []LockInv
<1>1. Init => LockInv
  BY StoreAssumption DEF Init, LockInv, Shapes, Turns, Exclusion
<1>2. LockInv /\ [Next]_vars => LockInv'
  <2> SUFFICES ASSUME LockInv, [Next]_vars PROVE LockInv'
    OBVIOUS
  <2> USE StoreAssumption DEF LockInv, disk, history
  <2>1. ASSUME NEW p \in Process, Start(p) PROVE LockInv'
    <3>1. \A t \in Thread : pc[t] # "idle" => Of[t] # p
      BY <2>1, Stages DEF Start, Shapes, Turns
    <3> QED
      BY <2>1, <3>1 DEF Start, threads, Shapes, Turns, Exclusion, Starting, Up
  <2>2. ASSUME NEW p \in Process, CheckDefault(p) PROVE LockInv'
    <3> DEFINE t == Main[p]
    <3>1. /\ t \in Thread /\ Of[t] = p /\ Starting(p) /\ pc[t] = "idle"
          /\ Files[stage[p]] \in File
      BY <2>2, Stages DEF CheckDefault
    <3>2. \A u \in Thread : Of[u] = p => pc[u] = "idle"
      BY <3>1, Stages DEF Shapes, Turns
    <3>3. CASE /\ stage' = [stage EXCEPT ![p] = @ + 1]
               /\ UNCHANGED <<pc, job, value, at, file, temp, expected, ready>>
      BY <3>2, <3>3 DEF Shapes, Turns, Exclusion, Starting, Up
    <3>4. CASE /\ pc' = [pc EXCEPT ![t] = "defaulting"]
               /\ job' = [job EXCEPT ![t] = [file |-> Files[stage[p]], record |-> "none"]]
               /\ UNCHANGED <<stage, value, at, file, temp, expected, ready>>
      BY <3>1, <3>2, <3>4 DEF Shapes, Turns, Exclusion, Starting, Up
    <3> QED
      BY <2>2, <3>3, <3>4 DEF CheckDefault
  <2>3. ASSUME NEW p \in Process, OpenDefault(p) PROVE LockInv'
    BY <2>3 DEF OpenDefault, Shapes, Turns, Exclusion, Starting, Up
  <2>4. ASSUME NEW p \in Process, WriteDefault(p) PROVE LockInv'
    <3> DEFINE t == Main[p]
    <3>1. t \in Thread /\ Of[t] = p /\ pc[t] = "blank" /\ job[t].file \in File
      BY <2>4 DEF WriteDefault, Turns
    <3>2. \A u \in Thread \ {t} : Of[u] = p => pc[u] = "idle"
      BY <3>1 DEF Exclusion
    <3>3. Put(t, job[t].file, <<>>)
      BY <2>4 DEF WriteDefault
    <3>4. Release({t}) /\ stage' = [stage EXCEPT ![p] = @ + 1] /\ expected' = expected
          /\ ready' = ready \cup {job[t].file}
      BY <2>4 DEF WriteDefault
    <3> HIDE DEF Put, Shapes
    <3>0. /\ DOMAIN file' = File /\ DOMAIN temp' = File
          /\ at' = [at EXCEPT ![t] = "closed"]
      BY <3>1, <3>3, Putting
    <3>5. Shapes'
      BY <3>1, <3>4, <3>0 DEF Shapes, Release
    <3>6. Turns' /\ Exclusion'
      BY <3>1, <3>2, <3>4 DEF Release, Shapes, Turns, Exclusion, Starting, Up
    <3> QED
      BY <3>1, <3>4, <3>5, <3>6
  <2>5. ASSUME NEW t \in Thread, NEW f \in File, NEW r \in Record, Load(t, f, r)
        PROVE  LockInv'
    BY <2>5 DEF Load, HasLock, Shapes, Turns, Exclusion, Starting, Up
  <2>6. ASSUME NEW t \in Thread, OpenTemp(t) PROVE LockInv'
    BY <2>6 DEF OpenTemp, Shapes, Turns, Exclusion, Starting, Up
  <2>7. ASSUME NEW t \in Thread, WriteTemp(t) PROVE LockInv'
    <3>1. pc[t] = "opened" /\ job[t].file \in File /\ Put(t, job[t].file, value[t])
      BY <2>7 DEF WriteTemp, Turns
    <3>0. /\ DOMAIN file' = File /\ DOMAIN temp' = File
          /\ at' = [at EXCEPT ![t] = "closed"]
      BY <3>1, Putting
    <3>2. Shapes'
      BY <2>7, <3>1, <3>0 DEF WriteTemp, Shapes
    <3> QED
      BY <2>7, <3>1, <3>2 DEF WriteTemp, Shapes, Turns, Exclusion, Starting, Up
  <2>8. ASSUME NEW t \in Thread, Replace(t) PROVE LockInv'
    <3>1. job[t].file \in File /\ pc[t] = "written"
      BY <2>8 DEF Replace, Turns
    <3>2. /\ at' \in [Thread -> {"closed", "temp", "file", "gone"}]
          /\ \A u \in Thread : at'[u] = "closed" <=> at[u] = "closed"
      BY <2>8 DEF Replace, Renamed, Shapes
    <3>3. Shapes'
      BY <2>8, <3>1, <3>2 DEF Replace, Release, Shapes
    <3> QED
      BY <2>8, <3>3 DEF Replace, Release, Shapes, Turns, Exclusion, Starting, Up
  <2>9. ASSUME NEW t \in Thread, SaveFails(t) PROVE LockInv'
    BY <2>9 DEF SaveFails, Release, Shapes, Turns, Exclusion, Starting, Up
  <2>10. ASSUME NEW p \in Process, Kill(p) PROVE LockInv'
    BY <2>10 DEF Kill, Release, Shapes, Turns, Exclusion, Starting, Up
  <2>11. CASE UNCHANGED vars
    BY <2>11 DEF vars, threads, Shapes, Turns, Exclusion, Starting, Up
  <2> QED
    BY <2>1, <2>2, <2>3, <2>4, <2>5, <2>6, <2>7, <2>8, <2>9, <2>10, <2>11 DEF Next
<1> QED
  BY <1>1, <1>2, PTL DEF Spec

-----------------------------------------------------------------------------

\* A step that leaves a file to those who work on it, if it does not stop them.
Untouched(f) ==
  /\ file'[f] = file[f] /\ temp'[f] = temp[f] /\ expected'[f] = expected[f]
  /\ f \in ready' <=> f \in ready
  /\ \A u \in Thread : pc'[u] # "idle" /\ job'[u].file = f =>
       /\ pc'[u] = pc[u] /\ job'[u] = job[u] /\ value'[u] = value[u] /\ at'[u] = at[u]

\* The steps on other files, and those that stop threads.
LEMMA Elsewhere ==
  ASSUME LockInv, [Next]_vars, NEW f \in File
  PROVE  \/ Untouched(f)
         \/ \E p \in Process : CheckDefault(p) /\ file[f] = Absent /\ f = Files[stage[p]]
         \/ \E p \in Process : \/ OpenDefault(p) /\ f = job[Main[p]].file
                               \/ WriteDefault(p) /\ f = job[Main[p]].file
         \/ \E t \in Thread, r \in Record : Load(t, f, r)
         \/ \E t \in Thread : /\ f = job[t].file
                              /\ OpenTemp(t) \/ WriteTemp(t) \/ Replace(t)
<1> USE StoreAssumption DEF LockInv, Untouched, disk, history
<1> HIDE DEF Shapes, Turns, Exclusion, Put
<1>1. ASSUME NEW p \in Process, Start(p) PROVE Untouched(f)
  BY <1>1 DEF Start, threads
<1>2. ASSUME NEW p \in Process, CheckDefault(p) PROVE
        Untouched(f) \/ (file[f] = Absent /\ f = Files[stage[p]])
  BY <1>2 DEF CheckDefault, Shapes
<1>3. ASSUME NEW p \in Process, OpenDefault(p), f # job[Main[p]].file PROVE Untouched(f)
  BY <1>3 DEF OpenDefault, Shapes
<1>4. ASSUME NEW p \in Process, WriteDefault(p), f # job[Main[p]].file PROVE Untouched(f)
  <2> DEFINE t == Main[p]
  <2>1. /\ t \in Thread /\ pc[t] = "blank" /\ job[t].file \in File
        /\ Put(t, job[t].file, <<>>) /\ Release({t})
        /\ expected' = expected /\ ready' = ready \cup {job[t].file}
    BY <1>4 DEF WriteDefault, Turns
  <2>2. /\ file'[f] = file[f] /\ temp'[f] = temp[f]
        /\ at' = [at EXCEPT ![t] = "closed"]
    BY <1>4, <2>1, Putting
  <2> QED
    BY <1>4, <2>1, <2>2 DEF Release, Shapes
<1>5. ASSUME NEW t \in Thread, NEW g \in File, NEW r \in Record, Load(t, g, r), f # g
      PROVE  Untouched(f)
  BY <1>5 DEF Load, Shapes
<1>6. ASSUME NEW t \in Thread, OpenTemp(t), f # job[t].file PROVE Untouched(f)
  BY <1>6 DEF OpenTemp, Shapes
<1>7. ASSUME NEW t \in Thread, WriteTemp(t), f # job[t].file PROVE Untouched(f)
  <2>1. pc[t] = "opened" /\ job[t].file \in File /\ Put(t, job[t].file, value[t])
    BY <1>7 DEF WriteTemp, Turns
  <2>2. /\ file'[f] = file[f] /\ temp'[f] = temp[f]
        /\ at' = [at EXCEPT ![t] = "closed"]
    BY <1>7, <2>1, Putting
  <2> QED
    BY <1>7, <2>1, <2>2 DEF WriteTemp, Shapes
<1>8. ASSUME NEW t \in Thread, Replace(t), f # job[t].file PROVE Untouched(f)
  <2>1. \A u \in Thread : job[u].file = f => at'[u] = at[u]
    BY <1>8 DEF Replace, Renamed, Shapes
  <2> QED
    BY <1>8, <2>1 DEF Replace, Release, Shapes
<1>9. ASSUME NEW t \in Thread, SaveFails(t) PROVE Untouched(f)
  BY <1>9 DEF SaveFails, Release, Shapes
<1>10. ASSUME NEW p \in Process, Kill(p) PROVE Untouched(f)
  BY <1>10 DEF Kill, Release, Shapes
<1>11. CASE UNCHANGED vars
  BY <1>11 DEF vars, threads
<1> HIDE DEF Untouched
<1> QED
  BY <1>1, <1>2, <1>3, <1>4, <1>5, <1>6, <1>7, <1>8, <1>9, <1>10, <1>11 DEF Next

-----------------------------------------------------------------------------

\* What a thread that works on f knows of it: a default is written to a file that was not
\* there, a save follows the list the last save left, through a temporary file of its own.
Knows(t, f) ==
  /\ pc[t] = "defaulting" => file[f] = Absent
  /\ pc[t] = "blank" => at[t] = "file" /\ file[f] = Blank
  /\ pc[t] \in {"saving", "opened", "written"} =>
       value[t] = Kept(f, expected[f], job[t].record)
  /\ pc[t] = "opened" => at[t] = "temp" /\ temp[f] = Blank
  /\ pc[t] = "written" => temp[f] = Whole(value[t])

\* A file nobody has worked on together with another.
Alone(f) ==
  /\ \A t, u \in Thread : Busy(t, f) /\ Busy(u, f) => t = u
  /\ \A t \in Thread : Busy(t, f) =>
       (f \in ready <=> pc[t] \in {"saving", "opened", "written"}) /\ Knows(t, f)
  /\ f \in ready => file[f] = Whole(expected[f])
  /\ f \notin ready => expected[f] = <<>> /\ file[f] \in {Absent, Blank}

AloneInv == \A f \in File \ overlapped : Alone(f)

\* Only two processes make an overlap: what t takes up is its own, or recorded as shared.
LEMMA TakingUp ==
  ASSUME LockInv, NEW t \in Thread, NEW f \in File, Overlap(t, f), f \notin overlapped',
         \A u \in Thread : Of[u] = Of[t] => pc[u] = "idle"
  PROVE  \A u \in Thread : ~Busy(u, f)
BY DEF Overlap, Busy

\* A written file holds what was written, when it was empty before.
LEMMA PuttingInto ==
  ASSUME LockInv, NEW t \in Thread, NEW f \in File, NEW s, Put(t, f, s)
  PROVE  /\ at[t] = "temp" /\ temp[f] = Blank => temp'[f] = Whole(s) /\ file' = file
         /\ at[t] = "file" /\ file[f] = Blank => file'[f] = Whole(s) /\ temp' = temp
BY DEF LockInv, Shapes, Put, Over, disk

\* Acknowledged saves are what a file consists of while no two processes work on it.
THEOREM AloneInvariant == Spec => []AloneInv
<1>1. Init => AloneInv
  BY DEF Init, AloneInv, Alone, Busy, Absent
<1>2. LockInv /\ AloneInv /\ [Next]_vars => AloneInv'
  <2> SUFFICES ASSUME LockInv, AloneInv, [Next]_vars, NEW f \in File, f \notin overlapped'
               PROVE  Alone(f)'
    BY DEF AloneInv
  <2> USE StoreAssumption DEF Absent, Blank, Whole
  <2>0. Alone(f)
    <3>1. overlapped \subseteq overlapped'
      BY ZenonT(30) DEF Next, vars, history, Overlap, Start, CheckDefault, OpenDefault, WriteDefault,
             Load, OpenTemp, WriteTemp, Replace, SaveFails, Kill
    <3> QED
      BY <3>1 DEF AloneInv
  <2>1. CASE Untouched(f)
    BY <2>0, <2>1 DEF Untouched, Alone, Knows, Busy
  <2>2. ASSUME NEW p \in Process, CheckDefault(p), file[f] = Absent, f = Files[stage[p]]
        PROVE  Alone(f)'
    <3> DEFINE t == Main[p]
    <3>1. t \in Thread /\ Of[t] = p /\ Starting(p) /\ pc[t] = "idle"
      BY <2>2 DEF CheckDefault
    <3>2. \A u \in Thread : Of[u] = p => pc[u] = "idle"
      BY <3>1, Stages DEF LockInv, Shapes, Turns
    <3>3. \A u \in Thread : ~Busy(u, f)
      BY <2>2, <3>1, <3>2, TakingUp DEF CheckDefault
    <3>4. f \notin ready
      BY <2>0, <2>2 DEF Alone
    <3>5. /\ pc' = [pc EXCEPT ![t] = "defaulting"]
          /\ UNCHANGED <<file, expected, ready>>
      BY <2>2 DEF CheckDefault, disk
    <3>6. job' = [job EXCEPT ![t] = [file |-> f, record |-> "none"]]
      BY <2>2 DEF CheckDefault
    <3> QED
      BY <2>0, <2>2, <3>1, <3>3, <3>4, <3>5, <3>6
      DEF Alone, Knows, Busy, LockInv, Shapes
  <2>3. ASSUME NEW p \in Process, OpenDefault(p), f = job[Main[p]].file PROVE Alone(f)'
    <3> DEFINE t == Main[p]
    <3>1. t \in Thread /\ Busy(t, f) /\ pc[t] = "defaulting"
      BY <2>3 DEF OpenDefault, Busy
    <3>2. \A u \in Thread : Busy(u, f) => u = t
      BY <2>0, <3>1 DEF Alone
    <3>3. f \notin ready /\ expected[f] = <<>>
      BY <2>0, <3>1 DEF Alone
    <3>4. /\ file' = [file EXCEPT ![f] = Blank]
          /\ pc' = [pc EXCEPT ![t] = "blank"] /\ at' = [at EXCEPT ![t] = "file"]
          /\ UNCHANGED <<job, expected, ready>>
      BY <2>3 DEF OpenDefault
    <3> QED
      BY <3>1, <3>2, <3>3, <3>4 DEF Alone, Knows, Busy, LockInv, Shapes
  <2>4. ASSUME NEW p \in Process, WriteDefault(p), f = job[Main[p]].file PROVE Alone(f)'
    <3> DEFINE t == Main[p]
    <3>1. t \in Thread /\ Busy(t, f) /\ pc[t] = "blank" /\ Put(t, f, <<>>)
      BY <2>4 DEF WriteDefault, Busy
    <3>2. at[t] = "file" /\ file[f] = Blank /\ f \notin ready /\ expected[f] = <<>>
      BY <2>0, <3>1 DEF Alone, Knows
    <3>3. file'[f] = Whole(<<>>)
      BY <3>1, <3>2, PuttingInto
    <3>4. \A u \in Thread : ~Busy(u, f)'
      BY <2>0, <2>4, <3>1 DEF WriteDefault, Release, Alone, Busy, LockInv, Shapes
    <3> QED
      BY <2>4, <3>2, <3>3, <3>4 DEF WriteDefault, Alone
  <2>5. ASSUME NEW t \in Thread, NEW r \in Record, Load(t, f, r) PROVE Alone(f)'
    <3>1. \A u \in Thread : ~Busy(u, f)
      BY <2>5, TakingUp DEF Load, HasLock
    <3>2. f \in ready /\ file[f] = Whole(expected[f])
      BY <2>0, <2>5 DEF Load, Readable, Alone
    <3>3. file[f].list = expected[f]
      BY <3>2
    <3>4. /\ pc' = [pc EXCEPT ![t] = "saving"]
          /\ job' = [job EXCEPT ![t] = [file |-> f, record |-> r]]
          /\ value' = [value EXCEPT ![t] = Kept(f, expected[f], r)]
          /\ UNCHANGED <<file, expected, ready>>
      BY <2>5, <3>3 DEF Load, disk
    <3> QED
      BY <3>1, <3>2, <3>4 DEF Alone, Knows, Busy, LockInv, Shapes
  <2>6. ASSUME NEW t \in Thread, OpenTemp(t), f = job[t].file PROVE Alone(f)'
    <3>1. Busy(t, f)
      BY <2>6 DEF OpenTemp, Busy
    <3> QED
      BY <2>0, <2>6, <3>1 DEF OpenTemp, Alone, Knows, Busy, LockInv, Shapes
  <2>7. ASSUME NEW t \in Thread, WriteTemp(t), f = job[t].file PROVE Alone(f)'
    <3>1. Busy(t, f) /\ pc[t] = "opened" /\ Put(t, f, value[t])
      BY <2>7 DEF WriteTemp, Busy
    <3>2. at[t] = "temp" /\ temp[f] = Blank
      BY <2>0, <3>1 DEF Alone, Knows
    <3>3. temp'[f] = Whole(value[t]) /\ file' = file
      BY <3>1, <3>2, PuttingInto
    <3> QED
      BY <2>0, <2>7, <3>1, <3>3 DEF WriteTemp, history, Alone, Knows, Busy, LockInv, Shapes
  <2>8. ASSUME NEW t \in Thread, Replace(t), f = job[t].file PROVE Alone(f)'
    <3>1. Busy(t, f) /\ pc[t] = "written"
      BY <2>8 DEF Replace, Busy
    <3>2. f \in ready /\ temp[f] = Whole(Kept(f, expected[f], job[t].record))
      BY <2>0, <3>1 DEF Alone, Knows
    <3>3. file'[f] = Whole(expected'[f]) /\ ready' = ready
      BY <2>8, <3>2 DEF Replace, LockInv, Shapes
    <3>4. \A u \in Thread : ~Busy(u, f)'
      BY <2>0, <2>8, <3>1 DEF Replace, Release, Alone, Busy, LockInv, Shapes
    <3> QED
      BY <3>2, <3>3, <3>4 DEF Alone
  <2> QED
    BY <2>1, <2>2, <2>3, <2>4, <2>5, <2>6, <2>7, <2>8, Elsewhere
<1> QED
  BY <1>1, <1>2, LockInvariant, PTL DEF Spec

\* A file holds what the acknowledged saves make of it, whatever fails or is killed, as
\* long as no two processes work on it at once.
THEOREM UndisturbedFiles == Spec => []UndisturbedFilesAreExpected
<1>1. LockInv /\ AloneInv => UndisturbedFilesAreExpected
  <2> SUFFICES ASSUME LockInv, AloneInv, NEW f \in ready \ overlapped
               PROVE  file[f] = Whole(expected[f])
    BY DEF UndisturbedFilesAreExpected
  <2> QED
    BY DEF AloneInv, Alone, LockInv, Shapes
<1> QED
  BY <1>1, LockInvariant, AloneInvariant, PTL

-----------------------------------------------------------------------------

\* What a thread knows of f while it has it open, or has its text in the temporary file.
Holds(t, f) ==
  /\ pc[t] = "blank" => at[t] = "file" /\ file[f] = Blank /\ f \notin ready
  /\ pc[t] \in {"saving", "opened", "written"} => f \in ready
  /\ pc[t] = "opened" => at[t] = "temp" /\ temp[f] = Blank
  /\ pc[t] = "written" => Readable(temp[f])

\* A file no two threads have had open at once.
Apart(f) ==
  /\ \A t \in Thread : Busy(t, f) => Holds(t, f)
  /\ \A t, u \in Thread :
       /\ Busy(t, f) /\ Busy(u, f)
       /\ \/ pc[t] = "blank" /\ pc[u] = "blank"
          \/ pc[t] \in {"opened", "written"} /\ pc[u] \in {"opened", "written"}
       => t = u
  /\ IF f \in ready THEN Readable(file[f]) ELSE file[f] \in {Absent, Blank}

ApartInv == \A f \in File \ clashed : Apart(f)

\* Files are whole while no two threads have them open at once.
THEOREM ApartInvariant == Spec => []ApartInv
<1>1. Init => ApartInv
  BY DEF Init, ApartInv, Apart, Busy, Absent
<1>2. LockInv /\ ApartInv /\ [Next]_vars => ApartInv'
  <2> SUFFICES ASSUME LockInv, ApartInv, [Next]_vars, NEW f \in File, f \notin clashed'
               PROVE  Apart(f)'
    BY DEF ApartInv
  <2> USE StoreAssumption DEF Absent, Blank, Whole, Readable
  <2>0. Apart(f)
    <3>1. clashed \subseteq clashed'
      BY DEF Next, vars, history, Start, CheckDefault, OpenDefault, WriteDefault,
             Load, OpenTemp, WriteTemp, Replace, SaveFails, Kill
    <3> QED
      BY <3>1 DEF ApartInv
  <2>1. CASE Untouched(f)
    BY <2>0, <2>1 DEF Untouched, Apart, Holds, Busy
  <2>2. ASSUME NEW p \in Process, CheckDefault(p), file[f] = Absent, f = Files[stage[p]]
        PROVE  Apart(f)'
    <3>1. /\ pc' = [pc EXCEPT ![Main[p]] = "defaulting"]
          /\ job' = [job EXCEPT ![Main[p]] = [file |-> f, record |-> "none"]]
          /\ UNCHANGED <<at, file, temp, ready>> /\ pc[Main[p]] = "idle"
      BY <2>2 DEF CheckDefault, disk
    <3> QED
      BY <2>0, <3>1 DEF Apart, Holds, Busy, LockInv, Shapes
  <2>3. ASSUME NEW p \in Process, OpenDefault(p), f = job[Main[p]].file PROVE Apart(f)'
    <3>1. file[f] = Absent /\ f \notin ready
      BY <2>0, <2>3 DEF OpenDefault, Apart
    <3>2. \A u \in Thread : Busy(u, f) => pc[u] = "defaulting"
      BY <2>0, <3>1 DEF Apart, Holds, Busy, LockInv, Shapes
    <3> QED
      BY <2>3, <3>1, <3>2 DEF OpenDefault, Apart, Holds, Busy, LockInv, Shapes
  <2>4. ASSUME NEW p \in Process, WriteDefault(p), f = job[Main[p]].file PROVE Apart(f)'
    <3> DEFINE t == Main[p]
    <3>1. t \in Thread /\ Busy(t, f) /\ pc[t] = "blank" /\ Put(t, f, <<>>)
      BY <2>4 DEF WriteDefault, Busy
    <3>2. at[t] = "file" /\ file[f] = Blank /\ f \notin ready
      BY <2>0, <3>1 DEF Apart, Holds
    <3>3. file'[f] = Whole(<<>>) /\ f \in ready'
      BY <2>4, <3>1, <3>2, PuttingInto DEF WriteDefault
    <3>4. \A u \in Thread : Busy(u, f)' =>
            Busy(u, f) /\ pc'[u] = "defaulting"
      BY <2>0, <2>4, <3>1, <3>2 DEF WriteDefault, Release, Apart, Holds, Busy, LockInv, Shapes
    <3> QED
      BY <3>3, <3>4 DEF Apart, Holds
  <2>5. ASSUME NEW t \in Thread, NEW r \in Record, Load(t, f, r) PROVE Apart(f)'
    <3>1. f \in ready
      BY <2>0, <2>5 DEF Load, Apart
    <3>2. pc[t] = "idle"
      BY <2>5 DEF Load, HasLock
    <3> QED
      BY <2>0, <2>5, <3>1, <3>2 DEF Load, disk, Apart, Holds, Busy, LockInv, Shapes
  <2>6. ASSUME NEW t \in Thread, OpenTemp(t), f = job[t].file PROVE Apart(f)'
    <3>1. /\ Busy(t, f) /\ f \in ready
          /\ \A u \in Thread \ {t} : Busy(u, f) => pc[u] \notin {"opened", "written"}
      BY <2>0, <2>6 DEF OpenTemp, Apart, Holds, Busy
    <3> QED
      BY <2>0, <2>6, <3>1 DEF OpenTemp, Apart, Holds, Busy, LockInv, Shapes
  <2>7. ASSUME NEW t \in Thread, WriteTemp(t), f = job[t].file PROVE Apart(f)'
    <3>1. Busy(t, f) /\ pc[t] = "opened" /\ Put(t, f, value[t])
      BY <2>7 DEF WriteTemp, Busy
    <3>2. at[t] = "temp" /\ temp[f] = Blank /\ f \in ready
      BY <2>0, <3>1 DEF Apart, Holds
    <3>3. temp'[f] = Whole(value[t]) /\ file' = file
      BY <3>1, <3>2, PuttingInto
    <3>4. at' = [at EXCEPT ![t] = "closed"]
      BY <3>1, Putting
    <3> QED
      BY <2>0, <2>7, <3>1, <3>2, <3>3, <3>4
      DEF WriteTemp, history, Apart, Holds, Busy, LockInv, Shapes
  <2>8. ASSUME NEW t \in Thread, Replace(t), f = job[t].file PROVE Apart(f)'
    <3>1. Busy(t, f) /\ pc[t] = "written"
      BY <2>8 DEF Replace, Busy
    <3>2. f \in ready /\ Readable(temp[f])
      BY <2>0, <3>1 DEF Apart, Holds
    <3>3. file'[f] = temp[f] /\ ready' = ready
      BY <2>8 DEF Replace, LockInv, Shapes
    <3>4. \A u \in Thread : Busy(u, f)' => pc'[u] \in {"defaulting", "saving"}
      BY <2>0, <2>8, <3>1, <3>2 DEF Replace, Release, Apart, Holds, Busy, LockInv, Shapes
    <3> QED
      BY <3>2, <3>3, <3>4 DEF Apart, Holds
  <2> QED
    BY <2>1, <2>2, <2>3, <2>4, <2>5, <2>6, <2>7, <2>8, Elsewhere
<1> QED
  BY <1>1, <1>2, LockInvariant, PTL DEF Spec

\* Only two processes that have a temporary or a new file open at once make a file
\* unreadable: lost saves, failures and kills do not.
THEOREM UnclashedFiles == Spec => []UnclashedFilesAreReadable
<1>1. LockInv /\ ApartInv => UnclashedFilesAreReadable
  <2> SUFFICES ASSUME LockInv, ApartInv, NEW f \in ready \ clashed PROVE Readable(file[f])
    BY DEF UnclashedFilesAreReadable
  <2> QED
    BY DEF ApartInv, Apart, LockInv, Shapes
<1> QED
  BY <1>1, LockInvariant, ApartInvariant, PTL

-----------------------------------------------------------------------------
(* The types.                                                               *)

\* value[-max_log_entries:] is a list that is not too long.
LEMMA TruncatedIsList ==
  ASSUME NEW s \in Seq(Record)
  PROVE  IsList(Truncated(s))
<1>1. MaxLog \in Nat /\ Len(s) \in Nat
  BY StoreAssumption
<1>2. CASE MaxLog = 0 \/ Len(s) <= MaxLog
  BY <1>1, <1>2 DEF Truncated, IsList
<1>3. CASE ~(MaxLog = 0 \/ Len(s) <= MaxLog)
  <2> DEFINE m == Len(s) - MaxLog + 1
  <2>1. m \in Int /\ 1 <= m /\ m <= Len(s) /\ Len(s) - m + 1 = MaxLog
    BY <1>1, <1>3
  <2>2. \A i \in m..Len(s) : s[i] \in Record
    BY <2>1
  <2>3. SubSeq(s, m, Len(s)) \in Seq(Record) /\ Len(SubSeq(s, m, Len(s))) = MaxLog
    BY <1>1, <2>1, <2>2, SubSeqProperties
  <2>4. Truncated(s) = SubSeq(s, m, Len(s))
    BY <1>3 DEF Truncated
  <2> QED
    BY <1>1, <2>3, <2>4 DEF IsList
<1> QED
  BY <1>2, <1>3

\* So is what an append or a save makes of a list.
LEMMA KeptIsList ==
  ASSUME NEW f, NEW s \in Seq(Record), NEW r \in Record
  PROVE  IsList(Kept(f, s, r))
<1>1. Among(s, WithoutKey(r.key)) \in Seq(Record)
  BY AmongIsFaithful
<1>2. Append(IF f \in Keyed THEN Among(s, WithoutKey(r.key)) ELSE s, r) \in Seq(Record)
  BY <1>1
<1> QED
  BY <1>2, TruncatedIsList DEF Kept

\* The lists on the disk and in the hands of the threads.
OnDisk == \A f \in File : IsContent(file[f]) /\ IsContent(temp[f])
InHand == \A t \in Thread : IsList(value[t])

\* The counters and the stages are within their bounds.
Bounds ==
  /\ stage \in [Process -> 0..(Len(Files) + 1)]
  /\ saves \in 0..MaxSaves /\ starts \in 0..MaxStarts
  /\ overlapped \subseteq File /\ clashed \subseteq File

\* What may be written, and what is read.
LEMMA Contents ==
  /\ IsList(<<>>)
  /\ IsContent(Absent) /\ IsContent(Blank) /\ IsContent(Mixed)
  /\ \A s : IsList(s) => IsContent(Whole(s))
  /\ \A c : IsContent(c) /\ Readable(c) => c.list \in Seq(Record)
<1>1. IsList(<<>>)
  BY StoreAssumption DEF IsList
<1>2. \A s : Whole(s).list = s
  BY DEF Whole
<1> QED
  BY <1>1, <1>2 DEF IsContent, IsList, Readable, Absent, Blank, Mixed

\* Writing over a file leaves a list, or a text that is refused.
LEMMA PuttingList ==
  ASSUME LockInv, OnDisk, NEW t \in Thread, NEW f \in File, NEW s, IsList(s), Put(t, f, s)
  PROVE  OnDisk'
<1>1. IsContent(Whole(s)) /\ IsContent(Mixed)
  BY Contents
<1>2. \A c, d : d \in Over(c, s) => d = Whole(s) \/ d = Mixed
  BY DEF Over
<1> QED
  BY <1>1, <1>2 DEF LockInv, Shapes, OnDisk, Put, disk

\* A thread that stops has nothing in hand.
LEMMA ReleasingHands ==
  ASSUME InHand, NEW Stopped, Release(Stopped)
  PROVE  InHand'
BY Contents DEF InHand, Release

\* Whatever is written, and wherever a step fails, files hold lists, or end in texts that
\* json.loads refuses.
THEOREM ListsInvariant == Spec => [](OnDisk /\ InHand)
<1>1. Init => OnDisk /\ InHand
  BY Contents DEF Init, OnDisk, InHand
<1>2. LockInv /\ OnDisk /\ InHand /\ [Next]_vars => (OnDisk /\ InHand)'
  <2> SUFFICES ASSUME LockInv, OnDisk, InHand, [Next]_vars PROVE (OnDisk /\ InHand)'
    OBVIOUS
  <2>0. \A t \in Thread : pc[t] # "idle" => job[t].file \in File
    BY DEF LockInv, Turns
  <2>1. CASE UNCHANGED <<file, temp, value>>
    BY <2>1 DEF OnDisk, InHand
  <2>2. ASSUME NEW p \in Process, OpenDefault(p) PROVE (OnDisk /\ InHand)'
    <3>1. file' = [file EXCEPT ![job[Main[p]].file] = Blank] /\ UNCHANGED <<temp, value>>
      BY <2>2 DEF OpenDefault
    <3> QED
      BY <3>1, Contents DEF OnDisk, InHand, LockInv, Shapes
  <2>3. ASSUME NEW p \in Process, WriteDefault(p) PROVE (OnDisk /\ InHand)'
    <3>1. Main[p] \in Thread /\ job[Main[p]].file \in File
      BY <2>0, <2>3, StoreAssumption DEF WriteDefault
    <3>2. Put(Main[p], job[Main[p]].file, <<>>) /\ Release({Main[p]})
      BY <2>3 DEF WriteDefault
    <3> QED
      BY <3>1, <3>2, Contents, PuttingList, ReleasingHands
  <2>4. ASSUME NEW t \in Thread, NEW f \in File, NEW r \in Record, Load(t, f, r)
        PROVE  (OnDisk /\ InHand)'
    <3>1. file[f].list \in Seq(Record)
      BY <2>4, Contents DEF Load, OnDisk
    <3>2. IsList(Kept(f, file[f].list, r))
      BY <3>1, KeptIsList
    <3>3. /\ value' = [value EXCEPT ![t] = Kept(f, file[f].list, r)]
          /\ UNCHANGED <<file, temp>>
      BY <2>4 DEF Load, disk
    <3> QED
      BY <3>2, <3>3 DEF OnDisk, InHand, LockInv, Shapes
  <2>5. ASSUME NEW t \in Thread, OpenTemp(t) PROVE (OnDisk /\ InHand)'
    <3>1. temp' = [temp EXCEPT ![job[t].file] = Blank] /\ UNCHANGED <<file, value>>
      BY <2>5 DEF OpenTemp
    <3> QED
      BY <3>1, Contents DEF OnDisk, InHand, LockInv, Shapes
  <2>6. ASSUME NEW t \in Thread, WriteTemp(t) PROVE (OnDisk /\ InHand)'
    <3>1. job[t].file \in File /\ Put(t, job[t].file, value[t]) /\ UNCHANGED value
      BY <2>0, <2>6 DEF WriteTemp
    <3>2. IsList(value[t])
      BY DEF InHand
    <3>3. OnDisk'
      BY <3>1, <3>2, PuttingList
    <3> QED
      BY <3>1, <3>3 DEF InHand
  <2>7. ASSUME NEW t \in Thread, Replace(t) PROVE (OnDisk /\ InHand)'
    <3>1. job[t].file \in File
      BY <2>0, <2>7 DEF Replace
    <3>2. /\ file' = [file EXCEPT ![job[t].file] = temp[job[t].file]]
          /\ temp' = [temp EXCEPT ![job[t].file] = Absent]
          /\ Release({t})
      BY <2>7 DEF Replace
    <3>3. OnDisk'
      BY <3>1, <3>2, Contents DEF OnDisk, LockInv, Shapes
    <3> QED
      BY <3>2, <3>3, ReleasingHands
  <2>8. ASSUME NEW p \in Process, Kill(p) PROVE (OnDisk /\ InHand)'
    <3>1. UNCHANGED <<file, temp>> /\ \E Stopped : Release(Stopped)
      BY <2>8 DEF Kill, disk
    <3> QED
      BY <3>1, ReleasingHands DEF OnDisk
  <2>9. ASSUME NEW t \in Thread, SaveFails(t) PROVE (OnDisk /\ InHand)'
    <3>1. UNCHANGED <<file, temp>> /\ Release({t})
      BY <2>9 DEF SaveFails, disk
    <3> QED
      BY <3>1, ReleasingHands DEF OnDisk
  <2>10. ASSUME NEW p \in Process, Start(p) \/ CheckDefault(p) PROVE (OnDisk /\ InHand)'
    BY <2>1, <2>10 DEF Start, CheckDefault, threads, disk
  <2>11. CASE UNCHANGED vars
    BY <2>1, <2>11 DEF vars, threads, disk
  <2> QED
    BY <2>2, <2>3, <2>4, <2>5, <2>6, <2>7, <2>8, <2>9, <2>10, <2>11 DEF Next
<1> QED
  BY <1>1, <1>2, LockInvariant, PTL DEF Spec

\* Nothing is counted past its bound, and a process starts with its files one by one.
THEOREM BoundsInvariant == Spec => []Bounds
<1> USE StoreAssumption
<1>0. Len(Files) \in Nat /\ DOMAIN Files = 1..Len(Files)
  OBVIOUS
<1>1. Init => Bounds
  BY <1>0 DEF Init, Bounds
<1>2. LockInv /\ Bounds /\ [Next]_vars => Bounds'
  <2> SUFFICES ASSUME LockInv, Bounds, [Next]_vars PROVE Bounds'
    OBVIOUS
  <2>0. \A t \in Thread : pc[t] # "idle" => job[t].file \in File
    BY DEF LockInv, Turns
  <2>1. CASE UNCHANGED <<stage, saves, starts, overlapped, clashed>>
    BY <2>1 DEF Bounds
  <2>2. ASSUME NEW p \in Process, Start(p) PROVE Bounds'
    BY <1>0, <2>2 DEF Start, history, Bounds
  <2>3. ASSUME NEW p \in Process, CheckDefault(p) PROVE Bounds'
    <3>1. stage[p] \in 1..Len(Files) /\ Files[stage[p]] \in File
      BY <1>0, <2>3, Stages DEF CheckDefault, Starting
    <3>2. stage' \in [Process -> 0..(Len(Files) + 1)]
      BY <1>0, <2>3, <3>1 DEF CheckDefault, Bounds
    <3>3. overlapped' \subseteq File
      BY <2>3, <3>1 DEF CheckDefault, Overlap, Bounds
    <3> QED
      BY <2>3, <3>2, <3>3 DEF CheckDefault, Bounds
  <2>4. ASSUME NEW p \in Process, OpenDefault(p) PROVE Bounds'
    <3>1. job[Main[p]].file \in File
      BY <2>0, <2>4 DEF OpenDefault
    <3> QED
      BY <2>4, <3>1 DEF OpenDefault, Bounds
  <2>5. ASSUME NEW p \in Process, WriteDefault(p) PROVE Bounds'
    <3>1. stage[p] \in 1..Len(Files)
      BY <1>0, <2>5 DEF WriteDefault, LockInv, Turns, Starting
    <3> QED
      BY <1>0, <2>5, <3>1 DEF WriteDefault, Bounds
  <2>6. ASSUME NEW t \in Thread, NEW f \in File, NEW r \in Record, Load(t, f, r) PROVE Bounds'
    BY <2>6 DEF Load, Overlap, Bounds
  <2>7. ASSUME NEW t \in Thread, OpenTemp(t) PROVE Bounds'
    <3>1. job[t].file \in File
      BY <2>0, <2>7 DEF OpenTemp
    <3> QED
      BY <2>7, <3>1 DEF OpenTemp, Bounds
  <2>8. ASSUME NEW t \in Thread, WriteTemp(t) \/ Replace(t) \/ SaveFails(t) PROVE Bounds'
    BY <2>1, <2>8 DEF WriteTemp, Replace, SaveFails, history
  <2>9. ASSUME NEW p \in Process, Kill(p) PROVE Bounds'
    BY <1>0, <2>9 DEF Kill, history, Bounds
  <2>10. CASE UNCHANGED vars
    BY <2>1, <2>10 DEF vars, history
  <2> QED
    BY <2>2, <2>3, <2>4, <2>5, <2>6, <2>7, <2>8, <2>9, <2>10 DEF Next
<1> QED
  BY <1>1, <1>2, LockInvariant, PTL DEF Spec

\* Every variable has its type, files never hold more than max_log_entries records, and the
\* threads of a process take turns.
THEOREM TypeCorrect == Spec => []TypeOK
<1>1. LockInv /\ OnDisk /\ InHand /\ Bounds => TypeOK
  BY DEF LockInv, Shapes, Turns, Exclusion, OnDisk, InHand, Bounds, TypeOK
<1> QED
  BY <1>1, LockInvariant, ListsInvariant, BoundsInvariant, PTL
=============================================================================
