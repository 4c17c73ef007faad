----------------------------- MODULE StateStore -----------------------------
(***************************************************************************)
(* StateStore: JSON files in one directory, used by several processes (the  *)
(* server, the self_mod commands, the model installer, net_proxy), each     *)
(* with an instance, and a lock, of its own.  Threads of one process share  *)
(* the lock: the event loop of the server and the workers of its tools.     *)
(*                                                                         *)
(* Nothing locks the files between processes, and all of them use the same  *)
(* temporary file, so a save may find that another process has renamed it,  *)
(* or that the file it writes to is the live one by now.                    *)
(***************************************************************************)
EXTENDS Integers, Sequences, FiniteSets, Lists

CONSTANTS
  Process,
  Thread,
  Of,           \* the process of each thread
  Main,         \* the thread of each process that starts it
  Files,        \* the files, in the order of __init__
  Keyed,        \* those whose records are replaced by key
  Key,
  MaxLog,       \* max_log_entries
  MaxSaves,     \* bound: saves begun
  MaxStarts     \* bound: processes started

VARIABLES
  stage,        \* of each process: 0 is down, k is at file k of __init__, else up
  pc,           \* where each thread is
  job,          \* the file and the record it saves
  value,        \* the list it is about to write
  at,           \* where the file it writes to is by now
  file,         \* the live files
  temp,         \* the temporary files
  saves, starts,
  expected,     \* history: what acknowledged saves make of each file, one after the other
  ready,        \* history: the files that have had their default written
  overlapped,   \* history: the files two processes have worked on at once
  clashed       \* history: ... and have had open at once

threads == <<pc, job, value, at>>
disk == <<file, temp>>
history == <<expected, ready, overlapped, clashed>>
vars == <<stage, threads, disk, saves, starts, history>>

File == {Files[k] : k \in DOMAIN Files}
Record == [key : Key, n : 1..MaxSaves]

ASSUME StoreAssumption ==
  /\ Of \in [Thread -> Process]
  /\ Main \in [Process -> Thread]
  /\ \A p \in Process : Of[Main[p]] = p
  /\ Files \in Seq(File)
  /\ \A k, l \in DOMAIN Files : Files[k] = Files[l] => k = l
  /\ MaxLog \in Nat /\ MaxSaves \in Nat /\ MaxStarts \in Nat

\* What a path holds: nothing; a file with nothing in it yet; a list; or the end of one
\* text after another, which json.loads refuses.
Absent == [state |-> "absent", list |-> <<>>]
Blank == [state |-> "blank", list |-> <<>>]
Mixed == [state |-> "mixed", list |-> <<>>]
Whole(s) == [state |-> "whole", list |-> s]
Readable(c) == c.state = "whole"

NoJob == [file |-> "none", record |-> "none"]

Up(p) == stage[p] > Len(Files)
Starting(p) == stage[p] \in DOMAIN Files
Busy(t, f) == pc[t] # "idle" /\ job[t].file = f

\* value[-max_log_entries:], the whole list when that is 0.
Truncated(s) ==
  IF MaxLog = 0 \/ Len(s) <= MaxLog THEN s ELSE SubSeq(s, Len(s) - MaxLog + 1, Len(s))

\* What a save of a record keeps of the list: the records with other keys.
WithoutKey(key) == {r \in Record : r.key # key}

\* A mutated form: cut before the record is appended.
KeptCutFirst(f, s, r) ==
  Append(Truncated(IF f \in Keyed THEN Among(s, WithoutKey(r.key)) ELSE s), r)

\* The list after an append, or after a save of a record with a key.
Kept(f, s, r) ==
  Truncated(Append(IF f \in Keyed THEN Among(s, WithoutKey(r.key)) ELSE s, r))

\* A mutated form: no lock.
HasNoLock(t) == pc[t] = "idle"

\* No thread of the process is within its `with self._lock`.
HasLock(t) == \A u \in Thread : Of[u] = Of[t] => pc[u] = "idle"

Init ==
  /\ stage = [p \in Process |-> 0]
  /\ pc = [t \in Thread |-> "idle"]
  /\ job = [t \in Thread |-> NoJob]
  /\ value = [t \in Thread |-> <<>>]
  /\ at = [t \in Thread |-> "closed"]
  /\ file = [f \in File |-> Absent]
  /\ temp = [f \in File |-> Absent]
  /\ saves = 0 /\ starts = 0
  /\ expected = [f \in File |-> <<>>]
  /\ ready = {} /\ overlapped = {} /\ clashed = {}

\* Threads Stopped are through, or killed.
Release(Stopped) ==
  /\ pc' = [t \in Thread |-> IF t \in Stopped THEN "idle" ELSE pc[t]]
  /\ job' = [t \in Thread |-> IF t \in Stopped THEN NoJob ELSE job[t]]
  /\ value' = [t \in Thread |-> IF t \in Stopped THEN <<>> ELSE value[t]]

\* t begins to work on f.
Overlap(t, f) ==
  overlapped' = IF \E u \in Thread : Of[u] # Of[t] /\ Busy(u, f)
                  THEN overlapped \cup {f} ELSE overlapped

\* A process starts.
Start(p) ==
  /\ stage[p] = 0 /\ starts < MaxStarts
  /\ stage' = [stage EXCEPT ![p] = 1]
  /\ starts' = starts + 1
  /\ UNCHANGED <<threads, disk, saves, history>>

\* path.exists(): a file that is there is left as it is.
CheckDefault(p) ==
  LET t == Main[p]
      f == Files[stage[p]]
  IN /\ Starting(p) /\ pc[t] = "idle"
     /\ \/ /\ file[f] # Absent
           /\ stage' = [stage EXCEPT ![p] = @ + 1]
           /\ UNCHANGED <<pc, job, overlapped>>
        \/ /\ file[f] = Absent
           /\ pc' = [pc EXCEPT ![t] = "defaulting"]
           /\ job' = [job EXCEPT ![t] = [file |-> f, record |-> "none"]]
           /\ Overlap(t, f)
           /\ UNCHANGED stage
     /\ UNCHANGED <<value, at, disk, saves, starts, expected, ready, clashed>>

\* path.write_text opens the live file, and empties it if another process has made it.
OpenDefault(p) ==
  LET t == Main[p]
      f == job[t].file
  IN /\ pc[t] = "defaulting"
     /\ pc' = [pc EXCEPT ![t] = "blank"]
     /\ at' = [at EXCEPT ![t] = "file"]
     /\ file' = [file EXCEPT ![f] = Blank]
     /\ clashed' = IF file[f] = Absent THEN clashed ELSE clashed \cup {f}
     /\ UNCHANGED <<stage, job, value, temp, saves, starts, expected, ready, overlapped>>

\* What a file holds when s is written to its beginning: texts differ in length.
Over(c, s) == IF c = Blank THEN {Whole(s)} ELSE {Whole(s), Mixed}

\* t writes s to its file, wherever that is, and closes it.
Put(t, f, s) ==
  /\ \/ at[t] = "gone" /\ UNCHANGED disk
     \/ /\ at[t] = "temp"
        /\ \E c \in Over(temp[f], s) : temp' = [temp EXCEPT ![f] = c]
        /\ UNCHANGED file
     \/ /\ at[t] = "file"
        /\ \E c \in Over(file[f], s) : file' = [file EXCEPT ![f] = c]
        /\ UNCHANGED temp
  /\ at' = [at EXCEPT ![t] = "closed"]

\* ... the default.
WriteDefault(p) ==
  LET t == Main[p]
      f == job[t].file
  IN /\ pc[t] = "blank"
     /\ Put(t, f, <<>>)
     /\ Release({t})
     /\ stage' = [stage EXCEPT ![p] = @ + 1]
     /\ ready' = ready \cup {f}
     /\ UNCHANGED <<saves, starts, expected, overlapped, clashed>>

\* The head of an append or a save: the lock, and the list with the record.  A file
\* that cannot be read raises and changes nothing.
Load(t, f, r) ==
  /\ Up(Of[t]) /\ HasLock(t)
  /\ saves < MaxSaves /\ r.n = saves + 1
  /\ Readable(file[f])
  /\ pc' = [pc EXCEPT ![t] = "saving"]
  /\ job' = [job EXCEPT ![t] = [file |-> f, record |-> r]]
  /\ value' = [value EXCEPT ![t] = Kept(f, file[f].list, r)]
  /\ saves' = saves + 1
  /\ Overlap(t, f)
  /\ UNCHANGED <<stage, at, disk, starts, expected, ready, clashed>>

\* A mutated form: the live file is written in place.
OpenInPlace(t) ==
  LET f == job[t].file IN
  /\ pc[t] = "saving"
  /\ pc' = [pc EXCEPT ![t] = "opened"]
  /\ at' = [at EXCEPT ![t] = "file"]
  /\ file' = [file EXCEPT ![f] = Blank]
  /\ UNCHANGED <<stage, job, value, temp, saves, starts, history>>

\* temp_path.write_text opens and empties the temporary file.
OpenTemp(t) ==
  LET f == job[t].file IN
  /\ pc[t] = "saving"
  /\ pc' = [pc EXCEPT ![t] = "opened"]
  /\ at' = [at EXCEPT ![t] = "temp"]
  /\ temp' = [temp EXCEPT ![f] = Blank]
  /\ clashed' = IF \E u \in Thread \ {t} : Busy(u, f) /\ pc[u] \in {"opened", "written"}
                  THEN clashed \cup {f} ELSE clashed
  /\ UNCHANGED <<stage, job, value, file, saves, starts, expected, ready, overlapped>>

\* ... and writes and closes it.
WriteTemp(t) ==
  /\ pc[t] = "opened"
  /\ Put(t, job[t].file, value[t])
  /\ pc' = [pc EXCEPT ![t] = "written"]
  /\ UNCHANGED <<stage, job, value, saves, starts, history>>

\* What becomes of the files others write to when the temporary file of f is renamed.
Renamed(u, f) ==
  CASE at[u] = "temp" /\ job[u].file = f -> "file"
    [] at[u] = "file" /\ job[u].file = f -> "gone"
    [] OTHER -> at[u]

\* temp_path.replace(path); the lock is released and the save acknowledged.
Replace(t) ==
  LET f == job[t].file IN
  /\ pc[t] = "written" /\ temp[f] # Absent
  /\ file' = [file EXCEPT ![f] = temp[f]]
  /\ temp' = [temp EXCEPT ![f] = Absent]
  /\ at' = [u \in Thread |-> Renamed(u, f)]
  /\ expected' = [expected EXCEPT ![f] = Kept(f, @, job[t].record)]
  /\ Release({t})
  /\ UNCHANGED <<stage, saves, starts, ready, overlapped, clashed>>

\* StateStoreError: replace finds no temporary file, or any step of the save fails.
SaveFails(t) ==
  /\ pc[t] \in {"saving", "opened", "written"}
  /\ at' = [at EXCEPT ![t] = "closed"]
  /\ Release({t})
  /\ UNCHANGED <<stage, disk, saves, starts, history>>

\* A process ends or is killed, wherever its threads are.
Kill(p) ==
  LET Stopped == {t \in Thread : Of[t] = p} IN
  /\ stage[p] # 0
  /\ stage' = [stage EXCEPT ![p] = 0]
  /\ at' = [t \in Thread |-> IF t \in Stopped THEN "closed" ELSE at[t]]
  /\ Release(Stopped)
  /\ UNCHANGED <<disk, saves, starts, history>>

Next ==
  \/ \E p \in Process :
       Start(p) \/ CheckDefault(p) \/ OpenDefault(p) \/ WriteDefault(p) \/ Kill(p)
  \/ \E t \in Thread :
       \/ \E f \in File, r \in Record : Load(t, f, r)
       \/ OpenTemp(t) \/ WriteTemp(t) \/ Replace(t) \/ SaveFails(t)

Spec == Init /\ [][Next]_vars

(***************************************************************************)
(* Properties.                                                              *)
(***************************************************************************)

\* A list of records, none too many; and what a path may hold.
IsList(s) == s \in Seq(Record) /\ (MaxLog # 0 => Len(s) <= MaxLog)
IsContent(c) == c \in {Absent, Blank, Mixed} \/ (c = Whole(c.list) /\ IsList(c.list))

\* Types, the bound on entries, and: within a process one thread at most is at work.
TypeOK ==
  /\ stage \in [Process -> 0..(Len(Files) + 1)]
  /\ pc \in [Thread -> {"idle", "defaulting", "blank", "saving", "opened", "written"}]
  /\ at \in [Thread -> {"closed", "temp", "file", "gone"}]
  /\ \A t \in Thread : at[t] # "closed" <=> pc[t] \in {"blank", "opened"}
  /\ \A t \in Thread : pc[t] # "idle" => job[t].file \in File
  /\ \A t, u \in Thread : Of[t] = Of[u] /\ pc[t] # "idle" /\ pc[u] # "idle" => t = u
  /\ \A f \in File : IsContent(file[f]) /\ IsContent(temp[f])
  /\ \A t \in Thread : IsList(value[t])
  /\ saves \in 0..MaxSaves /\ starts \in 0..MaxStarts
  /\ ready \subseteq File /\ clashed \subseteq File /\ overlapped \subseteq File

\* A file whose default was written holds what the acknowledged saves make of it, in
\* their order, as long as no two processes worked on it at once: threads, failed saves,
\* kills and restarts lose nothing, leave nothing of a save that raised, and tear nothing.
UndisturbedFilesAreExpected ==
  \A f \in ready \ overlapped : file[f] = Whole(expected[f])

\* Overlapping saves of two processes lose records; only when both have the temporary
\* file in hand at once may the live file become unreadable.
UnclashedFilesAreReadable ==
  \A f \in ready \ clashed : Readable(file[f])
=============================================================================
