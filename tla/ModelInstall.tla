---------------------------- MODULE ModelInstall ----------------------------
(***************************************************************************)
(* LocalModelService.install and SafeHttpClient.download_file: installs of  *)
(* model files into one models directory, by requests of the server and by  *)
(* python -m mordecai.local_models.                                         *)
(*                                                                         *)
(* All downloads of an asset use the same temporary file beside its         *)
(* destination.  The requests of the server are tasks of one event loop and *)
(* take turns only where they await: while they fetch and between chunks.   *)
(* A command line is a process of its own and may run at any point.         *)
(***************************************************************************)
EXTENDS Integers, Sequences, FiniteSets

CONSTANTS
  Installer,    \* the requests of the server and the command lines
  Server,       \* those of the server
  Asset,        \* what may be installed
  Archive,      \* the assets that are archives
  Gated,        \* the assets that require the operator's approval
  Requests,     \* what may be asked for
  Chunks,       \* bound: the chunks of a file
  Parts,        \* bound: the files of an archive, the sherpa manifest last
  MaxInstalls   \* bound: calls of install

VARIABLES
  pc,           \* where each installer is
  req,          \* what it was asked for
  pos,          \* which of the assets it is at
  wrote,        \* how many chunks, or parts, it has written
  at,           \* where the file it writes to is by now
  temp,         \* the temporary file of each asset
  dest,         \* the installed file of each asset
  dir,          \* the directory an archive is extracted to
  begun,        \* calls of install so far
  approved,     \* history: the assets asked for with an approval
  shared,       \* history: the assets two installers have downloaded at once
  alone         \* history: nobody else has worked on an asset of the request

installers == <<pc, req, pos, wrote, at>>
files == <<temp, dest, dir>>
history == <<approved, shared, alone>>
vars == <<installers, files, begun, history>>

Chunk == 1..Chunks
Part == 1..Parts
Missing == {0}      \* no such file or directory

\* asset_ids, without duplicates; whether the bundle requires approval; overwrite and
\* acknowledge_operator_approval.
Request == [assets : Seq(Asset), gated : BOOLEAN, overwrite : BOOLEAN, approval : BOOLEAN]

ASSUME BoundsAssumption ==
  Chunks \in Nat \ {0} /\ Parts \in Nat \ {0} /\ MaxInstalls \in Nat
ASSUME RequestsAssumption ==
  /\ Server \subseteq Installer
  /\ Archive \subseteq Asset /\ Gated \subseteq Asset
  /\ Requests \subseteq Request
  /\ \A r \in Requests : \A k, l \in DOMAIN r.assets :
       r.assets[k] = r.assets[l] => k = l

Named(r) == {r.assets[k] : k \in DOMAIN r.assets}
NoRequest == [assets |-> <<>>, gated |-> FALSE, overwrite |-> FALSE, approval |-> FALSE]

Idle(i) == pc[i] = "idle"
More(i) == pos[i] <= Len(req[i].assets)
Current(i) == req[i].assets[pos[i]]

\* i is downloading a, or at least busy with it.
Downloads(i, a) == pc[i] \in {"fetching", "writing"} /\ Current(i) = a
WorksOn(i, a) == pc[i] \notin {"idle", "choosing"} /\ Current(i) = a

\* No other task of the server's event loop is between two awaits.
HasLoop(i) ==
  i \in Server => \A j \in Server \ {i} : pc[j] \in {"idle", "fetching", "writing"}

Init ==
  /\ pc = [i \in Installer |-> "idle"]
  /\ req = [i \in Installer |-> NoRequest]
  /\ pos = [i \in Installer |-> 1]
  /\ wrote = [i \in Installer |-> 0]
  /\ at = [i \in Installer |-> "closed"]
  /\ temp = [a \in Asset |-> Missing]
  /\ dest = [a \in Asset |-> Missing]
  /\ dir = [a \in Archive |-> Missing]
  /\ begun = 0
  /\ approved = {}
  /\ shared = {}
  /\ alone = [i \in Installer |-> FALSE]

\* The calls of Stopped are over: they returned, raised or were killed.
Leave(Stopped) ==
  /\ pc' = [i \in Installer |-> IF i \in Stopped THEN "idle" ELSE pc[i]]
  /\ req' = [i \in Installer |-> IF i \in Stopped THEN NoRequest ELSE req[i]]
  /\ pos' = [i \in Installer |-> IF i \in Stopped THEN 1 ELSE pos[i]]
  /\ wrote' = [i \in Installer |-> IF i \in Stopped THEN 0 ELSE wrote[i]]

\* i has done with its asset.
Advance(i) ==
  /\ pc' = [pc EXCEPT ![i] = "choosing"]
  /\ pos' = [pos EXCEPT ![i] = @ + 1]
  /\ wrote' = [wrote EXCEPT ![i] = 0]

\* i begins to work on a: from now on the requests that name it are not alone.
Touch(i, a) ==
  alone' = [j \in Installer |-> alone[j] /\ (j = i \/ a \notin Named(req[j]))]

\* A mutated form: only the bundle is asked.
RequiresApprovalOfBundle(r) == r.gated

\* _install_requires_approval.
RequiresApproval(r) == r.gated \/ Named(r) \cap Gated # {}

\* The head of install.  A request that names nothing, or lacks its approval, raises
\* and has done nothing.
Begin(i, r) ==
  /\ Idle(i)
  /\ HasLoop(i)
  /\ begun < MaxInstalls
  /\ r.assets # <<>>
  /\ RequiresApproval(r) => r.approval
  /\ pc' = [pc EXCEPT ![i] = "choosing"]
  /\ req' = [req EXCEPT ![i] = r]
  /\ begun' = begun + 1
  /\ approved' = IF r.approval THEN approved \cup Named(r) ELSE approved
  /\ alone' = [alone EXCEPT ![i] = \A j \in Installer, a \in Named(r) : ~WorksOn(j, a)]
  /\ UNCHANGED <<pos, wrote, at, files, shared>>

\* An installed asset is skipped, with whatever its directory holds.
Skip(i) ==
  /\ pc[i] = "choosing" /\ HasLoop(i) /\ More(i)
  /\ dest[Current(i)] # Missing /\ ~req[i].overwrite
  /\ Current(i) \in Archive => dir[Current(i)] # Missing
  /\ Advance(i)
  /\ UNCHANGED <<req, at, files, begun, history>>

\* ... and extracted if it has no directory.
ExtractSkipped(i) ==
  /\ pc[i] = "choosing" /\ HasLoop(i) /\ More(i)
  /\ dest[Current(i)] # Missing /\ ~req[i].overwrite
  /\ Current(i) \in Archive /\ dir[Current(i)] = Missing
  /\ pc' = [pc EXCEPT ![i] = "extracting"]
  /\ dir' = [dir EXCEPT ![Current(i)] = {}]
  /\ Touch(i, Current(i))
  /\ UNCHANGED <<req, pos, wrote, at, temp, dest, begun, approved, shared>>

\* What becomes of the files others write to when the temporary file of a is removed.
Unlinked(j, a) == IF at[j] = "temp" /\ Current(j) = a THEN "gone" ELSE at[j]

\* The head of download_file, up to its first await.
Download(i) ==
  LET a == Current(i) IN
  /\ pc[i] = "choosing" /\ HasLoop(i) /\ More(i)
  /\ dest[a] = Missing \/ req[i].overwrite
  /\ pc' = [pc EXCEPT ![i] = "fetching"]
  /\ temp' = [temp EXCEPT ![a] = Missing]
  /\ at' = [j \in Installer |-> Unlinked(j, a)]
  /\ shared' = IF \E j \in Installer \ {i} : Downloads(j, a) THEN shared \cup {a} ELSE shared
  /\ Touch(i, a)
  /\ UNCHANGED <<req, pos, wrote, dest, dir, begun, approved>>

\* The response is there: open for writing empties a temporary file that exists.
Open(i) ==
  /\ pc[i] = "fetching" /\ HasLoop(i)
  /\ pc' = [pc EXCEPT ![i] = "writing"]
  /\ temp' = [temp EXCEPT ![Current(i)] = {}]
  /\ at' = [at EXCEPT ![i] = "temp"]
  /\ UNCHANGED <<req, pos, wrote, dest, dir, begun, history>>

\* The next chunk goes where the opened file is by now.
Write(i) ==
  LET a == Current(i)
      chunk == wrote[i] + 1
  IN /\ pc[i] = "writing" /\ HasLoop(i)
     /\ chunk \in Chunk
     /\ wrote' = [wrote EXCEPT ![i] = chunk]
     /\ temp' = IF at[i] = "temp" THEN [temp EXCEPT ![a] = @ \cup {chunk}] ELSE temp
     /\ dest' = IF at[i] = "dest" THEN [dest EXCEPT ![a] = @ \cup {chunk}] ELSE dest
     /\ UNCHANGED <<pc, req, pos, at, dir, begun, history>>

\* The body breaks off, is too long or has another digest: the temporary file goes,
\* whoever writes to it.
Break(i) ==
  LET a == Current(i) IN
  /\ pc[i] = "writing" /\ HasLoop(i)
  /\ Leave({i})
  /\ temp' = [temp EXCEPT ![a] = Missing]
  /\ at' = [j \in Installer |-> IF j = i THEN "closed" ELSE Unlinked(j, a)]
  /\ UNCHANGED <<dest, dir, begun, history>>

\* What becomes of the files others write to when the temporary file of a is renamed.
Renamed(j, a) ==
  CASE at[j] = "temp" /\ Current(j) = a -> "dest"
    [] at[j] = "dest" /\ Current(j) = a -> "gone"
    [] OTHER -> at[j]

\* A mutated form: the file is renamed before it is closed.
PlaceOpen(i) ==
  LET a == Current(i) IN
  /\ pc[i] = "writing" /\ HasLoop(i)
  /\ wrote[i] = Chunks
  /\ temp[a] # Missing
  /\ pc' = [pc EXCEPT ![i] = "placed"]
  /\ temp' = [temp EXCEPT ![a] = Missing]
  /\ dest' = [dest EXCEPT ![a] = temp[a]]
  /\ at' = [j \in Installer |-> Renamed(j, a)]
  /\ UNCHANGED <<req, pos, wrote, dir, begun, history>>

\* A mutated form: a body that breaks off is taken for a whole one.
PlaceShort(i) ==
  LET a == Current(i) IN
  /\ pc[i] = "writing" /\ HasLoop(i)
  /\ temp[a] # Missing
  /\ pc' = [pc EXCEPT ![i] = "placed"]
  /\ temp' = [temp EXCEPT ![a] = Missing]
  /\ dest' = [dest EXCEPT ![a] = temp[a]]
  /\ at' = [j \in Installer |-> IF j = i THEN "closed" ELSE Renamed(j, a)]
  /\ UNCHANGED <<req, pos, wrote, dir, begun, history>>

\* The body is complete: temp_path.replace(destination).
Place(i) ==
  LET a == Current(i) IN
  /\ pc[i] = "writing" /\ HasLoop(i)
  /\ wrote[i] = Chunks
  /\ temp[a] # Missing
  /\ pc' = [pc EXCEPT ![i] = "placed"]
  /\ temp' = [temp EXCEPT ![a] = Missing]
  /\ dest' = [dest EXCEPT ![a] = temp[a]]
  /\ at' = [j \in Installer |-> IF j = i THEN "closed" ELSE Renamed(j, a)]
  /\ UNCHANGED <<req, pos, wrote, dir, begun, history>>

\* Somebody else has renamed or removed the temporary file: FileNotFoundError.
PlaceFails(i) ==
  /\ pc[i] = "writing" /\ HasLoop(i)
  /\ wrote[i] = Chunks
  /\ temp[Current(i)] = Missing
  /\ Leave({i})
  /\ at' = [at EXCEPT ![i] = "closed"]
  /\ UNCHANGED <<files, begun, history>>

\* A mutated form: a directory that is there is taken for a finished one.
UnpackIfMissing(i) ==
  LET a == Current(i) IN
  /\ pc[i] = "placed" /\ HasLoop(i)
  /\ IF a \in Archive /\ dir[a] = Missing
       THEN /\ pc' = [pc EXCEPT ![i] = "extracting"]
            /\ dir' = [dir EXCEPT ![a] = {}]
            /\ wrote' = [wrote EXCEPT ![i] = 0]
            /\ UNCHANGED pos
       ELSE Advance(i) /\ UNCHANGED dir
  /\ UNCHANGED <<req, at, temp, dest, begun, history>>

\* _post_install_paths of a new file: an archive gets an empty directory first.
Unpack(i) ==
  LET a == Current(i) IN
  /\ pc[i] = "placed" /\ HasLoop(i)
  /\ IF a \in Archive
       THEN /\ pc' = [pc EXCEPT ![i] = "extracting"]
            /\ dir' = [dir EXCEPT ![a] = {}]
            /\ wrote' = [wrote EXCEPT ![i] = 0]
            /\ UNCHANGED pos
       ELSE Advance(i) /\ UNCHANGED dir
  /\ UNCHANGED <<req, at, temp, dest, begun, history>>

\* The next file of the archive, which is read to its end before the first one; the
\* manifest, the last one, is written into a directory that has to be there.
Extract(i) ==
  LET a == Current(i)
      part == wrote[i] + 1
  IN /\ pc[i] = "extracting" /\ HasLoop(i)
     /\ part = 1 => dest[a] = Chunk
     /\ part = Parts => dir[a] # Missing
     /\ dir' = [dir EXCEPT ![a] = (@ \ Missing) \cup {part}]
     /\ IF part = Parts
          THEN Advance(i)
          ELSE wrote' = [wrote EXCEPT ![i] = part] /\ UNCHANGED <<pc, pos>>
     /\ UNCHANGED <<req, at, temp, dest, begun, history>>

\* A refused or failed request, a store that raises after the rename, a broken archive.
Fail(i) ==
  /\ pc[i] \in {"fetching", "placed", "extracting"} /\ HasLoop(i)
  /\ Leave({i})
  /\ UNCHANGED <<at, files, begun, history>>

\* install returns.
Finish(i) ==
  /\ pc[i] = "choosing" /\ HasLoop(i) /\ ~More(i)
  /\ Leave({i})
  /\ UNCHANGED <<at, files, begun, history>>

\* The server or a command line is killed.
Kill(Stopped) ==
  /\ \E i \in Stopped : ~Idle(i)
  /\ Leave(Stopped)
  /\ at' = [i \in Installer |-> IF i \in Stopped THEN "closed" ELSE at[i]]
  /\ UNCHANGED <<files, begun, history>>

Step(i) ==
  \/ \E r \in Requests : Begin(i, r)
  \/ Skip(i) \/ ExtractSkipped(i) \/ Download(i)
  \/ Open(i) \/ Write(i) \/ Break(i) \/ Place(i) \/ PlaceFails(i)
  \/ Unpack(i) \/ Extract(i)
  \/ Fail(i) \/ Finish(i)

Next ==
  \/ \E i \in Installer : Step(i)
  \/ Kill(Server)
  \/ \E i \in Installer \ Server : Kill({i})

Spec == Init /\ [][Next]_vars

(***************************************************************************)
(* Properties.                                                              *)
(***************************************************************************)

\* Types, and: an installer has a file open only while it writes, so none is left open
\* by a failure or written to once download_file is over.
TypeOK ==
  /\ pc \in [Installer -> {"idle", "choosing", "fetching", "writing", "placed", "extracting"}]
  /\ req \in [Installer -> Requests \cup {NoRequest}]
  /\ pos \in [Installer -> Nat \ {0}]
  /\ wrote \in [Installer -> Nat]
  /\ at \in [Installer -> {"closed", "temp", "dest", "gone"}]
  /\ \A i \in Installer : at[i] # "closed" <=> pc[i] = "writing"
  /\ \A i \in Installer : pc[i] \notin {"idle", "choosing"} => More(i)
  /\ temp \in [Asset -> (SUBSET Chunk) \cup {Missing}]
  /\ dest \in [Asset -> (SUBSET Chunk) \cup {Missing}]
  /\ dir \in [Archive -> (SUBSET Part) \cup {Missing}]
  /\ begun \in 0..MaxInstalls
  /\ approved \subseteq Asset
  /\ shared \subseteq Asset
  /\ alone \in [Installer -> BOOLEAN]

\* Nothing of a gated asset, not even a temporary file or a directory, is on the disk
\* unless an operator acknowledged a request for it (docs/architecture.md:98).
GatedNeedsApproval ==
  \A a \in Gated \ approved :
    /\ temp[a] = Missing
    /\ dest[a] = Missing
    /\ a \in Archive => dir[a] = Missing

\* What counts as installed is whole, as long as no two downloads of it were under way at
\* once: failures, kills and skips never leave a file that exists() takes for installed.
SoleDownloadsAreWhole ==
  \A a \in Asset \ shared : dest[a] \in {Missing, Chunk}

\* While a request is alone on its assets, those it is done with are there; one that
\* overwrites has whole files and whole directories, whatever failures, kills and
\* overlaps of earlier installs had left there.
FinishedAssetsAreThere ==
  \A i \in Installer : ~Idle(i) /\ alone[i] =>
    \A k \in 1..(pos[i] - 1) :
      LET a == req[i].assets[k] IN
      /\ dest[a] # Missing
      /\ a \in Archive => dir[a] # Missing
      /\ req[i].overwrite => /\ dest[a] = Chunk
                             /\ a \in Archive => dir[a] = Part
=============================================================================
