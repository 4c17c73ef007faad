------------------------- MODULE ModelInstallProofs -------------------------
(***************************************************************************)
(* Proofs about ModelInstall, for any installers, assets and requests and   *)
(* any bounds.                                                              *)
(***************************************************************************)
EXTENDS ModelInstall, TLAPS

\* An installer at rest has no request and has written nothing, one that has yet to
\* open a file has written nothing either, and only archives are extracted.
Resting ==
  \A i \in Installer :
    /\ pc[i] = "idle" => req[i] = NoRequest /\ pos[i] = 1
    /\ pc[i] # "idle" => req[i] \in Requests
    /\ pc[i] \in {"idle", "choosing", "fetching"} => wrote[i] = 0
    /\ pc[i] = "extracting" => Current(i) \in Archive /\ wrote[i] < Parts

\* The file an installer writes to exists.
Handles ==
  \A i \in Installer :
    /\ at[i] = "temp" => temp[Current(i)] # Missing
    /\ at[i] = "dest" => dest[Current(i)] # Missing

TypeInv == TypeOK /\ Resting /\ Handles

\* What the type invariant knows of an installer that has an asset to work on.
LEMMA CurrentFacts ==
  ASSUME TypeInv, NEW i \in Installer, More(i)
  PROVE  /\ req[i] \in Request
         /\ req[i] \in Requests
         /\ pos[i] \in DOMAIN req[i].assets
         /\ Current(i) \in Asset
         /\ Current(i) \in Named(req[i])
<1>1. req[i] \in Requests \cup {NoRequest} /\ pos[i] \in Nat \ {0}
  BY DEF TypeInv, TypeOK
<1>2. req[i] # NoRequest
  BY <1>1 DEF More, NoRequest
<1>3. req[i] \in Request /\ req[i] \in Requests
  BY <1>1, <1>2, RequestsAssumption
<1>4. req[i].assets \in Seq(Asset)
  BY <1>3 DEF Request
<1>5. pos[i] \in DOMAIN req[i].assets
  BY <1>1, <1>4 DEF More
<1> QED
  BY <1>3, <1>4, <1>5 DEF Current, Named

\* The calls that end leave everything typed.
LEMMA Leaving ==
  ASSUME TypeInv, NEW Stopped \in SUBSET Installer, Leave(Stopped),
         at' \in [Installer -> {"closed", "temp", "dest", "gone"}],
         \A i \in Installer : at'[i] # "closed" <=> pc'[i] = "writing",
         temp' \in [Asset -> (SUBSET Chunk) \cup {Missing}],
         UNCHANGED <<dest, dir, begun, history>>, Handles'
  PROVE  TypeInv'
<1>1. \A i \in Installer : pc'[i] \notin {"idle", "choosing"} =>
        /\ pc[i] \notin {"idle", "choosing"}
        /\ pos'[i] = pos[i] /\ req'[i] = req[i]
  BY DEF Leave
<1>2. \A i \in Installer : pc'[i] \notin {"idle", "choosing"} => More(i)'
  BY <1>1 DEF More, TypeInv, TypeOK
<1> QED
  BY <1>1, <1>2, BoundsAssumption DEF TypeInv, TypeOK, Leave, Resting, Current, history

\* Type correctness, the part every other proof rests on.
THEOREM TypeInvariant == Spec => []TypeInv
<1>1. Init => TypeInv
  BY BoundsAssumption DEF Init, TypeInv, TypeOK, Resting, Handles, NoRequest, Missing, More
<1>2. TypeInv /\ [Next]_vars => TypeInv'
  <2> SUFFICES ASSUME TypeInv, [Next]_vars PROVE TypeInv'
    OBVIOUS
  <2> USE BoundsAssumption DEF TypeInv
  <2>1. ASSUME NEW i \in Installer, NEW r \in Requests, Begin(i, r) PROVE TypeInv'
    <3>1. r \in Request /\ Named(r) \subseteq Asset
      BY RequestsAssumption DEF Request, Named
    <3> QED
      BY <2>1, <3>1 DEF Begin, TypeOK, Resting, Handles, More, Current, Idle, files
  <2>2. ASSUME NEW i \in Installer, Skip(i) PROVE TypeInv'
    <3>1. TypeOK'
      BY <2>2 DEF Skip, Advance, TypeOK, More, files, history
    <3>2. Resting' /\ Handles'
      BY <2>2 DEF Skip, Advance, TypeOK, Resting, Handles, Current, files
    <3> QED
      BY <3>1, <3>2
  <2>3. ASSUME NEW i \in Installer, ExtractSkipped(i) PROVE TypeInv'
    BY <2>3 DEF ExtractSkipped, Touch, TypeOK, Resting, Handles, More, Current, Part
  <2>4. ASSUME NEW i \in Installer, Download(i) PROVE TypeInv'
    <3>1. Current(i) \in Asset
      BY <2>4, CurrentFacts DEF Download
    <3>2. TypeOK'
      BY <2>4, <3>1 DEF Download, Touch, Unlinked, TypeOK, More, Current
    <3>3. Resting'
      BY <2>4 DEF Download, TypeOK, Resting, Current
    <3>4. Handles'
      BY <2>4, <3>1 DEF Download, Unlinked, TypeOK, Handles, Current
    <3> QED
      BY <3>2, <3>3, <3>4
  <2>5. ASSUME NEW i \in Installer, Open(i) PROVE TypeInv'
    <3>1. Current(i) \in Asset /\ {} # Missing
      BY <2>5, CurrentFacts DEF Open, TypeOK, Missing
    <3>2. Handles'
      BY <2>5, <3>1 DEF Open, TypeOK, Handles, Current
    <3> QED
      BY <2>5, <3>1, <3>2 DEF Open, TypeOK, Resting, More, Current, history
  <2>6. ASSUME NEW i \in Installer, Write(i) PROVE TypeInv'
    <3>1. wrote[i] + 1 \in Chunk /\ Current(i) \in Asset
      BY <2>6, CurrentFacts DEF Write, TypeOK
    <3>2. ASSUME NEW S \in (SUBSET Chunk) \cup {Missing}, S # Missing
          PROVE  S \cup {wrote[i] + 1} \in (SUBSET Chunk) \ {Missing}
      <4>1. S \subseteq Chunk
        BY <3>2
      <4>2. wrote[i] + 1 \in S \cup {wrote[i] + 1} /\ wrote[i] + 1 \notin Missing
        BY <3>1 DEF Chunk, Missing
      <4> QED
        BY <3>1, <4>1, <4>2
    <3>3. /\ temp' \in [Asset -> (SUBSET Chunk) \cup {Missing}]
          /\ \A a \in Asset : temp[a] # Missing => temp'[a] # Missing
      BY <2>6, <3>1, <3>2 DEF Write, TypeOK, Handles
    <3>4. /\ dest' \in [Asset -> (SUBSET Chunk) \cup {Missing}]
          /\ \A a \in Asset : dest[a] # Missing => dest'[a] # Missing
      BY <2>6, <3>1, <3>2 DEF Write, TypeOK, Handles
    <3>5. Handles'
      <4>1. \A j \in Installer : at[j] # "closed" => Current(j) \in Asset
        BY CurrentFacts DEF TypeOK
      <4> QED
        BY <2>6, <3>3, <3>4, <4>1 DEF Write, Handles, Current
    <3>6. Resting'
      BY <2>6, <3>1 DEF Write, TypeOK, Resting, Current, Chunk
    <3> QED
      BY <2>6, <3>3, <3>4, <3>5, <3>6 DEF Write, TypeOK, More, history
  <2>7. ASSUME NEW i \in Installer, Break(i) PROVE TypeInv'
    <3>1. /\ at' \in [Installer -> {"closed", "temp", "dest", "gone"}]
          /\ \A j \in Installer : at'[j] # "closed" <=> pc'[j] = "writing"
          /\ temp' \in [Asset -> (SUBSET Chunk) \cup {Missing}]
      BY <2>7 DEF Break, Leave, Unlinked, TypeOK
    <3>2. Leave({i}) /\ UNCHANGED <<dest, dir, begun, history>>
      BY <2>7 DEF Break
    <3>3. Handles'
      BY <2>7 DEF Break, Leave, Unlinked, Handles, Current, TypeOK
    <3> QED
      BY <3>1, <3>2, <3>3, Leaving
  <2>8. ASSUME NEW i \in Installer, Place(i) PROVE TypeInv'
    <3>1. Current(i) \in Asset
      BY <2>8, CurrentFacts DEF Place, TypeOK
    <3>2. at' \in [Installer -> {"closed", "temp", "dest", "gone"}]
      BY <2>8 DEF Place, Renamed, TypeOK
    <3>3. \A j \in Installer : at'[j] # "closed" <=> pc'[j] = "writing"
      BY <2>8 DEF Place, Renamed, TypeOK
    <3>4. Handles'
      BY <2>8, <3>1 DEF Place, Renamed, TypeOK, Handles, Current
    <3>5. Resting'
      BY <2>8 DEF Place, TypeOK, Resting, Current
    <3> QED
      BY <2>8, <3>1, <3>2, <3>3, <3>4, <3>5 DEF Place, TypeOK, More, history
  <2>9. ASSUME NEW i \in Installer, PlaceFails(i) PROVE TypeInv'
    <3>1. /\ at' \in [Installer -> {"closed", "temp", "dest", "gone"}]
          /\ \A j \in Installer : at'[j] # "closed" <=> pc'[j] = "writing"
      BY <2>9 DEF PlaceFails, Leave, TypeOK
    <3>2. /\ Leave({i})
          /\ temp' \in [Asset -> (SUBSET Chunk) \cup {Missing}]
          /\ UNCHANGED <<dest, dir, begun, history>>
      BY <2>9 DEF PlaceFails, files, TypeOK
    <3>3. Handles'
      BY <2>9 DEF PlaceFails, Leave, files, Handles, Current, TypeOK
    <3> QED
      BY <3>1, <3>2, <3>3, Leaving
  <2>10. ASSUME NEW i \in Installer, Unpack(i) PROVE TypeInv'
    <3>1. at[i] = "closed" /\ More(i)
      BY <2>10 DEF Unpack, TypeOK
    <3>2. Resting'
      BY <2>10 DEF Unpack, Advance, TypeOK, Resting, Current
    <3>3. Handles'
      BY <2>10, <3>1 DEF Unpack, Advance, TypeOK, Handles, Current
    <3>4. TypeOK'
      <4>1. /\ pc' \in [Installer -> {"idle", "choosing", "fetching", "writing", "placed", "extracting"}]
            /\ pos' \in [Installer -> Nat \ {0}]
            /\ wrote' \in [Installer -> Nat]
        BY <2>10 DEF Unpack, Advance, TypeOK
      <4>2. /\ \A j \in Installer : at'[j] # "closed" <=> pc'[j] = "writing"
            /\ \A j \in Installer : pc'[j] \notin {"idle", "choosing"} => More(j)'
        <5>1. \A j \in Installer : pc'[j] \notin {"idle", "choosing"} =>
                pc[j] \notin {"idle", "choosing"} /\ pos'[j] = pos[j] /\ req'[j] = req[j]
          BY <2>10 DEF Unpack, Advance, TypeOK
        <5> QED
          BY <2>10, <5>1 DEF Unpack, Advance, TypeOK, More
      <4>3. dir' \in [Archive -> (SUBSET Part) \cup {Missing}]
        BY <2>10 DEF Unpack, TypeOK
      <4> QED
        BY <2>10, <4>1, <4>2, <4>3 DEF Unpack, TypeOK, history
    <3> QED
      BY <3>2, <3>3, <3>4
  <2>11. ASSUME NEW i \in Installer, Extract(i) PROVE TypeInv'
    <3>1. Current(i) \in Archive /\ wrote[i] + 1 \in Part /\ at[i] = "closed"
      BY <2>11 DEF Extract, TypeOK, Resting, Part
    <3>2. dir' \in [Archive -> (SUBSET Part) \cup {Missing}]
      BY <2>11, <3>1 DEF Extract, TypeOK, Missing, Part
    <3>3. Resting'
      BY <2>11, <3>1 DEF Extract, Advance, TypeOK, Resting, Current, Part
    <3>4. Handles'
      BY <2>11, <3>1 DEF Extract, Advance, TypeOK, Handles, Current
    <3>5. TypeOK'
      <4>1. /\ pc' \in [Installer -> {"idle", "choosing", "fetching", "writing", "placed", "extracting"}]
            /\ pos' \in [Installer -> Nat \ {0}]
            /\ wrote' \in [Installer -> Nat]
        BY <2>11 DEF Extract, Advance, TypeOK
      <4>2. /\ \A j \in Installer : at'[j] # "closed" <=> pc'[j] = "writing"
            /\ \A j \in Installer : pc'[j] \notin {"idle", "choosing"} => More(j)'
        BY ZenonT(30), <2>11, <3>1 DEF Extract, Advance, TypeOK, More
      <4> QED
        BY <2>11, <3>2, <4>1, <4>2 DEF Extract, TypeOK, history
    <3> QED
      BY <3>3, <3>4, <3>5
  <2>12. ASSUME NEW i \in Installer, Fail(i) PROVE TypeInv'
    <3>1. /\ at' \in [Installer -> {"closed", "temp", "dest", "gone"}]
          /\ \A j \in Installer : at'[j] # "closed" <=> pc'[j] = "writing"
      BY <2>12 DEF Fail, Leave, TypeOK
    <3>2. /\ Leave({i})
          /\ temp' \in [Asset -> (SUBSET Chunk) \cup {Missing}]
          /\ UNCHANGED <<dest, dir, begun, history>>
      BY <2>12 DEF Fail, files, TypeOK
    <3>3. Handles'
      BY <2>12 DEF Fail, Leave, files, Handles, Current, TypeOK
    <3> QED
      BY <3>1, <3>2, <3>3, Leaving
  <2>13. ASSUME NEW i \in Installer, Finish(i) PROVE TypeInv'
    <3>1. /\ at' \in [Installer -> {"closed", "temp", "dest", "gone"}]
          /\ \A j \in Installer : at'[j] # "closed" <=> pc'[j] = "writing"
      BY <2>13 DEF Finish, Leave, TypeOK
    <3>2. /\ Leave({i})
          /\ temp' \in [Asset -> (SUBSET Chunk) \cup {Missing}]
          /\ UNCHANGED <<dest, dir, begun, history>>
      BY <2>13 DEF Finish, files, TypeOK
    <3>3. Handles'
      BY <2>13 DEF Finish, Leave, files, Handles, Current, TypeOK
    <3> QED
      BY <3>1, <3>2, <3>3, Leaving
  <2>14. ASSUME NEW Stopped \in SUBSET Installer, Kill(Stopped) PROVE TypeInv'
    <3>1. /\ at' \in [Installer -> {"closed", "temp", "dest", "gone"}]
          /\ \A j \in Installer : at'[j] # "closed" <=> pc'[j] = "writing"
      BY <2>14 DEF Kill, Leave, TypeOK
    <3>2. /\ Leave(Stopped)
          /\ temp' \in [Asset -> (SUBSET Chunk) \cup {Missing}]
          /\ UNCHANGED <<dest, dir, begun, history>>
      BY <2>14 DEF Kill, files, TypeOK
    <3>3. Handles'
      BY <2>14 DEF Kill, Leave, files, Handles, Current, TypeOK
    <3> QED
      BY <3>1, <3>2, <3>3, Leaving
  <2>15. CASE UNCHANGED vars
    BY <2>15 DEF vars, installers, files, history, TypeOK, Resting, Handles, More, Current
  <2> QED
    BY <2>1, <2>2, <2>3, <2>4, <2>5, <2>6, <2>7, <2>8, <2>9, <2>10, <2>11, <2>12,
       <2>13, <2>14, <2>15, RequestsAssumption DEF Next, Step
<1> QED
  BY <1>1, <1>2, PTL DEF Spec

\* The property the first run checks.
THEOREM TypeCorrect == Spec => []TypeOK
BY TypeInvariant, PTL DEF TypeInv

\* A step of i within its call.
Works(i) ==
  \/ Skip(i) \/ ExtractSkipped(i) \/ Download(i)
  \/ Open(i) \/ Write(i) \/ Break(i) \/ Place(i) \/ PlaceFails(i)
  \/ Unpack(i) \/ Extract(i)
  \/ Fail(i) \/ Finish(i)

\* What can happen: a call begins, goes on or is killed.
LEMMA Steps ==
  ASSUME [Next]_vars
  PROVE  \/ \E i \in Installer, r \in Requests : Begin(i, r)
         \/ \E i \in Installer : Works(i)
         \/ \E Stopped \in SUBSET Installer : Kill(Stopped)
         \/ UNCHANGED vars
BY RequestsAssumption DEF Next, Step, Works

\* A call that goes on does not move the others.
LEMMA OthersStay ==
  ASSUME TypeInv, NEW i \in Installer, Works(i), NEW j \in Installer, j # i
  PROVE  /\ pc'[j] = pc[j] /\ req'[j] = req[j] /\ pos'[j] = pos[j] /\ wrote'[j] = wrote[j]
         /\ Current(j)' = Current(j)
<1>1. pc'[j] = pc[j] /\ req'[j] = req[j] /\ pos'[j] = pos[j] /\ wrote'[j] = wrote[j]
  <2>1. CASE Skip(i)
    BY <2>1 DEF Skip, Advance, TypeInv, TypeOK
  <2>2. CASE ExtractSkipped(i)
    BY <2>2 DEF ExtractSkipped, TypeInv, TypeOK
  <2>3. CASE Download(i)
    BY <2>3 DEF Download, TypeInv, TypeOK
  <2>4. CASE Open(i) \/ Write(i) \/ Place(i)
    BY <2>4 DEF Open, Write, Place, TypeInv, TypeOK
  <2>5. CASE Break(i) \/ PlaceFails(i) \/ Fail(i) \/ Finish(i)
    BY <2>5 DEF Break, PlaceFails, Fail, Finish, Leave, TypeInv, TypeOK
  <2>6. CASE Unpack(i)
    BY <2>6 DEF Unpack, Advance, TypeInv, TypeOK
  <2>7. CASE Extract(i)
    BY <2>7 DEF Extract, Advance, TypeInv, TypeOK
  <2> QED
    BY <2>1, <2>2, <2>3, <2>4, <2>5, <2>6, <2>7 DEF Works
<1> QED
  BY <1>1 DEF Current

\* A call changes the files of its current asset only, and asks for no approval.
LEMMA OnlyItsAsset ==
  ASSUME TypeInv, NEW i \in Installer, Works(i)
  PROVE  /\ pc[i] # "idle"
         /\ approved' = approved
         /\ \A a \in Asset :
              \/ More(i) /\ a = Current(i)
              \/ /\ temp'[a] = temp[a] /\ dest'[a] = dest[a]
                 /\ a \in Archive => dir'[a] = dir[a]
<1>1. CASE Skip(i) \/ Finish(i) \/ Fail(i) \/ PlaceFails(i)
  BY <1>1 DEF Skip, Finish, Fail, PlaceFails, files, history
<1>2. CASE ExtractSkipped(i)
  BY <1>2 DEF ExtractSkipped, TypeInv, TypeOK
<1>3. CASE Download(i)
  BY <1>3 DEF Download, TypeInv, TypeOK
<1>4. CASE Open(i)
  BY <1>4 DEF Open, history, TypeInv, TypeOK
<1>5. CASE Write(i)
  BY <1>5 DEF Write, history, TypeInv, TypeOK
<1>6. CASE Break(i)
  BY <1>6 DEF Break, history, TypeInv, TypeOK
<1>7. CASE Place(i)
  BY <1>7 DEF Place, history, TypeInv, TypeOK
<1>8. CASE Unpack(i)
  BY <1>8 DEF Unpack, Advance, history, TypeInv, TypeOK
<1>9. CASE Extract(i)
  BY <1>9 DEF Extract, Advance, history, TypeInv, TypeOK
<1> QED
  BY <1>1, <1>2, <1>3, <1>4, <1>5, <1>6, <1>7, <1>8, <1>9 DEF Works

(***************************************************************************)
(* Approval.                                                                *)
(***************************************************************************)

\* Whoever installs something gated has an acknowledgement for it.
Acknowledged ==
  \A i \in Installer :
    ~Idle(i) /\ RequiresApproval(req[i]) => Named(req[i]) \subseteq approved

ApprovalInv == Acknowledged /\ GatedNeedsApproval

\* Nothing gated reaches the disk without an acknowledgement.
THEOREM GatedAssetsAreApproved == Spec => []GatedNeedsApproval
<1>1. Init => ApprovalInv
  BY RequestsAssumption
  DEF Init, ApprovalInv, Acknowledged, GatedNeedsApproval, Idle, Named, NoRequest
<1>2. TypeInv /\ TypeInv' /\ ApprovalInv /\ [Next]_vars => ApprovalInv'
  <2> SUFFICES ASSUME TypeInv, TypeInv', ApprovalInv, [Next]_vars PROVE ApprovalInv'
    OBVIOUS
  <2>1. ASSUME NEW i \in Installer, NEW r \in Requests, Begin(i, r) PROVE ApprovalInv'
    <3>1. Acknowledged'
      <4>1. RequiresApproval(r) => Named(r) \subseteq approved'
        BY <2>1 DEF Begin
      <4>2. approved \subseteq approved'
        BY <2>1 DEF Begin
      <4>3. \A j \in Installer : \/ req'[j] = r
                                 \/ req'[j] = req[j] /\ (Idle(j)' <=> Idle(j))
        BY <2>1 DEF Begin, Idle, TypeInv, TypeOK
      <4> QED
        BY <4>1, <4>2, <4>3 DEF ApprovalInv, Acknowledged
    <3> QED
      BY <2>1, <3>1 DEF Begin, files, ApprovalInv, GatedNeedsApproval
  <2>2. ASSUME NEW i \in Installer, Works(i) PROVE ApprovalInv'
    <3>1. Acknowledged'
      <4>1. \A j \in Installer : ~Idle(j)' => ~Idle(j) /\ req'[j] = req[j]
        <5>1. ~Idle(i)' => ~Idle(i) /\ req'[i] = req[i]
          BY <2>2 DEF Works, Skip, ExtractSkipped, Download, Open, Write, Break, Place,
             PlaceFails, Unpack, Extract, Fail, Finish, Advance, Leave, Idle, TypeInv, TypeOK
        <5> QED
          BY <2>2, <5>1, OthersStay DEF Idle
      <4> QED
        BY <2>2, <4>1, OnlyItsAsset DEF ApprovalInv, Acknowledged
    <3>2. More(i) /\ Current(i) \in Gated => Current(i) \in approved
      BY <2>2, OnlyItsAsset, CurrentFacts
      DEF ApprovalInv, Acknowledged, RequiresApproval, Idle
    <3> QED
      BY <2>2, <3>1, <3>2, OnlyItsAsset, RequestsAssumption
      DEF ApprovalInv, GatedNeedsApproval
  <2>3. ASSUME NEW Stopped \in SUBSET Installer, Kill(Stopped) PROVE ApprovalInv'
    BY <2>3 DEF Kill, Leave, files, history, ApprovalInv, Acknowledged,
       GatedNeedsApproval, Idle
  <2>4. CASE UNCHANGED vars
    BY <2>4 DEF vars, installers, files, history, ApprovalInv, Acknowledged,
       GatedNeedsApproval, Idle
  <2> QED
    BY <2>1, <2>2, <2>3, <2>4, Steps
<1> QED
  BY <1>1, <1>2, TypeInvariant, PTL DEF Spec, ApprovalInv

(***************************************************************************)
(* Overlapping installs.                                                    *)
(***************************************************************************)

\* Of two downloads of one asset the history knows.
OverlapsAreShared ==
  \A i, j \in Installer : i # j /\ pc[i] \in {"fetching", "writing"} /\ Downloads(j, Current(i))
    => Current(i) \in shared

\* A request that is alone has its assets to itself.
AloneIsAlone ==
  \A i, j \in Installer :
    i # j /\ ~Idle(i) /\ alone[i] => \A a \in Named(req[i]) : ~WorksOn(j, a)

OverlapInv == OverlapsAreShared /\ AloneIsAlone

\* A step within a call marks what it overlaps with; shared grows, alone shrinks.
LEMMA HistoryGrows ==
  ASSUME TypeInv, NEW i \in Installer, Works(i)
  PROVE  /\ shared \subseteq shared'
         /\ \A j \in Installer : alone'[j] => alone[j]
         /\ pc[i] = "choosing" /\ pc'[i] \notin {"idle", "choosing"}
              => /\ Current(i)' = Current(i)
                 /\ \A j \in Installer \ {i} : alone'[j] => Current(i) \notin Named(req[j])
         /\ pc[i] # "choosing" /\ pc'[i] \notin {"idle", "choosing"}
              => Current(i)' = Current(i)
         /\ pc'[i] \in {"fetching", "writing"}
              => \/ pc[i] \in {"fetching", "writing"}
                 \/ \A j \in Installer \ {i} : Downloads(j, Current(i)) => Current(i) \in shared'
         /\ pc'[i] # "idle" => req'[i] = req[i]
<1>1. CASE Skip(i)
  BY <1>1 DEF Skip, Advance, history, TypeInv, TypeOK
<1>2. CASE ExtractSkipped(i)
  BY <1>2 DEF ExtractSkipped, Touch, Current, TypeInv, TypeOK
<1>3. CASE Download(i)
  <2>1. Current(i)' = Current(i)
    BY <1>3 DEF Download, Current
  <2> QED
    BY <1>3, <2>1 DEF Download, Touch, TypeInv, TypeOK
<1>4. CASE Open(i) \/ Write(i) \/ Place(i)
  BY <1>4 DEF Open, Write, Place, history, Current, TypeInv, TypeOK
<1>5. CASE Break(i) \/ PlaceFails(i) \/ Fail(i) \/ Finish(i)
  BY <1>5 DEF Break, PlaceFails, Fail, Finish, Leave, history, TypeInv, TypeOK
<1>6. CASE Unpack(i)
  BY <1>6 DEF Unpack, Advance, history, Current, TypeInv, TypeOK
<1>7. CASE Extract(i)
  BY <1>7 DEF Extract, Advance, history, Current, TypeInv, TypeOK
<1> QED
  BY <1>1, <1>2, <1>3, <1>4, <1>5, <1>6, <1>7 DEF Works

\* What the history variables say of overlaps is true.
THEOREM OverlapInvariant == Spec => []OverlapInv
<1>1. Init => OverlapInv
  BY DEF Init, OverlapInv, OverlapsAreShared, AloneIsAlone, Idle
<1>2. TypeInv /\ TypeInv' /\ OverlapInv /\ [Next]_vars => OverlapInv'
  <2> SUFFICES ASSUME TypeInv, TypeInv', OverlapInv, [Next]_vars PROVE OverlapInv'
    OBVIOUS
  <2> USE DEF OverlapInv
  <2>1. ASSUME NEW i \in Installer, NEW r \in Requests, Begin(i, r) PROVE OverlapInv'
    <3>1. \A j \in Installer : \/ j = i /\ pc'[j] = "choosing" /\ Idle(j)
                               \/ /\ pc'[j] = pc[j] /\ req'[j] = req[j]
                                  /\ Current(j)' = Current(j)
                                  /\ j # i
      BY <2>1 DEF Begin, Idle, Current, TypeInv, TypeOK
    <3>2. OverlapsAreShared'
      BY <2>1, <3>1 DEF Begin, OverlapsAreShared, Downloads
    <3>3. AloneIsAlone'
      <4>1. \A j \in Installer, a \in Asset : WorksOn(j, a)' => WorksOn(j, a)
        BY <3>1 DEF WorksOn
      <4>2. Named(r) \subseteq Asset /\ req'[i] = r
        BY <2>1, RequestsAssumption DEF Begin, Request, Named, TypeInv, TypeOK
      <4>3. \A j \in Installer : Named(req[j]) \subseteq Asset
        <5>1. \A j \in Installer : req[j] \in Request \/ req[j] = NoRequest
          BY RequestsAssumption DEF TypeInv, TypeOK
        <5>2. \A q \in Request : Named(q) \subseteq Asset
          BY DEF Request, Named
        <5>3. Named(NoRequest) = {}
          BY DEF NoRequest, Named
        <5> QED
          BY <5>1, <5>2, <5>3
      <4>4. alone'[i] => \A j \in Installer, a \in Named(r) : ~WorksOn(j, a)
        BY <2>1 DEF Begin, TypeInv, TypeOK
      <4>5. \A j \in Installer \ {i} : alone'[j] = alone[j]
        BY <2>1 DEF Begin, TypeInv, TypeOK
      <4> QED
        BY <3>1, <4>1, <4>2, <4>3, <4>4, <4>5 DEF AloneIsAlone, Idle
    <3> QED
      BY <3>2, <3>3
  <2>2. ASSUME NEW i \in Installer, Works(i) PROVE OverlapInv'
    <3>1. OverlapsAreShared'
      BY <2>2, OthersStay, HistoryGrows DEF OverlapsAreShared, Downloads
    <3>2. AloneIsAlone'
      BY <2>2, OthersStay, HistoryGrows, OnlyItsAsset DEF AloneIsAlone, WorksOn, Idle
    <3> QED
      BY <3>1, <3>2
  <2>3. ASSUME NEW Stopped \in SUBSET Installer, Kill(Stopped) PROVE OverlapInv'
    <3>1. \A j \in Installer : \/ pc'[j] = "idle"
                               \/ /\ pc'[j] = pc[j] /\ req'[j] = req[j]
                                  /\ Current(j)' = Current(j)
      BY <2>3 DEF Kill, Leave, Current
    <3>2. OverlapsAreShared'
      BY <2>3, <3>1 DEF Kill, history, OverlapsAreShared, Downloads
    <3>3. AloneIsAlone'
      BY <2>3, <3>1 DEF Kill, history, AloneIsAlone, WorksOn, Idle
    <3> QED
      BY <3>2, <3>3
  <2>4. CASE UNCHANGED vars
    BY <2>4 DEF vars, installers, history, OverlapsAreShared, AloneIsAlone, Downloads,
       WorksOn, Current, Idle
  <2> QED
    BY <2>1, <2>2, <2>3, <2>4, Steps
<1> QED
  BY <1>1, <1>2, TypeInvariant, PTL DEF Spec

(***************************************************************************)
(* Whole files.                                                             *)
(***************************************************************************)

\* Nobody else has downloaded the asset of i while i does.
Undisturbed(i) == Current(i) \notin shared \/ alone[i]

\* An undisturbed download has its temporary file to itself.
OwnFile ==
  \A i \in Installer : pc[i] = "writing" /\ Undisturbed(i) =>
    at[i] = "temp" /\ temp[Current(i)] = 1..wrote[i]

DownloadInv == OwnFile /\ SoleDownloadsAreWhole

\* An undisturbed download shares its asset with no other.
LEMMA UndisturbedIsSole ==
  ASSUME TypeInv, OverlapInv, NEW i \in Installer, NEW j \in Installer, i # j,
         pc[i] \in {"fetching", "writing"}, Undisturbed(i)
  PROVE  ~Downloads(j, Current(i))
<1>1. CASE Current(i) \notin shared
  BY <1>1 DEF OverlapInv, OverlapsAreShared
<1>2. CASE alone[i]
  <2>1. Current(i) \in Named(req[i])
    BY CurrentFacts DEF TypeInv, TypeOK
  <2>2. ~WorksOn(j, Current(i))
    BY <1>2, <2>1 DEF OverlapInv, AloneIsAlone, Idle
  <2> QED
    BY <2>2 DEF Downloads, WorksOn
<1> QED
  BY <1>1, <1>2 DEF Undisturbed

\* Downloads of one asset leave the temporary files of the others alone.
LEMMA OtherDownloads ==
  ASSUME TypeInv, TypeInv', OverlapInv, OverlapInv', NEW i \in Installer, Works(i),
         NEW j \in Installer, j # i, pc'[j] = "writing", Undisturbed(j)'
  PROVE  /\ pc[j] = "writing" /\ Undisturbed(j)
         /\ at'[j] = at[j] /\ wrote'[j] = wrote[j]
         /\ Current(j)' = Current(j) /\ temp'[Current(j)] = temp[Current(j)]
<1>1. /\ pc[j] = "writing" /\ wrote'[j] = wrote[j]
      /\ Current(j)' = Current(j) /\ Undisturbed(j)
  BY OthersStay, HistoryGrows DEF Undisturbed
<1>2. ~Downloads(i, Current(j)) /\ ~Downloads(i, Current(j))'
  <2>1. ~Downloads(i, Current(j))
    BY <1>1, UndisturbedIsSole
  <2>2. CASE (Current(j) \notin shared)'
    <3>1. pc'[j] \in {"fetching", "writing"}
      OBVIOUS
    <3>2. Downloads(i, Current(j))' => (Current(j) \in shared)'
      BY <3>1 DEF OverlapInv, OverlapsAreShared, Downloads, Current
    <3> QED
      BY <2>1, <2>2, <3>2
  <2>3. CASE alone'[j]
    <3>1. Current(j) \in Named(req[j]) /\ req'[j] = req[j]
      BY <1>1, CurrentFacts, OthersStay DEF TypeInv, TypeOK
    <3>2. ~WorksOn(i, Current(j))'
      BY <1>1, <2>3, <3>1 DEF OverlapInv, AloneIsAlone, Idle
    <3> QED
      BY <2>1, <3>2 DEF Downloads, WorksOn
  <2> QED
    BY <2>1, <2>2, <2>3 DEF Undisturbed
<1>3. Current(j) \in Asset
  BY <1>1, CurrentFacts DEF TypeInv, TypeOK
<1>4. CASE Skip(i) \/ ExtractSkipped(i) \/ Fail(i) \/ Finish(i) \/ Unpack(i) \/ Extract(i)
  BY <1>1, <1>4 DEF Skip, ExtractSkipped, Fail, Finish, Unpack, Extract, files
<1>5. CASE Download(i)
  <2>1. Current(i) # Current(j)
    BY <1>1, <1>2, <1>5 DEF Download, Downloads, Current, TypeInv, TypeOK
  <2> QED
    BY <1>1, <1>3, <1>5, <2>1 DEF Download, Unlinked, TypeInv, TypeOK
<1>6. CASE Open(i) \/ Write(i) \/ Break(i) \/ Place(i) \/ PlaceFails(i)
  <2>1. Current(i) # Current(j)
    BY <1>2, <1>6 DEF Open, Write, Break, Place, PlaceFails, Downloads
  <2> QED
    BY <1>1, <1>3, <1>6, <2>1
    DEF Open, Write, Break, Place, PlaceFails, Unlinked, Renamed, files, TypeInv, TypeOK
<1> QED
  BY <1>1, <1>4, <1>5, <1>6 DEF Works

\* What counts as installed is whole unless two downloads of it overlapped.
THEOREM SoleDownloads == Spec => []DownloadInv
<1>1. Init => DownloadInv
  BY DEF Init, DownloadInv, OwnFile, SoleDownloadsAreWhole
<1>2. TypeInv /\ TypeInv' /\ OverlapInv /\ OverlapInv' /\ DownloadInv /\ [Next]_vars
        => DownloadInv'
  <2> SUFFICES ASSUME TypeInv, TypeInv', OverlapInv, OverlapInv', DownloadInv, [Next]_vars
               PROVE  DownloadInv'
    OBVIOUS
  <2> USE DEF DownloadInv
  <2>1. ASSUME NEW i \in Installer, NEW r \in Requests, Begin(i, r) PROVE DownloadInv'
    <3>1. \A j \in Installer :
            pc'[j] = "writing" =>
              /\ pc[j] = "writing" /\ Current(j)' = Current(j)
              /\ wrote'[j] = wrote[j] /\ at'[j] = at[j]
              /\ Undisturbed(j)' => Undisturbed(j)
      BY <2>1 DEF Begin, Current, Undisturbed, TypeInv, TypeOK
    <3> QED
      BY <2>1, <3>1 DEF Begin, files, OwnFile, SoleDownloadsAreWhole
  <2>2. ASSUME NEW i \in Installer, Works(i) PROVE DownloadInv'
    <3>1. OwnFile'
      <4>1. ASSUME pc'[i] = "writing", Undisturbed(i)'
            PROVE  at'[i] = "temp" /\ temp'[Current(i)'] = 1..wrote'[i]
        <5>1. CASE Open(i)
          <6>1. Current(i)' = Current(i) /\ Current(i) \in Asset
            BY <5>1, CurrentFacts DEF Open, Current, TypeInv, TypeOK
          <6>2. wrote'[i] = 0
            BY <5>1 DEF Open, TypeInv, Resting
          <6> QED
            BY <5>1, <6>1, <6>2 DEF Open, TypeInv, TypeOK
        <5>2. CASE Write(i)
          <6>1. /\ pc[i] = "writing" /\ Current(i)' = Current(i) /\ Current(i) \in Asset
                /\ Undisturbed(i)
            BY <4>1, <5>2, CurrentFacts DEF Write, Current, Undisturbed, history, TypeInv, TypeOK
          <6>2. at[i] = "temp" /\ temp[Current(i)] = 1..wrote[i]
            BY <6>1 DEF OwnFile
          <6>3. /\ at'[i] = "temp" /\ wrote'[i] = wrote[i] + 1
                /\ temp'[Current(i)] = (1..wrote[i]) \cup {wrote[i] + 1}
            BY <5>2, <6>1, <6>2 DEF Write, TypeInv, TypeOK
          <6>4. (1..wrote[i]) \cup {wrote[i] + 1} = 1..(wrote[i] + 1)
            BY DEF TypeInv, TypeOK
          <6> QED
            BY <6>1, <6>3, <6>4
        <5>3. Open(i) \/ Write(i)
          BY <2>2, <4>1 DEF Works, Skip, ExtractSkipped, Download, Break, Place, PlaceFails,
             Unpack, Extract, Fail, Finish, Advance, Leave, TypeInv, TypeOK
        <5> QED
          BY <5>1, <5>2, <5>3
      <4>2. ASSUME NEW j \in Installer, j # i, pc'[j] = "writing", Undisturbed(j)'
            PROVE  at'[j] = "temp" /\ temp'[Current(j)'] = 1..wrote'[j]
        BY <2>2, <4>2, OtherDownloads DEF OwnFile
      <4> QED
        BY <4>1, <4>2 DEF OwnFile
    <3>2. SoleDownloadsAreWhole'
      <4>1. shared \subseteq shared'
        BY <2>2, HistoryGrows
      <4>2. CASE Write(i)
        <5>1. Current(i) \notin shared => at[i] = "temp"
          BY <4>2 DEF Write, OwnFile, Undisturbed
        <5> QED
          BY <4>1, <4>2, <5>1 DEF Write, SoleDownloadsAreWhole, TypeInv, TypeOK
      <4>3. CASE Place(i)
        <5>1. Current(i) \notin shared => temp[Current(i)] = Chunk
          BY <4>3 DEF Place, OwnFile, Undisturbed, Chunk
        <5> QED
          BY <4>1, <4>3, <5>1 DEF Place, SoleDownloadsAreWhole, TypeInv, TypeOK
      <4>4. CASE dest' = dest
        BY <4>1, <4>4 DEF SoleDownloadsAreWhole
      <4> QED
        BY <2>2, <4>2, <4>3, <4>4 DEF Works, Skip, ExtractSkipped, Download, Open, Break,
           PlaceFails, Unpack, Extract, Fail, Finish, files
    <3> QED
      BY <3>1, <3>2
  <2>3. ASSUME NEW Stopped \in SUBSET Installer, Kill(Stopped) PROVE DownloadInv'
    <3>1. \A j \in Installer :
            pc'[j] = "writing" =>
              /\ pc[j] = "writing" /\ Current(j)' = Current(j)
              /\ wrote'[j] = wrote[j] /\ at'[j] = at[j]
              /\ Undisturbed(j)' => Undisturbed(j)
      BY <2>3 DEF Kill, Leave, Current, Undisturbed, history, TypeInv, TypeOK
    <3> QED
      BY <2>3, <3>1 DEF Kill, files, history, OwnFile, SoleDownloadsAreWhole
  <2>4. CASE UNCHANGED vars
    BY <2>4 DEF vars, installers, files, history, OwnFile, SoleDownloadsAreWhole,
       Undisturbed, Current
  <2> QED
    BY <2>1, <2>2, <2>3, <2>4, Steps
<1> QED
  BY <1>1, <1>2, TypeInvariant, OverlapInvariant, PTL DEF Spec

\* The property the run checks.
THEOREM InstalledIsWhole == Spec => []SoleDownloadsAreWhole
BY SoleDownloads, PTL DEF DownloadInv

(***************************************************************************)
(* Finished assets.                                                         *)
(***************************************************************************)

\* What an installer that is alone has made of its current asset.
OwnAsset ==
  \A i \in Installer : alone[i] =>
    /\ pc[i] = "placed" => dest[Current(i)] = Chunk
    /\ pc[i] = "extracting" =>
         /\ dest[Current(i)] # Missing
         /\ req[i].overwrite => dest[Current(i)] = Chunk
         /\ dir[Current(i)] = 1..wrote[i]

\* The position is in the request's list, or just past its end.
Positions ==
  \A i \in Installer : ~Idle(i) => pos[i] <= Len(req[i].assets) + 1

AssetInv == OwnAsset /\ Positions /\ FinishedAssetsAreThere

\* The assets of a request that is alone are changed by nobody else.
LEMMA OthersKeepOut ==
  ASSUME TypeInv, OverlapInv, NEW i \in Installer, Works(i), NEW j \in Installer, j # i,
         ~Idle(j), alone'[j], NEW a \in Named(req[j]), a \in Asset
  PROVE  dest'[a] = dest[a] /\ (a \in Archive => dir'[a] = dir[a])
<1>1. CASE pc[i] = "choosing" /\ pc'[i] \in {"idle", "choosing"}
  BY <1>1 DEF Works, Skip, ExtractSkipped, Download, Open, Write, Break, Place, PlaceFails,
     Unpack, Extract, Fail, Finish, files, TypeInv, TypeOK
<1>2. CASE pc[i] = "choosing" /\ pc'[i] \notin {"idle", "choosing"}
  BY <1>2, HistoryGrows, OnlyItsAsset
<1>3. CASE pc[i] # "choosing"
  <2>1. ~WorksOn(i, a) /\ pc[i] # "idle"
    BY HistoryGrows, OnlyItsAsset DEF OverlapInv, AloneIsAlone
  <2> QED
    BY <1>3, <2>1, OnlyItsAsset DEF WorksOn
<1> QED
  BY <1>1, <1>2, <1>3

\* The assets before the current one are others, as no request names one twice.
LEMMA EarlierAssets ==
  ASSUME TypeInv, NEW i \in Installer, ~Idle(i), NEW k \in 1..(pos[i] - 1),
         pos[i] <= Len(req[i].assets) + 1
  PROVE  /\ req[i].assets[k] \in Asset
         /\ req[i].assets[k] \in Named(req[i])
         /\ More(i) => req[i].assets[k] # Current(i)
<1>1. req[i] \in Requests /\ req[i] \in Request /\ pos[i] \in Nat
  BY RequestsAssumption DEF TypeInv, TypeOK, Resting, Idle
<1>2. req[i].assets \in Seq(Asset) /\ k \in DOMAIN req[i].assets
  BY <1>1 DEF Request
<1>3. More(i) => pos[i] \in DOMAIN req[i].assets /\ k # pos[i]
  BY <1>1, <1>2 DEF More
<1> QED
  BY <1>1, <1>2, <1>3, RequestsAssumption DEF Named, Current

\* A finished asset, said of the next state.
DoneNext(i, a) ==
  /\ dest'[a] # Missing
  /\ a \in Archive => dir'[a] # Missing
  /\ req[i].overwrite => /\ dest'[a] = Chunk
                         /\ a \in Archive => dir'[a] = Part

\* A step of i moves its position past an asset only when it is done with it.
LEMMA OwnProgress ==
  ASSUME TypeInv, AssetInv, NEW i \in Installer, Works(i), ~Idle(i)', alone[i]
  PROVE  \/ pos'[i] = pos[i]
         \/ pos'[i] = pos[i] + 1 /\ More(i) /\ DoneNext(i, Current(i))
<1>1. Chunk # Missing /\ Part # Missing
  <2>1. 1 \in Chunk /\ 1 \in Part /\ 1 \notin Missing
    BY BoundsAssumption DEF Chunk, Part, Missing
  <2> QED
    BY <2>1
<1>2. CASE Skip(i)
  BY <1>2 DEF Skip, Advance, files, DoneNext, TypeInv, TypeOK
<1>3. CASE Unpack(i)
  <2>1. dest[Current(i)] = Chunk /\ More(i)
    BY <1>3 DEF Unpack, AssetInv, OwnAsset, TypeInv, TypeOK
  <2> QED
    BY <1>1, <1>3, <2>1 DEF Unpack, Advance, DoneNext, TypeInv, TypeOK
<1>4. CASE Extract(i)
  <2>1. /\ More(i) /\ Current(i) \in Archive /\ wrote[i] \in Nat
        /\ dest[Current(i)] # Missing /\ dir[Current(i)] = 1..wrote[i]
        /\ req[i].overwrite => dest[Current(i)] = Chunk
    BY <1>4 DEF Extract, AssetInv, OwnAsset, TypeInv, TypeOK, Resting
  <2>2. CASE wrote[i] + 1 = Parts
    <3>1. ((1..wrote[i]) \ Missing) \cup {wrote[i] + 1} = Part
      BY <2>1, <2>2 DEF Missing, Part
    <3>2. dir'[Current(i)] = Part
      BY <1>4, <2>1, <3>1 DEF Extract, TypeInv, TypeOK
    <3> QED
      BY <1>1, <1>4, <2>1, <2>2, <3>2 DEF Extract, Advance, DoneNext, TypeInv, TypeOK
  <2>3. CASE wrote[i] + 1 # Parts
    BY <1>4, <2>3 DEF Extract
  <2> QED
    BY <2>2, <2>3
<1>5. CASE ExtractSkipped(i) \/ Download(i) \/ Open(i) \/ Write(i) \/ Place(i)
  BY <1>5 DEF ExtractSkipped, Download, Open, Write, Place
<1>6. CASE Break(i) \/ PlaceFails(i) \/ Fail(i) \/ Finish(i)
  BY <1>6 DEF Break, PlaceFails, Fail, Finish, Leave, Idle
<1> QED
  BY <1>2, <1>3, <1>4, <1>5, <1>6 DEF Works

\* A step of i brings its current asset on.
LEMMA OwnWork ==
  ASSUME TypeInv, DownloadInv, AssetInv, NEW i \in Installer, Works(i), alone'[i]
  PROVE  /\ pc'[i] = "placed" => dest'[Current(i)'] = Chunk
         /\ pc'[i] = "extracting" =>
              /\ dest'[Current(i)'] # Missing
              /\ req'[i].overwrite => dest'[Current(i)'] = Chunk
              /\ dir'[Current(i)'] = 1..wrote'[i]
<1>1. alone[i]
  BY HistoryGrows
<1>2. Chunk # Missing
  <2>1. 1 \in Chunk /\ 1 \notin Missing
    BY BoundsAssumption DEF Chunk, Missing
  <2> QED
    BY <2>1
<1>3. CASE ExtractSkipped(i)
  <2>1. Current(i)' = Current(i) /\ pc'[i] = "extracting" /\ ~req'[i].overwrite
    BY <1>3 DEF ExtractSkipped, Current, TypeInv, TypeOK
  <2>2. wrote'[i] = 0
    BY <1>3 DEF ExtractSkipped, TypeInv, Resting
  <2>3. dest'[Current(i)] # Missing /\ dir'[Current(i)] = {}
    BY <1>3 DEF ExtractSkipped, TypeInv, TypeOK
  <2> QED
    BY <2>1, <2>2, <2>3
<1>4. CASE Place(i)
  <2>1. Current(i)' = Current(i) /\ Current(i) \in Asset /\ pc'[i] = "placed"
    BY <1>4, CurrentFacts DEF Place, Current, TypeInv, TypeOK
  <2>2. temp[Current(i)] = Chunk
    BY <1>1, <1>4 DEF Place, DownloadInv, OwnFile, Undisturbed, Chunk
  <2> QED
    BY <1>4, <2>1, <2>2 DEF Place, TypeInv, TypeOK
<1>5. CASE Unpack(i)
  <2>1. dest[Current(i)] = Chunk
    BY <1>1, <1>5 DEF Unpack, AssetInv, OwnAsset
  <2>2. CASE Current(i) \in Archive
    <3>1. Current(i)' = Current(i) /\ pc'[i] = "extracting" /\ wrote'[i] = 0
      BY <1>5, <2>2 DEF Unpack, Current, TypeInv, TypeOK
    <3>2. dir'[Current(i)] = {} /\ dest' = dest
      BY <1>5, <2>2 DEF Unpack, TypeInv, TypeOK
    <3> QED
      BY <1>2, <2>1, <3>1, <3>2
  <2>3. CASE Current(i) \notin Archive
    BY <1>5, <2>3 DEF Unpack, Advance, TypeInv, TypeOK
  <2> QED
    BY <2>2, <2>3
<1>6. CASE Extract(i)
  <2>1. /\ Current(i) \in Archive /\ wrote[i] \in Nat
        /\ dest[Current(i)] # Missing /\ dir[Current(i)] = 1..wrote[i]
        /\ req[i].overwrite => dest[Current(i)] = Chunk
    BY <1>1, <1>6 DEF Extract, AssetInv, OwnAsset, TypeInv, TypeOK, Resting
  <2>2. CASE wrote[i] + 1 = Parts
    BY <1>6, <2>2 DEF Extract, Advance, TypeInv, TypeOK
  <2>3. CASE wrote[i] + 1 # Parts
    <3>1. Current(i)' = Current(i) /\ wrote'[i] = wrote[i] + 1 /\ dest' = dest /\ req' = req
      BY <1>6, <2>3 DEF Extract, Current, TypeInv, TypeOK
    <3>2. ((1..wrote[i]) \ Missing) \cup {wrote[i] + 1} = 1..(wrote[i] + 1)
      BY <2>1 DEF Missing
    <3>3. dir'[Current(i)] = 1..(wrote[i] + 1)
      BY <1>6, <2>1, <3>2 DEF Extract, TypeInv, TypeOK
    <3>4. pc'[i] = "extracting"
      BY <1>6, <2>3 DEF Extract
    <3> QED
      BY <2>1, <3>1, <3>3, <3>4
  <2> QED
    BY <2>2, <2>3
<1>7. CASE Skip(i) \/ Download(i) \/ Open(i) \/ Write(i)
  BY <1>7 DEF Skip, Advance, Download, Open, Write, TypeInv, TypeOK
<1>8. CASE Break(i) \/ PlaceFails(i) \/ Fail(i) \/ Finish(i)
  BY <1>8 DEF Break, PlaceFails, Fail, Finish, Leave
<1> QED
  BY <1>3, <1>4, <1>5, <1>6, <1>7, <1>8 DEF Works

\* What FinishedAssetsAreThere says of one asset.
Done(i, a) ==
  /\ dest[a] # Missing
  /\ a \in Archive => dir[a] # Missing
  /\ req[i].overwrite => /\ dest[a] = Chunk
                         /\ a \in Archive => dir[a] = Part

AllDone ==
  \A i \in Installer : ~Idle(i) /\ alone[i] =>
    \A k \in 1..(pos[i] - 1) : Done(i, req[i].assets[k])

\* The property, by the name of its parts.
LEMMA FinishedIsDone == FinishedAssetsAreThere <=> AllDone
BY DEF FinishedAssetsAreThere, AllDone, Done

\* Steps within a call keep finished assets finished.
LEMMA WorkKeepsDone ==
  ASSUME TypeInv, TypeInv', OverlapInv, AssetInv, NEW i \in Installer, Works(i)
  PROVE  AllDone'
<1> SUFFICES ASSUME NEW j \in Installer, ~Idle(j)', alone'[j], NEW k \in 1..(pos'[j] - 1)
             PROVE  Done(j, req[j].assets[k])'
  BY DEF AllDone
<1>1. req'[j] = req[j] /\ ~Idle(j) /\ alone[j]
  BY OthersStay, HistoryGrows, OnlyItsAsset DEF Idle
<1>2. pos[j] <= Len(req[j].assets) + 1 /\ pos[j] \in Nat
  BY <1>1 DEF AssetInv, Positions, TypeInv, TypeOK
<1> DEFINE a == req[j].assets[k]
<1>3. ASSUME k \in 1..(pos[j] - 1)
      PROVE  Done(j, a) /\ a \in Asset /\ a \in Named(req[j]) /\ (More(j) => a # Current(j))
  <2>1. Done(j, a)
    BY <1>1, <1>3, FinishedIsDone DEF AssetInv, AllDone
  <2> QED
    BY <1>1, <1>2, <1>3, <2>1, EarlierAssets
<1>4. CASE j # i
  <2>1. pos'[j] = pos[j]
    BY <1>4, OthersStay
  <2>2. Done(j, a) /\ a \in Asset /\ a \in Named(req[j])
    BY <1>3, <2>1
  <2>3. dest'[a] = dest[a] /\ (a \in Archive => dir'[a] = dir[a])
    BY <1>1, <1>4, <2>2, OthersKeepOut
  <2> QED
    BY <1>1, <2>2, <2>3 DEF Done
<1>5. CASE j = i /\ k \in 1..(pos[j] - 1)
  <2>1. dest'[a] = dest[a] /\ (a \in Archive => dir'[a] = dir[a])
    BY <1>3, <1>5, OnlyItsAsset
  <2> QED
    BY <1>1, <1>3, <1>5, <2>1 DEF Done
<1>6. CASE j = i /\ k \notin 1..(pos[j] - 1)
  <2>1. pos'[i] = pos[i] + 1 /\ DoneNext(i, Current(i))
    BY <1>1, <1>2, <1>6, OwnProgress
  <2>2. a = Current(i)
    BY <1>2, <1>6, <2>1 DEF Current
  <2> QED
    BY <1>1, <1>6, <2>1, <2>2 DEF Done, DoneNext
<1> QED
  BY <1>4, <1>5, <1>6

\* While a request is alone, the assets it is done with are there, and whole if it
\* overwrites.
THEOREM AssetInvariant == Spec => []AssetInv
<1>1. Init => AssetInv
  BY DEF Init, AssetInv, OwnAsset, Positions, FinishedAssetsAreThere, Idle
<1>2. /\ TypeInv /\ TypeInv' /\ OverlapInv /\ OverlapInv' /\ DownloadInv /\ AssetInv
      /\ [Next]_vars
      => AssetInv'
  <2> SUFFICES ASSUME TypeInv, TypeInv', OverlapInv, OverlapInv', DownloadInv, AssetInv,
                      [Next]_vars
               PROVE  AssetInv'
    OBVIOUS
  <2>1. ASSUME NEW i \in Installer, NEW r \in Requests, Begin(i, r) PROVE AssetInv'
    <3>1. pc'[i] = "choosing" /\ pos'[i] = 1
      BY <2>1 DEF Begin, Idle, TypeInv, TypeOK, Resting
    <3>2. ASSUME NEW j \in Installer, j # i
          PROVE  /\ pc'[j] = pc[j] /\ req'[j] = req[j] /\ pos'[j] = pos[j] /\ wrote'[j] = wrote[j]
                 /\ alone'[j] = alone[j] /\ Current(j)' = Current(j)
      BY <2>1, <3>2 DEF Begin, Current, TypeInv, TypeOK
    <3>3. dest' = dest /\ dir' = dir
      BY <2>1 DEF Begin, files
    <3>4. OwnAsset'
      BY <3>1, <3>2, <3>3 DEF AssetInv, OwnAsset
    <3>5. Positions'
      <4>1. Len(req'[i].assets) \in Nat
        BY <2>1, RequestsAssumption DEF Begin, TypeInv, TypeOK, Request
      <4> QED
        BY <3>1, <3>2, <4>1 DEF AssetInv, Positions, Idle
    <3>6. AllDone'
      <4>1. AllDone
        BY FinishedIsDone DEF AssetInv
      <4>2. ASSUME NEW j \in Installer, j # i, NEW a
            PROVE  Done(j, a)' <=> Done(j, a)
        BY <3>2, <3>3, <4>2 DEF Done
      <4> QED
        BY <3>1, <3>2, <4>1, <4>2 DEF AllDone, Idle
    <3> QED
      BY <3>4, <3>5, <3>6, FinishedIsDone, PTL DEF AssetInv
  <2>2. ASSUME NEW i \in Installer, Works(i) PROVE AssetInv'
    <3>1. OwnAsset'
      <4>1. ASSUME NEW j \in Installer, j # i, alone'[j], pc'[j] \in {"placed", "extracting"}
            PROVE  /\ dest'[Current(j)'] = dest[Current(j)]
                   /\ pc[j] = "extracting" => dir'[Current(j)'] = dir[Current(j)]
        <5>1. pc'[j] = pc[j] /\ Current(j)' = Current(j)
          BY <2>2, <4>1, OthersStay
        <5>2. Current(j) \in Asset /\ Current(j) \in Named(req[j])
          BY <4>1, <5>1, CurrentFacts DEF TypeInv, TypeOK
        <5>3. pc[j] = "extracting" => Current(j) \in Archive
          BY DEF TypeInv, Resting
        <5> QED
          BY <2>2, <4>1, <5>1, <5>2, <5>3, OthersKeepOut DEF Idle
      <4>2. ASSUME NEW j \in Installer, j # i
            PROVE  /\ pc'[j] = pc[j] /\ req'[j] = req[j] /\ wrote'[j] = wrote[j]
                   /\ alone'[j] => alone[j]
        BY <2>2, <4>2, OthersStay, HistoryGrows
      <4> QED
        BY <2>2, <4>1, <4>2, OwnWork DEF AssetInv, OwnAsset
    <3>2. Positions'
      <4>1. ASSUME ~Idle(i)' PROVE pos'[i] <= Len(req'[i].assets) + 1
        <5>1. req'[i] = req[i] /\ ~Idle(i)
          BY <2>2, <4>1, HistoryGrows, OnlyItsAsset DEF Idle
        <5>2. pos'[i] = pos[i] \/ (pos'[i] = pos[i] + 1 /\ More(i))
          BY <2>2, <4>1 DEF Works, Skip, ExtractSkipped, Download, Open, Write, Break, Place,
             PlaceFails, Unpack, Extract, Fail, Finish, Advance, Leave, Idle, TypeInv, TypeOK
        <5>3. req[i].assets \in Seq(Asset)
          BY <5>1, RequestsAssumption DEF TypeInv, Resting, Idle, Request
        <5> QED
          BY <5>1, <5>2, <5>3 DEF More, AssetInv, Positions, TypeInv, TypeOK
      <4> QED
        BY <2>2, <4>1, OthersStay DEF AssetInv, Positions, Idle
    <3>3. AllDone'
      BY <2>2, WorkKeepsDone
    <3> QED
      BY <3>1, <3>2, <3>3, FinishedIsDone, PTL DEF AssetInv
  <2>3. ASSUME NEW Stopped \in SUBSET Installer, Kill(Stopped) PROVE AssetInv'
    <3>1. \A j \in Installer :
            \/ pc'[j] = "idle"
            \/ /\ pc'[j] = pc[j] /\ req'[j] = req[j] /\ pos'[j] = pos[j] /\ wrote'[j] = wrote[j]
               /\ Current(j)' = Current(j)
      BY <2>3 DEF Kill, Leave, Current
    <3>2. OwnAsset'
      BY <2>3, <3>1 DEF Kill, files, history, AssetInv, OwnAsset
    <3>3. Positions'
      BY <3>1 DEF AssetInv, Positions, Idle
    <3>4. AllDone'
      BY <2>3, <3>1, FinishedIsDone DEF Kill, files, history, AssetInv, AllDone, Done, Idle
    <3> QED
      BY <3>2, <3>3, <3>4, FinishedIsDone, PTL DEF AssetInv
  <2>4. CASE UNCHANGED vars
    BY <2>4 DEF vars, installers, files, history, AssetInv, OwnAsset, Positions,
       FinishedAssetsAreThere, Current, Idle
  <2> QED
    BY <2>1, <2>2, <2>3, <2>4, Steps
<1> QED
  BY <1>1, <1>2, TypeInvariant, OverlapInvariant, SoleDownloads, PTL DEF Spec

\* The property the run checks.
THEOREM FinishedAssets == Spec => []FinishedAssetsAreThere
BY AssetInvariant, PTL DEF AssetInv
=============================================================================
