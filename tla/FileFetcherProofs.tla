------------------------- MODULE FileFetcherProofs --------------------------
(***************************************************************************)
(* Proofs about FileFetcher, for every number of changes to the file.      *)
(***************************************************************************)
EXTENDS FileFetcher, TLAPS

(* A volume holds no version older than the first one that had the time it *)
(* is filed under.                                                         *)
VolumesInv == \A v \in volumes : v[2] >= oldest[v[1]]

(* Neither will the running pull's, for what it reads is not older than    *)
(* what ImageInfo saw.                                                     *)
PullInv ==
  /\ ChainID = timestamp
  /\ oldest[ChainID] <= version
  /\ stream \in Nat => stream >= oldest[ChainID]
  /\ pc = "done" => \E v \in volumes : v[1] = ChainID

Inv == TypeOK /\ VolumesInv /\ PullInv /\ oldest[mtime] <= version

-----------------------------------------------------------------------------

(* What TypeOK says of the numbers and of the store.                       *)
LEMMA Numbers ==
  ASSUME TypeOK
  PROVE  /\ changes \in Nat /\ changes <= MaxChanges
         /\ version \in Nat /\ version <= changes
         /\ NotYet \in Nat /\ version < NotYet
         /\ \A t \in Times : oldest[t] \in Nat
         /\ \A v \in volumes : v[1] \in Times /\ v[2] \in Nat /\ v[2] <= version
  BY MaxChangesAssumption DEF TypeOK, NotYet

(* A change of the path makes nothing of what was filed too old: the first *)
(* version of a time can only get older, when the time is seen at last.    *)
LEMMA ChangeInv ==
  ASSUME Inv, Changes, kind' \in {"file", "directory", "nothing"},
         version' \in {version, version + 1}
  PROVE  Inv'
<1> USE DEF Inv, Changes, pullVars
<1>1. version' \in Nat /\ version' <= changes' /\ changes' \in 0..MaxChanges
      /\ version <= version'
  BY Numbers, MaxChangesAssumption
<1>2. oldest' \in [Times -> 0..version' \cup {NotYet}]
  BY <1>1, Numbers DEF TypeOK
<1>3. \A t \in Times : oldest'[t] \in Nat /\ oldest'[t] <= oldest[t]
  BY <1>1, Numbers DEF TypeOK
<1>4. TypeOK'
  <2>1. volumes' \subseteq Times \X (0..version')
    BY <1>1, Numbers DEF TypeOK
  <2>2. stream' \in 0..version' \cup {NoStream, Directory}
    BY <1>1, Numbers DEF TypeOK
  <2>. QED
    BY <1>1, <1>2, <2>1, <2>2 DEF TypeOK
<1>5. VolumesInv'
  BY <1>3, Numbers DEF VolumesInv
<1>6. PullInv'
  <2>1. ChainID \in Times /\ (stream \in Nat => stream >= oldest[ChainID])
    BY DEF TypeOK, PullInv
  <2>. QED
    BY <1>1, <1>3, <2>1, Numbers DEF PullInv
<1>7. (oldest[mtime] <= version)'
  BY <1>1, Numbers DEF TypeOK
<1>. QED
  BY <1>4, <1>5, <1>6, <1>7

(* ImageInfo (file_fetcher.go 48-70) sees a time that the present version  *)
(* has, or an earlier one had.                                             *)
LEMMA ImageInfoInv ==
  ASSUME Inv, ImageInfo
  PROVE  Inv'
<1> USE DEF Inv, ImageInfo, fileVars
<1>1. TypeOK'
  BY DEF TypeOK, generateChainID
<1>2. VolumesInv'
  BY DEF VolumesInv
<1>3. stream = NoStream
  BY DEF TypeOK
<1>4. PullInv'
  BY <1>3, StreamsAssumption DEF PullInv, generateChainID
<1>. QED
  BY <1>1, <1>2, <1>4

(* Open takes the present version, which is not older than the one that    *)
(* ImageInfo saw.                                                          *)
LEMMA OpenInv ==
  ASSUME Inv, Open
  PROVE  Inv'
<1> USE DEF Inv, Open, fileVars, pullVars
<1>1. TypeOK'
  BY Numbers DEF TypeOK
<1>2. VolumesInv'
  BY DEF VolumesInv
<1>3. PullInv'
  BY Numbers, StreamsAssumption DEF PullInv
<1>. QED
  BY <1>1, <1>2, <1>3

(* Unpack files under the pull's chain ID what was read.                   *)
LEMMA UnpackInv ==
  ASSUME Inv, Unpack
  PROVE  Inv'
<1> USE DEF Inv, Unpack, CloseReader, fileVars, pullVars
<1>1. stream \in Nat /\ stream <= version /\ stream >= oldest[ChainID]
  BY Numbers DEF TypeOK, PullInv
<1>2. TypeOK'
  <2>1. <<ChainID, stream>> \in Times \X (0..version)
    BY <1>1, Numbers DEF TypeOK
  <2>. QED
    BY <2>1 DEF TypeOK
<1>3. \A v \in volumes' : v \in volumes \/ (v[1] = ChainID /\ v[2] = stream)
  OBVIOUS
<1>4. \E v \in volumes' : v[1] = ChainID'
  <2>1. <<ChainID, stream>> \in volumes'
    OBVIOUS
  <2>. QED
    BY <2>1
<1>5. VolumesInv'
  BY <1>1, <1>3 DEF VolumesInv
<1>6. PullInv'
  BY <1>4, StreamsAssumption DEF PullInv
<1>. QED
  BY <1>2, <1>5, <1>6

(* The steps that only move the pull on, or close its reader.              *)
LEMMA MoveInv ==
  ASSUME Inv, UNCHANGED <<fileVars, pullVars, volumes>>,
         stream' \in {stream, NoStream},
         stream' # NoStream => pc' = "unpack",
         pc' \in {"idle", "imageInfo", "unpack", "done", "failed"} \cup Opening,
         pc' = "done" => pc = "done" \/ \E v \in volumes : v[1] = ChainID
  PROVE  Inv'
<1> USE DEF Inv, fileVars, pullVars
<1>1. TypeOK'
  BY DEF TypeOK
<1>2. VolumesInv'
  BY DEF VolumesInv
<1>3. PullInv'
  BY StreamsAssumption DEF PullInv
<1>. QED
  BY <1>1, <1>2, <1>3

(* Every step preserves the invariant.                                     *)
LEMMA NextInv == Inv /\ [Next]_vars => Inv'
<1> SUFFICES ASSUME Inv, [Next]_vars
             PROVE  Inv'
  OBVIOUS
<1>1. CASE Replace
  BY <1>1, ChangeInv, Numbers DEF Replace, Inv
<1>2. CASE Touch
  BY <1>2, ChangeInv DEF Touch, Inv, TypeOK
<1>3. CASE Remove
  BY <1>3, ChangeInv DEF Remove
<1>4. CASE StartPull
  BY <1>4, MoveInv DEF StartPull, Inv, TypeOK
<1>5. CASE ImageInfo
  BY <1>5, ImageInfoInv
<1>6. CASE ImageInfoFails
  BY <1>6, MoveInv DEF ImageInfoFails, Inv, TypeOK
<1>7. CASE StreamBlob
  BY <1>7, MoveInv DEF StreamBlob, Opening
<1>8. CASE Stat
  BY <1>8, MoveInv DEF Stat, Opening, Inv, TypeOK
<1>9. CASE validateImage
  BY <1>9, MoveInv DEF validateImage, Opening, Inv, TypeOK
<1>10. CASE Open
  BY <1>10, OpenInv
<1>11. CASE OpenFails
  BY <1>11, MoveInv DEF OpenFails
<1>12. CASE UnpackHas
  BY <1>12, MoveInv DEF UnpackHas, CloseReader
<1>13. CASE Unpack
  BY <1>13, UnpackInv
<1>14. CASE UnpackFails
  BY <1>14, MoveInv DEF UnpackFails, CloseReader
<1>15. CASE UNCHANGED vars
  BY <1>15, MoveInv DEF vars, Inv, TypeOK
<1>. QED
  BY <1>1, <1>2, <1>3, <1>4, <1>5, <1>6, <1>7, <1>8, <1>9, <1>10, <1>11, <1>12, <1>13,
     <1>14, <1>15 DEF Next, PullStep

(* The invariant holds of every pull of a file that others change.         *)
THEOREM Invariance == Spec => []Inv
<1>1. Init => Inv
  BY MaxChangesAssumption, TimesAssumption, StreamsAssumption
     DEF Init, Inv, TypeOK, VolumesInv, PullInv
<1>. QED
  BY <1>1, NextInv, PTL DEF Spec

(* The variables keep their types, and no stream outlives its pull.        *)
THEOREM TypeCorrect == Spec => []TypeOK
<1>1. Inv => TypeOK
  BY DEF Inv
<1>. QED
  BY Invariance, <1>1, PTL

(* No pull serves a version older than the first with the time it saw.     *)
THEOREM NothingStale == Spec => []NeverStale
<1>1. Inv => NeverStale
  BY DEF Inv, PullInv, VolumesInv, NeverStale, VersionsAt
<1>. QED
  BY Invariance, <1>1, PTL

(* A pull of a file that nobody has changed meanwhile serves that file.    *)
THEOREM UnchangedFilesAreServed == Spec => []UnchangedFileIsServed
<1>1. Inv => UnchangedFileIsServed
  <2> SUFFICES ASSUME Inv, pc = "done", timestamp = mtime, oldest[mtime] = version
               PROVE  VersionsAt(ChainID) = {version}
    BY DEF UnchangedFileIsServed
  <2>1. \A v \in volumes : v[1] = ChainID => v[2] = version
    BY Numbers DEF Inv, PullInv, VolumesInv
  <2>2. \E v \in volumes : v[1] = ChainID
    BY DEF Inv, PullInv
  <2>. QED
    BY <2>1, <2>2 DEF VersionsAt
<1>. QED
  BY Invariance, <1>1, PTL
=============================================================================
