---------------------------- MODULE FileFetcher -----------------------------
(***************************************************************************)
(* fetcher/filefetcher/file_fetcher.go: pulls of one local tar file by its *)
(* path, one after the other, over the driver's store of volumes, while    *)
(* somebody else replaces, touches and removes the file.                   *)
(*                                                                         *)
(* A version counts the contents the path has had.  The file is replaced   *)
(* by rename, so that an open stream keeps its version.  Modification      *)
(* times are anything: files are unpacked and copied with old times, and   *)
(* two changes may come within one tick of the file system's clock.        *)
(***************************************************************************)
EXTENDS Integers

CONSTANTS
  MaxChanges,  \* bound: how often the path may be changed
  Times,       \* modification times
  FirstTime,   \* that of the file at the start
  NoStream, Directory  \* what may be open instead of a version of the file

ASSUME MaxChangesAssumption == MaxChanges \in Nat
ASSUME TimesAssumption == FirstTime \in Times
ASSUME StreamsAssumption == NoStream \notin Nat /\ Directory \notin Nat

VARIABLES
  kind,      \* what the path names: "file", "directory" or "nothing"
  version,   \* the version it holds, if a file
  mtime,     \* its modification time
  changes,   \* changes made to the path so far
  oldest,    \* ghost: the version at which each time was first seen on the path
  pc,        \* what the pull does next, or how it ended
  ChainID,   \* of the one layer info that ImageInfo returned
  timestamp, \* the modification time it is made from
  stream,    \* what the on-demand reader has open: a version, Directory, NoStream
  volumes    \* the driver's store: pairs of a chain ID and a version

fileVars == <<kind, version, mtime, changes, oldest>>
pullVars == <<ChainID, timestamp>>
vars == <<fileVars, pc, pullVars, stream, volumes>>

(* The steps of a driver that reads, within StreamBlob.                    *)
Opening == {"stat", "validate", "open"}

-----------------------------------------------------------------------------
(* The rest of the world.                                                  *)

(* A time that no version has had yet is no evidence for any.              *)
NotYet == MaxChanges + 1

Changes ==
  /\ changes < MaxChanges
  /\ changes' = changes + 1
  /\ mtime' \in Times
  /\ oldest' = [oldest EXCEPT ![mtime'] = IF @ < version' THEN @ ELSE version']
  /\ UNCHANGED <<pc, pullVars, stream, volumes>>

Replace == kind' = "file" /\ version' = version + 1 /\ Changes
Touch == UNCHANGED <<kind, version>> /\ Changes
Remove == kind' \in {"directory", "nothing"} /\ UNCHANGED version /\ Changes

-----------------------------------------------------------------------------
(* A pull.                                                                 *)

StartPull ==
  /\ pc \in {"idle", "done", "failed"}
  /\ pc' = "imageInfo"
  /\ UNCHANGED <<fileVars, pullVars, stream, volumes>>

(* Mutant: the path alone identifies the layer.                            *)
generateChainIDOfPath(time) == FirstTime

(* The digest of path and timestamp; the path is always the same one.      *)
generateChainID(time) == time

(* One os.Stat.  A directory passes, and fails in StreamBlob.              *)
ImageInfo ==
  /\ pc = "imageInfo"
  /\ kind # "nothing"
  /\ timestamp' = mtime /\ ChainID' = generateChainID(mtime)
  /\ pc' = "unpack"
  /\ UNCHANGED <<fileVars, stream, volumes>>
ImageInfoFails ==
  /\ pc = "imageInfo"
  /\ pc' = "failed"
  /\ UNCHANGED <<fileVars, pullVars, stream, volumes>>

(* The driver reads for the first time, or again after an error.           *)
StreamBlob ==
  /\ pc = "unpack" /\ stream = NoStream
  /\ pc' = "stat"
  /\ UNCHANGED <<fileVars, pullVars, stream, volumes>>

(* os.Stat at line 31, then that of validateImage: two looks at a path     *)
(* that may change in between.                                             *)
Stat ==
  /\ pc = "stat"
  /\ pc' = IF kind = "nothing" THEN "unpack" ELSE "validate"
  /\ UNCHANGED <<fileVars, pullVars, stream, volumes>>

validateImage ==
  /\ pc = "validate"
  /\ pc' = IF kind = "file" THEN "open" ELSE "unpack"
  /\ UNCHANGED <<fileVars, pullVars, stream, volumes>>

(* os.Open opens whatever is there now, a directory too.                   *)
Open ==
  /\ pc = "open"
  /\ kind # "nothing"
  /\ stream' = IF kind = "file" THEN version ELSE Directory
  /\ pc' = "unpack"
  /\ UNCHANGED <<fileVars, pullVars, volumes>>
OpenFails ==
  /\ pc = "open"
  /\ pc' = "unpack"
  /\ UNCHANGED <<fileVars, pullVars, stream, volumes>>

(* Mutant: the stream stays open.                                          *)
CloseReaderForgotten == UNCHANGED stream

(* The deferred Close of the on-demand reader (image_puller.go:128).       *)
CloseReader == stream' = NoStream

(* Unpack returns: the driver has the layer, or has read the stream.  No   *)
(* Read of a directory succeeds.                                           *)
UnpackHas ==
  /\ pc = "unpack"
  /\ \E v \in volumes : v[1] = ChainID
  /\ CloseReader
  /\ pc' = "done"
  /\ UNCHANGED <<fileVars, pullVars, volumes>>
Unpack ==
  /\ pc = "unpack"
  /\ stream \notin {NoStream, Directory}
  /\ \A v \in volumes : v[1] # ChainID
  /\ volumes' = volumes \cup {<<ChainID, stream>>}
  /\ CloseReader
  /\ pc' = "done"
  /\ UNCHANGED <<fileVars, pullVars>>
UnpackFails ==
  /\ pc = "unpack"
  /\ CloseReader
  /\ pc' = "failed"
  /\ UNCHANGED <<fileVars, pullVars, volumes>>

Init ==
  /\ kind = "file" /\ version = 0 /\ mtime = FirstTime /\ changes = 0
  /\ oldest = [t \in Times |-> IF t = FirstTime THEN 0 ELSE NotYet]
  /\ pc = "idle" /\ ChainID = FirstTime /\ timestamp = FirstTime
  /\ stream = NoStream /\ volumes = {}

PullStep ==
  \/ ImageInfo \/ ImageInfoFails
  \/ StreamBlob \/ Stat \/ validateImage \/ Open \/ OpenFails
  \/ UnpackHas \/ Unpack \/ UnpackFails

Next ==
  \/ Replace \/ Touch \/ Remove
  \/ StartPull
  \/ PullStep

Spec == Init /\ [][Next]_vars

-----------------------------------------------------------------------------

(* Values of the variables; no stream outlives its pull.                   *)
TypeOK ==
  /\ kind \in {"file", "directory", "nothing"}
  /\ changes \in 0..MaxChanges /\ version \in 0..changes /\ mtime \in Times
  /\ oldest \in [Times -> 0..version \cup {NotYet}]
  /\ pc \in {"idle", "imageInfo", "unpack", "done", "failed"} \cup Opening
  /\ ChainID \in Times /\ timestamp \in Times
  /\ stream \in 0..version \cup {NoStream, Directory}
  /\ stream # NoStream => pc = "unpack"
  /\ volumes \subseteq Times \X (0..version)

VersionsAt(id) == {v[2] : v \in {w \in volumes : w[1] = id}}

(* A pull never serves a version older than the first one that had the     *)
(* modification time the pull saw, whatever earlier pulls left in the      *)
(* store, and however often the file changed between their looking and     *)
(* their reading.  Where times are not used twice, this is the version the *)
(* pull looked at; where they are, an older one with that time may be      *)
(* served, and nothing older still.                                        *)
NeverStale == pc = "done" => \A v \in VersionsAt(ChainID) : v >= oldest[timestamp]

(* A pull of a file that nobody changed meanwhile, and whose time no other *)
(* version has had, serves that very file, even if an earlier pull has     *)
(* filed a newer version under an older ID.                                *)
UnchangedFileIsServed ==
  pc = "done" /\ kind = "file" /\ timestamp = mtime /\ oldest[mtime] = version
    => VersionsAt(ChainID) = {version}

=============================================================================
