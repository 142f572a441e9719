---------------------------- MODULE ImagePuller -----------------------------
(***************************************************************************)
(* imagepuller/image_puller.go with its on-demand reader, on top of a      *)
(* LayerFetcher and of a volume driver: one pull after the other, each a   *)
(* process of its own, which may be killed at any time, while others pull  *)
(* into the same store.  What outlives a process is the driver's store of  *)
(* volumes and the temporary directory.                                    *)
(*                                                                         *)
(* The driver is external.  It knows volumes by their layer ID; it returns *)
(* at once, without reading, for an ID it has, and otherwise puts the      *)
(* stream on top of the volume of the last parent ID.  It reads when it    *)
(* likes, as often as it likes, and may fail at any time.                  *)
(***************************************************************************)
EXTENDS LayerFetcher, LayerSums

CONSTANTS
  Manifests,  \* manifests and configurations a registry may serve
  Specs,      \* what pulls may be asked for
  MaxInt,     \* the largest int64
  NoFile

(* A layer of a manifest, by the digest of its blob.                       *)
Layer == [digest : Contents, size : -(MaxInt + 1)..MaxInt, gzip : BOOLEAN]

ASSUME LengthAssumption == Length \in [Contents -> Nat]
ASSUME FilesAssumption == NoFile \notin Files /\ Absent \notin Contents
ASSUME ManifestsAssumption ==
  Manifests \subseteq [layers : Seq(Layer), diffIDs : Seq(Contents \cup {NotDigest})]
ASSUME SpecsAssumption == Specs \subseteq [DiskLimit : Nat, ExcludeImageFromQuota : BOOLEAN]
ASSUME MaxIntAssumption == MaxInt \in Nat

VARIABLES
  pc,          \* what the pull does next, or how it ended
  spec,        \* the argument of Pull
  manifest,    \* what the fetcher learnt from the registry
  layerInfos,  \* what ImageInfo returned
  current,     \* index of the layer built next, from 1
  stream,      \* file under the on-demand reader's stream, NoFile if nil
  totalBytes,  \* of buildLayers
  fetched,     \* ghost: the bytes that this pull has added to the store
  volumes      \* the driver's store

pullVars == <<spec, manifest, layerInfos>>
sums == <<totalBytes, fetched>>
vars == <<fetcherVars, pc, pullVars, current, stream, sums, volumes>>

Running == {"imageInfo", "quota", "build", "unpack"}

-----------------------------------------------------------------------------

(* Mutant: the source enforces no limit, because Pull has checked it.      *)
SourceConfigUnlimited(s) ==
  [skipOCILayerValidation   |-> FALSE,
   scheme                   |-> "docker",
   skipImageQuotaValidation |-> TRUE,
   diskLimit                |-> s.DiskLimit]

(* createFetcher: the arguments of NewLayerSource.                         *)
SourceConfig(s) ==
  [skipOCILayerValidation   |-> FALSE,
   scheme                   |-> "docker",
   skipImageQuotaValidation |-> s.ExcludeImageFromQuota \/ s.DiskLimit = 0,
   diskLimit                |-> s.DiskLimit]

(* A process starts to pull an image.                                      *)
StartPull ==
  /\ spec' \in Specs
  /\ config' = SourceConfig(spec')
  /\ remaining' = spec'.DiskLimit
  /\ open' = TRUE
  /\ pc' = "imageInfo"
  /\ manifest' = [layers |-> << >>, diffIDs |-> << >>] /\ layerInfos' = << >>
  /\ current' = 1 /\ stream' = NoFile /\ totalBytes' = 0 /\ fetched' = 0
  /\ UNCHANGED <<files, orphans, volumes>>

(* Mutant: there is no deferred Close.                                     *)
EndKeepsSource(outcome) ==
  /\ pc' = outcome
  /\ UNCHANGED <<fetcherVars, pullVars, current, stream, sums, volumes>>

(* The pull returns, and the deferred fetcher.Close runs (groot.go:126),   *)
(* for a panic too.                                                        *)
End(outcome) ==
  /\ pc' = outcome
  /\ CloseFetcher
  /\ UNCHANGED <<pullVars, current, stream, sums, volumes>>

ImageInfo ==
  /\ pc = "imageInfo"
  /\ manifest' \in {m \in Manifests : ~Panics(m)}
  /\ layerInfos' = createLayerInfos(manifest')
  /\ pc' = "quota"
  /\ UNCHANGED <<fetcherVars, spec, current, stream, sums, volumes>>
ImageInfoFails ==
  /\ pc = "imageInfo"
  /\ End("failed")
ImageInfoPanics ==
  /\ pc = "imageInfo"
  /\ \E m \in Manifests : Panics(m)
  /\ End("panicked")

(* What an int64 holds of a sum of two of them.                            *)
Int64(n) ==
  CASE n > MaxInt      -> n - 2 * (MaxInt + 1)
    [] n < -MaxInt - 1 -> n + 2 * (MaxInt + 1)
    [] OTHER           -> n

layersSize(infos) ==
  LET total[i \in 0..Len(infos)] == IF i = 0 THEN 0 ELSE Int64(total[i - 1] + infos[i].Size)
  IN total[Len(infos)]

(* Mutant: the limit is that of each layer.                                *)
quotaExceededByLayer ==
  /\ ~spec.ExcludeImageFromQuota /\ spec.DiskLimit # 0
  /\ \E i \in DOMAIN layerInfos : layerInfos[i].Size > spec.DiskLimit

quotaExceeded ==
  /\ ~spec.ExcludeImageFromQuota /\ spec.DiskLimit # 0
  /\ layersSize(layerInfos) > spec.DiskLimit

CheckQuota ==
  /\ pc = "quota"
  /\ ~quotaExceeded
  /\ pc' = "build"
  /\ UNCHANGED <<fetcherVars, pullVars, current, stream, sums, volumes>>
QuotaIsExceeded ==
  /\ pc = "quota"
  /\ quotaExceeded
  /\ End("failed")

(* buildLayers: the next turn of the loop calls Unpack, with a reader that *)
(* has no stream yet.                                                      *)
BuildLayer ==
  /\ pc = "build"
  /\ current <= Len(layerInfos)
  /\ pc' = "unpack"
  /\ UNCHANGED <<fetcherVars, pullVars, current, stream, sums, volumes>>
AllBuilt ==
  /\ pc = "build"
  /\ current > Len(layerInfos)
  /\ End("done")

(* Mutant: a Read that does not remember the stream of an earlier one.     *)
ReadCreatesAgain ==
  /\ pc = "unpack"
  /\ \E f \in Files : StreamBlob(layerInfos[current], f) /\ stream' = f
  /\ UNCHANGED <<pc, pullVars, current, sums, volumes>>

(* The driver Reads for the first time.  If StreamBlob fails, the driver   *)
(* gets the error, and the next Read calls StreamBlob again.  Later Reads  *)
(* read on in the file.                                                    *)
ReadCreates ==
  /\ pc = "unpack"
  /\ stream = NoFile
  /\ \E f \in Files : StreamBlob(layerInfos[current], f) /\ stream' = f
  /\ UNCHANGED <<pc, pullVars, current, sums, volumes>>
ReadLosesFile ==
  /\ pc = "unpack"
  /\ stream = NoFile
  /\ \E f \in Files : StreamBlobLosesFile(layerInfos[current], f)
  /\ UNCHANGED <<pc, pullVars, current, stream, sums, volumes>>

(* The deferred Close of the on-demand reader.                             *)
CloseReader ==
  /\ stream' = NoFile
  /\ IF stream = NoFile THEN UNCHANGED fetcherVars ELSE CloseBlobReader(stream)

(* Mutant: the parents are cut short by one.                               *)
parentChainIDsShort == [k \in 1..current - 2 |-> layerInfos[k].ChainID]

(* The argument of Unpack: the chain IDs of the layers below.              *)
parentChainIDs == [k \in 1..current - 1 |-> layerInfos[k].ChainID]

(* What the driver puts a layer on: of the last parent, the stack.         *)
Below ==
  IF parentChainIDs = << >> THEN {<< >>}
  ELSE {v.stack : v \in {w \in volumes : w.id = parentChainIDs[Len(parentChainIDs)]}}

(* Mutant: the total is the size of the last layer.                        *)
AddLast(size) == totalBytes' = size
Add(size) == totalBytes' = totalBytes + size

(* Unpack returns the size of the layer, and the loop goes on.             *)
Unpack ==
  /\ pc = "unpack"
  /\ stream # NoFile
  /\ \A v \in volumes : v.id # layerInfos[current].ChainID
  /\ \E stack \in Below :
       volumes' = volumes \cup {[id    |-> layerInfos[current].ChainID,
                                 stack |-> Append(stack, files[stream])]}
  /\ Add(Length[files[stream]])
  /\ fetched' = fetched + Length[files[stream]]
  /\ CloseReader
  /\ current' = current + 1
  /\ pc' = "build"
  /\ UNCHANGED pullVars
UnpackHas ==
  /\ pc = "unpack"
  /\ \E v \in volumes :
       /\ v.id = layerInfos[current].ChainID
       /\ Add(Length[v.stack[Len(v.stack)]])
  /\ CloseReader
  /\ current' = current + 1
  /\ pc' = "build"
  /\ UNCHANGED <<pullVars, fetched, volumes>>

(* Mutants: the loop goes on after an error, with the next layer or with   *)
(* the same one.                                                           *)
UnpackFailsIgnored ==
  /\ pc = "unpack"
  /\ CloseReader
  /\ current' = current + 1
  /\ pc' = "build"
  /\ UNCHANGED <<pullVars, sums, volumes>>
UnpackFailsRetried ==
  /\ pc = "unpack"
  /\ CloseReader
  /\ pc' = "build"
  /\ UNCHANGED <<pullVars, current, sums, volumes>>
(* Unpack fails, the reader is closed, and the pull is on its way out.     *)
UnpackFails ==
  /\ pc = "unpack"
  /\ CloseReader
  /\ pc' = "unwind"
  /\ UNCHANGED <<pullVars, current, sums, volumes>>
Unwind ==
  /\ pc = "unwind"
  /\ End("failed")

(* The process is killed.                                                  *)
Crash ==
  /\ pc \in Running \cup {"unwind"}
  /\ pc' = "killed"
  /\ orphans' = orphans \cup {f \in Files : f = stream}
  /\ stream' = NoFile
  /\ open' = FALSE
  /\ UNCHANGED <<config, remaining, files, pullVars, current, sums, volumes>>

-----------------------------------------------------------------------------
(* The other processes of groot that work on the store.                    *)

(* The image of a manifest: what its layers contain, from the lowest up.   *)
ImageOf(m) == SubSeq(m.diffIDs, 1, Len(m.layers))

(* The contract of the store, for the images that the registry serves.     *)
Store == INSTANCE ImageStore
  WITH Images <- {ImageOf(m) : m \in {n \in Manifests : ~Panics(n)}},
       served <- volumes

(* Others pull at the same time, at any step of this pull.  The store is   *)
(* where they meet: no two of them have a temporary file of the same name. *)
(* They do to it what the contract says, and no more is relied on here;    *)
(* that pulls keep to the contract is ImplementsStore.                     *)
OthersUnpack ==
  /\ Store!Next
  /\ UNCHANGED <<fetcherVars, pc, pullVars, current, stream, sums>>

-----------------------------------------------------------------------------

Init ==
  /\ pc = "idle"
  /\ spec \in Specs /\ config = SourceConfig(spec) /\ remaining = spec.DiskLimit /\ open = FALSE
  /\ files = [f \in Files |-> Absent] /\ orphans = {}
  /\ manifest = [layers |-> << >>, diffIDs |-> << >>] /\ layerInfos = << >>
  /\ current = 1 /\ stream = NoFile /\ totalBytes = 0 /\ fetched = 0
  /\ volumes = {}

PullStep ==
  \/ ImageInfo \/ ImageInfoFails \/ ImageInfoPanics
  \/ CheckQuota \/ QuotaIsExceeded
  \/ BuildLayer \/ AllBuilt \/ Unwind
  \/ Unpack \/ UnpackHas \/ UnpackFails

Next ==
  \/ pc \notin Running \cup {"unwind"} /\ StartPull
  \/ PullStep
  \/ ReadCreates \/ ReadLosesFile
  \/ Crash
  \/ OthersUnpack

Spec == Init /\ [][Next]_vars

(* The registry answers, and the driver returns from Unpack in the end.    *)
FairSpec == Spec /\ WF_vars(PullStep)

-----------------------------------------------------------------------------

(* Values of the variables.                                                *)
TypeOK ==
  /\ remaining \in Int /\ open \in BOOLEAN
  /\ files \in [Files -> Contents \cup {Absent}] /\ orphans \subseteq Files
  /\ pc \in Running \cup {"idle", "unwind", "done", "failed", "panicked", "killed"}
  /\ open <=> pc \in Running \cup {"unwind"}
  /\ spec \in Specs /\ config = SourceConfig(spec)
  /\ current \in 1..Len(layerInfos) + 1
  /\ stream \in Files \cup {NoFile}
  /\ totalBytes \in Nat
  /\ \A v \in volumes : v.stack \in Seq(Contents)

(* Whichever images were pulled before or are pulled by others meanwhile,  *)
(* and however their pulls ended: under the chain IDs of the image just    *)
(* pulled the store holds the very layers of its configuration, each on    *)
(* top of the ones below it; and the size, which Create subtracts from the *)
(* limit, is that of all of them, downloaded ones and ones the store had.  *)
PulledImageIsRight ==
  pc = "done" =>
    /\ \A k \in 1..Len(layerInfos) :
         {v.stack : v \in {w \in volumes : w.id = layerInfos[k].ChainID}}
           = {SubSeq(ImageOf(manifest), 1, k)}
    /\ totalBytes = Sum(Length, ImageOf(manifest))

(* Unpack is asked for a layer when all of its parents are in the store,   *)
(* and no volume is ever in the store without those that its chain ID      *)
(* stands for below it, whoever built it and however pulls ended.          *)
ParentsFirst ==
  /\ pc = "unpack" =>
       \A k \in 1..current - 1 : \E v \in volumes : v.id = layerInfos[k].ChainID
  /\ \A v \in volumes : \A k \in 1..Len(v.id) - 1 :
       \E w \in volumes : w.id = SubSeq(v.id, 1, k)

(* A temporary file is under the reader of the layer being unpacked, and   *)
(* gone when Unpack has returned, or it was lost: by a process that was    *)
(* killed or could not open the file (layer_fetcher.go:79-83).             *)
FilesFollowReader ==
  /\ \A f \in Files : files[f] # Absent <=> (f = stream \/ f \in orphans)
  /\ stream # NoFile => pc = "unpack"

Limited == ~spec.ExcludeImageFromQuota /\ spec.DiskLimit # 0

(* What the manifest says of its lowest n layers together.                 *)
DeclaredSize(n) == Sums([l \in Layer |-> l.size], manifest.layers)[n]

(* A pull with a limit adds no more than the limit to the store, whatever  *)
(* sizes the manifest declares: none at all, wrong ones, or such that their*)
(* sum wraps.  And nothing is downloaded, not even for a driver that has   *)
(* all layers, of an image that declares more than the limit: its sum must *)
(* have wrapped (image_puller.go 142-164, layer_source.go 159-174).        *)
DownloadsFit ==
  Limited =>
    /\ fetched <= spec.DiskLimit
    /\ pc \in {"build", "unpack", "done"} =>
         \/ DeclaredSize(Len(manifest.layers)) <= spec.DiskLimit
         \/ \E n \in 1..Len(manifest.layers) :
              DeclaredSize(n) \notin -(MaxInt + 1)..MaxInt

(* To the store, all pulls together are what ImageStore says: a stack of   *)
(* layers appears on a stack that is there, as an image names it.  Each    *)
(* process keeps to this if the others do, so all of them do.              *)
ImplementsStore == Store!Spec

(* Every pull ends.                                                        *)
PullsEnd == pc \in Running ~> pc \notin Running

=============================================================================
