----------------------------- MODULE LayerSource -----------------------------
(***************************************************************************)
(* fetcher/layerfetcher/source/layer_source.go: one LayerSource, that is   *)
(* one image of one registry or OCI directory, from NewLayerSource to      *)
(* Close.  Manifest fetches the image and converts it from schema 1; Blob  *)
(* downloads a layer into a temporary file, checking sizes, digests and    *)
(* the disk quota, and hands the file to its caller.                       *)
(*                                                                         *)
(* A step is what the code does between two calls that can fail, and a     *)
(* failing step includes the deferred calls that run on the way out.       *)
(* Everything that answers those calls (registry, network, local disk) may *)
(* answer anything at any time: no answer is assumed to be honest.         *)
(*                                                                         *)
(* A content is a sequence of bytes, and stands for its own SHA-256 digest:*)
(* digests are taken to be free of collisions.                             *)
(***************************************************************************)
EXTENDS Integers, Sequences

CONSTANTS
  Contents,      \* byte sequences: those of blobs and of unpacked layers
  Length,        \* Length[c]: size of content c in bytes
  NotGzip,       \* Gunzip[c] of a content that is no gzip stream
  Gunzip,        \* Gunzip[c]: what c uncompresses to
  Sizes,         \* sizes a registry may announce for a blob; -1 if unknown
  Files,         \* names os.CreateTemp may choose
  Absent,        \* state of a name that names no file
  Partial,       \* state of a file whose download is under way
  NoFile, NoBlob, NoLayer, NoImage,  \* "no value yet"
  LayerInfos,    \* the imagepuller.LayerInfo values Blob may be called with
  Images,        \* the images a registry may serve
  Configs,       \* the arguments of NewLayerSource
  MaxDelivered   \* bound: no Blob is called past that many delivered bytes

(* The fields of imagepuller.LayerInfo that Blob reads.  BlobID and DiffID *)
(* are digests, hence contents; Size is -1 for a layer of a schema 1 image;*)
(* gzip says that MediaType is empty or names gzip.                        *)
LayerInfo == [BlobID : Contents, DiffID : Contents, Size : Int, gzip : BOOLEAN]

(* A manifest: its schema, the digests of its layers, and, once converted  *)
(* from schema 1, the diffIDs computed for them.                           *)
Image == [schema1 : BOOLEAN, layers : Seq(Contents), diffIDs : Seq(Contents)]

Config == [scheme : {"docker", "oci"}, skipOCILayerValidation : BOOLEAN,
           skipImageQuotaValidation : BOOLEAN, diskLimit : Nat]

ASSUME ContentsAssumption ==
  /\ Length \in [Contents -> Nat]
  /\ NotGzip \notin Contents
  /\ Gunzip \in [Contents -> Contents \cup {NotGzip}]
  /\ Absent \notin Contents /\ Partial \notin Contents /\ Absent # Partial
ASSUME ValuesAssumption ==
  /\ NoFile \notin Files
  /\ NoLayer \notin LayerInfos /\ LayerInfos \subseteq LayerInfo
  /\ NoImage \notin Image /\ Images \subseteq Image
  /\ Sizes \subseteq Int
  /\ NoBlob \notin [content : Contents, size : Sizes]
ASSUME ConfigsAssumption == Configs \subseteq Config

VARIABLES
  config,               \* the arguments of NewLayerSource
  imageSource,          \* the field: "nil" or "set"
  liveSources,          \* image sources created and not closed
  remainingImageQuota,  \* the field of the same name
  pc,                   \* what the running call does next; "idle", "closed"
  attempt,              \* loop counter of the retry loop at pc
  refused,              \* ghost: refusals in a row of the request at hand, up to MAX_DOCKER_RETRIES
  image,                \* img of the last Manifest call
  diffIDs,              \* of the layers converted so far
  layer,                \* argument of the running Blob call
  blob,                 \* the open response body and the size announced
  bodies,               \* response bodies opened and not closed
  blobTempFile,         \* the file the running Blob call writes
  tmp,                  \* the temporary directory: content of each name
  owned,                \* the layer a file was handed to the caller for
  delivered,            \* bytes handed to the caller so far
  result                \* outcome of the last call

sourceVars == <<imageSource, liveSources>>
manifestVars == <<image, diffIDs>>
blobVars == <<layer, blobTempFile, tmp>>
ledgerVars == <<remainingImageQuota, owned, delivered>>
vars == <<config, sourceVars, ledgerVars, pc, attempt, refused, manifestVars, blobVars,
          blob, bodies, result>>

Blob == [content : Contents, size : Sizes]

MAX_DOCKER_RETRIES == 3

-----------------------------------------------------------------------------
(* The pieces calls are made of.                                           *)

(* Mutant: the flag exempts Docker layers too.                             *)
SkipsCheckSumEverywhere == config.skipOCILayerValidation

(* shouldEnforceImageQuotaValidation, and the exemption of checkCheckSum:  *)
(* only OCI layers may go unchecked.                                       *)
EnforcesQuota == ~config.skipImageQuotaValidation
SkipsCheckSum == config.skipOCILayerValidation /\ config.scheme = "oci"

CheckSumMatches(content, digest) == SkipsCheckSum \/ content = digest

(* validateLayerSize, which the flag turns off for every scheme.           *)
LayerSizeIsValid ==
  \/ config.skipOCILayerValidation
  \/ layer.Size = -1
  \/ layer.Size = blob.size

(* getImageSource: create the image source on first use (createImageSource *)
(* and reference), or fail to, and use it ever after.                      *)
GetImageSourceAnew == imageSource' = "set" /\ liveSources' = liveSources + 1
GetImageSource ==
  /\ imageSource' = "set"
  /\ liveSources' = IF imageSource = "nil" THEN liveSources + 1 ELSE liveSources
GetImageSourceFails == imageSource = "nil" /\ UNCHANGED sourceVars

(* blob.Close() and, for a call that fails, os.Remove of the file.         *)
CloseBodyForgotten == blob' = NoBlob /\ bodies' = bodies
CloseBody ==
  /\ blob' = NoBlob
  /\ bodies' = IF blob = NoBlob THEN bodies ELSE bodies - 1
RemoveTempFileForgotten == tmp' = tmp
RemoveTempFile ==
  tmp' = [f \in Files |-> IF f = blobTempFile THEN Absent ELSE tmp[f]]

(* The running call returns an error, its deferred calls included.         *)
Fail ==
  /\ CloseBody
  /\ RemoveTempFile
  /\ pc' = "idle" /\ result' = "failed"
  /\ blobTempFile' = NoFile /\ layer' = NoLayer
  /\ image' = NoImage /\ diffIDs' = << >>
  /\ attempt' = 1
  /\ UNCHANGED <<config, ledgerVars>>

(* The request of this turn was refused, once more in a row.               *)
Refused == refused' = IF refused < MAX_DOCKER_RETRIES THEN refused + 1 ELSE refused

(* One more turn of a retry loop, or the error of its last turn.           *)
RetryOnce ==
  IF attempt < MAX_DOCKER_RETRIES - 1
    THEN /\ attempt' = attempt + 1
         /\ UNCHANGED <<config, ledgerVars, pc, manifestVars, blobVars, blob, bodies, result>>
    ELSE Fail
RetryForever ==
  /\ attempt' = IF attempt < MAX_DOCKER_RETRIES THEN attempt + 1 ELSE 1
  /\ UNCHANGED <<config, ledgerVars, pc, manifestVars, blobVars, blob, bodies, result>>
Retry ==
  IF attempt < MAX_DOCKER_RETRIES
    THEN /\ attempt' = attempt + 1
         /\ UNCHANGED <<config, ledgerVars, pc, manifestVars, blobVars, blob, bodies, result>>
    ELSE Fail

-----------------------------------------------------------------------------
(* Manifest.                                                               *)

CallManifest ==
  /\ pc = "idle"
  /\ pc' = "getImage" /\ attempt' = 1 /\ image' = NoImage /\ result' = "none"
  /\ refused' = 0
  /\ UNCHANGED <<config, sourceVars, ledgerVars, diffIDs, blobVars, blob, bodies>>

(* A turn of getImageWithRetries.  A turn that fails may have created the  *)
(* image source, and the next one then uses it.                            *)
GetImage ==
  /\ pc = "getImage"
  /\ GetImageSource
  /\ image' \in Images
  /\ pc' = "convertImage"
  /\ refused' = 0
  /\ UNCHANGED <<config, ledgerVars, attempt, diffIDs, blobVars, blob, bodies, result>>
GetImageFails ==
  /\ pc = "getImage"
  /\ GetImageSource \/ GetImageSourceFails
  /\ Retry /\ Refused

(* Mutant: the loop leaves out the last layer.                             *)
NextV1LayerTooFew(n) == IF n < Len(image.layers) - 1 THEN "getV1Blob" ELSE "updateImage"

(* Where the loop over the layers of a schema 1 image goes once n of them  *)
(* are converted.                                                          *)
NextV1Layer(n) == IF n < Len(image.layers) THEN "getV1Blob" ELSE "updateImage"

(* convertImage: a schema 2 or OCI image passes as it is.                  *)
ConvertImage ==
  /\ pc = "convertImage"
  /\ pc' = IF image.schema1 THEN NextV1Layer(0) ELSE "getConfig"
  /\ attempt' = 1
  /\ UNCHANGED <<config, refused, sourceVars, ledgerVars, manifestVars, blobVars, blob, bodies, result>>

(* Mutant: the loop of the next layer counts on from that of the last.     *)
V1DiffIDCountsOn ==
  /\ pc = "v1DiffID"
  /\ Gunzip[blob.content] # NotGzip
  /\ diffIDs' = Append(diffIDs, Gunzip[blob.content])
  /\ CloseBody
  /\ pc' = NextV1Layer(Len(diffIDs) + 1)
  /\ UNCHANGED <<config, refused, attempt, sourceVars, ledgerVars, image, blobVars, result>>

(* v1DiffID reads the whole blob: its diffID is that of what it holds.     *)
V1DiffID ==
  /\ pc = "v1DiffID"
  /\ Gunzip[blob.content] # NotGzip
  /\ diffIDs' = Append(diffIDs, Gunzip[blob.content])
  /\ CloseBody
  /\ pc' = NextV1Layer(Len(diffIDs) + 1)
  /\ attempt' = 1
  /\ UNCHANGED <<config, refused, sourceVars, ledgerVars, image, blobVars, result>>

(* UpdatedImage: the image as schema 2 with the diffIDs computed.          *)
UpdateImage ==
  /\ pc = "updateImage"
  /\ image' = [schema1 |-> FALSE, layers |-> image.layers, diffIDs |-> diffIDs]
  /\ diffIDs' = << >>
  /\ pc' = "getConfig" /\ attempt' = 1
  /\ UNCHANGED <<config, refused, sourceVars, ledgerVars, blobVars, blob, bodies, result>>

(* originalImage.Manifest, gzip.NewReader, io.ReadAll or UpdatedImage fails.*)
ConversionFails ==
  /\ pc \in {"convertImage", "v1DiffID", "updateImage"}
  /\ Fail
  /\ UNCHANGED <<sourceVars, refused>>

(* A turn of the loop around ConfigBlob.                                   *)
GetConfig ==
  /\ pc = "getConfig"
  /\ pc' = "idle" /\ result' = "image" /\ attempt' = 1
  /\ refused' = 0
  /\ UNCHANGED <<config, sourceVars, ledgerVars, manifestVars, blobVars, blob, bodies>>
GetConfigFails ==
  /\ pc = "getConfig"
  /\ Retry /\ Refused
  /\ UNCHANGED sourceVars

-----------------------------------------------------------------------------
(* getBlobWithRetries, for Blob and for v1DiffID.                          *)

GetBlob ==
  /\ pc \in {"getBlob", "getV1Blob"}
  /\ blob' \in Blob
  /\ bodies' = bodies + 1
  /\ pc' = IF pc = "getBlob" THEN "validateLayerSize" ELSE "v1DiffID"
  /\ refused' = 0
  /\ UNCHANGED <<config, sourceVars, ledgerVars, attempt, manifestVars, blobVars, result>>
GetBlobFails ==
  /\ pc \in {"getBlob", "getV1Blob"}
  /\ Retry /\ Refused
  /\ UNCHANGED sourceVars

-----------------------------------------------------------------------------
(* Blob.                                                                   *)

CallBlob(l) ==
  /\ pc = "idle"
  /\ delivered < MaxDelivered
  /\ pc' = "getImageSource" /\ attempt' = 1 /\ layer' = l /\ result' = "none"
  /\ image' = NoImage
  /\ refused' = 0
  /\ UNCHANGED <<config, sourceVars, ledgerVars, diffIDs, blobTempFile, tmp, blob, bodies>>

BlobImageSource ==
  /\ pc = "getImageSource"
  /\ GetImageSource
  /\ pc' = "getBlob"
  /\ UNCHANGED <<config, refused, ledgerVars, attempt, manifestVars, blobVars, blob, bodies, result>>

(* Unlike Manifest, Blob does not retry to create an image source.         *)
BlobImageSourceFails ==
  /\ pc = "getImageSource"
  /\ GetImageSourceFails
  /\ Fail /\ UNCHANGED refused

ValidateLayerSize ==
  /\ pc = "validateLayerSize"
  /\ LayerSizeIsValid
  /\ pc' = "createTemp"
  /\ UNCHANGED <<config, refused, sourceVars, ledgerVars, attempt, manifestVars, blobVars, blob, bodies, result>>
LayerSizeDiffers ==
  /\ pc = "validateLayerSize"
  /\ ~LayerSizeIsValid
  /\ Fail
  /\ UNCHANGED <<sourceVars, refused>>

(* os.CreateTemp picks a name no file has.                                 *)
CreateTemp ==
  /\ pc = "createTemp"
  /\ \E f \in Files :
       /\ tmp[f] = Absent
       /\ tmp' = [tmp EXCEPT ![f] = Partial]
       /\ blobTempFile' = f
  /\ pc' = "copy"
  /\ UNCHANGED <<config, refused, sourceVars, ledgerVars, attempt, manifestVars, layer, blob, bodies, result>>

(* What reading the blob to its end delivers: gzip.NewReader refuses what  *)
(* is no gzip stream.                                                      *)
Uncompressed == IF layer.gzip THEN Gunzip[blob.content] ELSE blob.content

(* Mutant: the reader that stops at the quota without an error.            *)
FitsWhatIsLeftOrOne(c) == EnforcesQuota => Length[c] <= remainingImageQuota + 1

(* NewQuotaedReader over what is left: its Reads end in io.EOF for a stream*)
(* that fits, and in an error for any other (QuotaedReader!EOFMeansWhole,  *)
(* QuotaedReader!OverrunReported).                                         *)
FitsWhatIsLeft(c) == EnforcesQuota => Length[c] <= remainingImageQuota

(* Mutant: the quota is charged before the digests are checked.            *)
CopyCharges ==
  /\ pc = "copy"
  /\ Uncompressed # NotGzip
  /\ FitsWhatIsLeft(Uncompressed)
  /\ tmp' = [tmp EXCEPT ![blobTempFile] = Uncompressed]
  /\ remainingImageQuota' = remainingImageQuota - Length[Uncompressed]
  /\ pc' = "checkBlobID"
  /\ UNCHANGED <<config, refused, sourceVars, owned, delivered, attempt, manifestVars, layer, blobTempFile,
                 blob, bodies, result>>

(* io.Copy reaches the end of the stream.                                  *)
Copy ==
  /\ pc = "copy"
  /\ Uncompressed # NotGzip
  /\ FitsWhatIsLeft(Uncompressed)
  /\ tmp' = [tmp EXCEPT ![blobTempFile] = Uncompressed]
  /\ pc' = "checkBlobID"
  /\ UNCHANGED <<config, refused, sourceVars, ledgerVars, attempt, manifestVars, layer, blobTempFile,
                 blob, bodies, result>>

(* os.CreateTemp, gzip.NewReader, a Read or a Write fails.                 *)
DownloadFails ==
  /\ pc \in {"createTemp", "copy"}
  /\ Fail
  /\ UNCHANGED <<sourceVars, refused>>

(* The digest of the bytes read from the response, against BlobID.         *)
CheckBlobID ==
  /\ pc = "checkBlobID"
  /\ CheckSumMatches(blob.content, layer.BlobID)
  /\ pc' = "checkDiffID"
  /\ UNCHANGED <<config, refused, sourceVars, ledgerVars, attempt, manifestVars, blobVars, blob, bodies, result>>
BlobIDDiffers ==
  /\ pc = "checkBlobID"
  /\ ~CheckSumMatches(blob.content, layer.BlobID)
  /\ Fail
  /\ UNCHANGED <<sourceVars, refused>>

(* Mutant: nothing is charged.  Charge is the assignment of line 174, which *)
(* is made whether or not the quota is enforced.                           *)
ChargeNothing(c) == remainingImageQuota' = remainingImageQuota
Charge(c) == remainingImageQuota' = remainingImageQuota - Length[c]

(* The digest of what was written, against DiffID; then Blob returns the   *)
(* file, which from here on is the caller's to remove.                     *)
CheckDiffID ==
  /\ pc = "checkDiffID"
  /\ CheckSumMatches(tmp[blobTempFile], layer.DiffID)
  /\ Charge(tmp[blobTempFile])
  /\ delivered' = delivered + Length[tmp[blobTempFile]]
  /\ owned' = [owned EXCEPT ![blobTempFile] = layer]
  /\ CloseBody
  /\ pc' = "idle" /\ result' = "blob"
  /\ blobTempFile' = NoFile /\ layer' = NoLayer /\ attempt' = 1
  /\ UNCHANGED <<config, refused, sourceVars, manifestVars, tmp>>
DiffIDDiffers ==
  /\ pc = "checkDiffID"
  /\ ~CheckSumMatches(tmp[blobTempFile], layer.DiffID)
  /\ Fail
  /\ UNCHANGED <<sourceVars, refused>>

-----------------------------------------------------------------------------
(* The caller removes a file it was given (BlobReader.Close).              *)
RemoveFile(f) ==
  /\ pc = "idle"
  /\ owned[f] # NoLayer
  /\ owned' = [owned EXCEPT ![f] = NoLayer]
  /\ tmp' = [tmp EXCEPT ![f] = Absent]
  /\ UNCHANGED <<config, refused, sourceVars, remainingImageQuota, delivered, pc, attempt, manifestVars,
                 layer, blobTempFile, blob, bodies, result>>

(* Close, after which the program calls nothing (groot.go:126).            *)
Close ==
  /\ pc = "idle"
  /\ pc' = "closed"
  /\ liveSources' = IF imageSource = "set" THEN liveSources - 1 ELSE liveSources
  /\ UNCHANGED <<config, refused, imageSource, ledgerVars, attempt, manifestVars, blobVars, blob, bodies, result>>

Init ==
  /\ config \in Configs
  /\ imageSource = "nil" /\ liveSources = 0
  /\ remainingImageQuota = config.diskLimit
  /\ pc = "idle" /\ attempt = 1 /\ refused = 0
  /\ image = NoImage /\ diffIDs = << >>
  /\ layer = NoLayer /\ blob = NoBlob /\ bodies = 0
  /\ blobTempFile = NoFile
  /\ tmp = [f \in Files |-> Absent] /\ owned = [f \in Files |-> NoLayer]
  /\ delivered = 0
  /\ result = "none"

ManifestStep ==
  \/ GetImage \/ GetImageFails
  \/ ConvertImage \/ V1DiffID \/ UpdateImage \/ ConversionFails
  \/ GetConfig \/ GetConfigFails

BlobStep ==
  \/ BlobImageSource \/ BlobImageSourceFails
  \/ ValidateLayerSize \/ LayerSizeDiffers
  \/ CreateTemp \/ Copy \/ DownloadFails
  \/ CheckBlobID \/ BlobIDDiffers
  \/ CheckDiffID \/ DiffIDDiffers

(* The running call goes on.                                               *)
CallStep == ManifestStep \/ BlobStep \/ GetBlob \/ GetBlobFails

Next ==
  \/ CallStep
  \/ CallManifest
  \/ \E l \in LayerInfos : CallBlob(l)
  \/ \E f \in Files : RemoveFile(f)
  \/ Close

Spec == Init /\ [][Next]_vars

(* The calls to registry, network and disk all return: the code gives them *)
(* a context without deadline, and waits as long as they take.             *)
FairSpec == Spec /\ WF_vars(CallStep)

-----------------------------------------------------------------------------

Calling == {"getImage", "convertImage", "getV1Blob", "v1DiffID", "updateImage", "getConfig",
            "getImageSource", "getBlob", "validateLayerSize", "createTemp", "copy",
            "checkBlobID", "checkDiffID"}

(* Values of the variables.                                                *)
TypeOK ==
  /\ config \in Configs
  /\ imageSource \in {"nil", "set"} /\ liveSources \in 0..1
  /\ remainingImageQuota \in Int /\ delivered \in Nat
  /\ EnforcesQuota => remainingImageQuota >= 0
  /\ pc \in Calling \cup {"idle", "closed"}
  /\ attempt \in 1..MAX_DOCKER_RETRIES /\ refused \in 0..MAX_DOCKER_RETRIES
  /\ image \in Image \cup {NoImage} /\ diffIDs \in Seq(Contents)
  /\ layer \in LayerInfos \cup {NoLayer}
  /\ blob \in Blob \cup {NoBlob} /\ bodies \in 0..1
  /\ blobTempFile \in Files \cup {NoFile}
  /\ tmp \in [Files -> Contents \cup {Absent, Partial}]
  /\ owned \in [Files -> LayerInfos \cup {NoLayer}]
  /\ result \in {"none", "image", "blob", "failed"}

(* Content c is what layer l of the manifest stands for: the blob the      *)
(* manifest names, uncompressed, and the diffID of the image's config.     *)
Verified(l, c) ==
  /\ c = l.DiffID
  /\ c = IF l.gzip THEN Gunzip[l.BlobID] ELSE l.BlobID

(* Whatever the registry sends, in whatever order calls fail and succeed,  *)
(* a file in the hands of the caller holds the layer it was asked for, in  *)
(* full; only an OCI image may be exempted from that (lines 165-172, and   *)
(* layer_source_docker_test.go:472).                                       *)
DeliveredIsVerified ==
  \A f \in Files :
    owned[f] # NoLayer /\ (config.scheme = "oci" => ~config.skipOCILayerValidation)
      => Verified(owned[f], tmp[f])

(* All layers together stay within the disk limit, not just each of them   *)
(* (layer_source_oci_test.go, "when the first layer exhausts the quota").  *)
QuotaRespected == EnforcesQuota => delivered <= config.diskLimit

(* Between calls the quota has been charged with the bytes handed out and  *)
(* with nothing else: a Blob that failed costs nothing, however late.      *)
FailedBlobCostsNothing ==
  pc = "idle" => remainingImageQuota = config.diskLimit - delivered

(* Between calls there is no temporary file that nobody would remove and   *)
(* no response body that nobody would close.                               *)
NothingLeaks ==
  pc = "idle" => bodies = 0 /\ \A f \in Files : tmp[f] # Absent => owned[f] # NoLayer

(* The image source is a singleton (comment on the field, line 38), and    *)
(* Close leaves none open.                                                 *)
OneImageSource == liveSources <= 1 /\ (pc = "closed" => liveSources = 0)

(* Manifest returns no schema 1 image, and conversion gives every layer a  *)
(* diffID: createLayerInfos indexes them by the layer's position.          *)
ConversionIsComplete ==
  /\ result = "image" => image # NoImage /\ ~image.schema1
  /\ pc = "updateImage" => Len(diffIDs) = Len(image.layers)

(* The stages at which a request is made again when it is refused.         *)
Requesting == {"getImage", "getConfig", "getBlob", "getV1Blob"}

(* A call gives up on a request exactly when it has been refused           *)
(* MAX_DOCKER_RETRIES times in a row, however many refusals the requests   *)
(* before it met: no loop gives up sooner, for having started from what an *)
(* earlier one had counted (for the layer, the config or the image before),*)
(* and none asks a fourth time (lines 71, 204 and 264 start from one).     *)
RetriesBeforeFailing ==
  [][(pc \in Requesting) => (result' = "failed" <=> refused' = MAX_DOCKER_RETRIES)]_vars

(* Every call returns.                                                     *)
CallsReturn == pc \in Calling ~> pc = "idle"

(* What a LayerSource promises its caller: see VerifiedSource.             *)
Promise == INSTANCE VerifiedSource WITH
  remaining <- remainingImageQuota,
  files <- [f \in Files |-> IF owned[f] = NoLayer THEN Absent ELSE tmp[f]],
  open <- pc # "closed"
ImplementsPromise == Promise!Spec

=============================================================================
