------------------------- MODULE LayerSourceProofs --------------------------
(***************************************************************************)
(* Proofs about LayerSource, for every set of contents, layers, images,    *)
(* file names and configurations.                                          *)
(***************************************************************************)
EXTENDS LayerSource, TLAPS

(* The stages at which the running call holds a response body, works for a *)
(* layer, has a temporary file, and has an image of schema 1 at hand.      *)
HoldsBody == {"v1DiffID", "validateLayerSize", "createTemp", "copy", "checkBlobID", "checkDiffID"}
HasLayer == {"getImageSource", "getBlob", "validateLayerSize", "createTemp", "copy",
             "checkBlobID", "checkDiffID"}
HasFile == {"copy", "checkBlobID", "checkDiffID"}
Converting == {"getV1Blob", "v1DiffID", "updateImage"}

(* What a call holds follows from the stage it is in.                      *)
StageInv ==
  /\ blob # NoBlob <=> pc \in HoldsBody
  /\ bodies = IF blob = NoBlob THEN 0 ELSE 1
  /\ layer # NoLayer <=> pc \in HasLayer
  /\ blobTempFile # NoFile <=> pc \in HasFile

(* What the stages passed have established about the download.             *)
DownloadInv ==
  /\ pc \in {"checkBlobID", "checkDiffID"} =>
       /\ Uncompressed \in Contents
       /\ tmp[blobTempFile] = Uncompressed
       /\ FitsWhatIsLeft(Uncompressed)
  /\ pc = "checkDiffID" => CheckSumMatches(blob.content, layer.BlobID)

(* A file exists for its owner or for the running call, never for both,    *)
(* and one that has an owner is complete and what its owner asked for.     *)
FileInv ==
  \A f \in Files :
    /\ tmp[f] # Absent <=> owned[f] # NoLayer \/ f = blobTempFile
    /\ f = blobTempFile => owned[f] = NoLayer
    /\ owned[f] # NoLayer =>
         tmp[f] \in Contents /\ (SkipsCheckSum \/ Verified(owned[f], tmp[f]))

(* The conversion loop has as many diffIDs as it has seen layers.          *)
ConversionInv ==
  /\ pc = "convertImage" => image # NoImage
  /\ pc \in Converting => image # NoImage /\ image.schema1
  /\ pc \in {"getV1Blob", "v1DiffID"} => Len(diffIDs) < Len(image.layers)
  /\ pc = "updateImage" => Len(diffIDs) = Len(image.layers)
  /\ pc \notin Converting => diffIDs = << >>
  /\ pc = "getConfig" \/ result = "image" => image # NoImage /\ ~image.schema1
  /\ result # "none" => pc \in {"idle", "closed"}

LedgerInv == remainingImageQuota = config.diskLimit - delivered

SourceInv == liveSources = IF imageSource = "set" /\ pc # "closed" THEN 1 ELSE 0

Inv ==
  /\ TypeOK
  /\ StageInv
  /\ DownloadInv
  /\ FileInv
  /\ ConversionInv
  /\ LedgerInv
  /\ SourceInv

-----------------------------------------------------------------------------

(* What the assumptions on the constants say of the values they range over.*)
LEMMA Values ==
  /\ MAX_DOCKER_RETRIES = 3
  /\ \A c \in Contents : Length[c] \in Nat /\ c # Absent /\ c # Partial /\ c # NotGzip
  /\ \A c \in Contents : Gunzip[c] \in Contents \cup {NotGzip}
  /\ \A l \in LayerInfos :
       l \in LayerInfo /\ l # NoLayer /\ l.BlobID \in Contents /\ l.DiffID \in Contents
  /\ \A i \in Image : i # NoImage
  /\ \A b \in Blob : b # NoBlob /\ b.content \in Contents
  /\ \A f \in Files : f # NoFile
<1>1. \A l \in LayerInfos :
        l \in LayerInfo /\ l # NoLayer /\ l.BlobID \in Contents /\ l.DiffID \in Contents
  BY ValuesAssumption DEF LayerInfo
<1>2. \A b \in Blob : b # NoBlob /\ b.content \in Contents
  BY ValuesAssumption DEF Blob
<1>. QED
  BY <1>1, <1>2, ContentsAssumption, ValuesAssumption DEF MAX_DOCKER_RETRIES

(* A fresh LayerSource satisfies the invariant.                            *)
LEMMA InitInv == Init => Inv
<1> SUFFICES ASSUME Init PROVE Inv
  OBVIOUS
<1>1. TypeOK
  BY Values, ConfigsAssumption DEF Init, TypeOK, Calling, Config
<1>2. StageInv /\ DownloadInv
  BY DEF Init, StageInv, DownloadInv, HoldsBody, HasLayer, HasFile
<1>3. FileInv
  BY Values DEF Init, FileInv
<1>4. ConversionInv
  BY DEF Init, ConversionInv, Converting
<1>5. LedgerInv /\ SourceInv
  BY ConfigsAssumption DEF Init, LedgerInv, SourceInv, Config
<1>. QED
  BY <1>1, <1>2, <1>3, <1>4, <1>5 DEF Inv

(* The image source a step leaves: the one there was, or the first one.    *)
SourceStep == UNCHANGED sourceVars \/ GetImageSource

(* The refusals a failing step counts: one of the request, or none.        *)
RefusedStep == UNCHANGED refused \/ Refused

(* A call that fails, at whatever stage, leaves nothing behind.            *)
LEMMA FailInv ==
  ASSUME Inv, pc \in Calling, Fail, SourceStep, RefusedStep
  PROVE  Inv'
<1> USE DEF Inv
<1>1. TypeOK'
  BY Values DEF TypeOK, Fail, CloseBody, RemoveTempFile, SourceStep, GetImageSource, sourceVars,
    RefusedStep, Refused, ledgerVars, EnforcesQuota, StageInv, SourceInv, Calling, HoldsBody
<1>2. StageInv'
  BY DEF Fail, CloseBody, StageInv, HoldsBody, HasLayer, HasFile
<1>3. DownloadInv'
  BY DEF Fail, DownloadInv
<1>4. FileInv'
  BY Values DEF TypeOK, FileInv, Fail, RemoveTempFile, ledgerVars, SkipsCheckSum, Verified
<1>5. ConversionInv'
  BY DEF Fail, ConversionInv, Converting
<1>6. LedgerInv'
  BY DEF Fail, LedgerInv, ledgerVars
<1>7. SourceInv'
  BY DEF TypeOK, Fail, SourceInv, SourceStep, GetImageSource, sourceVars, Calling
<1>. QED
  BY <1>1, <1>2, <1>3, <1>4, <1>5, <1>6, <1>7

-----------------------------------------------------------------------------
(* The steps that leave the files and the ledger alone.                    *)

(* What the file part of the invariant says does not depend on variables   *)
(* a step leaves alone.                                                    *)
LEMMA FramedFiles ==
  ASSUME Inv, UNCHANGED <<config, ledgerVars, blobTempFile, tmp>>
  PROVE  FileInv' /\ LedgerInv'
<1>1. FileInv'
  BY DEF Inv, FileInv, SkipsCheckSum, Verified, ledgerVars
<1>2. LedgerInv'
  BY DEF Inv, LedgerInv, ledgerVars
<1>. QED
  BY <1>1, <1>2

(* A retry either turns the loop once more or fails the call.              *)
LEMMA RetryInv ==
  ASSUME Inv, pc \in Calling, Retry, SourceStep, RefusedStep
  PROVE  Inv'
<1>1. CASE attempt < MAX_DOCKER_RETRIES
  <2> USE <1>1 DEF Inv
  <2>1. TypeOK'
    BY Values DEF TypeOK, Retry, SourceStep, GetImageSource, sourceVars, manifestVars, blobVars,
      RefusedStep, Refused, ledgerVars, EnforcesQuota, SourceInv, Calling
  <2>2. StageInv' /\ DownloadInv' /\ ConversionInv'
    BY DEF Retry, StageInv, DownloadInv, ConversionInv, manifestVars, blobVars, ledgerVars,
      Uncompressed, FitsWhatIsLeft, EnforcesQuota, CheckSumMatches, SkipsCheckSum
  <2>3. FileInv' /\ LedgerInv'
    BY FramedFiles DEF Retry, blobVars
  <2>4. SourceInv'
    BY DEF Retry, TypeOK, SourceInv, SourceStep, GetImageSource, sourceVars, Calling
  <2>. QED
    BY <2>1, <2>2, <2>3, <2>4
<1>2. CASE ~(attempt < MAX_DOCKER_RETRIES)
  BY <1>2, FailInv DEF Retry
<1>. QED
  BY <1>1, <1>2

(* Manifest, from the call to its return.                                  *)
LEMMA ManifestInv ==
  ASSUME Inv, CallManifest \/ ManifestStep
  PROVE  Inv'
<1> USE DEF Inv
<1>1. CASE CallManifest
  <2> USE <1>1
  <2>1. TypeOK'
    BY Values, ValuesAssumption DEF CallManifest, TypeOK, Calling, EnforcesQuota, ledgerVars, sourceVars, manifestVars, blobVars, Image
  <2>2. StageInv' /\ DownloadInv'
    BY DEF CallManifest, StageInv, DownloadInv, HoldsBody, HasLayer, HasFile, sourceVars, manifestVars, blobVars
  <2>3. FileInv' /\ LedgerInv'
    BY FramedFiles DEF CallManifest, blobVars
  <2>4. ConversionInv'
    BY Values, ValuesAssumption DEF CallManifest, ConversionInv, Converting, TypeOK, Image, sourceVars, manifestVars, blobVars
  <2>5. SourceInv'
    BY DEF CallManifest, TypeOK, SourceInv, GetImageSource, sourceVars, manifestVars, blobVars
  <2>. QED
    BY <2>1, <2>2, <2>3, <2>4, <2>5
<1>2. CASE GetImage
  <2> USE <1>2
  <2>1. TypeOK'
    BY Values, ValuesAssumption DEF GetImage, TypeOK, Calling, EnforcesQuota, ledgerVars, sourceVars, manifestVars, blobVars, Image, GetImageSource, SourceInv
  <2>2. StageInv' /\ DownloadInv'
    BY DEF GetImage, StageInv, DownloadInv, HoldsBody, HasLayer, HasFile, sourceVars, manifestVars, blobVars
  <2>3. FileInv' /\ LedgerInv'
    BY FramedFiles DEF GetImage, blobVars
  <2>4. ConversionInv'
    BY Values, ValuesAssumption DEF GetImage, ConversionInv, Converting, TypeOK, Image, sourceVars, manifestVars, blobVars
  <2>5. SourceInv'
    BY DEF GetImage, TypeOK, SourceInv, GetImageSource, sourceVars, manifestVars, blobVars
  <2>. QED
    BY <2>1, <2>2, <2>3, <2>4, <2>5
<1>3. CASE ConvertImage
  <2> USE <1>3
  <2>1. TypeOK'
    BY Values, ValuesAssumption DEF ConvertImage, TypeOK, Calling, EnforcesQuota, ledgerVars, sourceVars, manifestVars, blobVars, Image, NextV1Layer, ConversionInv
  <2>2. StageInv' /\ DownloadInv'
    BY DEF ConvertImage, StageInv, DownloadInv, HoldsBody, HasLayer, HasFile, sourceVars, manifestVars, blobVars, NextV1Layer
  <2>3. FileInv' /\ LedgerInv'
    BY FramedFiles DEF ConvertImage, blobVars
  <2>4. ConversionInv'
    BY Values, ValuesAssumption DEF ConvertImage, ConversionInv, Converting, TypeOK, Image, sourceVars, manifestVars, blobVars, NextV1Layer
  <2>5. SourceInv'
    BY DEF ConvertImage, TypeOK, SourceInv, GetImageSource, sourceVars, manifestVars, blobVars, NextV1Layer
  <2>. QED
    BY <2>1, <2>2, <2>3, <2>4, <2>5
<1>4. CASE V1DiffID
  <2> USE <1>4
  <2>1. TypeOK'
    BY Values, ValuesAssumption DEF V1DiffID, TypeOK, Calling, EnforcesQuota, ledgerVars, sourceVars, manifestVars, blobVars, Image, CloseBody, StageInv, HoldsBody, NextV1Layer, ConversionInv, Converting
  <2>2. StageInv' /\ DownloadInv'
    BY DEF V1DiffID, StageInv, DownloadInv, HoldsBody, HasLayer, HasFile, sourceVars, manifestVars, blobVars, CloseBody, NextV1Layer
  <2>3. FileInv' /\ LedgerInv'
    BY FramedFiles DEF V1DiffID, blobVars
  <2>4. ConversionInv'
    BY Values, ValuesAssumption DEF V1DiffID, ConversionInv, Converting, TypeOK, Image, sourceVars, manifestVars, blobVars, CloseBody, NextV1Layer
  <2>5. SourceInv'
    BY DEF V1DiffID, TypeOK, SourceInv, GetImageSource, sourceVars, manifestVars, blobVars, CloseBody, NextV1Layer
  <2>. QED
    BY <2>1, <2>2, <2>3, <2>4, <2>5
<1>5. CASE UpdateImage
  <2> USE <1>5
  <2>1. TypeOK'
    BY Values, ValuesAssumption DEF UpdateImage, TypeOK, Calling, EnforcesQuota, ledgerVars, sourceVars, manifestVars, blobVars, Image, ConversionInv, Converting
  <2>2. StageInv' /\ DownloadInv'
    BY DEF UpdateImage, StageInv, DownloadInv, HoldsBody, HasLayer, HasFile, sourceVars, manifestVars, blobVars
  <2>3. FileInv' /\ LedgerInv'
    BY FramedFiles DEF UpdateImage, blobVars
  <2>4. ConversionInv'
    BY Values, ValuesAssumption DEF UpdateImage, ConversionInv, Converting, TypeOK, Image, sourceVars, manifestVars, blobVars
  <2>5. SourceInv'
    BY DEF UpdateImage, TypeOK, SourceInv, GetImageSource, sourceVars, manifestVars, blobVars
  <2>. QED
    BY <2>1, <2>2, <2>3, <2>4, <2>5
<1>6. CASE GetConfig
  <2> USE <1>6
  <2>1. TypeOK'
    BY Values, ValuesAssumption DEF GetConfig, TypeOK, Calling, EnforcesQuota, ledgerVars, sourceVars, manifestVars, blobVars, Image
  <2>2. StageInv' /\ DownloadInv'
    BY DEF GetConfig, StageInv, DownloadInv, HoldsBody, HasLayer, HasFile, sourceVars, manifestVars, blobVars
  <2>3. FileInv' /\ LedgerInv'
    BY FramedFiles DEF GetConfig, blobVars
  <2>4. ConversionInv'
    BY Values, ValuesAssumption DEF GetConfig, ConversionInv, Converting, TypeOK, Image, sourceVars, manifestVars, blobVars
  <2>5. SourceInv'
    BY DEF GetConfig, TypeOK, SourceInv, GetImageSource, sourceVars, manifestVars, blobVars
  <2>. QED
    BY <2>1, <2>2, <2>3, <2>4, <2>5
<1>7. CASE GetImageFails
  BY <1>7, RetryInv DEF GetImageFails, GetImageSourceFails, SourceStep, RefusedStep, Calling
<1>8. CASE GetConfigFails
  BY <1>8, RetryInv DEF GetConfigFails, SourceStep, RefusedStep, Calling
<1>9. CASE ConversionFails
  BY <1>9, FailInv DEF ConversionFails, SourceStep, RefusedStep, Calling
<1>. QED
  BY <1>1, <1>2, <1>3, <1>4, <1>5, <1>6, <1>7, <1>8, <1>9 DEF ManifestStep

(* The steps of Blob, and of its retry loop, that change no file.          *)
LEMMA BlobFrontInv ==
  ASSUME Inv,
         \/ \E l \in LayerInfos : CallBlob(l)
         \/ BlobImageSource \/ BlobImageSourceFails
         \/ GetBlob \/ GetBlobFails
         \/ ValidateLayerSize \/ LayerSizeDiffers
         \/ CheckBlobID \/ BlobIDDiffers
  PROVE  Inv'
<1> USE DEF Inv
<1>1. ASSUME NEW l \in LayerInfos, CallBlob(l) PROVE Inv'
  <2> USE <1>1
  <2>1. TypeOK'
    BY Values DEF CallBlob, TypeOK, Calling, EnforcesQuota, ledgerVars, sourceVars
  <2>2. StageInv' /\ DownloadInv'
    BY Values DEF CallBlob, StageInv, DownloadInv, HoldsBody, HasLayer, HasFile
  <2>3. FileInv' /\ LedgerInv'
    BY FramedFiles DEF CallBlob
  <2>4. ConversionInv' /\ SourceInv'
    BY DEF CallBlob, ConversionInv, Converting, SourceInv, sourceVars
  <2>. QED
    BY <2>1, <2>2, <2>3, <2>4
<1>2. CASE GetBlob
  <2> USE <1>2
  <2>1. TypeOK'
    BY Values DEF GetBlob, TypeOK, Calling, EnforcesQuota, ledgerVars, sourceVars, manifestVars, blobVars, StageInv, HoldsBody
  <2>2. StageInv'
    BY Values DEF GetBlob, StageInv, HoldsBody, HasLayer, HasFile, sourceVars, manifestVars, blobVars
  <2>3. DownloadInv'
    BY DEF GetBlob, DownloadInv, Uncompressed, FitsWhatIsLeft, EnforcesQuota, CheckSumMatches,
      SkipsCheckSum, ledgerVars, blobVars
  <2>4. FileInv' /\ LedgerInv'
    BY FramedFiles DEF GetBlob, blobVars
  <2>5. ConversionInv' /\ SourceInv'
    BY DEF GetBlob, TypeOK, ConversionInv, Converting, SourceInv, GetImageSource, sourceVars, manifestVars, blobVars
  <2>. QED
    BY <2>1, <2>2, <2>3, <2>4, <2>5
<1>3. CASE BlobImageSource
  <2> USE <1>3
  <2>1. TypeOK'
    BY Values DEF BlobImageSource, TypeOK, Calling, EnforcesQuota, ledgerVars, sourceVars, manifestVars, blobVars, GetImageSource, SourceInv
  <2>2. StageInv'
    BY Values DEF BlobImageSource, StageInv, HoldsBody, HasLayer, HasFile, sourceVars, manifestVars, blobVars
  <2>3. DownloadInv'
    BY DEF BlobImageSource, DownloadInv, Uncompressed, FitsWhatIsLeft, EnforcesQuota, CheckSumMatches,
      SkipsCheckSum, ledgerVars, blobVars
  <2>4. FileInv' /\ LedgerInv'
    BY FramedFiles DEF BlobImageSource, blobVars
  <2>5. ConversionInv' /\ SourceInv'
    BY DEF BlobImageSource, TypeOK, ConversionInv, Converting, SourceInv, GetImageSource, sourceVars, manifestVars, blobVars
  <2>. QED
    BY <2>1, <2>2, <2>3, <2>4, <2>5
<1>4. CASE ValidateLayerSize
  <2> USE <1>4
  <2>1. TypeOK'
    BY Values DEF ValidateLayerSize, TypeOK, Calling, EnforcesQuota, ledgerVars, sourceVars, manifestVars, blobVars
  <2>2. StageInv'
    BY Values DEF ValidateLayerSize, StageInv, HoldsBody, HasLayer, HasFile, sourceVars, manifestVars, blobVars
  <2>3. DownloadInv'
    BY DEF ValidateLayerSize, DownloadInv, Uncompressed, FitsWhatIsLeft, EnforcesQuota, CheckSumMatches,
      SkipsCheckSum, ledgerVars, blobVars
  <2>4. FileInv' /\ LedgerInv'
    BY FramedFiles DEF ValidateLayerSize, blobVars
  <2>5. ConversionInv' /\ SourceInv'
    BY DEF ValidateLayerSize, TypeOK, ConversionInv, Converting, SourceInv, GetImageSource, sourceVars, manifestVars, blobVars
  <2>. QED
    BY <2>1, <2>2, <2>3, <2>4, <2>5
<1>5. CASE CheckBlobID
  <2> USE <1>5
  <2>1. TypeOK'
    BY Values DEF CheckBlobID, TypeOK, Calling, EnforcesQuota, ledgerVars, sourceVars, manifestVars, blobVars
  <2>2. StageInv'
    BY Values DEF CheckBlobID, StageInv, HoldsBody, HasLayer, HasFile, sourceVars, manifestVars, blobVars
  <2>3. DownloadInv'
    BY DEF CheckBlobID, DownloadInv, Uncompressed, FitsWhatIsLeft, EnforcesQuota, CheckSumMatches,
      SkipsCheckSum, ledgerVars, blobVars
  <2>4. FileInv' /\ LedgerInv'
    BY FramedFiles DEF CheckBlobID, blobVars
  <2>5. ConversionInv' /\ SourceInv'
    BY DEF CheckBlobID, TypeOK, ConversionInv, Converting, SourceInv, GetImageSource, sourceVars, manifestVars, blobVars
  <2>. QED
    BY <2>1, <2>2, <2>3, <2>4, <2>5
<1>6. CASE BlobImageSourceFails
  BY <1>6, FailInv DEF BlobImageSourceFails, GetImageSourceFails, SourceStep, RefusedStep, Calling
<1>7. CASE GetBlobFails
  BY <1>7, RetryInv DEF GetBlobFails, SourceStep, RefusedStep, Calling
<1>8. CASE LayerSizeDiffers
  BY <1>8, FailInv DEF LayerSizeDiffers, SourceStep, RefusedStep, Calling
<1>9. CASE BlobIDDiffers
  BY <1>9, FailInv DEF BlobIDDiffers, SourceStep, RefusedStep, Calling
<1>. QED
  BY <1>1, <1>2, <1>3, <1>4, <1>5, <1>6, <1>7, <1>8, <1>9

-----------------------------------------------------------------------------
(* The steps that write, hand out and remove files.                        *)

(* Creating the temporary file (layer_source.go 119-122) keeps the         *)
(* invariant: the file is fresh, and Blob owns it until it returns.        *)
LEMMA CreateTempInv ==
  ASSUME Inv, CreateTemp
  PROVE  Inv'
<1> USE DEF Inv, CreateTemp
<1>1. PICK f \in Files :
        /\ tmp[f] = Absent
        /\ tmp' = [tmp EXCEPT ![f] = Partial]
        /\ blobTempFile' = f
  OBVIOUS
<1>2. TypeOK'
  BY <1>1 DEF TypeOK, Calling, EnforcesQuota, ledgerVars, sourceVars, manifestVars
<1>3. StageInv' /\ DownloadInv'
  BY <1>1, Values DEF StageInv, DownloadInv, HoldsBody, HasLayer, HasFile
<1>4. FileInv'
  BY <1>1, Values, ContentsAssumption
  DEF TypeOK, FileInv, StageInv, HasFile, SkipsCheckSum, Verified, ledgerVars
<1>5. ConversionInv' /\ LedgerInv' /\ SourceInv'
  BY DEF ConversionInv, Converting, LedgerInv, SourceInv, ledgerVars, sourceVars, manifestVars
<1>. QED
  BY <1>2, <1>3, <1>4, <1>5

(* Copying within the quota (layer_source.go 151-163) keeps the invariant: *)
(* what has been copied fits what remains.                                 *)
LEMMA CopyInv ==
  ASSUME Inv, Copy
  PROVE  Inv'
<1> USE DEF Inv, Copy
<1>1. blob \in Blob /\ layer \in LayerInfos /\ blobTempFile \in Files
  BY DEF TypeOK, StageInv, HoldsBody, HasLayer, HasFile
<1>2. Uncompressed \in Contents /\ Uncompressed' = Uncompressed
  BY <1>1, Values DEF Uncompressed
<1>3. TypeOK'
  BY <1>1, <1>2 DEF TypeOK, Calling, EnforcesQuota, ledgerVars, sourceVars, manifestVars
<1>4. StageInv'
  BY DEF StageInv, HoldsBody, HasLayer, HasFile
<1>5. DownloadInv'
  BY <1>1, <1>2 DEF TypeOK, DownloadInv, FitsWhatIsLeft, EnforcesQuota, ledgerVars
<1>6. FileInv'
  BY <1>1, <1>2, Values DEF TypeOK, FileInv, SkipsCheckSum, Verified, ledgerVars
<1>7. ConversionInv' /\ LedgerInv' /\ SourceInv'
  BY DEF ConversionInv, Converting, LedgerInv, SourceInv, ledgerVars, sourceVars, manifestVars
<1>. QED
  BY <1>3, <1>4, <1>5, <1>6, <1>7

(* Both digests have been compared by the time a file is handed out.       *)
LEMMA CheckDiffIDInv ==
  ASSUME Inv, CheckDiffID
  PROVE  Inv'
<1> USE DEF Inv, CheckDiffID
<1> DEFINE f == blobTempFile
           c == tmp[blobTempFile]
<1>1. blob \in Blob /\ layer \in LayerInfos /\ f \in Files
  BY DEF TypeOK, StageInv, HoldsBody, HasLayer, HasFile
<1>2. c \in Contents /\ c = Uncompressed /\ FitsWhatIsLeft(c) /\ Length[c] \in Nat
  BY Values DEF DownloadInv
<1>3. SkipsCheckSum \/ Verified(layer, c)
  BY <1>2 DEF DownloadInv, CheckSumMatches, Verified, Uncompressed
<1>4. TypeOK'
  BY <1>1, <1>2, Values
  DEF TypeOK, Calling, EnforcesQuota, FitsWhatIsLeft, Charge, CloseBody, StageInv, HoldsBody,
      sourceVars, manifestVars
<1>5. StageInv' /\ DownloadInv'
  BY DEF StageInv, DownloadInv, CloseBody, HoldsBody, HasLayer, HasFile
<1>6. FileInv'
  BY <1>1, <1>2, <1>3, Values DEF TypeOK, FileInv, SkipsCheckSum, Verified
<1>7. LedgerInv'
  BY <1>2, ConfigsAssumption DEF LedgerInv, Charge, TypeOK, Config
<1>8. ConversionInv' /\ SourceInv'
  BY DEF ConversionInv, Converting, SourceInv, sourceVars, manifestVars
<1>. QED
  BY <1>4, <1>5, <1>6, <1>7, <1>8

(* BlobReader.Close keeps the invariant: a file handed out goes away.      *)
LEMMA RemoveFileInv ==
  ASSUME Inv, NEW f \in Files, RemoveFile(f)
  PROVE  Inv'
<1> USE DEF Inv, RemoveFile
<1>1. TypeOK'
  BY DEF TypeOK, EnforcesQuota, sourceVars, manifestVars
<1>2. StageInv' /\ DownloadInv'
  BY DEF StageInv, DownloadInv
<1>3. FileInv'
  BY Values DEF TypeOK, FileInv, StageInv, HasFile, SkipsCheckSum, Verified
<1>4. ConversionInv' /\ LedgerInv' /\ SourceInv'
  BY DEF ConversionInv, LedgerInv, SourceInv, sourceVars, manifestVars
<1>. QED
  BY <1>1, <1>2, <1>3, <1>4

(* LayerSource.Close keeps the invariant: no image source stays open.      *)
LEMMA CloseInv ==
  ASSUME Inv, Close
  PROVE  Inv'
<1> USE DEF Inv, Close
<1>1. TypeOK' /\ SourceInv'
  BY DEF TypeOK, SourceInv, EnforcesQuota, ledgerVars, manifestVars, blobVars
<1>2. StageInv' /\ DownloadInv'
  BY DEF StageInv, DownloadInv, HoldsBody, HasLayer, HasFile, blobVars
<1>3. FileInv' /\ LedgerInv'
  BY FramedFiles DEF blobVars
<1>4. ConversionInv'
  BY DEF ConversionInv, Converting, manifestVars
<1>. QED
  BY <1>1, <1>2, <1>3, <1>4

-----------------------------------------------------------------------------

(* Every step maintains the invariant.                                     *)
LEMMA NextInv == Inv /\ [Next]_vars => Inv'
<1> SUFFICES ASSUME Inv, [Next]_vars PROVE Inv'
  OBVIOUS
<1>1. CASE CallManifest \/ ManifestStep
  BY <1>1, ManifestInv
<1>2. CASE BlobStep
  <2>1. CASE DownloadFails
    BY <2>1, FailInv DEF DownloadFails, SourceStep, RefusedStep, Calling
  <2>2. CASE DiffIDDiffers
    BY <2>2, FailInv DEF DiffIDDiffers, SourceStep, RefusedStep, Calling
  <2>. QED
    BY <1>2, <2>1, <2>2, BlobFrontInv, CreateTempInv, CopyInv, CheckDiffIDInv DEF BlobStep
<1>3. CASE GetBlob \/ GetBlobFails \/ \E l \in LayerInfos : CallBlob(l)
  BY <1>3, BlobFrontInv
<1>4. ASSUME NEW f \in Files, RemoveFile(f) PROVE Inv'
  BY <1>4, RemoveFileInv
<1>5. CASE Close
  BY <1>5, CloseInv
<1>6. CASE UNCHANGED vars
  BY <1>6 DEF vars, sourceVars, ledgerVars, manifestVars, blobVars, Inv, TypeOK, StageInv,
    DownloadInv, FileInv, ConversionInv, LedgerInv, SourceInv, EnforcesQuota, Uncompressed,
    FitsWhatIsLeft, CheckSumMatches, SkipsCheckSum, Verified
<1>. QED
  BY <1>1, <1>2, <1>3, <1>4, <1>5, <1>6 DEF Next, CallStep

(* The inductive invariant of LayerSource.                                 *)
THEOREM Invariance == Spec => []Inv
  BY InitInv, NextInv, PTL DEF Spec

(* The variables keep their types; in particular, what remains of a quota  *)
(* that is enforced is never negative, which is what NewQuotaedReader is   *)
(* given.                                                                  *)
THEOREM TypeCorrect == Spec => []TypeOK
<1>1. Inv => TypeOK
  BY DEF Inv
<1>. QED
  BY Invariance, <1>1, PTL

(* Whoever is handed a file finds in it the layer the image names.         *)
THEOREM DeliveriesAreVerified == Spec => []DeliveredIsVerified
<1>1. Inv => DeliveredIsVerified
  BY DEF Inv, FileInv, DeliveredIsVerified, SkipsCheckSum
<1>. QED
  BY Invariance, <1>1, PTL

(* The layers of an image together stay within its disk limit.             *)
THEOREM QuotaIsRespected == Spec => []QuotaRespected
<1>1. Inv => QuotaRespected
  BY ConfigsAssumption DEF Inv, TypeOK, LedgerInv, QuotaRespected, EnforcesQuota, Config
<1>. QED
  BY Invariance, <1>1, PTL

(* A call that fails is not charged.                                       *)
THEOREM FailuresCostNothing == Spec => []FailedBlobCostsNothing
<1>1. Inv => FailedBlobCostsNothing
  BY DEF Inv, LedgerInv, FailedBlobCostsNothing
<1>. QED
  BY Invariance, <1>1, PTL

(* No call leaves behind a file or a response body.                        *)
THEOREM NoLeaks == Spec => []NothingLeaks
<1>1. Inv => NothingLeaks
  BY Values DEF Inv, StageInv, FileInv, NothingLeaks, HoldsBody, HasFile
<1>. QED
  BY Invariance, <1>1, PTL

(* There is one image source at most, and none once Close has been called. *)
THEOREM SingletonSource == Spec => []OneImageSource
<1>1. Inv => OneImageSource
  BY DEF Inv, SourceInv, OneImageSource
<1>. QED
  BY Invariance, <1>1, PTL

(* The conversion of a schema 1 image misses no layer.                     *)
THEOREM ConversionsAreComplete == Spec => []ConversionIsComplete
<1>1. Inv => ConversionIsComplete
  BY DEF Inv, ConversionInv, ConversionIsComplete
<1>. QED
  BY Invariance, <1>1, PTL

(* The turns of a loop count the refusals of its own request: the request  *)
(* at hand is at its first turn when it has not been refused yet, whatever *)
(* the requests before it met.                                             *)
RequestInv ==
  /\ pc \in Calling => refused = IF pc \in Requesting THEN attempt - 1 ELSE 0
  /\ pc = "getImageSource" => attempt = 1

(* Every loop starts from one (layer_source.go 71, 204 and 264), and every *)
(* turn of it that fails is one refusal.                                   *)
LEMMA RequestStep ==
  ASSUME Inv, RequestInv, [Next]_vars
  PROVE  RequestInv'
<1> USE DEF RequestInv, Requesting, Calling
<1>1. attempt \in 1..3 /\ refused \in 0..3 /\ MAX_DOCKER_RETRIES = 3
  BY DEF Inv, TypeOK, MAX_DOCKER_RETRIES
<1>2. CASE GetImageFails \/ GetConfigFails \/ GetBlobFails
  <2>1. CASE Fail
    BY <2>1 DEF Fail
  <2>2. CASE attempt < MAX_DOCKER_RETRIES /\ attempt' = attempt + 1 /\ pc' = pc
    BY <1>1, <1>2, <2>2 DEF GetImageFails, GetConfigFails, GetBlobFails, Refused
  <2>. QED
    BY <1>2, <2>1, <2>2 DEF GetImageFails, GetConfigFails, GetBlobFails, Retry
<1>3. CASE \/ CallManifest \/ GetImage \/ ConvertImage \/ V1DiffID \/ UpdateImage \/ GetConfig
           \/ \E l \in LayerInfos : CallBlob(l)
  BY <1>3 DEF CallManifest, GetImage, ConvertImage, V1DiffID, UpdateImage, GetConfig, CallBlob,
    NextV1Layer
<1>4. CASE \/ BlobImageSource \/ GetBlob \/ ValidateLayerSize \/ CreateTemp \/ Copy
           \/ CheckBlobID \/ CheckDiffID
  BY <1>4 DEF BlobImageSource, GetBlob, ValidateLayerSize, CreateTemp, Copy, CheckBlobID,
    CheckDiffID
<1>5. CASE \/ ConversionFails \/ BlobImageSourceFails \/ LayerSizeDiffers \/ DownloadFails
           \/ BlobIDDiffers \/ DiffIDDiffers
  BY <1>5 DEF ConversionFails, BlobImageSourceFails, LayerSizeDiffers, DownloadFails,
    BlobIDDiffers, DiffIDDiffers, Fail
<1>6. CASE Close \/ \E f \in Files : RemoveFile(f)
  BY <1>6 DEF Close, RemoveFile
<1>7. CASE UNCHANGED vars
  BY <1>7 DEF vars
<1>. QED
  BY <1>2, <1>3, <1>4, <1>5, <1>6, <1>7 DEF Next, CallStep, ManifestStep, BlobStep

(* A call gives up on a request at its third refusal in a row: not before  *)
(* it, and not after it, whatever the requests before it met.              *)
THEOREM RetriesComeFirst == Spec => RetriesBeforeFailing
<1>1. Init => RequestInv
  BY DEF Init, RequestInv, Calling
<1>2. Inv /\ RequestInv /\ [Next]_vars =>
        [(pc \in Requesting) => (result' = "failed" <=> refused' = MAX_DOCKER_RETRIES)]_vars
  <2> SUFFICES ASSUME Inv, RequestInv, Next, pc \in Requesting
               PROVE  result' = "failed" <=> refused' = MAX_DOCKER_RETRIES
    OBVIOUS
  <2>1. /\ result = "none"
        /\ refused = attempt - 1 /\ attempt \in 1..3 /\ MAX_DOCKER_RETRIES = 3
    BY DEF Inv, TypeOK, ConversionInv, RequestInv, Requesting, Calling, MAX_DOCKER_RETRIES
  <2>2. CASE GetImage \/ GetConfig \/ GetBlob
    BY <2>1, <2>2 DEF GetImage, GetConfig, GetBlob
  <2>3. CASE GetImageFails \/ GetConfigFails \/ GetBlobFails
    <3>1. refused' = attempt
      BY <2>1, <2>3 DEF GetImageFails, GetConfigFails, GetBlobFails, Refused
    <3>2. result' = IF attempt < 3 THEN "none" ELSE "failed"
      BY <2>1, <2>3 DEF GetImageFails, GetConfigFails, GetBlobFails, Retry, Fail
    <3>. QED
      BY <2>1, <3>1, <3>2
  <2>4. \/ GetImage \/ GetConfig \/ GetBlob
        \/ GetImageFails \/ GetConfigFails \/ GetBlobFails
    BY DEF Requesting, Next, CallStep, ManifestStep, BlobStep, CallManifest, CallBlob, RemoveFile,
       Close, ConvertImage, V1DiffID, UpdateImage, ConversionFails, BlobImageSource,
       BlobImageSourceFails, ValidateLayerSize, LayerSizeDiffers, CreateTemp, Copy,
       DownloadFails, CheckBlobID, BlobIDDiffers, CheckDiffID, DiffIDDiffers
  <2>. QED
    BY <2>2, <2>3, <2>4
<1>3. Inv /\ RequestInv /\ [Next]_vars => RequestInv'
  BY RequestStep
<1>. QED
  BY Invariance, <1>1, <1>2, <1>3, PTL DEF Spec, RetriesBeforeFailing

-----------------------------------------------------------------------------
(* LayerSource implements VerifiedSource.                                  *)

(* The files in the hands of the caller: what Promise calls files.         *)
Handed == [f \in Files |-> IF owned[f] = NoLayer THEN Absent ELSE tmp[f]]

(* A new layer source is a new source of the contract.                     *)
LEMMA InitPromise == Init => Promise!Init
  BY DEF Init, Promise!Init

(* A step that leaves the ledger and the handed out files alone is a       *)
(* stutter of the promise.                                                 *)
LEMMA StutterPromise ==
  ASSUME UNCHANGED <<config, ledgerVars>>, Handed' = Handed, pc # "closed", pc' # "closed"
  PROVE  UNCHANGED Promise!promiseVars
  BY DEF Promise!promiseVars, ledgerVars, Handed

(* The caller's files do not change when a call writes or drops its own.   *)
LEMMA HandedUnchanged ==
  ASSUME Inv, UNCHANGED owned,
         \A f \in Files : f # blobTempFile /\ tmp[f] # Absent => tmp'[f] = tmp[f]
  PROVE  Handed' = Handed
<1>1. ASSUME NEW f \in Files, owned[f] # NoLayer PROVE tmp'[f] = tmp[f]
  BY <1>1 DEF Inv, FileInv
<1>. QED
  BY <1>1 DEF Handed

(* A Blob that fails is a stutter of the contract.                         *)
LEMMA FailPromise ==
  ASSUME Inv, pc \in Calling, Fail
  PROVE  UNCHANGED Promise!promiseVars
<1>1. Handed' = Handed
  BY HandedUnchanged DEF Fail, RemoveTempFile, ledgerVars
<1>. QED
  BY <1>1, StutterPromise DEF Fail, Calling

(* A retry is a stutter of the contract.                                   *)
LEMMA RetryPromise ==
  ASSUME Inv, pc \in Calling, Retry
  PROVE  UNCHANGED Promise!promiseVars
<1>1. CASE attempt < MAX_DOCKER_RETRIES
  <2>1. UNCHANGED <<config, ledgerVars, tmp, pc>>
    BY <1>1 DEF Retry, blobVars
  <2>2. Handed' = Handed
    BY <2>1 DEF Handed, ledgerVars
  <2>. QED
    BY <2>1, <2>2, StutterPromise DEF Calling
<1>2. CASE ~(attempt < MAX_DOCKER_RETRIES)
  BY <1>2, FailPromise DEF Retry
<1>. QED
  BY <1>1, <1>2

(* The one step of Blob the caller sees.                                   *)
LEMMA DeliverPromise ==
  ASSUME Inv, CheckDiffID
  PROVE  \E l \in LayerInfos, f \in Files, c \in Contents : Promise!Deliver(l, f, c)
<1> DEFINE f == blobTempFile
           c == tmp[blobTempFile]
<1> USE DEF Inv, CheckDiffID
<1>1. layer \in LayerInfos /\ f \in Files /\ c \in Contents
  BY DEF TypeOK, StageInv, DownloadInv, HasLayer, HasFile
<1>2. owned[f] = NoLayer
  BY <1>1 DEF FileInv
<1>3. Promise!ContentOf(layer, c)
  BY DEF DownloadInv, CheckSumMatches, SkipsCheckSum, Uncompressed, Promise!ContentOf
<1>4. config.skipImageQuotaValidation \/ Length[c] <= remainingImageQuota
  BY DEF DownloadInv, FitsWhatIsLeft, EnforcesQuota
<1>5. Handed' = [Handed EXCEPT ![f] = c]
  BY <1>1, <1>2, Values DEF Handed, TypeOK
<1>6. Promise!Deliver(layer, f, c)
  BY <1>1, <1>2, <1>3, <1>4, <1>5 DEF Promise!Deliver, Handed, Charge
<1>. QED
  BY <1>1, <1>6 DEF Promise!Deliver

(* Every step is a step of the promise or invisible to the caller.         *)
LEMMA NextPromise == Inv /\ [Next]_vars => [Promise!Next]_(Promise!promiseVars)
<1> SUFFICES ASSUME Inv, [Next]_vars PROVE [Promise!Next]_(Promise!promiseVars)
  OBVIOUS
<1>1. CASE CheckDiffID
  BY <1>1, DeliverPromise DEF Promise!Next
<1>2. ASSUME NEW f \in Files, RemoveFile(f) PROVE Promise!Next
  <2>1. owned[f] # NoLayer /\ tmp[f] # Absent
    BY <1>2 DEF RemoveFile, Inv, FileInv
  <2>2. Handed' = [Handed EXCEPT ![f] = Absent]
    BY <1>2 DEF RemoveFile, Handed, Inv, TypeOK
  <2>3. Promise!Remove(f)
    BY <1>2, <2>1, <2>2 DEF RemoveFile, Promise!Remove, Handed
  <2>. QED
    BY <2>3 DEF Promise!Next
<1>3. CASE Close
  <2>1. Promise!Finish
    BY <1>3 DEF Close, Promise!Finish, ledgerVars, blobVars
  <2>. QED
    BY <2>1 DEF Promise!Next
<1>4. CASE GetImageFails \/ GetConfigFails \/ GetBlobFails
  BY <1>4, RetryPromise DEF GetImageFails, GetConfigFails, GetBlobFails, Calling
<1>5. CASE \/ ConversionFails \/ BlobImageSourceFails \/ LayerSizeDiffers
           \/ DownloadFails \/ BlobIDDiffers \/ DiffIDDiffers
  BY <1>5, FailPromise
  DEF ConversionFails, BlobImageSourceFails, LayerSizeDiffers, DownloadFails, BlobIDDiffers,
      DiffIDDiffers, Calling
<1>6. CASE CreateTemp \/ Copy
  <2>1. UNCHANGED <<config, ledgerVars>> /\ pc # "closed" /\ pc' # "closed"
    BY <1>6 DEF CreateTemp, Copy
  <2>2. \A f \in Files : f # blobTempFile /\ tmp[f] # Absent => tmp'[f] = tmp[f]
    BY <1>6 DEF CreateTemp, Copy, Inv, TypeOK
  <2>. QED
    BY <2>1, <2>2, HandedUnchanged, StutterPromise DEF ledgerVars
<1>7. CASE \/ CallManifest \/ GetImage \/ ConvertImage \/ V1DiffID \/ UpdateImage \/ GetConfig
           \/ GetBlob \/ BlobImageSource \/ ValidateLayerSize \/ CheckBlobID
           \/ \E l \in LayerInfos : CallBlob(l)
  <2>1. UNCHANGED <<config, ledgerVars, tmp>> /\ pc # "closed" /\ pc' # "closed"
    BY <1>7 DEF CallManifest, GetImage, ConvertImage, V1DiffID, UpdateImage, GetConfig, GetBlob,
      BlobImageSource, ValidateLayerSize, CheckBlobID, CallBlob, NextV1Layer, blobVars
  <2>2. Handed' = Handed
    BY <2>1 DEF Handed, ledgerVars
  <2>. QED
    BY <2>1, <2>2, StutterPromise
<1>8. CASE UNCHANGED vars
  BY <1>8 DEF vars, ledgerVars, blobVars, Promise!promiseVars
<1>. QED
  BY <1>1, <1>2, <1>3, <1>4, <1>5, <1>6, <1>7, <1>8
  DEF Next, CallStep, ManifestStep, BlobStep

(* Whatever registry, network and disk do, the caller sees the promise of  *)
(* VerifiedSource kept.                                                    *)
THEOREM Implementation == Spec => ImplementsPromise
<1>1. ImplementsPromise <=> Promise!Spec
  BY DEF ImplementsPromise
<1>. QED
  BY Invariance, InitPromise, NextPromise, <1>1, PTL DEF Spec, Promise!Spec

-----------------------------------------------------------------------------
(* Calls end.  That they do under fairness is CallsReturn, which TLC       *)
(* checks; here is the variant behind it, for every image.                 *)

(* How many steps a call has left at most, once it has an image, or how    *)
(* many turns of its loop if it does not: how long the image is, only the  *)
(* registry knows.                                                         *)
TurnsLeft == MAX_DOCKER_RETRIES - attempt
LayersLeft == Len(image.layers) - Len(diffIDs)
StepsLeft ==
  CASE pc = "getImage"          -> 1 + TurnsLeft
    [] pc = "convertImage"      -> 4 * Len(image.layers) + 5
    [] pc = "getV1Blob"         -> 4 * LayersLeft + 2 + TurnsLeft
    [] pc = "v1DiffID"          -> 4 * LayersLeft + 1
    [] pc = "updateImage"       -> 4
    [] pc = "getConfig"         -> 1 + TurnsLeft
    [] pc = "getImageSource"    -> 9
    [] pc = "getBlob"           -> 6 + TurnsLeft
    [] pc = "validateLayerSize" -> 5
    [] pc = "createTemp"        -> 4
    [] pc = "copy"              -> 3
    [] pc = "checkBlobID"       -> 2
    [] pc = "checkDiffID"       -> 1
    [] OTHER                    -> 0

(* A step returns, or it has got the image, or it leaves fewer steps.      *)
GetsOn ==
  \/ pc' = "idle"
  \/ pc = "getImage" /\ pc' = "convertImage"
  \/ StepsLeft' < StepsLeft /\ (pc' = "getImage" <=> pc = "getImage")

(* What the number of steps is made of.                                    *)
Lefts ==
  /\ TurnsLeft \in 0 .. 2
  /\ pc \in {"convertImage", "getV1Blob", "v1DiffID", "updateImage"} => Len(image.layers) \in Nat
  /\ pc \in {"getV1Blob", "v1DiffID"} => LayersLeft \in Nat \ {0}

(* None of it is negative.                                                 *)
LEMMA LeftsInv == Inv => Lefts
<1> SUFFICES ASSUME Inv PROVE Lefts
  OBVIOUS
<1>1. TurnsLeft \in 0 .. 2
  BY Values DEF Inv, TypeOK, TurnsLeft
<1>2. pc \in {"convertImage", "getV1Blob", "v1DiffID", "updateImage"} => Len(image.layers) \in Nat
  BY DEF Inv, TypeOK, ConversionInv, Image, Converting
<1>3. Len(diffIDs) \in Nat
  BY DEF Inv, TypeOK
<1>4. pc \in {"getV1Blob", "v1DiffID"} => LayersLeft \in Nat \ {0}
  BY <1>2, <1>3 DEF Inv, ConversionInv, LayersLeft, Converting
<1>. QED
  BY <1>1, <1>2, <1>4 DEF Lefts

(* Nor is their sum.                                                       *)
LEMMA StepsLeftNat ==
  ASSUME Lefts
  PROVE  StepsLeft \in Nat
BY DEF Lefts, StepsLeft

(* A turn of a loop that fails is one turn fewer, or the end of the call.  *)
LEMMA RetryGetsOn ==
  ASSUME Inv, Lefts, pc \in {"getImage", "getConfig", "getBlob", "getV1Blob"}, Retry
  PROVE  GetsOn
<1>1. CASE Fail
  BY <1>1 DEF Fail, GetsOn
<1>2. CASE attempt' = attempt + 1 /\ UNCHANGED <<pc, manifestVars>>
  <2>1. TurnsLeft' = TurnsLeft - 1 /\ LayersLeft' = LayersLeft
    BY <1>2, Values DEF Inv, TypeOK, TurnsLeft, LayersLeft, manifestVars
  <2>2. StepsLeft' < StepsLeft
    BY <1>2, <2>1 DEF Lefts, StepsLeft
  <2>. QED
    BY <1>2, <2>2 DEF GetsOn
<1>. QED
  BY <1>1, <1>2 DEF Retry

(* The steps of Manifest that succeed.  The four steps of a layer pay for  *)
(* the attempts at the next one.                                           *)
LEMMA ManifestGetsOn ==
  ASSUME Inv, Lefts, Lefts', ConvertImage \/ V1DiffID \/ UpdateImage \/ GetConfig
  PROVE  GetsOn
<1>1. CASE ConvertImage
  <2>1. /\ pc = "convertImage" /\ pc' \in {"getV1Blob", "updateImage", "getConfig"}
        /\ diffIDs = << >> /\ UNCHANGED manifestVars
    BY <1>1 DEF ConvertImage, NextV1Layer, Inv, ConversionInv, Converting
  <2>2. Len(diffIDs) = 0 /\ LayersLeft' = Len(image.layers)
    BY <2>1 DEF LayersLeft, manifestVars
  <2>3. StepsLeft' < StepsLeft
    BY <2>1, <2>2 DEF Lefts, StepsLeft
  <2>. QED
    BY <2>1, <2>3 DEF GetsOn
<1>2. CASE V1DiffID
  <2>1. /\ pc = "v1DiffID" /\ pc' = NextV1Layer(Len(diffIDs) + 1)
        /\ Len(diffIDs') = Len(diffIDs) + 1 /\ image' = image /\ Len(diffIDs) \in Nat
    BY <1>2, Values DEF V1DiffID, Inv, TypeOK
  <2>2. LayersLeft' = LayersLeft - 1 /\ pc' \in {"getV1Blob", "updateImage"}
    BY <2>1 DEF Lefts, LayersLeft, NextV1Layer
  <2>3. StepsLeft' < StepsLeft
    BY <2>1, <2>2 DEF Lefts, StepsLeft
  <2>. QED
    BY <2>1, <2>2, <2>3 DEF GetsOn
<1>3. CASE UpdateImage
  BY <1>3, Values DEF UpdateImage, GetsOn, StepsLeft, TurnsLeft
<1>4. CASE GetConfig
  BY <1>4 DEF GetConfig, GetsOn
<1>. QED
  BY <1>1, <1>2, <1>3, <1>4

(* The steps of Blob that succeed, and a download for Manifest.            *)
LEMMA BlobGetsOn ==
  ASSUME Lefts, Lefts',
         \/ BlobImageSource \/ GetBlob \/ ValidateLayerSize \/ CreateTemp \/ Copy
         \/ CheckBlobID \/ CheckDiffID
  PROVE  GetsOn
<1>1. CASE GetBlob
  <2>1. LayersLeft' = LayersLeft
    BY <1>1 DEF GetBlob, LayersLeft, manifestVars
  <2>. QED
    BY <1>1, <2>1 DEF Lefts, GetBlob, GetsOn, StepsLeft
<1>2. CASE BlobImageSource
  BY <1>2 DEF Lefts, BlobImageSource, GetsOn, StepsLeft
<1>3. CASE ValidateLayerSize \/ CreateTemp \/ Copy \/ CheckBlobID
  BY <1>3 DEF ValidateLayerSize, CreateTemp, Copy, CheckBlobID, GetsOn, StepsLeft
<1>4. CASE CheckDiffID
  BY <1>4 DEF CheckDiffID, GetsOn
<1>. QED
  BY <1>1, <1>2, <1>3, <1>4

(* A call never goes back, and only the registry decides, once, how long   *)
(* it may take: with an image of n layers, at most 4 * n + 5 steps, failed *)
(* attempts included; a Blob takes at most nine (layer_source.go 67-81,   *)
(* 202-216, 261-279).                                                      *)
THEOREM CallsGetOn == Spec => [][(pc \in Calling) => StepsLeft \in Nat /\ GetsOn]_vars
<1>1. Inv /\ Lefts /\ Lefts' /\ [Next]_vars =>
        [(pc \in Calling) => StepsLeft \in Nat /\ GetsOn]_vars
  <2> SUFFICES ASSUME Inv, Lefts, Lefts', Next, pc \in Calling PROVE StepsLeft \in Nat /\ GetsOn
    OBVIOUS
  <2> SUFFICES GetsOn
    BY StepsLeftNat
  <2>1. CallStep
    BY DEF Next, CallManifest, CallBlob, RemoveFile, Close, Calling
  <2>2. CASE GetImage
    BY <2>2 DEF GetImage, GetsOn
  <2>3. CASE GetImageFails \/ GetConfigFails \/ GetBlobFails
    BY <2>3, RetryGetsOn DEF GetImageFails, GetConfigFails, GetBlobFails
  <2>4. CASE ConversionFails \/ BlobImageSourceFails \/ LayerSizeDiffers \/ DownloadFails
             \/ BlobIDDiffers \/ DiffIDDiffers
    BY <2>4 DEF ConversionFails, BlobImageSourceFails, LayerSizeDiffers, DownloadFails,
       BlobIDDiffers, DiffIDDiffers, Fail, GetsOn
  <2>. QED
    BY <2>1, <2>2, <2>3, <2>4, ManifestGetsOn, BlobGetsOn
       DEF CallStep, ManifestStep, BlobStep
<1>. QED
  BY <1>1, LeftsInv, Invariance, PTL DEF Spec

=============================================================================
