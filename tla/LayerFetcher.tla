---------------------------- MODULE LayerFetcher ----------------------------
(***************************************************************************)
(* fetcher/layerfetcher/layer_fetcher.go and blob_reader.go: layer infos   *)
(* with their chain IDs from a manifest, and streams over the temporary    *)
(* files that the layer source hands out.  The source is the one promised  *)
(* by VerifiedSource, which LayerSource implements; a Blob of it that fails*)
(* changes nothing here.                                                   *)
(***************************************************************************)
EXTENDS Integers, Sequences

CONSTANTS
  Contents, Length, Gunzip, Files, Absent,  \* as in VerifiedSource
  NotDigest                                 \* a diffID that has no colon

VARIABLES
  config, remaining, files, open,  \* of the source
  orphans  \* files that exist and that no running code knows of

Source == INSTANCE VerifiedSource WITH LayerInfos <- {}, Configs <- {}

fetcherVars == <<config, remaining, files, open, orphans>>

-----------------------------------------------------------------------------

(* The empty parent chain ID.                                              *)
NoParent == << >>

(* Mutant: the chain ID forgets what is below the layer.                   *)
chainIDOfLayer(diffID, parentChainID) == <<diffID>>

(* The diffID, if there is no parent, or else the SHA-256 digest of parent *)
(* and diffID.  It stands for the sequence of diffIDs that went into it.   *)
chainID(diffID, parentChainID) == Append(parentChainID, diffID)

(* createLayerInfos indexes the diffIDs of the image's configuration by    *)
(* the positions of the manifest's layers, and takes each apart at its     *)
(* colon: one that is missing, or that has none, makes it panic.           *)
Panics(manifest) ==
  ~ \A i \in 1..Len(manifest.layers) :
      i <= Len(manifest.diffIDs) /\ manifest.diffIDs[i] # NotDigest

createLayerInfos(manifest) ==
  LET chain[i \in 0..Len(manifest.layers)] ==
        IF i = 0 THEN NoParent ELSE chainID(manifest.diffIDs[i], chain[i - 1])
  IN [i \in 1..Len(manifest.layers) |->
        [BlobID        |-> manifest.layers[i].digest,
         Size          |-> manifest.layers[i].size,
         gzip          |-> manifest.layers[i].gzip,
         DiffID        |-> manifest.diffIDs[i],
         ChainID       |-> chain[i],
         ParentChainID |-> chain[i - 1]]]

(* StreamBlob: the source delivers the layer in file f, and f is opened.   *)
StreamBlob(layerInfo, f) ==
  /\ \E c \in Contents : Source!Deliver(layerInfo, f, c)
  /\ UNCHANGED orphans

(* NewBlobReader fails: the error returned takes the name of the file with *)
(* it, and the source has charged its quota for it.                        *)
StreamBlobLosesFile(layerInfo, f) ==
  /\ \E c \in Contents : Source!Deliver(layerInfo, f, c)
  /\ orphans' = orphans \cup {f}

(* Mutant: the reader is closed and the file stays.                        *)
CloseKeepsFile(f) == UNCHANGED fetcherVars

(* BlobReader.Close.                                                       *)
CloseBlobReader(f) == Source!Remove(f) /\ UNCHANGED orphans

(* Close of the fetcher closes its source.                                 *)
CloseFetcher == Source!Finish /\ UNCHANGED orphans

=============================================================================
