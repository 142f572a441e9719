--------------------------- MODULE VerifiedSource ---------------------------
(***************************************************************************)
(* What a layer source promises, and nothing of how: the layers it hands   *)
(* out are the ones the image names, together they stay within the disk    *)
(* limit, each appears all at once or not at all, and one that does not    *)
(* appear is not charged.  This is the contract of the Source interface of *)
(* fetcher/layerfetcher/layer_fetcher.go that StreamBlob relies on.        *)
(***************************************************************************)
EXTENDS Integers

CONSTANTS Contents, Length, Gunzip, Files, Absent, LayerInfos, Configs

VARIABLES
  config,     \* what the source was made with
  remaining,  \* bytes it may still hand out
  files,      \* the layers handed out and not yet removed, by file name
  open        \* until it is closed

promiseVars == <<config, remaining, files, open>>

(* What a caller may find in the file of layer l.                          *)
ContentOf(l, c) ==
  \/ config.skipOCILayerValidation /\ config.scheme = "oci"
  \/ c = l.DiffID /\ c = IF l.gzip THEN Gunzip[l.BlobID] ELSE l.BlobID

Deliver(l, f, c) ==
  /\ open
  /\ files[f] = Absent
  /\ ContentOf(l, c)
  /\ config.skipImageQuotaValidation \/ Length[c] <= remaining
  /\ files' = [files EXCEPT ![f] = c]
  /\ remaining' = remaining - Length[c]
  /\ UNCHANGED <<config, open>>

Remove(f) ==
  /\ open
  /\ files[f] # Absent
  /\ files' = [files EXCEPT ![f] = Absent]
  /\ UNCHANGED <<config, remaining, open>>

Finish ==
  /\ open
  /\ open' = FALSE
  /\ UNCHANGED <<config, remaining, files>>

Init ==
  /\ config \in Configs
  /\ remaining = config.diskLimit
  /\ files = [f \in Files |-> Absent]
  /\ open = TRUE

Next ==
  \/ \E l \in LayerInfos, f \in Files, c \in Contents : Deliver(l, f, c)
  \/ \E f \in Files : Remove(f)
  \/ Finish

Spec == Init /\ [][Next]_promiseVars

=============================================================================
