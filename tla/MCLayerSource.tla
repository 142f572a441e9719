--------------------------- MODULE MCLayerSource ----------------------------
(* A small instance of LayerSource.  Two unpacked layers of different      *)
(* lengths, their gzip streams, and layer infos that agree with the        *)
(* registry, disagree with it in the size, or carry a wrong diffID.        *)
EXTENDS LayerSource

CONSTANTS a, b, zipA, zipB

MCContents == {a, b, zipA, zipB}
MCLength == [c \in MCContents |-> IF c = b THEN 2 ELSE 1]
MCGunzip == [c \in MCContents |->
  CASE c = zipA -> a [] c = zipB -> b [] OTHER -> NotGzip]
MCSizes == {-1, 1}

Info(id, diff, sz, gz) == [BlobID |-> id, DiffID |-> diff, Size |-> sz, gzip |-> gz]
MCLayerInfos ==
  {Info(zipA, a, 1, TRUE), Info(zipB, b, 1, TRUE), Info(b, b, 1, FALSE),
   Info(zipA, a, -1, TRUE), Info(zipA, b, 1, TRUE)}

MCImages ==
  {[schema1 |-> FALSE, layers |-> <<zipA, b>>, diffIDs |-> <<a, b>>],
   [schema1 |-> TRUE, layers |-> <<zipA, zipB>>, diffIDs |-> << >>],
   [schema1 |-> TRUE, layers |-> << >>, diffIDs |-> << >>]}

(* A limit that one layer exhausts, and one that two just fit; and no      *)
(* quota at all, under which what remains becomes negative.                *)
Arguments(s, o, q, d) ==
  [scheme |-> s, skipOCILayerValidation |-> o, skipImageQuotaValidation |-> q, diskLimit |-> d]
MCConfigs ==
  {Arguments(s, o, FALSE, d) : s \in {"docker", "oci"}, o \in BOOLEAN, d \in {1, 3}}
    \cup {Arguments("docker", FALSE, TRUE, 0)}

(* The liveness run needs no variety in the configuration.                 *)
LiveConfigs == {Arguments("docker", FALSE, FALSE, 3)}
=============================================================================
