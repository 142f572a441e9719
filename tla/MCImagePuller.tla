--------------------------- MODULE MCImagePuller ----------------------------
(* A small instance of ImagePuller.  The images share layers in every way  *)
(* that can confuse a store: the same layer on different bases and at      *)
(* different heights, the same base under different layers.  One is of     *)
(* schema 1 (sizes -1), one lies about a diffID, one has too few diffIDs,  *)
(* one a diffID that is no digest, one declares sizes whose sum wraps.     *)
EXTENDS ImagePuller

CONSTANTS a, b, zipA, NotGzip

MCContents == {a, b, zipA}
MCLength == [c \in MCContents |-> IF c = b THEN 2 ELSE 1]
MCGunzip == [c \in MCContents |-> IF c = zipA THEN a ELSE NotGzip]

MCMaxInt == 7

LayerOf(digest, size, gzip) == [digest |-> digest, size |-> size, gzip |-> gzip]
LayerA == LayerOf(zipA, 1, TRUE)
LayerB == LayerOf(b, 2, FALSE)

MCManifests ==
  {[layers |-> <<LayerA, LayerB>>, diffIDs |-> <<a, b>>],
   [layers |-> <<LayerB, LayerA>>, diffIDs |-> <<b, a>>],
   [layers |-> <<LayerOf(zipA, -1, TRUE), LayerOf(zipA, -1, TRUE)>>, diffIDs |-> <<a, a>>],
   [layers |-> <<LayerA, LayerB>>, diffIDs |-> <<b, b>>],
   [layers |-> <<LayerA, LayerB>>, diffIDs |-> <<a>>],
   [layers |-> <<LayerA, LayerB>>, diffIDs |-> <<a, NotDigest>>],
   [layers |-> <<LayerOf(zipA, MCMaxInt, TRUE), LayerOf(b, MCMaxInt, FALSE)>>, diffIDs |-> <<a, b>>],
   [layers |-> << >>, diffIDs |-> << >>]}

MCSpecs ==
  {[DiskLimit |-> 2, ExcludeImageFromQuota |-> FALSE],
   [DiskLimit |-> 3, ExcludeImageFromQuota |-> FALSE],
   [DiskLimit |-> 0, ExcludeImageFromQuota |-> FALSE]}
=============================================================================
