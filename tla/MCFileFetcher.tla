--------------------------- MODULE MCFileFetcher ----------------------------
(* FileFetcher with its bounds set in the configuration: four changes let  *)
(* the file be replaced, touched, removed and put back around two pulls,   *)
(* and with three times a time may come back or not.                       *)
EXTENDS FileFetcher
=============================================================================
