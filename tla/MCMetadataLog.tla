--------------------------- MODULE MCMetadataLog ---------------------------
(***************************************************************************)
(* A small instance of MetadataLog.                                        *)
(***************************************************************************)
EXTENDS MetadataLog
============================================================================
