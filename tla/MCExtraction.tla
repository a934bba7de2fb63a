---------------------------- MODULE MCExtraction ----------------------------
(* Extraction alone, on SourceData.                                          *)
EXTENDS Extraction, SourceData
=============================================================================
