--------------------------- MODULE MCPlainContent ---------------------------
(* The requests of MCContent whose images are base64, as PlainContent wants  *)
(* them: TLC compares their meanings, which are built with them, with the    *)
(* meanings that the walk Meaning gives their bodies.                        *)
EXTENDS MCContent, PlainContent
=============================================================================
