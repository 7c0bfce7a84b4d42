--------------------------- MODULE MCDocumentPipeline ---------------------------
(***************************************************************************)
(* DocumentPipeline for TLC: two URLs whose documents share a text, and a  *)
(* URL that comes twice, with a text and without.  The source is the press *)
(* of the Federal Reserve: what the RSS collector drops, a parse that      *)
(* breaks off drops as well.                                               *)
(***************************************************************************)
EXTENDS DocumentPipeline

CONSTANTS u1, u2, t1, t2

D(u, t) == [url |-> u, text |-> t]

MCContents == {{D(u1, t1), D(u2, t1)}, {D(u1, NoText), D(u1, t1)}}
=============================================================================
