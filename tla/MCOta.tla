------------------------------- MODULE MCOta -------------------------------
(***************************************************************************)
(* Ota for TLC.  The built-in URL leads to a newer image, of two blocks,   *)
(* which fills a partition, and the other URL a client may set to one of   *)
(* three blocks, which does not fit.                                       *)
(***************************************************************************)
EXTENDS Ota

MCUrl == {"gl-inet", "big"}
MCImage == {"v1", "v2", "big"}
MCImageAt == [u \in MCUrl |-> IF u = "gl-inet" THEN "v2" ELSE u]
MCSize == [i \in MCImage |-> CASE i = "big" -> 3
                               [] i = "v2"  -> 2
                               [] OTHER     -> 1]
=============================================================================
