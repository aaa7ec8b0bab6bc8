--------------------------- MODULE MCArchiveRename ---------------------------
(* Constants for ArchiveRename: an archive whose name, without its extension,  *)
(* still looks like a file name, so that the conflict check finds something.   *)
EXTENDS ArchiveRename, TLC

StemOf == [n \in {"a.zip", "b.zip", "b.zip.zip", "c.zip"} |->
             CASE n = "a.zip" -> "a" [] n = "b.zip" -> "b"
               [] n = "b.zip.zip" -> "b.zip" [] OTHER -> "c"]
=============================================================================
