-------------------------- MODULE MCArchiveFanout --------------------------
(***************************************************************************)
(* Instances of ArchiveFanout for TLC.                                      *)
(***************************************************************************)
EXTENDS ArchiveFanout

CONSTANTS c1, c2

AllEntries == {"small", "large", "nested", "nested large", "bundle", "bundled small"}
LargeEntries == {"large", "nested", "nested large", "bundle"}
Contents ==
  [e \in LargeEntries |->
     CASE e = "nested" -> {"nested large"} [] e = "bundle" -> {"bundled small"} [] OTHER -> {}]

\* No file, a small one; an archive with a large file; an archive with a small file.
SomeSources == {{}, {"small"}, {"small", "large"}, {"nested"}, {"bundle"}}
=============================================================================
