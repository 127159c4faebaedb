------------------------- MODULE MCIndexingManifest -------------------------
(***************************************************************************)
(* Instances of IndexingManifest for TLC.  The logs are only ever appended *)
(* to and read by no operation, so runs about the tables leave them out of *)
(* the fingerprint with the view Tables.                                   *)
(***************************************************************************)
EXTENDS IndexingManifest

\* One folder at most is edited twice.
OneFolderMoves == \E f \in Folders : \A g \in Folders \ {f} : Len(hostFolders[g].edits) <= 1

Tables == <<hostVars, docVars, folderVars, signalBuild>>
=============================================================================
