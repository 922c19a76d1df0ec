--------------------------- MODULE MCChunkUpload ---------------------------
(* Values for model checking ChunkUpload: files of two chunks, sent under  *)
(* the same upload id, as the generated ids of files of one size are.      *)
EXTENDS ChunkUpload

SameId == [f \in Files |-> CHOOSE u \in UploadIds : TRUE]
Two    == [f \in Files |-> 2]
=============================================================================
