--------------------------- MODULE MCUploadPipeline ---------------------------
EXTENDS UploadPipeline, TLC

CONSTANTS PreviewAttempts, ImportAttempts

MCMaxAttempts == [t \in {"PREVIEW", "IMPORT"} |->
                    IF t = "PREVIEW" THEN PreviewAttempts ELSE ImportAttempts]

\* The preview is left to the server; a retry goes straight to the import.
MCCreated == {[dataset |-> TRUE, preview |-> FALSE]}
==============================================================================
