--------------------------- MODULE MCProjectStore ---------------------------
EXTENDS ProjectStore

CONSTANTS batch, editor, builder, migrator

MCActors == {batch, editor, builder, migrator}
MCRole ==
    [a \in MCActors |-> CASE a = batch -> "batch" [] a = editor -> "editor"
                          [] a = builder -> "builder" [] a = migrator -> "migrator"]
MCCases == <<"a", "b">>
MCFirstSchema == {"1.0", "1.1"}

\* One batch alone, for the run of StopKeepsBatch.
OneBatch == {batch}
OneBatchRole == [a \in OneBatch |-> "batch"]
=============================================================================
