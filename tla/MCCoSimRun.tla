------------------------------ MODULE MCCoSimRun ------------------------------
(* Two or three communication steps of four instants each, the last one whole *)
(* or partial, with every alignment of samples, chunks and scheduled inputs.  *)
EXTENDS CoSimRun

MCSchedules == {<<>>, <<0>>, <<4>>, <<0, 4>>}
MCConfigs ==
    {c \in [step : {4}, stop : {8, 10}, interval : {4, 8}, schedule : MCSchedules,
            chunk : {0, 1, 2}, variable : BOOLEAN, early : BOOLEAN] : Validated(c)}
=============================================================================
