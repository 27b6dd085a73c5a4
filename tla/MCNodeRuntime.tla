--------------------------- MODULE MCNodeRuntime ---------------------------
EXTENDS NodeRuntime

MCInterfaces == {CoSim, ModelEx}
MCSchedules == {<<>>, <<0, 1, 2>>, <<1>>, <<0, 2>>}
=============================================================================
