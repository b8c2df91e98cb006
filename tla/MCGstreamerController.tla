----------------------- MODULE MCGstreamerController ------------------------
EXTENDS GstreamerController, TLC

MCPids == {"pid1", "pid2", "pid3"}
=============================================================================
