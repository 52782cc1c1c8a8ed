---------------------------- MODULE MCProfiling ----------------------------
EXTENDS Profiling

CONSTANTS ra, rb

MCPaths == {<<ra, rb>>, <<rb>>}

=============================================================================
