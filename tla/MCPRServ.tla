------------------------------ MODULE MCPRServ ------------------------------
EXTENDS PRServ

MCClients   == {"build1", "build2"}
MCPackages  == {"pkg"}
MCChecksums == {"sum1", "sum2"}
MCImports   == {1}
=============================================================================
