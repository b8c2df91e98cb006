---------------------------- MODULE MCCarSystem -----------------------------
EXTENDS CarSystem

MCButtons == {"ArrowUp", "ArrowDown", "ArrowLeft", "Space"}
MCFaults  == {"overtake", "loss", "link", "restart"}
=============================================================================
