-------------------------- MODULE MC_CryptoEngine --------------------------
(* Model-checking instance of CryptoEngine.                                *)
EXTENDS CryptoEngine

MC_AllAlgs == {"none", "zlib", "zlib@openssh.com"}
MC_None == {"none"}
MC_NoneDelayed == {"none", "zlib@openssh.com"}
MC_Zlib == {"zlib"}
MC_AnyFlag == BOOLEAN
MC_Cleared == {FALSE}
=============================================================================
