----------------------------- MODULE MC_Channel -----------------------------
EXTENDS Channel

\* one write of two bytes, which a maximum packet of one byte cuts in two
MC_OneBuffer == {<<2>>}

\* the same two bytes as two buffers of one byte
MC_TwoBuffers == {<<1, 1>>}

MC_OpenTypes == {"x11", "session"}

MC_Misc == {"global_request"}

=============================================================================
