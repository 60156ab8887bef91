-------------------------- MODULE MC_PacketCodec ---------------------------
(* Model-checking instance of PacketCodec.                                 *)
EXTENDS PacketCodec

MC_BlockSizes == {8, 16}
MC_PayloadLens == 1..24
MC_HostileLengths == {0, 3, 12, 40000}
MC_SanePaddings == {4}
MC_HugePadding == {200}
MC_Twelve == {12}
MC_NoHostile == {}
MC_StringOnly == {"string"}
MC_BlobOnly == {"blob"}
MC_FieldLens == {0, 1, 2, 8}
(* Payloads whose frames end just before, at and after one and two pieces. *)
MC_EncryptLens == 100..140 \cup 230..260
(* Two messages, one read that holds the end of the first and the start   *)
(* of the second, reads cut inside the length and inside a body.          *)
MC_Stream == <<<<21>>, <<5, 7>>>>
MC_ChunkSizes == {1, 3, 6}
MC_NoStream == <<>>
(* One message of 768 bytes, its length 0,0,3,0; a read of three bytes.   *)
MC_LongStream == <<[i \in 1..768 |-> 0]>>
MC_ThreeThenRest == {3, 1000}
=============================================================================
