--------------------------- MODULE PacketFraming ----------------------------
(***************************************************************************)
(* What a reader of a stream of uint32-length-prefixed messages promises,  *)
(* however the stream is cut into network reads: it never takes a byte of  *)
(* the next message before it hands out the current one, and it hands the  *)
(* messages out whole and in order, each once its last byte is taken.  As  *)
(* long as bytes keep arriving, every message is handed out.               *)
(*                                                                         *)
(* This is the abstract specification ipacket::read (PacketCodec.tla) is   *)
(* shown to implement.                                                     *)
(***************************************************************************)
EXTENDS Naturals, Sequences, SequencesExt

CONSTANT Packets    \* the message bodies on the stream, in order

VARIABLES
    consumed,   \* bytes of the stream taken by the reader
    delivered   \* the messages handed out

vars == <<consumed, delivered>>

(* Where message i ends in the stream: each is a 4-byte length and a body. *)
Boundary(i) == FoldLeft(LAMBDA acc, b : acc + 4 + Len(b), 0, SubSeq(Packets, 1, i))

Current == Len(delivered) + 1

Init == consumed = 0 /\ delivered = <<>>

(* Take some bytes of the current message.                                 *)
Take ==
    /\ Current <= Len(Packets)
    /\ \E k \in 1..(Boundary(Current) - consumed) : consumed' = consumed + k
    /\ UNCHANGED delivered

(* Hand out the current message once all of it is taken.                   *)
Deliver ==
    /\ Current <= Len(Packets)
    /\ consumed = Boundary(Current)
    /\ delivered' = Append(delivered, Packets[Current])
    /\ UNCHANGED consumed

Next == Take \/ Deliver

Spec == Init /\ [][Next]_vars /\ WF_vars(Next)

=============================================================================
