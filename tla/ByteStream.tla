----------------------------- MODULE ByteStream -----------------------------
(***************************************************************************)
(* What a pinch channel promises its user (spec 4.E): two ordered byte     *)
(* streams.  Outbound, the bytes the peer receives are always a prefix of  *)
(* the bytes the write calls accepted, in the order they were accepted.    *)
(* Inbound, the bytes the read calls hand to the user are always a prefix  *)
(* of the bytes the peer sent.  Nothing is lost, duplicated, reordered or  *)
(* invented; how the bytes are cut into packets and reads is not visible.  *)
(***************************************************************************)
EXTENDS Sequences, SequencesExt

VARIABLES
    accepted,     \* bytes the write calls took, in order
    transmitted,  \* bytes the peer received
    produced,     \* bytes the peer sent
    handed        \* bytes the read calls returned

vars == <<accepted, transmitted, produced, handed>>

Init ==
    /\ accepted = <<>> /\ transmitted = <<>>
    /\ produced = <<>> /\ handed = <<>>

(* A write call takes more bytes.                                          *)
Write ==
    /\ IsStrictPrefix(accepted, accepted')
    /\ UNCHANGED <<transmitted, produced, handed>>

(* The peer receives the next accepted bytes.                              *)
Transmit ==
    /\ IsStrictPrefix(transmitted, transmitted')
    /\ IsPrefix(transmitted', accepted)
    /\ UNCHANGED <<accepted, produced, handed>>

(* The peer sends more bytes.                                              *)
Produce ==
    /\ IsStrictPrefix(produced, produced')
    /\ UNCHANGED <<accepted, transmitted, handed>>

(* A read call returns the next bytes the peer sent.                       *)
Hand ==
    /\ IsStrictPrefix(handed, handed')
    /\ IsPrefix(handed', produced)
    /\ UNCHANGED <<accepted, transmitted, produced>>

Next == Write \/ Transmit \/ Produce \/ Hand

Spec == Init /\ [][Next]_vars

=============================================================================
