----------------------------- MODULE MC_X11Channel -----------------------------
(* Model-checking instance of X11Channel: setup requests of X clients.     *)
EXTENDS X11Channel

(* A setup request in byte order o (66 'B' or 108 'l') with a protocol    *)
(* name of pl bytes and data of dl bytes, each padded to a multiple of    *)
(* four.  Name, data and padding bytes are 1, 2 and 3.                     *)
Len16(o, n) == IF o = 66 THEN <<n \div 256, n % 256>> ELSE <<n % 256, n \div 256>>

SetupRequest(o, pl, dl) ==
    <<o, 0>> \o Len16(o, 11) \o Len16(o, 0) \o Len16(o, pl) \o Len16(o, dl) \o <<0, 0>>
        \o [i \in 1..pl |-> 1] \o [i \in 1..((4 - (pl % 4)) % 4) |-> 3]
        \o [i \in 1..dl |-> 2] \o [i \in 1..((4 - (dl % 4)) % 4) |-> 3]

(* The request an X client sends through sshd's fake display:             *)
(* MIT-MAGIC-COOKIE-1 (18 bytes) and a 16-byte cookie, least significant   *)
(* byte first.                                                             *)
MC_MitCookie == SetupRequest(108, 18, 16)

(* XDM-AUTHORIZATION-1 (19 bytes) with 8 bytes of data, MSB first.        *)
MC_XdmAuth == SetupRequest(66, 19, 8)

(* A request with a one-byte protocol name and no data.                    *)
MC_ShortName == SetupRequest(108, 1, 0)

(* A client with no authorization: the bare 12-byte header.                *)
MC_NoAuth == SetupRequest(66, 0, 0)

MC_Whole == {64}
MC_Pieces == {16, 64}
MC_Connects == {TRUE, FALSE}
=============================================================================
