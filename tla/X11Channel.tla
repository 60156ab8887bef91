------------------------------ MODULE X11Channel ------------------------------
(***************************************************************************)
(* The x11_channel of src/src/x11_channel.cpp: a channel the server opens  *)
(* for an X client on the remote host.  setup() connects to the local X    *)
(* server and answers the channel_open; receive_data() collects the X      *)
(* client's connection setup request until check_validation() accepts it,  *)
(* strips the authorization protocol name and data, zeroes their lengths  *)
(* and writes the rest to the X server; receive_raw() sends what the X    *)
(* server answers back as channel data.                                    *)
(*                                                                         *)
(* The X client sends its setup request and waits for the X server's      *)
(* reply (X11 protocol, connection setup), so the client's stream is the   *)
(* request alone.  Bytes are numbers: a setup request is 12 header bytes   *)
(* (byte order 'B' = 66 or 'l' = 108, the 16-bit lengths of the protocol   *)
(* name and data at bytes 6..9) followed by the name and the data, each    *)
(* padded to a multiple of four.  The channel hands the request over in    *)
(* pieces whose sizes the SSH server chooses.                              *)
(***************************************************************************)
EXTENDS Naturals, Sequences, SequencesExt

CONSTANTS
    Request,      \* the X client's setup request, as bytes
    ChunkSizes,   \* sizes of the channel_data pieces it arrives in
    ConnectOK     \* outcomes of connecting to localhost:6000

ASSUME /\ Request \in Seq(0..127) /\ Len(Request) >= 12
       /\ ChunkSizes \subseteq Nat \ {0}
       /\ ConnectOK \subseteq BOOLEAN /\ ConnectOK # {}

VARIABLES
    state,        \* "opening", "open", "refused", "closed"
    answer,       \* what setup() wrote for the channel_open
    delivered,    \* bytes of Request handed to receive_data
    m_packet,     \* bytes held until check_validation accepts
    m_verified,
    xserver,      \* bytes written to the X server socket
    ub,           \* check_validation erased past the end of m_packet
    replied       \* the X server's reply went back over the channel

vars == <<state, answer, delivered, m_packet, m_verified, xserver, ub, replied>>

-----------------------------------------------------------------------------
(* The 16-bit field at 0-based offset i, in the byte order of byte 0.      *)
Field(p, i) == IF p[1] = 66 THEN p[i + 1] * 256 + p[i + 2]
                            ELSE p[i + 2] * 256 + p[i + 1]

(* check_validation's padding: the uint16 length plus its remainder mod 4. *)
CodePad(n) == (n + (n % 4)) % 65536

(* The X11 protocol's padding: the least multiple of four that holds n.    *)
Pad4(n) == n + ((4 - (n % 4)) % 4)

(* x11_channel::check_validation on m_packet p.  With more than 12 bytes   *)
(* it zeroes bytes 6..9 and erases pl + dl bytes after the header, whether *)
(* or not p holds them ("we accept anything"), and accepts.                *)
CheckValidation(p) ==
    LET pl == CodePad(Field(p, 6))
        dl == CodePad(Field(p, 8))
        hdr == [i \in 1..12 |-> IF i \in 7..10 THEN 0 ELSE p[i]]
    IN  [ok   |-> Len(p) > 12,
         ub   |-> Len(p) > 12 /\ 12 + pl + dl > Len(p),
         rest |-> hdr \o SubSeq(p, 13 + pl + dl, Len(p))]

-----------------------------------------------------------------------------
Init ==
    /\ state = "opening" /\ answer = "none"
    /\ delivered = 0 /\ m_packet = <<>> /\ m_verified = FALSE
    /\ xserver = <<>> /\ ub = FALSE /\ replied = FALSE

(* x11_channel::setup: connect to the X server; on success start the read *)
(* loop and write channel_open_confirmation, on an exception write        *)
(* msg_channel_failure.                                                    *)
setup ==
    /\ state = "opening"
    /\ \E ok \in ConnectOK :
         IF ok THEN state' = "open" /\ answer' = "channel_open_confirmation"
               ELSE state' = "refused" /\ answer' = "channel_failure"
    /\ UNCHANGED <<delivered, m_packet, m_verified, xserver, ub, replied>>

(* x11_channel::receive_data for the next piece of the request.  Once     *)
(* verified the piece is written as it is; before, it joins m_packet and  *)
(* check_validation runs; if it accepts, what is left of m_packet is       *)
(* written and m_packet cleared.  An erase past the end stops the model.  *)
receive_data ==
    /\ state = "open" /\ ~ub
    /\ delivered < Len(Request)
    /\ \E k \in ChunkSizes :
         LET n == IF k < Len(Request) - delivered THEN k ELSE Len(Request) - delivered
             d == SubSeq(Request, delivered + 1, delivered + n)
             p == m_packet \o d
             r == CheckValidation(p)
         IN  /\ delivered' = delivered + n
             /\ IF m_verified
                THEN xserver' = xserver \o d /\ UNCHANGED <<m_packet, m_verified, ub>>
                ELSE /\ m_verified' = r.ok
                     /\ ub' = r.ub
                     /\ IF r.ok THEN xserver' = xserver \o r.rest /\ m_packet' = <<>>
                                ELSE m_packet' = p /\ UNCHANGED xserver
    /\ UNCHANGED <<state, answer, replied>>

(* The X server answers a setup request once it holds one: 12 bytes whose *)
(* name and data lengths are zero.  receive_raw sends the answer over the *)
(* channel with send_data.                                                 *)
receive_raw ==
    /\ state = "open" /\ ~replied
    /\ Len(xserver) >= 12
    /\ replied' = TRUE
    /\ UNCHANGED <<state, answer, delivered, m_packet, m_verified, xserver, ub>>

(* A write to or a read from the X server fails, or the SSH side closes:  *)
(* close() and x11_channel::closed shut the socket.                        *)
closed ==
    /\ state = "open"
    /\ state' = "closed"
    /\ UNCHANGED <<answer, delivered, m_packet, m_verified, xserver, ub, replied>>

Next == setup \/ receive_data \/ receive_raw \/ closed

(* The connection's read loop hands every channel_data to receive_data,   *)
(* and the X server answers a request it holds.  Closing is not required. *)
Spec == Init /\ [][Next]_vars /\ WF_vars(setup) /\ WF_vars(receive_data)
                              /\ WF_vars(receive_raw)

-----------------------------------------------------------------------------
(* What the X server should receive: the header with both lengths zeroed, *)
(* then whatever follows the padded name and data.                         *)
Stripped ==
    LET pl == Pad4(Field(Request, 6))
        dl == Pad4(Field(Request, 8))
    IN  [i \in 1..12 |-> IF i \in 7..10 THEN 0 ELSE Request[i]]
            \o SubSeq(Request, 13 + pl + dl, Len(Request))

TypeOK ==
    /\ state \in {"opening", "open", "refused", "closed"}
    /\ answer \in {"none", "channel_open_confirmation", "channel_failure"}
    /\ delivered \in 0..Len(Request)
    /\ {m_verified, ub, replied} \subseteq BOOLEAN

(* The X server receives the setup request without the authorization      *)
(* name and data (the comment at check_validation: "strip out the protocol *)
(* and data"), never a byte of their padding and never a byte of the      *)
(* request's header twice: what it got is a prefix of Stripped.            *)
ForwardedSetup == IsPrefix(xserver, Stripped)

(* check_validation never erases beyond the bytes m_packet holds: the     *)
(* whole name and data have arrived when it accepts.                       *)
NoEraseBeyondEnd == ~ub

(* Once the channel is open, the X client gets the X server's reply to    *)
(* its setup request, unless the channel closes first.                      *)
SetupAnswered == state = "open" ~> (replied \/ state = "closed")

=============================================================================
