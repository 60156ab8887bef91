---------------------------- MODULE SocksForward ----------------------------
(***************************************************************************)
(* One socks5_forwarding_connection of src/src/port_forwarding.cpp: the    *)
(* SOCKS4/4a/5 handshake state machine (start, handshake, channel_open)   *)
(* followed by the byte copy of forwarding_connection (start_copy_data and *)
(* the four handle_* completions).                                         *)
(*                                                                         *)
(* Every asynchronous read or write the connection issues is "pending";   *)
(* the action that completes it runs the whole handler it was bound to.   *)
(* boost::asio::async_read fills the whole buffer before it completes,    *)
(* unless the stream ends first: it then completes with eof after copying *)
(* the bytes that did arrive, and the rest of the buffer keeps its old    *)
(* contents.  handshake() never looks at its error code, so it runs on     *)
(* such a buffer exactly as on a complete one.                             *)
(*                                                                         *)
(* Bytes are naturals below 256; the SOCKS client sends one request from  *)
(* Requests in chunks and may close its socket at any point.  The SSH      *)
(* channel is abstracted to the outcome of async_open and to the bytes    *)
(* written to it and read from it.                                         *)
(***************************************************************************)
EXTENDS Naturals, Sequences, SequencesExt

CONSTANTS
    Requests,    \* byte sequences a SOCKS client may send
    CopyBuffer,  \* sizeof m_c2s_buffer / m_s2c_buffer (512 in the code)
    BufferCap,   \* bound on the length m_buffer may grow to
    RemoteData,  \* bytes the remote end may send through the channel
    MaxRemote,   \* bound on the chunks the remote end sends
    Kinds,       \* connections bound_port may accept: "socks", "plain"
    PlainTarget, \* remote address and port given to forward_port
    PlainData    \* byte sequences a client of a plain forward may send

ASSUME /\ Requests \subseteq Seq(0..255)
       /\ CopyBuffer \in Nat \ {0}
       /\ BufferCap \in Nat
       /\ RemoteData \subseteq 0..255 /\ MaxRemote \in Nat
       /\ Kinds \subseteq {"socks", "plain"} /\ PlainData \subseteq Seq(0..255)

States == {"SOCKS_INIT", "SOCKS4_INIT", "SOCKS4_CONNECTION_REQUEST_USER_ID",
           "SOCKS4a_CONNECTION_REQUEST_USER_ID",
           "SOCKS4a_CONNECTION_REQUEST_FQDN", "SOCKS5_INIT",
           "SOCKS5_SERVERS_CHOICE", "SOCKS5_CONNECTION_REQUEST",
           "SOCKS5_CONNECTION_REQUEST_IPV4", "SOCKS5_CONNECTION_REQUEST_IPV6",
           "SOCKS5_CONNECTION_REQUEST_FQDN", "SOCKS5_CONNECTION_REQUEST_FQDN_2"}

VARIABLES
    kind,        \* the connection the factory made: socks5_forwarding_connection
                 \* ("socks") or port_forwarding_connection ("plain")
    script,      \* the request the client sends
    unsent,      \* how many of its bytes the client has not sent yet
    inbuf,       \* bytes the client sent that the connection has not read
    clientEof,   \* the client closed its socket
    m_state,     \* socks5_forwarding_connection::m_state
    m_buffer,    \* socks5_forwarding_connection::m_buffer
    m_mini,      \* m_mini_buffer[0]
    pending,     \* the handshake's outstanding operation
    target,      \* <<address kind, address bytes, port>> passed to the channel
    socks4,      \* the socks4 argument bound to channel_open
    opened,      \* every channel the connection asked to open, in order
    toClient,    \* every write to the client socket, in order
    c2s,         \* the client-to-channel copy: idle, reading, writing, done
    c2sChunk,    \* the bytes in m_c2s_buffer being written to the channel
    toChannel,   \* bytes written to the channel
    s2c,         \* the channel-to-client copy: idle, reading, writing, done
    s2cChunk,    \* the bytes in m_s2c_buffer being written to the client
    fromRemote,  \* bytes the remote end sent that are not yet read
    remoteSent,  \* how many chunks the remote end sent
    remoteEof    \* the remote end closed the channel

vars == <<kind, script, unsent, inbuf, clientEof, m_state, m_buffer, m_mini,
          pending, target, socks4, opened, toClient, c2s, c2sChunk, toChannel,
          s2c, s2cChunk, fromRemote, remoteSent, remoteEof>>

copyVars == <<c2s, c2sChunk, toChannel, s2c, s2cChunk>>
clientVars == <<kind, script, unsent, clientEof>>
remoteVars == <<fromRemote, remoteSent, remoteEof>>

(* blob::resize: truncate, or extend with zero bytes.                      *)
Resize(b, n) == [i \in 1..n |-> IF i <= Len(b) THEN b[i] ELSE 0]

(* The port of a request, network byte order.                              *)
Port(hi, lo) == hi * 256 + lo

(* bound_port::handle_accept has accepted a client and called start().    *)
(* socks5_forwarding_connection::start: m_buffer.resize(2), SOCKS_INIT,    *)
(* async_read of two bytes.  port_forwarding_connection::start: the       *)
(* channel to the address given to forward_port is opened at once; the    *)
(* handshake's state is unused.                                            *)
Init ==
    /\ kind \in Kinds
    /\ script \in IF kind = "socks" THEN Requests ELSE PlainData
    /\ unsent = Len(script)
    /\ inbuf = <<>> /\ clientEof = FALSE
    /\ m_state = "SOCKS_INIT" /\ m_mini = 0
    /\ IF kind = "socks"
       THEN m_buffer = <<0, 0>> /\ pending = "buffer" /\ target = <<>>
            /\ opened = <<>>
       ELSE m_buffer = <<>> /\ pending = "open" /\ target = PlainTarget
            /\ opened = <<PlainTarget>>
    /\ socks4 = FALSE /\ toClient = <<>>
    /\ c2s = "idle" /\ c2sChunk = <<>> /\ toChannel = <<>> /\ s2c = "idle"
    /\ s2cChunk = <<>>
    /\ fromRemote = <<>> /\ remoteSent = 0 /\ remoteEof = FALSE

(***************************************************************************)
(* handshake(): one case of the switch on m_state, given the buffer and    *)
(* the mini buffer as the completed operation left them.  A case either    *)
(* issues the next read or write, asks for the channel, or breaks without *)
(* issuing anything, which releases the connection.                        *)
(***************************************************************************)
Continue(st, b, p) ==
    /\ m_state' = st /\ m_buffer' = b /\ pending' = p
    /\ UNCHANGED <<target, socks4, opened, toClient>>

Stop(b) ==
    /\ m_buffer' = b /\ pending' = "none"
    /\ UNCHANGED <<m_state, target, socks4, opened, toClient>>

(* m_channel.reset(new forwarding_channel(...)); m_channel->async_open.    *)
Open(b, t, s4) ==
    /\ m_buffer' = b /\ pending' = "open"
    /\ target' = t /\ socks4' = s4 /\ opened' = Append(opened, t)
    /\ UNCHANGED <<m_state, toClient>>

socks_init(b) ==
    IF b[1] = 4 /\ b[2] = 1
    THEN Continue("SOCKS4_INIT", Resize(b, 6), "buffer")
    ELSE IF b[1] = 5 /\ b[2] > 0
    THEN Continue("SOCKS5_INIT", Resize(b, 1), "buffer")
    ELSE Stop(b)

(* Port, then an IPv4 address of the form 0.0.0.x with x # 0 for 4a.       *)
socks4_init(b) ==
    IF b[3] = 0 /\ b[4] = 0 /\ b[5] = 0 /\ b[6] # 0
    THEN Continue("SOCKS4a_CONNECTION_REQUEST_USER_ID", Resize(b, 2), "mini")
    ELSE Continue("SOCKS4_CONNECTION_REQUEST_USER_ID", b, "mini")

(* Mutant of socks4_user_id: the address taken one byte early.             *)
socks4_user_id_AddrOffByOne(b, mb) ==
    IF mb = 0
    THEN Open(b, <<"ipv4", SubSeq(b, 2, 5), Port(b[1], b[2])>>, TRUE)
    ELSE Continue(m_state, b, "mini")

socks4_user_id(b, mb) ==
    IF mb = 0
    THEN Open(b, <<"ipv4", SubSeq(b, 3, 6), Port(b[1], b[2])>>, TRUE)
    ELSE Continue(m_state, b, "mini")

socks4a_user_id(b, mb) ==
    Continue(IF mb = 0 THEN "SOCKS4a_CONNECTION_REQUEST_FQDN" ELSE m_state,
             b, "mini")

socks4a_fqdn(b, mb) ==
    IF mb = 0
    THEN Open(b, <<"fqdn", SubSeq(b, 3, Len(b)), Port(b[1], b[2])>>, TRUE)
    ELSE /\ Len(b) < BufferCap
         /\ Continue(m_state, Append(b, mb), "mini")

socks5_init(b) ==
    IF \E i \in 1..Len(b) : b[i] = 0
    THEN /\ m_state' = "SOCKS5_SERVERS_CHOICE" /\ m_buffer' = <<5, 0>>
         /\ pending' = "write"
         /\ toClient' = Append(toClient, [what |-> "choice", bytes |-> <<5, 0>>])
         /\ UNCHANGED <<target, socks4, opened>>
    ELSE Stop(b)

socks5_servers_choice(b) ==
    Continue("SOCKS5_CONNECTION_REQUEST", Resize(b, 4), "buffer")

(* ATYP, the state that reads the address, and that read's size.           *)
AddressTypes ==
    {<<1, "SOCKS5_CONNECTION_REQUEST_IPV4", 4 + 2>>,
     <<4, "SOCKS5_CONNECTION_REQUEST_IPV6", 16 + 2>>,
     <<3, "SOCKS5_CONNECTION_REQUEST_FQDN", 1>>}

socks5_connection_request(b) ==
    IF b[1] = 5 /\ b[2] = 1 /\ b[4] \in {1, 3, 4}
    THEN \E a \in AddressTypes :
            /\ a[1] = b[4]
            /\ Continue(a[2], Resize(b, a[3]), "buffer")
    ELSE Stop(b)

socks5_fqdn(b) ==
    Continue("SOCKS5_CONNECTION_REQUEST_FQDN_2", Resize(b, b[1] + 2), "buffer")

(* The address is everything before the last two bytes, the port those.    *)
socks5_address(b) ==
    LET atyp == CASE m_state = "SOCKS5_CONNECTION_REQUEST_IPV4" -> "ipv4"
                  [] m_state = "SOCKS5_CONNECTION_REQUEST_IPV6" -> "ipv6"
                  [] OTHER -> "fqdn"
        n == Len(b) - 2
    IN  Open(b, <<atyp, SubSeq(b, 1, n), Port(b[n + 1], b[n + 2])>>, FALSE)

handshake(b, mb) ==
    CASE m_state = "SOCKS_INIT" -> socks_init(b)
      [] m_state = "SOCKS4_INIT" -> socks4_init(b)
      [] m_state = "SOCKS4_CONNECTION_REQUEST_USER_ID" -> socks4_user_id(b, mb)
      [] m_state = "SOCKS4a_CONNECTION_REQUEST_USER_ID" -> socks4a_user_id(b, mb)
      [] m_state = "SOCKS4a_CONNECTION_REQUEST_FQDN" -> socks4a_fqdn(b, mb)
      [] m_state = "SOCKS5_INIT" -> socks5_init(b)
      [] m_state = "SOCKS5_SERVERS_CHOICE" -> socks5_servers_choice(b)
      [] m_state = "SOCKS5_CONNECTION_REQUEST" -> socks5_connection_request(b)
      [] m_state = "SOCKS5_CONNECTION_REQUEST_FQDN" -> socks5_fqdn(b)
      [] OTHER -> socks5_address(b)

(***************************************************************************)
(* Completions of the handshake's operations.                              *)
(***************************************************************************)
(* async_read into m_buffer: the first bytes of the buffer are replaced by *)
(* what arrived, all of it, or less when the client closed first.          *)
HandshakeRead ==
    /\ pending = "buffer"
    /\ Len(inbuf) >= Len(m_buffer) \/ clientEof
    /\ LET n == Len(m_buffer)
           got == SubSeq(inbuf, 1, IF Len(inbuf) < n THEN Len(inbuf) ELSE n)
       IN  /\ inbuf' = SubSeq(inbuf, Len(got) + 1, Len(inbuf))
           /\ handshake(got \o SubSeq(m_buffer, Len(got) + 1, n), m_mini)
    /\ UNCHANGED <<m_mini, clientVars, copyVars, remoteVars>>

(* async_read into m_mini_buffer: one byte, or none and eof.               *)
HandshakeReadMini ==
    /\ pending = "mini"
    /\ inbuf # <<>> \/ clientEof
    /\ IF inbuf # <<>>
       THEN /\ inbuf' = Tail(inbuf) /\ m_mini' = Head(inbuf)
            /\ handshake(m_buffer, Head(inbuf))
       ELSE /\ UNCHANGED <<inbuf, m_mini>>
            /\ handshake(m_buffer, m_mini)
    /\ UNCHANGED <<clientVars, copyVars, remoteVars>>

(* async_write of the SOCKS5 method choice; its error is ignored as well.  *)
HandshakeWrote ==
    /\ pending = "write"
    /\ handshake(m_buffer, m_mini)
    /\ UNCHANGED <<inbuf, m_mini, clientVars, copyVars, remoteVars>>

(* The reply channel_open writes: SOCKS4 names 127.0.0.1, SOCKS5 the       *)
(* address as text (abstracted to the address it names).                   *)
Reply == [what |-> "reply", socks4 |-> socks4, port |-> target[3],
          address |-> IF socks4 THEN <<127, 0, 0, 1>> ELSE target[2]]

(* The async_open completion: channel_open.  On success the reply is      *)
(* written, with a handler that ignores the outcome, and start_copy_data  *)
(* issues both copy reads at once; on failure nothing is written.          *)
channel_open ==
    /\ kind = "socks" /\ pending = "open"
    /\ pending' = "none"
    /\ \/ /\ toClient' = Append(toClient, Reply)
          /\ c2s' = "reading" /\ s2c' = "reading"
       \/ UNCHANGED <<toClient, c2s, s2c>>
    /\ UNCHANGED <<inbuf, m_state, m_buffer, m_mini, target, socks4, opened,
                   c2sChunk, toChannel, s2cChunk, clientVars, remoteVars>>

(* The async_open completion of port_forwarding_connection::start: on     *)
(* success start_copy_data, and nothing is written to the client.          *)
plain_open ==
    /\ kind = "plain" /\ pending = "open"
    /\ pending' = "none"
    /\ \/ c2s' = "reading" /\ s2c' = "reading"
       \/ UNCHANGED <<c2s, s2c>>
    /\ UNCHANGED <<inbuf, m_state, m_buffer, m_mini, target, socks4, opened,
                   toClient, c2sChunk, toChannel, s2cChunk, clientVars, remoteVars>>

(***************************************************************************)
(* forwarding_connection: the two copy loops start_copy_data starts.  A   *)
(* completion with an error ends its loop and closes nothing.              *)
(***************************************************************************)
Chunk(q) == SubSeq(q, 1, IF Len(q) < CopyBuffer THEN Len(q) ELSE CopyBuffer)

(* Mutant of handle_read_from_client: the bytes read are not consumed.    *)
handle_read_from_client_NoConsume ==
    /\ c2s = "reading"
    /\ inbuf # <<>> \/ clientEof
    /\ IF inbuf # <<>>
       THEN /\ c2sChunk' = Chunk(inbuf)
            /\ UNCHANGED inbuf
            /\ c2s' = "writing"
       ELSE /\ c2s' = "done"
            /\ UNCHANGED <<inbuf, c2sChunk>>
    /\ UNCHANGED <<m_state, m_buffer, m_mini, pending, target, socks4, opened,
                   toClient, toChannel, s2c, s2cChunk, clientVars, remoteVars>>

handle_read_from_client ==
    /\ c2s = "reading"
    /\ inbuf # <<>> \/ clientEof
    /\ IF inbuf # <<>>
       THEN /\ c2sChunk' = Chunk(inbuf)
            /\ inbuf' = SubSeq(inbuf, Len(Chunk(inbuf)) + 1, Len(inbuf))
            /\ c2s' = "writing"
       ELSE /\ c2s' = "done"
            /\ UNCHANGED <<inbuf, c2sChunk>>
    /\ UNCHANGED <<m_state, m_buffer, m_mini, pending, target, socks4, opened,
                   toClient, toChannel, s2c, s2cChunk, clientVars, remoteVars>>

(* The channel refuses writes once the remote end has closed it.           *)
handle_wrote_to_server ==
    /\ c2s = "writing"
    /\ IF remoteEof
       THEN c2s' = "done" /\ UNCHANGED toChannel
       ELSE c2s' = "reading" /\ toChannel' = toChannel \o c2sChunk
    /\ UNCHANGED <<inbuf, m_state, m_buffer, m_mini, pending, target, socks4,
                   opened, toClient, c2sChunk, s2c, s2cChunk, clientVars,
                   remoteVars>>

handle_read_from_server ==
    /\ s2c = "reading"
    /\ fromRemote # <<>> \/ remoteEof
    /\ IF fromRemote # <<>>
       THEN /\ s2cChunk' = Chunk(fromRemote)
            /\ fromRemote' = SubSeq(fromRemote, Len(Chunk(fromRemote)) + 1,
                                    Len(fromRemote))
            /\ s2c' = "writing"
       ELSE /\ s2c' = "done"
            /\ UNCHANGED <<fromRemote, s2cChunk>>
    /\ UNCHANGED <<inbuf, m_state, m_buffer, m_mini, pending, target, socks4,
                   opened, toClient, c2s, c2sChunk, toChannel, clientVars,
                   remoteSent, remoteEof>>

(* A write to a socket the client has closed may still succeed or fail.    *)
handle_wrote_to_client ==
    /\ s2c = "writing"
    /\ \/ /\ toClient' = Append(toClient, [what |-> "data", bytes |-> s2cChunk])
          /\ s2c' = "reading"
       \/ /\ clientEof
          /\ s2c' = "done" /\ UNCHANGED toClient
    /\ UNCHANGED <<inbuf, m_state, m_buffer, m_mini, pending, target, socks4,
                   opened, c2s, c2sChunk, toChannel, s2cChunk, clientVars,
                   remoteVars>>

(***************************************************************************)
(* The SOCKS client and the remote end of the channel.                     *)
(***************************************************************************)
ClientSend ==
    /\ ~clientEof /\ unsent > 0
    /\ \E k \in 1..unsent :
          LET from == Len(script) - unsent + 1
          IN  /\ inbuf' = inbuf \o SubSeq(script, from, from + k - 1)
              /\ unsent' = unsent - k
    /\ UNCHANGED <<kind, script, clientEof, m_state, m_buffer, m_mini, pending,
                   target, socks4, opened, toClient, copyVars, remoteVars>>

ClientClose ==
    /\ ~clientEof
    /\ clientEof' = TRUE
    /\ UNCHANGED <<kind, script, unsent, inbuf, m_state, m_buffer, m_mini, pending,
                   target, socks4, opened, toClient, copyVars, remoteVars>>

RemoteSend ==
    /\ s2c # "idle" /\ ~remoteEof /\ remoteSent < MaxRemote
    /\ \E d \in RemoteData : fromRemote' = Append(fromRemote, d)
    /\ remoteSent' = remoteSent + 1
    /\ UNCHANGED <<inbuf, m_state, m_buffer, m_mini, pending, target, socks4,
                   opened, toClient, copyVars, clientVars, remoteEof>>

RemoteClose ==
    /\ s2c # "idle" /\ ~remoteEof
    /\ remoteEof' = TRUE
    /\ UNCHANGED <<inbuf, m_state, m_buffer, m_mini, pending, target, socks4,
                   opened, toClient, copyVars, clientVars, fromRemote,
                   remoteSent>>

Completion ==
    \/ HandshakeRead \/ HandshakeReadMini \/ HandshakeWrote \/ channel_open
    \/ plain_open
    \/ handle_read_from_client \/ handle_wrote_to_server
    \/ handle_read_from_server \/ handle_wrote_to_client

Next ==
    \/ Completion
    \/ ClientSend \/ ClientClose \/ RemoteSend \/ RemoteClose

(* The executor runs every completion handler that is ready; the client   *)
(* and the remote end are free to do nothing.                              *)
Fairness ==
    /\ WF_vars(HandshakeRead) /\ WF_vars(HandshakeReadMini)
    /\ WF_vars(HandshakeWrote) /\ WF_vars(channel_open) /\ WF_vars(plain_open)
    /\ WF_vars(handle_read_from_client) /\ WF_vars(handle_wrote_to_server)
    /\ WF_vars(handle_read_from_server) /\ WF_vars(handle_wrote_to_client)

Spec == Init /\ [][Next]_vars /\ Fairness

(***************************************************************************)
(* Properties.                                                             *)
(***************************************************************************)
InHandshake == pending \in {"buffer", "mini", "write"}

(* Once the SOCKS client has closed its socket, the handshake stops        *)
(* issuing reads and writes: a dead client does not keep the connection   *)
(* object, and the executor, busy.  handshake() would have to look at the *)
(* error code of the completed read for this to hold.                      *)
HandshakeEndsAfterClose == (clientEof /\ InHandshake) ~> ~InHandshake

(***************************************************************************)
(* Reference: the request a client sends, read from the SOCKS 4 and 4a     *)
(* protocol notes and RFC 1928 independently of handshake().  NMETHODS is  *)
(* honoured; a field that ends in a NUL is found with SelectInSubSeq.      *)
(***************************************************************************)
NulFrom(s, i) == SelectInSubSeq(s, i, Len(s), LAMBDA x : x = 0)
PortAt(s, i) == s[i] * 256 + s[i + 1]
Is4a(s) == s[5] = 0 /\ s[6] = 0 /\ s[7] = 0 /\ s[8] # 0
UserIdEnd(s) == NulFrom(s, 9)
Socks5Atyp(s) == 2 + s[2] + 4              \* after VER NMETHODS METHODS VER CMD RSV
AddrLen(s) == CASE s[Socks5Atyp(s)] = 1 -> 4
                [] s[Socks5Atyp(s)] = 4 -> 16
                [] OTHER -> 1 + s[Socks5Atyp(s) + 1]

RequestLen(s) ==
    CASE s[1] = 4 /\ Is4a(s) -> NulFrom(s, UserIdEnd(s) + 1)
      [] s[1] = 4 -> UserIdEnd(s)
      [] OTHER -> Socks5Atyp(s) + AddrLen(s) + 2

RequestTarget(s) ==
    LET a == Socks5Atyp(s) + 1 IN
    CASE s[1] = 4 /\ Is4a(s) ->
            <<"fqdn", SubSeq(s, UserIdEnd(s) + 1, RequestLen(s) - 1), PortAt(s, 3)>>
      [] s[1] = 4 -> <<"ipv4", SubSeq(s, 5, 8), PortAt(s, 3)>>
      [] s[Socks5Atyp(s)] = 1 -> <<"ipv4", SubSeq(s, a, a + 3), PortAt(s, a + 4)>>
      [] s[Socks5Atyp(s)] = 4 -> <<"ipv6", SubSeq(s, a, a + 15), PortAt(s, a + 16)>>
      [] OTHER -> <<"fqdn", SubSeq(s, a + 1, a + s[a]), PortAt(s, a + 1 + s[a])>>

(* What follows the request is payload for the tunnel.                      *)
Payload(s) == SubSeq(s, RequestLen(s) + 1, Len(s))

(* A plain forward has no request: its target is the one forward_port     *)
(* was given, and everything the client sends is payload.                  *)
ExpectedTarget == IF kind = "plain" THEN PlainTarget ELSE RequestTarget(script)
ExpectedPayload == IF kind = "plain" THEN script ELSE Payload(script)

(* The client has handed over its whole request.                           *)
RequestSent == kind = "plain" \/ Len(script) - unsent >= RequestLen(script)

(* Whatever the order in which the request's bytes arrive, the only        *)
(* channel a client that sent its whole request gets is the one it asked  *)
(* for: the state machine of handshake() parses the address kind,         *)
(* address and port, and the SOCKS4 user id, exactly as the protocol      *)
(* lays them out.                                                          *)
RequestHonoured ==
    RequestSent => \A i \in 1..Len(opened) : opened[i] = ExpectedTarget

(* The handshake's reads take the request and nothing more, and the copy   *)
(* loop hands the channel the rest in order, chunk by chunk: no payload    *)
(* byte is swallowed, duplicated or reordered.                             *)
PayloadForwarded == IsPrefix(toChannel, ExpectedPayload)

(* A client that sends its whole request gets its channel asked for and   *)
(* the handshake finished, even if it closes its socket right after.       *)
RequestAnswered == RequestSent ~> (Len(opened) = 1 /\ pending = "none")

=============================================================================
