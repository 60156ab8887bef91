------------------------------- MODULE Channel -------------------------------
(***************************************************************************)
(* A pinch channel on an authenticated connection, in steady state.        *)
(*                                                                         *)
(* The client side is the channel of src/include/pinch/channel.hpp (the    *)
(* async_open, async_read_some and async_write_some initiations, the read  *)
(* and write handlers) and the read loop of basic_connection               *)
(* (src/src/connection.cpp: received_data, process_packet,                 *)
(* process_channel_open, process_channel, open_channel, close_channel,     *)
(* handle_error, close, keep_alive).  channel.cpp is not among the         *)
(* sources: channel::process, send_pending, push_received and closed are   *)
(* modelled from spec 4.E.  The server follows RFC 4254.                   *)
(*                                                                         *)
(* Bytes are tokens: the k-th byte the user hands to a write is k, the     *)
(* k-th byte the server sends is k; 0 is a byte read from outside any      *)
(* buffer.  One packet is processed per step of the read loop: the         *)
(* executor runs nothing else between two packets of one read, but a       *)
(* schedule in which they came in two reads is a behaviour too.           *)
(***************************************************************************)
EXTENDS Naturals, Sequences, SequencesExt, FiniteSets

CONSTANTS
    WriteBuffers,   \* buffer sequences given to async_write_some (sizes)
    PacketSizes,    \* payload sizes given to send_data
    ReadSizes,      \* buffer sizes given to async_read_some
    DataSizes,      \* sizes of the channel_data the server sends
    HostWindow,     \* initial window of the server's open confirmation
    HostMaxPacket,  \* maximum packet size of the server's confirmation
    LocalWindow,    \* kWindowSize: the window the channel advertises
    AdjustSizes,    \* window_adjust amounts the server grants
    SrvOpenTypes,   \* channel types the server may open
    ForwardAgent,   \* m_forward_agent
    MiscTypes,      \* other messages the server may send
    MaxWrites, MaxReads, MaxData, MaxAdjust, MaxMisc

ASSUME /\ HostMaxPacket \in Nat \ {0}
       /\ SrvOpenTypes \subseteq {"x11", "auth-agent@openssh.com", "session"}
       /\ MiscTypes \subseteq {"ignore", "global_request", "unknown", "service_request"}

VARIABLES
    m_auth_state,      \* of the connection
    registered,        \* the channel is in m_channels
    srvChannel,        \* a server-opened channel in m_channels: none/open/closed
    m_channel_open,
    openOp,            \* the async_open handler: idle/pending/ok/failed/lost
    m_host_window_size, m_max_send_packet_size, m_my_window_size,
    m_received,        \* bytes received and not yet read
    m_read_ops,        \* pending reads: their buffer sizes
    m_write_ops,       \* pending writes: the packets each still has to send
    wrote,             \* bytes the write calls accepted
    handed,            \* bytes the read calls returned
    readsIssued, readsDone, writesIssued, writesDone,
    c2s, s2c,          \* packets in flight to and from the server
    srvState,          \* the server's channel: none/open/closed
    srvWindow,         \* window the server still grants the client
    srvGranted,        \* window_adjust the server sent
    srvPeerWindow,     \* the client's window as the server sees it
    srvGot,            \* data bytes the server received
    srvSent,           \* data bytes the server sent
    srvCloseSent, srvMisc, srvOpened

vars == <<m_auth_state, registered, srvChannel, m_channel_open, openOp,
          m_host_window_size, m_max_send_packet_size, m_my_window_size,
          m_received, m_read_ops, m_write_ops, wrote, handed, readsIssued,
          readsDone, writesIssued, writesDone, c2s, s2c, srvState, srvWindow,
          srvGranted, srvPeerWindow, srvGot, srvSent, srvCloseSent, srvMisc,
          srvOpened>>

clientVars == <<m_auth_state, registered, srvChannel, m_channel_open, openOp,
                m_host_window_size, m_max_send_packet_size, m_my_window_size,
                m_received, m_read_ops, m_write_ops, wrote, handed,
                readsIssued, readsDone, writesIssued, writesDone>>

serverVars == <<srvState, srvWindow, srvGranted, srvPeerWindow, srvGot,
                srvSent, srvCloseSent, srvMisc, srvOpened>>

Msg(t) == [type |-> t, data |-> <<>>, n |-> 0]
DataMsg(d) == [type |-> "channel_data", data |-> d, n |-> 0]
AdjustMsg(k) == [type |-> "channel_window_adjust", data |-> <<>>, n |-> k]

SumOf(s) == FoldLeft(+, 0, s)

(* channel::channel: closed, no windows, the local window kWindowSize.     *)
(* The connection is authenticated and its read loop runs.                 *)
Init ==
    /\ m_auth_state = "authenticated"
    /\ registered = FALSE /\ srvChannel = "none"
    /\ m_channel_open = FALSE /\ openOp = "idle"
    /\ m_host_window_size = 0 /\ m_max_send_packet_size = 0
    /\ m_my_window_size = LocalWindow
    /\ m_received = <<>> /\ m_read_ops = <<>> /\ m_write_ops = <<>>
    /\ wrote = 0 /\ handed = <<>>
    /\ readsIssued = 0 /\ readsDone = 0 /\ writesIssued = 0 /\ writesDone = 0
    /\ c2s = <<>> /\ s2c = <<>>
    /\ srvState = "none" /\ srvWindow = 0 /\ srvGranted = 0
    /\ srvPeerWindow = 0 /\ srvGot = <<>> /\ srvSent = 0
    /\ srvCloseSent = FALSE /\ srvMisc = 0 /\ srvOpened = FALSE

-----------------------------------------------------------------------------
(* write_channel_handler::pop_front: the first packet of a write and what  *)
(* it leaves.                                                              *)
(* Mutant of pop_front: the last packet taken instead of the first.       *)
pop_front_Last(op) == [pkt |-> Last(op), rest |-> Front(op)]

pop_front(op) == [pkt |-> Head(op), rest |-> Tail(op)]

(* Mutant of WindowPermits: a packet sent whatever the window.            *)
WindowPermits_Always(len, win) == TRUE

WindowPermits(len, win) == len <= win

(* channel::send_pending (spec 4.E): while the first write has a packet    *)
(* the host window admits, send it and shrink the window; a write with no *)
(* packet left completes.  Returns what remains, the window, the packets  *)
(* sent and the writes completed.                                          *)
RECURSIVE Pending(_, _, _, _)
Pending(ops, win, out, done) ==
    IF ops = <<>> THEN [ops |-> ops, win |-> win, out |-> out, done |-> done]
    ELSE IF Head(ops) = <<>> THEN Pending(Tail(ops), win, out, done + 1)
    ELSE LET p == pop_front(Head(ops)) IN
         IF WindowPermits(Len(p.pkt), win)
         THEN Pending(<<p.rest>> \o Tail(ops), win - Len(p.pkt),
                      Append(out, DataMsg(p.pkt)), done)
         ELSE [ops |-> ops, win |-> win, out |-> out, done |-> done]

send_pending(ops, win, before) ==
    LET r == Pending(ops, win, <<>>, 0) IN
    /\ m_write_ops' = r.ops
    /\ m_host_window_size' = r.win
    /\ writesDone' = writesDone + r.done
    /\ c2s' = c2s \o before \o r.out

(* read_channel_handler::transfer_bytes: as many bytes as the buffers hold *)
(* or are there.                                                           *)
transfer_bytes(size, avail) == IF size > avail THEN avail ELSE size

(* channel::push_received (spec 4.E): each pending read, in order, takes   *)
(* what transfer_bytes gives it and completes, while bytes are left.       *)
RECURSIVE Deliver(_, _, _, _)
Deliver(ops, rcv, got, done) ==
    IF ops = <<>> \/ rcv = <<>>
    THEN [ops |-> ops, rcv |-> rcv, got |-> got, done |-> done]
    ELSE LET k == transfer_bytes(Head(ops), Len(rcv)) IN
         Deliver(Tail(ops), SubSeq(rcv, k + 1, Len(rcv)), got \o SubSeq(rcv, 1, k),
                 done + 1)

push_received(ops, rcv) ==
    LET r == Deliver(ops, rcv, <<>>, 0) IN
    /\ m_read_ops' = r.ops
    /\ m_received' = r.rcv
    /\ handed' = handed \o r.got
    /\ readsDone' = readsDone + r.done

(* The packets async_write_impl makes of a buffer sequence of n bytes in  *)
(* all.  For each buffer it copies from b to e = b + n, n being the size   *)
(* of the whole sequence, in pieces of m_max_send_packet_size.  Past the  *)
(* end of a buffer it reads whatever memory follows: the next buffer's     *)
(* bytes when it is adjacent, anything else (0) otherwise.                 *)
RECURSIVE Chunks(_, _)
Chunks(s, k) == IF Len(s) <= k THEN <<s>>
                ELSE <<SubSeq(s, 1, k)>> \o Chunks(SubSeq(s, k + 1, Len(s)), k)

BufferBytes(bufs, j, n, adjacent) ==
    LET start == wrote + SumOf(SubSeq(bufs, 1, j - 1))
    IN  [i \in 1..n |-> IF i <= bufs[j] \/ adjacent THEN start + i ELSE 0]

WritePackets(bufs, n, adjacent) ==
    FlattenSeq([j \in 1..Len(bufs) |->
                   Chunks(BufferBytes(bufs, j, n, adjacent), m_max_send_packet_size)])

(* channel::closed (spec 4.E): the channel is no longer open; pending     *)
(* reads and writes complete with connection_lost.                         *)
(* Mutant of closed: pending reads are left queued.                        *)
closed_KeepsReads ==
    /\ m_channel_open' = FALSE
    /\ m_write_ops' = <<>> /\ writesDone' = writesDone + Len(m_write_ops)
    /\ UNCHANGED <<m_read_ops, readsDone>>

closed ==
    /\ m_channel_open' = FALSE
    /\ m_write_ops' = <<>> /\ writesDone' = writesDone + Len(m_write_ops)
    /\ m_read_ops' = <<>> /\ readsDone' = readsDone + Len(m_read_ops)

(* basic_connection::close_channel: an open channel sends channel_close    *)
(* when the connection is authenticated and is closed(); the channel      *)
(* leaves m_channels either way.                                           *)
close_channel(authenticated, before) ==
    /\ registered' = FALSE
    /\ IF m_channel_open
       THEN /\ closed
            /\ c2s' = c2s \o before \o (IF authenticated THEN <<Msg("channel_close")>> ELSE <<>>)
       ELSE /\ c2s' = c2s \o before
            /\ UNCHANGED <<m_channel_open, m_write_ops, writesDone, m_read_ops, readsDone>>

-----------------------------------------------------------------------------
(* basic_connection::open_channel: the channel joins m_channels and, the  *)
(* connection being authenticated, channel_open is written.                *)
open_channel ==
    /\ registered' = TRUE
    /\ c2s' = IF m_auth_state = "authenticated"
              THEN Append(c2s, Msg("channel_open")) ELSE c2s

(* channel::async_open on a connected connection: the open handler is set *)
(* and channel::open() (spec 4.E) calls open_channel.  On a connection     *)
(* that is not connected async_open starts async_connect, the handshake   *)
(* of Handshake.tla, which is not repeated here.                           *)
async_open ==
    /\ openOp = "idle"
    /\ m_auth_state = "authenticated"
    /\ openOp' = "pending"
    /\ open_channel
    /\ UNCHANGED <<m_auth_state, srvChannel, m_channel_open, m_host_window_size,
                   m_max_send_packet_size, m_my_window_size, m_received,
                   m_read_ops, m_write_ops, wrote, handed, readsIssued, readsDone,
                   writesIssued, writesDone, s2c>>
    /\ UNCHANGED serverVars

(* async_read_impl: a closed channel completes the read with              *)
(* connection_lost, otherwise the read is queued; nothing looks at         *)
(* m_received here.                                                        *)
async_read_some ==
    /\ readsIssued < MaxReads
    /\ \E size \in ReadSizes :
         IF ~m_channel_open
         THEN readsDone' = readsDone + 1 /\ UNCHANGED m_read_ops
         ELSE m_read_ops' = Append(m_read_ops, size) /\ UNCHANGED readsDone
    /\ readsIssued' = readsIssued + 1
    /\ UNCHANGED <<m_auth_state, registered, srvChannel, m_channel_open, openOp,
                   m_host_window_size, m_max_send_packet_size, m_my_window_size,
                   m_received, m_write_ops, wrote, handed, writesIssued,
                   writesDone, c2s, s2c>>
    /\ UNCHANGED serverVars

(* async_write_impl: a closed channel completes the write with            *)
(* connection_lost; otherwise the buffers are cut into channel_data        *)
(* packets, queued as one write, and send_pending runs.                    *)
async_write_some ==
    /\ writesIssued < MaxWrites
    /\ \E bufs \in WriteBuffers, adjacent \in BOOLEAN :
         LET n == SumOf(bufs) IN
         IF ~m_channel_open
         THEN /\ writesDone' = writesDone + 1
              /\ UNCHANGED <<m_write_ops, m_host_window_size, c2s, wrote>>
         ELSE /\ wrote' = wrote + n
              /\ send_pending(Append(m_write_ops, WritePackets(bufs, n, adjacent)),
                              m_host_window_size, <<>>)
    /\ writesIssued' = writesIssued + 1
    /\ UNCHANGED <<m_auth_state, registered, srvChannel, m_channel_open, openOp,
                   m_max_send_packet_size, m_my_window_size, m_received,
                   m_read_ops, handed, readsIssued, readsDone, s2c>>
    /\ UNCHANGED serverVars

(* channel::send_data, i.e. async_write_packet with one channel_data      *)
(* opacket holding the whole payload: a closed channel completes the write *)
(* with connection_lost; otherwise the packet is queued as one write, not  *)
(* cut to m_max_send_packet_size, and send_pending runs.                    *)
send_data ==
    /\ writesIssued < MaxWrites
    /\ \E n \in PacketSizes :
         IF ~m_channel_open
         THEN /\ writesDone' = writesDone + 1
              /\ UNCHANGED <<m_write_ops, m_host_window_size, c2s, wrote>>
         ELSE /\ wrote' = wrote + n
              /\ send_pending(Append(m_write_ops, <<[i \in 1..n |-> wrote + i]>>),
                              m_host_window_size, <<>>)
    /\ writesIssued' = writesIssued + 1
    /\ UNCHANGED <<m_auth_state, registered, srvChannel, m_channel_open, openOp,
                   m_max_send_packet_size, m_my_window_size, m_received,
                   m_read_ops, handed, readsIssued, readsDone, s2c>>
    /\ UNCHANGED serverVars

(* channel::close by the user: basic_connection::close_channel.            *)
close ==
    /\ m_channel_open
    /\ close_channel(m_auth_state = "authenticated", <<>>)
    /\ UNCHANGED <<m_auth_state, srvChannel, openOp, m_host_window_size,
                   m_max_send_packet_size, m_my_window_size, m_received,
                   wrote, handed, readsIssued, writesIssued, s2c>>
    /\ UNCHANGED serverVars

(* basic_connection::keep_alive, when the timer finds the connection idle *)
(* and authenticated: a msg_ignore.  It shares the bound on other          *)
(* messages with the server.                                               *)
keep_alive ==
    /\ m_auth_state = "authenticated"
    /\ srvMisc < MaxMisc
    /\ c2s' = Append(c2s, Msg("ignore"))
    /\ srvMisc' = srvMisc + 1
    /\ UNCHANGED clientVars
    /\ UNCHANGED <<s2c, srvState, srvWindow, srvGranted, srvPeerWindow, srvGot,
                   srvSent, srvCloseSent, srvOpened>>

-----------------------------------------------------------------------------
(* The read loop, basic_connection::received_data: while the connection   *)
(* is authenticated each packet get_next_packet yields goes to            *)
(* process_packet; once it is not, received_data returns and the loop     *)
(* ends.                                                                   *)
Loop == m_auth_state = "authenticated" /\ s2c # <<>>
In == Head(s2c)

(* basic_connection::close: reset() drops authentication, then every      *)
(* channel is closed through close_channel, which, the connection no       *)
(* longer being authenticated, sends nothing.                              *)
connection_close ==
    /\ m_auth_state' = "none"
    /\ srvChannel' = IF srvChannel = "open" THEN "closed" ELSE srvChannel
    /\ IF registered
       THEN close_channel(FALSE, <<>>)
       ELSE UNCHANGED <<registered, m_channel_open, m_write_ops, writesDone,
                        m_read_ops, readsDone, c2s>>

Consumed ==
    /\ s2c' = Tail(s2c)
    /\ UNCHANGED serverVars

(* msg_disconnect: handle_error tells the channels and calls close();     *)
(* msg_service_request: close().                                          *)
ReceiveDisconnect ==
    /\ Loop /\ In.type \in {"disconnect", "service_request"}
    /\ connection_close
    /\ UNCHANGED <<openOp, m_host_window_size, m_max_send_packet_size,
                   m_my_window_size, m_received, wrote, handed,
                   readsIssued, writesIssued>>
    /\ Consumed

(* msg_ignore, msg_unimplemented, msg_debug: nothing; a packet for a      *)
(* channel not in m_channels: process_channel finds none.                  *)
ReceiveDropped ==
    /\ Loop
    /\ \/ In.type = "ignore"
       \/ In.type \in {"channel_open_confirmation", "channel_open_failure",
                       "channel_window_adjust", "channel_data", "channel_close"}
          /\ ~registered
    /\ UNCHANGED <<clientVars, c2s>>
    /\ Consumed

(* msg_global_request with want_reply: request_failure.  A message type  *)
(* process_packet does not know: msg_unimplemented.                        *)
ReceiveRequest ==
    /\ Loop /\ In.type \in {"global_request", "unknown"}
    /\ c2s' = Append(c2s, Msg(IF In.type = "global_request"
                              THEN "request_failure" ELSE "unimplemented"))
    /\ UNCHANGED clientVars
    /\ Consumed

(* basic_connection::process_channel_open: an x11 channel, or an agent   *)
(* channel when agent forwarding is on, joins m_channels; any other type  *)
(* is answered with channel_open_failure.                                  *)
process_channel_open ==
    /\ Loop /\ In.type = "channel_open"
    /\ IF In.data = "x11" \/ (In.data = "auth-agent@openssh.com" /\ ForwardAgent)
       THEN srvChannel' = "open" /\ UNCHANGED c2s
       ELSE c2s' = Append(c2s, Msg("channel_open_failure")) /\ UNCHANGED srvChannel
    /\ UNCHANGED <<m_auth_state, registered, m_channel_open, openOp,
                   m_host_window_size, m_max_send_packet_size, m_my_window_size,
                   m_received, m_read_ops, m_write_ops, wrote, handed,
                   readsIssued, readsDone, writesIssued, writesDone>>
    /\ Consumed

-----------------------------------------------------------------------------
(* basic_connection::process_channel hands a channel message to the       *)
(* channel in m_channels with its id, which processes it (channel::process,*)
(* spec 4.E).                                                              *)
ForChannel(t) == Loop /\ In.type = t /\ registered

ChannelUnchanged == UNCHANGED <<m_auth_state, srvChannel, wrote, readsIssued,
                                writesIssued>>

(* Open confirmation: the channel is open with the server's window and    *)
(* maximum packet size, and the open handler completes.                    *)
ReceiveConfirmation ==
    /\ ForChannel("channel_open_confirmation")
    /\ m_channel_open' = TRUE
    /\ openOp' = "ok"
    /\ m_host_window_size' = HostWindow
    /\ m_max_send_packet_size' = HostMaxPacket
    /\ UNCHANGED <<registered, m_my_window_size, m_received, m_read_ops,
                   m_write_ops, handed, readsDone, writesDone, c2s>>
    /\ ChannelUnchanged /\ Consumed

(* Open failure: the open handler completes with channel_open_failure and *)
(* the channel leaves m_channels.                                          *)
ReceiveOpenFailure ==
    /\ ForChannel("channel_open_failure")
    /\ openOp' = "failed"
    /\ registered' = FALSE
    /\ UNCHANGED <<m_channel_open, m_host_window_size, m_max_send_packet_size,
                   m_my_window_size, m_received, m_read_ops, m_write_ops,
                   handed, readsDone, writesDone, c2s>>
    /\ ChannelUnchanged /\ Consumed

(* Window adjust: the host window grows and send_pending runs.             *)
ReceiveWindowAdjust ==
    /\ ForChannel("channel_window_adjust")
    /\ send_pending(m_write_ops, m_host_window_size + In.n, <<>>)
    /\ UNCHANGED <<registered, m_channel_open, openOp, m_max_send_packet_size,
                   m_my_window_size, m_received, m_read_ops, handed,
                   readsDone>>
    /\ ChannelUnchanged /\ Consumed

(* Data: the bytes join m_received and the local window shrinks; below    *)
(* half of kWindowSize a window_adjust refills it; push_received serves    *)
(* the pending reads.                                                      *)
(* Mutant of Refill: the window refilled without telling the server.      *)
Refill_Silent(win) ==
    IF win < LocalWindow \div 2
    THEN [win |-> LocalWindow, out |-> <<>>]
    ELSE [win |-> win, out |-> <<>>]

(* Mutant of Refill: kWindowSize added to the window instead of filling  *)
(* it up to kWindowSize.                                                   *)
Refill_AddsFull(win) ==
    IF win < LocalWindow \div 2
    THEN [win |-> win + LocalWindow, out |-> <<AdjustMsg(LocalWindow)>>]
    ELSE [win |-> win, out |-> <<>>]

Refill(win) ==
    IF win < LocalWindow \div 2
    THEN [win |-> LocalWindow, out |-> <<AdjustMsg(LocalWindow - win)>>]
    ELSE [win |-> win, out |-> <<>>]

ReceiveData ==
    /\ ForChannel("channel_data")
    /\ LET r == Refill(m_my_window_size - Len(In.data)) IN
         /\ m_my_window_size' = r.win
         /\ c2s' = c2s \o r.out
    /\ push_received(m_read_ops, m_received \o In.data)
    /\ UNCHANGED <<registered, m_channel_open, openOp, m_host_window_size,
                   m_max_send_packet_size, m_write_ops, writesDone>>
    /\ ChannelUnchanged /\ Consumed

(* Close from the server: channel::close, i.e. close_channel, which       *)
(* answers with channel_close and completes what is pending.               *)
ReceiveClose ==
    /\ ForChannel("channel_close")
    /\ close_channel(TRUE, <<>>)
    /\ UNCHANGED <<openOp, m_host_window_size, m_max_send_packet_size,
                   m_my_window_size, m_received, handed>>
    /\ ChannelUnchanged /\ Consumed

-----------------------------------------------------------------------------
(* The server (RFC 4254).  It takes the client's packets in order.         *)
SrvIn == Head(c2s)

SrvTake(t) == c2s # <<>> /\ SrvIn.type \in t /\ c2s' = Tail(c2s)

(* channel_open: confirmed with HostWindow and HostMaxPacket, or refused. *)
SrvOpen ==
    /\ SrvTake({"channel_open"})
    /\ \/ /\ srvState' = "open"
          /\ srvWindow' = HostWindow
          /\ srvPeerWindow' = LocalWindow
          /\ s2c' = Append(s2c, Msg("channel_open_confirmation"))
       \/ /\ s2c' = Append(s2c, Msg("channel_open_failure"))
          /\ UNCHANGED <<srvState, srvWindow, srvPeerWindow>>
    /\ UNCHANGED <<srvGranted, srvGot, srvSent, srvCloseSent, srvMisc, srvOpened>>
    /\ UNCHANGED clientVars

(* channel_data: the bytes arrive and use up the window.                   *)
SrvData ==
    /\ SrvTake({"channel_data"})
    /\ srvGot' = srvGot \o SrvIn.data
    /\ srvWindow' = srvWindow - Len(SrvIn.data)
    /\ UNCHANGED <<s2c, srvState, srvGranted, srvPeerWindow, srvSent,
                   srvCloseSent, srvMisc, srvOpened>>
    /\ UNCHANGED clientVars

(* window_adjust from the client: it may send that much more.              *)
SrvAdjusted ==
    /\ SrvTake({"channel_window_adjust"})
    /\ srvPeerWindow' = srvPeerWindow + SrvIn.n
    /\ UNCHANGED <<s2c, srvState, srvWindow, srvGranted, srvGot, srvSent,
                   srvCloseSent, srvMisc, srvOpened>>
    /\ UNCHANGED clientVars

(* channel_close from the client: answered with channel_close unless the  *)
(* server closed first.                                                    *)
SrvClosed ==
    /\ SrvTake({"channel_close"})
    /\ srvState' = "closed"
    /\ srvCloseSent' = TRUE
    /\ s2c' = IF srvCloseSent THEN s2c ELSE Append(s2c, Msg("channel_close"))
    /\ UNCHANGED <<srvWindow, srvGranted, srvPeerWindow, srvGot, srvSent,
                   srvMisc, srvOpened>>
    /\ UNCHANGED clientVars

(* Anything else the client sends needs no answer.                         *)
SrvOther ==
    /\ SrvTake({"ignore", "request_failure", "unimplemented", "channel_open_failure"})
    /\ UNCHANGED <<s2c, serverVars>>
    /\ UNCHANGED clientVars

SrvLive == srvState = "open" /\ ~srvCloseSent

(* The server grants more window.                                          *)
SrvGrant ==
    /\ SrvLive /\ srvGranted < MaxAdjust
    /\ \E k \in AdjustSizes :
         /\ srvWindow' = srvWindow + k
         /\ s2c' = Append(s2c, AdjustMsg(k))
    /\ srvGranted' = srvGranted + 1
    /\ UNCHANGED <<c2s, srvState, srvPeerWindow, srvGot, srvSent, srvCloseSent,
                   srvMisc, srvOpened>>
    /\ UNCHANGED clientVars

(* The server sends data within the client's window.                       *)
SrvSend ==
    /\ SrvLive
    /\ \E d \in DataSizes :
         /\ srvSent + d <= MaxData
         /\ d <= srvPeerWindow
         /\ s2c' = Append(s2c, DataMsg([i \in 1..d |-> srvSent + i]))
         /\ srvSent' = srvSent + d
         /\ srvPeerWindow' = srvPeerWindow - d
    /\ UNCHANGED <<c2s, srvState, srvWindow, srvGranted, srvGot, srvCloseSent,
                   srvMisc, srvOpened>>
    /\ UNCHANGED clientVars

(* The server closes the channel.                                          *)
SrvClose ==
    /\ SrvLive
    /\ srvCloseSent' = TRUE
    /\ s2c' = Append(s2c, Msg("channel_close"))
    /\ UNCHANGED <<c2s, srvState, srvWindow, srvGranted, srvPeerWindow, srvGot,
                   srvSent, srvMisc, srvOpened>>
    /\ UNCHANGED clientVars

(* The server opens a channel of its own.                                  *)
SrvOpenChannel ==
    /\ ~srvOpened
    /\ \E t \in SrvOpenTypes :
         s2c' = Append(s2c, [type |-> "channel_open", data |-> t, n |-> 0])
    /\ srvOpened' = TRUE
    /\ UNCHANGED <<c2s, srvState, srvWindow, srvGranted, srvPeerWindow, srvGot,
                   srvSent, srvCloseSent, srvMisc>>
    /\ UNCHANGED clientVars

(* Unsolicited messages: ignore, a global request, an unknown type,       *)
(* service_request, disconnect.                                            *)
SrvMisc ==
    /\ srvMisc < MaxMisc
    /\ \E t \in MiscTypes \cup {"disconnect"} : s2c' = Append(s2c, Msg(t))
    /\ srvMisc' = srvMisc + 1
    /\ UNCHANGED <<c2s, srvState, srvWindow, srvGranted, srvPeerWindow, srvGot,
                   srvSent, srvCloseSent, srvOpened>>
    /\ UNCHANGED clientVars

-----------------------------------------------------------------------------
UserStep == async_open \/ async_read_some \/ async_write_some \/ send_data \/ close
            \/ keep_alive

ReceivePacket ==
    \/ ReceiveDisconnect \/ ReceiveDropped \/ ReceiveRequest \/ process_channel_open
    \/ ReceiveConfirmation \/ ReceiveOpenFailure \/ ReceiveWindowAdjust
    \/ ReceiveData \/ ReceiveClose

ServerReceive == SrvOpen \/ SrvData \/ SrvAdjusted \/ SrvClosed \/ SrvOther

ServerStep == SrvGrant \/ SrvSend \/ SrvClose \/ SrvOpenChannel \/ SrvMisc

Next == UserStep \/ ReceivePacket \/ ServerReceive \/ ServerStep

(* The executor runs every read completion and the server takes every    *)
(* packet it is sent.  The user and the server's own choices (data,       *)
(* window, close) are not required.                                        *)
Fairness ==
    /\ WF_vars(ReceivePacket)
    /\ WF_vars(ServerReceive)

Spec == Init /\ [][Next]_vars /\ Fairness

-----------------------------------------------------------------------------
Tokens(n) == [i \in 1..n |-> i]

DataIn(q) == SumOf([i \in DOMAIN q |->
                       IF q[i].type = "channel_data" THEN Len(q[i].data) ELSE 0])

AdjustIn(q) == SumOf([i \in DOMAIN q |->
                         IF q[i].type = "channel_window_adjust" THEN q[i].n ELSE 0])

TypeOK ==
    /\ m_auth_state \in {"authenticated", "none"}
    /\ {registered, m_channel_open, srvCloseSent, srvOpened} \subseteq BOOLEAN
    /\ srvChannel \in {"none", "open", "closed"}
    /\ openOp \in {"idle", "pending", "ok", "failed"}
    /\ m_host_window_size \in Int /\ m_my_window_size \in 0..LocalWindow
    /\ m_read_ops \in Seq(ReadSizes)
    /\ readsDone <= readsIssued /\ writesDone <= writesIssued
    /\ srvState \in {"none", "open", "closed"}

(* Flow control (spec 2, RFC 4254 5.2): the channel_data the server gets   *)
(* never exceeds the window it granted, across any interleaving of        *)
(* async_write_some and send_data, window adjusts and closes: the server's *)
(* window never goes negative.                                              *)
WindowRespected == srvWindow >= 0

(* spec.md 2: no channel_data payload exceeds the peer's maximum packet    *)
(* size.  async_write_impl cuts to m_max_send_packet_size, send_data does  *)
(* not cut at all.                                                          *)
MaxPacketRespected ==
    \A i \in DOMAIN c2s :
        c2s[i].type = "channel_data" => Len(c2s[i].data) <= HostMaxPacket

(* While the channel is open on an authenticated connection, the client's *)
(* receive window is the server's idea of it plus the data and the        *)
(* window_adjusts in flight: every refill is announced, by the amount it   *)
(* refills.                                                                *)
ReceiveWindowAgrees ==
    (m_channel_open /\ registered /\ m_auth_state = "authenticated")
        => m_my_window_size = srvPeerWindow + DataIn(s2c) + AdjustIn(c2s)

(* The channel implements the two byte streams of ByteStream: the server  *)
(* receives a prefix of the bytes the writes accepted, and the reads hand  *)
(* out a prefix of the bytes the server sent, in order.                    *)
Stream == INSTANCE ByteStream
              WITH accepted <- Tokens(wrote), transmitted <- srvGot,
                   produced <- Tokens(srvSent)

StreamRefined == Stream!Spec

(* spec.md 4.E, read API: a read finds the bytes already received and    *)
(* completes at once; it is queued only when there are none.  So no read  *)
(* waits while m_received holds bytes.  async_read_impl queues every read *)
(* on an open channel, and push_received runs only on the next data packet *)
(* or at close.                                                            *)
ReadServedAtOnce == m_read_ops # <<>> => m_received = <<>>

=============================================================================
