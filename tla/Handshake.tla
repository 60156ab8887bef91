----------------------------- MODULE Handshake -----------------------------
(***************************************************************************)
(* The connection handshake of pinch: basic_connection::do_open and the    *)
(* coroutine basic_connection::do_handshake (src/src/connection.cpp),     *)
(* with receive_packet, userauth_success, reset and close.                 *)
(*                                                                         *)
(* The coroutine opens the next layer, exchanges version lines, runs the   *)
(* key exchange loop, asks the host-key callback, and then runs the        *)
(* authentication loop (publickey via the agent, keyboard-interactive,     *)
(* password) until userauth_success or an error.  Every suspension point   *)
(* of the coroutine is a separate step: awaiting bytes from the next       *)
(* layer (reading), awaiting the host-key callback and awaiting the        *)
(* password callback.                                                      *)
(*                                                                         *)
(* The peer is an SSH server that answers each client packet in order,    *)
(* and may in addition send msg_ignore, a userauth banner or               *)
(* msg_disconnect at any time (each bounded).  The bytes the server has   *)
(* sent arrive at the client in chunks of one or more whole packets: one   *)
(* async_read may deliver several packets into m_response at once.         *)
(*                                                                         *)
(* Messages are abstracted to their type; a userauth_failure carries the   *)
(* set of methods the server offers, an info_request its number of         *)
(* prompts, the server's kexinit whether the algorithm lists agree.        *)
(***************************************************************************)
EXTENDS Naturals, Sequences, FiniteSets

CONSTANTS
    Openers,         \* callers of async_open on this connection (model values)
    AgentKeys,       \* number of private keys the ssh_agent holds
    OfferedMethods,  \* method sets the server may list in userauth_failure
    HostVersions,    \* version lines the server may send
    KexAgreement,    \* whether the kexinit algorithm lists may agree / disagree
    MaxIgnore,       \* bound on msg_ignore packets the server sends
    MaxBanner,       \* bound on userauth_banner packets the server sends
    MaxDisconnect    \* bound on msg_disconnect packets the server sends

Methods == {"publickey", "keyboard-interactive", "password"}

ASSUME /\ Openers # {}
       /\ AgentKeys \in Nat
       /\ OfferedMethods \subseteq SUBSET Methods
       /\ HostVersions \subseteq {"SSH-2.0", "SSH-1.99", "greeting"}
       /\ KexAgreement \subseteq BOOLEAN /\ KexAgreement # {}
       /\ {MaxIgnore, MaxBanner, MaxDisconnect} \subseteq Nat

\* password_attempts is compared with 3 in do_handshake.
MaxPasswordAttempts == 3

(* Client to server packets.                                               *)
AuthRequests == {"auth_none", "pk_probe", "pk_sign", "kbd", "password", "info_response"}
C2S == {"kexinit", "kexdh_init", "newkeys", "service_request"} \cup AuthRequests

(* Server to client packet types.                                          *)
S2CTypes == {"kexinit", "kexdh_reply", "newkeys", "service_accept",
             "failure", "success", "banner", "info_request",
             "ignore", "disconnect"}
S2C == [type : S2CTypes, methods : SUBSET Methods, prompts : 0..1, agree : BOOLEAN]

Msg(t) == [type |-> t, methods |-> {}, prompts |-> 0, agree |-> TRUE]

(* The replies that answer one userauth request.                           *)
AuthReplies == {"failure", "success", "info_request"}

(* Errors the open operation can complete with ("none" is success).        *)
Errors == {"none", "connection_failed", "protocol_version_not_supported",
           "key_exchange_failed", "host_key_not_verifiable", "connection_lost",
           "no_more_auth_methods_available", "auth_cancelled_by_user",
           "protocol_error"}

VARIABLES
    m_auth_state,      \* basic_connection::m_auth_state
    pc,                \* where the handshake coroutine is suspended
    owner,             \* the opener whose op the coroutine completes
    status,            \* per opener: its open operation
    auth_state,        \* do_handshake local auth_state
    private_keys,      \* do_handshake local private_keys (how many remain)
    password_attempts, \* do_handshake local password_attempts
    ec,                \* do_handshake local ec
    hostkey,           \* verdict of the host-key callback
    reading,           \* an async_read on the next layer is outstanding
    sent,              \* every packet the client has written, in order
    srvRecv,           \* how many of them the server has processed
    srvSent,           \* every packet the server has written, in order
    delivered,         \* how many of them were read into m_response
    consumed           \* how many of them receive_packet has taken

vars == <<m_auth_state, pc, owner, status, auth_state, private_keys,
          password_attempts, ec, hostkey, reading, sent, srvRecv, srvSent,
          delivered, consumed>>

-----------------------------------------------------------------------------
(* Helpers.                                                                *)

CountIn(s, S) == Cardinality({i \in 1..Len(s) : s[i] \in S})
TypesOf(s) == [i \in 1..Len(s) |-> s[i].type]

SrvClosed == \E i \in 1..Len(srvSent) : srvSent[i].type = "disconnect"
SrvCount(t) == CountIn(TypesOf(srvSent), {t})

HasPacket == consumed < delivered          \* m_response holds a whole packet
Incoming == srvSent[consumed + 1]          \* the packet receive_packet takes

(* userauth requests sent and not yet answered by a reply the client has   *)
(* processed.                                                              *)
AuthRequestsInFlight ==
    CountIn(sent, AuthRequests)
      - CountIn(TypesOf(SubSeq(srvSent, 1, consumed)), AuthReplies)

Send(msgs) == sent' = sent \o msgs

(* The coroutine leaves its loop with error e: op->complete(ec) and, since *)
(* ec is set, close(), whose reset() puts m_auth_state back to none.      *)
(* close() does not touch m_waiting_ops.                                   *)
Fail(e) ==
    /\ ec' = e
    /\ pc' = "done"
    /\ m_auth_state' = "none"
    /\ status' = [status EXCEPT ![owner] = "failed"]

(* A client step that consumes the packet at the head of m_response.       *)
Take == consumed' = consumed + 1

-----------------------------------------------------------------------------
Init ==
    /\ m_auth_state = "none"
    /\ pc = "idle"
    /\ owner = CHOOSE o \in Openers : TRUE
    /\ status = [o \in Openers |-> "idle"]
    /\ auth_state = "none"
    /\ private_keys = 0
    /\ password_attempts = 0
    /\ ec = "none"
    /\ hostkey = "unknown"
    /\ reading = FALSE
    /\ sent = <<>>
    /\ srvRecv = 0
    /\ srvSent = <<>>
    /\ delivered = 0
    /\ consumed = 0

-----------------------------------------------------------------------------
(* Mutant of Open: a connection in handshake counted as connected.        *)
Open_HandshakeCountsAsConnected(o) ==
    /\ status[o] = "idle"
    /\ \/ /\ m_auth_state # "none"
          /\ status' = [status EXCEPT ![o] = "ok"]
          /\ UNCHANGED <<m_auth_state, pc, owner>>
       \/ /\ m_auth_state = "none"
          /\ pc = "idle"
          /\ pc' = "connect"
          /\ owner' = o
          /\ m_auth_state' = "handshake"
          /\ status' = [status EXCEPT ![o] = "running"]
    /\ UNCHANGED <<auth_state, private_keys, password_attempts, ec, hostkey,
                   reading, sent, srvRecv, srvSent, delivered, consumed>>

(* basic_connection::do_open.  Authenticated: complete at once.  In        *)
(* handshake: queue on m_waiting_ops.  Otherwise spawn do_handshake, which *)
(* sets m_auth_state to handshake.  A second handshake after a failed one  *)
(* (same socket, see README) is not modelled: the coroutine runs once.     *)
Open(o) ==
    /\ status[o] = "idle"
    /\ \/ /\ m_auth_state = "authenticated"
          /\ status' = [status EXCEPT ![o] = "ok"]
          /\ UNCHANGED <<m_auth_state, pc, owner>>
       \/ /\ m_auth_state = "handshake"
          /\ status' = [status EXCEPT ![o] = "waiting"]
          /\ UNCHANGED <<m_auth_state, pc, owner>>
       \/ /\ m_auth_state = "none"
          /\ pc = "idle"
          /\ pc' = "connect"
          /\ owner' = o
          /\ m_auth_state' = "handshake"
          /\ status' = [status EXCEPT ![o] = "running"]
    /\ UNCHANGED <<auth_state, private_keys, password_attempts, ec, hostkey,
                   reading, sent, srvRecv, srvSent, delivered, consumed>>

(* async_open_next_layer fails.                                            *)
ConnectFailed ==
    /\ pc = "connect"
    /\ Fail("connection_failed")
    /\ UNCHANGED <<owner, auth_state, private_keys, password_attempts, hostkey,
                   reading, sent, srvRecv, srvSent, delivered, consumed>>

(* Next layer open, our version line written, the server's read.  A line  *)
(* that does not start with SSH-2.0 fails; otherwise our kexinit is        *)
(* written and the first read of the key exchange is started.             *)
VersionExchange ==
    /\ pc = "connect"
    /\ \E v \in HostVersions :
         IF v = "SSH-2.0"
         THEN /\ Send(<<"kexinit">>)
              /\ reading' = TRUE
              /\ pc' = "kex"
              /\ UNCHANGED <<ec, m_auth_state, status>>
         ELSE /\ Fail("protocol_version_not_supported")
              /\ UNCHANGED <<sent, reading>>
    /\ UNCHANGED <<owner, auth_state, private_keys, password_attempts, hostkey,
                   srvRecv, srvSent, delivered, consumed>>

(* The outstanding async_read completes: one or more whole packets the     *)
(* server has written arrive in m_response.                                 *)
ReadSome ==
    /\ reading
    /\ delivered < Len(srvSent)
    /\ \E k \in delivered + 1 .. Len(srvSent) : delivered' = k
    /\ reading' = FALSE
    /\ UNCHANGED <<m_auth_state, pc, owner, status, auth_state, private_keys,
                   password_attempts, ec, hostkey, sent, srvRecv, srvSent, consumed>>

(* The outstanding async_read fails: the server has closed the socket.     *)
ReadEof ==
    /\ reading
    /\ delivered = Len(srvSent)
    /\ SrvClosed
    /\ reading' = FALSE
    /\ Fail("connection_lost")
    /\ UNCHANGED <<owner, auth_state, private_keys, password_attempts, hostkey,
                   sent, srvRecv, srvSent, delivered, consumed>>

-----------------------------------------------------------------------------
(* The key exchange loop: while (not ec) { receive_packet ... }.           *)

KexLoop == pc = "kex" /\ ~reading

(* receive_packet returns false: m_response holds no whole packet, or the  *)
(* packet was msg_ignore/msg_debug/msg_unimplemented, which it swallows.   *)
(* Either way the loop awaits at least one more byte.                      *)
KexAwait ==
    /\ KexLoop
    /\ \/ /\ ~HasPacket
          /\ UNCHANGED consumed
       \/ /\ HasPacket
          /\ Incoming.type = "ignore"
          /\ Take
    /\ reading' = TRUE
    /\ UNCHANGED <<m_auth_state, pc, owner, status, auth_state, private_keys,
                   password_attempts, ec, hostkey, sent, srvRecv, srvSent, delivered>>

(* msg_newkeys: leave the loop and ask the host-key callback.              *)
KexNewKeys ==
    /\ KexLoop
    /\ HasPacket
    /\ Incoming.type = "newkeys"
    /\ Take
    /\ pc' = "hostkey"
    /\ UNCHANGED <<m_auth_state, owner, status, auth_state, private_keys,
                   password_attempts, ec, hostkey, reading, sent, srvRecv,
                   srvSent, delivered>>

(* kex->process accepts the packet and may produce a reply: our            *)
(* kexdh_init for the server's kexinit (when the lists agree), our newkeys *)
(* for the server's kexdh_reply.  key_exchange is not under src/.          *)
KexProcess ==
    /\ KexLoop
    /\ HasPacket
    /\ \/ Incoming.type = "kexinit" /\ Incoming.agree /\ Send(<<"kexdh_init">>)
       \/ Incoming.type = "kexdh_reply" /\ Send(<<"newkeys">>)
    /\ Take
    /\ UNCHANGED <<m_auth_state, pc, owner, status, auth_state, private_keys,
                   password_attempts, ec, hostkey, reading, srvRecv, srvSent, delivered>>

(* kex->process refuses the packet: key_exchange_failed.  A                *)
(* msg_disconnect gets here too, after receive_packet has already called   *)
(* close().                                                                *)
KexFailed ==
    /\ KexLoop
    /\ HasPacket
    /\ ~(Incoming.type \in {"ignore", "newkeys", "kexdh_reply"})
    /\ ~(Incoming.type = "kexinit" /\ Incoming.agree)
    /\ Take
    /\ Fail("key_exchange_failed")
    /\ UNCHANGED <<owner, auth_state, private_keys, password_attempts, hostkey,
                   reading, sent, srvRecv, srvSent, delivered>>

(* Mutant of HostKeyCheck: the callback's verdict is not acted upon.       *)
HostKeyCheck_IgnoreVerdict(accept) ==
    /\ pc = "hostkey"
    /\ hostkey' = IF accept THEN "accepted" ELSE "rejected"
    /\ Send(<<"service_request">>)
    /\ private_keys' = AgentKeys
    /\ pc' = "auth"
    /\ UNCHANGED <<ec, m_auth_state, status, owner, auth_state, password_attempts,
                   reading, srvRecv, srvSent, delivered, consumed>>

(* async_check_host_key returns.  Accepted: newkeys, service_request, the  *)
(* agent's keys fetched, the authentication loop starts.                   *)
HostKeyCheck(accept) ==
    /\ pc = "hostkey"
    /\ IF accept
       THEN /\ hostkey' = "accepted"
            /\ Send(<<"service_request">>)
            /\ private_keys' = AgentKeys
            /\ pc' = "auth"
            /\ UNCHANGED <<ec, m_auth_state, status>>
       ELSE /\ hostkey' = "rejected"
            /\ Fail("host_key_not_verifiable")
            /\ UNCHANGED <<sent, private_keys>>
    /\ UNCHANGED <<owner, auth_state, password_attempts, reading, srvRecv,
                   srvSent, delivered, consumed>>

-----------------------------------------------------------------------------
(* The authentication loop:                                                *)
(*   while (not ec and m_auth_state != authenticated) { receive_packet ... } *)

AuthLoop == pc = "auth" /\ ~reading /\ m_auth_state # "authenticated"

AuthUnchanged == UNCHANGED <<owner, hostkey, reading, srvRecv, srvSent, delivered>>

AuthAwait ==
    /\ AuthLoop
    /\ \/ /\ ~HasPacket
          /\ UNCHANGED consumed
       \/ /\ HasPacket
          /\ Incoming.type = "ignore"
          /\ Take
    /\ reading' = TRUE
    /\ UNCHANGED <<m_auth_state, pc, owner, status, auth_state, private_keys,
                   password_attempts, ec, hostkey, sent, srvRecv, srvSent, delivered>>

(* msg_disconnect: receive_packet calls close(), which resets the          *)
(* connection (m_auth_state := none); the switch ignores the packet and    *)
(* the loop goes on reading.                                               *)
AuthDisconnect ==
    /\ AuthLoop
    /\ HasPacket
    /\ Incoming.type = "disconnect"
    /\ Take
    /\ m_auth_state' = "none"
    /\ UNCHANGED <<pc, status, auth_state, private_keys, password_attempts, ec, sent>>
    /\ AuthUnchanged

(* msg_userauth_banner goes to the channels' banner handlers.              *)
AuthBanner ==
    /\ AuthLoop
    /\ HasPacket
    /\ Incoming.type = "banner"
    /\ Take
    /\ UNCHANGED <<m_auth_state, pc, status, auth_state, private_keys,
                   password_attempts, ec, sent>>
    /\ AuthUnchanged

(* Mutant of AuthServiceAccept: the userauth_request for method none is    *)
(* built but never written.                                                *)
AuthServiceAccept_NoRequest ==
    /\ AuthLoop
    /\ HasPacket
    /\ Incoming.type = "service_accept"
    /\ Take
    /\ UNCHANGED <<m_auth_state, pc, status, auth_state, private_keys,
                   password_attempts, ec, sent>>
    /\ AuthUnchanged

(* msg_service_accept: userauth_request for method none.                   *)
AuthServiceAccept ==
    /\ AuthLoop
    /\ HasPacket
    /\ Incoming.type = "service_accept"
    /\ Take
    /\ Send(<<"auth_none">>)
    /\ UNCHANGED <<m_auth_state, pc, status, auth_state, private_keys,
                   password_attempts, ec>>
    /\ AuthUnchanged

(* Mutant of PublicKeyChosen: the not private_keys.empty() test dropped.  *)
PublicKeyChosen_NoEmptyCheck(s) == "publickey" \in s

(* choose_protocol(s, "publickey") and not private_keys.empty().          *)
PublicKeyChosen(s) == "publickey" \in s /\ private_keys > 0

(* msg_userauth_failure, the publickey branch: a key remains, probe it.    *)
AuthFailurePublicKey ==
    /\ AuthLoop
    /\ HasPacket
    /\ Incoming.type = "failure"
    /\ PublicKeyChosen(Incoming.methods)
    /\ Take
    /\ Send(<<"pk_probe">>)
    /\ private_keys' = private_keys - 1
    /\ auth_state' = "public_key"
    /\ UNCHANGED <<m_auth_state, pc, status, password_attempts, ec>>
    /\ AuthUnchanged

(* The rest of the failure branch, as the code runs it when publickey is   *)
(* not chosen.  The keyboard-interactive block has no continue: after      *)
(* writing its request the code goes on to the password test.  Each test   *)
(* increments password_attempts when its method is offered.                *)
KbdAttempts(s) ==
    IF "keyboard-interactive" \in s THEN password_attempts + 1 ELSE password_attempts
KbdChosen(s) == "keyboard-interactive" \in s /\ KbdAttempts(s) <= MaxPasswordAttempts
PwdAttempts(s) ==
    IF "password" \in s THEN KbdAttempts(s) + 1 ELSE KbdAttempts(s)
(* Mutant of PwdChosen: password_attempts++ <= 3 (post-increment).        *)
PwdChosen_PostIncrement(s) == "password" \in s /\ KbdAttempts(s) <= MaxPasswordAttempts
PwdChosen(s) == "password" \in s /\ PwdAttempts(s) <= MaxPasswordAttempts
KbdRequest(s) == IF KbdChosen(s) THEN <<"kbd">> ELSE <<>>

(* ... password chosen: the coroutine awaits the password callback.        *)
AuthFailurePassword ==
    /\ AuthLoop
    /\ HasPacket
    /\ Incoming.type = "failure"
    /\ LET s == Incoming.methods IN
         /\ ~PublicKeyChosen(s)
         /\ PwdChosen(s)
         /\ Send(KbdRequest(s))
         /\ password_attempts' = PwdAttempts(s)
         /\ auth_state' = IF KbdChosen(s) THEN "keyboard_interactive" ELSE auth_state
    /\ Take
    /\ pc' = "password_cb"
    /\ UNCHANGED <<m_auth_state, status, private_keys, ec>>
    /\ AuthUnchanged

(* ... nothing chosen after the keyboard-interactive block:                *)
(* no_more_auth_methods_available.                                         *)
AuthFailureExhausted ==
    /\ AuthLoop
    /\ HasPacket
    /\ Incoming.type = "failure"
    /\ LET s == Incoming.methods IN
         /\ ~PublicKeyChosen(s)
         /\ ~PwdChosen(s)
         /\ Send(KbdRequest(s))
         /\ password_attempts' = PwdAttempts(s)
    /\ Take
    /\ auth_state' = "error"
    /\ Fail("no_more_auth_methods_available")
    /\ UNCHANGED <<private_keys>>
    /\ AuthUnchanged

(* async_provide_password returns: empty means cancelled.                  *)
PasswordCallback(given) ==
    /\ pc = "password_cb"
    /\ IF given
       THEN /\ auth_state' = "password"
            /\ Send(<<"password">>)
            /\ pc' = "auth"
            /\ UNCHANGED <<password_attempts, ec, m_auth_state, status>>
       ELSE /\ password_attempts' = 4
            /\ Fail("auth_cancelled_by_user")
            /\ UNCHANGED <<auth_state, sent>>
    /\ UNCHANGED <<private_keys, consumed>>
    /\ AuthUnchanged

(* msg_userauth_info_request.  In state public_key it is the server's      *)
(* pk_ok: sign with the agent key and send.  In state keyboard_interactive *)
(* it carries prompts; that state is never current when a packet is        *)
(* processed (the failure branch always moves on to password or error),    *)
(* so that branch is unreachable and not an action here.  In any other     *)
(* state: protocol_error.                                                  *)
AuthInfoRequest ==
    /\ AuthLoop
    /\ HasPacket
    /\ Incoming.type = "info_request"
    /\ Take
    /\ \/ /\ auth_state = "public_key"
          /\ Send(<<"pk_sign">>)
          /\ UNCHANGED <<m_auth_state, pc, status, ec>>
       \/ /\ auth_state \notin {"public_key", "keyboard_interactive"}
          /\ Fail("protocol_error")
          /\ UNCHANGED sent
    /\ UNCHANGED <<auth_state, private_keys, password_attempts>>
    /\ AuthUnchanged

(* msg_userauth_success: userauth_success sets m_auth_state, completes the *)
(* open ops waiting on m_waiting_ops; the loop ends and the coroutine      *)
(* completes its own op without error.                                     *)
userauth_success ==
    /\ AuthLoop
    /\ HasPacket
    /\ Incoming.type = "success"
    /\ Take
    /\ m_auth_state' = "authenticated"
    /\ status' = [o \in Openers |->
                    IF status[o] \in {"waiting", "running"} THEN "ok" ELSE status[o]]
    /\ pc' = "done"
    /\ UNCHANGED <<auth_state, private_keys, password_attempts, ec, sent>>
    /\ AuthUnchanged

(* The loop condition fails after close() reset m_auth_state mid-loop is   *)
(* not a case: m_auth_state none still loops.  Packets of other types are  *)
(* ignored by the switch; the server never sends them in this phase.       *)

-----------------------------------------------------------------------------
(* The server: answers the client's packets in order.                      *)

SrvUnchanged == UNCHANGED <<m_auth_state, pc, owner, status, auth_state,
                            private_keys, password_attempts, ec, hostkey,
                            reading, sent, delivered, consumed>>

SrvHead == sent[srvRecv + 1]

SrvReply(msgs) ==
    /\ srvRecv < Len(sent)
    /\ ~SrvClosed
    /\ srvRecv' = srvRecv + 1
    /\ srvSent' = srvSent \o msgs

Failure(s) == [Msg("failure") EXCEPT !.methods = s]
InfoRequest(n) == [Msg("info_request") EXCEPT !.prompts = n]

ServerAnswer ==
    /\ srvRecv < Len(sent)
    /\ \/ SrvHead = "kexinit" /\ \E a \in KexAgreement :
                                    SrvReply(<<[Msg("kexinit") EXCEPT !.agree = a]>>)
       \/ SrvHead = "kexdh_init" /\ SrvReply(<<Msg("kexdh_reply"), Msg("newkeys")>>)
       \/ SrvHead = "newkeys" /\ SrvReply(<<>>)
       \/ SrvHead = "service_request" /\ SrvReply(<<Msg("service_accept")>>)
       \/ SrvHead \in AuthRequests /\ \E s \in OfferedMethods : SrvReply(<<Failure(s)>>)
       \/ SrvHead \in {"pk_sign", "password", "info_response"} /\ SrvReply(<<Msg("success")>>)
       \/ SrvHead = "pk_probe" /\ SrvReply(<<InfoRequest(0)>>)
       \/ SrvHead = "kbd" /\ \E n \in 0..1 : SrvReply(<<InfoRequest(n)>>)
    /\ SrvUnchanged

(* Unsolicited packets.                                                    *)
ServerIgnore ==
    /\ ~SrvClosed
    /\ SrvCount("ignore") < MaxIgnore
    /\ srvSent' = Append(srvSent, Msg("ignore"))
    /\ UNCHANGED srvRecv
    /\ SrvUnchanged

ServerBanner ==
    /\ ~SrvClosed
    /\ SrvCount("banner") < MaxBanner
    /\ SrvCount("service_accept") > 0
    /\ SrvCount("success") = 0
    /\ srvSent' = Append(srvSent, Msg("banner"))
    /\ UNCHANGED srvRecv
    /\ SrvUnchanged

ServerDisconnect ==
    /\ ~SrvClosed
    /\ SrvCount("disconnect") < MaxDisconnect
    /\ srvSent' = Append(srvSent, Msg("disconnect"))
    /\ UNCHANGED srvRecv
    /\ SrvUnchanged

-----------------------------------------------------------------------------
ClientStep ==
    \/ ConnectFailed \/ VersionExchange
    \/ KexAwait \/ KexNewKeys \/ KexProcess \/ KexFailed
    \/ \E a \in BOOLEAN : HostKeyCheck(a)
    \/ AuthAwait \/ AuthDisconnect \/ AuthBanner \/ AuthServiceAccept
    \/ AuthFailurePublicKey \/ AuthFailurePassword \/ AuthFailureExhausted
    \/ \E g \in BOOLEAN : PasswordCallback(g)
    \/ AuthInfoRequest \/ userauth_success

Next ==
    \/ \E o \in Openers : Open(o)
    \/ ClientStep
    \/ ReadSome \/ ReadEof
    \/ ServerAnswer \/ ServerIgnore \/ ServerBanner \/ ServerDisconnect

(* The executor runs every ready continuation, the callbacks are plain     *)
(* functions run on the executor (async_function_wrapper), the socket      *)
(* delivers bytes that were sent, and the server answers.  Openers and the *)
(* unsolicited server packets are not required to happen.                  *)
Fairness ==
    /\ WF_vars(ClientStep)
    /\ WF_vars(ReadSome \/ ReadEof)
    /\ WF_vars(ServerAnswer)

Spec == Init /\ [][Next]_vars /\ Fairness

-----------------------------------------------------------------------------
TypeOK ==
    /\ m_auth_state \in {"none", "handshake", "authenticated"}
    /\ pc \in {"idle", "connect", "kex", "hostkey", "auth", "password_cb", "done"}
    /\ owner \in Openers
    /\ status \in [Openers -> {"idle", "running", "waiting", "ok", "failed"}]
    /\ auth_state \in {"none", "public_key", "keyboard_interactive", "password", "error"}
    /\ private_keys \in 0..AgentKeys
    /\ password_attempts \in 0..MaxPasswordAttempts + 2
    /\ ec \in Errors
    /\ hostkey \in {"unknown", "accepted", "rejected"}
    /\ reading \in BOOLEAN
    /\ sent \in Seq(C2S)
    /\ srvSent \in Seq(S2C)
    /\ srvRecv \in 0..Len(sent)
    /\ consumed \in 0..delivered
    /\ delivered \in 0..Len(srvSent)

(* No credential leaves the client before the host-key callback accepted   *)
(* the server: every userauth request do_handshake writes (publickey       *)
(* probe and signature, keyboard-interactive, password) follows an         *)
(* accepting async_check_host_key.                                         *)
NoCredentialsBeforeHostKey ==
    \A i \in 1..Len(sent) : sent[i] \in AuthRequests => hostkey = "accepted"

(* The authentication budget holds over any sequence of server failures:   *)
(* keyboard-interactive and password requests together at most three       *)
(* (password_attempts), and each agent key probed at most once.            *)
AuthBudgetRespected ==
    /\ CountIn(sent, {"kbd", "password"}) <= MaxPasswordAttempts
    /\ CountIn(sent, {"pk_probe"}) <= AgentKeys

(* An open operation completes successfully only on an authenticated       *)
(* connection whose server sent userauth_success: do_open and              *)
(* userauth_success never release a waiter early.                          *)
OpenSucceedsOnlyWhenAuthenticated ==
    \A o \in Openers : status[o] = "ok" =>
        /\ m_auth_state = "authenticated"
        /\ SrvCount("success") > 0
        /\ hostkey = "accepted"

(* The handshake coroutine, once spawned, always completes its open        *)
(* operation: it never waits forever while the server waits for it.        *)
HandshakeTerminates ==
    pc \notin {"idle", "done"} ~> pc = "done"

(* The loop is stuck with a whole packet unprocessed in m_response: a read *)
(* is outstanding although the next packet was already read with the      *)
(* previous one (a swallowed msg_ignore, see Handshake_ignore_stall.cfg).  *)
Stranded == reading /\ HasPacket

(* The coroutine always completes its open operation, unless it strands a  *)
(* packet read together with a msg_ignore: it never otherwise waits while  *)
(* the server waits for it.                                                *)
HandshakeCompletesUnlessStranded ==
    pc \notin {"idle", "done"} ~> (pc = "done" \/ []Stranded)

(* The client has at most one userauth request outstanding: it writes a    *)
(* new request only after it processed the reply to the previous one.      *)
SingleAuthRequestInFlight == AuthRequestsInFlight <= 1

=============================================================================
