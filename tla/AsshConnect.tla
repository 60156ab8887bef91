---------------------------- MODULE AsshConnect ----------------------------
(***************************************************************************)
(* The composed connect operation of the assh variant                      *)
(* (src/include/assh/connection.hpp): detail::async_connect_impl, the     *)
(* state machine async_compose re-enters each time an asynchronous read   *)
(* or write completes, with the parts of basic_connection it calls:        *)
(* receive_packet, newkeys, userauth_success and async_write.              *)
(*                                                                         *)
(* operator() runs from one completion to the next suspension: each       *)
(* action below is one such run.  The outstanding operation is "pending".  *)
(*                                                                         *)
(* The peer is the SSH server of the Handshake module: it answers each     *)
(* client packet in order and may also send msg_ignore, a userauth banner *)
(* and msg_disconnect (each bounded).  A read delivers one or more whole   *)
(* packets.  Messages are abstracted to their type; a failure carries the *)
(* methods the server offers, the server's kexinit whether the lists      *)
(* agree.                                                                  *)
(*                                                                         *)
(* async_connect builds the operation from the socket, the buffer, the    *)
(* connection and the user only: its m_keyboard_interactive_cb and        *)
(* m_request_password_cb stay empty whatever the caller installed on the  *)
(* connection.  The keyboard-interactive and password branches of          *)
(* process_userauth_failure, and the keyboard-interactive branch of        *)
(* process_userauth_info_request, are therefore never taken and are not    *)
(* actions.                                                                *)
(***************************************************************************)
EXTENDS Naturals, Sequences, FiniteSets

CONSTANTS
    AgentKeys,       \* keys ssh_agent::instance() holds
    OfferedMethods,  \* method sets the server may list in userauth_failure
    HostVersions,    \* version lines the server may send
    KexAgreement,    \* whether the kexinit algorithm lists may agree
    MaxIgnore,       \* bound on msg_ignore packets the server sends
    MaxBanner,       \* bound on userauth_banner packets the server sends
    MaxDisconnect    \* bound on msg_disconnect packets the server sends

Methods == {"publickey", "keyboard-interactive", "password"}

ASSUME /\ AgentKeys \in Nat
       /\ OfferedMethods \subseteq SUBSET Methods
       /\ HostVersions \subseteq {"SSH-2.0", "SSH-1.99"}
       /\ KexAgreement \subseteq BOOLEAN /\ KexAgreement # {}
       /\ {MaxIgnore, MaxBanner, MaxDisconnect} \subseteq Nat

AuthRequests == {"auth_none", "pk_probe", "pk_sign"}
AuthReplies == {"failure", "success", "info_request"}

S2CTypes == {"kexinit", "kexdh_reply", "newkeys", "service_accept", "failure",
             "success", "banner", "info_request", "ignore", "disconnect"}
S2C == [type : S2CTypes, methods : SUBSET Methods, agree : BOOLEAN]
Msg(t) == [type |-> t, methods |-> {}, agree |-> TRUE]

\* The error codes the operation can complete with; "ok" is {}.
Results == {"running", "ok", "protocol_version_not_supported",
            "key_exchange_failed", "no_more_auth_methods_available",
            "eof", "bad_descriptor"}

VARIABLES
    state,            \* async_connect_impl::state
    pending,          \* the asynchronous operation operator() waits for
    auth_state,       \* async_connect_impl::auth_state
    private_keys,     \* async_connect_impl::private_keys (how many)
    private_key_hash, \* async_connect_impl::private_key_hash is set
    result,           \* what self.complete was called with
    m_auth_state,     \* basic_connection::m_auth_state
    closed,           \* m_next_layer.close() was called
    sent,             \* packets the client wrote, in order
    srvRecv,          \* how many of them the server has processed
    srvSent,          \* packets the server wrote, in order
    delivered,        \* how many of them were read into m_response
    consumed,         \* how many of them receive_packet has taken
    rekeyLoop         \* operator() is inside the for (;;) of case rekeying

vars == <<state, pending, auth_state, private_keys, private_key_hash, result,
          m_auth_state, closed, sent, srvRecv, srvSent, delivered, consumed,
          rekeyLoop>>

srvVars == <<srvRecv, srvSent>>

-----------------------------------------------------------------------------
CountIn(s, S) == Cardinality({i \in 1..Len(s) : s[i] \in S})
TypesOf(s) == [i \in 1..Len(s) |-> s[i].type]
SrvClosed == \E i \in 1..Len(srvSent) : srvSent[i].type = "disconnect"
SrvCount(t) == CountIn(TypesOf(srvSent), {t})

HasPacket == consumed < delivered
Incoming == srvSent[consumed + 1]
Take == consumed' = consumed + 1

Send(msgs) == sent' = sent \o msgs

(* self.complete(e): the operation ends; nothing of the connection is      *)
(* reset.                                                                  *)
Complete(e) == result' = e /\ pending' = "none"

Running == result = "running"

(* operator() is entered with no error and no outstanding operation.       *)
Resumed == Running /\ pending = "none"

-----------------------------------------------------------------------------
Init ==
    /\ state = "start"
    /\ pending = "none"
    /\ auth_state = "none"
    /\ private_keys = 0
    /\ private_key_hash = FALSE
    /\ result = "running"
    /\ m_auth_state = "none"
    /\ closed = FALSE
    /\ sent = <<>>
    /\ srvRecv = 0
    /\ srvSent = <<>>
    /\ delivered = 0
    /\ consumed = 0
    /\ rekeyLoop = FALSE

(* case start: write our version line.                                     *)
Start ==
    /\ Resumed /\ state = "start"
    /\ state' = "wrote_version"
    /\ pending' = "write"
    /\ UNCHANGED <<auth_state, private_keys, private_key_hash, result,
                   m_auth_state, closed, sent, srvVars, delivered, consumed, rekeyLoop>>

(* The version line is written; case wrote_version: read up to "\n".      *)
WroteVersion ==
    /\ Running /\ pending = "write" /\ state = "wrote_version"
    /\ state' = "reading"
    /\ pending' = "read_line"
    /\ UNCHANGED <<auth_state, private_keys, private_key_hash, result,
                   m_auth_state, closed, sent, srvVars, delivered, consumed, rekeyLoop>>

(* case reading: the server's line.  Not SSH-2.0: fail.  Otherwise a       *)
(* key_exchange is made, our kexinit written, and at least 8 bytes read.  *)
ReadVersion ==
    /\ Running /\ pending = "read_line"
    /\ \E v \in HostVersions :
         IF v = "SSH-2.0"
         THEN /\ state' = "rekeying"
              /\ Send(<<"kexinit">>)
              /\ pending' = "read"
              /\ UNCHANGED result
         ELSE /\ Complete("protocol_version_not_supported")
              /\ UNCHANGED <<state, sent>>
    /\ UNCHANGED <<auth_state, private_keys, private_key_hash, m_auth_state,
                   closed, srvVars, delivered, consumed, rekeyLoop>>

(* An outstanding read completes with one or more whole packets, and       *)
(* operator() is entered again: switch (state) picks the case.             *)
ReadSome ==
    /\ Running /\ pending = "read" /\ ~closed
    /\ delivered < Len(srvSent)
    /\ \E k \in delivered + 1 .. Len(srvSent) : delivered' = k
    /\ pending' = "none"
    /\ rekeyLoop' = (state = "rekeying")
    /\ UNCHANGED <<state, auth_state, private_keys, private_key_hash, result,
                   m_auth_state, closed, sent, srvVars, consumed>>

(* An outstanding read fails: the server closed the connection (eof), or  *)
(* receive_packet closed our socket (bad_descriptor).  operator() is       *)
(* entered with the error and completes with it.                           *)
ReadFails ==
    /\ Running /\ pending = "read"
    /\ \/ closed /\ Complete("bad_descriptor")
       \/ ~closed /\ delivered = Len(srvSent) /\ SrvClosed /\ Complete("eof")
    /\ UNCHANGED <<state, auth_state, private_keys, private_key_hash,
                   m_auth_state, closed, sent, srvVars, delivered, consumed, rekeyLoop>>

-----------------------------------------------------------------------------
(* basic_connection::receive_packet returns false with no error: no whole *)
(* packet is buffered, or it was msg_ignore/debug/unimplemented, which it  *)
(* clears.  Both cases then read at least one more byte.                   *)
Await ==
    /\ Resumed /\ state \in {"rekeying", "authenticating"}
    /\ \/ ~HasPacket /\ UNCHANGED consumed
       \/ HasPacket /\ Incoming.type = "ignore" /\ Take
    /\ pending' = "read"
    /\ rekeyLoop' = FALSE
    /\ UNCHANGED <<state, auth_state, private_keys, private_key_hash, result,
                   m_auth_state, closed, sent, srvVars, delivered>>

(* receive_packet returns true.  A msg_disconnect closes the socket first. *)
Received == HasPacket /\ Incoming.type # "ignore"
CloseOnDisconnect == closed' = (closed \/ Incoming.type = "disconnect")

(* The body of the for (;;) of case rekeying runs.                         *)
InRekeyLoop == Resumed /\ rekeyLoop /\ Received

(* Mutant of FetchKeys: the agent's keys appended twice.                   *)
FetchKeys_Twice(n) == n + 2 * AgentKeys

(* for (auto& pk : ssh_agent::instance()) private_keys.push_back(...)      *)
FetchKeys(n) == n + AgentKeys

(* msg_newkeys: conn->newkeys, state authenticating, our service_request,  *)
(* the agent's keys appended.  The for (;;) goes on: a packet already      *)
(* buffered is still taken by the rekeying branch.                         *)
RekeyNewKeys ==
    /\ InRekeyLoop
    /\ Incoming.type = "newkeys"
    /\ Take
    /\ state' = "authenticating"
    /\ Send(<<"service_request">>)
    /\ private_keys' = FetchKeys(private_keys)
    /\ UNCHANGED <<pending, auth_state, private_key_hash, result, m_auth_state,
                   closed, srvVars, delivered, rekeyLoop>>

(* kex->process accepts the packet, possibly with a reply: kexdh_init for *)
(* an agreeing kexinit, our newkeys for kexdh_reply.  key_exchange is not  *)
(* under src/.                                                             *)
RekeyProcess ==
    /\ InRekeyLoop
    /\ \/ Incoming.type = "kexinit" /\ Incoming.agree /\ Send(<<"kexdh_init">>)
       \/ Incoming.type = "kexdh_reply" /\ Send(<<"newkeys">>)
    /\ Take
    /\ UNCHANGED <<state, pending, auth_state, private_keys, private_key_hash,
                   result, m_auth_state, closed, srvVars, delivered, rekeyLoop>>

(* kex->process refuses the packet: key_exchange_failed.                   *)
RekeyFailed ==
    /\ InRekeyLoop
    /\ Incoming.type \notin {"newkeys", "kexdh_reply"}
    /\ ~(Incoming.type = "kexinit" /\ Incoming.agree)
    /\ Take
    /\ CloseOnDisconnect
    /\ Complete("key_exchange_failed")
    /\ UNCHANGED <<state, auth_state, private_keys, private_key_hash,
                   m_auth_state, sent, srvVars, delivered, rekeyLoop>>

-----------------------------------------------------------------------------
(* process_userauth_failure: publickey offered and a key left: probe the  *)
(* next key; otherwise (the callbacks are empty) give up.                  *)
ChoosePublicKey(methods) == "publickey" \in methods /\ private_keys > 0

(* Mutant of ProbeNext: the key is probed but not popped.                  *)
ProbeNext_NoPop(n) == n

ProbeNext(n) == n - 1

(* Mutant of UserauthNone: the request built but not written.             *)
UserauthNone_NotWritten == <<>>

(* msg_service_accept: the "none" userauth request.                        *)
UserauthNone == <<"auth_none">>

(* process_userauth_info_request in auth_state public_key (the server's    *)
(* pk_ok): the request signed with the agent key is written and the key's  *)
(* hash kept.  Its keyboard_interactive case is unreachable (see above).   *)
process_userauth_info_request ==
    /\ Send(<<"pk_sign">>) /\ pending' = "read"
    /\ private_key_hash' = TRUE
    /\ UNCHANGED <<auth_state, private_keys, result>>

(* One packet of case authenticating, then: write out if any; complete     *)
(* with ec if set; otherwise clear the packet and read at least one more   *)
(* byte, whatever m_response still holds.  Packets of other types (the     *)
(* banner, a msg_disconnect) only lead to the read.                        *)
AuthPacket ==
    /\ Resumed /\ ~rekeyLoop /\ state = "authenticating" /\ Received
    /\ Incoming.type # "success"
    /\ Take
    /\ CloseOnDisconnect
    /\ LET in == Incoming IN
       CASE in.type = "service_accept" ->
              /\ Send(UserauthNone) /\ pending' = "read"
              /\ UNCHANGED <<auth_state, private_keys, private_key_hash, result>>
         [] in.type = "failure" /\ ChoosePublicKey(in.methods) ->
              /\ Send(<<"pk_probe">>) /\ pending' = "read"
              /\ private_keys' = ProbeNext(private_keys)
              /\ auth_state' = "public_key"
              /\ private_key_hash' = FALSE
              /\ UNCHANGED result
         [] in.type = "failure" ->
              /\ Complete("no_more_auth_methods_available")
              /\ private_key_hash' = FALSE
              /\ UNCHANGED <<sent, auth_state, private_keys>>
         [] in.type = "info_request" /\ auth_state = "public_key" ->
              process_userauth_info_request
         [] OTHER ->
              /\ pending' = "read"
              /\ UNCHANGED <<sent, auth_state, private_keys, private_key_hash, result>>
    /\ UNCHANGED <<state, m_auth_state, srvVars, delivered, rekeyLoop>>

(* msg_userauth_success: conn->userauth_success (m_auth_state              *)
(* authenticated, compression enabled, host version and session id kept), *)
(* then self.complete({}).                                                  *)
AuthSuccess ==
    /\ Resumed /\ ~rekeyLoop /\ state = "authenticating" /\ Received
    /\ Incoming.type = "success"
    /\ Take
    /\ m_auth_state' = "authenticated"
    /\ Complete("ok")
    /\ UNCHANGED <<state, auth_state, private_keys, private_key_hash, closed,
                   sent, srvVars, delivered, rekeyLoop>>

-----------------------------------------------------------------------------
(* The server: answers the client's packets in order.                      *)

SrvHead == sent[srvRecv + 1]

SrvReply(msgs) ==
    /\ srvRecv < Len(sent)
    /\ ~SrvClosed
    /\ srvRecv' = srvRecv + 1
    /\ srvSent' = srvSent \o msgs

Failure(s) == [Msg("failure") EXCEPT !.methods = s]

ClientVars == <<state, pending, auth_state, private_keys, private_key_hash,
                result, m_auth_state, closed, sent, delivered, consumed,
                rekeyLoop>>

ServerAnswer ==
    /\ srvRecv < Len(sent)
    /\ \/ SrvHead = "kexinit" /\ \E a \in KexAgreement :
                                    SrvReply(<<[Msg("kexinit") EXCEPT !.agree = a]>>)
       \/ SrvHead = "kexdh_init" /\ SrvReply(<<Msg("kexdh_reply"), Msg("newkeys")>>)
       \/ SrvHead = "newkeys" /\ SrvReply(<<>>)
       \/ SrvHead = "service_request" /\ SrvReply(<<Msg("service_accept")>>)
       \/ SrvHead \in AuthRequests /\ \E m \in OfferedMethods : SrvReply(<<Failure(m)>>)
       \/ SrvHead = "pk_probe" /\ SrvReply(<<Msg("info_request")>>)
       \/ SrvHead = "pk_sign" /\ SrvReply(<<Msg("success")>>)
    /\ UNCHANGED ClientVars

(* Unsolicited packets: msg_ignore at any time, a banner during            *)
(* authentication, msg_disconnect at any time.                             *)
Unsolicited(t) ==
    /\ ~SrvClosed
    /\ srvSent' = Append(srvSent, Msg(t))
    /\ UNCHANGED <<srvRecv, ClientVars>>

ServerIgnore == SrvCount("ignore") < MaxIgnore /\ Unsolicited("ignore")

ServerBanner ==
    /\ SrvCount("banner") < MaxBanner
    /\ SrvCount("service_accept") > 0 /\ SrvCount("success") = 0
    /\ Unsolicited("banner")

ServerDisconnect == SrvCount("disconnect") < MaxDisconnect /\ Unsolicited("disconnect")

-----------------------------------------------------------------------------
ClientStep ==
    \/ Start \/ WroteVersion \/ ReadVersion
    \/ Await \/ RekeyNewKeys \/ RekeyProcess \/ RekeyFailed
    \/ AuthPacket \/ AuthSuccess

Next ==
    \/ ClientStep
    \/ ReadSome \/ ReadFails
    \/ ServerAnswer \/ ServerIgnore \/ ServerBanner \/ ServerDisconnect

(* The executor runs every completion handler (async_compose posts them),  *)
(* the socket delivers what was sent and the server answers.  Unsolicited *)
(* server packets are not required.                                        *)
Fairness ==
    /\ WF_vars(ClientStep)
    /\ WF_vars(ReadSome \/ ReadFails)
    /\ WF_vars(ServerAnswer)

Spec == Init /\ [][Next]_vars /\ Fairness

-----------------------------------------------------------------------------
TypeOK ==
    /\ state \in {"start", "wrote_version", "reading", "rekeying", "authenticating"}
    /\ pending \in {"none", "write", "read_line", "read"}
    /\ auth_state \in {"none", "public_key"}
    /\ private_keys \in 0..AgentKeys
    /\ private_key_hash \in BOOLEAN
    /\ result \in Results
    /\ m_auth_state \in {"none", "authenticated"}
    /\ closed \in BOOLEAN
    /\ srvSent \in Seq(S2C)
    /\ srvRecv \in 0..Len(sent)
    /\ consumed \in 0..delivered
    /\ delivered \in 0..Len(srvSent)
    /\ rekeyLoop \in BOOLEAN

(* Each of the agent's keys is offered to the server at most once, over   *)
(* any sequence of failures.                                               *)
EachKeyProbedOnce == CountIn(sent, {"pk_probe"}) <= AgentKeys

(* The connect operation always completes: it never waits for bytes while  *)
(* the server waits for it.                                                *)
ConnectTerminates == <>(result # "running")

(* The operation only ever hangs in one way: it completes, or it ends up   *)
(* waiting for more bytes while m_response still holds a whole packet it   *)
(* has not processed.  No other interleaving of the server's replies and    *)
(* unsolicited packets (msg_disconnect included) leaves it waiting.        *)
Stranded == pending = "read" /\ HasPacket

CompletesUnlessStranded == <>(result # "running" \/ []Stranded)

=============================================================================
