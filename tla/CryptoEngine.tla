---------------------------- MODULE CryptoEngine ----------------------------
(***************************************************************************)
(* The compression and sequence-number state of pinch's crypto_engine      *)
(* (src/src/crypto-engine.cpp) over the life of a transport, against the   *)
(* peer's state for the same direction.                                    *)
(*                                                                         *)
(* The engine is driven by the connection: newkeys(kex, false) once the    *)
(* handshake's key exchange is done, enable_compression() from             *)
(* userauth_success, newkeys(kex, true) for every rekey after that, and    *)
(* reset() from close().  Packets go out through get_next_request and come *)
(* in through get_next_packet.                                             *)
(*                                                                         *)
(* A (de)compression stream is identified by the event that created it:    *)
(* <<n, "newkeys">> for the n-th newkeys of the transport, <<n, "auth">>   *)
(* for enable_compression after the n-th.  The peer follows RFC 4253 6.2   *)
(* (the compression context is initialised after each key exchange) and   *)
(* the zlib@openssh.com rule that compression starts only after            *)
(* authentication.  Both sides take the new keys of a direction at the     *)
(* same point of the packet stream.                                        *)
(***************************************************************************)
EXTENDS Naturals

CONSTANTS
    CmpAlgs,        \* compression algorithms the key exchange may choose
    InitialDelay,   \* values m_delay_(de)compressor can hold before any reset()
    MaxKex,         \* bound on newkeys per transport
    MaxPackets,     \* bound on packets per direction per transport
    MaxCloses       \* bound on close()/reconnect

Dir == {"c2s", "s2c"}

ASSUME /\ CmpAlgs \subseteq {"none", "zlib", "zlib@openssh.com"}
       /\ InitialDelay \subseteq BOOLEAN /\ InitialDelay # {}
       /\ {MaxKex, MaxPackets, MaxCloses} \subseteq Nat

NoStream == <<0, "none">>
Stream(n, ev) == <<n, ev>>

VARIABLES
    phase,       \* the connection: "kex", "auth" (keys taken), "authenticated"
    kexNo,       \* newkeys calls on this transport
    m_alg_cmp,   \* per direction: m_alg_cmp_c2s / m_alg_cmp_s2c
    m_stream,    \* c2s: m_compressor, s2c: m_decompressor
    m_delay,     \* c2s: m_delay_compressor, s2c: m_delay_decompressor
    m_seq,       \* c2s: m_out_seq_nr, s2c: m_in_seq_nr
    peerStream,  \* the peer's compression stream per direction
    peerDelay,   \* the peer waits for authentication to start compression
    peerSeq,     \* the peer's sequence number per direction
    sentCount,   \* packets per direction on this transport
    closes,
    m_keys,      \* per direction: the key exchange whose keys the client uses
    peerKeys,    \* per direction: the key exchange whose keys the peer uses
    newkeysSent, \* the client has sent msg_newkeys for the running exchange
    rekeying     \* a key exchange after authentication runs (m_kex is set)

vars == <<phase, kexNo, m_alg_cmp, m_stream, m_delay, m_seq, peerStream,
          peerDelay, peerSeq, sentCount, closes, m_keys, peerKeys, newkeysSent,
          rekeying>>

Init ==
    /\ phase = "kex"
    /\ kexNo = 0
    /\ m_alg_cmp = [d \in Dir |-> ""]
    /\ m_stream = [d \in Dir |-> NoStream]
    /\ m_delay \in [Dir -> InitialDelay]     \* not initialised by crypto_engine()
    /\ m_seq = [d \in Dir |-> 0]
    /\ peerStream = [d \in Dir |-> NoStream]
    /\ peerDelay = [d \in Dir |-> FALSE]
    /\ peerSeq = [d \in Dir |-> 0]
    /\ sentCount = [d \in Dir |-> 0]
    /\ closes = 0
    /\ m_keys = [d \in Dir |-> 0] /\ peerKeys = [d \in Dir |-> 0]
    /\ newkeysSent = FALSE
    /\ rekeying = FALSE

-----------------------------------------------------------------------------
(* crypto_engine::newkeys, compression part.  For c2s:                     *)
(*   if ((not m_compressor and alg == "zlib") or                           *)
(*       (authenticated and alg == "zlib@openssh.com")) new compressor      *)
(*   else if (alg == "zlib@openssh.com") m_delay_compressor = true;        *)
(* and the same for s2c, except that its else-if tests m_alg_cmp_c2s.      *)
(* Nothing else changes the stream: a stream not replaced stays.           *)
(* Mutant of StartsNow: zlib@openssh.com started without the             *)
(* authenticated test.                                                     *)
StartsNow_NoAuthCheck(d, alg, authenticated) ==
    \/ m_stream[d] = NoStream /\ alg[d] = "zlib"
    \/ alg[d] = "zlib@openssh.com"

StartsNow(d, alg, authenticated) ==
    \/ m_stream[d] = NoStream /\ alg[d] = "zlib"
    \/ authenticated /\ alg[d] = "zlib@openssh.com"

DelayTest(d, alg) == alg["c2s"] = "zlib@openssh.com"

(* Mutant of newkeys: the sequence numbers restarted with the new keys.    *)
newkeys_ResetsSeq(alg, authenticated, n) ==
    /\ m_alg_cmp' = alg
    /\ m_stream' = [d \in Dir |-> IF StartsNow(d, alg, authenticated)
                                  THEN Stream(n, "newkeys") ELSE m_stream[d]]
    /\ m_delay' = [d \in Dir |-> IF ~StartsNow(d, alg, authenticated) /\ DelayTest(d, alg)
                                 THEN TRUE ELSE m_delay[d]]
    /\ m_seq' = [d \in Dir |-> 0]
    /\ m_keys' = [d \in Dir |-> n]

newkeys(alg, authenticated, n) ==
    /\ m_alg_cmp' = alg
    /\ m_stream' = [d \in Dir |-> IF StartsNow(d, alg, authenticated)
                                  THEN Stream(n, "newkeys") ELSE m_stream[d]]
    /\ m_delay' = [d \in Dir |-> IF ~StartsNow(d, alg, authenticated) /\ DelayTest(d, alg)
                                 THEN TRUE ELSE m_delay[d]]
    /\ UNCHANGED m_seq
    /\ m_keys' = [d \in Dir |-> n]

(* The peer for the same newkeys.                                          *)
PeerNewKeys(alg, authenticated, n) ==
    /\ peerStream' = [d \in Dir |->
          IF alg[d] = "zlib" \/ (alg[d] = "zlib@openssh.com" /\ authenticated)
          THEN Stream(n, "newkeys") ELSE NoStream]
    /\ peerDelay' = [d \in Dir |-> alg[d] = "zlib@openssh.com" /\ ~authenticated]

(* The key exchange (key_exchange::process, spec 4.C) sends the client's  *)
(* msg_newkeys: from that point of the c2s stream the peer receives under  *)
(* the new keys.  The client's keys do not change.                         *)
SendNewKeys ==
    /\ phase = "kex" \/ rekeying
    /\ kexNo < MaxKex /\ ~newkeysSent
    /\ newkeysSent' = TRUE
    /\ peerKeys' = [peerKeys EXCEPT !["c2s"] = kexNo + 1]
    /\ UNCHANGED <<phase, kexNo, m_alg_cmp, m_stream, m_delay, m_seq, peerStream,
                   peerDelay, peerSeq, sentCount, closes, m_keys, rekeying>>

(* process_packet, case msg_kexinit, once authenticated: the server starts *)
(* a key exchange and rekey() makes m_kex and writes the client's kexinit. *)
(* The kexinit packets are among the traffic Packet(d) stands for.         *)
ReceiveKexinit ==
    /\ phase = "authenticated" /\ ~rekeying
    /\ kexNo < MaxKex
    /\ rekeying' = TRUE
    /\ UNCHANGED <<phase, kexNo, m_alg_cmp, m_stream, m_delay, m_seq, peerStream,
                   peerDelay, peerSeq, sentCount, closes, m_keys, peerKeys,
                   newkeysSent>>

(* The peer's msg_newkeys arrives, at the point of the s2c stream from     *)
(* which the peer sends under the new keys, and the exchange finishes: in  *)
(* the handshake (newkeys(kex, false) before authentication) or as a rekey *)
(* (process_packet: newkeys(m_kex, true)).                                  *)
NewKeys ==
    /\ phase = "kex" \/ rekeying
    /\ newkeysSent
    /\ \E alg \in [Dir -> CmpAlgs] :
         LET auth == phase = "authenticated" IN
           /\ newkeys(alg, auth, kexNo + 1)
           /\ PeerNewKeys(alg, auth, kexNo + 1)
    /\ kexNo' = kexNo + 1
    /\ phase' = IF phase = "kex" THEN "auth" ELSE phase
    /\ peerKeys' = [peerKeys EXCEPT !["s2c"] = kexNo + 1]
    /\ newkeysSent' = FALSE
    /\ rekeying' = FALSE
    /\ UNCHANGED <<peerSeq, sentCount, closes>>

(* crypto_engine::enable_compression, called by userauth_success:          *)
(* a delayed stream starts; the flags stay set.                            *)
enable_compression ==
    m_stream' = [d \in Dir |-> IF m_delay[d] THEN Stream(kexNo, "auth") ELSE m_stream[d]]

UserauthSuccess ==
    /\ phase = "auth"
    /\ phase' = "authenticated"
    /\ enable_compression
    /\ peerStream' = [d \in Dir |-> IF peerDelay[d] THEN Stream(kexNo, "auth") ELSE peerStream[d]]
    /\ peerDelay' = [d \in Dir |-> FALSE]
    /\ UNCHANGED <<kexNo, m_alg_cmp, m_delay, m_seq, peerSeq, sentCount, closes>>
    /\ UNCHANGED <<m_keys, peerKeys, newkeysSent, rekeying>>

(* get_next_request / get_next_packet: one packet in direction d; the      *)
(* sender and the receiver each count it.  The counters are uint32_t and  *)
(* wrap alike on both ends; MaxPackets keeps them far below 2^32, which    *)
(* TLC's integers cannot hold.  In the handshake the coroutine writes      *)
(* nothing between its msg_newkeys and the peer's; once authenticated,     *)
(* channels, keep-alive and replies write at any time.                     *)
Packet(d) ==
    /\ sentCount[d] < MaxPackets
    /\ ~(d = "c2s" /\ phase = "kex" /\ newkeysSent)
    /\ sentCount' = [sentCount EXCEPT ![d] = @ + 1]
    /\ m_seq' = [m_seq EXCEPT ![d] = @ + 1]
    /\ peerSeq' = [peerSeq EXCEPT ![d] = @ + 1]
    /\ UNCHANGED <<phase, kexNo, m_alg_cmp, m_stream, m_delay, peerStream, peerDelay, closes>>
    /\ UNCHANGED <<m_keys, peerKeys, newkeysSent, rekeying>>

(* crypto_engine::reset, called by close(); the next open starts a new     *)
(* transport against a new peer session.                                   *)
(* Mutant of reset: the compressors are not released.                     *)
reset_KeepsStreams ==
    /\ m_alg_cmp' = [d \in Dir |-> ""]
    /\ UNCHANGED m_stream
    /\ m_delay' = [d \in Dir |-> FALSE]
    /\ m_seq' = [d \in Dir |-> 0]
    /\ m_keys' = [d \in Dir |-> 0]

reset ==
    /\ m_alg_cmp' = [d \in Dir |-> ""]
    /\ m_stream' = [d \in Dir |-> NoStream]
    /\ m_delay' = [d \in Dir |-> FALSE]
    /\ m_seq' = [d \in Dir |-> 0]
    /\ m_keys' = [d \in Dir |-> 0]

Close ==
    /\ closes < MaxCloses
    /\ closes' = closes + 1
    /\ reset
    /\ phase' = "kex"
    /\ kexNo' = 0
    /\ peerStream' = [d \in Dir |-> NoStream]
    /\ peerDelay' = [d \in Dir |-> FALSE]
    /\ peerSeq' = [d \in Dir |-> 0]
    /\ sentCount' = [d \in Dir |-> 0]
    /\ peerKeys' = [d \in Dir |-> 0]
    /\ newkeysSent' = FALSE
    /\ rekeying' = FALSE

Next == ReceiveKexinit \/ SendNewKeys \/ NewKeys \/ UserauthSuccess \/ (\E d \in Dir : Packet(d)) \/ Close

Spec == Init /\ [][Next]_vars

-----------------------------------------------------------------------------
(* Streams of the current transport: created by one of its kexNo newkeys. *)
StreamIds == {NoStream} \cup ((0..kexNo) \X {"newkeys", "auth"})

TypeOK ==
    /\ phase \in {"kex", "auth", "authenticated"}
    /\ kexNo \in 0..MaxKex
    /\ m_alg_cmp \in [Dir -> CmpAlgs \cup {""}]
    /\ m_stream \in [Dir -> StreamIds]
    /\ peerStream \in [Dir -> StreamIds]
    /\ m_delay \in [Dir -> BOOLEAN]
    /\ peerDelay \in [Dir -> BOOLEAN]
    /\ m_seq \in [Dir -> 0..MaxPackets]
    /\ peerSeq \in [Dir -> 0..MaxPackets]
    /\ sentCount \in [Dir -> 0..MaxPackets]
    /\ closes \in 0..MaxCloses
    /\ m_keys \in [Dir -> 0..MaxKex] /\ peerKeys \in [Dir -> 0..MaxKex]
    /\ newkeysSent \in BOOLEAN /\ rekeying \in BOOLEAN

(* With zlib@openssh.com no packet is (de)compressed before                *)
(* userauth_success: newkeys during the handshake only sets the delay      *)
(* flag, and no stream of this transport predates authentication.          *)
DelayedCompressionWaitsForAuth ==
    \A d \in Dir :
        (m_alg_cmp[d] = "zlib@openssh.com" /\ phase # "authenticated")
            => m_stream[d] = NoStream

(* Both ends number every packet of a direction alike, across any number   *)
(* of rekeys: newkeys leaves the sequence numbers alone and only reset()   *)
(* of a closed transport zeroes them.                                      *)
SeqAgree == \A d \in Dir : m_seq[d] = peerSeq[d]

(* In both directions the client (de)compresses each packet with the      *)
(* stream the peer uses for it: both started by the same event, after the  *)
(* same key exchange.                                                      *)
CompressionAgrees == m_stream = peerStream

(* A packet of direction d goes out under the keys its receiver uses.     *)
SentUnderAgreedKeys(d) ==
    sentCount'[d] # sentCount[d] /\ sentCount'[d] # 0 => m_keys[d] = peerKeys[d]

(* Spec 4.C: the side that has sent msg_newkeys transmits under the new    *)
(* keys, the side that has received it receives under them.  Every packet  *)
(* is then sent and received under the keys of the same exchange, in both *)
(* directions.  crypto_engine::newkeys takes the keys of both directions   *)
(* when the peer's msg_newkeys arrives.                                     *)
PacketsUnderAgreedKeys == [][\A d \in Dir : SentUnderAgreedKeys(d)]_vars

=============================================================================
