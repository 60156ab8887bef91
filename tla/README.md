# TLA+ models of pinch

pinch is a C++ SSH-2 client library built on boost::asio. This directory holds
TLA+ models of its components and the TLC configurations that check them.

## The system

| Part | Source | State | Operations |
|---|---|---|---|
| Connection handshake | `src/src/connection.cpp` (`do_open`, `do_handshake`, `receive_packet`, `userauth_success`, `reset`, `close`) | `m_auth_state`, `m_waiting_ops`, `m_response`; coroutine locals `auth_state`, `private_keys`, `password_attempts`, `ec` | open, version exchange, key exchange loop, host-key callback, authentication loop, password and credentials callbacks |
| Connection steady state | `connection.cpp` 98-400 | `m_channels`, `m_auth_state`, keep-alive timer | `received_data`, `process_packet`, `process_channel_open`, `process_channel`, `open_channel`, `close_channel`, `rekey`, `keep_alive` |
| Channel | `src/include/pinch/channel.hpp` | `m_my_window_size`, `m_host_window_size`, `m_max_send_packet_size`, `m_read_ops`, `m_write_ops`, `m_received` | `async_open`, `async_read_some`, `async_write_some`, window adjust, close |
| Crypto engine | `src/src/crypto-engine.cpp` | sequence numbers, ciphers, MACs, (de)compressors and their "delayed" flags, the packet being assembled | `newkeys`, `reset`, `get_next_block`, `get_next_packet`, `get_next_request`, `enable_compression` |
| Packet framing | `src/src/packet.cpp` | `m_length`, `m_padding`, `m_data` | `opacket::write` (padding), `ipacket::append` (block reassembly), `ipacket::read` (stream reassembly), compress, decompress, readers |
| Port forwarding / SOCKS | `src/src/port_forwarding.cpp` | SOCKS state, buffers | SOCKS4/4a/5 handshake, channel open, byte copying |
| X11, terminal channels | `src/src/x11_channel.cpp`, `src/src/terminal_channel.cpp` | cookie check state | cookie validation, pty/shell requests |
| assh connection | `src/include/assh/connection.hpp` | callback state machine | older callback-style handshake |

How they interact: `async_open` on a channel calls `do_open` on its
connection. The first caller spawns the `do_handshake` coroutine. Later
callers wait on `m_waiting_ops` until `userauth_success`. The coroutine
writes packets through the crypto engine (`get_next_request`) and reads them
from `m_response` (`get_next_packet`, built from blocks by
`ipacket::append`). After authentication, `received_data` dispatches packets
to channels. Channels keep their own flow-control windows.

Hard behaviours:
- several packets arriving in one read;
- unsolicited server messages (ignore, debug, banner, disconnect) at any point;
- several openers racing one handshake;
- callbacks (host key, password, prompts) suspending the coroutine;
- the password-attempt budget shared between keyboard-interactive and password;
- rekeying, delayed compression and window exhaustion.

## Modules

### Handshake (`Handshake.tla`, instance `MC_Handshake.tla`)

This module models `do_open` and the `do_handshake` coroutine with
`receive_packet`, `userauth_success` and `close`, against an SSH server.

**The coroutine.**
- `pc` is where the coroutine is suspended:
  - `connect`: before the version exchange;
  - `kex`: in the key exchange loop;
  - `hostkey`: awaiting `async_check_host_key`;
  - `auth`: in the authentication loop;
  - `password_cb`: awaiting `async_provide_password`;
  - `done`: the op has completed.
- `reading` is true while an `async_read` on the next layer is outstanding.

**The streams.**
- `sent` is every packet the client has written.
- `srvSent` is every packet the server has written.
- `delivered` and `consumed` cut `srvSent` into three parts: packets still
  in flight, packets in `m_response`, and packets already processed.
- A read (`ReadSome`) moves one *or more* whole packets into `m_response`.
  This is what `async_read(transfer_at_least(1))` does when the server has
  written several.

**The actions.**
- Every `case` and early exit of the two loops is an action:
  - `KexAwait`, `KexNewKeys`, `KexProcess`, `KexFailed`;
  - `AuthAwait`, `AuthDisconnect`, `AuthBanner`, `AuthServiceAccept`;
  - `AuthFailurePublicKey`, `AuthFailurePassword`, `AuthFailureExhausted`;
  - `AuthInfoRequest`, `userauth_success`.
- The `msg_userauth_failure` branch follows the code exactly:
  - each method test increments `password_attempts` when that method is
    offered;
  - the keyboard-interactive block writes its request and falls through to
    the password test.
- `Fail(e)` is the common exit: `op->complete(ec)` then `close()`.
- The keyboard-interactive branch of `msg_userauth_info_request` is
  unreachable, so it is described in a comment and is not an action. The
  state `keyboard_interactive` is always replaced (by `password` or `error`)
  in the same step that sets it.

**The server.**
- It answers each client packet in order (`ServerAnswer`):
  - its kexinit may disagree;
  - every userauth request may be failed, with a method set from
    `OfferedMethods`;
  - signatures, passwords and info responses may succeed;
  - a publickey probe gets pk_ok;
  - a keyboard-interactive request gets an info_request with 0 or 1 prompts.
- It may also send msg_ignore, a banner or msg_disconnect, each at most
  `MaxIgnore`, `MaxBanner` or `MaxDisconnect` times.
- After a disconnect it sends nothing more, and reads then fail (`ReadEof`).

**Constants.**
- `Openers`: model values.
- `AgentKeys`: how many keys the agent returns.
- `OfferedMethods`, `HostVersions` and `KexAgreement`: what the server may say.
- `MaxIgnore`, `MaxBanner`, `MaxDisconnect`: bounds on unsolicited packets.
- `MaxPasswordAttempts == 3`, from the code.

**Fairness.** Weak fairness on the client's steps, on read completion and on
the server's answers. This is justified as follows:
- the executor runs every ready continuation;
- callbacks run as ordinary functions on the executor
  (`async_function_wrapper` in `operations.hpp`) and return;
- bytes written by the server arrive.

Openers and the server's unsolicited packets carry no fairness.

**Not modelled in Handshake.**
- Deferred spawn, and a second coroutine after a reset or a failed
  handshake (see hazards).
- Byte contents: the version line is one of `SSH-2.0`, `SSH-1.99`, `greeting`.
- The key exchange's own checks: `key_exchange` is not under `src/`. Its
  replies are modelled from the protocol.
- Server-sent `service_request` and channel messages during the handshake.

#### Handshake runs

| Run | Cfg | Expect | What it shows |
|---|---|---|---|
| handshake_safety | `Handshake_safety.cfg` | pass | `NoCredentialsBeforeHostKey`, `AuthBudgetRespected`, `OpenSucceedsOnlyWhenAuthenticated` hold against a server that may disagree on algorithms, fail anything, and send ignore, banner and disconnect. `HandshakeCompletesUnlessStranded`: the coroutine completes its op unless a packet read together with a msg_ignore is left in `m_response` (the stall of handshake_ignore_stall). |
| handshake_kbd_inflight | `Handshake_inflight.cfg` | violation | The missing `continue` after the keyboard-interactive request (connection.cpp:573) puts two userauth requests in flight. The server's info_request then meets auth_state `password`, giving `protocol_error`. |
| handshake_ignore_stall | `Handshake_ignore_stall.cfg` | violation | A msg_ignore read together with the next packet is swallowed, and the loop awaits bytes the server never sends. |

**Bounds.**
- Two openers: one drives the handshake and one waits on it or opens an
  authenticated connection.
- One agent key: this reaches the probe, the signature and the fall-back to
  other methods.
- Method sets `{publickey,password}` and `{keyboard-interactive,password}`:
  together they reach every branch of the failure handler, including the
  attempt cap (three failures).
- One ignore, banner and disconnect each: with these, every loop sees each
  unsolicited message in each phase and coalesced with another packet.

The safety run explores 832,036 distinct states in about 3.5 minutes.

Each property of the passing runs has a mutant in `Handshake.tla`, and TLC
finds the property violated when the mutant replaces the definition it
mutates:
- `HostKeyCheck_IgnoreVerdict`: the callback's verdict is not acted upon.
- `PwdChosen_PostIncrement`: `password_attempts++ <= 3`.
- `Open_HandshakeCountsAsConnected`: a connection in handshake is counted as
  connected.
- `AuthServiceAccept_NoRequest`: service_accept is taken but no userauth
  request is written, so the handshake waits forever.
- `PublicKeyChosen_NoEmptyCheck`: a publickey attempt with no agent key left.

### CryptoEngine (`CryptoEngine.tla`, instance `MC_CryptoEngine.tla`)

This module models the compression, key and sequence-number state of
`crypto_engine` over the life of a transport, side by side with the peer's
state for the same direction.

**What drives the engine.** The connection calls:
- `newkeys(kex, false)` at the end of the handshake's key exchange;
- `enable_compression()` from `userauth_success`;
- `newkeys(kex, true)` for every rekey (`process_packet`), after the
  server's msg_kexinit has started one (`ReceiveKexinit`, which sets
  `rekeying` as `rekey()` sets `m_kex`);
- `reset()` from `close()`.

**How streams are identified.** A compression stream is named by the event
that created it:
- `<<n, "newkeys">>`: created by the n-th newkeys;
- `<<n, "auth">>`: created by authentication after the n-th newkeys.

So two streams are equal exactly when both ends started them at the same
point.

**The two sides.**
- The client side translates the branches of `newkeys` literally, including
  two quirks:
  - the `else if` of the server-to-client block tests `m_alg_cmp_c2s`;
  - no branch removes a stream.
- The peer follows RFC 4253 6.2 (the context is initialised after each key
  exchange) and spec 4.B (zlib@openssh.com starts at authentication).
- `crypto_engine()` does not initialise the delay flags, so their initial
  value is a choice from `InitialDelay`:
  - `BOOLEAN` where the uninitialised read is studied;
  - `{FALSE}` where the rest of the logic is studied.

**Packets.**
- `Packet(d)` is one `get_next_request`/`get_next_packet`. It increments
  both ends' sequence numbers.
- `MaxPackets` keeps them far below 2^32. TLC cannot represent 2^32, and
  both ends wrap alike.
- Error paths are not modelled, and that is safe here. A MAC error in
  `get_next_packet` leaves the sequence number alone. A decompression error
  still advances it and returns the packet (crypto-engine.cpp:403). Every
  caller leaves on the error code before the sequence number is used again:
  `received_data` calls `handle_error`, and the handshake loops exit
  through `while (not ec)`. The packet object the handshake switches on
  was cleared by `receive_packet`.

**Keys.**
- `m_keys[d]` is the key exchange whose keys the client uses in direction
  d. `peerKeys[d]` is the one the server uses.
- A key exchange is two steps:
  - `SendNewKeys`: `key_exchange` sends the client's msg_newkeys. It is not
    under `src/`, so this step is modelled from spec 4.C. From here on the
    server receives c2s under the new keys.
  - `NewKeys`: the server's msg_newkeys arrives. `crypto_engine::newkeys`
    replaces the encryptor, decryptor, signer and verifier together, so the
    client's keys change in both directions.
- In the handshake the coroutine writes nothing between the two steps, so
  `Packet("c2s")` is disabled there. Once authenticated, channels,
  keep-alive and replies to global requests write at any time.

**Bounds and deadlock.**
- Bounds: up to 3 key exchanges per transport, 1 packet per direction per
  transport, and 1 reconnect.
- The runs set `CHECK_DEADLOCK FALSE`. The engine's operations are always
  callable, so every final state is one where the bounds are used up.

#### CryptoEngine runs

| Run | Cfg | Expect | What it shows |
|---|---|---|---|
| crypto_safety | `CryptoEngine_safety.cfg` | pass | Over any choice of algorithms per direction and per key exchange, zlib@openssh.com never compresses before authentication, sequence numbers agree across rekeys and reconnects, and no stream outlives its transport (2,952 distinct states). |
| crypto_s2c_delay | `CryptoEngine_s2c_delay.cfg` | violation | `crypto-engine.cpp:281` tests the c2s algorithm, so the s2c decompressor disagrees with the server. |
| crypto_rekey_keys | `CryptoEngine_rekey_keys.cfg` | violation | `PacketsUnderAgreedKeys`, an action property, is violated in 7 states: handshake, authentication, the server's msg_kexinit, the client's msg_newkeys of the rekey, then one c2s packet. The client writes it under the old keys (connection.cpp:170 switches keys only on the server's msg_newkeys), and the server receives under the new ones. Spec 4.C says the side that has sent newkeys transmits under the new keys. |

Mutants:
- `StartsNow_NoAuthCheck`: zlib@openssh.com is started without the
  authentication test.
- `newkeys_ResetsSeq`: newkeys zeroes the sequence numbers.
- `reset_KeepsStreams`: reset does not release the compressors.

No property is stated for server-to-client keys. `NewKeys` switches the
server's sending keys and the client's receiving keys in one step, which
is what an ordered transport gives (every packet the server sends after
its msg_newkeys arrives after it), so agreement there would hold by the
shape of the model.

The engine is never told a rekey ended with the transport:
`basic_connection::reset()`/`close()` (connection.cpp:72-88) do not clear
`m_kex`. In the model `Close` resets `rekeying`, which is what the
engine's own `reset()` assumes; a stale key exchange surviving a reconnect
is noted here, not modelled.

### PacketCodec (`PacketCodec.tla`, instance `MC_PacketCodec.tla`)

This module models the binary packet framing of `src/src/packet.cpp`.

**The sender.**
- `Frame(L, bs)` is what `opacket::write` emits for a payload of `L` bytes:
  the header and `PaddingSize(L, bs)` padding bytes. `PaddingSize` is the
  padding loop of `opacket::write` as a RECURSIVE operator (`AtLeastFour`).
- `HostileFrame(len, pad, bs)` is a header with any `packet_length` and
  `padding_length` from `HostileLengths` and `HostilePaddings`, as a broken
  or malicious peer may send.

**The receiver.**
- `append` is `ipacket::append`, one cipher block per step:
  - `AppendFirst` reads the header, rejects lengths above
    `kMaxPacketSize + 32` (`TooLong`) and allocates;
  - `AppendNext` copies further blocks, with the size check `TooLarge`;
  - `Finish` strips the padding and takes the message byte.
- `ReadField` is one length-prefixed reader (`string` or `blob`) applied to
  the completed packet.
- **The encryptor.** `get_next_request` puts the frame through a
  `packet_encryptor` on a boost `filtering_stream`. The stream hands the
  filter its input in pieces of `FilterBuffer` bytes (boost's
  `default_filter_buffer_size`, 128), and the rest when it is flushed.
  - `write_loop` is the loop of `packet_encryptor::write`, as a RECURSIVE
    operator over the piece length, the fill of `m_block` and the bytes
    taken.
  - `PiecesTaken` runs it over the pieces of a frame. It ends with the
    assert of `flush`: no partial block may be left.
- `uint32_t` arithmetic keeps its width: values are held in their 32-bit
  two's-complement pattern, and `UGt` compares as unsigned.

**The stream reader.** `ipacket::read` builds a packet from a plain stream
of messages. Each message is a 4-byte big-endian length and that many
bytes, with no padding or MAC. Its variables are independent of the
block-cipher part, and TLC interleaves the two.
- `Wire` is the stream for the messages `StreamPackets`.
- `Receive` is one network read. It returns the next 1, 3 or 6 bytes
  (`ChunkSizes`) once the last read is used up.
- `ReadChunk` gives `read` what is left of that read, while the packet is
  not complete.
- `read(d)` is one call of `ipacket::read`. Without a buffer, the length
  loop takes up to `4 - m_offset` bytes. At the fourth byte it checks the
  length against `kMaxPacketSize` (throwing `packet_exception`), allocates,
  and copies the body bytes that follow (`BodyTake`). With a buffer it
  copies body bytes. Then `m_offset = m_length` completes the packet and
  reads `m_data[0]`. If the length loop is still running, that read is a
  null dereference (`rdFault = "null_deref"`).
- `clear` is the caller handing the completed packet out, then
  `ipacket::clear` (`EmptyPacket`, also the state of `ipacket(nr)`).
- `PacketFraming.tla` is the abstract specification of such a reader. It
  takes bytes of the current message only, and hands a message out whole
  once all of it is taken. Under `WF(Next)`, every message is handed out.
  `StreamFramed` is `PacketFraming!Spec` under the identity mapping of
  `consumed` and `delivered`.
- Fairness: `WF` of the stream steps. The caller keeps reading while the
  peer sends. The codec's steps need none, since its properties are
  invariants.

**Reference definition.** `RfcPadding` is RFC 4253 section 6 stated
directly: the least padding of at least four bytes that fills whole blocks.
`WriteMatchesRfc` checks the code's loop against it for every payload
length in 1..24 and both block sizes.

#### PacketCodec runs

| Run | Cfg | Expect | What it shows |
|---|---|---|---|
| packet_safety | `PacketCodec_safety.cfg` | pass | `WriteMatchesRfc`; `RoundTrip` (every frame `opacket::write` makes is rebuilt with its payload); `BufferNotOverrun` for packet lengths 0, 3, 12 and 40000. `EncryptorTakesFrame`: every piece of every frame is taken by the encryptor exactly, never read past. `StreamFramed`: two messages (1 and 2 bytes) cut into reads of 1, 3 and 6 bytes. Reads are cut inside the length, right after it, inside a body, and across both messages. `read` refines `PacketFraming`, and every message is handed out. `EncryptorTakesFrame` quantifies over the distinct frame lengths, not the payload sizes, since TLC evaluates it in each of the 49k states. |

`PacketCodec_padding.cfg` is kept without a run slot. TLC violates
`LengthWithinBuffer`: a padding length larger than the packet length wraps
`m_length` (packet.cpp:476). The completed packet then claims about 4 GiB
over an 11-byte buffer, and every later bounds check passes.

`PacketCodec_blob_read.cfg` is kept without a run slot. It uses the same
spec with `FieldKinds = {"blob"}`, and TLC violates `ReadsWithinPacket`:
two 8-byte blobs are read from a 12-byte packet. The pass run does not
check `ReadsWithinPacket`: over string fields alone it would restate the
string reader's own test (packet.cpp:543). The blob reader (and the
mpint, pair and sub-packet readers) compares the field length with
`m_length`, not with the bytes left after `m_offset` (packet.cpp:624).

`PacketCodec_read_split.cfg` is kept without a run slot. It gives the
reader one 768-byte message, whose length is 0,0,3,0, and a first network
read of three bytes. TLC violates `BodyAllocatedBeforeUse`. After the third
byte, `m_offset` is 3 and the partial `m_length` is 3. `read` therefore
completes the packet and reads `m_data[0]` while `m_data` is still null
(packet.cpp:530). Every length from 768 to 1023 has this cut. So do a
length whose first byte is 1, cut after one byte, and a length starting
0,2, cut after two. Those lengths are above `kMaxPacketSize`, but they
crash before the check that would reject them.

Mutants:
- `BodyTake_Unclamped`: `read` copies the whole network read, not only
  what the packet still lacks; the next message's bytes are taken;
- `PaddingSize_LessEq`: `<=` in the padding loop;
- `Finish_KeepsPadding`: the padding is not stripped;
- `TooLong_Never`, `TooLarge_Never`: a size check is dropped;
- `write_loop_LessEq`: the encryptor loop runs while `o <= n`.

`EncryptorTakesFrame` is about a fragile loop. `packet_encryptor::write`
clamps each step to `n`, the whole piece, not to what is left of it
(crypto-engine.cpp:178). It is right only because every frame fills whole
blocks and 128 is a multiple of 8 and 16. With `FilterBuffer = 100`, TLC
finds the property violated in the initial state. The payload sizes
`EncryptLens` (100..140 and 230..260) give frames that end just before, on
and after the first and second piece boundary.

**Bounds.** Block sizes 8 and 16 are the ones pinch's ciphers use. Payload
lengths 1..24 cover every residue modulo both block sizes. The hostile
lengths are 0 (underflow), 3 (shorter than a block), 12 (fits) and 40000
(over the maximum). Field lengths 0, 1, 2 and 8 straddle the remaining
bytes, and there are up to 3 reads per packet.

### AsshConnect (`AsshConnect.tla`, instance `MC_AsshConnect.tla`)

This module models the callback-style connect of
`src/include/assh/connection.hpp`: `detail::async_connect_impl::operator()`,
which `async_compose` re-enters at every completion.
- **Actions.** Each action runs `operator()` from one completion to the
  next suspension:
  - `Start`, `WroteVersion`, `ReadVersion`;
  - `RekeyNewKeys`, `RekeyProcess`, `RekeyFailed`;
  - `AuthPacket`, `AuthSuccess`;
  - `ReadSome`, `ReadFails`.
- **Variables.** `pending` is the outstanding asynchronous operation.
  `rekeyLoop` records that `operator()` is inside the `for (;;)` of case
  rekeying.
- **Authentication.**
  - `process_userauth_failure` (`ChoosePublicKey`, `ProbeNext`) and
    `process_userauth_info_request` are modelled as far as they are
    reachable.
  - `async_connect` never passes the connection's keyboard-interactive or
    password callbacks to the operation, so those branches cannot run.
- **The server.** It is the one of Handshake.

**Fairness.** Weak fairness on every client step, on read completion and on
the server's answers. `async_compose` posts every completion to the
executor.

#### AsshConnect runs

| Run | Cfg | Expect | What it shows |
|---|---|---|---|
| assh_safety | `AsshConnect_safety.cfg` | pass | `EachKeyProbedOnce`. `CompletesUnlessStranded`: the operation completes unless a whole packet sits unprocessed in `m_response`. |

`AsshConnect_banner.cfg` is kept without a run. It checks the unconditional
`ConnectTerminates` and TLC finds it violated. A banner read together with
the userauth_failure that follows leaves the failure in `m_response`. The
operation then waits for bytes the server will not send (connection.hpp:263).
Its run slot went to the SOCKS safety run. `CompletesUnlessStranded` in
assh_safety still states that being stranded this way is the only way the
operation fails to complete.

Mutants:
- `FetchKeys_Twice`;
- `ProbeNext_NoPop`;
- `UserauthNone_NotWritten`.

**Bounds.** Two agent keys, three method sets, both version lines, both
kexinit outcomes, and one each of ignore, banner and disconnect: about 64,500
distinct states.

### Channel and ByteStream (`Channel.tla`, `ByteStream.tla`, instance `MC_Channel.tla`)

**What Channel models.** One user channel on an authenticated connection,
in steady state.

- **Client: `channel.hpp`.**
  - The initiations `async_open`, `async_read_some` and `async_write_some`.
  - `send_data`, which frames a whole payload as one msg_channel_data and
    queues it through `async_write_impl` for an opacket (channel.hpp:317-334,
    465-475), or completes with `connection_lost` on a closed channel.
  - The packet cutting of `async_write_impl` (`WritePackets`, `Chunks`,
    `BufferBytes`).
  - `transfer_bytes` and `pop_front` of the handlers.
- **Client: `connection.cpp`.**
  - The read loop of `received_data`, one packet per step (`Loop`, `In`,
    `Consumed`).
  - Every message class of `process_packet` and `process_channel_open`.
  - `open_channel`, `close_channel`, `handle_error`/`close`
    (`connection_close`) and `keep_alive`.
- **Modelled from spec 4.E (`spec_modelled`).** `channel.cpp` is not among
  the sources, so `channel::process` (confirmation, failure, window adjust,
  data with `Refill`, close), `send_pending`, `push_received`, `close` and
  `closed` come from the spec.
- **The server (RFC 4254).**
  - It confirms or refuses opens, grants window, and sends data and close.
  - It opens channels of its own (x11, agent, session).
  - It sends global requests and messages of unknown type.

**Byte tokens.** The k-th byte a write hands over is the token k, and 0 is
a byte read from outside any buffer.

**ByteStream** is what a channel promises its user (spec 4.E): the peer
receives a prefix of the bytes accepted by writes, and reads return a prefix
of the bytes the peer sent. Channel implements it under the refinement
mapping:
- `accepted <- Tokens(wrote)`;
- `transmitted <- srvGot`;
- `produced <- Tokens(srvSent)`.

`StreamRefined` checks that mapping as a PROPERTY.

**Fairness.** Weak fairness on the client's read loop and on the server's
reception of packets: the executor runs `received_data` while bytes arrive,
and the server processes what it receives. The server's own choices
(sending data, granting window, closing) carry no fairness, nor do user
actions: nothing in the code makes them happen. So no liveness property is
stated for queued reads and writes: under this fairness a read on an idle
open channel rightly never completes, and one that would complete only by
the server closing says nothing about the code.

#### Channel runs

| Run | Cfg | Expect | What it shows |
|---|---|---|---|
| channel_safety | `Channel_safety.cfg` | pass | With single-buffer writes and two-byte `send_data` payloads, two writes queued behind each other, and across opens, refusals, adjusts, data, closes from either side, disconnects and unsolicited messages: `WindowRespected` (the server's window never goes negative), `ReceiveWindowAgrees` (every refill of the receive window is announced by its amount), and `StreamRefined`. |
| channel_multibuffer | `Channel_multibuffer.cfg` | violation | Two one-byte buffers: `e = b + n` with the total size (channel.hpp:445) sends a byte from past the first buffer, so `StreamRefined` fails. |

Mutants:
- `pop_front_Last`: packets sent out of order;
- `WindowPermits_Always`: the window is not checked;
- `Refill_Silent`: a refill without window_adjust;
- `Refill_AddsFull`: the refill adds `LocalWindow` instead of topping up;

**Bounds.** These make the window run out, be refilled and be adjusted
within one run:
- `HostWindow = 1`, `HostMaxPacket = 1`;
- `LocalWindow = 4` with 3-byte data;
- up to 2 writes, 2 reads, 3 data packets and 1 adjust.

`PacketSizes = {2}` gives `send_data` two-byte payloads, which need the
adjust before they fit the window. The run has about 919,000 distinct
states and takes under a minute.

**Kept cfg `Channel_send_data.cfg`** (no run slot left). A two-byte
`send_data` on a channel whose server allows one-byte packets violates
`MaxPacketRespected` after async_open, the server's open and close, the
confirmation and the send. `send_data` never cuts a payload to
`m_max_send_size`; spec.md line 44 says a payload never exceeds the peer's
maximum packet size. channel_safety does not check `MaxPacketRespected`,
for its `send_data` payloads exceed `HostMaxPacket` by design.

**Kept cfg `Channel_parked_read.cfg`.** Spec.md 4.E: a read copies bytes
already in the FIFO at once and is queued only when there are none
(`ReadServedAtOnce`). After the server's data arrives with no read
pending, the next `async_read_some` is queued behind the received bytes
(channel.hpp:411-423 never looks at `m_received`). It waits for the next
data packet or the close; TLC shows the violation in 7 states.

### X11Channel (`X11Channel.tla`, instance `MC_X11Channel.tla`)

**What it models.** `x11_channel` (x11_channel.cpp), a channel the server
opens for an X client on the remote host:
- `setup`: connect to localhost:6000 (`ConnectOK` chooses the outcome);
  on success answer `channel_open_confirmation`, else `channel_failure`.
- `receive_data`: the next piece of the X client's setup request, of a size
  from `ChunkSizes`. Before the request is verified, pieces join
  `m_packet` and `check_validation` (`CheckValidation`) runs; once it
  accepts, what is left is written to the X server (`xserver`).
- `CheckValidation` translates the code's control: accept with more than 12
  bytes, read both lengths in the byte order of byte 0 (`Field`), pad them
  with `n += n % 4` in 16 bits (`CodePad`), zero bytes 6..9, erase
  `pl + dl` bytes after the header. An erase past the end of `m_packet`
  is undefined behaviour in the code; the model records it in `ub` and
  stops there.
- `receive_raw`: the X server answers once it holds a setup request, and
  the answer goes back with `send_data`.
- `closed`: a failed socket write or read, or the SSH side closing.

**Data.** Bytes are numbers. `MC_X11Channel` builds setup requests
(`SetupRequest(order, nameLen, dataLen)`): an MIT-MAGIC-COOKIE-1 request
(18, 16), an XDM-AUTHORIZATION-1 request (19, 8), a one-byte name, and no
authorization at all. `Stripped` is the reference: the X11 protocol pads
to the next multiple of four (`Pad4`).

**Properties.**
- `ForwardedSetup`: the X server receives a prefix of the request with the
  authorization name and data stripped.
- `NoEraseBeyondEnd`: check_validation never erases bytes that have not
  arrived.
- `SetupAnswered`: once open, the X client's setup request is answered
  unless the channel closes. Fairness: weak fairness on `setup`,
  `receive_data` (the read loop delivers channel data) and `receive_raw`.

**Kept cfgs** (all run slots are in use, so these are not runs):
- `X11Channel_padding.cfg`: a one-byte protocol name is padded to 2, not 4;
  two padding bytes reach the X server, and `ForwardedSetup` fails in 3
  states (x11_channel.cpp:130).
- `X11Channel_split.cfg`: the MIT cookie request arrives in 16-byte pieces;
  check_validation accepts 16 bytes and erases 36 (`NoEraseBeyondEnd`,
  x11_channel.cpp:146).
- `X11Channel_noauth.cfg`: a request with no authorization is exactly 12
  bytes, `size() > 12` never holds, and the setup is never forwarded
  (`SetupAnswered`, x11_channel.cpp:115).

With the MIT cookie (lengths already multiples of four) in one piece, all
three properties hold. `setup` also answers a failed connect with
msg_channel_failure (100), a global-request reply, where RFC 4254 5.1 asks
for msg_channel_open_failure (92); no property is about the answer.

### SocksForward (`SocksForward.tla`, instance `MC_SocksForward.tla`)

This module models one `socks5_forwarding_connection` of
`src/src/port_forwarding.cpp`.
- **Handshake.** `start`, and every case of `handshake` as an operator named
  after it (`socks_init`, `socks4_init`, ..., `socks5_address`).
- **Copying.** `channel_open`, `start_copy_data`, and the four copy
  handlers of `forwarding_connection`.
- **Completions.** The completion of each read or write
  (`HandshakeRead`, `HandshakeReadMini`, `HandshakeWrote`) runs the whole
  handler.
- **`async_read` semantics.** It fills its whole buffer, or completes with
  eof after copying what arrived. The rest of the buffer keeps its old
  bytes. `handshake` never tests the error code.
- **The plain forwarder.** `kind` is the connection the factory of
  `bound_port` made. A `port_forwarding_connection` (from `forward_port`)
  starts with the channel to `PlainTarget` already being opened.
  `plain_open`, the completion of its `start`, starts the copy and writes
  no reply.
- **The client** sends one request from `Requests` in chunks and may close
  at any point. A client of a plain forward sends bytes from `PlainData`.
- **The SSH channel** is abstracted to the outcome of `async_open` and to
  the bytes copied each way.

#### SocksForward runs

| Run | Cfg | Expect | What it shows |
|---|---|---|---|
| socks_close | `SocksForward_close.cfg` | violation | `HandshakeEndsAfterClose`. A SOCKS4 client closes after its user id and before the terminating zero. Every read then completes at once with eof and the unchanged non-zero byte, and `handshake` issues the same read forever: a busy loop on the executor for every such client (port_forwarding.cpp:257, 323). |
| socks_safety | `SocksForward_safety.cfg` | pass | `RequestHonoured`: a client that sent its whole request gets only the channel it asked for. `PayloadForwarded`: the bytes after the request reach the channel in order, none lost or duplicated. |

`RequestHonoured` compares with `RequestTarget`, a reference parser. It is
written from the SOCKS 4/4a notes and RFC 1928, not from `handshake`, and it
honours NMETHODS. `RequestLen` and `Payload` come from the same reference.

**Bounds of socks_safety.** The requests are:
- SOCKS4 to an IPv4 address;
- SOCKS4a to a host name;
- SOCKS5 to an IPv4 address;
- SOCKS5 to a host name;
- a plain forward to a host name.

Each is followed by, or for the plain forward consists of, two payload
bytes. The client sends in chunks of
any size and may close at any point. `CopyBuffer = 1`, so the payload moves
in several chunks. The remote end sends one chunk. The run has 2,530
distinct states and fires every action.

Mutants:
- `socks4_user_id_AddrOffByOne`;
- `handle_read_from_client_NoConsume`.

**Kept without a run: `SocksForward_methods.cfg`.** It checks
`RequestAnswered` for a SOCKS5 client that offers two methods. TLC finds it
violated, so socks_safety, whose SOCKS5 clients offer one method, does
not check it. `SOCKS5_INIT` reads one method byte whatever NMETHODS says
(port_forwarding.cpp:280). The second method byte is then taken as the
version of the request, and the connection stops without any reply.

A request cut short by eof is outside the premise of `RequestHonoured`. In
such a run the SOCKS4 user-id read completes on eof, and a channel is opened
(hazard at port_forwarding.cpp:411). No run states this as a property.

## Fairness, in one place

Every module gives weak fairness only to steps the code's executor must
take:
- completion handlers and coroutine resumptions;
- reads of bytes that were sent;
- the peer's answers to requests.

Users, openers, and the peer's unsolicited packets carry no fairness.

## Not modelled

| Part | Why |
|---|---|
| Ciphers, MACs, key exchange maths, zlib | Byte-level transformations outside TLC's reach. `key_exchange` is not under `src/`. |
| `bound_port`, `port_forward_listener` | The accept loop and resolver are I/O plumbing. Each accepted connection is independent of the others, and SocksForward models one. |
| Terminal channel | It only sends pty-req and shell on open; the generic channel behaviour is Channel's. |
| `operations.hpp`, `error.cpp` | Handler wrappers and message strings. Their effect is the fairness above. |
| The steady-state read loop of the assh connection | `async_read` is never started after `userauth_success` (hazard at connection.hpp:578). |
| compress and decompress | zlib's output is out of TLC's reach. |

## Plan for later work

1. SOCKS: the reply write racing the first remote data
   (port_forwarding.cpp:478), and the copy loops that close nothing
   (line 74).
2. Connection-level composition: several channels sharing one read loop,
   and the write-side counts of `pop_front` (channel.hpp:176), which need
   `opacket::size` from a header not among the sources.
3. X11: a run slot for the kept cfgs, and the socket write of each piece
   (`async_write` per `receive_data`) racing the next piece.
