--------------------------- MODULE MC_SocksForward ---------------------------
EXTENDS SocksForward

(* SOCKS4 CONNECT to 10.0.0.1:80 with user id "u".                         *)
MC_Socks4 == <<4, 1, 0, 80, 10, 0, 0, 1, 117, 0>>

(* SOCKS5: one method (no authentication), CONNECT to 10.0.0.1:80.         *)
MC_Socks5 == <<5, 1, 0, 5, 1, 0, 1, 10, 0, 0, 1, 0, 80>>

(* SOCKS4a CONNECT to host "h" port 80 with user id "u".                   *)
MC_Socks4a == <<4, 1, 0, 80, 0, 0, 0, 1, 117, 0, 104, 0>>

(* SOCKS5 CONNECT to host "h" port 80.                                     *)
MC_Socks5Fqdn == <<5, 1, 0, 5, 1, 0, 3, 1, 104, 0, 80>>

MC_Requests == {MC_Socks4, MC_Socks5}

(* Each request followed by two payload bytes for the tunnel.              *)
MC_Tunnelled == {r \o <<9, 8>> : r \in {MC_Socks4, MC_Socks5, MC_Socks4a,
                                      MC_Socks5Fqdn}}

(* SOCKS5 offering two methods (username/password, then none), CONNECT to  *)
(* 10.0.0.1:80.                                                            *)
MC_TwoMethods == {<<5, 2, 2, 0, 5, 1, 0, 1, 10, 0, 0, 1, 0, 80>>}

MC_SocksOnly == {"socks"}
MC_BothKinds == {"socks", "plain"}

(* forward_port to host "h" port 22; the client sends two bytes.           *)
MC_PlainTarget == <<"fqdn", <<104>>, 22>>
MC_PlainData == {<<9, 8>>}
=============================================================================
