--------------------------- MODULE MC_Handshake ---------------------------
(* Model-checking instance of Handshake: two openers, one agent key.        *)
EXTENDS Handshake

CONSTANTS o1, o2

MC_Openers == {o1, o2}

(* A server that lists publickey and password, and one that lists          *)
(* keyboard-interactive and password.                                      *)
MC_Offered_PkPwd_KbdPwd ==
    {{"publickey", "password"}, {"keyboard-interactive", "password"}}
MC_Offered_KbdPwd == {{"keyboard-interactive", "password"}}
MC_Offered_Kbd == {{"keyboard-interactive"}}
MC_Offered_Pwd == {{"password"}}
MC_Offered_Pk == {{"publickey"}}

MC_Versions == {"SSH-2.0", "SSH-1.99"}
MC_Ssh2 == {"SSH-2.0"}
MC_Agree == {TRUE, FALSE}
MC_AgreeOnly == {TRUE}
=============================================================================
