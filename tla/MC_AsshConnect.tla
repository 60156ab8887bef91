-------------------------- MODULE MC_AsshConnect --------------------------
(* Model-checking instance of AsshConnect.                                  *)
EXTENDS AsshConnect

(* A server that lists publickey alone or with password, and one that     *)
(* lists password only.                                                    *)
MC_Offered == {{"publickey"}, {"publickey", "password"}, {"password"}}
MC_Offered_Pk == {{"publickey"}}

MC_Versions == {"SSH-2.0", "SSH-1.99"}
MC_Ssh2 == {"SSH-2.0"}
MC_Agree == {TRUE, FALSE}
MC_AgreeOnly == {TRUE}
=============================================================================
