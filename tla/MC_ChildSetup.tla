---------------------------- MODULE MC_ChildSetup ----------------------------
(* Three capabilities, two kept by default.  The parameters name them in   *)
(* both cases, list two with a ',', end in a ',', glue two names without  *)
(* one, and name one that does not exist.  Two namespaces, one created by *)
(* default; a --namespaces list names one, or one and an unknown name.    *)
(* A command line has up to two of these options, in any order.           *)
EXTENDS ChildSetup

MCCapNames == {"chown", "kill", "sys_admin"}
MCDefaultKept == {"chown", "sys_admin"}
MCNsNames == {"pid", "net"}
MCDefaultNs == {"pid"}
MCFold == [w \in {"CHOWN", "kill", "sys_admin", "SYS_ADMIN", "bogus", ",", "NET"} |->
            CASE w = "CHOWN" -> "chown"
              [] w \in {"sys_admin", "SYS_ADMIN"} -> "sys_admin"
              [] w = "kill" -> "kill"
              [] w = "NET" -> "net"
              [] OTHER -> "none"]
MCParams == {<<"CHOWN">>, <<"SYS_ADMIN">>, <<"kill", ",", "sys_admin">>,
             <<"kill", ",">>, <<"CHOWN", "kill">>, <<"bogus">>}
MCOpts == [opt : {"caps", "drop"}, param : MCParams]
             \cup [opt : {"ns"}, param : {<<"NET">>, <<"NET", ",", "bogus">>}]
MCArgvs == {<<>>} \cup {<<o>> : o \in MCOpts} \cup {<<o, p>> : o, p \in MCOpts}
=============================================================================
