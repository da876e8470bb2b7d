---------------------------- MODULE MC_Diagexec ----------------------------
(* An app root with a dynamically linked binary and its loader, scripts   *)
(* whose shebang line names a missing, a relative, a self-referencing     *)
(* interpreter or one with an argument or a leading blank, and files that *)
(* diag() rejects for their type, mode or header.  Environment files are  *)
(* every list of at most two entries over two keys and two values (one   *)
(* holding '='), and four files outside the documented format.            *)
EXTENDS Diagexec

Elf(v, b, e, ph) == [type |-> "reg", exec |-> TRUE, fmt |-> "elf",
                     version |-> v, bits |-> b, endian |-> e, phdrs |-> ph]
Script(lead, p, arg) == [type |-> "reg", exec |-> TRUE, fmt |-> "shebang", nl |-> TRUE,
                         line |-> [lead |-> lead, path |-> p, arg |-> arg]]

MCFiles ==
  ("/app" :> Elf(1, 64, "litl", <<"load", "/ld">>))
  @@ ("/ld" :> Elf(1, 64, "litl", <<"load">>))
  @@ ("/env" :> Elf(1, 32, "big", <<"/ld", "load">>))
  @@ ("/withArg" :> Script(FALSE, "/env", TRUE))
  @@ ("/blank" :> Script(TRUE, "/env", FALSE))
  @@ ("/gone" :> Script(FALSE, "/missing", FALSE))
  @@ ("/loop" :> Script(FALSE, "/loop", FALSE))
  @@ ("/rel" :> Script(FALSE, "sh", FALSE))
  @@ ("/long" :> [type |-> "reg", exec |-> TRUE, fmt |-> "shebang", nl |-> FALSE])
  @@ ("/v2" :> Elf(2, 64, "litl", <<"load">>))
  @@ ("/odd" :> Elf(1, 16, "litl", <<"load">>))
  @@ ("/txt" :> [type |-> "reg", exec |-> TRUE, fmt |-> "other"])
  @@ ("/noexec" :> [type |-> "reg", exec |-> FALSE, fmt |-> "other"])
  @@ ("/dir" :> [type |-> "dir"])

MCRelative == {"sh"}

MCExes == (DOMAIN MCFiles) \cup {"/missing"}

Keys == {<<"a">>, <<"b">>}
Vals == {<<>>, <<"=", "b">>}
Entry == [key : Keys, val : Vals]

MCEnvInputs ==
  {[kind |-> "list", list |-> l] : l \in {<<>>} \cup {<<e>> : e \in Entry}
                                         \cup {<<e, f>> : e, f \in Entry}}
  \cup {[kind |-> "raw", bytes |-> b] :
          b \in {<<"a", "=", "b">>, <<"a", NUL>>, <<"=", "b", NUL>>, <<NUL>>}}

MCEnvInputsSmall ==
  {[kind |-> "list", list |-> <<[key |-> <<"a">>, val |-> <<"b">>]>>]}

MCDevOrder == <<"null", "tun">>
MCHostDevs == {{"null"}, {"null", "tun"}}
MCMaxRuns == 2
=============================================================================
