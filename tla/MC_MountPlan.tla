---------------------------- MODULE MC_MountPlan ----------------------------
(* A small tree: the host has a directory /a, a regular file /b and a     *)
(* character device /ab; the target directory /r holds a fifo /r/b.  The  *)
(* arguments are every string of at most three characters over '/', 'a', *)
(* 'b' and ':', so both separators, relative paths, trailing slashes and  *)
(* every node type occur.                                                 *)
EXTENDS MountPlan, TLC

Alphabet == {"/", "a", "b", ":"}

MCArgs == UNION {[1..n -> Alphabet] : n \in 1..3}

MCTargetDir == <<"/", "r">>

MCInitFs == (<<>> :> "dir") @@ (<<<<"a">>>> :> "dir") @@ (<<<<"b">>>> :> "file")
            @@ (<<<<"a", "b">>>> :> "chr") @@ (<<<<"r">>>> :> "dir")
            @@ (<<<<"r">>, <<"b">>>> :> "fifo")

MCMaxMounts == 2
=============================================================================
