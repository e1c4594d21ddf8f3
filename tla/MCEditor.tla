--------------------------------- MODULE MCEditor ---------------------------------
(***************************************************************************)
(* Two texts that can be run, one of several lines, one that cannot, and   *)
(* two files.                                                              *)
(***************************************************************************)
EXTENDS Editor

MCTexts == {<< >>, <<"\n", "\n">>, <<"\n", "other">>}
MCAccepted == {"a", "\n"}
MCFiles == {"f", "g"}

(* The first two processes may overlap, the third follows them, and the    *)
(* files are read and written before the first process is started.         *)
FewThings ==
    /\ Len(processes) = 3 => alone
    /\ processes # << >> => fileName = NoName /\ \A f \in Files : files[f] = << >>
=============================================================================
