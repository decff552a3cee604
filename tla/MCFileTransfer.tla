--------------------------- MODULE MCFileTransfer ---------------------------
(* Three transfers of four files: long and short are two files of one      *)
(* name, other has its own and big exceeds the limit.                      *)
EXTENDS FileTransfer

CONSTANTS t1, t2, t3

MCTransfer3 == {t1, t2, t3}

MCFiles    == {"long", "short", "other", "big"}

MCContent  == [f \in {"long", "short", "other", "big"} |->
                 CASE f = "long" -> <<1, 2>> [] f = "short" -> <<3>>
                   [] f = "other" -> <<5>>   [] f = "big" -> <<4, 4, 4>>]
MCPath     == {"a", "a (1)", "a (2)", "a (3)", "a.part",
               "b", "b (1)", "b (2)", "b.part"}
MCPartPath == [f \in File |-> IF f = "other" THEN "b.part" ELSE "a.part"]
MCDestPaths == [f \in File |-> IF f = "other" THEN <<"b", "b (1)", "b (2)">>
                                 ELSE <<"a", "a (1)", "a (2)", "a (3)">>]
MCExisting == {"a"}
=============================================================================
