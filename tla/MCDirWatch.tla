------------------------------ MODULE MCDirWatch ------------------------------
(* Two items, one of which may be named twice on the command line.            *)
EXTENDS DirWatch

CONSTANTS a, b

MCItem == {a, b}
MCEvent == [mask : {"other", "self", "ignored", "overflow"}, wd : Item \cup {NULL}]
MCArgLists == {<<>>, <<a>>, <<a, b>>, <<b, b>>}

\* Command lines that name an item twice.
MCTwice == {<<b, b>>, <<a, b, a>>}
===============================================================================
