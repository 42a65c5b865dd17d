---------------------------- MODULE MCKvControl ----------------------------
(***************************************************************************)
(* Model-checking instance of KvControl.  Keys are two ordered naturals,   *)
(* so a range delete or a compaction batch can span two keys; values,      *)
(* watchers and the range_end markers are model values given in the .cfg  *)
(* files.                                                                  *)
(***************************************************************************)
EXTENDS KvControl

MCKeys == {1, 2}

\* One key: the watch run follows the events of a single key
MCOneKey == {1}
=============================================================================
