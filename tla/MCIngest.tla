------------------------------- MODULE MCIngest -------------------------------
(* Small instances of Ingest for TLC. *)
EXTENDS Ingest

CONSTANTS e1, e2, raw, book

OneEvent == {e1}
TwoEvents == {e1, e2}
OneTable == {raw}
TwoTables == {raw, book}
=============================================================================
