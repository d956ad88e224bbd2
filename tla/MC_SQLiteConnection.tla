------------------------ MODULE MC_SQLiteConnection ------------------------
(***************************************************************************)
(* Two client updates, two injected SQLite failures and up to three       *)
(* unfinalized statements: enough for a failure inside a transaction       *)
(* followed by a successful update, and for a failed COMMIT followed by a  *)
(* new beginTransaction().                                                 *)
(***************************************************************************)
EXTENDS SQLiteConnection
=============================================================================
