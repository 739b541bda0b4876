---------------------------- MODULE MCRE2Threads ----------------------------
(***************************************************************************)
(* Instance of RE2Threads: two threads, two tables, a pattern with two     *)
(* named groups and one without a name between them.  The heap is large    *)
(* enough: three global entries, and an error string or two tables for     *)
(* each of the three RE2s, with one being filled per thread.               *)
(***************************************************************************)
EXTENDS RE2Threads, TLC

MCTables == {"named_groups_", "group_names_"}
MCGroupNames == <<"", "n", "", "m">>
=============================================================================
