-------------------------- MODULE MCCommitLogReader --------------------------
(* A small instance of CommitLogReader for TLC: four commits, pages of     *)
(* one and two, and chunks of up to three half records, so that a page can *)
(* end inside a chunk and a chunk inside a record.                         *)
EXTENDS CommitLogReader
=============================================================================
