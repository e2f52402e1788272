---------------------------- MODULE MCMigrations ----------------------------
(***************************************************************************)
(* Migrations for TLC: three migrations in the place of the eleven, with   *)
(* statements of every kind, one of the migrations with several.           *)
(***************************************************************************)
EXTENDS Migrations

MCCatalog == << <<"repeatable", "ensure">>, <<"repeatable">>, <<"unique">> >>
=============================================================================
