--------------------------- MODULE MCDataMigration ---------------------------
(* The instance of DataMigration that TLC checks: two chains, with every    *)
(* kind of token that behaves differently between them.                     *)
EXTENDS DataMigration

MCKinds == <<{"absent", "private", "poison"}, {"private", "badId"}>>

=============================================================================
