----------------------------- MODULE MCPublish ------------------------------
(* Instances of DatasetPublish: a dataset of two tables.                   *)
EXTENDS DatasetPublish
CONSTANTS t1, t2

MCTables == {t1, t2}

=============================================================================
