----------------------------- MODULE MCIngestion -----------------------------
(* Small instances of HermesIngestion. *)
EXTENDS HermesIngestion

CONSTANT other    \* a payload that names a record id of its own

\* The other payloads are versions of one record.
MCRecordOf == [i \in Inputs |-> IF i = other THEN 2 ELSE 1]
=============================================================================
