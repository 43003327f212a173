--------------------------------- MODULE Profile ---------------------------------
(* The extension catalog of admin/profile.py, what the schema file creates  *)
(* of it, and the census the doctor compares with.                          *)
EXTENDS Integers, Sequences, SequencesExt

CONSTANTS
  Extension,     \* the names of extensions that occur
  _CENSUS_IGNORE \* those every database of the base image has

(* A catalog is a sequence of rows, in apply order, one for each name.      *)
ExtensionSpec ==
  [name : Extension, target_db : {"maghz", "postgres", "none"}]

Names(rows) == {rows[i].name : i \in DOMAIN rows}

schema_prelude(catalog) ==
  LET Targets(spec) == spec.target_db = "maghz" IN SelectSeq(catalog, Targets)

(* Faulty variant: an extension nobody declared is not drift.               *)
CensusMissing(catalog, installed) ==
  [missing |-> Names(schema_prelude(catalog)) \ installed, undeclared |-> {}]

census_diff(catalog, installed) ==
  LET declared == Names(schema_prelude(catalog))
      live == installed \ _CENSUS_IGNORE
  IN [missing |-> declared \ live, undeclared |-> live \ declared]
================================================================================
