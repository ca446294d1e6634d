---------------------------------- MODULE Tags ----------------------------------
(***************************************************************************)
(* The two checks of required tags: TagValidator, before a billing record  *)
(* is published (src/src/ingestion/shared/tag-validator.ts), and           *)
(* ResourceTagEnforcer, before an action on a resource is executed         *)
(* (src/src/agents/governor/tag-enforcement.ts).                           *)
(* The tags of a resource are a function from some names to their values.  *)
(***************************************************************************)
EXTENDS FiniteSets

Values == {"value", "", "blank"}    \* "blank" is a value of white space
TagsOver(names) == UNION {[given -> Values] : given \in SUBSET names}

\* TagValidator.validate(): white space is no value.
IngestMissing(tags, required) ==
    {t \in required : t \notin DOMAIN tags \/ tags[t] \in {"", "blank"}}
IngestValid(tags, required) == IngestMissing(tags, required) = {}

\* ResourceTagEnforcer.validate(): only the empty string is no value.
EnforcedMissing(tags, required) == {t \in required : t \notin DOMAIN tags \/ tags[t] = ""}
EnforcedValid(tags, required) == EnforcedMissing(tags, required) = {}

\* validateBatch()
BatchErrors(resources, required) ==
    {[resource |-> r, missing_tags |-> EnforcedMissing(r.tags, required)] :
        r \in {x \in resources : ~EnforcedValid(x.tags, required)}}
=============================================================================
