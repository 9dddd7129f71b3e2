----------------------------- MODULE ToolSchema -----------------------------
(***************************************************************************)
(* The schema of a tool as the runtime accepts it (translate/schema.rs).   *)
(* A JSON schema is a record of what the rewriting tells apart: its type   *)
(* and enum ("" and {} if absent), its parameters (a function from names   *)
(* to schemas, NoParameters if the keyword is absent), the required names, *)
(* the unsupported keywords it has ("default", "format", ...), and the     *)
(* branches of anyOf/oneOf and of allOf.  A branch that is no object is    *)
(* NotAnObject.  The code goes through the keywords in the client's order  *)
(* (serde_json, preserve_order): the schemas considered have at most one   *)
(* of anyOf and oneOf, and allOf, if they have it, behind it.              *)
(***************************************************************************)
EXTENDS Naturals, Sequences, SequencesExt

CONSTANT Schemas   \* the schemas considered, closed under parameters and branches

Absent       == {}
NoParameters == <<>>

Schema(type, enum, properties, required, unsupported, anyOf, allOf) ==
  [type |-> type, enum |-> enum, properties |-> properties, required |-> required,
   unsupported |-> unsupported, anyOf |-> anyOf, allOf |-> allOf]

EmptySchema == Schema("", Absent, NoParameters, Absent, {}, <<>>, <<>>)
NotAnObject == Schema("no object", Absent, NoParameters, Absent, {}, <<>>, <<>>)

\* The elements that pass the test, put together one by one.
Keep(seq, Test(_)) ==
  FlattenSeq([i \in DOMAIN seq |-> IF Test(seq[i]) THEN <<seq[i]>> ELSE <<>>])

\* The schemas right inside a schema: its parameters and its branches.
Nested(s) ==
  ({s.properties[name] : name \in DOMAIN s.properties} \cup ToSet(s.anyOf) \cup ToSet(s.allOf))
    \ {NotAnObject}

IsSeq(seq) == seq \in Seq(ToSet(seq))

IsSchema(s) ==
  /\ s = Schema(s.type, s.enum, s.properties, s.required, s.unsupported, s.anyOf, s.allOf)
  /\ IsSeq(s.anyOf) /\ IsSeq(s.allOf)

\* A schema is a tree: among any of them there is one that holds none of the others.
ASSUME SchemasAssumption ==
  /\ \A s \in Schemas : IsSchema(s) /\ Nested(s) \subseteq Schemas
  /\ \A T \in SUBSET Schemas : T # {} => \E s \in T : Nested(s) \cap T = {}

Over(new, old, absent) == IF new = absent THEN old ELSE new

\* Map::extend: the keys that "more" has replace those of "base".
Extend(base, more) ==
  Schema(Over(more.type, base.type, ""),
         Over(more.enum, base.enum, Absent),
         Over(more.properties, base.properties, NoParameters),
         Over(more.required, base.required, Absent),
         base.unsupported, base.anyOf, base.allOf)

IsObject(branch) == branch # NotAnObject
IsEnum(branch)   == IsObject(branch) /\ branch.enum # Absent
IsNull(branch)   == branch.type = "null"
IsReal(branch)   == ~IsNull(branch)

\* flatten_enum_branches: one enum, with the type if all branches agree on it.
FlattenedEnum(branches) ==
  LET types == {b.type : b \in ToSet(branches)}
  IN Schema(IF \E t \in types : types = {t} THEN CHOOSE t \in types : TRUE ELSE "",
            UNION {b.enum : b \in ToSet(branches)}, NoParameters, Absent, {}, <<>>, <<>>)

DropNullBranches(branches) == Keep(branches, IsReal)

\* What an anyOf or a oneOf is replaced by, its branches being sanitized.
Chosen(branches) ==
  LET nonNull == DropNullBranches(branches)
      picked  == IF Len(nonNull) = 1 THEN Head(nonNull) ELSE Head(branches)
  IN IF \A b \in ToSet(branches) : IsEnum(b) THEN FlattenedEnum(branches)
     ELSE IF picked = NotAnObject THEN EmptySchema ELSE picked

\* The keywords of the schema itself; parameters are names, not keywords.
Plain(s, properties) == Schema(s.type, s.enum, properties, s.required, {}, <<>>, <<>>)

\* The items of an allOf, one behind the other.
Merged(base, items) ==
  LET merged[n \in 0..Len(items)] == IF n = 0 THEN base ELSE Extend(merged[n - 1], items[n])
  IN merged[Len(items)]

\* sanitize_schema, given what becomes of the schemas inside.
Rewritten(s, inside) ==
  LET branch(b) == IF IsObject(b) THEN inside[b] ELSE NotAnObject
      plain     == Plain(s, [name \in DOMAIN s.properties |-> branch(s.properties[name])])
      any       == [i \in DOMAIN s.anyOf |-> branch(s.anyOf[i])]
      all       == Keep([i \in DOMAIN s.allOf |-> branch(s.allOf[i])], IsObject)
  IN Merged(IF any = <<>> THEN plain ELSE Extend(plain, Chosen(any)), all)

Sanitized[s \in Schemas] == Rewritten(s, [inner \in Nested(s) |-> Sanitized[inner]])

\* A root with a type of its own is left.
RootAsIs(s) == IF s.type = "" THEN [s EXCEPT !.type = "object"] ELSE s

\* ensure_object_root: the runtime takes no tool whose root is anything but an object.
EnsureObjectRoot(s) ==
  CASE s.type \in {"", "object"} -> [s EXCEPT !.type = "object"]
    [] OTHER -> Schema("object", Absent, [name \in {"input"} |-> s], Absent, {}, <<>>, <<>>)
=============================================================================
