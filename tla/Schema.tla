------------------------------- MODULE Schema -------------------------------
(***************************************************************************)
(* Schemas for stores (schema.c, validate.c of src/src/modules/store).  A  *)
(* schema is itself a store.  A type is a record whose field names its     *)
(* mode; Null is a type that could not be parsed.  Schemas whose aliases   *)
(* refer to each other in a circle, for which validateStore does not       *)
(* return, are left out.                                                   *)
(***************************************************************************)
EXTENDS Store

RECURSIVE ParseSchemaType(_)

\* parseSchemaTypeArray, parseSchemaTypeSequence: the type that follows the keyword.
ParseSubtype(v, mode) ==
  IF Len(v.list) > 1 /\ ParseSchemaType(v.list[2]) # Null
  THEN mode :> ParseSchemaType(v.list[2]) ELSE Null

\* parseSchemaTypeTuple, parseSchemaTypeVariant: the types that follow the keyword.
ParseSubtypes(v, mode) ==
  LET subtypes == [i \in 1 .. (Len(v.list) - 1) |-> ParseSchemaType(v.list[i + 1])]
  IN  IF Null \in Range(subtypes) THEN Null ELSE mode :> subtypes

\* parseSchemaTypeEnum
ParseEnum(v) ==
  IF \A i \in 2 .. Len(v.list) : Is(v.list[i], "string")
  THEN [enum |-> {v.list[i].string : i \in 2 .. Len(v.list)}] ELSE Null

\* parseSchemaStructElement
ParseElement(v) ==
  IF ~ Is(v, "list") \/ Len(v.list) < 2 THEN Null
  ELSE IF ~ Is(v.list[1], "string") \/ ParseSchemaType(v.list[2]) = Null THEN Null
  ELSE [required |-> v.list[1] = Str("required"), type |-> ParseSchemaType(v.list[2])]

\* parseSchemaTypeStruct
ParseStruct(v) ==
  LET elements == [k \in DOMAIN v.array |-> ParseElement(v.array[k])]
  IN  IF \E k \in DOMAIN elements : elements[k] = Null THEN Null ELSE [struct |-> elements]

ParseSchemaType(v) ==
  LET Keyword(k) == Is(v, "list") /\ v.list # <<>> /\ v.list[1] = Str(k)
  IN  CASE Is(v, "string") -> [alias |-> v.string]
        [] Keyword("array") -> ParseSubtype(v, "every")
        [] Keyword("sequence") -> ParseSubtype(v, "sequence")
        [] Keyword("tuple") -> ParseSubtypes(v, "tuple")
        [] Keyword("variant") -> ParseSubtypes(v, "variant")
        [] Keyword("enum") -> ParseEnum(v)
        [] Is(v, "array") -> ParseStruct(v)
        [] OTHER -> Null

BuiltIn == [int |-> [basic |-> "integer"], float |-> [basic |-> "float"], string |-> [basic |-> "string"]]

\* parseSchema: the named types, in passes until none is left (a type that fails once
\* fails always, since aliases are not looked up), and the layout of the root.
ParseSchema(store) ==
  LET types == IF "types" \in DOMAIN store.array THEN store.array["types"] ELSE EmptyArray
      named == [n \in (DOMAIN BuiltIn) \cup DOMAIN types.array |->
                  IF n \in DOMAIN BuiltIn THEN BuiltIn[n] ELSE ParseSchemaType(types.array[n])]
  IN  IF ~ Is(types, "array") \/ "layout" \notin DOMAIN store.array THEN Null
      ELSE IF ~ Is(store.array["layout"], "array") \/ (\E n \in DOMAIN named : named[n] = Null) THEN Null
      ELSE IF ParseStruct(store.array["layout"]) = Null THEN Null
      ELSE [types |-> named, layout |-> ParseStruct(store.array["layout"])]

RECURSIVE Validate(_, _, _)

\* validateSchemaTypeStruct: there may be keys that the type does not name.
ValidateStruct(types, struct, v) ==
  /\ Is(v, "array")
  /\ \A k \in DOMAIN struct : IF k \in DOMAIN v.array THEN Validate(types, struct[k].type, v.array[k])
                              ELSE ~ struct[k].required

\* validateSchemaTypeArray, validateSchemaTypeSequence
ValidateEvery(types, subtype, v) ==
  Is(v, "array") /\ \A k \in DOMAIN v.array : Validate(types, subtype, v.array[k])
ValidateSequence(types, subtype, v) ==
  Is(v, "list") /\ \A i \in DOMAIN v.list : Validate(types, subtype, v.list[i])

\* mutant: a tuple must have exactly its elements
TupleExact(types, subtypes, v) ==
  /\ Is(v, "list") /\ Len(v.list) = Len(subtypes)
  /\ \A i \in DOMAIN subtypes : Validate(types, subtypes[i], v.list[i])

\* validateSchemaTypeTuple: there may be more elements than the type names.
ValidateTuple(types, subtypes, v) ==
  /\ Is(v, "list") /\ Len(v.list) >= Len(subtypes)
  /\ \A i \in DOMAIN subtypes : Validate(types, subtypes[i], v.list[i])

\* validateSchemaTypeVariant
ValidateVariant(types, subtypes, v) == \E i \in DOMAIN subtypes : Validate(types, subtypes[i], v)

\* validateSchemaTypeAlias, validateSchemaTypeEnum: an alias may refer to no type.
ValidateName(types, type, v) ==
  IF Is(type, "alias") THEN type.alias \in DOMAIN types => Validate(types, types[type.alias], v)
  ELSE Is(v, "string") /\ v.string \in type.enum

\* validateSchemaType
Validate(types, type, v) ==
  CASE Is(type, "basic") -> Is(v, type.basic)
    [] Is(type, "struct") -> ValidateStruct(types, type.struct, v)
    [] Is(type, "every") -> ValidateEvery(types, type.every, v)
    [] Is(type, "sequence") -> ValidateSequence(types, type.sequence, v)
    [] Is(type, "tuple") -> ValidateTuple(types, type.tuple, v)
    [] Is(type, "variant") -> ValidateVariant(types, type.variant, v)
    [] OTHER -> ValidateName(types, type, v)

\* validateStoreByStoreSchema
ValidateStore(store, schema) ==
  schema # Null /\ Validate(schema.types, schema.layout, store)
=============================================================================
