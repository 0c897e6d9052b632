---------------------------- MODULE OutputSchema ----------------------------
(***************************************************************************)
(* ValidateOutput of llm.go: is the answer of a model what the job type's  *)
(* policy asks for?  Schemas and answers are JSON documents.  A document   *)
(* is [t, s, f, e]: its JSON type, its text if it is a string or a number, *)
(* its fields if it is an object, its elements if it is an array.          *)
(***************************************************************************)
EXTENDS Integers, Sequences

Keywords == {"type", "required", "properties", "items"}

NoFields == [n \in {} |-> n]

Doc(t, s, f, e) == [t |-> t, s |-> s, f |-> f, e |-> e]

Null == Doc("null", "", NoFields, <<>>)
Bool == Doc("boolean", "true", NoFields, <<>>)
Number(s) == Doc("number", s, NoFields, <<>>)
Text(s) == Doc("string", s, NoFields, <<>>)
Array(e) == Doc("array", "", NoFields, e)
Object(f) == Doc("object", "", f, <<>>)

\* No schema is configured; text that is not JSON.
NoSchema == Doc("none", "", NoFields, <<>>)
Malformed == Doc("malformed", "", NoFields, <<>>)

\* A field that the document has and whose value has JSON type t.
HasField(d, n, t) == n \in DOMAIN d.f /\ d.f[n].t = t

Elements(d) == {d.e[i] : i \in DOMAIN d.e}

\* Mutant: any number is an integer.
matchesJSONType_Fraction(schemaType, value) ==
  schemaType = value.t \/ (schemaType = "integer" /\ value.t = "number")

\* A type the switch does not know matches nothing.
matchesJSONType(schemaType, value) ==
  \/ /\ schemaType \in {"object", "array", "string", "number", "boolean", "null"}
     /\ value.t = schemaType
  \/ schemaType = "integer" /\ value.t = "number" /\ value.s = "1"

\* Mutant: the properties of an explicit schema are all required.
requiredFields_All(schema, properties, explicit) ==
  IF HasField(schema, "required", "array")
  THEN {d.s : d \in {x \in Elements(schema.f["required"]) : x.t = "string"}}
  ELSE DOMAIN properties \ Keywords

requiredFields(schema, properties, explicit) ==
  IF HasField(schema, "required", "array")
  THEN {d.s : d \in {x \in Elements(schema.f["required"]) : x.t = "string"}}
  ELSE IF explicit THEN {} ELSE DOMAIN properties \ Keywords

\* The fields of an object schema against those of an object: without
\* "properties" the schema itself is read as the list of properties.
RECURSIVE validateJSONValue(_, _)
validateJSONValue(schema, value) ==
  LET explicit == HasField(schema, "properties", "object")
      properties == IF explicit THEN schema.f["properties"].f ELSE schema.f
      schemaType == IF HasField(schema, "type", "string") THEN schema.f["type"].s ELSE ""
  IN  CASE schema.t # "object" -> schema.t \in {"null", value.t}
        [] schema.t = "object" /\ schemaType = "array" ->
             /\ matchesJSONType("array", value)
             /\ "items" \in DOMAIN schema.f
                  => \A item \in Elements(value) : validateJSONValue(schema.f["items"], item)
        [] schema.t = "object" /\ schemaType \notin {"", "array", "object"} ->
             matchesJSONType(schemaType, value)
        [] OTHER ->
             /\ value.t = "object"
             /\ requiredFields(schema, properties, explicit) \subseteq DOMAIN value.f
             /\ \A n \in DOMAIN properties \cap DOMAIN value.f :
                  validateJSONValue(properties[n], value.f[n])

\* A policy without a schema accepts everything, and neither a schema nor an
\* answer that is not JSON passes.
ValidateOutput(schema, content) ==
  \/ schema = NoSchema
  \/ Malformed \notin {schema, content} /\ validateJSONValue(schema, content)

=============================================================================
