------------------------- MODULE OutputSchemaCheck --------------------------
(***************************************************************************)
(* ValidateOutput on small schemas and answers, against what a schema      *)
(* means keyword by keyword.                                               *)
(***************************************************************************)
EXTENDS OutputSchema, TLC

VARIABLES
  policy,  \* LLMPolicy.OutputSchema of the job type
  answer   \* the content of the last LLMResponse

schemaVars == <<policy, answer>>

Leaves == {Null, Text("x")} \cup
  {Object("type" :> Text(t)) : t \in {"string", "integer", "number", "null", "date"}}

\* Schemas for a value whose fields or elements are described by l.
ListsOf(l) == Object("type" :> Text("array") @@ "items" :> l)
Shorthand(l) == Object("a" :> l)
Explicit(l) == Object("type" :> Text("object") @@ "properties" :> Object("a" :> l))
Untyped(l) == Object("properties" :> Object("a" :> l))
Requiring(d, names) == Object(d.f @@ "required" :> Array(names))
Over(l) == {ListsOf(l), Shorthand(l), Explicit(l), Untyped(l),
            Requiring(Explicit(l), <<>>), Requiring(Explicit(l), <<Text("b"), Null>>),
            Requiring(Untyped(l), <<Text("a")>>), Requiring(Shorthand(l), <<Text("b")>>)}

Flat == Leaves \cup UNION {Over(l) : l \in Leaves} \cup
  {Object(NoFields), Object("type" :> Text("object")), Object("type" :> Text("array"))}
Schemas == {NoSchema, Malformed} \cup Flat \cup UNION {Over(s) : s \in Flat}

Scalars == {Null, Bool, Number("1"), Number("1.5"), Text("x")}
Small == Scalars \cup {Array(<<>>), Object(NoFields), Object("type" :> Number("1"))} \cup
  UNION {{Array(<<v>>), Array(<<Text("x"), v>>), Object("a" :> v), Object("a" :> Null @@ "b" :> v)}
           : v \in Scalars}
Answers == {Malformed} \cup Small \cup
  UNION {{Array(<<v>>), Array(<<Text("x"), v>>), Object("a" :> v), Object("a" :> v @@ "b" :> Null)}
           : v \in Small}

\* Nothing has been answered yet.
Awaited == Doc("awaited", "", NoFields, <<>>)

SchemaInit == policy \in Schemas /\ answer = Awaited

Respond(d) == answer = Awaited /\ answer' = d /\ UNCHANGED policy

NextAttempt == answer # Awaited /\ answer' = Awaited /\ UNCHANGED policy

SchemaNext == (\E d \in Answers : Respond(d)) \/ NextAttempt

-----------------------------------------------------------------------------

HasType(v, t) == IF t = "integer" THEN v = Number("1") ELSE v.t = t

\* Reference: every keyword of a schema is a condition of its own; a plain
\* object lists the fields there must be, and a plain value stands for its type.
RECURSIVE Conforms(_, _)
Conforms(v, s) ==
  IF s.t # "object" THEN s = Null \/ s.t = v.t
  ELSE IF DOMAIN s.f \cap Keywords = {}
  THEN v.t = "object" /\ \A n \in DOMAIN s.f : n \in DOMAIN v.f /\ Conforms(v.f[n], s.f[n])
  ELSE /\ "type" \in DOMAIN s.f => HasType(v, s.f["type"].s)
       /\ "required" \in DOMAIN s.f /\ v.t = "object" =>
            \A d \in Elements(s.f["required"]) : d.t = "string" => d.s \in DOMAIN v.f
       /\ "properties" \in DOMAIN s.f /\ v.t = "object" =>
            \A n \in DOMAIN v.f : n \in DOMAIN s.f["properties"].f =>
              Conforms(v.f[n], s.f["properties"].f[n])
       /\ "items" \in DOMAIN s.f /\ v.t = "array" =>
            \A d \in Elements(v) : Conforms(d, s.f["items"])

\* Every part of the schema names its type, and objects list their properties.
RECURSIVE Spelled(_)
Spelled(s) ==
  /\ HasField(s, "type", "string")
  /\ s.f["type"].s = "object" => HasField(s, "properties", "object")
  /\ "properties" \in DOMAIN s.f =>
       \A n \in DOMAIN s.f["properties"].f : Spelled(s.f["properties"].f[n])
  /\ "items" \in DOMAIN s.f => Spelled(s.f["items"])

\* Invalid output is never taken for a success (LLMExecutor.Execute asks
\* ValidateOutput): what passes is JSON and meets every keyword of the schema.
AcceptedConforms ==
  answer # Awaited /\ policy # NoSchema /\ ValidateOutput(policy, answer) =>
    Malformed \notin {policy, answer} /\ Conforms(answer, policy)

\* Nor is an attempt, which is paid for, wasted on good output: a schema that
\* spells out its types and properties accepts everything that conforms to it.
SpelledSchemasExact ==
  Spelled(policy) /\ answer \notin {Awaited, Malformed} =>
    (ValidateOutput(policy, answer) <=> Conforms(answer, policy))

=============================================================================
