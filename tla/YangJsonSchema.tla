--------------------------- MODULE YangJsonSchema ---------------------------
(***************************************************************************)
(* yang/src/json_schema.rs: the JSON Schema of a YANG schema, which fercc  *)
(* schema prints for others to check requests and answers with.            *)
(*                                                                         *)
(* A JSON Schema is a tuple tagged with the keyword it consists of.  A     *)
(* panic is an error like any other.  Titles and descriptions are left     *)
(* out, and decimal64 as in YangTypes.                                     *)
(***************************************************************************)
EXTENDS YangCodec

OfType(type) == <<"type", type>>
IntegerIn(bounds) == <<"integer", bounds>>
StringOf(bounds, patterns) == <<"string", bounds, patterns>>
OneOfTexts(texts) == <<"enum", texts>>
WordsOf(names) == <<"words", names>>
ArrayOf(items, lengths, unique) == <<"array", items, lengths, unique>>
ObjectOf(properties, required) == <<"object", properties, required>>
AnyOf(schemas) == <<"anyOf", schemas>>
OneOf(schemas) == <<"oneOf", schemas>>
AnyValue == <<"any">>

\* The length of strings and binaries that have no length statement.
MaxLength == 2 ^ BITS64 - 1

\* Bounds of a length that the type itself does not have.
explicit_bounds(t) ==
    LET Lo(i) == IF i = 1 /\ t.ranges[i][1] = 0 THEN None ELSE t.ranges[i][1]
        Hi(i) == IF i = Len(t.ranges) /\ t.ranges[i][2] = MaxLength THEN None ELSE t.ranges[i][2]
    IN  SelectSeq([i \in DOMAIN t.ranges |-> <<Lo(i), Hi(i)>>], LAMBDA b : b # <<None, None>>)

\* Mutant: without the group that padding fills up.
base64_chars_Floor(bytes) == 4 * (bytes \div 3)

base64_chars(bytes) == 4 * ((bytes + 2) \div 3)

\* num: a bound has to fit in an i64 or a u64.
insert_bounds(bounds) ==
    Collect(bounds, LAMBDA b : IF {b[1], b[2]} \ {None} \subseteq I64 \cup U64 THEN Ok(b) ELSE Err)

RECURSIVE type2schema(_)
type2schema(t) ==
    LET InChars(b) == IF b = None THEN None ELSE base64_chars(b)
        chars == [i \in DOMAIN explicit_bounds(t) |->
                    <<InChars(explicit_bounds(t)[i][1]), InChars(explicit_bounds(t)[i][2])>>]
        values == {x \in Range(identities) : t.identity_values # None /\ x.id \in t.identity_values}
        target == nodes[t.leafref_target].ty
    IN  CASE t.builtin \in Int32Types -> Then(insert_bounds(t.ranges), LAMBDA b : Ok(IntegerIn(b)))
          [] t.builtin \in Int64Types \cup {"InstanceIdentifier"} -> Ok(OfType("String"))
          [] t.builtin = "Boolean" -> Ok(OfType("Bool"))
          [] t.builtin = "Union" -> Then(Collect(t.union_members, type2schema), LAMBDA m : Ok(AnyOf(m)))
          [] t.builtin = "Enumeration" -> Ok(OneOfTexts({Word(e.name) : e \in Range(t.enums)}))
          [] t.builtin = "Empty" -> Ok(ArrayOf(OfType("Null"), 1 .. 1, FALSE))
          [] t.builtin = "Binary" -> Then(insert_bounds(chars), LAMBDA b : Ok(StringOf(b, <<>>)))
          [] t.builtin = "Bits" -> Ok(WordsOf({b.name : b \in Range(t.bits)}))
          [] t.builtin = "Leafref" ->
               IF t.leafref_target = None THEN Err ELSE IF target = None THEN Err ELSE type2schema(target)
          [] t.builtin = "Identityref" ->
               Ok(OneOfTexts({Qualified(x.module, x.name) : x \in values}
                             \cup {Word(x.name) : x \in {v \in values : v.module = t.source_module}}))
          [] t.builtin = "String" ->
               Then(insert_bounds(explicit_bounds(t)), LAMBDA b : Ok(StringOf(b, t.patterns)))

\* The children of a node that a body of the content format may have.
BodyNodes(ids, cf) ==
    SelectSeq(ids, LAMBDA c : /\ nodes[c].kw \notin {"rpc", "action"}
                              /\ ~(cf \in {"Ipatch", "Put"} /\ nodes[c].config = FALSE))
Mandatory(ids) == {nodes[c].name : c \in {x \in Range(ids) : nodes[x].mandatory}}
Properties(ids, schemas) ==
    [name \in {nodes[c].name : c \in Range(ids)} |->
        schemas[CHOOSE i \in DOMAIN ids : nodes[ids[i]].name = name]]

RECURSIVE to_json_schema(_, _)
to_json_schema(n, cf) ==
    LET kw == nodes[n].kw
        kids == BodyNodes(data_children(n), cf)
        schemas == Collect(kids, LAMBDA c : to_json_schema(c, cf))
        properties == Properties(kids, schemas[2])
        keys == {nodes[k].name : k \in Range(nodes[n].keys)}
        NoParameters(side) == data_children(find_child(n, Side(side))) = <<>>
        item == ObjectOf(properties, keys \cup Mandatory(kids))
    IN  IF schemas = Err THEN Err
        ELSE CASE kw = "container" -> Ok(ObjectOf(properties, Mandatory(kids)))
               [] kw = "leaf" -> type2schema(nodes[n].ty)
               [] kw = "leaf-list" ->
                    Then(type2schema(nodes[n].ty), LAMBDA s : Ok(ArrayOf(s, Nat, nodes[n].config = TRUE)))
               [] kw = "list" ->
                    Ok(IF cf \in {"Fetch", "Ipatch"} THEN OneOf(<<ArrayOf(item, Nat, FALSE), item>>)
                       ELSE ArrayOf(item, Nat, FALSE))
               [] kw \in {"anydata", "anyxml"} -> Ok(AnyValue)
               [] kw \in {"input", "output"} ->
                    Ok(IF data_children(n) = <<>> THEN OfType("Null")
                       ELSE ObjectOf(properties, Mandatory(data_children(n))))
               [] kw \in {"action", "rpc"} ->
                    Ok(IF NoParameters("input") /\ NoParameters("output") THEN OfType("Null")
                       ELSE OneOf(<<OfType("Null"), ObjectOf(properties, {})>>))
               [] OTHER -> Err

to_json_schema_for_catalog(cf) ==
    LET kids == BodyNodes(spliced(roots), cf)
    IN  Then(Collect(kids, LAMBDA c : to_json_schema(c, cf)),
             LAMBDA schemas : Ok(ObjectOf(Properties(kids, schemas), Mandatory(kids))))

-----------------------------------------------------------------------------
(* What a JSON Schema validator accepts.                                   *)

Within(n, bounds) ==
    bounds = <<>> \/ \E b \in Range(bounds) : (b[1] = None \/ n >= b[1]) /\ (b[2] = None \/ n <= b[2])

Length(t) == IF t[1] = "base64" THEN Len(t[2]) ELSE Chars(t)

RECURSIVE Validates(_, _)
Validates(s, v) ==
    CASE s[1] = "any" -> TRUE
      [] s[1] = "type" -> v[1] = s[2]
      [] s[1] = "integer" -> v[1] = "Number" /\ Within(v[2], s[2])
      [] s[1] = "string" -> v[1] = "String" /\ Within(Length(v[2]), s[2]) /\ ~first_failed_pattern(v[2], s[3])
      [] s[1] = "enum" -> v[1] = "String" /\ v[2] \in s[2]
      [] s[1] = "words" -> v[1] = "String" /\ Range(BitNames(v)[2]) \subseteq s[2]
      [] s[1] = "array" -> /\ v[1] = "Array" /\ Len(v[2]) \in s[3]
                           /\ \A i \in DOMAIN v[2] : Validates(s[2], v[2][i])
                           /\ s[4] => \A i, j \in DOMAIN v[2] : v[2][i] = v[2][j] => i = j
      [] s[1] = "object" -> /\ v[1] = "Object"
                            /\ \A e \in Range(v[2]) : e[1] \in DOMAIN s[2] /\ Validates(s[2][e[1]], e[2])
                            /\ s[3] \subseteq {e[1] : e \in Range(v[2])}
      [] s[1] = "anyOf" -> \E m \in Range(s[2]) : Validates(m, v)
      [] s[1] = "oneOf" -> \E i \in DOMAIN s[2] :
                             Validates(s[2][i], v) /\ \A j \in DOMAIN s[2] \ {i} : ~Validates(s[2][j], v)

-----------------------------------------------------------------------------
(* Correctness.                                                            *)

\* The rpcs of a tree are not part of any datastore.
NoRpcs(tree) == \A e \in Range(tree[2]) : nodes[root_data_node_by_name(e[1])].kw # "rpc"

\* What fercc prints of an answer satisfies the JSON Schema that fercc prints:
\* of the datastore, of a fetched node, or of an rpc.
AnswersValidate ==
    phase = "decoded" /\ ~continue /\ back # Err =>
        CASE request.cf = "Yang" ->
               NoRpcs(back[2]) => LET s == to_json_schema_for_catalog("Yang")
                                  IN  s # Err /\ Validates(s[2], back[2])
          [] request.cf \in {"Fetch", "Post"} ->
               \A e \in Range(back[2][2]) : e[1] = "Object" =>
                  LET n == resolve_iid(e[2][1][1][2])[2].node
                      s == to_json_schema(n, request.cf)
                  IN  \/ e[2][1][2] = JNull
                      \/ request.cf = "Post" /\ nodes[n].kw # "rpc"
                      \/ s # Err /\ Validates(s[2], e[2][1][2])
          [] OTHER -> TRUE
=============================================================================
