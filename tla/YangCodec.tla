----------------------------- MODULE YangCodec -----------------------------
(***************************************************************************)
(* The SID-CBOR codec of yang/src/codec.rs: requests in JSON to CBOR items *)
(* keyed by SID and back.                                                  *)
(*                                                                         *)
(* A behaviour encodes one request and decodes what was encoded, as fercc  *)
(* conv does in the two directions.  The wire is the sequence of CBOR      *)
(* items; their bytes are module Cbor's.                                   *)
(***************************************************************************)
EXTENDS YangTypes

CONSTANT Requests \* set of [cf, body]

VARIABLES
    request,   \* [cf |-> content format, body |-> JSON]
    continue,  \* --continue
    wire,      \* result of encoding: Err or Ok(items)
    back,      \* result of decoding the wire
    phase      \* "request", "encoded", "decoded"

codecVars == <<request, continue, wire, back, phase>>

is_sequence(cf) == cf \in {"Fetch", "Ipatch", "Post"}

-----------------------------------------------------------------------------
(* Leaf values of every type.                                              *)

RECURSIVE type_to_cbor_checked(_, _, _), resolve_iid(_), type_to_json(_, _, _), decode_iid(_)

type_to_cbor_checked(ty, value, in_union) ==
    LET string == value[1] = "String"
        number == string /\ value[2][1] = "num"
        bytes == base64_decode(Base64Chars(value[2]))
        target == nodes[ty.leafref_target].ty
    IN  CASE ty.builtin \in Int32Types ->
               IF value[1] = "Number" /\ in_ranges(AsI64(value[2]), ty.ranges)
               THEN Ok(CInteger(AsI64(value[2]))) ELSE Err
          [] ty.builtin \in Int64Types ->
               IF number /\ value[2][2] \in (IF ty.builtin = "Int64" THEN I64 ELSE U64)
               THEN Ok(CInteger(value[2][2])) ELSE Err
          [] ty.builtin = "Boolean" -> IF value[1] = "Bool" THEN Ok(CBool(value[2])) ELSE Err
          [] ty.builtin = "String" ->
               IF string /\ in_ranges(Chars(value[2]), ty.ranges)
                  /\ ~first_failed_pattern(value[2], ty.patterns)
               THEN Ok(CText(value[2])) ELSE Err
          [] ty.builtin = "Binary" ->
               IF ~string THEN Err
               ELSE IF bytes # NotBase64 /\ in_ranges(Len(bytes), ty.ranges) THEN Ok(CBytes(bytes)) ELSE Err
          [] ty.builtin = "Empty" -> IF value = JArray(<<JNull>>) THEN Ok(CNull) ELSE Err
          [] ty.builtin = "Enumeration" -> encode_enum(ty, value, in_union)
          [] ty.builtin = "Bits" -> encode_bits(ty, value, in_union)
          [] ty.builtin = "Identityref" -> encode_identityref(ty, value, in_union)
          [] ty.builtin = "InstanceIdentifier" ->
               IF ~string \/ value[2][1] # "path" THEN Err
               ELSE Then(resolve_iid(value[2][2]), LAMBDA r : Ok(r.cbor))
          [] ty.builtin = "Leafref" ->
               IF ty.leafref_target = None THEN Ok(json_to_cbor_generic(value))
               ELSE IF target = None THEN Ok(json_to_cbor_generic(value))
               ELSE type_to_cbor_checked(target, value, in_union)
          [] ty.builtin = "Union" ->
               Then(OkOr(pick_union_member_for_json(ty, value)), LAMBDA m : type_to_cbor_checked(m, value, TRUE))

\* Mutant: under --continue nothing is checked.
type_to_cbor_Generic(ty, value, in_union, continue_on_error) ==
    IF continue_on_error THEN Ok(json_to_cbor_generic(value))
    ELSE type_to_cbor_checked(ty, value, in_union)

type_to_cbor(ty, value, in_union, continue_on_error) ==
    lenient(type_to_cbor_checked(ty, value, in_union), continue_on_error,
            json_to_cbor_generic(value))

type_to_json(ty, value, in_union) ==
    LET integer == value[1] = "Integer"
        target == nodes[ty.leafref_target].ty
    IN  CASE ty.builtin \in Int32Types -> IF integer THEN Ok(JNumber(AsI64(value[2]))) ELSE Err
          [] ty.builtin = "Int64" -> IF integer THEN Ok(JString(Num(AsI64(value[2])))) ELSE Err
          [] ty.builtin = "Uint64" -> IF integer THEN Ok(JString(Num(AsU64(value[2])))) ELSE Err
          [] ty.builtin = "Boolean" -> IF value[1] = "Bool" THEN Ok(JBool(value[2])) ELSE Err
          [] ty.builtin = "String" -> IF value[1] = "Text" THEN Ok(JString(value[2])) ELSE Err
          [] ty.builtin = "Binary" ->
               IF value[1] = "Bytes" THEN Ok(JString(Base64Of(value[2]))) ELSE Err
          [] ty.builtin = "Empty" -> Ok(JArray(<<JNull>>))
          [] ty.builtin = "Enumeration" -> decode_enum(ty, value, in_union)
          [] ty.builtin = "Bits" -> decode_bits(ty, value, in_union)
          [] ty.builtin = "Identityref" -> decode_identityref(value, in_union)
          [] ty.builtin = "InstanceIdentifier" ->
               Then(decode_iid(value), LAMBDA r : Ok(JString(Path(r.path))))
          [] ty.builtin = "Leafref" ->
               IF ty.leafref_target = None THEN cbor_scalar_passthrough_to_json(value)
               ELSE IF target = None THEN cbor_scalar_passthrough_to_json(value)
               ELSE type_to_json(target, value, in_union)
          [] ty.builtin = "Union" ->
               Then(OkOr(pick_union_member_for_cbor(ty, value)), LAMBDA m : type_to_json(m, value, TRUE))

-----------------------------------------------------------------------------
(* Instance identifiers.  A path is a sequence of segments [name, keys],   *)
(* keys being the <<local name, text>> pairs of its selectors.             *)

convert_iid_key_value(ty, raw) ==
    LET builtin == resolved_type(ty).builtin
        signed == builtin \in {"Int8", "Int16", "Int32"}
    IN  CASE builtin \in Int32Types ->
               IF raw[1] = "num" /\ raw[2] \in (IF signed THEN I64 ELSE U64)
               THEN Ok(JNumber(raw[2])) ELSE Err
          [] builtin = "Boolean" ->
               IF raw \in {Word("true"), Word("false")} THEN Ok(JBool(raw = Word("true"))) ELSE Err
          [] builtin = "Empty" /\ raw = Word("[null]") -> Ok(JArray(<<JNull>>))
          [] OTHER -> Ok(JString(raw))

\* Mutant: in the order they are written.
SelectedKeys_Written(child, seg) ==
    LET KeyNamed(name) == Find(nodes[child].keys, LAMBDA k : local_name(k) = name)
    IN  IF \E i \in DOMAIN seg.keys : KeyNamed(seg.keys[i][1]) = None THEN Err
        ELSE Collect(seg.keys, LAMBDA s :
               LET ty == nodes[KeyNamed(s[1])].ty
               IN  Then(convert_iid_key_value(ty, s[2]), LAMBDA v : type_to_cbor(ty, v, FALSE, FALSE)))

\* The CBOR values of the keys of list child that a segment selects, in the
\* order of the key statement.
SelectedKeys(child, seg) ==
    LET Selector(k) == Find(seg.keys, LAMBDA s : s[1] = local_name(k))
        given == SelectSeq(nodes[child].keys, LAMBDA k : Selector(k) # None)
    IN  IF \E s \in Range(seg.keys) : \A k \in Range(nodes[child].keys) : local_name(k) # s[1]
        THEN Err
        ELSE Collect(given, LAMBDA k :
               Then(convert_iid_key_value(nodes[k].ty, Selector(k)[2]),
                    LAMBDA v : type_to_cbor(nodes[k].ty, v, FALSE, FALSE)))

IidCbor(sid, keys) == IF keys = <<>> THEN CInteger(sid) ELSE CArray(<<CInteger(sid)>> \o keys)

resolve_iid(path) ==
    LET Child(at, seg) == IF at.node = None THEN root_data_node_by_name(seg.name)
                          ELSE find_data_child(at.node, seg.name)
        Down(at, seg) ==
            Then(OkOr(Child(at, seg)), LAMBDA child :
              IF nodes[child].sid = None THEN Err
              ELSE Then(SelectedKeys(child, seg), LAMBDA keys :
                     Ok([node |-> child, keys |-> at.keys \o keys])))
    IN  IF path = <<>> THEN Err
        ELSE Then(Each([node |-> None, keys |-> <<>>], path, Down), LAMBDA found :
               Ok([node |-> found.node, cbor |-> IidCbor(nodes[found.node].sid, found.keys)]))

split_iid_cbor(value) ==
    IF value[1] = "Integer" THEN Ok([sid |-> AsI64(value[2]), keys |-> <<>>])
    ELSE IF value[1] # "Array" THEN Err
    ELSE IF value[2] = <<>> THEN Err
    ELSE IF value[2][1][1] # "Integer" THEN Err
    ELSE Ok([sid |-> AsI64(value[2][1][2]), keys |-> Tail(value[2])])

\* The text of a decoded key value.
KeyText(json) ==
    CASE json[1] = "String" -> json[2]
      [] json[1] = "Number" -> Num(json[2])
      [] json[1] = "Bool" -> Word(IF json[2] THEN "true" ELSE "false")
      [] json = JArray(<<JNull>>) -> Word("[null]")
      [] OTHER -> Word("null")

RECURSIVE Chain(_)
Chain(n) == IF nodes[n].parent = None THEN <<n>> ELSE Append(Chain(nodes[n].parent), n)

\* The path of a node; each list above it takes its keys from the front.
node_path_string(n, keys) ==
    LET Down(at, nd) ==
            LET own == nodes[nd].keys
                taken == IF Len(at.keys) < Len(own) THEN Len(at.keys) ELSE Len(own)
            IN  Then(Collect([i \in 1 .. taken |-> i], LAMBDA i :
                       Then(type_to_json(nodes[own[i]].ty, at.keys[i], FALSE), LAMBDA v :
                         Ok(<<local_name(own[i]), KeyText(v)>>))),
                     LAMBDA selectors :
                       Ok([path |-> Append(at.path, [name |-> nodes[nd].name, keys |-> selectors]),
                           keys |-> SubSeq(at.keys, taken + 1, Len(at.keys))]))
    IN  Then(Each([path |-> <<>>, keys |-> keys], Chain(n), Down), LAMBDA found : Ok(found.path))

decode_iid(value) ==
    Then(split_iid_cbor(value), LAMBDA iid :
      Then(OkOr(node_by_sid(iid.sid)), LAMBDA n :
        Then(node_path_string(n, iid.keys), LAMBDA path : Ok([node |-> n, path |-> path]))))

-----------------------------------------------------------------------------
(* Bodies.                                                                 *)

effective_delta_base(n) ==
    LET parent == nodes[n].parent
        implicit == /\ nodes[n].kw \in {"input", "output"} /\ parent # None
                    /\ nodes[parent].kw \in {"rpc", "action"} /\ nodes[parent].sid # None
    IN  IF implicit THEN nodes[parent].sid
        ELSE IF nodes[n].sid = None THEN 0 ELSE nodes[n].sid

encode_leaf_value(n, value, continue_on_error) ==
    IF nodes[n].ty = None THEN Err ELSE type_to_cbor(nodes[n].ty, value, FALSE, continue_on_error)

decode_leaf_value(n, value) ==
    IF nodes[n].ty = None THEN Err ELSE type_to_json(nodes[n].ty, value, FALSE)

RECURSIVE encode_node_value(_, _, _, _), decode_node_value(_, _, _)

\* The fields of an object, keyed by SID minus that of the scope, which is None
\* for a whole tree.
EncodeFields(scope, obj, cf, continue_on_error) ==
    LET base == IF scope = None THEN 0 ELSE effective_delta_base(scope)
        Child(name) == IF scope = None THEN root_data_node_by_name(name) ELSE find_data_child(scope, name)
        Known(c) == IF c = None THEN FALSE ELSE nodes[c].sid # None
        Field(c, value) ==
            IF ~Known(c) THEN lenient(Err, continue_on_error, None)
            ELSE Then(encode_node_value(c, value, cf, continue_on_error), LAMBDA v :
                   Ok(<<CInteger(nodes[c].sid - base), v>>))
    IN  Then(Collect(obj, LAMBDA e : Field(Child(e[1]), e[2])), LAMBDA fields :
          Ok(CMap(SelectSeq(fields, LAMBDA f : f # None))))

\* Children an object must have and has not.
Missing(scope, obj, cf) ==
    {c \in Range(data_children(scope)) :
        /\ ~(cf \in {"Ipatch", "Put"} /\ nodes[c].config = FALSE)
        /\ nodes[c].mandatory \/ \E k \in Range(nodes[scope].keys) : local_name(k) = local_name(c)
        /\ \A e \in Range(obj) : e[1] # nodes[c].name}

encode_body(scope, obj, cf, continue_on_error) ==
    Then(EncodeFields(scope, obj, cf, continue_on_error), LAMBDA fields :
      IF Missing(scope, obj, cf) # {} /\ ~continue_on_error THEN Err ELSE Ok(fields))

\* serde_json::Map::insert
Inserted(obj, key, value) ==
    IF \E i \in DOMAIN obj : obj[i][1] = key
    THEN [i \in DOMAIN obj |-> IF obj[i][1] = key THEN <<key, value>> ELSE obj[i]]
    ELSE Append(obj, <<key, value>>)

DecodeFields(value, base, cf) ==
    LET Field(obj, e) ==
            IF e[1][1] # "Integer" THEN Err
            ELSE Then(OkOr(node_by_sid(e[1][2] + base)), LAMBDA child :
                   Then(decode_node_value(child, e[2], cf), LAMBDA json :
                     Ok(Inserted(obj, nodes[child].name, json))))
    IN  IF value[1] # "Map" THEN Err
        ELSE Then(Each(<<>>, value[2], Field), LAMBDA obj : Ok(JObject(obj)))

decode_body(scope, value, cf) == DecodeFields(value, effective_delta_base(scope), cf)

Side(name) == Name("", name)
\* The side of an rpc an object is wrapped in, if it is.
WrappedIn(obj) ==
    IF Len(obj) = 1 /\ obj[1][1] \in {Side("input"), Side("output")} THEN obj[1][1] ELSE None

encode_node_value(n, value, cf, continue_on_error) ==
    LET kw == nodes[n].kw
        object == value[1] = "Object"
        Body(scope, v) == IF v[1] = "Object" THEN encode_body(scope, v[2], cf, continue_on_error) ELSE Err
        AllOf(F(_)) == IF value[1] = "Array" THEN Then(Collect(value[2], F), LAMBDA vs : Ok(CArray(vs))) ELSE Err
        side == WrappedIn(value[2])
        input == find_child(n, Side("input"))
    IN  CASE kw = "leaf" -> encode_leaf_value(n, value, continue_on_error)
          [] kw = "leaf-list" -> AllOf(LAMBDA v : encode_leaf_value(n, v, continue_on_error))
          [] kw \in {"container", "input", "output"} ->
               lenient(Body(n, value), continue_on_error, CMap(<<>>))
          \* The ? in the loop over the entries leaves the function, past lenient.
          [] kw = "list" /\ value[1] = "Array" -> AllOf(LAMBDA v : Body(n, v))
          [] kw = "list" ->
               lenient(IF object /\ is_sequence(cf) THEN Body(n, value) ELSE Err,
                       continue_on_error, CArray(<<>>))
          [] kw \in {"rpc", "action"} ->
               IF ~object THEN Err
               ELSE IF side # None
               THEN Then(OkOr(find_child(n, side)), LAMBDA c : Body(c, value[2][1][2]))
               ELSE Body(IF input = None THEN n ELSE input, value)
          [] OTHER -> Err

\* The side of rpc n that the first key of a map belongs to.
SideOf(n, value) ==
    LET sid == value[2][1][1][2] + (IF nodes[n].sid = None THEN 0 ELSE nodes[n].sid)
        Has(side) == /\ find_child(n, side) # None
                     /\ \E c \in Range(data_children(find_child(n, side))) : nodes[c].sid = sid
    IN  IF value[2][1][1][1] # "Integer" THEN None
        ELSE Find(<<Side("input"), Side("output")>>, Has)

decode_node_value(n, value, cf) ==
    LET kw == nodes[n].kw
        AllOf(F(_)) == IF value[1] = "Array" THEN Then(Collect(value[2], F), LAMBDA vs : Ok(JArray(vs))) ELSE Err
    IN  CASE kw = "leaf" -> decode_leaf_value(n, value)
          [] kw = "leaf-list" -> AllOf(LAMBDA v : decode_leaf_value(n, v))
          [] kw \in {"container", "input", "output"} -> decode_body(n, value, cf)
          [] kw = "list" ->
               IF is_sequence(cf) /\ value[1] # "Array" THEN decode_body(n, value, cf)
               ELSE AllOf(LAMBDA v : decode_body(n, v, cf))
          [] kw \in {"rpc", "action"} ->
               IF value[1] # "Map" THEN Err
               ELSE IF value[2] = <<>> THEN Ok(JObject(<<>>))
               ELSE Then(OkOr(SideOf(n, value)), LAMBDA side :
                      Then(decode_body(find_child(n, side), value, cf), LAMBDA json :
                        Ok(JObject(<< <<side, json>> >>))))
          [] OTHER -> Err

-----------------------------------------------------------------------------
(* Requests.                                                               *)

\* validate_instance_entry: an entry is an object of one path and its value.
SingleKey(entry) == entry[1] = "Object" /\ Len(entry[2]) = 1

json_seq_to_cbor(items, cf, continue_on_error) ==
    LET Entry(item) ==
            LET path == item[2][1][1] value == item[2][1][2]
            IN  Then(resolve_iid(path[2]), LAMBDA target :
                  Then(IF value = JNull THEN Ok(CNull)
                       ELSE encode_node_value(target.node, value, cf, continue_on_error), LAMBDA v :
                    Ok(CMap(<< <<target.cbor, v>> >>))))
        Bare(item) == Then(resolve_iid(item[2][2]), LAMBDA target : Ok(target.cbor))
    IN  Collect(items, LAMBDA item :
          IF cf = "Fetch" /\ item[1] = "String" THEN Bare(item)
          ELSE IF SingleKey(item) THEN Entry(item) ELSE Err)

cbor_seq_to_json(items, cf) ==
    LET Entry(item) ==
            LET iid == item[2][1][1] value == item[2][1][2]
            IN  Then(decode_iid(iid), LAMBDA target :
                  Then(IF value = CNull THEN Ok(JNull) ELSE decode_node_value(target.node, value, cf), LAMBDA v :
                    Ok(JObject(<< <<Path(target.path), v>> >>))))
        Bare(item) == Then(decode_iid(item), LAMBDA target : Ok(JString(Path(target.path))))
    IN  Collect(items, LAMBDA item :
          IF item[1] = "Map" /\ Len(item[2]) = 1 THEN Entry(item)
          ELSE IF cf = "Fetch" THEN Bare(item) ELSE Err)

encode_whole_tree(obj, cf, continue_on_error) ==
    EncodeFields(None, obj, cf, continue_on_error)

json_to_cbor(value, cf, continue_on_error) ==
    lenient(IF value[1] = "Object" THEN encode_whole_tree(value[2], cf, continue_on_error) ELSE Err,
            continue_on_error, CMap(<<>>))

decode_whole_tree(value, cf) == DecodeFields(value, 0, cf)

cbor_to_json(items, cf) ==
    IF items = <<>> THEN Ok(JObject(<<>>)) ELSE decode_whole_tree(items[1], cf)

Encode(r, continue_on_error) ==
    IF is_sequence(r.cf)
    THEN IF r.body[1] # "Array" THEN Err ELSE json_seq_to_cbor(r.body[2], r.cf, continue_on_error)
    ELSE Then(json_to_cbor(r.body, r.cf, continue_on_error), LAMBDA tree : Ok(<<tree>>))

Decode(items, cf) ==
    IF is_sequence(cf) THEN Then(cbor_seq_to_json(items, cf), LAMBDA list : Ok(JArray(list)))
    ELSE cbor_to_json(items, cf)

CodecInit ==
    /\ request \in Requests /\ continue \in BOOLEAN
    /\ wire = Err /\ back = Err /\ phase = "request"

EncodeRequest ==
    /\ phase = "request"
    /\ wire' = Encode(request, continue)
    /\ phase' = "encoded"
    /\ UNCHANGED <<request, continue, back>>

DecodeWire ==
    /\ phase = "encoded" /\ wire # Err
    /\ back' = Decode(wire[2], request.cf)
    /\ phase' = "decoded"
    /\ UNCHANGED <<request, continue, wire>>

CodecNext == EncodeRequest \/ DecodeWire

-----------------------------------------------------------------------------
(* Correctness.                                                            *)

\* Values of type ty that say the same: a bare and a qualified identity, bits
\* in any order, base64 with or without padding and white space, the selectors
\* of a path in any order, a number of a union as text or not, and nothing for
\* an empty leaf, as null is all that is sent.
RECURSIVE SameValue(_, _, _)
SameValue(ty, a, b) ==
    LET r == resolved_type(ty)
        Unordered(path) == [i \in DOMAIN path |-> <<path[i].name, Range(path[i].keys)>>]
        Digits(v) == SelectSeq(Base64Chars(v[2]), LAMBDA c : c \notin {PAD, SPACE})
    IN  \/ a = b
        \/ r.builtin = "Empty" /\ b = JNull
        \/ /\ r.builtin = "Identityref" /\ a[1] = "String" /\ b[1] = "String"
           /\ a[2][1] = "word" /\ b[2] = Qualified(r.source_module, a[2][2])
        \/ /\ r.builtin = "Binary" /\ a[1] = "String" /\ b[1] = "String" /\ Digits(a) = Digits(b)
        \/ /\ r.builtin = "Bits" /\ b[1] = "String" /\ BitNames(a) # Err
           /\ Range(BitNames(a)[2]) = Range(BitNames(b)[2])
        \/ /\ r.builtin = "InstanceIdentifier" /\ a[1] = "String" /\ b[1] = "String"
           /\ a[2][1] = "path" /\ b[2][1] = "path" /\ Unordered(a[2][2]) = Unordered(b[2][2])
        \/ /\ r.builtin = "Union"
           /\ \/ \E m \in Range(r.union_members) : SameValue(m, a, b)
              \/ a[1] = "String" /\ b[1] = "Number" /\ a[2] = Num(b[2])

\* The same for the value of any node.
RECURSIVE SameData(_, _, _)
SameData(n, a, b) ==
    LET kw == nodes[n].kw
        Pairs(Same(_, _)) == /\ a[1] = "Array" /\ b[1] = "Array" /\ Len(a[2]) = Len(b[2])
                             /\ \A i \in DOMAIN a[2] : Same(a[2][i], b[2][i])
        Fields(scope, x, y) ==
            /\ x[1] = "Object" /\ y[1] = "Object" /\ Len(x[2]) = Len(y[2])
            /\ \A i \in DOMAIN x[2] :
                 /\ x[2][i][1] = y[2][i][1] /\ find_data_child(scope, x[2][i][1]) # None
                 /\ SameData(find_data_child(scope, x[2][i][1]), x[2][i][2], y[2][i][2])
        Of(x) == IF WrappedIn(x[2]) # None THEN x[2][1][2] ELSE x
        side == IF WrappedIn(a[2]) = None THEN Side("input") ELSE WrappedIn(a[2])
    IN  CASE a = JNull -> b = JNull
          [] kw = "leaf" -> SameValue(nodes[n].ty, a, b)
          [] kw = "leaf-list" -> Pairs(LAMBDA x, y : SameValue(nodes[n].ty, x, y))
          [] kw = "container" -> Fields(n, a, b)
          [] kw = "list" -> Fields(n, a, b) \/ Pairs(LAMBDA x, y : Fields(n, x, y))
          [] kw = "rpc" -> Fields(find_child(n, side), Of(a), Of(b))
          [] OTHER -> FALSE

SameRequest(r, json) ==
    IF is_sequence(r.cf)
    THEN /\ Len(r.body[2]) = Len(json[2])
         /\ \A i \in DOMAIN json[2] :
              LET a == r.body[2][i] b == json[2][i]
                  Paths(x, y) == SameValue([builtin |-> "InstanceIdentifier"], JString(x), JString(y))
              IN  IF a[1] = "String" THEN b[1] = "String" /\ Paths(a[2], b[2])
                  ELSE /\ b[1] = "Object" /\ Len(b[2]) = 1 /\ Paths(a[2][1][1], b[2][1][1])
                       /\ SameData(resolve_iid(a[2][1][1][2])[2].node, a[2][1][2], b[2][1][2])
    ELSE /\ json[1] = "Object" /\ Len(json[2]) = Len(r.body[2])
         /\ \A i \in DOMAIN json[2] :
              LET n == root_data_node_by_name(r.body[2][i][1])
              IN  r.body[2][i][1] = json[2][i][1] /\ SameData(n, r.body[2][i][2], json[2][i][2])

\* What a strict encoding accepted, decoding understands, and reads as the
\* request that was written.
Understood ==
    phase = "decoded" /\ ~continue => back # Err /\ SameRequest(request, back[2])

\* Sending again what was decoded sends the same items: what fercc prints can
\* be edited and put back.
ReEncodes ==
    phase = "decoded" /\ ~continue /\ back # Err
        => Encode([cf |-> request.cf, body |-> back[2]], FALSE) = wire

\* --continue changes nothing of a request that is encoded without it.
ContinueIsConservative ==
    phase = "encoded" /\ continue => Encode(request, FALSE) \in {Err, wire}
=============================================================================
