----------------------------- MODULE YangTypes -----------------------------
(***************************************************************************)
(* A YANG schema as the codec sees it (yang/src/schema.rs), and the codec  *)
(* of leaf values (type_to_cbor, type_to_json of yang/src/codec.rs).       *)
(*                                                                         *)
(* JSON and CBOR values are tuples tagged with their variant.  A string is *)
(* a tuple that says what it can be read as: a word, the decimal digits of *)
(* a number, module:name, a list of words, base64 characters (indices, as  *)
(* in module Base64), or the path of an instance.  Integers are scaled down: BITS32 and BITS64 are 32 and 64 *)
(* in the code.  Errors carry no text.  decimal64 is left out: its         *)
(* decoding is double-precision arithmetic.                                *)
(***************************************************************************)
EXTENDS YangBase, Base64

CONSTANTS
    nodes,       \* Schema::nodes: NodeId -> Node
    roots,       \* root_nodes of all modules
    identities,  \* Schema::identities: sequence of [module, name, sid]
    BITS32, BITS64

Word(w) == <<"word", w>>
Num(n) == <<"num", n>>
Qualified(module, name) == <<"qualified", module, name>>
Words(ws) == IF Len(ws) = 1 THEN Word(ws[1]) ELSE <<"words", ws>>
Base64Of(bytes) == IF bytes = <<>> THEN Words(<<>>) ELSE <<"base64", base64_encode(bytes)>>
Path(segments) == <<"path", segments>>

JNull == <<"Null">>
JBool(b) == <<"Bool", b>>
JNumber(n) == <<"Number", n>>
JString(t) == <<"String", t>>
JArray(items) == <<"Array", items>>
JObject(entries) == <<"Object", entries>> \* <<key, value>> pairs in order

CNull == <<"Null">>
CBool(b) == <<"Bool", b>>
CInteger(n) == <<"Integer", n>>
CText(t) == <<"Text", t>>
CBytes(b) == <<"Bytes", b>>
CArray(items) == <<"Array", items>>
CMap(entries) == <<"Map", entries>>
CTag(t, inner) == <<"Tag", t, inner>>

AsI64(n) == ((n + 2 ^ (BITS64 - 1)) % 2 ^ BITS64) - 2 ^ (BITS64 - 1)
AsU64(n) == n % 2 ^ BITS64
I64 == -(2 ^ (BITS64 - 1)) .. 2 ^ (BITS64 - 1) - 1
U64 == 0 .. 2 ^ BITS64 - 1

-----------------------------------------------------------------------------
(* The schema.                                                             *)

\* Data nodes of a list of nodes: choices and cases are replaced by what they
\* hold.
RECURSIVE spliced(_)
spliced(ids) ==
    FlattenSeq([i \in DOMAIN ids |->
        IF nodes[ids[i]].kw \in {"choice", "case"} THEN spliced(nodes[ids[i]].children)
        ELSE <<ids[i]>>])

data_children(n) == spliced(nodes[n].children)

local_name(n) == nodes[n].name[3]
find_child(n, name) == Find(nodes[n].children, LAMBDA c : nodes[c].name = name)
find_data_child(n, name) == Find(data_children(n), LAMBDA c : nodes[c].name = name)
root_data_node_by_name(name) == Find(spliced(roots), LAMBDA c : nodes[c].name = name)

node_by_sid(sid) ==
    LET hits == {n \in DOMAIN nodes : nodes[n].sid = sid}
    IN  IF hits = {} THEN None ELSE CHOOSE n \in hits : TRUE

Int32Types == {"Int8", "Int16", "Int32", "Uint8", "Uint16", "Uint32"}
Int64Types == {"Int64", "Uint64"}

RECURSIVE resolved_type(_)
resolved_type(ty) ==
    IF ty.builtin = "Leafref" /\ ty.leafref_target # None
       /\ nodes[ty.leafref_target].ty # None
    THEN resolved_type(nodes[ty.leafref_target].ty) ELSE ty

-----------------------------------------------------------------------------
(* Scalars.                                                                *)

range_bound_i64(b) == IF b \in I64 THEN b ELSE IF b > 0 THEN 2 ^ (BITS64 - 1) - 1
                                                ELSE -(2 ^ (BITS64 - 1))

in_ranges(n, ranges) ==
    \/ ranges = <<>>
    \/ \E i \in DOMAIN ranges : /\ n >= range_bound_i64(ranges[i][1])
                                /\ n <= range_bound_i64(ranges[i][2])

\* A pattern is the set of strings its regular expression matches.
first_failed_pattern(t, patterns) ==
    \E i \in DOMAIN patterns : (t \in patterns[i].matches) = patterns[i].invert_match

\* The number of characters of a string; only words are sent where it counts.
Chars(t) == IF t[1] = "word" THEN Len(t[2]) ELSE 0

B64_ALPHABET == "ABCDEFGHIJKLMNOPQRSTUVWXYZabcdefghijklmnopqrstuvwxyz0123456789+/"

\* A string as base64_decode sees it.  The colon in a qualified name or in a
\* path is outside the alphabet.
Base64Chars(t) ==
    LET Index(c) == LET at == {k \in 1 .. 64 : SubSeq(B64_ALPHABET, k, k) = c}
                    IN  IF at = {} THEN SPACE + 1 ELSE (CHOOSE k \in at : TRUE) - 1
        Letters(w) == [i \in 1 .. Len(w) |-> Index(SubSeq(w, i, i))]
    IN  CASE t[1] = "base64" -> t[2]
          [] t[1] = "word" -> Letters(t[2])
          [] t[1] = "words" -> FlattenSeq([i \in DOMAIN t[2] |-> Append(Letters(t[2][i]), SPACE)])
          [] t[1] = "num" -> Letters(ToString(t[2]))
          [] OTHER -> <<SPACE + 1>>

\* The names in the value of a bits leaf.
BitNames(value) ==
    CASE value[1] = "String" /\ value[2][1] = "word" -> Ok(<<value[2][2]>>)
      [] value[1] = "String" /\ value[2][1] = "words" -> Ok(value[2][2])
      [] value[1] = "String" -> Ok(<<"not a name">>)
      [] value[1] = "Array" ->
           LET names == SelectSeq(value[2], LAMBDA v : v[1] = "String")
           IN  Ok([i \in DOMAIN names |-> names[i][2][2]])
      [] OTHER -> Err

encode_enum(ty, value, in_union) ==
    LET e == Find(ty.enums, LAMBDA x : value = JString(Word(x.name)))
    IN  IF e = None THEN Err
        ELSE Ok(IF in_union THEN CTag(44, CText(value[2])) ELSE CInteger(e.value))

decode_enum(ty, value, in_union) ==
    IF in_union /\ value[1] = "Tag" /\ value[2] = 44
    THEN IF value[3][1] = "Text" THEN Ok(JString(value[3][2])) ELSE Err
    ELSE IF value[1] # "Integer" THEN Err
    ELSE LET e == Find(ty.enums, LAMBDA x : x.value = value[2])
         IN  Ok(IF e = None THEN JNumber(AsI64(value[2])) ELSE JString(Word(e.name)))

\* Mutant: a gap is counted from the start of the data.
bits_bytes_to_spans_Total(bytes) ==
    LET Step(acc, b) ==
            IF b = 0 THEN [acc EXCEPT !.gap = @ + 1, !.open = FALSE]
            ELSE IF acc.open
            THEN [acc EXCEPT !.out[Len(acc.out)] = CBytes(Append(@[2], b))]
            ELSE [out |-> acc.out \o (IF acc.gap > 0 THEN <<CInteger(acc.gap)>> ELSE <<>>)
                                  \o <<CBytes(<<b>>)>>,
                  gap |-> acc.gap, open |-> TRUE]
    IN  FoldLeft(Step, [out |-> <<>>, gap |-> 0, open |-> FALSE], bytes).out

\* Spans of bytes that are not zero, with the length of each gap before them.
bits_bytes_to_spans(bytes) ==
    LET Step(acc, b) ==
            IF b = 0 THEN [acc EXCEPT !.gap = @ + 1, !.open = FALSE]
            ELSE IF acc.open
            THEN [acc EXCEPT !.out[Len(acc.out)] = CBytes(Append(@[2], b))]
            ELSE [out |-> acc.out \o (IF acc.gap > 0 THEN <<CInteger(acc.gap)>> ELSE <<>>)
                                  \o <<CBytes(<<b>>)>>,
                  gap |-> 0, open |-> TRUE]
    IN  FoldLeft(Step, [out |-> <<>>, gap |-> 0, open |-> FALSE], bytes).out

\* The bytes in which the given bits are set.
BitBytes(positions) ==
    LET last == CHOOSE p \in positions : \A q \in positions : q <= p
        Bit(i, k) == IF 8 * i + k \in positions THEN 2 ^ k ELSE 0
    IN  [i \in 1 .. (last \div 8) + 1 |->
            Bit(i - 1, 0) + Bit(i - 1, 1) + Bit(i - 1, 2) + Bit(i - 1, 3)
            + Bit(i - 1, 4) + Bit(i - 1, 5) + Bit(i - 1, 6) + Bit(i - 1, 7)]

encode_bits(ty, value, in_union) ==
    LET names == BitNames(value)
        Bit(name) == Find(ty.bits, LAMBDA b : b.name = name)
        positions == {Bit(names[2][i]).position : i \in DOMAIN names[2]}
        spans == bits_bytes_to_spans(BitBytes(positions))
    IN  IF names = Err THEN Err
        ELSE IF in_union THEN Ok(CTag(43, CText(Words(names[2]))))
        ELSE IF \E i \in DOMAIN names[2] : Bit(names[2][i]) = None THEN Err
        ELSE IF names[2] = <<>> THEN Ok(CArray(<<>>))
        ELSE Ok(IF Len(spans) = 1 THEN spans[1] ELSE CArray(spans))

decode_bits(ty, value, in_union) ==
    LET spans == IF value[1] = "Bytes" THEN <<value>> ELSE value[2]
        BitsOf(b) == SelectSeq(<<0, 1, 2, 3, 4, 5, 6, 7>>, LAMBDA k : (b \div 2 ^ k) % 2 = 1)
        Positions(bytes, offset) ==
            FlattenSeq([i \in DOMAIN bytes |->
                [k \in DOMAIN BitsOf(bytes[i]) |->
                    (offset + i - 1) * 8 + BitsOf(bytes[i])[k]]])
        Step(acc, item) ==
            IF item[1] = "Integer" THEN [acc EXCEPT !.offset = @ + item[2]]
            ELSE [offset |-> acc.offset + Len(item[2]),
                  positions |-> acc.positions \o Positions(item[2], acc.offset)]
        positions == FoldLeft(Step, [offset |-> 0, positions |-> <<>>], spans).positions
        Bit(p) == Find(ty.bits, LAMBDA b : b.position = p)
        known == SelectSeq(positions, LAMBDA p : Bit(p) # None)
    IN  IF in_union /\ value[1] = "Tag" /\ value[2] = 43
        THEN IF value[3][1] = "Text" THEN Ok(JString(value[3][2])) ELSE Err
        ELSE IF value[1] \notin {"Bytes", "Array"}
                \/ \E i \in DOMAIN spans : spans[i][1] \notin {"Bytes", "Integer"} THEN Err
        ELSE Ok(JString(Words([i \in DOMAIN known |-> Bit(known[i]).name])))

\* The identity of type ty that a string names; a name without a module is one
\* of the module that declared the type.
IdentityNamed(ty, t) ==
    Find(identities, LAMBDA x :
        /\ x.id \in ty.identity_values
        /\ \/ t = Qualified(x.module, x.name)
           \/ t = Word(x.name) /\ x.module = ty.source_module)

encode_identityref(ty, value, in_union) ==
    IF value[1] # "String" \/ ty.identity_values = None THEN Err
    ELSE LET x == IdentityNamed(ty, value[2])
         IN  IF x = None THEN Err
             ELSE IF x.sid = None THEN Err
             ELSE Ok(IF in_union THEN CTag(45, CInteger(x.sid)) ELSE CInteger(x.sid))

decode_identityref(value, in_union) ==
    LET tagged == value[1] = "Tag" /\ value[2] = 45
        sid == IF in_union THEN value[3] ELSE value
        x == Find(identities, LAMBDA i : i.sid = sid[2])
    IN  IF in_union /\ ~tagged THEN Err
        ELSE IF sid[1] # "Integer" THEN Err
        ELSE IF x = None THEN Err
        ELSE Ok(JString(Qualified(x.module, x.name)))

-----------------------------------------------------------------------------
(* Unions.                                                                 *)

\* In which of its passes pick_union_member_for_json takes member m; 0: never.
JsonPass(m, value) ==
    LET ty == resolved_type(m)
        string == value[1] = "String"
        names == BitNames(value)
    IN  CASE ty.builtin = "Identityref" ->
               IF string /\ ty.identity_values # None
                  /\ IdentityNamed(ty, value[2]) # None THEN 1 ELSE 0
          [] ty.builtin = "Enumeration" ->
               IF \E i \in DOMAIN ty.enums : value = JString(Word(ty.enums[i].name)) THEN 2 ELSE 0
          [] ty.builtin = "Bits" ->
               IF names # Err /\ names[2] # <<>>
                  /\ \A i \in DOMAIN names[2] :
                       \E k \in DOMAIN ty.bits : ty.bits[k].name = names[2][i] THEN 3 ELSE 0
          [] ty.builtin \in Int64Types ->
               IF string /\ value[2][1] = "num"
                  /\ value[2][2] \in (IF ty.builtin = "Int64" THEN I64 ELSE U64) THEN 5 ELSE 0
          [] ty.builtin = "Boolean" -> IF value[1] = "Bool" THEN 6 ELSE 0
          [] ty.builtin \in Int32Types -> IF value[1] = "Number" THEN 6 ELSE 0
          [] ty.builtin = "Empty" -> IF value = JArray(<<JNull>>) THEN 6 ELSE 0
          [] ty.builtin = "String" -> IF string THEN 7 ELSE 0
          [] ty.builtin \in {"Binary", "InstanceIdentifier"} -> IF string THEN 8 ELSE 0
          [] OTHER -> 0

pick_union_member_for_json(ty, value) ==
    Find(ty.union_members, LAMBDA m :
        /\ JsonPass(m, value) > 0
        /\ \A i \in DOMAIN ty.union_members :
             LET other == JsonPass(ty.union_members[i], value)
             IN  other > 0 => JsonPass(m, value) <= other)

TagBuiltin(value) ==
    IF value[1] # "Tag" THEN None
    ELSE CASE value[2] = 43 -> "Bits" [] value[2] = 44 -> "Enumeration"
           [] value[2] = 45 -> "Identityref" [] OTHER -> None

pick_union_member_for_cbor(ty, value) ==
    LET Member(kinds) == Find(ty.union_members, LAMBDA m : resolved_type(m).builtin \in kinds)
        fits_32 == value[2] \in -(2 ^ (BITS32 - 1)) .. 2 ^ BITS32 - 1
    IN  CASE value[1] = "Tag" -> IF TagBuiltin(value) = None THEN None
                                 ELSE Member({TagBuiltin(value)})
          [] value[1] = "Integer" ->
               IF ~fits_32 /\ Member(Int64Types) # None THEN Member(Int64Types)
               ELSE Member(Int32Types \cup Int64Types)
          [] value[1] = "Text" -> Member({"String", "InstanceIdentifier"})
          [] value[1] = "Bytes" -> Member({"Binary"})
          [] value[1] = "Bool" -> Member({"Boolean"})
          [] value[1] = "Null" -> Member({"Empty"})
          [] OTHER -> None

-----------------------------------------------------------------------------
(* json_to_cbor_generic and cbor_scalar_passthrough_to_json: what is done  *)
(* without a type.                                                         *)

RECURSIVE json_to_cbor_generic(_)
json_to_cbor_generic(value) ==
    CASE value[1] = "Null" -> CNull
      [] value[1] = "Bool" -> CBool(value[2])
      [] value[1] = "Number" -> CInteger(value[2])
      [] value[1] = "String" -> CText(value[2])
      [] value[1] = "Array" ->
           CArray([i \in DOMAIN value[2] |-> json_to_cbor_generic(value[2][i])])
      [] value[1] = "Object" ->
           CMap([i \in DOMAIN value[2] |->
                   <<CText(value[2][i][1]), json_to_cbor_generic(value[2][i][2])>>])

cbor_scalar_passthrough_to_json(value) ==
    CASE value[1] = "Text" -> Ok(JString(value[2]))
      [] value[1] = "Bool" -> Ok(JBool(value[2]))
      [] value[1] = "Integer" -> Ok(JNumber(AsI64(value[2])))
      [] value[1] = "Null" -> Ok(JNull)
      [] OTHER -> Err

\* Under --continue a failure is replaced by a fallback.
lenient(result, continue_on_error, fallback) ==
    IF result = Err /\ continue_on_error THEN Ok(fallback) ELSE result
=============================================================================
