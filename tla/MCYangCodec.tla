---------------------------- MODULE MCYangCodec ----------------------------
(***************************************************************************)
(* One schema with every kind of node and type, and the requests for it.   *)
(***************************************************************************)
EXTENDS YangJsonSchema

\* Requests to send besides the plain ones: "choice", paths of nodes inside a
\* choice; "u64", numbers above i64::MAX; "union", a union of two integer types;
\* "base64", text that ends inside a byte or has bits to spare.
\* Nodes that the schema has besides the plain ones: "dangling", a leafref
\* without a path; "event", a notification.
CONSTANT Cases

Type(builtin) ==
    [builtin |-> builtin,
     ranges |-> IF builtin \in {"String", "Binary", "Uint64"} THEN << <<0, MaxLength>> >> ELSE <<>>, enums |-> <<>>, bits |-> <<>>, patterns |-> <<>>,
     identity_values |-> None, source_module |-> "m", leafref_target |-> None,
     union_members |-> <<>>]

SmallInt == [Type("Int8") EXCEPT !.ranges = <<<<-2, 1>>, <<5, 6>>>>]
Key == [Type("Uint8") EXCEPT !.ranges = <<<<0, 15>>>>]
Mode == [Type("Enumeration") EXCEPT !.enums = <<[name |-> "on", value |-> 3],
                                                [name |-> "off", value |-> 1]>>]
Flags == [Type("Bits") EXCEPT !.bits = <<[name |-> "b0", position |-> 0],
            [name |-> "b7", position |-> 7], [name |-> "b8", position |-> 8],
            [name |-> "b25", position |-> 25], [name |-> "b49", position |-> 49]>>]
Ident == [Type("Identityref") EXCEPT !.identity_values = {1, 2}]
Short == [Type("String") EXCEPT !.ranges = <<<<1, 2>>>>,
            !.patterns = <<[matches |-> {Word("a"), Word("abc"), Words(<<>>)}, invert_match |-> FALSE],
                           [matches |-> {Word("b")}, invert_match |-> TRUE]>>]
Mixed == [Type("Union") EXCEPT !.union_members =
          <<Type("Binary"), Type("String"), Type("Uint64"), Flags, Mode, Ident,
            Type("Boolean"), Type("Empty")>>]
Wide == [Type("Union") EXCEPT !.union_members =
           <<[Type("Int32") EXCEPT !.ranges = <<<<-32, 31>>>>], Mode>>
           \o (IF "union" \in Cases THEN <<Type("Int64")>> ELSE <<>>)]
Blob == [Type("Binary") EXCEPT !.ranges = << <<0, 2>> >>]
Target == [Type("Leafref") EXCEPT !.leafref_target = 2]
Dangling == Type("Leafref")

MCIdentities ==
    LET Identity(module, name, sid) == [id |-> sid, module |-> module, name |-> name, sid |-> sid]
    IN  <<Identity("m", "one", 1), Identity("q", "two", 2), Identity("q", "one", 3)>>

\* kw, module (if it is part of the name), local name, parent, sid, type
Table == <<
    <<"container", "m", "c", None, 50, None>>,              \* 1
    <<"leaf", "", "n", 1, 51, SmallInt>>,                   \* 2
    <<"leaf-list", "", "ll", 1, 52, Mode>>,                 \* 3
    <<"list", "", "l", 1, 53, None>>,                       \* 4: keys 5, 6
    <<"leaf", "", "k", 4, 54, Key>>,                        \* 5
    <<"leaf", "", "e", 4, 55, Mode>>,                       \* 6
    <<"leaf", "", "v", 4, 56, Short>>,                      \* 7: mandatory
    <<"leaf", "", "s", 4, 57, Type("Boolean")>>,            \* 8: mandatory, config false
    <<"list", "", "in", 4, 58, None>>,                      \* 9: key 10
    <<"leaf", "", "b", 9, 59, Type("Boolean")>>,            \* 10
    <<"leaf", "", "id", 9, 60, Ident>>,                     \* 11
    <<"choice", "", "ch", 1, None, None>>,                  \* 12
    <<"case", "", "ca", 12, None, None>>,                   \* 13
    <<"leaf", "", "u", 13, 61, Mixed>>,                       \* 14
    <<"leaf", "", "f", 1, 40, Flags>>,                      \* 15
    <<"leaf", "q", "aug", 1, 62, Target>>,                  \* 16
    <<"rpc", "m", "r", None, 70, None>>,                    \* 17
    <<"input", "", "input", 17, 71, None>>,                 \* 18
    <<"leaf", "", "x", 18, 72, Blob>>,                      \* 19: mandatory
    <<"output", "", "output", 17, 73, None>>,               \* 20
    <<"leaf", "", "y", 20, 74, Type("Empty")>>,             \* 21
    <<"leaf", "", "nosid", 1, None, Type("Boolean")>>,      \* 22
    <<"leaf", "", "at", 1, 63, Type("InstanceIdentifier")>>,\* 23
    <<"leaf", "", "big", 1, 64, Type("Uint64")>>,           \* 24
    <<"leaf", "", "w", 1, 65, Wide>>,                       \* 25
    <<"container", "m", "err", None, 80, None>>,            \* 26: yang-data
    <<"leaf", "", "tag", 26, 81, Mode>> >>                  \* 27
    \o (IF "dangling" \in Cases THEN << <<"leaf", "", "d", 1, 66, Dangling>> >> ELSE <<>>)
    \o (IF "event" \in Cases THEN << <<"notification", "m", "ev", None, 67, None>> >> ELSE <<>>)

ChildrenOf(p) == SelectSeq([c \in DOMAIN Table |-> c], LAMBDA c : Table[c][4] = p)

MCNodes ==
    LET Keys(n) == CASE n = 4 -> <<5, 6>> [] n = 9 -> <<10>> [] OTHER -> <<>>
    IN  [n \in DOMAIN Table |->
            [kw |-> Table[n][1], name |-> Name(Table[n][2], Table[n][3]), parent |-> Table[n][4],
             children |-> ChildrenOf(n), keys |-> Keys(n), sid |-> Table[n][5], ty |-> Table[n][6],
             mandatory |-> n \in {7, 8, 19}, config |-> n # 8]]
MCRoots ==
    LET yang_data == {26}
    IN  SelectSeq(ChildrenOf(None), LAMBDA n : n \notin yang_data)

-----------------------------------------------------------------------------
(* Requests.                                                               *)

Bare(local) == Name("", local)
Pair(key, value) == << <<key, value>> >>
Text(w) == JString(Word(w))
Characters(cs) == JString(<<"base64", cs>>)

Numbers == {JNumber(n) : n \in {-3, -2, 1, 2, 5, 127}
                                 \cup (IF "u64" \in Cases THEN {254, 255} ELSE {})}
FlagTexts == {JString(Words(ws)) : ws \in {<<"b0">>, <<"b25">>, <<"b49", "b0">>, <<"b8", "b7">>,
                                           <<"b0", "b25", "b49">>, <<>>, <<"zz">>}}
             \cup {JArray(<<Text("b25"), Text("b0")>>)}
IdentTexts == {Text("one"), Text("two"), JString(Qualified("q", "two")), JString(Qualified("q", "one"))}
BigTexts == {JString(Num(n)) : n \in {-5, 5, 31, 40, 70, 200, 255}}
Odd == {JNull, JBool(TRUE), JArray(<<JNull>>), JString(Base64Of(<<7, 0>>)), JObject(<<>>)}
Sel(local, t) == <<local, t>>
Seg(module, local, keys) == [name |-> Name(module, local), keys |-> keys]
Top == Seg("m", "c", <<>>)
K1 == Sel("k", Num(1))
E1 == Sel("e", Word("on"))
B1 == Sel("b", Word("true"))
ListPaths ==
    {<<Top>>, <<Top, Seg("", "l", <<K1, E1>>)>>, <<Top, Seg("", "l", <<E1, K1>>)>>,
     <<Top, Seg("", "l", <<K1>>)>>, <<Top, Seg("", "l", <<>>)>>,
     <<Top, Seg("", "l", <<Sel("k", Word("x"))>>)>>, <<Top, Seg("", "l", <<Sel("zz", Num(1))>>)>>,
     <<Top, Seg("", "n", <<K1>>)>>, <<Top, Seg("", "nosid", <<>>)>>, <<>>,
     <<Top, Seg("", "l", <<K1, E1>>), Seg("", "in", <<B1>>)>>,
     <<Top, Seg("", "l", <<E1, K1>>), Seg("", "in", <<B1>>), Seg("", "id", <<>>)>>,
     <<Top, Seg("", "l", <<Sel("k", Num(16)), E1>>)>>}

LeafValues(n) ==
    CASE n \in {2, 16} -> Numbers \cup {Text("one")}
      [] n = 14 -> Numbers \cup FlagTexts \cup IdentTexts \cup BigTexts \cup Odd \cup {Text("on")}
      [] n = 15 -> FlagTexts \cup Odd
      [] n = 23 -> {JString(Path(p)) : p \in ListPaths} \cup {Text("on")}
      [] n = 24 -> BigTexts \cup Numbers
      [] n = 25 -> BigTexts \cup Numbers \cup {Text("on")}
      [] n = 28 -> {Text("one"), JBool(TRUE), JNumber(5), JNull}
      [] n = 22 -> {JBool(TRUE)}
      [] n = 7 -> {Text("a"), Text("b"), Text("abc"), JString(Words(<<>>)), JNumber(1)}
      [] n = 11 -> IdentTexts
      [] n = 19 -> {JString(Base64Of(<<7, 0>>)), JString(Base64Of(<<7, 0, 9>>)), JString(Base64Of(<<>>)), JNull,
                     Characters(<<1, 48, 0>>), Characters(<<1, SPACE, 48, 0, PAD>>), Text("a-b"), JNumber(1)}
                    \cup (IF "base64" \in Cases THEN {Text("x"), Characters(<<1, 49>>)} ELSE {})
      [] n = 21 -> {JArray(<<JNull>>), JNull}
      [] OTHER -> {JBool(TRUE)}

FieldsOf(ns) == UNION {{<<MCNodes[n].name, v>> : v \in LeafValues(n)} : n \in ns}
Lists ==
    {<<Bare("ll"), v>> : v \in {JArray(<<Text("on"), Text("off")>>), JArray(<<>>), Text("on")}}

Entry(fields) == JObject(<< <<Bare("e"), Text("off")>>, <<Bare("k"), JNumber(2)>> >> \o fields)
V == <<Bare("v"), Text("a")>>
S == <<Bare("s"), JBool(FALSE)>>
Entries ==
    {Entry(f) : f \in {<<V, S>>, <<S, V>>, <<V>>, <<S>>, <<>>} \cup {<<S, x>> : x \in FieldsOf({7})}}
    \cup {Entry(<<V, S, <<Bare("in"), JArray(es)>>>>) :
            es \in {<<>>, <<JNull>>} \cup
                   {<<JObject(<< <<Bare("b"), JBool(TRUE)>>, x >>)>> : x \in FieldsOf({11})}}
    \cup {JObject(<<V, S>>)}
ListValues == {JArray(<<e>>) : e \in Entries} \cup {JArray(<<>>), JArray(<<JNull>>), JNull}
              \cup {JArray(<<Entry(<<V, S>>), e>>) : e \in Entries} \cup Entries

RpcBodies ==
    {JObject(<<x>>) : x \in FieldsOf({19})} \cup {JObject(<<>>), JNull}
    \cup {JObject(Pair(Bare("input"), JObject(<<x>>))) : x \in FieldsOf({19})}
    \cup {JObject(Pair(Bare("output"), JObject(<<x>>))) : x \in FieldsOf({21})}

Fields == FieldsOf({2, 14, 15, 16, 22, 23, 24, 25}
                   \cup (IF "dangling" \in Cases THEN {28} ELSE {})) \cup Lists
          \cup {<<Bare("l"), v>> : v \in ListValues} \cup {<<Bare("zz"), JNull>>}
FewFields == FieldsOf({2, 15}) \cup Lists \cup {<<Bare("l"), JArray(<<e>>)>> : e \in Entries}
             \cup {<<Bare("zz"), JNull>>, <<Bare("nosid"), JBool(TRUE)>>}

Trees == {Pair(Name("m", "c"), JObject(f)) :
            f \in {<<>>} \cup {<<x>> : x \in Fields}
                  \cup {p \in {<<x, y>> : x, y \in FewFields} : p[1][1] # p[2][1]}}
         \cup {Pair(Name("m", "c"), JNull), Pair(Name("m", "zz"), JNull), <<>>}
         \cup {Pair(Name("m", "r"), b) : b \in RpcBodies}

PathValues ==
    {<<p, JNull>> : p \in ListPaths}
    \cup {<<<<Top, Seg("", "l", <<K1, E1>>)>>, v>> : v \in ListValues}
    \cup {<<<<Top, Seg("", "l", <<>>)>>, v>> : v \in ListValues}
    \cup {<<<<Top, Seg("", "f", <<>>)>>, v>> : v \in LeafValues(15)}
    \cup {<<<<Top, Seg("q", "aug", <<>>)>>, v>> : v \in LeafValues(16)}
    \cup {<<<<Top, Seg("", "ll", <<>>)>>, v[2]>> : v \in Lists}
    \cup {<<<<Seg("m", "r", <<>>)>>, v>> : v \in RpcBodies}
    \cup (IF "choice" \in Cases THEN {<<<<Top, Seg("", "u", <<>>)>>, v>> : v \in LeafValues(14)} ELSE {})

SeqEntries == {JObject(Pair(Path(pv[1]), pv[2])) : pv \in PathValues} \cup {JNull, JObject(<<>>)}
FetchEntries == {JString(Path(p)) : p \in ListPaths} \cup SeqEntries

MCRequests ==
    {[cf |-> cf, body |-> JObject(t)] : cf \in {"Yang", "Put"}, t \in Trees}
    \cup {[cf |-> "Yang", body |-> v] : v \in {JNull, JArray(<<>>)}}
    \cup {[cf |-> cf, body |-> JArray(<<e>>)] : cf \in {"Ipatch", "Post"}, e \in SeqEntries}
    \cup {[cf |-> "Fetch", body |-> JArray(<<e>>)] : e \in FetchEntries}
    \cup {[cf |-> "Ipatch", body |-> JArray(<<JObject(Pair(Path(<<Top>>), JNull)), e>>)] : e \in SeqEntries}
    \cup {[cf |-> "Fetch", body |-> v] : v \in {JArray(<<>>), JObject(<<>>)}}

MCCodecSpec == CodecInit /\ [][CodecNext]_codecVars
=============================================================================
