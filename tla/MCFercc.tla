------------------------------ MODULE MCFercc ------------------------------
(***************************************************************************)
(* Calls of fercc, and the answers that the firmware gives, according to   *)
(* the comment of decode_response_payload, or some that it does not.       *)
(***************************************************************************)
EXTENDS MCYangCodec, Fercc

Response(class, detail, format, payload) ==
    [code_class |-> class, code_detail |-> detail, content_format |-> format, payload |-> payload]
Answer(methods, resp, meant) == [methods |-> methods, resp |-> resp, meant |-> meant]
All == {"fetch", "ipatch", "get", "put", "post", "delete"}

Tree(n, body) == JObject(Pair(MCNodes[n].name, body))
TreeItems(n, body) == <<CMap(Pair(CInteger(MCNodes[n].sid), encode_node_value(n, body, "Yang", FALSE)[2]))>>
Instance(path, value) == JObject(Pair(Path(path), value))
InstanceItems(instances) == json_seq_to_cbor(instances, "Post", FALSE)[2]

FiveOf == JObject(Pair(Bare("n"), JNumber(5)))
TheError == JObject(Pair(Bare("tag"), Text("on")))
TheFlags == Instance(<<Top, Seg("", "f", <<>>)>>, Text("b25"))
TheResult == Instance(<<Seg("m", "r", <<>>)>>, JObject(Pair(Bare("output"), JObject(Pair(Bare("y"), JArray(<<JNull>>))))))

MCInputs(method) ==
    CASE method \in {"get", "delete"} -> {None}
      [] method = "put" -> {Tree(1, FiveOf), Tree(1, JNull)}
      [] method = "fetch" -> {JArray(<<a, Instance(<<Top>>, JNull)>>) :
                                a \in {JNull, JString(Path(<<Top>>)), Instance(<<Top>>, JNull), TheFlags}}
                             \cup {JNull}
      [] OTHER -> {JArray(<<TheFlags>>), JArray(<<Instance(<<Top>>, JNull)>>), JArray(<<JNull>>), JObject(<<>>)}

MCInvocations ==
    UNION {{[method |-> method, input |-> input, continue_on_error |-> c, use_workspace |-> w] :
              input \in MCInputs(method), c \in BOOLEAN, w \in BOOLEAN} :
           method \in {"fetch", "ipatch", "get", "put", "post", "delete"}}

InstanceLists == {<<TheFlags>>, <<TheFlags, TheFlags>>}
Checksums ==
    {Response(2, 5, None, items) :
        items \in {<<>>, <<CNull>>, <<CMap(<<>>)>>, <<CMap(Pair(CInteger(SID_CHECKSUM), CNull))>>,
                  <<CMap(Pair(CInteger(SID_CHECKSUM), CBytes(<<1, 2>>)))>>}}

MCAnswers ==
    LET error == TreeItems(26, TheError)
    IN  {Answer({"fetch"}, Response(2, 5, f, InstanceItems(l)), l) : f \in {None, 142}, l \in InstanceLists}
        \cup {Answer({"post"}, Response(2, 4, f, InstanceItems(<<TheResult>>)), <<TheResult>>) : f \in {None, 142}}
        \cup {Answer({"get"}, Response(2, 5, f, TreeItems(1, FiveOf)), <<Tree(1, FiveOf)>>) : f \in {None, 140}}
        \cup {Answer(All, Response(4, 0, 140, error), <<Tree(26, TheError)>>)}
        \cup {Answer(All, Response(c, d, None, <<>>), None) : c \in {2, 4, 5}, d \in {0, 4}}
        \cup {Answer({"put", "ipatch"}, Response(2, 4, 142, InstanceItems(<<TheFlags>>)), Err),
              Answer(All, Response(5, 0, 140, error), Err),
              Answer(All, Response(4, 0, 141, <<CNull>>), Err)}
        \cup {Answer({}, r, Err) : r \in Checksums}

=============================================================================
