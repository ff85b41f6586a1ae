---------------------------- MODULE MCYangSchema ----------------------------
(***************************************************************************)
(* Modules to build a schema from: z, p that augments it, d and e that     *)
(* deviate both, in every order of the sources, and what z imports: y, of  *)
(* which it uses a typedef, a grouping and an identity, and extensions.    *)
(***************************************************************************)
EXTENDS YangCatalog

\* Statements that the modules have besides the plain ones: "capture", a
\* typedef where a grouping is used, with the name of one that it refers to;
\* "case", an augment of a choice; "leafref", a leafref inside a case;
\* "removed", a deviation of a node that another one removes; "document", a
\* yang-data made of a grouping of another module; "twins", a container and a
\* typedef in it with the names of those that an augment adds beside it.
CONSTANT SchemaCases

When(c, stmts) == IF c \in SchemaCases THEN stmts ELSE <<>>

St(kw, arg, subs) == [prefix |-> None, kw |-> kw, arg |-> arg, subs |-> subs]
Ext(prefix, kw, arg, subs) == [St(kw, arg, subs) EXCEPT !.prefix = prefix]
TypeIs(ref, subs) == St("type", ref, subs)
Built(name) == TypeIs(BuiltinType(name), <<>>)
Typed(local) == TypeIs(Ref("", local), <<>>)
LeafOf(name, type) == St("leaf", name, <<type>>)
Leafref(path) == TypeIs(BuiltinType("Leafref"), <<St("path", path, <<>>)>>)
IdentityrefTo(bases) ==
    TypeIs(BuiltinType("Identityref"), [i \in DOMAIN bases |-> St("base", bases[i], <<>>)])
TypedefIs(name, type) == St("typedef", name, <<type>>)
Own(local) == Ref("", local)
Between(lo, hi) == St("range", << <<lo, hi>> >>, <<>>)

\* w imports y and plain sources do not use it; x is the base of a typedef of y.
ModuleW == <<St("import", "y", <<>>), TypedefIs("unused", TypeIs(Ref("y", "far"), <<>>)),
    St("grouping", "document", <<St("container", "loose", <<LeafOf("page", Built("String"))>>)>>)>>
ModuleX == <<TypedefIs("far", Built("Uint8"))>>
ModuleY == <<
    St("import", "x", <<>>),
    TypedefIs("far", TypeIs(Ref("x", "far"), <<>>)),
    St("identity", "root", <<>>),
    St("grouping", "shared", <<LeafOf("note", Built("String"))>>)>>
ModuleRc == <<St("grouping", "errors", <<>>)>>

ModuleZ == <<
    St("import", "rc", <<>>), St("import", "y", <<St("revision-date", "2020", <<>>)>>),
    TypedefIs("t", TypeIs(BuiltinType("Uint8"), <<Between(<<"int", 1>>, <<"max">>)>>)),
    TypedefIs("s", Built("String")),
    St("identity", "kid", <<St("base", Own("base"), <<>>)>>),
    St("identity", "base", <<St("base", Ref("y", "root"), <<>>)>>),
    St("identity", "other", <<>>),
    St("identity", "both", <<St("base", Own("base"), <<>>), St("base", Own("other"), <<>>)>>),
    St("grouping", "g", <<
        TypedefIs("u", Typed("t")),
        LeafOf("gt", Typed("t")), LeafOf("gu", Typed("u")),
        St("container", "gc", <<LeafOf("deep", Typed("u"))>>)>>),
    St("container", "c", <<
        LeafOf("x", Typed("s")), LeafOf("k", Built("Boolean")),
        St("list", "l", <<
            St("key", <<"k">>, <<>>), LeafOf("k", Typed("t")),
            LeafOf("r", Leafref(<<Up, Own("k")>>)), LeafOf("r2", Leafref(<<Up, Up, Own("x")>>)),
            LeafOf("id", IdentityrefTo(<<Own("base")>>))>>),
        LeafOf("id2", IdentityrefTo(<<Own("base")>>)),
        LeafOf("ids", TypeIs(BuiltinType("Union"),
            <<IdentityrefTo(<<Own("base"), Own("other")>>), Built("String"), Leafref(<<Up, Own("x")>>)>>)),
        St("choice", "ch", <<
            LeafOf("one", Built("Boolean")),
            St("case", "two", <<LeafOf("abs", Leafref(<<Ref("z", "c"), Own("x")>>))>>
                              \o When("leafref", <<LeafOf("rel", Leafref(<<Up, Own("x")>>))>>))>>),
        St("container", "st", <<St("config", FALSE, <<>>), LeafOf("v", Built("Uint8")),
                                St("action", "reset", <<>>)>>)>>
        \o When("twins", <<St("container", "pc", <<TypedefIs("s", Built("Int8")), LeafOf("here", Typed("s"))>>)>>)),
    St("rpc", "act", <<St("input", None, <<LeafOf("arg", Typed("s"))>>)>>),
    St("container", "old", <<LeafOf("x", Typed("s"))>>),
    St("uses", Ref("z", "top"), <<>>),
    St("grouping", "top", <<St("container", "far", <<
        LeafOf("f", TypeIs(BuiltinType("Union"), <<TypeIs(Ref("y", "far"), <<>>)>>)),
        St("uses", Ref("y", "shared"), <<>>)>>)>>),
    Ext("rc", "yang-data", "err", <<St("container", "error", <<LeafOf("code", Typed("t"))>>)>>),
    Ext("sx", "structure", "doc", <<TypedefIs("w", Typed("s")), LeafOf("title", Typed("w"))>>)>>
    \o When("document", <<St("import", "w", <<>>), Ext("rc", "yang-data", "doc", <<St("uses", Ref("w", "document"), <<>>)>>)>>)

ModuleP == <<
    St("import", "z", <<>>),
    St("identity", "grandkid", <<St("base", Ref("z", "kid"), <<>>)>>),
    St("augment", <<Ref("z", "c")>>, <<
        LeafOf("extra", TypeIs(Ref("z", "t"), <<Between(<<"min">>, <<"int", 9>>)>>)),
        St("container", "pc", <<
            TypedefIs("s", Built("Boolean")), LeafOf("mine", Typed("s")),
            LeafOf("theirs", TypeIs(Ref("z", "s"), <<>>))>>
            \o When("capture", <<TypedefIs("t", Built("Int8"))>>)
            \o <<St("uses", Ref("z", "g"),
                    <<St("augment", <<Own("gc")>>, <<LeafOf("more", Built("Boolean"))>>)>>)>>)>>),
    St("augment", <<Ref("z", "act"), Ref("z", "input")>>, <<LeafOf("flag", Built("Boolean"))>>),
    St("container", "top", <<St("uses", Ref("z", "g"), <<>>)>>)>>
    \o When("case", <<St("augment", <<Ref("z", "c"), Ref("z", "ch")>>,
                         <<St("case", "three", <<LeafOf("third", Built("Boolean"))>>)>>)>>)

Imports(ms) == [i \in DOMAIN ms |-> St("import", ms[i], <<>>)]
Deviation(path, subs) == St("deviation", path, subs)
NotSupported == St("deviate", "not-supported", <<>>)
Replaced(sub_) == St("deviate", "replace", <<sub_>>)

ModuleD == Imports(<<"p", "z">>) \o <<
    Deviation(<<Ref("z", "old")>>, <<NotSupported>>),
    Deviation(<<Ref("z", "c"), Ref("p", "pc")>>, <<Replaced(St("config", FALSE, <<>>))>>),
    Deviation(<<Ref("z", "c"), Ref("z", "ch"), Ref("z", "one")>>, <<NotSupported>>)>>

ModuleE == Imports(<<"p", "z">>) \o <<
    Deviation(<<Ref("z", "c"), Ref("p", "pc"), Ref("p", "gu")>>, <<Replaced(Built("String"))>>),
    Deviation(<<Ref("z", "c"), Ref("z", "l")>>, <<Replaced(St("config", FALSE, <<>>))>>)>>
    \o When("removed", <<Deviation(<<Ref("z", "old"), Ref("z", "x")>>, <<NotSupported>>)>>)

Raw(m, prefixes, subs) == [name |-> m, namespace |-> m, prefixes |-> prefixes, subs |-> subs]
Source(m) ==
    CASE m = "z" -> Raw(m, [z |-> "z", y |-> "y", w |-> "w", rc |-> "rc", sx |-> "ietf-yang-structure-ext"], ModuleZ)
      [] m = "p" -> Raw(m, [z |-> "z", p |-> "p"], ModuleP)
      [] m = "d" -> Raw(m, [z |-> "z", p |-> "p", d |-> "d"], ModuleD)
      [] m = "w" -> Raw(m, [y |-> "y", w |-> "w"], ModuleW)
      [] m = "x" -> Raw(m, [x |-> "x"], ModuleX)
      [] m = "y" -> Raw(m, [x |-> "x", y |-> "y"], ModuleY)
      [] m = "rc" -> Raw(m, [rc |-> "rc"], ModuleRc)
      [] m = "e" -> Raw(m, [z |-> "z", p |-> "p", e |-> "e"], ModuleE)

MCModuleNames == <<"d", "e", "p", "rc", "w", "x", "y", "z">>

\* A .sid file: SIDs from first on for the module, its identities and its nodes.
SidFile(module, first, identities_, paths) ==
    LET entries == << <<"module", module>>, <<"feature", "f">> >>
                   \o [i \in DOMAIN identities_ |-> <<"identity", identities_[i]>>]
                   \o [i \in DOMAIN paths |-> <<"data", paths[i]>>]
    IN  [module |-> module,
         items |-> [i \in DOMAIN entries |-> [namespace |-> entries[i][1], identifier |-> entries[i][2],
                                              sid |-> first + i]]]
\* The node at path, and the nodes with the given names below it.
At(path, names) == <<path>> \o [i \in DOMAIN names |-> Append(path, Own(names[i]))]

PathC == <<Ref("z", "c")>>
PathAct == <<Ref("z", "act")>>
PathPc == <<Ref("z", "c"), Ref("p", "pc")>>
PathsOfZ ==
    At(PathC, <<"x", "k", "id2", "ids">>) \o At(Append(PathC, Own("l")), <<"k", "r", "r2", "id">>)
    \o <<PathC \o <<Own("ch"), Own("one"), Own("one")>>, PathC \o <<Own("ch"), Own("two"), Own("abs")>>>>
    \o At(Append(PathC, Own("st")), <<"v">>)
    \o At(PathC \o <<Own("st"), Own("reset")>>, <<"input", "output">>)
    \o At(PathAct, <<"output">>) \o At(Append(PathAct, Own("input")), <<"arg">>)
    \o At(<<Ref("z", "old")>>, <<"x">>) \o At(<<Ref("z", "far")>>, <<"f", "note">>)
    \o At(<<Ref("z", "error")>>, <<"code">>) \o At(<<Ref("z", "doc")>>, <<"title">>)
PathsOfP ==
    << <<Ref("z", "c"), Ref("p", "extra")>>, <<Ref("z", "act"), Own("input"), Ref("p", "flag")>> >>
    \o At(PathPc, <<"mine", "theirs", "gt", "gu">>) \o At(Append(PathPc, Own("gc")), <<"deep", "more">>)
    \o At(<<Ref("p", "top")>>, <<"gt", "gu">>) \o At(<<Ref("p", "top"), Own("gc")>>, <<"deep">>)
SidFiles ==
    <<SidFile("z", 0, <<"kid", "base", "other", "both">>, PathsOfZ), SidFile("p", 100, <<"grandkid">>, PathsOfP),
      SidFile("y", 200, <<"root">>, <<>>), SidFile("x", 210, <<>>, <<>>), SidFile("w", 220, <<>>, <<>>),
      SidFile("rc", 230, <<>>, <<>>), SidFile("d", 240, <<>>, <<>>), SidFile("e", 250, <<>>, <<>>)>>

Libraries == <<Source("x"), Source("w"), Source("y"), Source("rc")>>

\* Some of the deviating modules, in every order with the others.
MCBuildArgs ==
    {[yang_sources |-> [i \in DOMAIN order |-> Source(order[i])] \o Libraries,
      sid_sources |-> SubSeq(SidFiles, 1, known),
      implemented_yang_data |-> implemented,
      identity_accept_lists |-> (<<"z", "other">> :> {<<"z", "both">>}),
      identityref_accept_lists |-> (<<Ref("z", "c"), Own("id2")>> :> {<<"z", "kid">>})] :
     known \in {1, Len(SidFiles)},
     order \in UNION {SetToSeqs({"z", "p"} \cup ds) : ds \in SUBSET {"d", "e"}},
     implemented \in {{<<"z", "err">>} \cup (IF "document" \in SchemaCases THEN {<<"z", "doc">>} ELSE {}), {}}}

MCSchemaSpec == CatalogInit /\ [][CatalogNext]_catalogVars
=============================================================================
