----------------------------- MODULE YangSchema -----------------------------
(***************************************************************************)
(* build() of yang/src/schema.rs: the schema tree of a set of YANG modules *)
(* with the SIDs of their .sid files.                                      *)
(*                                                                         *)
(* A statement is [prefix, kw, arg, subs], prefix being that of an         *)
(* extension or None.  Arguments that refer to something are               *)
(* Ref(prefix, local); paths are sequences of them.  The builder is one    *)
(* record, and every interpret_* function of the code maps a builder to    *)
(* Ok(builder) or Err.  Statuses, defaults and units are left out.         *)
(***************************************************************************)
EXTENDS YangBase

CONSTANTS
    BuildArgs,   \* arguments that build may be called with
    ModuleNames  \* every module name, sorted

VARIABLES
    args,    \* [yang_sources, sid_sources, implemented_yang_data,
             \*  identity_accept_lists, identityref_accept_lists]
    builder, \* Ok(Builder), or Err
    todo,    \* steps of build that are left
    sids,    \* Schema::sid_index
    modules  \* [implemented, import_only]: names, and <<name, revision-date>>

schemaVars == <<args, builder, todo, sids, modules>>

Ref(prefix, local) == <<"ref", prefix, local>>
local_of(ref) == ref[3]
BuiltinType(name) == <<"builtin", name>>

\* A module of the sources: [name, prefixes, subs].
RawModule(m) == Find(args.yang_sources, LAMBDA s : s.name = m)

sub(s, kw) == Find(s.subs, LAMBDA x : x.prefix = None /\ x.kw = kw)
subs_of(s, kw) == SelectSeq(s.subs, LAMBDA x : x.prefix = None /\ x.kw = kw)

SCHEMA_NODE_KEYWORDS ==
    {"container", "leaf", "leaf-list", "list", "choice", "case", "rpc", "action", "input",
     "output", "notification", "anydata", "anyxml"}

NewBuilder ==
    [nodes |-> <<>>, typedefs |-> <<>>, identities |-> <<>>, cache |-> <<>>,
     module_root |-> <<>>, yang_data |-> <<>>, structure_roots |-> <<>>,
     building |-> {}, built |-> {}, reachable_typedefs |-> {}, implemented_identities |-> {},
     reachable_identities |-> {}, referenced_modules |-> {}]

\* A function with one more key.
With(f, key, value) == [k \in DOMAIN f \cup {key} |-> IF k = key THEN value ELSE f[k]]

new_node(bb, kw, name, owner, parent, detached) ==
    LET id == Len(bb.nodes) + 1
        config == IF kw \in {"rpc", "action", "notification"} THEN None
                  ELSE IF parent = None THEN TRUE ELSE bb.nodes[parent].config
        node == [kw |-> kw, name |-> name, owner_module |-> owner, parent |-> parent,
                 children |-> <<>>, keys |-> <<>>, config |-> config, mandatory |-> FALSE,
                 ty |-> None, sid |-> None, stmt |-> None, references_modules |-> {}]
        with == [bb EXCEPT !.nodes = Append(@, node)]
    IN  IF detached THEN with
        ELSE IF parent # None THEN [with EXCEPT !.nodes[parent].children = Append(@, id)]
        ELSE [with EXCEPT !.module_root[owner].roots = Append(@, id)]

LocalName(bb, n) == bb.nodes[n].name[3]
find_by_local(bb, parent, local) ==
    Find(bb.nodes[parent].children, LAMBDA c : LocalName(bb, c) = local)
find_in_module(bb, module, local) ==
    Find(bb.module_root[module].roots, LAMBDA c : LocalName(bb, c) = local)

RECURSIVE schema_node_path_of(_, _)
schema_node_path_of(bb, n) ==
    IF bb.nodes[n].parent = None THEN <<bb.nodes[n].name>>
    ELSE Append(schema_node_path_of(bb, bb.nodes[n].parent), bb.nodes[n].name)

\* A scope frame's label: where the typedefs of its statement are kept.
AtModule(m) == <<"module", m>>
AtNode(bb, n) == <<"path", schema_node_path_of(bb, n)>>

\* Ok(<<module, local>>)
split_qualified(module, ref) ==
    IF ref[2] = "" THEN Ok(<<module, ref[3]>>)
    ELSE IF ref[2] \notin DOMAIN RawModule(module).prefixes THEN Err
    ELSE Ok(<<RawModule(module).prefixes[ref[2]], ref[3]>>)

-----------------------------------------------------------------------------
(* Identities.                                                             *)

IdentityId(bb, module, name) ==
    Find([i \in DOMAIN bb.identities |-> i],
         LAMBDA i : bb.identities[i].module = module /\ bb.identities[i].name = name)

\* <<builder, id>>
get_identity(bb, module, name) ==
    IF IdentityId(bb, module, name) # None THEN <<bb, IdentityId(bb, module, name)>>
    ELSE <<[bb EXCEPT !.identities =
              Append(@, [module |-> module, name |-> name, base |-> <<>>, derived |-> <<>>, sid |-> None])],
           Len(bb.identities) + 1>>

resolve_identity_ref(bb, module, ref) ==
    Then(split_qualified(module, ref), LAMBDA q : Ok(get_identity(bb, q[1], q[2])))

RegisterIdentity(bb, module, s) ==
    LET own == get_identity(bb, module, s.arg)
        id == own[2]
    IN  Each(own[1], subs_of(s, "base"), LAMBDA x, base :
          Then(resolve_identity_ref(x, module, base.arg), LAMBDA r :
            Ok([r[1] EXCEPT !.identities[id].base = Append(@, r[2]),
                            !.identities[r[2]].derived = Append(@, id)])))

\* The loop with a stack of transitive_derived_excluding_self.
RECURSIVE Derived(_, _, _)
Derived(bb, stack, out) ==
    IF stack = <<>> THEN out
    ELSE LET id == Last(stack)
         IN  IF id \in out THEN Derived(bb, Front(stack), out)
             ELSE Derived(bb, Front(stack) \o bb.identities[id].derived, out \cup {id})

\* Mutant: only the identities derived directly.
transitive_derived_excluding_self_Direct(bb, start) == Range(bb.identities[start].derived)

transitive_derived_excluding_self(bb, start) == Derived(bb, bb.identities[start].derived, {})

derived_from_all(bb, bases) ==
    IF bases = <<>> THEN {}
    ELSE {id \in transitive_derived_excluding_self(bb, bases[1]) :
            \A i \in DOMAIN bases : id \in transitive_derived_excluding_self(bb, bases[i])}

-----------------------------------------------------------------------------
(* Types.                                                                  *)

default_ranges(builtin) ==
    CASE builtin = "Int8" -> << <<-128, 127>> >>
      [] builtin \in {"Uint8", "String"} -> << <<0, 255>> >>
      [] OTHER -> <<>>

restrict_range(prev, spec) ==
    LET lows == {prev[i][1] : i \in DOMAIN prev}
        highs == {prev[i][2] : i \in DOMAIN prev}
        Resolve(tok) == CASE tok = <<"min">> -> CHOOSE x \in lows : \A y \in lows : x <= y
                          [] tok = <<"max">> -> CHOOSE x \in highs : \A y \in highs : y <= x
                          [] OTHER -> tok[2]
    IN  [i \in DOMAIN spec |-> <<Resolve(spec[i][1]), Resolve(spec[i][2])>>]

NewType(builtin) ==
    [builtin |-> builtin, ranges |-> default_ranges(builtin), base |-> None, identity_bases |-> <<>>,
     identity_values |-> None, source_module |-> None, leafref_path |-> None,
     leafref_target |-> None, union_members |-> <<>>]

\* interpret_type and ensure_typedef_interpreted call one another; the first
\* returns Ok(<<builder, type>>).
RECURSIVE interpret_type(_, _, _, _), ensure_typedef_interpreted(_, _)

ensure_typedef_interpreted(bb, key) ==
    IF key \notin DOMAIN bb.cache THEN Ok(bb)
    ELSE LET pending == bb.cache[key]
         IN  IF bb.typedefs[pending.id].ty # None THEN Ok(bb)
             ELSE IF sub(pending.stmt, "type") = None THEN Err
             ELSE Then(interpret_type(bb, pending.resolve, pending.scope, sub(pending.stmt, "type")),
                       LAMBDA r : Ok([r[1] EXCEPT !.typedefs[pending.id].ty = r[2]]))

\* The key under which a typedef name is found: in the innermost scope that
\* has it, or in the module.
TypedefKey(bb, def_module, scope, local) ==
    LET frames == {i \in DOMAIN scope : <<scope[i].label, local>> \in DOMAIN bb.cache}
    IN  IF frames = {} THEN <<AtModule(def_module), local>>
        ELSE <<scope[CHOOSE i \in frames : \A j \in frames : j <= i].label, local>>

\* Ok(<<builder, id>>)
resolve_typedef(bb, def_module, scope, local) ==
    LET key == TypedefKey(bb, def_module, scope, local)
    IN  Then(ensure_typedef_interpreted(bb, key), LAMBDA x :
          IF key \in DOMAIN x.cache THEN Ok(<<x, x.cache[key].id>>) ELSE Err)

interpret_builtin_type(bb, module, scope, builtin, t) ==
    LET ty == NewType(builtin)
        Base(acc, s) == Then(resolve_identity_ref(acc[1], module, s.arg), LAMBDA r :
            Ok(<<r[1], [acc[2] EXCEPT !.identity_bases = Append(@, r[2])]>>))
        Member(acc, s) == Then(interpret_type(acc[1], module, scope, s), LAMBDA r :
            Ok(<<r[1], [acc[2] EXCEPT !.union_members = Append(@, r[2])]>>))
    IN  CASE builtin = "Identityref" ->
               Each(<<bb, [ty EXCEPT !.source_module = module]>>, subs_of(t, "base"), Base)
          [] builtin = "Leafref" /\ sub(t, "path") # None ->
               Ok(<<bb, [ty EXCEPT !.leafref_path = sub(t, "path").arg, !.source_module = module]>>)
          [] builtin = "Union" -> Each(<<bb, ty>>, subs_of(t, "type"), Member)
          [] OTHER -> Ok(<<bb, ty>>)

\* Mutant: also a name with a prefix is looked up in the scopes around.
ScopeFor_All(module, def_module, scope) == scope

\* A name of another module is looked up there, not in the scopes around.
ScopeFor(module, def_module, scope) == IF def_module = module THEN scope ELSE <<>>

interpret_type(bb, module, scope, t) ==
    LET FromTypedef ==
            Then(split_qualified(module, t.arg), LAMBDA q :
              Then(resolve_typedef(bb, q[1], ScopeFor(module, q[1], scope), q[2]), LAMBDA r :
                Ok(<<r[1], [r[1].typedefs[r[2]].ty EXCEPT !.base = r[2]]>>)))
        Restricted(ty) == IF ty.ranges = <<>> \/ sub(t, "range") = None THEN ty
                          ELSE [ty EXCEPT !.ranges = restrict_range(@, sub(t, "range").arg)]
    IN  Then(IF t.arg[1] = "builtin" THEN interpret_builtin_type(bb, module, scope, t.arg[2], t)
             ELSE FromTypedef,
             LAMBDA r : Ok(<<r[1], Restricted(r[2])>>))

\* Register the typedefs among stmts under label, then interpret them.
interpret_scope_typedefs(bb, def_module, label, scope, stmts) ==
    LET typedefs == SelectSeq(stmts, LAMBDA s : s.kw = "typedef")
        Register(x, td) ==
            LET key == <<label, td.arg>>
            IN  IF key \in DOMAIN x.cache THEN x
                ELSE [x EXCEPT !.typedefs = Append(@, [name |-> td.arg, module |-> def_module, scope |-> label, ty |-> None]),
                               !.cache = With(@, key, [id |-> Len(x.typedefs) + 1, resolve |-> def_module,
                                                       scope |-> scope, stmt |-> td])]
    IN  Each(FoldLeft(Register, bb, typedefs), typedefs,
             LAMBDA x, td : IF <<label, td.arg>> \in DOMAIN bb.cache THEN Ok(x)
                            ELSE ensure_typedef_interpreted(x, <<label, td.arg>>))

-----------------------------------------------------------------------------
(* Schema nodes.  resolve is the module whose text is being read, naming   *)
(* the one the new nodes belong to, scope the frames [stmt, label] around. *)

RECURSIVE interpret_one(_, _, _, _, _, _)

interpret_children(bb, resolve, naming, scope, stmts, parent) ==
    Each(bb, stmts, LAMBDA x, s : interpret_one(x, resolve, naming, scope, s, parent))

\* The grouping a uses names, in the innermost scope that has it or in the
\* module, and the scope it was defined in.
find_grouping_stmt(def_module, scope, local) ==
    LET In(subs) == Find(subs, LAMBDA g : g.kw = "grouping" /\ g.arg = local)
        frames == {i \in DOMAIN scope : In(scope[i].stmt.subs) # None}
        inner == CHOOSE i \in frames : \A j \in frames : j <= i
    IN  IF frames # {} THEN Ok(<<In(scope[inner].stmt.subs), SubSeq(scope, 1, inner)>>)
        ELSE IF In(RawModule(def_module).subs) = None THEN Err
        ELSE Ok(<<In(RawModule(def_module).subs), <<>>>>)

\* The node at the end of a path, by local names alone.
Descend(bb, start, path) ==
    FoldLeft(LAMBDA n, seg : IF n = None THEN None ELSE find_by_local(bb, n, local_of(seg)), start, path)

resolve_absolute_schema_node_id(bb, module, path) ==
    Then(split_qualified(module, path[1]), LAMBDA q :
      IF q[1] \notin DOMAIN bb.module_root THEN Err
      ELSE LET n == Descend(bb, find_in_module(bb, q[1], q[2]), Tail(path))
           IN  IF n = None THEN Err ELSE Ok(n))

\* Mutant: the nodes keep the names they have in the text.
interpret_augment_Bare(bb, resolve, naming, scope, s, relative_root) ==
    LET found == IF relative_root = None THEN resolve_absolute_schema_node_id(bb, resolve, s.arg)
                 ELSE LET n == Descend(bb, relative_root, s.arg)
                      IN  IF n = None THEN Err ELSE Ok(n)
        body == SelectSeq(s.subs, LAMBDA c : c.prefix # None \/ c.kw \in SCHEMA_NODE_KEYWORDS \cup {"uses"})
    IN  Then(found, LAMBDA target : interpret_children(bb, resolve, naming, scope, body, target))

\* What an augment adds to a node of another module has that module's name.
interpret_augment(bb, resolve, naming, scope, s, relative_root) ==
    LET found == IF relative_root = None THEN resolve_absolute_schema_node_id(bb, resolve, s.arg)
                 ELSE LET n == Descend(bb, relative_root, s.arg)
                      IN  IF n = None THEN Err ELSE Ok(n)
        body == SelectSeq(s.subs, LAMBDA c : c.prefix # None \/ c.kw \in SCHEMA_NODE_KEYWORDS \cup {"uses"})
        Qualify(x, y, target) ==
            LET new == Range(y.nodes[target].children) \ Range(x.nodes[target].children)
            IN  IF naming = y.nodes[target].owner_module THEN y
                ELSE [y EXCEPT !.nodes = [n \in DOMAIN @ |->
                        IF n \in new THEN [@[n] EXCEPT !.name = Name(naming, @[3])] ELSE @[n]]]
    IN  Then(found, LAMBDA target :
          Each(bb, body, LAMBDA x, c :
            Then(interpret_one(x, resolve, naming, scope, c, target), LAMBDA y :
              Ok(Qualify(x, y, target)))))

\* The nodes refer to something of module.
Referring(bb, ids, module) ==
    [bb EXCEPT !.nodes = [n \in DOMAIN @ |->
        IF n \in ids THEN [@[n] EXCEPT !.references_modules = @ \cup {module}] ELSE @[n]]]

interpret_uses(bb, resolve, naming, scope, s, parent) ==
    Then(split_qualified(resolve, s.arg), LAMBDA q :
      Then(find_grouping_stmt(q[1], scope, q[2]), LAMBDA g :
        LET label == IF parent = None THEN AtModule(naming) ELSE AtNode(bb, parent)
            inner == Append(g[2], [stmt |-> g[1], label |-> label])
            Noted(x, y) ==
                Referring(y, IF parent # None THEN {parent}
                             ELSE Range(y.module_root[naming].roots) \ Range(x.module_root[naming].roots),
                          q[1])
        IN  Then(interpret_scope_typedefs(bb, q[1], label, inner, g[1].subs), LAMBDA x :
              Then(interpret_children(x, q[1], naming, inner, g[1].subs, parent), LAMBDA y :
                Each(Noted(x, y), subs_of(s, "augment"), LAMBDA z, aug :
                  interpret_augment(z, resolve, naming, scope, aug, parent))))))

\* A data node directly in a choice gets a case of its own name.
interpret_choice_body(bb, resolve, naming, scope, stmts, choice) ==
    Each(bb, stmts, LAMBDA x, s :
      IF s.prefix = None /\ s.kw \in {"container", "leaf", "leaf-list", "list", "choice", "anydata", "anyxml"}
      THEN interpret_one(new_node(x, "case", Name("", s.arg), naming, choice, FALSE),
                         resolve, naming, scope, s, Len(x.nodes) + 1)
      ELSE interpret_one(x, resolve, naming, scope, s, choice))

\* A container outside of the datastore, by the name it will have at the top.
Taken(bb, name) == \/ \E i \in DOMAIN bb.yang_data : bb.nodes[bb.yang_data[i].root].name = name
                   \/ \E i \in DOMAIN bb.structure_roots : bb.nodes[bb.structure_roots[i]].name = name

InterpretYangData(bb, resolve, naming, s, ext_module) ==
    LET scratch == Len(bb.nodes) + 1
        start == new_node(bb, "container", Name("", ""), naming, None, TRUE)
        Promote(x) ==
            LET kids == x.nodes[scratch].children
                name == Name(naming, x.nodes[kids[1]].name[3])
            IN  IF Len(kids) # 1 THEN Err
                ELSE IF x.nodes[kids[1]].kw # "container" \/ Taken(x, name) THEN Err
                ELSE Ok([x EXCEPT !.nodes[kids[1]].parent = None, !.nodes[kids[1]].name = name,
                                  !.nodes[kids[1]].references_modules =
                                      @ \cup (IF ext_module = None THEN {} ELSE {ext_module}),
                                  !.yang_data = Append(@, [module |-> naming, name |-> s.arg, root |-> kids[1]])])
    IN  IF \E i \in DOMAIN bb.yang_data : bb.yang_data[i].module = naming /\ bb.yang_data[i].name = s.arg
        THEN Err
        ELSE Then(interpret_children([start EXCEPT !.nodes[scratch].config = None],
                                     resolve, naming, <<>>, s.subs, scratch), Promote)

InterpretStructure(bb, resolve, naming, s, parent) ==
    LET root == Len(bb.nodes) + 1
        name == Name(naming, s.arg)
        node == new_node(bb, "container", name, naming, None, TRUE)
        start == [node EXCEPT !.nodes[root].config = None]
        scope == <<[stmt |-> s, label |-> AtNode(start, root)]>>
    IN  IF parent # None \/ Taken(bb, name) THEN Err
        ELSE Then(interpret_scope_typedefs(start, resolve, scope[1].label, scope, s.subs), LAMBDA x :
               Then(interpret_children(x, resolve, naming, scope, s.subs, root), LAMBDA y :
                 Ok([y EXCEPT !.structure_roots = Append(@, root)])))

interpret_extension(bb, resolve, naming, s, parent) ==
    LET prefixes == RawModule(resolve).prefixes
        ext_module == IF s.prefix \in DOMAIN prefixes THEN prefixes[s.prefix] ELSE None
        noted == IF parent = None \/ ext_module = None THEN bb ELSE Referring(bb, {parent}, ext_module)
    IN  CASE s.kw = "yang-data" -> InterpretYangData(noted, resolve, naming, s, ext_module)
          [] s.kw = "structure" /\ ext_module = "ietf-yang-structure-ext" ->
               InterpretStructure(noted, resolve, naming, s, parent)
          [] OTHER -> Ok(noted)

\* config and mandatory of a new node, its type, and the input and output
\* that an rpc does not declare.
Declare(bb, resolve, naming, scope, s, parent) ==
    LET local == IF s.kw \in {"input", "output"} THEN s.kw ELSE s.arg
        name == Name(IF parent = None THEN naming ELSE "", local)
        id == Len(bb.nodes) + 1
        created == new_node(bb, s.kw, name, naming, parent, FALSE)
        config == IF created.nodes[id].config # None /\ sub(s, "config") # None
                  THEN sub(s, "config").arg ELSE created.nodes[id].config
        mandatory == IF sub(s, "mandatory") = None THEN FALSE ELSE sub(s, "mandatory").arg
        x == [created EXCEPT !.nodes[id].config = config, !.nodes[id].mandatory = mandatory,
                             !.nodes[id].stmt = s]
        Implicit(y, kw) == IF sub(s, kw) # None THEN y
                           ELSE new_node(y, kw, Name("", kw), naming, id, FALSE)
    IN  IF s.kw \in {"leaf", "leaf-list"} /\ sub(s, "type") # None
        THEN Then(interpret_type(x, resolve, scope, sub(s, "type")), LAMBDA r :
               Ok([r[1] EXCEPT !.nodes[id].ty = r[2]]))
        ELSE IF s.kw \in {"rpc", "action"} THEN Ok(Implicit(Implicit(x, "input"), "output"))
        ELSE Ok(x)

interpret_schema_node(bb, resolve, naming, scope, s, parent) ==
    LET id == Len(bb.nodes) + 1
        Body(x) ==
            LET label == AtNode(x, id)
                inner == IF s.kw \in {"container", "list", "rpc", "action", "input", "output", "notification"}
                         THEN Append(scope, [stmt |-> s, label |-> label]) ELSE scope
            IN  Then(IF inner = scope THEN Ok(x)
                     ELSE interpret_scope_typedefs(x, resolve, label, inner, s.subs), LAMBDA y :
                  IF s.kw = "choice" THEN interpret_choice_body(y, resolve, naming, inner, s.subs, id)
                  ELSE interpret_children(y, resolve, naming, inner, s.subs, id))
        Keys(x) ==
            LET names == IF s.kw = "list" /\ sub(s, "key") # None THEN sub(s, "key").arg ELSE <<>>
                ids == [i \in DOMAIN names |-> find_by_local(x, id, names[i])]
            IN  IF \E i \in DOMAIN ids : ids[i] = None THEN Err
                ELSE Ok([x EXCEPT !.nodes[id].keys = ids])
    IN  Then(Then(Declare(bb, resolve, naming, scope, s, parent), Body), Keys)

interpret_one(bb, resolve, naming, scope, s, parent) ==
    IF s.prefix # None THEN interpret_extension(bb, resolve, naming, s, parent)
    ELSE CASE s.kw \in SCHEMA_NODE_KEYWORDS -> interpret_schema_node(bb, resolve, naming, scope, s, parent)
           [] s.kw = "uses" -> interpret_uses(bb, resolve, naming, scope, s, parent)
           [] s.kw = "augment" -> interpret_augment(bb, resolve, naming, scope, s, None)
           [] OTHER -> Ok(bb)

\* What a module itself declares.
InterpretModule(bb, m) ==
    LET raw == [prefix |-> None, kw |-> "module", arg |-> m, subs |-> RawModule(m).subs]
        Clash(x) == \E r \in Range(x.structure_roots) \cup {x.yang_data[i].root : i \in DOMAIN x.yang_data} :
                      /\ x.nodes[r].owner_module = m
                      /\ find_in_module(x, m, LocalName(x, r)) # None
        Root(x) == [x EXCEPT !.module_root = With(@, m, [roots |-> <<>>, sid |-> None, deviated_by |-> {}])]
    IN  Then(Each(bb, subs_of(raw, "identity"), LAMBDA x, i : RegisterIdentity(x, m, i)), LAMBDA x1 :
        Then(interpret_scope_typedefs(Root(x1), m, AtModule(m), <<>>, raw.subs), LAMBDA x2 :
        Then(interpret_children(x2, m, m, <<>>, raw.subs, None), LAMBDA x3 :
          IF Clash(x3) THEN Err
          ELSE Ok([x3 EXCEPT !.built = @ \cup {m}, !.building = @ \ {m}]))))

RECURSIVE ensure_module(_, _)

\* Mutant: a module before the modules it imports.
ensure_module_Late(bb, m) ==
    IF m \in bb.built \cup bb.building THEN Ok(bb)
    ELSE IF RawModule(m) = None THEN Err
    ELSE Then(InterpretModule([bb EXCEPT !.building = @ \cup {m}], m), LAMBDA y :
           Each(y, subs_of(RawModule(m), "import"), LAMBDA x, i : ensure_module(x, i.arg)))

\* A module, after the modules it imports.
ensure_module(bb, m) ==
    IF m \in bb.built \cup bb.building THEN Ok(bb)
    ELSE IF RawModule(m) = None THEN Err
    ELSE Then(Each([bb EXCEPT !.building = @ \cup {m}], subs_of(RawModule(m), "import"),
                   LAMBDA x, i : ensure_module(x, i.arg)), LAMBDA y : InterpretModule(y, m))

-----------------------------------------------------------------------------
(* SIDs, deviations, identities and leafrefs of the finished tree.         *)

node_namespace_module(bb, n) ==
    IF bb.nodes[n].name[2] = "" THEN bb.nodes[n].owner_module ELSE bb.nodes[n].name[2]

\* A segment of a path with real module names.
segment_matches(bb, seg, n) ==
    LocalName(bb, n) = local_of(seg) /\ seg[2] \in {"", node_namespace_module(bb, n)}

descend_by_local(bb, start, path) ==
    FoldLeft(LAMBDA n, seg : IF n = None THEN None
                             ELSE Find(bb.nodes[n].children, LAMBDA c : segment_matches(bb, seg, c)),
             start, path)

resolve_schema_path(bb, path) ==
    IF path[1][2] \notin DOMAIN bb.module_root THEN None
    ELSE descend_by_local(bb, find_in_module(bb, path[1][2], path[1][3]), Tail(path))

resolve_yang_data_path(bb, documents, path) ==
    descend_by_local(bb, Find(documents, LAMBDA r : bb.nodes[r].name = Name(path[1][2], path[1][3])), Tail(path))

YangDataRoots(bb) == [i \in DOMAIN bb.yang_data |-> bb.yang_data[i].root]

FirstOf(xs) == Find(xs, LAMBDA x : x # None)

resolve_sid_data_identifier(bb, path) ==
    FirstOf(<<resolve_schema_path(bb, path), resolve_yang_data_path(bb, YangDataRoots(bb), path),
              resolve_yang_data_path(bb, bb.structure_roots, path)>>)

attach_sids(bb, f) ==
    Each(bb, f.items, LAMBDA x, item :
      CASE item.namespace = "module" ->
             Ok(IF item.identifier \in DOMAIN x.module_root
                THEN [x EXCEPT !.module_root[item.identifier].sid = item.sid] ELSE x)
        [] item.namespace = "identity" ->
             LET id == IdentityId(x, f.module, item.identifier)
             IN  Ok(IF id = None THEN x ELSE [x EXCEPT !.identities[id].sid = item.sid])
        [] item.namespace = "data" ->
             LET n == resolve_sid_data_identifier(x, item.identifier)
             IN  IF n = None THEN Err ELSE Ok([x EXCEPT !.nodes[n].sid = item.sid])
        [] item.namespace = "feature" -> Ok(x))

\* Mutant: only a child of a node can be removed.
remove_node_Child(bb, target) ==
    LET parent == bb.nodes[target].parent
    IN  IF parent = None THEN bb
        ELSE [bb EXCEPT !.nodes[parent].children = SelectSeq(@, LAMBDA c : c # target)]

remove_node(bb, target) ==
    LET parent == bb.nodes[target].parent
        Without(ids) == SelectSeq(ids, LAMBDA c : c # target)
    IN  IF parent # None THEN [bb EXCEPT !.nodes[parent].children = Without(@)]
        ELSE [bb EXCEPT !.module_root[bb.nodes[target].owner_module].roots = Without(@)]

\* Nodes below n, n itself included.
RECURSIVE Subtree(_, _)
Subtree(bb, n) == {n} \cup UNION {Subtree(bb, c) : c \in Range(bb.nodes[n].children)}

\* Mutant: only the children.
propagate_config_false_Once(bb, n) ==
    [bb EXCEPT !.nodes = [c \in DOMAIN @ |->
       IF c \in Range(bb.nodes[n].children) THEN [@[c] EXCEPT !.config = FALSE] ELSE @[c]]]

RECURSIVE propagate_config_false(_, _)
propagate_config_false(bb, n) ==
    FoldLeft(LAMBDA x, c : IF x.nodes[c].config = None THEN x
                           ELSE propagate_config_false([x EXCEPT !.nodes[c].config = FALSE], c),
             bb, bb.nodes[n].children)

Deviate(bb, module, target, d) ==
    LET config == sub(d, "config")
        configured == IF config = None THEN bb
                      ELSE IF bb.nodes[target].config = None THEN bb
                      ELSE LET x == [bb EXCEPT !.nodes[target].config = config.arg]
                           IN  IF config.arg THEN x ELSE propagate_config_false(x, target)
    IN  CASE d.arg = "not-supported" -> Ok(remove_node(bb, target))
          [] d.arg = "replace" /\ sub(d, "type") # None ->
               Then(interpret_type(configured, module, <<>>, sub(d, "type")), LAMBDA r :
                 Ok([r[1] EXCEPT !.nodes[target].ty = r[2]]))
          [] d.arg = "replace" /\ sub(d, "type") = None -> Ok(configured)
          [] OTHER -> Ok(bb)

\* The deviations of one module.
apply_deviations(bb, module) ==
    Each(bb, SelectSeq(RawModule(module).subs, LAMBDA s : s.kw = "deviation"), LAMBDA x, dev :
      Then(resolve_absolute_schema_node_id(x, module, dev.arg), LAMBDA target :
        LET owner == x.nodes[target].owner_module
            noted == IF owner = module THEN x
                     ELSE [x EXCEPT !.module_root[owner].deviated_by = @ \cup {module}]
        IN  Each(noted, subs_of(dev, "deviate"), LAMBDA y, d : Deviate(y, module, target, d))))

AllRoots(bb) ==
    UNION {Range(bb.module_root[m].roots) : m \in DOMAIN bb.module_root} \cup Range(YangDataRoots(bb))
Live(bb) == UNION {Subtree(bb, r) : r \in AllRoots(bb)}

\* The identities named by an accept list, all derived from the bases.
accepted_identities(bb, names, bases) ==
    LET id == [n \in names |-> IdentityId(bb, n[1], n[2])]
    IN  IF \E n \in names : id[n] = None THEN Err
        ELSE IF \E n \in names : id[n] \notin derived_from_all(bb, bases) THEN Err
        ELSE Ok({id[n] : n \in names})

accept_lists_by_base(bb) ==
    LET Id(base) == IdentityId(bb, base[1], base[2])
        known == {base \in DOMAIN args.identity_accept_lists : Id(base) # None}
        list == [base \in known |-> accepted_identities(bb, args.identity_accept_lists[base], <<Id(base)>>)]
    IN  IF \E base \in known : list[base] = Err THEN Err
        ELSE Ok([i \in {Id(base) : base \in known} |-> list[CHOOSE base \in known : Id(base) = i][2]])

accept_lists_by_leaf(bb) ==
    LET Leaf(path) == FirstOf(<<resolve_schema_path(bb, path),
                                resolve_yang_data_path(bb, YangDataRoots(bb), path)>>)
        paths == DOMAIN args.identityref_accept_lists
        Bad(path) == \/ Leaf(path) = None
                     \/ bb.nodes[Leaf(path)].kw \notin {"leaf", "leaf-list"}
                     \/ bb.nodes[Leaf(path)].ty.builtin # "Identityref"
        list == [p \in paths |-> accepted_identities(bb, args.identityref_accept_lists[p],
                                                     bb.nodes[Leaf(p)].ty.identity_bases)]
    IN  IF \E p \in paths : Bad(p) THEN Err
        ELSE IF \E p \in paths : list[p] = Err THEN Err
        ELSE IF \E p, q \in paths : p # q /\ Leaf(p) = Leaf(q) THEN Err
        ELSE Ok([n \in {Leaf(p) : p \in paths} |-> list[CHOOSE p \in paths : Leaf(p) = n][2]])

RECURSIVE assign_identity_values(_, _, _, _)
assign_identity_values(bb, ty, by_leaf, by_base) ==
    LET ForBase(base) == IF base \in DOMAIN by_base THEN by_base[base]
                         ELSE transitive_derived_excluding_self(bb, base)
        bases == Range(ty.identity_bases)
        values == IF by_leaf # None THEN by_leaf
                  ELSE IF bases = {} THEN {}
                  ELSE {i \in DOMAIN bb.identities : \A base \in bases : i \in ForBase(base)}
        members == [i \in DOMAIN ty.union_members |->
                      assign_identity_values(bb, ty.union_members[i], None, by_base)]
    IN  [ty EXCEPT !.identity_values = IF ty.builtin = "Identityref" THEN values ELSE @,
                   !.union_members = members]

RECURSIVE collect_identity_values(_)
collect_identity_values(ty) ==
    (IF ty.identity_values = None THEN {} ELSE ty.identity_values)
    \cup UNION {collect_identity_values(m) : m \in Range(ty.union_members)}

\* Mutant: its typedef, not what that is made of.
mark_reachable_typedefs_Shallow(bb, ty) ==
    {ty} \cup Range(ty.union_members) \cup (IF ty.base = None THEN {} ELSE {bb.typedefs[ty.base].ty})

\* The types that make up a type: itself, its typedefs and its members.
RECURSIVE mark_reachable_typedefs(_, _)
mark_reachable_typedefs(bb, ty) ==
    {ty} \cup (IF ty.base = None THEN {} ELSE mark_reachable_typedefs(bb, bb.typedefs[ty.base].ty))
         \cup UNION {mark_reachable_typedefs(bb, m) : m \in Range(ty.union_members)}

RECURSIVE BasesOf(_, _)
BasesOf(bb, ids) ==
    LET more == ids \cup UNION {Range(bb.identities[i].base) : i \in ids}
    IN  IF more = ids THEN ids ELSE BasesOf(bb, more)

\* What the live nodes use, once their identityrefs have their values.
Reached(bb, assigned) ==
    LET live == Live(bb)
        Types(nodes) == {nodes[n].ty : n \in {x \in live : nodes[x].ty # None}}
        reached == UNION {mark_reachable_typedefs(bb, ty) : ty \in Types(bb.nodes)}
        values == UNION {collect_identity_values(ty) : ty \in Types(assigned)}
    IN  [bb EXCEPT !.nodes = assigned,
                   !.reachable_typedefs = {ty.base : ty \in reached} \ {None},
                   !.referenced_modules = UNION {bb.nodes[n].references_modules : n \in live},
                   !.implemented_identities = values,
                   !.reachable_identities =
                       BasesOf(bb, values \cup UNION {Range(ty.identity_bases) : ty \in reached})]

compute_reachable_typedefs(bb) ==
    LET implemented == [bb EXCEPT !.yang_data =
                          SelectSeq(@, LAMBDA y : <<y.module, y.name>> \in args.implemented_yang_data)]
        known == {<<bb.yang_data[i].module, bb.yang_data[i].name>> : i \in DOMAIN bb.yang_data}
        Assigned(by_leaf, by_base) ==
            [n \in DOMAIN bb.nodes |->
                IF n \notin Live(implemented) \/ bb.nodes[n].ty = None THEN bb.nodes[n]
                ELSE [bb.nodes[n] EXCEPT !.ty = assign_identity_values(implemented, @,
                        IF n \in DOMAIN by_leaf THEN by_leaf[n] ELSE None, by_base)]]
    IN  Then(accept_lists_by_base(bb), LAMBDA by_base :
          IF ~(args.implemented_yang_data \subseteq known) THEN Err
          ELSE Then(accept_lists_by_leaf(implemented), LAMBDA by_leaf :
                 Ok(Reached(implemented, Assigned(by_leaf, by_base)))))

Up == Ref("", "..")

\* Mutant: the path starts at the parent of the leaf, and the top is its own
\* parent.
resolve_relative_leafref_Parent(bb, n, path) ==
    FoldLeft(LAMBDA cur, seg : IF cur = None THEN None
                               ELSE IF seg # Up THEN find_by_local(bb, cur, local_of(seg))
                               ELSE IF bb.nodes[cur].parent = None THEN cur ELSE bb.nodes[cur].parent,
             bb.nodes[n].parent, path)

resolve_relative_leafref(bb, n, path) ==
    FoldLeft(LAMBDA cur, seg : IF cur = None THEN None
                               ELSE IF seg = Up THEN bb.nodes[cur].parent
                               ELSE find_by_local(bb, cur, local_of(seg)),
             n, path)

RECURSIVE resolve_leafref_in_descriptor(_, _, _)
resolve_leafref_in_descriptor(bb, n, ty) ==
    LET relative == resolve_relative_leafref(bb, n, ty.leafref_path)
        target == IF ty.leafref_path[1] # Up
                  THEN resolve_absolute_schema_node_id(bb, ty.source_module, ty.leafref_path)
                  ELSE IF relative = None THEN Err ELSE Ok(relative)
        own == IF ty.builtin # "Leafref" THEN Ok(ty)
               ELSE IF ty.leafref_path = None THEN Ok(ty)
               ELSE Then(target, LAMBDA t : IF bb.nodes[t].kw \notin {"leaf", "leaf-list"} THEN Err
                                            ELSE Ok([ty EXCEPT !.leafref_target = t]))
        members == Collect(ty.union_members, LAMBDA m : resolve_leafref_in_descriptor(bb, n, m))
    IN  Then(own, LAMBDA x : Then(members, LAMBDA ms : Ok([x EXCEPT !.union_members = ms])))

resolve_leafrefs(bb) ==
    LET typed == {n \in Live(bb) : bb.nodes[n].ty # None}
        ty == [n \in typed |-> resolve_leafref_in_descriptor(bb, n, bb.nodes[n].ty)]
    IN  IF \E n \in typed : ty[n] = Err THEN Err
        ELSE Ok([bb EXCEPT !.nodes = [n \in DOMAIN @ |->
                   IF n \in typed THEN [@[n] EXCEPT !.ty = ty[n][2]] ELSE @[n]]])

-----------------------------------------------------------------------------
(* build.                                                                  *)

Step(op, arg) == <<op, arg>>

SortedNames == SelectSeq(ModuleNames, LAMBDA m : RawModule(m) # None)

SchemaInit ==
    /\ builder = Ok(NewBuilder) /\ sids = None /\ modules = None
    /\ args \in BuildArgs
    /\ todo = [i \in DOMAIN SortedNames |-> Step("module", SortedNames[i])]
              \o [i \in DOMAIN args.sid_sources |-> Step("sids", args.sid_sources[i])]
              \o [i \in DOMAIN args.yang_sources |-> Step("deviations", args.yang_sources[i].name)]
              \o <<Step("reachable", None), Step("leafrefs", None)>>

\* The next step of build is op, which F does for its argument.
Do(op, F(_, _)) ==
    /\ builder # Err /\ todo # <<>>
    /\ todo[1][1] = op
    /\ builder' = F(builder[2], todo[1][2])
    /\ todo' = Tail(todo)
    /\ UNCHANGED <<args, sids, modules>>

EnsureModule == Do("module", ensure_module)
AttachSids == Do("sids", attach_sids)
ApplyDeviations == Do("deviations", apply_deviations)
ComputeReachable == Do("reachable", LAMBDA x, none : compute_reachable_typedefs(x))
ResolveLeafrefs == Do("leafrefs", LAMBDA x, none : resolve_leafrefs(x))

RECURSIVE Walk(_, _)
Walk(bb, ids) == FlattenSeq([i \in DOMAIN ids |-> <<ids[i]>> \o Walk(bb, bb.nodes[ids[i]].children)])

\* The modules that have something in the datastore, or say something of it.
Implemented(bb) ==
    {m \in DOMAIN bb.module_root :
        \/ bb.module_root[m].roots # <<>> \/ bb.module_root[m].deviated_by # {}
        \/ \E aug \in Range(subs_of(RawModule(m), "augment")) :
             resolve_absolute_schema_node_id(bb, m, aug.arg) # Err
        \/ sub(RawModule(m), "deviation") # None
        \/ \E i \in DOMAIN bb.yang_data : bb.yang_data[i].module = m
        \/ \E i \in bb.implemented_identities : bb.identities[i].module = m}

\* The other modules that are used, with the revisions they are imported by.
ImportOnly(bb, implemented) ==
    LET used == ({bb.typedefs[t].module : t \in bb.reachable_typedefs}
                 \cup {bb.identities[i].module : i \in bb.reachable_identities}
                 \cup bb.referenced_modules) \ implemented
        Imports(m) == {i \in UNION {Range(subs_of(RawModule(x), "import")) : x \in implemented \cup used} : i.arg = m}
        Date(i) == IF sub(i, "revision-date") = None THEN None ELSE sub(i, "revision-date").arg
        Dates(m) == IF Imports(m) = {} THEN {None} ELSE {Date(i) : i \in Imports(m)}
    IN  UNION {{m} \X Dates(m) : m \in used}

\* index_sids goes through the implemented modules in the order of a hash map,
\* then through the yang-data: of two nodes with one SID the last one stays.
finish ==
    /\ builder # Err /\ todo = <<>> /\ sids = None
    /\ LET bb == builder[2]
           implemented == Implemented(bb)
       IN  /\ modules' = [implemented |-> implemented, import_only |-> ImportOnly(bb, implemented)]
           /\ \E order \in [1 .. Cardinality(implemented) -> implemented] :
                /\ IsInjective(order)
                /\ LET tops == FlattenSeq([i \in DOMAIN order |-> bb.module_root[order[i]].roots])
                       walk == SelectSeq(Walk(bb, tops \o YangDataRoots(bb)), LAMBDA n : bb.nodes[n].sid # None)
                   IN  sids' = FoldLeft(LAMBDA index, n : With(index, bb.nodes[n].sid, n), <<>>, walk)
    /\ UNCHANGED <<args, builder, todo>>

SchemaNext ==
    EnsureModule \/ AttachSids \/ ApplyDeviations \/ ComputeReachable \/ ResolveLeafrefs \/ finish

-----------------------------------------------------------------------------
(* Correctness.                                                            *)

Done == builder # Err /\ todo = <<>>
Stage(op) == builder # Err /\ todo # <<>> /\ todo[1][1] = op

\* The parent of a node in the data tree, where choices and cases are not.
RECURSIVE DataParent(_, _)
DataParent(bb, n) ==
    LET p == bb.nodes[n].parent
    IN  IF p = None THEN None
        ELSE IF bb.nodes[p].kw \in {"choice", "case"} THEN DataParent(bb, p) ELSE p
IsData(bb, n) == bb.nodes[n].kw \notin {"choice", "case", "input", "output"}

\* A node's name has its module exactly when the node is at the top of the
\* data tree or its parent there belongs to another module: the member names
\* that the codec compares with those of a request (RFC 7951, section 4).
NamesAreQualified ==
    Done => \A n \in {x \in Live(builder[2]) : IsData(builder[2], x)} :
        LET p == DataParent(builder[2], n)
            needed == IF p = None THEN TRUE
                      ELSE builder[2].nodes[n].owner_module # builder[2].nodes[p].owner_module
        IN  builder[2].nodes[n].name[2] = (IF needed THEN builder[2].nodes[n].owner_module ELSE "")

\* What a type statement means where it stands: chain is the statements
\* around it, the module's first.
RECURSIVE LexicalBuiltin(_, _, _)
LexicalBuiltin(m, chain, t) ==
    LET Def(subs) == Find(subs, LAMBDA s : s.kw = "typedef" /\ s.arg = local_of(t.arg))
        frames == {i \in DOMAIN chain : Def(chain[i]) # None}
        inner == CHOOSE i \in frames : \A j \in frames : j <= i
        other == split_qualified(m, t.arg)[2][1]
    IN  IF t.arg[1] = "builtin" THEN t.arg[2]
        ELSE IF t.arg[2] = "" THEN LexicalBuiltin(m, SubSeq(chain, 1, inner), sub(Def(chain[inner]), "type"))
        ELSE LexicalBuiltin(other, <<RawModule(other).subs>>, sub(Def(RawModule(other).subs), "type"))

RECURSIVE LexicalTypes(_, _)
LexicalTypes(m, chain) ==
    UNION {IF s.kw \in {"leaf", "leaf-list"} THEN {<<s, LexicalBuiltin(m, chain, sub(s, "type"))>>}
           ELSE LexicalTypes(m, Append(chain, s.subs)) : s \in Range(Last(chain))}

\* A leaf has the type that its statement means where it is written, whatever
\* is declared where its grouping is used.
TypesAreLexical ==
    Stage("sids") => \A n \in {x \in Live(builder[2]) : builder[2].nodes[x].kw \in {"leaf", "leaf-list"}} :
        <<builder[2].nodes[n].stmt, builder[2].nodes[n].ty.builtin>>
            \in UNION {LexicalTypes(m, <<RawModule(m).subs>>) : m \in {args.yang_sources[i].name : i \in DOMAIN args.yang_sources}}

\* A relative leafref points where its path leads in the data tree, from the
\* leaf itself, as the comment inside resolve_relative_leafref and RFC 7950
\* have it (the comment above the function starts at the leaf's parent).
LeafrefsFollowTheData ==
    Done => \A n \in {x \in Live(builder[2]) : builder[2].nodes[x].ty # None} :
        LET ty == builder[2].nodes[n].ty
            Kids(p) == {c \in Live(builder[2]) : IsData(builder[2], c) /\ DataParent(builder[2], c) = p}
            Go(cur, seg) == IF seg = Up THEN {DataParent(builder[2], x) : x \in cur}
                            ELSE {c \in UNION {Kids(x) : x \in cur} : LocalName(builder[2], c) = local_of(seg)}
        IN  ty.builtin = "Leafref" => IF ty.leafref_path[1] # Up THEN TRUE
                                      ELSE ty.leafref_target \in FoldLeft(Go, {n}, ty.leafref_path)

RECURSIVE IdentityTypes(_)
IdentityTypes(ty) ==
    (IF ty.builtin = "Identityref" THEN {ty} ELSE {})
    \cup UNION {IdentityTypes(m) : m \in Range(ty.union_members)}

\* The values of an identityref are derived from all of its bases, in any
\* number of steps, and are all of these unless a list says which.
IdentityValuesDerive ==
    Done =>
        LET ids == DOMAIN builder[2].identities
            above == [i \in ids |-> BasesOf(builder[2], Range(builder[2].identities[i].base))]
            Listed(base) == <<builder[2].identities[base].module, builder[2].identities[base].name>>
                                \in DOMAIN args.identity_accept_lists
            leaves == {resolve_schema_path(builder[2], p) : p \in DOMAIN args.identityref_accept_lists}
        IN  \A n \in {x \in Live(builder[2]) : builder[2].nodes[x].ty # None} : \A ty \in IdentityTypes(builder[2].nodes[n].ty) :
              LET bases == Range(ty.identity_bases)
                  derived == {i \in ids : bases \subseteq above[i]}
              IN  /\ ty.identity_values \subseteq derived
                  /\ n \notin leaves /\ ~(\E base \in bases : Listed(base)) => ty.identity_values = derived

\* Below a node that holds no configuration there is none, whoever deviated
\* what in which order.
ConfigIsInherited ==
    Done => \A n \in Live(builder[2]) : \A c \in Range(builder[2].nodes[n].children) :
        builder[2].nodes[n].config = FALSE => builder[2].nodes[c].config # TRUE

\* The sources can be built, in whatever order they are passed.
LegalSourcesBuild == builder # Err

Locals(path) == [i \in DOMAIN path |-> local_of(path[i])]

\* A deviation says that the node at path, or one above it, is not supported.
Unsupported(path) ==
    \E m \in Range(args.yang_sources) : \E dev \in Range(subs_of(m, "deviation")) :
        /\ \E d \in Range(dev.subs) : d.arg = "not-supported"
        /\ IsPrefix(Locals(dev.arg), Locals(path))

\* A SID leads to the node its .sid file names, whatever order the modules are
\* gone through in, and to none if a deviation took that node away or no
\* datastore has it.
SidsFindTheirNodes ==
    sids # None => \A f \in Range(args.sid_sources) : \A item \in Range(f.items) :
        item.namespace = "data" =>
            LET bb == builder[2]
                top == Name(item.identifier[1][2], item.identifier[1][3])
                path == schema_node_path_of(bb, sids[item.sid])
            IN  IF Unsupported(item.identifier) \/ ~ \E r \in AllRoots(bb) : bb.nodes[r].name = top
                THEN item.sid \notin DOMAIN sids
                ELSE /\ item.sid \in DOMAIN sids
                     /\ Locals(path) = Locals(item.identifier) /\ path[1] = top

RECURSIVE Statements(_)
Statements(subs) == Range(subs) \cup UNION {Statements(s.subs) : s \in Range(subs)}

\* Every module that something in the datastore comes from is listed, as
\* implemented if it owns a node or a value and as imported if nodes only use
\* its groupings, types or base identities.
UsedModulesAreListed ==
    modules # None =>
        LET bb == builder[2]
            imported == {i[1] : i \in modules.import_only}
            listed == modules.implemented \cup imported
            Used(ty) == {bb.identities[i].module : i \in BasesOf(bb, Range(ty.identity_bases))}
                        \cup (IF ty.base = None THEN {} ELSE {bb.typedefs[ty.base].module})
            RECURSIVE Parts(_)
            Parts(ty) == {ty} \cup UNION {Parts(m) : m \in Range(ty.union_members)}
                         \cup (IF ty.base = None THEN {} ELSE Parts(bb.typedefs[ty.base].ty))
        IN  /\ modules.implemented \cap imported = {}
            /\ \A n \in Live(bb) :
                 /\ bb.nodes[n].owner_module \in modules.implemented
                 /\ bb.nodes[n].stmt # None =>
                      \E m \in listed : bb.nodes[n].stmt \in Statements(RawModule(m).subs)
                 /\ bb.nodes[n].ty # None =>
                      /\ UNION {Used(ty) : ty \in Parts(bb.nodes[n].ty)} \subseteq listed
                      /\ {bb.identities[i].module : i \in collect_identity_values(bb.nodes[n].ty)}
                           \subseteq modules.implemented
=============================================================================
