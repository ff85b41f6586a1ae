---------------------------- MODULE YangCatalog ----------------------------
(***************************************************************************)
(* yang/src/yang_catalog.rs: a schema that was built is written out as one *)
(* document of tables that refer to one another by name, which is then     *)
(* checked against itself.                                                 *)
(*                                                                         *)
(* A table is a function from keys to entries.  An absent field is None.   *)
(* Lists that the code sorts are sets.  Descriptions, statuses, defaults,  *)
(* units and the restrictions of types are left out: nothing refers to     *)
(* them.                                                                   *)
(***************************************************************************)
EXTENDS YangSchema

VARIABLE doc \* None, then Ok(the document) or Err

catalogVars == <<schemaVars, doc>>

IdentityName(bb, i) == Name(bb.identities[i].module, bb.identities[i].name)
typedef_key(bb, t) == <<bb.typedefs[t].scope, bb.typedefs[t].name>>
Paths(bb, ids) == [i \in DOMAIN ids |-> schema_node_path_of(bb, ids[i])]

\* A table without one of its keys.
Without(f, key) == [k \in DOMAIN f \ {key} |-> f[k]]

-----------------------------------------------------------------------------
(* The document.                                                           *)

RECURSIVE type_descriptor(_, _)
type_descriptor(bb, ty) ==
    [builtin |-> ty.builtin,
     base_type |-> IF ty.base = None THEN None ELSE typedef_key(bb, ty.base),
     base |-> {IdentityName(bb, i) : i \in Range(ty.identity_bases)},
     values |-> IF ty.identity_values = None THEN None ELSE {IdentityName(bb, i) : i \in ty.identity_values},
     target |-> IF ty.leafref_target = None THEN None ELSE schema_node_path_of(bb, ty.leafref_target),
     type |-> [i \in DOMAIN ty.union_members |-> type_descriptor(bb, ty.union_members[i])]]

typedef_entry(bb, t) == [module |-> bb.typedefs[t].module, type |-> type_descriptor(bb, bb.typedefs[t].ty)]

identity_entry(bb, i) ==
    [module |-> bb.identities[i].module, sid |-> bb.identities[i].sid,
     base |-> {IdentityName(bb, x) : x \in Range(bb.identities[i].base)}]

Childless == {"leaf", "leaf-list", "anydata", "anyxml"}
Configurable == Childless \cup {"container", "list", "choice"}

\* Nodes of a list, with the data nodes of choices and cases in their places.
RECURSIVE DataNodes(_, _)
DataNodes(bb, ids) ==
    FlattenSeq([i \in DOMAIN ids |-> IF bb.nodes[ids[i]].kw \in {"choice", "case"}
                                     THEN DataNodes(bb, bb.nodes[ids[i]].children) ELSE <<ids[i]>>])

schema_node_entry(bb, n) ==
    LET node == bb.nodes[n]
        Unless(c, v) == IF c THEN None ELSE v
    IN  [keyword |-> node.kw, module |-> node.owner_module, sid |-> node.sid,
         parent |-> IF node.parent = None THEN None ELSE schema_node_path_of(bb, node.parent),
         schema_children |-> Unless(node.kw \in Childless, Paths(bb, node.children)),
         data_children |-> Unless(node.kw \in Childless, Paths(bb, DataNodes(bb, node.children))),
         keys |-> Unless(node.kw # "list", Paths(bb, node.keys)),
         config |-> Unless(node.kw \notin Configurable, node.config),
         type |-> IF node.ty = None THEN None ELSE type_descriptor(bb, node.ty)]

TypedefsOf(bb, m) == {typedef_key(bb, t) : t \in {x \in bb.reachable_typedefs : bb.typedefs[x].module = m}}
IdentitiesOf(bb, m, ids) == {IdentityName(bb, i) : i \in {x \in ids : bb.identities[x].module = m}}

ModuleEntry(bb, m, ids) ==
    [sid |-> bb.module_root[m].sid, namespace |-> RawModule(m).namespace,
     schema_root_nodes |-> Paths(bb, bb.module_root[m].roots),
     data_root_nodes |-> Paths(bb, DataNodes(bb, bb.module_root[m].roots)),
     typedefs |-> TypedefsOf(bb, m), identities |-> IdentitiesOf(bb, m, ids),
     yang_data |-> {Name(m, y.name) : y \in {x \in Range(bb.yang_data) : x.module = m}},
     deviations |-> bb.module_root[m].deviated_by]

\* Mutant: also the identities that are only bases.
module_entry_Bases(bb, m) == ModuleEntry(bb, m, bb.reachable_identities)

module_entry(bb, m) == ModuleEntry(bb, m, bb.reachable_identities \cap bb.implemented_identities)

import_only_module_entry(bb, m) ==
    [name |-> m, sid |-> bb.module_root[m].sid, namespace |-> RawModule(m).namespace,
     typedefs |-> TypedefsOf(bb, m),
     identities |-> IdentitiesOf(bb, m, bb.reachable_identities)]

\* The nodes that are written: those of the listed modules, then the yang-data.
Written(bb) ==
    Walk(bb, FlattenSeq([i \in DOMAIN SortedNames |->
                IF SortedNames[i] \in modules.implemented THEN bb.module_root[SortedNames[i]].roots ELSE <<>>])
             \o YangDataRoots(bb))

ListedModules == modules.implemented \cup {i[1] : i \in modules.import_only}

\* sid-index: of two entries with one SID the later one stays.
SidIndex(bb) ==
    LET names == SelectSeq(SortedNames, LAMBDA m : m \in ListedModules)
        ids == SelectSeq([i \in DOMAIN bb.identities |-> i], LAMBDA i : i \in bb.reachable_identities)
        nodes_ == Written(bb)
        entries == [i \in DOMAIN names |-> <<bb.module_root[names[i]].sid, <<"module", names[i]>>>>]
                   \o [i \in DOMAIN ids |-> <<bb.identities[ids[i]].sid, <<"identity", IdentityName(bb, ids[i])>>>>]
                   \o [i \in DOMAIN nodes_ |-> <<bb.nodes[nodes_[i]].sid, <<"data", schema_node_path_of(bb, nodes_[i])>>>>]
    IN  FoldLeft(LAMBDA f, e : IF e[1] = None THEN f ELSE With(f, e[1], e[2]), <<>>, entries)

\* The .sid files are incomplete, or a leaf has no type or a leafref no path.
Incomplete(bb) ==
    \/ \E m \in ListedModules : bb.module_root[m].sid = None
    \/ \E i \in bb.reachable_identities : bb.identities[i].sid = None
    \/ \E n \in Range(Written(bb)) :
         \/ bb.nodes[n].kw \notin {"choice", "case"} /\ bb.nodes[n].sid = None
         \/ bb.nodes[n].kw \in {"leaf", "leaf-list"} /\ bb.nodes[n].ty = None
         \/ bb.nodes[n].ty # None /\ \E ty \in mark_reachable_typedefs(bb, bb.nodes[n].ty) :
                                        ty.builtin = "Leafref" /\ ty.leafref_path = None

Document(bb) ==
    LET Key(i) == <<IF i[2] = None THEN "" ELSE i[2], i[1]>>
    IN  [modules |-> [m \in modules.implemented |-> module_entry(bb, m)],
         import_only_modules |-> [k \in {Key(i) : i \in modules.import_only} |-> import_only_module_entry(bb, k[2])],
         typedefs |-> [k \in {typedef_key(bb, t) : t \in bb.reachable_typedefs} |->
                         typedef_entry(bb, CHOOSE t \in bb.reachable_typedefs : typedef_key(bb, t) = k)],
         identities |-> [k \in {IdentityName(bb, i) : i \in bb.reachable_identities} |->
                           identity_entry(bb, CHOOSE i \in bb.reachable_identities : IdentityName(bb, i) = k)],
         schema_nodes |-> FoldLeft(LAMBDA f, n : With(f, schema_node_path_of(bb, n), schema_node_entry(bb, n)),
                                   <<>>, Written(bb)),
         yang_data |-> [k \in {Name(y.module, y.name) : y \in Range(bb.yang_data)} |->
                          LET y == CHOOSE x \in Range(bb.yang_data) : Name(x.module, x.name) = k
                          IN  [module |-> y.module, root |-> schema_node_path_of(bb, y.root)]],
         sid_index |-> SidIndex(bb)]

-----------------------------------------------------------------------------
(* verify_yang_catalog: the errors are collected and returned at the end,  *)
(* here it only counts whether there is one.                               *)

Panic == <<"Panic">>

RECURSIVE TypeParts(_)
TypeParts(t) == {t} \cup UNION {TypeParts(m) : m \in Range(t.type)}

\* The parts of the types of nodes, and of typedefs.
NodeTypes(d) == UNION {TypeParts(node.type) : node \in {x \in Range(d.schema_nodes) : x.type # None}}
TypedefTypes(d) == UNION {TypeParts(t.type) : t \in Range(d.typedefs)}

collect_base_types(types) == {t.base_type : t \in types} \ {None}
collect_identityref_bases(types) == UNION {t.base : t \in types}
collect_identityref_values(types) == UNION {t.values : t \in {x \in types : x.values # None}}

\* The bases of the named identities, and theirs.
RECURSIVE Above(_, _, _)
Above(d, names, seen) ==
    LET new == UNION {d.identities[k].base : k \in names \cap DOMAIN d.identities} \ seen
    IN  IF new = {} THEN seen ELSE Above(d, new, seen \cup new)

derives_from(d, identity, base) == base \in Above(d, {identity}, {})

check_type_descriptor(d, types) ==
    \A t \in types : /\ t.base_type \in DOMAIN d.typedefs \cup {None}
                     /\ t.target = None \/ t.target \in DOMAIN d.schema_nodes

check_identityref_values(d) ==
    \A t \in NodeTypes(d) : t.builtin = "Identityref" =>
        /\ t.values # None
        /\ \A v \in t.values : v \in DOMAIN d.identities /\ \A b \in t.base : derives_from(d, v, b)

\* Parents and children name one another, and everything named is there.
TreeAgrees(d) ==
    \A p \in DOMAIN d.schema_nodes :
        LET node == d.schema_nodes[p]
            Found(paths) == paths = None \/ Range(paths) \subseteq DOMAIN d.schema_nodes
        IN  /\ node.parent # None => /\ node.parent \in DOMAIN d.schema_nodes
                                     /\ d.schema_nodes[node.parent].schema_children # None
                                     /\ p \in Range(d.schema_nodes[node.parent].schema_children)
            /\ Found(node.schema_children) /\ Found(node.data_children) /\ Found(node.keys)
            /\ node.schema_children # None =>
                 \A c \in Range(node.schema_children) :
                    d.schema_nodes[c].parent # None /\ d.schema_nodes[c].parent = p

ModulesAgree(d) ==
    \A m \in DOMAIN d.modules :
        LET entry == d.modules[m]
        IN  /\ Range(entry.schema_root_nodes) \cup Range(entry.data_root_nodes) \subseteq DOMAIN d.schema_nodes
            /\ entry.typedefs \subseteq DOMAIN d.typedefs
            /\ entry.identities \subseteq DOMAIN d.identities
            /\ entry.deviations \subseteq DOMAIN d.modules \ {m}
            /\ \A k \in entry.yang_data : k \in DOMAIN d.yang_data /\ d.yang_data[k].module = m

YangDataAgrees(d) ==
    \A k \in DOMAIN d.yang_data :
        LET template == d.yang_data[k]
        IN  /\ template.module \in DOMAIN d.modules
            /\ k \in d.modules[template.module].yang_data
            /\ template.root \in DOMAIN d.schema_nodes
            /\ d.schema_nodes[template.root].keyword = "container"
            /\ d.schema_nodes[template.root].module = template.module

ImportsAgree(d) ==
    \A k \in DOMAIN d.import_only_modules :
        LET entry == d.import_only_modules[k]
        IN  /\ entry.typedefs \subseteq DOMAIN d.typedefs
            /\ entry.identities \subseteq DOMAIN d.identities
            /\ entry.name = k[2] /\ entry.name \notin DOMAIN d.modules
            /\ \A m \in DOMAIN d.modules : d.modules[m].namespace # entry.namespace
            /\ \A other \in Range(d.import_only_modules) :
                 other.namespace = entry.namespace => other.name = entry.name

\* An identity is listed by its own module, if by any; only the bases of an
\* implemented module are not listed.
ListingsAgree(d) ==
    \A k \in DOMAIN d.identities :
        LET module == d.identities[k].module
            listing == {<<"module", m>> : m \in {x \in DOMAIN d.modules : k \in d.modules[x].identities}}
                       \cup {<<"import", e.name>> : e \in {x \in Range(d.import_only_modules) : k \in x.identities}}
        IN  /\ Cardinality(listing) <= 1
            /\ \A l \in listing : l[2] = module
            /\ listing = {} => module \in DOMAIN d.modules

\* What an entry of sid-index names is in the document.
Indexable(d, what) ==
    CASE what[1] = "module" -> \/ what[2] \in DOMAIN d.modules
                               \/ \E e \in Range(d.import_only_modules) : e.name = what[2]
      [] what[1] = "identity" -> what[2] \in DOMAIN d.identities
      [] what[1] = "data" -> what[2] \in DOMAIN d.schema_nodes

\* Mutant: sid-index is compared with the document in one direction only.
SidsAgree_Forward(d) == \A what \in Range(d.sid_index) : Indexable(d, what)

\* sid-index is the SIDs of the document, no more and no fewer.
SidsAgree(d) ==
    LET Indexed(sid, what) == sid \in DOMAIN d.sid_index /\ d.sid_index[sid] = what
        module_sids == {e.sid : e \in Range(d.modules)} \cup {e.sid : e \in Range(d.import_only_modules)}
        with_sid == {p \in DOMAIN d.schema_nodes : d.schema_nodes[p].sid # None}
    IN  /\ \A what \in Range(d.sid_index) : Indexable(d, what)
        /\ \A m \in DOMAIN d.modules : Indexed(d.modules[m].sid, <<"module", m>>)
        /\ \A e \in Range(d.import_only_modules) : Indexed(e.sid, <<"module", e.name>>)
        /\ \A k \in DOMAIN d.identities : Indexed(d.identities[k].sid, <<"identity", k>>)
        /\ \A p \in with_sid : Indexed(d.schema_nodes[p].sid, <<"data", p>>)
        /\ Cardinality(DOMAIN d.sid_index)
              = Cardinality(with_sid) + Cardinality(DOMAIN d.identities) + Cardinality(module_sids)

RECURSIVE Visited(_, _)
Visited(d, paths) ==
    LET below == UNION {IF d.schema_nodes[p].schema_children = None THEN {}
                        ELSE Range(d.schema_nodes[p].schema_children) : p \in paths \cap DOMAIN d.schema_nodes}
    IN  IF below \subseteq paths THEN paths ELSE Visited(d, paths \cup below)

\* What the walk from the nodes without a parent comes to.
Walked(d) == Visited(d, {p \in DOMAIN d.schema_nodes : d.schema_nodes[p].parent = None})

\* Every node is below a node without a parent, and those are the roots that
\* one module or yang-data lists.
RootsAgree(d) ==
    LET tops == {p \in DOMAIN d.schema_nodes : d.schema_nodes[p].parent = None}
        Listings(p) ==
            Cardinality({<<m, i>> \in UNION {{m} \X DOMAIN d.modules[m].schema_root_nodes : m \in DOMAIN d.modules} :
                           d.modules[m].schema_root_nodes[i] = p})
            + Cardinality({k \in DOMAIN d.yang_data : d.yang_data[k].root = p})
    IN  /\ DOMAIN d.schema_nodes \subseteq Walked(d)
        /\ \A p \in DOMAIN d.schema_nodes : Listings(p) = (IF p \in tops THEN 1 ELSE 0)

\* What is in the tables of typedefs and identities is used by something, and
\* the implemented identities are exactly the values of identityrefs.
NothingUnused(d) ==
    LET implemented == UNION {e.identities : e \in Range(d.modules)}
        refs == collect_identityref_bases(NodeTypes(d))
        bases == Above(d, implemented \cup refs, {})
    IN  /\ DOMAIN d.typedefs \subseteq collect_base_types(NodeTypes(d) \cup TypedefTypes(d))
        /\ DOMAIN d.identities \subseteq implemented \cup bases \cup refs
        /\ \A e \in Range(d.import_only_modules) : e.identities \subseteq bases \cup refs
        /\ implemented = collect_identityref_values(NodeTypes(d))

\* A node is outside of any datastore: below yang-data or an operation.
RECURSIVE OutsideDatastore(_, _)
OutsideDatastore(d, p) ==
    LET node == d.schema_nodes[p]
    IN  \/ \E t \in Range(d.yang_data) : t.root = p
        \/ node.keyword \in {"rpc", "action", "notification"}
        \/ IF node.parent = None THEN FALSE
           ELSE node.parent \in DOMAIN d.schema_nodes /\ OutsideDatastore(d, node.parent)

\* Exactly the nodes of a datastore say whether they hold configuration.
ConfigAgrees(d) ==
    \A p \in DOMAIN d.schema_nodes :
        LET node == d.schema_nodes[p]
        IN  /\ node.config # None <=> node.keyword \in Configurable /\ ~OutsideDatastore(d, p)
            /\ node.keyword \in Childless => node.schema_children = None /\ node.data_children = None

\* A typedef is the same wherever it is used.
TypedefsUnbound(d) ==
    /\ \A t \in Range(d.typedefs) : t.type.builtin = "Leafref" => t.type.target = None
    /\ collect_identityref_values(TypedefTypes(d)) = {}

AllAgree(d) ==
    /\ SidsAgree(d) /\ TreeAgrees(d) /\ ModulesAgree(d) /\ YangDataAgrees(d) /\ ImportsAgree(d)
    /\ check_type_descriptor(d, NodeTypes(d) \cup TypedefTypes(d))
    /\ check_identityref_values(d)
    /\ \A k \in DOMAIN d.identities : d.identities[k].base \subseteq DOMAIN d.identities
    /\ ListingsAgree(d) /\ RootsAgree(d) /\ NothingUnused(d) /\ ConfigAgrees(d) /\ TypedefsUnbound(d)

\* Ok with the document.  The walk indexes schema-nodes with every path it comes
\* to, although a child without an entry is among the errors collected by then.
verify_yang_catalog(d) ==
    IF ~(Walked(d) \subseteq DOMAIN d.schema_nodes) THEN Panic
    ELSE IF AllAgree(d) THEN Ok(d) ELSE Err

to_yang_catalog ==
    /\ modules # None /\ doc = None
    /\ doc' = IF Incomplete(builder[2]) THEN Err ELSE verify_yang_catalog(Document(builder[2]))
    /\ UNCHANGED schemaVars

CatalogInit == SchemaInit /\ doc = None
CatalogNext == (SchemaNext /\ UNCHANGED doc) \/ to_yang_catalog

-----------------------------------------------------------------------------
(* Correctness.                                                            *)

\* Sources with complete .sid files can be written out: whatever the build
\* kept, removed, listed and marked as reachable makes a document without
\* dangling or unused entries.
CompleteSourcesExport == doc \in {Err, Panic} => Incomplete(builder[2])

\* verify_yang_catalog notices when any one entry of any table is lost, but for
\* one of several revisions of an imported module: it returns errors, or panics
\* when the entry was that of a schema node with a parent, whose errors are then
\* never seen.
LossesAreNoticed ==
    doc \notin {None, Err, Panic} =>
        LET d == doc[2]
            revisions == {k \in DOMAIN d.import_only_modules :
                            \E other \in DOMAIN d.import_only_modules \ {k} : other[2] = k[2]}
        IN  \A table \in DOMAIN d : \A k \in DOMAIN d[table] :
              \/ table = "import_only_modules" /\ k \in revisions
              \/ verify_yang_catalog([d EXCEPT ![table] = Without(@, k)])
                    = IF table # "schema_nodes" THEN Err
                      ELSE IF d.schema_nodes[k].parent # None THEN Panic ELSE Err
=============================================================================
