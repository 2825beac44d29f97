------------------------------ MODULE OpenApi ------------------------------
(***************************************************************************)
(* The description of the service: lib/openapi and lib/entity/openapi.go.  *)
(*                                                                         *)
(* The host composes its modules on one mux; a release, or the freshness   *)
(* test of a project, composes the same modules, takes the operations they *)
(* describe, builds the OpenAPI document of them and asks Gaps whether the *)
(* document and the mux agree.                                             *)
(*                                                                         *)
(* A name (of an entity, of a schema, of an operation) is the sequence of  *)
(* its words, so that names that differ by a separator are one name, as    *)
(* they are once joined.  A schema is its name, its Go type and its mode.  *)
(***************************************************************************)
EXTENDS Host

\* Entities: by its prefix, what entity.New is given: [name, plural, row,
\* body, own].  row and body are the types of a row, or None, and of a body;
\* own is what a package describes beside the form.
CONSTANTS Entities

VARIABLE described      \* the document and the gaps, once they are asked for

openVars == <<vars, described>>

-----------------------------------------------------------------------------
(* The form of lib/entity: what is mounted, and what is described.         *)

Schema(name, value, mode) == [name |-> name, value |-> value, mode |-> mode]

\* Problem, which every document has, and the row of GET <xs>/{id}/methods.
ProblemSchema == Schema(<<"problem">>, <<"problem", "Problem">>, "row")
MethodSchema  == Schema(<<"object", "method">>, <<"entity", "MethodRow">>, "row")

\* pascalOf, and the suffixes of form: capitalised words, no separator.
RowOf(e)   == Schema(e.name, e.row, "row")
InputOf(e) == Schema(Append(e.name, "input"), e.body, "create")
PatchOf(e) == Schema(Append(e.name, "patch"), e.body, "patch")

Operation(method, path, names, id, refs, statuses) ==
    [method |-> method, path |-> path, names |-> names, id |-> id,
     params |-> [i \in 1..Len(names) |-> [name |-> names[i], in |-> "path"]],
     refs |-> refs, statuses |-> statuses]

\* The pattern of an operation, as http.ServeMux spells it.
Pattern(o) == [method |-> o.method, path |-> o.path, names |-> o.names]

\* errs: what every route may answer.
Errs(statuses) == statuses \o <<"401", "403", "default">>

Form(p) ==
    LET e    == Entities[p]
        one  == Append(p, Wild)
        id(kind) == Append(e.plural, kind)
        row  == RowOf(e)
    IN  <<Operation("GET", p, <<>>, id("list"), {row}, Errs(<<"200", "400">>)),
          Operation("GET", one, <<"id">>, id("get"), {row}, Errs(<<"200", "304", "400", "404">>)),
          Operation("POST", p, <<>>, id("create"), {InputOf(e), row}, Errs(<<"201", "400", "409">>)),
          Operation("PATCH", one, <<"id">>, id("update"), {PatchOf(e), row},
                    Errs(<<"200", "400", "404", "412", "428">>)),
          Operation("POST", one \o <<"actions", Wild>>, <<"id", "action">>, id("action"), {row},
                    Errs(<<"200", "204", "400", "404", "413">>)),
          Operation("GET", Append(one, "methods"), <<"id">>, id("methods"), {MethodSchema},
                    Errs(<<"200", "400", "404">>))>>

\* Routes of an entity.
Routes(p) == {Pattern(o) : o \in Range(Form(p))}

\* Operations: nothing for an entity without a Row.
Operations(p) ==
    IF p \notin DOMAIN Entities \/ Entities[p].row = None THEN <<>>
    ELSE Form(p) \o Entities[p].own

MoreSpecific(r, s) == \A i \in 1..Len(r.path) : s.path[i] \in {Wild, r.path[i]}

\* Some request is taken by both patterns.
Meet(r, s) ==
    /\ r.method = s.method /\ Len(r.path) = Len(s.path)
    /\ \A i \in 1..Len(r.path) : r.path[i] = s.path[i] \/ Wild \in {r.path[i], s.path[i]}

\* An entity's package mounts the form, and what it likes beside it.
ASSUME EntityAssumption ==
    \A p \in DOMAIN Entities :
        LET e == Entities[p]
        IN  /\ p \in DOMAIN Table /\ Routes(p) \subseteq Table[p]
            /\ e.own \in Seq(Range(e.own))
            /\ \A o \in Range(Operations(p)) : Pattern(o) # None

\* What the mux took: it panics when of two patterns that meet neither, or
\* each, is the more specific one.  No pattern of the repository is for
\* another method, or has the segment that Gaps tries for a {name}.
ASSUME MuxAssumption ==
    LET routes == UNION {Table[p] : p \in DOMAIN Table}
    IN  /\ \A s \in Setups : Range(FlattenSeq(s.manifest)) \subseteq DOMAIN Table
        /\ \A p \in DOMAIN Table : IsFiniteSet(Table[p])
        /\ None \notin routes
        /\ \A r \in routes : /\ r.path \in Seq(Range(r.path))
                             /\ r.method \in {"GET", "POST", "PUT", "PATCH", "DELETE"}
                             /\ "v" \notin Range(r.path)
        /\ \A r, s \in routes :
             Meet(r, s) => r = s \/ (MoreSpecific(r, s) <=> ~MoreSpecific(s, r))

-----------------------------------------------------------------------------
(* Build.                                                                  *)

\* pathParams and the checks of operation: each {name} declared, once, and
\* nothing declared that is not in the path; some answer, none twice.
Sound(o) ==
    LET declared == {q.name : q \in {r \in Range(o.params) : r.in = "path"}}
    IN  /\ \A q \in Range(o.params) : q.in \in {"path", "query", "header"}
        /\ IsInjective(o.names) /\ declared = Range(o.names)
        /\ o.statuses # <<>> /\ IsInjective(o.statuses)

\* Every schema the document needs: a node becomes a $ref, and its schema a
\* component.
Sources(ops) == {ProblemSchema} \cup UNION {o.refs : o \in Range(ops)}

\* builder.schema: one name is given to one schema.
NamedOnce(sources) == \A s, t \in sources : s.name = t.name => s = t

\* An error, or a panic, is None.
Build(ops) ==
    LET sources == Sources(ops)
    IN  IF /\ \A o \in Range(ops) : Sound(o)
           /\ IsInjective([i \in DOMAIN ops |-> ops[i].id])
           /\ IsInjective([i \in DOMAIN ops |-> Pattern(ops[i])])
           /\ NamedOnce(sources)
          THEN [paths |-> {Pattern(o) : o \in Range(ops)},
                schemas |-> [n \in {s.name : s \in sources} |->
                               CHOOSE s \in sources : s.name = n]]
          ELSE None

-----------------------------------------------------------------------------
(* Gaps.                                                                   *)

\* concrete: a {name} becomes a segment.
Concrete(path) == [i \in 1..Len(path) |-> IF path[i] = Wild THEN "v" ELSE path[i]]

\* net/http: of the patterns that take a request, the most specific one.
Chosen(path, method) ==
    LET takers == Handler(path, method)
    IN  IF takers = {} THEN None
        ELSE CHOOSE r \in takers : \A s \in takers : MoreSpecific(r, s)

\* Mutation: the methods that ServeHTTP tries are enough.
ProbedFew == {"GET", "POST", "PATCH", "DELETE"}

Probed == {"GET", "HEAD", "POST", "PUT", "PATCH", "DELETE", "OPTIONS", "TRACE", "CONNECT"}

Gaps(ops) ==
    LET want == {Pattern(o) : o \in Range(ops)}
        probe(method, path) == Chosen(Concrete(path), method)
    IN  [missing      |-> {r \in want : probe(r.method, r.path) # r},
         undocumented |-> {probe(method, r.path) : method \in Probed, r \in want} \ (want \cup {None})]

\* The operations of every module the process is composed of, by their
\* places: the module's, and the operation's in it.
Ops == [at \in UNION {{i} \X DOMAIN Operations(Claimed[i]) : i \in DOMAIN Claimed} |->
          Operations(Claimed[at[1]])[at[2]]]

\* The document is generated, or its test runs, from a composed process that
\* is not started.
Describe ==
    /\ stage = "composed"
    /\ described' = [doc |-> Build(Ops), gaps |-> Gaps(Ops)]
    /\ UNCHANGED vars

-----------------------------------------------------------------------------
OpenInit == Init /\ described = None

OpenNext ==
    /\ described = None
    /\ \/ Describe
       \/ Next /\ UNCHANGED described

OpenSpec == OpenInit /\ [][OpenNext]_openVars

-----------------------------------------------------------------------------
(* Properties.                                                             *)

Built == described # None /\ described.doc # None

\* A path the mux may be asked for: {name}s with values the probe never had.
Asks(path) ==
    {c \in [1..Len(path) -> {"v", "w", "actions", "methods"} \cup Range(path)] :
        \A i \in 1..Len(path) : IF path[i] = Wild THEN c[i] # Wild ELSE c[i] = path[i]}

AnyMethod == {r.method : r \in mux} \cup {"HEAD", "OPTIONS"}

\* A document with no gaps is the service, whatever the values in the paths:
\* a request of any method on a path it describes is taken by a route it
\* describes, or by one whose path it does not name at all, which Gaps says
\* it cannot see; an operation is taken by its own route, or by a more
\* specific one; and every $ref of it leads to the schema that its operation
\* gave.
DocumentIsTheService ==
    Built =>
        /\ described.gaps.missing = {} /\ described.gaps.undocumented = {} =>
             LET want == described.doc.paths
             IN  \A o \in want : \A path \in Asks(o.path) :
                   /\ Chosen(path, o.method) # None
                   /\ \A method \in AnyMethod :
                        LET r == Chosen(path, method)
                        IN  r # None => r \in want \/ \A d \in want : d.path # r.path
        /\ \A o \in Range(Ops) : \A s \in o.refs : described.doc.schemas[s.name] = s
        /\ Cardinality(described.doc.paths) = Cardinality(DOMAIN Ops)
=============================================================================
