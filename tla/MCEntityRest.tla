---------------------------- MODULE MCEntityRest ----------------------------
(* The calls of the small instance.                                        *)
EXTENDS PackageRest, TLC

CONSTANTS u1, u2, k1, k2, r1

-----------------------------------------------------------------------------
(* EntityRest.                                                             *)

Ask(verb) == [verb |-> verb, user |-> u1, key |-> None, body |-> "a", id |-> r1,
              tag |-> NoTag, mask |-> 0, max |-> MaskBits6]

Creates ==
    {[Ask("create") EXCEPT !.id = None, !.key = k, !.user = u, !.body = b] :
        <<k, u, b>> \in {<<k1, u1, "a">>, <<k1, u1, "b">>, <<k1, u2, "a">>, <<k2, u1, "a">>,
                         <<k1, u1, "bad">>, <<None, u1, "a">>}}

Updates ==
    {[Ask("update") EXCEPT !.tag = t] : t \in {NoTag, Star, 1, 2}}
    \cup {[Ask("patch") EXCEPT !.tag = 1], [Ask("update") EXCEPT !.id = None]}

Others ==
    {Ask(v) : v \in {"action", "run", "delete", "read"}}
    \cup {[Ask("read") EXCEPT !.tag = 1]}
    \cup {[Ask("grant") EXCEPT !.mask = g[1], !.max = g[2]] :
             g \in {<<63, MaskBits6>>, <<64, MaskBits6>>, <<64, MaskBits10>>, <<1024, MaskBits10>>}}

MCMenu == Creates \cup Updates \cup Others

\* What is guarded: a create by its key, an update and a patch by a tag.
MCGuarded == {[Ask("create") EXCEPT !.id = None, !.key = k1]}
             \cup {[Ask(v) EXCEPT !.tag = 1] : v \in {"update", "patch"}}
MCUsers == {u1, u2}
MCKeys == {k1, k2}
MCRows == {r1}

-----------------------------------------------------------------------------
(* PackageRest.                                                            *)

Do(handler) == [handler |-> handler, user |-> u1, id |-> None, to |-> None, set |-> {},
                params |-> {}, body |-> "ok"]
Of(handler) == [Do(handler) EXCEPT !.id = r1]

Param(kind, rows, n) == [kind |-> kind, rows |-> rows, ok |-> TRUE, n |-> n]
BadFilter == [Param("filter", MCRows, 0) EXCEPT !.ok = FALSE]

Iptables == {Of("iptable-get")} \cup {[Of("iptable-put") EXCEPT !.set = s] :
                                         s \in {{"allow"}, {"deny"}, {"allow", "deny"}}}

OfRow == {Of(h) : h \in {"memberships", "membership-add", "membership-delete",
                         "members", "members-add", "members-delete", "change-password",
                         "files", "files-add", "file", "file-delete", "files-clear",
                         "methods", "user-memberships"}}
         \cup {[Of(h) EXCEPT !.to = "class"] : h \in {"class-copy", "class-clone"}}

OfUser ==
    {Do(h) : h \in {"me", "registry-read", "registry-delete", "registry-delete-key",
                    "registry-delete-tree", "registry", "registry-keys", "registry-enum",
                    "key-path", "log-write", "log-entry", "listeners", "listener", "error",
                    "new-code", "confirm"}}
    \cup {[Do("registry-write") EXCEPT !.set = {"integer"}, !.body = b] : b \in {"whole", "fraction"}}
    \cup {[Do("address") EXCEPT !.params = {Param("id", {}, n)}] : n \in {0, MaxInt32}}
    \cup {[Do("me-patch") EXCEPT !.set = s] :
             s \in {{}, {"area", "locale"}, {"interface", "oper_date"}}}
    \cup {[Do("confirm") EXCEPT !.body = "bad"]}

Listings ==
    {[Do("list") EXCEPT !.params = ps] :
        ps \in {{}, {Param("filter", MCRows, 0)}, {Param("typo", MCRows, 0)}, {BadFilter},
                {Param("limit", Ids, 1)}, {Param("limit", Ids, 0)},
                {Param("limit", Ids, MaxLimit + 1)}, {Param("offset", Ids, 1)},
                {Param("offset", Ids, -1), Param("own", {}, 0)}, {Param("term", MCRows, 0)}}}
    \cup {[Do("entities") EXCEPT !.params = ps] :
        ps \in {{Param("own", {}, 0)},
                {Param("term", MCRows, 0), Param("offset", Ids, 1)},
                {Param("term", MCRows, 0), Param("term", Ids, 0)}}}

Changes == {Do("changed"), [Do("changed") EXCEPT !.params = {Param("objects", Ids, 0)}],
            Do("search"), [Do("search") EXCEPT !.params = {Param("term", MCRows, 0)}]}

MCPkgMenu == Changes \cup Iptables \cup OfRow \cup OfUser \cup Listings

MCSymmetry == Permutations(Calls) \cup Permutations(PkgCalls)
=============================================================================
