----------------------------- MODULE MCManifest -----------------------------
(* Small manifests, each with the tenant it is applied to.                  *)
EXTENDS Manifest

Blank ==
    [kind |-> "role", key |-> 0, name |-> "x", depends |-> None, text |-> None,
     extra |-> None, roles |-> <<>>, segment |-> None, global |-> FALSE, typed |-> TRUE]

Entity(kind, key, name) ==
    [Blank EXCEPT !.kind = kind, !.key = key, !.name = name]

Object(kind, id, name, text) ==
    [kind |-> kind, id |-> id, name |-> name, text |-> text, extra |-> None, version |-> 1]

Bind(key, resource, narrow) == [role |-> key, resource |-> resource, narrow |-> narrow]

Binding(holder, r, scope) ==
    [subject |-> holder, role |-> r, resource |-> None, narrow |-> FALSE, scope |-> scope]

Policy == [Object("policy", 0, "policy", "900") EXCEPT !.version = 0]

\* A service account to be narrowed to a nested resource, beside a new one.
Accounts ==
    [manifest |-> <<
        [Entity("service_account", 1, "bot") EXCEPT !.roles = <<Bind(1, 1, TRUE)>>],
        [Entity("service_account", 2, "new") EXCEPT !.roles = <<Bind(1, None, FALSE)>>],
        [Entity("resource", 1, "child") EXCEPT !.depends = 3],
        Entity("resource", 3, "parent"),
        Entity("role", 1, "reader")>>,
     rows |-> {Policy, Object("resource", 1, "parent", None),
               Object("role", 2, "reader", "theirs"),
               Object("service_account", 3, "bot", "theirs")},
     bindings |-> {Binding(3, 2, "tenant")}]

\* A group whose description and whose second role are the tenant's own.
Groups ==
    [manifest |-> <<
        [Entity("group", 1, "team") EXCEPT !.roles = <<Bind(1, None, FALSE), Bind(2, None, FALSE)>>],
        [Entity("role", 1, "reader") EXCEPT !.text = "ours"],
        Entity("role", 2, "writer"),
        Entity("permission", 1, "read")>>,
     rows |-> {Policy, Object("group", 1, "team", "theirs"),
               Object("role", 2, "reader", "theirs"), Object("role", 3, "other", None)},
     bindings |-> {Binding(1, 3, None)}]

\* A segment to be changed, with the profile that is checked against it.
Network27 ==
    [manifest |-> <<
        [Entity("policy", 1, "policy") EXCEPT !.text = "600"],
        [Entity("profile", 1, "profile") EXCEPT !.segment = 1, !.text = "300"],
        [Entity("profile", 2, "profile") EXCEPT !.segment = 2, !.text = "300"],
        [Entity("segment", 1, "lab") EXCEPT !.text = "vlan2"],
        [Entity("segment", 2, "iot") EXCEPT !.text = "vlan3", !.extra = "rank"]>>,
     rows |-> {Policy, [Object("segment", 1, "lab", "vlan1") EXCEPT !.extra = "rank"],
               Object("profile", 1, "profile", "100")},
     bindings |-> {}]

\* A role and a resource that share a key, the role declared first.
SharedKey ==
    [manifest |-> <<
        Entity("role", 2, "reader"),
        [Entity("resource", 1, "child") EXCEPT !.depends = 2],
        Entity("resource", 2, "parent")>>,
     rows |-> {Policy}, bindings |-> {}]

\* Two accounts of one name: the tenant allows it, and the plan must refuse.
Twins ==
    [manifest |-> <<Entity("service_account", 1, "bot")>>,
     rows |-> {Policy, Object("service_account", 1, "bot", None),
               Object("service_account", 2, "bot", None)},
     bindings |-> {}]

\* A profile with a value that only a later server knows: one to be changed,
\* which the plan must refuse, and one that is as it should be.
Newer ==
    [manifest |-> <<
        [Entity("policy", 1, "policy") EXCEPT !.text = "600"],
        Entity("segment", 1, "lab"),
        [Entity("profile", 1, "profile") EXCEPT !.segment = 1, !.text = "300"]>>,
     rows |-> {Policy, Object("segment", 1, "lab", "vlan1"),
               [Object("profile", 1, "profile", "100") EXCEPT !.extra = "new"]},
     bindings |-> {}]

Settled == [Newer EXCEPT !.manifest[3].text = "100"]

SmallTexts == {"ours", "theirs", "100", "300", "600", "900", "vlan1", "vlan2", "vlan3", "rank",
               "new"}
SmallWorlds == {Accounts, Groups, Network27, SharedKey, Twins, Newer, Settled}
SharedKeyWorlds == {SharedKey}
AccountWorlds == {Accounts}
=============================================================================
