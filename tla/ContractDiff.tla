---------------------------- MODULE ContractDiff -----------------------------
(***************************************************************************)
(* diff_contracts of src/diff/mod.rs.  A contract is a function from       *)
(* operation identities to operations:                                     *)
(*   path       the path as its document spells it                         *)
(*   auth       name -> [kind, identity, scopes]                           *)
(*   servers    a set, or None in a lock of version 3                      *)
(*   params     [in, name] -> [name, required, schema]                     *)
(*   body       None or [required, content], required None in version 3    *)
(*   responses  status -> (media type -> schema)                           *)
(***************************************************************************)
EXTENDS SchemaDiff

(* diff_schema, called with the place of the schemas.                      *)
SchemaChanges(usage, at, old, new) == DiffUnder(at, usage, old, new)

SuccessStatuses == {"200", "201"}
ErrorStatuses == {"404", "500", "default"}

-----------------------------------------------------------------------------
DiffServers(old, new) ==
    IF None \in {old, new} THEN {}
    ELSE {Change(<<"server", s.site, s.vars>>, "removed", "breaking") : s \in old \ new}
           \cup {Change(<<"server", s.site, s.vars>>, "added", "nonBreaking") : s \in new \ old}

(* A faulty form: old and new change places.                               *)
DiffScopesSwapped(name, old, new) ==
    {Change(<<"auth", name, scope>>, "added", "breaking") : scope \in old.scopes \ new.scopes}
      \cup {Change(<<"auth", name, scope>>, "removed", "nonBreaking") :
               scope \in new.scopes \ old.scopes}

DiffScopes(name, old, new) ==
    {Change(<<"auth", name, scope>>, "added", "breaking") : scope \in new.scopes \ old.scopes}
      \cup {Change(<<"auth", name, scope>>, "removed", "nonBreaking") :
               scope \in old.scopes \ new.scopes}

DiffScheme(name, old, new) ==
    IF old.kind # new.kind THEN {Change(<<"auth", name>>, "type", "breaking")}
    ELSE IF None \notin {old.identity, new.identity} /\ old.identity # new.identity
    THEN {Change(<<"auth", name>>, "identity", "breaking")}
    ELSE {}

(* A faulty form: requirements of one name go together before those of one *)
(* identity.                                                               *)
DiffAuthByName(old, new) ==
    LET common == DOMAIN old \cap DOMAIN new IN
    (UNION {DiffScheme(n, old[n], new[n]) \cup DiffScopes(n, old[n], new[n]) : n \in common})
      \cup {Change(<<"auth", n>>, "removed", "nonBreaking") : n \in DOMAIN old \ common}
      \cup {Change(<<"auth", n>>, "added", "breaking") : n \in DOMAIN new \ common}

(* diff_auth_requirements.  Requirements go together by a known identity,  *)
(* which one contract has only once, then by name.                         *)
DiffAuth(old, new) ==
    LET byIdentity == {p \in (DOMAIN old) \X (DOMAIN new) :
                         IsKnown(old[p[1]].identity) /\ old[p[1]].identity = new[p[2]].identity}
        oldLeft == DOMAIN old \ {p[1] : p \in byIdentity}
        newLeft == DOMAIN new \ {p[2] : p \in byIdentity}
        byName == oldLeft \cap newLeft IN
    (UNION {DiffScopes(p[2], old[p[1]], new[p[2]]) : p \in byIdentity})
      \cup (UNION {DiffScheme(n, old[n], new[n]) \cup DiffScopes(n, old[n], new[n]) : n \in byName})
      \cup {Change(<<"auth", n>>, "removed", "nonBreaking") : n \in oldLeft \ byName}
      \cup {Change(<<"auth", n>>, "added", "breaking") : n \in newLeft \ byName}

DiffParameters(old, new) ==
    LET place(key) == <<key.in, key.name>>
        Gone == DOMAIN old \ DOMAIN new
        Fresh == DOMAIN new \ DOMAIN old
        Common == DOMAIN old \cap DOMAIN new IN
    {Change(place(k), "removed", "breaking") : k \in Gone}
      \cup {FieldAdded("request", place(k), new[k].required) : k \in Fresh}
      \cup UNION {DiffRequired("request", place(k), old[k].required, new[k].required)
                    \cup SchemaChanges("request", place(k), old[k].schema, new[k].schema) : k \in Common}

(* Media types of a body or a response, and what is in those that stay.    *)
DiffContent(usage, place, old, new) ==
    {Change(Append(place, t), "removed", "breaking") : t \in DOMAIN old \ DOMAIN new}
      \cup {Change(Append(place, t), "added", Widened(usage)) : t \in DOMAIN new \ DOMAIN old}
      \cup UNION {SchemaChanges(usage, Append(place, t), old[t], new[t]) :
                     t \in DOMAIN old \cap DOMAIN new}

DiffResponses(old, new) ==
    LET place(status) == <<"response", status>> IN
    {Change(place(s), "removed", IF s \in SuccessStatuses THEN "breaking" ELSE "nonBreaking") :
        s \in DOMAIN old \ DOMAIN new}
      \cup {Change(place(s), "added", IF s \in ErrorStatuses THEN "warning" ELSE "nonBreaking") :
               s \in DOMAIN new \ DOMAIN old}
      \cup UNION {DiffContent("response", place(s), old[s], new[s]) :
                     s \in DOMAIN old \cap DOMAIN new}

(* diff_request_bodies: requiredness is compared if both sides know it.    *)
DiffBodies(old, new) ==
    IF old = None
    THEN IF new = None THEN {} ELSE {FieldAdded("request", <<"request">>, new.required = TRUE)}
    ELSE IF new = None THEN {Change(<<"request">>, "removed", "breaking")}
    ELSE (IF None \in {old.required, new.required} THEN {}
          ELSE DiffRequired("request", <<"request">>, old.required, new.required))
           \cup DiffContent("request", <<"request">>, old.content, new.content)

(* Changes of one operation; they are reported with its identity.          *)
DiffOperation(old, new) ==
    DiffAuth(old.auth, new.auth) \cup DiffServers(old.servers, new.servers)
      \cup DiffParameters(old.params, new.params)
      \cup DiffResponses(old.responses, new.responses) \cup DiffBodies(old.body, new.body)

DiffContracts(old, new) ==
    {Endpoint(op, "removed", "breaking") : op \in DOMAIN old \ DOMAIN new}
      \cup {Endpoint(op, "added", "nonBreaking") : op \in DOMAIN new \ DOMAIN old}
      \cup UNION {{At(op, c) : c \in DiffOperation(old[op], new[op])} :
                     op \in DOMAIN old \cap DOMAIN new}
=============================================================================
