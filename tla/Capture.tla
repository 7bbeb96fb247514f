------------------------------- MODULE Capture -------------------------------
(***************************************************************************)
(* Observed entries from a service and back to it: a browser captures      *)
(* answers into a HAR file, record --from-har and record --from-url put    *)
(* them into the lock, and verify --all fetches them again (src/har.rs,    *)
(* src/remote.rs, src/main.rs).  A path is the sequence of its parts, so   *)
(* that one is a string prefix of another when it is a prefix as a         *)
(* sequence; the query is apart, and a HAR path has none.  The host, the   *)
(* content and the headers of a request are in no entry's name either, and *)
(* the service may answer by any of them.  A shape is the set of the       *)
(* bodies in it, as in LockDocument, and a body conforms if it is one of   *)
(* them (RecordedBodiesVerify of ObservedContract).  One command runs at a *)
(* time; LockStore lets them race.                                         *)
(***************************************************************************)
EXTENDS LockDocument, SequencesExt

CONSTANTS
    Parts,         \* what paths are made of
    DotJson,       \* those that end in .json
    Headings,      \* the headers a request carries: functions from names
    Answers,       \* request -> what the service may answer
    Scenes,        \* records [browsed, urls, names, identities, statuses, templates,
                   \* config, verified]
    Keyed,         \* [method, path] -> the name "METHOD path"
    Asked,         \* name -> the [method, path, query] it is split into
    Base,          \* --source-url of verify --all
    Env,           \* the environment: variable -> value
    MaxEntries,    \* bound: entries of a capture
    MaxRecorded    \* bound: bodies recorded

Key == [method : STRING, path : Seq(Parts)]
Request == [method : STRING, path : Seq(Parts), query : STRING,
            host : STRING, content : STRING, headers : Headings]

OwnKey(request) == [method |-> request.method, path |-> request.path]

(* A method and a path make one name, and a name stands for one of them.   *)
ASSUME KeyAssumption ==
    /\ DOMAIN Keyed \subseteq Key
    /\ Keyed \in [DOMAIN Keyed -> Names]
    /\ IsInjective(Keyed)

(* split_once at the space; a name without one is the path of a GET.       *)
ASSUME AskedAssumption ==
    /\ Asked \in [Names -> [method : STRING, path : Seq(Parts), query : STRING]]
    /\ \A k \in DOMAIN Keyed : Asked[Keyed[k]] = [method |-> k.method, path |-> k.path, query |-> ""]

ASSUME CaptureAssumption ==
    /\ MaxEntries \in Nat /\ MaxRecorded \in Nat
    /\ None \notin Document
    /\ DOMAIN Answers \subseteq Request
    /\ \A r \in DOMAIN Answers : r.method # "" => OwnKey(r) \in DOMAIN Keyed
    /\ \A sc \in Scenes :
          /\ sc.browsed \cup sc.urls \subseteq DOMAIN Answers
          /\ \A r \in sc.urls : r.method # "" /\ r.content = ""
          /\ sc.identities \subseteq Seq(DOMAIN Keyed)
          /\ sc.names \subseteq Names

VARIABLES
    scene,   \* what is browsed, fetched, given as options, verified
    service, \* request -> its answer [status, mime, base64, text]
    changed, \* history: the service has changed since the start
    har,     \* the capture, entries [request, answer]
    disk,    \* the lock file
    origin,  \* history: what was recorded, [name, request, body, identities,
             \* har, named]
    run      \* verify --all: None, or [entries, left, headers, breaking,
             \* success, exit] and, as history, fetched

vars == <<scene, service, changed, har, disk, origin, run>>

Success == 200..299

(* The endpoint a name stands for.                                         *)
KeyNamed(name) == CHOOSE k \in DOMAIN Keyed : Keyed[k] = name

-----------------------------------------------------------------------------
(* load_har.                                                               *)

(* is_json_content_type: of vendor types all, of others those of JSON.     *)
HarJson == {"application/json", "application/vnd"}

(* Bodies that are there and parse.                                        *)
Kept(entry, statuses) ==
    /\ entry.request.method # ""
    /\ entry.answer.status \in IF statuses = {} THEN Success ELSE statuses
    /\ ~entry.answer.base64 /\ entry.answer.mime \in HarJson
    /\ entry.answer.text \in Samples

Under(request, identity) ==
    request.method = identity.method /\ IsPrefix(identity.path, request.path)

(* The first identity the request is under, None if there is none.         *)
KeyOf(request, identities) ==
    LET above == {i \in DOMAIN identities : Under(request, identities[i])} IN
    IF identities = <<>> THEN OwnKey(request)
    ELSE IF above = {} THEN None
    ELSE identities[Min(above)]

(* The entries of each endpoint, by their positions in the capture.        *)
Recordings(entries, identities, statuses) ==
    LET KeyAt(i) == KeyOf(entries[i].request, identities)
        kept == {i \in DOMAIN entries : Kept(entries[i], statuses) /\ KeyAt(i) # None} IN
    [k \in {KeyAt(i) : i \in kept} |-> {i \in kept : KeyAt(i) = k}]

(* parse_path_identities.                                                  *)
ValidIdentities(identities) ==
    IsInjective(identities) /\ \A id \in ToSet(identities) : id.path # <<>>

(* A faulty form: an identity nothing was recorded for is let be.          *)
ValidHarLenient(entries, identities, statuses) ==
    /\ entries # <<>>
    /\ ValidIdentities(identities)
    /\ DOMAIN Recordings(entries, identities, statuses) # {}

ValidHar(entries, identities, statuses) ==
    /\ entries # <<>>
    /\ ValidIdentities(identities)
    /\ ToSet(identities) \subseteq DOMAIN Recordings(entries, identities, statuses)
    /\ DOMAIN Recordings(entries, identities, statuses) # {}

-----------------------------------------------------------------------------
(* Requests to the service.                                                *)

(* resolve_headers: None where a variable is not set; the last one counts. *)
ResolveHeaders(templates) ==
    IF \E t \in ToSet(templates) : t.var \notin DOMAIN Env THEN None
    ELSE FoldLeft(LAMBDA headers, t : (t.name :> Env[t.var]) @@ headers, <<>>, templates)

(* is_json_media_type: of vendor types only those that say JSON.           *)
RemoteJson == {"application/json", "application/hal+json"}

(* The request as it is sent, with the headers of the command.             *)
Sent(request, headers) == [request EXCEPT !.headers = headers]

(* response_is_json: by the media type, or by the path of the URL.         *)
ResponseIsJson(request, answer) ==
    answer.mime \in RemoteJson \/ (request.path # <<>> /\ Last(request.path) \in DotJson)

(* fetch_json: the body, or None for any failure.                          *)
FetchJson(request) ==
    IF request \notin DOMAIN service THEN None
    ELSE LET answer == service[request] IN
         IF answer.status \in Success /\ ResponseIsJson(request, answer) /\ answer.text \in Samples
         THEN answer.text ELSE None

(* A faulty form: every entry is fetched by GET.                           *)
TargetByGet(name, headers) ==
    [method |-> "GET", path |-> Asked[name].path, query |-> Asked[name].query,
     host |-> Base, content |-> "", headers |-> headers]

(* The request verify --all makes of an entry's name: to the base URL, and *)
(* without a content.                                                      *)
Target(name, headers) ==
    [method |-> Asked[name].method, path |-> Asked[name].path, query |-> Asked[name].query,
     host |-> Base, content |-> "", headers |-> headers]

-----------------------------------------------------------------------------
(* The service and the browser.                                            *)
Init ==
    /\ scene \in Scenes
    /\ LET requests == scene.browsed \cup scene.urls IN
       /\ service \in [requests -> UNION {Answers[r] : r \in requests}]
       /\ \A r \in requests : service[r] \in Answers[r]
    /\ changed = FALSE
    /\ har = <<>> /\ disk = None /\ origin = {} /\ run = None

Busy == run # None /\ run.exit = None

Serve(r, answer) ==
    /\ answer # service[r]
    /\ service' = [service EXCEPT ![r] = answer]
    /\ changed' = TRUE
    /\ UNCHANGED <<scene, har, disk, origin, run>>

Browse(r) ==
    /\ Len(har) < MaxEntries
    /\ har' = Append(har, [request |-> r, answer |-> service[r]])
    /\ UNCHANGED <<scene, service, changed, disk, origin, run>>

NewCapture ==
    /\ har # <<>>
    /\ har' = <<>>
    /\ UNCHANGED <<scene, service, changed, disk, origin, run>>

-----------------------------------------------------------------------------
(* record.                                                                 *)

(* load_or_create_for_record.                                              *)
LoadOrCreate == IF disk = None THEN EmptyLock(2) ELSE Load(disk)

(* record_observed for every call; nothing is written if one is refused.   *)
Record(calls, recorded) ==
    /\ ~Busy
    /\ disk # None => Readable(disk)
    /\ AllAllowed(LoadOrCreate, calls, Len(calls))
    /\ Cardinality(origin \cup recorded) <= MaxRecorded
    /\ disk' = Render(AfterCalls(LoadOrCreate, calls, Len(calls)))
    /\ origin' = origin \cup recorded
    /\ run' = None
    /\ UNCHANGED <<scene, service, changed, har>>

Recorded(name, positions, identities, named) ==
    {[name |-> name, request |-> har[i].request, body |-> har[i].answer.text,
      identities |-> identities, har |-> TRUE, named |-> named] : i \in positions}

(* The members of a finite set of numbers, from the smallest up.           *)
InOrder(S) ==
    CHOOSE f \in [1..Cardinality(S) -> S] : \A i, j \in DOMAIN f : i < j => f[i] < f[j]

BodyAt(i) == har[i].answer.text

(* With --name: the one group of the capture goes into the named entry.    *)
ImportNamed(name, identities, statuses) ==
    LET groups == Recordings(har, identities, statuses)
        group == groups[CHOOSE k \in DOMAIN groups : TRUE]
        order == InOrder(group) IN
    /\ ValidHar(har, identities, statuses)
    /\ Cardinality(DOMAIN groups) = 1
    /\ Record(HarNamedCalls(name, [i \in DOMAIN order |-> BodyAt(order[i])], None, FALSE),
              Recorded(name, group, identities, TRUE))

(* Without: every group goes into the entry of its endpoint, in the order  *)
(* of their names.                                                         *)
ImportKeyed(identities, statuses, merge) ==
    LET groups == Recordings(har, identities, statuses)
        names == InOrder({Keyed[k] : k \in DOMAIN groups})
        Group(n) == [name |-> n, bodies |-> {BodyAt(i) : i \in groups[KeyNamed(n)]}] IN
    /\ ValidHar(har, identities, statuses)
    /\ Record(HarKeyedCalls([i \in DOMAIN names |-> Group(names[i])], merge, None, FALSE),
              UNION {Recorded(Keyed[k], groups[k], identities, FALSE) : k \in DOMAIN groups})

(* record --from-url: the headers of the configuration are not used, and a *)
(* request under no identity goes by its own path.                         *)
RecordUrl(request, name, identities, templates, merge) ==
    LET headers == ResolveHeaders(templates)
        key == KeyOf(request, identities)
        entry == IF name # None THEN name
                 ELSE Keyed[IF key = None THEN OwnKey(request) ELSE key] IN
    /\ headers # None
    /\ LET sent == Sent(request, headers)
           body == FetchJson(sent) IN
       /\ body # None
       /\ Record(<<[name |-> entry, samples |-> {body}, merge |-> merge, threshold |-> None, mapAt |-> FALSE]>>,
                 {[name |-> entry, request |-> sent, body |-> body, identities |-> identities,
                   har |-> FALSE, named |-> name # None]})

-----------------------------------------------------------------------------
(* verify --all.                                                           *)
StartVerifyAll(templates) ==
    LET headers == ResolveHeaders(scene.config \o templates) IN
    /\ ~Busy
    /\ disk # None /\ Readable(disk)
    /\ headers # None
    /\ \E n \in Names : disk.observed[n] # None
    /\ run' = [entries |-> Load(disk).observed, left |-> {n \in Names : disk.observed[n] # None},
               headers |-> headers, breaking |-> FALSE, success |-> FALSE, exit |-> None, fetched |-> {}]
    /\ UNCHANGED <<scene, service, changed, har, disk, origin>>

NextEntry == CHOOSE n \in run.left : \A m \in run.left : n <= m

(* A faulty form: an entry that cannot be fetched is tried again.          *)
JudgeRetrying(name, body) ==
    run' = IF body = None THEN run
           ELSE [run EXCEPT !.left = @ \ {name}, !.success = TRUE,
                            !.breaking = @ \/ body \notin run.entries[name].samples,
                            !.fetched = @ \cup {[name |-> name, body |-> body]}]

(* A faulty form: the verdict is that of the last entry.                   *)
JudgeByLast(name, body) ==
    run' = IF body = None THEN [run EXCEPT !.left = @ \ {name}]
           ELSE [run EXCEPT !.left = @ \ {name}, !.success = TRUE,
                            !.breaking = body \notin run.entries[name].samples,
                            !.fetched = @ \cup {[name |-> name, body |-> body]}]

(* The loop's body: an entry that cannot be fetched is passed over.        *)
Judge(name, body) ==
    run' = IF body = None THEN [run EXCEPT !.left = @ \ {name}]
           ELSE [run EXCEPT !.left = @ \ {name}, !.success = TRUE,
                            !.breaking = @ \/ body \notin run.entries[name].samples,
                            !.fetched = @ \cup {[name |-> name, body |-> body]}]

(* The network may fail.                                                   *)
FetchNext ==
    /\ Busy /\ run.left # {}
    /\ LET name == NextEntry IN
       \/ Judge(name, FetchJson(Target(name, run.headers)))
       \/ Judge(name, None)
    /\ UNCHANGED <<scene, service, changed, har, disk, origin>>

Conclude ==
    /\ Busy /\ run.left = {}
    /\ run' = [run EXCEPT !.exit = IF ~run.success THEN "error"
                                   ELSE IF run.breaking THEN "breaking" ELSE "clean"]
    /\ UNCHANGED <<scene, service, changed, har, disk, origin>>

Next ==
    \/ \E r \in scene.urls : \E answer \in Answers[r] : Serve(r, answer)
    \/ \E r \in scene.browsed : Browse(r)
    \/ NewCapture
    \/ \E identities \in scene.identities, statuses \in scene.statuses :
          \/ \E name \in scene.names : ImportNamed(name, identities, statuses)
          \/ \E merge \in BOOLEAN : ImportKeyed(identities, statuses, merge)
    \/ \E request \in scene.urls, name \in scene.names \cup {None}, identities \in scene.identities,
          templates \in scene.templates, merge \in BOOLEAN :
          RecordUrl(request, name, identities, templates, merge)
    \/ \E templates \in scene.templates : scene.verified /\ StartVerifyAll(templates)
    \/ FetchNext
    \/ Conclude

(* Every request has a timeout (src/remote.rs:71), and nothing in between  *)
(* waits: a verify --all that runs goes on.                                *)
Spec == Init /\ [][Next]_vars /\ WF_vars(FetchNext) /\ WF_vars(Conclude)

-----------------------------------------------------------------------------
(* Properties.                                                             *)

(* A body imported without --name is in the entry of the most specific     *)
(* identity its request is under, wherever that is in the list: the first  *)
(* match counts (src/har.rs:204), and where that is not the most specific  *)
(* one the import fails, for the other finds nothing.                      *)
MostSpecificIdentity ==
    \A o \in origin : \A k \in DOMAIN Keyed :
       (o.har /\ ~o.named /\ Keyed[k] = o.name) =>
          /\ Under(o.request, k)
          /\ \A id \in ToSet(o.identities) : Under(o.request, id) => Len(id.path) <= Len(k.path)

(* "--name would merge them into one incoherent entry" (src/main.rs:241):  *)
(* whatever is imported with --name into an entry, in one command or in    *)
(* several, and whatever the name, is of one endpoint.                     *)
NamedEntryIsCoherent ==
    \A o, p \in origin :
       (o.har /\ p.har /\ o.named /\ p.named /\ o.name = p.name)
          => KeyOf(o.request, o.identities) = KeyOf(p.request, p.identities)

Ended == run # None /\ run.exit # None

WasRecorded(f) == \E o \in origin : o.name = f.name /\ o.body = f.body

(* The exit code of verify --all is that of what was fetched and what was  *)
(* recorded, over any number of commands: clean if some entry was fetched  *)
(* and every body was recorded in its entry, an error if none was          *)
(* (src/main.rs:435).                                                      *)
VerdictIsTrue ==
    Ended => run.exit = IF run.fetched = {} THEN "error"
                        ELSE IF \A f \in run.fetched : WasRecorded(f) THEN "clean" ELSE "breaking"

(* verify --all gives no alarm of a service that has not changed, unless   *)
(* an entry holds the answer to another request than the one it makes of   *)
(* the entry's name (src/main.rs:433): one that another name was given to  *)
(* (--path-identity, --name), or that had a query (src/har.rs:141), another*)
(* host, a content, which fetch_json never sends (src/remote.rs:73), or    *)
(* other headers.                                                          *)
NoAlarmWithoutChange ==
    (Ended /\ run.exit = "breaking" /\ ~changed) =>
       \E f \in run.fetched : \E o \in origin :
          /\ o.name = f.name
          /\ \/ Keyed[OwnKey(o.request)] # o.name
             \/ o.request.query # "" \/ o.request.content # ""
             \/ o.request.host # Base \/ o.request.headers # run.headers

(* verify --all comes to an end, whatever the service does.                *)
VerifyAllEnds == Busy ~> Ended
=============================================================================
