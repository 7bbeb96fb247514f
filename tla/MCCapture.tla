------------------------------ MODULE MCCapture ------------------------------
(***************************************************************************)
(* A small service for TLC: an endpoint, one under its path, one whose     *)
(* path is longer by the string only, and a private one.                   *)
(***************************************************************************)
EXTENDS Capture

CONSTANTS s1, s2

MCSamples == {s1, s2}
MCThresholds == {10}

MCParts == {"/users", "/1", "/secret", "/feed.json"}
MCDotJson == {"/feed.json"}
Users == <<"/users">>
OneUser == <<"/users", "/1">>
Feed == <<"/feed.json">>
Req(method, path, query) ==
    [method |-> method, path |-> path, query |-> query, host |-> "api", content |-> "", headers |-> <<>>]
GetUsers == Req("GET", Users, "")
SecondPage == Req("GET", Users, "page=2")
PostUsers == Req("POST", Users, "")
Search == [PostUsers EXCEPT !.content = "q"]
Staging == [GetUsers EXCEPT !.host = "staging"]
GetUser == Req("GET", OneUser, "")
NoMethod == Req("", Users, "")
GetFeed == Req("GET", Feed, "")
Secret == Req("GET", <<"/secret">>, "")
Token == [n \in {"token"} |-> "secret"]
With(request) == [request EXCEPT !.headers = Token]
MCHeadings == {<<>>, Token}

KeyFor(method, path) == [method |-> method, path |-> path]
MCKeyed == (KeyFor("GET", Users) :> 1) @@ (KeyFor("GET", OneUser) :> 2) @@ (KeyFor("POST", Users) :> 3)
             @@ (KeyFor("GET", <<"/secret">>) :> 4) @@ (KeyFor("GET", Feed) :> 5)
(* The name 6 is "/users".                                                 *)
MCNames == 1..6
MCAsked ==
    [n \in MCNames |->
        LET k == IF n = 6 THEN KeyFor("GET", Users) ELSE CHOOSE k \in DOMAIN MCKeyed : MCKeyed[k] = n
        IN  [method |-> k.method, path |-> k.path, query |-> ""]]

Answer(status, mime, base64, text) == [status |-> status, mime |-> mime, base64 |-> base64, text |-> text]
Json(text) == Answer(200, "application/json", FALSE, text)
MCAnswers ==
    (GetUsers :> {Json(s1), Json(s2)})
      @@ (SecondPage :> {Json(s2), Answer(404, "application/json", FALSE, s1)})
      @@ (PostUsers :> {Json(s2), Answer(200, "application/vnd", FALSE, s1)})
      @@ (Search :> {Json(s1)})
      @@ (Staging :> {Json(s2)})
      @@ (GetUser :> {Json(s1), Answer(200, "application/hal+json", FALSE, s2)})
      @@ (GetFeed :> {Answer(200, "text/html", FALSE, s1), Answer(200, "text/html", FALSE, "")})
      @@ (Secret :> {Json(s2), Answer(200, "text/html", FALSE, s1), Answer(401, "application/json", FALSE, s1)})
      @@ (With(Secret) :> {Json(s1), Answer(200, "text/html", FALSE, s1)})
      @@ (With(GetUsers) :> {Json(s1), Json(s2)})
      @@ (NoMethod :> {Json("")})

MCEnv == [v \in {"TOKEN"} |-> "secret"]
Header(var) == [name |-> "token", var |-> var]

Anything == [browsed |-> {}, urls |-> {}, names |-> {6}, identities |-> {<<>>}, statuses |-> {{}}, templates |-> {<<>>},
             config |-> <<>>, verified |-> FALSE]
Of(id) == KeyFor("GET", id)
MCScenes ==
    {[Anything EXCEPT
        !.browsed = {GetUsers, GetUser, PostUsers}, !.names = {1, 6},
        !.identities = {<<>>, <<Of(Users)>>, <<Of(Users), Of(OneUser)>>, <<Of(OneUser), Of(Users)>>,
                        <<Of(Users), Of(Users)>>}],
     [Anything EXCEPT !.browsed = {SecondPage, PostUsers, NoMethod}, !.statuses = {{}, {404}}],
     [Anything EXCEPT !.browsed = {GetUsers, SecondPage}, !.urls = {PostUsers}, !.verified = TRUE],
     [Anything EXCEPT !.browsed = {Search, Staging}, !.urls = {PostUsers, GetUsers}, !.names = {3}, !.verified = TRUE],
     [Anything EXCEPT !.browsed = {GetUser}, !.urls = {GetUsers}, !.verified = TRUE,
                      !.identities = {<<>>, <<Of(Users)>>}],
     [Anything EXCEPT !.browsed = {GetFeed}, !.urls = {GetFeed}, !.names = {}, !.verified = TRUE],
     [Anything EXCEPT !.urls = {Secret, With(Secret), With(GetUsers)}, !.verified = TRUE,
                      !.names = {}, !.config = <<Header("TOKEN")>>,
                      !.templates = {<<>>, <<Header("TOKEN")>>, <<Header("UNSET")>>}]}
=============================================================================
