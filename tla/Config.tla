------------------------------- MODULE Config -------------------------------
(***************************************************************************)
(* From resin.conf to the dispatch of requests (src/srun/config.c):         *)
(* cse_init_config parses the file, walks over its http-server, hosts and    *)
(* web-apps, and adds a location for every servlet-mapping it finds there    *)
(* and in the web.xml of every web-app, which is parsed in turn.            *)
(***************************************************************************)
EXTENDS Registry, Locations

CONSTANTS
  ResinHome,   \* config->resin_home
  Requests     \* requests of browsers: [host, port, uri]

VARIABLES
  locations,      \* config->locations
  disableStatus,  \* config->disable_caucho_status
  errorPage,      \* config->error_page
  todo,           \* the calls of cse_init_web_app to come
  \* history
  looked,         \* the directories that were looked at for a web.xml, and for whom
  owner           \* owner[n]: the web-app whose web.xml has the root n

conf == <<locations, disableStatus, errorPage, todo, looked, owner>>
vars == <<regVars, conf>>

ConfigInit ==
  /\ Init
  /\ locations = <<>> /\ disableStatus = FALSE /\ errorPage = Null /\ todo = <<>>
  /\ looked = {} /\ owner = <<>>

-----------------------------------------------------------------------------
(* The walk over the tree.                                                  *)

Absolute(dir) == dir[1] = "/"
Given(value) == value \notin {Null, <<>>}

\* Variant of AppDir: the id of a web-app is taken with its slash.
AppDirSlash(node, parent) ==
  LET given == FindValue(nodes, nodes[node].first, "app-dir")
      value == IF ~Given(given) /\ nodes[node].key = "web-app" THEN nodes[node].value
               ELSE given
  IN IF ~Given(value) THEN parent
     ELSE IF Absolute(value) THEN value
     ELSE parent \o <<"/">> \o value

\* cse_app_dir.  A web-app without app-dir is in the directory of its name.
AppDir(node, parent) ==
  LET given == FindValue(nodes, nodes[node].first, "app-dir")
      id == nodes[node].value
      value == IF ~Given(given) /\ nodes[node].key = "web-app"
               THEN IF Given(id) /\ id[1] = "/" THEN Tail(id) ELSE id
               ELSE given
  IN IF ~Given(value) THEN parent
     ELSE IF Absolute(value) THEN value
     ELSE parent \o <<"/">> \o value

\* A loop over the children of a node takes those with a key and a value.
Named(node, key) == nodes[node].value # Null /\ nodes[node].key = key

App(node, host, prefix, dir) ==
  [node |-> node, host |-> host, prefix |-> prefix, dir |-> dir]

\* cse_init_host: its own web-app and those inside.
HostApps(node, host, dir) ==
  LET hostDir == AppDir(node, dir)
      sub == Chain(nodes, nodes[node].first)
      upto[k \in 0 .. Len(sub)] ==
        IF k = 0 THEN <<App(node, host, <<>>, dir)>>
        ELSE IF Named(sub[k], "web-app")
             THEN Append(upto[k - 1], App(sub[k], host, nodes[sub[k]].value,
                                          AppDir(sub[k], hostDir)))
             ELSE upto[k - 1]
  IN upto[Len(sub)]

\* cse_init_server: the default host and the virtual hosts.
ServerApps(node) ==
  LET appDir == AppDir(node, ResinHome)
      sub == Chain(nodes, nodes[node].first)
      upto[k \in 0 .. Len(sub)] ==
        IF k = 0 THEN HostApps(node, <<>>, ResinHome)
        ELSE IF Named(sub[k], "host")
             THEN upto[k - 1] \o HostApps(sub[k], nodes[sub[k]].value,
                                          AppDir(sub[k], appDir))
             ELSE upto[k - 1]
  IN upto[Len(sub)]

\* Variant of ErrorPage: a page without conditions replaces an earlier one.
ErrorPageLast(page, n) ==
  LET exn == FindValue(nodes, nodes[n].first, "exception-type")
      code == FindValue(nodes, nodes[n].first, "error-code")
  IN IF exn = <<"connection">> \/ (exn = Null /\ code = Null)
     THEN FindValue(nodes, nodes[n].first, "location") ELSE page

\* cse_init_error_page, in the loop: what an error-page does to config->error_page.
ErrorPage(page, n) ==
  LET exn == FindValue(nodes, nodes[n].first, "exception-type")
      code == FindValue(nodes, nodes[n].first, "error-code")
  IN IF exn = <<"connection">> \/ (exn = Null /\ code = Null /\ page = Null)
     THEN FindValue(nodes, nodes[n].first, "location") ELSE page

\* cse_init_error_page: the loop over the nodes from first on.
LastErrorPage(first) ==
  LET pages == Chain(nodes, first)
      upto[k \in 0 .. Len(pages)] ==
        IF k = 0 THEN Null
        ELSE IF nodes[pages[k]].key = "error-page" THEN ErrorPage(upto[k - 1], pages[k])
        ELSE upto[k - 1]
  IN upto[Len(pages)]

HttpServer ==
  LET caucho == NextLink(nodes, nodes[1].first, "caucho.com")
  IN IF caucho = 0 THEN 0 ELSE NextLink(nodes, nodes[caucho].first, "http-server")

\* cse_init_config after the parse, without the sruns (SrunList).
InitConfig ==
  /\ phase \in {"parsed", "refused"} /\ Len(owner) = 0
  /\ phase' = "init"
  /\ owner' = <<App(1, <<>>, <<>>, <<>>)>>
  /\ IF phase = "parsed" /\ HttpServer # 0
     THEN LET top == nodes[HttpServer].first
          IN /\ disableStatus' =
                  (FindValue(nodes, top, "caucho-status") \in {<<"false">>, <<"no">>})
             /\ todo' = ServerApps(HttpServer)
             /\ errorPage' = LastErrorPage(top)
     ELSE UNCHANGED <<disableStatus, todo, errorPage>>
  /\ UNCHANGED <<family, nodes, frames, error, read, history, locations, looked>>

\* cse_init_web_app_contents, with "W" for "WEB-INF".
Contents(locs, first, host, prefix) ==
  LET elems == Chain(nodes, first)
      pattern(n) == FindValue(nodes, nodes[n].first, "url-pattern")
      upto[k \in 0 .. Len(elems)] ==
        IF k = 0 THEN AddLocation(locs, host, prefix, <<"/", "W", "/", "*">>)
        ELSE IF nodes[elems[k]].key = "servlet-mapping" /\ pattern(elems[k]) # Null
             THEN AddLocation(upto[k - 1], host, prefix, pattern(elems[k]))
             ELSE upto[k - 1]
  IN upto[Len(elems)]

\* cse_init_web_app: the mappings in resin.conf, and web.xml if it is there.
InitWebApp ==
  /\ phase = "init" /\ todo # <<>>
  /\ LET app == Head(todo)
     IN /\ locations' = Contents(locations, nodes[app.node].first, app.host, app.prefix)
        /\ looked' = looked \cup {app}
        /\ \/ todo' = Tail(todo)
              /\ UNCHANGED <<nodes, frames, phase, up, said, owner>>
           \/ /\ "web.xml" \in DOMAIN Grammar
              /\ nodes' = Append(nodes, NewNode("")) /\ up' = Append(up, 0)
              /\ said' = Append(said, Null)
              /\ frames' = <<Frame(Len(nodes) + 1, 0, "web.xml")>>
              /\ owner' = Append(owner, [app EXCEPT !.node = Len(nodes) + 1])
              /\ phase' = "parse"
              /\ UNCHANGED todo
  /\ UNCHANGED <<family, error, read, gone, headInclude, disableStatus, errorPage>>

\* cse_init_web_app goes on behind the parse of web.xml: the mappings are looked
\* for in its first element, whatever that is.
ReadWebXml ==
  /\ phase \in {"parsed", "refused"} /\ Len(owner) > 0
  /\ LET top == nodes[Top.root].first
         app == Last(owner)
     IN locations' = IF phase = "parsed" /\ top # 0
                     THEN Contents(locations, nodes[top].first, app.host, app.prefix)
                     ELSE locations
  /\ todo' = Tail(todo)
  /\ phase' = "init"
  /\ UNCHANGED <<family, nodes, frames, error, read, history, disableStatus, errorPage,
                 looked, owner>>

\* The configuration is read: Apache starts, or it stops with config->error.
Ready == phase = "init" /\ todo = <<>>
Started == Ready /\ ~error

Running == (Ready \/ phase = "crashed") /\ UNCHANGED vars

Next ==
  \/ Parses /\ UNCHANGED conf
  \/ InitConfig \/ InitWebApp \/ ReadWebXml
  \/ Running

Spec == ConfigInit /\ [][Next]_vars

-----------------------------------------------------------------------------
(* What the files say, from the history of the parse alone.                 *)

Live == (1 .. Len(nodes)) \ gone
Key(n) == nodes[n].key

\* The children with a key, and what is said in the first of them.
ChildrenOf(n, key) == {c \in Children(n) : Key(c) = key}
SaidOf(n, key) ==
  IF ChildrenOf(n, key) = {} THEN Null ELSE said[Min(ChildrenOf(n, key))]

\* The roots of the web.xml files.
WebXml == {i \in 2 .. Len(owner) : Children(owner[i].node) # {}}

\* The elements that configure a web-app, with its virtual host and its name.
ServerElems ==
  LET top == ChildrenOf(1, "caucho.com")
      servers == IF top = {} THEN {} ELSE ChildrenOf(Min(top), "http-server")
  IN IF servers = {} THEN {} ELSE {Min(servers)}
HostElems == {n \in Live : Key(n) = "host" /\ said[n] # Null /\ up[n] \in ServerElems}
WebApps ==
  [elem : ServerElems, host : {<<>>}, prefix : {<<>>}]
    \cup {[elem |-> h, host |-> said[h], prefix |-> <<>>] : h \in HostElems}
    \cup {[elem |-> w, host |-> IF up[w] \in HostElems THEN said[up[w]] ELSE <<>>,
           prefix |-> said[w]] :
            w \in {n \in Live : /\ Key(n) = "web-app" /\ said[n] # Null
                                /\ up[n] \in ServerElems \cup HostElems}}
    \cup {[elem |-> Min(Children(owner[i].node)), host |-> owner[i].host,
           prefix |-> owner[i].prefix] : i \in WebXml}

Mappings ==
  UNION {{[host |-> a.host, prefix |-> a.prefix, pattern |-> SaidOf(m, "url-pattern")] :
            m \in {n \in ChildrenOf(a.elem, "servlet-mapping") :
                     SaidOf(n, "url-pattern") # Null}} :
         a \in WebApps}

\* The elements and attributes with a value that the walk reads.
Valued == {"host", "web-app", "app-dir", "url-pattern", "exception-type", "error-code",
           "location", "caucho-status"}

\* All that is said has a meaning, fits the buffer and is in its place.  Once there
\* was text in a file the parser takes space, or nothing at all, for a value of an
\* element that says nothing: an empty url-pattern then maps the whole web-app.
Clear ==
  /\ ~headInclude
  /\ \A n \in Live : /\ said[n] # Unclear /\ Len(said[n]) + 2 <= Capacity
                     /\ Key(n) \in Valued /\ said[n] = Null => nodes[n].value = Null

\* The path of a web-app: "/name", or nothing for the root.
Unslashed(s) == IF s # <<>> /\ s[1] = "/" THEN Tail(s) ELSE s
Trim(s) ==
  LET t == Unslashed(s)
  IN IF t # <<>> /\ Last(t) = "/" THEN Front(t) ELSE t
Base(prefix) == IF Trim(prefix) = <<>> THEN <<>> ELSE <<"/">> \o Trim(prefix)

Under(uri, path) == uri = path \/ IsPrefix(path \o <<"/">>, uri)

\* A mapping selects a URI: all of its web-app, a directory, a kind of file, with
\* or without a path behind it, or just one path.
Selects(m, uri) ==
  LET base == Base(m.prefix)
      name(p) == IF Trim(p) = <<>> THEN <<>> ELSE <<"/">> \o Trim(p)
  IN CASE m.pattern \in {<<>>, <<"/">>} -> Under(uri, base)
       [] m.pattern # <<>> /\ m.pattern[1] = "*" ->
            /\ Under(uri, base)
            /\ \E i \in 1 .. Len(uri) : IsPrefix(SubSeq(uri, 1, i) \o Tail(m.pattern), uri)
                 /\ Under(uri, SubSeq(uri, 1, i) \o Tail(m.pattern))
       [] Len(m.pattern) > 1 /\ m.pattern[1] # "*" /\ Last(m.pattern) = "*" ->
            Under(uri, base \o name(Front(m.pattern)))
       [] OTHER -> uri = base \o name(m.pattern)

\* A virtual host, or the default one, answers a request.
Serves(host, r) ==
  \/ host = <<>>
  \/ /\ Before(host, ":") = r.host
     /\ After(host, ":") = <<>> \/ r.port = 0 \/ Atoi(After(host, ":")) = r.port

\* Patterns that cse_add_location does not turn into what they mean: "/*" of the
\* root web-app, and one character without a slash.
Mistaken(m) ==
  \/ Base(m.prefix) = <<>> /\ m.pattern = <<"/", "*">>
  \/ Len(m.pattern) = 1 /\ m.pattern[1] \notin {"/", "*"}

Handler(r) == Dispatch(locations, disableStatus, r.host, r.port, r.uri)

-----------------------------------------------------------------------------
(* Properties.                                                              *)

\* Types of what cse_init_config keeps; the links of the registry lead to nodes
\* and its token buffer never holds more than its capacity.
TypeOK ==
  /\ RegistryTypeOK
  /\ phase \in {"parse", "parsed", "refused", "crashed", "init"}
  /\ error \in BOOLEAN /\ disableStatus \in BOOLEAN
  /\ \A i \in 1 .. Len(locations) :
       DOMAIN locations[i] = {"host", "port", "prefix", "suffix", "is_exact"}

\* Every request that a servlet-mapping selects, be it in resin.conf, in an
\* included file or in a web.xml, of a virtual host or of the default one, goes to
\* Resin: parser, walk over the tree, cse_add_location and cse_match_location
\* agree on what the mapping means.
NoMappingMissed ==
  Started /\ Clear =>
    \A m \in {n \in Mappings : ~Mistaken(n)} :
      \A r \in {q \in Requests : Serves(m.host, q)} :
        Selects(m, Before(r.uri, ";")) => Handler(r) = "caucho-request"

\* No other request goes to Resin, but for those under WEB-INF and the login of
\* a servlet: in particular a mapping does not act for another web-app, or for
\* another virtual host, unless the name of that host is part of its own, which
\* cse_match_location takes for a match.  The status page is there unless it is
\* switched off.
OnlyMapped ==
  Started /\ Clear =>
    LET apps == WebApps
        maps == Mappings
        part(r) == \E a \in apps : /\ Before(a.host, ":") # r.host
                                   /\ HasPart(Before(a.host, ":"), r.host)
        off == \E s \in ServerElems : SaidOf(s, "caucho-status") \in {<<"false">>, <<"no">>}
    IN \A r \in Requests :
         LET uri == Before(r.uri, ";")
         IN IF Handler(r) = "caucho-request"
            THEN \/ HasPart(uri, <<"/", "j">>)
                 \/ \E m \in maps : Serves(m.host, r) /\ Selects(m, uri)
                 \/ \E a \in apps : /\ Serves(a.host, r)
                                    /\ Under(uri, Base(a.prefix) \o <<"/", "W">>)
                 \/ part(r)
            ELSE Handler(r) = "caucho-status" <=> r.uri = CauchoStatus /\ ~off

\* The page for a lost connection: the last one for exception-type connection, and
\* else the first one without conditions.
PageOf(pages) ==
  LET lost == {n \in pages : SaidOf(n, "exception-type") = <<"connection">>}
      any == {n \in pages : /\ SaidOf(n, "exception-type") = Null
                            /\ SaidOf(n, "error-code") = Null}
  IN IF lost # {} THEN SaidOf(Max(lost), "location")
     ELSE IF any # {} THEN SaidOf(Min(any), "location") ELSE Null

\* config->error_page is the page for a lost connection, wherever pages without
\* conditions stand, and never the page of another error (cse_init_error_page).
\* Every page has a location.
ErrorPageAsWritten ==
  \A s \in ServerElems :
    LET pages == ChildrenOf(s, "error-page")
    IN Started /\ Clear /\ (\A n \in pages : SaidOf(n, "location") # Null) =>
         errorPage = PageOf(pages)

\* The directory that an element names: its app-dir or, of a web-app, its own name.
DirName(n) ==
  IF Given(SaidOf(n, "app-dir")) \/ Key(n) # "web-app"
  THEN SaidOf(n, "app-dir") ELSE Unslashed(said[n])
Within(parent, name) ==
  IF ~Given(name) THEN parent
  ELSE IF Absolute(name) THEN name ELSE parent \o <<"/">> \o name

\* The directory of an element is within that of the element around it.
Dir(elem) ==
  LET server(n) == Within(ResinHome, DirName(n))
      host(n) == IF n \in ServerElems THEN server(n) ELSE Within(server(up[n]), DirName(n))
  IN IF Key(elem) = "web-app" THEN Within(host(up[elem]), DirName(elem)) ELSE host(elem)

RelativeDir(n) == Given(SaidOf(n, "app-dir")) /\ ~Absolute(SaidOf(n, "app-dir"))

\* The web.xml of a web-app is looked for in the directory that its app-dir, or
\* its name, and those around it give.  Two cases are left out, in which
\* cse_init_server and cse_init_host look elsewhere: the root web-app of the
\* default host when there is an app-dir, and a web-app of a virtual host whose
\* app-dir is relative, which is applied twice.
WebXmlInAppDir ==
  Clear =>
    \A a \in looked :
      \/ a.dir = Dir(a.node)
      \/ a.node \in ServerElems /\ SaidOf(a.node, "app-dir") # Null
      \/ up[a.node] \in HostElems /\ RelativeDir(up[a.node])

=============================================================================
