------------------------------ MODULE MCConfig ------------------------------
(***************************************************************************)
(* Model values for Config: families of configuration files, each with one  *)
(* part of what a file may hold.                                            *)
(***************************************************************************)
EXTENDS Config

MCHome == <<"h">>

Mapping(pattern) == EmptyTag("servlet-mapping", <<<<"url-pattern", pattern>>>>)
Elem(key, id) == Tag(key, <<<<"id", id>>>>)

Dirs == <<"/", "a", "/", "*">>
Exact == <<"/", "a">>
All == <<"/">>
Files == <<"*", ".", "e">>
Star == <<"/", "*">>
NoSlash == <<"a", "/", "*">>

Host == <<"f">>
WideHost == <<"w", "f">>
PortHost == <<"g", ":", "1">>

Top2 == "" :> {Tag("caucho.com", <<>>)} @@ "caucho.com" :> {Tag("http-server", <<>>)}

\* Virtual hosts.
Hosts ==
  [grammar |->
     Top2
     @@ "http-server" :> {Elem("host", h) : h \in {Host, WideHost, PortHost}}
                           \cup {Mapping(Exact)}
     @@ "host" :> {Mapping(Dirs), Mapping(Files), EndTag},
   max |-> 7]

\* Web-apps and patterns.
Apps ==
  LET mappings == {Mapping(p) : p \in {Dirs, Exact, All, Files, Star, NoSlash}}
  IN [grammar |->
        Top2
        @@ "http-server" :> mappings
             \cup {Elem("web-app", id) : id \in {<<"/", "p">>, <<"p">>, <<"/">>}}
        @@ "web-app" :> mappings \cup {EndTag},
      max |-> 6]

\* Text, comments, errors.  A gap does not fit the buffer.
Gap == <<" ", " ", " ", " ", " ">>
Texts ==
  [grammar |->
     "" :> {Tag("caucho.com", <<>>), EndTag}
     @@ "caucho.com" :> {Tag("http-server", <<>>), EndTag}
     @@ "http-server" :> {Tag("servlet-mapping", <<>>), EndTag}
     @@ "servlet-mapping" :>
          {Tag("url-pattern", <<>>), Elem("url-pattern", Exact), Text(<<" ">>), EndTag}
     @@ "url-pattern" :>
          {Text(Exact), Text(<<" ">>), Text(Gap), Comment, Unclosed, Malformed, EndTag},
   max |-> 10]

\* Included files.
Includes ==
  LET include == {EmptyTag(Include, <<<<"href", <<"x">>>>>>),
                  Tag(Include, <<<<"href", <<"x">>>>>>)}
  IN [grammar |->
        Top2
        @@ "http-server" :> include \cup {Elem("host", Host), Mapping(Exact), Malformed}
        @@ "host" :> include \cup {Mapping(Dirs), EndTag}
        @@ Include :> {EndTag},
      max |-> 7]

\* Directories and web.xml.
AppDirs ==
  LET dir(d) == <<<<"app-dir", d>>>>
      dirs == {<<>>, dir(<<"d">>), dir(<<"/", "d">>)}
      id(i) == <<<<"id", i>>>>
  IN [grammar |->
        "" :> {Tag("caucho.com", <<>>)}
        @@ "caucho.com" :> {Tag("http-server", d) : d \in dirs}
        @@ "http-server" :> {Tag("host", id(Host) \o d) : d \in dirs}
             \cup {Tag("web-app", id(<<"/", "p">>) \o d) : d \in dirs}
        @@ "host" :> {Tag("web-app", id(<<"/", "p">>) \o d) : d \in dirs}
        @@ "web-app" :> {Mapping(Dirs), EndTag}
        @@ "web.xml" :> {Tag("web-app", <<>>), Malformed},
      max |-> 6]

\* Error pages and the status page.
Pages ==
  LET page(attrs, loc) == EmptyTag("error-page", attrs \o <<<<"location", <<loc>>>>>>)
  IN [grammar |->
        Top2
        @@ "http-server" :>
             {page(<<>>, "u"), page(<<>>, "v"),
              page(<<<<"exception-type", <<"connection">>>>>>, "x"),
              page(<<<<"exception-type", <<"connection">>>>>>, "y"),
              page(<<<<"exception-type", <<"other">>>>>>, "z"),
              page(<<<<"error-code", <<"404">>>>>>, "z"),
              EmptyTag("caucho-status", <<<<"id", <<"no">>>>>>)},
      max |-> 5]

MCFamilies ==
  [hosts |-> Hosts, apps |-> Apps, texts |-> Texts, includes |-> Includes,
   appDirs |-> AppDirs, pages |-> Pages]
MCIncludes == [includes |-> Includes]

MCUris ==
  {<<"/">>, <<"/", "a">>, <<"/", "a", "b">>, <<"/", "a", "/", "b">>,
   <<"/", "a", ".", "e">>, <<"/", "a", ".", "e", "/", "b">>, <<"/", "b", ".", "e", "b">>,
   <<"/", "b", ".", "e", "b", ".", "e">>,
   <<"/", "p">>, <<"/", "p", "/", "a">>, <<"/", "p", "/", "a", "/", "b">>,
   <<"/", "p", "/", "a", ".", "e">>, <<"/", "p", "a", "/", "b">>,
   <<"/", "p", "/", "W", "/", "b">>, <<"/", "W">>, <<"/", "b", "/", "j">>,
   <<"/", "a", ";", "b">>, <<"/", "b", ";", "/", "a">>, CauchoStatus}

MCRequests ==
  [host : {<<"f">>, <<"w", "f">>}, port : {1}, uri : MCUris]
    \cup [host : {<<"g">>}, port : {0, 1, 2}, uri : MCUris]

=============================================================================
