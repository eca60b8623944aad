--------------------------- MODULE MCFrontChannel ---------------------------
(* Deployments and wirings of FrontChannel for TLC. *)
EXTENDS FrontChannel

AllStrings      == STRING
SomeBeginnings  == {<<"o", "oidc">>}
LoopbackNames   == {"localhost", "LocalHost", "127.0.1.1", "127.0.0.1", "::1", "0.0.0.0"}

Host(name, port) == [name |-> name, port |-> port]

Home    == URL("https", Host("alkemio", None), <<>>)
Ported  == URL("https", Host("alkemio", "8443"), <<>>)
Local   == URL("http", Host("localhost", "3000"), <<>>)
Kratos  == URL("https", Host("kratos", None), <<"identity">>)
NoHost  == URL("https", None, <<"oidc", "login">>)

HydraHome == URL("https", Host("hydra", None), <<"oauth2">>)
HydraApp  == URL("app", Host("hydra", None), <<"oauth2">>)
HydraPath == URL(None, None, <<"oauth2">>)

\* A public address behind a proxy that reports it, nothing else configured.
Plain == [insecure |-> FALSE, kratosBrowser |-> Kratos, returnBase |-> None, webBase |-> None,
          public |-> Home, prefix |-> <<>>, proxy |-> "telling", inner |-> Host("oidc", "3000"),
          hydra |-> HydraHome, sharedCookie |-> TRUE, maintenance |-> FALSE]

\* Every proxy in front of every public address, with and without a prefix; where
\* an address is loopback, or none, the Kratos browser URL matters; and where the
\* proxy tells the URI, the text of the prefix.
Behind == [Plain EXCEPT !.insecure = TRUE]
Proxied ==
    LET proxies == {"silent", "telling", "chain", "port", "uri"}
        inners  == {Host("localhost", "3000"), Host("127.0.1.1", None), Unnamed}
    IN  {[Behind EXCEPT !.public = public, !.prefix = prefix, !.proxy = proxy] :
            public \in {Home, Ported}, prefix \in {<<>>, <<"auth">>}, proxy \in proxies}
        \cup {[Behind EXCEPT !.public = Local, !.kratosBrowser = Local, !.prefix = prefix, !.proxy = proxy] :
            prefix \in {<<>>, <<"auth">>}, proxy \in proxies}
        \cup {[Behind EXCEPT !.public = Local]}
        \cup {[Behind EXCEPT !.proxy = "silent", !.inner = inner, !.kratosBrowser = k] :
            inner \in inners, k \in {Home, Kratos}}
        \cup {[Behind EXCEPT !.proxy = "stripped", !.prefix = prefix] : prefix \in {<<>>, <<"auth">>, <<"o">>}}
        \cup {[Behind EXCEPT !.proxy = "uri", !.prefix = <<"o">>], [Behind EXCEPT !.proxy = "comma"]}

\* Every way to configure the return address, and no proxy at all.
Configured ==
    LET bases == {None, NoHost, URL("https", Home.host, <<"v1", "oidc", "login">>), Kratos}
    IN  {[Plain EXCEPT !.returnBase = base, !.webBase = web] : base \in bases, web \in {None, Home}}
        \cup {[Plain EXCEPT !.webBase = web, !.proxy = proxy] :
            web \in {Home, Local}, proxy \in {"silent", "comma"}}
        \cup {[Behind EXCEPT !.returnBase = NoHost]}
        \cup {[Behind EXCEPT !.public = Local, !.proxy = "none", !.kratosBrowser = k] :
            k \in {None, Local, Kratos}}

\* What else can be wrong, one thing at a time.
Odd == {[Plain EXCEPT !.kratosBrowser = None], [Plain EXCEPT !.kratosBrowser = NoHost],
        [Plain EXCEPT !.kratosBrowser = NoHost, !.proxy = "silent", !.inner = Unnamed],
        [Plain EXCEPT !.hydra = HydraApp], [Plain EXCEPT !.hydra = HydraPath],
        [Plain EXCEPT !.sharedCookie = FALSE], [Plain EXCEPT !.maintenance = TRUE]}

AllDeployments == Proxied \cup Configured \cup Odd
OneDeployment  == {Plain}

Registered  == URL("https", Host("client", None), <<"bye">>)
AppScheme   == URL("app", Host("client", None), <<"bye">>)
Elsewhere   == URL("https", Host("elsewhere", None), <<>>)
LocalLogout == URL("http", Host("localhost", "3000"), <<"logout">>)

FullAddresses == {Registered, AppScheme, Elsewhere}
FullWiring    == [jwks |-> TRUE, revoker |-> TRUE, audit |-> TRUE, allowList |-> {Registered, AppScheme}]

\* internal/app constructs the router without an end_session configuration.
AppAddresses  == {LocalLogout, Elsewhere}
AppWiring     == [jwks |-> FALSE, revoker |-> FALSE, audit |-> FALSE, allowList |-> {LocalLogout}]
=============================================================================
