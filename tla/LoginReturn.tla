----------------------------- MODULE LoginReturn -----------------------------
(***************************************************************************)
(* Where the login handler sends a browser that has no session, and where  *)
(* it asks Kratos to send it back to (internal/server/login_handler.go,    *)
(* internal/config/config.go): operators over URL records, read off the    *)
(* configuration and off what the proxies in front say of the request.     *)
(*                                                                         *)
(* A configuration c has                                                   *)
(*   insecure       OIDC_ALLOW_INSECURE_HTTP                               *)
(*   kratosBrowser  OIDC_KRATOS_BROWSER_URL, or None                       *)
(*   returnBase     OIDC_LOGIN_RETURN_BASE_URL, or None                    *)
(*   webBase        OIDC_WEB_BASE_URL, or None                             *)
(* and a request r has host (the Host header), path, challenge, and the    *)
(* X-Forwarded-* headers as the sequences of values the proxies appended,  *)
(* the outermost first: fproto, fhost, fport, fprefix, and furi, of which  *)
(* each value has a path and a challenge of its own.                       *)
(***************************************************************************)
EXTENDS RedirectPolicy, SequencesExt

CONSTANTS
    Strings,      \* whatever schemes, host names, ports and path segments are made of
    Beginnings,   \* the pairs of segments the first of which is a proper beginning of the second
    Loopback      \* localhost, ::1, 0.0.0.0, in any case, and all that start with 127.

Hosts == [name : Strings, port : Strings \cup {None}]

\* URLs whose query has one of the given login challenges.
Addresses(challenges) == [scheme : Strings \cup {None}, host : Hosts \cup {None},
                          path : Seq(Strings), challenge : challenges]

ASSUME StringsAssumption ==
    /\ Web \cup {"80", "443", "oidc", "v1", "login"} \subseteq Strings
    /\ None \notin Strings /\ None \notin Seq(Strings) /\ None \notin Hosts
    /\ Beginnings \subseteq Strings \X Strings
    /\ Loopback \subseteq Strings \ {""}

-----------------------------------------------------------------------------
(* Configuration *)

\* requireSecureURL: the strict check asks for https and for nothing else.
RequireSecureURL(c, u) ==
    IF c.insecure THEN u.scheme \in Web /\ u.host # None ELSE u.scheme = "https"

\* computeLoginReturnBaseURL, when no return base is set.
LoginReturnBaseURL(c) ==
    CASE c.returnBase # None -> c.returnBase
      [] c.returnBase = None /\ c.webBase # None ->
            [c.webBase EXCEPT !.path = @ \o <<"oidc", "login">>]
      [] OTHER -> None

\* Load: the service starts only with URLs that pass.
Loads(c) ==
    \A u \in {c.kratosBrowser, c.webBase, LoginReturnBaseURL(c)} \ {None} : RequireSecureURL(c, u)

\* NewLoginHandler: a return base without a host is dropped with a warning.
ReturnBase(c) ==
    LET u == LoginReturnBaseURL(c)
    IN  IF u # None /\ u.host # None THEN u ELSE None

-----------------------------------------------------------------------------
(* The request as the proxies tell it *)

\* Mutant: the hop next to the service is believed.
FirstForwardedNearest(values) == IF values = <<>> THEN None ELSE values[Len(values)]

\* firstForwarded: of a list, the value of the outermost proxy.
FirstForwarded(values) == IF values = <<>> THEN None ELSE Head(values)

\* forwardedProto; the service itself never serves TLS.
ForwardedProto(r) ==
    LET proto == FirstForwarded(r.fproto)
    IN  IF proto \in Web THEN proto ELSE "http"

DefaultPort(scheme) == IF scheme = "https" THEN "443" ELSE "80"

\* forwardedHost: a port told apart from the host is added to it, unless the
\* host has one or it is the scheme's own.
ForwardedHost(r) ==
    LET told == FirstForwarded(r.fhost)
        host == IF told = None THEN r.host ELSE told
        port == FirstForwarded(r.fport)
    IN  IF port = None \/ host.port # None \/ port = DefaultPort(ForwardedProto(r))
        THEN host
        ELSE [host EXCEPT !.port = port]

\* strings.HasPrefix on two paths: it compares text, so that /o begins /oidc/login.
HasPrefix(path, prefix) ==
    /\ Len(prefix) <= Len(path)
    /\ \A i \in 1..Len(prefix) :
          prefix[i] = path[i] \/ (i = Len(prefix) /\ <<prefix[i], path[i]>> \in Beginnings)

\* requestPathWithPrefix: path and challenge of the URI a proxy told, or else of the
\* request; a stripped prefix is put back, unless the URI told begins with it.
RequestPathWithPrefix(r) ==
    LET told   == FirstForwarded(r.furi)
        prefix == FirstForwarded(r.fprefix)
        uri    == IF told = None THEN [path |-> r.path, challenge |-> r.challenge] ELSE told
    IN  IF prefix = None \/ (told # None /\ HasPrefix(told.path, prefix))
        THEN uri
        ELSE [path |-> prefix \o uri.path, challenge |-> uri.challenge]

\* The host of a request that names none.
Unnamed == [name |-> "", port |-> None]

ShouldUseBrowserHostFallback(host) == host = Unnamed \/ host.name \in Loopback

-----------------------------------------------------------------------------
(* The redirect to Kratos *)

\* requestReturnURL: the address the browser asked for, as far as it is known; a
\* loopback host is replaced by the origin of the Kratos browser URL, and where
\* that has no host, there is no address.
RequestReturnURL(c, r) ==
    LET fallback == c.kratosBrowser # None /\ ShouldUseBrowserHostFallback(ForwardedHost(r))
        scheme   == IF fallback /\ c.kratosBrowser.scheme # None
                    THEN c.kratosBrowser.scheme ELSE ForwardedProto(r)
        host     == IF fallback THEN c.kratosBrowser.host ELSE ForwardedHost(r)
        uri      == RequestPathWithPrefix(r)
    IN  IF host \in {None, Unnamed}
        THEN None
        ELSE [scheme |-> scheme, host |-> host, path |-> uri.path, challenge |-> uri.challenge]

\* Mutant: the configured address is used as it is.
BuildReturnURLWithoutQuery(c, r) ==
    IF ReturnBase(c) # None THEN ReturnBase(c) ELSE RequestReturnURL(c, r)

\* buildReturnURL: the configured address with the query of the request, or the
\* address of the request.
BuildReturnURL(c, r) ==
    IF ReturnBase(c) # None
    THEN [ReturnBase(c) EXCEPT !.challenge = r.challenge]
    ELSE RequestReturnURL(c, r)

\* buildKratosLoginRedirect: None when no Kratos browser URL is configured.
KratosLoginRedirect(c) ==
    IF c.kratosBrowser = None
    THEN None
    ELSE [c.kratosBrowser EXCEPT !.path = @ \o <<"self-service", "login", "browser">>]
=============================================================================
