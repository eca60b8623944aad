---------------------------- MODULE FrontChannel ----------------------------
(***************************************************************************)
(* The routes a browser sees (internal/server/router.go) behind whatever   *)
(* stands in front of the service: a browser is sent from a client to the  *)
(* login route, from there to Kratos and back, or on to Hydra, and later   *)
(* to end_session.  LoginReturn says where the redirects point, EndSession *)
(* what the logout does, ChallengeService what happens to a challenge      *)
(* once a login request has a session; here it is accepted in one step.    *)
(*                                                                         *)
(* A deployment is a configuration of the service (see LoginReturn) and    *)
(* what the service cannot know:                                           *)
(*   public, prefix   the address browsers use: scheme and host, and the   *)
(*                    path prefix that the proxy strips                    *)
(*   proxy, inner     what the proxy reports, and the host it calls        *)
(*   hydra            where Hydra's answers send a browser                 *)
(*   sharedCookie     whether browsers send the Kratos session cookie here *)
(*   maintenance      OIDC_MAINTENANCE_MODE                                *)
(***************************************************************************)
EXTENDS LoginReturn, EndSession

CONSTANTS
    Deployments,
    MaxExpiries    \* how often a Kratos session expires, a bound of the model

\* Proxies that send X-Forwarded-Uri: as the browser asked for it, without the
\* prefix they strip, or with a comma ahead of the challenge.
TellingURI == {"uri", "stripped", "comma"}

\* A configuration as it was parsed, and a proxy that can be what it is called:
\* where there is none, nobody strips a prefix, and what browsers speak is what
\* the service serves, which is never TLS.
ASSUME DeploymentAssumption ==
    /\ MaxExpiries \in Nat
    /\ None \notin Addresses(Clients \cup {None})
    /\ None \notin [path : Seq(Strings), challenge : Clients \cup {None}]
    /\ \A d \in Deployments :
          /\ {d.kratosBrowser, d.returnBase, d.webBase} \subseteq Addresses({None}) \cup {None}
          /\ {d.public, d.hydra} \subseteq Addresses({None})
          /\ d.public.scheme \in Web /\ d.public.host # None /\ d.public.host.name # ""
          /\ d.prefix \in Seq(Strings)
          /\ d.inner \in Hosts
          /\ d.proxy \in {"none", "silent", "telling", "chain", "port"} \cup TellingURI
          /\ d.proxy = "none" => d.public.scheme = "http" /\ d.prefix = <<>>

VARIABLES
    deployment,    \* chosen once
    page,          \* where the browser tab of each client is
    next,          \* the address the tab asks for next
    sent,          \* the last Location the service answered the tab with
    session,       \* Kratos: the user of the browser's session
    expiries

loginVars == <<page, next, sent, session, expiries>>
vars      == <<deployment, loginVars, endVars>>

Config == deployment
Pages  == {"client", "service", "kratos", "issued", "refused", "lost"}

TypeOK ==
    /\ deployment \in Deployments
    /\ page \in [Clients -> Pages]
    /\ \A c \in Clients : page[c] \in {"service", "kratos"} => next[c] # None
    /\ session \in Users \cup {None}
    /\ expiries \in 0..MaxExpiries
    /\ EndTypeOK

Init ==
    /\ deployment \in {d \in Deployments : Loads(d)}
    /\ page = [c \in Clients |-> "client"]
    /\ next = [c \in Clients |-> None]
    /\ sent = [c \in Clients |-> None]
    /\ session = None
    /\ expiries = 0
    /\ EndInit

-----------------------------------------------------------------------------
(* The way from the browser to the service *)

\* The routes of the login handler, and the public address of one.
LoginRoutes == {<<"oidc", "login">>, <<"v1", "oidc", "login">>}

PublicURL(route) == URL(Config.public.scheme, Config.public.host, Config.prefix \o route)

Port(u) == IF u.host.port = None THEN DefaultPort(u.scheme) ELSE u.host.port

SameOrigin(u, v) ==
    /\ u.scheme = v.scheme /\ u.host # None /\ v.host # None
    /\ u.host.name = v.host.name /\ Port(u) = Port(v)

\* An address leads to the login handler.
ReachesLogin(u) ==
    /\ SameOrigin(u, Config.public)
    /\ \E route \in LoginRoutes : u.path = Config.prefix \o route

\* What firstForwarded keeps of the X-Forwarded-Uri of u: nothing after a comma.
ToldURI(u, stripped) ==
    [path      |-> IF Config.proxy = "stripped" THEN stripped ELSE u.path,
     challenge |-> IF Config.proxy = "comma" THEN None ELSE u.challenge]

\* The request the service sees when the browser asks for u.
Delivered(u) ==
    LET host     == Config.public.host
        path     == SubSeq(u.path, Len(Config.prefix) + 1, Len(u.path))
        prefix   == IF Config.prefix = <<>> THEN <<>> ELSE <<Config.prefix>>
        silent   == [host |-> Config.inner, path |-> path, challenge |-> u.challenge, fproto |-> <<>>,
                     fhost |-> <<>>, fport |-> <<>>, furi |-> <<>>, fprefix |-> <<>>]
        telling  == [silent EXCEPT !.fproto = <<Config.public.scheme>>, !.fhost = <<host>>,
                                   !.fprefix = prefix]
    IN  CASE Config.proxy = "none"     -> [silent EXCEPT !.host = host]
          [] Config.proxy = "silent"   -> silent
          [] Config.proxy = "telling"  -> telling
          [] Config.proxy = "chain"    -> [telling EXCEPT !.fproto = @ \o <<"http">>,
                                                          !.fhost = @ \o <<Config.inner>>]
          [] Config.proxy = "port"     -> [telling EXCEPT !.fhost = <<>>,
                                                          !.host = [host EXCEPT !.port = None],
                                                          !.fport = <<Port(Config.public)>>]
          [] Config.proxy \in TellingURI -> [telling EXCEPT !.furi = <<ToldURI(u, path)>>]

-----------------------------------------------------------------------------
(* The login route *)

Go(c, where, address, location) ==
    /\ page' = [page EXCEPT ![c] = where]
    /\ next' = [next EXCEPT ![c] = address]
    /\ sent' = [sent EXCEPT ![c] = location]

\* The service answers with a page of its own: an error, and no redirect.
Refuse(c) == Go(c, "refused", None, None)

AsksLogin(c) == page[c] = "service" /\ ReachesLogin(next[c])

\* The Maintenance middleware answers every route but the health probes.
Unavailable(c) ==
    /\ AsksLogin(c)
    /\ Config.maintenance
    /\ Refuse(c)
    /\ UNCHANGED <<deployment, session, expiries, endVars>>

\* A request whose challenge was lost on the way is told so.
MissingChallenge(c) ==
    /\ AsksLogin(c)
    /\ ~Config.maintenance
    /\ next[c].challenge = None
    /\ Refuse(c)
    /\ UNCHANGED <<deployment, session, expiries, endVars>>

\* The session of the request's cookie, when the browser sends the cookie.
SessionSeen == IF Config.sharedCookie THEN session ELSE None

\* Mutant: a login is resolved for whoever asks, session or none.
LoginResolvedForAnyone(c) ==
    /\ AsksLogin(c)
    /\ ~Config.maintenance
    /\ next[c].challenge # None
    /\ IF RedirectTargetAllowed(Config.hydra, {})
       THEN /\ Go(c, "issued", None, Config.hydra)
            /\ consents' = consents \cup {[client |-> c, user |-> session]}
       ELSE Refuse(c) /\ UNCHANGED consents
    /\ UNCHANGED <<deployment, session, expiries, ending>>

\* The challenge is resolved for the user of the session, and Hydra's redirect
\* passed on; the consent follows.
LoginResolved(c) ==
    /\ AsksLogin(c)
    /\ ~Config.maintenance
    /\ next[c].challenge # None
    /\ SessionSeen # None
    /\ IF RedirectTargetAllowed(Config.hydra, {})
       THEN /\ Go(c, "issued", None, Config.hydra)
            /\ consents' = consents \cup {[client |-> c, user |-> session]}
       ELSE Refuse(c) /\ UNCHANGED consents
    /\ UNCHANGED <<deployment, session, expiries, ending>>

\* handleSessionRedirect: off to Kratos, or session_required as an error when no
\* Kratos browser URL is configured or the way back is not known.
LoginPrompted(c) ==
    LET target   == KratosLoginRedirect(Config)
        returnTo == BuildReturnURL(Config, Delivered(next[c]))
    IN  /\ AsksLogin(c)
        /\ ~Config.maintenance
        /\ next[c].challenge # None
        /\ SessionSeen = None
        /\ IF target # None /\ returnTo # None /\ RedirectTargetAllowed(target, {target.host})
           THEN Go(c, "kratos", returnTo, target)
           ELSE Refuse(c)
        /\ UNCHANGED <<deployment, session, expiries, endVars>>

-----------------------------------------------------------------------------
(* end_session *)

\* The client sends its user to end_session, with a hint and an address.
AskEndSession(c, hint, post) ==
    /\ page[c] = "issued"
    /\ ~Config.maintenance
    /\ hint \in consents \/ hint \in {Shape, None}
    /\ hint # None => hint.client \in {c, None}
    /\ EndSessionRefused(c, hint, post) \/ EndSessionBegins(c, hint, post)
    /\ UNCHANGED <<deployment, loginVars>>

\* The answer of end_session: back at the client, or still where it was.
EndSessionAnswered(c) ==
    /\ EndSessionStep(c)
    /\ IF ending'[c].reply = "redirect"
       THEN Go(c, "client", None, ending[c].post)
       ELSE UNCHANGED <<page, next, sent>>
    /\ UNCHANGED <<deployment, session, expiries>>

-----------------------------------------------------------------------------
(* External: Hydra, Kratos and the browser *)

\* A client starts an authorization: Hydra sends the tab to the login page.  How
\* the client's last logout was answered is forgotten.
BeginLogin(c) ==
    /\ page[c] = "client"
    /\ \E route \in LoginRoutes :
          Go(c, "service", [PublicURL(route) EXCEPT !.challenge = c], None)
    /\ ending' = [ending EXCEPT ![c] = NoRequest]
    /\ UNCHANGED <<deployment, session, expiries, consents>>

\* Kratos asks for a password, or has a session already, and sends the tab on.
KratosLogin(c) ==
    /\ page[c] = "kratos"
    /\ session' \in IF session = None THEN Users ELSE {session}
    /\ page' = [page EXCEPT ![c] = "service"]
    /\ UNCHANGED <<deployment, next, sent, expiries, endVars>>

SessionExpires ==
    /\ session # None
    /\ expiries < MaxExpiries
    /\ session' = None
    /\ expiries' = expiries + 1
    /\ UNCHANGED <<deployment, page, next, sent, endVars>>

\* The address leads somewhere else.
Strays(c) ==
    /\ page[c] = "service"
    /\ ~ReachesLogin(next[c])
    /\ Go(c, "lost", None, None)
    /\ UNCHANGED <<deployment, session, expiries, endVars>>

BackToClient(c) ==
    /\ page[c] \in {"refused", "lost", "issued"}
    /\ ending[c].pc \in {"idle", "done"}
    /\ Go(c, "client", None, None)
    /\ UNCHANGED <<deployment, session, expiries, endVars>>

Next ==
    \/ \E c \in Clients :
          \/ Unavailable(c) \/ MissingChallenge(c) \/ LoginResolved(c) \/ LoginPrompted(c)
          \/ EndSessionAnswered(c)
          \/ \E hint \in Hints \cup {None}, post \in PostLogouts \cup {None} : AskEndSession(c, hint, post)
          \/ BeginLogin(c) \/ KratosLogin(c) \/ Strays(c) \/ BackToClient(c)
    \/ SessionExpires

Spec == Init /\ [][Next]_vars

\* A request is answered, a browser follows its redirects, and its user logs in.
Fairness ==
    \A c \in Clients :
        /\ WF_vars(Unavailable(c) \/ MissingChallenge(c) \/ LoginResolved(c) \/ LoginPrompted(c))
        /\ WF_vars(KratosLogin(c))

LiveSpec == Spec /\ Fairness

-----------------------------------------------------------------------------
(* Properties *)

\* What the service needs to find its way back to itself: a return base that is
\* the public login address; or none and a proxy that reports the address, whole
\* and so that the prefix it strips is not taken for a part of the route.  For a
\* loopback address, and for none, it has to be the one Kratos is reached at.
KratosIsHere == SameOrigin(Config.kratosBrowser, Config.public)

KnowsItself ==
    IF ReturnBase(Config) # None
    THEN ReachesLogin(ReturnBase(Config))
    ELSE /\ Config.proxy # "comma"
         /\ Config.proxy = "silent" =>
               ShouldUseBrowserHostFallback(Config.inner) /\ KratosIsHere /\ Config.prefix = <<>>
         /\ Config.proxy # "silent" /\ Config.public.host.name \in Loopback => KratosIsHere
         /\ Config.proxy = "stripped" /\ Config.prefix # <<>> =>
               \A route \in LoginRoutes : ~HasPrefix(route, Config.prefix)

Sound ==
    /\ ~Config.maintenance
    /\ Config.sharedCookie
    /\ Config.kratosBrowser # None /\ Config.kratosBrowser.host # None
    /\ KnowsItself
    /\ Config.hydra.scheme \in Web /\ Config.hydra.host # None

\* A user who was sent to Kratos comes back to the login handler with the very
\* challenge that was asked for, in every deployment that lets the service know
\* its own address: through chains of proxies, ports told apart, stripped
\* prefixes and the loopback fall-back (buildReturnURL and below).
ReturnsToItsLogin ==
    Sound => \A c \in Clients : page[c] = "kratos" =>
        ReachesLogin(next[c]) /\ next[c].challenge = c

\* A browser is redirected to http(s) addresses only, and of those to the Kratos
\* it is configured with, to Hydra, or to a registered post-logout address,
\* whatever Hydra answers and whatever the allow-list holds; only an answer of
\* Hydra may also be a path of this origin (safeRedirect).
RedirectsAreKnown ==
    \A c \in Clients : sent[c] # None =>
        /\ \/ sent[c].scheme \in Web /\ sent[c].host # None
           \/ sent[c].scheme = None /\ sent[c].host = None /\ sent[c] = Config.hydra
        /\ \/ sent[c] = Config.hydra \/ sent[c] \in Wiring.allowList
           \/ Config.kratosBrowser # None /\ sent[c].host = Config.kratosBrowser.host

\* No redirect loop and no dead end: in such a deployment every login ends with
\* Hydra's redirect, however the session expires on the way.
LoginsEnd ==
    \A c \in Clients : Sound /\ page[c] = "service" ~> page[c] = "issued"
=============================================================================
