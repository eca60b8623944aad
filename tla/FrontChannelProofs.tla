------------------------- MODULE FrontChannelProofs -------------------------
(***************************************************************************)
(* Theorems about FrontChannel, for any clients, users, deployments,       *)
(* addresses and wirings: what a logout revokes and leaves on record,      *)
(* where browsers are redirected, and that a login comes back from Kratos. *)
(*                                                                         *)
(* IInv is about end_session, LInv about logins.  LInv needs IInv: that a  *)
(* logout sends its user to a registered address was established by the    *)
(* checks of its request, several steps before the redirect.               *)
(***************************************************************************)
EXTENDS FrontChannel, TLAPS

\* What the checks of a request have established by the time of its calls.
RequestOK(r) ==
    /\ r.pc = "revoke" => r.hint \in Consents
    /\ r.pc \in {"revoke", "emit"} => AllowedRedirect(r.post)
    /\ r.pc = "done" /\ Wiring.audit =>
          /\ r.event # "none"
          /\ r.event = "failure" => r.reply = "bad_request"
          /\ r.event = "success" => r.reply # "bad_request"
    /\ (r.pc = "emit" \/ r.reply = "redirect") /\ Wiring.revoker /\ Wiring.jwks =>
          r.revocation # "none"
    /\ r.pc # "done" => r.reply = "none"

IInv ==
    /\ session \in Users \cup {None}
    /\ EndTypeOK
    /\ \A c \in Clients : RequestOK(ending[c])

LEMMA NoRequestOK == NoRequest \in EndRequest /\ RequestOK(NoRequest)
  BY DEF NoRequest, EndRequest, RequestOK

LEMMA InitIInv == Init => IInv
  BY NoRequestOK DEF Init, EndInit, IInv, EndTypeOK

\* A step that gives one client another request record, and adds or takes
\* consents, keeps IInv when the record is a good one.
LEMMA RecordStep ==
    ASSUME IInv, NEW c \in Clients, NEW r \in EndRequest, RequestOK(r),
           ending' = [ending EXCEPT ![c] = r],
           consents' \subseteq Consents, session' = session
    PROVE  IInv'
  <1>1. EndTypeOK'
    BY DEF IInv, EndTypeOK
  <1>2. \A d \in Clients : ending'[d] = IF d = c THEN r ELSE ending[d]
    BY DEF IInv, EndTypeOK
  <1>3. \A d \in Clients : RequestOK(ending'[d])
    BY <1>2 DEF IInv
  <1> QED
    BY <1>1, <1>3 DEF IInv, RequestOK

\* A request of end_session is refused, or passes its checks.
LEMMA AskKeepsIInv ==
    ASSUME IInv, NEW c \in Clients, NEW hint \in Hints \cup {None}, NEW post \in PostLogouts \cup {None},
           AskEndSession(c, hint, post)
    PROVE  IInv'
  <1>1. consents' \subseteq Consents /\ session' = session
    BY DEF AskEndSession, EndSessionRefused, EndSessionBegins, loginVars, IInv, EndTypeOK
  <1>2. CASE EndSessionRefused(c, hint, post)
    <2>1. PICK event \in Emitted("failure") :
              ending' = [ending EXCEPT ![c] = [NoRequest EXCEPT !.pc = "done", !.reply = "bad_request",
                                                                !.event = event]]
      BY <1>2 DEF EndSessionRefused
    <2> DEFINE r == [NoRequest EXCEPT !.pc = "done", !.reply = "bad_request", !.event = event]
    <2>2. event \in {"failure", "lost", "none"} /\ (Wiring.audit => event # "none")
      BY DEF Emitted
    <2>3. r \in EndRequest /\ RequestOK(r)
      BY <2>2 DEF NoRequest, EndRequest, RequestOK
    <2> QED
      BY <1>1, <2>1, <2>3, RecordStep
  <1>3. CASE EndSessionBegins(c, hint, post)
    <2> DEFINE pc == IF Wiring.revoker /\ Claims(hint) # Shape THEN "revoke" ELSE "emit"
               r  == [NoRequest EXCEPT !.pc = pc, !.hint = hint, !.post = post]
    <2>1. ending' = [ending EXCEPT ![c] = r] /\ ValidHint(hint) /\ AllowedRedirect(post)
      BY <1>3 DEF EndSessionBegins
    <2>2. /\ r \in EndRequest
          /\ r.pc = pc /\ r.hint = hint /\ r.post = post /\ r.reply = "none"
      BY DEF NoRequest, EndRequest
    <2>3. AllowedRedirect(post)
      BY <2>1
    <2>4. pc = "revoke" => hint \in Consents
      BY <2>1 DEF ValidHint, Claims, Hints
    <2>5. Wiring.revoker /\ Wiring.jwks => pc = "revoke"
      BY <2>1 DEF ValidHint, Claims
    <2>6. pc \in {"revoke", "emit"}
      OBVIOUS
    <2> HIDE DEF pc, r
    <2>7. RequestOK(r)
      BY <2>2, <2>3, <2>4, <2>5, <2>6 DEF RequestOK
    <2> QED
      BY <1>1, <2>1, <2>2, <2>7, RecordStep
  <1> QED
    BY <1>2, <1>3 DEF AskEndSession

\* Hydra is asked, or the request is recorded and answered.
LEMMA AnswerKeepsIInv ==
    ASSUME IInv, NEW c \in Clients, EndSessionAnswered(c)
    PROVE  IInv'
  <1>1. session' = session /\ ending[c] \in EndRequest /\ RequestOK(ending[c])
    BY DEF EndSessionAnswered, IInv, EndTypeOK
  <1>2. CASE RevokeConsent(c)
    <2>1. PICK v \in {"done", "failed"} :
              ending' = [ending EXCEPT ![c].pc = "emit", ![c].revocation = v]
      BY <1>2 DEF RevokeConsent
    <2> DEFINE r == [ending[c] EXCEPT !.pc = "emit", !.revocation = v]
    <2>2. ending' = [ending EXCEPT ![c] = r]
      BY <2>1, <1>1 DEF EndRequest, IInv, EndTypeOK
    <2>3. consents' \subseteq Consents
      BY <1>2 DEF RevokeConsent, IInv, EndTypeOK
    <2>4. r \in EndRequest /\ RequestOK(r)
      BY <1>1, <1>2 DEF EndRequest, RequestOK, RevokeConsent
    <2> QED
      BY <1>1, <2>2, <2>3, <2>4, RecordStep
  <1>3. CASE EmitAndRedirect(c)
    <2>1. PICK event \in Emitted("success"), reply \in {"redirect", "bad_gateway"} :
              ending' = [ending EXCEPT ![c].pc = "done", ![c].event = event, ![c].reply = reply]
      BY <1>3 DEF EmitAndRedirect
    <2> DEFINE r == [ending[c] EXCEPT !.pc = "done", !.event = event, !.reply = reply]
    <2>2. ending' = [ending EXCEPT ![c] = r]
      BY <2>1, <1>1 DEF EndRequest, IInv, EndTypeOK
    <2>3. event \in {"success", "lost", "none"} /\ (Wiring.audit => event # "none")
      BY DEF Emitted
    <2>4. r \in EndRequest /\ RequestOK(r)
      BY <1>1, <1>3, <2>3 DEF EndRequest, RequestOK, EmitAndRedirect
    <2>5. consents' \subseteq Consents
      BY <1>3 DEF EmitAndRedirect, IInv, EndTypeOK
    <2> QED
      BY <1>1, <2>2, <2>4, <2>5, RecordStep
  <1> QED
    BY <1>2, <1>3 DEF EndSessionAnswered, EndSessionStep

\* Logins leave the requests of end_session alone.
LEMMA LoginKeepsIInv ==
    ASSUME IInv, session' \in Users \cup {None}, ending' = ending, consents' \subseteq Consents
    PROVE  IInv'
  BY DEF IInv, EndTypeOK, RequestOK

LEMMA NextKeepsIInv == IInv /\ [Next]_vars => IInv'
  <1> SUFFICES ASSUME IInv, [Next]_vars PROVE IInv'
    OBVIOUS
  <1>1. consents \subseteq Consents /\ session \in Users \cup {None}
    BY DEF IInv, EndTypeOK
  <1>2. ASSUME NEW c \in Clients, LoginResolved(c)
        PROVE  IInv'
    <2>1. session \in Users
      BY <1>1, <1>2 DEF LoginResolved, SessionSeen
    <2>2. [client |-> c, user |-> session] \in Consents
      BY <2>1 DEF Consents
    <2> QED
      BY <1>1, <1>2, <2>2, LoginKeepsIInv DEF LoginResolved
  <1>3. ASSUME NEW c \in Clients,
               \/ Unavailable(c) \/ MissingChallenge(c) \/ LoginPrompted(c)
               \/ Strays(c) \/ BackToClient(c)
        PROVE  IInv'
    BY <1>1, <1>3, LoginKeepsIInv DEF Unavailable, MissingChallenge, LoginPrompted, Strays, BackToClient,
       endVars
  <1>4. ASSUME NEW c \in Clients, BeginLogin(c)
        PROVE  IInv'
    BY <1>1, <1>4, NoRequestOK, RecordStep DEF BeginLogin
  <1>5. ASSUME NEW c \in Clients, KratosLogin(c)
        PROVE  IInv'
    BY <1>1, <1>5, LoginKeepsIInv DEF KratosLogin, endVars
  <1>6. CASE SessionExpires
    BY <1>1, <1>6, LoginKeepsIInv DEF SessionExpires, endVars
  <1>7. CASE UNCHANGED vars
    BY <1>1, <1>7, LoginKeepsIInv DEF vars, loginVars, endVars
  <1> QED
    BY <1>2, <1>3, <1>4, <1>5, <1>6, <1>7, AskKeepsIInv, AnswerKeepsIInv DEF Next

LEMMA Inductive == Spec => []IInv
  BY InitIInv, NextKeepsIInv, PTL DEF Spec

\* Whoever logs out, and whatever fails, only the consent named by the token of
\* the request goes (ServeHTTP of end_session).
THEOREM OnlyOwnConsent == Spec => OnlyOwnConsentIsRevoked
  <1>1. ASSUME IInv, [Next]_vars
        PROVE  [\A k \in consents \ consents' :
                   \E c \in Clients : /\ ending[c].pc = "revoke"
                                      /\ ending[c].hint = k
                                      /\ ending[c].post \in Wiring.allowList]_endVars
    <2>1. ASSUME NEW c \in Clients, EndSessionAnswered(c)
          PROVE  \A k \in consents \ consents' : /\ ending[c].pc = "revoke"
                                                 /\ ending[c].hint = k
                                                 /\ ending[c].post \in Wiring.allowList
      BY <1>1, <2>1 DEF EndSessionAnswered, EndSessionStep, RevokeConsent, EmitAndRedirect, IInv, RequestOK,
                  AllowedRedirect
    <2>2. ASSUME NEW c \in Clients, NEW hint \in Hints \cup {None}, NEW post \in PostLogouts \cup {None},
                 AskEndSession(c, hint, post)
          PROVE  consents' = consents
      BY <2>2 DEF AskEndSession, EndSessionRefused, EndSessionBegins
    <2>3. ASSUME NEW c \in Clients,
                 \/ Unavailable(c) \/ MissingChallenge(c) \/ LoginResolved(c) \/ LoginPrompted(c)
                 \/ BeginLogin(c) \/ KratosLogin(c) \/ Strays(c) \/ BackToClient(c)
          PROVE  consents \subseteq consents'
      BY <2>3 DEF Unavailable, MissingChallenge, LoginResolved, LoginPrompted, BeginLogin, KratosLogin,
                  Strays, BackToClient, endVars
    <2>4. CASE SessionExpires \/ UNCHANGED vars
      BY <2>4 DEF SessionExpires, vars, endVars
    <2> QED
      BY <1>1, <2>1, <2>2, <2>3, <2>4 DEF Next
  <1> QED
    BY <1>1, Inductive, PTL DEF Spec, OnlyOwnConsentIsRevoked

\* With an emitter every answered request is on record, as what it was answered
\* (emit, fail).
THEOREM LogoutsAreRecorded == ASSUME Wiring.audit PROVE Spec => []EndSessionIsRecorded
  <1>1. IInv => EndSessionIsRecorded
    BY DEF IInv, RequestOK, EndSessionIsRecorded
  <1> QED
    BY <1>1, Inductive, PTL

\* With a validator that reads the token and a revoker, no logout sends its user
\* on without a call to Hydra: exactly what internal/app does not wire.
THEOREM WiredLogoutsRevoke ==
    ASSUME Wiring.jwks, Wiring.revoker PROVE Spec => []LogoutRevokesConsent
  <1>1. IInv => LogoutRevokesConsent
    BY DEF IInv, RequestOK, LogoutRevokesConsent
  <1> QED
    BY <1>1, Inductive, PTL

-----------------------------------------------------------------------------
(* What the service is told of a request *)

\* The addresses a browser may be asked to go to.
Address == Addresses(Clients \cup {None})

LEMMA Deployed ==
    ASSUME deployment \in Deployments
    PROVE  /\ Config.public \in Addresses({None}) /\ Config.public.scheme \in Web
           /\ Config.public.host \in Hosts /\ Config.public.host.name # ""
           /\ Config.hydra \in Addresses({None})
           /\ Config.kratosBrowser \in Addresses({None}) \cup {None}
           /\ Config.returnBase \in Addresses({None}) \cup {None}
           /\ Config.webBase \in Addresses({None}) \cup {None}
           /\ Config.prefix \in Seq(Strings)
           /\ Config.inner \in Hosts
           /\ Config.proxy \in {"none", "silent", "telling", "chain", "port", "uri", "stripped", "comma"}
           /\ Config.proxy = "none" => Config.public.scheme = "http" /\ Config.prefix = <<>>
  <1>1. PICK d \in Deployments : d = deployment
    OBVIOUS
  <1>2. /\ {d.kratosBrowser, d.returnBase, d.webBase} \subseteq Addresses({None}) \cup {None}
        /\ {d.public, d.hydra} \subseteq Addresses({None})
        /\ d.public.scheme \in Web /\ d.public.host # None /\ d.public.host.name # ""
        /\ d.prefix \in Seq(Strings)
        /\ d.inner \in Hosts
        /\ d.proxy \in {"none", "silent", "telling", "chain", "port"} \cup TellingURI
        /\ d.proxy = "none" => d.public.scheme = "http" /\ d.prefix = <<>>
    BY DeploymentAssumption, Zenon
  <1>3. d.public.host \in Hosts
    BY <1>2 DEF Addresses
  <1>4. QED
    BY <1>1, <1>2, <1>3 DEF Config, TellingURI

LEMMA StringsTyped ==
    /\ Web \cup {"80", "443", "oidc", "v1", "login"} \subseteq Strings
    /\ None \notin Strings /\ None \notin Seq(Strings) /\ None \notin Hosts
  BY StringsAssumption, Zenon

LEMMA ExpiriesBound == MaxExpiries \in Nat
  BY DeploymentAssumption, Zenon

\* A port is always told apart from none.
LEMMA PortTyped ==
    ASSUME deployment \in Deployments
    PROVE  /\ Port(Config.public) \in Strings /\ Port(Config.public) # None
           /\ \A scheme : DefaultPort(scheme) \in Strings /\ DefaultPort(scheme) # None
  BY Deployed, StringsTyped DEF Port, DefaultPort, Hosts

\* The outermost value of a list is the first one.
LEMMA Outermost ==
    /\ FirstForwarded(<<>>) = None
    /\ \A x : FirstForwarded(<<x>>) = x
    /\ \A x, y : FirstForwarded(<<x>> \o <<y>>) = x
  BY DEF FirstForwarded

\* What every proxy leaves in a request.
LEMMA DeliveredFields ==
    ASSUME deployment \in Deployments, NEW u \in Address, NEW r, r = Delivered(u)
    PROVE  /\ r.challenge = u.challenge
           /\ r.path = SubSeq(u.path, Len(Config.prefix) + 1, Len(u.path))
           /\ FirstForwarded(r.fport) = IF Config.proxy = "port" THEN Port(Config.public) ELSE None
           /\ FirstForwarded(r.furi) = IF Config.proxy \in TellingURI THEN ToldURI(u, r.path) ELSE None
           /\ FirstForwarded(r.fprefix) = IF Config.proxy \in {"none", "silent"} \/ Config.prefix = <<>>
                                          THEN None ELSE Config.prefix
           /\ FirstForwarded(r.fproto) = IF Config.proxy \in {"none", "silent"}
                                         THEN None ELSE Config.public.scheme
           /\ FirstForwarded(r.fhost) = IF Config.proxy \in {"none", "silent", "port"}
                                        THEN None ELSE Config.public.host
           /\ r.host = CASE Config.proxy = "none" -> Config.public.host
                         [] Config.proxy = "port" -> [Config.public.host EXCEPT !.port = None]
                         [] OTHER                 -> Config.inner
  <1> HIDE DEF FirstForwarded, Port
  <1>1. Config.proxy \in {"none", "silent", "telling", "chain", "port"} \cup TellingURI
    BY Deployed DEF TellingURI
  <1>2. CASE Config.proxy = "none"
    BY <1>2, Outermost DEF Delivered, TellingURI
  <1>3. CASE Config.proxy = "silent"
    BY <1>3, Outermost DEF Delivered, TellingURI
  <1>4. CASE Config.proxy = "telling"
    BY <1>4, Outermost DEF Delivered, TellingURI
  <1>5. CASE Config.proxy = "chain"
    BY <1>5, Outermost DEF Delivered, TellingURI
  <1>6. CASE Config.proxy = "port"
    BY <1>6, Outermost DEF Delivered, TellingURI
  <1>7. CASE Config.proxy \in TellingURI
    BY <1>7, Outermost DEF Delivered, TellingURI
  <1>8. QED
    BY <1>1, <1>2, <1>3, <1>4, <1>5, <1>6, <1>7

\* The scheme the service believes in is one of the web, and the public one of
\* every deployment whose proxy tells it, or that has none.
LEMMA ProtoTold ==
    ASSUME deployment \in Deployments, NEW u \in Address, NEW r, r = Delivered(u)
    PROVE  /\ ForwardedProto(r) \in Web
           /\ Config.proxy # "silent" => ForwardedProto(r) = Config.public.scheme
  <1>1. FirstForwarded(r.fproto) = IF Config.proxy \in {"none", "silent"}
                                   THEN None ELSE Config.public.scheme
    BY DeliveredFields
  <1>2. None \notin Web
    BY StringsTyped
  <1>3. QED
    BY <1>1, <1>2, Deployed DEF ForwardedProto, Web

\* So is the host, but for a port that is the scheme's own.
LEMMA HostTold ==
    ASSUME deployment \in Deployments, NEW u \in Address, NEW r, r = Delivered(u)
    PROVE  /\ ForwardedHost(r) \in Hosts
           /\ Config.proxy = "silent" => ForwardedHost(r) = Config.inner
           /\ Config.proxy # "silent" =>
                 /\ ForwardedHost(r).name = Config.public.host.name
                 /\ ForwardedHost(r).name # ""
                 /\ IF ForwardedHost(r).port = None
                    THEN DefaultPort(Config.public.scheme) = Port(Config.public)
                    ELSE ForwardedHost(r).port = Port(Config.public)
  <1> DEFINE told == FirstForwarded(r.fhost)
             port == FirstForwarded(r.fport)
             host == IF told = None THEN r.host ELSE told
  <1> HIDE DEF told, port
  <1>1. /\ Config.public.host \in Hosts /\ Config.inner \in Hosts /\ None \notin Hosts
        /\ Config.public.host.name # ""
    BY Deployed, StringsTyped
  <1>2. port = IF Config.proxy = "port" THEN Port(Config.public) ELSE None
    BY DeliveredFields DEF port
  <1>3. told = IF Config.proxy \in {"none", "silent", "port"} THEN None ELSE Config.public.host
    BY DeliveredFields DEF told
  <1>4. r.host = CASE Config.proxy = "none" -> Config.public.host
                   [] Config.proxy = "port" -> [Config.public.host EXCEPT !.port = None]
                   [] OTHER                 -> Config.inner
    BY DeliveredFields
  <1>5. ForwardedHost(r) = IF port = None \/ host.port # None \/ port = DefaultPort(ForwardedProto(r))
                           THEN host ELSE [host EXCEPT !.port = port]
    BY DEF ForwardedHost, told, port
  <1>6. CASE Config.proxy = "port"
    <2>1. host = [Config.public.host EXCEPT !.port = None]
      BY <1>3, <1>4, <1>6
    <2>2. host \in Hosts /\ host.port = None /\ host.name = Config.public.host.name
      BY <1>1, <2>1 DEF Hosts
    <2>3. port = Port(Config.public) /\ port \in Strings /\ port # None
      BY <1>2, <1>6, PortTyped
    <2>4. ForwardedProto(r) = Config.public.scheme
      BY <1>6, ProtoTold
    <2> HIDE DEF host
    <2>5. CASE port = DefaultPort(Config.public.scheme)
      BY <1>1, <1>5, <1>6, <2>2, <2>3, <2>4, <2>5
    <2>6. CASE port # DefaultPort(Config.public.scheme)
      <3>1. ForwardedHost(r) = [host EXCEPT !.port = port]
        BY <1>5, <2>2, <2>3, <2>4, <2>6
      <3>2. [host EXCEPT !.port = port] \in Hosts
        BY <2>2, <2>3 DEF Hosts
      <3>3. [host EXCEPT !.port = port].port = port /\ [host EXCEPT !.port = port].name = host.name
        BY <2>2 DEF Hosts
      <3>4. QED
        BY <1>1, <1>6, <2>2, <2>3, <3>1, <3>2, <3>3
    <2>7. QED
      BY <2>5, <2>6
  <1>7. CASE Config.proxy = "silent"
    BY <1>1, <1>2, <1>3, <1>4, <1>5, <1>7
  <1>8. CASE Config.proxy \notin {"port", "silent"}
    <2>1. ForwardedHost(r) = Config.public.host
      BY <1>1, <1>2, <1>3, <1>4, <1>5, <1>8, Deployed
    <2>2. ForwardedHost(r) \in Hosts /\ ForwardedHost(r).name # ""
      BY <1>1, <2>1
    <2>3. IF ForwardedHost(r).port = None
          THEN DefaultPort(Config.public.scheme) = Port(Config.public)
          ELSE ForwardedHost(r).port = Port(Config.public)
      BY <2>1 DEF Port
    <2>4. QED
      BY <1>8, <2>1, <2>2, <2>3
  <1>9. QED
    BY <1>6, <1>7, <1>8

\* The routes are paths.
LEMMA RoutesTyped ==
    /\ <<"oidc", "login">> \in Seq(Strings)
    /\ \A route \in LoginRoutes : route \in Seq(Strings)
  <1>1. "oidc" \in Strings /\ "v1" \in Strings /\ "login" \in Strings
    BY StringsTyped
  <1>2. <<"oidc", "login">> \in Seq(Strings) /\ <<"v1", "oidc", "login">> \in Seq(Strings)
    BY <1>1
  <1>3. QED
    BY <1>2 DEF LoginRoutes

\* A prefix that is cut off leaves the rest, and what it was put in front of
\* begins with it.
LEMMA Stripped ==
    ASSUME NEW S, NEW p \in Seq(S), NEW q \in Seq(S)
    PROVE  /\ SubSeq(p \o q, Len(p) + 1, Len(p \o q)) = q
           /\ HasPrefix(p \o q, p)
  BY DEF HasPrefix

\* What a proxy that tells of the URI tells.
LEMMA URITold ==
    ASSUME deployment \in Deployments, NEW u \in Address, NEW path \in Seq(Strings)
    PROVE  /\ ToldURI(u, path) # None
           /\ ToldURI(u, path).path = IF Config.proxy = "stripped" THEN path ELSE u.path
           /\ ToldURI(u, path).challenge = IF Config.proxy = "comma" THEN None ELSE u.challenge
           /\ ToldURI(u, path).path \in Seq(Strings)
           /\ ToldURI(u, path).challenge \in Clients \cup {None}
  <1>1. u.path \in Seq(Strings) /\ u.challenge \in Clients \cup {None}
    BY DEF Address, Addresses
  <1>2. /\ ToldURI(u, path).path = IF Config.proxy = "stripped" THEN path ELSE u.path
        /\ ToldURI(u, path).challenge = IF Config.proxy = "comma" THEN None ELSE u.challenge
    BY DEF ToldURI
  <1>3. ToldURI(u, path) \in [path : Seq(Strings), challenge : Clients \cup {None}]
    BY <1>1 DEF ToldURI
  <1>4. None \notin [path : Seq(Strings), challenge : Clients \cup {None}]
    BY DeploymentAssumption, Zenon
  <1> QED
    BY <1>1, <1>2, <1>3, <1>4

\* The path the browser asked for is put together again, whoever strips a prefix,
\* as long as somebody tells, and a proxy that tells the stripped path strips no
\* prefix the route itself begins with; so is the challenge, if it is told whole.
LEMMA PathTold ==
    ASSUME deployment \in Deployments, NEW u \in Address, NEW r, r = Delivered(u),
           NEW w, w = RequestPathWithPrefix(r)
    PROVE  /\ w.path \in Seq(Strings) /\ w.challenge \in Clients \cup {None}
           /\ Config.proxy # "comma" => w.challenge = u.challenge
           /\ \A route \in Seq(Strings) :
                 /\ u.path = Config.prefix \o route
                 /\ Config.proxy = "silent" => Config.prefix = <<>>
                 /\ Config.proxy = "stripped" /\ Config.prefix # <<>> => ~HasPrefix(route, Config.prefix)
                 => w.path = u.path
  <1>1. /\ u.path \in Seq(Strings) /\ Config.prefix \in Seq(Strings)
        /\ u.challenge \in Clients \cup {None}
    BY Deployed DEF Address, Addresses
  <1>2. r.path = SubSeq(u.path, Len(Config.prefix) + 1, Len(u.path)) /\ r.path \in Seq(Strings)
    <2>1. r.path = SubSeq(u.path, Len(Config.prefix) + 1, Len(u.path))
      BY DeliveredFields
    <2>2. QED
      BY <1>1, <2>1
  <1> DEFINE told   == FirstForwarded(r.furi)
             prefix == FirstForwarded(r.fprefix)
             uri    == IF told = None THEN [path |-> r.path, challenge |-> r.challenge] ELSE told
             kept   == prefix = None \/ (told # None /\ HasPrefix(told.path, prefix))
  <1>3. told = IF Config.proxy \in TellingURI THEN ToldURI(u, r.path) ELSE None
    BY DeliveredFields
  <1>4. prefix = IF Config.proxy \in {"none", "silent"} \/ Config.prefix = <<>>
                 THEN None ELSE Config.prefix
    BY DeliveredFields
  <1>5. w = IF kept THEN uri ELSE [path |-> prefix \o uri.path, challenge |-> uri.challenge]
    BY DEF RequestPathWithPrefix
  <1>6. None \notin Seq(Strings) /\ r.challenge = u.challenge
    BY StringsTyped, DeliveredFields
  <1> HIDE DEF told, prefix
  <1>7. /\ uri.path = IF Config.proxy \in {"uri", "comma"} THEN u.path ELSE r.path
        /\ uri.challenge = IF Config.proxy = "comma" THEN None ELSE u.challenge
        /\ told # None <=> Config.proxy \in TellingURI
        /\ told # None => told.path = uri.path
    <2>1. CASE Config.proxy \in TellingURI
      BY <1>2, <1>3, <2>1, URITold DEF TellingURI
    <2>2. CASE Config.proxy \notin TellingURI
      BY <1>3, <1>6, <2>2 DEF TellingURI
    <2> QED
      BY <2>1, <2>2
  <1>8. uri.path \in Seq(Strings) /\ uri.challenge \in Clients \cup {None}
    BY <1>1, <1>2, <1>7
  <1> HIDE DEF uri
  <1>9. /\ w.path = IF kept THEN uri.path ELSE prefix \o uri.path
        /\ w.challenge = uri.challenge
    BY <1>5
  <1>10. w.path \in Seq(Strings)
    <2>1. ~kept => prefix \in Seq(Strings)
      BY <1>1, <1>4
    <2> QED
      BY <1>8, <1>9, <2>1
  <1>11. ASSUME NEW route \in Seq(Strings), u.path = Config.prefix \o route,
                Config.proxy = "silent" => Config.prefix = <<>>,
                Config.proxy = "stripped" /\ Config.prefix # <<>> => ~HasPrefix(route, Config.prefix)
         PROVE  w.path = u.path
    <2>1. r.path = route
      <3>1. SubSeq(Config.prefix \o route, Len(Config.prefix) + 1, Len(Config.prefix \o route))
                = route
        BY <1>1, Stripped
      <3>2. QED
        BY <1>2, <1>11, <3>1
    <2>2. CASE Config.prefix = <<>>
      <3>1. prefix = None /\ u.path = route
        BY <1>4, <1>11, <2>2
      <3> QED
        BY <1>7, <1>9, <2>1, <3>1
    <2>3. CASE Config.prefix # <<>>
      <3>1. prefix = Config.prefix /\ prefix # None
        BY <1>1, <1>4, <1>6, <1>11, <2>3, Deployed
      <3>2. CASE Config.proxy \in {"uri", "comma"}
        <4>1. HasPrefix(u.path, Config.prefix)
          BY <1>1, <1>11, Stripped
        <4>2. kept
          BY <1>7, <3>1, <3>2, <4>1 DEF TellingURI
        <4> QED
          BY <1>7, <1>9, <3>2, <4>2
      <3>3. CASE Config.proxy \notin {"uri", "comma"}
        <4>1. uri.path = route
          BY <1>7, <2>1, <3>3
        <4>2. ~kept
          BY <1>7, <1>11, <2>3, <3>1, <3>3, <4>1 DEF TellingURI
        <4> QED
          BY <1>9, <1>11, <3>1, <4>1, <4>2
      <3> QED
        BY <3>2, <3>3
    <2>4. QED
      BY <2>2, <2>3
  <1>12. QED
    BY <1>7, <1>8, <1>9, <1>10, <1>11

-----------------------------------------------------------------------------
(* The return address *)

\* A configured return base, however it is computed, is an address.
LEMMA ReturnBaseTyped ==
    ASSUME deployment \in Deployments
    PROVE  ReturnBase(Config) \in Addresses({None}) \cup {None}
  <1>1. /\ Config.webBase # None =>
              [Config.webBase EXCEPT !.path = @ \o <<"oidc", "login">>] \in Addresses({None})
        /\ Config.webBase \in Addresses({None}) \cup {None}
        /\ Config.returnBase \in Addresses({None}) \cup {None}
    <2>1. ASSUME NEW w \in Addresses({None})
          PROVE  [w EXCEPT !.path = @ \o <<"oidc", "login">>] \in Addresses({None})
      <3>1. w.path \o <<"oidc", "login">> \in Seq(Strings)
        BY RoutesTyped DEF Addresses
      <3>2. QED
        BY <3>1 DEF Addresses
    <2>2. QED
      BY <2>1, Deployed
  <1>2. LoginReturnBaseURL(Config) \in Addresses({None}) \cup {None}
    BY <1>1 DEF LoginReturnBaseURL
  <1>3. QED
    BY <1>2 DEF ReturnBase

\* Where Kratos is asked to send the browser, if anywhere, is an address.
LEMMA ReturnTyped ==
    ASSUME deployment \in Deployments, NEW u \in Address, Config.kratosBrowser # None,
           NEW v, v = BuildReturnURL(Config, Delivered(u)), v # None
    PROVE  v \in Address
  <1>1. u.challenge \in Clients \cup {None}
    BY DEF Address, Addresses
  <1>2. PICK r : r = Delivered(u)
    OBVIOUS
  <1>3. r.challenge = u.challenge
    BY <1>2, DeliveredFields
  <1>4. CASE ReturnBase(Config) # None
    <2>1. ReturnBase(Config) \in Addresses({None})
      BY <1>4, ReturnBaseTyped
    <2>2. v = [ReturnBase(Config) EXCEPT !.challenge = u.challenge]
      BY <1>2, <1>3, <1>4 DEF BuildReturnURL
    <2> HIDE DEF ReturnBase
    <2>3. QED
      BY <1>1, <2>1, <2>2 DEF Addresses, Address
  <1>5. CASE ReturnBase(Config) = None
    <2>1. v = RequestReturnURL(Config, r)
      BY <1>2, <1>5 DEF BuildReturnURL
    <2>2. ForwardedProto(r) \in Strings /\ ForwardedHost(r) \in Hosts
      BY <1>2, ProtoTold, HostTold, StringsTyped
    <2>3. PICK w : w = RequestPathWithPrefix(r)
      OBVIOUS
    <2>4. w.path \in Seq(Strings) /\ w.challenge \in Clients \cup {None}
      BY <1>2, <2>3, PathTold
    <2>5. /\ Config.kratosBrowser.scheme \in Strings \cup {None}
          /\ Config.kratosBrowser.host \in Hosts \cup {None}
      BY Deployed DEF Addresses
    <2>6. PICK scheme \in Strings \cup {None}, host \in Hosts \cup {None} :
              v = IF host \in {None, Unnamed} THEN None
                  ELSE [scheme |-> scheme, host |-> host, path |-> w.path, challenge |-> w.challenge]
      BY <2>1, <2>2, <2>3, <2>5 DEF RequestReturnURL
    <2>7. v = [scheme |-> scheme, host |-> host, path |-> w.path, challenge |-> w.challenge]
      BY <2>6
    <2>8. QED
      BY <2>4, <2>6, <2>7 DEF Address, Addresses
  <1>6. QED
    BY <1>4, <1>5

\* In a deployment that lets the service know itself, that address leads back to
\* the login handler, with the challenge that was asked for.
LEMMA ReturnReachesLogin ==
    ASSUME deployment \in Deployments, Sound, NEW u \in Address, ReachesLogin(u),
           NEW v, v = BuildReturnURL(Config, Delivered(u)), v # None
    PROVE  ReachesLogin(v) /\ v.challenge = u.challenge
  <1>1. PICK r : r = Delivered(u)
    OBVIOUS
  <1>2. CASE ReturnBase(Config) # None
    <2>1. ReachesLogin(ReturnBase(Config)) /\ ReturnBase(Config) \in Addresses({None})
      BY <1>2, ReturnBaseTyped DEF Sound, KnowsItself
    <2>2. PICK b \in Addresses({None}) : b = ReturnBase(Config) /\ ReachesLogin(b)
      BY <2>1
    <2>3. v = [b EXCEPT !.challenge = r.challenge] /\ r.challenge = u.challenge
      BY <1>1, <1>2, <2>2, DeliveredFields DEF BuildReturnURL
    <2>4. /\ v.scheme = b.scheme /\ v.host = b.host /\ v.path = b.path
          /\ v.challenge = u.challenge
      BY <2>3 DEF Addresses
    <2>5. QED
      BY <2>2, <2>4 DEF ReachesLogin, SameOrigin, Port
  <1>3. CASE ReturnBase(Config) = None
    <2>1. v = RequestReturnURL(Config, r)
      BY <1>1, <1>3 DEF BuildReturnURL
    <2>2. /\ Config.proxy # "comma"
          /\ Config.proxy = "silent" => /\ ShouldUseBrowserHostFallback(Config.inner)
                                        /\ KratosIsHere
                                        /\ Config.prefix = <<>>
          /\ Config.proxy = "stripped" /\ Config.prefix # <<>> =>
                \A route \in LoginRoutes : ~HasPrefix(route, Config.prefix)
          /\ Config.kratosBrowser # None
      BY <1>3 DEF Sound, KnowsItself
    <2>3. Config.proxy # "silent" /\ Config.public.host.name \in Loopback => KratosIsHere
      BY <1>3 DEF Sound, KnowsItself
    <2>4. PICK w : w = RequestPathWithPrefix(r)
      OBVIOUS
    <2>5. PICK h : h = ForwardedHost(r)
      OBVIOUS
    <2>6. PICK scheme, host :
              /\ host = IF ShouldUseBrowserHostFallback(h) THEN Config.kratosBrowser.host ELSE h
              /\ scheme = IF ShouldUseBrowserHostFallback(h) /\ Config.kratosBrowser.scheme # None
                          THEN Config.kratosBrowser.scheme ELSE ForwardedProto(r)
              /\ v = [scheme |-> scheme, host |-> host, path |-> w.path, challenge |-> w.challenge]
      BY <2>1, <2>2, <2>4, <2>5 DEF RequestReturnURL
    <2>7. v.scheme = scheme /\ v.host = host /\ v.path = w.path /\ v.challenge = w.challenge
      BY <2>6
    <2>8. v.challenge = u.challenge /\ \E route \in LoginRoutes : v.path = Config.prefix \o route
      <3>1. PICK route \in LoginRoutes : u.path = Config.prefix \o route
        BY DEF ReachesLogin
      <3>2. route \in Seq(Strings)
        BY RoutesTyped
      <3>3. w.path = u.path /\ w.challenge = u.challenge
        BY <1>1, <2>2, <2>4, <3>1, <3>2, PathTold
      <3>4. QED
        BY <2>7, <3>1, <3>3
    <2>9. SameOrigin(v, Config.public)
      <3>1. CASE ShouldUseBrowserHostFallback(h)
        <4>1. KratosIsHere
          <5>1. CASE Config.proxy = "silent"
            BY <2>2, <5>1
          <5>2. CASE Config.proxy # "silent"
            <6>1. h.name = Config.public.host.name /\ h.name # ""
              BY <1>1, <2>5, <5>2, HostTold
            <6>2. h.name \in Loopback
              <7>1. Unnamed.name = ""
                BY DEF Unnamed
              <7> QED
                BY <3>1, <6>1, <7>1 DEF ShouldUseBrowserHostFallback
            <6> QED
              BY <2>3, <5>2, <6>1, <6>2
          <5> QED
            BY <5>1, <5>2
        <4>2. Config.kratosBrowser.scheme # None
          BY <4>1, Deployed, StringsTyped DEF KratosIsHere, SameOrigin
        <4>3. v.scheme = Config.kratosBrowser.scheme /\ v.host = Config.kratosBrowser.host
          BY <2>6, <2>7, <3>1, <4>2
        <4>4. QED
          BY <4>1, <4>3 DEF KratosIsHere, SameOrigin, Port
      <3>2. CASE ~ShouldUseBrowserHostFallback(h)
        <4>1. Config.proxy # "silent"
          BY <1>1, <2>2, <2>5, <3>2, HostTold
        <4>2. v.scheme = Config.public.scheme /\ v.host = h
          BY <1>1, <2>6, <2>7, <3>2, <4>1, ProtoTold
        <4>3. v.host # None /\ Config.public.host # None
          BY <1>1, <2>5, <4>2, HostTold, Deployed, StringsTyped
        <4>4. v.host.name = Config.public.host.name /\ Port(v) = Port(Config.public)
          <5>1. /\ h.name = Config.public.host.name
                /\ IF h.port = None
                   THEN DefaultPort(Config.public.scheme) = Port(Config.public)
                   ELSE h.port = Port(Config.public)
            BY <1>1, <2>5, <4>1, HostTold
          <5>2. Port(v) = IF h.port = None THEN DefaultPort(Config.public.scheme) ELSE h.port
            BY <4>2 DEF Port
          <5>3. QED
            BY <4>2, <5>1, <5>2
        <4>5. QED
          BY <4>2, <4>3, <4>4 DEF SameOrigin
      <3>3. QED
        BY <3>1, <3>2
    <2>10. QED
      BY <2>8, <2>9 DEF ReachesLogin
  <1>4. QED
    BY <1>2, <1>3

\* The address a client's browser starts with.
LEMMA PublicLogin ==
    ASSUME deployment \in Deployments, NEW c \in Clients, NEW route \in LoginRoutes,
           NEW v, v = [PublicURL(route) EXCEPT !.challenge = c]
    PROVE  v \in Address /\ v # None /\ v.challenge = c /\ ReachesLogin(v)
  <1>1. route \in Seq(Strings)
    BY RoutesTyped
  <1>2. /\ v.scheme = Config.public.scheme /\ v.host = Config.public.host
        /\ v.path = Config.prefix \o route /\ v.challenge = c
    BY DEF PublicURL, URL
  <1>3. v = [scheme |-> Config.public.scheme, host |-> Config.public.host,
             path |-> Config.prefix \o route, challenge |-> c]
    BY DEF PublicURL, URL
  <1>4. /\ Config.public.scheme \in Strings /\ Config.public.host \in Hosts
        /\ Config.prefix \o route \in Seq(Strings)
    <2>1. Web \subseteq Strings
      BY StringsTyped, Zenon
    <2>2. Config.prefix \in Seq(Strings) /\ Config.public.scheme \in Web /\ Config.public.host \in Hosts
      BY Deployed
    <2> QED
      BY <1>1, <2>1, <2>2
  <1>5. v \in Address
    <2>1. ASSUME NEW s \in Strings \cup {None}, NEW h \in Hosts \cup {None}, NEW path \in Seq(Strings),
                 NEW ch \in Clients \cup {None}
          PROVE  [scheme |-> s, host |-> h, path |-> path, challenge |-> ch] \in Address
      BY DEF Address, Addresses
    <2>2. PICK s \in Strings, h \in Hosts, path \in Seq(Strings) :
              v = [scheme |-> s, host |-> h, path |-> path, challenge |-> c]
      BY <1>3, <1>4
    <2>3. [scheme |-> s, host |-> h, path |-> path, challenge |-> c] \in Address
      BY <2>1
    <2>4. QED
      BY <2>2, <2>3
  <1>6. ReachesLogin(v)
    <2>1. v.host # None /\ Config.public.host # None
      BY <1>2, <1>4, StringsTyped
    <2> QED
      <3>1. SameOrigin(v, Config.public)
        BY <1>2, <2>1 DEF SameOrigin, Port
      <3> QED
        BY <1>2, <3>1, Zenon DEF ReachesLogin
  <1>7. QED
    BY <1>2, <1>5, <1>6, DeploymentAssumption DEF Address

-----------------------------------------------------------------------------
(* Where the tabs are, and where they were sent *)

\* What may be asked of a redirect: RedirectsAreKnown for one address.
Known(u) ==
    /\ \/ u.scheme \in Web /\ u.host # None
       \/ u.scheme = None /\ u.host = None /\ u = Config.hydra
    /\ \/ u = Config.hydra \/ u \in Wiring.allowList
       \/ Config.kratosBrowser # None /\ u.host = Config.kratosBrowser.host

\* What keeps ReturnsToItsLogin true: the address that goes with a tab on its way
\* to the login handler, or at Kratos, is that of its own login.
TabOK(c, where, address) ==
    where \in {"service", "kratos"} =>
        /\ address # None
        /\ Sound => ReachesLogin(address) /\ address.challenge = c

LInv ==
    /\ deployment \in Deployments
    /\ page \in [Clients -> Pages]
    /\ next \in [Clients -> Address \cup {None}]
    /\ sent = [c \in Clients |-> sent[c]]
    /\ expiries \in 0..MaxExpiries
    /\ \A c \in Clients : TabOK(c, page[c], next[c])
    /\ \A c \in Clients : sent[c] # None => Known(sent[c])

LEMMA InitLInv == Init => LInv
  <1> SUFFICES ASSUME Init PROVE LInv
    OBVIOUS
  <1>1. page \in [Clients -> Pages] /\ next \in [Clients -> Address \cup {None}]
    BY DEF Init, Pages
  <1>2. sent = [c \in Clients |-> sent[c]] /\ \A c \in Clients : sent[c] = None
    BY DEF Init
  <1>3. \A c \in Clients : TabOK(c, page[c], next[c])
    BY DEF Init, TabOK
  <1>4. deployment \in Deployments /\ expiries \in 0..MaxExpiries
    BY ExpiriesBound DEF Init
  <1> QED
    BY <1>1, <1>2, <1>3, <1>4 DEF LInv

\* What is asked of addresses depends on the deployment alone.
LEMMA SameDeployment ==
    ASSUME deployment' = deployment
    PROVE  /\ \A u : Known(u)' <=> Known(u)
           /\ \A c, where, u : TabOK(c, where, u)' <=> TabOK(c, where, u)
  BY DEF Known, TabOK, Sound, KnowsItself, KratosIsHere, ReachesLogin, SameOrigin, Port, Config

\* A tab goes to an address of its own login, or to none, by a known redirect.
LEMMA GoKeepsLInv ==
    ASSUME LInv, deployment' = deployment, expiries' = expiries,
           NEW c \in Clients, NEW where \in Pages, NEW address \in Address \cup {None}, NEW location,
           TabOK(c, where, address), location # None => Known(location),
           Go(c, where, address, location)
    PROVE  LInv'
  <1>1. /\ page' = [page EXCEPT ![c] = where] /\ page \in [Clients -> Pages]
        /\ next' = [next EXCEPT ![c] = address] /\ next \in [Clients -> Address \cup {None}]
        /\ sent' = [sent EXCEPT ![c] = location] /\ sent = [d \in Clients |-> sent[d]]
    BY DEF Go, LInv
  <1>2. page' \in [Clients -> Pages] /\ next' \in [Clients -> Address \cup {None}]
    BY <1>1
  <1>3. sent' = [d \in Clients |-> sent'[d]]
    BY <1>1
  <1>4. ASSUME NEW d \in Clients
        PROVE  TabOK(d, page'[d], next'[d])
    <2>1. CASE d = c
      BY <1>1, <2>1
    <2>2. CASE d # c
      <3>1. page'[d] = page[d] /\ next'[d] = next[d]
        BY <1>1, <2>2
      <3> QED
        BY <3>1 DEF LInv
    <2> QED
      BY <2>1, <2>2
  <1>5. \A d \in Clients : sent'[d] = IF d = c THEN location ELSE sent[d]
    BY <1>1
  <1>6. \A d \in Clients : sent'[d] # None => Known(sent'[d])
    BY <1>5 DEF LInv
  <1> QED
    BY <1>2, <1>3, <1>4, <1>6, SameDeployment DEF LInv

\* Nothing moves but, at most, the session.
LEMMA StayKeepsLInv ==
    ASSUME LInv, deployment' = deployment, page' = page, next' = next, sent' = sent,
           expiries' \in 0..MaxExpiries
    PROVE  LInv'
  BY SameDeployment DEF LInv

\* A tab that goes nowhere in particular needs no address.
LEMMA LeaveKeepsLInv ==
    ASSUME LInv, deployment' = deployment, expiries' = expiries, NEW c \in Clients,
           NEW where \in {"client", "issued", "refused", "lost"},
           NEW location, location # None => Known(location),
           Go(c, where, None, location)
    PROVE  LInv'
  <1>1. where \in Pages /\ TabOK(c, where, None)
    BY DEF Pages, TabOK
  <1> QED
    BY <1>1, GoKeepsLInv

\* The challenge is resolved, and the redirect is Hydra's.
LEMMA ResolvedKeepsLInv ==
    ASSUME LInv, NEW c \in Clients, LoginResolved(c)
    PROVE  LInv'
  <1>1. deployment' = deployment /\ expiries' = expiries
    BY DEF LoginResolved
  <1>2. CASE RedirectTargetAllowed(Config.hydra, {})
    <2>1. PICK location : location = Config.hydra
      OBVIOUS
    <2>2. Go(c, "issued", None, location)
      BY <1>2, <2>1 DEF LoginResolved
    <2>3. Known(location)
      BY <1>2, <2>1 DEF Known, RedirectTargetAllowed
    <2> QED
      BY <1>1, <2>2, <2>3, LeaveKeepsLInv
  <1>3. CASE ~RedirectTargetAllowed(Config.hydra, {})
    BY <1>1, <1>3, LeaveKeepsLInv DEF LoginResolved, Refuse
  <1> QED
    BY <1>2, <1>3

\* The browser is sent to Kratos with the address it is to come back to.
LEMMA PromptedKeepsLInv ==
    ASSUME LInv, NEW c \in Clients, LoginPrompted(c)
    PROVE  LInv'
  <1>1. /\ deployment' = deployment /\ expiries' = expiries /\ deployment \in Deployments
        /\ page[c] = "service" /\ ReachesLogin(next[c])
    BY DEF LoginPrompted, AsksLogin, LInv
  <1>2. PICK target, address :
            /\ target = KratosLoginRedirect(Config)
            /\ address = BuildReturnURL(Config, Delivered(next[c]))
    OBVIOUS
  <1>3. CASE target # None /\ address # None /\ RedirectTargetAllowed(target, {target.host})
    <2>1. PICK u : u = next[c]
      OBVIOUS
    <2>2. u \in Address /\ ReachesLogin(u) /\ TabOK(c, "service", u)
      BY <1>1, <2>1 DEF LInv, TabOK
    <2>3. address = BuildReturnURL(Config, Delivered(u))
      BY <1>2, <2>1
    <2>4. Config.kratosBrowser # None
      BY <1>2, <1>3 DEF KratosLoginRedirect
    <2>5. address \in Address
      BY <1>1, <1>3, <2>2, <2>3, <2>4, ReturnTyped
    <2>6. TabOK(c, "kratos", address)
      BY <1>1, <1>3, <2>2, <2>3, ReturnReachesLogin DEF TabOK
    <2>7. target.host = Config.kratosBrowser.host
      BY <1>2, <2>4, Deployed, <1>1 DEF KratosLoginRedirect, Addresses
    <2>8. Known(target)
      BY <1>3, <2>4, <2>7 DEF Known, RedirectTargetAllowed
    <2>9. Go(c, "kratos", address, target)
      BY <1>2, <1>3 DEF LoginPrompted
    <2>10. "kratos" \in Pages
      BY DEF Pages
    <2> QED
      BY <1>1, <2>5, <2>6, <2>8, <2>9, <2>10, GoKeepsLInv
  <1>4. CASE ~(target # None /\ address # None /\ RedirectTargetAllowed(target, {target.host}))
    <2>1. Go(c, "refused", None, None)
      BY <1>2, <1>4 DEF LoginPrompted, Refuse
    <2> QED
      BY <1>1, <2>1, LeaveKeepsLInv
  <1> QED
    BY <1>3, <1>4

\* A logout that redirects sends the browser to a registered address.
LEMMA LogoutKeepsLInv ==
    ASSUME IInv, LInv, NEW c \in Clients, EndSessionAnswered(c)
    PROVE  LInv'
  <1>1. deployment' = deployment /\ expiries' = expiries
    BY DEF EndSessionAnswered
  <1>2. CASE ending'[c].reply = "redirect"
    <2>1. EmitAndRedirect(c)
      <3>1. ASSUME RevokeConsent(c)
            PROVE  FALSE
        <4>1. ending[c].pc = "revoke" /\ ending[c].reply = "none"
          BY <3>1 DEF RevokeConsent, IInv, RequestOK
        <4>2. PICK v : ending' = [ending EXCEPT ![c].pc = "emit", ![c].revocation = v]
          BY <3>1 DEF RevokeConsent
        <4>3. ending'[c].reply = ending[c].reply
          BY <4>2 DEF IInv, EndTypeOK, EndRequest
        <4> QED
          BY <1>2, <4>1, <4>3
      <3> QED
        BY <3>1 DEF EndSessionAnswered, EndSessionStep
    <2>2. ending[c].pc = "emit" /\ AllowedRedirect(ending[c].post)
      BY <2>1 DEF EmitAndRedirect, IInv, RequestOK
    <2>3. RedirectTargetAllowed(ending[c].post, {})
      <3>1. ASSUME ~RedirectTargetAllowed(ending[c].post, {})
            PROVE  FALSE
        <4>1. PICK event : ending' = [ending EXCEPT ![c].pc = "done", ![c].event = event,
                                                    ![c].reply = "bad_gateway"]
          BY <2>1, <3>1 DEF EmitAndRedirect
        <4>2. ending'[c].reply = "bad_gateway"
          BY <4>1 DEF IInv, EndTypeOK, EndRequest
        <4> QED
          BY <1>2, <4>2
      <3> QED
        BY <3>1
    <2>4. PICK post : post = ending[c].post
      OBVIOUS
    <2>5. Known(post)
      BY <2>2, <2>3, <2>4 DEF Known, AllowedRedirect, RedirectTargetAllowed
    <2>6. Go(c, "client", None, post)
      BY <1>2, <2>4 DEF EndSessionAnswered
    <2> QED
      BY <1>1, <2>5, <2>6, LeaveKeepsLInv
  <1>3. CASE ending'[c].reply # "redirect"
    BY <1>1, <1>3, StayKeepsLInv DEF EndSessionAnswered, LInv
  <1> QED
    BY <1>2, <1>3

\* An authorization starts at the public login address, with its own challenge.
LEMMA BeginKeepsLInv ==
    ASSUME LInv, NEW c \in Clients, BeginLogin(c)
    PROVE  LInv'
  <1>1. deployment' = deployment /\ expiries' = expiries /\ deployment \in Deployments
    BY DEF BeginLogin, LInv
  <1>2. PICK route \in LoginRoutes : Go(c, "service", [PublicURL(route) EXCEPT !.challenge = c], None)
    BY DEF BeginLogin
  <1>3. PICK address : address = [PublicURL(route) EXCEPT !.challenge = c]
    OBVIOUS
  <1>4. address \in Address /\ TabOK(c, "service", address)
    BY <1>1, <1>3, PublicLogin DEF TabOK
  <1>5. Go(c, "service", address, None) /\ "service" \in Pages
    BY <1>2, <1>3 DEF Pages
  <1> QED
    BY <1>1, <1>4, <1>5, GoKeepsLInv

\* Kratos sends the tab to the address it was given.
LEMMA KratosKeepsLInv ==
    ASSUME LInv, NEW c \in Clients, KratosLogin(c)
    PROVE  LInv'
  <1>1. /\ deployment' = deployment /\ next' = next /\ sent' = sent /\ expiries' = expiries
        /\ page' = [page EXCEPT ![c] = "service"] /\ page[c] = "kratos"
    BY DEF KratosLogin
  <1>2. page' \in [Clients -> Pages]
    BY <1>1 DEF LInv, Pages
  <1>3. \A d \in Clients : TabOK(d, page'[d], next[d])
    BY <1>1 DEF LInv, TabOK
  <1> QED
    BY <1>1, <1>2, <1>3, SameDeployment DEF LInv

LEMMA NextKeepsLInv == IInv /\ LInv /\ [Next]_vars => LInv'
  <1> SUFFICES ASSUME IInv, LInv, [Next]_vars PROVE LInv'
    OBVIOUS
  <1>1. ASSUME NEW c \in Clients,
               Unavailable(c) \/ MissingChallenge(c) \/ Strays(c) \/ BackToClient(c)
        PROVE  LInv'
    BY <1>1, LeaveKeepsLInv DEF Unavailable, MissingChallenge, Refuse, Strays, BackToClient
  <1>2. ASSUME NEW c \in Clients, NEW hint \in Hints \cup {None}, NEW post \in PostLogouts \cup {None},
               AskEndSession(c, hint, post)
        PROVE  LInv'
    BY <1>2, StayKeepsLInv DEF AskEndSession, loginVars, LInv
  <1>3. CASE SessionExpires
    <2>1. expiries' \in 0..MaxExpiries
      BY <1>3, ExpiriesBound DEF SessionExpires, LInv
    <2> QED
      BY <1>3, <2>1, StayKeepsLInv DEF SessionExpires
  <1>4. CASE UNCHANGED vars
    BY <1>4, StayKeepsLInv DEF vars, loginVars, LInv
  <1> QED
    BY <1>1, <1>2, <1>3, <1>4, ResolvedKeepsLInv, PromptedKeepsLInv, LogoutKeepsLInv,
       BeginKeepsLInv, KratosKeepsLInv DEF Next

LEMMA LoginInductive == Spec => [](IInv /\ LInv)
  BY InitIInv, InitLInv, NextKeepsIInv, NextKeepsLInv, PTL DEF Spec

\* Tabs, addresses, sessions, consents and requests stay what they are declared to
\* be, and a tab on its way always has somewhere to go.
THEOREM TypeCorrect == Spec => []TypeOK
  <1>1. IInv /\ LInv => TypeOK
    BY DEF IInv, LInv, TypeOK, TabOK
  <1> QED
    BY <1>1, LoginInductive, PTL

\* In every deployment that lets the service know its own address (Sound), whatever
\* the hosts, ports and prefixes and whichever of the headers the proxies send, the
\* forwarded URI with its own path and challenge among them, Kratos sends a browser
\* back to the login handler with the challenge it came with (buildReturnURL).
THEOREM ComesBack == Spec => []ReturnsToItsLogin
  <1>1. LInv => ReturnsToItsLogin
    BY DEF LInv, TabOK, ReturnsToItsLogin
  <1> QED
    BY <1>1, LoginInductive, PTL

\* In every deployment, no route redirects a browser anywhere else than to Kratos,
\* to Hydra's answer or to a registered address (safeRedirect, allowedRedirect).
THEOREM RedirectsKnown == Spec => []RedirectsAreKnown
  <1>1. LInv => RedirectsAreKnown
    BY DEF LInv, Known, RedirectsAreKnown
  <1> QED
    BY <1>1, LoginInductive, PTL

=============================================================================
