--------------------------- MODULE RedirectPolicy ---------------------------
(***************************************************************************)
(* The redirect policy every handler's redirect goes through               *)
(* (internal/server/redirect.go).  A URL is a record of what the policy    *)
(* and the login handler tell apart; None is a part it does not have, and  *)
(* None in place of a URL one that is empty or does not parse.             *)
(***************************************************************************)

CONSTANT None

Web == {"http", "https"}

\* A URL: host is a name and a port, path the sequence of its segments,
\* challenge the login_challenge of its query.
URL(scheme, host, path) == [scheme |-> scheme, host |-> host, path |-> path, challenge |-> None]

\* Mutant: any scheme will do, as long as there is a host.
RedirectTargetAllowedAnyScheme(target, allowedHosts) ==
    /\ target # None
    /\ target.host = None => target.scheme = None /\ allowedHosts = {}
    /\ allowedHosts = {} \/ target.host \in allowedHosts

\* redirectTargetAllowed: a path on this origin unless hosts are pinned, or an
\* http(s) URL with a host, one of the pinned hosts if there are any.
RedirectTargetAllowed(target, allowedHosts) ==
    /\ target # None
    /\ \/ target.scheme = None /\ target.host = None /\ allowedHosts = {}
       \/ /\ target.scheme \in Web
          /\ target.host # None
          /\ allowedHosts = {} \/ target.host \in allowedHosts
=============================================================================
