----------------------------- MODULE EndSession -----------------------------
(***************************************************************************)
(* The end_session endpoint (internal/server/end_session_handler.go): a    *)
(* client logs its user out.  The request validates the id_token_hint and  *)
(* the post-logout address, asks Hydra to revoke the consent of that       *)
(* client and user, records an audit event and redirects.  Requests of     *)
(* several clients run at the same time; the call to Hydra is a step of    *)
(* its own and may fail, or take effect without an answer.                 *)
(***************************************************************************)
EXTENDS RedirectPolicy

CONSTANTS
    Clients,       \* OAuth2 clients; each has at most one end_session request running
    Users,
    Wiring,        \* what the handler was constructed with
    PostLogouts    \* post-logout addresses a request may name

\* The validator is the JWKS one or the shape check; the revoker and the audit
\* emitter may be missing; the allow-list is never empty.
ASSUME WiringAssumption ==
    Wiring \in [jwks : BOOLEAN, revoker : BOOLEAN, audit : BOOLEAN, allowList : SUBSET PostLogouts]

VARIABLES
    consents,      \* Hydra: the consents it remembers
    ending         \* the last end_session request of each client

endVars == <<consents, ending>>

Consents == [client : Clients, user : Users]

\* An id_token_hint: the claims of a genuine ID token, or a string that only has
\* the shape of one.  None is a hint that is missing or has not even that.
Shape == [client |-> None, user |-> None]
Hints == Consents \cup {Shape}

EndRequest ==
    [pc : {"idle", "revoke", "emit", "done"}, hint : Hints \cup {None}, post : PostLogouts \cup {None},
     revocation : {"none", "done", "failed"}, event : {"none", "success", "failure", "lost"},
     reply : {"none", "redirect", "bad_request", "bad_gateway"}]

NoRequest == [pc |-> "idle", hint |-> None, post |-> None,
              revocation |-> "none", event |-> "none", reply |-> "none"]

EndTypeOK ==
    /\ consents \subseteq Consents
    /\ ending \in [Clients -> EndRequest]

EndInit ==
    /\ consents = {}
    /\ ending = [c \in Clients |-> NoRequest]

-----------------------------------------------------------------------------

\* Validate: the shape check takes whatever looks like a token.
ValidHint(hint) == hint # None /\ (Wiring.jwks => hint # Shape)

\* The shape check reads no claims, so there is no client and no subject.
Claims(hint) == IF Wiring.jwks THEN hint ELSE Shape

\* allowedRedirect: an exact match of an absolute address.
AllowedRedirect(post) ==
    post # None /\ post.scheme # None /\ post.host # None /\ post \in Wiring.allowList

\* emit: an event that cannot be written is a line in the log, and no more.
Emitted(outcome) == IF Wiring.audit THEN {outcome, "lost"} ELSE {"none"}

\* Mutant: the refusals are not recorded.
EndSessionRefusedSilently(c, hint, post) ==
    /\ ending[c].pc \in {"idle", "done"}
    /\ ~ValidHint(hint) \/ ~AllowedRedirect(post)
    /\ ending' = [ending EXCEPT ![c] = [NoRequest EXCEPT !.pc = "done", !.reply = "bad_request"]]
    /\ UNCHANGED consents

\* fail: no hint, a bad one, or an address that is not registered.
EndSessionRefused(c, hint, post) ==
    /\ ending[c].pc \in {"idle", "done"}
    /\ ~ValidHint(hint) \/ ~AllowedRedirect(post)
    /\ \E event \in Emitted("failure") :
          ending' = [ending EXCEPT ![c] = [NoRequest EXCEPT !.pc = "done", !.reply = "bad_request",
                                                            !.event = event]]
    /\ UNCHANGED consents

\* Mutant: the revocation is left to the client.
EndSessionBeginsUnrevoked(c, hint, post) ==
    /\ ending[c].pc \in {"idle", "done"}
    /\ ValidHint(hint) /\ AllowedRedirect(post)
    /\ ending' = [ending EXCEPT ![c] =
                    [NoRequest EXCEPT !.pc = "emit", !.hint = hint, !.post = post]]
    /\ UNCHANGED consents

\* Both checks passed; the revocation needs a revoker, a client and a subject.
EndSessionBegins(c, hint, post) ==
    /\ ending[c].pc \in {"idle", "done"}
    /\ ValidHint(hint) /\ AllowedRedirect(post)
    /\ ending' = [ending EXCEPT ![c] =
                    [NoRequest EXCEPT !.pc = IF Wiring.revoker /\ Claims(hint) # Shape
                                             THEN "revoke" ELSE "emit",
                                      !.hint = hint, !.post = post]]
    /\ UNCHANGED consents

\* Mutant: the call names the subject only.
RevokeConsentOfSubject(c) ==
    /\ ending[c].pc = "revoke"
    /\ consents' = {k \in consents : k.user # ending[c].hint.user}
    /\ ending' = [ending EXCEPT ![c].pc = "emit", ![c].revocation = "done"]

\* RevokeConsent: Hydra deletes the one consent; a failure, before or after the
\* deletion, is logged and the logout goes on.
RevokeConsent(c) ==
    /\ ending[c].pc = "revoke"
    /\ \/ /\ consents' = consents \ {ending[c].hint}
          /\ \E r \in {"done", "failed"} : ending' = [ending EXCEPT ![c].pc = "emit", ![c].revocation = r]
       \/ /\ ending' = [ending EXCEPT ![c].pc = "emit", ![c].revocation = "failed"]
          /\ UNCHANGED consents

\* The event, and the redirect as far as the redirect policy allows it.
EmitAndRedirect(c) ==
    /\ ending[c].pc = "emit"
    /\ \E event \in Emitted("success") :
          ending' = [ending EXCEPT ![c].pc = "done", ![c].event = event,
                       ![c].reply = IF RedirectTargetAllowed(ending[c].post, {})
                                    THEN "redirect" ELSE "bad_gateway"]
    /\ UNCHANGED consents

EndSessionStep(c) == RevokeConsent(c) \/ EmitAndRedirect(c)

-----------------------------------------------------------------------------
(* Properties *)

\* Logging out of one client leaves every other client's consent alone, and so
\* does a request that is refused: a consent goes only under a request of its
\* own client that named the token of its user and a registered address (the
\* order of the checks in ServeHTTP; "revoke ONLY the calling RP's consent
\* session", EndSessionHandler).
OnlyOwnConsentIsRevoked ==
    [][\A k \in consents \ consents' :
          \E c \in Clients : /\ ending[c].pc = "revoke"
                             /\ ending[c].hint = k
                             /\ ending[c].post \in Wiring.allowList]_endVars

\* Every end_session request that was answered left one event, or its loss in the
\* log, and the event says what the browser was told: failure for a refusal,
\* success for a logout, an address the redirect policy then rejects included
\* (emit, fail).
EndSessionIsRecorded ==
    \A c \in Clients : ending[c].pc = "done" =>
        /\ ending[c].event # "none"
        /\ ending[c].event = "failure" => ending[c].reply = "bad_request"
        /\ ending[c].event = "success" => ending[c].reply # "bad_request"

\* A client whose user was sent on to its post-logout address had its consent
\* revoked at Hydra, or the failure to do so logged (EndSessionHandler: "calls
\* Hydra admin to revoke ONLY the calling RP's consent session").
LogoutRevokesConsent ==
    \A c \in Clients : ending[c].reply = "redirect" => ending[c].revocation # "none"
=============================================================================
