--------------------------- MODULE IdentityProfile ---------------------------
(***************************************************************************)
(* What the service reads from a Kratos identity and puts into the tokens  *)
(* (internal/challenge/identity_mapper.go, model.go and the claim builders *)
(* of service.go).  A string is kept as the class the code tells it by: an *)
(* email that parses or not, a name that may go into a token or not.       *)
(***************************************************************************)
EXTENDS FiniteSets

\* The value of a claim that is left out.
Omitted == "omitted"

\* A name field: not there (or blank, or no string), fit for a claim, or unfit
\* for one: longer than 255 bytes, or with a rune that is no letter, digit,
\* space, hyphen, apostrophe or full stop.
Names == {"absent", "plain", "unfit"}

\* What traits.accepted_terms can be: a boolean, a string that spells one, any
\* other value, nothing.
Terms == {"true", "false", "yes", "no", "other", "absent"}

Addresses == [via : {"email", "sms"}, verified : BOOLEAN]

\* A Kratos identity.  "structured" says whether the traits are a JSON object,
\* "named" whether traits.name is one; "matrix" is metadata_public.matrix_user_id.
KratosIdentity ==
    [structured : BOOLEAN, email : {"valid", "invalid", "absent"}, display : {"set", "absent"},
     named : BOOLEAN, first : Names, last : Names, addresses : SUBSET Addresses,
     terms : Terms, matrix : {"matrix", Omitted}]

-----------------------------------------------------------------------------
(* Required traits *)

NameFieldSet(i, name) == i.named /\ name # "absent"

\* deriveDisplayName: the trait itself, or what there is of first and last name.
DeriveDisplayName(i) ==
    CASE i.display = "set" -> "display"
      [] i.display # "set" /\ NameFieldSet(i, i.first) /\ NameFieldSet(i, i.last) -> "first last"
      [] i.display # "set" /\ NameFieldSet(i, i.first) /\ ~NameFieldSet(i, i.last) -> "first"
      [] i.display # "set" /\ ~NameFieldSet(i, i.first) /\ NameFieldSet(i, i.last) -> "last"
      [] OTHER -> Omitted

RequiredTraits == {"traits.email", "traits.display_name"}

\* Mutant: a name that cannot become a claim is reported like a missing one.
MissingTraitsUnfitNames(i) ==
    IF ~i.structured \/ (i.named /\ "unfit" \in {i.first, i.last})
    THEN RequiredTraits
    ELSE {t \in RequiredTraits :
            \/ t = "traits.email" /\ i.email # "valid"
            \/ t = "traits.display_name" /\ DeriveDisplayName(i) = Omitted}

\* buildIdentityProfile: the traits for whose want no profile is built.
MissingTraits(i) ==
    IF ~i.structured
    THEN RequiredTraits
    ELSE {t \in RequiredTraits :
            \/ t = "traits.email" /\ i.email # "valid"
            \/ t = "traits.display_name" /\ DeriveDisplayName(i) = Omitted}

-----------------------------------------------------------------------------
(* Optional claims *)

NameClaim(i, name) == IF i.named /\ name = "plain" THEN name ELSE Omitted

\* extractEmailVerifiedClaim: whether any address reached by email is verified.
EmailVerified(i) ==
    LET emails == {a \in i.addresses : a.via = "email"}
    IN  IF emails = {} THEN Omitted
        ELSE IF \E a \in emails : a.verified THEN "true" ELSE "false"

AcceptedTerms(i) ==
    CASE i.terms \in {"true", "yes"}  -> "true"
      [] i.terms \in {"false", "no"}  -> "false"
      [] OTHER                        -> Omitted

\* extractTokenClaims, completed with the actor id the orchestrator resolved.
ExtractTokenClaims(i, actor) ==
    [given_name       |-> NameClaim(i, i.first),
     family_name      |-> NameClaim(i, i.last),
     email_verified   |-> EmailVerified(i),
     accepted_terms   |-> AcceptedTerms(i),
     alkemio_actor_id |-> actor]

SharedClaims     == {"given_name", "family_name", "alkemio_actor_id"}
ComplianceClaims == {"email_verified", "accepted_terms"}
EnhancedClaims   == SharedClaims \cup ComplianceClaims
BasicClaims      == {"email", "display_name", "matrix_user_id", "identity_id", "traits"}

\* A token: a value or Omitted for every claim.
Token(claims) == [c \in EnhancedClaims \cup BasicClaims |->
                    IF c \in DOMAIN claims THEN claims[c] ELSE Omitted]

Only(claims, names) == [c \in DOMAIN claims \cap names |-> claims[c]]

Merge(base, extra) == [c \in DOMAIN base \cup DOMAIN extra |->
                         IF c \in DOMAIN extra THEN extra[c] ELSE base[c]]

\* Mutant: the access token's map has lost a name.
ToAccessTokenMapNoFamilyName(claims) == Only(claims, SharedClaims \ {"family_name"})

\* ToAccessTokenMap and ToIDTokenMap choose what goes where.
ToAccessTokenMap(claims) == Only(claims, SharedClaims)
ToIDTokenMap(claims)     == Only(claims, EnhancedClaims)

\* buildIDTokenClaims.
BuildIDTokenClaims(i, actor) ==
    Token(Merge([email |-> i.email, display_name |-> DeriveDisplayName(i), matrix_user_id |-> i.matrix],
                ToIDTokenMap(ExtractTokenClaims(i, actor))))

\* buildAccessTokenClaims: the identity and all of its traits go with it.
BuildAccessTokenClaims(i, actor) ==
    Token(Merge([email |-> i.email, display_name |-> DeriveDisplayName(i), matrix_user_id |-> i.matrix,
                 identity_id |-> "id", traits |-> "all"],
                ToAccessTokenMap(ExtractTokenClaims(i, actor))))

-----------------------------------------------------------------------------
(* What is promised about them, whoever the identity is *)

Complete == {i \in KratosIdentity : MissingTraits(i) = {}}

\* Apart from the compliance claims, which only the ID token has, and the identity
\* and its raw traits, which only the access token has, every claim is in both
\* tokens with one value, or in neither.
Alike(id, access) ==
    /\ \A c \in SharedClaims \cup {"email", "display_name", "matrix_user_id"} : id[c] = access[c]
    /\ \A c \in ComplianceClaims : access[c] = Omitted
    /\ \A c \in {"identity_id", "traits"} : id[c] = Omitted /\ access[c] # Omitted

\* The identity without anything that only an optional claim is read from.
WithoutOptional(i) ==
    LET plain(name) == IF name = "unfit" THEN "plain" ELSE name
    IN  [i EXCEPT !.first = plain(@), !.last = plain(@), !.addresses = {}, !.terms = "absent",
                  !.matrix = Omitted]
=============================================================================
