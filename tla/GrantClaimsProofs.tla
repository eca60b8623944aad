-------------------------- MODULE GrantClaimsProofs --------------------------
(***************************************************************************)
(* Theorems about GrantClaims.  What the operators of IdentityProfile      *)
(* promise holds of every identity; with it, and with what                 *)
(* ChallengeServiceProofs says of the actors of a grant, the properties    *)
(* hold of the orchestrator.                                               *)
(***************************************************************************)
EXTENDS GrantClaims, ChallengeServiceProofs

\* No claim is told by one token only: the builders and the maps they merge.
LEMMA BuildersAgree ==
    ASSUME NEW i, NEW actor
    PROVE  Alike(BuildIDTokenClaims(i, actor), BuildAccessTokenClaims(i, actor))
<1> DEFINE claims   == ExtractTokenClaims(i, actor)
           idMap    == ToIDTokenMap(claims)
           accMap   == ToAccessTokenMap(claims)
           idBase   == [email |-> i.email, display_name |-> DeriveDisplayName(i),
                        matrix_user_id |-> i.matrix]
           accBase  == [email |-> i.email, display_name |-> DeriveDisplayName(i),
                        matrix_user_id |-> i.matrix, identity_id |-> "id", traits |-> "all"]
           id       == BuildIDTokenClaims(i, actor)
           access   == BuildAccessTokenClaims(i, actor)
<1>1. /\ DOMAIN claims = EnhancedClaims
      /\ DOMAIN idMap = EnhancedClaims
      /\ \A c \in EnhancedClaims : idMap[c] = claims[c]
      /\ DOMAIN accMap = SharedClaims
      /\ \A c \in SharedClaims : accMap[c] = claims[c]
  BY DEF ExtractTokenClaims, ToIDTokenMap, ToAccessTokenMap, Only, EnhancedClaims, SharedClaims,
         ComplianceClaims
<1> HIDE DEF claims, idMap, accMap
<1>2. /\ DOMAIN idBase = {"email", "display_name", "matrix_user_id"}
      /\ DOMAIN accBase = {"email", "display_name", "matrix_user_id", "identity_id", "traits"}
      /\ \A c \in {"email", "display_name", "matrix_user_id"} : idBase[c] = accBase[c]
      /\ accBase.identity_id = "id" /\ accBase.traits = "all"
  OBVIOUS
<1> HIDE DEF idBase, accBase
<1>3. /\ id = Token(Merge(idBase, idMap))
      /\ access = Token(Merge(accBase, accMap))
  BY DEF BuildIDTokenClaims, BuildAccessTokenClaims, idBase, accBase, idMap, accMap, claims
<1> HIDE DEF id, access
<1>4. \A c \in SharedClaims : id[c] = claims[c] /\ access[c] = claims[c]
  BY <1>1, <1>2, <1>3 DEF Token, Merge, EnhancedClaims, BasicClaims
<1>5. \A c \in {"email", "display_name", "matrix_user_id"} :
          id[c] = idBase[c] /\ access[c] = accBase[c]
  BY <1>1, <1>2, <1>3 DEF Token, Merge, EnhancedClaims, SharedClaims, ComplianceClaims, BasicClaims
<1>6. \A c \in ComplianceClaims : access[c] = Omitted
  BY <1>1, <1>2, <1>3 DEF Token, Merge, EnhancedClaims, SharedClaims, ComplianceClaims, BasicClaims
<1>7. \A c \in {"identity_id", "traits"} : id[c] = Omitted /\ access[c] = accBase[c]
  BY <1>1, <1>2, <1>3 DEF Token, Merge, EnhancedClaims, SharedClaims, ComplianceClaims, BasicClaims
<1>8. \A c \in {"identity_id", "traits"} : access[c] # Omitted
  BY <1>2, <1>7 DEF Omitted
<1> QED
  BY <1>2, <1>4, <1>5, <1>6, <1>7, <1>8 DEF Alike, id, access

\* The tokens of every grant agree, whatever the profile of its user
\* (buildIDTokenClaims, buildAccessTokenClaims, attachAlkemioClaim).
THEOREM TokensAlwaysAgree == Spec => []TokensAgree
<1>1. AlkemioScopeCarriesActor => TokensAgree
  <2> SUFFICES ASSUME AlkemioScopeCarriesActor, NEW f \in Flows, consent[f] # None
               PROVE  AlikeForAll[ActorTold(consent[f].idActor)][ActorTold(consent[f].accessActor)]
    BY DEF TokensAgree
  <2>1. consent[f].idActor = consent[f].accessActor
    BY DEF AlkemioScopeCarriesActor
  <2>2. \A a \in {"actor", Omitted} : AlikeForAll[a][a]
    BY BuildersAgree DEF AlikeForAll
  <2>3. ActorTold(consent[f].idActor) \in {"actor", Omitted}
    BY DEF ActorTold
  <2> QED
    BY <2>1, <2>2, <2>3
<1> QED
  BY <1>1, ActorClaim, PTL

-----------------------------------------------------------------------------
(* Required traits *)

\* The optional traits never make a difference to the required ones.
LEMMA OptionalIsOptional ==
    ASSUME NEW i \in KratosIdentity
    PROVE  MissingTraits(i) = MissingTraits(WithoutOptional(i))
  <1> DEFINE j == WithoutOptional(i)
  <1>1. /\ j.structured = i.structured /\ j.email = i.email
        /\ j.display = i.display /\ j.named = i.named
        /\ (j.first = "absent") <=> (i.first = "absent")
        /\ (j.last = "absent") <=> (i.last = "absent")
    BY DEF WithoutOptional, KratosIdentity, Names
  <1> HIDE DEF j
  <1>2. DeriveDisplayName(j) = DeriveDisplayName(i)
    BY <1>1 DEF DeriveDisplayName, NameFieldSet
  <1>3. MissingTraits(j) = MissingTraits(i)
    BY <1>1, <1>2 DEF MissingTraits
  <1> QED
    BY <1>3 DEF j

\* A goroutine that stops at its call to Kratos for a missing trait was asking
\* for an identity that lacks one.
LEMMA RefusedIsIncomplete ==
    ASSUME IInv, [Next]_vars, NEW h \in Handlers, req[h].pc = "fetch",
           req'[h].pc = "done", req'[h].reply = "missing_traits"
    PROVE  req[h].identity \in Incomplete
  <1>1. req \in [Handlers -> Request]
    BY DEF IInv, TypeOK
  <1>2. ASSUME NEW g \in Handlers, g # h, ServiceStep(g) \/ Browse(g)
        PROVE  req'[h] = req[h]
    BY <1>1, <1>2
    DEF ServiceStep, Browse, Arrive, ArriveBlank, GetRefused, GetSkippedLogin, GetStandardLogin,
        IdentityHint, FetchFails, FetchLoginProfile, AcceptLogin, AcceptRefused, GetConsent,
        FetchConsentProfile, AttachAlkemioClaim, AcceptConsent, EmitAutoAcceptAudit, GetLogout,
        AcceptLogout, Reply, Goto, GotoWith
  <1>3. CASE ServiceStep(h)
    <2>1. CASE FetchFails(h)
      BY <1>1, <2>1 DEF FetchFails, Reply, Idle
    <2>2. CASE FetchLoginProfile(h) \/ FetchConsentProfile(h)
      BY <1>1, <2>2 DEF FetchLoginProfile, FetchConsentProfile, Goto, Request
    <2> QED
      BY <1>3, <2>1, <2>2
      DEF ServiceStep, GetRefused, GetSkippedLogin, GetStandardLogin, IdentityHint, AcceptLogin,
          AcceptRefused, GetConsent, AttachAlkemioClaim, AcceptConsent, EmitAutoAcceptAudit,
          GetLogout, AcceptLogout, At
  <1>4. CASE Browse(h)
    BY <1>4 DEF Browse, Arrive, ArriveBlank, InFlight
  <1>5. CASE \E f \in Flows : HydraStep(f)
    BY <1>5 DEF HydraStep, BeginAuthorization, FollowLogin, FollowConsent, RequestLogout, FollowLogout
  <1>6. CASE Environment
    BY <1>6 DEF Environment, KratosLogin, KratosLogout, EditProfile, ProvisionActor,
                UpstreamHealthChanges
  <1>7. CASE Restart
    BY <1>1, <1>7 DEF Restart, Idle
  <1>8. CASE UNCHANGED vars
    BY <1>8 DEF vars
  <1> QED
    BY <1>2, <1>3, <1>4, <1>5, <1>6, <1>7, <1>8 DEF Next

\* Nobody is refused for the sake of an optional claim, over all identities
\* (buildIdentityProfile, Fetch).
THEOREM ClaimsBlockNobody == Spec => ClaimsNeverBlockLogin
  <1>1. ASSUME IInv, [Next]_vars
        PROVE  \A h \in Handlers :
                   req[h].pc = "fetch" /\ req'[h].pc = "done" /\ req'[h].reply = "missing_traits" =>
                       MissingTraits(WithoutOptional(req[h].identity)) # {}
    BY <1>1, RefusedIsIncomplete, OptionalIsOptional, ProfileAssumption
  <1>2. QED
    BY <1>1, Inductive, PTL DEF Spec, ClaimsNeverBlockLogin
=============================================================================
