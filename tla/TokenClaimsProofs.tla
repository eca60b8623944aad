-------------------------- MODULE TokenClaimsProofs --------------------------
(***************************************************************************)
(* Theorems about TokenClaims, for any identities, any number of token     *)
(* exchanges and webhooks, and every wiring of the refresh resolver.       *)
(***************************************************************************)
EXTENDS TokenClaims, TLAPS

BothReal == wiring.kratos = "real" /\ wiring.alkemio = "real"

Stamped(i) == metadata[i].actor = Actor(i)

\* What an exchange knows: while it runs it is one of the alkemio scope and has
\* answered nothing; by its second read, if Alkemio had an actor, the claim is at
\* Kratos to stay; what it answers follows from that.
HookOK(h) ==
    /\ hook[h].pc \in {"read", "restamp", "reread"} =>
          /\ hook[h].subject \in Identities
          /\ hook[h].alkemio
          /\ hook[h].reply = None
    /\ hook[h].pc \in {"read", "restamp"} => hook[h].stamps = 0
    /\ hook[h].pc = "reread" =>
          /\ hook[h].stamps = 1
          /\ BothReal /\ ~hook[h].lacking => Stamped(hook[h].subject)
    /\ hook[h].reply = "200" =>
          /\ hook[h].alkemio => /\ hook[h].out.access = Actor(hook[h].subject)
                                /\ hook[h].out.id = Actor(hook[h].subject)
          /\ hook[h].out.profile = hook[h].session.profile
          /\ ~hook[h].alkemio => hook[h].out = hook[h].session
    /\ hook[h].reply = "403" =>
          /\ BothReal => hook[h].trouble \/ (hook[h].lacking /\ hook[h].stamps = 1)
          /\ wiring.emitter = "wired" => hook[h].event # None

PostOK(p) ==
    /\ post[p].pc \in {"resolve", "patch"} => /\ post[p].identity \in Identities
                                              /\ post[p].reply = None
    /\ post[p].reply = "200" => post[p].identity \in Identities /\ Stamped(post[p].identity)

IInv ==
    /\ TypeOK
    /\ \A i \in Identities : metadata[i].actor \in {None, Actor(i)}
    /\ \A h \in Hooks : HookOK(h)
    /\ \A p \in Posts : PostOK(p)

\* No step takes a claim back or touches the wiring.
Keeps ==
    /\ metadata' \in [Identities -> Metadata]
    /\ wiring' = wiring
    /\ \A i \in Identities : /\ metadata'[i].actor \in {None, Actor(i)}
                             /\ Stamped(i) => Stamped(i)'

LEMMA InitIInv == Init => IInv
  <1> SUFFICES ASSUME Init PROVE IInv
    OBVIOUS
  <1>1. NoHook \in Exchange /\ NoPost \in PostLogin
    BY DEF NoHook, NoPost, Exchange, PostLogin, Nothing, Session, Claims
  <1>2. TypeOK
    BY <1>1, TokenClaimsAssumption DEF Init, TypeOK, Metadata, Claims
  <1> QED
    BY <1>2, NoneAssumption DEF Init, IInv, HookOK, PostOK, NoHook, NoPost

\* A step of one exchange, whatever it does to the metadata.
LEMMA HookRecordStep ==
    ASSUME IInv, NEW h \in Hooks, NEW r \in Exchange, hook' = [hook EXCEPT ![h] = r], Keeps,
           UNCHANGED <<mapped, post>>, HookOK(h)'
    PROVE  IInv'
  <1>1. TypeOK'
    BY DEF IInv, TypeOK, Keeps
  <1>2. \A g \in Hooks : g # h => hook'[g] = hook[g]
    BY DEF IInv, TypeOK
  <1>3. ASSUME NEW g \in Hooks, g # h PROVE HookOK(g)'
    <2>1. hook'[g] = hook[g] /\ hook[g] \in Exchange /\ HookOK(g)
      BY <1>2, <1>3 DEF IInv, TypeOK
    <2> QED
      BY <2>1 DEF HookOK, Keeps, BothReal
  <1>4. ASSUME NEW p \in Posts PROVE PostOK(p)'
    BY <1>4 DEF IInv, PostOK, Keeps
  <1> QED
    BY <1>1, <1>3, <1>4 DEF IInv, Keeps

\* A step of one webhook.
LEMMA PostRecordStep ==
    ASSUME IInv, NEW p \in Posts, NEW r \in PostLogin, post' = [post EXCEPT ![p] = r], Keeps,
           UNCHANGED <<mapped, hook>>, PostOK(p)'
    PROVE  IInv'
  <1>1. TypeOK'
    BY DEF IInv, TypeOK, Keeps
  <1>2. ASSUME NEW q \in Posts, q # p PROVE PostOK(q)'
    BY <1>2 DEF IInv, TypeOK, PostOK, Keeps
  <1>3. ASSUME NEW g \in Hooks PROVE HookOK(g)'
    BY <1>3 DEF IInv, HookOK, Keeps, BothReal
  <1> QED
    BY <1>1, <1>2, <1>3 DEF IInv, Keeps

LEMMA Unchanged == IInv /\ UNCHANGED <<metadata, wiring>> => Keeps
  BY DEF IInv, TypeOK, Keeps, Stamped

\* Stamping the actor of an identity keeps the claims.
LEMMA Stamping ==
    ASSUME IInv, NEW i \in Identities, NEW m \in BOOLEAN, wiring' = wiring,
           metadata' = [metadata EXCEPT ![i] = [actor |-> Actor(i), matrix |-> m]]
    PROVE  Keeps /\ Stamped(i)'
  BY DEF IInv, TypeOK, Keeps, Stamped, Metadata, Claims

LEMMA StampingActor ==
    ASSUME IInv, NEW i \in Identities, wiring' = wiring,
           metadata' = [metadata EXCEPT ![i].actor = Actor(i)]
    PROVE  Keeps /\ Stamped(i)'
  <1>1. metadata[i] \in Metadata /\ metadata[i].matrix \in BOOLEAN
    BY DEF IInv, TypeOK, Metadata
  <1>2. metadata' = [metadata EXCEPT ![i] = [actor |-> Actor(i), matrix |-> metadata[i].matrix]]
    <2>1. [metadata[i] EXCEPT !.actor = Actor(i)] = [actor |-> Actor(i), matrix |-> metadata[i].matrix]
      BY <1>1 DEF Metadata
    <2>2. metadata' = [metadata EXCEPT ![i] = [metadata[i] EXCEPT !.actor = Actor(i)]]
      OBVIOUS
    <2> QED
      BY <2>1, <2>2
  <1> QED
    BY <1>1, <1>2, Stamping

\* Whatever the resolver reads is the actor of the subject.
LEMMA ReadIsOwn ==
    ASSUME IInv, NEW i \in Identities
    PROVE  /\ ActorRead(i) \in {None, Actor(i)}
           /\ wiring.kratos = "real" /\ Stamped(i) => ActorRead(i) # None
  BY NoneAssumption DEF IInv, ActorRead, Stamped

\* What an answer looks like.
LEMMA GrantedStep ==
    ASSUME IInv, NEW h \in Hooks, hook[h].pc \in {"read", "reread"},
           Granted(h, Actor(hook[h].subject)), UNCHANGED <<metadata, mapped, wiring, post>>
    PROVE  IInv'
  <1> DEFINE i == hook[h].subject
             s == [hook[h].session EXCEPT !.access = Actor(i), !.id = Actor(i)]
             r == [hook[h] EXCEPT !.pc = "done", !.reply = "200", !.out = s]
  <1>1. hook \in [Hooks -> Exchange] /\ hook[h] \in Exchange /\ i \in Identities /\ hook[h].alkemio
    BY DEF IInv, TypeOK, HookOK
  <1>2. Actor(i) # None /\ s \in Session /\ r \in Exchange
    <2>1. Actor(i) # None
      BY <1>1, NoneAssumption
    <2>2. Actor(i) \in Claims
      BY <1>1 DEF Claims
    <2>3. hook[h].session \in Session
      BY <1>1 DEF Exchange
    <2>4. s \in Session
      BY <2>2, <2>3 DEF Session
    <2> HIDE DEF s
    <2>5. r \in Exchange
      BY <1>1, <2>4 DEF Exchange
    <2> QED
      BY <2>1, <2>4, <2>5
  <1>3. hook' = [hook EXCEPT ![h] = r]
    BY <1>1, <1>2 DEF Granted, Echo, Exchange
  <1>4. /\ hook'[h] = r
        /\ s.access = Actor(i) /\ s.id = Actor(i) /\ s.profile = hook[h].session.profile
    BY <1>1, <1>3 DEF Exchange, Session
  <1>5. HookOK(h)'
    BY <1>1, <1>4, NoneAssumption DEF HookOK, Exchange
  <1> QED
    BY <1>2, <1>3, <1>5, Unchanged, HookRecordStep

\* Where an emitter is wired, every emission leaves something.
LEMMA EmittedIs ==
    ASSUME NEW e \in Emitted
    PROVE  e \in {None, "written", "lost"} /\ (wiring.emitter = "wired" => e # None)
  BY NoneAssumption DEF Emitted

LEMMA DeniedStep ==
    ASSUME IInv, NEW h \in Hooks, NEW trouble \in BOOLEAN, hook[h].pc \in {"read", "reread"},
           Denied(h, trouble), UNCHANGED <<metadata, mapped, wiring, post>>,
           ~trouble /\ BothReal => hook[h].lacking /\ hook[h].stamps = 1
    PROVE  IInv'
  <1>1. hook \in [Hooks -> Exchange] /\ hook[h] \in Exchange
    BY DEF IInv, TypeOK
  <1>e. PICK e \in {None, "written", "lost"} :
            /\ hook' = [hook EXCEPT ![h].pc = "done", ![h].reply = "403", ![h].trouble = trouble,
                                    ![h].event = e]
            /\ wiring.emitter = "wired" => e # None
    BY EmittedIs DEF Denied
  <1> DEFINE r == [hook[h] EXCEPT !.pc = "done", !.reply = "403", !.trouble = trouble, !.event = e]
  <1>2. r \in Exchange
    BY <1>1 DEF Exchange
  <1>3. hook' = [hook EXCEPT ![h] = r]
    BY <1>1, <1>e DEF Exchange
  <1>4. HookOK(h)'
    BY <1>1, <1>e, <1>3, NoneAssumption DEF HookOK, Exchange, BothReal
  <1> QED
    BY <1>2, <1>3, <1>4, Unchanged, HookRecordStep

-----------------------------------------------------------------------------
(* One lemma per operation *)

LEMMA HookRequestStep ==
    ASSUME IInv, NEW h \in Hooks, HookRequest(h) \/ HookMalformed(h) PROVE IInv'
  <1>1. NoHook \in Exchange
    BY DEF NoHook, Exchange, Nothing, Session, Claims
  <1>2. CASE HookMalformed(h)
    <2> DEFINE r == [NoHook EXCEPT !.pc = "done", !.reply = "400"]
    <2>1. r \in Exchange
      BY <1>1 DEF Exchange
    <2>2. hook'[h] = r
      BY <1>2 DEF HookMalformed, IInv, TypeOK
    <2>3. HookOK(h)'
      BY <2>2, NoneAssumption DEF HookOK, NoHook
    <2> QED
      BY <1>2, <2>1, <2>3, Unchanged, HookRecordStep DEF HookMalformed
  <1>3. CASE HookRequest(h)
    <2>1. PICK i \in Identities, alkemio \in BOOLEAN : \E s \in Sessions(i, alkemio) :
              hook' = [hook EXCEPT ![h] =
                         IF alkemio
                         THEN [NoHook EXCEPT !.pc = "read", !.subject = i, !.alkemio = TRUE, !.session = s]
                         ELSE [NoHook EXCEPT !.pc = "done", !.subject = i, !.session = s,
                                             !.reply = "200", !.out = Echo(s, None)]]
      BY <1>3 DEF HookRequest
    <2>2. PICK s \in Sessions(i, alkemio) :
              hook' = [hook EXCEPT ![h] =
                         IF alkemio
                         THEN [NoHook EXCEPT !.pc = "read", !.subject = i, !.alkemio = TRUE, !.session = s]
                         ELSE [NoHook EXCEPT !.pc = "done", !.subject = i, !.session = s,
                                             !.reply = "200", !.out = Echo(s, None)]]
      BY <2>1
    <2>3. s \in Session /\ Echo(s, None) = s
      BY DEF Sessions, Session, Claims, Echo
    <2>4. CASE alkemio
      <3> DEFINE r == [NoHook EXCEPT !.pc = "read", !.subject = i, !.alkemio = TRUE, !.session = s]
      <3>1. r \in Exchange /\ hook' = [hook EXCEPT ![h] = r]
        BY <1>1, <2>2, <2>3, <2>4 DEF Exchange
      <3>2. hook'[h] = r
        BY <3>1 DEF IInv, TypeOK
      <3>3. HookOK(h)'
        BY <3>2, NoneAssumption DEF HookOK, NoHook
      <3> QED
        BY <1>3, <3>1, <3>3, Unchanged, HookRecordStep DEF HookRequest
    <2>5. CASE ~alkemio
      <3> DEFINE r == [NoHook EXCEPT !.pc = "done", !.subject = i, !.session = s,
                                     !.reply = "200", !.out = s]
      <3>1. r \in Exchange /\ hook' = [hook EXCEPT ![h] = r]
        BY <1>1, <2>2, <2>3, <2>5 DEF Exchange
      <3>2. hook'[h] = r
        BY <3>1 DEF IInv, TypeOK
      <3>3. HookOK(h)'
        BY <3>2, NoneAssumption DEF HookOK, NoHook
      <3> QED
        BY <1>3, <3>1, <3>3, Unchanged, HookRecordStep DEF HookRequest
    <2> QED
      BY <2>4, <2>5
  <1> QED
    BY <1>2, <1>3

LEMMA ReadActorStep == ASSUME IInv, NEW h \in Hooks, ReadActor(h) PROVE IInv'
  <1> DEFINE a == ActorRead(hook[h].subject)
  <1>1. /\ hook \in [Hooks -> Exchange] /\ hook[h] \in Exchange /\ HookOK(h)
        /\ hook[h].pc = "read" /\ UNCHANGED <<metadata, mapped, wiring, post>>
    BY DEF ReadActor, IInv, TypeOK
  <1>2. a \in {None, Actor(hook[h].subject)}
    BY <1>1, ReadIsOwn DEF HookOK
  <1>3. CASE a # None /\ Granted(h, a)
    BY <1>1, <1>2, <1>3, GrantedStep
  <1>4. CASE hook' = [hook EXCEPT ![h].pc = "restamp"]
    <2> DEFINE r == [hook[h] EXCEPT !.pc = "restamp"]
    <2>1. r \in Exchange /\ hook' = [hook EXCEPT ![h] = r]
      BY <1>1, <1>4 DEF Exchange
    <2>2. HookOK(h)'
      BY <1>1, <2>1, NoneAssumption DEF HookOK, Exchange
    <2> QED
      BY <1>1, <2>1, <2>2, Unchanged, HookRecordStep
  <1>5. CASE Denied(h, TRUE)
    BY <1>1, <1>5, DeniedStep
  <1> QED
    BY <1>3, <1>4, <1>5 DEF ReadActor

\* A re-stamp that is answered with an error ends the exchange.
LEMMA RefusedRecord ==
    ASSUME NEW x \in Exchange, NEW t \in BOOLEAN, NEW e \in {None, "written", "lost"},
           NEW n \in 0..1
    PROVE  [x EXCEPT !.pc = "done", !.reply = "403", !.stamps = n, !.trouble = t, !.event = e]
               \in Exchange
  BY DEF Exchange

LEMMA ReStampStep == ASSUME IInv, NEW h \in Hooks, ReStamp(h) PROVE IInv'
  <1>i. PICK i \in Identities : hook[h].pc = "restamp" /\ hook[h].subject = i
    BY DEF ReStamp, IInv, HookOK
  <1>1. /\ hook \in [Hooks -> Exchange] /\ hook[h] \in Exchange /\ HookOK(h)
        /\ hook[h].pc = "restamp" /\ hook[h].subject = i /\ hook[h].stamps = 0
        /\ UNCHANGED <<mapped, wiring, post>>
    BY <1>i DEF ReStamp, IInv, TypeOK, HookOK
  <1>2. \/ /\ metadata' = IF wiring.alkemio = "real" /\ i \in mapped
                          THEN [metadata EXCEPT ![i].actor = Actor(i)]
                          ELSE metadata
           /\ hook' = [hook EXCEPT ![h].pc = "reread", ![h].stamps = @ + 1,
                                   ![h].lacking = i \notin mapped]
        \/ \E e \in Emitted :
              hook' = [hook EXCEPT ![h].pc = "done", ![h].reply = "403", ![h].stamps = @ + 1,
                                   ![h].trouble = TRUE, ![h].event = e]
    BY <1>1, Zenon DEF ReStamp
  <1>3. CASE /\ metadata' = IF wiring.alkemio = "real" /\ i \in mapped
                            THEN [metadata EXCEPT ![i].actor = Actor(i)]
                            ELSE metadata
             /\ hook' = [hook EXCEPT ![h].pc = "reread", ![h].stamps = @ + 1,
                                     ![h].lacking = i \notin mapped]
    <2> DEFINE r == [hook[h] EXCEPT !.pc = "reread", !.stamps = 1, !.lacking = i \notin mapped]
    <2>1. r \in Exchange /\ hook' = [hook EXCEPT ![h] = r]
      BY <1>1, <1>3 DEF Exchange
    <2>2. Keeps /\ (wiring.alkemio = "real" /\ i \in mapped => Stamped(i)')
      <3>1. CASE wiring.alkemio = "real" /\ i \in mapped
        BY <1>1, <1>3, <3>1, StampingActor
      <3>2. CASE ~(wiring.alkemio = "real" /\ i \in mapped)
        BY <1>1, <1>3, <3>2, Unchanged
      <3> QED
        BY <3>1, <3>2
    <2>3. hook'[h] = r
      BY <1>1, <2>1
    <2>4. HookOK(h)'
      BY <1>1, <2>2, <2>3, NoneAssumption DEF HookOK, Exchange, BothReal, Stamped
    <2> QED
      BY <1>1, <2>1, <2>2, <2>4, HookRecordStep
  <1>4. ASSUME NEW e \in Emitted,
               hook' = [hook EXCEPT ![h].pc = "done", ![h].reply = "403", ![h].stamps = @ + 1,
                                    ![h].trouble = TRUE, ![h].event = e]
        PROVE  IInv'
    <2>1. \/ metadata' = metadata
          \/ metadata' = [metadata EXCEPT ![i].actor = Actor(i)]
      BY <1>1 DEF ReStamp
    <2>2. Keeps
      BY <1>1, <2>1, Unchanged, StampingActor
    <2>3. e \in {None, "written", "lost"} /\ (wiring.emitter = "wired" => e # None)
      BY EmittedIs
    <2> DEFINE r == [hook[h] EXCEPT !.pc = "done", !.reply = "403", !.stamps = 1,
                                    !.trouble = TRUE, !.event = e]
    <2>4. r \in Exchange
      <3>1. 1 \in 0..1 /\ TRUE \in BOOLEAN
        OBVIOUS
      <3>2. hook[h] \in Exchange
        BY <1>1
      <3> HIDE DEF r
      <3>3. \A t \in BOOLEAN, n \in 0..1 :
               [hook[h] EXCEPT !.pc = "done", !.reply = "403", !.stamps = n,
                               !.trouble = t, !.event = e] \in Exchange
        BY <2>3, <3>2, RefusedRecord
      <3> QED
        BY <3>1, <3>3, Zenon DEF r
    <2>5. hook' = [hook EXCEPT ![h] = r]
      <3>1. hook[h].stamps + 1 = 1
        BY <1>1
      <3>2. hook' = [hook EXCEPT ![h] = [hook[h] EXCEPT !.pc = "done", !.reply = "403",
                                         !.stamps = hook[h].stamps + 1,
                                         !.trouble = TRUE, !.event = e]]
        BY <1>4
      <3> QED
        BY <3>1, <3>2, Zenon
    <2>6. hook'[h] = r /\ wiring' = wiring
      BY <1>1, <2>5
    <2>7. HookOK(h)'
      BY <1>1, <2>3, <2>6, NoneAssumption DEF HookOK, Exchange
    <2> QED
      BY <1>1, <2>2, <2>4, <2>5, <2>7, HookRecordStep
  <1> QED
    BY <1>2, <1>3, <1>4

LEMMA ReadAgainStep == ASSUME IInv, NEW h \in Hooks, ReadAgain(h) PROVE IInv'
  <1> DEFINE a == ActorRead(hook[h].subject)
  <1>1. /\ hook[h] \in Exchange /\ HookOK(h) /\ hook[h].pc = "reread"
        /\ UNCHANGED <<metadata, mapped, wiring, post>>
    BY DEF ReadAgain, IInv, TypeOK
  <1>2. /\ a \in {None, Actor(hook[h].subject)}
        /\ wiring.kratos = "real" /\ Stamped(hook[h].subject) => a # None
    BY <1>1, ReadIsOwn DEF HookOK
  <1>3. CASE a # None /\ Granted(h, a)
    BY <1>1, <1>2, <1>3, GrantedStep
  <1>4. CASE a = None /\ Denied(h, FALSE)
    <2>1. BothReal => hook[h].lacking /\ hook[h].stamps = 1
      BY <1>1, <1>2, <1>4 DEF HookOK, BothReal
    <2> QED
      BY <1>1, <1>4, <2>1, DeniedStep
  <1>5. CASE Denied(h, TRUE)
    BY <1>1, <1>5, DeniedStep
  <1> QED
    BY <1>3, <1>4, <1>5 DEF ReadAgain

LEMMA PostStepKeeps == ASSUME IInv, NEW p \in Posts, PostStep(p) PROVE IInv'
  <1>1. post \in [Posts -> PostLogin] /\ post[p] \in PostLogin /\ PostOK(p)
    BY DEF IInv, TypeOK
  <1>2. CASE PostRequest(p)
    <2> DEFINE Starts(r) == r.pc = "resolve" /\ r.identity \in Identities /\ r.reply = None
               Rejects(r) == r.pc = "done" /\ r.reply = "400"
    <2>1. \E r \in PostLogin : post' = [post EXCEPT ![p] = r] /\ (Starts(r) \/ Rejects(r))
      <3>1. ASSUME NEW i \in Identities,
                   post' = [post EXCEPT ![p] = [NoPost EXCEPT !.pc = "resolve", !.identity = i]]
            PROVE  \E r \in PostLogin : post' = [post EXCEPT ![p] = r] /\ Starts(r)
        <4> DEFINE r == [NoPost EXCEPT !.pc = "resolve", !.identity = i]
        <4>1. r \in PostLogin /\ Starts(r)
          BY DEF NoPost, PostLogin
        <4> QED
          BY <3>1, <4>1
      <3>2. ASSUME post' = [post EXCEPT ![p] = [NoPost EXCEPT !.pc = "done", !.reply = "400"]]
            PROVE  \E r \in PostLogin : post' = [post EXCEPT ![p] = r] /\ Rejects(r)
        <4> DEFINE r == [NoPost EXCEPT !.pc = "done", !.reply = "400"]
        <4>1. r \in PostLogin /\ Rejects(r)
          BY DEF NoPost, PostLogin
        <4> QED
          BY <3>2, <4>1
      <3> QED
        BY <1>2, <3>1, <3>2 DEF PostRequest
    <2>a. PICK r \in PostLogin : post' = [post EXCEPT ![p] = r] /\ (Starts(r) \/ Rejects(r))
      BY <2>1
    <2>2. PostOK(p)'
      BY <1>1, <2>a, NoneAssumption DEF PostOK
    <2> QED
      BY <1>2, <2>a, <2>2, Unchanged, PostRecordStep DEF PostRequest
  <1>3. CASE ResolveIdentity(p)
    <2>1. \E pc \in {"patch", "done"}, reply \in {None, "404", "500"} :
              /\ post' = [post EXCEPT ![p] = [post[p] EXCEPT !.pc = pc, !.reply = reply]]
              /\ pc = "patch" => reply = None
      <3>1. CASE post' = [post EXCEPT ![p].pc = "patch"]
        <4>1. post[p].reply = None
          BY <1>1, <1>3 DEF ResolveIdentity, PostOK
        <4>2. [post[p] EXCEPT !.pc = "patch"] = [post[p] EXCEPT !.pc = "patch", !.reply = None]
          BY <1>1, <4>1 DEF PostLogin
        <4>3. post' = [post EXCEPT ![p] = [post[p] EXCEPT !.pc = "patch"]]
          BY <3>1
        <4> QED
          BY <4>2, <4>3
      <3>2. ASSUME NEW code \in {"404", "500"}, PostReply(p, code)
            PROVE  post' = [post EXCEPT ![p] = [post[p] EXCEPT !.pc = "done", !.reply = code]]
        BY <3>2 DEF PostReply
      <3> QED
        BY <1>3, <3>1, <3>2 DEF ResolveIdentity
    <2>a. PICK pc \in {"patch", "done"}, reply \in {None, "404", "500"} :
              /\ post' = [post EXCEPT ![p] = [post[p] EXCEPT !.pc = pc, !.reply = reply]]
              /\ pc = "patch" => reply = None
      BY <2>1
    <2>2. [post[p] EXCEPT !.pc = pc, !.reply = reply] \in PostLogin
      BY <1>1 DEF PostLogin
    <2>3. PostOK(p)'
      BY <1>1, <1>3, <2>a, NoneAssumption DEF PostOK, PostLogin, ResolveIdentity
    <2> QED
      BY <1>3, <2>a, <2>2, <2>3, Unchanged, PostRecordStep DEF ResolveIdentity
  <1>4. CASE PatchIdentity(p)
    <2>i. PICK i \in Identities : i = post[p].identity
      BY <1>1, <1>4 DEF PatchIdentity, PostOK
    <2>1. wiring' = wiring /\ UNCHANGED <<mapped, hook>>
      BY <1>4 DEF PatchIdentity
    <2>2. PICK reply \in {"200", "500"} :
              /\ post' = [post EXCEPT ![p] = [post[p] EXCEPT !.pc = "done", !.reply = reply]]
              /\ \/ metadata' = [metadata EXCEPT ![i] = [actor |-> Actor(i), matrix |-> FALSE]]
                 \/ metadata' = metadata /\ reply = "500"
      BY <1>1, <1>4, <2>i DEF PatchIdentity, PostReply, PostLogin
    <2>3. Keeps /\ (reply = "200" => Stamped(i)')
      <3>1. CASE metadata' = [metadata EXCEPT ![i] = [actor |-> Actor(i), matrix |-> FALSE]]
        BY <2>1, <3>1, Stamping
      <3>2. CASE metadata' = metadata /\ reply = "500"
        BY <2>1, <3>2, Unchanged
      <3> QED
        BY <2>2, <3>1, <3>2
    <2>4. [post[p] EXCEPT !.pc = "done", !.reply = reply] \in PostLogin
      BY <1>1 DEF PostLogin
    <2>5. PostOK(p)'
      BY <1>1, <2>i, <2>1, <2>2, <2>3, NoneAssumption DEF PostOK, PostLogin, Stamped
    <2> QED
      BY <2>1, <2>2, <2>3, <2>4, <2>5, PostRecordStep
  <1> QED
    BY <1>2, <1>3, <1>4 DEF PostStep

LEMMA ExternalKeeps ==
    ASSUME IInv, NEW i \in Identities, ProvisionActor(i) \/ StampMatrixID(i) PROVE IInv'
  <1>1. UNCHANGED <<wiring, hook, post>> /\ mapped' \subseteq Identities
    BY DEF ProvisionActor, StampMatrixID, IInv, TypeOK
  <1>2. Keeps
    BY DEF ProvisionActor, StampMatrixID, IInv, TypeOK, Keeps, Stamped, Metadata
  <1>3. TypeOK'
    BY <1>1, <1>2 DEF IInv, TypeOK, Keeps
  <1>4. ASSUME NEW h \in Hooks PROVE HookOK(h)'
    BY <1>1, <1>2, <1>4 DEF IInv, HookOK, Keeps, BothReal
  <1>5. ASSUME NEW p \in Posts PROVE PostOK(p)'
    BY <1>1, <1>2, <1>5 DEF IInv, PostOK, Keeps
  <1> QED
    BY <1>2, <1>3, <1>4, <1>5 DEF IInv, Keeps

\* IInv is inductive; the theorems below are its parts.
LEMMA Inductive == Spec => []IInv
  <1>1. IInv /\ [Next]_vars => IInv'
    <2> SUFFICES ASSUME IInv, [Next]_vars PROVE IInv'
      OBVIOUS
    <2>1. CASE UNCHANGED vars
      BY <2>1 DEF vars, IInv, TypeOK, HookOK, PostOK, Stamped, BothReal
    <2>2. ASSUME NEW h \in Hooks, HookStep(h) PROVE IInv'
      BY <2>2, HookRequestStep, ReadActorStep, ReStampStep, ReadAgainStep DEF HookStep
    <2> QED
      BY <2>1, <2>2, PostStepKeeps, ExternalKeeps DEF Next
  <1> QED
    BY <1>1, InitIInv, PTL DEF Spec

\* Every variable keeps its type; in particular no exchange asks Alkemio twice.
THEOREM TypeCorrect == Spec => []TypeOK
  BY Inductive, PTL DEF IInv

\* No token of the alkemio scope without the actor id of its subject (ServeHTTP of
\* the token hook, Resolve of the refresh resolver).
THEOREM TokensCarryActor == Spec => []AlkemioTokensCarryActor
  <1>1. IInv => AlkemioTokensCarryActor
    BY DEF IInv, HookOK, AlkemioTokensCarryActor
  <1> QED
    BY <1>1, Inductive, PTL

\* Hydra replaces the session by the answer, and the answer has it all (cloneClaims).
THEOREM ClaimsSurvive == Spec => []ConsentClaimsSurvive
  <1>1. IInv => ConsentClaimsSurvive
    BY DEF IInv, HookOK, ConsentClaimsSurvive
  <1> QED
    BY <1>1, Inductive, PTL

\* An exchange is refused only after a call of its own failed, or Alkemio had no
\* actor when it was asked (ErrRefreshTemporarilyUnavailable).
THEOREM RefusalsHaveCauses == Spec => []RefusalHasCause
  <1>1. IInv => RefusalHasCause
    BY DEF IInv, HookOK, RefusalHasCause, BothReal
  <1> QED
    BY <1>1, Inductive, PTL

\* What the webhook reported as processed stays stamped (PostLogin).
THEOREM ProcessedStaysStamped == Spec => []ProcessedLoginIsStamped
  <1>1. IInv => ProcessedLoginIsStamped
    BY DEF IInv, PostOK, Stamped, ProcessedLoginIsStamped
  <1> QED
    BY <1>1, Inductive, PTL
=============================================================================
