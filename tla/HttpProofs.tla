----------------------------- MODULE HttpProofs -----------------------------
(***************************************************************************)
(* Proofs about HttpLayer for any clients, users, requests and lifetime of *)
(* a token.                                                                *)
(***************************************************************************)
EXTENDS HttpLayer, TLAPS

-----------------------------------------------------------------------------
\* The table of routes, read once.

LEMMA HandlersAre ==
  Handlers = {"healthCheck", "getOrder", "createOrder", "addCartItem", "removeCartItem", "getCartItems",
              "getProducts", "getPopularProducts", "signUp", "signIn", "getWallet", "chargePoint"}
<1>1. DOMAIN Routes = 1 .. 12
  BY DEF Routes, Route
<1>2. /\ Routes[1].handler = "healthCheck"     /\ Routes[2].handler = "getOrder"
      /\ Routes[3].handler = "createOrder"     /\ Routes[4].handler = "addCartItem"
      /\ Routes[5].handler = "removeCartItem"  /\ Routes[6].handler = "getCartItems"
      /\ Routes[7].handler = "getProducts"     /\ Routes[8].handler = "getPopularProducts"
      /\ Routes[9].handler = "signUp"          /\ Routes[10].handler = "signIn"
      /\ Routes[11].handler = "getWallet"      /\ Routes[12].handler = "chargePoint"
  BY DEF Routes, Route
<1>3. 1 .. 12 = {1, 2, 3, 4, 5, 6, 7, 8, 9, 10, 11, 12}
  OBVIOUS
<1>4. Handlers = {Routes[k].handler : k \in {1, 2, 3, 4, 5, 6, 7, 8, 9, 10, 11, 12}}
  BY <1>1, <1>3 DEF Handlers
<1> QED
  BY <1>2, <1>4, SMT

\* What a facade returns is a success or a failure, and only signIn refuses.
LEMMA OutcomesType ==
  ASSUME NEW h \in Handlers
  PROVE  /\ Outcomes[h] \subseteq Successes \cup Failures
         /\ "AppAuth" \in Outcomes[h] => h = "signIn"
  BY HandlersAre DEF Outcomes, Successes, Failures

LEMMA NoneIsNoHandler == "none" \notin Handlers
  BY HandlersAre

LEMMA PrivateAreHandlers == Private \subseteq Handlers
  BY HandlersAre DEF Private

-----------------------------------------------------------------------------
\* Types

LEMMA InitOK == Init => TypeOK /\ RequestInv
  BY HttpAssumption
     DEF Init, TypeOK, RequestInv, RequestOK, Stages, Statuses, Tokens

\* The variables a step of one client writes: its own request, a user, a token.
OthersKeep(c) ==
  \A d \in Clients \ {c} :
    /\ stage'[d] = stage[d] /\ sent'[d] = sent[d] /\ target'[d] = target[d]
    /\ caller'[d] = caller[d] /\ outcome'[d] = outcome[d] /\ answer'[d] = answer[d]

LEMMA StepWrites ==
  ASSUME TypeOK, DOMAIN sent = Clients, NEW c \in Clients, Send(c) \/ ServerStep(c)
  PROVE  /\ OthersKeep(c) /\ DOMAIN sent' = Clients
         /\ now' = now /\ registered \subseteq registered' /\ tokens \subseteq tokens'
<1>1. CASE Send(c)
  BY <1>1 DEF Send, OthersKeep, GoTo, data, TypeOK
<1>2. CASE Dispatch(c) \/ NoRoute(c)
  BY <1>2 DEF Dispatch, NoRoute, OthersKeep, GoTo, Answer, data, TypeOK
<1>3. CASE SkipGuard(c) \/ VerifyToken(c) \/ FindUser(c)
  BY <1>3 DEF SkipGuard, VerifyToken, FindUser, OthersKeep, GoTo, Answer, data, TypeOK
<1>4. CASE Pipes(c) \/ Rejected(c)
  BY <1>4 DEF Pipes, Rejected, Throw, OthersKeep, GoTo, data, TypeOK
<1>5. CASE SignUp(c) \/ SignIn(c) \/ Handle(c)
  BY <1>5 DEF SignUp, SignIn, Handle, Returns, OthersKeep, GoTo, TypeOK
<1>7. CASE OrderInsertFails(c)
  BY <1>7 DEF OrderInsertFails, OthersKeep, GoTo, data, TypeOK
<1>6. CASE Respond(c)
  BY <1>6 DEF Respond, OthersKeep, GoTo, Answer, data, TypeOK
<1> QED
  BY <1>1, <1>2, <1>3, <1>4, <1>5, <1>6, <1>7 DEF ServerStep

LEMMA OutcomeType ==
  ASSUME TypeOK, NEW c \in Clients, NEW o \in Successes \cup Failures \cup {"NoFiber"},
         outcome' = [outcome EXCEPT ![c] = o]
  PROVE  outcome' \in [Clients -> Successes \cup Failures \cup {"NoFiber", "none"}]
  BY DEF TypeOK

LEMMA ReturnsType ==
  ASSUME TypeOK, NEW c \in Clients, NEW o, target[c] \in Handlers, Returns(c, o)
  PROVE  o \in Successes \cup Failures
  BY OutcomesType DEF Returns

LEMMA StatusesOfErrors ==
  ASSUME NEW o
  PROVE  LET s == ErrorsInterceptor(EffectInterceptor(o)) IN
         /\ s \in Statuses \ {200, 201}
         /\ s = 401 <=> o = "AppAuth"
         /\ s = 404 <=> o = "AppNotFound"
         /\ s = 409 <=> o = "AppConflict"
  BY DEF ErrorsInterceptor, EffectInterceptor, Statuses

\* A step of a client keeps the types.
LEMMA ClientTypeOK ==
  ASSUME HttpAssumption, TypeOK, RequestInv, NEW c \in Clients, Send(c) \/ ServerStep(c)
  PROVE  TypeOK'
<1>1. OthersKeep(c) /\ now' = now /\ registered \subseteq registered' /\ tokens \subseteq tokens'
  BY StepWrites DEF RequestInv
<1>2. RequestOK(c) /\ DOMAIN sent = Clients
  BY DEF RequestInv
<1>3. ASSUME registered' \subseteq Users, tokens' \subseteq Tokens,
             stage' \in [Clients -> Stages],
             sent'[c] \in [send : Sends, user : Users, token : tokens' \cup {NoToken}, at : 0 .. now'],
             target' \in [Clients -> Handlers \cup {"none"}],
             caller' \in [Clients -> Users \cup {"none"}],
             outcome' \in [Clients -> Successes \cup Failures \cup {"NoFiber", "none"}],
             answer' \in [Clients -> Statuses \cup {0}]
      PROVE  TypeOK'
  <2>1. ASSUME NEW d \in Clients \ {c}, stage'[d] # "idle"
        PROVE  sent'[d] \in [send : Sends, user : Users, token : tokens' \cup {NoToken}, at : 0 .. now']
    <3>1. sent[d] \in [send : Sends, user : Users, token : tokens \cup {NoToken}, at : 0 .. now]
      BY <1>1, <2>1 DEF TypeOK, OthersKeep
    <3> QED
      BY <1>1, <2>1, <3>1 DEF OthersKeep
  <2> QED
    BY <1>1, <1>3, <2>1 DEF TypeOK
<1>4. ASSUME UNCHANGED sent, stage[c] # "idle"
      PROVE  sent'[c] \in [send : Sends, user : Users, token : tokens' \cup {NoToken}, at : 0 .. now']
  <2>1. sent[c] \in [send : Sends, user : Users, token : tokens \cup {NoToken}, at : 0 .. now]
    BY <1>4 DEF TypeOK
  <2> QED
    BY <1>1, <1>4, <2>1
<1>5. CASE Send(c)
  <2>1. PICK q \in Requests : sent' = [sent EXCEPT ![c] = q]
    BY <1>5 DEF Send
  <2>2. sent'[c] \in [send : Sends, user : Users, token : tokens' \cup {NoToken}, at : 0 .. now']
    BY <1>1, <1>2, <1>5, <2>1 DEF Requests, TypeOK
  <2> QED
    BY <1>3, <1>5, <2>2 DEF Send, GoTo, data, TypeOK, Stages
<1>6. CASE Dispatch(c)
  <2>1. PICK k \in DOMAIN Routes : target' = [target EXCEPT ![c] = Routes[k].handler]
    BY <1>6 DEF Dispatch
  <2>2. Routes[k].handler \in Handlers
    BY <2>1 DEF Handlers
  <2> HIDE DEF Handlers
  <2>3. target' \in [Clients -> Handlers \cup {"none"}]
    BY <2>1, <2>2 DEF TypeOK
  <2>4. stage' \in [Clients -> Stages] /\ stage[c] # "idle"
    BY <1>6 DEF Dispatch, GoTo, TypeOK, Stages
  <2> QED
    BY <1>3, <1>4, <1>6, <2>3, <2>4 DEF Dispatch, data, TypeOK
<1>7. CASE NoRoute(c)
  <2>1. stage' \in [Clients -> Stages] /\ answer' \in [Clients -> Statuses \cup {0}] /\ stage[c] # "idle"
    BY <1>7 DEF NoRoute, GoTo, Answer, TypeOK, Stages, Statuses
  <2> QED
    BY <1>3, <1>4, <1>7, <2>1 DEF NoRoute, data, TypeOK
<1>8. CASE SkipGuard(c) \/ VerifyToken(c) \/ Pipes(c)
  <2>1. stage' \in [Clients -> Stages] /\ answer' \in [Clients -> Statuses \cup {0}] /\ stage[c] # "idle"
    BY <1>8 DEF SkipGuard, VerifyToken, Pipes, GoTo, Answer, TypeOK, Stages, Statuses
  <2> QED
    BY <1>3, <1>4, <1>8, <2>1 DEF SkipGuard, VerifyToken, Pipes, data, TypeOK
<1>9. CASE FindUser(c)
  <2>1. stage' \in [Clients -> Stages] /\ answer' \in [Clients -> Statuses \cup {0}] /\ stage[c] # "idle"
    BY <1>9 DEF FindUser, GoTo, Answer, TypeOK, Stages, Statuses
  <2>2. caller' \in [Clients -> Users \cup {"none"}]
    BY <1>9 DEF FindUser, TypeOK
  <2> QED
    BY <1>3, <1>4, <1>9, <2>1, <2>2 DEF FindUser, data, TypeOK
<1>10. CASE Rejected(c)
  <2>1. stage' \in [Clients -> Stages] /\ stage[c] # "idle"
    BY <1>10 DEF Rejected, Throw, GoTo, TypeOK, Stages
  <2>2. outcome' \in [Clients -> Successes \cup Failures \cup {"NoFiber", "none"}]
    BY <1>10, OutcomeType DEF Rejected, Throw
  <2> QED
    BY <1>3, <1>4, <1>10, <2>1, <2>2 DEF Rejected, Throw, data, TypeOK
<1>11. ASSUME NEW o, Returns(c, o), stage[c] = "handle", registered' \subseteq Users, tokens' \subseteq Tokens
       PROVE  TypeOK'
  <2>1. o \in Successes \cup Failures
    BY <1>2, <1>11, ReturnsType DEF RequestOK, Admitted
  <2>2. outcome' \in [Clients -> Successes \cup Failures \cup {"NoFiber", "none"}]
    BY <1>11, <2>1, OutcomeType DEF Returns
  <2>3. stage' \in [Clients -> Stages]
    BY <1>11 DEF Returns, GoTo, TypeOK, Stages
  <2> QED
    BY <1>3, <1>4, <1>11, <2>2, <2>3 DEF Returns, TypeOK
<1>12. CASE SignUp(c)
  <2>1. sent[c].user \in Users
    BY <1>12 DEF SignUp, TypeOK
  <2>2. registered' \subseteq Users /\ tokens' \subseteq Tokens /\ stage[c] = "handle" /\ \E o : Returns(c, o)
    BY <1>12, <2>1 DEF SignUp, TypeOK
  <2> QED
    BY <1>11, <2>2
<1>13. CASE SignIn(c)
  <2>1. [sub |-> sent[c].user, iat |-> now] \in Tokens
    BY <1>13 DEF SignIn, TypeOK, Tokens
  <2>2. registered' \subseteq Users /\ tokens' \subseteq Tokens /\ stage[c] = "handle" /\ \E o : Returns(c, o)
    BY <1>13, <2>1 DEF SignIn, TypeOK
  <2> QED
    BY <1>11, <2>2
<1>14. CASE Handle(c)
  <2>1. registered' \subseteq Users /\ tokens' \subseteq Tokens /\ stage[c] = "handle" /\ \E o : Returns(c, o)
    BY <1>14 DEF Handle, TypeOK
  <2> QED
    BY <1>11, <2>1
<1>15. CASE Respond(c)
  <2>1. PICK s \in Statuses : Answer(c, s)
    BY <1>15, StatusesOfErrors DEF Respond, Success, Statuses
  <2>2. stage' \in [Clients -> Stages] /\ answer' \in [Clients -> Statuses \cup {0}] /\ stage[c] # "idle"
    BY <1>15, <2>1 DEF Respond, GoTo, Answer, TypeOK, Stages
  <2> QED
    BY <1>3, <1>4, <1>15, <2>2 DEF Respond, data, TypeOK
<1>16. CASE OrderInsertFails(c)
  <2>1. stage' \in [Clients -> Stages] /\ stage[c] # "idle"
    BY <1>16 DEF OrderInsertFails, GoTo, TypeOK, Stages
  <2> QED
    BY <1>3, <1>4, <1>16, <2>1 DEF OrderInsertFails, data, TypeOK
<1> QED
  BY <1>5, <1>6, <1>7, <1>8, <1>9, <1>10, <1>12, <1>13, <1>14, <1>15, <1>16 DEF ServerStep

-----------------------------------------------------------------------------
\* What is known of a request

\* Users and tokens are only added, so that what was found of them stands.
LEMMA RequestStands ==
  ASSUME NEW d, RequestOK(d),
         stage'[d] = stage[d], sent'[d] = sent[d], target'[d] = target[d],
         caller'[d] = caller[d], outcome'[d] = outcome[d], answer'[d] = answer[d],
         registered \subseteq registered', tokens \subseteq tokens'
  PROVE  RequestOK(d)'
<1>1. Admitted(d) => Admitted(d)'
  BY DEF Admitted, SessionOf
<1>2. Verified(d) => Verified(d)'
  BY DEF Verified
<1> QED
  BY <1>1, <1>2 DEF RequestOK, Arriving, Guarded, Truthful

\* A step of its client takes the request one place further.
LEMMA ClientRequestOK ==
  ASSUME HttpAssumption, TypeOK, RequestInv, NEW c \in Clients, Send(c) \/ ServerStep(c)
  PROVE  RequestOK(c)'
<1>1. /\ RequestOK(c) /\ DOMAIN sent = Clients
      /\ now' = now /\ registered \subseteq registered' /\ tokens \subseteq tokens'
  BY StepWrites DEF RequestInv
<1>2. "none" \notin Handlers /\ Private \subseteq Handlers
  BY NoneIsNoHandler, PrivateAreHandlers
<1>3. CASE Send(c)
  BY <1>3 DEF Send, GoTo, TypeOK, RequestOK, Arriving
<1>4. CASE Dispatch(c)
  <2>1. PICK k \in DOMAIN Routes : target' = [target EXCEPT ![c] = Routes[k].handler]
    BY <1>4 DEF Dispatch
  <2>2. Routes[k].handler \in Handlers
    BY <2>1 DEF Handlers
  <2>3. stage'[c] = "guard" /\ target'[c] = Routes[k].handler /\ caller'[c] = "none" /\ outcome'[c] = "none"
    BY <1>1, <1>4, <2>1 DEF Dispatch, GoTo, TypeOK, RequestOK, Arriving
  <2>4. Guarded(c)'
    BY <2>2, <2>3 DEF Guarded, Handlers
  <2> QED
    BY <2>3, <2>4 DEF RequestOK
<1>5. CASE NoRoute(c)
  <2>1. /\ stage'[c] = "answered" /\ answer'[c] = 404
        /\ target'[c] = "none" /\ outcome'[c] = "none"
    BY <1>1, <1>5 DEF NoRoute, Answer, GoTo, TypeOK, RequestOK, Arriving
  <2>2. Truthful(c)'
    BY <2>1 DEF Truthful, Successes
  <2> QED
    BY <2>1, <2>2 DEF RequestOK
<1>6. CASE SkipGuard(c)
  <2>1. /\ stage'[c] = "pipes" /\ target'[c] = target[c] /\ target[c] \in Handlers \ Private
        /\ caller'[c] = "none" /\ outcome'[c] = "none"
    BY <1>1, <1>6 DEF SkipGuard, GoTo, TypeOK, RequestOK, Guarded
  <2>2. Admitted(c)'
    BY <2>1 DEF Admitted, SessionOf, Handlers
  <2> QED
    BY <2>1, <2>2 DEF RequestOK
<1>7. CASE VerifyToken(c)
  <2>1. /\ target'[c] = target[c] /\ target[c] \in Private /\ target[c] \in Handlers
        /\ caller'[c] = "none" /\ outcome'[c] = "none" /\ sent' = sent /\ tokens' = tokens
        /\ stage[c] = "guard"
    BY <1>1, <1>7 DEF VerifyToken, data, TypeOK, RequestOK, Guarded
  <2>2. Guarded(c)'
    BY <2>1 DEF Guarded, Handlers
  <2>3. CASE Verifies(sent[c].token) /\ GoTo(c, "lookup")
    <3>1. /\ sent[c].token \in tokens /\ sent[c].at \in 0 .. now
          /\ sent[c].token.iat \in 0 .. MaxNow /\ now \in 0 .. MaxNow
      BY <2>1, <2>3 DEF TypeOK, Verifies, Tokens
    <3>2. sent[c].at < sent[c].token.iat + TokenLife
      BY <2>3, <3>1, HttpAssumption DEF Verifies, HttpAssumption
    <3>3. stage'[c] = "lookup" /\ Verified(c)'
      BY <2>1, <2>3, <3>1, <3>2 DEF GoTo, TypeOK, Verified
    <3> QED
      BY <2>2, <3>3 DEF RequestOK
  <2>4. CASE Answer(c, 401)
    <3>1. stage'[c] = "answered" /\ answer'[c] = 401
      BY <2>4 DEF Answer, GoTo, TypeOK
    <3>2. Truthful(c)'
      BY <1>2, <2>1, <3>1 DEF Truthful, Successes
    <3> QED
      BY <3>1, <3>2 DEF RequestOK
  <2> QED
    BY <1>7, <2>3, <2>4 DEF VerifyToken
<1>8. CASE FindUser(c)
  <2>1. /\ target'[c] = target[c] /\ target[c] \in Private /\ target[c] \in Handlers
        /\ outcome'[c] = "none" /\ sent' = sent /\ data' = data
        /\ Verified(c)
    BY <1>1, <1>8 DEF FindUser, RequestOK, Guarded, Verified
  <2>2. CASE /\ sent[c].token.sub \in registered
             /\ caller' = [caller EXCEPT ![c] = sent[c].token.sub]
             /\ GoTo(c, "pipes")
    <3>1. stage'[c] = "pipes" /\ caller'[c] = sent[c].token.sub
      BY <2>2 DEF GoTo, TypeOK
    <3>2. Admitted(c)'
      BY <2>1, <2>2, <3>1 DEF Admitted, SessionOf, Verified, Handlers, data
    <3> QED
      BY <2>1, <3>1, <3>2 DEF RequestOK
  <2>3. CASE Answer(c, 401)
    <3>1. stage'[c] = "answered" /\ answer'[c] = 401
      BY <2>3 DEF Answer, GoTo, TypeOK
    <3>2. Truthful(c)'
      BY <1>2, <2>1, <3>1 DEF Truthful, Successes
    <3> QED
      BY <3>1, <3>2 DEF RequestOK
  <2> QED
    BY <1>8, <2>2, <2>3 DEF FindUser
<1>9. ASSUME stage[c] \in {"pipes", "handle", "map"}, UNCHANGED <<sent, target, caller>>
      PROVE  Admitted(c)'
  BY <1>1, <1>9 DEF RequestOK, Admitted, SessionOf, Handlers
<1>10. CASE Pipes(c)
  <2>1. stage'[c] = "handle" /\ outcome'[c] = "none"
    BY <1>1, <1>10 DEF Pipes, GoTo, TypeOK, RequestOK
  <2> QED
    BY <1>9, <1>10, <2>1 DEF Pipes, RequestOK
<1>11. CASE Rejected(c)
  <2>1. stage'[c] = "map" /\ outcome'[c] = "NoFiber"
    BY <1>1, <1>11 DEF Rejected, Throw, GoTo, TypeOK
  <2> QED
    BY <1>9, <1>11, <2>1 DEF Rejected, Throw, RequestOK
<1>12. ASSUME NEW o, Returns(c, o), stage[c] = "handle"
       PROVE  RequestOK(c)'
  <2>1. stage'[c] = "map" /\ outcome'[c] = o /\ target' = target
    BY <1>12 DEF Returns, GoTo, TypeOK
  <2>2. (outcome[c] \in Outcomes[target[c]])'
    BY <1>12, <2>1 DEF Returns, Outcomes, Handlers
  <2> QED
    BY <1>9, <1>12, <2>1, <2>2 DEF Returns, RequestOK
<1>13. CASE SignUp(c) \/ SignIn(c) \/ Handle(c)
  BY <1>12, <1>13 DEF SignUp, SignIn, Handle
<1>14. CASE Respond(c)
  <2>1. /\ target[c] \in Handlers /\ outcome[c] \in Outcomes[target[c]] \cup {"NoFiber"}
        /\ target' = target /\ outcome' = outcome /\ stage'[c] = "answered"
    BY <1>1, <1>14 DEF Respond, Answer, GoTo, TypeOK, RequestOK, Admitted
  <2>2. /\ outcome[c] \in Successes \cup Failures \cup {"NoFiber"}
        /\ outcome[c] = "AppAuth" => target[c] = "signIn"
    BY <2>1, OutcomesType
  <2>3. CASE outcome[c] \in Successes
    <3>1. answer'[c] \in {200, 201}
      BY <1>14, <2>3 DEF Respond, Answer, Success, TypeOK
    <3> QED
      BY <1>2, <2>1, <2>3, <3>1 DEF RequestOK, Truthful, Successes
  <2>4. CASE outcome[c] \notin Successes
    <3>1. answer'[c] = ErrorsInterceptor(EffectInterceptor(outcome[c]))
      BY <1>14, <2>4 DEF Respond, Answer, TypeOK
    <3>2. /\ answer'[c] \notin {200, 201}
          /\ answer'[c] = 401 <=> outcome[c] = "AppAuth"
          /\ answer'[c] = 404 <=> outcome[c] = "AppNotFound"
          /\ answer'[c] = 409 <=> outcome[c] = "AppConflict"
      BY <3>1, StatusesOfErrors
    <3> QED
      BY <1>2, <2>1, <2>2, <2>4, <3>2 DEF RequestOK, Truthful
  <2> QED
    BY <2>3, <2>4
<1>15. CASE OrderInsertFails(c)
  <2>1. stage'[c] = "hung"
    BY <1>15 DEF OrderInsertFails, GoTo, TypeOK
  <2> QED
    BY <2>1 DEF RequestOK
<1> QED
  BY <1>3, <1>4, <1>5, <1>6, <1>7, <1>8, <1>10, <1>11, <1>13, <1>14, <1>15 DEF ServerStep

\* One step of anyone.
LEMMA StepOK ==
  ASSUME HttpAssumption, TypeOK, RequestInv, [Next]_vars
  PROVE  TypeOK' /\ RequestInv'
<1>1. CASE Tick
  <2>1. now \in 0 .. MaxNow /\ now' \in 0 .. MaxNow /\ now < now'
    BY <1>1, HttpAssumption DEF Tick, TypeOK, HttpAssumption
  <2>2. \A c \in Clients : stage[c] # "idle" =>
          sent[c] \in [send : Sends, user : Users, token : tokens \cup {NoToken}, at : 0 .. now']
    BY <2>1 DEF TypeOK
  <2>3. TypeOK'
    BY <1>1, <2>1, <2>2 DEF Tick, TypeOK
  <2>4. \A c \in Clients : RequestOK(c)'
    BY <1>1, RequestStands DEF Tick, RequestInv
  <2> QED
    BY <1>1, <2>3, <2>4 DEF Tick, RequestInv
<1>2. ASSUME NEW c \in Clients, Send(c) \/ ServerStep(c)
      PROVE  TypeOK' /\ RequestInv'
  <2>1. TypeOK' /\ RequestOK(c)'
    BY <1>2, ClientTypeOK, ClientRequestOK
  <2>2. ASSUME NEW d \in Clients \ {c} PROVE RequestOK(d)'
    BY <1>2, StepWrites, RequestStands DEF RequestInv, OthersKeep
  <2> QED
    BY <1>2, <2>1, <2>2, StepWrites DEF RequestInv
<1>3. CASE UNCHANGED vars
  <2>1. TypeOK'
    BY <1>3 DEF vars, TypeOK
  <2>2. \A c \in Clients : RequestOK(c)'
    BY <1>3, RequestStands DEF vars, RequestInv
  <2> QED
    BY <1>3, <2>1, <2>2 DEF vars, RequestInv
<1>4. CASE ProcessEnds
  <2>1. stage' \in [Clients -> Stages]
    BY <1>4 DEF ProcessEnds, TypeOK, Stages
  <2>2. ASSUME NEW c \in Clients
        PROVE  \/ stage'[c] = stage[c]
               \/ stage[c] # "idle" /\ stage'[c] = "lost"
    BY <1>4 DEF ProcessEnds, UnderWay
  <2>3. TypeOK'
    BY <1>4, <2>1, <2>2 DEF ProcessEnds, data, TypeOK
  <2>4. ASSUME NEW c \in Clients PROVE RequestOK(c)'
    <3>1. CASE stage'[c] = stage[c]
      BY <1>4, <3>1, RequestStands DEF ProcessEnds, data, RequestInv
    <3>2. CASE stage'[c] = "lost"
      BY <3>2 DEF RequestOK
    <3> QED
      BY <2>2, <3>1, <3>2
  <2> QED
    BY <1>4, <2>3, <2>4 DEF ProcessEnds, RequestInv
<1> QED
  BY <1>1, <1>2, <1>3, <1>4 DEF Next

-----------------------------------------------------------------------------
\* Results

\* The inductive invariant, with the types it needs.
LEMMA RequestInvHolds == Spec => [](TypeOK /\ RequestInv)
<1>1. TypeOK /\ RequestInv /\ [Next]_vars => (TypeOK /\ RequestInv)'
  BY StepOK, HttpAssumption
<1> QED
  BY InitOK, <1>1, PTL DEF Spec

\* Every request is of a user and a token the server knows, and every token it
\* signed is dated by a moment that has come.
THEOREM HttpTypeCorrect == Spec => []TypeOK
  BY RequestInvHolds, PTL

\* AuthGuard: a private method runs for a registered user whose token was alive when
\* the request was sent, a public one for nobody, whatever else goes on meanwhile.
THEOREM PrivateServedInSession == Spec => []ServedInSession
<1>1. TypeOK /\ RequestInv => ServedInSession
  BY DEF RequestInv, RequestOK, Admitted, ServedInSession
<1> QED
  BY RequestInvHolds, <1>1, PTL

\* EffectInterceptor and ErrorsInterceptor: the status tells how the request ended.
THEOREM StatusTruthful == Spec => []AnswersTruthful
<1>1. TypeOK /\ RequestInv => AnswersTruthful
  BY DEF RequestInv, RequestOK, AnswersTruthful
<1> QED
  BY RequestInvHolds, <1>1, PTL
=============================================================================
