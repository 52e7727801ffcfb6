----------------------------- MODULE HttpLayer -----------------------------
(***************************************************************************)
(* The way of an HTTP request through the application: Nest looks for the  *)
(* first route that matches, AuthGuard admits it, the pipes check its      *)
(* parameters, the controller calls a facade, and EffectInterceptor and    *)
(* ErrorsInterceptor turn what comes back into an answer.  A facade is     *)
(* known here by what it may return; the other modules open it.  Sign-up   *)
(* and sign-in do change what later requests meet: users and tokens.       *)
(***************************************************************************)
EXTENDS Naturals, Sequences, FiniteSets

CONSTANTS
  Clients,    \* connections; each carries one request at a time
  Users,      \* e-mail addresses
  Sends,      \* the verbs, paths and bodies a client may send
  TokenLife,  \* ticks an access token lives (1h in the code)
  MaxNow,     \* bound: the last tick
  NoToken     \* no Authorization header, or one that does not verify

ASSUME HttpAssumption ==
  /\ TokenLife \in Nat \ {0}
  /\ MaxNow \in Nat

\* A segment of a path: a word, a number, or a route's parameter.
Param == ":"
Number == "7"

Route(verb, path, handler) == [verb |-> verb, path |-> path, handler |-> handler]

\* In the order of the controllers' methods: it is the order they are tried in.
Routes == <<
  Route("GET",   <<>>,                           "healthCheck"),
  Route("GET",   <<"orders", Param>>,            "getOrder"),
  Route("POST",  <<"orders">>,                   "createOrder"),
  Route("POST",  <<"orders", "cart">>,           "addCartItem"),
  Route("PATCH", <<"orders", "cart", Param>>,    "removeCartItem"),
  Route("GET",   <<"orders", "cart">>,           "getCartItems"),
  Route("GET",   <<"products", Param>>,          "getProducts"),
  Route("GET",   <<"products", "top">>,          "getPopularProducts"),
  Route("POST",  <<"users", "sign-up">>,         "signUp"),
  Route("POST",  <<"users", "sign-in">>,         "signIn"),
  Route("GET",   <<"users", "wallet">>,          "getWallet"),
  Route("POST",  <<"users", "wallet", "point">>, "chargePoint") >>

Handlers == {Routes[k].handler : k \in DOMAIN Routes}

\* Methods with @Private.
Private == {"getOrder", "createOrder", "addCartItem", "removeCartItem", "getCartItems",
            "getWallet", "chargePoint"}
\* Methods whose last segment goes through ParseIntPipe, and those whose body or
\* query is a DTO of the ValidationPipe.
ParsesInt == {"getOrder", "removeCartItem"}
Validates == {"createOrder", "getPopularProducts", "signUp", "signIn", "chargePoint"}

Matches(route, send) ==
  /\ route.verb = send.verb
  /\ Len(route.path) = Len(send.path)
  /\ \A k \in DOMAIN route.path : route.path[k] \in {Param, send.path[k]}

\* What ends in a success: a result, or the text for an order that found no room.
Successes == {"done", "outOfRoom"}
\* What a facade fails with: an exception of the domain by its _tag, or any other.
Failures == {"AppAuth", "AppNotFound", "AppConflict", "Unknown"}

\* What a facade may return to its controller, when it returns.  POST /orders
\* catches its own AppBadRequestException; nothing else raises one.
Outcomes == [h \in Handlers |->
  CASE h = "healthCheck"                    -> {"done"}
    [] h \in {"getOrder", "getWallet"}      -> {"done", "AppNotFound"}
    [] h = "createOrder"                    -> Successes \cup {"AppNotFound", "AppConflict", "Unknown"}
    [] h \in {"removeCartItem", "getProducts", "getCartItems"} -> {"done", "AppNotFound", "Unknown"}
    [] h = "addCartItem"                    -> {"done", "AppNotFound", "AppConflict", "Unknown"}
    [] h = "getPopularProducts"             -> {"done", "Unknown"}
    [] h = "signUp"                         -> {"done", "AppNotFound", "AppConflict", "Unknown"}
    [] h = "signIn"                         -> {"done", "AppAuth", "AppNotFound"}
    [] h = "chargePoint"                    -> {"done", "AppNotFound", "AppConflict"}]

VARIABLES
  now,
  registered, \* users with a row
  tokens,     \* tokens signed so far: whose, and when
  stage,      \* client |-> where its request is
  sent,       \* client |-> its request
  target,     \* client |-> the method it was routed to
  caller,     \* client |-> the user the guard put on the request
  outcome,    \* client |-> what its handler returned or threw
  answer      \* client |-> the status it got

vars == <<now, registered, tokens, stage, sent, target, caller, outcome, answer>>
data == <<now, registered, tokens>>

Tokens == [sub : Users, iat : 0 .. MaxNow]
Requests == [send : Sends, user : Users, token : tokens \cup {NoToken}, at : {now}]

Init ==
  /\ now = 0
  /\ registered = {}
  /\ tokens = {}
  /\ stage = [c \in Clients |-> "idle"]
  /\ sent = [c \in Clients |-> "none"]
  /\ target = [c \in Clients |-> "none"]
  /\ caller = [c \in Clients |-> "none"]
  /\ outcome = [c \in Clients |-> "none"]
  /\ answer = [c \in Clients |-> 0]

GoTo(c, s) == stage' = [stage EXCEPT ![c] = s]

Answer(c, status) ==
  /\ GoTo(c, "answered")
  /\ answer' = [answer EXCEPT ![c] = status]

\* A client sends its next request; the last one, answered or given up, is forgotten.
Send(c) ==
  /\ stage[c] \in {"idle", "answered", "hung", "lost"}
  /\ \E q \in Requests : sent' = [sent EXCEPT ![c] = q]
  /\ GoTo(c, "route")
  /\ target' = [target EXCEPT ![c] = "none"]
  /\ caller' = [caller EXCEPT ![c] = "none"]
  /\ outcome' = [outcome EXCEPT ![c] = "none"]
  /\ answer' = [answer EXCEPT ![c] = 0]
  /\ UNCHANGED data

\* The first route that matches takes the request.
Dispatch(c) ==
  /\ stage[c] = "route"
  /\ \E k \in DOMAIN Routes :
       /\ Matches(Routes[k], sent[c].send)
       /\ \A j \in 1 .. k - 1 : ~Matches(Routes[j], sent[c].send)
       /\ target' = [target EXCEPT ![c] = Routes[k].handler]
  /\ GoTo(c, "guard")
  /\ UNCHANGED <<data, sent, caller, outcome, answer>>

NoRoute(c) ==
  /\ stage[c] = "route"
  /\ \A k \in DOMAIN Routes : ~Matches(Routes[k], sent[c].send)
  /\ Answer(c, 404)
  /\ UNCHANGED <<data, sent, target, caller, outcome>>

\* AuthGuard runs before the interceptors: Nest answers what it throws.
SkipGuard(c) ==
  /\ stage[c] = "guard"
  /\ target[c] \notin Private
  /\ GoTo(c, "pipes")
  /\ UNCHANGED <<data, sent, target, caller, outcome, answer>>

\* Mutant: the expiry is not looked at.
VerifiesWithoutExpiry(token) == token # NoToken

Verifies(token) == token # NoToken /\ now < token.iat + TokenLife

VerifyToken(c) ==
  /\ stage[c] = "guard"
  /\ target[c] \in Private
  /\ \/ Verifies(sent[c].token) /\ GoTo(c, "lookup") /\ UNCHANGED answer
     \/ ~Verifies(sent[c].token) /\ Answer(c, 401)
  /\ UNCHANGED <<data, sent, target, caller, outcome>>

\* The user the token names; any error of the query is a 401 as well.
FindUser(c) ==
  /\ stage[c] = "lookup"
  /\ \/ /\ sent[c].token.sub \in registered
        /\ caller' = [caller EXCEPT ![c] = sent[c].token.sub]
        /\ GoTo(c, "pipes")
        /\ UNCHANGED answer
     \/ Answer(c, 401) /\ UNCHANGED caller
  /\ UNCHANGED <<data, sent, target, outcome>>

Throw(c, o) ==
  /\ outcome' = [outcome EXCEPT ![c] = o]
  /\ GoTo(c, "map")
  /\ UNCHANGED <<data, sent, target, caller, answer>>

WellFormed(c) ==
  LET send == sent[c].send IN
  /\ target[c] \in ParsesInt => send.path[Len(send.path)] = Number
  /\ target[c] \in Validates => send.valid

\* addCartItem's DTO has no @Body: it is undefined, and reading productId throws.
Pipes(c) ==
  /\ stage[c] = "pipes"
  /\ WellFormed(c)
  /\ target[c] # "addCartItem"
  /\ GoTo(c, "handle")
  /\ UNCHANGED <<data, sent, target, caller, outcome, answer>>

\* A pipe or the controller throws: no fiber has failed.
Rejected(c) ==
  /\ stage[c] = "pipes"
  /\ ~WellFormed(c) \/ target[c] = "addCartItem"
  /\ Throw(c, "NoFiber")

Returns(c, o) ==
  /\ o \in Outcomes[target[c]]
  /\ outcome' = [outcome EXCEPT ![c] = o]
  /\ GoTo(c, "map")
  /\ UNCHANGED <<now, sent, target, caller, answer>>

\* The user's row is written before the cart and the wallet: a failure may follow
\* it.  A taken address is a conflict, and so is any error of the insert.
SignUp(c) ==
  /\ stage[c] = "handle" /\ target[c] = "signUp"
  /\ \/ /\ sent[c].user \notin registered
        /\ registered' = registered \cup {sent[c].user}
        /\ \E o \in Outcomes["signUp"] : Returns(c, o)
     \/ Returns(c, "AppConflict") /\ UNCHANGED registered
  /\ UNCHANGED tokens

SignIn(c) ==
  /\ stage[c] = "handle" /\ target[c] = "signIn"
  /\ \/ /\ sent[c].user \in registered
        /\ tokens' = tokens \cup {[sub |-> sent[c].user, iat |-> now]}
        /\ Returns(c, "done")
     \/ /\ sent[c].user \in registered
        /\ Returns(c, "AppAuth")
        /\ UNCHANGED tokens
     \/ Returns(c, "AppNotFound") /\ UNCHANGED tokens
  /\ UNCHANGED registered

\* product.repository finds no row for NaN.
Handle(c) ==
  /\ stage[c] = "handle" /\ target[c] \notin {"signUp", "signIn"}
  /\ \E o \in Outcomes[target[c]] :
       /\ target[c] = "getProducts" /\ sent[c].send.path[2] # Number => o = "AppNotFound"
       /\ Returns(c, o)
  /\ UNCHANGED <<registered, tokens>>

\* OrderRepository.create throws inside the catch of its tryPromise: any error of
\* the insert is a defect, which catchAll and match of PrismaService.transaction
\* let pass.  Neither res nor rej is called: the promise, and with it the request,
\* waits forever.
OrderInsertFails(c) ==
  /\ stage[c] = "handle" /\ target[c] = "createOrder"
  /\ GoTo(c, "hung")
  /\ UNCHANGED <<data, sent, target, caller, outcome, answer>>

UnderWay == {c \in Clients : stage[c] \notin {"idle", "answered", "lost"}}

\* Nobody awaits that fiber's promise: its rejection is unhandled, for which the
\* runtime may end the process, and every request under way with it.
ProcessEnds ==
  /\ \E c \in Clients : stage[c] = "hung"
  /\ stage' = [c \in Clients |-> IF c \in UnderWay THEN "lost" ELSE stage[c]]
  /\ UNCHANGED <<data, sent, target, caller, outcome, answer>>

\* Mutant: the switch has no case for a conflict.
EffectInterceptorOfTwo(o) == IF o \in {"AppAuth", "AppNotFound"} THEN o ELSE "other"

\* What reaches ErrorsInterceptor: the switch rebuilds three exceptions by their
\* tag.  Effect.isFailure(error) is an effect and therefore true, so the switch
\* also runs for an error without a fiber, where reading its defect throws.
EffectInterceptor(o) ==
  IF o \in {"AppAuth", "AppNotFound", "AppConflict"} THEN o ELSE "other"

ErrorsInterceptor(exception) ==
  CASE exception = "AppAuth"     -> 401
    [] exception = "AppNotFound" -> 404
    [] exception = "AppConflict" -> 409
    [] OTHER                     -> 500

Success(c) == IF sent[c].send.verb = "POST" THEN 201 ELSE 200

\* Mutant: a failed sign-in is left without an answer.
RespondUnlessSignInFails(c) ==
  /\ stage[c] = "map"
  /\ outcome[c] \in Successes \/ target[c] # "signIn"
  /\ Answer(c, IF outcome[c] \in Successes
               THEN Success(c)
               ELSE ErrorsInterceptor(EffectInterceptor(outcome[c])))
  /\ UNCHANGED <<data, sent, target, caller, outcome>>

Respond(c) ==
  /\ stage[c] = "map"
  /\ Answer(c, IF outcome[c] \in Successes
               THEN Success(c)
               ELSE ErrorsInterceptor(EffectInterceptor(outcome[c])))
  /\ UNCHANGED <<data, sent, target, caller, outcome>>

Tick ==
  /\ now < MaxNow
  /\ now' = now + 1
  /\ UNCHANGED <<registered, tokens, stage, sent, target, caller, outcome, answer>>

ServerStep(c) ==
  \/ Dispatch(c) \/ NoRoute(c)
  \/ SkipGuard(c) \/ VerifyToken(c) \/ FindUser(c)
  \/ Pipes(c) \/ Rejected(c)
  \/ SignUp(c) \/ SignIn(c) \/ Handle(c) \/ OrderInsertFails(c)
  \/ Respond(c)

Next == Tick \/ ProcessEnds \/ \E c \in Clients : Send(c) \/ ServerStep(c)

Spec == Init /\ [][Next]_vars /\ \A c \in Clients : WF_vars(ServerStep(c))

-----------------------------------------------------------------------------
Stages == {"idle", "route", "guard", "lookup", "pipes", "handle", "map", "answered",
           "hung", "lost"}
Statuses == {200, 201, 401, 404, 409, 500}

TypeOK ==
  /\ now \in 0 .. MaxNow
  /\ registered \subseteq Users
  /\ tokens \subseteq Tokens
  /\ stage \in [Clients -> Stages]
  /\ \A c \in Clients : stage[c] # "idle" =>
       sent[c] \in [send : Sends, user : Users, token : tokens \cup {NoToken}, at : 0 .. now]
  /\ target \in [Clients -> Handlers \cup {"none"}]
  /\ caller \in [Clients -> Users \cup {"none"}]
  /\ outcome \in [Clients -> Successes \cup Failures \cup {"NoFiber", "none"}]
  /\ answer \in [Clients -> Statuses \cup {0}]

\* The caller's session: the user a token was signed for, who still has a row, and
\* for whom it was alive when the request was sent.
SessionOf(c) ==
  IF target[c] \in Private
  THEN /\ caller[c] \in registered
       /\ \E t \in tokens : t.sub = caller[c] /\ sent[c].at < t.iat + TokenLife
  ELSE caller[c] = "none"

\* What is known of a request at each place on its way.
Arriving(c) == target[c] = "none" /\ caller[c] = "none" /\ outcome[c] = "none"
Guarded(c) == target[c] \in Handlers /\ caller[c] = "none" /\ outcome[c] = "none"
Verified(c) ==
  /\ target[c] \in Private
  /\ sent[c].token \in tokens
  /\ sent[c].at < sent[c].token.iat + TokenLife
Admitted(c) == target[c] \in Handlers /\ SessionOf(c)
Truthful(c) ==
  /\ answer[c] \in {200, 201} <=> outcome[c] \in Successes
  /\ answer[c] = 409 <=> outcome[c] = "AppConflict"
  /\ answer[c] = 404 <=> target[c] = "none" \/ outcome[c] = "AppNotFound"
  /\ answer[c] = 401 => IF outcome[c] = "none" THEN target[c] \in Private
                                              ELSE target[c] = "signIn"

RequestOK(c) ==
  /\ stage[c] = "route" => Arriving(c)
  /\ stage[c] \in {"guard", "lookup"} => Guarded(c)
  /\ stage[c] = "lookup" => Verified(c)
  /\ stage[c] \in {"pipes", "handle", "map"} => Admitted(c)
  /\ stage[c] \in {"pipes", "handle"} => outcome[c] = "none"
  /\ stage[c] = "map" => outcome[c] \in Outcomes[target[c]] \cup {"NoFiber"}
  /\ stage[c] = "answered" => Truthful(c)

\* The inductive invariant: a request carries on what the steps behind it found.
RequestInv == DOMAIN sent = Clients /\ \A c \in Clients : RequestOK(c)

\* A private method runs for a user who signed up and whose session, begun by a
\* sign-in, was alive when the request was sent; a public one for nobody.
ServedInSession ==
  \A c \in Clients : stage[c] \in {"handle", "map"} => SessionOf(c)

\* The status tells how the request ended: a success if and only if its method
\* returned one, a conflict only for a conflict, not found only for something
\* that was not found, and unauthorized only before a private method or for a
\* failed sign-in.
AnswersTruthful ==
  \A c \in Clients : stage[c] = "answered" => Truthful(c)

\* Whatever a client sends, and whatever fails, it gets an answer; the one
\* exception is POST /orders with its order not inserted: that request hangs, and may
\* take the process, with all others under way, down.
EveryRequestAnsweredButOrders ==
  \A c \in Clients :
    stage[c] = "route" ~>
      (stage[c] \in {"answered", "lost"} \/ (stage[c] = "hung" /\ target[c] = "createOrder"))
=============================================================================
