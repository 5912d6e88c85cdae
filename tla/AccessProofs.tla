----------------------------- MODULE AccessProofs -----------------------------
(***************************************************************************)
(* Theorems about Access, for any number of requests and of users: whom a  *)
(* request acts for, and that open routes are open.                        *)
(***************************************************************************)
EXTENDS Access, TLAPS

\* What is known of a request: what the interceptor gives it comes from its own
\* token, and so does the user that the guard admitted; before it arrives there
\* is nothing left of the one before it.
CallOK(r) ==
    /\ currentUser[r] \in {Nobody, sub[r]}
    /\ kind[r] \in Guarded /\ stage[r] \in {"intercept", "handle"} => user[r] = sub[r]
    /\ stage[r] = "guard" => kind[r] \in Guarded
    /\ stage[r] = "idle" => /\ currentUser[r] = Nobody /\ acted[r] = Nobody
                            /\ code[r] = 0
    /\ acted[r] # Nobody => acted[r] = sub[r] /\ (kind[r] \in Guarded => user[r] = acted[r])
    /\ kind[r] = "open" => code[r] \in {0, 200}

AccessInv == AccessTypeOK /\ \A r \in Calls : CallOK(r)

\* A step takes one request further, or none.
LEMMA OthersStay ==
    ASSUME NEW r \in Calls, AccessInv, AccessTypeOK', CallOK(r)',
           \A q \in Calls \ {r} :
                /\ stage'[q] = stage[q] /\ kind'[q] = kind[q] /\ sub'[q] = sub[q]
                /\ user'[q] = user[q] /\ currentUser'[q] = currentUser[q]
                /\ acted'[q] = acted[q] /\ code'[q] = code[q]
    PROVE  AccessInv'
<1>1. ASSUME NEW q \in Calls \ {r} PROVE CallOK(q)'
  BY DEF AccessInv, CallOK
<1>2. QED  BY <1>1 DEF AccessInv

LEMMA ArriveKeeps ==
    ASSUME NEW r \in Calls, NEW k \in Kinds, NEW f \in Forms, NEW u \in UserIds \cup {Nobody},
           NEW v \in BOOLEAN, AccessInv, Arrive(r, k, f, u, v)
    PROVE  AccessInv'
<1>1. AccessTypeOK'
  BY DEF AccessInv, AccessTypeOK, Arrive
<1>2. /\ stage'[r] = IF k \in Guarded THEN "guard" ELSE "intercept"
      /\ kind'[r] = k /\ sub'[r] = u /\ user'[r] = user[r] /\ currentUser'[r] = Nobody
      /\ acted'[r] = Nobody /\ code'[r] = 0
  BY DEF AccessInv, AccessTypeOK, CallOK, Arrive
<1>3. CallOK(r)'
  BY <1>2 DEF CallOK
<1>4. QED  BY <1>1, <1>3, OthersStay DEF AccessInv, AccessTypeOK, Arrive

LEMMA RespondKeeps ==
    ASSUME NEW r \in Calls, NEW c \in {200, 401, 500}, NEW u \in UserIds \cup {Nobody},
           AccessInv, Respond(r, c, u),
           u # Nobody => u = sub[r] /\ (kind[r] \in Guarded => user[r] = u),
           kind[r] = "open" => c = 200
    PROVE  AccessInv'
<1>1. AccessTypeOK'
  BY DEF AccessInv, AccessTypeOK, Respond, request
<1>2. /\ stage'[r] = "done" /\ acted'[r] = u /\ code'[r] = c
      /\ kind'[r] = kind[r] /\ sub'[r] = sub[r] /\ user'[r] = user[r]
      /\ currentUser'[r] = currentUser[r]
  BY DEF AccessInv, AccessTypeOK, Respond, request
<1>3. CallOK(r)'
  BY <1>2 DEF CallOK, AccessInv
<1>4. QED  BY <1>1, <1>3, OthersStay DEF AccessInv, AccessTypeOK, Respond, request

LEMMA GuardKeeps ==
    ASSUME NEW r \in Calls, AccessInv, Guard(r)
    PROVE  AccessInv'
<1>1. stage[r] = "guard" /\ kind[r] \in Guarded /\ sub[r] \in UserIds \cup {Nobody}
  BY DEF Guard, AccessInv, CallOK, AccessTypeOK
<1>2. CASE Respond(r, 401, Nobody)
  BY <1>1, <1>2, RespondKeeps DEF Guarded
<1>3. CASE /\ form[r] = "bearer" /\ Found(r)
           /\ user' = [user EXCEPT ![r] = sub[r]]
           /\ stage' = [stage EXCEPT ![r] = "intercept"]
           /\ UNCHANGED <<registered, request, valid, currentUser, acted, code>>
  <2>1. AccessTypeOK'
    BY <1>1, <1>3 DEF AccessInv, AccessTypeOK, request
  <2>2. /\ stage'[r] = "intercept" /\ user'[r] = sub[r]
        /\ acted'[r] = acted[r] /\ code'[r] = code[r] /\ kind'[r] = kind[r]
        /\ sub'[r] = sub[r] /\ currentUser'[r] = currentUser[r]
    BY <1>3 DEF AccessInv, AccessTypeOK, request
  <2>3. CallOK(r)'
    BY <2>2 DEF CallOK, AccessInv
  <2>4. QED  BY <1>3, <2>1, <2>3, OthersStay DEF AccessInv, AccessTypeOK, request
<1>4. QED  BY <1>2, <1>3 DEF Guard

LEMMA InterceptKeeps ==
    ASSUME NEW r \in Calls, AccessInv, Intercept(r)
    PROVE  AccessInv'
<1>1. /\ stage[r] = "intercept" /\ stage' = [stage EXCEPT ![r] = "handle"]
      /\ currentUser' \in {currentUser, [currentUser EXCEPT ![r] = sub[r]]}
      /\ UNCHANGED <<registered, kind, form, sub, valid, user, acted, code>>
  BY DEF Intercept, request
<1>2. AccessTypeOK'
  BY <1>1 DEF AccessInv, AccessTypeOK
<1>3. /\ stage'[r] = "handle" /\ currentUser'[r] \in {currentUser[r], sub[r]}
  BY <1>1 DEF AccessInv, AccessTypeOK
<1>4. CallOK(r)'
  BY <1>1, <1>3 DEF CallOK, AccessInv
<1>5. QED  BY <1>1, <1>2, <1>4, OthersStay DEF AccessInv, AccessTypeOK

LEMMA HandleKeeps ==
    ASSUME NEW r \in Calls, AccessInv, Handle(r)
    PROVE  AccessInv'
<1>1. /\ stage[r] = "handle" /\ CallOK(r)
      /\ currentUser[r] \in UserIds \cup {Nobody} /\ sub[r] \in UserIds \cup {Nobody}
  BY DEF Handle, AccessInv, AccessTypeOK
<1>2. CASE kind[r] = "open" /\ Respond(r, 200, Nobody)
  BY <1>2, RespondKeeps
<1>3. CASE kind[r] \in Guarded /\ Respond(r, 200, currentUser[r])
  BY <1>1, <1>3, RespondKeeps DEF CallOK, Guarded
<1>4. CASE kind[r] = "links" /\ Respond(r, 500, Nobody)
  BY <1>4, RespondKeeps
<1>5. CASE kind[r] = "bytoken" /\ Respond(r, 200, sub[r])
  BY <1>1, <1>5, RespondKeeps DEF Guarded
<1>6. CASE kind[r] = "bytoken" /\ Respond(r, 401, Nobody)
  BY <1>6, RespondKeeps
<1>7. QED  BY <1>2, <1>3, <1>4, <1>5, <1>6 DEF Handle, Guarded

LEMMA ForgetKeeps ==
    ASSUME NEW r \in Calls, AccessInv, Forget(r)
    PROVE  AccessInv'
<1>1. AccessTypeOK'
  BY DEF AccessInv, AccessTypeOK, Forget, Kinds, Forms
<1>2. /\ stage'[r] = "idle" /\ kind'[r] = "open" /\ currentUser'[r] = Nobody
      /\ acted'[r] = Nobody /\ code'[r] = 0
  BY DEF AccessInv, AccessTypeOK, Forget
<1>3. CallOK(r)'
  BY <1>2 DEF CallOK, Guarded
<1>4. QED  BY <1>1, <1>3, OthersStay DEF AccessInv, AccessTypeOK, Forget

LEMMA InitAccessInv == AccessInit => AccessInv
<1> SUFFICES ASSUME AccessInit PROVE AccessInv
  OBVIOUS
<1>1. AccessTypeOK
  BY DEF AccessInit, AccessTypeOK, Kinds, Forms
<1>2. ASSUME NEW r \in Calls PROVE CallOK(r)
  BY DEF AccessInit, CallOK, Guarded
<1>3. QED  BY <1>1, <1>2 DEF AccessInv

LEMMA StepAccessInv == AccessInv /\ [AccessNext]_accessVars => AccessInv'
<1> SUFFICES ASSUME AccessInv, [AccessNext]_accessVars PROVE AccessInv'
  OBVIOUS
<1>1. ASSUME NEW u \in UserIds, Register(u) PROVE AccessInv'
  BY <1>1 DEF Register, request, AccessInv, AccessTypeOK, CallOK
<1>2. ASSUME NEW r \in Calls, Expire(r) PROVE AccessInv'
  <2>1. AccessTypeOK'
    BY <1>2 DEF Expire, request, AccessInv, AccessTypeOK
  <2>2. QED  BY <1>2, <2>1 DEF Expire, request, AccessInv, CallOK
<1>3. CASE UNCHANGED accessVars
  BY <1>3 DEF accessVars, AccessInv, AccessTypeOK, CallOK
<1>4. QED
  BY <1>1, <1>2, <1>3, ArriveKeeps, GuardKeeps, InterceptKeeps, HandleKeeps, ForgetKeeps
  DEF AccessNext

\* The inductive invariant, from which the others follow.
THEOREM AccessInvariance == AccessSpec => []AccessInv
BY InitAccessInv, StepAccessInv, PTL DEF AccessSpec
-----------------------------------------------------------------------------
\* Every variable of a request keeps its type (AuthGuard, CurrentUserInterceptor).
THEOREM AccessTypeCorrect == AccessSpec => []AccessTypeOK
<1>1. AccessInv => AccessTypeOK
  BY DEF AccessInv
<1>2. QED  BY <1>1, AccessInvariance, PTL

\* A request acts for the user of its own token or for nobody, and behind the
\* guard for the one that was admitted, whatever the others do in between.
THEOREM ActsForOwnUser == AccessSpec => []ActsForItsUser
<1>1. AccessInv => ActsForItsUser
  BY DEF AccessInv, CallOK, ActsForItsUser
<1>2. QED  BY <1>1, AccessInvariance, PTL

\* Neither a bad token nor a failing database costs an open route its answer.
THEOREM OpenRoutesStayOpen == AccessSpec => []OpenRoutesAreServed
<1>1. AccessInv => OpenRoutesAreServed
  BY DEF AccessInv, CallOK, OpenRoutesAreServed
<1>2. QED  BY <1>1, AccessInvariance, PTL
=============================================================================
