-------------------------------- MODULE Access --------------------------------
(***************************************************************************)
(* From the token of a request to the user it acts for.  AuthGuard         *)
(* (guards/auth.guard.ts) looks the user up and admits the request; then   *)
(* CurrentUserInterceptor (users/interceptors), which runs on every route, *)
(* verifies the token and looks the user up again and gives the handler    *)
(* what it has found, or nothing; the route bytoken looks up on its own.   *)
(* Tokens expire and the database fails at any moment.                     *)
(***************************************************************************)
EXTENDS Naturals

CONSTANTS Calls, UserIds, Nobody

ASSUME AccessAssumption == Nobody \notin UserIds

\* An open route, one behind the guard that needs the user's id, whoami, which
\* returns the user it is given, and bytoken.
Kinds == {"open", "links", "whoami", "bytoken"}
Guarded == {"links", "whoami"}

\* No token, "Bearer <token>", a token of another scheme.
Forms == {"absent", "bearer", "other"}

VARIABLES
    registered, \* the ids that have a row
    stage,      \* stage[r]: "idle", "guard", "intercept", "handle", "done"
    kind, form, \* of the route, and of the header, of r
    sub,        \* sub[r]: who the token of r names, Nobody if it has no sub
    valid,      \* valid[r]: whether verify accepts the token
    user,       \* user[r]: request.user, by the guard
    currentUser,\* currentUser[r]: request.currentUser, by the interceptor
    acted,      \* acted[r]: the user the handler has acted for
    code        \* code[r]: the response

request == <<kind, form, sub>>
accessVars == <<registered, stage, kind, form, sub, valid, user, currentUser, acted, code>>

AccessTypeOK ==
    /\ registered \in SUBSET UserIds
    /\ stage \in [Calls -> {"idle", "guard", "intercept", "handle", "done"}]
    /\ kind \in [Calls -> Kinds] /\ form \in [Calls -> Forms]
    /\ sub \in [Calls -> UserIds \cup {Nobody}]
    /\ valid \in [Calls -> BOOLEAN]
    /\ user \in [Calls -> UserIds \cup {Nobody}]
    /\ currentUser \in [Calls -> UserIds \cup {Nobody}]
    /\ acted \in [Calls -> UserIds \cup {Nobody}]
    /\ code \in [Calls -> {0, 200, 401, 500}]

AccessInit ==
    /\ registered = {}
    /\ stage = [r \in Calls |-> "idle"]
    /\ kind = [r \in Calls |-> "open"]
    /\ form = [r \in Calls |-> "absent"]
    /\ sub = [r \in Calls |-> Nobody]
    /\ valid = [r \in Calls |-> FALSE]
    /\ user = [r \in Calls |-> Nobody]
    /\ currentUser = [r \in Calls |-> Nobody]
    /\ acted = [r \in Calls |-> Nobody]
    /\ code = [r \in Calls |-> 0]

Arrive(r, k, f, u, v) ==
    /\ stage[r] = "idle"
    /\ f = "absent" => u = Nobody /\ ~v
    /\ stage' = [stage EXCEPT ![r] = IF k \in Guarded THEN "guard" ELSE "intercept"]
    /\ kind' = [kind EXCEPT ![r] = k]
    /\ form' = [form EXCEPT ![r] = f]
    /\ sub' = [sub EXCEPT ![r] = u]
    /\ valid' = [valid EXCEPT ![r] = v]
    /\ UNCHANGED <<registered, user, currentUser, acted, code>>

Respond(r, c, u) ==
    /\ stage' = [stage EXCEPT ![r] = "done"]
    /\ code' = [code EXCEPT ![r] = c]
    /\ acted' = [acted EXCEPT ![r] = u]
    /\ UNCHANGED <<registered, request, valid, user, currentUser>>

\* verify and findOne with the token of r.
Found(r) == valid[r] /\ sub[r] \in registered

\* canActivate; the database may fail, which is 401 as well.
Guard(r) ==
    /\ stage[r] = "guard"
    /\ \/ /\ form[r] = "bearer" /\ Found(r)
          /\ user' = [user EXCEPT ![r] = sub[r]]
          /\ stage' = [stage EXCEPT ![r] = "intercept"]
          /\ UNCHANGED <<registered, request, valid, currentUser, acted, code>>
       \/ Respond(r, 401, Nobody)

\* Mutant: the user is kept in the interceptor, of which there is one.
InterceptShared(r) ==
    /\ stage[r] = "intercept"
    /\ stage' = [stage EXCEPT ![r] = "handle"]
    /\ currentUser' = IF form[r] = "bearer" /\ Found(r)
                      THEN [q \in Calls |-> sub[r]] ELSE currentUser
    /\ UNCHANGED <<registered, request, valid, user, acted, code>>

\* Mutant: the errors of verify and findOne are thrown.
InterceptThrowing(r) ==
    /\ stage[r] = "intercept"
    /\ IF form[r] = "bearer" /\ ~Found(r) THEN Respond(r, 401, Nobody)
       ELSE /\ stage' = [stage EXCEPT ![r] = "handle"]
            /\ UNCHANGED <<registered, request, valid, user, currentUser, acted, code>>

\* intercept: whatever fails is swallowed.
Intercept(r) ==
    /\ stage[r] = "intercept"
    /\ stage' = [stage EXCEPT ![r] = "handle"]
    /\ \/ /\ form[r] = "bearer" /\ Found(r)
          /\ currentUser' = [currentUser EXCEPT ![r] = sub[r]]
       \/ UNCHANGED currentUser
    /\ UNCHANGED <<registered, request, valid, user, acted, code>>

\* user.id of nobody throws; getUserFromToken takes any scheme.
Handle(r) ==
    /\ stage[r] = "handle"
    /\ \/ kind[r] = "open" /\ Respond(r, 200, Nobody)
       \/ kind[r] = "whoami" /\ Respond(r, 200, currentUser[r])
       \/ kind[r] = "links" /\ currentUser[r] # Nobody /\ Respond(r, 200, currentUser[r])
       \/ kind[r] = "links" /\ currentUser[r] = Nobody /\ Respond(r, 500, Nobody)
       \/ kind[r] = "bytoken" /\ Found(r) /\ Respond(r, 200, sub[r])
       \/ kind[r] = "bytoken" /\ Respond(r, 401, Nobody)

Forget(r) ==
    /\ stage[r] = "done"
    /\ stage' = [stage EXCEPT ![r] = "idle"]
    /\ kind' = [kind EXCEPT ![r] = "open"]
    /\ form' = [form EXCEPT ![r] = "absent"]
    /\ sub' = [sub EXCEPT ![r] = Nobody]
    /\ valid' = [valid EXCEPT ![r] = FALSE]
    /\ user' = [user EXCEPT ![r] = Nobody]
    /\ currentUser' = [currentUser EXCEPT ![r] = Nobody]
    /\ acted' = [acted EXCEPT ![r] = Nobody]
    /\ code' = [code EXCEPT ![r] = 0]
    /\ UNCHANGED registered

Register(u) ==
    /\ u \notin registered
    /\ registered' = registered \cup {u}
    /\ UNCHANGED <<stage, request, valid, user, currentUser, acted, code>>

Expire(r) ==
    /\ valid[r]
    /\ valid' = [valid EXCEPT ![r] = FALSE]
    /\ UNCHANGED <<registered, stage, request, user, currentUser, acted, code>>

AccessNext ==
    \/ \E r \in Calls :
            \/ \E k \in Kinds, f \in Forms, u \in UserIds \cup {Nobody}, v \in BOOLEAN :
                    Arrive(r, k, f, u, v)
            \/ Guard(r) \/ Intercept(r) \/ Handle(r) \/ Forget(r) \/ Expire(r)
    \/ \E u \in UserIds : Register(u)

AccessSpec == AccessInit /\ [][AccessNext]_accessVars
-----------------------------------------------------------------------------
\* A request acts for the user of its own token or for nobody, and behind the
\* guard for the one that was admitted, though the user is looked up twice and
\* other requests come between (AuthGuard, CurrentUserInterceptor).
ActsForItsUser ==
    \A r \in Calls : acted[r] # Nobody =>
        acted[r] = sub[r] /\ (kind[r] \in Guarded => user[r] = acted[r])

\* A token that is not accepted, or a database that fails, does not cost an
\* open route its answer (intercept runs on all routes and swallows errors).
OpenRoutesAreServed ==
    \A r \in Calls : kind[r] = "open" => code[r] \in {0, 200}
=============================================================================
