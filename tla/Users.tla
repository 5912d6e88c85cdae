-------------------------------- MODULE Users --------------------------------
(***************************************************************************)
(* The accounts and what they are linked to: AuthService, UsersService,    *)
(* FavouriteService and HiddenService over the tables of Postgres.  A call *)
(* is one HTTP request; a step of it is the code between two awaits, and   *)
(* the query it ends in.                                                   *)
(*                                                                         *)
(* The three tables of links (favourite teams, favourite competitions,     *)
(* hidden competitions) have the same columns and the same code: a target  *)
(* stands for one entity in one of them.                                   *)
(***************************************************************************)
EXTENDS Naturals, FiniteSets

CONSTANTS
    Calls,          \* requests, each one at a time
    Emails, Passwords,
    Targets,        \* what a user can be linked to
    Competitions,   \* the targets that must be on the list of competitions
    Patches,        \* bodies of PATCH: the columns they assign, None for the others
    MaxUsers,       \* bound on the accounts
    MaxRows,        \* bound on the rows of links, deleted ones included
    None

ASSUME UsersAssumption ==
    /\ Competitions \subseteq Targets
    /\ Patches \subseteq [email : Emails \cup {None}, password : Passwords \cup {None}]
    /\ MaxUsers \in Nat /\ MaxRows \in Nat
    /\ None \notin Emails \cup Passwords \cup Targets \cup 1..MaxUsers

UserIds == 1..MaxUsers
RowIds == 1..MaxRows

VARIABLES
    accounts,   \* table "user": the columns of each account, or None
    rows,       \* the tables of links: the columns of each row, or None
    lastRow,    \* the sequence that numbers the rows
    available,  \* the competitions on the list that football-data.org gives
    call,       \* call[c]: where the code of c is, and its locals
    answer      \* class of the HTTP status of the response just sent, or None

vars == <<accounts, rows, lastRow, available, call, answer>>

\* A column password: "salt.hash" of p, or p itself.
Hash(p) == [hashed |-> TRUE, of |-> p]
Plain(p) == [hashed |-> FALSE, of |-> p]
Stored == [hashed : BOOLEAN, of : Passwords]
Columns == [email : Emails, password : Stored]

\* userId is nullable; owner is not a column, it remembers the first userId.
Links == [user : UserIds \cup {None}, owner : UserIds, target : Targets]

Idle == [at |-> "idle"]
Frames ==
    {Idle}
    \cup [at : {"signup"}, email : Emails, password : Passwords]
    \cup [at : {"signin"}, read : Stored, password : Passwords]
    \cup [at : {"patch"}, user : UserIds, read : Columns, links : SUBSET RowIds,
          attrs : Patches]
    \cup [at : {"add", "insert"}, user : UserIds, target : Targets]
    \cup [at : {"delete"}, user : UserIds, target : Targets, row : RowIds]

TypeOK ==
    /\ accounts \in [UserIds -> Columns \cup {None}]
    /\ rows \in [RowIds -> Links \cup {None}]
    /\ lastRow \in 0..MaxRows
    /\ available \subseteq Competitions
    /\ call \in [Calls -> Frames]
    /\ answer \in {None, "2xx", "4xx", "5xx"}

Init ==
    /\ accounts = [u \in UserIds |-> None]
    /\ rows = [i \in RowIds |-> None]
    /\ lastRow = 0
    /\ available = Competitions
    /\ call = [c \in Calls |-> Idle]
    /\ answer = None

Registered == {u \in UserIds : accounts[u] # None}
WithEmail(e) == {u \in Registered : accounts[u].email = e}
RowsOf(u) == {i \in RowIds : rows[i] # None /\ rows[i].user = u}
Linked(u, t) == \E i \in RowsOf(u) : rows[i].target = t

Await(c, frame) ==
    /\ call' = [call EXCEPT ![c] = frame]
    /\ answer' = None

Respond(c, status) ==
    /\ call' = [call EXCEPT ![c] = Idle]
    /\ answer' = status
-----------------------------------------------------------------------------
(* AuthService.                                                            *)

\* signup: find by email, then hash the password.
SignupFind(c, e, p) ==
    /\ call[c] = Idle
    /\ UNCHANGED <<accounts, rows, lastRow, available>>
    /\ \/ WithEmail(e) # {} /\ Respond(c, "4xx")
       \/ WithEmail(e) = {}
          /\ Await(c, [at |-> "signup", email |-> e, password |-> p])

\* Mutant: no unique constraint on the column email.
SignupSaveUnchecked(c) ==
    /\ call[c].at = "signup"
    /\ \E u \in UserIds \ Registered :
            accounts' = [accounts EXCEPT ![u] =
                [email |-> call[c].email, password |-> Hash(call[c].password)]]
    /\ Respond(c, "2xx")
    /\ UNCHANGED <<rows, lastRow, available>>

\* signup: create, refused by the unique constraint on email.
SignupSave(c) ==
    /\ call[c].at = "signup"
    /\ UNCHANGED <<rows, lastRow, available>>
    /\ \/ /\ WithEmail(call[c].email) # {}
          /\ Respond(c, "5xx")
          /\ UNCHANGED accounts
       \/ /\ WithEmail(call[c].email) = {}
          /\ \E u \in UserIds \ Registered :
                accounts' = [accounts EXCEPT ![u] =
                    [email |-> call[c].email, password |-> Hash(call[c].password)]]
          /\ Respond(c, "2xx")

\* signin: find by email.
SigninFind(c, e, p) ==
    /\ call[c] = Idle
    /\ UNCHANGED <<accounts, rows, lastRow, available>>
    /\ \/ WithEmail(e) = {} /\ Respond(c, "4xx")
       \/ \E u \in WithEmail(e) :
            Await(c, [at |-> "signin", read |-> accounts[u].password, password |-> p])

\* signin: compare, which fails for a column that is not "salt.hash".
SigninCompare(c) ==
    /\ call[c].at = "signin"
    /\ Respond(c, IF call[c].read = Hash(call[c].password) THEN "2xx" ELSE "4xx")
    /\ UNCHANGED <<accounts, rows, lastRow, available>>
-----------------------------------------------------------------------------
(* UsersService.update, behind PATCH /users/:id.                           *)

\* Mutant: the relations are loaded for everybody.
PatchReadAll(c, u, attrs) ==
    /\ call[c] = Idle
    /\ u \in Registered
    /\ Await(c, [at |-> "patch", user |-> u, read |-> accounts[u],
                 links |-> {i \in RowIds : rows[i] # None}, attrs |-> attrs])
    /\ UNCHANGED <<accounts, rows, lastRow, available>>

\* findOne with the relations.
PatchRead(c, u, attrs) ==
    /\ call[c] = Idle
    /\ UNCHANGED <<accounts, rows, lastRow, available>>
    /\ \/ u \notin Registered /\ Respond(c, "4xx")
       \/ u \in Registered
          /\ Await(c, [at |-> "patch", user |-> u, read |-> accounts[u],
                       links |-> RowsOf(u), attrs |-> attrs])

\* Mutant: the fields that a body lacks are assigned too, as undefined.
AssignedUndefined(read, attrs) ==
    [email |-> attrs.email,
     password |-> IF attrs.password = None THEN read.password
                  ELSE Plain(attrs.password)]

\* Object.assign(user, attrs): the columns of the object that is saved.
Assigned(read, attrs) ==
    [email |-> IF attrs.email = None THEN read.email ELSE attrs.email,
     password |-> IF attrs.password = None THEN read.password
                  ELSE Plain(attrs.password)]

\* Mutant: the object that is saved is made anew, with empty relations as in
\* create.
PatchSaveEmpty(c) ==
    LET f == call[c]  new == Assigned(f.read, f.attrs) IN
    /\ f.at = "patch"
    /\ WithEmail(new.email) \subseteq {f.user}
    /\ accounts' = [accounts EXCEPT ![f.user] = new]
    /\ rows' = [i \in RowIds |-> IF i \in RowsOf(f.user)
                                THEN [rows[i] EXCEPT !.user = None] ELSE rows[i]]
    /\ Respond(c, "2xx")
    /\ UNCHANGED <<lastRow, available>>

\* save: every column, read or assigned, is made what the object says; so are
\* its one-to-many relations: the rows it holds are linked to the user, the
\* others that are by now are not any more.
PatchSave(c) ==
    LET f == call[c]  new == Assigned(f.read, f.attrs) IN
    /\ f.at = "patch"
    /\ UNCHANGED <<lastRow, available>>
    /\ \/ /\ WithEmail(new.email) \subseteq {f.user}
          /\ accounts' = [accounts EXCEPT ![f.user] = new]
          /\ rows' = [i \in RowIds |->
                IF rows[i] = None THEN None
                ELSE IF i \in f.links THEN [rows[i] EXCEPT !.user = f.user]
                ELSE IF rows[i].user = f.user THEN [rows[i] EXCEPT !.user = None]
                ELSE rows[i]]
          /\ Respond(c, "2xx")
       \/ /\ ~(WithEmail(new.email) \subseteq {f.user})
          /\ Respond(c, "5xx")
          /\ UNCHANGED <<accounts, rows>>
-----------------------------------------------------------------------------
(* FavouriteService and HiddenService, behind AuthGuard.                   *)

\* addFavTeam, addFavComp, hideComp: is the competition on the list?
\* Both that it is not and that there is no list yet are answered with 5xx.
AddCheck(c, u, t) ==
    /\ call[c] = Idle
    /\ u \in Registered
    /\ UNCHANGED <<accounts, rows, lastRow, available>>
    /\ \/ t \in Competitions /\ Respond(c, "5xx")
       \/ t \in available \cup (Targets \ Competitions)
          /\ Await(c, [at |-> "add", user |-> u, target |-> t])

\* The name and the picture of the entity, unless they are not there yet.
AddFetch(c) ==
    /\ call[c].at = "add"
    /\ UNCHANGED <<accounts, rows, lastRow, available>>
    /\ \/ Respond(c, "5xx")
       \/ Await(c, [call[c] EXCEPT !.at = "insert"])

\* The migration gives the tables no unique constraint: nothing is refused.
Insert(c) ==
    LET f == call[c] IN
    /\ f.at = "insert"
    /\ lastRow < MaxRows
    /\ lastRow' = lastRow + 1
    /\ rows' = [rows EXCEPT ![lastRow + 1] =
                    [user |-> f.user, owner |-> f.user, target |-> f.target]]
    /\ Respond(c, "2xx")
    /\ UNCHANGED <<accounts, available>>

\* Mutant: the first link found is taken.
RemoveReadAny(c, u, t) ==
    /\ call[c] = Idle
    /\ u \in Registered
    /\ \E i \in RowsOf(u) :
            Await(c, [at |-> "delete", user |-> u, target |-> t, row |-> i])
    /\ UNCHANGED <<accounts, rows, lastRow, available>>

\* removeFavorite, showComp: find one row of the user for the target.
RemoveRead(c, u, t) ==
    /\ call[c] = Idle
    /\ u \in Registered
    /\ UNCHANGED <<accounts, rows, lastRow, available>>
    /\ \/ ~Linked(u, t) /\ Respond(c, "2xx")
       \/ \E i \in RowsOf(u) :
            /\ rows[i].target = t
            /\ Await(c, [at |-> "delete", user |-> u, target |-> t, row |-> i])

\* delete({ id }).
RemoveDelete(c) ==
    /\ call[c].at = "delete"
    /\ rows' = [rows EXCEPT ![call[c].row] = None]
    /\ Respond(c, "2xx")
    /\ UNCHANGED <<accounts, lastRow, available>>

\* The list of competitions changes.
ChangeAvailable ==
    /\ available' \in SUBSET Competitions
    /\ answer' = None
    /\ UNCHANGED <<accounts, rows, lastRow, call>>

Next ==
    \/ \E c \in Calls, e \in Emails, p \in Passwords :
            SignupFind(c, e, p) \/ SigninFind(c, e, p)
    \/ \E c \in Calls, u \in UserIds, a \in Patches : PatchRead(c, u, a)
    \/ \E c \in Calls, u \in UserIds, t \in Targets :
            AddCheck(c, u, t) \/ RemoveRead(c, u, t)
    \/ \E c \in Calls :
            \/ SignupSave(c) \/ SigninCompare(c) \/ PatchSave(c)
            \/ AddFetch(c) \/ Insert(c) \/ RemoveDelete(c)
    \/ ChangeAvailable

Spec == Init /\ [][Next]_vars
-----------------------------------------------------------------------------
(* Properties that hold.                                                   *)

\* Two sign-ups and a PATCH that each found an address free do not all get it.
EmailsAreUnique == \A e \in Emails : Cardinality(WithEmail(e)) <= 1

\* A row of links is never handed to another user: the save of a PATCH, which
\* links again every row it had read, only touches rows that were its user's.
NoRowChangesHands ==
    \A i \in RowIds : rows[i] # None => rows[i].user \in {rows[i].owner, None}

\* The row that a DELETE found is deleted later by its number alone: it is
\* still a row of that user and for that target (removeFavorite, showComp).
DeletesHitTheirTarget ==
    \A c \in Calls : call[c].at = "delete" =>
        LET row == rows[call[c].row] IN
        row # None => row.owner = call[c].user /\ row.target = call[c].target

\* A link goes away only by a DELETE of that target, or by the save of a PATCH
\* that had read the user before the row was there: no link that is older than
\* the requests under way is lost.
LinksAreLostOnlyToRaces ==
    [][\A u \in UserIds, t \in Targets :
        Linked(u, t) /\ ~Linked(u, t)' =>
            \E c \in Calls :
                /\ call[c].at \in {"delete", "patch"} /\ call'[c] = Idle
                /\ call[c].user = u
                /\ call[c].at = "delete" => call[c].target = t
                /\ call[c].at = "patch" =>
                    \A i \in RowsOf(u) : rows[i].target = t => i \notin call[c].links]_vars
-----------------------------------------------------------------------------
(* Properties that the code does not have.                                 *)

\* A second link to the same target is refused ("Handle duplicate key error
\* (race condition or already exists)", favourite.service.ts).
NoDuplicateLinks ==
    \A u \in UserIds : \A i, j \in RowsOf(u) :
        rows[i].target = rows[j].target => i = j

\* A sign-up for an address that is taken is answered with 400 "email in use"
\* (auth.service.spec.ts), not with 500.
TakenEmailIs400 ==
    [][\A c \in Calls : call[c].at = "signup" /\ call'[c] = Idle
            => answer' \in {"2xx", "4xx"}]_vars

\* Passwords are hashed before they are stored (auth.service.spec.ts), as the
\* comparison of signin expects.
PasswordsAreHashed ==
    \A u \in Registered : accounts[u].password.hashed
=============================================================================
