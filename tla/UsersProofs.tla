------------------------------ MODULE UsersProofs ------------------------------
(***************************************************************************)
(* Theorems about Users, for every set of requests, addresses, passwords   *)
(* and targets, and tables of any size.  What makes them inductive is that *)
(* the sequence never gives a number twice, so that a number read before   *)
(* an await still means the same row, or no row, after it.                 *)
(***************************************************************************)
EXTENDS Users, FiniteSetTheorems, TLAPS

\* The unique constraint on the column email.
EmailsDiffer ==
    \A u, v \in Registered : accounts[u].email = accounts[v].email => u = v

\* The numbers that have been given out.
RowsAreNumbered == \A i \in RowIds : rows[i] # None => i <= lastRow

\* The rows that a request has read and goes on with are, as far as they are
\* still there, of the user and for the target it read them for.
FrameHolds(f) ==
    /\ f.at = "patch" => \A i \in f.links :
            i <= lastRow /\ (rows[i] # None => rows[i].owner = f.user)
    /\ f.at = "delete" =>
            /\ f.row <= lastRow
            /\ rows[f.row] # None =>
                    rows[f.row].owner = f.user /\ rows[f.row].target = f.target

UInv ==
    /\ TypeOK
    /\ EmailsDiffer
    /\ RowsAreNumbered
    /\ NoRowChangesHands
    /\ \A c \in Calls : FrameHolds(call[c])
-----------------------------------------------------------------------------
(* Frames and rows.                                                        *)

SignupFrames == [at : {"signup"}, email : Emails, password : Passwords]
SigninFrames == [at : {"signin"}, read : Stored, password : Passwords]
PatchFrames == [at : {"patch"}, user : UserIds, read : Columns, links : SUBSET RowIds,
                attrs : Patches]
AddFrames == [at : {"add", "insert"}, user : UserIds, target : Targets]
DeleteFrames == [at : {"delete"}, user : UserIds, target : Targets, row : RowIds]

\* Where the code of a request is tells the locals it has.
LEMMA FramesByPlace ==
    ASSUME NEW f \in Frames
    PROVE  /\ f.at = "signup" => f \in SignupFrames
           /\ f.at = "signin" => f \in SigninFrames
           /\ f.at = "patch" => f \in PatchFrames
           /\ f.at \in {"add", "insert"} => f \in AddFrames
           /\ f.at = "delete" => f \in DeleteFrames
<1>1. CASE f = Idle
  <2>1. f.at = "idle"
    BY <1>1 DEF Idle
  <2>2. QED  BY <2>1
<1>2. CASE f \in SignupFrames
  <2>1. f.at = "signup"
    BY <1>2 DEF SignupFrames
  <2>2. QED  BY <1>2, <2>1
<1>3. CASE f \in SigninFrames
  <2>1. f.at = "signin"
    BY <1>3 DEF SigninFrames
  <2>2. QED  BY <1>3, <2>1
<1>4. CASE f \in PatchFrames
  <2>1. f.at = "patch"
    BY <1>4 DEF PatchFrames
  <2>2. QED  BY <1>4, <2>1
<1>5. CASE f \in AddFrames
  <2>1. f.at \in {"add", "insert"}
    BY <1>5 DEF AddFrames
  <2>2. QED  BY <1>5, <2>1
<1>6. CASE f \in DeleteFrames
  <2>1. f.at = "delete"
    BY <1>6 DEF DeleteFrames
  <2>2. QED  BY <1>6, <2>1
<1>7. QED
  BY <1>1, <1>2, <1>3, <1>4, <1>5, <1>6
  DEF Frames, SignupFrames, SigninFrames, PatchFrames, AddFrames, DeleteFrames

\* A row that links a user was made by that user.
LEMMA OwnRows ==
    ASSUME UInv, NEW u \in UserIds, NEW i \in RowsOf(u)
    PROVE  i \in RowIds /\ rows[i] # None /\ rows[i].owner = u /\ i <= lastRow
<1>1. u # None
  BY UsersAssumption DEF UserIds
<1>2. QED  BY <1>1 DEF RowsOf, UInv, NoRowChangesHands, RowsAreNumbered

\* Steps that only take a request to another place.
LEMMA MoveKeeps ==
    ASSUME UInv, UNCHANGED <<accounts, rows, lastRow, available>>,
           NEW c \in Calls, NEW f \in Frames, FrameHolds(f),
           call' = [call EXCEPT ![c] = f], answer' \in {None, "2xx", "4xx", "5xx"}
    PROVE  UInv'
<1>1. TypeOK'
  BY DEF UInv, TypeOK
<1>2. EmailsDiffer' /\ RowsAreNumbered' /\ NoRowChangesHands'
  BY DEF UInv, EmailsDiffer, RowsAreNumbered, NoRowChangesHands, Registered
<1>3. \A d \in Calls : call'[d] = f \/ call'[d] = call[d]
  BY DEF UInv, TypeOK
<1>4. (\A d \in Calls : FrameHolds(call[d]))'
  BY <1>3 DEF UInv, FrameHolds
<1>5. QED  BY <1>1, <1>2, <1>4 DEF UInv

\* Being answered needs nothing.
LEMMA IdleFrame ==
    /\ Idle \in Frames /\ FrameHolds(Idle)
    /\ Idle.at = "idle"
BY DEF Idle, Frames, FrameHolds

LEMMA AnswerKeeps ==
    ASSUME UInv, UNCHANGED <<accounts, rows, lastRow, available>>,
           NEW c \in Calls, NEW status \in {"2xx", "4xx", "5xx"}, Respond(c, status)
    PROVE  UInv'
BY IdleFrame, MoveKeeps DEF Respond

LEMMA AccountMoveKeeps ==
    ASSUME UInv, NEW c \in Calls, NEW e \in Emails, NEW p \in Passwords,
           SignupFind(c, e, p) \/ SigninFind(c, e, p)
    PROVE  UInv'
<1>1. UNCHANGED <<accounts, rows, lastRow, available>>
  BY DEF SignupFind, SigninFind
<1>2. CASE Respond(c, "4xx")
  BY <1>1, <1>2, AnswerKeeps
<1>3. CASE Await(c, [at |-> "signup", email |-> e, password |-> p])
  <2>1. /\ [at |-> "signup", email |-> e, password |-> p] \in Frames
        /\ FrameHolds([at |-> "signup", email |-> e, password |-> p])
    BY DEF Frames, FrameHolds
  <2>2. QED  BY <1>1, <1>3, <2>1, MoveKeeps DEF Await
<1>4. ASSUME NEW u \in WithEmail(e),
             Await(c, [at |-> "signin", read |-> accounts[u].password, password |-> p])
      PROVE  UInv'
  <2>1. accounts[u].password \in Stored
    BY DEF UInv, TypeOK, WithEmail, Registered, Columns
  <2>2. /\ [at |-> "signin", read |-> accounts[u].password, password |-> p] \in Frames
        /\ FrameHolds([at |-> "signin", read |-> accounts[u].password, password |-> p])
    BY <2>1 DEF Frames, FrameHolds
  <2>3. QED  BY <1>1, <1>4, <2>2, MoveKeeps DEF Await
<1>5. QED  BY <1>2, <1>3, <1>4 DEF SignupFind, SigninFind

LEMMA CompareKeeps ==
    ASSUME UInv, NEW c \in Calls, SigninCompare(c)
    PROVE  UInv'
BY AnswerKeeps DEF SigninCompare

LEMMA PatchReadKeeps ==
    ASSUME UInv, NEW c \in Calls, NEW u \in UserIds, NEW a \in Patches, PatchRead(c, u, a)
    PROVE  UInv'
<1>1. UNCHANGED <<accounts, rows, lastRow, available>>
  BY DEF PatchRead
<1> DEFINE f == [at |-> "patch", user |-> u, read |-> accounts[u], links |-> RowsOf(u),
                 attrs |-> a]
<1>2. CASE Respond(c, "4xx")
  BY <1>1, <1>2, AnswerKeeps
<1>3. CASE u \in Registered /\ Await(c, f)
  <2>1. accounts[u] \in Columns /\ RowsOf(u) \in SUBSET RowIds
    BY <1>3 DEF Registered, UInv, TypeOK, RowsOf
  <2>2. f \in Frames
    BY <2>1 DEF Frames
  <2>3. FrameHolds(f)
    <3>1. f.at = "patch" /\ f.links = RowsOf(u) /\ f.user = u
      OBVIOUS
    <3> HIDE DEF f
    <3>2. QED  BY <3>1, OwnRows DEF FrameHolds
  <2>4. QED  BY <1>1, <1>3, <2>2, <2>3, MoveKeeps DEF Await
<1>4. QED  BY <1>2, <1>3 DEF PatchRead

LEMMA LinkMoveKeeps ==
    ASSUME UInv, NEW c \in Calls, NEW u \in UserIds, NEW t \in Targets,
           AddCheck(c, u, t) \/ RemoveRead(c, u, t)
    PROVE  UInv'
<1>1. UNCHANGED <<accounts, rows, lastRow, available>>
  BY DEF AddCheck, RemoveRead
<1>2. CASE \E status \in {"2xx", "4xx", "5xx"} : Respond(c, status)
  BY <1>1, <1>2, AnswerKeeps
<1>3. CASE Await(c, [at |-> "add", user |-> u, target |-> t])
  <2>1. /\ [at |-> "add", user |-> u, target |-> t] \in Frames
        /\ FrameHolds([at |-> "add", user |-> u, target |-> t])
    BY DEF Frames, FrameHolds
  <2>2. QED  BY <1>1, <1>3, <2>1, MoveKeeps DEF Await
<1>4. ASSUME NEW i \in RowsOf(u), rows[i].target = t,
             Await(c, [at |-> "delete", user |-> u, target |-> t, row |-> i])
      PROVE  UInv'
  <2> DEFINE f == [at |-> "delete", user |-> u, target |-> t, row |-> i]
  <2>1. f.at = "delete" /\ f.user = u /\ f.target = t /\ f.row = i
    OBVIOUS
  <2>2. f \in Frames
    BY OwnRows DEF Frames
  <2>3. FrameHolds(f)
    <3> HIDE DEF f
    <3>1. QED  BY <1>4, <2>1, OwnRows DEF FrameHolds
  <2>4. QED  BY <1>1, <1>4, <2>2, <2>3, MoveKeeps DEF Await
<1>5. QED  BY <1>2, <1>3, <1>4 DEF AddCheck, RemoveRead

LEMMA AddFetchKeeps ==
    ASSUME UInv, NEW c \in Calls, AddFetch(c)
    PROVE  UInv'
<1>1. UNCHANGED <<accounts, rows, lastRow, available>> /\ call[c] \in AddFrames
  BY FramesByPlace DEF AddFetch, UInv, TypeOK
<1>2. CASE Respond(c, "5xx")
  BY <1>1, <1>2, AnswerKeeps
<1>3. CASE Await(c, [call[c] EXCEPT !.at = "insert"])
  <2>1. /\ [call[c] EXCEPT !.at = "insert"] \in AddFrames
        /\ [call[c] EXCEPT !.at = "insert"].at = "insert"
    BY <1>1 DEF AddFrames
  <2>2. /\ [call[c] EXCEPT !.at = "insert"] \in Frames
        /\ FrameHolds([call[c] EXCEPT !.at = "insert"])
    BY <2>1 DEF Frames, AddFrames, FrameHolds
  <2>3. QED  BY <1>1, <1>3, <2>2, MoveKeeps DEF Await
<1>4. QED  BY <1>2, <1>3 DEF AddFetch
-----------------------------------------------------------------------------
(* Steps that write to the tables.                                         *)

\* A user's columns are written after the constraint has been checked.
LEMMA AccountsKeep ==
    ASSUME UInv, NEW u \in UserIds, NEW new \in Columns,
           WithEmail(new.email) \subseteq {u}, accounts' = [accounts EXCEPT ![u] = new]
    PROVE  EmailsDiffer' /\ accounts' \in [UserIds -> Columns \cup {None}]
<1>1. accounts \in [UserIds -> Columns \cup {None}] /\ EmailsDiffer
  BY DEF UInv, TypeOK
<1>2. \A v \in UserIds : accounts'[v] = IF v = u THEN new ELSE accounts[v]
  BY <1>1
<1>3. ASSUME NEW v \in UserIds, NEW w \in UserIds, accounts'[v] # None, accounts'[w] # None,
             accounts'[v].email = accounts'[w].email
      PROVE  v = w
  <2>1. CASE v # u /\ w # u
    BY <1>1, <1>2, <1>3, <2>1 DEF EmailsDiffer, Registered
  <2>2. CASE v = u /\ w # u
    BY <1>2, <1>3, <2>2 DEF WithEmail, Registered
  <2>3. CASE v # u /\ w = u
    BY <1>2, <1>3, <2>3 DEF WithEmail, Registered
  <2>4. QED  BY <2>1, <2>2, <2>3
<1>4. QED  BY <1>1, <1>3 DEF EmailsDiffer, Registered

LEMMA SignupSaveKeeps ==
    ASSUME UInv, NEW c \in Calls, SignupSave(c)
    PROVE  UInv'
<1>1. call[c] \in SignupFrames /\ UNCHANGED <<rows, lastRow, available>>
  BY FramesByPlace DEF SignupSave, UInv, TypeOK
<1>2. CASE Respond(c, "5xx") /\ UNCHANGED accounts
  BY <1>1, <1>2, AnswerKeeps
<1>3. ASSUME WithEmail(call[c].email) = {}, Respond(c, "2xx"), NEW u \in UserIds,
             accounts' = [accounts EXCEPT ![u] =
                [email |-> call[c].email, password |-> Hash(call[c].password)]]
      PROVE  UInv'
  <2>1. PICK new \in Columns :
            /\ new.email = call[c].email
            /\ accounts' = [accounts EXCEPT ![u] = new]
    BY <1>1, <1>3 DEF SignupFrames, Columns, Hash, Stored
  <2>2. EmailsDiffer' /\ accounts' \in [UserIds -> Columns \cup {None}]
    BY <1>3, <2>1, AccountsKeep
  <2>3. TypeOK' /\ \A d \in Calls : call'[d] = Idle \/ call'[d] = call[d]
    BY <1>1, <1>3, <2>2, IdleFrame DEF Respond, UInv, TypeOK
  <2>4. (\A d \in Calls : FrameHolds(call[d]))'
    BY <1>1, <2>3, IdleFrame DEF UInv, FrameHolds
  <2>5. QED
    BY <1>1, <2>2, <2>3, <2>4 DEF UInv, RowsAreNumbered, NoRowChangesHands
<1>4. QED  BY <1>2, <1>3 DEF SignupSave

\* The rows keep their numbers, owners and targets, so that what was read of
\* them goes on to hold; a new one takes a number that nobody has read.
LEMMA RowsKeep ==
    ASSUME UInv, NEW c \in Calls, call' = [call EXCEPT ![c] = Idle], lastRow <= lastRow',
           lastRow' \in 0..MaxRows,
           \A i \in RowIds : rows'[i] # None =>
                \/ i > lastRow
                \/ rows[i] # None /\ rows'[i].owner = rows[i].owner
                                  /\ rows'[i].target = rows[i].target
    PROVE  (\A d \in Calls : FrameHolds(call[d]))'
<1>1. \A d \in Calls : call'[d] = Idle \/ call'[d] = call[d]
  BY DEF UInv, TypeOK
<1>2. lastRow \in Int /\ lastRow' \in Int
  BY UsersAssumption DEF UInv, TypeOK
<1>3. ASSUME NEW d \in Calls, call'[d] = call[d]
      PROVE  FrameHolds(call[d])'
  <2>1. FrameHolds(call[d]) /\ call[d] \in Frames
    BY DEF UInv, TypeOK
  <2>2. ASSUME call[d].at = "patch", NEW i \in call[d].links
        PROVE  i <= lastRow' /\ (rows'[i] # None => rows'[i].owner = call[d].user)
    <3>1. i \in RowIds /\ i \in Int /\ i <= lastRow
      BY <2>1, <2>2, FramesByPlace, UsersAssumption DEF FrameHolds, PatchFrames, RowIds
    <3>2. QED  BY <1>2, <2>1, <2>2, <3>1 DEF FrameHolds
  <2>3. ASSUME call[d].at = "delete"
        PROVE  LET i == call[d].row IN
               /\ i <= lastRow'
               /\ rows'[i] # None =>
                    rows'[i].owner = call[d].user /\ rows'[i].target = call[d].target
    <3>1. call[d].row \in RowIds /\ call[d].row \in Int /\ call[d].row <= lastRow
      BY <2>1, <2>3, FramesByPlace, UsersAssumption DEF FrameHolds, DeleteFrames, RowIds
    <3>2. QED  BY <1>2, <2>1, <2>3, <3>1 DEF FrameHolds
  <2>4. QED  BY <1>3, <2>2, <2>3 DEF FrameHolds
<1>4. QED  BY <1>1, <1>3, IdleFrame DEF FrameHolds

\* What the save of a PATCH makes of a row: it links the rows that were read,
\* which are the user's own, and unlinks the others that are by now.
LEMMA SavedRows ==
    ASSUME UInv, NEW c \in Calls, call[c].at = "patch",
           rows' = [i \in RowIds |->
                IF rows[i] = None THEN None
                ELSE IF i \in call[c].links THEN [rows[i] EXCEPT !.user = call[c].user]
                ELSE IF rows[i].user = call[c].user THEN [rows[i] EXCEPT !.user = None]
                ELSE rows[i]],
           NEW i \in RowIds, rows'[i] # None
    PROVE  /\ rows[i] # None /\ rows[i] \in Links /\ rows'[i] \in Links
           /\ rows'[i].owner = rows[i].owner /\ rows'[i].target = rows[i].target
           /\ \/ i \in call[c].links /\ rows'[i].user = call[c].user
                                     /\ rows[i].owner = call[c].user
              \/ i \notin call[c].links /\ rows[i].user = call[c].user
                                        /\ rows'[i].user = None
              \/ i \notin call[c].links /\ rows'[i].user = rows[i].user
<1>1. rows[i] # None /\ rows[i] \in Links
  BY DEF UInv, TypeOK
<1>2. call[c] \in PatchFrames /\ FrameHolds(call[c]) /\ call[c].user \in UserIds
  BY FramesByPlace DEF UInv, TypeOK, PatchFrames
<1>3. CASE i \in call[c].links
  <2>1. rows'[i] = [rows[i] EXCEPT !.user = call[c].user] /\ rows[i].owner = call[c].user
    BY <1>1, <1>2, <1>3 DEF FrameHolds
  <2>2. QED  BY <1>1, <1>2, <1>3, <2>1 DEF Links
<1>4. CASE i \notin call[c].links /\ rows[i].user = call[c].user
  <2>1. rows'[i] = [rows[i] EXCEPT !.user = None]
    BY <1>1, <1>4
  <2>2. QED  BY <1>1, <1>4, <2>1 DEF Links
<1>5. CASE i \notin call[c].links /\ rows[i].user # call[c].user
  BY <1>1, <1>5
<1>6. QED  BY <1>3, <1>4, <1>5

LEMMA PatchSaveKeeps ==
    ASSUME UInv, NEW c \in Calls, PatchSave(c)
    PROVE  UInv'
<1>1. /\ call[c].at = "patch" /\ call[c] \in PatchFrames
      /\ UNCHANGED <<lastRow, available>>
  BY FramesByPlace DEF PatchSave, UInv, TypeOK
<1>2. CASE Respond(c, "5xx") /\ UNCHANGED <<accounts, rows>>
  BY <1>1, <1>2, AnswerKeeps
<1>3. CASE ~(Respond(c, "5xx") /\ UNCHANGED <<accounts, rows>>)
  <2> DEFINE new == Assigned(call[c].read, call[c].attrs)
  <2>1. /\ WithEmail(new.email) \subseteq {call[c].user}
        /\ accounts' = [accounts EXCEPT ![call[c].user] = new]
        /\ rows' = [i \in RowIds |->
                IF rows[i] = None THEN None
                ELSE IF i \in call[c].links THEN [rows[i] EXCEPT !.user = call[c].user]
                ELSE IF rows[i].user = call[c].user THEN [rows[i] EXCEPT !.user = None]
                ELSE rows[i]]
        /\ Respond(c, "2xx")
    BY <1>3 DEF PatchSave
  <2>2. call[c].user \in UserIds /\ call[c].read \in Columns /\ call[c].attrs \in Patches
    BY <1>1 DEF PatchFrames
  <2>3. new \in Columns
    <3>1. call[c].attrs \in [email : Emails \cup {None}, password : Passwords \cup {None}]
      BY <2>2, UsersAssumption
    <3>2. Plain(call[c].attrs.password) \in Stored \/ call[c].attrs.password = None
      BY <3>1 DEF Plain, Stored
    <3>3. QED  BY <2>2, <3>1, <3>2 DEF Assigned, Columns
  <2>4. EmailsDiffer' /\ accounts' \in [UserIds -> Columns \cup {None}]
    <3> HIDE DEF new
    <3>1. QED  BY <2>1, <2>2, <2>3, AccountsKeep
  <2>5. \A i \in RowIds : rows'[i] # None =>
            /\ rows[i] # None /\ rows[i] \in Links /\ rows'[i] \in Links
            /\ rows'[i].owner = rows[i].owner /\ rows'[i].target = rows[i].target
            /\ rows'[i].user \in {rows[i].owner, rows[i].user, None}
    BY <1>1, <2>1, SavedRows
  <2>6. rows' \in [RowIds -> Links \cup {None}]
    <3>1. rows' = [i \in RowIds |-> rows'[i]]
      BY <2>1
    <3>2. \A i \in RowIds : rows'[i] \in Links \cup {None}
      BY <2>5
    <3>3. QED  BY <3>1, <3>2
  <2>7. TypeOK' /\ call' = [call EXCEPT ![c] = Idle]
    BY <1>1, <2>1, <2>4, <2>6, IdleFrame DEF Respond, UInv, TypeOK
  <2>8. RowsAreNumbered' /\ NoRowChangesHands'
    BY <1>1, <2>5 DEF UInv, RowsAreNumbered, NoRowChangesHands
  <2>9. lastRow <= lastRow' /\ lastRow' \in 0..MaxRows
    BY <1>1, UsersAssumption DEF UInv, TypeOK
  <2>10. (\A d \in Calls : FrameHolds(call[d]))'
    BY <2>5, <2>7, <2>9, RowsKeep
  <2>11. QED  BY <2>4, <2>7, <2>8, <2>10 DEF UInv
<1>4. QED  BY <1>2, <1>3

LEMMA InsertKeeps ==
    ASSUME UInv, NEW c \in Calls, Insert(c)
    PROVE  UInv'
<1>1. /\ call[c] \in AddFrames /\ UNCHANGED <<accounts, available>>
      /\ lastRow \in 0..MaxRows /\ lastRow < MaxRows /\ lastRow' = lastRow + 1
      /\ call' = [call EXCEPT ![c] = Idle] /\ answer' = "2xx"
  BY FramesByPlace DEF Insert, Respond, UInv, TypeOK
<1>2. PICK row \in Links : /\ row.user = row.owner
                           /\ rows' = [rows EXCEPT ![lastRow + 1] = row]
  BY <1>1 DEF Insert, AddFrames, Links
<1>3. /\ lastRow + 1 \in RowIds /\ lastRow' \in 0..MaxRows /\ lastRow <= lastRow'
      /\ lastRow + 1 > lastRow /\ lastRow \in Int
  BY <1>1, UsersAssumption DEF RowIds
<1>4. \A i \in RowIds : rows'[i] = IF i = lastRow + 1 THEN row ELSE rows[i]
  BY <1>2 DEF UInv, TypeOK
<1>5. TypeOK'
  BY <1>1, <1>2, <1>3, IdleFrame DEF UInv, TypeOK
<1>6. RowsAreNumbered'
  <2> SUFFICES ASSUME NEW i \in RowIds, rows'[i] # None PROVE i <= lastRow'
    BY DEF RowsAreNumbered
  <2>1. i \in Int
    BY UsersAssumption DEF RowIds
  <2>2. QED  BY <1>1, <1>3, <1>4, <2>1 DEF UInv, RowsAreNumbered
<1>7. NoRowChangesHands'
  BY <1>2, <1>4 DEF UInv, NoRowChangesHands
<1>8. \A i \in RowIds : rows'[i] # None => i > lastRow \/
            (rows[i] # None /\ rows'[i].owner = rows[i].owner
                            /\ rows'[i].target = rows[i].target)
  BY <1>3, <1>4
<1>9. (\A d \in Calls : FrameHolds(call[d]))'
  BY <1>1, <1>3, <1>8, RowsKeep
<1>10. EmailsDiffer'
  BY <1>1 DEF UInv, EmailsDiffer, Registered
<1>11. QED  BY <1>5, <1>6, <1>7, <1>9, <1>10 DEF UInv

LEMMA RemoveDeleteKeeps ==
    ASSUME UInv, NEW c \in Calls, RemoveDelete(c)
    PROVE  UInv'
<1>1. /\ call[c] \in DeleteFrames /\ UNCHANGED <<accounts, lastRow, available>>
      /\ rows' = [rows EXCEPT ![call[c].row] = None]
      /\ call' = [call EXCEPT ![c] = Idle] /\ answer' = "2xx"
  BY FramesByPlace DEF RemoveDelete, Respond, UInv, TypeOK
<1>2. \A i \in RowIds : rows'[i] = rows[i] \/ rows'[i] = None
  BY <1>1 DEF UInv, TypeOK
<1>3. TypeOK'
  BY <1>1, IdleFrame DEF UInv, TypeOK
<1>4. EmailsDiffer' /\ RowsAreNumbered' /\ NoRowChangesHands'
  BY <1>1, <1>2 DEF UInv, EmailsDiffer, Registered, RowsAreNumbered, NoRowChangesHands
<1>5. lastRow <= lastRow' /\ lastRow' \in 0..MaxRows
  BY <1>1, UsersAssumption DEF UInv, TypeOK
<1>6. (\A d \in Calls : FrameHolds(call[d]))'
  BY <1>1, <1>2, <1>5, RowsKeep
<1>7. QED  BY <1>3, <1>4, <1>6 DEF UInv

LEMMA TablesStand ==
    ASSUME UInv, UNCHANGED <<accounts, rows, lastRow, call>>,
           available' \in SUBSET Competitions, answer' \in {None, "2xx", "4xx", "5xx"}
    PROVE  UInv'
BY DEF UInv, TypeOK, EmailsDiffer, Registered, RowsAreNumbered, NoRowChangesHands, FrameHolds
-----------------------------------------------------------------------------
(* The theorems.                                                           *)

LEMMA InitUInv == Init => UInv
<1> SUFFICES ASSUME Init PROVE UInv
  OBVIOUS
<1>1. lastRow \in 0..MaxRows
  BY UsersAssumption DEF Init
<1>2. TypeOK
  BY <1>1, IdleFrame DEF Init, TypeOK
<1>3. EmailsDiffer /\ RowsAreNumbered /\ NoRowChangesHands
  BY DEF Init, EmailsDiffer, Registered, RowsAreNumbered, NoRowChangesHands
<1>4. \A c \in Calls : FrameHolds(call[c])
  BY IdleFrame DEF Init
<1>5. QED  BY <1>2, <1>3, <1>4 DEF UInv

LEMMA StepUInv == UInv /\ [Next]_vars => UInv'
<1> SUFFICES ASSUME UInv, [Next]_vars PROVE UInv'
  OBVIOUS
<1>1. CASE \E c \in Calls, e \in Emails, p \in Passwords :
                SignupFind(c, e, p) \/ SigninFind(c, e, p)
  BY <1>1, AccountMoveKeeps
<1>2. CASE \E c \in Calls, u \in UserIds, a \in Patches : PatchRead(c, u, a)
  BY <1>2, PatchReadKeeps
<1>3. CASE \E c \in Calls, u \in UserIds, t \in Targets :
                AddCheck(c, u, t) \/ RemoveRead(c, u, t)
  BY <1>3, LinkMoveKeeps
<1>4. ASSUME NEW c \in Calls, SignupSave(c) \/ SigninCompare(c) \/ PatchSave(c)
                              \/ AddFetch(c) \/ Insert(c) \/ RemoveDelete(c)
      PROVE  UInv'
  BY <1>4, SignupSaveKeeps, CompareKeeps, PatchSaveKeeps, AddFetchKeeps, InsertKeeps,
     RemoveDeleteKeeps
<1>5. CASE ChangeAvailable
  BY <1>5, TablesStand DEF ChangeAvailable
<1>6. CASE UNCHANGED vars
  BY <1>6, TablesStand DEF vars, UInv, TypeOK
<1>7. QED  BY <1>1, <1>2, <1>3, <1>4, <1>5, <1>6 DEF Next

\* The invariant is inductive.
THEOREM UsersInvariance == Spec => []UInv
BY InitUInv, StepUInv, PTL DEF Spec

\* Every table and every request under way keeps its type.
THEOREM UsersTypeCorrect == Spec => []TypeOK
BY UsersInvariance, PTL DEF UInv

\* No two accounts have one address, however sign-ups and PATCHes interleave.
THEOREM EmailsStayUnique == Spec => []EmailsAreUnique
<1>1. UInv => EmailsAreUnique
  <2> SUFFICES ASSUME UInv, NEW e \in Emails PROVE Cardinality(WithEmail(e)) <= 1
    BY DEF EmailsAreUnique
  <2>1. CASE WithEmail(e) = {}
    BY <2>1, FS_EmptySet
  <2>2. ASSUME NEW u \in WithEmail(e)
        PROVE  Cardinality(WithEmail(e)) <= 1
    <3>1. WithEmail(e) = {u}
      BY <2>2 DEF UInv, EmailsDiffer, WithEmail
    <3>2. Cardinality({u}) = 1
      BY FS_Singleton
    <3>3. QED  BY <3>1, <3>2
  <2>3. QED  BY <2>1, <2>2
<1>2. QED  BY <1>1, UsersInvariance, PTL

\* No link is ever handed from one user to another.
THEOREM RowsStayInHand == Spec => []NoRowChangesHands
BY UsersInvariance, PTL DEF UInv

\* The row that a DELETE has read is still that user's, for that target, when it
\* is deleted by its number.
THEOREM DeletesAreSafe == Spec => []DeletesHitTheirTarget
<1>1. UInv => DeletesHitTheirTarget
  BY DEF UInv, FrameHolds, DeletesHitTheirTarget
<1>2. QED  BY <1>1, UsersInvariance, PTL

\* A link goes away only by a DELETE of its target, or by the save of a PATCH
\* that had read the user before the link was made.
THEOREM LostOnlyToRaces == Spec => LinksAreLostOnlyToRaces
<1> DEFINE Culprit(c, u, t) ==
        /\ call[c].at \in {"delete", "patch"} /\ call'[c] = Idle
        /\ call[c].user = u
        /\ call[c].at = "delete" => call[c].target = t
        /\ call[c].at = "patch" =>
            \A i \in RowsOf(u) : rows[i].target = t => i \notin call[c].links
<1>1. ASSUME UInv, Next, NEW u \in UserIds, NEW t \in Targets, Linked(u, t), ~Linked(u, t)'
      PROVE  \E c \in Calls : Culprit(c, u, t)
  <2>1. PICK i \in RowsOf(u) : rows[i].target = t
    BY <1>1 DEF Linked
  <2>2. i \in RowIds /\ rows[i] # None /\ rows[i].owner = u /\ rows[i].user = u
    BY <1>1, <2>1, OwnRows DEF RowsOf
  <2>3. \A j \in RowIds : rows'[j] # None /\ rows'[j].target = t => rows'[j].user # u
    BY <1>1 DEF Linked, RowsOf
  <2>4. CASE UNCHANGED rows
    BY <2>1, <2>2, <2>3, <2>4
  <2>5. ASSUME NEW c \in Calls, Insert(c)
        PROVE  FALSE
    <3>1. lastRow \in 0..MaxRows /\ lastRow \in Int /\ i <= lastRow /\ i \in Int
      BY <1>1, <2>2, UsersAssumption DEF UInv, TypeOK, RowsAreNumbered, RowIds
    <3>2. rows'[i] = rows[i]
      BY <1>1, <2>2, <2>5, <3>1 DEF Insert, UInv, TypeOK
    <3>3. QED  BY <2>1, <2>2, <2>3, <3>2
  <2>6. ASSUME NEW c \in Calls, RemoveDelete(c)
        PROVE  Culprit(c, u, t)
    <3>1. /\ call[c].at = "delete" /\ call'[c] = Idle /\ FrameHolds(call[c])
          /\ rows' = [rows EXCEPT ![call[c].row] = None]
      BY <1>1, <2>6 DEF RemoveDelete, Respond, UInv, TypeOK
    <3>2. i = call[c].row
      BY <1>1, <2>1, <2>2, <2>3, <3>1 DEF UInv, TypeOK
    <3>3. call[c].user = u /\ call[c].target = t
      BY <2>1, <2>2, <3>1, <3>2 DEF FrameHolds
    <3>4. QED  BY <3>1, <3>3
  <2>7. ASSUME NEW c \in Calls, PatchSave(c), ~UNCHANGED rows
        PROVE  Culprit(c, u, t)
    <3> DEFINE Saved(j) ==
            IF rows[j] = None THEN None
            ELSE IF j \in call[c].links THEN [rows[j] EXCEPT !.user = call[c].user]
            ELSE IF rows[j].user = call[c].user THEN [rows[j] EXCEPT !.user = None]
            ELSE rows[j]
    <3>1. /\ call[c].at = "patch" /\ call'[c] = Idle /\ FrameHolds(call[c])
          /\ rows' = [j \in RowIds |-> Saved(j)]
      BY <1>1, <2>7 DEF PatchSave, Respond, UInv, TypeOK
    <3>2. ASSUME NEW j \in RowsOf(u), rows[j].target = t
          PROVE  j \notin call[c].links /\ call[c].user = u
      <4>1. j \in RowIds /\ rows[j] # None /\ rows[j] \in Links
            /\ rows[j].owner = u /\ rows[j].user = u
        BY <1>1, OwnRows DEF RowsOf, UInv, TypeOK
      <4>2. ASSUME j \in call[c].links
            PROVE  FALSE
        <5>1. rows'[j] = [rows[j] EXCEPT !.user = call[c].user] /\ call[c].user = u
          BY <3>1, <4>1, <4>2 DEF FrameHolds
        <5>2. rows'[j] = rows[j]
          BY <4>1, <5>1 DEF Links
        <5>3. QED  BY <2>3, <3>2, <4>1, <5>2
      <4>3. call[c].user = u
        <5>1. CASE rows[j].user # call[c].user
          BY <2>3, <3>1, <3>2, <4>1, <4>2, <5>1
        <5>2. QED  BY <4>1, <5>1
      <4>4. QED  BY <4>2, <4>3
    <3>3. QED  BY <2>1, <3>1, <3>2
  <2>8. QED
    BY <1>1, <2>4, <2>5, <2>6, <2>7
    DEF Next, SignupFind, SigninFind, PatchRead, AddCheck, RemoveRead, SignupSave,
        SigninCompare, AddFetch, ChangeAvailable
<1>2. UInv /\ [Next]_vars =>
        [\A u \in UserIds, t \in Targets :
            Linked(u, t) /\ ~Linked(u, t)' => \E c \in Calls : Culprit(c, u, t)]_vars
  BY <1>1
<1>3. QED  BY <1>2, UsersInvariance, PTL DEF Spec, LinksAreLostOnlyToRaces
=============================================================================
