------------------------------- MODULE Accounts -------------------------------
(***************************************************************************)
(* Users and their sessions: POST /users/register (create_user),           *)
(* /auth/login, /auth/refresh and /auth/logout, called by any number of    *)
(* requests at once, each with a database session of its own.  Every await *)
(* on the database is a step; PostgreSQL reads committed rows, and an      *)
(* INSERT waits for another transaction that has inserted the same unique  *)
(* key and is not over.                                                    *)
(*                                                                         *)
(* A password is right or wrong, a user has the default role or not.  The  *)
(* column deleted_at is left out: nothing in the application sets it.      *)
(***************************************************************************)
EXTENDS Integers, FiniteSets

CONSTANTS
    Request,    \* HTTP requests that may be in progress together
    Name,       \* user names
    Token,      \* what create_refresh_token may return, never twice
    Seeded,     \* whether the role DEFAULT_ROLE_NAME exists
    Crashes,    \* whether a request may be cancelled, or its connection lost
    NoName, NoRow,
    UnknownToken    \* a token that was never issued

ASSUME SeededAssumption == Seeded \in BOOLEAN
ASSUME CrashesAssumption == Crashes \in BOOLEAN
ASSUME NoNameAssumption == NoName \notin Name

RefreshToken == [owner : Name, revoked : BOOLEAN, expired : BOOLEAN]
ASSUME NoRowAssumption == NoRow \notin RefreshToken /\ UnknownToken \notin Token

VARIABLES
    users,      \* [Name -> how the committed tables know the user]    users, user_role
    tokens,     \* [Token -> RefreshToken or NoRow]                    refresh_tokens
    pc, kind, name, right, presented,   \* the requests
    answer,     \* the last answer of a request
    created,    \* history: how many registrations of a name have succeeded
    unused,     \* history: tokens that were issued and never presented
    spent,      \* history: tokens whose refresh or logout was answered
    late        \* history: requests under way with a token spent before

tables == <<users, tokens>>
arguments == <<kind, name, right, presented>>
histories == <<created, unused, spent, late>>
vars == <<tables, pc, arguments, answer, histories>>

Init ==
    /\ users = [n \in Name |-> "absent"] /\ tokens = [t \in Token |-> NoRow]
    /\ pc = [p \in Request |-> "idle"] /\ kind = [p \in Request |-> "none"]
    /\ name = [p \in Request |-> NoName] /\ right = [p \in Request |-> FALSE]
    /\ presented = [p \in Request |-> UnknownToken]
    /\ answer = [p \in Request |-> "none"]
    /\ created = [n \in Name |-> 0] /\ unused = {} /\ spent = {} /\ late = {}

Goto(p, label) == pc' = [pc EXCEPT ![p] = label]

\* The request is over, and so is its session: what it has not committed is gone.
Answer(p, reply) ==
    /\ Goto(p, "idle")
    /\ answer' = [answer EXCEPT ![p] = reply]
    /\ kind' = [kind EXCEPT ![p] = "none"] /\ name' = [name EXCEPT ![p] = NoName]
    /\ right' = [right EXCEPT ![p] = FALSE]
    /\ presented' = [presented EXCEPT ![p] = UnknownToken]
    /\ late' = late \ {p}

--------------------------------------------------------------------------------
(* create_user *)

Register(p, n) ==
    /\ pc[p] = "idle"
    /\ Goto(p, "lookup")
    /\ kind' = [kind EXCEPT ![p] = "register"]
    /\ name' = [name EXCEPT ![p] = n]
    /\ UNCHANGED <<tables, right, presented, answer, histories>>

AlreadyExists(p) ==
    /\ pc[p] = "lookup" /\ users[name[p]] # "absent"
    /\ Answer(p, "conflict")
    /\ UNCHANGED <<tables, created, unused, spent>>

NameIsFree(p) ==
    /\ pc[p] = "lookup" /\ users[name[p]] = "absent"
    /\ Goto(p, "insert")
    /\ UNCHANGED <<tables, arguments, answer, histories>>

\* Another transaction has inserted the name and is not over.
Inserting(n) == \E q \in Request : pc[q] = "inserted" /\ name[q] = n

\* Mutation: the transaction is committed instead of flushed.
CommittedEarly(n) == [users EXCEPT ![n] = "bare"]

\* What the other transactions see of the user once it is flushed: nothing.
VisibleAfterFlush(n) == users

\* Mutation: the name is not unique.
InsertAnyway(p) ==
    /\ pc[p] = "insert"
    /\ users' = VisibleAfterFlush(name[p])
    /\ Goto(p, "inserted")
    /\ UNCHANGED <<tokens, arguments, answer, histories>>

InsertUser(p) ==
    /\ pc[p] = "insert" /\ users[name[p]] = "absent" /\ ~Inserting(name[p])
    /\ users' = VisibleAfterFlush(name[p])
    /\ Goto(p, "inserted")
    /\ UNCHANGED <<tokens, arguments, answer, histories>>

\* The unique key of users: an IntegrityError, which no exception handler knows.
InsertFails(p) ==
    /\ pc[p] = "insert" /\ users[name[p]] # "absent"
    /\ Answer(p, "server_error")
    /\ UNCHANGED <<tables, created, unused, spent>>

\* The default role is looked up and given, and all of it committed.
CommitUser(p) ==
    /\ pc[p] = "inserted"
    /\ users' = [users EXCEPT ![name[p]] = IF Seeded THEN "member" ELSE "bare"]
    /\ created' = [created EXCEPT ![name[p]] = @ + 1]
    /\ Answer(p, "created")
    /\ UNCHANGED <<tokens, unused, spent>>

--------------------------------------------------------------------------------
(* login_user *)

Issuing == {p \in Request : pc[p] \in {"credentials", "validate", "revoke", "issue"}}
\* Bound: no more sessions are asked for than Token has values left.
TokensLeft == Cardinality(Issuing) < Cardinality({t \in Token : tokens[t] = NoRow})

LogIn(p, n, ok) ==
    /\ pc[p] = "idle" /\ TokensLeft
    /\ Goto(p, "credentials")
    /\ kind' = [kind EXCEPT ![p] = "login"]
    /\ name' = [name EXCEPT ![p] = n] /\ right' = [right EXCEPT ![p] = ok]
    /\ UNCHANGED <<tables, presented, answer, histories>>

Known(p) == users[name[p]] # "absent" /\ right[p]

InvalidCredentials(p) ==
    /\ pc[p] = "credentials" /\ ~Known(p)
    /\ Answer(p, "unauthorized")
    /\ UNCHANGED <<tables, created, unused, spent>>

Recognise(p) ==
    /\ pc[p] = "credentials" /\ Known(p)
    /\ Goto(p, "issue")
    /\ UNCHANGED <<tables, arguments, answer, histories>>

\* A refresh token is stored, committed and answered, by login and by refresh.
IssueToken(p) ==
    /\ pc[p] = "issue"
    /\ \E t \in Token :
        /\ tokens[t] = NoRow
        /\ tokens' = [tokens EXCEPT ![t] =
              [owner |-> name[p], revoked |-> FALSE, expired |-> FALSE]]
        /\ unused' = unused \cup {t}
    /\ spent' = IF kind[p] = "refresh" THEN spent \cup {presented[p]} ELSE spent
    /\ Answer(p, "session")
    /\ UNCHANGED <<users, created>>

--------------------------------------------------------------------------------
(* refresh_access_token and logout_user *)

Present(p, k, t) ==
    /\ pc[p] = "idle" /\ (k = "refresh" => TokensLeft)
    /\ t # UnknownToken => tokens[t] # NoRow
    /\ Goto(p, "validate")
    /\ kind' = [kind EXCEPT ![p] = k]
    /\ name' = [name EXCEPT ![p] = NoName]
    /\ presented' = [presented EXCEPT ![p] = t]
    /\ unused' = unused \ {t}
    /\ late' = IF t \in spent THEN late \cup {p} ELSE late \ {p}
    /\ UNCHANGED <<tables, right, answer, created, spent>>

\* The row of the token, if there is one.
Stored(p) == IF presented[p] = UnknownToken THEN NoRow ELSE tokens[presented[p]]

\* Mutation: only the expiry of a stored token is looked at.
Unexpired(p) == Stored(p) # NoRow /\ ~Stored(p).expired

Valid(p) == Stored(p) # NoRow /\ ~Stored(p).revoked /\ ~Stored(p).expired

InvalidToken(p) ==
    /\ pc[p] = "validate" /\ ~Valid(p)
    /\ Answer(p, "unauthorized")
    /\ UNCHANGED <<tables, created, unused, spent>>

Owner(p) == Stored(p).owner

Validate(p) ==
    /\ pc[p] = "validate" /\ Valid(p)
    /\ name' = [name EXCEPT ![p] = Owner(p)]
    /\ Goto(p, "revoke")
    /\ UNCHANGED <<tables, kind, right, presented, answer, histories>>

\* Mutation: every session of the user ends.
RevokedForOwner(p) ==
    [t \in Token |-> IF tokens[t] # NoRow /\ tokens[t].owner = name[p]
                     THEN [tokens[t] EXCEPT !.revoked = TRUE] ELSE tokens[t]]

Revoked(p) == [tokens EXCEPT ![presented[p]].revoked = TRUE]

\* One transaction of two: the successor of a refreshed token is stored by the next.
Revoke(p) ==
    /\ pc[p] = "revoke"
    /\ tokens' = Revoked(p)
    /\ IF kind[p] = "logout"
       THEN Answer(p, "logged_out") /\ spent' = spent \cup {presented[p]}
       ELSE Goto(p, "issue") /\ UNCHANGED <<arguments, answer, spent, late>>
    /\ UNCHANGED <<users, created, unused>>

--------------------------------------------------------------------------------

\* The request is cancelled or the process dies, or only the reply is lost.
Lose(p) ==
    /\ Crashes /\ (pc[p] # "idle" \/ answer[p] # "lost")
    /\ Answer(p, "lost")
    /\ UNCHANGED <<tables, created, unused, spent>>

\* REFRESH_TOKEN_EXPIRE_DAYS have passed.
Expire(t) ==
    /\ tokens[t] # NoRow
    /\ tokens' = [tokens EXCEPT ![t].expired = TRUE]
    /\ UNCHANGED <<users, pc, arguments, answer, histories>>

Next ==
    \/ \E p \in Request :
        \/ \E n \in Name : Register(p, n) \/ (\E ok \in BOOLEAN : LogIn(p, n, ok))
        \/ \E k \in {"refresh", "logout"}, t \in Token \cup {UnknownToken} : Present(p, k, t)
        \/ AlreadyExists(p) \/ NameIsFree(p) \/ InsertUser(p) \/ InsertFails(p) \/ CommitUser(p)
        \/ InvalidCredentials(p) \/ Recognise(p) \/ IssueToken(p)
        \/ InvalidToken(p) \/ Validate(p) \/ Revoke(p) \/ Lose(p)
    \/ \E t \in Token : Expire(t)

Spec == Init /\ [][Next]_vars

--------------------------------------------------------------------------------
(* Properties *)

Locations == {"idle", "lookup", "insert", "inserted", "credentials", "validate", "revoke",
              "issue"}
Kinds == {"none", "register", "login", "refresh", "logout"}
Answers == {"none", "created", "conflict", "server_error", "session", "logged_out",
            "unauthorized", "lost"}

\* Every variable has its type.
TypeOK ==
    /\ users \in [Name -> {"absent", "bare", "member"}]
    /\ tokens \in [Token -> RefreshToken \cup {NoRow}]
    /\ pc \in [Request -> Locations] /\ kind \in [Request -> Kinds]
    /\ name \in [Request -> Name \cup {NoName}] /\ right \in [Request -> BOOLEAN]
    /\ presented \in [Request -> Token \cup {UnknownToken}]
    /\ answer \in [Request -> Answers]
    /\ created \in [Name -> Nat]
    /\ unused \subseteq Token /\ spent \subseteq Token /\ late \subseteq Request

\* However many registrations of a name overlap, one of them succeeds: what the lookup of
\* user.py:25 cannot see, the unique key stops at user.py:34.
OneAccountPerName == \A n \in Name : created[n] <= 1

\* No failure leaves a user behind without the default role (user.py:33-40), which nothing
\* would give later: user and role are one transaction.
RoleGranted == Seeded => \A n \in Name : users[n] # "bare"

\* After the answer to a refresh or a logout, no later request succeeds with the same token
\* (auth.py:71), however the two commits of refreshes interleave.
SpentStaysSpent == \A p \in late : pc[p] \notin {"revoke", "issue"}

\* A token that was issued is good until it is presented or expires: no request made with
\* other tokens, of the same user too, revokes it (auth.py:78).
UnusedStaysGood == \A t \in unused : tokens[t] # NoRow /\ ~tokens[t].revoked

\* A name that is taken is answered with a conflict (tests/routers/test_user.py:26), never
\* with an internal error.
DuplicateIsConflict == \A p \in Request : answer[p] # "server_error"
================================================================================
