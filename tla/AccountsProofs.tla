---------------------------- MODULE AccountsProofs ----------------------------
(***************************************************************************)
(* Proofs about Accounts: its types, the uniqueness of accounts and the    *)
(* fate of refresh tokens, for any number of requests, names and tokens.   *)
(***************************************************************************)
EXTENDS Accounts, TLAPS

\* What a request has established when it is at a location.
LocationInv ==
    \A p \in Request :
        /\ pc[p] \in {"lookup", "insert", "inserted", "credentials", "revoke", "issue"} =>
             name[p] \in Name
        /\ pc[p] = "credentials" => kind[p] = "login"
        /\ pc[p] = "revoke" \/ (pc[p] = "issue" /\ kind[p] = "refresh") =>
             presented[p] # UnknownToken
        /\ presented[p] # UnknownToken => presented[p] \in Token /\ tokens[presented[p]] # NoRow

Typed == TypeOK /\ LocationInv

\* The actions of a request at a name, and those that concern tokens.
Registering(p) ==
    \/ \E n \in Name : Register(p, n)
    \/ AlreadyExists(p) \/ NameIsFree(p) \/ InsertUser(p) \/ InsertFails(p)
LoggingIn(p) ==
    \/ \E n \in Name, ok \in BOOLEAN : LogIn(p, n, ok)
    \/ InvalidCredentials(p) \/ Recognise(p)
Presenting(p) ==
    \E k \in {"refresh", "logout"}, t \in Token \cup {UnknownToken} : Present(p, k, t)

LEMMA Steps ==
    ASSUME [Next]_vars
    PROVE  \/ \E p \in Request :
                \/ Registering(p) \/ CommitUser(p) \/ LoggingIn(p) \/ IssueToken(p)
                \/ Presenting(p) \/ InvalidToken(p) \/ Validate(p) \/ Revoke(p) \/ Lose(p)
           \/ \E t \in Token : Expire(t)
           \/ UNCHANGED vars
BY DEF Next, Registering, LoggingIn, Presenting

--------------------------------------------------------------------------------
(* Types *)

\* What storing a row of refresh_tokens does.
LEMMA TokenStored ==
    ASSUME TypeOK, NEW t \in Token, NEW row \in RefreshToken, tokens' = [tokens EXCEPT ![t] = row]
    PROVE  /\ tokens' \in [Token -> RefreshToken \cup {NoRow}]
           /\ tokens'[t] = row /\ row # NoRow
           /\ \A u \in Token : u # t => tokens'[u] = tokens[u]
BY NoRowAssumption DEF TypeOK

\* The row with which a token is revoked, and the one with which it expires.
LEMMA RowRevoked ==
    ASSUME NEW row \in RefreshToken
    PROVE  [row EXCEPT !.revoked = TRUE] \in RefreshToken /\ [row EXCEPT !.revoked = TRUE].revoked
BY DEF RefreshToken

LEMMA RowExpired ==
    ASSUME NEW row \in RefreshToken
    PROVE  /\ [row EXCEPT !.expired = TRUE] \in RefreshToken
           /\ [row EXCEPT !.expired = TRUE].revoked = row.revoked
BY DEF RefreshToken

\* The row that a login or a refresh stores.
LEMMA RowIssued ==
    ASSUME NEW n \in Name
    PROVE  /\ [owner |-> n, revoked |-> FALSE, expired |-> FALSE] \in RefreshToken
           /\ ~[owner |-> n, revoked |-> FALSE, expired |-> FALSE].revoked
BY DEF RefreshToken

\* The two actions of a request that write tokens, as updates of one row.
LEMMA IssueWrites ==
    ASSUME NEW p \in Request, IssueToken(p)
    PROVE  \E t \in Token :
             /\ tokens[t] = NoRow /\ unused' = unused \cup {t}
             /\ tokens' = [tokens EXCEPT ![t] =
                   [owner |-> name[p], revoked |-> FALSE, expired |-> FALSE]]
BY DEF IssueToken

LEMMA RevokeWrites ==
    ASSUME Typed, NEW p \in Request, Revoke(p)
    PROVE  /\ presented[p] \in Token /\ tokens[presented[p]] \in RefreshToken
           /\ tokens' = [tokens EXCEPT ![presented[p]] =
                 [tokens[presented[p]] EXCEPT !.revoked = TRUE]]
<1>1. presented[p] \in Token /\ tokens[presented[p]] \in RefreshToken
  BY DEF Revoke, Typed, TypeOK, LocationInv
<1>2. tokens' = [tokens EXCEPT ![presented[p]] = [tokens[presented[p]] EXCEPT !.revoked = TRUE]]
  BY DEF Revoke, Revoked
<1> QED
  BY <1>1, <1>2

\* What an answer leaves of a request.
LEMMA Answered ==
    ASSUME TypeOK, NEW p \in Request, NEW reply \in Answers, Answer(p, reply)
    PROVE  /\ pc' \in [Request -> Locations] /\ kind' \in [Request -> Kinds]
           /\ name' \in [Request -> Name \cup {NoName}] /\ right' \in [Request -> BOOLEAN]
           /\ presented' \in [Request -> Token \cup {UnknownToken}]
           /\ answer' \in [Request -> Answers] /\ late' \subseteq Request
           /\ pc'[p] = "idle" /\ presented'[p] = UnknownToken /\ late' = late \ {p}
           /\ \A q \in Request : q # p =>
                /\ pc'[q] = pc[q] /\ kind'[q] = kind[q]
                /\ name'[q] = name[q] /\ presented'[q] = presented[q]
BY DEF TypeOK, Answer, Goto, Locations, Kinds

LEMMA TypingStep == ASSUME Typed, [Next]_vars PROVE Typed'
<1> USE NoRowAssumption DEF Typed, TypeOK, LocationInv, Goto, tables, arguments, histories,
    Locations, Kinds, Answers
<1>1. ASSUME NEW p \in Request, Registering(p) PROVE Typed'
  <2>1. CASE \E n \in Name : Register(p, n)
    BY <2>1 DEF Register
  <2>2. CASE AlreadyExists(p) \/ InsertFails(p)
    BY <2>2, Answered DEF AlreadyExists, InsertFails
  <2>3. CASE NameIsFree(p) \/ InsertUser(p)
    BY <2>3 DEF NameIsFree, InsertUser, VisibleAfterFlush
  <2> QED
    BY <1>1, <2>1, <2>2, <2>3 DEF Registering
<1>2. ASSUME NEW p \in Request, CommitUser(p) PROVE Typed'
  BY <1>2, Answered DEF CommitUser
<1>3. ASSUME NEW p \in Request, LoggingIn(p) PROVE Typed'
  <2>1. CASE \E n \in Name, ok \in BOOLEAN : LogIn(p, n, ok)
    BY <2>1 DEF LogIn
  <2>2. CASE InvalidCredentials(p)
    BY <2>2, Answered DEF InvalidCredentials
  <2>3. CASE Recognise(p)
    BY <2>3 DEF Recognise
  <2> QED
    BY <1>3, <2>1, <2>2, <2>3 DEF LoggingIn
<1>4. ASSUME NEW p \in Request, IssueToken(p) PROVE Typed'
  <2>1. PICK t \in Token :
          /\ unused' = unused \cup {t}
          /\ tokens' = [tokens EXCEPT ![t] =
                [owner |-> name[p], revoked |-> FALSE, expired |-> FALSE]]
    BY <1>4, IssueWrites
  <2>2. name[p] \in Name
    BY <1>4, Answered DEF IssueToken
  <2>3. /\ tokens' \in [Token -> RefreshToken \cup {NoRow}]
        /\ \A u \in Token : tokens[u] # NoRow => tokens'[u] # NoRow
    BY <2>1, <2>2, RowIssued, TokenStored
  <2>4. TypeOK'
    BY <1>4, <2>1, <2>3, Answered DEF IssueToken
  <2>5. LocationInv'
    BY <1>4, <2>3, Answered DEF IssueToken
  <2> QED
    BY <2>4, <2>5
<1>5. ASSUME NEW p \in Request, Presenting(p) PROVE Typed'
  BY <1>5 DEF Presenting, Present
<1>6. ASSUME NEW p \in Request, InvalidToken(p) PROVE Typed'
  BY <1>6, Answered DEF InvalidToken
<1>7. ASSUME NEW p \in Request, Validate(p) PROVE Typed'
  <2>1. presented[p] \in Token /\ tokens[presented[p]] \in RefreshToken
    BY <1>7 DEF Validate, Valid, Stored
  <2>2. Owner(p) \in Name
    BY <2>1 DEF Owner, Stored, RefreshToken
  <2> QED
    BY <1>7, <2>1, <2>2 DEF Validate
<1>8. ASSUME NEW p \in Request, Revoke(p) PROVE Typed'
  <2>1. /\ tokens' \in [Token -> RefreshToken \cup {NoRow}]
        /\ \A u \in Token : tokens[u] # NoRow => tokens'[u] # NoRow
    BY <1>8, RevokeWrites, RowRevoked, TokenStored
  <2>2. presented[p] \in Token
    BY <1>8, RevokeWrites
  <2>3. TypeOK'
    BY <1>8, <2>1, <2>2, Answered DEF Revoke
  <2>4. LocationInv'
    BY <1>8, <2>1, <2>2, Answered DEF Revoke
  <2> QED
    BY <2>3, <2>4
<1>9. ASSUME NEW p \in Request, Lose(p) PROVE Typed'
  BY <1>9, Answered DEF Lose
<1>10. ASSUME NEW t \in Token, Expire(t) PROVE Typed'
  <2>1. tokens[t] \in RefreshToken /\ tokens' = [tokens EXCEPT ![t] = [tokens[t] EXCEPT !.expired = TRUE]]
    BY <1>10 DEF Expire
  <2>2. /\ tokens' \in [Token -> RefreshToken \cup {NoRow}]
        /\ \A u \in Token : tokens[u] # NoRow => tokens'[u] # NoRow
    BY <2>1, RowExpired, TokenStored
  <2>3. TypeOK'
    BY <1>10, <2>2 DEF Expire
  <2>4. LocationInv'
    BY <1>10, <2>2 DEF Expire
  <2> QED
    BY <2>3, <2>4
<1>11. CASE UNCHANGED vars
  BY <1>11 DEF vars
<1> QED
  BY Steps, <1>1, <1>2, <1>3, <1>4, <1>5, <1>6, <1>7, <1>8, <1>9, <1>10, <1>11

LEMMA TypedInitially == Init => Typed
BY NoNameAssumption DEF Init, Typed, TypeOK, LocationInv, Locations, Kinds, Answers

\* The variables keep their types; an issued token always belongs to a user name.
THEOREM Typing == Spec => []TypeOK
<1>1. Typed => TypeOK
  BY DEF Typed
<1> QED
  BY TypedInitially, TypingStep, <1>1, PTL DEF Spec

--------------------------------------------------------------------------------
(* Accounts *)

\* A registration has succeeded exactly for the names that are taken, and a name that is
\* being inserted is not taken and is inserted by one request.
NamesInv ==
    /\ \A n \in Name : created[n] = IF users[n] = "absent" THEN 0 ELSE 1
    /\ \A p \in Request : pc[p] = "inserted" =>
         /\ users[name[p]] = "absent"
         /\ \A q \in Request : pc[q] = "inserted" /\ name[q] = name[p] => q = p
    /\ RoleGranted

LEMMA NamesStep == ASSUME Typed, NamesInv, [Next]_vars PROVE NamesInv'
<1> USE DEF Answers, Typed, TypeOK, LocationInv, NamesInv, RoleGranted, Goto, tables, arguments,
    histories
<1>1. ASSUME NEW p \in Request, Registering(p) PROVE NamesInv'
  <2>1. CASE InsertUser(p)
    BY <2>1 DEF InsertUser, VisibleAfterFlush, Inserting
  <2> QED
    BY <1>1, <2>1, Answered DEF Registering, Register, AlreadyExists, NameIsFree, InsertFails
<1>2. ASSUME NEW p \in Request, CommitUser(p) PROVE NamesInv'
  BY <1>2, Answered DEF CommitUser
<1>3. ASSUME NEW p \in Request, LoggingIn(p) PROVE NamesInv'
  BY <1>3, Answered DEF LoggingIn, LogIn, InvalidCredentials, Recognise
<1>4. ASSUME NEW p \in Request, IssueToken(p) \/ Revoke(p) PROVE NamesInv'
  BY <1>4, Answered DEF IssueToken, Revoke
<1>5. ASSUME NEW p \in Request, Presenting(p) PROVE NamesInv'
  BY <1>5 DEF Presenting, Present
<1>6. ASSUME NEW p \in Request, InvalidToken(p) \/ Validate(p) \/ Lose(p) PROVE NamesInv'
  BY <1>6, Answered DEF InvalidToken, Validate, Lose
<1>7. ASSUME NEW t \in Token, Expire(t) PROVE NamesInv'
  BY <1>7 DEF Expire
<1>8. CASE UNCHANGED vars
  BY <1>8 DEF vars
<1> QED
  BY Steps, <1>1, <1>2, <1>3, <1>4, <1>5, <1>6, <1>7, <1>8

\* However registrations overlap and fail, a name gets one account and no account lacks
\* the default role (create_user, user.py:24-42).
THEOREM OneAccountEach == Spec => [](OneAccountPerName /\ RoleGranted)
<1>1. Init => NamesInv
  BY DEF Init, NamesInv, RoleGranted
<1>2. Typed /\ NamesInv /\ [Next]_vars => (Typed /\ NamesInv)'
  BY TypingStep, NamesStep
<1>3. NamesInv => OneAccountPerName /\ RoleGranted
  BY DEF NamesInv, OneAccountPerName
<1> QED
  BY TypedInitially, <1>1, <1>2, <1>3, PTL DEF Spec

\* No failure leaves an account without the default role (user.py:33-40).
THEOREM RolesAreGranted == Spec => []RoleGranted
BY OneAccountEach, PTL

--------------------------------------------------------------------------------
(* Sessions *)

\* Spent tokens are revoked, and so is the token of a refresh between its two commits; a
\* request made late is not past its validation; unused tokens are good.
SessionInv ==
    /\ \A t \in spent : tokens[t] # NoRow /\ tokens[t].revoked
    /\ \A p \in Request : pc[p] = "issue" /\ kind[p] = "refresh" => tokens[presented[p]].revoked
    /\ \A p \in late : pc[p] = "validate" /\ presented[p] \in spent
    /\ \A p \in Request : presented[p] \notin unused
    /\ UnusedStaysGood

LEMMA SessionStep == ASSUME Typed, SessionInv, [Next]_vars PROVE SessionInv'
<1> USE NoRowAssumption DEF Answers, Typed, TypeOK, LocationInv, SessionInv, UnusedStaysGood, Goto,
    tables, arguments, histories
<1>1. ASSUME NEW p \in Request, Registering(p) PROVE SessionInv'
  BY <1>1, Answered DEF Registering, Register, AlreadyExists, NameIsFree, InsertUser, InsertFails
<1>2. ASSUME NEW p \in Request, CommitUser(p) PROVE SessionInv'
  BY <1>2, Answered DEF CommitUser
<1>3. ASSUME NEW p \in Request, LoggingIn(p) PROVE SessionInv'
  <2>1. CASE \E n \in Name, ok \in BOOLEAN : LogIn(p, n, ok)
    BY <2>1 DEF LogIn
  <2>2. CASE InvalidCredentials(p)
    BY <2>2, Answered DEF InvalidCredentials
  <2>3. CASE Recognise(p)
    BY <2>3 DEF Recognise
  <2> QED
    BY <1>3, <2>1, <2>2, <2>3 DEF LoggingIn
<1>4. ASSUME NEW p \in Request, IssueToken(p) PROVE SessionInv'
  <2>1. PICK t \in Token :
          /\ tokens[t] = NoRow /\ unused' = unused \cup {t}
          /\ tokens' = [tokens EXCEPT ![t] =
                [owner |-> name[p], revoked |-> FALSE, expired |-> FALSE]]
    BY <1>4, IssueWrites
  <2>2. name[p] \in Name
    BY <1>4, Answered DEF IssueToken
  <2>3. /\ tokens'[t] # NoRow /\ ~tokens'[t].revoked
        /\ \A u \in Token : u # t => tokens'[u] = tokens[u]
    BY <2>1, <2>2, RowIssued, TokenStored
  <2>4. \A q \in Request : presented'[q] \notin unused'
    BY <1>4, <2>1, Answered DEF IssueToken
  <2>5. \A u \in spent' : tokens'[u] # NoRow /\ tokens'[u].revoked
    BY <1>4, <2>1, <2>3, Answered DEF IssueToken
  <2>6. \A q \in Request : pc'[q] = "issue" /\ kind'[q] = "refresh" => tokens'[presented'[q]].revoked
    BY <1>4, <2>1, <2>3, Answered DEF IssueToken
  <2>7. \A q \in late' : pc'[q] = "validate" /\ presented'[q] \in spent'
    BY <1>4, Answered DEF IssueToken
  <2>8. UnusedStaysGood'
    BY <2>1, <2>3
  <2> QED
    BY <2>4, <2>5, <2>6, <2>7, <2>8
<1>5. ASSUME NEW p \in Request, Presenting(p) PROVE SessionInv'
  BY <1>5 DEF Presenting, Present
<1>6. ASSUME NEW p \in Request, InvalidToken(p) \/ Lose(p) PROVE SessionInv'
  BY <1>6, Answered DEF InvalidToken, Lose
<1>7. ASSUME NEW p \in Request, Validate(p) PROVE SessionInv'
  BY <1>7 DEF Validate, Valid, Stored
<1>8. ASSUME NEW p \in Request, Revoke(p) PROVE SessionInv'
  <2>1. /\ presented[p] \in Token /\ tokens[presented[p]] # NoRow
        /\ tokens'[presented[p]] # NoRow /\ tokens'[presented[p]].revoked
        /\ \A u \in Token : u # presented[p] => tokens'[u] = tokens[u]
    <3>1. presented[p] \in Token /\ tokens[presented[p]] \in RefreshToken
      BY <1>8, RevokeWrites
    <3>2. PICK row \in RefreshToken :
            row.revoked /\ tokens' = [tokens EXCEPT ![presented[p]] = row]
      BY <1>8, <3>1, RevokeWrites, RowRevoked
    <3> QED
      BY <3>1, <3>2, TokenStored
  <2>2. \A u \in spent' : tokens'[u] # NoRow /\ tokens'[u].revoked
    BY <1>8, <2>1, Answered DEF Revoke
  <2>3. \A q \in Request : pc'[q] = "issue" /\ kind'[q] = "refresh" => tokens'[presented'[q]].revoked
    BY <1>8, <2>1, Answered DEF Revoke
  <2>4. \A q \in late' : pc'[q] = "validate" /\ presented'[q] \in spent'
    BY <1>8, Answered DEF Revoke
  <2>5. \A q \in Request : presented'[q] \notin unused'
    BY <1>8, Answered DEF Revoke
  <2>6. UnusedStaysGood'
    BY <1>8, <2>1, Answered DEF Revoke
  <2> QED
    BY <2>2, <2>3, <2>4, <2>5, <2>6
<1>9. ASSUME NEW t \in Token, Expire(t) PROVE SessionInv'
  <2>1. tokens[t] \in RefreshToken /\ tokens' = [tokens EXCEPT ![t] = [tokens[t] EXCEPT !.expired = TRUE]]
    BY <1>9 DEF Expire
  <2>2. \A u \in Token : tokens[u] # NoRow =>
          tokens'[u] # NoRow /\ tokens'[u].revoked = tokens[u].revoked
    BY <2>1, RowExpired, TokenStored
  <2> QED
    BY <1>9, <2>2 DEF Expire
<1>10. CASE UNCHANGED vars
  BY <1>10 DEF vars
<1> QED
  BY Steps, <1>1, <1>2, <1>3, <1>4, <1>5, <1>6, <1>7, <1>8, <1>9, <1>10

\* A token that was answered for is never accepted again, and one that was not presented
\* is not revoked, in every interleaving of the commits (auth.py:36-79).
THEOREM TokensSpentOnce == Spec => [](SpentStaysSpent /\ UnusedStaysGood)
<1>1. Init => SessionInv
  BY DEF Init, SessionInv, UnusedStaysGood
<1>2. Typed /\ SessionInv /\ [Next]_vars => (Typed /\ SessionInv)'
  BY TypingStep, SessionStep
<1>3. SessionInv => SpentStaysSpent /\ UnusedStaysGood
  BY DEF SessionInv, SpentStaysSpent
<1> QED
  BY TypedInitially, <1>1, <1>2, <1>3, PTL DEF Spec

\* Until it is presented or expires a token is good, whatever other sessions of its owner
\* do (auth.py:78).
THEOREM OtherSessionsStayGood == Spec => []UnusedStaysGood
BY TokensSpentOnce, PTL
================================================================================
