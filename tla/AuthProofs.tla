----------------------------- MODULE AuthProofs -----------------------------
(***************************************************************************)
(* Registration, sign-in and authorisation for any number of clients,      *)
(* addresses and passwords: who is told 201 owns the account, tokens are   *)
(* earned, and answers are true of the account at a moment of the request. *)
(***************************************************************************)
EXTENDS Auth, TLAPS

\* A password under way is one that was typed, and to be stored one that is valid.
PasswordInv ==
    \A c \in Clients :
        /\ phase[c] \in {"flush", "commit", "created",
                         "credentials", "compare", "signedIn", "refused"} => given[c] \in Raw
        /\ phase[c] \in {"flush", "commit", "created"} => ValidPassword(given[c])

\* A row's password is none, or one bcrypt reads to its end.
Whole(a) == a # NoAccount /\ a.hash # NoHash => Size[a.hash].bytes <= MaximumBytes

\* Every row is whole, and those a request has met were; it has met the present
\* one and the one it has read.
RowsInv ==
    /\ \A e \in Emails : Whole(account[e])
    /\ \A c \in Clients :
        /\ \A a \in since[c] : Whole(a)
        /\ phase[c] # "idle" => account[about[c]] \in since[c]
        /\ phase[c] = "compare" => creds[c] \in since[c]

\* Only the transaction that holds the key of an address is about to commit, and
\* the address is free until it does.
InsertInv ==
    \A c \in Clients : phase[c] = "commit" =>
        inserting[about[c]] = c /\ account[about[c]] = NoAccount

\* A request that got past the token's check has one that was good when it began.
TokenInv ==
    \A c \in Clients : phase[c] = "lookup" =>
        token[c] # NoToken /\ token[c].exp > began[c] /\ need[c] \in Permissions

\* The inductive invariant.
AuthInv == /\ TypeOK /\ PasswordInv /\ RowsInv /\ InsertInv /\ TokenInv
           /\ CreatedOwnsTheAccount /\ SignInIsEarned /\ EnrolledCanSignIn /\ AnswersAreCurrent

\* A step keeps the state well typed.
LEMMA TypeStep ==
    ASSUME AuthAssumption, TypeOK, PasswordInv, [Next]_vars PROVE TypeOK'
    <1>1. ASSUME NEW c \in Clients, Flush(c) PROVE TypeOK'
        <2>1. \E p \in Phases : phase' = [phase EXCEPT ![c] = p]
            BY <1>1 DEF Flush, ToPhase, Phases, Answers
        <2>2. phase' \in [Clients -> Phases] BY <2>1 DEF TypeOK
        <2>3. inserting' \in [Emails -> Clients \cup {NoOne}] BY <1>1 DEF Flush, TypeOK
        <2> QED BY <1>1, <2>2, <2>3 DEF Flush, TypeOK
    <1>2. ASSUME NEW c \in Clients, Commit(c) PROVE TypeOK'
        <2> DEFINE new == [hash |-> HashPassword(given[c]), role |-> "researcher", active |-> TRUE]
        <2>1. given[c] \in Raw /\ about[c] \in Emails
            BY <1>2 DEF Commit, PasswordInv, TypeOK
        <2>2. new \in Account
            BY <2>1 DEF HashPassword, Bcrypt, Account, Roles, AuthAssumption
        <2>a. Write(about[c], new) \/ UNCHANGED <<account, since>> BY <1>2 DEF Commit
        <2> HIDE DEF new
        <2>b. account' \in [Emails -> Account \cup {NoAccount}]
            BY <2>a, <2>2 DEF Write, TypeOK
        <2>3. since' \in [Clients -> SUBSET (Account \cup {NoAccount})]
            BY <2>a, <2>2 DEF Write, TypeOK
        <2>4. phase' \in [Clients -> Phases]
            BY <1>2 DEF Commit, ToPhase, TypeOK, Phases, Answers
        <2>5. inserting' \in [Emails -> Clients \cup {NoOne}] BY <1>2 DEF Commit, TypeOK
        <2> QED BY <1>2, <2>b, <2>3, <2>4, <2>5 DEF Commit, TypeOK
    <1>3. ASSUME NEW c \in Clients, ReadCredentials(c) PROVE TypeOK'
        BY <1>3 DEF ReadCredentials, ToPhase, TypeOK, Phases, Answers
    <1>4. ASSUME NEW c \in Clients, Compare(c) PROVE TypeOK'
        <2>a. phase' = [phase EXCEPT ![c] = "signedIn"] \/ phase' = [phase EXCEPT ![c] = "refused"]
            BY <1>4 DEF Compare, ToPhase
        <2>1. phase' \in [Clients -> Phases] BY <2>a DEF TypeOK, Phases, Answers
        <2>2. token' \in [Clients -> Token \cup {NoToken}]
            <3>1. CASE Accepted(given[c], creds[c])
                <4>1. creds[c] \in Account BY <3>1 DEF Accepted, TypeOK
                <4>2. [email |-> about[c], role |-> creds[c].role, exp |-> clock + Lifetime] \in Token
                    BY <4>1 DEF Token, Account, TypeOK, AuthAssumption
                <4> QED BY <1>4, <3>1, <4>2 DEF Compare, TypeOK
            <3>2. CASE ~Accepted(given[c], creds[c])
                BY <1>4, <3>2 DEF Compare, TypeOK
            <3> QED BY <3>1, <3>2
        <2>3. creds' \in [Clients -> Account \cup {NoAccount}] BY <1>4 DEF Compare, TypeOK
        <2> QED BY <1>4, <2>1, <2>2, <2>3 DEF Compare, TypeOK
    <1>5. ASSUME NEW c \in Clients, Lookup(c) PROVE TypeOK'
        BY <1>5 DEF Lookup, ToPhase, Decide, RequirePermission, TypeOK, Phases, Answers
    <1>6. ASSUME NEW c \in Clients, Respond(c) PROVE TypeOK'
        BY <1>6 DEF Respond, ToPhase, TypeOK, Phases, Answers
    <1>7. ASSUME NEW c \in Clients, NEW e \in Emails, NEW p \in Raw, AskRegister(c, e, p)
          PROVE  TypeOK'
        BY <1>7 DEF AskRegister, Begin, ToPhase, TypeOK, Phases, Answers
    <1>8. ASSUME NEW c \in Clients, NEW e \in Emails, NEW p \in Raw, AskLogin(c, e, p)
          PROVE  TypeOK'
        BY <1>8 DEF AskLogin, Begin, ToPhase, TypeOK, Phases, Answers
    <1>9. ASSUME NEW c \in Clients, NEW perm \in Routes, Call(c, perm) PROVE TypeOK'
        <2>1. (IF token[c] = NoToken THEN about[c] ELSE token[c].email) \in Emails
            BY DEF TypeOK, Token
        <2> QED
            BY <1>9, <2>1 DEF Call, Begin, ToPhase, TypeOK, Phases, Answers, AuthAssumption
    <1>10. ASSUME NEW c \in Clients, Crash(c) PROVE TypeOK'
        BY <1>10 DEF Crash, ToPhase, TypeOK, Phases, Answers
    <1>11. ASSUME NEW e \in Emails, NEW role \in Assignable, NEW active \in BOOLEAN,
                  Operate(e, role, active)
           PROVE  TypeOK'
        <2>1. [account[e] EXCEPT !.role = role, !.active = active] \in Account
            <3>1. account[e] \in Account /\ role \in Roles
                BY <1>11 DEF Operate, TypeOK, AuthAssumption
            <3> QED BY <3>1 DEF Account
        <2> QED BY <1>11, <2>1 DEF Operate, Write, TypeOK, request
    <1>12. CASE Tick \/ UNCHANGED vars
        BY <1>12 DEF Tick, request, vars, TypeOK, Phases, Answers
    <1> QED
        BY <1>1, <1>2, <1>3, <1>4, <1>5, <1>6, <1>7, <1>8, <1>9, <1>10, <1>11, <1>12
           DEF Next, Step, Asking

\* A step keeps track of the passwords.
LEMMA PasswordStep ==
    ASSUME AuthAssumption, TypeOK, PasswordInv, [Next]_vars PROVE PasswordInv'
    <1>1. ASSUME NEW c \in Clients, Flush(c) PROVE PasswordInv'
        BY <1>1 DEF Flush, ToPhase, PasswordInv, TypeOK, Phases, Answers
    <1>2. ASSUME NEW c \in Clients, Commit(c) PROVE PasswordInv'
        BY <1>2 DEF Commit, ToPhase, Write, HashPassword, Bcrypt, PasswordInv, TypeOK,
               Phases, Answers
    <1>3. ASSUME NEW c \in Clients, ReadCredentials(c) PROVE PasswordInv'
        BY <1>3 DEF ReadCredentials, ToPhase, PasswordInv, TypeOK, Phases, Answers
    <1>4. ASSUME NEW c \in Clients, Compare(c) PROVE PasswordInv'
        BY <1>4 DEF Compare, ToPhase, PasswordInv, TypeOK, Phases, Answers
    <1>5. ASSUME NEW c \in Clients, Lookup(c) PROVE PasswordInv'
        BY <1>5 DEF Lookup, ToPhase, Decide, RequirePermission, PasswordInv, TypeOK
    <1>6. ASSUME NEW c \in Clients, Respond(c) PROVE PasswordInv'
        BY <1>6 DEF Respond, ToPhase, PasswordInv, TypeOK, Phases, Answers
    <1>7. ASSUME NEW c \in Clients, NEW e \in Emails, NEW p \in Raw, AskRegister(c, e, p)
          PROVE  PasswordInv'
        BY <1>7 DEF AskRegister, Begin, ToPhase, PasswordInv, TypeOK, Phases, Answers
    <1>8. ASSUME NEW c \in Clients, NEW e \in Emails, NEW p \in Raw, AskLogin(c, e, p)
          PROVE  PasswordInv'
        BY <1>8 DEF AskLogin, Begin, ToPhase, PasswordInv, TypeOK, Phases, Answers
    <1>9. ASSUME NEW c \in Clients, NEW perm \in Routes, Call(c, perm) PROVE PasswordInv'
        BY <1>9 DEF Call, Begin, ToPhase, PasswordInv, TypeOK, Phases, Answers
    <1>10. ASSUME NEW c \in Clients, Crash(c) PROVE PasswordInv'
        BY <1>10 DEF Crash, ToPhase, PasswordInv, TypeOK, Phases, Answers
    <1>11. ASSUME NEW e \in Emails, NEW role \in Assignable, NEW active \in BOOLEAN,
                  Operate(e, role, active)
           PROVE  PasswordInv'
        BY <1>11 DEF Operate, Write, request, PasswordInv, TypeOK, Phases, Answers
    <1>12. CASE Tick \/ UNCHANGED vars
        BY <1>12 DEF Tick, request, vars, PasswordInv, TypeOK, Phases, Answers
    <1> QED
        BY <1>1, <1>2, <1>3, <1>4, <1>5, <1>6, <1>7, <1>8, <1>9, <1>10, <1>11, <1>12
           DEF Next, Step, Asking

\* A step keeps what is known of a request that passed the token's check.
LEMMA TokenStep ==
    ASSUME AuthAssumption, TypeOK, TokenInv, [Next]_vars PROVE TokenInv'
    <1>1. ASSUME NEW c \in Clients, Flush(c) PROVE TokenInv'
        BY <1>1 DEF Flush, ToPhase, TokenInv, TypeOK, Phases, Answers
    <1>2. ASSUME NEW c \in Clients, Commit(c) PROVE TokenInv'
        BY <1>2 DEF Commit, ToPhase, Write, HashPassword, Bcrypt, TokenInv, TypeOK, Phases,
               Answers
    <1>3. ASSUME NEW c \in Clients, ReadCredentials(c) PROVE TokenInv'
        BY <1>3 DEF ReadCredentials, ToPhase, TokenInv, TypeOK, Phases, Answers
    <1>4. ASSUME NEW c \in Clients, Compare(c) PROVE TokenInv'
        BY <1>4 DEF Compare, ToPhase, TokenInv, TypeOK, Phases, Answers
    <1>5. ASSUME NEW c \in Clients, Lookup(c) PROVE TokenInv'
        BY <1>5 DEF Lookup, ToPhase, Decide, RequirePermission, TokenInv, TypeOK
    <1>6. ASSUME NEW c \in Clients, Respond(c) PROVE TokenInv'
        BY <1>6 DEF Respond, ToPhase, TokenInv, TypeOK, Phases, Answers
    <1>7. ASSUME NEW c \in Clients, NEW e \in Emails, NEW p \in Raw, AskRegister(c, e, p)
          PROVE  TokenInv'
        BY <1>7 DEF AskRegister, Begin, ToPhase, TokenInv, TypeOK, Phases, Answers
    <1>8. ASSUME NEW c \in Clients, NEW e \in Emails, NEW p \in Raw, AskLogin(c, e, p)
          PROVE  TokenInv'
        BY <1>8 DEF AskLogin, Begin, ToPhase, TokenInv, TypeOK, Phases, Answers
    <1>9. ASSUME NEW c \in Clients, NEW perm \in Routes, Call(c, perm) PROVE TokenInv'
        BY <1>9 DEF Call, Begin, ToPhase, VerifyToken, TokenInv, TypeOK, AuthAssumption
    <1>10. ASSUME NEW c \in Clients, Crash(c) PROVE TokenInv'
        BY <1>10 DEF Crash, ToPhase, TokenInv, TypeOK, Phases, Answers
    <1>11. ASSUME NEW e \in Emails, NEW role \in Assignable, NEW active \in BOOLEAN,
                  Operate(e, role, active)
           PROVE  TokenInv'
        BY <1>11 DEF Operate, Write, request, TokenInv, TypeOK, Phases, Answers
    <1>12. CASE Tick \/ UNCHANGED vars
        BY <1>12 DEF Tick, request, vars, TokenInv, TypeOK, Phases, Answers
    <1> QED
        BY <1>1, <1>2, <1>3, <1>4, <1>5, <1>6, <1>7, <1>8, <1>9, <1>10, <1>11, <1>12
           DEF Next, Step, Asking

\* A step keeps one transaction about to commit for an address.
LEMMA InsertStep ==
    ASSUME AuthAssumption, TypeOK, InsertInv, [Next]_vars PROVE InsertInv'
    <1>1. ASSUME NEW c \in Clients, Flush(c) PROVE InsertInv'
        BY <1>1 DEF Flush, ToPhase, InsertInv, TypeOK, AuthAssumption
    <1>2. ASSUME NEW c \in Clients, Commit(c) PROVE InsertInv'
        BY <1>2 DEF Commit, ToPhase, Write, HashPassword, Bcrypt, InsertInv, TypeOK,
               AuthAssumption
    <1>3. ASSUME NEW c \in Clients, ReadCredentials(c) PROVE InsertInv'
        BY <1>3 DEF ReadCredentials, ToPhase, InsertInv, TypeOK, AuthAssumption
    <1>4. ASSUME NEW c \in Clients, Compare(c) PROVE InsertInv'
        BY <1>4 DEF Compare, ToPhase, InsertInv, TypeOK, AuthAssumption
    <1>5. ASSUME NEW c \in Clients, Lookup(c) PROVE InsertInv'
        BY <1>5 DEF Lookup, ToPhase, Decide, RequirePermission, InsertInv, TypeOK
    <1>6. ASSUME NEW c \in Clients, Respond(c) PROVE InsertInv'
        BY <1>6 DEF Respond, ToPhase, InsertInv, TypeOK, AuthAssumption
    <1>7. ASSUME NEW c \in Clients, NEW e \in Emails, NEW p \in Raw, AskRegister(c, e, p)
          PROVE  InsertInv'
        BY <1>7 DEF AskRegister, Begin, ToPhase, InsertInv, TypeOK, AuthAssumption
    <1>8. ASSUME NEW c \in Clients, NEW e \in Emails, NEW p \in Raw, AskLogin(c, e, p)
          PROVE  InsertInv'
        BY <1>8 DEF AskLogin, Begin, ToPhase, InsertInv, TypeOK, AuthAssumption
    <1>9. ASSUME NEW c \in Clients, NEW perm \in Routes, Call(c, perm) PROVE InsertInv'
        BY <1>9 DEF Call, Begin, ToPhase, InsertInv, TypeOK, AuthAssumption
    <1>10. ASSUME NEW c \in Clients, Crash(c) PROVE InsertInv'
        BY <1>10 DEF Crash, ToPhase, InsertInv, TypeOK, AuthAssumption
    <1>11. ASSUME NEW e \in Emails, NEW role \in Assignable, NEW active \in BOOLEAN,
                  Operate(e, role, active)
           PROVE  InsertInv'
        BY <1>11 DEF Operate, Write, request, InsertInv, TypeOK, AuthAssumption
    <1>12. CASE Tick \/ UNCHANGED vars
        BY <1>12 DEF Tick, request, vars, InsertInv, TypeOK, AuthAssumption
    <1> QED
        BY <1>1, <1>2, <1>3, <1>4, <1>5, <1>6, <1>7, <1>8, <1>9, <1>10, <1>11, <1>12
           DEF Next, Step, Asking

\* A step keeps the rows whole and the history of each request complete.
LEMMA RowsStep ==
    ASSUME AuthAssumption, TypeOK, PasswordInv, RowsInv, [Next]_vars PROVE RowsInv'
    <1>1. ASSUME NEW c \in Clients, Flush(c) PROVE RowsInv'
        BY <1>1 DEF Flush, ToPhase, RowsInv, TypeOK
    <1>2. ASSUME NEW c \in Clients, Commit(c) PROVE RowsInv'
        <2> DEFINE new == [hash |-> HashPassword(given[c]), role |-> "researcher", active |-> TRUE]
        <2>1. Whole(new)
            BY <1>2 DEF Commit, PasswordInv, ValidPassword, HashPassword, Bcrypt, Whole,
                   AuthAssumption
        <2> HIDE DEF new
        <2>2. CASE Write(about[c], new)
            BY <1>2, <2>1, <2>2 DEF Commit, ToPhase, Write, RowsInv, TypeOK
        <2>3. CASE UNCHANGED <<account, since>>
            BY <1>2, <2>3 DEF Commit, ToPhase, RowsInv, TypeOK
        <2> QED BY <1>2, <2>2, <2>3 DEF Commit, new
    <1>3. ASSUME NEW c \in Clients, ReadCredentials(c) PROVE RowsInv'
        BY <1>3 DEF ReadCredentials, ToPhase, RowsInv, TypeOK
    <1>4. ASSUME NEW c \in Clients, Compare(c) PROVE RowsInv'
        BY <1>4 DEF Compare, ToPhase, RowsInv, TypeOK
    <1>5. ASSUME NEW c \in Clients, Lookup(c) PROVE RowsInv'
        BY <1>5 DEF Lookup, ToPhase, Decide, RequirePermission, RowsInv, TypeOK
    <1>6. ASSUME NEW c \in Clients, Respond(c) PROVE RowsInv'
        BY <1>6 DEF Respond, ToPhase, RowsInv, TypeOK
    <1>7. ASSUME NEW c \in Clients, NEW e \in Emails, NEW p \in Raw, AskRegister(c, e, p)
          PROVE  RowsInv'
        BY <1>7 DEF AskRegister, Begin, ToPhase, RowsInv, TypeOK
    <1>8. ASSUME NEW c \in Clients, NEW e \in Emails, NEW p \in Raw, AskLogin(c, e, p)
          PROVE  RowsInv'
        BY <1>8 DEF AskLogin, Begin, ToPhase, RowsInv, TypeOK
    <1>9. ASSUME NEW c \in Clients, NEW perm \in Routes, Call(c, perm) PROVE RowsInv'
        <2> DEFINE named == IF token[c] = NoToken THEN about[c] ELSE token[c].email
        <2>1. named \in Emails BY DEF TypeOK, Token
        <2>2. about' = [about EXCEPT ![c] = named] /\ since' = [since EXCEPT ![c] = {account[named]}]
            BY <1>9 DEF Call, Begin
        <2>3. /\ UNCHANGED <<account, creds>>
              /\ \E l \in {"lookup", "unauthenticated"} : phase' = [phase EXCEPT ![c] = l]
            BY <1>9 DEF Call, Begin, ToPhase
        <2> HIDE DEF named
        <2> QED BY <2>1, <2>2, <2>3 DEF RowsInv, TypeOK
    <1>10. ASSUME NEW c \in Clients, Crash(c) PROVE RowsInv'
        BY <1>10 DEF Crash, ToPhase, RowsInv, TypeOK
    <1>11. ASSUME NEW e \in Emails, NEW role \in Assignable, NEW active \in BOOLEAN,
                  Operate(e, role, active)
           PROVE  RowsInv'
        <2>1. Whole([account[e] EXCEPT !.role = role, !.active = active])
            BY <1>11 DEF Operate, RowsInv, Whole, TypeOK, Account
        <2> QED BY <1>11, <2>1 DEF Operate, Write, RowsInv, TypeOK, request
    <1>12. CASE Tick \/ UNCHANGED vars
        BY <1>12 DEF Tick, request, vars, RowsInv, TypeOK
    <1> QED
        BY <1>1, <1>2, <1>3, <1>4, <1>5, <1>6, <1>7, <1>8, <1>9, <1>10, <1>11, <1>12
           DEF Next, Step, Asking

\* A step takes no account from whoever was told 201.
LEMMA CreatedStep ==
    ASSUME AuthAssumption, TypeOK, PasswordInv, RowsInv, InsertInv, TokenInv,
           CreatedOwnsTheAccount, [Next]_vars
    PROVE  CreatedOwnsTheAccount'
    <1>1. ASSUME NEW c \in Clients, Flush(c) PROVE CreatedOwnsTheAccount'
        BY <1>1 DEF Flush, ToPhase, CreatedOwnsTheAccount, TypeOK
    <1>2. ASSUME NEW c \in Clients, Commit(c) PROVE CreatedOwnsTheAccount'
        <2> DEFINE e == about[c]
                   new == [hash |-> HashPassword(given[c]), role |-> "researcher", active |-> TRUE]
        <2>1. account[e] = NoAccount /\ e \in Emails BY <1>2 DEF Commit, InsertInv, TypeOK
        <2>2. \A b \in Clients : phase[b] = "created" => about[b] # e
            BY <2>1 DEF CreatedOwnsTheAccount
        <2>3. new # NoAccount /\ new.hash = FormOf[given[c]]
            <3>1. given[c] \in Raw /\ ValidPassword(given[c])
                BY <1>2 DEF Commit, PasswordInv
            <3>2. new.hash = FormOf[given[c]]
                BY <3>1 DEF ValidPassword, HashPassword, Bcrypt, AuthAssumption
            <3>3. new \in Account BY <3>1, <3>2 DEF Account, Roles, AuthAssumption
            <3> QED BY <3>2, <3>3 DEF Account, AuthAssumption
        <2>a. Write(e, new) \/ (UNCHANGED account /\ phase' = [phase EXCEPT ![c] = "failed"])
            BY <1>2 DEF Commit, ToPhase
        <2>b. \E p \in {"created", "failed"} : phase' = [phase EXCEPT ![c] = p]
            BY <1>2 DEF Commit, ToPhase
        <2>c. UNCHANGED <<about, given>> BY <1>2 DEF Commit
        <2> HIDE DEF new
        <2>4. CASE Write(e, new)
            BY <2>1, <2>2, <2>3, <2>4, <2>b, <2>c DEF Write, CreatedOwnsTheAccount, TypeOK
        <2>5. CASE UNCHANGED account /\ phase' = [phase EXCEPT ![c] = "failed"]
            BY <2>5, <2>c DEF CreatedOwnsTheAccount, TypeOK
        <2> QED BY <2>a, <2>4, <2>5
    <1>3. ASSUME NEW c \in Clients, ReadCredentials(c) PROVE CreatedOwnsTheAccount'
        BY <1>3 DEF ReadCredentials, ToPhase, CreatedOwnsTheAccount, TypeOK
    <1>4. ASSUME NEW c \in Clients, Compare(c) PROVE CreatedOwnsTheAccount'
        BY <1>4 DEF Compare, ToPhase, CreatedOwnsTheAccount, TypeOK
    <1>5. ASSUME NEW c \in Clients, Lookup(c) PROVE CreatedOwnsTheAccount'
        BY <1>5 DEF Lookup, ToPhase, Decide, RequirePermission, CreatedOwnsTheAccount,
               TypeOK
    <1>6. ASSUME NEW c \in Clients, Respond(c) PROVE CreatedOwnsTheAccount'
        BY <1>6 DEF Respond, ToPhase, CreatedOwnsTheAccount, TypeOK
    <1>7. ASSUME NEW c \in Clients, NEW e \in Emails, NEW p \in Raw, AskRegister(c, e, p)
          PROVE  CreatedOwnsTheAccount'
        BY <1>7 DEF AskRegister, Begin, ToPhase, CreatedOwnsTheAccount, TypeOK
    <1>8. ASSUME NEW c \in Clients, NEW e \in Emails, NEW p \in Raw, AskLogin(c, e, p)
          PROVE  CreatedOwnsTheAccount'
        BY <1>8 DEF AskLogin, Begin, ToPhase, CreatedOwnsTheAccount, TypeOK
    <1>9. ASSUME NEW c \in Clients, NEW perm \in Routes, Call(c, perm)
          PROVE  CreatedOwnsTheAccount'
        BY <1>9 DEF Call, Begin, ToPhase, CreatedOwnsTheAccount, TypeOK
    <1>10. ASSUME NEW c \in Clients, Crash(c) PROVE CreatedOwnsTheAccount'
        BY <1>10 DEF Crash, ToPhase, CreatedOwnsTheAccount, TypeOK
    <1>11. ASSUME NEW e \in Emails, NEW role \in Assignable, NEW active \in BOOLEAN,
                  Operate(e, role, active)
           PROVE  CreatedOwnsTheAccount'
        <2> DEFINE a == [account[e] EXCEPT !.role = role, !.active = active]
        <2>1. account[e] \in Account /\ role \in Roles
            BY <1>11 DEF Operate, TypeOK, AuthAssumption
        <2>2. a \in Account /\ a.hash = account[e].hash BY <2>1 DEF Account
        <2>3. a # NoAccount BY <2>2 DEF Account, AuthAssumption
        <2>4. account' = [account EXCEPT ![e] = a] /\ UNCHANGED <<phase, about, given>>
            BY <1>11 DEF Operate, Write, request
        <2> HIDE DEF a
        <2> QED BY <2>1, <2>2, <2>3, <2>4 DEF CreatedOwnsTheAccount, TypeOK
    <1>12. CASE Tick \/ UNCHANGED vars
        BY <1>12 DEF Tick, request, vars, CreatedOwnsTheAccount, TypeOK
    <1> QED
        BY <1>1, <1>2, <1>3, <1>4, <1>5, <1>6, <1>7, <1>8, <1>9, <1>10, <1>11, <1>12
           DEF Next, Step, Asking

\* A step issues tokens only to those who earned them.
LEMMA SignInStep ==
    ASSUME AuthAssumption, TypeOK, PasswordInv, RowsInv, InsertInv, TokenInv,
           SignInIsEarned, [Next]_vars
    PROVE  SignInIsEarned'
    <1>1. ASSUME NEW c \in Clients, Flush(c) PROVE SignInIsEarned'
        BY <1>1 DEF Flush, ToPhase, SignInIsEarned, TypeOK
    <1>2. ASSUME NEW c \in Clients, Commit(c) PROVE SignInIsEarned'
        BY <1>2 DEF Commit, ToPhase, Write, SignInIsEarned, TypeOK
    <1>3. ASSUME NEW c \in Clients, ReadCredentials(c) PROVE SignInIsEarned'
        BY <1>3 DEF ReadCredentials, ToPhase, SignInIsEarned, TypeOK
    <1>4. ASSUME NEW c \in Clients, Compare(c) PROVE SignInIsEarned'
        <2> DEFINE a == creds[c]
        <2>1. a \in since[c] /\ given[c] \in Raw /\ a \in Account \cup {NoAccount} /\ Whole(a)
            BY <1>4 DEF Compare, RowsInv, PasswordInv, TypeOK
        <2>2. Accepted(given[c], a) => a # NoAccount /\ a.active /\ a.hash = FormOf[given[c]]
            BY <2>1 DEF Accepted, VerifyPassword, Bcrypt, Whole, Account, AuthAssumption
        <2>3. /\ UNCHANGED <<since, given>>
              /\ phase' = [phase EXCEPT ![c] = IF Accepted(given[c], a) THEN "signedIn"
                                               ELSE "refused"]
            BY <1>4 DEF Compare, ToPhase
        <2> HIDE DEF a
        <2> QED BY <2>1, <2>2, <2>3 DEF SignInIsEarned, TypeOK
    <1>5. ASSUME NEW c \in Clients, Lookup(c) PROVE SignInIsEarned'
        BY <1>5 DEF Lookup, ToPhase, Decide, RequirePermission, SignInIsEarned, TypeOK
    <1>6. ASSUME NEW c \in Clients, Respond(c) PROVE SignInIsEarned'
        BY <1>6 DEF Respond, ToPhase, SignInIsEarned, TypeOK
    <1>7. ASSUME NEW c \in Clients, NEW e \in Emails, NEW p \in Raw, AskRegister(c, e, p)
          PROVE  SignInIsEarned'
        BY <1>7 DEF AskRegister, Begin, ToPhase, SignInIsEarned, TypeOK
    <1>8. ASSUME NEW c \in Clients, NEW e \in Emails, NEW p \in Raw, AskLogin(c, e, p)
          PROVE  SignInIsEarned'
        BY <1>8 DEF AskLogin, Begin, ToPhase, SignInIsEarned, TypeOK
    <1>9. ASSUME NEW c \in Clients, NEW perm \in Routes, Call(c, perm) PROVE SignInIsEarned'
        BY <1>9 DEF Call, Begin, ToPhase, SignInIsEarned, TypeOK
    <1>10. ASSUME NEW c \in Clients, Crash(c) PROVE SignInIsEarned'
        BY <1>10 DEF Crash, ToPhase, SignInIsEarned, TypeOK
    <1>11. ASSUME NEW e \in Emails, NEW role \in Assignable, NEW active \in BOOLEAN,
                  Operate(e, role, active)
           PROVE  SignInIsEarned'
        BY <1>11 DEF Operate, Write, request, SignInIsEarned, TypeOK
    <1>12. CASE Tick \/ UNCHANGED vars
        BY <1>12 DEF Tick, request, vars, SignInIsEarned, TypeOK
    <1> QED
        BY <1>1, <1>2, <1>3, <1>4, <1>5, <1>6, <1>7, <1>8, <1>9, <1>10, <1>11, <1>12
           DEF Next, Step, Asking

\* A step refuses a sign-in only for a reason.
LEMMA RefusalStep ==
    ASSUME AuthAssumption, TypeOK, PasswordInv, RowsInv, InsertInv, TokenInv,
           EnrolledCanSignIn, [Next]_vars
    PROVE  EnrolledCanSignIn'
    <1>1. ASSUME NEW c \in Clients, Flush(c) PROVE EnrolledCanSignIn'
        BY <1>1 DEF Flush, ToPhase, EnrolledCanSignIn, TypeOK
    <1>2. ASSUME NEW c \in Clients, Commit(c) PROVE EnrolledCanSignIn'
        BY <1>2 DEF Commit, ToPhase, Write, EnrolledCanSignIn, TypeOK
    <1>3. ASSUME NEW c \in Clients, ReadCredentials(c) PROVE EnrolledCanSignIn'
        BY <1>3 DEF ReadCredentials, ToPhase, EnrolledCanSignIn, TypeOK
    <1>4. ASSUME NEW c \in Clients, Compare(c) PROVE EnrolledCanSignIn'
        <2> DEFINE a == creds[c]
        <2>1. a \in since[c] /\ given[c] \in Raw /\ a \in Account \cup {NoAccount} /\ Whole(a)
            BY <1>4 DEF Compare, RowsInv, PasswordInv, TypeOK
        <2>2. ~Accepted(given[c], a) => a = NoAccount \/ ~a.active \/ a.hash # FormOf[given[c]]
            BY <2>1 DEF Accepted, VerifyPassword, Bcrypt, Whole, Account, AuthAssumption
        <2>3. /\ UNCHANGED <<since, given>>
              /\ phase' = [phase EXCEPT ![c] = IF Accepted(given[c], a) THEN "signedIn"
                                               ELSE "refused"]
            BY <1>4 DEF Compare, ToPhase
        <2> HIDE DEF a
        <2> QED BY <2>1, <2>2, <2>3 DEF EnrolledCanSignIn, TypeOK
    <1>5. ASSUME NEW c \in Clients, Lookup(c) PROVE EnrolledCanSignIn'
        BY <1>5 DEF Lookup, ToPhase, Decide, RequirePermission, EnrolledCanSignIn, TypeOK
    <1>6. ASSUME NEW c \in Clients, Respond(c) PROVE EnrolledCanSignIn'
        BY <1>6 DEF Respond, ToPhase, EnrolledCanSignIn, TypeOK
    <1>7. ASSUME NEW c \in Clients, NEW e \in Emails, NEW p \in Raw, AskRegister(c, e, p)
          PROVE  EnrolledCanSignIn'
        BY <1>7 DEF AskRegister, Begin, ToPhase, EnrolledCanSignIn, TypeOK
    <1>8. ASSUME NEW c \in Clients, NEW e \in Emails, NEW p \in Raw, AskLogin(c, e, p)
          PROVE  EnrolledCanSignIn'
        BY <1>8 DEF AskLogin, Begin, ToPhase, EnrolledCanSignIn, TypeOK
    <1>9. ASSUME NEW c \in Clients, NEW perm \in Routes, Call(c, perm)
          PROVE  EnrolledCanSignIn'
        BY <1>9 DEF Call, Begin, ToPhase, EnrolledCanSignIn, TypeOK
    <1>10. ASSUME NEW c \in Clients, Crash(c) PROVE EnrolledCanSignIn'
        BY <1>10 DEF Crash, ToPhase, EnrolledCanSignIn, TypeOK
    <1>11. ASSUME NEW e \in Emails, NEW role \in Assignable, NEW active \in BOOLEAN,
                  Operate(e, role, active)
           PROVE  EnrolledCanSignIn'
        BY <1>11 DEF Operate, Write, request, EnrolledCanSignIn, TypeOK
    <1>12. CASE Tick \/ UNCHANGED vars
        BY <1>12 DEF Tick, request, vars, EnrolledCanSignIn, TypeOK
    <1> QED
        BY <1>1, <1>2, <1>3, <1>4, <1>5, <1>6, <1>7, <1>8, <1>9, <1>10, <1>11, <1>12
           DEF Next, Step, Asking

\* A step answers by what the account was during the request.
LEMMA AnswerStep ==
    ASSUME AuthAssumption, TypeOK, PasswordInv, RowsInv, InsertInv, TokenInv,
           AnswersAreCurrent, [Next]_vars
    PROVE  AnswersAreCurrent'
    <1>1. ASSUME NEW c \in Clients, Flush(c) PROVE AnswersAreCurrent'
        BY <1>1 DEF Flush, ToPhase, AnswersAreCurrent, TypeOK
    <1>2. ASSUME NEW c \in Clients, Commit(c) PROVE AnswersAreCurrent'
        BY <1>2 DEF Commit, ToPhase, Write, AnswersAreCurrent, TypeOK
    <1>3. ASSUME NEW c \in Clients, ReadCredentials(c) PROVE AnswersAreCurrent'
        BY <1>3 DEF ReadCredentials, ToPhase, AnswersAreCurrent, TypeOK
    <1>4. ASSUME NEW c \in Clients, Compare(c) PROVE AnswersAreCurrent'
        BY <1>4 DEF Compare, ToPhase, AnswersAreCurrent, TypeOK
    <1>5. ASSUME NEW c \in Clients, Lookup(c) PROVE AnswersAreCurrent'
        <2> DEFINE row == account[about[c]]
        <2>1. row \in since[c] /\ row \in Account \cup {NoAccount} /\ token[c].exp > began[c]
            BY <1>5 DEF Lookup, RowsInv, TokenInv, TypeOK
        <2>2. /\ Decide(row, token[c], need[c]) = "served"
                    => row # NoAccount /\ row.active /\ need[c] \in PermissionsOf[row.role]
              /\ Decide(row, token[c], need[c]) = "forbidden"
                    => row # NoAccount /\ row.active /\ need[c] \notin PermissionsOf[row.role]
            BY DEF Decide, RequirePermission, HasPermission
        <2>3. /\ UNCHANGED <<since, token, need, began>>
              /\ \E p \in {Decide(row, token[c], need[c]), "failed"} : phase' = [phase EXCEPT ![c] = p]
            BY <1>5 DEF Lookup, ToPhase
        <2> HIDE DEF row
        <2> QED BY <2>1, <2>2, <2>3 DEF AnswersAreCurrent, TypeOK
    <1>6. ASSUME NEW c \in Clients, Respond(c) PROVE AnswersAreCurrent'
        BY <1>6 DEF Respond, ToPhase, AnswersAreCurrent, TypeOK
    <1>7. ASSUME NEW c \in Clients, NEW e \in Emails, NEW p \in Raw, AskRegister(c, e, p)
          PROVE  AnswersAreCurrent'
        BY <1>7 DEF AskRegister, Begin, ToPhase, AnswersAreCurrent, TypeOK
    <1>8. ASSUME NEW c \in Clients, NEW e \in Emails, NEW p \in Raw, AskLogin(c, e, p)
          PROVE  AnswersAreCurrent'
        BY <1>8 DEF AskLogin, Begin, ToPhase, AnswersAreCurrent, TypeOK
    <1>9. ASSUME NEW c \in Clients, NEW perm \in Routes, Call(c, perm)
          PROVE  AnswersAreCurrent'
        BY <1>9 DEF Call, Begin, ToPhase, AnswersAreCurrent, TypeOK
    <1>10. ASSUME NEW c \in Clients, Crash(c) PROVE AnswersAreCurrent'
        BY <1>10 DEF Crash, ToPhase, AnswersAreCurrent, TypeOK
    <1>11. ASSUME NEW e \in Emails, NEW role \in Assignable, NEW active \in BOOLEAN,
                  Operate(e, role, active)
           PROVE  AnswersAreCurrent'
        BY <1>11 DEF Operate, Write, request, AnswersAreCurrent, TypeOK
    <1>12. CASE Tick \/ UNCHANGED vars
        BY <1>12 DEF Tick, request, vars, AnswersAreCurrent, TypeOK
    <1> QED
        BY <1>1, <1>2, <1>3, <1>4, <1>5, <1>6, <1>7, <1>8, <1>9, <1>10, <1>11, <1>12
           DEF Next, Step, Asking

\* At the start nobody has asked for anything.
LEMMA AuthInit == ASSUME AuthAssumption, Init PROVE AuthInv
    <1>1. TypeOK
        <2>1. Legacy \in Account BY DEF Legacy, Account, Roles
        <2>2. account \in [Emails -> Account \cup {NoAccount}] BY <2>1 DEF Init
        <2>3. about \in [Clients -> Emails] BY DEF Init
        <2>4. clock \in 0..MaxClock /\ began \in [Clients -> 0..MaxClock]
            BY DEF Init, AuthAssumption
        <2> QED BY <2>2, <2>3, <2>4 DEF Init, TypeOK, Phases
    <1>2. \A c \in Clients : phase[c] = "idle" /\ since[c] = {} BY DEF Init
    <1>3. RowsInv BY <1>2 DEF Init, RowsInv, Whole, Legacy, AuthAssumption
    <1> QED
        BY <1>1, <1>2, <1>3 DEF AuthInv, PasswordInv, InsertInv, TokenInv,
           CreatedOwnsTheAccount, SignInIsEarned, EnrolledCanSignIn, AnswersAreCurrent

\* The invariant holds of every reachable state, with any number of clients,
\* addresses, passwords and roles assigned.
THEOREM Invariance == Spec => []AuthInv
    <1>1. Init => AuthInv BY AuthInit, AuthAssumption
    <1>2. AuthInv /\ [Next]_vars => AuthInv'
       
            BY AuthAssumption, TypeStep, PasswordStep, TokenStep, InsertStep, RowsStep, CreatedStep,
           SignInStep, RefusalStep, AnswerStep DEF AuthInv
    <1> QED BY <1>1, <1>2, PTL DEF Spec

\* However many register an address at once, whoever is told 201 owns the account.
THEOREM CreatedOwns == Spec => []CreatedOwnsTheAccount
    <1>1. AuthInv => CreatedOwnsTheAccount BY DEF AuthInv
    <1> QED BY <1>1, Invariance, PTL

\* A token is issued only for the password that was enrolled.
THEOREM SignInsAreEarned == Spec => []SignInIsEarned
    <1>1. AuthInv => SignInIsEarned BY DEF AuthInv
    <1> QED BY <1>1, Invariance, PTL

\* A sign-in with that password is refused only while the account is missing, without
\* it or inactive.
THEOREM TheEnrolledSignIn == Spec => []EnrolledCanSignIn
    <1>1. AuthInv => EnrolledCanSignIn BY DEF AuthInv
    <1> QED BY <1>1, Invariance, PTL

\* Requests are served and forbidden by the account as it is, not as the token
\* was issued, and never with an expired one.
THEOREM AnswersFollowTheAccount == Spec => []AnswersAreCurrent
    <1>1. AuthInv => AnswersAreCurrent BY DEF AuthInv
    <1> QED BY <1>1, Invariance, PTL

=============================================================================
