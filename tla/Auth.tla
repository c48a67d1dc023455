-------------------------------- MODULE Auth --------------------------------
(***************************************************************************)
(* Accounts, sign-in and authorised requests: services/auth_service.py,    *)
(* security/passwords.py, jwt_handler.py, authentication.py,               *)
(* api_security.py, rbac.py and the users table.                           *)
(*                                                                         *)
(* A client makes one HTTP request at a time; a step is one statement the  *)
(* database executes.  An operator may deactivate an account or change its *)
(* role at any moment (no route does).  A password is a value with a       *)
(* normal form; what bcrypt keeps of a form is its prefix.                 *)
(***************************************************************************)
EXTENDS Naturals

CONSTANTS
    Clients,       \* who makes requests
    Emails,        \* users.email
    NoAccount,     \* no row with this email
    NoHash,        \* a row whose password_hash is NULL
    NoOne,         \* no uncommitted insert holds the unique key
    NoToken,       \* no Authorization header
    NoPassword,    \* a request that gives none
    NoNeed,        \* a route that is open to everyone
    Raw,           \* passwords as typed
    Forms,         \* their NFKC normal forms
    FormOf,        \* normalize_password
    Size,          \* characters, UTF-8 bytes and NULs of a form
    PrefixOf,      \* the part of a form bcrypt looks at
    MinimumLength, \* MINIMUM_LENGTH
    MaximumBytes,  \* MAXIMUM_BYTES
    Lifetime,      \* JWT_EXPIRE_MINUTES
    Routes,        \* permissions of the protected routes that are called
    Members,       \* clients that sign in and call routes; all of them register
    Assignable,    \* roles an operator gives
    MaxClock       \* bound on the modelled time

Roles == {"admin", "researcher", "viewer"}

Permissions == {"document:read", "document:write", "agent:run",
                "search:query", "workspace:read", "workspace:write"}

ASSUME AuthAssumption ==
    /\ NoAccount \notin [hash : Forms \cup {NoHash}, role : Roles, active : BOOLEAN]
    /\ NoHash \notin Forms
    /\ NoOne \notin Clients
    /\ NoToken \notin [email : Emails, role : Roles, exp : Nat]
    /\ NoPassword \notin Raw /\ NoNeed \notin Permissions
    /\ FormOf \in [Raw -> Forms]
    /\ Size \in [Forms -> [chars : Nat, bytes : Nat, nul : BOOLEAN]]
    /\ PrefixOf \in [Forms -> Forms]
    /\ \A f \in Forms : Size[f].bytes <= MaximumBytes => PrefixOf[f] = f
    /\ MinimumLength \in Nat /\ MaximumBytes \in Nat
    /\ Lifetime \in Nat \ {0}
    /\ MaxClock \in Nat
    /\ Assignable \subseteq Roles
    /\ Routes \subseteq Permissions
    /\ Members \subseteq Clients

VARIABLES
    account,    \* the users row of each email
    inserting,  \* the client whose uncommitted insert holds the unique key
    clock,      \* wall clock
    phase,      \* where each client's request is, or how it was answered
    about,      \* the email it names
    given,      \* the password it gives
    creds,      \* the credentials its login has read
    token,      \* the access token the client keeps
    need,       \* the permission of the route it calls
    began,      \* when its request began
    since       \* every value of the account's row since then

request == <<phase, about, given, creds, token, need, began>>
vars == <<account, inserting, clock, request, since>>

-----------------------------------------------------------------------------
(* Policy: rbac.py and passwords.py.                                       *)

\* RBACPolicy.PERMISSIONS: an administrator holds every permission there is.
PermissionsOf ==
    [r \in Roles |-> IF r = "viewer" THEN {"document:read", "search:query", "workspace:read"}
                     ELSE Permissions]

HasPermission(role, perm) == perm \in PermissionsOf[role]

\* The route's dependency: the role of the account's row decides.
RequirePermission(role, perm) == IF HasPermission(role, perm) THEN "served" ELSE "forbidden"

\* validate_password: judged in the form that will be hashed.
ValidPassword(p) ==
    LET size == Size[FormOf[p]]
    IN  /\ size.chars >= MinimumLength
        /\ size.bytes <= MaximumBytes
        /\ ~size.nul

\* What bcrypt keeps of a password (external).
Bcrypt(f) == PrefixOf[f]

\* hash_password.
HashPassword(p) == Bcrypt(FormOf[p])

\* Mutant: a candidate longer than bcrypt reads is compared anyway.
VerifyTruncated(p, hash) == hash # NoHash /\ Bcrypt(FormOf[p]) = hash

\* Mutant: the policy's minimum is applied to sign-in too, and off by one.
VerifyStrict(p, hash) ==
    hash # NoHash /\ Size[FormOf[p]].chars > MinimumLength /\ Bcrypt(FormOf[p]) = hash

\* verify_password: no hash matches nothing, and neither does a longer candidate.
VerifyPassword(p, hash) ==
    /\ hash # NoHash
    /\ Size[FormOf[p]].bytes <= MaximumBytes
    /\ Bcrypt(FormOf[p]) = hash

-----------------------------------------------------------------------------
Account == [hash : Forms \cup {NoHash}, role : Roles, active : BOOLEAN]
Token == [email : Emails, role : Roles, exp : Nat]

Answers == {"created", "taken", "invalid", "signedIn", "refused",
            "served", "unauthenticated", "forbidden", "failed"}
Phases == {"idle", "flush", "commit", "credentials", "compare", "lookup"} \cup Answers

TypeOK ==
    /\ account \in [Emails -> Account \cup {NoAccount}]
    /\ inserting \in [Emails -> Clients \cup {NoOne}]
    /\ clock \in 0..MaxClock
    /\ phase \in [Clients -> Phases]
    /\ about \in [Clients -> Emails]
    /\ given \in [Clients -> Raw \cup {NoPassword}]
    /\ creds \in [Clients -> Account \cup {NoAccount}]
    /\ token \in [Clients -> Token \cup {NoToken}]
    /\ need \in [Clients -> Permissions \cup {NoNeed}]
    /\ began \in [Clients -> 0..MaxClock]
    /\ since \in [Clients -> SUBSET (Account \cup {NoAccount})]

\* Rows from before credentials existed have no password.
Legacy == [hash |-> NoHash, role |-> "researcher", active |-> TRUE]

Init ==
    /\ account \in [Emails -> {NoAccount, Legacy}]
    /\ inserting = [e \in Emails |-> NoOne]
    /\ clock = 0
    /\ phase = [c \in Clients |-> "idle"]
    /\ about \in {[c \in Clients |-> e] : e \in Emails}
    /\ given = [c \in Clients |-> NoPassword]
    /\ creds = [c \in Clients |-> NoAccount]
    /\ token = [c \in Clients |-> NoToken]
    /\ need = [c \in Clients |-> NoNeed]
    /\ began = [c \in Clients |-> 0]
    /\ since = [c \in Clients |-> {}]

-----------------------------------------------------------------------------
ToPhase(c, p) == phase' = [phase EXCEPT ![c] = p]

\* The row of email e becomes a, in sight of every request about it.
Write(e, a) ==
    /\ account' = [account EXCEPT ![e] = a]
    /\ since' = [c \in Clients |-> IF about[c] = e THEN since[c] \cup {a} ELSE since[c]]

\* A request arrives that names email e.
Begin(c, e, p) ==
    /\ phase[c] = "idle"
    /\ ToPhase(c, p)
    /\ about' = [about EXCEPT ![c] = e]
    /\ began' = [began EXCEPT ![c] = clock]
    /\ since' = [since EXCEPT ![c] = {account[e]}]
    /\ UNCHANGED <<account, inserting, clock, creds>>

(* Registration.                                                           *)

\* POST /auth/register: the schema refuses a bad password before the service runs.
AskRegister(c, e, p) ==
    /\ Begin(c, e, IF ValidPassword(p) THEN "flush" ELSE "invalid")
    /\ given' = [given EXCEPT ![c] = p]
    /\ UNCHANGED <<token, need>>

\* Mutant: the insert does not wait for the other transaction, nor fail.
FlushAnyway(c) ==
    LET e == about[c]
    IN  /\ phase[c] = "flush"
        /\ \/ /\ inserting' = [inserting EXCEPT ![e] = c]
              /\ ToPhase(c, "commit")
           \/ ToPhase(c, "failed") /\ UNCHANGED inserting
        /\ UNCHANGED <<account, clock, about, given, creds, token, need, began, since>>

\* UserRepository.create: PostgreSQL makes a second insert of the email wait for
\* the first to end, and refuses it once the row is there (409).
Flush(c) ==
    LET e == about[c]
    IN  /\ phase[c] = "flush"
        /\ inserting[e] = NoOne
        /\ \/ account[e] = NoAccount /\ ToPhase(c, "commit")
                                     /\ inserting' = [inserting EXCEPT ![e] = c]
           \/ account[e] # NoAccount /\ ToPhase(c, "taken") /\ UNCHANGED inserting
           \/ ToPhase(c, "failed") /\ UNCHANGED inserting
        /\ UNCHANGED <<account, clock, about, given, creds, token, need, began, since>>

\* The commit: done, rolled back, or done with its answer lost.
Commit(c) ==
    LET e == about[c]
        new == [hash |-> HashPassword(given[c]), role |-> "researcher", active |-> TRUE]
    IN  /\ phase[c] = "commit"
        /\ inserting' = [inserting EXCEPT ![e] = NoOne]
        /\ \/ Write(e, new) /\ \E p \in {"created", "failed"} : ToPhase(c, p)
           \/ UNCHANGED <<account, since>> /\ ToPhase(c, "failed")
        /\ UNCHANGED <<clock, about, given, creds, token, need, began>>

(* Sign-in.                                                                *)

AskLogin(c, e, p) ==
    /\ Begin(c, e, "credentials")
    /\ given' = [given EXCEPT ![c] = p]
    /\ UNCHANGED <<token, need>>

\* get_credentials_by_email.
ReadCredentials(c) ==
    /\ phase[c] = "credentials"
    /\ \/ creds' = [creds EXCEPT ![c] = account[about[c]]] /\ ToPhase(c, "compare")
       \/ ToPhase(c, "failed") /\ UNCHANGED creds
    /\ UNCHANGED <<account, inserting, clock, about, given, token, need, began, since>>

\* The credentials match and the account is in service, judged in that order.
Accepted(p, read) == read # NoAccount /\ VerifyPassword(p, read.hash) /\ read.active

\* AuthService.login after its read: bcrypt, the active flag, then a token.
Compare(c) ==
    LET read == creds[c]
    IN  /\ phase[c] = "compare"
        /\ IF Accepted(given[c], read)
           THEN /\ token' = [token EXCEPT ![c] = [email |-> about[c], role |-> read.role,
                                                   exp |-> clock + Lifetime]]
                /\ ToPhase(c, "signedIn")
           ELSE ToPhase(c, "refused") /\ UNCHANGED token
        /\ creds' = [creds EXCEPT ![c] = NoAccount]
        /\ UNCHANGED <<account, inserting, clock, about, given, need, began, since>>

(* A request to a protected route.                                         *)

\* HTTPBearer and JWTHandler.verify_token: present, ours and not expired.
VerifyToken(t) == t # NoToken /\ t.exp > clock

Call(c, perm) ==
    /\ Begin(c, IF token[c] = NoToken THEN about[c] ELSE token[c].email,
             IF VerifyToken(token[c]) THEN "lookup" ELSE "unauthenticated")
    /\ need' = [need EXCEPT ![c] = perm]
    /\ UNCHANGED <<given, token>>

\* Mutant: the role is the one the token was issued with.
DecideTokenRole(row, t, perm) ==
    IF row = NoAccount \/ ~row.active THEN "unauthenticated"
    ELSE RequirePermission(t.role, perm)

\* resolve_principal, then the permission: what the row says now decides.
Decide(row, t, perm) ==
    IF row = NoAccount \/ ~row.active THEN "unauthenticated"
    ELSE RequirePermission(row.role, perm)

\* The read of the subject's row, and the decision.
Lookup(c) ==
    /\ phase[c] = "lookup"
    /\ \E p \in {Decide(account[about[c]], token[c], need[c]), "failed"} : ToPhase(c, p)
    /\ UNCHANGED <<account, inserting, clock, about, given, creds, token, need, began, since>>

(* Around them.                                                            *)

\* The response is out, and nothing of the request is kept.
Respond(c) ==
    /\ phase[c] \in Answers
    /\ ToPhase(c, "idle")
    /\ given' = [given EXCEPT ![c] = NoPassword]
    /\ need' = [need EXCEPT ![c] = NoNeed]
    /\ began' = [began EXCEPT ![c] = 0]
    /\ since' = [since EXCEPT ![c] = {}]
    /\ UNCHANGED <<account, inserting, clock, about, creds, token>>

\* Mutant: the abandoned transaction stays open.
CrashLeavesOpen(c) ==
    /\ phase[c] \in Phases \ (Answers \cup {"idle"})
    /\ ToPhase(c, "failed")
    /\ creds' = [creds EXCEPT ![c] = NoAccount]
    /\ UNCHANGED <<account, inserting, clock, about, given, token, need, began, since>>

\* The process serving c dies: PostgreSQL rolls an open insert back.
Crash(c) ==
    /\ phase[c] \in Phases \ (Answers \cup {"idle"})
    /\ ToPhase(c, "failed")
    /\ inserting' = [e \in Emails |-> IF inserting[e] = c THEN NoOne ELSE inserting[e]]
    /\ creds' = [creds EXCEPT ![c] = NoAccount]
    /\ UNCHANGED <<account, clock, about, given, token, need, began, since>>

\* An operator deactivates, reactivates or re-roles an account (external).
Operate(e, role, active) ==
    /\ account[e] # NoAccount
    /\ Write(e, [account[e] EXCEPT !.role = role, !.active = active])
    /\ UNCHANGED <<inserting, clock, request>>

Tick ==
    /\ clock < MaxClock
    /\ clock' = clock + 1
    /\ UNCHANGED <<account, inserting, request, since>>

-----------------------------------------------------------------------------
Step(c) == Flush(c) \/ Commit(c) \/ ReadCredentials(c) \/ Compare(c) \/ Lookup(c) \/ Respond(c)

Asking(c) == \/ \E e \in Emails, p \in Raw : AskRegister(c, e, p)
             \/ /\ c \in Members
                /\ \/ \E e \in Emails, p \in Raw : AskLogin(c, e, p)
                   \/ \E perm \in Routes : Call(c, perm)

Next ==
    \/ \E c \in Clients : Step(c) \/ Asking(c) \/ Crash(c)
    \/ \E e \in Emails, role \in Assignable, active \in BOOLEAN : Operate(e, role, active)
    \/ Tick

Spec == Init /\ [][Next]_vars

\* The event loop runs every request on, and PostgreSQL queues those that wait for
\* one key; nothing makes a client ask, an operator act, or time pass.
FairSpec == Spec /\ \A c \in Clients : WF_vars(Step(c)) /\ SF_vars(Flush(c))

-----------------------------------------------------------------------------
(* Properties.                                                             *)

\* Whoever is told 201 owns the account: of any number of simultaneous
\* registrations of an address at most one succeeds, and its password is the one
\* that is stored, whatever commits, crashes and lost answers surround it.
CreatedOwnsTheAccount ==
    \A c \in Clients : phase[c] = "created" =>
        /\ account[about[c]] # NoAccount
        /\ account[about[c]].hash = FormOf[given[c]]
        /\ \A b \in Clients : phase[b] = "created" /\ about[b] = about[c] => b = c

\* A token is issued only to a client whose password has the stored normal form
\* (never to one that merely shares the 72 bytes bcrypt reads), for an account
\* that was active at some moment of the sign-in.
SignInIsEarned ==
    \A c \in Clients : phase[c] = "signedIn" =>
        \E a \in since[c] : a # NoAccount /\ a.active /\ a.hash = FormOf[given[c]]

\* What was enrolled can be used: a sign-in with a password of the enrolled
\* normal form, however it was typed, is refused only if the account was missing,
\* had no such password or was inactive at some moment of the sign-in.
EnrolledCanSignIn ==
    \A c \in Clients : phase[c] = "refused" =>
        \E a \in since[c] : a = NoAccount \/ ~a.active \/ a.hash # FormOf[given[c]]

\* No session outlives deactivation, demotion or expiry: a served request began
\* before its token expired, and since it began there was a moment at which the
\* account was active with a role that holds the permission. Likewise 403 is for a
\* caller who is known: there was a moment at which the account was active with a
\* role that lacks it; an unknown one gets 401 ("No token or a bad one: 401").
AnswersAreCurrent ==
    \A c \in Clients :
        /\ phase[c] = "served" =>
              /\ token[c].exp > began[c]
              /\ \E a \in since[c] : a # NoAccount /\ a.active /\ need[c] \in PermissionsOf[a.role]
        /\ phase[c] = "forbidden" =>
              \E a \in since[c] : a # NoAccount /\ a.active /\ need[c] \notin PermissionsOf[a.role]

\* Every request is answered: an insert that waits for another registration of
\* the same address does not wait for ever, even when that one's process dies.
EveryRequestIsAnswered ==
    \A c \in Clients : phase[c] # "idle" ~> phase[c] \in Answers

=============================================================================
