------------------------------- MODULE Accounts -------------------------------
(***************************************************************************)
(* Accounts and sessions of the API: Register, Login and the requests that *)
(* pass AuthSessionMiddleware.  A handler is a chain of statements to      *)
(* Postgres and commands to Redis without a transaction:                   *)
(*                                                                         *)
(*   Register   SELECT by address, INSERT, SET of the session key;         *)
(*   Login      SELECT by address, password compared, SET;                 *)
(*   request    GET of the session key, SELECT of its user, handler.       *)
(*                                                                         *)
(* Those of several clients interleave, each may fail with or without      *)
(* having been executed, and a request may be cut off between any two.     *)
(*                                                                         *)
(* An address is a pair of the mailbox and the way it is typed; a secret   *)
(* is a pair of the client who knows the password and the way it is typed. *)
(* PrepareCreate brings both to the plain form; the SELECTs do not.        *)
(***************************************************************************)
EXTENDS FiniteSets

CONSTANTS
  Clients,   \* people with a browser, each with a password of their own
  Mailbox,   \* the mailbox each of them registers; it may be another's too
  Keys,      \* session keys (UUIDs; one that nobody holds may come again)
  Faults,    \* of "db", "redis": a call fails
  None

ASSUME AccountsAssumption ==
  /\ Faults \subseteq {"db", "redis"}
  /\ None \notin Keys

VARIABLES
  users,     \* the rows of users; email is UNIQUE
  sessions,  \* api-session:<uuid>, with the user it is for
  jar,       \* the session cookie in a client's browser
  req,       \* the request a client waits for
  report,    \* history: what the client heard about the account it made
  same       \* history: it registered that account with an address and a
             \* password typed as they are stored

vars == <<users, sessions, jar, req, report, same>>

-----------------------------------------------------------------------------
\* "odd" is another case or spaces around it; "malformed" is what
\* PrepareCreate refuses: no address, or one with a role it does not know.
AddressForms == {"plain", "odd", "malformed"}
SecretForms == {"plain", "padded"}
Addresses == {Mailbox[c] : c \in Clients} \X AddressForms
Secrets == Clients \X SecretForms
Users == [email : Addresses, secret : Secrets]
Owner(u) == u.secret[1]

\* PrepareCreate: lower case and no spaces around.  A mutant only checks.
Normal_AsTyped(a) == a
Normal(a) == IF a[2] = "malformed" THEN a ELSE <<a[1], "plain">>
\* Its strings.TrimSpace of the password.
Trimmed(secret) == <<secret[1], "plain">>

FindByEmail(a) == {u \in users : u.email = a}
\* A fresh UUID: nobody refers to it.
Unused == {k \in Keys : /\ sessions[k] = None
                        /\ \A c \in Clients : jar[c] # k /\ req[c].key # k}

Idle == [at |-> "idle", op |-> "none", email |-> None, secret |-> None,
         user |-> None, key |-> None]
Asks(c, at, op, a, s) ==
  req' = [req EXCEPT ![c] = [Idle EXCEPT !.at = at, !.op = op, !.email = a, !.secret = s]]
Goes(c, at, u) ==
  req' = [req EXCEPT ![c] = [Idle EXCEPT !.at = at, !.op = req[c].op, !.user = u]]
Answered(c) == req' = [req EXCEPT ![c] = Idle]
At(c, at, op) == req[c].at = at /\ req[c].op = op
Registers(c) == req[c].op = "register"

Init ==
  /\ users = {}
  /\ sessions = [k \in Keys |-> None]
  /\ jar = [c \in Clients |-> None]
  /\ req = [c \in Clients |-> Idle]
  /\ report = [c \in Clients |-> "none"]
  /\ same = [c \in Clients |-> FALSE]

-----------------------------------------------------------------------------
(* Register                                                                *)

Owns(c) == \E u \in users : Owner(u) = c

Register(c) ==
  /\ req[c] = Idle
  /\ \E a \in {Mailbox[c]} \X AddressForms, s \in {c} \X SecretForms :
       /\ Asks(c, "find", "register", a, s)
       /\ same' = IF Owns(c) THEN same
                  ELSE [same EXCEPT ![c] = a[2] = "plain" /\ s[2] = "plain"]
  /\ UNCHANGED <<users, sessions, jar, report>>

\* FindByEmail returned a user: "already exists".
RegisterFinds(c) ==
  /\ At(c, "find", "register") /\ FindByEmail(req[c].email) # {}
  /\ Answered(c)
  /\ UNCHANGED <<users, sessions, jar, report, same>>

\* It returned an error.  That of a broken connection is taken for "no such
\* row" as well.  PrepareCreate then refuses what is not an address, and an
\* unknown role.
RegisterFindsNone(c) ==
  /\ At(c, "find", "register")
  /\ FindByEmail(req[c].email) = {} \/ "db" \in Faults
  /\ LET a == Normal(req[c].email)
     IN IF a[2] = "malformed" THEN Answered(c)
        ELSE Asks(c, "insert", "register", a, Trimmed(req[c].secret))
  /\ UNCHANGED <<users, sessions, jar, report, same>>

NewUser(c) == [email |-> req[c].email, secret |-> req[c].secret]
Vacant(c) == \A u \in users : u.email # req[c].email

\* A mutant: as createVideoQuery, createUser has no RETURNING.
Insert_NoReturning(c) ==
  /\ At(c, "insert", "register") /\ Vacant(c)
  /\ users' = users \cup {NewUser(c)}
  /\ Answered(c)
  /\ UNCHANGED <<sessions, jar, report, same>>

\* INSERT ... RETURNING *.
Insert(c) ==
  /\ At(c, "insert", "register") /\ Vacant(c)
  /\ users' = users \cup {NewUser(c)}
  /\ Goes(c, "set", NewUser(c))
  /\ UNCHANGED <<sessions, jar, report, same>>

\* A mutant: ON CONFLICT (email) DO UPDATE ... RETURNING *.
InsertRefused_OnConflict(c) ==
  /\ At(c, "insert", "register") /\ ~Vacant(c)
  /\ \E u \in FindByEmail(req[c].email) : Goes(c, "set", u)
  /\ UNCHANGED <<users, sessions, jar, report, same>>

\* The address was taken between the two statements, or was typed in an odd
\* way, so that the SELECT missed it: UNIQUE refuses the row.
InsertRefused(c) ==
  /\ At(c, "insert", "register") /\ ~Vacant(c)
  /\ Answered(c)
  /\ UNCHANGED <<users, sessions, jar, report, same>>

\* The call fails, perhaps after the row was committed.
InsertFails(c) ==
  /\ "db" \in Faults /\ At(c, "insert", "register")
  /\ \/ UNCHANGED <<users, report>>
     \/ /\ Vacant(c)
        /\ users' = users \cup {NewUser(c)}
        /\ report' = [report EXCEPT ![c] = "unheard"]
  /\ Answered(c)
  /\ UNCHANGED <<sessions, jar, same>>

-----------------------------------------------------------------------------
(* Login                                                                   *)

\* What was typed is used as it is.  (The validator refuses what is not an
\* address before anything is asked.)
Login(c, form, padding) ==
  /\ req[c] = Idle
  /\ Asks(c, "find", "login", <<Mailbox[c], form>>, <<c, padding>>)
  /\ UNCHANGED <<users, sessions, jar, report, same>>

\* The row is there and the password compares.
LoginFinds(c) ==
  /\ At(c, "find", "login")
  /\ \E u \in FindByEmail(req[c].email) :
       u.secret = req[c].secret /\ Goes(c, "set", u)
  /\ UNCHANGED <<users, sessions, jar, report, same>>

\* No row, another password, or the SELECT fails.
LoginRefused(c) ==
  /\ At(c, "find", "login")
  /\ \/ \A u \in FindByEmail(req[c].email) : u.secret # req[c].secret
     \/ "db" \in Faults
  /\ Answered(c)
  /\ UNCHANGED <<users, sessions, jar, report, same>>

-----------------------------------------------------------------------------
(* Sessions                                                                *)

\* A mutant: only Register's handler has the reply set the cookie.
CreateSession_LoginNoCookie(c) ==
  /\ req[c].at = "set" /\ Unused # {}
  /\ LET k == CHOOSE k \in Unused : TRUE
     IN /\ sessions' = [sessions EXCEPT ![k] = req[c].user]
        /\ jar' = IF Registers(c) THEN [jar EXCEPT ![c] = k] ELSE jar
  /\ report' = IF Registers(c) THEN [report EXCEPT ![c] = "created"] ELSE report
  /\ Answered(c)
  /\ UNCHANGED <<users, same>>

\* SET of a new key; the reply sets the cookie.
CreateSession(c) ==
  /\ req[c].at = "set" /\ Unused # {}
  /\ LET k == CHOOSE k \in Unused : TRUE
     IN /\ sessions' = [sessions EXCEPT ![k] = req[c].user]
        /\ jar' = [jar EXCEPT ![c] = k]
  /\ report' = IF Registers(c) THEN [report EXCEPT ![c] = "created"] ELSE report
  /\ Answered(c)
  /\ UNCHANGED <<users, same>>

\* The registrant is not told that the account is there.
Unheard(c) ==
  report' = IF Registers(c) /\ req[c].at = "set"
            THEN [report EXCEPT ![c] = "unheard"] ELSE report

\* Redis fails, perhaps with the key set: the reply is an error.
SessionFails(c) ==
  /\ "redis" \in Faults /\ req[c].at = "set"
  /\ \/ UNCHANGED sessions
     \/ \E k \in Unused : sessions' = [sessions EXCEPT ![k] = req[c].user]
  /\ Unheard(c) /\ Answered(c)
  /\ UNCHANGED <<users, jar, same>>

\* Session.Expire seconds are over for the key, and for the cookie.
KeyExpires(k) ==
  /\ sessions[k] # None
  /\ sessions' = [sessions EXCEPT ![k] = None]
  /\ UNCHANGED <<users, jar, req, report, same>>

CookieExpires(c) ==
  /\ jar[c] # None
  /\ jar' = [jar EXCEPT ![c] = None]
  /\ UNCHANGED <<users, sessions, req, report, same>>

-----------------------------------------------------------------------------
(* Requests behind AuthSessionMiddleware                                   *)

Request(c) ==
  /\ req[c] = Idle /\ jar[c] # None
  /\ req' = [req EXCEPT ![c] = [Idle EXCEPT !.at = "lookup", !.op = "request", !.key = jar[c]]]
  /\ UNCHANGED <<users, sessions, jar, report, same>>

\* GetSessionByID
SessionFound(c) ==
  /\ req[c].at = "lookup" /\ sessions[req[c].key] # None
  /\ Goes(c, "load", sessions[req[c].key])
  /\ UNCHANGED <<users, sessions, jar, report, same>>

SessionMissing(c) ==
  /\ req[c].at = "lookup"
  /\ sessions[req[c].key] = None \/ "redis" \in Faults
  /\ Answered(c)
  /\ UNCHANGED <<users, sessions, jar, report, same>>

\* GetByID; from here on the session is not looked at again.
LoadUser(c) ==
  /\ req[c].at = "load" /\ req[c].user \in users
  /\ Goes(c, "handler", req[c].user)
  /\ UNCHANGED <<users, sessions, jar, report, same>>

LoadFails(c) ==
  /\ req[c].at = "load"
  /\ req[c].user \notin users \/ "db" \in Faults
  /\ Answered(c)
  /\ UNCHANGED <<users, sessions, jar, report, same>>

Replies(c) ==
  /\ req[c].at = "handler"
  /\ Answered(c)
  /\ UNCHANGED <<users, sessions, jar, report, same>>

\* None of the handlers behind the session changes anything: one answers with
\* the user the middleware has loaded, ...
GetMe(c) == Replies(c)

\* ... one is refused if the user in the path is another, and by Postgres
\* otherwise, which does not COALESCE a text and a user_role, ...
Update(c) == Replies(c)

\* ... and the row of the statistics does not scan into StorageUsage.
GetUserStorageStats(c) == Replies(c)

\* The client's connection breaks, or the server stops: its Shutdown is that
\* of an http.Server which never served, and waits for nobody.
Cut(c) ==
  /\ req[c] # Idle
  /\ Unheard(c) /\ Answered(c)
  /\ UNCHANGED <<users, sessions, jar, same>>

-----------------------------------------------------------------------------
Registering(c) == RegisterFinds(c) \/ RegisterFindsNone(c) \/ Insert(c) \/ InsertRefused(c)
LoggingIn(c) == LoginFinds(c) \/ LoginRefused(c)
AuthSession(c) ==
  \/ SessionFound(c) \/ SessionMissing(c) \/ LoadUser(c) \/ LoadFails(c)
  \/ GetMe(c) \/ Update(c) \/ GetUserStorageStats(c)
Serve(c) == Registering(c) \/ LoggingIn(c) \/ CreateSession(c) \/ AuthSession(c)

Next ==
  \/ \E c \in Clients :
       \/ Register(c) \/ Request(c)
       \/ \E f \in {"plain", "odd"}, p \in SecretForms : Login(c, f, p)
       \/ Serve(c) \/ InsertFails(c) \/ SessionFails(c) \/ Cut(c) \/ CookieExpires(c)
  \/ \E k \in Keys : KeyExpires(k)

Spec == Init /\ [][Next]_vars

\* The server goes on with its requests, keys expire; clients keep trying to
\* log in with what they registered with, and not every SELECT or SET of
\* theirs fails.  (What that does for who typed it in another form is not
\* asked: the row is in the plain form, and Login looks for what was typed.)
FairSpec ==
  /\ Spec
  /\ WF_vars(\E k \in Keys : KeyExpires(k))
  /\ \A c \in Clients :
       /\ WF_vars(Serve(c))
       /\ SF_vars(same[c] /\ Login(c, "plain", "plain"))
       /\ SF_vars(LoginFinds(c)) /\ SF_vars(CreateSession(c))

-----------------------------------------------------------------------------
(* Properties                                                              *)

\* Type correctness; what is stored is in its plain form.
TypeOK ==
  /\ users \subseteq Users
  /\ \A u \in users : u.email[2] = "plain" /\ u.secret[2] = "plain"
  /\ sessions \in [Keys -> Users \cup {None}]
  /\ jar \in [Clients -> Keys \cup {None}]
  /\ report \in [Clients -> {"none", "unheard", "created"}]
  /\ same \in [Clients -> BOOLEAN]
  /\ \A c \in Clients :
       /\ req[c].at \in {"idle", "find", "insert", "set", "lookup", "load", "handler"}
       /\ req[c].op \in {"none", "register", "login", "request"}
       /\ req[c].user \in Users \cup {None} /\ req[c].key \in Keys \cup {None}

\* However registrations race, and in whichever way the address is typed, a
\* mailbox has one account: the SELECT before the INSERT does not see to it.
OneAccountPerMailbox ==
  \A u, w \in users : u.email[1] = w.email[1] => u = w

\* No client ever acts for somebody else's account: not the loser of a race
\* for an address, and not a request whose session ended between the two
\* lookups of the middleware.  Every session is for an account that exists.
SessionIsOwn ==
  /\ \A k \in Keys : sessions[k] # None => sessions[k] \in users
  /\ \A c \in Clients :
       /\ jar[c] # None /\ sessions[jar[c]] # None => Owner(sessions[jar[c]]) = c
       /\ req[c].user # None => req[c].user \in users /\ Owner(req[c].user) = c

\* A client that has an account heard of it, unless a call failed or the
\* request was cut off after the INSERT; and who heard of one has it.
RegistrationReported ==
  \A c \in Clients :
    /\ report[c] = "created" => Owns(c)
    /\ Owns(c) => report[c] \in {"created", "unheard"} \/ Registers(c)

\* A registration that ended half-way - account made, session and reply not -
\* locks out nobody who typed address and password as they are stored: such an
\* owner gets in by typing the same again.  Whoever registered an address in
\* another case, or a password with spaces around it, does not.
OwnerGetsIn ==
  \A c \in Clients :
    Owns(c) /\ same[c] ~> jar[c] # None /\ sessions[jar[c]] # None

=============================================================================
