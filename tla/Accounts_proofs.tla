--------------------------- MODULE Accounts_proofs ---------------------------
(***************************************************************************)
(* Proofs about Accounts, for any clients, mailboxes, session keys and     *)
(* faults.                                                                 *)
(***************************************************************************)
EXTENDS Accounts, TLAPS

Requests ==
  [at : {"idle", "find", "insert", "set", "lookup", "load", "handler"},
   op : {"none", "register", "login", "request"},
   email : Addresses \cup {None}, secret : Secrets \cup {None},
   user : Users \cup {None}, key : Keys \cup {None}]

\* The table: rows in the plain form, the address UNIQUE.
RowsOK ==
  /\ users \subseteq Users
  /\ \A u \in users : u.email[2] = "plain" /\ u.secret[2] = "plain"
  /\ \A u, w \in users : u.email = w.email => u = w

\* A request r that client c may wait for, given rows and session keys: it asks
\* with the client's own secret, inserts plain forms, and goes on for the
\* client's own account.
Fits(c, r, rows, keys) ==
  /\ r \in Requests
  /\ r.at \in {"find", "insert"} => r.email \in Addresses /\ r.secret \in {c} \X SecretForms
  /\ r.at = "insert" => r.email[2] = "plain" /\ r.secret[2] = "plain"
  /\ r.at \in {"set", "load", "handler"} => r.user \in rows /\ Owner(r.user) = c
  /\ r.at \notin {"set", "load", "handler"} => r.user = None
  /\ r.at = "lookup" =>
       r.key \in Keys /\ (keys[r.key] # None => Owner(keys[r.key]) = c)
  /\ r.at # "lookup" => r.key = None

\* A session is for a row that is there, a cookie for a session of one's own.
SessionsOK == sessions \in [Keys -> users \cup {None}]
JarOK(c) == jar[c] # None /\ sessions[jar[c]] # None => Owner(sessions[jar[c]]) = c
JarsOK == jar \in [Clients -> Keys \cup {None}] /\ \A c \in Clients : JarOK(c)
ReqsOK == req \in [Clients -> Requests] /\ \A c \in Clients : Fits(c, req[c], users, sessions)
ReportsOK == /\ report \in [Clients -> {"none", "unheard", "created"}]
             /\ same \in [Clients -> BOOLEAN]

IInv == RowsOK /\ SessionsOK /\ JarsOK /\ ReqsOK /\ ReportsOK

-----------------------------------------------------------------------------
(* How a step changes one request                                          *)

LEMMA IdleFits ==
  ASSUME NEW c, NEW rows, NEW keys
  PROVE  Fits(c, Idle, rows, keys)
BY DEF Fits, Idle, Requests

LEMMA FitsKept ==
  ASSUME NEW c \in Clients, NEW r, NEW rows, NEW keys, NEW rows2, NEW keys2,
         Fits(c, r, rows, keys), rows \subseteq rows2,
         r.at = "lookup" => keys2[r.key] \in {keys[r.key], None}
  PROVE  Fits(c, r, rows2, keys2)
BY DEF Fits

\* Session keys that requests look up only go.
KeysOnlyGo ==
  \A d \in Clients : req[d].at = "lookup" =>
    sessions'[req[d].key] \in {sessions[req[d].key], None}

\* The request of one client becomes r, everybody else's stays.
LEMMA ReqReplaced ==
  ASSUME ReqsOK, NEW c \in Clients, NEW r, req' = [req EXCEPT ![c] = r],
         Fits(c, r, users', sessions'), users \subseteq users', KeysOnlyGo
  PROVE  ReqsOK'
<1>1. req' \in [Clients -> Requests]
  BY DEF ReqsOK, Fits
<1>2. ASSUME NEW d \in Clients PROVE Fits(d, req'[d], users', sessions')
  <2>1. CASE d = c
    BY <2>1 DEF ReqsOK
  <2>2. CASE d # c
    <3>1. req'[d] = req[d]
      BY <2>2 DEF ReqsOK
    <3>2. Fits(d, req[d], users, sessions)
      BY DEF ReqsOK
    <3>3. QED
      BY <3>1, <3>2, FitsKept DEF KeysOnlyGo
  <2>3. QED
    BY <2>1, <2>2
<1>3. QED
  BY <1>1, <1>2 DEF ReqsOK

LEMMA ReqsUntouched ==
  ASSUME ReqsOK, UNCHANGED <<req, users>>, KeysOnlyGo
  PROVE  ReqsOK'
<1>1. ASSUME NEW d \in Clients PROVE Fits(d, req[d], users', sessions')
  <2>1. Fits(d, req[d], users, sessions)
    BY DEF ReqsOK
  <2>2. QED
    BY <2>1, FitsKept DEF KeysOnlyGo
<1>2. QED
  BY <1>1 DEF ReqsOK

\* A step that only answers, or only moves on, keeps the rest.
LEMMA ReqStep ==
  ASSUME IInv, NEW c \in Clients, NEW r, req' = [req EXCEPT ![c] = r],
         UNCHANGED <<users, sessions, jar>>, Fits(c, r, users, sessions), ReportsOK'
  PROVE  IInv'
<1>1. KeysOnlyGo
  BY DEF KeysOnlyGo
<1>2. ReqsOK'
  BY <1>1, ReqReplaced DEF IInv
<1>3. RowsOK' /\ SessionsOK' /\ JarsOK'
  BY DEF IInv, RowsOK, SessionsOK, JarsOK, JarOK
<1>4. QED
  BY <1>2, <1>3 DEF IInv

LEMMA AnswerStep ==
  ASSUME IInv, NEW c \in Clients, Answered(c), UNCHANGED <<users, sessions, jar>>, ReportsOK'
  PROVE  IInv'
BY IdleFits, ReqStep DEF Answered

LEMMA AskStep ==
  ASSUME IInv, NEW c \in Clients, NEW at \in {"find", "insert"},
         NEW op \in {"register", "login"}, NEW a \in Addresses,
         NEW s \in {c} \X SecretForms, Asks(c, at, op, a, s),
         at = "insert" => a[2] = "plain" /\ s[2] = "plain",
         UNCHANGED <<users, sessions, jar>>, ReportsOK'
  PROVE  IInv'
<1> DEFINE r == [Idle EXCEPT !.at = at, !.op = op, !.email = a, !.secret = s]
<1>1. s \in Secrets
  BY DEF Secrets
<1>2. Fits(c, r, users, sessions)
  BY <1>1 DEF Fits, Idle, Requests
<1>3. req' = [req EXCEPT ![c] = r]
  BY DEF Asks
<1> HIDE DEF r
<1>4. QED
  BY <1>2, <1>3, ReqStep

LEMMA GoStep ==
  ASSUME IInv, NEW c \in Clients, NEW at \in {"set", "load", "handler"},
         NEW u \in users, Owner(u) = c, Goes(c, at, u),
         UNCHANGED <<users, sessions, jar, report, same>>
  PROVE  IInv'
<1> DEFINE r == [Idle EXCEPT !.at = at, !.op = req[c].op, !.user = u]
<1>1. u \in Users /\ req[c] \in Requests
  BY DEF IInv, RowsOK, ReqsOK
<1>2. req[c].op \in {"none", "register", "login", "request"}
  BY <1>1 DEF Requests
<1>3. Fits(c, r, users, sessions)
  BY <1>1, <1>2 DEF Fits, Idle, Requests
<1>4. ReportsOK'
  BY DEF IInv, ReportsOK
<1>5. req' = [req EXCEPT ![c] = r]
  BY DEF Goes
<1> HIDE DEF r
<1>6. QED
  BY <1>3, <1>4, <1>5, ReqStep

-----------------------------------------------------------------------------
(* The actions                                                             *)

LEMMA ReportType ==
  ASSUME ReportsOK, NEW c \in Clients, NEW what \in {"none", "unheard", "created"},
         report' = [report EXCEPT ![c] = what] \/ UNCHANGED report,
         same' = same
  PROVE  ReportsOK'
BY DEF ReportsOK

LEMMA UnheardType ==
  ASSUME ReportsOK, NEW c \in Clients, Unheard(c), same' = same
  PROVE  ReportsOK'
BY ReportType DEF Unheard

\* The statements of Register before the INSERT ...
LEMMA RegisterStep ==
  ASSUME IInv, NEW c \in Clients, Register(c) \/ RegisterFinds(c) \/ RegisterFindsNone(c)
  PROVE  IInv'
<1>0. UNCHANGED <<report, same>> => ReportsOK'
  BY DEF IInv, ReportsOK
<1>1. CASE Register(c)
  <2>1. PICK a \in {Mailbox[c]} \X AddressForms, s \in {c} \X SecretForms :
          /\ Asks(c, "find", "register", a, s)
          /\ same' = IF Owns(c) THEN same
                     ELSE [same EXCEPT ![c] = a[2] = "plain" /\ s[2] = "plain"]
    BY <1>1 DEF Register
  <2>2. a \in Addresses
    BY DEF Addresses
  <2>3. ReportsOK'
    BY <1>1, <2>1 DEF Register, IInv, ReportsOK
  <2>4. QED
    BY <1>1, <2>1, <2>2, <2>3, AskStep DEF Register
<1>2. CASE RegisterFinds(c)
  BY <1>0, <1>2, AnswerStep DEF RegisterFinds
<1>3. CASE RegisterFindsNone(c)
  <2> DEFINE a == Normal(req[c].email)
             s == Trimmed(req[c].secret)
  <2>1. req[c].email \in Addresses /\ req[c].secret \in {c} \X SecretForms
    BY <1>3 DEF RegisterFindsNone, At, IInv, ReqsOK, Fits
  <2>2. a \in Addresses /\ (a[2] = "malformed" \/ a[2] = "plain")
    BY <2>1 DEF Normal, Addresses, AddressForms
  <2>3. s \in {c} \X SecretForms /\ s[2] = "plain"
    BY <2>1 DEF Trimmed, SecretForms
  <2>4. CASE a[2] = "malformed"
    BY <1>0, <1>3, <2>4, AnswerStep DEF RegisterFindsNone
  <2>5. CASE a[2] # "malformed"
    <3>1. Asks(c, "insert", "register", a, s) /\ UNCHANGED <<users, sessions, jar, report, same>>
      BY <1>3, <2>5 DEF RegisterFindsNone
    <3> HIDE DEF a, s
    <3>2. QED
      BY <1>0, <2>2, <2>3, <2>5, <3>1, AskStep
  <2>6. QED
    BY <2>4, <2>5
<1>4. QED
  BY <1>1, <1>2, <1>3

\* ... and the INSERT, of a row whose address is not taken.
LEMMA NewRow ==
  ASSUME IInv, NEW c \in Clients, At(c, "insert", "register"), Vacant(c),
         users' = users \cup {NewUser(c)}, UNCHANGED <<sessions, jar>>
  PROVE  RowsOK' /\ SessionsOK' /\ JarsOK' /\ users \subseteq users'
         /\ NewUser(c) \in users' /\ Owner(NewUser(c)) = c
<1>1. /\ req[c].email \in Addresses /\ req[c].secret \in {c} \X SecretForms
      /\ req[c].email[2] = "plain" /\ req[c].secret[2] = "plain"
  BY DEF At, IInv, ReqsOK, Fits
<1>2. NewUser(c) \in Users /\ NewUser(c).email = req[c].email /\ NewUser(c).secret = req[c].secret
  BY <1>1 DEF NewUser, Users, Secrets
<1>3. RowsOK'
  BY <1>1, <1>2 DEF IInv, RowsOK, Vacant
<1>4. SessionsOK' /\ JarsOK'
  BY DEF IInv, SessionsOK, JarsOK, JarOK
<1>5. Owner(NewUser(c)) = c
  BY <1>1, <1>2 DEF Owner
<1>6. QED
  BY <1>3, <1>4, <1>5

LEMMA InsertStep ==
  ASSUME IInv, NEW c \in Clients, Insert(c) \/ InsertRefused(c) \/ InsertFails(c)
  PROVE  IInv'
<1>0. UNCHANGED <<report, same>> => ReportsOK'
  BY DEF IInv, ReportsOK
<1>1. CASE Insert(c)
  <2> DEFINE u == NewUser(c)
             r == [Idle EXCEPT !.at = "set", !.op = req[c].op, !.user = u]
  <2>1. RowsOK' /\ SessionsOK' /\ JarsOK' /\ users \subseteq users' /\ u \in users' /\ Owner(u) = c
    BY <1>1, NewRow DEF Insert
  <2>2. req[c] \in Requests /\ u \in Users
    BY <2>1 DEF IInv, ReqsOK, RowsOK
  <2>3. req[c].op \in {"none", "register", "login", "request"}
    BY <2>2 DEF Requests
  <2>4. req' = [req EXCEPT ![c] = r]
    BY <1>1 DEF Insert, Goes
  <2> HIDE DEF u
  <2>5. Fits(c, r, users', sessions')
    BY <2>1, <2>2, <2>3 DEF Fits, Idle, Requests
  <2> HIDE DEF r
  <2>6. KeysOnlyGo
    BY <1>1 DEF Insert, KeysOnlyGo
  <2>7. ReqsOK'
    BY <2>1, <2>4, <2>5, <2>6, ReqReplaced DEF IInv
  <2>8. QED
    BY <1>0, <1>1, <2>1, <2>7 DEF Insert, IInv
<1>2. CASE InsertRefused(c)
  BY <1>0, <1>2, AnswerStep DEF InsertRefused
<1>3. CASE InsertFails(c)
  <2>1. CASE UNCHANGED <<users, report>>
    BY <1>0, <1>3, <2>1, AnswerStep DEF InsertFails
  <2>2. CASE /\ Vacant(c) /\ users' = users \cup {NewUser(c)}
             /\ report' = [report EXCEPT ![c] = "unheard"]
    <3>1. RowsOK' /\ SessionsOK' /\ JarsOK' /\ users \subseteq users'
      BY <1>3, <2>2, NewRow DEF InsertFails
    <3>2. KeysOnlyGo
      BY <1>3 DEF InsertFails, KeysOnlyGo
    <3>3. ReqsOK'
      BY <1>3, <3>1, <3>2, IdleFits, ReqReplaced DEF InsertFails, Answered, IInv
    <3>4. ReportsOK'
      BY <1>3, <2>2, ReportType DEF InsertFails, IInv
    <3>5. QED
      BY <3>1, <3>3, <3>4 DEF IInv
  <2>3. QED
    BY <1>3, <2>1, <2>2 DEF InsertFails
<1>4. QED
  BY <1>1, <1>2, <1>3

LEMMA LoginStep ==
  ASSUME IInv, NEW c \in Clients,
         \/ \E f \in {"plain", "odd"}, p \in SecretForms : Login(c, f, p)
         \/ LoginFinds(c) \/ LoginRefused(c)
  PROVE  IInv'
<1>0. UNCHANGED <<report, same>> => ReportsOK'
  BY DEF IInv, ReportsOK
<1>1. ASSUME NEW f \in {"plain", "odd"}, NEW p \in SecretForms, Login(c, f, p)
      PROVE  IInv'
  <2>1. <<Mailbox[c], f>> \in Addresses /\ <<c, p>> \in {c} \X SecretForms
    BY DEF Addresses, AddressForms
  <2>2. QED
    BY <1>0, <1>1, <2>1, AskStep DEF Login
<1>2. CASE LoginFinds(c)
  <2>1. PICK u \in FindByEmail(req[c].email) : u.secret = req[c].secret /\ Goes(c, "set", u)
    BY <1>2 DEF LoginFinds
  <2>2. req[c].secret \in {c} \X SecretForms
    BY <1>2 DEF LoginFinds, At, IInv, ReqsOK, Fits
  <2>3. u \in users /\ Owner(u) = c
    BY <2>1, <2>2 DEF FindByEmail, Owner
  <2>4. QED
    BY <1>2, <2>1, <2>3, GoStep DEF LoginFinds
<1>3. CASE LoginRefused(c)
  BY <1>0, <1>3, AnswerStep DEF LoginRefused
<1>4. QED
  BY <1>1, <1>2, <1>3

\* A key nobody refers to becomes the session of the row u.
LEMMA NewSession ==
  ASSUME IInv, NEW k \in Unused, NEW u \in users,
         sessions' = [sessions EXCEPT ![k] = u], UNCHANGED users
  PROVE  /\ RowsOK' /\ SessionsOK' /\ KeysOnlyGo
         /\ \A x \in Keys : sessions'[x] = IF x = k THEN u ELSE sessions[x]
<1>1. k \in Keys /\ \A c \in Clients : jar[c] # k /\ req[c].key # k
  BY DEF Unused
<1>2. \A x \in Keys : sessions'[x] = IF x = k THEN u ELSE sessions[x]
  BY <1>1 DEF IInv, SessionsOK
<1>3. RowsOK' /\ SessionsOK'
  BY <1>1 DEF IInv, RowsOK, SessionsOK
<1>4. KeysOnlyGo
  BY <1>1, <1>2 DEF KeysOnlyGo, IInv, ReqsOK, Fits
<1>5. QED
  BY <1>2, <1>3, <1>4

LEMMA SessionStep ==
  ASSUME IInv, NEW c \in Clients, CreateSession(c) \/ SessionFails(c)
  PROVE  IInv'
<1>0. req[c].user \in users /\ Owner(req[c].user) = c
  BY DEF CreateSession, SessionFails, IInv, ReqsOK, Fits
<1>1. CASE CreateSession(c)
  <2>1. PICK k \in Unused : /\ sessions' = [sessions EXCEPT ![k] = req[c].user]
                            /\ jar' = [jar EXCEPT ![c] = k]
    BY <1>1 DEF CreateSession
  <2>2. /\ RowsOK' /\ SessionsOK' /\ KeysOnlyGo
        /\ \A x \in Keys : sessions'[x] = IF x = k THEN req[c].user ELSE sessions[x]
    BY <1>0, <1>1, <2>1, NewSession DEF CreateSession
  <2>3. k \in Keys /\ \A d \in Clients : jar[d] # k
    BY DEF Unused
  <2>4. jar' \in [Clients -> Keys \cup {None}]
    BY <2>1, <2>3 DEF IInv, JarsOK
  <2>5. ASSUME NEW d \in Clients PROVE JarOK(d)'
    <3>1. CASE d = c
      BY <1>0, <2>1, <2>2, <2>3, <3>1 DEF IInv, JarsOK, JarOK
    <3>2. CASE d # c
      BY <2>1, <2>2, <2>3, <3>2, AccountsAssumption DEF IInv, JarsOK, JarOK
    <3>3. QED
      BY <3>1, <3>2
  <2>6. ReqsOK'
    BY <1>1, <2>2, IdleFits, ReqReplaced DEF CreateSession, Answered, IInv
  <2>7. ReportsOK'
    BY <1>1, ReportType DEF CreateSession, IInv
  <2>8. QED
    BY <2>2, <2>4, <2>5, <2>6, <2>7 DEF IInv, JarsOK
<1>2. CASE SessionFails(c)
  <2>1. ReportsOK'
    BY <1>2, UnheardType DEF SessionFails, IInv
  <2>2. CASE UNCHANGED sessions
    BY <1>2, <2>1, <2>2, AnswerStep DEF SessionFails
  <2>3. CASE \E k \in Unused : sessions' = [sessions EXCEPT ![k] = req[c].user]
    <3>1. PICK k \in Unused : sessions' = [sessions EXCEPT ![k] = req[c].user]
      BY <2>3
    <3>2. /\ RowsOK' /\ SessionsOK' /\ KeysOnlyGo
          /\ \A x \in Keys : sessions'[x] = IF x = k THEN req[c].user ELSE sessions[x]
      BY <1>0, <1>2, <3>1, NewSession DEF SessionFails
    <3>3. JarsOK'
      BY <1>2, <3>2, AccountsAssumption DEF SessionFails, Unused, IInv, JarsOK, JarOK
    <3>4. ReqsOK'
      BY <1>2, <3>2, IdleFits, ReqReplaced DEF SessionFails, Answered, IInv
    <3>5. QED
      BY <2>1, <3>2, <3>3, <3>4 DEF IInv
  <2>4. QED
    BY <1>2, <2>2, <2>3 DEF SessionFails
<1>3. QED
  BY <1>1, <1>2

LEMMA KeyExpiryStep ==
  ASSUME IInv, NEW k \in Keys, KeyExpires(k)
  PROVE  IInv'
<1>1. \A x \in Keys : sessions'[x] \in {sessions[x], None}
  BY DEF KeyExpires, IInv, SessionsOK
<1>2. KeysOnlyGo
  BY <1>1 DEF KeysOnlyGo, IInv, ReqsOK, Fits
<1>3. ReqsOK'
  BY <1>2, ReqsUntouched DEF KeyExpires, IInv
<1>4. JarsOK'
  BY <1>1 DEF KeyExpires, IInv, JarsOK, JarOK
<1>5. RowsOK' /\ SessionsOK' /\ ReportsOK'
  BY DEF KeyExpires, IInv, RowsOK, SessionsOK, ReportsOK
<1>6. QED
  BY <1>3, <1>4, <1>5 DEF IInv

LEMMA CookieExpiryStep ==
  ASSUME IInv, NEW c \in Clients, CookieExpires(c)
  PROVE  IInv'
<1>1. KeysOnlyGo
  BY DEF CookieExpires, KeysOnlyGo
<1>2. ReqsOK'
  BY <1>1, ReqsUntouched DEF CookieExpires, IInv
<1>3. JarsOK'
  BY DEF CookieExpires, IInv, JarsOK, JarOK
<1>4. RowsOK' /\ SessionsOK' /\ ReportsOK'
  BY DEF CookieExpires, IInv, RowsOK, SessionsOK, ReportsOK
<1>5. QED
  BY <1>2, <1>3, <1>4 DEF IInv

\* A request behind the middleware, from the cookie to the handler.
LEMMA RequestStep ==
  ASSUME IInv, NEW c \in Clients, Request(c) \/ AuthSession(c) \/ Cut(c)
  PROVE  IInv'
<1>0. UNCHANGED <<report, same>> => ReportsOK'
  BY DEF IInv, ReportsOK
<1>1. CASE Request(c)
  <2> DEFINE r == [Idle EXCEPT !.at = "lookup", !.op = "request", !.key = jar[c]]
  <2>1. jar[c] \in Keys /\ (sessions[jar[c]] # None => Owner(sessions[jar[c]]) = c)
    BY <1>1 DEF Request, IInv, JarsOK, JarOK
  <2>2. Fits(c, r, users, sessions)
    BY <2>1 DEF Fits, Idle, Requests
  <2>3. req' = [req EXCEPT ![c] = r]
    BY <1>1 DEF Request
  <2> HIDE DEF r
  <2>4. QED
    BY <1>0, <1>1, <2>2, <2>3, ReqStep DEF Request
<1>2. CASE SessionFound(c)
  <2>1. sessions[req[c].key] \in users /\ Owner(sessions[req[c].key]) = c
    BY <1>2 DEF SessionFound, IInv, ReqsOK, Fits, SessionsOK
  <2>2. QED
    BY <1>2, <2>1, GoStep DEF SessionFound
<1>3. CASE LoadUser(c)
  <2>1. Owner(req[c].user) = c
    BY <1>3 DEF LoadUser, IInv, ReqsOK, Fits
  <2>2. QED
    BY <1>3, <2>1, GoStep DEF LoadUser
<1>4. CASE SessionMissing(c) \/ LoadFails(c) \/ Replies(c)
  BY <1>0, <1>4, AnswerStep DEF SessionMissing, LoadFails, Replies
<1>5. CASE Cut(c)
  BY <1>5, UnheardType, AnswerStep DEF Cut, IInv
<1>6. QED
  BY <1>1, <1>2, <1>3, <1>4, <1>5 DEF AuthSession, GetMe, Update, GetUserStorageStats

-----------------------------------------------------------------------------
(* The theorems                                                            *)

LEMMA InitInv == Init => IInv
<1> SUFFICES ASSUME Init PROVE IInv
  OBVIOUS
<1>1. Idle \in Requests
  BY DEF Idle, Requests
<1>2. ReqsOK
  BY <1>1, IdleFits DEF Init, ReqsOK
<1>3. QED
  BY <1>2 DEF Init, IInv, RowsOK, SessionsOK, JarsOK, JarOK, ReportsOK

LEMMA InvStep == IInv /\ [Next]_vars => IInv'
<1> SUFFICES ASSUME IInv, [Next]_vars PROVE IInv'
  OBVIOUS
<1>1. ASSUME NEW c \in Clients, Serve(c) PROVE IInv'
  BY <1>1, RegisterStep, InsertStep, LoginStep, SessionStep, RequestStep
  DEF Serve, Registering, LoggingIn
<1>2. ASSUME NEW c \in Clients,
             \/ Register(c) \/ Request(c)
             \/ \E f \in {"plain", "odd"}, p \in SecretForms : Login(c, f, p)
             \/ InsertFails(c) \/ SessionFails(c) \/ Cut(c) \/ CookieExpires(c)
      PROVE  IInv'
  BY <1>2, RegisterStep, InsertStep, LoginStep, SessionStep, RequestStep, CookieExpiryStep
<1>3. CASE \E k \in Keys : KeyExpires(k)
  BY <1>3, KeyExpiryStep
<1>4. CASE UNCHANGED vars
  BY <1>4 DEF vars, IInv, RowsOK, SessionsOK, JarsOK, JarOK, ReqsOK, ReportsOK
<1>5. QED
  BY <1>1, <1>2, <1>3, <1>4 DEF Next

LEMMA Invariant == Spec => []IInv
BY InitInv, InvStep, PTL DEF Spec

\* Types, and the plain form of everything stored.
THEOREM TypeCorrect == Spec => []TypeOK
<1>1. ASSUME IInv PROVE TypeOK
  <2>1. \A c \in Clients : req[c] \in Requests
    BY <1>1 DEF IInv, ReqsOK
  <2>2. \A c \in Clients :
          /\ req[c].at \in {"idle", "find", "insert", "set", "lookup", "load", "handler"}
          /\ req[c].op \in {"none", "register", "login", "request"}
          /\ req[c].user \in Users \cup {None} /\ req[c].key \in Keys \cup {None}
    BY <2>1 DEF Requests
  <2>3. sessions \in [Keys -> Users \cup {None}]
    BY <1>1 DEF IInv, SessionsOK, RowsOK
  <2>4. QED
    BY <1>1, <2>2, <2>3 DEF IInv, RowsOK, JarsOK, ReportsOK, TypeOK
<1>2. QED
  BY <1>1, Invariant, PTL

\* Two rows never share a mailbox, whoever registers it, when, and however the
\* address is typed.
THEOREM MailboxesUnique == Spec => []OneAccountPerMailbox
<1>1. ASSUME IInv PROVE OneAccountPerMailbox
  <2> SUFFICES ASSUME NEW u \in users, NEW w \in users, u.email[1] = w.email[1]
               PROVE  u = w
    BY DEF OneAccountPerMailbox
  <2>1. /\ u.email \in Addresses /\ w.email \in Addresses
        /\ u.email[2] = "plain" /\ w.email[2] = "plain"
    BY <1>1 DEF IInv, RowsOK, Users
  <2>2. u.email = w.email
    BY <2>1 DEF Addresses
  <2>3. QED
    BY <1>1, <2>2 DEF IInv, RowsOK
<1>2. QED
  BY <1>1, Invariant, PTL

\* Nobody ever acts for somebody else's account, whatever fails, expires or is
\* cut off between the statements of a request.
THEOREM SessionsOwn == Spec => []SessionIsOwn
<1>1. ASSUME IInv PROVE SessionIsOwn
  BY <1>1 DEF IInv, SessionsOK, JarsOK, JarOK, ReqsOK, Fits, SessionIsOwn
<1>2. QED
  BY <1>1, Invariant, PTL

-----------------------------------------------------------------------------
(* What the registrant hears                                               *)

\* Of an account just made its owner is about to hear.
Told(c) ==
  /\ report[c] = "created" => Owns(c)
  /\ Owns(c) => report[c] \in {"created", "unheard"} \/ At(c, "set", "register")

\* The steps of client c, or of its requests.
ClientStep(c) ==
  \/ Register(c) \/ Request(c)
  \/ \E f \in {"plain", "odd"}, p \in SecretForms : Login(c, f, p)
  \/ Serve(c) \/ InsertFails(c) \/ SessionFails(c) \/ Cut(c) \/ CookieExpires(c)

\* The INSERT makes an account of the client whose request it is.
LEMMA OwnRow ==
  ASSUME IInv, NEW c \in Clients, At(c, "insert", "register")
  PROVE  Owner(NewUser(c)) = c
<1>1. req[c].secret \in {c} \X SecretForms
  BY DEF At, IInv, ReqsOK, Fits
<1>2. QED
  BY <1>1 DEF NewUser, Owner

LEMMA ClientStepMoves ==
  ASSUME IInv, NEW c \in Clients, ClientStep(c)
  PROVE  /\ \E r : req' = [req EXCEPT ![c] = r]
         /\ \E what : report' = [report EXCEPT ![c] = what]
         /\ users' = users \/ (users' = users \cup {NewUser(c)} /\ Owner(NewUser(c)) = c)
<1>1. req = [req EXCEPT ![c] = req[c]] /\ report = [report EXCEPT ![c] = report[c]]
  BY DEF IInv, ReqsOK, ReportsOK
<1> USE DEF Asks, Goes, Answered
<1>2. \E r : req' = [req EXCEPT ![c] = r]
  <2>1. CASE Serve(c)
    <3>1. CASE Registering(c)
      BY <3>1 DEF Registering, RegisterFinds, RegisterFindsNone, Insert, InsertRefused
    <3>2. CASE LoggingIn(c) \/ CreateSession(c)
      BY <3>2 DEF LoggingIn, LoginFinds, LoginRefused, CreateSession
    <3>3. CASE AuthSession(c)
      BY <3>3 DEF AuthSession, SessionFound, SessionMissing, LoadUser, LoadFails, GetMe,
                  Update, GetUserStorageStats, Replies
    <3>4. QED
      BY <2>1, <3>1, <3>2, <3>3 DEF Serve
  <2>2. CASE Register(c) \/ Request(c) \/ \E f \in {"plain", "odd"}, p \in SecretForms : Login(c, f, p)
    BY <2>2 DEF Register, Request, Login
  <2>3. CASE InsertFails(c) \/ SessionFails(c) \/ Cut(c) \/ CookieExpires(c)
    BY <1>1, <2>3 DEF InsertFails, SessionFails, Cut, CookieExpires
  <2>4. QED
    BY <2>1, <2>2, <2>3 DEF ClientStep
<1>3. CASE CreateSession(c) \/ SessionFails(c) \/ Cut(c)
  <2>1. users' = users
    BY <1>3 DEF CreateSession, SessionFails, Cut
  <2>2. \E what : report' = [report EXCEPT ![c] = what]
    BY <1>1, <1>3 DEF CreateSession, SessionFails, Cut, Unheard
  <2>3. QED
    BY <1>2, <2>1, <2>2
<1>4. CASE Insert(c) \/ InsertFails(c)
  <2>1. Owner(NewUser(c)) = c
    BY <1>4, OwnRow DEF Insert, InsertFails
  <2>2. \E what : report' = [report EXCEPT ![c] = what]
    BY <1>1, <1>4 DEF Insert, InsertFails
  <2>3. QED
    BY <1>2, <1>4, <2>1, <2>2 DEF Insert, InsertFails
<1>5. CASE ~(CreateSession(c) \/ SessionFails(c) \/ Cut(c) \/ Insert(c) \/ InsertFails(c))
  <2>1. UNCHANGED <<users, report>>
    BY <1>5 DEF ClientStep, Serve, Register, Request, Login, CookieExpires,
      Registering, RegisterFinds, RegisterFindsNone, InsertRefused,
      LoggingIn, LoginFinds, LoginRefused, AuthSession, SessionFound, SessionMissing,
      LoadUser, LoadFails, GetMe, Update, GetUserStorageStats, Replies
  <2>2. QED
    BY <1>1, <1>2, <2>1
<1>6. QED
  BY <1>3, <1>4, <1>5

\* Another client's step tells c nothing and makes no account of c's.
LEMMA OthersTold ==
  ASSUME IInv, NEW d \in Clients, ClientStep(d), NEW c \in Clients \ {d}, Told(c)
  PROVE  Told(c)'
<1>1. req'[c] = req[c] /\ report'[c] = report[c]
  BY ClientStepMoves DEF IInv, ReqsOK, ReportsOK
<1>2. Owns(c)' <=> Owns(c)
  BY ClientStepMoves DEF Owns
<1>3. QED
  BY <1>1, <1>2 DEF Told, At

\* A step that neither makes an account nor ends a registration which has.
LEMMA ToldKept ==
  ASSUME NEW c \in Clients, Told(c), UNCHANGED <<users, report>>, ~At(c, "set", "register")
  PROVE  Told(c)'
BY DEF Told, Owns

LEMMA OwnTold ==
  ASSUME IInv, NEW c \in Clients, ClientStep(c), Told(c)
  PROVE  Told(c)'
<1>1. CASE Insert(c)
  <2>1. Owner(NewUser(c)) = c /\ users' = users \cup {NewUser(c)} /\ report' = report
    BY <1>1, OwnRow DEF Insert
  <2>2. At(c, "set", "register")'
    BY <1>1 DEF Insert, At, Goes, Idle, IInv, ReqsOK
  <2>3. QED
    BY <2>1, <2>2 DEF Told, Owns
<1>2. CASE InsertFails(c)
  <2>1. CASE UNCHANGED <<users, report>>
    BY <1>2, <2>1, ToldKept DEF InsertFails, At
  <2>2. CASE report' = [report EXCEPT ![c] = "unheard"]
    BY <2>2 DEF Told, IInv, ReportsOK
  <2>3. QED
    BY <1>2, <2>1, <2>2 DEF InsertFails
<1>3. CASE CreateSession(c)
  <2>1. Owns(c)'
    BY <1>3 DEF CreateSession, IInv, ReqsOK, Fits, Owns
  <2>2. CASE Registers(c)
    <3>1. report'[c] = "created"
      BY <1>3, <2>2 DEF CreateSession, IInv, ReportsOK
    <3>2. QED
      BY <2>1, <3>1 DEF Told
  <2>3. CASE ~Registers(c)
    BY <1>3, <2>3, ToldKept DEF CreateSession, At, Registers
  <2>4. QED
    BY <2>2, <2>3
<1>4. CASE SessionFails(c) \/ Cut(c)
  <2>1. users' = users /\ Unheard(c)
    BY <1>4 DEF SessionFails, Cut
  <2>2. CASE At(c, "set", "register")
    BY <2>1, <2>2 DEF Unheard, At, Registers, Told, IInv, ReportsOK
  <2>3. CASE ~At(c, "set", "register")
    BY <2>1, <2>3, ToldKept DEF Unheard, At, Registers
  <2>4. QED
    BY <2>2, <2>3
<1>5. CASE CookieExpires(c)
  BY <1>5 DEF CookieExpires, Told, Owns, At
<1>6. CASE ~(Insert(c) \/ InsertFails(c) \/ CreateSession(c) \/ SessionFails(c) \/ Cut(c)
             \/ CookieExpires(c))
  <2>1. UNCHANGED <<users, report>>
    BY <1>6 DEF ClientStep, Serve, Register, Request, Login,
      Registering, RegisterFinds, RegisterFindsNone, InsertRefused,
      LoggingIn, LoginFinds, LoginRefused, AuthSession, SessionFound, SessionMissing,
      LoadUser, LoadFails, GetMe, Update, GetUserStorageStats, Replies
  <2>2. req[c] = Idle \/ req[c].at \in {"find", "insert", "lookup", "load", "handler"}
    BY <1>6 DEF ClientStep, Serve, Register, Request, Login, At,
      Registering, RegisterFinds, RegisterFindsNone, InsertRefused,
      LoggingIn, LoginFinds, LoginRefused, AuthSession, SessionFound, SessionMissing,
      LoadUser, LoadFails, GetMe, Update, GetUserStorageStats, Replies
  <2>3. ~At(c, "set", "register")
    BY <2>2 DEF At, Idle
  <2>4. QED
    BY <2>1, <2>3, ToldKept
<1>7. QED
  BY <1>1, <1>2, <1>3, <1>4, <1>5, <1>6

\* Who has an account heard of it, unless a call failed or the request was cut
\* off after the INSERT; and nobody hears of an account that is not there.
THEOREM RegistrationsReported == Spec => []RegistrationReported
<1> DEFINE AllTold == \A c \in Clients : Told(c)
<1>1. Init => AllTold
  BY DEF Init, Told, Owns
<1>2. IInv /\ AllTold /\ [Next]_vars => AllTold'
  <2> SUFFICES ASSUME IInv, AllTold, [Next]_vars, NEW c \in Clients PROVE Told(c)'
    OBVIOUS
  <2>1. ASSUME NEW d \in Clients, ClientStep(d) PROVE Told(c)'
    BY <2>1, OwnTold, OthersTold
  <2>2. CASE \E k \in Keys : KeyExpires(k)
    BY <2>2 DEF KeyExpires, Told, Owns, At
  <2>3. CASE UNCHANGED vars
    BY <2>3 DEF vars, Told, Owns, At
  <2>4. QED
    BY <2>1, <2>2, <2>3 DEF Next, ClientStep
<1>3. AllTold => RegistrationReported
  BY DEF Told, RegistrationReported, At, Registers
<1> HIDE DEF AllTold
<1>4. QED
  BY <1>1, <1>2, <1>3, Invariant, PTL DEF Spec

=============================================================================
