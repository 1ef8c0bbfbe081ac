--------------------------- MODULE AccountsProofs ---------------------------
(***************************************************************************)
(* Proofs about Accounts, for any numbers of users, threads, sessions,     *)
(* password resets and restarts: its types, that a user has one open token *)
(* of a kind, that sessions belong to the account as it is, and that an    *)
(* administrator remains.                                                  *)
(***************************************************************************)
EXTENDS Accounts, FiniteSetTheorems, TLAPS

\* The open tokens of a kind and user, without counting them.
TokensUnique ==
  \A x, y \in token : x.kind = y.kind /\ x.user = y.user => x = y

\* The configured administrator is never rolled back: nobody registered it.
RootInv ==
  /\ Row(Root)
  /\ \A t \in Threads : req[t].new => req[t].user # Root
  /\ \A t \in Threads : At(t, "undo") => req[t].new

Dismissing(r) == r.set \notin {"active", "admin"}

\* As long as no outdated check was acted on, a checked dismissal that is about
\* to be written leaves another administrator.
AdminsInv ==
  ~raced =>
    /\ ActiveAdmins # {}
    /\ \A t \in Threads :
         At(t, "write") /\ ~req[t].stale /\ Dismissing(req[t]) => ActiveAdmins \ {req[t].user} # {}

\* The reset that changed u's password has not come to revoking the sessions.
Revoking(u) == u \in cut \/ \E t \in Threads : At(t, "revoke") /\ req[t].user = u

\* A login that read the account before it stores its session.
LoginCurrent(t) ==
  LET u == req[t].user IN
  /\ user[u].status # "none"
  /\ Row(u) /\ ~req[t].stale => user[u].verified /\ Active(u) /\ req[t].pw = user[u].pw

LoginsInv == \A t \in Threads : At(t, "login") => LoginCurrent(t)

SessionCurrent(s) ==
  /\ user[s.user].status # "none"
  /\ Row(s.user) /\ ~s.stale =>
       user[s.user].verified /\ Active(s.user) /\ (s.pw = user[s.user].pw \/ Revoking(s.user))

SessionsInv == \A s \in session : SessionCurrent(s)

IInv == TypeOK /\ TokensUnique /\ RootInv /\ AdminsInv /\ LoginsInv /\ SessionsInv

-----------------------------------------------------------------------------
(* Types *)

Pcs == {"idle", "token", "mail", "undo", "login", "mark", "update", "revoke", "check", "write"}

LEMMA Bounds == MaxSessions \in Nat /\ MaxPasswords \in Nat /\ MaxEvents \in Nat
BY AccountsAssumption

LEMMA Rows ==
  /\ NoUser \in Account /\ NewUser \in Account /\ Admin \in Account
  /\ \A a \in Account, pw \in 0..MaxPasswords : [a EXCEPT !.pw = pw] \in Account
<1>1. NoUser \in Account
  BY Bounds DEF NoUser, Account, Statuses, Roles
<1>2. NewUser \in Account
  BY <1>1 DEF NewUser, Account, Statuses
<1>3. Admin \in Account
  BY <1>2 DEF Admin, Account, Roles
<1>. QED
  BY <1>1, <1>2, <1>3 DEF Account

LEMMA Requests ==
  /\ Idle \in Request
  /\ \A r \in Request : /\ r.user \in Users /\ r.kind \in Kinds /\ r.pw \in 0..MaxPasswords
                        /\ r.set \in Statuses \cup Roles /\ r.new \in BOOLEAN /\ r.stale \in BOOLEAN
  /\ \A r \in Request, pc \in Pcs : [r EXCEPT !.pc = pc] \in Request
  /\ \A r \in Request, u \in Users : [r EXCEPT !.user = u] \in Request
  /\ \A r \in Request, k \in Kinds : [r EXCEPT !.kind = k] \in Request
  /\ \A r \in Request, pw \in 0..MaxPasswords : [r EXCEPT !.pw = pw] \in Request
  /\ \A r \in Request, set \in Statuses \cup Roles : [r EXCEPT !.set = set] \in Request
  /\ \A r \in Request : [r EXCEPT !.new = TRUE] \in Request /\ [r EXCEPT !.stale = TRUE] \in Request
<1>1. Idle \in Request
  BY AccountsAssumption, Bounds DEF Idle, Request, Kinds, Statuses
<1>. QED
  BY <1>1 DEF Request, Pcs

LEMMA TypeStep ==
  ASSUME TypeOK, [Next]_vars
  PROVE  TypeOK'
<1>. USE Bounds DEF TypeOK, At, Goto, Done
<1>1. ASSUME NEW t \in Threads, NEW u \in Users, Register(t, u)  PROVE TypeOK'
  <2>1. user' \in [Users -> Account]
    BY <1>1, Rows DEF Register
  <2>2. req' \in [Threads -> Request]
    BY <1>1, Requests DEF Register, Pcs
  <2>. QED
    BY <1>1, <2>1, <2>2 DEF Register
<1>2. ASSUME NEW t \in Threads, NEW u \in Users, LoginRead(t, u)  PROVE TypeOK'
  BY <1>2, Requests DEF LoginRead, Account, Pcs
<1>3. ASSUME NEW t \in Threads, NEW u \in Users, NEW k \in Kinds, AskMail(t, u, k)  PROVE TypeOK'
  BY <1>3, Requests DEF AskMail, Pcs
<1>4. ASSUME NEW t \in Threads, NEW x \in token, Consume(t, x)  PROVE TypeOK'
  <2>1. x.user \in Users
    BY DEF Token
  <2>. QED
    BY <1>4, <2>1, Requests DEF Consume, Pcs
<1>5. ASSUME NEW t \in Threads, NEW s \in session, NEW u \in Users, NEW set \in Statuses \cup Roles,
             AskChange(t, s, u, set)
      PROVE  TypeOK'
  <2>1. req' \in [Threads -> Request]
    BY <1>5, Requests DEF AskChange, Pcs
  <2>. QED
    BY <1>5, <2>1 DEF AskChange
<1>6. ASSUME NEW t \in Threads, MakeToken(t)  PROVE TypeOK'
  <2>1. NewToken(t) \in Token
    BY Requests DEF NewToken, Token
  <2>. QED
    BY <1>6, <2>1, Requests DEF MakeToken, TokensOf, Pcs
<1>7. ASSUME NEW t \in Threads, Delivered(t)  PROVE token' \subseteq Token
  BY <1>7 DEF Delivered, Token
<1>8. ASSUME NEW t \in Threads, Mail(t)  PROVE TypeOK'
  BY <1>7, <1>8, Requests DEF Mail
<1>9. ASSUME NEW t \in Threads, MailFails(t)  PROVE TypeOK'
  <2>1. req' \in [Threads -> Request]
    <3>1. Idle \in Request /\ [req[t] EXCEPT !.pc = "undo"] \in Request
      BY Requests DEF Pcs
    <3>. QED
      BY <1>9, <3>1 DEF MailFails
  <2>. QED
    BY <1>7, <1>9, <2>1 DEF MailFails
<1>10. ASSUME NEW t \in Threads, Undo(t)  PROVE TypeOK'
  BY <1>10, Requests DEF Undo, TokensOf, Account
<1>11. ASSUME NEW t \in Threads, MarkVerified(t)  PROVE TypeOK'
  <2>1. user' \in [Users -> Account]
    BY <1>11 DEF MarkVerified, Account, Row
  <2>. QED
    BY <1>11, <2>1, Requests DEF MarkVerified, TokensOf
<1>12. ASSUME NEW t \in Threads, UpdatePassword(t)  PROVE TypeOK'
  <2>1. user' \in [Users -> Account]
    <3>1. user[req[t].user] \in Account /\ req[t].user \in Users
      BY Requests
    <3> DEFINE old == user[req[t].user]
               pw == IF Row(req[t].user) /\ old.pw < MaxPasswords THEN old.pw + 1 ELSE old.pw
    <3>2. pw \in 0..MaxPasswords
      BY <3>1 DEF Account
    <3>3. user' = [user EXCEPT ![req[t].user] = [old EXCEPT !.pw = pw]]
      BY <1>12 DEF UpdatePassword
    <3>4. [old EXCEPT !.pw = pw] \in Account
      BY <3>1, <3>2, Rows
    <3>. QED
      BY <3>3, <3>4
  <2>2. [req EXCEPT ![t].pc = "revoke"] \in [Threads -> Request]
    BY Requests DEF Pcs
  <2>3. req' \in [Threads -> Request]
    BY <1>12, <2>2, Requests DEF UpdatePassword, Outdate
  <2>. QED
    BY <1>12, <2>1, <2>3 DEF UpdatePassword
<1>13. ASSUME NEW t \in Threads, RevokeAll(t)  PROVE TypeOK'
  BY <1>13, Requests DEF RevokeAll, Without
<1>14. ASSUME NEW t \in Threads, LoginCreate(t)  PROVE TypeOK'
  BY <1>14, Requests DEF LoginCreate, Session
<1>15. ASSUME NEW t \in Threads, CheckLastAdmin(t)  PROVE TypeOK'
  <2>1. req' \in [Threads -> Request]
    <3>1. Idle \in Request /\ [req[t] EXCEPT !.pc = "write"] \in Request
      BY Requests DEF Pcs
    <3>. QED
      BY <1>15, <3>1 DEF CheckLastAdmin
  <2>. QED
    BY <1>15, <2>1 DEF CheckLastAdmin
<1>16. ASSUME NEW t \in Threads, WriteChange(t)  PROVE TypeOK'
  <2>1. req[t].user \in Users /\ req[t].set \in Statuses \cup Roles /\ req[t].stale \in BOOLEAN
    BY Requests
  <2>2. user' \in [Users -> Account] /\ session' \subseteq Session /\ raced' \in BOOLEAN
    BY <1>16, <2>1 DEF WriteChange, Changed, Without, Account
  <2>3. \A f \in [Threads -> Request], pc \in Pcs, ts \in SUBSET Threads :
          Outdate(f, pc, ts) \in [Threads -> Request]
    BY Requests DEF Outdate
  <2>4. req' \in [Threads -> Request]
    <3>1. [req EXCEPT ![t] = Idle] \in [Threads -> Request]
      BY Requests
    <3>2. Outdate([req EXCEPT ![t] = Idle], "write", Threads) \in [Threads -> Request]
      BY <2>3, <3>1 DEF Pcs
    <3>3. Outdate(Outdate([req EXCEPT ![t] = Idle], "write", Threads), "login", Of(req[t].user))
            \in [Threads -> Request]
      BY <2>3, <3>2 DEF Pcs, Of
    <3>. QED
      BY <1>16, <3>1, <3>2, <3>3 DEF WriteChange
  <2>. QED
    BY <1>16, <2>2, <2>4 DEF WriteChange
<1>17. ASSUME NEW s \in session, EndSession(s)  PROVE TypeOK'
  BY <1>17 DEF EndSession
<1>18. CASE Restart
  <2>1. user' \in [Users -> Account]
    BY <1>18 DEF Restart, Bootstrap, Account, Statuses, Roles
  <2>2. req' \in [Threads -> Request] /\ cut' \subseteq Users
    BY <1>18, Requests DEF Restart
  <2>. QED
    BY <1>18, <2>1, <2>2 DEF Restart
<1>19. CASE UNCHANGED vars
  BY <1>19 DEF vars
<1>. QED
  BY <1>1, <1>2, <1>3, <1>4, <1>5, <1>6, <1>8, <1>9, <1>10, <1>11, <1>12, <1>13, <1>14, <1>15,
     <1>16, <1>17, <1>18, <1>19
  DEF Next

LEMMA TypeInit ==
  ASSUME Init
  PROVE  TypeOK
<1>1. user \in [Users -> Account]
  BY Rows DEF Init
<1>2. req \in [Threads -> Request]
  BY Requests DEF Init
<1>. QED
  BY <1>1, <1>2, Bounds, 0 \in 0..MaxEvents DEF Init, TypeOK

\* Every row of the tables and every request keeps its type.
THEOREM TypeCorrect == Spec => []TypeOK
<1>1. Init => TypeOK
  BY TypeInit
<1>2. TypeOK /\ [Next]_vars => TypeOK'
  BY TypeStep
<1>. QED
  BY <1>1, <1>2, PTL DEF Spec

-----------------------------------------------------------------------------
(* One open token of a kind *)

LEMMA DeliveryKeepsTokens ==
  ASSUME TypeOK, TokensUnique, NEW t \in Threads, Delivered(t)
  PROVE  TokensUnique'
<1>1. \A y \in token' : \E x \in token :
        x.kind = y.kind /\ x.user = y.user /\ y = IF x = NewToken(t) THEN [x EXCEPT !.sent = TRUE] ELSE x
  BY DEF Delivered, TypeOK, Token
<1>2. ASSUME NEW y \in token', NEW z \in token', y.kind = z.kind, y.user = z.user  PROVE y = z
  <2>1. PICK x \in token : x.kind = y.kind /\ x.user = y.user
                           /\ y = IF x = NewToken(t) THEN [x EXCEPT !.sent = TRUE] ELSE x
    BY <1>1
  <2>2. PICK w \in token : w.kind = z.kind /\ w.user = z.user
                           /\ z = IF w = NewToken(t) THEN [w EXCEPT !.sent = TRUE] ELSE w
    BY <1>1
  <2>3. x = w
    BY <1>2, <2>1, <2>2 DEF TokensUnique
  <2>. QED
    BY <2>1, <2>2, <2>3
<1>. QED
  BY <1>2 DEF TokensUnique

LEMMA TokensStep ==
  ASSUME TypeOK, TokensUnique, [Next]_vars
  PROVE  TokensUnique'
<1>. USE DEF TokensUnique
<1>1. ASSUME NEW t \in Threads, MakeToken(t)  PROVE TokensUnique'
  <2>1. NewToken(t).kind = req[t].kind /\ NewToken(t).user = req[t].user
    BY DEF NewToken
  <2>2. token' = (token \ TokensOf(req[t].kind, req[t].user)) \cup {NewToken(t)}
    BY <1>1 DEF MakeToken
  <2>. QED
    BY <2>1, <2>2 DEF TokensOf
<1>2. ASSUME NEW t \in Threads, Mail(t) \/ MailFails(t)  PROVE TokensUnique'
  BY <1>2, DeliveryKeepsTokens DEF Mail, MailFails
<1>3. ASSUME NEW t \in Threads, Undo(t) \/ MarkVerified(t)  PROVE TokensUnique'
  BY <1>3 DEF Undo, MarkVerified
<1>4. ASSUME NEW t \in Threads, NEW x \in token, Consume(t, x)  PROVE TokensUnique'
  BY <1>4 DEF Consume
<1>5. CASE UNCHANGED token
  BY <1>5
<1>. QED
  BY <1>1, <1>2, <1>3, <1>4, <1>5
  DEF Next, Register, LoginRead, AskMail, AskChange, UpdatePassword, RevokeAll, LoginCreate,
      CheckLastAdmin, WriteChange, EndSession, Restart, vars

LEMMA OneToken ==
  ASSUME TokensUnique
  PROVE  OneOpenToken
<1>. SUFFICES ASSUME NEW k \in Kinds, NEW u \in Users  PROVE Cardinality(TokensOf(k, u)) <= 1
  BY DEF OneOpenToken
<1>1. CASE TokensOf(k, u) = {}
  BY <1>1, FS_EmptySet
<1>2. CASE TokensOf(k, u) # {}
  <2>1. PICK x : x \in TokensOf(k, u)
    BY <1>2
  <2>2. TokensOf(k, u) = {x}
    BY <2>1 DEF TokensUnique, TokensOf
  <2>. QED
    BY <2>2, FS_Singleton
<1>. QED
  BY <1>1, <1>2

-----------------------------------------------------------------------------
(* The administrators *)

LEMMA OutdateKeeps ==
  ASSUME NEW r \in [Threads -> Request], NEW pc, NEW ts, NEW t \in Threads
  PROVE  LET q == Outdate(r, pc, ts) IN
         /\ q \in [Threads -> Request]
         /\ q[t].pc = r[t].pc /\ q[t].user = r[t].user /\ q[t].new = r[t].new /\ q[t].pw = r[t].pw
         /\ q[t].set = r[t].set
         /\ r[t].stale => q[t].stale
         /\ r[t].pc = pc /\ t \in ts => q[t].stale
         /\ r[t].pc # pc => q[t] = r[t]
<1>1. \A x \in Threads : [r[x] EXCEPT !.stale = TRUE] \in Request
  BY Requests
<1>2. Outdate(r, pc, ts) \in [Threads -> Request]
  BY <1>1 DEF Outdate
<1>3. CASE r[t].pc = pc /\ t \in ts
  <2>1. Outdate(r, pc, ts)[t] = [r[t] EXCEPT !.stale = TRUE]
    BY <1>3 DEF Outdate
  <2>2. r[t] \in Request
    OBVIOUS
  <2>. QED
    BY <1>2, <1>3, <2>1, <2>2 DEF Request
<1>4. CASE ~(r[t].pc = pc /\ t \in ts)
  <2>1. Outdate(r, pc, ts)[t] = r[t]
    BY <1>4 DEF Outdate
  <2>. QED
    BY <1>2, <1>4, <2>1
<1>. QED
  BY <1>3, <1>4

\* What a new password does to the account and to the requests.
LEMMA PasswordEffect ==
  ASSUME TypeOK, NEW t \in Threads, UpdatePassword(t)
  PROVE  LET u == req[t].user IN
         /\ \A v \in Users : /\ v # u => user'[v] = user[v]
                             /\ user'[v].status = user[v].status /\ user'[v].role = user[v].role
                             /\ user'[v].verified = user[v].verified
         /\ req'[t].pc = "revoke" /\ req'[t].user = u /\ req'[t].new = req[t].new
         /\ \A x \in Threads \ {t} :
              /\ req'[x].pc = req[x].pc /\ req'[x].user = req[x].user /\ req'[x].pw = req[x].pw
              /\ req[x].stale => req'[x].stale
              /\ IF req[x].pc = "login" THEN req[x].user = u => req'[x].stale
                                        ELSE req'[x] = req[x]
<1>. USE DEF TypeOK
<1>1. req[t].user \in Users
  BY Requests
<1>2. \A v \in Users : /\ v # req[t].user => user'[v] = user[v]
                       /\ user'[v].status = user[v].status /\ user'[v].role = user[v].role
                       /\ user'[v].verified = user[v].verified
  BY <1>1 DEF UpdatePassword, Account
<1> DEFINE r == [req EXCEPT ![t].pc = "revoke"]
<1>3. /\ r \in [Threads -> Request] /\ \A x \in Threads \ {t} : r[x] = req[x]
      /\ r[t].pc = "revoke" /\ r[t].user = req[t].user /\ r[t].new = req[t].new
  <2>1. req[t] \in Request /\ r[t] = [req[t] EXCEPT !.pc = "revoke"]
    OBVIOUS
  <2>2. r[t] \in Request
    BY <2>1, Requests DEF Pcs
  <2>3. r[t].pc = "revoke" /\ r[t].user = req[t].user /\ r[t].new = req[t].new
    BY <2>1 DEF Request
  <2>. QED
    BY <2>2, <2>3
<1>4. req' = Outdate(r, "login", Of(req[t].user))
  BY DEF UpdatePassword
<1>. HIDE DEF r
<1>5. req'[t].pc = "revoke" /\ req'[t].user = req[t].user /\ req'[t].new = req[t].new
  BY <1>3, <1>4, OutdateKeeps
<1>6. ASSUME NEW x \in Threads \ {t}
      PROVE  /\ req'[x].pc = req[x].pc /\ req'[x].user = req[x].user /\ req'[x].pw = req[x].pw
             /\ req[x].stale => req'[x].stale
             /\ IF req[x].pc = "login" THEN req[x].user = req[t].user => req'[x].stale
                                       ELSE req'[x] = req[x]
  BY <1>3, <1>4, OutdateKeeps DEF Of
<1>. QED
  BY <1>1, <1>2, <1>5, <1>6

\* What an administrative change does to the account and to the requests.
LEMMA ChangeEffect ==
  ASSUME TypeOK, NEW t \in Threads, WriteChange(t), Row(req[t].user)
  PROVE  LET u == req[t].user  set == req[t].set  ends == set \in Statuses \ {"active"} IN
         /\ u \in Users /\ set \in Statuses \cup Roles
         /\ \A v \in Users \ {u} : user'[v] = user[v]
         /\ user'[u].verified = user[u].verified /\ user'[u].pw = user[u].pw
         /\ user'[u].role = IF set \in Roles THEN set ELSE user[u].role
         /\ user'[u].status = IF set \in Roles THEN user[u].status ELSE set
         /\ session' = IF ends THEN Without(u) ELSE session
         /\ raced' = (raced \/ req[t].stale)
         /\ req'[t] = Idle
         /\ \A x \in Threads \ {t} :
              /\ req'[x].pc = req[x].pc /\ req'[x].user = req[x].user /\ req'[x].new = req[x].new
              /\ req'[x].pw = req[x].pw /\ req'[x].set = req[x].set
              /\ req[x].stale => req'[x].stale
              /\ req[x].pc = "write" => req'[x].stale
              /\ ends /\ req[x].pc = "login" /\ req[x].user = u => req'[x].stale
<1> DEFINE u == req[t].user
           ends == req[t].set \in Statuses \ {"active"}
           r0 == [req EXCEPT ![t] = Idle]
           r1 == Outdate(r0, "write", Threads)
           r2 == Outdate(r1, "login", Of(u))
<1>. USE DEF TypeOK
<1>1. u \in Users /\ req[t].set \in Statuses \cup Roles
  BY Requests
<1>2. r0 \in [Threads -> Request] /\ r0[t] = Idle /\ \A x \in Threads \ {t} : r0[x] = req[x]
  BY Requests
<1>3. r1 \in [Threads -> Request] /\ r2 \in [Threads -> Request]
  BY <1>2, OutdateKeeps
<1>4. /\ user' = Changed(u, req[t].set) /\ session' = IF ends THEN Without(u) ELSE session
      /\ raced' = (raced \/ req[t].stale) /\ req' = IF ends THEN r2 ELSE r1
  BY DEF WriteChange
<1>5. \A v \in Users \ {u} : user'[v] = user[v]
  BY <1>1, <1>4 DEF Changed
<1>6. /\ user'[u].verified = user[u].verified /\ user'[u].pw = user[u].pw
      /\ user'[u].role = IF req[t].set \in Roles THEN req[t].set ELSE user[u].role
      /\ user'[u].status = IF req[t].set \in Roles THEN user[u].status ELSE req[t].set
  <2>1. CASE req[t].set \in Roles
    BY <1>1, <1>4, <2>1 DEF Changed, Account
  <2>2. CASE req[t].set \notin Roles
    BY <1>1, <1>4, <2>2 DEF Changed, Account
  <2>. QED
    BY <2>1, <2>2
<1>. HIDE DEF r0, r1, r2
<1>7. r1[t] = Idle /\ r2[t] = Idle
  <2>1. Idle.pc = "idle"
    BY DEF Idle
  <2>2. r1[t] = Idle
    BY <1>2, <2>1, OutdateKeeps DEF r1
  <2>. QED
    BY <1>3, <2>1, <2>2, OutdateKeeps DEF r2
<1>8. ASSUME NEW x \in Threads \ {t}
      PROVE  /\ req'[x].pc = req[x].pc /\ req'[x].user = req[x].user /\ req'[x].new = req[x].new
             /\ req'[x].pw = req[x].pw /\ req'[x].set = req[x].set
             /\ req[x].stale => req'[x].stale
             /\ req[x].pc = "write" => req'[x].stale
             /\ ends /\ req[x].pc = "login" /\ req[x].user = u => req'[x].stale
  <2>1. /\ r1[x].pc = req[x].pc /\ r1[x].user = req[x].user /\ r1[x].new = req[x].new
        /\ r1[x].pw = req[x].pw /\ r1[x].set = req[x].set
        /\ req[x].stale => r1[x].stale
        /\ req[x].pc = "write" => r1[x].stale
    BY <1>2, OutdateKeeps DEF r1
  <2>2. /\ r2[x].pc = req[x].pc /\ r2[x].user = req[x].user /\ r2[x].new = req[x].new
        /\ r2[x].pw = req[x].pw /\ r2[x].set = req[x].set
        /\ r1[x].stale => r2[x].stale
        /\ req[x].pc = "login" /\ req[x].user = u => r2[x].stale
    BY <1>3, <2>1, OutdateKeeps DEF r2, Of
  <2>. QED
    BY <1>4, <2>1, <2>2
<1>. QED
  BY <1>1, <1>4, <1>5, <1>6, <1>7, <1>8

LEMMA RootStep ==
  ASSUME TypeOK, RootInv, [Next]_vars
  PROVE  RootInv'
<1>. USE AccountsAssumption DEF TypeOK, RootInv, Row, At, Goto, Done, Idle
<1>1. ASSUME NEW t \in Threads, NEW u \in Users, Register(t, u)  PROVE RootInv'
  BY <1>1 DEF Register
<1>2. ASSUME NEW t \in Threads, NEW u \in Users, LoginRead(t, u)  PROVE RootInv'
  BY <1>2 DEF LoginRead
<1>3. ASSUME NEW t \in Threads, NEW u \in Users, NEW k \in Kinds, AskMail(t, u, k)  PROVE RootInv'
  BY <1>3 DEF AskMail
<1>4. ASSUME NEW t \in Threads, NEW x \in token, Consume(t, x)  PROVE RootInv'
  BY <1>4 DEF Consume
<1>5. ASSUME NEW t \in Threads, NEW s \in session, NEW u \in Users, NEW set \in Statuses \cup Roles,
             AskChange(t, s, u, set)
      PROVE  RootInv'
  BY <1>5 DEF AskChange
<1>6. ASSUME NEW t \in Threads, MakeToken(t)  PROVE RootInv'
  BY <1>6, Requests DEF MakeToken, Request
<1>7. ASSUME NEW t \in Threads, Mail(t)  PROVE RootInv'
  BY <1>7 DEF Mail
<1>8. ASSUME NEW t \in Threads, MailFails(t)  PROVE RootInv'
  BY <1>8 DEF MailFails, Request
<1>9. ASSUME NEW t \in Threads, Undo(t)  PROVE RootInv'
  BY <1>9 DEF Undo
<1>10. ASSUME NEW t \in Threads, MarkVerified(t)  PROVE RootInv'
  BY <1>10 DEF MarkVerified, Account
<1>11. ASSUME NEW t \in Threads, UpdatePassword(t)  PROVE RootInv'
  BY <1>11 DEF UpdatePassword, Outdate, Account, Request
<1>12. ASSUME NEW t \in Threads, RevokeAll(t)  PROVE RootInv'
  BY <1>12 DEF RevokeAll
<1>13. ASSUME NEW t \in Threads, LoginCreate(t)  PROVE RootInv'
  BY <1>13 DEF LoginCreate
<1>14. ASSUME NEW t \in Threads, CheckLastAdmin(t)  PROVE RootInv'
  BY <1>14 DEF CheckLastAdmin, Request
<1>15. ASSUME NEW t \in Threads, WriteChange(t)  PROVE RootInv'
  <2>1. CASE Row(req[t].user)
    <3>1. ~Idle.new /\ Idle.pc = "idle"
      OBVIOUS
    <3>. HIDE DEF Idle
    <3>2. Row(Root)'
      <4>1. CASE req[t].user = Root
        BY <1>15, <2>1, <4>1, ChangeEffect DEF Statuses, Roles
      <4>2. CASE req[t].user # Root
        BY <1>15, <2>1, <4>2, ChangeEffect
      <4>. QED
        BY <4>1, <4>2
    <3>3. req'[t] = Idle /\ \A x \in Threads \ {t} :
             req'[x].pc = req[x].pc /\ req'[x].user = req[x].user /\ req'[x].new = req[x].new
      BY <1>15, <2>1, ChangeEffect
    <3>. QED
      BY <3>1, <3>2, <3>3
  <2>2. CASE ~Row(req[t].user)
    BY <1>15, <2>2 DEF WriteChange
  <2>. QED
    BY <2>1, <2>2
<1>16. ASSUME NEW s \in session, EndSession(s)  PROVE RootInv'
  BY <1>16 DEF EndSession
<1>17. CASE Restart
  <2>1. Row(Root)'
    <3>1. CASE Bootstrap
      BY <3>1 DEF Bootstrap, Account
    <3>2. CASE UNCHANGED user
      BY <3>2
    <3>. QED
      BY <1>17, <3>1, <3>2 DEF Restart
  <2>2. \A t \in Threads : req'[t] = Idle
    BY <1>17 DEF Restart
  <2>. QED
    BY <2>1, <2>2
<1>18. CASE UNCHANGED vars
  BY <1>18 DEF vars
<1>. QED
  BY <1>1, <1>2, <1>3, <1>4, <1>5, <1>6, <1>7, <1>8, <1>9, <1>10, <1>11, <1>12, <1>13, <1>14, <1>15,
     <1>16, <1>17, <1>18
  DEF Next

\* A checked dismissal that no other change has outdated.
Dismissal(t) == At(t, "write") /\ ~req[t].stale /\ Dismissing(req[t])

\* What keeps AdminsInv: no administrator less, and no new dismissal.
LEMMA AdminsKept ==
  ASSUME AdminsInv, raced => raced', ActiveAdmins \subseteq ActiveAdmins',
         \A t \in Threads : Dismissal(t)' => Dismissal(t) /\ req'[t].user = req[t].user
  PROVE  AdminsInv'
BY DEF AdminsInv, Dismissal, At

LEMMA AdminsStep ==
  ASSUME TypeOK, RootInv, AdminsInv, [Next]_vars
  PROVE  AdminsInv'
<1>. USE DEF TypeOK, At, Goto, Done, Dismissal, Dismissing
<1>0. Idle.pc = "idle"
  BY DEF Idle
<1>1. ASSUME NEW t \in Threads, NEW u \in Users, Register(t, u)  PROVE AdminsInv'
  <2>1. ActiveAdmins \subseteq ActiveAdmins'
    BY <1>1 DEF Register, ActiveAdmins, Active
  <2>2. \A x \in Threads : Dismissal(x)' => Dismissal(x) /\ req'[x] = req[x]
    BY <1>1 DEF Register, Idle
  <2>. QED
    BY <1>1, <2>1, <2>2, AdminsKept DEF Register
<1>2. ASSUME NEW t \in Threads, NEW u \in Users, LoginRead(t, u)  PROVE AdminsInv'
  BY <1>2, AdminsKept DEF LoginRead, Idle, ActiveAdmins, Active
<1>3. ASSUME NEW t \in Threads, NEW u \in Users, NEW k \in Kinds, AskMail(t, u, k)  PROVE AdminsInv'
  BY <1>3, AdminsKept DEF AskMail, Idle, ActiveAdmins, Active
<1>4. ASSUME NEW t \in Threads, NEW x \in token, Consume(t, x)  PROVE AdminsInv'
  BY <1>4, AdminsKept DEF Consume, Idle, ActiveAdmins, Active
<1>5. ASSUME NEW t \in Threads, NEW s \in session, NEW u \in Users, NEW set \in Statuses \cup Roles,
             AskChange(t, s, u, set)
      PROVE  AdminsInv'
  <2>1. \A x \in Threads : Dismissal(x)' => Dismissal(x) /\ req'[x] = req[x]
    BY <1>5 DEF AskChange, Idle
  <2>. QED
    BY <1>5, <2>1, AdminsKept DEF AskChange, ActiveAdmins, Active
<1>6. ASSUME NEW t \in Threads, MakeToken(t)  PROVE AdminsInv'
  BY <1>6, AdminsKept DEF MakeToken, ActiveAdmins, Active, Request
<1>7. ASSUME NEW t \in Threads, Mail(t)  PROVE AdminsInv'
  BY <1>0, <1>7, AdminsKept DEF Mail, ActiveAdmins, Active
<1>8. ASSUME NEW t \in Threads, MailFails(t)  PROVE AdminsInv'
  BY <1>0, <1>8, AdminsKept DEF MailFails, ActiveAdmins, Active, Request
<1>9. ASSUME NEW t \in Threads, Undo(t)  PROVE AdminsInv'
  <2>1. CASE user[req[t].user].role = "admin"
    BY <1>9, <2>1 DEF Undo, AdminsInv
  <2>2. CASE user[req[t].user].role # "admin"
    <3>1. ActiveAdmins \subseteq ActiveAdmins'
      BY <1>9, <2>2, Requests DEF Undo, ActiveAdmins, Active
    <3>. QED
      BY <1>0, <1>9, <3>1, AdminsKept DEF Undo
  <2>. QED
    BY <2>1, <2>2
<1>10. ASSUME NEW t \in Threads, MarkVerified(t)  PROVE AdminsInv'
  <2>1. ActiveAdmins \subseteq ActiveAdmins'
    BY <1>10, Requests DEF MarkVerified, ActiveAdmins, Active, Account
  <2>. QED
    BY <1>0, <1>10, <2>1, AdminsKept DEF MarkVerified
<1>11. ASSUME NEW t \in Threads, UpdatePassword(t)  PROVE AdminsInv'
  <2>1. ActiveAdmins \subseteq ActiveAdmins'
    BY <1>11, Requests DEF UpdatePassword, ActiveAdmins, Active, Account
  <2>3. \A x \in Threads : IF x = t THEN req'[x].pc = "revoke"
                                      ELSE req[x].pc # "login" => req'[x] = req[x]
    BY <1>11, PasswordEffect
  <2>4. \A x \in Threads : req'[x].pc = "login" <=> x # t /\ req[x].pc = "login"
    BY <1>11, PasswordEffect
  <2>. QED
    BY <1>11, <2>1, <2>3, <2>4, AdminsKept DEF UpdatePassword
<1>12. ASSUME NEW t \in Threads, RevokeAll(t)  PROVE AdminsInv'
  BY <1>0, <1>12, AdminsKept DEF RevokeAll, ActiveAdmins, Active
<1>13. ASSUME NEW t \in Threads, LoginCreate(t)  PROVE AdminsInv'
  BY <1>0, <1>13, AdminsKept DEF LoginCreate, ActiveAdmins, Active
<1>14. ASSUME NEW t \in Threads, CheckLastAdmin(t)  PROVE AdminsInv'
  <2>1. ActiveAdmins' = ActiveAdmins /\ raced' = raced
    BY <1>14 DEF CheckLastAdmin, ActiveAdmins, Active
  <2>2. \A x \in Threads \ {t} : req'[x] = req[x]
    BY <1>14 DEF CheckLastAdmin
  <2>3. ASSUME ~raced, Dismissal(t)'  PROVE ActiveAdmins \ {req'[t].user} # {}
    <3>1. req'[t] = [req[t] EXCEPT !.pc = "write"]
      BY <1>0, <1>14, <2>3 DEF CheckLastAdmin
    <3>2. req'[t].user = req[t].user
      BY <3>1 DEF Request
    <3>3. ActiveAdmins \ {req[t].user} # {} \/ req[t].user \notin ActiveAdmins
      BY <1>0, <1>14, <2>3 DEF CheckLastAdmin, ActiveAdmins, Active, Row
    <3>. QED
      BY <2>3, <3>2, <3>3 DEF AdminsInv
  <2>. QED
    BY <2>1, <2>2, <2>3 DEF AdminsInv
<1>15. ASSUME NEW t \in Threads, WriteChange(t)  PROVE AdminsInv'
  <2>1. CASE ~Row(req[t].user)
    BY <1>0, <1>15, <2>1, AdminsKept DEF WriteChange, ActiveAdmins, Active
  <2>2. CASE Row(req[t].user) /\ req[t].stale
    BY <1>15, <2>2, ChangeEffect DEF AdminsInv
  <2>3. CASE Row(req[t].user) /\ ~req[t].stale
    <3>1. \A x \in Threads : ~Dismissal(x)'
      BY <1>0, <1>15, <2>3, ChangeEffect
    <3>2. ActiveAdmins \ {req[t].user} \subseteq ActiveAdmins'
      BY <1>15, <2>3, ChangeEffect DEF ActiveAdmins, Active
    <3>3. ~Dismissing(req[t]) => ActiveAdmins \subseteq ActiveAdmins'
      BY <1>15, <2>3, ChangeEffect DEF ActiveAdmins, Active, Statuses, Roles
    <3>4. raced' = raced
      BY <1>15, <2>3, ChangeEffect
    <3>. QED
      BY <1>15, <2>3, <3>1, <3>2, <3>3, <3>4 DEF AdminsInv, WriteChange
  <2>. QED
    BY <2>1, <2>2, <2>3
<1>16. ASSUME NEW s \in session, EndSession(s)  PROVE AdminsInv'
  BY <1>16, AdminsKept DEF EndSession, ActiveAdmins, Active
<1>17. CASE Restart
  <2>1. ActiveAdmins \subseteq ActiveAdmins'
    <3>1. CASE Bootstrap
      BY <3>1 DEF Bootstrap, ActiveAdmins, Active, Account
    <3>2. CASE UNCHANGED user
      BY <3>2 DEF ActiveAdmins, Active
    <3>. QED
      BY <1>17, <3>1, <3>2 DEF Restart
  <2>2. \A x \in Threads : req'[x] = Idle
    BY <1>17 DEF Restart
  <2>. QED
    BY <1>0, <1>17, <2>1, <2>2, AdminsKept DEF Restart
<1>18. CASE UNCHANGED vars
  BY <1>18, AdminsKept DEF vars, ActiveAdmins, Active
<1>. QED
  BY <1>1, <1>2, <1>3, <1>4, <1>5, <1>6, <1>7, <1>8, <1>9, <1>10, <1>11, <1>12, <1>13, <1>14, <1>15,
     <1>16, <1>17, <1>18
  DEF Next

-----------------------------------------------------------------------------
(* Sessions *)

\* A step that takes no session's or login's account away from it.
AccountKept(u) ==
  /\ user[u].status # "none" => user'[u].status # "none"
  /\ user[u].status # "none" /\ Row(u)' =>
       /\ Row(u) /\ user'[u].pw = user[u].pw
       /\ user[u].verified => user'[u].verified
       /\ Active(u) => Active(u)'

LoginKept(t) ==
  At(t, "login")' =>
    /\ At(t, "login") /\ req'[t].user = req[t].user /\ req'[t].pw = req[t].pw
    /\ req[t].stale => req'[t].stale

LEMMA SameAccounts ==
  ASSUME user' = user
  PROVE  \A u \in Users : AccountKept(u)
BY DEF AccountKept, Row, Active

LEMMA LoginsKept ==
  ASSUME TypeOK, LoginsInv, \A u \in Users : AccountKept(u), \A t \in Threads : LoginKept(t)
  PROVE  LoginsInv'
<1>1. \A t \in Threads : req[t].user \in Users
  BY Requests DEF TypeOK
<1>. QED
  BY <1>1 DEF LoginsInv, LoginCurrent, AccountKept, LoginKept, At, Row, Active

LEMMA LoginsStep ==
  ASSUME TypeOK, LoginsInv, [Next]_vars
  PROVE  LoginsInv'
<1>. USE DEF TypeOK, At, Goto, Done, LoginKept
<1>0. Idle.pc = "idle"
  BY DEF Idle
<1>1. ASSUME NEW t \in Threads, NEW u \in Users, Register(t, u)  PROVE LoginsInv'
  <2>1. \A v \in Users : AccountKept(v)
    BY <1>1 DEF Register, AccountKept, Row, Active, NewUser, NoUser
  <2>2. \A x \in Threads : LoginKept(x)
    BY <1>1 DEF Register, Idle
  <2>. QED
    BY <2>1, <2>2, LoginsKept
<1>2. ASSUME NEW t \in Threads, NEW u \in Users, LoginRead(t, u)  PROVE LoginsInv'
  BY <1>2 DEF LoginRead, LoginsInv, LoginCurrent, Idle, Row, Active
<1>3. ASSUME NEW t \in Threads, NEW u \in Users, NEW k \in Kinds, AskMail(t, u, k)  PROVE LoginsInv'
  BY <1>3, LoginsKept, SameAccounts DEF AskMail, Idle
<1>4. ASSUME NEW t \in Threads, NEW x \in token, Consume(t, x)  PROVE LoginsInv'
  BY <1>4, LoginsKept, SameAccounts DEF Consume, Idle
<1>5. ASSUME NEW t \in Threads, NEW s \in session, NEW u \in Users, NEW set \in Statuses \cup Roles,
             AskChange(t, s, u, set)
      PROVE  LoginsInv'
  <2>1. \A x \in Threads : LoginKept(x)
    BY <1>5 DEF AskChange, Idle
  <2>. QED
    BY <1>5, <2>1, LoginsKept, SameAccounts DEF AskChange
<1>6. ASSUME NEW t \in Threads, MakeToken(t)  PROVE LoginsInv'
  BY <1>6, LoginsKept, SameAccounts DEF MakeToken, Request
<1>7. ASSUME NEW t \in Threads, Mail(t)  PROVE LoginsInv'
  BY <1>0, <1>7, LoginsKept, SameAccounts DEF Mail
<1>8. ASSUME NEW t \in Threads, MailFails(t)  PROVE LoginsInv'
  BY <1>0, <1>8, LoginsKept, SameAccounts DEF MailFails, Request
<1>9. ASSUME NEW t \in Threads, Undo(t)  PROVE LoginsInv'
  <2>1. \A v \in Users : AccountKept(v)
    BY <1>9, Requests DEF Undo, AccountKept, Row, Active, Account
  <2>. QED
    BY <1>0, <1>9, <2>1, LoginsKept DEF Undo
<1>10. ASSUME NEW t \in Threads, MarkVerified(t)  PROVE LoginsInv'
  <2>1. \A v \in Users : AccountKept(v)
    BY <1>10, Requests DEF MarkVerified, AccountKept, Row, Active, Account
  <2>. QED
    BY <1>0, <1>10, <2>1, LoginsKept DEF MarkVerified
<1>11. ASSUME NEW t \in Threads, UpdatePassword(t)  PROVE LoginsInv'
  <2>1. ASSUME NEW x \in Threads, At(x, "login")'
        PROVE  LoginCurrent(x)'
    <3>1. x # t /\ At(x, "login") /\ req'[x].user = req[x].user /\ req'[x].pw = req[x].pw
      BY <1>11, <2>1, PasswordEffect
    <3>2. req[x].user \in Users
      BY Requests
    <3>. QED
      <4>1. /\ IF req[x].user = req[t].user THEN req'[x].stale
                                            ELSE user'[req[x].user] = user[req[x].user]
            /\ user'[req[x].user].status = user[req[x].user].status
            /\ req[x].stale => req'[x].stale
        BY <1>11, <3>1, <3>2, PasswordEffect
      <4>2. LoginCurrent(x)
        BY <3>1 DEF LoginsInv
      <4>. QED
        BY <3>1, <4>1, <4>2 DEF LoginCurrent, Row, Active
  <2>. QED
    BY <2>1 DEF LoginsInv
<1>12. ASSUME NEW t \in Threads, RevokeAll(t)  PROVE LoginsInv'
  BY <1>0, <1>12, LoginsKept, SameAccounts DEF RevokeAll
<1>13. ASSUME NEW t \in Threads, LoginCreate(t)  PROVE LoginsInv'
  BY <1>0, <1>13, LoginsKept, SameAccounts DEF LoginCreate
<1>14. ASSUME NEW t \in Threads, CheckLastAdmin(t)  PROVE LoginsInv'
  <2>1. \A x \in Threads : LoginKept(x)
    BY <1>0, <1>14 DEF CheckLastAdmin, Request
  <2>. QED
    BY <1>14, <2>1, LoginsKept, SameAccounts DEF CheckLastAdmin
<1>15. ASSUME NEW t \in Threads, WriteChange(t)  PROVE LoginsInv'
  <2>1. CASE ~Row(req[t].user)
    BY <1>0, <1>15, <2>1, LoginsKept, SameAccounts DEF WriteChange
  <2>2. ASSUME Row(req[t].user), NEW x \in Threads, At(x, "login")'
        PROVE  LoginCurrent(x)'
    <3>1. x # t
      BY <1>0, <1>15, <2>2, ChangeEffect
    <3>2. /\ At(x, "login") /\ req'[x].user = req[x].user /\ req'[x].pw = req[x].pw
          /\ req[x].stale => req'[x].stale
      BY <1>15, <2>2, <3>1, ChangeEffect
    <3>3. req[x].user \in Users
      BY Requests
    <3>4. CASE req[x].user # req[t].user
      <4>1. user'[req[x].user] = user[req[x].user]
        BY <1>15, <2>2, <3>3, <3>4, ChangeEffect
      <4>. QED
        BY <3>2, <4>1 DEF LoginsInv, LoginCurrent, Row, Active
    <3>5. CASE req[x].user = req[t].user
      <4>1. user'[req[x].user].status \in {user[req[x].user].status, "active"} \/ req'[x].stale
        BY <1>15, <2>2, <3>1, <3>2, <3>5, ChangeEffect DEF Statuses
      <4>2. user'[req[x].user].status # "none"
        BY <1>15, <2>2, <3>5, ChangeEffect DEF Statuses, Roles, Row
      <4>3. user'[req[x].user].verified = user[req[x].user].verified
            /\ user'[req[x].user].pw = user[req[x].user].pw
        BY <1>15, <2>2, <3>5, ChangeEffect
      <4>. QED
        BY <2>2, <3>2, <3>5, <4>1, <4>2, <4>3 DEF LoginsInv, LoginCurrent, Row, Active
    <3>. QED
      BY <3>4, <3>5
  <2>. QED
    BY <2>1, <2>2 DEF LoginsInv
<1>16. ASSUME NEW s \in session, EndSession(s)  PROVE LoginsInv'
  BY <1>16, LoginsKept, SameAccounts DEF EndSession
<1>17. CASE Restart
  BY <1>0, <1>17 DEF Restart, LoginsInv
<1>18. CASE UNCHANGED vars
  BY <1>18, LoginsKept, SameAccounts DEF vars
<1>. QED
  BY <1>1, <1>2, <1>3, <1>4, <1>5, <1>6, <1>7, <1>8, <1>9, <1>10, <1>11, <1>12, <1>13, <1>14, <1>15,
     <1>16, <1>17, <1>18
  DEF Next

LEMMA SessionsKept ==
  ASSUME TypeOK, SessionsInv, \A u \in Users : AccountKept(u), session' \subseteq session,
         \A s \in session' : Revoking(s.user) => Revoking(s.user)'
  PROVE  SessionsInv'
<1>1. \A s \in session : s.user \in Users
  BY DEF TypeOK, Session
<1>. QED
  BY <1>1 DEF SessionsInv, SessionCurrent, AccountKept, Row, Active

LEMMA SessionsStep ==
  ASSUME TypeOK, RootInv, LoginsInv, SessionsInv, [Next]_vars
  PROVE  SessionsInv'
<1>. USE DEF TypeOK, At, Goto, Done, Revoking
<1>0. Idle.pc = "idle"
  BY DEF Idle
<1>1. ASSUME NEW t \in Threads, NEW u \in Users, Register(t, u)  PROVE SessionsInv'
  <2>1. \A v \in Users : AccountKept(v)
    BY <1>1 DEF Register, AccountKept, Row, Active, NewUser, NoUser
  <2>. QED
    BY <1>1, <2>1, SessionsKept DEF Register
<1>2. ASSUME NEW t \in Threads, NEW u \in Users, LoginRead(t, u)  PROVE SessionsInv'
  BY <1>2, SessionsKept, SameAccounts DEF LoginRead
<1>3. ASSUME NEW t \in Threads, NEW u \in Users, NEW k \in Kinds, AskMail(t, u, k)  PROVE SessionsInv'
  BY <1>3, SessionsKept, SameAccounts DEF AskMail
<1>4. ASSUME NEW t \in Threads, NEW x \in token, Consume(t, x)  PROVE SessionsInv'
  BY <1>4, SessionsKept, SameAccounts DEF Consume
<1>5. ASSUME NEW t \in Threads, NEW s \in session, NEW u \in Users, NEW set \in Statuses \cup Roles,
             AskChange(t, s, u, set)
      PROVE  SessionsInv'
  BY <1>5, SessionsKept, SameAccounts DEF AskChange
<1>6. ASSUME NEW t \in Threads, MakeToken(t)  PROVE SessionsInv'
  BY <1>6, SessionsKept, SameAccounts DEF MakeToken
<1>7. ASSUME NEW t \in Threads, Mail(t)  PROVE SessionsInv'
  BY <1>7, SessionsKept, SameAccounts DEF Mail
<1>8. ASSUME NEW t \in Threads, MailFails(t)  PROVE SessionsInv'
  BY <1>8, SessionsKept, SameAccounts DEF MailFails
<1>9. ASSUME NEW t \in Threads, Undo(t)  PROVE SessionsInv'
  <2>1. \A v \in Users : AccountKept(v)
    BY <1>9, Requests DEF Undo, AccountKept, Row, Active, Account
  <2>. QED
    BY <1>9, <2>1, SessionsKept DEF Undo
<1>10. ASSUME NEW t \in Threads, MarkVerified(t)  PROVE SessionsInv'
  <2>1. \A v \in Users : AccountKept(v)
    BY <1>10, Requests DEF MarkVerified, AccountKept, Row, Active, Account
  <2>. QED
    BY <1>10, <2>1, SessionsKept DEF MarkVerified
<1>11. ASSUME NEW t \in Threads, UpdatePassword(t)  PROVE SessionsInv'
  <2>1. ASSUME NEW s \in session  PROVE SessionCurrent(s)'
    <3>1. s.user \in Users /\ SessionCurrent(s)
      BY DEF Session, SessionsInv
    <3>2. user'[s.user].status = user[s.user].status /\ user'[s.user].verified = user[s.user].verified
      BY <1>11, <3>1, PasswordEffect
    <3>3. Revoking(s.user) => Revoking(s.user)'
      <4>1. cut' = cut
        BY <1>11 DEF UpdatePassword
      <4>2. \A x \in Threads : req[x].pc = "revoke" => req'[x] = req[x]
        <5>1. req[t].pc = "update"
          BY <1>11 DEF UpdatePassword
        <5>. QED
          BY <1>11, <5>1, PasswordEffect
      <4>. QED
        BY <4>1, <4>2
    <3>4. user'[s.user].pw = user[s.user].pw \/ Revoking(s.user)'
      <4>1. CASE s.user = req[t].user
        BY <1>11, <4>1, PasswordEffect
      <4>2. CASE s.user # req[t].user
        BY <1>11, <3>1, <4>2, PasswordEffect
      <4>. QED
        BY <4>1, <4>2
    <3>. HIDE DEF Revoking
    <3>. QED
      BY <3>1, <3>2, <3>3, <3>4 DEF SessionCurrent, Row, Active
  <2>. QED
    BY <1>11, <2>1 DEF SessionsInv, UpdatePassword
<1>12. ASSUME NEW t \in Threads, RevokeAll(t)  PROVE SessionsInv'
  <2>1. \A s \in session' : s \in session /\ s.user # req[t].user
    BY <1>12 DEF RevokeAll, Without
  <2>. QED
    BY <1>12, <2>1, SessionsKept, SameAccounts DEF RevokeAll
<1>13. ASSUME NEW t \in Threads, LoginCreate(t)  PROVE SessionsInv'
  <2>0. PICK s0 : s0 = [user |-> req[t].user, pw |-> req[t].pw, stale |-> req[t].stale]
    OBVIOUS
  <2>1. session' = IF Row(req[t].user) THEN session \cup {s0} ELSE session
    BY <1>13, <2>0 DEF LoginCreate
  <2>2. user' = user /\ cut' = cut /\ \A x \in Threads : req[x].pc = "revoke" => req'[x] = req[x]
    BY <1>0, <1>13 DEF LoginCreate
  <2>3. LoginCurrent(t)
    BY <1>13 DEF LoginCreate, LoginsInv
  <2>4. ASSUME NEW s \in session  PROVE SessionCurrent(s)'
    BY <2>2 DEF SessionsInv, SessionCurrent, Row, Active
  <2>5. s0.user = req[t].user /\ s0.pw = req[t].pw /\ s0.stale = req[t].stale
    BY <2>0
  <2>6. ASSUME Row(req[t].user)  PROVE SessionCurrent(s0)'
    BY <2>2, <2>3, <2>5, <2>6 DEF LoginCurrent, SessionCurrent, Row, Active
  <2>. QED
    BY <2>1, <2>4, <2>6 DEF SessionsInv
<1>14. ASSUME NEW t \in Threads, CheckLastAdmin(t)  PROVE SessionsInv'
  <2>1. UNCHANGED <<user, session, cut>> /\ \A x \in Threads : req[x].pc = "revoke" => req'[x] = req[x]
    BY <1>14 DEF CheckLastAdmin
  <2>. QED
    BY <2>1, SessionsKept, SameAccounts
<1>15. ASSUME NEW t \in Threads, WriteChange(t)  PROVE SessionsInv'
  <2>1. CASE ~Row(req[t].user)
    BY <1>15, <2>1, SessionsKept, SameAccounts DEF WriteChange
  <2>2. CASE Row(req[t].user)
    <3>1. /\ cut' = cut
          /\ \A x \in Threads : req[x].pc = "revoke" => req'[x].pc = "revoke" /\ req'[x].user = req[x].user
      <4>1. req[t].pc = "write" /\ cut' = cut
        BY <1>15 DEF WriteChange
      <4>. QED
        BY <1>15, <2>2, <4>1, ChangeEffect
    <3>2. ASSUME NEW s \in session'  PROVE SessionCurrent(s)'
      <4>1. s \in session /\ s.user \in Users
        BY <1>15, <2>2, ChangeEffect DEF Without, Session
      <4>2. SessionCurrent(s) /\ (Revoking(s.user) => Revoking(s.user)')
        BY <3>1, <4>1 DEF SessionsInv
      <4>. HIDE DEF Revoking
      <4>3. CASE s.user # req[t].user
        <5>1. user'[s.user] = user[s.user]
          BY <1>15, <2>2, <4>1, <4>3, ChangeEffect
        <5>. QED
          BY <4>2, <5>1 DEF SessionCurrent, Row, Active
      <4>4. CASE s.user = req[t].user
        <5>1. user'[s.user].status \in {user[s.user].status, "active"}
          BY <1>15, <2>2, <4>4, ChangeEffect DEF Statuses, Without
        <5>2. user'[s.user].status # "none"
          BY <4>2, <5>1 DEF SessionCurrent
        <5>3. user'[s.user].verified = user[s.user].verified /\ user'[s.user].pw = user[s.user].pw
          BY <1>15, <2>2, <4>4, ChangeEffect
        <5>. QED
          BY <2>2, <4>2, <4>4, <5>1, <5>2, <5>3 DEF SessionCurrent, Row, Active
      <4>. QED
        BY <4>3, <4>4
    <3>. QED
      BY <3>2 DEF SessionsInv
  <2>. QED
    BY <2>1, <2>2
<1>16. ASSUME NEW s \in session, EndSession(s)  PROVE SessionsInv'
  BY <1>16, SessionsKept, SameAccounts DEF EndSession
<1>17. CASE Restart
  <2>1. \A u \in Users : Revoking(u) => Revoking(u)'
    BY <1>17 DEF Restart
  <2>2. ASSUME NEW s \in session  PROVE SessionCurrent(s)'
    <3>1. s.user \in Users /\ SessionCurrent(s)
      BY DEF Session, SessionsInv
    <3>. HIDE DEF Revoking
    <3>2. CASE Bootstrap /\ s.user = Root
      <4>1. user'[Root].status = "active" /\ user'[Root].verified /\ user'[Root].pw = user[Root].pw
        BY <3>1, <3>2 DEF Bootstrap, Account
      <4>2. Row(Root)
        BY DEF RootInv
      <4>. QED
        BY <2>1, <3>1, <3>2, <4>1, <4>2 DEF SessionCurrent, Row, Active
    <3>3. CASE UNCHANGED user \/ (Bootstrap /\ s.user # Root)
      <4>1. user'[s.user] = user[s.user]
        BY <3>1, <3>3 DEF Bootstrap
      <4>. QED
        BY <2>1, <3>1, <4>1 DEF SessionCurrent, Row, Active
    <3>. QED
      BY <1>17, <3>2, <3>3 DEF Restart
  <2>. QED
    BY <1>17, <2>2 DEF Restart, SessionsInv
<1>18. CASE UNCHANGED vars
  BY <1>18, SessionsKept, SameAccounts DEF vars
<1>. QED
  BY <1>1, <1>2, <1>3, <1>4, <1>5, <1>6, <1>7, <1>8, <1>9, <1>10, <1>11, <1>12, <1>13, <1>14, <1>15,
     <1>16, <1>17, <1>18
  DEF Next

-----------------------------------------------------------------------------
(* The theorems *)

LEMMA InvInit ==
  ASSUME Init
  PROVE  TokensUnique /\ RootInv /\ AdminsInv /\ LoginsInv /\ SessionsInv
<1>1. Root \in Users /\ user[Root] = Admin
  BY AccountsAssumption DEF Init
<1>2. Admin.status = "active" /\ Admin.role = "admin"
  BY DEF Admin, NewUser, NoUser
<1>3. TokensUnique /\ SessionsInv
  BY DEF Init, TokensUnique, SessionsInv
<1>4. Row(Root) /\ Root \in ActiveAdmins
  BY <1>1, <1>2 DEF Row, ActiveAdmins, Active
<1>5. \A t \in Threads : req[t].pc = "idle" /\ ~req[t].new
  BY DEF Init, Idle
<1>. QED
  BY <1>3, <1>4, <1>5 DEF RootInv, AdminsInv, LoginsInv, At

\* The inductive invariant behind the three theorems below.
THEOREM InductiveInvariant == Spec => []IInv
<1>1. Init => IInv
  BY TypeInit, InvInit DEF IInv
<1>2. IInv /\ [Next]_vars => IInv'
  BY TypeStep, TokensStep, RootStep, AdminsStep, LoginsStep, SessionsStep DEF IInv
<1>. QED
  BY <1>1, <1>2, PTL DEF Spec

\* A user has at most one token of a kind that is not used up, however many
\* requests for mails, verifications and rollbacks overlap.
THEOREM TokensAreSingle == Spec => []OneOpenToken
<1>1. IInv => OneOpenToken
  BY OneToken DEF IInv
<1>. QED
  BY <1>1, InductiveInvariant, PTL

\* A live session belongs to a verified, active account and its present
\* password, but for the two windows the property names: a login that overlaps
\* the change, and a reset that has not come to revoking the sessions.
THEOREM SessionsStayCurrent == Spec => []SessionsAreCurrent
<1>1. IInv => SessionsAreCurrent
  BY DEF IInv, SessionsInv, SessionCurrent, SessionsAreCurrent, Revoking
<1>. QED
  BY <1>1, InductiveInvariant, PTL

\* An active administrator remains unless an administrative change was written
\* after another one that came between its check and its write.
THEOREM AnAdminRemains == Spec => []AdminsRemain
<1>1. IInv => AdminsRemain
  BY DEF IInv, AdminsInv, AdminsRemain
<1>. QED
  BY <1>1, InductiveInvariant, PTL
=============================================================================
