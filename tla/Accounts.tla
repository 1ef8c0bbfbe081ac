------------------------------ MODULE Accounts ------------------------------
(***************************************************************************)
(* Accounts, one-time tokens and sessions (service/auth.py), and the two   *)
(* administrative changes of an account (service/admin.py).                *)
(*                                                                         *)
(* A request runs in a thread of the HTTP server as a sequence of store    *)
(* calls; each call is one transaction and one step here.  Passwords are   *)
(* numbered, mail is a delivery that may fail although it arrived, and a   *)
(* restart ends every request where it is.  Rows that can no longer be     *)
(* used (tokens used up, sessions revoked) are left out.                   *)
(***************************************************************************)
EXTENDS Naturals, FiniteSets

CONSTANTS
  Users,         \* identifiers users are created with
  Root,          \* the account of SMARTRISK_ADMIN_EMAIL
  EmailOf,       \* Users -> e-mail address
  Threads,       \* of the HTTP server
  MaxSessions,   \* bound: sessions at a time
  MaxPasswords,  \* bound: resets of one user's password
  MaxEvents      \* bound: administrative changes, failed deliveries and restarts

ASSUME AccountsAssumption ==
  /\ Root \in Users
  /\ DOMAIN EmailOf = Users
  /\ {MaxSessions, MaxPasswords, MaxEvents} \subseteq Nat

VARIABLES
  user,      \* table users
  token,     \* tokens with no used_at: whose, made by which request, delivered or not
  session,   \* sessions with no revoked_at; "stale": the login read an account that changed
  req,       \* thread -> the request it serves
  events,    \* administrative changes, failed deliveries and restarts so far
  raced,     \* an administrative change was written on an outdated check
  cut        \* users whose password reset was cut off before it revoked their sessions

vars == <<user, token, session, req, events, raced, cut>>

Kinds == {"verify", "reset"}
Statuses == {"active", "suspended"} \* nothing here tells "deleted" from "suspended"
Roles == {"user", "admin"}

\* "none": no row yet; "gone": the row was deleted.
Account == [status : Statuses \cup {"none", "gone"}, verified : BOOLEAN,
            role : Roles, pw : 0..MaxPasswords]
Token == [kind : Kinds, user : Users, by : Threads, sent : BOOLEAN]
Session == [user : Users, pw : 0..MaxPasswords, stale : BOOLEAN]
Request == [pc : {"idle", "token", "mail", "undo", "login", "mark", "update", "revoke", "check", "write"},
            user : Users, kind : Kinds, new : BOOLEAN, pw : 0..MaxPasswords,
            set : Statuses \cup Roles, stale : BOOLEAN]

TypeOK ==
  /\ user \in [Users -> Account]
  /\ token \subseteq Token
  /\ session \subseteq Session
  /\ req \in [Threads -> Request]
  /\ events \in 0..MaxEvents
  /\ raced \in BOOLEAN /\ cut \subseteq Users

Row(u) == user[u].status \notin {"none", "gone"}
Active(u) == user[u].status = "active"
ActiveAdmins == {u \in Users : Active(u) /\ user[u].role = "admin"}

NoUser == [status |-> "none", verified |-> FALSE, role |-> "user", pw |-> 0]
NewUser == [NoUser EXCEPT !.status = "active"]
Admin == [NewUser EXCEPT !.verified = TRUE, !.role = "admin"]
Idle == [pc |-> "idle", user |-> Root, kind |-> "verify", new |-> FALSE, pw |-> 0,
         set |-> "active", stale |-> FALSE]

\* The configured administrator exists, and others may have been made administrators.
Init ==
  /\ user \in [Users -> {NoUser, Admin}] /\ user[Root] = Admin
  /\ token = {} /\ session = {}
  /\ req = [t \in Threads |-> Idle]
  /\ events = 0 /\ raced = FALSE /\ cut = {}

At(t, pc) == req[t].pc = pc
Goto(t, r) == req' = [req EXCEPT ![t] = r]
Done(t) == Goto(t, Idle)

\* The tokens of one user and kind: every one that is made uses up the others.
TokensOf(k, u) == {x \in token : x.kind = k /\ x.user = u}
NewToken(t) == [kind |-> req[t].kind, user |-> req[t].user, by |-> t, sent |-> FALSE]

-----------------------------------------------------------------------------
(* Registration, and the mails with a one-time token *)

\* create_user: an address has one row.
Register(t, u) ==
  /\ At(t, "idle") /\ user[u].status = "none"
  /\ \A v \in Users : Row(v) => EmailOf[v] # EmailOf[u]
  /\ user' = [user EXCEPT ![u] = NewUser]
  /\ Goto(t, [Idle EXCEPT !.pc = "token", !.user = u, !.new = TRUE])
  /\ UNCHANGED <<token, session, events, raced, cut>>

\* resend_verification and request_password_reset read the account first.
AskMail(t, u, k) ==
  /\ At(t, "idle") /\ Active(u)
  /\ k = "verify" => ~user[u].verified
  /\ Goto(t, [Idle EXCEPT !.pc = "token", !.user = u, !.kind = k])
  /\ UNCHANGED <<user, token, session, events, raced, cut>>

\* Mutant: the tokens made before stay valid.
MakeTokenBeside(t) ==
  /\ At(t, "token")
  /\ token' = token \cup {NewToken(t)}
  /\ Goto(t, [req[t] EXCEPT !.pc = "mail"])
  /\ UNCHANGED <<user, session, events, raced, cut>>

\* create_one_time_token: the tokens made before are used up.
MakeToken(t) ==
  /\ At(t, "token")
  /\ token' = (token \ TokensOf(req[t].kind, req[t].user)) \cup {NewToken(t)}
  /\ Goto(t, [req[t] EXCEPT !.pc = "mail"])
  /\ UNCHANGED <<user, session, events, raced, cut>>

\* A token reaches its user; one that was used up meanwhile is of no use.
Delivered(t) ==
  token' = {IF x = NewToken(t) THEN [x EXCEPT !.sent = TRUE] ELSE x : x \in token}

Mail(t) ==
  /\ At(t, "mail")
  /\ Delivered(t) /\ Done(t)
  /\ UNCHANGED <<user, session, events, raced, cut>>

\* The mailer reports a failure, before or after the mail went out.
MailFails(t) ==
  /\ At(t, "mail")
  /\ events < MaxEvents /\ events' = events + 1
  /\ Delivered(t) \/ UNCHANGED token
  /\ IF req[t].new THEN Goto(t, [req[t] EXCEPT !.pc = "undo"]) ELSE Done(t)
  /\ UNCHANGED <<user, session, raced, cut>>

\* register deletes the account whose mail failed, with its verification tokens.
Undo(t) ==
  /\ At(t, "undo")
  /\ LET u == req[t].user IN
     /\ user' = [user EXCEPT ![u].status = "gone"]
     /\ token' = token \ TokensOf("verify", u)
     /\ raced' = (raced \/ user[u].role = "admin")
  /\ Done(t)
  /\ UNCHANGED <<session, events, cut>>

-----------------------------------------------------------------------------
(* Using a token: verify_email and reset_password *)

\* consume_one_time_token.  A token past its time is refused, which is as if its
\* user never came: the refusal undoes the write that would have marked it.
Consume(t, x) ==
  /\ At(t, "idle") /\ x.sent
  /\ x.kind = "reset" => user[x.user].pw < MaxPasswords
  /\ token' = token \ {x}
  /\ Goto(t, [Idle EXCEPT !.pc = IF x.kind = "verify" THEN "mark" ELSE "update", !.user = x.user])
  /\ UNCHANGED <<user, session, events, raced, cut>>

\* mark_verified
MarkVerified(t) ==
  /\ At(t, "mark")
  /\ LET u == req[t].user IN
     /\ user' = [user EXCEPT ![u].verified = @ \/ Row(u)]
     /\ token' = token \ TokensOf("verify", u)
  /\ Done(t)
  /\ UNCHANGED <<session, events, raced, cut>>

\* The requests rs among those of r that are at pc now act on what has changed.
Outdate(r, pc, rs) ==
  [t \in Threads |-> IF r[t].pc = pc /\ t \in rs THEN [r[t] EXCEPT !.stale = TRUE] ELSE r[t]]
Of(u) == {t \in Threads : req[t].user = u}

\* update_password
UpdatePassword(t) ==
  /\ At(t, "update")
  /\ LET u == req[t].user IN
     /\ user' = [user EXCEPT ![u].pw = IF Row(u) /\ @ < MaxPasswords THEN @ + 1 ELSE @]
     /\ req' = Outdate([req EXCEPT ![t].pc = "revoke"], "login", Of(u))
  /\ UNCHANGED <<token, session, events, raced, cut>>

Without(u) == {s \in session : s.user # u}

\* Mutant: a reset leaves the sessions alone.
RevokeNone(t) ==
  /\ At(t, "revoke")
  /\ cut' = cut \ {req[t].user} /\ Done(t)
  /\ UNCHANGED <<user, token, session, events, raced>>

\* revoke_all_sessions
RevokeAll(t) ==
  /\ At(t, "revoke")
  /\ session' = Without(req[t].user)
  /\ cut' = cut \ {req[t].user} /\ Done(t)
  /\ UNCHANGED <<user, token, events, raced>>

-----------------------------------------------------------------------------
(* login, logout *)

LoginRead(t, u) ==
  /\ At(t, "idle") /\ Active(u) /\ user[u].verified
  /\ Goto(t, [Idle EXCEPT !.pc = "login", !.user = u, !.pw = user[u].pw])
  /\ UNCHANGED <<user, token, session, events, raced, cut>>

\* create_session looks only whether the account is still there (in the read
\* before it, after touch_login).
LoginCreate(t) ==
  /\ At(t, "login")
  /\ LET s == [user |-> req[t].user, pw |-> req[t].pw, stale |-> req[t].stale] IN
     /\ session' = IF Row(s.user) THEN session \cup {s} ELSE session
     /\ Cardinality(session') <= MaxSessions
  /\ Done(t)
  /\ UNCHANGED <<user, token, events, raced, cut>>

\* logout, or a session that is found to have expired.
EndSession(s) ==
  /\ session' = session \ {s}
  /\ UNCHANGED <<user, token, req, events, raced, cut>>

-----------------------------------------------------------------------------
(* set_user_status, set_user_role *)

\* require_admin on the account of the session, and the refusal to lock oneself out.
AskChange(t, s, u, set) ==
  /\ At(t, "idle") /\ events < MaxEvents /\ events' = events + 1
  /\ s.user \in ActiveAdmins /\ user[s.user].verified
  /\ set \notin {"active", "admin"} => s.user # u
  /\ user[u].status # "none"
  /\ Goto(t, [Idle EXCEPT !.pc = IF set \in {"active", "admin"} THEN "write" ELSE "check",
                          !.user = u, !.set = set])
  /\ UNCHANGED <<user, token, session, raced, cut>>

\* Mutant: the check counts the suspended administrators too.
CheckAnyAdmin(t) ==
  /\ At(t, "check")
  /\ LET u == req[t].user IN
     IF Row(u) /\ user[u].role = "admin"
          /\ \A a \in Users \ {u} : ~(Row(a) /\ user[a].role = "admin")
       THEN Done(t) ELSE Goto(t, [req[t] EXCEPT !.pc = "write"])
  /\ UNCHANGED <<user, token, session, events, raced, cut>>

\* The last active administrator is refused; the write comes in another transaction.
CheckLastAdmin(t) ==
  /\ At(t, "check")
  /\ LET u == req[t].user IN
     IF Row(u) /\ user[u].role = "admin" /\ ActiveAdmins \ {u} = {}
       THEN Done(t) ELSE Goto(t, [req[t] EXCEPT !.pc = "write"])
  /\ UNCHANGED <<user, token, session, events, raced, cut>>

Changed(u, set) ==
  IF set \in Roles THEN [user EXCEPT ![u].role = set] ELSE [user EXCEPT ![u].status = set]

\* AuthStore.set_user_status and set_user_role: a change of status to anything
\* but "active" ends the sessions in the same transaction.
WriteChange(t) ==
  /\ At(t, "write")
  /\ LET u == req[t].user  ends == req[t].set \in Statuses \ {"active"}
         r == Outdate([req EXCEPT ![t] = Idle], "write", Threads) IN
     IF ~Row(u) THEN Done(t) /\ UNCHANGED <<user, session, raced>> ELSE
     /\ user' = Changed(u, req[t].set)
     /\ session' = IF ends THEN Without(u) ELSE session
     /\ raced' = (raced \/ req[t].stale)
     /\ req' = IF ends THEN Outdate(r, "login", Of(u)) ELSE r
  /\ UNCHANGED <<token, events, cut>>

-----------------------------------------------------------------------------
\* bootstrap_admin_from_env, at each start when an administrator is configured.
Bootstrap ==
  user' = [user EXCEPT ![Root] = [@ EXCEPT !.status = "active", !.verified = TRUE, !.role = "admin"]]

\* The process ends and starts again.
Restart ==
  /\ events < MaxEvents /\ events' = events + 1
  /\ req' = [t \in Threads |-> Idle]
  /\ cut' = cut \cup {req[t].user : t \in {x \in Threads : At(x, "revoke")}}
  /\ Bootstrap \/ UNCHANGED user
  /\ UNCHANGED <<token, session, raced>>

Next ==
  \/ \E t \in Threads :
       \/ \E u \in Users : Register(t, u) \/ LoginRead(t, u)
       \/ \E u \in Users, k \in Kinds : AskMail(t, u, k)
       \/ \E x \in token : Consume(t, x)
       \/ \E s \in session, u \in Users, set \in Statuses \cup Roles : AskChange(t, s, u, set)
       \/ MakeToken(t) \/ Mail(t) \/ MailFails(t) \/ Undo(t)
       \/ MarkVerified(t) \/ UpdatePassword(t) \/ RevokeAll(t)
       \/ LoginCreate(t) \/ CheckLastAdmin(t) \/ WriteChange(t)
  \/ \E s \in session : EndSession(s)
  \/ Restart

Spec == Init /\ [][Next]_vars

-----------------------------------------------------------------------------
\* A user has at most one token of a kind that is not used up, whatever requests
\* for mails, verifications and rollbacks overlap (create_one_time_token).
OneOpenToken == \A k \in Kinds, u \in Users : Cardinality(TokensOf(k, u)) <= 1

\* A live session belongs to a verified, active account and to its present
\* password, unless the login had read the account before the change and stored
\* its session after, or the reset has not come to revoking the sessions (in the
\* end: it was cut off).  This is what login and reset_password are for.
SessionsAreCurrent ==
  \A s \in session : LET u == s.user IN
    Row(u) /\ ~s.stale =>
      /\ user[u].verified /\ Active(u)
      /\ \/ s.pw = user[u].pw
         \/ u \in cut \/ \E t \in Threads : At(t, "revoke") /\ req[t].user = u

\* "At least one active administrator must remain." (admin.py:277): it does,
\* unless a change was written after another one that came between its check
\* and its write, or the registration of an administrator was rolled back.
AdminsRemain == ActiveAdmins # {} \/ raced
=============================================================================
