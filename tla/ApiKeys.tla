------------------------------- MODULE ApiKeys -------------------------------
(***************************************************************************)
(* The API keys of the user of Subscriptions: made, rotated and revoked by *)
(* the user (service/developer_api.py), switched by administrators         *)
(* (service/admin.py), and counted against a number of requests a second.  *)
(*                                                                         *)
(* A method of the developer store or of the admin store holds the lock of *)
(* its own store, and sqlite3 begins a transaction only at the first       *)
(* write: what is read before it may have changed.                         *)
(***************************************************************************)
EXTENDS Subscriptions

CONSTANTS
  Keys,       \* identifiers keys are created with
  KeyLimit,   \* keys a user may have: 5
  RateLimit,  \* requests_per_second of the plan
  KeyThreads  \* HTTP threads that serve requests about keys

ASSUME ApiKeysAssumption ==
  /\ IsFiniteSet(Keys) /\ KeyLimit \in Nat
  /\ RateLimit \in Nat \ {0}

VARIABLES
  key,      \* api_keys: state of each key
  keyReq,   \* thread -> the request it serves
  window,   \* api_rate_windows: second -> requests, of the seconds kept
  granted,  \* second -> requests let through
  overdue,  \* seconds with a request let through after more than two seconds
  stale     \* keys counted on an outdated reading, and keys enabled again

rateVars == <<window, granted, overdue>>
keyVars == <<key, keyReq, stale, rateVars>>

Seconds == 0..MaxTime
NoKeyReq == [pc |-> "idle", key |-> "", to |-> "", at |-> 0, late |-> FALSE]

ApiKeysTypeOK ==
  /\ key \in [Keys -> {"none", "active", "disabled", "revoked"}]
  /\ keyReq \in [KeyThreads -> [pc : {"idle", "insert", "rotate", "state", "rate"}, key : Keys \cup {""},
                                to : {"", "active", "disabled", "revoked"}, at : Seconds, late : BOOLEAN]]
  /\ DOMAIN window \subseteq Seconds
  /\ granted \in [Seconds -> Nat] /\ overdue \subseteq Seconds /\ stale \in BOOLEAN

ActiveKeys == {k \in Keys : key[k] = "active"}

\* The user may have keys.
ApiKeysInit ==
  /\ key \in [Keys -> {"none", "active"}] /\ Cardinality(ActiveKeys) <= KeyLimit
  /\ keyReq = [t \in KeyThreads |-> NoKeyReq]
  /\ window = <<>> /\ granted = [s \in Seconds |-> 0] /\ overdue = {}
  /\ stale = FALSE

\* The requests whose readings a change of keys makes late: those about to
\* insert a key, and those about the key itself.
Overtaken(r, k) ==
  [t \in KeyThreads |-> IF r[t].pc = "insert" \/ r[t].key = k THEN [r[t] EXCEPT !.late = TRUE] ELSE r[t]]
KeyGoto(t, r) == keyReq' = [keyReq EXCEPT ![t] = r]

-----------------------------------------------------------------------------
(* The user: create_api_key, rotate_api_key, revoke_api_key *)

\* Mutant: one key too many.
CreateCheckLoose(t) ==
  /\ keyReq[t].pc = "idle" /\ Running /\ Cardinality(ActiveKeys) <= KeyLimit
  /\ KeyGoto(t, [NoKeyReq EXCEPT !.pc = "insert"])
  /\ UNCHANGED <<key, stale, rateVars>>

\* create_api_key counts the active keys...
CreateCheck(t) ==
  /\ keyReq[t].pc = "idle" /\ Running /\ Cardinality(ActiveKeys) < KeyLimit
  /\ KeyGoto(t, [NoKeyReq EXCEPT !.pc = "insert"])
  /\ UNCHANGED <<key, stale, rateVars>>

\* ...and the new one is inserted later; so is the one of a rotation.
InsertKey(t, k) ==
  /\ keyReq[t].pc = "insert" /\ key[k] = "none"
  /\ key' = [key EXCEPT ![k] = "active"]
  /\ stale' = (stale \/ keyReq[t].late)
  /\ keyReq' = Overtaken([keyReq EXCEPT ![t] = NoKeyReq], k)
  /\ UNCHANGED rateVars

\* rotate_api_key finds the key among the active ones...
RotateRead(t, k) ==
  /\ keyReq[t].pc = "idle" /\ key[k] = "active"
  /\ KeyGoto(t, [NoKeyReq EXCEPT !.pc = "rotate", !.key = k])
  /\ UNCHANGED <<key, stale, rateVars>>

\* ...and revokes it, which succeeds for a key revoked meanwhile as well.
RotateRevoke(t) ==
  /\ keyReq[t].pc = "rotate"
  /\ LET k == keyReq[t].key IN
     /\ key' = [key EXCEPT ![k] = "revoked"]
     /\ keyReq' = [Overtaken([keyReq EXCEPT ![t] = NoKeyReq], k) EXCEPT
                     ![t] = [NoKeyReq EXCEPT !.pc = "insert", !.late = keyReq[t].late]]
  /\ UNCHANGED <<stale, rateVars>>

\* revoke_key
RevokeKey(k) ==
  /\ key[k] # "none"
  /\ key' = [key EXCEPT ![k] = "revoked"]
  /\ keyReq' = Overtaken(keyReq, k)
  /\ UNCHANGED <<stale, rateVars>>

-----------------------------------------------------------------------------
(* The administrator: key_state *)

Switching == {t \in KeyThreads : keyReq[t].pc = "state"}

\* Mutant: a revoked key is switched like any other.
StateReadAny(t, k, to) ==
  /\ keyReq[t].pc = "idle" /\ Switching = {} /\ key[k] # "none"
  /\ KeyGoto(t, [NoKeyReq EXCEPT !.pc = "state", !.key = k, !.to = to])
  /\ UNCHANGED <<key, stale, rateVars>>

\* A revoked key is refused, as it is read...
StateRead(t, k, to) ==
  /\ keyReq[t].pc = "idle" /\ Switching = {} /\ key[k] # "none"
  /\ key[k] = "revoked" => to = "revoked"
  /\ KeyGoto(t, [NoKeyReq EXCEPT !.pc = "state", !.key = k, !.to = to])
  /\ UNCHANGED <<key, stale, rateVars>>

\* ...and every column is written, revoked_at too.
StateWrite(t) ==
  /\ t \in Switching
  /\ LET k == keyReq[t].key  to == keyReq[t].to IN
     /\ key' = [key EXCEPT ![k] = to]
     /\ stale' = (stale \/ (to = "active" /\ key[k] # "active"))
     /\ keyReq' = Overtaken([keyReq EXCEPT ![t] = NoKeyReq], k)
  /\ UNCHANGED rateVars

-----------------------------------------------------------------------------
(* A request with a key *)

\* authenticate_key, and the second read for the window before the lock.
Authenticate(t, k) ==
  /\ keyReq[t].pc = "idle" /\ key[k] = "active" /\ Usable
  /\ KeyGoto(t, [NoKeyReq EXCEPT !.pc = "rate", !.at = now])
  /\ UNCHANGED <<key, stale, rateVars>>

CountAt(s) == IF s \in DOMAIN window THEN window[s] ELSE 0

\* Mutant: only the present second is kept.
KeptNow(s) == {b \in DOMAIN window : b >= s}

Kept(s) == {b \in DOMAIN window : b + 2 >= s}

\* consume_rate_limit, for one key: the second is read before the wait for the
\* lock, and the windows of seconds two before it are dropped.
ConsumeRate(t) ==
  /\ keyReq[t].pc = "rate"
  /\ LET s == keyReq[t].at  ok == CountAt(s) < RateLimit IN
     /\ window' = [b \in Kept(s) \cup (IF ok THEN {s} ELSE {}) |->
                     IF b = s /\ ok THEN CountAt(s) + 1 ELSE window[b]]
     /\ granted' = [granted EXCEPT ![s] = IF ok THEN @ + 1 ELSE @]
     /\ overdue' = IF ok /\ now > s + 2 THEN overdue \cup {s} ELSE overdue
  /\ KeyGoto(t, NoKeyReq)
  /\ UNCHANGED <<key, stale>>

KeyRequest ==
  \/ \E t \in KeyThreads : CreateCheck(t)
       \/ \E k \in Keys : RotateRead(t, k) \/ Authenticate(t, k)
            \/ \E to \in {"active", "disabled", "revoked"} : StateRead(t, k, to)
  \/ \E k \in Keys : RevokeKey(k)

KeyStep == \E t \in KeyThreads :
  RotateRevoke(t) \/ StateWrite(t) \/ ConsumeRate(t) \/ \E k \in Keys : InsertKey(t, k)

-----------------------------------------------------------------------------
\* "You can have up to 5 active API keys." (developer_api.py:615): so it is,
\* unless a key was inserted when the keys had changed after they were counted,
\* or an administrator enabled one that was not active.
KeysLimited == stale \/ Cardinality(ActiveKeys) <= KeyLimit

\* The user's or administrator's revocation is for good (ADMIN-CONSOLE-AR.md:20),
\* unless key_state had read the key before it was revoked and writes after.
RevokedIsRevoked ==
  [][\A k \in Keys : key[k] = "revoked" /\ key'[k] # "revoked" =>
       \E t \in Switching : keyReq[t].key = k /\ keyReq[t].late]_key

\* No key gets more requests through in a second than its plan has, however
\* late its requests reach the lock and in whatever order, unless one of them
\* waited longer than windows are kept and was counted anew
\* (consume_rate_limit, "cannot each independently grant the full per-key
\* limit", developer_api.py:342-343).
RateKept == \A s \in Seconds \ overdue : granted[s] <= RateLimit

\* The same without the exception: what the documentation says.
RevokedForGood == [][\A k \in Keys : key[k] = "revoked" => key'[k] = "revoked"]_key
=============================================================================
