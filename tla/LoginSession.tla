---------------------------- MODULE LoginSession ----------------------------
(***************************************************************************)
(* The logins of accounts by phone and by QR code (login_phone.py,         *)
(* login_qr.py, sessions.py) beside the sign runs of the same accounts.  A *)
(* login is several requests that hand on one account lock: the first one  *)
(* takes it, and the lease kept with the login says whether it is still    *)
(* theirs to release.  An asyncio.Lock has no owner, so that a release     *)
(* opens it whoever took it.                                               *)
(***************************************************************************)
EXTENDS Naturals, FiniteSets

CONSTANTS
  PhoneLogins, QrLogins,  \* the logins that may be started
  LoginRuns,              \* the sign runs
  LoginAccounts,
  AccountOf,              \* the account of each login and run
  Clashes,                \* <<a, b>>: "a_" is also a prefix of the keys of b
  MaxStarting             \* bound: starts in progress at the same time

Logins == PhoneLogins \cup QrLogins
Flows == Logins \cup LoginRuns

ASSUME LoginAssumption ==
  /\ PhoneLogins \cap QrLogins = {} /\ Logins \cap LoginRuns = {}
  /\ "nobody" \notin Flows
  /\ AccountOf \in [Flows -> LoginAccounts]
  /\ Clashes \subseteq LoginAccounts \X LoginAccounts
  /\ MaxStarting \in Nat

NoLogin == "nobody"

VARIABLES
  holder,    \* who took the lock of each account last, NoLogin when it is free
  owned,     \* the flows whose lease says that the lock is theirs
  robbed,    \* (history) the flows of owned whose lock a takeover opened, or
             \* one that a takeover had robbed before
  stored,    \* the logins in _login_sessions and _qr_login_sessions
  start,     \* how far the request that starts a login has come
  todo,      \* sessions a start has still to dispose of
  keys,      \* accounts whose key a start will pop
  closer,    \* the start that stops a popped session; the session itself for
             \* its own requests and its expiry watcher; NoLogin
  verify,    \* the request that continues a login
  qr,        \* what is known of the scan of a QR login; "asking" while a poll asks
             \* Telegram, where polls that overlap count as one
  moved,     \* QR logins whose expires_ts is later than their watcher knows
  signing    \* the sign runs
accountLock == <<holder, owned, robbed>>
scans == <<qr, moved>>
loginVars == <<accountLock, stored, start, todo, keys, closer, verify, scans, signing>>

LoginInit ==
  /\ holder = [a \in LoginAccounts |-> NoLogin] /\ owned = {} /\ robbed = {}
  /\ stored = {}
  /\ start = [l \in Logins |-> "new"]
  /\ todo = [l \in Logins |-> {}] /\ keys = [l \in Logins |-> {}]
  /\ closer = [l \in Logins |-> NoLogin]
  /\ verify = [l \in Logins |-> "idle"]
  /\ qr = [l \in QrLogins |-> "waiting"] /\ moved = {}
  /\ signing = [u \in LoginRuns |-> "idle"]

Starting == {l \in Logins : start[l] \notin {"new", "done"}}
Closing(l) == \E k \in Logins : closer[k] = l
Free(a) == holder[a] = NoLogin

\* A coroutine waits in acquire(): a released lock goes to it first.
Queued(a) ==
  \/ \E l \in Logins : AccountOf[l] = a
       /\ (start[l] = "waiting" \/ verify[l] \in {"relock", "take"})
  \/ \E u \in LoginRuns : AccountOf[u] = a /\ signing[u] = "waiting"

-----------------------------------------------------------------------------
(* Leases *)

\* (seeded fault) release() does not look at the ownership
OpensAlways(x, h) == [h EXCEPT ![AccountOf[x]] = NoLogin]

\* AccountLockLease.release: only an owned lock is opened.
Opens(x, h) == IF x \in owned THEN [h EXCEPT ![AccountOf[x]] = NoLogin] ELSE h

\* The owner of the lock of x, when that is another flow.
Owner(x) == {f \in owned \ {x} : holder[AccountOf[x]] = f}

Release(x) ==
  /\ owned' = owned \ {x} /\ holder' = Opens(x, holder)
  /\ robbed' = (robbed \ {x}) \cup (IF x \in robbed THEN Owner(x) ELSE {})

Take(x) ==
  /\ owned' = owned \cup {x} /\ holder' = [holder EXCEPT ![AccountOf[x]] = x]
  /\ robbed' = robbed \ {x}

\* AccountLockLease.force_release, whoever holds the lock
ForceRelease(x) ==
  /\ owned' = owned \ {x} /\ holder' = [holder EXCEPT ![AccountOf[x]] = NoLogin]
  /\ robbed' = (robbed \ {x}) \cup Owner(x)

-----------------------------------------------------------------------------
(* The request that starts a login *)

\* _cleanup_expired_login_sessions first: any of the stored ones may be old.
Begin(l) ==
  /\ start[l] = "new" /\ Cardinality(Starting) < MaxStarting
  /\ \E expired \in SUBSET stored : todo' = [todo EXCEPT ![l] = expired]
  /\ start' = [start EXCEPT ![l] = "sweeping"]
  /\ UNCHANGED <<accountLock, stored, keys, closer, verify, scans, signing>>

\* One of them is popped, and its client is stopped before its lease is
\* released; so are the residual QR sessions of an account.
PopOther(l, k) ==
  /\ start[l] \in {"sweeping", "cleaning"} /\ ~Closing(l)
  /\ k \in todo[l] \cap stored
  /\ stored' = stored \ {k} /\ closer' = [closer EXCEPT ![k] = l]
  /\ todo' = [todo EXCEPT ![l] = @ \ {k}]
  /\ UNCHANGED <<accountLock, start, keys, verify, scans, signing>>

\* The client has been stopped.
Closed(k) ==
  /\ closer[k] # NoLogin
  /\ closer' = [closer EXCEPT ![k] = NoLogin] /\ Release(k)
  /\ UNCHANGED <<stored, start, todo, keys, verify, scans, signing>>

\* The sessions of the account that an earlier start has left.
Residual(l) ==
  IF l \in QrLogins
  THEN {k \in stored \cap QrLogins : AccountOf[k] = AccountOf[l]}
  ELSE {k \in stored \cap PhoneLogins :
          AccountOf[k] = AccountOf[l] \/ <<AccountOf[l], AccountOf[k]>> \in Clashes}

\* A phone login takes the lock from a residual session, and disconnects it;
\* the first one in the same step as the lookup that finds them.
TakeOver(l, k, rest) ==
  /\ ForceRelease(k)
  /\ todo' = [todo EXCEPT ![l] = rest]
  /\ start' = [start EXCEPT ![l] = "taking"]

\* The residual sessions of the account are looked up after the sweep.
Swept(l) ==
  /\ start[l] = "sweeping" /\ ~Closing(l) /\ todo[l] \cap stored = {}
  /\ keys' = [keys EXCEPT ![l] = {AccountOf[k] : k \in Residual(l)}]
  /\ \/ /\ l \in PhoneLogins
        /\ \E k \in Residual(l) : TakeOver(l, k, Residual(l) \ {k})
     \/ /\ l \in QrLogins \/ Residual(l) = {}
        /\ todo' = [todo EXCEPT ![l] = Residual(l)]
        /\ start' = [start EXCEPT ![l] = IF l \in QrLogins THEN "cleaning" ELSE "taking"]
        /\ UNCHANGED accountLock
  /\ UNCHANGED <<stored, closer, verify, scans, signing>>

\* The client of one has been disconnected, the next one has its turn.
TakeNext(l, k) ==
  /\ start[l] = "taking" /\ k \in todo[l]
  /\ TakeOver(l, k, todo[l] \ {k})
  /\ UNCHANGED <<stored, keys, closer, verify, scans, signing>>

\* Their keys are popped at the end, whatever is stored under them by then.
TakenOver(l) ==
  /\ start[l] = "taking" /\ todo[l] = {}
  /\ stored' = stored \ {k \in PhoneLogins : AccountOf[k] \in keys[l]}
  /\ start' = [start EXCEPT ![l] = "waiting"]
  /\ UNCHANGED <<accountLock, todo, keys, closer, verify, scans, signing>>

Cleaned(l) ==
  /\ start[l] = "cleaning" /\ ~Closing(l) /\ todo[l] \cap stored = {}
  /\ start' = [start EXCEPT ![l] = "waiting"]
  /\ UNCHANGED <<accountLock, stored, todo, keys, closer, verify, scans, signing>>

StartAcquires(l) ==
  /\ start[l] = "waiting" /\ Free(AccountOf[l]) /\ Take(l)
  /\ start' = [start EXCEPT ![l] = "sending"]
  /\ UNCHANGED <<stored, todo, keys, closer, verify, scans, signing>>

\* After 15 seconds: the account is busy.
StartTimesOut(l) ==
  /\ start[l] = "waiting"
  /\ start' = [start EXCEPT ![l] = "done"]
  /\ UNCHANGED <<accountLock, stored, todo, keys, closer, verify, scans, signing>>

\* The code or the token was sent: the session is stored with its lease. A phone
\* session replaces what is stored under the same key.
Sent(l) ==
  /\ start[l] = "sending"
  /\ stored' = {l} \cup (stored \ {k \in PhoneLogins :
                                     l \in PhoneLogins /\ AccountOf[k] = AccountOf[l]})
  /\ start' = [start EXCEPT ![l] = "done"]
  /\ UNCHANGED <<accountLock, todo, keys, closer, verify, scans, signing>>

SendFails(l) ==
  /\ start[l] = "sending"
  /\ start' = [start EXCEPT ![l] = "failing"]
  /\ UNCHANGED <<accountLock, stored, todo, keys, closer, verify, scans, signing>>

\* The client of a failed start is disconnected.
StartGivesUp(l) ==
  /\ start[l] = "failing" /\ Release(l)
  /\ start' = [start EXCEPT ![l] = "done"]
  /\ UNCHANGED <<stored, todo, keys, closer, verify, scans, signing>>

-----------------------------------------------------------------------------
(* The requests that continue a login: verify_login, submit_qr_password, and  *)
(* the polls, the cancellation and the expiry of a QR login                   *)

\* What the lease and the lock say decides whether the request takes the lock.
HandOn(l) ==
  LET a == AccountOf[l]
  IN IF ~Free(a)
     THEN /\ verify' = [verify EXCEPT ![l] = "working"] /\ UNCHANGED accountLock
     ELSE IF Queued(a)
     THEN /\ verify' = [verify EXCEPT ![l] = IF l \in owned THEN "relock" ELSE "take"]
          /\ UNCHANGED accountLock
     ELSE verify' = [verify EXCEPT ![l] = "working"] /\ Take(l)

\* _extend_qr_expires: at least 300 seconds from now, but never back.
Extended(l) == moved' \in {moved, moved \cup {l}}

\* _apply_login_token_update: the end of the new token, later or sooner, when it has one.
NewEnd(l) == moved' \in {moved, moved \cup {l}, moved \ {l}}

\* Telegram answers with a token, with an error, or asks for the second factor.
Answered(l, state) ==
  \/ qr' = [qr EXCEPT ![l] = state] /\ NewEnd(l)
  \/ qr' = [qr EXCEPT ![l] = "password"] /\ Extended(l)

Verify(l) ==
  /\ l \in stored /\ verify[l] = "idle"
  /\ HandOn(l)
  /\ IF l \in QrLogins /\ qr[l] = "password" THEN Extended(l) ELSE UNCHANGED moved
  /\ UNCHANGED <<stored, start, todo, keys, closer, qr, signing>>

\* The request was queued: only one that found its lease empty marks it.
VerifyAcquires(l) ==
  /\ verify[l] \in {"relock", "take"} /\ Free(AccountOf[l])
  /\ holder' = [holder EXCEPT ![AccountOf[l]] = l]
  /\ owned' = IF verify[l] = "take" THEN owned \cup {l} ELSE owned
  /\ robbed' = robbed \ {l}
  /\ verify' = [verify EXCEPT ![l] = "working"]
  /\ UNCHANGED <<stored, start, todo, keys, closer, scans, signing>>

\* A second factor is asked for, or a QR login is not confirmed yet: the
\* session stays, with its lock.
VerifyWaits(l) ==
  /\ verify[l] = "working"
  /\ verify' = [verify EXCEPT ![l] = "idle"]
  /\ IF l \in QrLogins THEN Answered(l, qr[l]) ELSE UNCHANGED scans
  /\ UNCHANGED <<accountLock, stored, start, todo, keys, closer, signing>>

\* Signed in, or refused: a phone login disconnects, then pops its key and
\* releases.
PhoneVerified(l) ==
  /\ l \in PhoneLogins /\ verify[l] = "working"
  /\ verify' = [verify EXCEPT ![l] = "closing"]
  /\ UNCHANGED <<accountLock, stored, start, todo, keys, closer, scans, signing>>

Discard(l) ==
  /\ verify[l] = "closing"
  /\ stored' = stored \ {k \in PhoneLogins : AccountOf[k] = AccountOf[l]}
  /\ verify' = [verify EXCEPT ![l] = "idle"] /\ Release(l)
  /\ UNCHANGED <<start, todo, keys, closer, scans, signing>>

\* _cleanup_qr_login: only the first one that pops the session disposes of it.
CleanupQr(l) ==
  IF l \in stored
  THEN stored' = stored \ {l} /\ closer' = [closer EXCEPT ![l] = l]
  ELSE UNCHANGED <<stored, closer>>

\* The password is right or wrong, or the request is refused.
PasswordEnds(l) ==
  /\ l \in QrLogins /\ verify[l] = "working"
  /\ CleanupQr(l)
  /\ verify' = [verify EXCEPT ![l] = "idle"]
  /\ UNCHANGED <<accountLock, start, todo, keys, scans, signing>>

\* A poll finds the login confirmed, failed or out of date, or it is cancelled,
\* also while its password is being checked.
PollEnds(l) ==
  /\ l \in stored \cap QrLogins
  /\ CleanupQr(l)
  /\ UNCHANGED <<accountLock, start, todo, keys, verify, scans, signing>>

\* Telegram reports a scan to the client; the token may have a new end.
Scan(l) ==
  /\ l \in stored \cap QrLogins /\ qr[l] # "password"
  /\ qr' = [qr EXCEPT ![l] = IF @ = "waiting" THEN "scanned" ELSE @]
  /\ NewEnd(l)
  /\ UNCHANGED <<accountLock, stored, start, todo, keys, closer, verify, signing>>

\* (seeded fault) every poll moves the deadline, of a code nobody scanned too
PollAny(l) ==
  /\ l \in stored \cap QrLogins /\ qr[l] # "password"
  /\ Extended(l)
  /\ qr' = [qr EXCEPT ![l] = IF @ = "waiting" THEN @ ELSE "asking"]
  /\ UNCHANGED <<accountLock, stored, start, todo, keys, closer, verify, signing>>

\* get_qr_login_status of a scanned login moves the deadline, and asks Telegram
\* whether the login is confirmed.
Poll(l) ==
  /\ l \in stored \cap QrLogins /\ qr[l] \in {"scanned", "asking"}
  /\ Extended(l)
  /\ qr' = [qr EXCEPT ![l] = "asking"]
  /\ UNCHANGED <<accountLock, stored, start, todo, keys, closer, verify, signing>>

\* It is not confirmed yet, or it needs a password.
PollReturns(l) ==
  /\ l \in stored \cap QrLogins /\ qr[l] = "asking"
  /\ Answered(l, "scanned")
  /\ UNCHANGED <<accountLock, stored, start, todo, keys, closer, verify, signing>>

\* The watcher of the login wakes up, and sleeps again when the deadline has moved.
ExpireQr(l) ==
  /\ l \in stored \cap QrLogins
  /\ IF l \in moved
     THEN moved' = moved \ {l} /\ UNCHANGED <<stored, closer>>
     ELSE CleanupQr(l) /\ UNCHANGED moved
  /\ UNCHANGED <<accountLock, start, todo, keys, verify, qr, signing>>

-----------------------------------------------------------------------------
(* Sign runs, with a lease of their own, and the table of locks *)

RunArrives(u) ==
  /\ signing[u] = "idle"
  /\ signing' = [signing EXCEPT ![u] = "waiting"]
  /\ UNCHANGED <<accountLock, stored, start, todo, keys, closer, verify, scans>>

RunAcquires(u) ==
  /\ signing[u] = "waiting" /\ Free(AccountOf[u]) /\ Take(u)
  /\ signing' = [signing EXCEPT ![u] = "working"]
  /\ UNCHANGED <<stored, start, todo, keys, closer, verify, scans>>

RunEnds(u) ==
  /\ signing[u] = "working" /\ Release(u)
  /\ signing' = [signing EXCEPT ![u] = "idle"]
  /\ UNCHANGED <<stored, start, todo, keys, closer, verify, scans>>

\* A lock nothing refers to is forgotten (WeakValueDictionary), held or not.
Forgotten(a) ==
  /\ ~Free(a)
  /\ \A l \in Logins : AccountOf[l] = a =>
       /\ l \notin stored /\ l \notin Starting /\ verify[l] = "idle"
       /\ closer[l] = NoLogin /\ \A k \in Logins : l \notin todo[k]
  /\ \A u \in LoginRuns : AccountOf[u] = a => signing[u] = "idle"
  /\ holder' = [holder EXCEPT ![a] = NoLogin]
  /\ UNCHANGED <<owned, robbed, stored, start, todo, keys, closer, verify, scans, signing>>

LoginStep(l) ==
  \/ Begin(l) \/ Closed(l) \/ Swept(l) \/ TakenOver(l) \/ Cleaned(l)
  \/ StartAcquires(l) \/ StartTimesOut(l) \/ Sent(l) \/ SendFails(l)
  \/ StartGivesUp(l) \/ Verify(l) \/ VerifyAcquires(l) \/ VerifyWaits(l)
  \/ PhoneVerified(l) \/ Discard(l)
  \/ PasswordEnds(l) \/ Scan(l) \/ Poll(l) \/ PollReturns(l) \/ PollEnds(l) \/ ExpireQr(l)
  \/ \E k \in Logins : PopOther(l, k) \/ TakeNext(l, k)

LoginNext ==
  \/ \E l \in Logins : LoginStep(l)
  \/ \E u \in LoginRuns : RunArrives(u) \/ RunAcquires(u) \/ RunEnds(u)
  \/ \E a \in LoginAccounts : Forgotten(a)

\* Every coroutine goes on and every await ends; the user need not come back.
\* What a user, Telegram or the scheduler does is not fair. The watcher of a QR
\* login is, and wakes up as often as it has to: whether it then ends the login
\* is for the polls to say.
LoginFairness ==
  /\ \A l \in Logins :
       /\ WF_loginVars(Closed(l) \/ Swept(l) \/ TakenOver(l) \/ Cleaned(l))
       /\ WF_loginVars(\E k \in Logins : PopOther(l, k) \/ TakeNext(l, k))
       /\ WF_loginVars(StartTimesOut(l) \/ Sent(l) \/ SendFails(l) \/ StartGivesUp(l))
       /\ SF_loginVars(VerifyAcquires(l))
       /\ WF_loginVars(VerifyWaits(l) \/ PhoneVerified(l) \/ Discard(l) \/ PasswordEnds(l))
       /\ WF_loginVars(ExpireQr(l))
  /\ \A u \in LoginRuns : SF_loginVars(RunAcquires(u)) /\ WF_loginVars(RunEnds(u))

LoginSpec == LoginInit /\ [][LoginNext]_loginVars
LoginFairSpec == LoginSpec /\ LoginFairness

-----------------------------------------------------------------------------
(* Properties *)

\* The lock of an account is held by one of its own flows; a session is closed by
\* another start or by itself.
LoginTypeOK ==
  /\ \A a \in LoginAccounts :
       Free(a) \/ (holder[a] \in Flows /\ AccountOf[holder[a]] = a)
  /\ owned \subseteq Flows /\ robbed \subseteq owned /\ stored \subseteq Logins
  /\ start \in [Logins -> {"new", "sweeping", "cleaning", "taking", "waiting", "sending",
                          "failing", "done"}]
  /\ todo \in [Logins -> SUBSET Logins] /\ keys \in [Logins -> SUBSET LoginAccounts]
  /\ closer \in [Logins -> Logins \cup {NoLogin}]
  /\ verify \in [Logins -> {"idle", "relock", "take", "working", "closing"}]
  /\ qr \in [QrLogins -> {"waiting", "scanned", "asking", "password"}]
  /\ moved \subseteq QrLogins
  /\ signing \in [LoginRuns -> {"idle", "waiting", "working"}]

\* A sign run at work, and a start that replaces the session file and talks to
\* Telegram, have the lock of their account, whatever other logins release or clean
\* up meanwhile ("never release a lock that another one holds", verify_login). Only
\* a start that takes over a residual session can open it, and the lease of whoever
\* lost the lock to a takeover: no other release, time-out, expiry or clean-up does.
LockKept ==
  /\ \A u \in LoginRuns :
       signing[u] = "working" => holder[AccountOf[u]] = u \/ u \in robbed
  /\ \A l \in Logins : start[l] = "sending" => holder[AccountOf[l]] = l \/ l \in robbed

\* What the comment of start_login says: only the lock that a login has taken itself
\* may be released, so that a sign run keeps its lock until it ends. The takeover does
\* not look who has the lock of the residual session by then.
OnlyOwnLocks == \A u \in LoginRuns : signing[u] = "working" => holder[AccountOf[u]] = u

\* Somebody moves the deadline of a scanned login, or of one whose password is being
\* checked, again and again.
KeptAlive(l) ==
  []<><<(qr[l] # "waiting" \/ verify[l] # "idle") /\ l \notin moved /\ l \in moved'>>_moved

\* The lock of a QR login is given back although nobody cancels it, and although other
\* logins of the account come and go: its watcher ends it (_expire_qr_login), unless a
\* browser keeps polling a scan that is never confirmed. Polling a code that nobody
\* scanned does not keep the account.
QrGivesBack ==
  \A l \in QrLogins :
    (holder[AccountOf[l]] = l ~> holder[AccountOf[l]] # l) \/ KeptAlive(l)

=============================================================================
