------------------------------ MODULE Accounts ------------------------------
(***************************************************************************)
(* Who may use the API: auth.go (registration, login, sessions), the       *)
(* middleware in front of it, and UpdateUserStatus of admin.go, with the   *)
(* rate limiter of RateLimit.tla.                                          *)
(*                                                                         *)
(* Every statement of auth.go commits on its own; only the change of a     *)
(* status is a transaction, which holds the row of the user from its first *)
(* statement. Sessions and audit entries refer to users, so that writing   *)
(* one waits for whoever holds that user's row.                            *)
(***************************************************************************)
EXTENDS RateLimit, Sequences, SequencesExt

CONSTANTS
    Users,          \* email addresses
    Listed,         \* those in ADMIN_EMAILS
    Clients,        \* browsers, each with one request at a time and one cookie
    NoUser, Nobody,
    Life,           \* how long a session lasts (7 days), in ticks
    MaxTime,        \* bound: the last tick
    MaxCalls,       \* bound: requests
    MaxFaults       \* bound: failed statements, restarts, partitions and losses

ASSUME AccountsAssumption ==
    /\ Listed \subseteq Users
    /\ NoUser \notin Users /\ Nobody \notin Clients
    /\ Life \in Nat \ {0} /\ MaxTime \in Nat /\ MaxCalls \in Nat /\ MaxFaults \in Nat

VARIABLES
    account,        \* users: status and role, "none" when there is no row
    sessions,       \* rows of sessions
    holder,         \* the transaction that holds each user's row
    log,            \* admin_audit_logs of each user: before and after
    call,           \* the request of each client
    cookie,         \* the session each client was given
    calls, faults,
    \* history: how often each user was disabled, and whether a status was set by
    \* somebody disabled himself meanwhile
    disables, outrun

accountVars == <<account, sessions, holder, log, call, cookie, calls, faults, disables, outrun>>
allVars == <<rateVars, accountVars>>

NoAccount == [status |-> "none", role |-> "user"]

\* `id`, `born` and `new` are history: they tell sessions apart, count the times
\* their user had been disabled, and say whether a registration made them.
NoSession == [id |-> 0, user |-> NoUser, until |-> 0, born |-> 0, new |-> FALSE]

\* `asof` (history) counts how often the user had been disabled when he was let in.
NoCall == [pc |-> "idle", at |-> CHOOSE i \in Instances : TRUE, user |-> NoUser, new |-> FALSE,
           session |-> NoSession, to |-> "active", target |-> NoUser, before |-> "none",
           asof |-> 0]

Init ==
    /\ RateInit
    /\ account \in [Users -> {NoAccount} \cup [status : {"active"}, role : {"user", "admin"}]]
    /\ \A u \in Users : account[u].role = "admin" => u \in Listed
    /\ sessions = {} /\ calls = 0 /\ faults = 0 /\ outrun = FALSE
    /\ holder = [u \in Users |-> Nobody]
    /\ log = [u \in Users |-> <<>>]
    /\ call = [c \in Clients |-> NoCall]
    /\ cookie = [c \in Clients |-> NoSession]
    /\ disables = [u \in Users |-> 0]

-----------------------------------------------------------------------------
Data == <<account, sessions, holder, log, disables, outrun>>

Finish(c) == call' = [call EXCEPT ![c] = NoCall]

\* The cookie lasts as long as a session.
SetSessionCookie(c, s) == cookie' = [cookie EXCEPT ![c] = s]
ClearSessionCookie(c) == cookie' = [cookie EXCEPT ![c] = NoSession]

\* authRateLimitMiddleware, then the handler.
Knock(c, i, u, new) ==
    /\ call[c].pc = "idle" /\ calls < MaxCalls
    /\ calls' = calls + 1
    /\ \E ok \in BOOLEAN :
        /\ Allow(i, ok)
        /\ call' = IF ok THEN [call EXCEPT ![c] =
                                 [NoCall EXCEPT !.pc = IF new THEN "free?" ELSE "select",
                                                !.at = i, !.user = u, !.new = new]]
                         ELSE call
    /\ UNCHANGED <<clock, reached, emptied, Data, cookie, faults>>

UserExists(u) == account[u] # NoAccount

CheckFree(c) ==
    /\ call[c].pc = "free?"
    /\ IF UserExists(call[c].user) THEN Finish(c)
                                   ELSE call' = [call EXCEPT ![c].pc = "insert"]
    /\ UNCHANGED <<rateVars, Data, cookie, calls, faults>>

\* Mutant: an insert that meets a row takes it over.
TakenOver(u) == FALSE

\* The UNIQUE address: the insert fails, and with it the registration.
Taken(u) == account[u] # NoAccount

InsertUser(c) ==
    LET u == call[c].user
    IN /\ call[c].pc = "insert"
       /\ IF Taken(u)
          THEN Finish(c) /\ UNCHANGED account
          ELSE /\ account' = [account EXCEPT ![u] =
                    [status |-> "active", role |-> IF u \in Listed THEN "admin" ELSE "user"]]
               /\ call' = [call EXCEPT ![c].pc = "session"]
       /\ UNCHANGED <<rateVars, sessions, holder, log, disables, outrun, cookie, calls, faults>>

\* Login: the row of an active user, then bcrypt.
SelectUser(c) ==
    /\ call[c].pc = "select"
    /\ IF account[call[c].user].status = "active"
       THEN call' = [call EXCEPT ![c].pc = "session"]
       ELSE Finish(c)
    /\ UNCHANGED <<rateVars, Data, cookie, calls, faults>>

RowFree(u) == holder[u] = Nobody

\* The sessions somebody may still use: rows, cookies and answers on their way.
Known == sessions \cup {cookie[c] : c \in Clients} \cup {call[c].session : c \in Clients}

\* generateToken never repeats itself. A session takes a request, so that one of the
\* tokens is free.
FreshToken == Min(1..MaxCalls \ {s.id : s \in Known})

\* The update of last_login_at and CreateSession, which waits for the user's row.
InsertSession(c) ==
    LET u == call[c].user
        s == [id |-> FreshToken, user |-> u, until |-> clock + Life, born |-> disables[u],
              new |-> call[c].new]
    IN /\ call[c].pc = "session" /\ RowFree(u)
       /\ sessions' = sessions \cup {s}
       /\ call' = [call EXCEPT ![c].pc = "reply", ![c].session = s]
       /\ UNCHANGED <<rateVars, account, holder, log, disables, outrun, cookie, calls, faults>>

\* A login reads its user (GetUser) and sets the cookie.
Reply(c) ==
    /\ call[c].pc = "reply"
    /\ SetSessionCookie(c, call[c].session)
    /\ Finish(c)
    /\ UNCHANGED <<rateVars, Data, calls, faults>>
\* Mutant: the sessions of the user all end.
LoggedOutEverywhere(c) == {s \in sessions : s.user = cookie[c].user}

\* Logout deletes the row of its token.
LoggedOut(c) == {cookie[c]}

\* The cookie is cleared whether the DELETE runs or fails.
Logout(c) ==
    /\ call[c].pc = "idle" /\ calls < MaxCalls /\ cookie[c] # NoSession
    /\ calls' = calls + 1
    /\ \/ sessions' = sessions \ LoggedOut(c) /\ UNCHANGED faults
       \/ faults < MaxFaults /\ faults' = faults + 1 /\ UNCHANGED sessions
    /\ ClearSessionCookie(c)
    /\ UNCHANGED <<rateVars, account, holder, log, call, disables, outrun>>

-----------------------------------------------------------------------------
(* A request of a signed-in user that changes the status of another. *)

\* Mutant: the status is not looked at.
ExpiredOnly(s) == clock <= s.until

\* ValidateSession, for a session with a row.
Valid(s) == clock <= s.until /\ account[s.user].status = "active"

\* Mutant: nobody is kept from disabling himself.
AnyTarget(u, target, to) == TRUE

MayChange(u, target, to) == u # target \/ to # "disabled"

\* authMiddleware, adminMiddleware and the checks of UpdateUserStatus: from here on
\* the request acts for the user it found. A row past its end is deleted.
Enter(c, i, target, to) ==
    LET s == cookie[c]
    IN /\ call[c].pc = "idle" /\ calls < MaxCalls /\ s # NoSession
       /\ calls' = calls + 1
       /\ IF s \in sessions /\ Valid(s) /\ account[s.user].role = "admin"
                         /\ MayChange(s.user, target, to)
          THEN call' = [call EXCEPT ![c] =
                 [NoCall EXCEPT !.pc = "lock", !.at = i, !.user = s.user, !.target = target,
                                !.to = to, !.asof = disables[s.user]]]
          ELSE UNCHANGED call
       /\ sessions' = IF clock <= s.until THEN sessions ELSE sessions \ {s}
       /\ UNCHANGED <<rateVars, account, holder, log, cookie, faults, disables, outrun>>

\* Mutant: the row is read without FOR UPDATE.
UnlockedRow(u) == TRUE

\* What SELECT ... FOR UPDATE waits for.
Lockable(u) == RowFree(u)

LockUser(c) ==
    LET t == call[c].target
    IN /\ call[c].pc = "lock"
       /\ IF account[t] = NoAccount
          THEN Finish(c) /\ UNCHANGED holder
          ELSE /\ Lockable(t)
               /\ holder' = [holder EXCEPT ![t] = c]
               /\ call' = [call EXCEPT ![c].pc = "commit", ![c].before = account[t].status]
       /\ UNCHANGED <<rateVars, account, sessions, log, disables, outrun, cookie, calls, faults>>

\* The sessions a change of status ends.
Revoked(u, to) == IF to = "disabled" THEN {s \in sessions : s.user = u} ELSE {}

\* The update, the end of the sessions and the audit entry, which refers to the
\* administrator and waits for his row, become visible together.
Commit(c) ==
    LET t == call[c].target
        to == call[c].to
    IN /\ call[c].pc = "commit" /\ holder[call[c].user] \in {c, Nobody}
       /\ account' = [account EXCEPT ![t].status = to]
       /\ sessions' = sessions \ Revoked(t, to)
       /\ log' = [log EXCEPT ![t] = Append(@, [before |-> call[c].before, after |-> to])]
       /\ holder' = [holder EXCEPT ![t] = Nobody]
       /\ disables' = IF to = "disabled" THEN [disables EXCEPT ![t] = @ + 1] ELSE disables
       /\ outrun' = (outrun \/ account[call[c].user].status # "active")
       /\ Finish(c)
       /\ UNCHANGED <<rateVars, cookie, calls, faults>>

\* Rolls back what the calls have begun.
Released(stopped) ==
    holder' = [u \in Users |-> IF holder[u] \in stopped THEN Nobody ELSE holder[u]]

\* Two administrators change each other: PostgreSQL ends one of the transactions.
Deadlock(c) ==
    /\ call[c].pc = "commit"
    /\ \E d \in Clients \ {c} : /\ holder[call[c].user] = d
                                 /\ call[d].pc = "commit" /\ holder[call[d].user] = c
    /\ Finish(c) /\ Released({c})
    /\ UNCHANGED <<rateVars, account, sessions, log, disables, outrun, cookie, calls, faults>>

-----------------------------------------------------------------------------
(* Faults and time. *)

Fault == faults < MaxFaults /\ faults' = faults + 1

\* A statement fails, or the client goes.
CallFails(c) ==
    /\ call[c].pc # "idle" /\ Fault
    /\ Finish(c) /\ Released({c})
    /\ UNCHANGED <<rateVars, account, sessions, log, disables, outrun, cookie, calls>>

\* A process starts again: its requests are gone, its limiter is empty, and
\* BootstrapAdmins, whose failure is only logged, gives the listed users their role.
Restart(i) ==
    LET stopped == {c \in Clients : call[c].pc # "idle" /\ call[c].at = i}
    IN /\ Fault
       /\ call' = [c \in Clients |-> IF c \in stopped THEN NoCall ELSE call[c]]
       /\ Released(stopped)
       /\ local' = [local EXCEPT ![i] = NoEntry] /\ emptied' = emptied \cup {i}
       /\ account' \in {account, [u \in Users |->
                IF u \in Listed /\ account[u] # NoAccount
                THEN [account[u] EXCEPT !.role = "admin"] ELSE account[u]]}
       /\ UNCHANGED <<clock, reached, shared, passed, sessions, log, disables, outrun, cookie, calls>>

Tick == clock < MaxTime /\ RateTick /\ UNCHANGED accountVars

RedisFaults ==
    /\ \/ Fault /\ (LoseShared \/ \E i \in Instances : Unreach(i))
       \/ UNCHANGED faults /\ \E i \in Instances : Reach(i)
    /\ UNCHANGED <<Data, call, cookie, calls>>

SignIn(c) ==
    \/ \E i \in Instances, u \in Users, new \in BOOLEAN : Knock(c, i, u, new)
    \/ CheckFree(c) \/ InsertUser(c) \/ SelectUser(c) \/ InsertSession(c) \/ Reply(c)
    \/ Logout(c)

ChangeStatus(c) ==
    \/ \E i \in Instances, u \in Users, to \in {"active", "disabled"} : Enter(c, i, u, to)
    \/ LockUser(c) \/ Commit(c) \/ Deadlock(c)

Next ==
    \/ \E c \in Clients : SignIn(c) \/ ChangeStatus(c) \/ CallFails(c)
    \/ \E i \in Instances : Restart(i)
    \/ Tick \/ RedisFaults

Spec == Init /\ [][Next]_allVars

-----------------------------------------------------------------------------
(* Properties. *)

\* Disabling a user revokes every session there is: one that exists was made since
\* the last time, by a login that was already past its look at the status. While a
\* user is disabled no request enters for him, with that session or another, and he
\* only finishes what had entered before.
SessionsRevoked ==
    /\ \A s \in sessions : s.born = disables[s.user]
    /\ \A c \in Clients :
        call[c].pc \in {"lock", "commit"} /\ account[call[c].user].status = "disabled"
            => call[c].asof < disables[call[c].user]

\* The session a client was given works until it ends, the client logs out or the
\* user is disabled, whatever other clients of the user do.
SessionsWork ==
    \A c \in Clients :
        LET s == cookie[c]
        IN s = NoSession \/ s \in sessions \/ clock > s.until \/ s.born < disables[s.user]

\* Of the registrations of one address that find it free at the same time, one
\* succeeds.
RegisteredOnce ==
    LET given == sessions \cup {cookie[c] : c \in Clients}
    IN \A s, t \in given : s.new /\ t.new /\ s.user = t.user => s = t

\* The audit log tells the history of a user's status without a gap: it begins with
\* an active user, every entry starts from where the one before ended, and the last
\* one is the status now.
AuditChain ==
    \A u \in Users :
        LET entries == <<[before |-> "none", after |-> "active"]>> \o log[u]
        IN /\ \A n \in 2..Len(entries) : entries[n].before = entries[n - 1].after
           /\ account[u] # NoAccount => account[u].status = Last(entries).after

HasAdmin == \E u \in Users : account[u].status = "active" /\ account[u].role = "admin"

\* As nobody disables himself, an administrator remains, however the changes
\* overlap, unless somebody commits a change who was disabled after he was let in:
\* that two administrators disable each other in turn is not prevented.
AdminRemains == [][HasAdmin => HasAdmin' \/ outrun']_allVars
=============================================================================
