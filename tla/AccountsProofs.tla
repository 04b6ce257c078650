--------------------------- MODULE AccountsProofs ---------------------------
(***************************************************************************)
(* Theorems about accounts (Accounts): for any users, clients, instances   *)
(* and faults.                                                             *)
(*                                                                         *)
(*   RevokedCorrect       disabling a user ends what he could do           *)
(*   AuditCorrect         the audit log has no gap                         *)
(*   AdminCorrect         an administrator remains                         *)
(*   SessionsCorrect      a session works until it was to end              *)
(*   RegisteredCorrect    an address is registered once                    *)
(*   RateCorrect          the limiter lets less than two limits through    *)
(*                                                                         *)
(* The first three need what a request knows of rows and locks (Inv), the  *)
(* next two what becomes of each session from its INSERT on (GivenInv),    *)
(* the last how far each window has come (RateInv).                        *)
(***************************************************************************)
EXTENDS Accounts, Sums

Statuses == {"none", "active", "disabled"}

\* An EXCEPT on a call keeps its fields.
Fields == {"pc", "at", "user", "new", "session", "to", "target", "before", "asof"}

-----------------------------------------------------------------------------
(* The inductive invariant. *)

\* Shapes of the variables; a session names a user, a log has entries.
ShapeInv ==
    /\ account \in [Users -> [status : Statuses, role : {"user", "admin"}]]
    /\ \A u \in Users : account[u].status = "none" => account[u] = NoAccount
    /\ holder \in [Users -> Clients \cup {Nobody}]
    /\ log \in [Users -> Seq([before : Statuses \ {"none"}, after : Statuses \ {"none"}])]
    /\ disables \in [Users -> Nat]
    /\ DOMAIN call = Clients
    /\ \A c \in Clients : DOMAIN call[c] = Fields

\* What a request has found out before it acts, and that still holds.
Acting(r) == r.pc \in {"lock", "commit"}

CallInv ==
    \A c \in Clients :
        LET r == call[c]
        IN /\ r.pc \in {"free?", "insert", "select", "session"} => r.user \in Users
           /\ Acting(r) =>
                /\ r.user \in Users /\ r.target \in Users /\ r.to \in {"active", "disabled"}
                /\ MayChange(r.user, r.target, r.to)
                /\ account[r.user].status # "none" /\ account[r.user].role = "admin"
                /\ r.asof \in Nat /\ r.asof <= disables[r.user]
                /\ r.asof = disables[r.user] => account[r.user].status # "disabled"

\* The row of a user belongs to the call that is about to commit his status, and it
\* has not changed since that call read it.
HolderInv ==
    /\ \A u \in Users : holder[u] # Nobody =>
            call[holder[u]].pc = "commit" /\ call[holder[u]].target = u
    /\ \A c \in Clients : call[c].pc = "commit" =>
            /\ holder[call[c].target] = c
            /\ call[c].before = account[call[c].target].status
            /\ call[c].before # "none"

\* A session that exists was made since its user was last disabled.
SessionInv == \A s \in sessions : s.user \in Users /\ s.born = disables[s.user]

\* The log of a user leads from "active" to his status.
LogOK(u) ==
    /\ Len(log[u]) > 0 => log[u][1].before = "active" /\ account[u].status = log[u][Len(log[u])].after
    /\ Len(log[u]) = 0 => account[u].status \in {"none", "active"}
    /\ \A n \in 2..Len(log[u]) : log[u][n].before = log[u][n - 1].after

LogInv == \A u \in Users : LogOK(u)

Inv == ShapeInv /\ CallInv /\ HolderInv /\ SessionInv /\ LogInv

-----------------------------------------------------------------------------
(* What the steps do, as far as the invariant is concerned. *)

\* A step of client c that changes no table but ends sessions, and leaves the client
\* without a status to change.
Moves(c) ==
    /\ UNCHANGED <<account, holder, log, disables, outrun>>
    /\ sessions' \subseteq sessions
    /\ DOMAIN call' = Clients
    /\ \A d \in Clients \ {c} : call'[d] = call[d]
    /\ DOMAIN call'[c] = Fields
    /\ call[c].pc # "commit" /\ ~Acting(call'[c])
    /\ call'[c].pc \in {"free?", "insert", "select", "session"} => call'[c].user \in Users

\* The fields of an idle call.
LEMMA NoCallFields ==
    DOMAIN NoCall = Fields /\ NoCall.pc = "idle"
BY DEF NoCall, Fields

LEMMA FinishMoves ==
    ASSUME Inv, NEW c \in Clients, Finish(c)
    PROVE  /\ DOMAIN call' = Clients
           /\ \A d \in Clients \ {c} : call'[d] = call[d]
           /\ call'[c] = NoCall
BY DEF Inv, ShapeInv, Finish

\* A call that goes to its next stage.
LEMMA Stages ==
    ASSUME Inv, NEW c \in Clients, NEW pc, call' = [call EXCEPT ![c].pc = pc]
    PROVE  /\ DOMAIN call' = Clients
           /\ \A d \in Clients \ {c} : call'[d] = call[d]
           /\ DOMAIN call'[c] = Fields
           /\ call'[c].pc = pc /\ call'[c].user = call[c].user
BY DEF Inv, ShapeInv, Fields

\* The rows held are those of other clients.
LEMMA HolderKept ==
    ASSUME Inv, NEW c \in Clients, UNCHANGED <<account, holder>>,
           call[c].pc # "commit", call'[c].pc # "commit",
           \A d \in Clients \ {c} : call'[d] = call[d]
    PROVE  HolderInv'
<1>1. ASSUME NEW u \in Users, holder[u] # Nobody
      PROVE  holder[u] \in Clients \ {c}
  BY <1>1 DEF Inv, ShapeInv, HolderInv
<1>2. \A u \in Users : holder'[u] # Nobody =>
          call'[holder'[u]].pc = "commit" /\ call'[holder'[u]].target = u
  BY <1>1 DEF Inv, HolderInv
<1>3. \A d \in Clients : call'[d].pc = "commit" =>
          /\ holder'[call'[d].target] = d
          /\ call'[d].before = account'[call'[d].target].status
          /\ call'[d].before # "none"
  BY DEF Inv, HolderInv
<1> QED BY <1>2, <1>3 DEF HolderInv

\* A step that moves a call to where it changes no status.
LEMMA MovesKeep ==
    ASSUME Inv, NEW c \in Clients, Moves(c)
    PROVE  Inv'
<1>1. ShapeInv'
  BY DEF Inv, ShapeInv, Moves
<1>2. CallInv'
  BY DEF Inv, CallInv, Moves, Acting, MayChange
<1>3. HolderInv'
  BY HolderKept DEF Moves, Acting
<1>4. SessionInv'
  BY DEF Inv, SessionInv, Moves
<1>5. LogInv'
  BY DEF Inv, LogInv, LogOK, Moves
<1> QED BY <1>1, <1>2, <1>3, <1>4, <1>5 DEF Inv

\* The steps that move a client.
LEMMA SignInMoves ==
    ASSUME Inv, NEW c \in Clients
    PROVE  /\ \A i \in Instances, u \in Users, new \in BOOLEAN : Knock(c, i, u, new) => Moves(c)
           /\ CheckFree(c) \/ SelectUser(c) \/ Reply(c) \/ Logout(c) => Moves(c)
<1>1. ASSUME NEW i \in Instances, NEW u \in Users, NEW new \in BOOLEAN, Knock(c, i, u, new)
      PROVE  Moves(c)
  <2>1. PICK ok \in BOOLEAN :
          call' = IF ok THEN [call EXCEPT ![c] =
                                [NoCall EXCEPT !.pc = IF new THEN "free?" ELSE "select",
                                               !.at = i, !.user = u, !.new = new]]
                        ELSE call
    BY <1>1 DEF Knock
  <2>2. CASE ok
    <3>1. call'[c] = [NoCall EXCEPT !.pc = IF new THEN "free?" ELSE "select",
                                    !.at = i, !.user = u, !.new = new]
      BY <2>1, <2>2 DEF Inv, ShapeInv
    <3>2. DOMAIN call'[c] = Fields /\ call'[c].user = u /\ call'[c].pc \in {"free?", "select"}
      BY <3>1, NoCallFields DEF Fields
    <3>3. DOMAIN call' = Clients /\ \A d \in Clients \ {c} : call'[d] = call[d]
      BY <2>1, <2>2 DEF Inv, ShapeInv
    <3> QED BY <1>1, <3>2, <3>3 DEF Moves, Knock, Data, Acting
  <2>3. CASE ~ok
    BY <1>1, <2>1, <2>3 DEF Moves, Knock, Data, Acting, Inv, ShapeInv
  <2> QED BY <2>2, <2>3
<1>2. ASSUME CheckFree(c) PROVE Moves(c)
  <2>1. CASE UserExists(call[c].user)
    BY <1>2, <2>1, FinishMoves, NoCallFields DEF CheckFree, Moves, Data, Acting
  <2>2. CASE ~UserExists(call[c].user)
    <3>1. call' = [call EXCEPT ![c].pc = "insert"] /\ call[c].pc = "free?"
      BY <1>2, <2>2 DEF CheckFree
    <3>2. call[c].user \in Users
      BY <3>1 DEF Inv, CallInv
    <3>3. /\ DOMAIN call' = Clients /\ DOMAIN call'[c] = Fields
          /\ \A d \in Clients \ {c} : call'[d] = call[d]
          /\ call'[c].pc = "insert" /\ call'[c].user = call[c].user
      BY <3>1, Stages
    <3>4. UNCHANGED <<account, sessions, holder, log, disables, outrun>>
      BY <1>2 DEF CheckFree, Data
    <3> QED BY <3>1, <3>2, <3>3, <3>4 DEF Moves, Acting
  <2> QED BY <2>1, <2>2
<1>3. ASSUME SelectUser(c) PROVE Moves(c)
  <2>1. CASE account[call[c].user].status = "active"
    <3>1. call' = [call EXCEPT ![c].pc = "session"] /\ call[c].pc = "select"
      BY <1>3, <2>1 DEF SelectUser
    <3>2. call[c].user \in Users
      BY <3>1 DEF Inv, CallInv
    <3>3. /\ DOMAIN call' = Clients /\ DOMAIN call'[c] = Fields
          /\ \A d \in Clients \ {c} : call'[d] = call[d]
          /\ call'[c].pc = "session" /\ call'[c].user = call[c].user
      BY <3>1, Stages
    <3>4. UNCHANGED <<account, sessions, holder, log, disables, outrun>>
      BY <1>3 DEF SelectUser, Data
    <3> QED BY <3>1, <3>2, <3>3, <3>4 DEF Moves, Acting
  <2>2. CASE account[call[c].user].status # "active"
    BY <1>3, <2>2, FinishMoves, NoCallFields DEF SelectUser, Moves, Data, Acting
  <2> QED BY <2>1, <2>2
<1>4. Reply(c) => Moves(c)
  BY FinishMoves, NoCallFields DEF Reply, Moves, Data, Acting
<1>5. Logout(c) => Moves(c)
  BY DEF Logout, Moves, Acting, Inv, ShapeInv
<1> QED BY <1>1, <1>2, <1>3, <1>4, <1>5

\* A user without a row has no history.
LEMMA NoLog ==
    ASSUME Inv, NEW u \in Users, account[u].status = "none"
    PROVE  Len(log[u]) = 0
<1> DEFINE LogLine == [before : Statuses \ {"none"}, after : Statuses \ {"none"}]
<1>1. log[u] \in Seq(LogLine)
  BY DEF Inv, ShapeInv
<1>2. Len(log[u]) \in Nat
  BY <1>1
<1>3. ASSUME Len(log[u]) > 0 PROVE FALSE
  <2>1. log[u][Len(log[u])] \in LogLine
    <3> HIDE DEF LogLine
    <3> QED BY <1>1, <1>2, <1>3
  <2>2. account[u].status = log[u][Len(log[u])].after
    BY <1>3 DEF Inv, LogInv, LogOK
  <2> QED BY <2>1, <2>2
<1> QED BY <1>2, <1>3

\* A registration finds no row and makes an active one.
LEMMA InsertUserKeeps ==
    ASSUME Inv, NEW c \in Clients, InsertUser(c)
    PROVE  Inv'
<1>1. PICK u \in Users : u = call[c].user /\ call[c].pc = "insert"
  BY DEF InsertUser, Inv, CallInv
<1>2. CASE Taken(u)
  <2>1. Moves(c)
    BY <1>1, <1>2, FinishMoves, NoCallFields DEF InsertUser, Moves, Acting
  <2> QED BY <2>1, MovesKeep
<1>3. CASE ~Taken(u)
  <2>1. /\ account[u].status = "none"
        /\ account' = [account EXCEPT ![u] =
                [status |-> "active", role |-> IF u \in Listed THEN "admin" ELSE "user"]]
        /\ call' = [call EXCEPT ![c].pc = "session"]
        /\ UNCHANGED <<sessions, holder, log, disables>>
    BY <1>1, <1>3 DEF InsertUser, Taken, NoAccount
  <2>2. /\ DOMAIN call' = Clients
        /\ \A d \in Clients \ {c} : call'[d] = call[d]
        /\ DOMAIN call'[c] = Fields /\ call'[c].pc = "session" /\ call'[c].user = u
    BY <1>1, <2>1, Stages
  <2>3. /\ account'[u].status = "active"
        /\ \A v \in Users \ {u} : account'[v] = account[v]
        /\ account' \in [Users -> [status : Statuses, role : {"user", "admin"}]]
    BY <1>1, <2>1 DEF Inv, ShapeInv, Statuses
  <2>4. ShapeInv'
    BY <2>1, <2>2, <2>3 DEF Inv, ShapeInv
  <2>5. \A d \in Clients : Acting(call'[d]) =>
            /\ d # c /\ call'[d] = call[d]
            /\ call[d].user \in Users /\ call[d].user # u
            /\ account'[call[d].user] = account[call[d].user]
    BY <2>1, <2>2, <2>3 DEF Inv, CallInv, Acting
  <2>6. CallInv'
    BY <1>1, <2>1, <2>2, <2>5 DEF Inv, CallInv, Acting, MayChange
  <2>7. \A d \in Clients : call'[d].pc = "commit" =>
            /\ d # c /\ call'[d] = call[d]
            /\ call[d].target \in Users /\ call[d].target # u
            /\ account'[call[d].target] = account[call[d].target]
    BY <2>1, <2>2, <2>3 DEF Inv, CallInv, HolderInv, Acting
  <2>8. HolderInv'
    BY <1>1, <2>1, <2>2, <2>7 DEF Inv, ShapeInv, HolderInv
  <2>9. SessionInv'
    BY <2>1 DEF Inv, SessionInv
  <2>10. LogInv'
    <3>1. Len(log[u]) = 0
      BY <2>1, NoLog
    <3>2. LogOK(u)'
      BY <1>1, <2>1, <2>3, <3>1 DEF Inv, LogInv, LogOK
    <3>3. ASSUME NEW v \in Users \ {u} PROVE LogOK(v)'
      <4>1. UNCHANGED log /\ account'[v] = account[v] /\ LogOK(v)
        BY <2>1, <2>3 DEF Inv, LogInv
      <4> QED BY <4>1 DEF LogOK
    <3> QED BY <3>2, <3>3 DEF LogInv
  <2> QED BY <2>4, <2>6, <2>8, <2>9, <2>10 DEF Inv
<1> QED BY <1>2, <1>3

\* A session begins with the present count of its user.
LEMMA InsertSessionKeeps ==
    ASSUME Inv, NEW c \in Clients, InsertSession(c)
    PROVE  Inv'
<1>1. call[c].pc = "session" /\ call[c].user \in Users
  BY DEF InsertSession, Inv, CallInv
<1>2. PICK s : /\ s.user = call[c].user /\ s.born = disables[call[c].user]
               /\ sessions' = sessions \cup {s}
               /\ call' = [call EXCEPT ![c].pc = "reply", ![c].session = s]
               /\ UNCHANGED <<account, holder, log, disables>>
  BY DEF InsertSession
<1>3. /\ DOMAIN call' = Clients
      /\ \A d \in Clients \ {c} : call'[d] = call[d]
      /\ DOMAIN call'[c] = Fields /\ call'[c].pc = "reply"
  BY <1>2 DEF Inv, ShapeInv, Fields
<1>4. ShapeInv'
  BY <1>2, <1>3 DEF Inv, ShapeInv
<1>5. CallInv'
  BY <1>2, <1>3 DEF Inv, CallInv, Acting, MayChange
<1>6. HolderInv'
  BY <1>1, <1>2, <1>3, HolderKept
<1>7. SessionInv'
  BY <1>1, <1>2 DEF Inv, SessionInv
<1>8. LogInv'
  BY <1>2 DEF Inv, LogInv, LogOK
<1> QED BY <1>4, <1>5, <1>6, <1>7, <1>8 DEF Inv

\* A request is let in for the user of a session that is there.
LEMMA EnterKeeps ==
    ASSUME Inv, NEW c \in Clients, NEW i \in Instances, NEW target \in Users,
           NEW to \in {"active", "disabled"}, Enter(c, i, target, to)
    PROVE  Inv'
<1> DEFINE s == cookie[c]
           Let == s \in sessions /\ Valid(s) /\ account[s.user].role = "admin"
                    /\ MayChange(s.user, target, to)
<1>1. /\ call[c].pc = "idle" /\ sessions' \subseteq sessions
      /\ UNCHANGED <<account, holder, log, disables, outrun>>
  BY DEF Enter
<1>2. CASE ~Let
  <2>1. UNCHANGED call
    BY <1>2 DEF Enter
  <2>2. ShapeInv' /\ CallInv'
    BY <1>1, <2>1 DEF Inv, ShapeInv, CallInv, Acting, MayChange
  <2>3. HolderInv' /\ SessionInv' /\ LogInv'
    BY <1>1, <2>1 DEF Inv, HolderInv, SessionInv, LogInv, LogOK
  <2> QED BY <2>2, <2>3 DEF Inv
<1>3. CASE Let
  <2>1. call' = [call EXCEPT ![c] =
                   [NoCall EXCEPT !.pc = "lock", !.at = i, !.user = s.user, !.target = target,
                                  !.to = to, !.asof = disables[s.user]]]
    BY <1>3 DEF Enter
  <2>2. s.user \in Users /\ account[s.user].status = "active" /\ account[s.user].role = "admin"
        /\ MayChange(s.user, target, to) /\ disables[s.user] \in Nat
    BY <1>3 DEF Inv, SessionInv, Valid, ShapeInv
  <2>3. /\ DOMAIN call' = Clients
        /\ \A d \in Clients \ {c} : call'[d] = call[d]
    BY <2>1 DEF Inv, ShapeInv
  <2>4. call'[c] = [NoCall EXCEPT !.pc = "lock", !.at = i, !.user = s.user, !.target = target,
                                  !.to = to, !.asof = disables[s.user]]
    BY <2>1 DEF Inv, ShapeInv
  <2>5. /\ DOMAIN call'[c] = Fields /\ call'[c].pc = "lock" /\ call'[c].user = s.user
        /\ call'[c].target = target /\ call'[c].to = to /\ call'[c].asof = disables[s.user]
    BY <2>4, NoCallFields DEF Fields
  <2> HIDE DEF s
  <2>6. ShapeInv'
    BY <1>1, <2>3, <2>5 DEF Inv, ShapeInv
  <2>7. CallInv'
    BY <1>1, <2>2, <2>3, <2>5 DEF Inv, CallInv, Acting, MayChange
  <2>8. HolderInv'
    BY <1>1, <2>3, <2>5, HolderKept
  <2>9. SessionInv' /\ LogInv'
    BY <1>1 DEF Inv, SessionInv, LogInv, LogOK
  <2> QED BY <2>6, <2>7, <2>8, <2>9 DEF Inv
<1> QED BY <1>2, <1>3

\* The request that locks the row of a user holds it alone.
LEMMA LockUserKeeps ==
    ASSUME Inv, NEW c \in Clients, LockUser(c)
    PROVE  Inv'
<1>1. PICK t \in Users : t = call[c].target /\ call[c].pc = "lock"
  BY DEF LockUser, Inv, CallInv, Acting
<1>2. CASE account[t] = NoAccount
  <2>1. /\ DOMAIN call' = Clients /\ \A d \in Clients \ {c} : call'[d] = call[d]
        /\ DOMAIN call'[c] = Fields /\ call'[c].pc = "idle"
        /\ UNCHANGED <<account, sessions, holder, log, disables, outrun>>
    BY <1>1, <1>2, FinishMoves, NoCallFields DEF LockUser
  <2>2. Moves(c)
    BY <1>1, <2>1 DEF Moves, Acting
  <2> QED BY <2>2, MovesKeep
<1>3. CASE account[t] # NoAccount
  <2>1. /\ holder[t] = Nobody /\ holder' = [holder EXCEPT ![t] = c]
        /\ call' = [call EXCEPT ![c].pc = "commit", ![c].before = account[t].status]
        /\ UNCHANGED <<account, sessions, log, disables>>
    BY <1>1, <1>3 DEF LockUser, Lockable, RowFree
  <2>2. /\ DOMAIN call' = Clients /\ \A d \in Clients \ {c} : call'[d] = call[d]
        /\ DOMAIN call'[c] = Fields /\ call'[c].pc = "commit"
        /\ call'[c].before = account[t].status /\ call'[c].target = t
        /\ call'[c].user = call[c].user /\ call'[c].to = call[c].to /\ call'[c].asof = call[c].asof
    BY <1>1, <2>1 DEF Inv, ShapeInv, Fields
  <2>3. /\ holder'[t] = c /\ \A u \in Users \ {t} : holder'[u] = holder[u]
        /\ holder' \in [Users -> Clients \cup {Nobody}]
    BY <1>1, <2>1 DEF Inv, ShapeInv
  <2>4. ShapeInv'
    BY <2>1, <2>2, <2>3 DEF Inv, ShapeInv
  <2>5. CallInv'
    BY <1>1, <2>1, <2>2 DEF Inv, CallInv, Acting, MayChange
  <2>6. \A u \in Users : holder'[u] # Nobody =>
            call'[holder'[u]].pc = "commit" /\ call'[holder'[u]].target = u
    <3>1. ASSUME NEW u \in Users \ {t}, holder[u] # Nobody
          PROVE  holder[u] \in Clients \ {c}
      BY <1>1, <3>1 DEF Inv, ShapeInv, HolderInv
    <3> QED BY <2>2, <2>3, <3>1 DEF Inv, HolderInv
  <2>7. \A d \in Clients : call'[d].pc = "commit" =>
            /\ holder'[call'[d].target] = d
            /\ call'[d].before = account'[call'[d].target].status
            /\ call'[d].before # "none"
    <3>1. account[t].status # "none"
      BY <1>1, <1>3 DEF Inv, ShapeInv
    <3>2. ASSUME NEW d \in Clients \ {c}, call[d].pc = "commit"
          PROVE  call[d].target \in Users \ {t}
      BY <2>1, <3>2, AccountsAssumption DEF AccountsAssumption, Inv, CallInv, HolderInv, Acting
    <3> QED BY <2>1, <2>2, <2>3, <3>1, <3>2 DEF Inv, HolderInv
  <2>8. HolderInv'
    BY <2>6, <2>7 DEF HolderInv
  <2>9. SessionInv' /\ LogInv'
    BY <2>1 DEF Inv, SessionInv, LogInv, LogOK
  <2> QED BY <2>4, <2>5, <2>8, <2>9 DEF Inv
<1> QED BY <1>2, <1>3

\* What is known of a client about to commit.
LEMMA Committing ==
    ASSUME Inv, NEW c \in Clients, call[c].pc = "commit"
    PROVE  /\ call[c].user \in Users /\ call[c].target \in Users
           /\ call[c].to \in {"active", "disabled"}
           /\ MayChange(call[c].user, call[c].target, call[c].to)
           /\ account[call[c].user].role = "admin"
           /\ holder[call[c].target] = c
           /\ call[c].before = account[call[c].target].status
           /\ call[c].before \in {"active", "disabled"}
<1>1. Acting(call[c])
  BY DEF Acting
<1>2. /\ call[c].user \in Users /\ call[c].target \in Users
      /\ call[c].to \in {"active", "disabled"}
      /\ MayChange(call[c].user, call[c].target, call[c].to)
      /\ account[call[c].user].role = "admin"
  BY <1>1 DEF Inv, CallInv
<1>3. /\ holder[call[c].target] = c
      /\ call[c].before = account[call[c].target].status
      /\ call[c].before # "none"
  BY DEF Inv, HolderInv
<1>4. account[call[c].target].status \in Statuses
  BY <1>2 DEF Inv, ShapeInv
<1> QED BY <1>2, <1>3, <1>4 DEF Statuses

\* An entry that starts from the present status goes on with the log.
LEMMA LogGrows ==
    ASSUME Inv, NEW t \in Users, account[t].status # "none",
           NEW to \in {"active", "disabled"},
           log' = [log EXCEPT ![t] = Append(@, [before |-> account[t].status, after |-> to])],
           account'[t].status = to, \A u \in Users \ {t} : account'[u] = account[u]
    PROVE  /\ LogInv'
           /\ log' \in [Users -> Seq([before : Statuses \ {"none"}, after : Statuses \ {"none"}])]
<1> DEFINE LogLine == [before : Statuses \ {"none"}, after : Statuses \ {"none"}]
           e == [before |-> account[t].status, after |-> to]
<1>1. log \in [Users -> Seq(LogLine)] /\ LogOK(t) /\ account[t].status \in Statuses
  BY DEF Inv, ShapeInv, LogInv
<1>2. e \in LogLine /\ e.before = account[t].status /\ e.after = to
  BY <1>1 DEF Statuses
<1>3. log'[t] = Append(log[t], e) /\ \A u \in Users \ {t} : log'[u] = log[u]
  BY <1>1
<1> HIDE DEF LogLine, e
<1>4. Len(log[t]) \in Nat /\ Len(log'[t]) = Len(log[t]) + 1 /\ log'[t][Len(log[t]) + 1] = e
      /\ \A n \in 1..Len(log[t]) : log'[t][n] = log[t][n]
  BY <1>1, <1>2, <1>3
<1>5. LogOK(t)'
  <2>1. CASE Len(log[t]) = 0
    <3>1. account[t].status = "active"
      BY <1>1, <2>1 DEF LogOK
    <3> QED BY <1>2, <1>4, <2>1, <3>1 DEF LogOK
  <2>2. CASE Len(log[t]) > 0
    <3>1. /\ log[t][1].before = "active" /\ account[t].status = log[t][Len(log[t])].after
          /\ \A n \in 2..Len(log[t]) : log[t][n].before = log[t][n - 1].after
      BY <1>1, <2>2 DEF LogOK
    <3>2. log'[t][1] = log[t][1]
      BY <1>4, <2>2
    <3>3. \A n \in 2..Len(log[t]) + 1 : log'[t][n].before = log'[t][n - 1].after
      <4>1. ASSUME NEW n \in 2..Len(log[t]) PROVE log'[t][n].before = log'[t][n - 1].after
        <5>1. n \in 1..Len(log[t]) /\ n - 1 \in 1..Len(log[t])
          BY <1>4
        <5> QED BY <1>4, <3>1, <5>1
      <4>2. log'[t][Len(log[t]) + 1].before = log'[t][Len(log[t])].after
        <5>1. Len(log[t]) \in 1..Len(log[t])
          BY <1>4, <2>2
        <5> QED BY <1>2, <1>4, <3>1, <5>1
      <4> QED BY <1>4, <4>1, <4>2
    <3> QED BY <1>2, <1>4, <3>1, <3>2, <3>3 DEF LogOK
  <2> QED BY <1>4, <2>1, <2>2
<1>6. ASSUME NEW u \in Users \ {t} PROVE LogOK(u)'
  <2>1. log'[u] = log[u] /\ account'[u] = account[u]
    BY <1>3
  <2>2. LogOK(u)
    BY DEF Inv, LogInv
  <2> QED BY <2>1, <2>2 DEF LogOK
<1>7. log' \in [Users -> Seq(LogLine)]
  <2>1. Append(log[t], e) \in Seq(LogLine)
    BY <1>1, <1>2
  <2> QED BY <1>1, <2>1 DEF e
<1> QED BY <1>5, <1>6, <1>7 DEF LogInv, LogLine

\* A commit changes one status, its log and its sessions together.
LEMMA CommitKeeps ==
    ASSUME Inv, NEW c \in Clients, Commit(c)
    PROVE  Inv'
<1>1. PICK t \in Users, to \in {"active", "disabled"} :
        t = call[c].target /\ to = call[c].to /\ call[c].pc = "commit"
  BY Committing DEF Commit
<1>2. /\ account' = [account EXCEPT ![t].status = to]
      /\ sessions' = sessions \ Revoked(t, to)
      /\ log' = [log EXCEPT ![t] = Append(@, [before |-> account[t].status, after |-> to])]
      /\ holder' = [holder EXCEPT ![t] = Nobody]
      /\ disables' = IF to = "disabled" THEN [disables EXCEPT ![t] = @ + 1] ELSE disables
      /\ holder[t] = c /\ account[t].status \in {"active", "disabled"}
  BY <1>1, Committing DEF Commit
<1>3. /\ DOMAIN call' = Clients /\ \A d \in Clients \ {c} : call'[d] = call[d]
      /\ DOMAIN call'[c] = Fields /\ call'[c].pc = "idle"
  BY FinishMoves, NoCallFields DEF Commit
<1>4. /\ account'[t].status = to /\ account'[t].role = account[t].role
      /\ \A u \in Users \ {t} : account'[u] = account[u]
      /\ account' \in [Users -> [status : Statuses, role : {"user", "admin"}]]
  <2>1. account \in [Users -> [status : Statuses, role : {"user", "admin"}]] /\ to \in Statuses
    BY <1>1 DEF Inv, ShapeInv, Statuses
  <2>2. account' = [account EXCEPT ![t].status = to]
    BY <1>2
  <2> QED BY <2>1, <2>2
<1>5. /\ disables' \in [Users -> Nat] /\ \A u \in Users : disables'[u] >= disables[u]
      /\ \A u \in Users \ {t} : disables'[u] = disables[u]
      /\ to = "disabled" => disables'[t] = disables[t] + 1
      /\ to # "disabled" => disables'[t] = disables[t]
      /\ \A u \in Users : disables[u] \in Nat
  BY <1>1, <1>2 DEF Inv, ShapeInv
<1>6. LogInv' /\ log' \in [Users -> Seq([before : Statuses \ {"none"}, after : Statuses \ {"none"}])]
  <2>1. account[t].status # "none"
    BY <1>2
  <2>2. log' = [log EXCEPT ![t] = Append(@, [before |-> account[t].status, after |-> to])]
    BY <1>2
  <2>3. account'[t].status = to /\ \A u \in Users \ {t} : account'[u] = account[u]
    BY <1>4
  <2> QED BY <2>1, <2>2, <2>3, LogGrows
<1>7. /\ holder'[t] = Nobody /\ \A u \in Users \ {t} : holder'[u] = holder[u]
      /\ holder' \in [Users -> Clients \cup {Nobody}]
  BY <1>1, <1>2 DEF Inv, ShapeInv
<1>8. ShapeInv'
  <2>1. \A u \in Users : account'[u].status = "none" => account'[u] = NoAccount
    BY <1>1, <1>4 DEF Inv, ShapeInv
  <2>2. \A d \in Clients : DOMAIN call'[d] = Fields
    BY <1>3 DEF Inv, ShapeInv
  <2> QED BY <1>3, <1>4, <1>5, <1>6, <1>7, <2>1, <2>2 DEF ShapeInv
<1>9. CallInv'
  <2> SUFFICES ASSUME NEW d \in Clients
               PROVE  LET r == call'[d]
                      IN /\ r.pc \in {"free?", "insert", "select", "session"} => r.user \in Users
                         /\ Acting(r) =>
                              /\ r.user \in Users /\ r.target \in Users /\ r.to \in {"active", "disabled"}
                              /\ MayChange(r.user, r.target, r.to)
                              /\ account'[r.user].status # "none" /\ account'[r.user].role = "admin"
                              /\ r.asof \in Nat /\ r.asof <= disables'[r.user]
                              /\ r.asof = disables'[r.user] => account'[r.user].status # "disabled"
    BY DEF CallInv, Acting, MayChange
  <2>1. CASE d = c
    BY <1>3, <2>1 DEF Acting
  <2>2. CASE d # c
    <3>1. call'[d] = call[d]
      BY <1>3, <2>2
    <3>2. /\ call[d].pc \in {"free?", "insert", "select", "session"} => call[d].user \in Users
          /\ Acting(call[d]) =>
               /\ call[d].user \in Users /\ call[d].target \in Users
               /\ call[d].to \in {"active", "disabled"}
               /\ MayChange(call[d].user, call[d].target, call[d].to)
               /\ account[call[d].user].status # "none" /\ account[call[d].user].role = "admin"
               /\ call[d].asof \in Nat /\ call[d].asof <= disables[call[d].user]
               /\ call[d].asof = disables[call[d].user] => account[call[d].user].status # "disabled"
      BY DEF Inv, CallInv
    <3>3. ASSUME Acting(call[d])
          PROVE  /\ account'[call[d].user].status # "none" /\ account'[call[d].user].role = "admin"
                 /\ call[d].asof <= disables'[call[d].user]
                 /\ call[d].asof = disables'[call[d].user] => account'[call[d].user].status # "disabled"
      <4>1. CASE call[d].user = t
        BY <1>1, <1>4, <1>5, <3>2, <3>3, <4>1
      <4>2. CASE call[d].user # t
        BY <1>4, <1>5, <3>2, <3>3, <4>2
      <4> QED BY <4>1, <4>2
    <3> QED BY <3>1, <3>2, <3>3
  <2> QED BY <2>1, <2>2
<1>10. HolderInv'
  <2>1. ASSUME NEW u \in Users \ {t}, holder[u] # Nobody
        PROVE  holder[u] \in Clients \ {c}
    BY <1>1, <2>1 DEF Inv, ShapeInv, HolderInv
  <2>2. \A u \in Users : holder'[u] # Nobody =>
            call'[holder'[u]].pc = "commit" /\ call'[holder'[u]].target = u
    BY <1>3, <1>7, <2>1 DEF Inv, HolderInv
  <2>3. ASSUME NEW d \in Clients \ {c}, call[d].pc = "commit"
        PROVE  call[d].target \in Users \ {t}
    BY <1>2, <2>3, Committing
  <2>4. \A d \in Clients : call'[d].pc = "commit" =>
            /\ holder'[call'[d].target] = d
            /\ call'[d].before = account'[call'[d].target].status
            /\ call'[d].before # "none"
    BY <1>3, <1>4, <1>7, <2>3 DEF Inv, HolderInv
  <2> QED BY <2>2, <2>4 DEF HolderInv
<1>11. SessionInv'
  <2>1. \A s \in sessions' : s \in sessions /\ (to = "disabled" => s.user # t)
    BY <1>2 DEF Revoked
  <2> QED BY <1>1, <1>5, <2>1 DEF Inv, SessionInv
<1> QED BY <1>6, <1>8, <1>9, <1>10, <1>11 DEF Inv

\* Calls end, with what they hold, and users may become administrators.
Stops(stopped) ==
    /\ UNCHANGED <<sessions, log, disables>>
    /\ Released(stopped)
    /\ DOMAIN call' = Clients
    /\ \A d \in Clients \cap stopped : call'[d] = NoCall
    /\ \A d \in Clients \ stopped : call'[d] = call[d]
    /\ account' \in [Users -> [status : Statuses, role : {"user", "admin"}]]
    /\ \A u \in Users : /\ account'[u].status = account[u].status
                        /\ account[u].role = "admin" => account'[u].role = "admin"
                        /\ account[u] = NoAccount => account'[u] = NoAccount

LEMMA StopsKeeps ==
    ASSUME Inv, NEW stopped, Stops(stopped), Nobody \notin stopped
    PROVE  Inv'
<1>1. /\ holder' \in [Users -> Clients \cup {Nobody}]
      /\ \A u \in Users : holder'[u] = IF holder[u] \in stopped THEN Nobody ELSE holder[u]
  BY DEF Stops, Released, Inv, ShapeInv
<1>2. \A d \in Clients : DOMAIN call'[d] = Fields /\ (call'[d].pc = "idle" \/ call'[d] = call[d])
  BY NoCallFields DEF Stops, Inv, ShapeInv
<1>3. ShapeInv'
  BY <1>1, <1>2 DEF Stops, Inv, ShapeInv
<1>4. CallInv'
  BY <1>2 DEF Stops, Inv, CallInv, Acting, MayChange
<1>5. HolderInv'
  <2>1. ASSUME NEW u \in Users, holder'[u] # Nobody
        PROVE  holder'[u] = holder[u] /\ holder[u] \in Clients \ stopped
    BY <1>1, <2>1 DEF Inv, ShapeInv
  <2>2. \A u \in Users : holder'[u] # Nobody =>
            call'[holder'[u]].pc = "commit" /\ call'[holder'[u]].target = u
    BY <2>1 DEF Stops, Inv, HolderInv
  <2>3. ASSUME NEW d \in Clients, call'[d].pc = "commit"
        PROVE  /\ holder'[call'[d].target] = d
               /\ call'[d].before = account'[call'[d].target].status
               /\ call'[d].before # "none"
    <3>1. d \notin stopped /\ call'[d] = call[d]
      BY <2>3, NoCallFields DEF Stops
    <3>2. /\ call[d].target \in Users /\ holder[call[d].target] = d
          /\ call[d].before = account[call[d].target].status /\ call[d].before # "none"
      BY <2>3, <3>1, Committing DEF Inv, HolderInv
    <3> QED BY <1>1, <3>1, <3>2 DEF Stops
  <2> QED BY <2>2, <2>3 DEF HolderInv
<1>6. SessionInv'
  BY DEF Stops, Inv, SessionInv
<1>7. LogInv'
  BY DEF Stops, Inv, LogInv, LogOK
<1> QED BY <1>3, <1>4, <1>5, <1>6, <1>7 DEF Inv

\* A failed call stops by itself, a restart stops the calls of its instance.
LEMMA CallStops ==
    ASSUME Inv, NEW c \in Clients, CallFails(c) \/ Deadlock(c)
    PROVE  Stops({c}) /\ Nobody \notin {c} /\ UNCHANGED account
<1>1. /\ DOMAIN call' = Clients /\ call'[c] = NoCall
      /\ \A d \in Clients \ {c} : call'[d] = call[d]
  BY FinishMoves DEF CallFails, Deadlock
<1> QED BY <1>1, AccountsAssumption
        DEF AccountsAssumption, CallFails, Deadlock, Stops, Inv, ShapeInv

LEMMA RestartStops ==
    ASSUME Inv, NEW i \in Instances, Restart(i)
    PROVE  /\ \E stopped \in SUBSET Clients : Stops(stopped)
           /\ \A u \in Users : /\ account'[u].status = account[u].status
                               /\ account[u].role = "admin" => account'[u].role = "admin"
<1> DEFINE stopped == {c \in Clients : call[c].pc # "idle" /\ call[c].at = i}
<1>1. /\ call' = [c \in Clients |-> IF c \in stopped THEN NoCall ELSE call[c]]
      /\ Released(stopped) /\ UNCHANGED <<sessions, log, disables>>
  BY DEF Restart
<1>2. \/ UNCHANGED account
      \/ account' = [u \in Users |-> IF u \in Listed /\ account[u] # NoAccount
                                     THEN [account[u] EXCEPT !.role = "admin"] ELSE account[u]]
  BY DEF Restart
<1>3. /\ account' \in [Users -> [status : Statuses, role : {"user", "admin"}]]
      /\ \A u \in Users : /\ account'[u].status = account[u].status
                          /\ account[u].role = "admin" => account'[u].role = "admin"
                          /\ account[u] = NoAccount => account'[u] = NoAccount
  <2>1. account \in [Users -> [status : Statuses, role : {"user", "admin"}]]
    BY DEF Inv, ShapeInv
  <2>2. CASE UNCHANGED account
    BY <2>1, <2>2
  <2>3. CASE account' = [u \in Users |-> IF u \in Listed /\ account[u] # NoAccount
                                     THEN [account[u] EXCEPT !.role = "admin"] ELSE account[u]]
    BY <2>1, <2>3
  <2> QED BY <1>2, <2>2, <2>3
<1>4. stopped \subseteq Clients
  OBVIOUS
<1> HIDE DEF stopped
<1>5. Stops(stopped)
  BY <1>1, <1>3 DEF Stops
<1> QED BY <1>3, <1>4, <1>5

\* Nothing the invariant speaks of changes.
LEMMA QuietKeeps ==
    ASSUME Inv, UNCHANGED <<account, sessions, holder, log, disables, call>>
    PROVE  Inv'
<1>1. ShapeInv' /\ SessionInv' /\ LogInv'
  BY DEF Inv, ShapeInv, SessionInv, LogInv, LogOK
<1>2. CallInv' /\ HolderInv'
  BY DEF Inv, CallInv, HolderInv, Acting, MayChange
<1> QED BY <1>1, <1>2 DEF Inv

-----------------------------------------------------------------------------
(* The theorems. *)

LEMMA InvInit == Init => Inv
<1> SUFFICES ASSUME Init PROVE Inv
  OBVIOUS
<1>1. \A u \in Users : log[u] = <<>>
  BY DEF Init
<1>2. ShapeInv
  BY <1>1, NoCallFields DEF Init, ShapeInv, Statuses, NoAccount
<1>3. CallInv /\ HolderInv
  BY NoCallFields DEF Init, CallInv, HolderInv, Acting
<1>4. SessionInv /\ LogInv
  BY <1>1 DEF Init, SessionInv, LogInv, LogOK, NoAccount
<1> QED BY <1>2, <1>3, <1>4 DEF Inv

LEMMA InvNext == Inv /\ [Next]_allVars => Inv'
<1> SUFFICES ASSUME Inv, [Next]_allVars PROVE Inv'
  OBVIOUS
<1>1. ASSUME NEW c \in Clients, SignIn(c) PROVE Inv'
  <2>1. ASSUME NEW i \in Instances, NEW u \in Users, NEW new \in BOOLEAN, Knock(c, i, u, new)
        PROVE  Inv'
    BY <2>1, SignInMoves, MovesKeep
  <2>2. CASE CheckFree(c) \/ SelectUser(c) \/ Reply(c) \/ Logout(c)
    BY <2>2, SignInMoves, MovesKeep
  <2>3. CASE InsertUser(c)
    BY <2>3, InsertUserKeeps
  <2>4. CASE InsertSession(c)
    BY <2>4, InsertSessionKeeps
  <2> QED BY <1>1, <2>1, <2>2, <2>3, <2>4 DEF SignIn
<1>2. ASSUME NEW c \in Clients, ChangeStatus(c) PROVE Inv'
  <2>1. ASSUME NEW i \in Instances, NEW u \in Users, NEW to \in {"active", "disabled"},
               Enter(c, i, u, to)
        PROVE  Inv'
    BY <2>1, EnterKeeps
  <2>2. CASE LockUser(c)
    BY <2>2, LockUserKeeps
  <2>3. CASE Commit(c)
    BY <2>3, CommitKeeps
  <2>4. CASE Deadlock(c)
    BY <2>4, CallStops, StopsKeeps
  <2> QED BY <1>2, <2>1, <2>2, <2>3, <2>4 DEF ChangeStatus
<1>3. ASSUME NEW c \in Clients, CallFails(c) PROVE Inv'
  BY <1>3, CallStops, StopsKeeps
<1>4. ASSUME NEW i \in Instances, Restart(i) PROVE Inv'
  BY <1>4, RestartStops, StopsKeeps, AccountsAssumption DEF AccountsAssumption
<1>5. CASE Tick \/ RedisFaults \/ UNCHANGED allVars
  BY <1>5, QuietKeeps DEF Tick, RedisFaults, Data, accountVars, allVars
<1> QED BY <1>1, <1>2, <1>3, <1>4, <1>5 DEF Next

LEMMA InvAlways == Spec => []Inv
BY InvInit, InvNext, PTL DEF Spec

\* UpdateUserStatus ends the sessions of a disabled user in the transaction that
\* disables him, and ValidateSession looks at the status again: whatever logins are
\* in flight, no session older than the last disabling exists, and no request
\* entered since acts for a disabled user.
THEOREM RevokedCorrect == Spec => []SessionsRevoked
<1>1. Inv => SessionsRevoked
  BY DEF Inv, SessionInv, CallInv, Acting, ShapeInv, SessionsRevoked
<1> QED BY <1>1, InvAlways, PTL

\* The status of a user is read under the lock that the update is made under, so the
\* audit log of UpdateUserStatus leads without a gap from "active" to the status now.
THEOREM AuditCorrect == Spec => []AuditChain
<1>1. ASSUME Inv, NEW u \in Users
      PROVE  LET entries == <<[before |-> "none", after |-> "active"]>> \o log[u]
             IN /\ \A n \in 2..Len(entries) : entries[n].before = entries[n - 1].after
                /\ account[u] # NoAccount => account[u].status = Last(entries).after
  <2> DEFINE LogLine == [before : Statuses \ {"none"}, after : Statuses \ {"none"}]
             first == [before |-> "none", after |-> "active"]
             entries == <<first>> \o log[u]
  <2>1. log[u] \in Seq(LogLine) /\ LogOK(u) /\ account[u].status \in Statuses
        /\ (account[u] # NoAccount => account[u].status # "none")
    BY <1>1 DEF Inv, ShapeInv, LogInv, Statuses
  <2>2. first.after = "active"
    OBVIOUS
  <2> HIDE DEF LogLine, first
  <2>3. /\ Len(log[u]) \in Nat /\ Len(entries) = Len(log[u]) + 1 /\ entries[1] = first
        /\ \A n \in 1..Len(log[u]) : entries[n + 1] = log[u][n]
    BY <2>1, <2>2
  <2>4. Last(entries) = entries[Len(log[u]) + 1]
    BY <2>3 DEF Last
  <2> HIDE DEF entries
  <2>5. ASSUME NEW n \in 2..Len(entries)
        PROVE  entries[n].before = entries[n - 1].after
    <3>1. CASE n = 2
      <4>1. Len(log[u]) > 0 /\ entries[2] = log[u][1]
        BY <2>3, <3>1
      <4> QED BY <2>1, <2>2, <2>3, <3>1, <4>1 DEF LogOK
    <3>2. CASE n # 2
      <4>1. n - 1 \in 2..Len(log[u]) /\ n - 2 \in 1..Len(log[u])
        BY <2>3, <3>2
      <4>2. entries[n] = log[u][n - 1] /\ entries[n - 1] = log[u][n - 2]
        BY <2>3, <4>1
      <4> QED BY <2>1, <4>1, <4>2 DEF LogOK
    <3> QED BY <3>1, <3>2
  <2>6. account[u] # NoAccount => account[u].status = Last(entries).after
    <3>1. CASE Len(log[u]) = 0
      BY <2>1, <2>2, <2>3, <2>4, <3>1 DEF LogOK
    <3>2. CASE Len(log[u]) > 0
      <4>1. entries[Len(log[u]) + 1] = log[u][Len(log[u])]
        BY <2>3, <3>2
      <4> QED BY <2>1, <2>4, <3>2, <4>1 DEF LogOK
    <3> QED BY <2>3, <3>1, <3>2
  <2> QED BY <2>5, <2>6 DEF entries, first
<1>2. Inv => AuditChain
  BY <1>1 DEF AuditChain
<1> QED BY <1>2, InvAlways, PTL

\* UpdateUserStatus lets nobody disable himself, so that an administrator remains
\* however the changes overlap, unless somebody commits who was disabled meanwhile.
THEOREM AdminCorrect == Spec => AdminRemains
<1>1. ASSUME Inv, [Next]_allVars, HasAdmin PROVE HasAdmin' \/ outrun'
  <2>1. PICK a \in Users : account[a].status = "active" /\ account[a].role = "admin"
    BY <1>1 DEF HasAdmin
  <2>2. CASE UNCHANGED account
    BY <1>1, <2>2 DEF HasAdmin
  <2>3. ASSUME NEW c \in Clients, InsertUser(c) PROVE HasAdmin'
    <3>1. CASE Taken(call[c].user)
      <4>1. UNCHANGED account
        BY <2>3, <3>1 DEF InsertUser
      <4> QED BY <2>1, <4>1 DEF HasAdmin
    <3>2. CASE ~Taken(call[c].user)
      <4>1. call[c].user # a
        BY <2>1, <3>2 DEF Taken, NoAccount
      <4>2. account'[a] = account[a]
        BY <1>1, <2>3, <3>2, <4>1 DEF InsertUser, Inv, ShapeInv
      <4> QED BY <2>1, <4>2 DEF HasAdmin
    <3> QED BY <3>1, <3>2
  <2>4. ASSUME NEW c \in Clients, Commit(c) PROVE HasAdmin' \/ outrun'
    <3>1. PICK u \in Users, t \in Users :
            /\ u = call[c].user /\ t = call[c].target /\ call[c].pc = "commit"
            /\ MayChange(u, t, call[c].to) /\ account[u].role = "admin"
            /\ call[c].to \in {"active", "disabled"}
      BY <1>1, <2>4, Committing DEF Commit
    <3>2. account' = [account EXCEPT ![t].status = call[c].to]
          /\ (outrun' \/ account[u].status = "active")
      BY <2>4, <3>1 DEF Commit
    <3>3. CASE u # t /\ account[u].status = "active"
      <4>1. account'[u] = account[u]
        BY <1>1, <3>1, <3>2, <3>3 DEF Inv, ShapeInv
      <4> QED BY <3>1, <3>3, <4>1 DEF HasAdmin
    <3>4. CASE u = t
      <4>1. call[c].to = "active"
        BY <3>1, <3>4 DEF MayChange
      <4>2. account'[u].status = "active" /\ account'[u].role = "admin"
        BY <1>1, <3>1, <3>2, <3>4, <4>1 DEF Inv, ShapeInv
      <4> QED BY <3>1, <4>2 DEF HasAdmin
    <3> QED BY <3>2, <3>3, <3>4
  <2>5. ASSUME NEW i \in Instances, Restart(i) PROVE HasAdmin'
    <3>1. \A u \in Users : /\ account'[u].status = account[u].status
                           /\ account[u].role = "admin" => account'[u].role = "admin"
      BY <1>1, <2>5, RestartStops
    <3> QED BY <2>1, <3>1 DEF HasAdmin
  <2>6. ASSUME NEW c \in Clients, SignIn(c), ~InsertUser(c) PROVE UNCHANGED account
    BY <2>6 DEF SignIn, Knock, CheckFree, SelectUser, InsertSession, Reply, Logout, Data
  <2>7. ASSUME NEW c \in Clients, ChangeStatus(c) \/ CallFails(c), ~Commit(c)
        PROVE  UNCHANGED account
    BY <2>7 DEF ChangeStatus, Enter, LockUser, Deadlock, CallFails
  <2>8. CASE Tick \/ RedisFaults \/ UNCHANGED allVars
    BY <2>2, <2>8 DEF Tick, RedisFaults, Data, accountVars, allVars
  <2> QED BY <1>1, <2>2, <2>3, <2>4, <2>5, <2>6, <2>7, <2>8 DEF Next
<1>2. Inv /\ [Next]_allVars => [HasAdmin => HasAdmin' \/ outrun']_allVars
  BY <1>1
<1> QED BY <1>2, InvAlways, PTL DEF Spec, AdminRemains

-----------------------------------------------------------------------------
(* Sessions as their clients see them. *)

\* What holds of a session that a login or a registration made.
WellMade(s) ==
    /\ s.id # 0 /\ s.user \in Users /\ s.until \in Nat
    /\ s.born \in Nat /\ s.born <= disables[s.user]
    /\ s.new => account[s.user] # NoAccount

KnownInv == \A s \in Known : s = NoSession \/ WellMade(s)

\* A session is given to one client.
OwnerInv ==
    \A c, d \in Clients :
        /\ cookie[c] = cookie[d] => cookie[c] = NoSession \/ c = d
        /\ call[c].session = call[d].session => call[c].session = NoSession \/ c = d
        /\ cookie[c] = call[d].session => cookie[c] = NoSession

StageInv ==
    \A c \in Clients : /\ call[c].pc # "reply" => call[c].session = NoSession
                       /\ call[c].pc = "select" => call[c].new = FALSE

\* A session works, or it was to end.
Works(s) == s = NoSession \/ s \in sessions \/ clock > s.until \/ s.born < disables[s.user]

WorksInv == \A c \in Clients : Works(cookie[c]) /\ Works(call[c].session)

\* The one request that inserted the row of its user, until it has its session: after
\* that the session stands for the registration.
Registering(r) == r.pc = "session" /\ r.new

NewInv ==
    /\ \A c \in Clients : Registering(call[c]) => account[call[c].user] # NoAccount
    /\ \A c, d \in Clients :
        Registering(call[c]) /\ Registering(call[d]) /\ call[c].user = call[d].user => c = d
    /\ \A c \in Clients, s \in Known : Registering(call[c]) /\ s.new => s.user # call[c].user
    /\ \A s, t \in Known : s.new /\ t.new /\ s.user = t.user => s = t

\* Every token and every request that will still draw one has cost a call, so that a
\* token is left for each of them.
Tokens == {s.id : s \in Known \ {NoSession}}

Signing(r) == r.pc \in {"free?", "insert", "select", "session"}

Pending == {c \in Clients : Signing(call[c])}

CountInv ==
    /\ IsFiniteSet(Tokens) /\ IsFiniteSet(Pending)
    /\ calls \in Nat /\ calls <= MaxCalls
    /\ Cardinality(Tokens) + Cardinality(Pending) <= calls

GivenInv ==
    /\ clock \in Nat /\ DOMAIN cookie = Clients
    /\ KnownInv /\ OwnerInv /\ StageInv /\ WorksInv /\ NewInv /\ CountInv

-----------------------------------------------------------------------------
(* A token is free. *)

LEMMA SmallerSets ==
    ASSUME NEW B, IsFiniteSet(B), NEW A, A \subseteq B
    PROVE  /\ IsFiniteSet(A)
           /\ Cardinality(A) \in Nat /\ Cardinality(B) \in Nat
           /\ Cardinality(A) <= Cardinality(B)
<1>1. A \in SUBSET B
  OBVIOUS
<1> QED BY <1>1, FS_Subset, FS_CardinalityType

LEMMA LargerSet ==
    ASSUME NEW A, IsFiniteSet(A), NEW x
    PROVE  /\ IsFiniteSet(A \cup {x})
           /\ Cardinality(A) \in Nat /\ Cardinality(A \cup {x}) \in Nat
           /\ Cardinality(A \cup {x}) <= Cardinality(A) + 1
BY FS_AddElement, FS_CardinalityType

\* A request about to insert its session finds a token that nobody knows.
LEMMA TokenFree ==
    ASSUME GivenInv, NEW c \in Clients, call[c].pc = "session"
    PROVE  FreshToken \in Nat \ {0} /\ \A s \in Known : s.id # FreshToken
<1>1. CountInv /\ KnownInv /\ MaxCalls \in Nat
  BY AccountsAssumption DEF GivenInv, AccountsAssumption
<1>2. c \in Pending
  BY DEF Pending, Signing
<1>3. Cardinality(Pending) \in Nat /\ Cardinality(Pending) # 0 /\ Cardinality(Tokens) \in Nat
  BY <1>1, <1>2, FS_CardinalityType, FS_EmptySet DEF CountInv
<1>4. Cardinality(Tokens) < MaxCalls
  BY <1>1, <1>3 DEF CountInv
<1>5. IsFiniteSet(1..MaxCalls) /\ Cardinality(1..MaxCalls) = MaxCalls
  BY <1>1, FS_Interval
<1>6. ~(1..MaxCalls \subseteq Tokens)
  <2>1. ASSUME 1..MaxCalls \subseteq Tokens PROVE Cardinality(1..MaxCalls) <= Cardinality(Tokens)
    BY <1>1, <2>1, SmallerSets DEF CountInv
  <2> QED BY <1>1, <1>3, <1>4, <1>5, <2>1
<1> DEFINE Free == 1..MaxCalls \ {s.id : s \in Known}
<1>7. Free # {} /\ Free \in SUBSET Nat
  <2>1. PICK n \in 1..MaxCalls : n \notin Tokens
    BY <1>6
  <2>2. \A s \in Known : s.id # n
    <3>1. NoSession.id = 0
      BY DEF NoSession
    <3> QED BY <1>1, <2>1, <3>1 DEF Tokens
  <2> QED BY <1>1, <2>1, <2>2
<1>8. Min(Free) \in Free
  <2> HIDE DEF Free
  <2> QED BY <1>7, LeastMember
<1>9. FreshToken = Min(Free)
  BY DEF FreshToken
<1>10. Free \subseteq 1..MaxCalls /\ \A s \in Known : s.id \notin Free
  OBVIOUS
<1>11. FreshToken \in Free
  BY <1>8, <1>9
<1> HIDE DEF Free
<1>12. FreshToken \in Nat \ {0}
  BY <1>1, <1>10, <1>11
<1>13. \A s \in Known : s.id # FreshToken
  BY <1>10, <1>11
<1> QED BY <1>12, <1>13

-----------------------------------------------------------------------------
(* The steps, as far as the sessions given are concerned. *)

\* No count goes back, no account goes away.
Onward ==
    /\ clock' \in Nat /\ clock' >= clock
    /\ \A u \in Users : /\ disables[u] \in Nat /\ disables'[u] \in Nat
                        /\ disables'[u] >= disables[u]
                        /\ account[u] # NoAccount => account'[u] # NoAccount

\* A request that goes on as r2 draws no token and registers nobody.
Calmer(r, r2) ==
    /\ r2.session \in {r.session, NoSession}
    /\ r2.pc # "reply" => r2.session = NoSession
    /\ r2.pc = "select" => r2.new = FALSE
    /\ Registering(r2) => Registering(r) /\ r2.user = r.user

\* Nothing is handed out, and what is taken from a client was to end.
Fewer ==
    /\ DOMAIN cookie' = Clients /\ sessions' \subseteq sessions
    /\ \A c \in Clients :
        /\ cookie'[c] \in {cookie[c], NoSession}
        /\ Calmer(call[c], call'[c])
        /\ \A s \in sessions \ sessions' : s = cookie'[c] \/ s = call'[c].session
                => clock' > s.until \/ s.born < disables'[s.user]

\* A session stays well made.
LEMMA StaysMade ==
    ASSUME Onward, NEW s, WellMade(s)
    PROVE  WellMade(s)'
BY DEF Onward, WellMade

\* It works as long as it is there.
LEMMA StaysWorking ==
    ASSUME Onward, NEW s, s = NoSession \/ WellMade(s), Works(s), clock \in Nat,
           s \in sessions => s \in sessions' \/ clock' > s.until \/ s.born < disables'[s.user]
    PROVE  Works(s)'
<1>1. CASE s = NoSession \/ s \in sessions
  BY <1>1 DEF Works
<1>2. CASE WellMade(s) /\ clock > s.until
  <2>1. s.until \in Nat /\ clock' \in Nat /\ clock' >= clock
    BY <1>2 DEF WellMade, Onward
  <2> QED BY <1>2, <2>1 DEF Works
<1>3. CASE WellMade(s) /\ s.born < disables[s.user]
  <2>1. /\ s.born \in Nat /\ disables[s.user] \in Nat /\ disables'[s.user] \in Nat
        /\ disables'[s.user] >= disables[s.user]
    BY <1>3 DEF WellMade, Onward
  <2> QED BY <1>3, <2>1 DEF Works
<1> QED BY <1>1, <1>2, <1>3 DEF Works

\* Fewer tokens and fewer requests that will draw one.
LEMMA CountStays ==
    ASSUME CountInv, Tokens' \subseteq Tokens, Pending' \subseteq Pending,
           calls' \in Nat, calls' >= calls, calls' <= MaxCalls
    PROVE  CountInv'
<1>1. /\ IsFiniteSet(Tokens) /\ IsFiniteSet(Pending) /\ calls \in Nat
      /\ Cardinality(Tokens) + Cardinality(Pending) <= calls
  BY DEF CountInv
<1>2. PICK t, p : t = Tokens' /\ p = Pending'
  OBVIOUS
<1>3. /\ IsFiniteSet(t) /\ Cardinality(t) \in Nat /\ Cardinality(Tokens) \in Nat
      /\ Cardinality(t) <= Cardinality(Tokens)
  BY <1>1, <1>2, SmallerSets
<1>4. /\ IsFiniteSet(p) /\ Cardinality(p) \in Nat /\ Cardinality(Pending) \in Nat
      /\ Cardinality(p) <= Cardinality(Pending)
  BY <1>1, <1>2, SmallerSets
<1>5. Cardinality(t) + Cardinality(p) <= calls'
  BY <1>1, <1>3, <1>4
<1>6. IsFiniteSet(Tokens)' /\ IsFiniteSet(Pending)'
      /\ (Cardinality(Tokens) + Cardinality(Pending) <= calls)'
  BY <1>2, <1>3, <1>4, <1>5
<1> QED BY <1>6 DEF CountInv

\* What is known afterwards was known.
LEMMA FewerKnown ==
    ASSUME Fewer
    PROVE  Known' \subseteq Known \cup {NoSession}
BY DEF Fewer, Calmer, Known

\* All but the count of requests.
LEMMA FewerKeeps ==
    ASSUME Inv, GivenInv, Onward, Fewer, CountInv'
    PROVE  GivenInv'
<1>1. Known' \subseteq Known \cup {NoSession}
  BY FewerKnown
<1>2. KnownInv'
  <2> SUFFICES ASSUME NEW s \in Known' PROVE s = NoSession \/ WellMade(s)'
    BY DEF KnownInv
  <2>1. s = NoSession \/ WellMade(s)
    BY <1>1 DEF GivenInv, KnownInv
  <2> QED BY <2>1, StaysMade
<1>3. OwnerInv'
  BY DEF GivenInv, OwnerInv, Fewer, Calmer
<1>4. StageInv'
  BY DEF StageInv, Fewer, Calmer
<1>5. WorksInv'
  <2> SUFFICES ASSUME NEW c \in Clients, NEW s, s = cookie'[c] \/ s = call'[c].session
               PROVE  Works(s)'
    BY DEF WorksInv
  <2>1. CASE s = NoSession
    BY <2>1 DEF Works
  <2>2. CASE s # NoSession
    <3>1. s = cookie[c] \/ s = call[c].session
      BY <2>2 DEF Fewer, Calmer
    <3>2. s \in Known
      BY <3>1 DEF Known
    <3>3. WellMade(s) /\ Works(s) /\ clock \in Nat
      BY <2>2, <3>1, <3>2 DEF GivenInv, KnownInv, WorksInv
    <3>4. s \in sessions => s \in sessions' \/ clock' > s.until \/ s.born < disables'[s.user]
      BY DEF Fewer
    <3> QED BY <3>3, <3>4, StaysWorking
  <2> QED BY <2>1, <2>2
<1>6. NewInv'
  <2>1. NoSession.new = FALSE
    BY DEF NoSession
  <2>2. \A s \in Known' : s.new => s \in Known
    BY <1>1, <2>1
  <2>3. \A c \in Clients : Registering(call'[c]) =>
            Registering(call[c]) /\ call'[c].user = call[c].user
    BY DEF Fewer, Calmer
  <2>4. \A c \in Clients : Registering(call'[c]) => account'[call'[c].user] # NoAccount
    <3> SUFFICES ASSUME NEW c \in Clients, Registering(call'[c])
                 PROVE  account'[call'[c].user] # NoAccount
      OBVIOUS
    <3>1. /\ Registering(call[c]) /\ call'[c].user = call[c].user
          /\ account[call[c].user] # NoAccount
      BY <2>3 DEF GivenInv, NewInv
    <3>2. call[c].user \in Users
      BY <3>1 DEF Registering, Inv, CallInv
    <3> QED BY <3>1, <3>2 DEF Onward
  <2>5. \A c, d \in Clients :
          Registering(call'[c]) /\ Registering(call'[d]) /\ call'[c].user = call'[d].user => c = d
    BY <2>3 DEF GivenInv, NewInv
  <2>6. \A c \in Clients, s \in Known' : Registering(call'[c]) /\ s.new => s.user # call'[c].user
    BY <2>2, <2>3 DEF GivenInv, NewInv
  <2>7. \A s, t \in Known' : s.new /\ t.new /\ s.user = t.user => s = t
    BY <2>2 DEF GivenInv, NewInv
  <2> QED BY <2>4, <2>5, <2>6, <2>7 DEF NewInv, Registering
<1>7. clock' \in Nat /\ DOMAIN cookie' = Clients
  BY DEF Onward, Fewer
<1> QED BY <1>2, <1>3, <1>4, <1>5, <1>6, <1>7 DEF GivenInv

\* A step by which nobody begins to sign in.
LEMMA CalmKeeps ==
    ASSUME Inv, GivenInv, Onward, Fewer,
           \A c \in Clients : Signing(call'[c]) => Signing(call[c]),
           calls' \in Nat, calls' >= calls, calls' <= MaxCalls
    PROVE  GivenInv'
<1>1. Tokens' \subseteq Tokens
  BY FewerKnown DEF Tokens
<1>2. Pending' \subseteq Pending
  BY DEF Pending, Signing
<1>3. CountInv'
  BY <1>1, <1>2, CountStays DEF GivenInv
<1> QED BY <1>3, FewerKeeps

\* The end of a call, the call that goes on as it is, and the looks at the row of a
\* user.
LEMMA CallsCalm ==
    ASSUME Inv, GivenInv
    PROVE  /\ UNCHANGED call => \A d \in Clients : Calmer(call[d], call'[d])
           /\ \A c \in Clients : Finish(c) => \A d \in Clients : Calmer(call[d], call'[d])
           /\ \A d \in Clients : Calmer(call[d], call[d]) /\ Calmer(call[d], NoCall)
           /\ ~Signing(NoCall)
<1>1. NoCall.session = NoSession /\ NoCall.pc = "idle"
  BY DEF NoCall
<1>2. ~Signing(NoCall) /\ ~Registering(NoCall)
  BY <1>1 DEF Signing, Registering
<1>3. ASSUME NEW d \in Clients PROVE Calmer(call[d], call[d]) /\ Calmer(call[d], NoCall)
  BY <1>1, <1>2 DEF GivenInv, StageInv, Calmer
<1>4. ASSUME NEW c \in Clients, Finish(c), NEW d \in Clients PROVE Calmer(call[d], call'[d])
  <2>1. call'[d] = call[d] \/ call'[d] = NoCall
    BY <1>4, FinishMoves
  <2> QED BY <1>3, <2>1
<1> QED BY <1>2, <1>3, <1>4

\* The steps that change no count.
LEMMA StillOnward ==
    ASSUME Inv, GivenInv, UNCHANGED <<clock, disables>>,
           \A u \in Users : account[u] # NoAccount => account'[u] # NoAccount
    PROVE  Onward
<1>1. \A u \in Users : disables[u] \in Nat
  BY DEF Inv, ShapeInv
<1> QED BY <1>1 DEF Onward, GivenInv

\* An attempt to sign in costs a call.
LEMMA KnockGiven ==
    ASSUME Inv, GivenInv, NEW c \in Clients, NEW i \in Instances, NEW u \in Users,
           NEW new \in BOOLEAN, Knock(c, i, u, new)
    PROVE  GivenInv'
<1>1. PICK ok \in BOOLEAN :
        call' = IF ok THEN [call EXCEPT ![c] =
                              [NoCall EXCEPT !.pc = IF new THEN "free?" ELSE "select",
                                             !.at = i, !.user = u, !.new = new]]
                      ELSE call
  BY DEF Knock
<1>2. UNCHANGED <<clock, account, sessions, disables, cookie>>
      /\ calls' = calls + 1 /\ calls < MaxCalls /\ calls \in Nat /\ MaxCalls \in Nat
  BY AccountsAssumption DEF Knock, Data, AccountsAssumption, GivenInv, CountInv
<1>3. /\ \A d \in Clients \ {c} : call'[d] = call[d]
      /\ Calmer(call[c], call'[c])
  <2>1. CASE ~ok
    BY <1>1, <2>1, CallsCalm
  <2>2. CASE ok
    <3>1. call'[c] = [NoCall EXCEPT !.pc = IF new THEN "free?" ELSE "select",
                                    !.at = i, !.user = u, !.new = new]
      BY <1>1, <2>2 DEF Inv, ShapeInv
    <3>2. /\ call'[c].session = NoSession /\ call'[c].new = new
          /\ call'[c].pc = IF new THEN "free?" ELSE "select"
      BY <3>1 DEF NoCall
    <3>3. Calmer(call[c], call'[c])
      BY <3>2 DEF Calmer, Registering
    <3>4. \A d \in Clients \ {c} : call'[d] = call[d]
      BY <1>1, <2>2 DEF Inv, ShapeInv
    <3> QED BY <3>3, <3>4
  <2> QED BY <2>1, <2>2
<1>4. Onward
  BY <1>2, StillOnward
<1>5. Fewer
  BY <1>2, <1>3, CallsCalm DEF Fewer, GivenInv
<1>6. CountInv'
  <2>1. PICK t, p : t = Tokens' /\ p = Pending'
    OBVIOUS
  <2>2. t \subseteq Tokens
    BY <1>5, <2>1, FewerKnown DEF Tokens
  <2>3. p \subseteq Pending \cup {c}
    BY <1>3, <2>1 DEF Pending, Signing
  <2>4. /\ IsFiniteSet(Tokens) /\ IsFiniteSet(Pending)
        /\ Cardinality(Tokens) + Cardinality(Pending) <= calls
    BY DEF GivenInv, CountInv
  <2>5. /\ IsFiniteSet(t) /\ Cardinality(t) \in Nat /\ Cardinality(Tokens) \in Nat
        /\ Cardinality(t) <= Cardinality(Tokens)
    BY <2>2, <2>4, SmallerSets
  <2>6. /\ IsFiniteSet(Pending \cup {c})
        /\ Cardinality(Pending \cup {c}) <= Cardinality(Pending) + 1
        /\ Cardinality(Pending) \in Nat /\ Cardinality(Pending \cup {c}) \in Nat
    BY <2>4, LargerSet
  <2>7. /\ IsFiniteSet(p) /\ Cardinality(p) \in Nat
        /\ Cardinality(p) <= Cardinality(Pending \cup {c})
    BY <2>3, <2>6, SmallerSets
  <2>8. Cardinality(t) + Cardinality(p) <= calls'
    BY <1>2, <2>4, <2>5, <2>6, <2>7
  <2>9. IsFiniteSet(Tokens)' /\ IsFiniteSet(Pending)'
        /\ (Cardinality(Tokens) + Cardinality(Pending) <= calls)'
    BY <2>1, <2>5, <2>7, <2>8
  <2> QED BY <1>2, <2>9 DEF CountInv
<1> QED BY <1>4, <1>5, <1>6, FewerKeeps

\* The looks of registration and login at the row of their user.
LEMMA LookGiven ==
    ASSUME Inv, GivenInv, NEW c \in Clients, CheckFree(c) \/ SelectUser(c)
    PROVE  GivenInv'
<1>1. /\ UNCHANGED <<clock, account, sessions, disables, cookie, calls>>
      /\ calls \in Nat /\ calls <= MaxCalls
  BY DEF CheckFree, SelectUser, rateVars, Data, GivenInv, CountInv
<1>2. \A d \in Clients : Calmer(call[d], call'[d]) /\ (Signing(call'[d]) => Signing(call[d]))
  <2>1. CASE Finish(c)
    BY <2>1, CallsCalm, FinishMoves
  <2>2. CASE ~Finish(c)
    <3>1. PICK pc \in {"insert", "session"} :
            /\ call' = [call EXCEPT ![c].pc = pc]
            /\ call[c].pc \in {"free?", "select"}
            /\ pc = "session" => call[c].pc = "select"
      BY <2>2 DEF CheckFree, SelectUser
    <3>2. call'[c].pc = pc /\ call'[c].session = call[c].session /\ call'[c].new = call[c].new
          /\ \A d \in Clients \ {c} : call'[d] = call[d]
      BY <3>1 DEF Inv, ShapeInv, Fields
    <3>3. call[c].session = NoSession /\ (pc = "session" => call[c].new = FALSE)
      BY <3>1 DEF GivenInv, StageInv
    <3>4. Calmer(call[c], call'[c]) /\ Signing(call[c])
      BY <3>1, <3>2, <3>3 DEF Calmer, Registering, Signing
    <3> QED BY <3>2, <3>4, CallsCalm
  <2> QED BY <2>1, <2>2
<1>3. Onward
  BY <1>1, StillOnward
<1>4. Fewer
  BY <1>1, <1>2 DEF Fewer, GivenInv
<1> QED BY <1>1, <1>2, <1>3, <1>4, CalmKeeps

\* A registration inserts the row of its user: no session of his is known and no other
\* request stands for him, as there was no row.
LEMMA InsertUserGiven ==
    ASSUME Inv, GivenInv, NEW c \in Clients, InsertUser(c)
    PROVE  GivenInv'
<1>1. PICK u \in Users : u = call[c].user /\ call[c].pc = "insert"
  BY DEF InsertUser, Inv, CallInv
<1>2. /\ UNCHANGED <<clock, sessions, disables, cookie, calls>>
      /\ calls \in Nat /\ calls <= MaxCalls
  BY DEF InsertUser, rateVars, GivenInv, CountInv
<1>3. CASE Taken(u)
  <2>1. Finish(c) /\ UNCHANGED account
    BY <1>1, <1>3 DEF InsertUser
  <2>2. \A d \in Clients : Calmer(call[d], call'[d]) /\ (Signing(call'[d]) => Signing(call[d]))
    BY <2>1, CallsCalm, FinishMoves
  <2>3. Onward /\ Fewer
    BY <1>2, <2>1, <2>2, StillOnward DEF Fewer, GivenInv
  <2> QED BY <1>2, <2>2, <2>3, CalmKeeps
<1>4. CASE ~Taken(u)
  <2>1. /\ account[u] = NoAccount
        /\ account' = [account EXCEPT ![u] =
                [status |-> "active", role |-> IF u \in Listed THEN "admin" ELSE "user"]]
        /\ call' = [call EXCEPT ![c].pc = "session"]
    BY <1>1, <1>4 DEF InsertUser, Taken
  <2>2. /\ \A d \in Clients \ {c} : call'[d] = call[d]
        /\ call'[c].pc = "session" /\ call'[c].user = u
        /\ call'[c].session = call[c].session /\ call'[c].new = call[c].new
    BY <1>1, <2>1 DEF Inv, ShapeInv, Fields
  <2>3. /\ account'[u] # NoAccount /\ \A v \in Users \ {u} : account'[v] = account[v]
        /\ \A v \in Users : account[v] # NoAccount => account'[v] # NoAccount
    BY <1>1, <2>1 DEF Inv, ShapeInv, NoAccount
  <2>4. call[c].session = NoSession
    BY <1>1 DEF GivenInv, StageInv
  <2>5. Onward
    BY <1>2, <2>3, StillOnward
  <2>6. Known' = Known
    BY <1>2, <2>2 DEF Known
  <2>7. KnownInv'
    <3> SUFFICES ASSUME NEW s \in Known PROVE s = NoSession \/ WellMade(s)'
      BY <2>6 DEF KnownInv
    <3> QED BY <2>5, StaysMade DEF GivenInv, KnownInv
  <2>8. OwnerInv' /\ StageInv'
    BY <1>2, <2>2, <2>4 DEF GivenInv, OwnerInv, StageInv
  <2>9. WorksInv'
    <3>1. \A s : Works(s)' <=> Works(s)
      BY <1>2 DEF Works
    <3>2. \A d \in Clients : cookie'[d] = cookie[d] /\ call'[d].session = call[d].session
      BY <1>2, <2>2
    <3>3. ASSUME NEW d \in Clients, NEW s, s = cookie'[d] \/ s = call'[d].session
          PROVE  Works(s)'
      BY <3>1, <3>2, <3>3 DEF GivenInv, WorksInv
    <3> QED BY <3>3 DEF WorksInv
  <2>10. NewInv'
    <3>1. \A s \in Known : s.new => s.user # u
      <4>1. \A s \in Known : s = NoSession \/ (s.new => account[s.user] # NoAccount)
        BY DEF GivenInv, KnownInv, WellMade
      <4> QED BY <2>1, <4>1 DEF NoSession
    <3>2. \A d \in Clients \ {c} : Registering(call'[d]) =>
              /\ Registering(call[d]) /\ call'[d].user = call[d].user
              /\ account[call[d].user] # NoAccount /\ call[d].user # u
              /\ account'[call[d].user] # NoAccount
      <4>1. \A d \in Clients : Registering(call[d]) =>
              account[call[d].user] # NoAccount /\ call[d].user \in Users
        BY DEF GivenInv, NewInv, Registering, Inv, CallInv
      <4> QED BY <2>1, <2>2, <2>3, <4>1
    <3>3. \A d \in Clients : Registering(call'[d]) => account'[call'[d].user] # NoAccount
      BY <2>2, <2>3, <3>2
    <3>4. \A d, e \in Clients :
            Registering(call'[d]) /\ Registering(call'[e]) /\ call'[d].user = call'[e].user => d = e
      BY <2>2, <3>2 DEF GivenInv, NewInv
    <3>5. \A d \in Clients, s \in Known' : Registering(call'[d]) /\ s.new => s.user # call'[d].user
      BY <2>2, <2>6, <3>1, <3>2 DEF GivenInv, NewInv
    <3>6. \A s, t \in Known' : s.new /\ t.new /\ s.user = t.user => s = t
      BY <2>6 DEF GivenInv, NewInv
    <3> QED BY <3>3, <3>4, <3>5, <3>6 DEF NewInv, Registering
  <2>11. CountInv'
    <3>1. Tokens' = Tokens
      BY <2>6 DEF Tokens
    <3>2. Pending' \subseteq Pending
      BY <1>1, <2>2 DEF Pending, Signing
    <3> QED BY <1>2, <3>1, <3>2, CountStays DEF GivenInv
  <2>12. clock' \in Nat /\ DOMAIN cookie' = Clients
    BY <1>2 DEF GivenInv
  <2> QED BY <2>7, <2>8, <2>9, <2>10, <2>11, <2>12 DEF GivenInv
<1> QED BY <1>3, <1>4

\* The new session is nobody else's, works, and stands for the registration if the
\* request was one.
LEMMA InsertSessionGiven ==
    ASSUME Inv, GivenInv, NEW c \in Clients, InsertSession(c)
    PROVE  GivenInv'
<1>1. call[c].pc = "session" /\ call[c].user \in Users
  BY DEF InsertSession, Inv, CallInv
<1>2. PICK s : s = [id |-> FreshToken, user |-> call[c].user, until |-> clock + Life,
                    born |-> disables[call[c].user], new |-> call[c].new]
  OBVIOUS
<1>3. /\ s.id = FreshToken /\ s.user = call[c].user /\ s.until = clock + Life
      /\ s.born = disables[call[c].user] /\ s.new = call[c].new
  BY <1>2
<1>4. /\ sessions' = sessions \cup {s}
      /\ call' = [call EXCEPT ![c].pc = "reply", ![c].session = s]
      /\ UNCHANGED <<clock, account, disables, cookie, calls>>
      /\ calls \in Nat /\ calls <= MaxCalls
  BY <1>2 DEF InsertSession, rateVars, GivenInv, CountInv
<1>5. /\ \A d \in Clients \ {c} : call'[d] = call[d]
      /\ call'[c].pc = "reply" /\ call'[c].session = s
  BY <1>4 DEF Inv, ShapeInv, Fields
<1>6. s \notin Known /\ s.id # 0 /\ s # NoSession
  <2>1. FreshToken \in Nat \ {0} /\ \A t \in Known : t.id # FreshToken
    BY <1>1, TokenFree
  <2> QED BY <1>3, <2>1 DEF NoSession
<1>7. Known' \subseteq Known \cup {s}
  BY <1>4, <1>5 DEF Known
<1>8. call[c].new => account[call[c].user] # NoAccount
  BY <1>1 DEF GivenInv, NewInv, Registering
<1>9. WellMade(s)
  <2>1. /\ clock \in Nat /\ Life \in Nat /\ disables[call[c].user] \in Nat
    BY <1>1, AccountsAssumption DEF GivenInv, AccountsAssumption, Inv, ShapeInv
  <2> QED BY <1>1, <1>3, <1>6, <1>8, <2>1 DEF WellMade
<1>10. KnownInv'
  <2>1. \A t : WellMade(t)' <=> WellMade(t)
    BY <1>4 DEF WellMade
  <2> QED BY <1>7, <1>9, <2>1 DEF GivenInv, KnownInv
<1>11. \A d \in Clients : cookie[d] \in Known /\ call[d].session \in Known
  BY DEF Known
<1>12. OwnerInv'
  <2> SUFFICES ASSUME NEW d \in Clients, NEW e \in Clients
               PROVE  /\ cookie'[d] = cookie'[e] => cookie'[d] = NoSession \/ d = e
                      /\ call'[d].session = call'[e].session
                            => call'[d].session = NoSession \/ d = e
                      /\ cookie'[d] = call'[e].session => cookie'[d] = NoSession
    BY DEF OwnerInv
  <2>1. /\ cookie[d] = cookie[e] => cookie[d] = NoSession \/ d = e
        /\ call[d].session = call[e].session => call[d].session = NoSession \/ d = e
        /\ cookie[d] = call[e].session => cookie[d] = NoSession
    BY DEF GivenInv, OwnerInv
  <2>2. /\ cookie[d] # s /\ call[d].session # s /\ call[e].session # s
    BY <1>6, <1>11
  <2>3. /\ call'[d].session = IF d = c THEN s ELSE call[d].session
        /\ call'[e].session = IF e = c THEN s ELSE call[e].session
    BY <1>5
  <2>4. cookie'[d] = cookie[d] /\ cookie'[e] = cookie[e]
    BY <1>4
  <2> QED BY <2>1, <2>2, <2>3, <2>4
<1>13. StageInv'
  BY <1>5 DEF GivenInv, StageInv
<1>14. WorksInv'
  <2>1. \A t : Works(t) \/ t = s => Works(t)'
    BY <1>4 DEF Works
  <2>2. \A d \in Clients : Works(cookie[d]) /\ (Works(call'[d].session) \/ call'[d].session = s)
    BY <1>5 DEF GivenInv, WorksInv
  <2>3. ASSUME NEW d \in Clients, NEW t, t = cookie'[d] \/ t = call'[d].session
        PROVE  Works(t)'
    BY <1>4, <2>1, <2>2, <2>3
  <2> QED BY <2>3 DEF WorksInv
<1>15. NewInv'
  <2>1. \A d \in Clients : Registering(call'[d]) => d # c /\ Registering(call[d]) /\ call'[d] = call[d]
    BY <1>5 DEF Registering
  <2>2. s.new => Registering(call[c])
    BY <1>1, <1>3 DEF Registering
  <2>3. \A t \in Known : s.new /\ t.new => t.user # s.user
    BY <1>3, <2>2 DEF GivenInv, NewInv
  <2>4. \A d \in Clients : Registering(call'[d]) => account'[call'[d].user] # NoAccount
    BY <1>4, <2>1 DEF GivenInv, NewInv
  <2>5. \A d, e \in Clients :
          Registering(call'[d]) /\ Registering(call'[e]) /\ call'[d].user = call'[e].user => d = e
    BY <2>1 DEF GivenInv, NewInv
  <2>6. \A d \in Clients, t \in Known' : Registering(call'[d]) /\ t.new => t.user # call'[d].user
    BY <1>3, <1>7, <2>1, <2>2 DEF GivenInv, NewInv
  <2>7. \A t, r \in Known' : t.new /\ r.new /\ t.user = r.user => t = r
    BY <1>7, <2>3 DEF GivenInv, NewInv
  <2> QED BY <2>4, <2>5, <2>6, <2>7 DEF NewInv, Registering
<1>16. CountInv'
  <2>1. PICK t, p : t = Tokens' /\ p = Pending'
    OBVIOUS
  <2>2. t \subseteq Tokens \cup {s.id}
    BY <1>7, <2>1 DEF Tokens
  <2>3. c \in Pending /\ p \subseteq Pending \ {c}
    BY <1>1, <1>5, <2>1 DEF Pending, Signing
  <2>4. /\ IsFiniteSet(Tokens) /\ IsFiniteSet(Pending)
        /\ Cardinality(Tokens) + Cardinality(Pending) <= calls
    BY DEF GivenInv, CountInv
  <2>5. /\ IsFiniteSet(Tokens \cup {s.id}) /\ Cardinality(Tokens) \in Nat
        /\ Cardinality(Tokens \cup {s.id}) \in Nat
        /\ Cardinality(Tokens \cup {s.id}) <= Cardinality(Tokens) + 1
    BY <2>4, LargerSet
  <2>6. /\ IsFiniteSet(t) /\ Cardinality(t) \in Nat
        /\ Cardinality(t) <= Cardinality(Tokens \cup {s.id})
    BY <2>2, <2>5, SmallerSets
  <2>7. /\ IsFiniteSet(Pending \ {c}) /\ Cardinality(Pending) \in Nat
        /\ Cardinality(Pending \ {c}) = Cardinality(Pending) - 1
    BY <2>3, <2>4, FS_RemoveElement, FS_CardinalityType
  <2>8. /\ IsFiniteSet(p) /\ Cardinality(p) \in Nat
        /\ Cardinality(p) <= Cardinality(Pending \ {c}) /\ Cardinality(Pending \ {c}) \in Nat
    BY <2>3, <2>7, SmallerSets
  <2>9. Cardinality(t) + Cardinality(p) <= calls'
    BY <1>4, <2>4, <2>5, <2>6, <2>7, <2>8
  <2>10. IsFiniteSet(Tokens)' /\ IsFiniteSet(Pending)'
        /\ (Cardinality(Tokens) + Cardinality(Pending) <= calls)'
    BY <2>1, <2>6, <2>8, <2>9
  <2> QED BY <1>4, <2>10 DEF CountInv
<1>17. clock' \in Nat /\ DOMAIN cookie' = Clients
  BY <1>4 DEF GivenInv
<1> QED BY <1>10, <1>12, <1>13, <1>14, <1>15, <1>16, <1>17 DEF GivenInv

\* The cookie takes over the session of the answer.
LEMMA ReplyGiven ==
    ASSUME Inv, GivenInv, NEW c \in Clients, Reply(c)
    PROVE  GivenInv'
<1>1. PICK s : s = call[c].session
  OBVIOUS
<1>2. /\ UNCHANGED <<clock, account, sessions, disables, calls>>
      /\ cookie' = [cookie EXCEPT ![c] = s] /\ DOMAIN cookie = Clients
      /\ calls \in Nat /\ calls <= MaxCalls
  BY <1>1 DEF Reply, SetSessionCookie, rateVars, Data, GivenInv, CountInv
<1>3. /\ cookie'[c] = s /\ \A d \in Clients \ {c} : cookie'[d] = cookie[d]
      /\ DOMAIN cookie' = Clients
  BY <1>2
<1>4. /\ \A d \in Clients \ {c} : call'[d] = call[d]
      /\ call'[c].session = NoSession /\ call'[c].pc = "idle"
  <2>1. call'[c] = NoCall /\ \A d \in Clients \ {c} : call'[d] = call[d]
    BY FinishMoves DEF Reply
  <2> QED BY <2>1 DEF NoCall
<1>5. \A d \in Clients : /\ cookie'[d] = IF d = c THEN call[c].session ELSE cookie[d]
                         /\ call'[d].session = IF d = c THEN NoSession ELSE call[d].session
  BY <1>1, <1>3, <1>4
<1>6. Known' \subseteq Known \cup {NoSession}
  BY <1>2, <1>5 DEF Known
<1>7. KnownInv'
  <2>1. \A t : WellMade(t)' <=> WellMade(t)
    BY <1>2 DEF WellMade
  <2> QED BY <1>6, <2>1 DEF GivenInv, KnownInv
<1>8. OwnerInv'
  BY <1>5 DEF GivenInv, OwnerInv
<1>9. StageInv'
  BY <1>4 DEF GivenInv, StageInv
<1>10. WorksInv'
  <2>1. \A t : Works(t) => Works(t)'
    BY <1>2 DEF Works
  <2>2. Works(NoSession)
    BY DEF Works
  <2>3. ASSUME NEW d \in Clients, NEW t, t = cookie'[d] \/ t = call'[d].session
        PROVE  Works(t)'
    BY <1>5, <2>1, <2>2, <2>3 DEF GivenInv, WorksInv
  <2> QED BY <2>3 DEF WorksInv
<1>11. NewInv'
  <2>1. \A d \in Clients : Registering(call'[d]) => Registering(call[d]) /\ call'[d] = call[d]
    BY <1>4 DEF Registering
  <2>2. \A t \in Known' : t.new => t \in Known
    BY <1>6 DEF NoSession
  <2> QED BY <1>2, <2>1, <2>2 DEF GivenInv, NewInv, Registering
<1>12. CountInv'
  <2>1. Tokens' \subseteq Tokens
    BY <1>6 DEF Tokens
  <2>2. Pending' \subseteq Pending
    BY <1>4 DEF Pending, Signing
  <2> QED BY <1>2, <2>1, <2>2, CountStays DEF GivenInv
<1>13. clock' \in Nat
  BY <1>2 DEF GivenInv
<1> QED BY <1>3, <1>7, <1>8, <1>9, <1>10, <1>11, <1>12, <1>13 DEF GivenInv

\* The row of a token that one client was given is no other client's.
LEMMA LogoutGiven ==
    ASSUME Inv, GivenInv, NEW c \in Clients, Logout(c)
    PROVE  GivenInv'
<1>1. /\ UNCHANGED <<clock, account, disables, call>>
      /\ cookie' = [cookie EXCEPT ![c] = NoSession] /\ DOMAIN cookie = Clients
      /\ cookie[c] # NoSession /\ sessions' \in {sessions, sessions \ {cookie[c]}}
      /\ calls' = calls + 1 /\ calls < MaxCalls /\ calls \in Nat /\ MaxCalls \in Nat
  BY AccountsAssumption
     DEF AccountsAssumption, Logout, LoggedOut, ClearSessionCookie, rateVars, GivenInv, CountInv
<1>2. Onward
  BY <1>1, StillOnward
<1>3. /\ cookie'[c] = NoSession /\ \A d \in Clients \ {c} : cookie'[d] = cookie[d]
      /\ DOMAIN cookie' = Clients
  BY <1>1
<1>4. \A d \in Clients : cookie'[d] # cookie[c] /\ call[d].session # cookie[c]
  BY <1>1, <1>3 DEF GivenInv, OwnerInv
<1>5. \A d \in Clients : Calmer(call[d], call'[d])
  BY <1>1, CallsCalm
<1>6. Fewer
  BY <1>1, <1>3, <1>4, <1>5 DEF Fewer
<1> QED BY <1>1, <1>2, <1>6, CalmKeeps

\* A request deletes the row of a session that has run out.
LEMMA EnterGiven ==
    ASSUME Inv, GivenInv, NEW c \in Clients, NEW i \in Instances, NEW target \in Users,
           NEW to \in {"active", "disabled"}, Enter(c, i, target, to)
    PROVE  GivenInv'
<1>1. PICK s : s = cookie[c]
  OBVIOUS
<1>2. /\ UNCHANGED <<clock, account, disables, cookie>> /\ s # NoSession
      /\ sessions' = IF clock <= s.until THEN sessions ELSE sessions \ {s}
      /\ calls' = calls + 1 /\ calls < MaxCalls /\ calls \in Nat /\ MaxCalls \in Nat
  BY <1>1, AccountsAssumption DEF AccountsAssumption, Enter, rateVars, GivenInv, CountInv
<1>3. Onward
  BY <1>2, StillOnward
<1>4. \A t \in sessions \ sessions' : clock' > t.until
  <2>1. s \in Known
    BY <1>1 DEF Known
  <2>2. s.until \in Nat /\ clock \in Nat
    BY <1>2, <2>1 DEF GivenInv, KnownInv, WellMade
  <2> QED BY <1>2, <2>2
<1>5. \A d \in Clients : Calmer(call[d], call'[d]) /\ (Signing(call'[d]) => Signing(call[d]))
  <2>1. CASE UNCHANGED call
    BY <2>1, CallsCalm
  <2>2. CASE ~UNCHANGED call
    <3>1. call' = [call EXCEPT ![c] =
             [NoCall EXCEPT !.pc = "lock", !.at = i, !.user = s.user, !.target = target,
                            !.to = to, !.asof = disables[s.user]]]
      BY <1>1, <2>2 DEF Enter
    <3>2. /\ call'[c].pc = "lock" /\ call'[c].session = NoSession
          /\ \A d \in Clients \ {c} : call'[d] = call[d]
      BY <3>1 DEF Inv, ShapeInv, NoCall
    <3>3. Calmer(call[c], call'[c]) /\ ~Signing(call'[c])
      BY <3>2 DEF Calmer, Registering, Signing
    <3> QED BY <3>2, <3>3, CallsCalm
  <2> QED BY <2>1, <2>2
<1>6. Fewer
  BY <1>2, <1>4, <1>5 DEF Fewer, GivenInv
<1> QED BY <1>2, <1>3, <1>5, <1>6, CalmKeeps

\* The transaction that disables a user counts it and ends his sessions.
LEMMA CommitGiven ==
    ASSUME Inv, GivenInv, NEW c \in Clients, Commit(c)
    PROVE  GivenInv'
<1>1. PICK t \in Users, to \in {"active", "disabled"} :
        t = call[c].target /\ to = call[c].to /\ call[c].pc = "commit"
  BY Committing DEF Commit
<1>2. /\ account' = [account EXCEPT ![t].status = to]
      /\ sessions' = sessions \ Revoked(t, to)
      /\ disables' = IF to = "disabled" THEN [disables EXCEPT ![t] = @ + 1] ELSE disables
      /\ UNCHANGED <<clock, cookie, calls>> /\ Finish(c)
  BY <1>1 DEF Commit, rateVars
<1>3. /\ clock \in Nat /\ calls \in Nat /\ calls <= MaxCalls /\ DOMAIN cookie = Clients
  BY DEF GivenInv, CountInv
<1>4. \A u \in Users : account[u] # NoAccount => account'[u] # NoAccount
  <2>1. ASSUME NEW u \in Users, account[u] # NoAccount PROVE account'[u] # NoAccount
    <3>1. CASE u = t
      <4>1. account'[t].status = to /\ NoAccount.status = "none"
        BY <1>2 DEF Inv, ShapeInv, NoAccount
      <4> QED BY <3>1, <4>1
    <3>2. CASE u # t
      BY <1>2, <2>1, <3>2 DEF Inv, ShapeInv
    <3> QED BY <3>1, <3>2
  <2> QED BY <2>1
<1>5. \A u \in Users : /\ disables[u] \in Nat /\ disables'[u] \in Nat
                       /\ disables'[u] >= disables[u]
                       /\ (to = "disabled" /\ u = t) => disables'[u] = disables[u] + 1
  BY <1>1, <1>2 DEF Inv, ShapeInv
<1>6. Onward
  BY <1>2, <1>3, <1>4, <1>5 DEF Onward
<1>7. \A s \in sessions \ sessions' : s.born < disables'[s.user]
  <2>1. ASSUME NEW s \in sessions \ sessions' PROVE s.born < disables'[s.user]
    <3>1. to = "disabled" /\ s.user = t
      BY <1>2, <2>1 DEF Revoked
    <3>2. s.born = disables[t]
      BY <3>1 DEF Inv, SessionInv
    <3> QED BY <1>1, <1>5, <3>1, <3>2
  <2> QED BY <2>1
<1>8. \A d \in Clients : Calmer(call[d], call'[d]) /\ (Signing(call'[d]) => Signing(call[d]))
  BY <1>2, CallsCalm, FinishMoves
<1>9. Fewer
  BY <1>2, <1>3, <1>7, <1>8 DEF Fewer
<1> QED BY <1>2, <1>3, <1>6, <1>8, <1>9, CalmKeeps

\* The row of another user is locked.
LEMMA LockUserGiven ==
    ASSUME Inv, GivenInv, NEW c \in Clients, LockUser(c)
    PROVE  GivenInv'
<1>1. /\ UNCHANGED <<clock, account, sessions, disables, cookie, calls>>
      /\ calls \in Nat /\ calls <= MaxCalls /\ call[c].pc = "lock"
  BY DEF LockUser, rateVars, GivenInv, CountInv
<1>2. \A d \in Clients : Calmer(call[d], call'[d]) /\ (Signing(call'[d]) => Signing(call[d]))
  <2>1. CASE Finish(c)
    BY <2>1, CallsCalm, FinishMoves
  <2>2. CASE ~Finish(c)
    <3>1. PICK before :
            call' = [call EXCEPT ![c].pc = "commit", ![c].before = before]
      BY <2>2 DEF LockUser
    <3>2. call'[c].pc = "commit" /\ call'[c].session = call[c].session
          /\ \A d \in Clients \ {c} : call'[d] = call[d]
      BY <3>1 DEF Inv, ShapeInv, Fields
    <3>3. call[c].session = NoSession
      BY <1>1 DEF GivenInv, StageInv
    <3>4. Calmer(call[c], call'[c]) /\ ~Signing(call'[c])
      BY <3>2, <3>3 DEF Calmer, Registering, Signing
    <3> QED BY <3>2, <3>4, CallsCalm
  <2> QED BY <2>1, <2>2
<1>3. Onward
  BY <1>1, StillOnward
<1>4. Fewer
  BY <1>1, <1>2 DEF Fewer, GivenInv
<1> QED BY <1>1, <1>2, <1>3, <1>4, CalmKeeps

\* Calls that end.
LEMMA StopsGiven ==
    ASSUME Inv, GivenInv, NEW stopped, Stops(stopped), UNCHANGED <<clock, cookie, calls>>
    PROVE  GivenInv'
<1>1. /\ UNCHANGED <<clock, sessions, disables, cookie, calls>> /\ DOMAIN cookie = Clients
      /\ calls \in Nat /\ calls <= MaxCalls
  BY DEF Stops, GivenInv, CountInv
<1>2. \A d \in Clients : call'[d] = call[d] \/ call'[d] = NoCall
  BY DEF Stops
<1>3. \A d \in Clients : Calmer(call[d], call'[d]) /\ (Signing(call'[d]) => Signing(call[d]))
  BY <1>2, CallsCalm
<1>4. \A u \in Users : account[u] # NoAccount => account'[u] # NoAccount
  <2>1. ASSUME NEW u \in Users, account[u] # NoAccount PROVE account'[u] # NoAccount
    <3>1. account'[u].status = account[u].status
      BY DEF Stops
    <3>2. account[u].status # "none"
      BY <2>1 DEF Inv, ShapeInv
    <3>3. NoAccount.status = "none"
      BY DEF NoAccount
    <3> QED BY <3>1, <3>2, <3>3
  <2> QED BY <2>1
<1>5. Onward
  BY <1>1, <1>4, StillOnward
<1>6. Fewer
  BY <1>1, <1>3 DEF Fewer
<1> QED BY <1>1, <1>3, <1>5, <1>6, CalmKeeps

\* Time passes, or Redis comes and goes.
LEMMA TimeGiven ==
    ASSUME Inv, GivenInv, Tick \/ RedisFaults \/ UNCHANGED allVars
    PROVE  GivenInv'
<1>1. /\ UNCHANGED <<account, sessions, disables, cookie, calls, call>>
      /\ calls \in Nat /\ calls <= MaxCalls /\ clock \in Nat /\ DOMAIN cookie = Clients
  BY DEF Tick, RedisFaults, Data, accountVars, allVars, GivenInv, CountInv
<1>2. clock' = clock \/ clock' = clock + 1
  BY DEF Tick, RateTick, RedisFaults, LoseShared, Unreach, Reach, allVars, rateVars
<1>3. \A u \in Users : disables[u] \in Nat
  BY DEF Inv, ShapeInv
<1>4. Onward
  BY <1>1, <1>2, <1>3 DEF Onward
<1>5. Fewer
  BY <1>1, CallsCalm DEF Fewer
<1> QED BY <1>1, <1>4, <1>5, CalmKeeps

LEMMA GivenInit == Init => GivenInv
<1> SUFFICES ASSUME Init PROVE GivenInv
  OBVIOUS
<1>1. /\ sessions = {} /\ clock = 0 /\ calls = 0 /\ MaxCalls \in Nat
      /\ cookie = [c \in Clients |-> NoSession] /\ call = [c \in Clients |-> NoCall]
  BY AccountsAssumption DEF Init, RateInit, AccountsAssumption
<1>2. NoCall.session = NoSession /\ NoCall.pc = "idle" /\ NoSession.new = FALSE
  BY DEF NoCall, NoSession
<1>3. Known \subseteq {NoSession}
  BY <1>1, <1>2 DEF Known
<1>4. \A c \in Clients : cookie[c] = NoSession /\ call[c].session = NoSession /\ call[c].pc = "idle"
  BY <1>1, <1>2
<1>5. KnownInv /\ OwnerInv /\ StageInv /\ WorksInv
  BY <1>3, <1>4 DEF KnownInv, OwnerInv, StageInv, WorksInv, Works
<1>6. NewInv
  BY <1>2, <1>3, <1>4 DEF NewInv, Registering
<1>7. CountInv
  <2>1. Tokens = {} /\ Pending = {}
    BY <1>3, <1>4 DEF Tokens, Pending, Signing
  <2> QED BY <1>1, <2>1, FS_EmptySet DEF CountInv
<1> QED BY <1>1, <1>5, <1>6, <1>7 DEF GivenInv

LEMMA GivenNext == Inv /\ GivenInv /\ [Next]_allVars => GivenInv'
<1> SUFFICES ASSUME Inv, GivenInv, [Next]_allVars PROVE GivenInv'
  OBVIOUS
<1>1. ASSUME NEW c \in Clients, SignIn(c) PROVE GivenInv'
  <2>1. ASSUME NEW i \in Instances, NEW u \in Users, NEW new \in BOOLEAN, Knock(c, i, u, new)
        PROVE  GivenInv'
    BY <2>1, KnockGiven
  <2>2. CASE CheckFree(c) \/ SelectUser(c)
    BY <2>2, LookGiven
  <2>3. CASE InsertUser(c)
    BY <2>3, InsertUserGiven
  <2>4. CASE InsertSession(c)
    BY <2>4, InsertSessionGiven
  <2>5. CASE Reply(c)
    BY <2>5, ReplyGiven
  <2>6. CASE Logout(c)
    BY <2>6, LogoutGiven
  <2> QED BY <1>1, <2>1, <2>2, <2>3, <2>4, <2>5, <2>6 DEF SignIn
<1>2. ASSUME NEW c \in Clients, ChangeStatus(c) PROVE GivenInv'
  <2>1. ASSUME NEW i \in Instances, NEW u \in Users, NEW to \in {"active", "disabled"},
               Enter(c, i, u, to)
        PROVE  GivenInv'
    BY <2>1, EnterGiven
  <2>2. CASE LockUser(c)
    BY <2>2, LockUserGiven
  <2>3. CASE Commit(c)
    BY <2>3, CommitGiven
  <2>4. CASE Deadlock(c)
    <3>1. UNCHANGED <<clock, cookie, calls>>
      BY <2>4 DEF Deadlock, rateVars
    <3> QED BY <2>4, <3>1, CallStops, StopsGiven
  <2> QED BY <1>2, <2>1, <2>2, <2>3, <2>4 DEF ChangeStatus
<1>3. ASSUME NEW c \in Clients, CallFails(c) PROVE GivenInv'
  <2>1. UNCHANGED <<clock, cookie, calls>>
    BY <1>3 DEF CallFails, rateVars
  <2> QED BY <1>3, <2>1, CallStops, StopsGiven
<1>4. ASSUME NEW i \in Instances, Restart(i) PROVE GivenInv'
  <2>1. UNCHANGED <<clock, cookie, calls>>
    BY <1>4 DEF Restart
  <2> QED BY <1>4, <2>1, RestartStops, StopsGiven
<1>5. CASE Tick \/ RedisFaults \/ UNCHANGED allVars
  BY <1>5, TimeGiven
<1> QED BY <1>1, <1>2, <1>3, <1>4, <1>5 DEF Next

LEMMA GivenAlways == Spec => []GivenInv
BY InvInit, InvNext, GivenInit, GivenNext, PTL DEF Spec

\* A session belongs to the client it was given to: DELETE FROM sessions of a logout,
\* of an expired look-up and of a disabling take no other client's, so that a cookie
\* works until its session ends, its client logs out or its user is disabled.
THEOREM SessionsCorrect == Spec => []SessionsWork
<1>1. GivenInv => SessionsWork
  BY DEF GivenInv, WorksInv, Works, SessionsWork
<1> QED BY <1>1, GivenAlways, PTL

\* The look of Register at the address decides nothing: the INSERT that meets no row
\* is the one registration that gets a session, however many looked before it.
THEOREM RegisteredCorrect == Spec => []RegisteredOnce
<1>1. GivenInv => RegisteredOnce
  BY DEF GivenInv, NewInv, Known, RegisteredOnce
<1> QED BY <1>1, GivenAlways, PTL

-----------------------------------------------------------------------------
(* The limiter. *)

\* Window e ticks old in which a counter stands at n: what it let through since the
\* window began, and what is left of the window before, without its beginning. If the
\* attempt that opened the window was not let through (Redis counted it and did not
\* answer), one more is missing.
WindowOpen(p, e, n) ==
    /\ e \in Ages /\ n \in Nat \ {0}
    /\ SumOf(p, 0..e) <= n /\ SumOf(p, 0..e) <= Limit
    /\ p[e] = 0 => SumOf(p, 0..e) < n /\ SumOf(p, 0..e) < Limit
    /\ SumOf(p, e + 1..Window - 1) <= Limit - 1

\* Between windows.
WindowClosed(p) == p[0] = 0 /\ SumOf(p, Ages) <= Limit - 1

Noting == [Ages -> Nat]

LEMMA AgesFinite ==
    /\ Window \in Nat \ {0} /\ Limit \in Nat \ {0} /\ Redis \notin Instances
    /\ Ages = 0..Window - 1 /\ 0 \in Ages
    /\ \A a, b \in Int : IsFiniteSet(a..b)
    /\ \A e \in Ages : e \in Nat /\ e < Window /\ 0..e \subseteq Ages /\ e + 1..Window - 1 \subseteq Ages
BY RateAssumption, FS_Interval DEF RateAssumption, Ages

\* Sums of noted attempts are naturals.
LEMMA NotedSums ==
    ASSUME NEW p \in Noting, NEW a \in Int, NEW b \in Int, a..b \subseteq Ages
    PROVE  SumOf(p, a..b) \in Nat
<1>1. \A x \in a..b : p[x] \in Nat
  BY DEF Noting
<1> QED BY <1>1, AgesFinite, SumNat

\* The window and the rest before it.
LEMMA TwoWindows ==
    ASSUME NEW p \in Noting, NEW e \in Ages
    PROVE  SumOf(p, Ages) = SumOf(p, 0..e) + SumOf(p, e + 1..Window - 1)
<1>1. /\ e \in Nat /\ e < Window /\ Window \in Nat
      /\ 0..e \subseteq Ages /\ e + 1..Window - 1 \subseteq Ages
  BY AgesFinite
<1>2. (0..e) \cup (e + 1..Window - 1) = Ages /\ (0..e) \cap (e + 1..Window - 1) = {}
  BY <1>1 DEF Ages
<1>3. \A x \in (0..e) \cup (e + 1..Window - 1) : p[x] \in Int
  BY <1>2 DEF Noting
<1>4. IsFiniteSet(0..e) /\ IsFiniteSet(e + 1..Window - 1)
  BY <1>1, FS_Interval
<1>5. SumOf(p, (0..e) \cup (e + 1..Window - 1)) = SumOf(p, 0..e) + SumOf(p, e + 1..Window - 1)
  BY <1>2, <1>3, <1>4, SumUnion
<1> QED BY <1>2, <1>5

\* Less than twice the limit.
LEMMA WindowsBounded ==
    ASSUME NEW p \in Noting, WindowClosed(p) \/ \E e, n : WindowOpen(p, e, n)
    PROVE  SumOf(p, Ages) <= 2 * Limit - 1
<1>1. Limit \in Nat \ {0} /\ Window \in Nat /\ Ages = 0..Window - 1
  BY AgesFinite
<1>2. SumOf(p, Ages) \in Nat
  <2>1. 0 \in Int /\ Window - 1 \in Int /\ 0..Window - 1 \subseteq Ages
    BY <1>1
  <2> QED BY <1>1, <2>1, NotedSums
<1>3. CASE WindowClosed(p)
  BY <1>1, <1>2, <1>3 DEF WindowClosed
<1>4. CASE \E e, n : WindowOpen(p, e, n)
  <2>1. PICK e, n : WindowOpen(p, e, n)
    BY <1>4
  <2>2. e \in Ages
    BY <2>1 DEF WindowOpen
  <2>3. PICK y, o : y = SumOf(p, 0..e) /\ o = SumOf(p, e + 1..Window - 1)
    OBVIOUS
  <2>4. y \in Nat /\ o \in Nat
    <3>1. /\ 0 \in Int /\ e \in Int /\ e + 1 \in Int /\ Window - 1 \in Int
          /\ 0..e \subseteq Ages /\ e + 1..Window - 1 \subseteq Ages
      BY <2>2, AgesFinite
    <3> QED BY <2>3, <3>1, NotedSums
  <2>5. SumOf(p, Ages) = y + o
    BY <2>2, <2>3, TwoWindows
  <2>6. y <= Limit /\ o <= Limit - 1
    BY <2>1, <2>3 DEF WindowOpen
  <2> QED BY <1>1, <2>4, <2>5, <2>6
<1> QED BY <1>3, <1>4

\* An attempt is let through.
Passes(p, q) == q = [p EXCEPT ![0] = @ + 1]

LEMMA PassAdds ==
    ASSUME NEW p \in Noting, NEW q, Passes(p, q), NEW e \in Ages
    PROVE  /\ q \in Noting /\ q[0] = p[0] + 1
           /\ SumOf(q, 0..e) = SumOf(p, 0..e) + 1
           /\ SumOf(q, e + 1..Window - 1) = SumOf(p, e + 1..Window - 1)
           /\ q[e] = IF e = 0 THEN p[0] + 1 ELSE p[e]
<1>1. /\ q \in Noting /\ q[0] = p[0] + 1 /\ \A a \in Ages \ {0} : q[a] = p[a]
      /\ p[0] \in Nat
  BY AgesFinite DEF Noting, Passes
<1>2. /\ e \in Nat /\ 0..e \subseteq Ages /\ e + 1..Window - 1 \subseteq Ages
      /\ Window \in Nat
  BY AgesFinite
<1>3. IsFiniteSet(0..e) /\ 0 \in 0..e /\ IsFiniteSet(e + 1..Window - 1)
  BY <1>2, FS_Interval
<1>4. /\ \A x \in 0..e : p[x] \in Int /\ q[x] \in Int
      /\ \A x \in (0..e) \ {0} : q[x] = p[x]
  BY <1>1, <1>2 DEF Noting
<1>5. SumOf(q, 0..e) = SumOf(p, 0..e) - p[0] + q[0] /\ SumOf(p, 0..e) \in Int
  <2>1. \A x \in 0..e : p[x] \in Int /\ q[x] \in Int
    BY <1>4
  <2>2. \A x \in (0..e) \ {0} : q[x] = p[x]
    BY <1>4
  <2>3. PICK S : S = 0..e
    OBVIOUS
  <2>4. IsFiniteSet(S) /\ 0 \in S
    BY <1>3, <2>3
  <2>5. \A x \in S : p[x] \in Int /\ q[x] \in Int
    BY <2>1, <2>3
  <2>6. \A x \in S \ {0} : q[x] = p[x]
    BY <2>2, <2>3
  <2>7. SumOf(q, S) = SumOf(p, S) - p[0] + q[0] /\ SumOf(p, S) \in Int
    BY <2>4, <2>5, <2>6, SumChange
  <2> QED BY <2>3, <2>7
<1>6. SumOf(q, e + 1..Window - 1) = SumOf(p, e + 1..Window - 1)
  <2>1. \A x \in e + 1..Window - 1 : q[x] = p[x]
    BY <1>1, <1>2
  <2> QED BY <1>3, <2>1, SumSame
<1>7. SumOf(q, 0..e) = SumOf(p, 0..e) + 1
  BY <1>1, <1>5
<1>8. q[e] = IF e = 0 THEN p[0] + 1 ELSE p[e]
  BY <1>1
<1> QED BY <1>1, <1>6, <1>7, <1>8

LEMMA WindowOpens ==
    ASSUME NEW p \in Noting, WindowClosed(p)
    PROVE  /\ WindowOpen(p, 0, 1)
           /\ \A q : Passes(p, q) => WindowOpen(q, 0, 1)
<1>1. /\ 0 \in Ages /\ Limit \in Nat \ {0} /\ p[0] = 0 /\ SumOf(p, Ages) <= Limit - 1
  BY AgesFinite DEF WindowClosed
<1>2. SumOf(p, 0..0) = 0
  <2>1. IsFiniteSet(0..0)
    <3>1. 0..0 = {0}
      OBVIOUS
    <3> QED BY <3>1, FS_Singleton
  <2>2. PICK S : S = 0..0
    OBVIOUS
  <2>3. IsFiniteSet(S) /\ \A x \in S : p[x] = 0
    BY <1>1, <2>1, <2>2
  <2>4. SumOf(p, S) = 0
    BY <2>3, SumZero
  <2> QED BY <2>2, <2>4
<1>3. SumOf(p, 0 + 1..Window - 1) <= Limit - 1
  <2>1. PICK o : o = SumOf(p, 0 + 1..Window - 1)
    OBVIOUS
  <2>2. SumOf(p, Ages) = SumOf(p, 0..0) + o
    BY <1>1, <2>1, TwoWindows
  <2>3. o \in Nat
    <3>1. 0 + 1 \in Int /\ Window - 1 \in Int /\ 0 + 1..Window - 1 \subseteq Ages
      BY AgesFinite
    <3> QED BY <2>1, <3>1, NotedSums
  <2> QED BY <1>1, <1>2, <2>1, <2>2, <2>3
<1>5. ASSUME NEW q, Passes(p, q)
      PROVE  /\ SumOf(q, 0..0) = 1 /\ q[0] = 1
             /\ SumOf(q, 0 + 1..Window - 1) = SumOf(p, 0 + 1..Window - 1)
  <2>1. SumOf(q, 0..0) = SumOf(p, 0..0) + 1 /\ q[0] = p[0] + 1
    BY <1>1, <1>5, PassAdds
  <2>2. SumOf(q, 0 + 1..Window - 1) = SumOf(p, 0 + 1..Window - 1)
    BY <1>1, <1>5, PassAdds
  <2> QED BY <1>1, <1>2, <2>1, <2>2
<1>6. WindowOpen(p, 0, 1)
  BY <1>1, <1>2, <1>3 DEF WindowOpen
<1>7. ASSUME NEW q, Passes(p, q) PROVE WindowOpen(q, 0, 1)
  <2>1. /\ SumOf(q, 0..0) = 1 /\ q[0] = 1
        /\ SumOf(q, 0 + 1..Window - 1) = SumOf(p, 0 + 1..Window - 1)
    BY <1>5, <1>7
  <2> QED BY <1>1, <1>3, <2>1 DEF WindowOpen
<1> QED BY <1>6, <1>7

LEMMA WindowPasses ==
    ASSUME NEW p \in Noting, NEW e, NEW n, WindowOpen(p, e, n), n < Limit,
           NEW q, Passes(p, q)
    PROVE  WindowOpen(q, e, n + 1)
<1>1. /\ e \in Ages /\ n \in Nat \ {0}
      /\ SumOf(p, 0..e) <= n /\ SumOf(p, 0..e) <= Limit
      /\ p[e] = 0 => SumOf(p, 0..e) < n /\ SumOf(p, 0..e) < Limit
      /\ SumOf(p, e + 1..Window - 1) <= Limit - 1
  BY DEF WindowOpen
<1>3. /\ SumOf(q, 0..e) = SumOf(p, 0..e) + 1
      /\ SumOf(q, e + 1..Window - 1) = SumOf(p, e + 1..Window - 1)
      /\ q[e] = IF e = 0 THEN p[0] + 1 ELSE p[e]
  BY <1>1, PassAdds
<1>4. SumOf(p, 0..e) \in Nat /\ p[0] \in Nat /\ Limit \in Nat
  <2>1. 0 \in Int /\ e \in Int /\ 0..e \subseteq Ages
    BY <1>1, AgesFinite
  <2> QED BY <2>1, AgesFinite, NotedSums DEF Noting
<1>5. q[e] = 0 => p[e] = 0
  BY <1>3, <1>4
<1>6. WindowOpen(q, e, n + 1)
  BY <1>1, <1>3, <1>4, <1>5 DEF WindowOpen
<1> QED BY <1>6

\* It is not, and the counter may count it all the same.
LEMMA WindowRefuses ==
    ASSUME NEW p \in Noting, NEW e, NEW n, WindowOpen(p, e, n), NEW m \in Nat, n <= m
    PROVE  WindowOpen(p, e, m)
<1>1. SumOf(p, 0..e) \in Nat
  <2>1. 0 \in Int /\ e \in Int /\ 0..e \subseteq Ages
    BY AgesFinite DEF WindowOpen
  <2> QED BY <2>1, NotedSums
<1> QED BY <1>1 DEF WindowOpen

\* A tick.
Aged(p) == [a \in Ages |-> IF a = 0 THEN 0 ELSE p[a - 1]]

LEMMA AgedFacts ==
    ASSUME NEW p \in Noting
    PROVE  /\ Aged(p) \in Noting /\ Aged(p)[0] = 0
           /\ \A a \in Ages : a + 1 \in Ages => Aged(p)[a + 1] = p[a]
<1>1. \A a \in Ages \ {0} : a - 1 \in Ages
  BY AgesFinite DEF Ages
<1> QED BY <1>1, AgesFinite DEF Aged, Noting

\* Attempts move on by a tick.
LEMMA AgedSums ==
    ASSUME NEW p \in Noting, NEW a \in Nat, NEW b \in Nat, a <= b, b + 1 \in Ages
    PROVE  /\ SumOf(Aged(p), a + 1..b + 1) = SumOf(p, a..b)
           /\ SumOf(Aged(p), 0..b + 1) = SumOf(p, 0..b)
<1>1. PICK q : q = Aged(p)
  OBVIOUS
<1>2. q \in Noting /\ q[0] = 0 /\ \A c \in Ages : c + 1 \in Ages => q[c + 1] = p[c]
  BY <1>1, AgedFacts
<1>3. \A c \in 0..b : c \in Ages /\ c + 1 \in Ages /\ p[c] \in Int /\ q[c + 1] = p[c]
  <2>1. \A c \in 0..b : c \in Ages /\ c + 1 \in Ages
    BY AgesFinite DEF Ages
  <2> QED BY <1>2, <2>1 DEF Noting
<1>4. ASSUME NEW c \in Nat, c <= b PROVE SumOf(q, c + 1..b + 1) = SumOf(p, c..b)
  <2>1. PICK n \in Nat : b = c + n
    <3>1. b - c \in Nat /\ b = c + (b - c)
      BY <1>4
    <3> QED BY <3>1
  <2>2. \A k \in c..c + n : p[k] \in Int /\ q[k + 1] = p[k]
    BY <1>3, <2>1
  <2>3. SumOf(q, c + 1..c + n + 1) = SumOf(p, c..c + n)
    <3>1. c \in Int /\ n \in Nat
      BY <1>4
    <3> QED BY <2>2, <3>1, SumMoved
  <2> QED BY <2>1, <2>3
<1>5. SumOf(q, a + 1..b + 1) = SumOf(p, a..b)
  BY <1>4
<1>6. SumOf(q, 0..b + 1) = SumOf(p, 0..b)
  <2>1. SumOf(q, 0 + 1..b + 1) = SumOf(p, 0..b)
    BY <1>4
  <2>2. 0..b + 1 = (0 + 1..b + 1) \cup {0} /\ 0 \notin 0 + 1..b + 1 /\ IsFiniteSet(0 + 1..b + 1)
    BY FS_Interval
  <2>3. \A x \in (0 + 1..b + 1) \cup {0} : q[x] \in Int
    <3>1. 0..b + 1 \subseteq Ages
      BY AgesFinite DEF Ages
    <3> QED BY <1>2, <2>2, <3>1 DEF Noting
  <2>4. SumOf(q, (0 + 1..b + 1) \cup {0}) = q[0] + SumOf(q, 0 + 1..b + 1)
    BY <2>2, <2>3, SumAdd
  <2>5. SumOf(q, 0 + 1..b + 1) \in Int
    BY <2>2, <2>3, SumType
  <2>6. SumOf(q, 0..b + 1) = q[0] + SumOf(q, 0 + 1..b + 1)
    BY <2>2, <2>4
  <2> QED BY <1>2, <2>1, <2>5, <2>6
<1> QED BY <1>1, <1>5, <1>6

LEMMA ClosedTicks ==
    ASSUME NEW p \in Noting, WindowClosed(p)
    PROVE  WindowClosed(Aged(p))
<1>1. PICK q : q = Aged(p)
  OBVIOUS
<1>2. /\ q \in Noting /\ q[0] = 0
      /\ Window \in Nat \ {0} /\ Limit \in Nat \ {0} /\ Ages = 0..Window - 1
      /\ SumOf(p, Ages) <= Limit - 1
  BY <1>1, AgedFacts, AgesFinite DEF WindowClosed
<1>3. CASE Window = 1
  <2>1. Ages = {0} /\ IsFiniteSet(Ages) /\ \A x \in Ages : q[x] = 0
    <3>1. Ages = {0}
      BY <1>2, <1>3
    <3>2. IsFiniteSet({0})
      BY FS_Singleton
    <3>3. \A x \in {0} : q[x] = 0
      BY <1>2
    <3> QED BY <3>1, <3>2, <3>3
  <2>2. SumOf(q, Ages) = 0
    BY <2>1, SumZero
  <2> QED BY <1>1, <1>2, <2>2 DEF WindowClosed
<1>4. CASE Window # 1
  <2>1. PICK b \in Nat : Window = b + 2
    <3>1. Window - 2 \in Nat /\ Window = (Window - 2) + 2
      BY <1>2, <1>4
    <3> QED BY <3>1
  <2>2. b + 1 \in Ages /\ 0 \in Nat /\ 0 <= b /\ Ages = 0..b + 1
    BY <1>2, <2>1
  <2>3. SumOf(q, 0..b + 1) = SumOf(p, 0..b)
    BY <1>1, <2>2, AgedSums
  <2>4. PICK R : R = 0..b
    OBVIOUS
  <2>5. IsFiniteSet(Ages) /\ R \in SUBSET Ages /\ \A x \in Ages : p[x] \in Nat
    <3>1. IsFiniteSet(0..b + 1)
      BY FS_Interval
    <3>2. Ages = 0..b + 1 /\ R \in SUBSET Ages
      BY <2>2, <2>4
    <3>3. \A x \in Ages : p[x] \in Nat
      BY DEF Noting
    <3> QED BY <3>1, <3>2, <3>3
  <2>6. SumOf(p, R) <= SumOf(p, Ages)
    BY <2>5, SumPart
  <2>7. SumOf(p, R) \in Nat /\ SumOf(p, Ages) \in Nat
    <3>1. IsFiniteSet(R) /\ \A x \in R : p[x] \in Nat
      BY <2>5, FS_Subset
    <3> QED BY <2>5, <3>1, SumNat
  <2>8. SumOf(q, Ages) = SumOf(p, R)
    BY <2>2, <2>3, <2>4
  <2> QED BY <1>1, <1>2, <2>6, <2>7, <2>8 DEF WindowClosed
<1> QED BY <1>3, <1>4

\* The window goes on.
LEMMA OpenTicks ==
    ASSUME NEW p \in Noting, NEW e, NEW n, WindowOpen(p, e, n), e + 1 \in Ages
    PROVE  WindowOpen(Aged(p), e + 1, n)
<1>1. PICK q : q = Aged(p)
  OBVIOUS
<1>2. /\ e \in Ages /\ e \in Nat /\ e + 1 < Window /\ n \in Nat \ {0}
      /\ Window \in Nat \ {0} /\ Limit \in Nat \ {0} /\ Ages = 0..Window - 1
      /\ SumOf(p, 0..e) <= n /\ SumOf(p, 0..e) <= Limit
      /\ p[e] = 0 => SumOf(p, 0..e) < n /\ SumOf(p, 0..e) < Limit
      /\ SumOf(p, e + 1..Window - 1) <= Limit - 1
  BY AgesFinite DEF WindowOpen
<1>3. q[e + 1] = p[e]
  BY <1>1, <1>2, AgedFacts
<1>4. SumOf(q, 0..e + 1) = SumOf(p, 0..e)
  <2>1. 0 \in Nat /\ 0 <= e
    BY <1>2
  <2> QED BY <1>1, <1>2, <2>1, AgedSums
<1>5. SumOf(q, (e + 1) + 1..Window - 1) <= Limit - 1
  <2>1. CASE e + 2 = Window
    <3>1. (e + 1) + 1..Window - 1 = {}
      BY <1>2, <2>1
    <3>2. SumOf(q, {}) = 0
      BY SumEmpty
    <3> QED BY <1>2, <3>1, <3>2
  <2>2. CASE e + 2 # Window
    <3>1. PICK b \in Nat : Window = b + 2 /\ e + 1 <= b
      <4>1. Window - 2 \in Nat /\ Window = (Window - 2) + 2 /\ e + 1 <= Window - 2
        BY <1>2, <2>2
      <4> QED BY <4>1
    <3>2. b + 1 \in Ages /\ e + 1 \in Nat
      BY <1>2, <3>1
    <3>3. SumOf(q, (e + 1) + 1..b + 1) = SumOf(p, e + 1..b)
      BY <1>1, <3>1, <3>2, AgedSums
    <3>4. PICK R, S : R = e + 1..b /\ S = e + 1..Window - 1
      OBVIOUS
    <3>5. IsFiniteSet(S) /\ R \in SUBSET S /\ \A x \in S : p[x] \in Nat
      <4>1. S \subseteq Ages
        BY <1>2, <3>4
      <4>2. IsFiniteSet(e + 1..Window - 1)
        BY AgesFinite, <1>2
      <4>3. R \in SUBSET S
        BY <1>2, <3>1, <3>4
      <4>4. \A x \in S : p[x] \in Nat
        BY <4>1 DEF Noting
      <4> QED BY <3>4, <4>2, <4>3, <4>4
    <3>6. SumOf(p, R) <= SumOf(p, S)
      BY <3>5, SumPart
    <3>7. SumOf(p, R) \in Nat /\ SumOf(p, S) \in Nat
      <4>1. IsFiniteSet(R) /\ \A x \in R : p[x] \in Nat
        BY <3>5, FS_Subset
      <4> QED BY <3>5, <4>1, SumNat
    <3>8. SumOf(q, (e + 1) + 1..Window - 1) = SumOf(p, R)
      <4>1. Window - 1 = b + 1
        BY <3>1
      <4> QED BY <3>3, <3>4, <4>1
    <3>9. SumOf(p, S) <= Limit - 1
      BY <1>2, <3>4
    <3> QED BY <1>2, <3>6, <3>7, <3>8, <3>9
  <2> QED BY <2>1, <2>2
<1> QED BY <1>1, <1>2, <1>3, <1>4, <1>5 DEF WindowOpen

\* The window ends: its first tick, too, is no longer counted.
LEMMA LastTick ==
    ASSUME NEW p \in Noting, NEW n, WindowOpen(p, Window - 1, n)
    PROVE  WindowClosed(Aged(p))
<1>1. PICK q : q = Aged(p)
  OBVIOUS
<1>2. /\ q \in Noting /\ q[0] = 0
      /\ Window \in Nat \ {0} /\ Limit \in Nat \ {0} /\ Ages = 0..Window - 1
  BY <1>1, AgedFacts, AgesFinite
<1>3. CASE Window = 1
  <2>1. Ages = {0} /\ IsFiniteSet(Ages) /\ \A x \in Ages : q[x] = 0
    <3>1. Ages = {0}
      BY <1>2, <1>3
    <3>2. IsFiniteSet({0})
      BY FS_Singleton
    <3>3. \A x \in {0} : q[x] = 0
      BY <1>2
    <3> QED BY <3>1, <3>2, <3>3
  <2>2. SumOf(q, Ages) = 0
    BY <2>1, SumZero
  <2> QED BY <1>1, <1>2, <2>2 DEF WindowClosed
<1>4. CASE Window # 1
  <2>1. PICK b \in Nat : Window = b + 2
    <3>1. Window - 2 \in Nat /\ Window = (Window - 2) + 2
      BY <1>2, <1>4
    <3> QED BY <3>1
  <2>2. b + 1 \in Ages /\ 0 \in Nat /\ 0 <= b /\ Ages = 0..b + 1 /\ Window - 1 = b + 1
    BY <1>2, <2>1
  <2>3. SumOf(q, 0..b + 1) = SumOf(p, 0..b)
    BY <1>1, <2>2, AgedSums
  <2>4. \A k \in 0..b + 1 : p[k] \in Nat
    BY <2>2 DEF Noting
  <2>5. SumOf(p, 0..b + 1) = SumOf(p, 0..b) + p[b + 1]
    <3>1. 0 \in Int /\ b \in Int /\ 0 <= b + 1 /\ \A k \in 0..b + 1 : p[k] \in Int
      BY <2>2, <2>4
    <3> QED BY <3>1, SumUpTo
  <2>6. SumOf(p, 0..b) \in Nat
    <3>1. 0 \in Int /\ b \in Int /\ 0..b \subseteq Ages
      BY <2>2
    <3> QED BY <3>1, NotedSums
  <2>7. p[b + 1] \in Nat
    BY <2>2, <2>4
  <2>8. /\ SumOf(p, 0..b + 1) <= Limit
        /\ p[b + 1] = 0 => SumOf(p, 0..b + 1) < Limit
    BY <2>2 DEF WindowOpen
  <2>9. SumOf(p, 0..b) <= Limit - 1
    BY <1>2, <2>5, <2>6, <2>7, <2>8
  <2>10. SumOf(q, Ages) <= Limit - 1
    BY <2>2, <2>3, <2>9
  <2> QED BY <1>1, <1>2, <2>10 DEF WindowClosed
<1> QED BY <1>3, <1>4

\* The two counters and their windows.
SharedWindow(s, p) ==
    IF s.left = 0 THEN WindowClosed(p) ELSE WindowOpen(p, Window - s.left, s.count)

LocalWindow(en, now, p) ==
    IF en.count = 0 \/ now - en.since >= Window
    THEN WindowClosed(p)
    ELSE WindowOpen(p, now - en.since, en.count)

SharedTyped(s) == s \in [count : Nat, left : 0..Window]
EntryTyped(en, now) ==
    en \in [count : Nat, since : Nat] /\ en.count <= Limit /\ en.since <= now

\* INCR, let through if the count allows it; of an attempt that Redis does not answer
\* nothing is known.
Incremented(s) == IF s.left = 0 THEN [count |-> 1, left |-> Window]
                                ELSE [s EXCEPT !.count = @ + 1]

MayPass(p, q, t) == q = p \/ (Passes(p, q) /\ t.count <= Limit)

LEMMA SharedCounts ==
    ASSUME NEW s, SharedTyped(s), NEW t, t = Incremented(s),
           NEW p \in Noting, NEW q, MayPass(p, q, t)
    PROVE  /\ SharedTyped(t)
           /\ SharedWindow(s, p) => SharedWindow(t, q)
<1>1. Window \in Nat \ {0} /\ Limit \in Nat \ {0}
  BY AgesFinite
<1>2. s.left \in 0..Window /\ s.count \in Nat
  BY DEF SharedTyped
<1>3. CASE s.left = 0
  <2>1. t = [count |-> 1, left |-> Window]
    BY <1>3 DEF Incremented
  <2>2. t.count = 1 /\ t.left = Window /\ SharedTyped(t)
    BY <1>1, <2>1 DEF SharedTyped
  <2>3. ASSUME SharedWindow(s, p) PROVE SharedWindow(t, q)
    <3>1. WindowClosed(p)
      BY <1>3, <2>3 DEF SharedWindow
    <3>2. WindowOpen(q, 0, 1)
      BY <3>1, WindowOpens DEF MayPass
    <3>3. Window - t.left = 0 /\ t.left # 0
      BY <1>1, <2>2
    <3> QED BY <2>2, <3>2, <3>3 DEF SharedWindow
  <2> QED BY <2>2, <2>3
<1>4. CASE s.left # 0
  <2>1. t.count = s.count + 1 /\ t.left = s.left /\ SharedTyped(t)
    <3>1. t = [s EXCEPT !.count = @ + 1]
      BY <1>4 DEF Incremented
    <3> QED BY <1>2, <3>1 DEF SharedTyped
  <2>2. ASSUME SharedWindow(s, p) PROVE SharedWindow(t, q)
    <3>1. PICK e : e = Window - s.left
      OBVIOUS
    <3>2. WindowOpen(p, e, s.count)
      BY <1>4, <2>2, <3>1 DEF SharedWindow
    <3>3. WindowOpen(q, e, s.count + 1)
      <4>1. CASE q = p
        <5>1. s.count + 1 \in Nat /\ s.count <= s.count + 1
          BY <1>2
        <5> QED BY <3>2, <4>1, <5>1, WindowRefuses
      <4>2. CASE Passes(p, q) /\ t.count <= Limit
        <5>1. s.count < Limit
          BY <1>1, <1>2, <2>1, <4>2
        <5> QED BY <3>2, <4>2, <5>1, WindowPasses
      <4> QED BY <4>1, <4>2 DEF MayPass
    <3> QED BY <1>4, <2>1, <3>1, <3>3 DEF SharedWindow
  <2> QED BY <2>1, <2>2
<1> QED BY <1>3, <1>4

\* The counter of an instance.
LEMMA LocalCounts ==
    ASSUME NEW now \in Nat, NEW en, EntryTyped(en, now),
           NEW over \in BOOLEAN, over <=> en.count = 0 \/ now - en.since >= Window,
           NEW f, f = IF over THEN [count |-> 1, since |-> now]
                              ELSE [en EXCEPT !.count = Min({@ + 1, Limit})],
           NEW p \in Noting, NEW q,
           IF over \/ en.count < Limit THEN Passes(p, q) ELSE q = p
    PROVE  /\ EntryTyped(f, now)
           /\ LocalWindow(en, now, p) => LocalWindow(f, now, q)
<1>1. Window \in Nat \ {0} /\ Limit \in Nat \ {0}
  BY AgesFinite
<1>2. en.count \in Nat /\ en.since \in Nat /\ en.count <= Limit /\ en.since <= now
  BY DEF EntryTyped
<1>3. CASE over
  <2>1. f = [count |-> 1, since |-> now]
    BY <1>3
  <2>2. f.count = 1 /\ f.since = now /\ EntryTyped(f, now)
    BY <1>1, <2>1 DEF EntryTyped
  <2>3. ASSUME LocalWindow(en, now, p) PROVE LocalWindow(f, now, q)
    <3>1. WindowClosed(p)
      BY <1>3, <2>3 DEF LocalWindow
    <3>2. WindowOpen(q, 0, 1)
      BY <1>3, <3>1, WindowOpens
    <3>3. now - f.since = 0 /\ ~(f.count = 0 \/ now - f.since >= Window)
      BY <1>1, <2>2
    <3> QED BY <2>2, <3>2, <3>3 DEF LocalWindow
  <2> QED BY <2>2, <2>3
<1>4. CASE ~over
  <2>1. PICK m : m = Min({en.count + 1, Limit})
    OBVIOUS
  <2>2. m \in Nat \ {0} /\ m <= Limit /\ (en.count < Limit => m = en.count + 1)
                        /\ (~(en.count < Limit) => m = en.count)
    <3>1. {en.count + 1, Limit} \in SUBSET Nat /\ {en.count + 1, Limit} # {}
      BY <1>1, <1>2
    <3>2. m \in {en.count + 1, Limit} /\ \A k \in {en.count + 1, Limit} : m <= k
      BY <2>1, <3>1, LeastMember
    <3> QED BY <1>1, <1>2, <3>2
  <2>3. f = [en EXCEPT !.count = m]
    BY <1>4, <2>1
  <2>4. f.count = m /\ f.since = en.since /\ EntryTyped(f, now)
    BY <1>2, <2>2, <2>3 DEF EntryTyped
  <2>5. ASSUME LocalWindow(en, now, p) PROVE LocalWindow(f, now, q)
    <3>1. PICK e : e = now - en.since
      OBVIOUS
    <3>2. WindowOpen(p, e, en.count)
      BY <1>4, <2>5, <3>1 DEF LocalWindow
    <3>3. WindowOpen(q, e, m)
      <4>1. CASE en.count < Limit
        <5>1. Passes(p, q) /\ m = en.count + 1
          BY <2>2, <4>1
        <5>2. WindowOpen(q, e, en.count + 1)
          BY <3>2, <4>1, <5>1, WindowPasses
        <5> QED BY <5>1, <5>2
      <4>2. CASE ~(en.count < Limit)
        <5>1. q = p /\ m = en.count
          BY <1>4, <2>2, <4>2
        <5> QED BY <3>2, <5>1
      <4> QED BY <4>1, <4>2
    <3>4. ~(f.count = 0 \/ now - f.since >= Window)
      BY <1>4, <2>2, <2>4
    <3>5. now - f.since = e /\ f.count = m
      BY <2>4, <3>1
    <3> QED BY <3>3, <3>4, <3>5 DEF LocalWindow
  <2> QED BY <2>4, <2>5
<1> QED BY <1>3, <1>4

\* A tick of either.
LEMMA SharedTicks ==
    ASSUME NEW s, SharedTyped(s), NEW p \in Noting,
           NEW t, t = IF s.left <= 1 THEN [count |-> 0, left |-> 0]
                                     ELSE [s EXCEPT !.left = @ - 1]
    PROVE  /\ SharedTyped(t)
           /\ SharedWindow(s, p) => SharedWindow(t, Aged(p))
<1>1. Window \in Nat \ {0} /\ Ages = 0..Window - 1
  BY AgesFinite
<1>2. s.left \in 0..Window /\ s.count \in Nat
  BY DEF SharedTyped
<1>3. CASE s.left <= 1
  <2>1. t = [count |-> 0, left |-> 0]
    BY <1>3
  <2>2. t.left = 0 /\ SharedTyped(t)
    BY <1>1, <2>1 DEF SharedTyped
  <2>3. ASSUME SharedWindow(s, p) PROVE WindowClosed(Aged(p))
    <3>1. CASE s.left = 0
      BY <2>3, <3>1, ClosedTicks DEF SharedWindow
    <3>2. CASE s.left = 1
      <4>1. WindowOpen(p, Window - 1, s.count)
        BY <2>3, <3>2 DEF SharedWindow
      <4> QED BY <4>1, LastTick
    <3> QED BY <1>2, <1>3, <3>1, <3>2
  <2> QED BY <2>2, <2>3 DEF SharedWindow
<1>4. CASE ~(s.left <= 1)
  <2>1. t.left = s.left - 1 /\ t.count = s.count /\ SharedTyped(t)
    <3>1. t = [s EXCEPT !.left = @ - 1]
      BY <1>4
    <3>2. s.left - 1 \in 0..Window
      BY <1>1, <1>2, <1>4
    <3> QED BY <1>2, <3>1, <3>2 DEF SharedTyped
  <2>2. ASSUME SharedWindow(s, p) PROVE SharedWindow(t, Aged(p))
    <3>1. PICK e : e = Window - s.left
      OBVIOUS
    <3>2. WindowOpen(p, e, s.count)
      <4>1. s.left # 0
        BY <1>2, <1>4
      <4> QED BY <2>2, <3>1, <4>1 DEF SharedWindow
    <3>3. e + 1 \in Ages /\ Window - t.left = e + 1 /\ t.left # 0
      BY <1>1, <1>2, <1>4, <2>1, <3>1
    <3>4. WindowOpen(Aged(p), e + 1, s.count)
      BY <3>2, <3>3, OpenTicks
    <3> QED BY <2>1, <3>3, <3>4 DEF SharedWindow
  <2> QED BY <2>1, <2>2
<1> QED BY <1>3, <1>4

LEMMA LocalTicks ==
    ASSUME NEW now \in Nat, NEW en, EntryTyped(en, now), NEW p \in Noting
    PROVE  /\ EntryTyped(en, now + 1)
           /\ LocalWindow(en, now, p) => LocalWindow(en, now + 1, Aged(p))
<1>1. Window \in Nat \ {0} /\ Ages = 0..Window - 1
  BY AgesFinite
<1>2. en.count \in Nat /\ en.since \in Nat /\ en.count <= Limit /\ en.since <= now
  BY DEF EntryTyped
<1>3. EntryTyped(en, now + 1)
  BY <1>2 DEF EntryTyped
<1>4. ASSUME LocalWindow(en, now, p) PROVE LocalWindow(en, now + 1, Aged(p))
  <2>1. CASE en.count = 0 \/ now - en.since >= Window
    <3>1. WindowClosed(p)
      BY <1>4, <2>1 DEF LocalWindow
    <3>2. WindowClosed(Aged(p))
      BY <3>1, ClosedTicks
    <3>3. en.count = 0 \/ (now + 1) - en.since >= Window
      BY <1>1, <1>2, <2>1
    <3> QED BY <3>2, <3>3 DEF LocalWindow
  <2>2. CASE ~(en.count = 0 \/ now - en.since >= Window)
    <3>1. PICK e : e = now - en.since
      OBVIOUS
    <3>2. WindowOpen(p, e, en.count) /\ e \in Nat /\ e < Window
      BY <1>1, <1>2, <1>4, <2>2, <3>1 DEF LocalWindow
    <3>3. (now + 1) - en.since = e + 1
      BY <1>2, <3>1
    <3>4. CASE e + 1 = Window
      <4>1. e = Window - 1
        BY <1>1, <3>2, <3>4
      <4>2. WindowClosed(Aged(p))
        BY <3>2, <4>1, LastTick
      <4>3. (now + 1) - en.since >= Window
        BY <1>1, <3>3, <3>4
      <4> QED BY <4>2, <4>3 DEF LocalWindow
    <3>5. CASE e + 1 # Window
      <4>1. e + 1 \in Ages
        BY <1>1, <3>2, <3>5
      <4>2. WindowOpen(Aged(p), e + 1, en.count)
        BY <3>2, <4>1, OpenTicks
      <4>3. ~(en.count = 0 \/ (now + 1) - en.since >= Window)
        BY <1>1, <2>2, <3>2, <3>3, <3>5
      <4> QED BY <3>3, <4>2, <4>3 DEF LocalWindow
    <3> QED BY <3>4, <3>5
  <2> QED BY <2>1, <2>2
<1> QED BY <1>3, <1>4

\* The counters are what the attempts they let through allow.
RateTyped ==
    /\ clock \in Nat
    /\ passed \in [Instances \cup {Redis} -> Noting]
    /\ SharedTyped(shared)
    /\ DOMAIN local = Instances /\ \A i \in Instances : EntryTyped(local[i], clock)

WindowsInv ==
    /\ Redis \notin emptied => SharedWindow(shared, passed[Redis])
    /\ \A i \in Instances \ emptied : LocalWindow(local[i], clock, passed[i])

RateInv == RateTyped /\ WindowsInv

LEMMA RateInitially == RateInit => RateInv
<1> SUFFICES ASSUME RateInit PROVE RateInv
  OBVIOUS
<1>1. PICK z : z = [a \in Ages |-> 0]
  OBVIOUS
<1>2. z \in Noting /\ WindowClosed(z)
  <2>1. z \in Noting /\ \A a \in Ages : z[a] = 0
    BY <1>1 DEF Noting
  <2>2. IsFiniteSet(Ages) /\ 0 \in Ages /\ Limit \in Nat \ {0}
    BY AgesFinite, FS_Interval
  <2>3. SumOf(z, Ages) = 0
    BY <2>1, <2>2, SumZero
  <2> QED BY <2>1, <2>2, <2>3 DEF WindowClosed
<1>3. /\ clock = 0 /\ shared = [count |-> 0, left |-> 0]
      /\ local = [i \in Instances |-> NoEntry]
      /\ passed = [x \in Instances \cup {Redis} |-> z]
  BY <1>1 DEF RateInit
<1>4. SharedTyped(shared) /\ shared.left = 0
  BY <1>3, AgesFinite DEF SharedTyped
<1>5. \A i \in Instances : EntryTyped(local[i], clock) /\ local[i].count = 0
  BY <1>3, AgesFinite DEF EntryTyped, NoEntry
<1>6. RateTyped
  BY <1>2, <1>3, <1>4, <1>5 DEF RateTyped
<1>7. WindowsInv
  BY <1>2, <1>3, <1>4, <1>5 DEF WindowsInv, SharedWindow, LocalWindow
<1> QED BY <1>6, <1>7 DEF RateInv

\* An attempt, with the answer of Redis and without it.
LEMMA AllowKeeps ==
    ASSUME RateInv, NEW i \in Instances, NEW ok \in BOOLEAN, Allow(i, ok),
           UNCHANGED <<clock, emptied>>
    PROVE  RateInv'
<1>1. /\ clock \in Nat /\ passed \in [Instances \cup {Redis} -> Noting]
      /\ SharedTyped(shared) /\ DOMAIN local = Instances
      /\ \A j \in Instances : EntryTyped(local[j], clock)
      /\ WindowsInv /\ Redis \notin Instances /\ 0 \in Ages
  BY AgesFinite DEF RateInv, RateTyped
<1>2. Incr = Incremented(shared)
  BY DEF Incr, Incremented
<1>3. ASSUME NEW x \in Instances \cup {Redis}, Noted(x, ok)
      PROVE  /\ passed' \in [Instances \cup {Redis} -> Noting]
             /\ IF ok THEN Passes(passed[x], passed'[x]) ELSE passed'[x] = passed[x]
             /\ \A y \in Instances \cup {Redis} : y # x => passed'[y] = passed[y]
  <2>1. CASE ok
    <3>1. PICK q : Passes(passed[x], q)
      BY DEF Passes
    <3>2. passed' = [passed EXCEPT ![x] = q]
      BY <1>3, <2>1, <3>1 DEF Noted, Passes
    <3>3. q \in Noting
      BY <1>1, <3>1, PassAdds
    <3>4. passed'[x] = q /\ \A y \in Instances \cup {Redis} : y # x => passed'[y] = passed[y]
      BY <1>1, <3>2
    <3>5. passed' \in [Instances \cup {Redis} -> Noting]
      BY <1>1, <3>2, <3>3
    <3> QED BY <2>1, <3>1, <3>4, <3>5
  <2>2. CASE ~ok
    BY <1>1, <1>3, <2>2 DEF Noted
  <2> QED BY <2>1, <2>2
<1>4. CASE i \in reached
  <2>1. /\ shared' = Incremented(shared) /\ Noted(Redis, ok) /\ UNCHANGED local
        /\ ok <=> shared'.count <= Limit
    BY <1>2, <1>4 DEF Allow
  <2>2. /\ passed' \in [Instances \cup {Redis} -> Noting]
        /\ IF ok THEN Passes(passed[Redis], passed'[Redis]) ELSE passed'[Redis] = passed[Redis]
        /\ \A y \in Instances : passed'[y] = passed[y]
    BY <1>1, <1>3, <2>1
  <2>3. /\ SharedTyped(shared')
        /\ SharedWindow(shared, passed[Redis]) => SharedWindow(shared', passed'[Redis])
    <3>1. passed[Redis] \in Noting
      BY <1>1
    <3>2. MayPass(passed[Redis], passed'[Redis], shared')
      BY <2>1, <2>2 DEF MayPass
    <3> QED BY <1>1, <2>1, <3>1, <3>2, SharedCounts
  <2>4. RateTyped'
    BY <1>1, <2>1, <2>2, <2>3 DEF RateTyped
  <2>5. WindowsInv'
    BY <1>1, <2>1, <2>2, <2>3 DEF WindowsInv
  <2> QED BY <2>4, <2>5 DEF RateInv
<1>5. CASE i \notin reached
  <2>1. /\ shared' = shared \/ shared' = Incremented(shared)
        /\ Noted(i, ok) /\ local' = [local EXCEPT ![i] = Entry(i)]
        /\ ok <=> (Expired(local[i]) \/ local[i].count < Limit)
    BY <1>2, <1>5 DEF Allow
  <2>2. /\ passed' \in [Instances \cup {Redis} -> Noting]
        /\ IF ok THEN Passes(passed[i], passed'[i]) ELSE passed'[i] = passed[i]
        /\ \A y \in Instances \cup {Redis} : y # i => passed'[y] = passed[y]
    BY <1>1, <1>3, <2>1
  <2>3. /\ SharedTyped(shared')
        /\ SharedWindow(shared, passed[Redis]) => SharedWindow(shared', passed'[Redis])
    <3>1. passed[Redis] \in Noting /\ passed'[Redis] = passed[Redis]
      BY <1>1, <2>2
    <3>2. CASE shared' = shared
      BY <1>1, <3>1, <3>2
    <3>3. CASE shared' = Incremented(shared)
      <4>1. /\ SharedTyped(shared')
            /\ SharedWindow(shared, passed[Redis]) => SharedWindow(shared', passed[Redis])
        <5>1. MayPass(passed[Redis], passed[Redis], shared')
          BY DEF MayPass
        <5> QED BY <1>1, <3>1, <3>3, <5>1, SharedCounts
      <4> QED BY <3>1, <4>1
    <3> QED BY <2>1, <3>2, <3>3
  <2>4. PICK over \in BOOLEAN : over <=> Expired(local[i])
    OBVIOUS
  <2>5. over <=> local[i].count = 0 \/ clock - local[i].since >= Window
    BY <2>4 DEF Expired
  <2>6. Entry(i) = IF over THEN [count |-> 1, since |-> clock]
                           ELSE [local[i] EXCEPT !.count = Min({@ + 1, Limit})]
    BY <2>4 DEF Entry
  <2>7. PICK f : f = Entry(i)
    OBVIOUS
  <2>8. IF over \/ local[i].count < Limit THEN Passes(passed[i], passed'[i])
                                          ELSE passed'[i] = passed[i]
    BY <2>1, <2>2, <2>4
  <2>9. /\ EntryTyped(f, clock)
        /\ LocalWindow(local[i], clock, passed[i]) => LocalWindow(f, clock, passed'[i])
    <3>1. PICK en : en = local[i]
      OBVIOUS
    <3>2. f = IF over THEN [count |-> 1, since |-> clock]
                      ELSE [en EXCEPT !.count = Min({@ + 1, Limit})]
      BY <2>6, <2>7, <3>1
    <3>3. passed[i] \in Noting /\ EntryTyped(en, clock)
      BY <1>1, <3>1
    <3>4. over <=> en.count = 0 \/ clock - en.since >= Window
      BY <2>5, <3>1
    <3>5. IF over \/ en.count < Limit THEN Passes(passed[i], passed'[i])
                                      ELSE passed'[i] = passed[i]
      BY <2>8, <3>1
    <3>6. /\ EntryTyped(f, clock)
          /\ LocalWindow(en, clock, passed[i]) => LocalWindow(f, clock, passed'[i])
      BY <1>1, <3>2, <3>3, <3>4, <3>5, LocalCounts
    <3> QED BY <3>1, <3>6
  <2>10. local'[i] = f /\ DOMAIN local' = Instances
         /\ \A j \in Instances : j # i => local'[j] = local[j]
    BY <1>1, <2>1, <2>7
  <2>11. RateTyped'
    BY <1>1, <2>2, <2>3, <2>9, <2>10 DEF RateTyped
  <2>12. WindowsInv'
    <3>1. Redis \notin emptied' => SharedWindow(shared', passed'[Redis])
      BY <1>1, <2>3 DEF WindowsInv
    <3>2. ASSUME NEW j \in Instances \ emptied'
          PROVE  LocalWindow(local'[j], clock', passed'[j])
      <4>1. LocalWindow(local[j], clock, passed[j])
        BY <1>1, <3>2 DEF WindowsInv
      <4>2. CASE j = i
        BY <2>9, <2>10, <4>1, <4>2
      <4>3. CASE j # i
        <5>1. local'[j] = local[j] /\ passed'[j] = passed[j]
          BY <2>2, <2>10, <3>2, <4>3
        <5> QED BY <4>1, <5>1
      <4> QED BY <4>2, <4>3
    <3> QED BY <3>1, <3>2 DEF WindowsInv
  <2> QED BY <2>11, <2>12 DEF RateInv
<1> QED BY <1>4, <1>5

LEMMA TickKeeps ==
    ASSUME RateInv, RateTick
    PROVE  RateInv'
<1>1. /\ clock \in Nat /\ passed \in [Instances \cup {Redis} -> Noting]
      /\ SharedTyped(shared) /\ DOMAIN local = Instances
      /\ \A j \in Instances : EntryTyped(local[j], clock)
      /\ WindowsInv
  BY DEF RateInv, RateTyped
<1>2. clock' = clock + 1 /\ UNCHANGED <<local, emptied>>
  BY DEF RateTick
<1>3. \A x \in Instances \cup {Redis} : passed[x] \in Noting /\ passed'[x] = Aged(passed[x])
  BY <1>1 DEF RateTick, Aged
<1>4. passed' \in [Instances \cup {Redis} -> Noting]
  <2>1. passed' = [x \in Instances \cup {Redis} |-> Aged(passed[x])]
    BY <1>1 DEF RateTick, Aged
  <2>2. \A x \in Instances \cup {Redis} : Aged(passed[x]) \in Noting
    BY <1>3, AgedFacts
  <2> QED BY <2>1, <2>2
<1>5. /\ SharedTyped(shared')
      /\ SharedWindow(shared, passed[Redis]) => SharedWindow(shared', passed'[Redis])
  <2>1. shared' = IF shared.left <= 1 THEN [count |-> 0, left |-> 0]
                                      ELSE [shared EXCEPT !.left = @ - 1]
    BY DEF RateTick
  <2>2. /\ SharedTyped(shared')
        /\ SharedWindow(shared, passed[Redis]) => SharedWindow(shared', Aged(passed[Redis]))
    BY <1>1, <1>3, <2>1, SharedTicks
  <2> QED BY <1>3, <2>2
<1>6. ASSUME NEW i \in Instances
      PROVE  /\ EntryTyped(local'[i], clock')
             /\ LocalWindow(local[i], clock, passed[i]) => LocalWindow(local'[i], clock', passed'[i])
  <2>1. passed[i] \in Noting /\ passed'[i] = Aged(passed[i]) /\ EntryTyped(local[i], clock)
    BY <1>1, <1>3
  <2>2. /\ EntryTyped(local[i], clock + 1)
        /\ LocalWindow(local[i], clock, passed[i])
             => LocalWindow(local[i], clock + 1, Aged(passed[i]))
    BY <1>1, <2>1, LocalTicks
  <2> QED BY <1>2, <2>1, <2>2
<1>7. RateTyped'
  BY <1>1, <1>2, <1>4, <1>5, <1>6 DEF RateTyped
<1>8. WindowsInv'
  BY <1>1, <1>2, <1>5, <1>6 DEF WindowsInv
<1> QED BY <1>7, <1>8 DEF RateInv

LEMMA RateNext == RateInv /\ [Next]_allVars => RateInv'
<1> SUFFICES ASSUME RateInv, [Next]_allVars PROVE RateInv'
  OBVIOUS
<1>1. CASE UNCHANGED rateVars
  BY <1>1 DEF rateVars, RateInv, RateTyped, WindowsInv
<1>2. ASSUME NEW c \in Clients, SignIn(c) PROVE RateInv'
  <2>1. ASSUME NEW i \in Instances, NEW u \in Users, NEW new \in BOOLEAN, Knock(c, i, u, new)
        PROVE  RateInv'
    <3>1. PICK ok \in BOOLEAN : Allow(i, ok)
      BY <2>1 DEF Knock
    <3>2. UNCHANGED <<clock, emptied>>
      BY <2>1 DEF Knock
    <3> QED BY <3>1, <3>2, AllowKeeps
  <2>2. CASE CheckFree(c) \/ InsertUser(c) \/ SelectUser(c) \/ InsertSession(c) \/ Reply(c)
             \/ Logout(c)
    BY <1>1, <2>2 DEF CheckFree, InsertUser, SelectUser, InsertSession, Reply, Logout
  <2> QED BY <1>2, <2>1, <2>2 DEF SignIn
<1>3. ASSUME NEW c \in Clients, ChangeStatus(c) \/ CallFails(c) PROVE RateInv'
  BY <1>1, <1>3 DEF ChangeStatus, Enter, LockUser, Commit, Deadlock, CallFails
<1>4. ASSUME NEW i \in Instances, Restart(i) PROVE RateInv'
  <2>1. /\ UNCHANGED <<clock, shared, passed>> /\ local' = [local EXCEPT ![i] = NoEntry]
        /\ emptied' = emptied \cup {i} /\ Redis \notin Instances
    BY <1>4, AgesFinite DEF Restart
  <2>2. EntryTyped(NoEntry, clock)
    BY AgesFinite DEF EntryTyped, NoEntry, RateInv, RateTyped
  <2>3. /\ DOMAIN local' = Instances /\ local'[i] = NoEntry
        /\ \A j \in Instances : j # i => local'[j] = local[j]
    BY <2>1 DEF RateInv, RateTyped
  <2>4. RateTyped'
    BY <2>1, <2>2, <2>3 DEF RateInv, RateTyped
  <2>5. WindowsInv'
    BY <2>1, <2>3 DEF RateInv, WindowsInv
  <2> QED BY <2>4, <2>5 DEF RateInv
<1>5. CASE Tick
  BY <1>5, TickKeeps DEF Tick
<1>6. CASE RedisFaults
  <2>1. CASE LoseShared
    <3>1. /\ UNCHANGED <<clock, local, passed>> /\ shared' = [count |-> 0, left |-> 0]
          /\ emptied' = emptied \cup {Redis}
      BY <2>1 DEF LoseShared
    <3>2. SharedTyped(shared')
      BY <3>1, AgesFinite DEF SharedTyped
    <3> QED BY <3>1, <3>2 DEF RateInv, RateTyped, WindowsInv
  <2>2. CASE \E i \in Instances : Unreach(i) \/ Reach(i)
    BY <2>2 DEF Unreach, Reach, RateInv, RateTyped, WindowsInv
  <2> QED BY <1>6, <2>1, <2>2 DEF RedisFaults
<1>7. CASE UNCHANGED allVars
  BY <1>1, <1>7 DEF allVars
<1> QED BY <1>2, <1>3, <1>4, <1>5, <1>6, <1>7 DEF Next

\* Whatever instances the attempts of an address go to, and whether Redis answers them
\* or not, each counter that was not lost lets through less than twice the limit in any
\* stretch of time as long as a window.
THEOREM RateCorrect == Spec => []RateBounded
<1>1. Init => RateInv
  BY RateInitially DEF Init
<1>2. RateInv => RateBounded
  <2> SUFFICES ASSUME RateInv, NEW x \in DOMAIN passed \ emptied
               PROVE  MapThenSumSet(LAMBDA a : passed[x][a], Ages) <= 2 * Limit - 1
    BY DEF RateBounded
  <2>1. PICK p \in Noting : p = passed[x]
    BY DEF RateInv, RateTyped
  <2>2. WindowClosed(p) \/ \E e, n : WindowOpen(p, e, n)
    <3>1. CASE x = Redis
      BY <2>1, <3>1 DEF RateInv, WindowsInv, SharedWindow
    <3>2. CASE x # Redis
      <4>1. x \in Instances \ emptied
        BY <3>2 DEF RateInv, RateTyped
      <4> QED BY <2>1, <4>1 DEF RateInv, WindowsInv, LocalWindow
    <3> QED BY <3>1, <3>2
  <2>3. SumOf(p, Ages) <= 2 * Limit - 1
    BY <2>2, WindowsBounded
  <2>4. SumOf(passed[x], Ages) <= 2 * Limit - 1
    BY <2>1, <2>3
  <2> QED BY <2>4 DEF SumOf
<1> QED BY <1>1, <1>2, RateNext, PTL DEF Spec
=============================================================================
