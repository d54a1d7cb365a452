------------------------------ MODULE Accounts ------------------------------
(***************************************************************************)
(* The user in session (AuthProvider), the login service (AuthService) and *)
(* table users.  A login, a registration and a saved profile each await    *)
(* the database, and meanwhile the user may go back, log out, log in as    *)
(* somebody else or press the button again.  The database runs the calls   *)
(* of its one connection in order and answers in that order.               *)
(***************************************************************************)
EXTENDS Integers, Sequences

CONSTANTS
  Seeds,        \* ids of the users InitTestUsers puts into the table
  Stamps,       \* ids a registration may get: times in milliseconds
  Names,        \* names people registered with and may type at the login
  Passwords,
  Roles,
  Profiles,     \* what the form of the profile can hold
  Absent,       \* no row, nobody in session
  MaxOps,       \* bound: logins, registrations and saves
  MaxFaults,    \* bound: database calls that throw
  MaxRestarts   \* bound: kills of the app

ASSUME KeysAssumption == Seeds \cap Stamps = {}
ASSUME ValuesAssumption == Passwords # {} /\ Roles # {} /\ Profiles # {}
ASSUME BoundsAssumption == MaxOps \in Nat /\ MaxFaults \in Nat /\ MaxRestarts \in Nat

VARIABLES
  users,      \* table users
  session,    \* AuthProvider._user
  current,    \* AuthService._currentUser
  queue,      \* database calls not executed
  replies,    \* executed, their handlers not resumed
  earned,     \* who gave their password or registered since the start of the app
  started, faults, restarts

counters == <<started, faults, restarts>>
vars == <<users, session, current, queue, replies, earned, counters>>

-----------------------------------------------------------------------------

(* What may be a key of the table or typed as a user name. *)
Keys == Seeds \cup Stamps \cup Names

(* 'profile' is all that the form of the profile can change, the name too. *)
Row == [id : Seeds \cup Stamps, password : Passwords, role : Roles, profile : Profiles]

ASSUME AbsentAssumption == Absent \notin Row

(* The entries of the login form. *)
Form == [name : Keys, password : Passwords, role : Roles]

(* A handler and the database call it awaits. *)
Call ==
  [kind : {"login"}, call : {"get"}, key : Keys, form : Form]
    \cup [kind : {"register"}, call : {"get", "insert"}, key : Stamps, row : Row]
    \cup [kind : {"save"}, call : {"update"}, key : Seeds \cup Stamps, row : Row]

Reply == [of : Call, answer : Row \cup {Absent}]

Quiet == queue = << >> /\ replies = << >>

TypeOK ==
  /\ users \in [Keys -> Row \cup {Absent}]
  /\ session \in Row \cup {Absent}
  /\ current \in Row \cup {Absent}
  /\ queue \in Seq(Call)
  /\ replies \in Seq(Reply)
  /\ earned \subseteq Seeds \cup Stamps
  /\ started \in 0 .. MaxOps
  /\ faults \in 0 .. MaxFaults
  /\ restarts \in 0 .. MaxRestarts

(* main() has awaited InitTestUsers before it shows a screen. *)
Init ==
  /\ users \in [Keys -> Row \cup {Absent}]
  /\ \A k \in Keys : IF k \in Seeds
                     THEN users[k] # Absent /\ users[k].id = k
                     ELSE users[k] = Absent
  /\ session = Absent
  /\ current = Absent
  /\ queue = << >>
  /\ replies = << >>
  /\ earned = {}
  /\ started = 0
  /\ faults = 0
  /\ restarts = 0

-----------------------------------------------------------------------------
(* The buttons *)

Begin(call) ==
  /\ started < MaxOps
  /\ started' = started + 1
  /\ queue' = Append(queue, call)
  /\ UNCHANGED <<users, current, replies, earned, faults, restarts>>

(* The login screen lies under the registration and, after one of the two  *)
(* has gone on to a dashboard, may lie under that: its button asks nothing.*)
Login(form) ==
  /\ Begin([kind |-> "login", call |-> "get", key |-> form.name, form |-> form])
  /\ UNCHANGED session

(* The registrations under way. *)
Registering ==
  {queue[k].key : k \in {j \in 1 .. Len(queue) : queue[j].kind = "register"}}
    \cup {replies[k].of.key : k \in {j \in 1 .. Len(replies) : replies[j].of.kind = "register"}}

(* The id is the time at which the button was pressed.  No two taps fall   *)
(* into one millisecond, but a clock that was set back may repeat one.     *)
Register(id, password, role, profile) ==
  /\ id \notin Registering
  /\ Begin([kind |-> "register", call |-> "get", key |-> id,
            row |-> [id |-> id, password |-> password, role |-> role, profile |-> profile]])
  /\ UNCHANGED session

(* Variant: the session is changed before the await. *)
SaveProfileEager(profile) ==
  /\ session # Absent
  /\ Begin([kind |-> "save", call |-> "update", key |-> session.id,
            row |-> [session EXCEPT !.profile = profile]])
  /\ session' = [session EXCEPT !.profile = profile]

(* The row written is the user in session with the texts of the form. *)
SaveProfile(profile) ==
  /\ session # Absent
  /\ Begin([kind |-> "save", call |-> "update", key |-> session.id,
            row |-> [session EXCEPT !.profile = profile]])
  /\ UNCHANGED session

(* AuthService keeps its user. *)
Logout ==
  /\ session # Absent
  /\ session' = Absent
  /\ UNCHANGED <<users, current, queue, replies, earned, counters>>

-----------------------------------------------------------------------------
(* The database *)

DbExecute ==
  /\ queue # << >>
  /\ LET c == Head(queue) IN
       /\ users' = CASE c.call = "insert" -> [users EXCEPT ![c.key] = c.row]
                     [] c.call = "update" -> [users EXCEPT ![c.key] = IF @ = Absent THEN @ ELSE c.row]
                     [] OTHER -> users
       /\ replies' = Append(replies, [of |-> c, answer |-> IF c.call = "get" THEN users[c.key] ELSE Absent])
       /\ queue' = Tail(queue)
  /\ UNCHANGED <<session, current, earned, counters>>

(* The call throws: each of the handlers ends there, having changed nothing. *)
DbFail ==
  /\ queue # << >>
  /\ faults < MaxFaults
  /\ faults' = faults + 1
  /\ queue' = Tail(queue)
  /\ UNCHANGED <<users, session, current, replies, earned, started, restarts>>

-----------------------------------------------------------------------------
(* After the await *)

Resumes(kind, call) ==
  /\ replies # << >>
  /\ Head(replies).of.kind = kind
  /\ Head(replies).of.call = call
  /\ replies' = Tail(replies)

(* Variant: the password is "verified in a real app". *)
MatchesRole(row, form) == row # Absent /\ row.role = form.role

Matches(row, form) ==
  row # Absent /\ row.role = form.role /\ row.password = form.password

Knows(row, form) == row # Absent /\ row.password = form.password

(* Variant: the user is made from the form, as AuthProvider.login does.    *)
LoginAnsweredByForm ==
  /\ Resumes("login", "get")
  /\ IF Matches(Head(replies).answer, Head(replies).of.form)
     THEN /\ current' = Head(replies).of.form
          /\ session' = current'
     ELSE UNCHANGED <<current, session>>
  /\ UNCHANGED <<users, queue, earned, counters>>

(* AuthService takes the user in any case, the session only while the login *)
(* screen is still there (another login may have left it).                 *)
LoginAnswered ==
  /\ Resumes("login", "get")
  /\ LET answer == Head(replies).answer IN
       IF Matches(answer, Head(replies).of.form)
       THEN /\ current' = answer
            /\ \/ session' = answer
               \/ UNCHANGED session
       ELSE UNCHANGED <<current, session>>
  /\ LET answer == Head(replies).answer IN
       earned' = IF Knows(answer, Head(replies).of.form) THEN earned \cup {answer.id} ELSE earned
  /\ UNCHANGED <<users, queue, counters>>

(* Variant: no check of the answer. *)
RegisterUnchecked ==
  /\ Resumes("register", "get")
  /\ queue' = Append(queue, [Head(replies).of EXCEPT !.call = "insert"])
  /\ UNCHANGED <<users, session, current, earned, counters>>

(* Variant: the session begins before the insert is answered. *)
RegisterCheckedEager ==
  /\ Resumes("register", "get")
  /\ IF Head(replies).answer = Absent
     THEN /\ queue' = Append(queue, [Head(replies).of EXCEPT !.call = "insert"])
          /\ session' = Head(replies).of.row
     ELSE UNCHANGED <<queue, session>>
  /\ UNCHANGED <<users, current, earned, counters>>

RegisterChecked ==
  /\ Resumes("register", "get")
  /\ queue' = IF Head(replies).answer = Absent
              THEN Append(queue, [Head(replies).of EXCEPT !.call = "insert"])
              ELSE queue
  /\ UNCHANGED <<users, session, current, earned, counters>>

Registered ==
  /\ Resumes("register", "insert")
  /\ LET row == Head(replies).of.row IN
       /\ session' = row
       /\ earned' = earned \cup {row.id}
  /\ UNCHANGED <<users, current, queue, counters>>

(* Also when the user has logged out, or others have logged in, meanwhile. *)
Saved ==
  /\ Resumes("save", "update")
  /\ session' = Head(replies).of.row
  /\ UNCHANGED <<users, current, queue, earned, counters>>

(* The app is killed and started again; InitTestUsers finds its users. *)
Restart ==
  /\ restarts < MaxRestarts
  /\ restarts' = restarts + 1
  /\ session' = Absent
  /\ current' = Absent
  /\ queue' = << >>
  /\ replies' = << >>
  /\ earned' = {}
  /\ UNCHANGED <<users, started, faults>>

Next ==
  \/ \E form \in Form : Login(form)
  \/ \E id \in Stamps, password \in Passwords, role \in Roles, profile \in Profiles :
       Register(id, password, role, profile)
  \/ \E profile \in Profiles : SaveProfile(profile)
  \/ Logout
  \/ DbExecute
  \/ DbFail
  \/ LoginAnswered
  \/ RegisterChecked
  \/ Registered
  \/ Saved
  \/ Restart

Spec == Init /\ [][Next]_vars

-----------------------------------------------------------------------------
(* Properties *)

(* Whoever is in session has an account, at every moment: no failed or     *)
(* pending registration becomes a session (register and updateUser of      *)
(* auth_provider.dart, which set _user after the write).                   *)
SessionHasAccount ==
  session # Absent => users[session.id] # Absent

(* When nothing is under way, the user in session is what the table holds, *)
(* whatever saves, logins and failures overlapped before.                  *)
QuietSessionIsCurrent ==
  Quiet /\ session # Absent => users[session.id] = session

(* A session belongs to somebody who gave the password or registered since *)
(* the app was started, even one that a save brought back after a logout.  *)
SessionIsEarned ==
  session # Absent => session.id \in earned

(* An account keeps its password and its role: no registration that passed *)
(* its check before another one inserted, and no save, writes over somebody*)
(* else's (auth_provider.dart:74-80, where the insert replaces).           *)
AccountsKeepTheirOwner ==
  [][\A k \in Keys : users[k] # Absent =>
       /\ users'[k] # Absent
       /\ users'[k].password = users[k].password
       /\ users'[k].role = users[k].role]_vars
=============================================================================
