--------------------------- MODULE AccountsProofs ---------------------------
(***************************************************************************)
(* Theorems about Accounts for any users, any number of handlers under way,*)
(* failed calls and kills.                                                 *)
(*                                                                         *)
(* No property is inductive alone.  A session comes out of an answer that  *)
(* was read, or a row that was written, before the handler resumes: the    *)
(* invariant says of every call and every answer under way what it knows   *)
(* of the table, and that the registrations under way have different ids.  *)
(* A second invariant, under "Fresh", says how a session that is behind    *)
(* the table is going to catch up with it.                                 *)
(***************************************************************************)
EXTENDS Accounts, SequenceTheorems, TLAPS

(* The table has the account of this row, with its password and role. *)
Owned(row) ==
  /\ users[row.id] # Absent
  /\ users[row.id].password = row.password
  /\ users[row.id].role = row.role

TableInv == \A k \in Keys : users[k] # Absent => users[k].id = k

SessionInv == session # Absent => Owned(session) /\ session.id \in earned

CallInv(c) ==
  /\ c.kind = "register" =>
       /\ c.row.id = c.key
       /\ c.call = "insert" => users[c.key] = Absent
  /\ c.kind = "save" =>
       /\ c.row.id = c.key
       /\ Owned(c.row)
       /\ c.key \in earned

ReplyInv(r) ==
  /\ r.of.kind = "login" => (r.answer # Absent => Owned(r.answer))
  /\ r.of.kind = "register" =>
       /\ r.of.row.id = r.of.key
       /\ r.of.call = "get" => (r.answer = Absent => users[r.of.key] = Absent)
       /\ r.of.call = "insert" => Owned(r.of.row)
  /\ r.of.kind = "save" =>
       /\ r.of.row.id = r.of.key
       /\ Owned(r.of.row)
       /\ r.of.key \in earned

QueueInv == \A k \in 1 .. Len(queue) : CallInv(queue[k])

RepliesInv == \A k \in 1 .. Len(replies) : ReplyInv(replies[k])

SameRegistration(c, d) == c.kind = "register" /\ d.kind = "register" /\ c.key = d.key

AloneInv ==
  /\ \A j, k \in 1 .. Len(queue) : SameRegistration(queue[j], queue[k]) => j = k
  /\ \A j, k \in 1 .. Len(replies) : SameRegistration(replies[j].of, replies[k].of) => j = k
  /\ \A j \in 1 .. Len(queue), k \in 1 .. Len(replies) : ~SameRegistration(queue[j], replies[k].of)

IInv ==
  /\ TypeOK
  /\ TableInv
  /\ SessionInv
  /\ QueueInv
  /\ RepliesInv
  /\ AloneInv

-----------------------------------------------------------------------------
(* Sequences *)

(* What the queue and the replies are after one more call or answer. *)
LEMMA Longer ==
  ASSUME NEW S, NEW s \in Seq(S), NEW e \in S
  PROVE  /\ Append(s, e) \in Seq(S)
         /\ Len(Append(s, e)) = Len(s) + 1
         /\ \A k \in 1 .. Len(s) + 1 : Append(s, e)[k] = IF k = Len(s) + 1 THEN e ELSE s[k]
BY AppendProperties

(* And after the first has gone. *)
LEMMA Shorter ==
  ASSUME NEW S, NEW s \in Seq(S), s # << >>
  PROVE  /\ Tail(s) \in Seq(S)
         /\ Len(Tail(s)) = Len(s) - 1
         /\ \A k \in 1 .. Len(s) - 1 : Tail(s)[k] = s[k + 1] /\ k + 1 \in 1 .. Len(s)
         /\ Head(s) = s[1]
         /\ Head(s) \in S
         /\ 1 \in 1 .. Len(s)
<1>1. Len(s) \in Nat /\ Len(s) # 0
  BY EmptySeq
<1>2. 1 \in 1 .. Len(s) /\ Head(s) = s[1]
  BY <1>1
<1>3. Head(s) \in S
  BY <1>1, <1>2
<1>4. Tail(s) \in Seq(S) /\ Len(Tail(s)) = Len(s) - 1
  BY HeadTailProperties
<1>5. \A k \in 1 .. Len(s) - 1 : Tail(s)[k] = s[k + 1] /\ k + 1 \in 1 .. Len(s)
  BY <1>1, <1>4, HeadTailProperties
<1> QED  BY <1>2, <1>3, <1>4, <1>5

-----------------------------------------------------------------------------
(* Types *)

(* Every step keeps the types: the calls of a handler are built from rows. *)
LEMMA TypeStep == TypeOK /\ [Next]_vars => TypeOK'
<1> SUFFICES ASSUME TypeOK, [Next]_vars PROVE TypeOK'
  OBVIOUS
<1> USE BoundsAssumption
<1>1. ASSUME NEW form \in Form, Login(form) PROVE TypeOK'
  <2> DEFINE c == [kind |-> "login", call |-> "get", key |-> form.name, form |-> form]
  <2>1. c \in Call
    BY DEF Call, Form
  <2>2. Append(queue, c) \in Seq(Call)
    BY <2>1, Longer DEF TypeOK
  <2> QED  BY <1>1, <2>2 DEF Login, Begin, TypeOK
<1>2. ASSUME NEW id \in Stamps, NEW password \in Passwords,
             NEW role \in Roles, NEW profile \in Profiles,
             Register(id, password, role, profile)
      PROVE  TypeOK'
  <2> DEFINE row == [id |-> id, password |-> password, role |-> role, profile |-> profile]
             c == [kind |-> "register", call |-> "get", key |-> id, row |-> row]
  <2>1. row \in Row
    BY DEF Row
  <2>2. c \in Call
    <3> HIDE DEF row
    <3> QED  BY <2>1 DEF Call
  <2>3. Append(queue, c) \in Seq(Call)
    <3> HIDE DEF c
    <3> QED  BY <2>2, Longer DEF TypeOK
  <2> QED  BY <1>2, <2>3 DEF Register, Begin, TypeOK
<1>3. ASSUME NEW profile \in Profiles, SaveProfile(profile) PROVE TypeOK'
  <2> DEFINE row == [session EXCEPT !.profile = profile]
             c == [kind |-> "save", call |-> "update", key |-> session.id, row |-> row]
  <2>1. session \in Row /\ row \in Row
    BY <1>3 DEF SaveProfile, TypeOK, Row
  <2>2. c \in Call
    <3> HIDE DEF row
    <3> QED  BY <2>1 DEF Call, Row
  <2>3. Append(queue, c) \in Seq(Call)
    <3> HIDE DEF c
    <3> QED  BY <2>2, Longer DEF TypeOK
  <2> QED  BY <1>3, <2>3 DEF SaveProfile, Begin, TypeOK
<1>4. CASE Logout
  BY <1>4 DEF Logout, counters, TypeOK
<1>5. CASE DbExecute
  <2> DEFINE c == Head(queue)
             r == [of |-> c, answer |-> IF c.call = "get" THEN users[c.key] ELSE Absent]
  <2>1. queue \in Seq(Call) /\ queue # << >>
    BY <1>5 DEF DbExecute, TypeOK
  <2>2. c \in Call /\ Tail(queue) \in Seq(Call)
    BY <2>1, Shorter
  <2>3. c.key \in Keys /\ c.call \in {"get", "insert", "update"}
    BY <2>2 DEF Call, Keys
  <2>4. c.call \in {"insert", "update"} => c.row \in Row
    BY <2>2 DEF Call
  <2>5. r \in Reply
    <3> HIDE DEF c
    <3>1. (IF c.call = "get" THEN users[c.key] ELSE Absent) \in Row \cup {Absent}
      BY <2>3 DEF TypeOK
    <3> QED  BY <2>2, <3>1 DEF Reply
  <2>6. Append(replies, r) \in Seq(Reply)
    <3> HIDE DEF r
    <3> QED  BY <2>5, Longer DEF TypeOK
  <2>7. users' \in [Keys -> Row \cup {Absent}]
    <3> HIDE DEF c
    <3>0. users' = CASE c.call = "insert" -> [users EXCEPT ![c.key] = c.row]
                     [] c.call = "update" -> [users EXCEPT ![c.key] = IF @ = Absent THEN @ ELSE c.row]
                     [] OTHER -> users
      BY <1>5 DEF DbExecute, c
    <3>1. CASE c.call = "get"
      BY <3>0, <3>1 DEF TypeOK
    <3>2. CASE c.call = "insert"
      BY <3>0, <3>2, <2>4 DEF TypeOK
    <3>3. CASE c.call = "update"
      BY <3>0, <3>3, <2>4 DEF TypeOK
    <3> QED  BY <2>3, <3>1, <3>2, <3>3
  <2> QED  BY <1>5, <2>2, <2>6, <2>7 DEF DbExecute, counters, TypeOK
<1>6. CASE DbFail
  <2>1. Tail(queue) \in Seq(Call)
    BY <1>6, Shorter DEF DbFail, TypeOK
  <2> QED  BY <1>6, <2>1 DEF DbFail, TypeOK
<1>7. ASSUME replies # << >>
      PROVE  Head(replies) \in Reply /\ Tail(replies) \in Seq(Reply)
  BY <1>7, Shorter DEF TypeOK
<1>8. CASE LoginAnswered
  <2>1. Head(replies) \in Reply /\ Tail(replies) \in Seq(Reply)
    BY <1>8, <1>7 DEF LoginAnswered, Resumes
  <2> DEFINE answer == Head(replies).answer
  <2>2. answer \in Row \cup {Absent} /\ (answer # Absent => answer.id \in Seeds \cup Stamps)
    BY <2>1 DEF Reply, Row
  <2>3. current' \in Row \cup {Absent} /\ session' \in Row \cup {Absent}
    BY <1>8, <2>2 DEF LoginAnswered, TypeOK
  <2>4. earned' \subseteq Seeds \cup Stamps
    BY <1>8, <2>2 DEF LoginAnswered, Knows, TypeOK
  <2> QED  BY <1>8, <2>1, <2>3, <2>4 DEF LoginAnswered, Resumes, counters, TypeOK
<1>9. CASE RegisterChecked
  <2>1. Head(replies) \in Reply /\ Tail(replies) \in Seq(Reply)
    BY <1>9, <1>7 DEF RegisterChecked, Resumes
  <2> DEFINE c == [Head(replies).of EXCEPT !.call = "insert"]
  <2>2. Head(replies).of \in Call /\ Head(replies).of.kind = "register"
    BY <1>9, <2>1 DEF RegisterChecked, Resumes, Reply
  <2>3. c \in Call
    BY <2>2 DEF Call
  <2>4. Append(queue, c) \in Seq(Call)
    <3> HIDE DEF c
    <3> QED  BY <2>3, Longer DEF TypeOK
  <2> QED  BY <1>9, <2>1, <2>4 DEF RegisterChecked, Resumes, counters, TypeOK
<1>10. CASE Registered
  <2>1. Head(replies) \in Reply /\ Tail(replies) \in Seq(Reply)
    BY <1>10, <1>7 DEF Registered, Resumes
  <2>2. Head(replies).of \in Call /\ Head(replies).of.kind = "register"
    BY <1>10, <2>1 DEF Registered, Resumes, Reply
  <2>3. Head(replies).of.row \in Row /\ Head(replies).of.row.id \in Seeds \cup Stamps
    BY <2>2 DEF Call, Row
  <2> QED  BY <1>10, <2>1, <2>3 DEF Registered, Resumes, counters, TypeOK
<1>11. CASE Saved
  <2>1. Head(replies) \in Reply /\ Tail(replies) \in Seq(Reply)
    BY <1>11, <1>7 DEF Saved, Resumes
  <2>2. Head(replies).of \in Call /\ Head(replies).of.kind = "save"
    BY <1>11, <2>1 DEF Saved, Resumes, Reply
  <2>3. Head(replies).of.row \in Row
    BY <2>2 DEF Call
  <2> QED  BY <1>11, <2>1, <2>3 DEF Saved, Resumes, counters, TypeOK
<1>12. CASE Restart
  BY <1>12 DEF Restart, TypeOK
<1>13. CASE UNCHANGED vars
  BY <1>13 DEF vars, counters, TypeOK
<1> QED  BY <1>1, <1>2, <1>3, <1>4, <1>5, <1>6, <1>8, <1>9, <1>10, <1>11, <1>12, <1>13 DEF Next

-----------------------------------------------------------------------------
(* What a step does to the table *)

(* The database never takes an account away and never changes its password *)
(* or role: an insert finds no account, an update writes the owner's.      *)
LEMMA ExecuteKeepsOwners ==
  ASSUME IInv, DbExecute
  PROVE  \A k \in Keys : users[k] # Absent =>
           /\ users'[k] # Absent
           /\ users'[k].password = users[k].password
           /\ users'[k].role = users[k].role
<1> DEFINE c == Head(queue)
<1>1. queue \in Seq(Call) /\ queue # << >>
  BY DEF IInv, TypeOK, DbExecute
<1>2. c \in Call /\ c = queue[1] /\ 1 \in 1 .. Len(queue)
  BY <1>1, Shorter
<1>3. CallInv(c)
  BY <1>2 DEF IInv, QueueInv
<1>4. users' = CASE c.call = "insert" -> [users EXCEPT ![c.key] = c.row]
                 [] c.call = "update" -> [users EXCEPT ![c.key] = IF @ = Absent THEN @ ELSE c.row]
                 [] OTHER -> users
  BY DEF DbExecute
<1>5. /\ c.key \in Keys
      /\ c.call = "insert" => c.kind = "register" /\ c.row \in Row
      /\ c.call = "update" => c.kind = "save" /\ c.row \in Row
      /\ c.call \in {"get", "insert", "update"}
  BY <1>2 DEF Call, Keys
<1>6. users \in [Keys -> Row \cup {Absent}]
  BY DEF IInv, TypeOK
<1> HIDE DEF c
<1>7. CASE c.call = "get"
  BY <1>4, <1>7
<1>8. CASE c.call = "insert"
  <2>1. users[c.key] = Absent
    BY <1>3, <1>5, <1>8 DEF CallInv
  <2>2. users' = [users EXCEPT ![c.key] = c.row]
    BY <1>4, <1>8
  <2> QED  BY <1>6, <2>1, <2>2
<1>9. CASE c.call = "update"
  <2>1. Owned(c.row) /\ c.row.id = c.key
    BY <1>3, <1>5, <1>9 DEF CallInv
  <2>2. users' = [users EXCEPT ![c.key] = c.row]
    BY <1>4, <1>9, <2>1 DEF Owned
  <2> QED  BY <1>5, <1>6, <1>9, <2>1, <2>2, AbsentAssumption DEF Owned
<1> QED  BY <1>5, <1>7, <1>8, <1>9

(* Every step keeps the accounts: only the database writes the table. *)
LEMMA StepKeepsOwners ==
  ASSUME IInv, [Next]_vars
  PROVE  \A k \in Keys : users[k] # Absent =>
           /\ users'[k] # Absent
           /\ users'[k].password = users[k].password
           /\ users'[k].role = users[k].role
<1>1. CASE DbExecute
  BY <1>1, ExecuteKeepsOwners
<1>2. CASE users' = users
  BY <1>2
<1>3. users' = users \/ DbExecute
  BY DEF Next, vars, Login, Register, SaveProfile, Begin, Logout, DbFail, LoginAnswered,
         RegisterChecked, Registered, Saved, Restart
<1> QED  BY <1>1, <1>2, <1>3

(* So a row that is owned stays owned. *)
LEMMA OwnedStays ==
  ASSUME IInv, [Next]_vars, NEW row \in Row, Owned(row)
  PROVE  Owned(row)'
<1>1. row.id \in Keys
  BY DEF Row, Keys
<1> QED  BY <1>1, StepKeepsOwners DEF Owned

(* Rows stay under their ids. *)
LEMMA TableStep ==
  ASSUME IInv, [Next]_vars
  PROVE  TableInv'
<1>1. CASE DbExecute
  <2> DEFINE c == Head(queue)
  <2>1. queue \in Seq(Call) /\ queue # << >>
    BY <1>1 DEF IInv, TypeOK, DbExecute
  <2>2. c \in Call /\ c = queue[1] /\ 1 \in 1 .. Len(queue)
    BY <2>1, Shorter
  <2>3. CallInv(c)
    BY <2>2 DEF IInv, QueueInv
  <2>4. users' = CASE c.call = "insert" -> [users EXCEPT ![c.key] = c.row]
                   [] c.call = "update" -> [users EXCEPT ![c.key] = IF @ = Absent THEN @ ELSE c.row]
                   [] OTHER -> users
    BY <1>1 DEF DbExecute
  <2>5. c.key \in Keys /\ (c.call \in {"insert", "update"} => c.row.id = c.key)
        /\ c.call \in {"get", "insert", "update"}
    BY <2>2, <2>3 DEF Call, Keys, CallInv
  <2>6. users \in [Keys -> Row \cup {Absent}] /\ TableInv
    BY DEF IInv, TypeOK
  <2> HIDE DEF c
  <2>7. CASE c.call = "get"
    BY <2>4, <2>6, <2>7 DEF TableInv
  <2>8. CASE c.call = "insert"
    <3>1. users' = [users EXCEPT ![c.key] = c.row]
      BY <2>4, <2>8
    <3> QED  BY <2>5, <2>6, <2>8, <3>1 DEF TableInv
  <2>9. CASE c.call = "update"
    <3>1. users' = [users EXCEPT ![c.key] = IF @ = Absent THEN @ ELSE c.row]
      BY <2>4, <2>9
    <3> QED  BY <2>5, <2>6, <2>9, <3>1 DEF TableInv
  <2> QED  BY <2>5, <2>7, <2>8, <2>9
<1>2. CASE users' = users
  BY <1>2 DEF IInv, TableInv
<1>3. users' = users \/ DbExecute
  BY DEF Next, vars, Login, Register, SaveProfile, Begin, Logout, DbFail, LoginAnswered,
         RegisterChecked, Registered, Saved, Restart
<1> QED  BY <1>1, <1>2, <1>3

-----------------------------------------------------------------------------
(* What a step does to the session *)

(* A session begins with an answer or a row the table has, and its user is *)
(* then one of those who earned it.                                        *)
LEMMA SessionStep ==
  ASSUME IInv, [Next]_vars
  PROVE  SessionInv'
<1>1. CASE session' = session /\ earned \subseteq earned'
  <2> SUFFICES ASSUME session # Absent PROVE Owned(session)' /\ session' \in Row /\ session.id \in earned'
    BY <1>1 DEF SessionInv
  <2>1. session \in Row /\ Owned(session) /\ session.id \in earned
    BY DEF IInv, TypeOK, SessionInv
  <2>2. /\ users[session.id] # Absent
        /\ users'[session.id] # Absent
        /\ users'[session.id].password = session.password
        /\ users'[session.id].role = session.role
    BY <2>1, StepKeepsOwners DEF Owned, Row, Keys
  <2> QED  BY <1>1, <2>1, <2>2 DEF Owned
<1>2. CASE session' = Absent
  BY <1>2 DEF SessionInv
<1>3. ASSUME replies # << >>
      PROVE  Head(replies) \in Reply /\ ReplyInv(Head(replies))
  <2>1. replies \in Seq(Reply)
    BY DEF IInv, TypeOK
  <2>2. Head(replies) = replies[1] /\ Head(replies) \in Reply /\ 1 \in 1 .. Len(replies)
    BY <1>3, <2>1, Shorter
  <2> QED  BY <2>2 DEF IInv, RepliesInv
<1>4. CASE LoginAnswered
  <2> DEFINE r == Head(replies)
  <2>1. r \in Reply /\ ReplyInv(r) /\ r.of.kind = "login"
    BY <1>3, <1>4 DEF LoginAnswered, Resumes
  <2>2. earned \subseteq earned' /\ users' = users
    BY <1>4 DEF LoginAnswered
  <2>3. CASE session' = session
    BY <1>1, <2>2, <2>3
  <2>4. CASE session' = r.answer /\ Matches(r.answer, r.of.form)
    <3>1. r.answer # Absent /\ r.answer.id \in earned'
      BY <1>4, <2>4 DEF LoginAnswered, Matches, Knows
    <3>2. Owned(r.answer)
      BY <2>1, <3>1 DEF ReplyInv
    <3> QED  BY <2>2, <2>4, <3>1, <3>2 DEF SessionInv, Owned
  <2> QED  BY <1>4, <2>3, <2>4 DEF LoginAnswered
<1>5. CASE Registered
  <2> DEFINE r == Head(replies)
  <2>1. ReplyInv(r) /\ r.of.kind = "register" /\ r.of.call = "insert"
    BY <1>3, <1>5 DEF Registered, Resumes
  <2>2. Owned(r.of.row)
    BY <2>1 DEF ReplyInv
  <2>3. session' = r.of.row /\ r.of.row.id \in earned' /\ users' = users
    BY <1>5 DEF Registered
  <2> QED  BY <2>2, <2>3 DEF SessionInv, Owned
<1>6. CASE Saved
  <2> DEFINE r == Head(replies)
  <2>1. ReplyInv(r) /\ r.of.kind = "save"
    BY <1>3, <1>6 DEF Saved, Resumes
  <2>2. Owned(r.of.row) /\ r.of.row.id \in earned
    BY <2>1 DEF ReplyInv
  <2>3. session' = r.of.row /\ earned' = earned /\ users' = users
    BY <1>6 DEF Saved
  <2> QED  BY <2>2, <2>3 DEF SessionInv, Owned
<1>7. \/ session' = session /\ earned \subseteq earned'
      \/ session' = Absent
      \/ LoginAnswered \/ Registered \/ Saved
  BY DEF Next, vars, Login, Register, SaveProfile, Begin, Logout, DbExecute, DbFail,
         RegisterChecked, Restart
<1> QED  BY <1>1, <1>2, <1>4, <1>5, <1>6, <1>7

-----------------------------------------------------------------------------
(* What a step does to the calls and answers under way *)

(* A key without an account stays without one, unless the call executed    *)
(* registers it.                                                           *)
LEMMA AbsentStays ==
  ASSUME IInv, DbExecute, NEW key \in Keys, users[key] = Absent,
         ~(Head(queue).kind = "register" /\ Head(queue).key = key)
  PROVE  users'[key] = Absent
<1> DEFINE c == Head(queue)
<1>1. queue \in Seq(Call) /\ queue # << >>
  BY DEF IInv, TypeOK, DbExecute
<1>2. c \in Call /\ c = queue[1] /\ 1 \in 1 .. Len(queue)
  BY <1>1, Shorter
<1>3. CallInv(c)
  BY <1>2 DEF IInv, QueueInv
<1>4. users' = CASE c.call = "insert" -> [users EXCEPT ![c.key] = c.row]
                 [] c.call = "update" -> [users EXCEPT ![c.key] = IF @ = Absent THEN @ ELSE c.row]
                 [] OTHER -> users
  BY DEF DbExecute
<1>5. /\ c.key \in Keys
      /\ c.call = "insert" => c.kind = "register"
      /\ c.call \in {"get", "insert", "update"}
  BY <1>2 DEF Call, Keys
<1>6. users \in [Keys -> Row \cup {Absent}]
  BY DEF IInv, TypeOK
<1>7. c.kind = "register" => c.key # key
  OBVIOUS
<1> HIDE DEF c
<1>8. CASE c.call = "get"
  BY <1>4, <1>8
<1>9. CASE c.call = "insert"
  <2>1. users' = [users EXCEPT ![c.key] = c.row]
    BY <1>4, <1>9
  <2> QED  BY <1>5, <1>6, <1>7, <1>9, <2>1
<1>10. CASE c.call = "update"
  <2>1. users' = [users EXCEPT ![c.key] = IF @ = Absent THEN @ ELSE c.row]
    BY <1>4, <1>10
  <2> QED  BY <1>5, <1>6, <2>1
<1> QED  BY <1>5, <1>8, <1>9, <1>10

(* What a call knows stays true. *)
LEMMA CallStays ==
  ASSUME IInv, [Next]_vars, NEW c \in Call, CallInv(c), earned \subseteq earned',
         users' = users \/ (DbExecute /\ ~SameRegistration(Head(queue), c))
  PROVE  CallInv(c)'
<1>1. c.kind = "save" => c.row \in Row
  BY DEF Call
<1>2. c.kind = "save" => Owned(c.row)'
  BY <1>1, OwnedStays DEF CallInv
<1>3. ASSUME c.kind = "register", c.call = "insert" PROVE users'[c.key] = Absent
  <2>1. users[c.key] = Absent /\ c.key \in Keys
    BY <1>3 DEF CallInv, Call, Keys
  <2> QED  BY <1>3, <2>1, AbsentStays DEF SameRegistration
<1> QED  BY <1>2, <1>3 DEF CallInv

(* And what an answer knows. *)
LEMMA ReplyStays ==
  ASSUME IInv, [Next]_vars, NEW r \in Reply, ReplyInv(r), earned \subseteq earned',
         users' = users \/ (DbExecute /\ ~SameRegistration(Head(queue), r.of))
  PROVE  ReplyInv(r)'
<1>1. r.of \in Call /\ r.answer \in Row \cup {Absent}
  BY DEF Reply
<1>2. r.of.kind \in {"save", "register"} => r.of.row \in Row /\ r.of.key \in Keys
  BY <1>1 DEF Call, Keys
<1>3. r.of.kind = "save" => Owned(r.of.row)'
  BY <1>2, OwnedStays DEF ReplyInv
<1>4. r.of.kind = "register" /\ r.of.call = "insert" => Owned(r.of.row)'
  BY <1>2, OwnedStays DEF ReplyInv
<1>5. r.of.kind = "login" /\ r.answer # Absent => Owned(r.answer)'
  BY <1>1, OwnedStays DEF ReplyInv
<1>6. ASSUME r.of.kind = "register", r.of.call = "get", r.answer = Absent
      PROVE  users'[r.of.key] = Absent
  <2>1. users[r.of.key] = Absent
    BY <1>6 DEF ReplyInv
  <2> QED  BY <1>2, <1>6, <2>1, AbsentStays DEF SameRegistration
<1> QED  BY <1>3, <1>4, <1>5, <1>6 DEF ReplyInv

UnderWay == QueueInv /\ RepliesInv /\ AloneInv

(* A handler starts: its call goes to the end of the queue. *)
LEMMA Starts ==
  ASSUME IInv, [Next]_vars, NEW c \in Call, CallInv(c),
         queue' = Append(queue, c), replies' = replies, users' = users, earned' = earned,
         \A k \in 1 .. Len(queue) : ~SameRegistration(queue[k], c),
         \A k \in 1 .. Len(replies) : ~SameRegistration(c, replies[k].of)
  PROVE  UnderWay'
<1>1. /\ queue \in Seq(Call)
      /\ replies \in Seq(Reply)
  BY DEF IInv, TypeOK
<1>2. /\ Len(queue') = Len(queue) + 1
      /\ \A k \in 1 .. Len(queue) + 1 : queue'[k] = IF k = Len(queue) + 1 THEN c ELSE queue[k]
  BY <1>1, Longer
<1>3. Len(queue) \in Nat /\ Len(replies) \in Nat
  BY <1>1
<1>4. \A k \in 1 .. Len(queue) : queue[k] \in Call /\ CallInv(queue[k])'
  <2> TAKE k \in 1 .. Len(queue)
  <2>1. queue[k] \in Call /\ CallInv(queue[k])
    BY <1>1 DEF IInv, QueueInv
  <2> QED  BY <2>1, CallStays
<1>5. CallInv(c)'
  BY CallStays
<1>6. QueueInv'
  BY <1>2, <1>3, <1>4, <1>5 DEF QueueInv
<1>7. RepliesInv'
  <2>1. \A k \in 1 .. Len(replies) : ReplyInv(replies[k])'
    <3> TAKE k \in 1 .. Len(replies)
    <3>1. replies[k] \in Reply /\ ReplyInv(replies[k])
      BY <1>1 DEF IInv, RepliesInv
    <3> QED  BY <3>1, ReplyStays
  <2> QED  BY <2>1 DEF RepliesInv
<1>8. AloneInv'
  <2>1. ASSUME NEW j \in 1 .. Len(queue'), NEW k \in 1 .. Len(queue'), SameRegistration(queue'[j], queue'[k])
        PROVE  j = k
    BY <1>2, <1>3, <2>1 DEF IInv, AloneInv, SameRegistration
  <2>2. ASSUME NEW j \in 1 .. Len(queue'), NEW k \in 1 .. Len(replies)
        PROVE  ~SameRegistration(queue'[j], replies[k].of)
    BY <1>2, <1>3 DEF IInv, AloneInv
  <2> QED  BY <2>1, <2>2 DEF IInv, AloneInv, SameRegistration
<1> QED  BY <1>6, <1>7, <1>8 DEF UnderWay

(* A call that is still queued, an answer that still waits, keeps what it  *)
(* knows in its new place.                                                 *)
LEMMA CallMoves ==
  ASSUME IInv, [Next]_vars, earned \subseteq earned', NEW j \in 1 .. Len(queue),
         users' = users \/ (DbExecute /\ ~SameRegistration(Head(queue), queue[j])),
         NEW k \in 1 .. Len(queue'), queue'[k] = queue[j]
  PROVE  CallInv(queue[k])'
<1>1. queue[j] \in Call
  BY DEF IInv, TypeOK
<1>2. PICK c \in Call : c = queue[j]
  BY <1>1
<1>3. CallInv(c)
  BY <1>2 DEF IInv, QueueInv
<1>4. CallInv(c)'
  BY <1>2, <1>3, CallStays
<1>5. queue'[k] = c
  BY <1>2
<1> QED  BY <1>4, <1>5 DEF CallInv, Owned

LEMMA AnswerMoves ==
  ASSUME IInv, [Next]_vars, earned \subseteq earned', NEW j \in 1 .. Len(replies),
         users' = users \/ (DbExecute /\ ~SameRegistration(Head(queue), replies[j].of)),
         NEW k \in 1 .. Len(replies'), replies'[k] = replies[j]
  PROVE  ReplyInv(replies[k])'
<1>1. replies[j] \in Reply
  BY DEF IInv, TypeOK
<1>2. PICK r \in Reply : r = replies[j]
  BY <1>1
<1>3. ReplyInv(r)
  BY <1>2 DEF IInv, RepliesInv
<1>4. ReplyInv(r)'
  BY <1>2, <1>3, ReplyStays
<1>5. replies'[k] = r
  BY <1>2
<1> QED  BY <1>4, <1>5 DEF ReplyInv, Owned

(* A handler resumes: its answer leaves the head of the replies. *)
LEMMA Resumed ==
  ASSUME IInv, [Next]_vars, replies # << >>, replies' = Tail(replies),
         queue' = queue, users' = users, earned \subseteq earned'
  PROVE  UnderWay'
<1>1. queue \in Seq(Call) /\ replies \in Seq(Reply)
  BY DEF IInv, TypeOK
<1>2. /\ Len(replies') = Len(replies) - 1
      /\ \A k \in 1 .. Len(replies) - 1 : replies'[k] = replies[k + 1] /\ k + 1 \in 1 .. Len(replies)
  BY <1>1, Shorter
<1>3. Len(queue) \in Nat /\ Len(replies) \in Nat
  BY <1>1
<1>4. QueueInv'
  BY CallMoves DEF QueueInv
<1>5. RepliesInv'
  BY <1>2, AnswerMoves DEF RepliesInv
<1>6. AloneInv'
  <2>1. ASSUME NEW j \in 1 .. Len(replies'), NEW k \in 1 .. Len(replies'),
               SameRegistration(replies'[j].of, replies'[k].of)
        PROVE  j = k
    <3>1. j + 1 \in 1 .. Len(replies) /\ k + 1 \in 1 .. Len(replies)
          /\ SameRegistration(replies[j + 1].of, replies[k + 1].of)
      BY <1>2, <2>1
    <3>2. j + 1 = k + 1
      BY <3>1 DEF IInv, AloneInv
    <3> QED  BY <3>2, <1>2, <1>3
  <2>2. ASSUME NEW j \in 1 .. Len(queue), NEW k \in 1 .. Len(replies')
        PROVE  ~SameRegistration(queue[j], replies'[k].of)
    BY <1>2 DEF IInv, AloneInv
  <2> QED  BY <2>1, <2>2 DEF IInv, AloneInv
<1> QED  BY <1>4, <1>5, <1>6 DEF UnderWay

(* The database executes a call: it moves to the replies, with its answer. *)
LEMMA Executed ==
  ASSUME IInv, DbExecute, [Next]_vars
  PROVE  UnderWay'
<1>1. queue \in Seq(Call) /\ replies \in Seq(Reply) /\ queue # << >>
  BY DEF IInv, TypeOK, DbExecute
<1>2. /\ Len(Tail(queue)) = Len(queue) - 1
      /\ \A k \in 1 .. Len(queue) - 1 : Tail(queue)[k] = queue[k + 1] /\ k + 1 \in 1 .. Len(queue)
      /\ Head(queue) = queue[1] /\ 1 \in 1 .. Len(queue) /\ Head(queue) \in Call
  BY <1>1, Shorter
<1>3. Len(queue) \in Nat /\ Len(replies) \in Nat
  BY <1>1
<1>c. PICK c \in Call : c = Head(queue)
  BY <1>2
<1>5. CallInv(c)
  BY <1>2, <1>c DEF IInv, QueueInv
<1>6. c.key \in Keys /\ c.call \in {"get", "insert", "update"}
      /\ (c.kind = "login" => c.call = "get")
      /\ (c.kind = "save" => c.call = "update")
      /\ (c.kind = "register" => c.call \in {"get", "insert"})
      /\ (c.kind \in {"save", "register"} => c.row \in Row)
  BY DEF Call, Keys
<1>7. users \in [Keys -> Row \cup {Absent}]
  BY DEF IInv, TypeOK
<1>8. users' = CASE c.call = "insert" -> [users EXCEPT ![c.key] = c.row]
                 [] c.call = "update" -> [users EXCEPT ![c.key] = IF @ = Absent THEN @ ELSE c.row]
                 [] OTHER -> users
  BY <1>c DEF DbExecute
<1>9. PICK r \in Reply : r = [of |-> c, answer |-> IF c.call = "get" THEN users[c.key] ELSE Absent]
  <2>1. (IF c.call = "get" THEN users[c.key] ELSE Absent) \in Row \cup {Absent}
    BY <1>6, <1>7
  <2> QED  BY <2>1 DEF Reply
<1>0. r.of = c /\ r.answer = IF c.call = "get" THEN users[c.key] ELSE Absent
  BY <1>9
<1>4. queue' = Tail(queue) /\ replies' = Append(replies, r) /\ earned' = earned
  BY <1>c, <1>9 DEF DbExecute
<1>10. /\ Len(Append(replies, r)) = Len(replies) + 1
       /\ \A k \in 1 .. Len(replies) + 1 : Append(replies, r)[k] = IF k = Len(replies) + 1 THEN r ELSE replies[k]
  BY <1>1, Longer
<1>11. \A k \in 1 .. Len(queue) - 1 : ~SameRegistration(c, queue[k + 1])
  <2> TAKE k \in 1 .. Len(queue) - 1
  <2>1. k + 1 \in 1 .. Len(queue) /\ 1 \in 1 .. Len(queue) /\ 1 # k + 1
    BY <1>2, <1>3
  <2> QED  BY <1>2, <1>c, <2>1 DEF IInv, AloneInv
<1>12. \A k \in 1 .. Len(replies) : ~SameRegistration(c, replies[k].of)
  BY <1>2, <1>c DEF IInv, AloneInv
<1>13. QueueInv'
  BY <1>2, <1>4, <1>c, <1>11, CallMoves DEF QueueInv
<1>14. ReplyInv(r)'
  <2>1. CASE c.kind = "login"
    <3>1. users' = users /\ r.answer = users[c.key] /\ r.of = c
      BY <1>0, <1>6, <1>8, <2>1
    <3>2. r.answer # Absent => Owned(r.answer)
      BY <1>6, <3>1 DEF IInv, TableInv, Owned
    <3> QED  BY <2>1, <3>1, <3>2 DEF ReplyInv, Owned
  <2>2. CASE c.kind = "register" /\ c.call = "get"
    <3>1. users' = users /\ r.answer = users[c.key] /\ r.of = c
      BY <1>0, <1>8, <2>2
    <3> QED  BY <1>5, <2>2, <3>1 DEF ReplyInv, CallInv
  <2>3. CASE c.kind = "register" /\ c.call = "insert"
    <3>1. users' = [users EXCEPT ![c.key] = c.row] /\ r.of = c
      BY <1>0, <1>8, <2>3
    <3>2. c.row.id = c.key /\ c.row \in Row
      BY <1>5, <1>6, <2>3 DEF CallInv
    <3>3. users'[c.key] = c.row /\ c.row # Absent
      BY <1>6, <1>7, <3>1, <3>2, AbsentAssumption
    <3>4. Owned(c.row)'
      BY <3>2, <3>3 DEF Owned
    <3> QED  BY <2>3, <3>1, <3>2, <3>4 DEF ReplyInv
  <2>4. CASE c.kind = "save"
    <3>1. r.of = c /\ c.row \in Row /\ Owned(c.row) /\ c.row.id = c.key /\ c.key \in earned
      BY <1>0, <1>5, <1>6, <2>4 DEF CallInv
    <3>2. Owned(c.row)'
      BY <3>1, OwnedStays
    <3> QED  BY <1>4, <2>4, <3>1, <3>2 DEF ReplyInv
  <2>5. c.kind \in {"login", "register", "save"}
    BY DEF Call
  <2> QED  BY <1>6, <2>1, <2>2, <2>3, <2>4, <2>5
<1>15. RepliesInv'
  <2> SUFFICES ASSUME NEW k \in 1 .. Len(replies') PROVE ReplyInv(replies[k])'
    BY DEF RepliesInv
  <2>1. CASE k = Len(replies) + 1
    <3>1. replies'[k] = r
      BY <1>3, <1>4, <1>10, <2>1
    <3> QED  BY <1>14, <3>1 DEF ReplyInv, Owned
  <2>2. CASE k # Len(replies) + 1
    <3>1. k \in 1 .. Len(replies) /\ replies'[k] = replies[k]
      BY <1>3, <1>4, <1>10, <2>2
    <3> QED  BY <1>4, <1>12, <1>c, <3>1, AnswerMoves
  <2> QED  BY <2>1, <2>2
<1>16. AloneInv'
  <2>1. ASSUME NEW j \in 1 .. Len(queue'), NEW k \in 1 .. Len(queue'), SameRegistration(queue'[j], queue'[k])
        PROVE  j = k
    <3>1. j + 1 \in 1 .. Len(queue) /\ k + 1 \in 1 .. Len(queue)
          /\ SameRegistration(queue[j + 1], queue[k + 1])
      BY <1>2, <1>4, <2>1
    <3>2. j + 1 = k + 1
      BY <3>1 DEF IInv, AloneInv
    <3> QED  BY <3>2, <1>2, <1>3, <1>4
  <2>2. ASSUME NEW j \in 1 .. Len(replies'), NEW k \in 1 .. Len(replies'),
               SameRegistration(replies'[j].of, replies'[k].of)
        PROVE  j = k
    BY <1>3, <1>4, <1>10, <1>12, <1>0, <2>2 DEF IInv, AloneInv, SameRegistration
  <2>3. ASSUME NEW j \in 1 .. Len(queue'), NEW k \in 1 .. Len(replies')
        PROVE  ~SameRegistration(queue'[j], replies'[k].of)
    <3>1. j \in 1 .. Len(queue) - 1 /\ j + 1 \in 1 .. Len(queue) /\ queue'[j] = queue[j + 1]
      BY <1>2, <1>4
    <3>2. CASE k = Len(replies) + 1
      <4>1. replies'[k].of = c
        BY <1>3, <1>4, <1>10, <1>0, <3>2
      <4> QED  BY <1>11, <3>1, <4>1 DEF SameRegistration
    <3>3. CASE k # Len(replies) + 1
      <4>1. k \in 1 .. Len(replies) /\ replies'[k] = replies[k]
        BY <1>3, <1>4, <1>10, <3>3
      <4> QED  BY <3>1, <4>1 DEF IInv, AloneInv
    <3> QED  BY <3>2, <3>3
  <2> QED  BY <2>1, <2>2, <2>3 DEF AloneInv
<1> QED  BY <1>13, <1>15, <1>16 DEF UnderWay

(* A registration that found no account sends its insert: it leaves the    *)
(* replies for the end of the queue.                                       *)
LEMMA Inserts ==
  ASSUME IInv, [Next]_vars, RegisterChecked, Head(replies).answer = Absent
  PROVE  UnderWay'
<1>1. queue \in Seq(Call) /\ replies \in Seq(Reply) /\ replies # << >>
  BY DEF IInv, TypeOK, RegisterChecked, Resumes
<1>2. /\ Len(Tail(replies)) = Len(replies) - 1
      /\ \A k \in 1 .. Len(replies) - 1 : Tail(replies)[k] = replies[k + 1] /\ k + 1 \in 1 .. Len(replies)
      /\ Head(replies) = replies[1] /\ 1 \in 1 .. Len(replies) /\ Head(replies) \in Reply
  BY <1>1, Shorter
<1>3. Len(queue) \in Nat /\ Len(replies) \in Nat
  BY <1>1
<1>4. PICK r \in Reply : r = Head(replies)
  BY <1>2
<1>5. ReplyInv(r) /\ r.of \in Call /\ r.of.kind = "register" /\ r.of.call = "get" /\ r.answer = Absent
  BY <1>2, <1>4 DEF IInv, RepliesInv, RegisterChecked, Resumes, Reply
<1>6. PICK c \in Call : c = [r.of EXCEPT !.call = "insert"]
  BY <1>5 DEF Call
<1>7. c.kind = "register" /\ c.call = "insert" /\ c.key = r.of.key /\ c.row = r.of.row
  BY <1>5, <1>6 DEF Call
<1>8. CallInv(c)
  BY <1>5, <1>7 DEF CallInv, ReplyInv
<1>9. queue' = Append(queue, c) /\ replies' = Tail(replies) /\ users' = users /\ earned' = earned
  BY <1>4, <1>6 DEF RegisterChecked, Resumes
<1>10. /\ Len(Append(queue, c)) = Len(queue) + 1
       /\ \A k \in 1 .. Len(queue) + 1 : Append(queue, c)[k] = IF k = Len(queue) + 1 THEN c ELSE queue[k]
  BY <1>1, Longer
<1>11. \A k \in 1 .. Len(queue) : ~SameRegistration(queue[k], c) /\ ~SameRegistration(c, queue[k])
  BY <1>2, <1>4, <1>5, <1>7 DEF IInv, AloneInv, SameRegistration
<1>12. \A k \in 1 .. Len(replies) - 1 : ~SameRegistration(c, replies[k + 1].of)
  <2> TAKE k \in 1 .. Len(replies) - 1
  <2>1. k + 1 \in 1 .. Len(replies) /\ 1 \in 1 .. Len(replies) /\ 1 # k + 1
    BY <1>2, <1>3
  <2>2. ~SameRegistration(replies[1].of, replies[k + 1].of)
    BY <2>1 DEF IInv, AloneInv
  <2> QED  BY <1>2, <1>4, <1>5, <1>7, <2>2 DEF SameRegistration
<1>13. QueueInv'
  <2> SUFFICES ASSUME NEW k \in 1 .. Len(queue') PROVE CallInv(queue[k])'
    BY DEF QueueInv
  <2>1. CASE k = Len(queue) + 1
    <3>1. queue'[k] = c
      BY <1>3, <1>9, <1>10, <2>1
    <3>2. CallInv(c)'
      BY <1>8, <1>9, CallStays
    <3> QED  BY <3>1, <3>2 DEF CallInv, Owned
  <2>2. CASE k # Len(queue) + 1
    <3>1. k \in 1 .. Len(queue) /\ queue'[k] = queue[k]
      BY <1>3, <1>9, <1>10, <2>2
    <3> QED  BY <1>9, <3>1, CallMoves
  <2> QED  BY <2>1, <2>2
<1>14. RepliesInv'
  BY <1>2, <1>9, AnswerMoves DEF RepliesInv
<1>15. AloneInv'
  <2>1. ASSUME NEW j \in 1 .. Len(queue'), NEW k \in 1 .. Len(queue'), SameRegistration(queue'[j], queue'[k])
        PROVE  j = k
    BY <1>3, <1>9, <1>10, <1>11, <2>1 DEF IInv, AloneInv
  <2>2. ASSUME NEW j \in 1 .. Len(replies'), NEW k \in 1 .. Len(replies'),
               SameRegistration(replies'[j].of, replies'[k].of)
        PROVE  j = k
    <3>1. j + 1 \in 1 .. Len(replies) /\ k + 1 \in 1 .. Len(replies)
          /\ SameRegistration(replies[j + 1].of, replies[k + 1].of)
      BY <1>2, <1>9, <2>2
    <3>2. j + 1 = k + 1
      BY <3>1 DEF IInv, AloneInv
    <3> QED  BY <3>2, <1>2, <1>3, <1>9
  <2>3. ASSUME NEW j \in 1 .. Len(queue'), NEW k \in 1 .. Len(replies')
        PROVE  ~SameRegistration(queue'[j], replies'[k].of)
    <3>1. k \in 1 .. Len(replies) - 1 /\ k + 1 \in 1 .. Len(replies) /\ replies'[k] = replies[k + 1]
      BY <1>2, <1>9
    <3>2. CASE j = Len(queue) + 1
      BY <1>3, <1>9, <1>10, <1>12, <3>1, <3>2
    <3>3. CASE j # Len(queue) + 1
      <4>1. j \in 1 .. Len(queue) /\ queue'[j] = queue[j]
        BY <1>3, <1>9, <1>10, <3>3
      <4> QED  BY <3>1, <4>1 DEF IInv, AloneInv
    <3> QED  BY <3>2, <3>3
  <2> QED  BY <2>1, <2>2, <2>3 DEF AloneInv
<1> QED  BY <1>13, <1>14, <1>15 DEF UnderWay

(* A call fails: it leaves the queue and nothing else changes. *)
LEMMA Failed ==
  ASSUME IInv, [Next]_vars, DbFail
  PROVE  UnderWay'
<1>1. queue \in Seq(Call) /\ replies \in Seq(Reply) /\ queue # << >>
  BY DEF IInv, TypeOK, DbFail
<1>2. /\ Len(Tail(queue)) = Len(queue) - 1
      /\ \A k \in 1 .. Len(queue) - 1 : Tail(queue)[k] = queue[k + 1] /\ k + 1 \in 1 .. Len(queue)
  BY <1>1, Shorter
<1>3. queue' = Tail(queue) /\ replies' = replies /\ users' = users /\ earned' = earned
  BY DEF DbFail
<1>4. Len(queue) \in Nat
  BY <1>1
<1>5. QueueInv'
  BY <1>2, <1>3, CallMoves DEF QueueInv
<1>6. RepliesInv'
  BY <1>3, AnswerMoves DEF RepliesInv
<1>7. AloneInv'
  <2>1. ASSUME NEW j \in 1 .. Len(queue'), NEW k \in 1 .. Len(queue'), SameRegistration(queue'[j], queue'[k])
        PROVE  j = k
    <3>1. j + 1 \in 1 .. Len(queue) /\ k + 1 \in 1 .. Len(queue)
          /\ SameRegistration(queue[j + 1], queue[k + 1])
      BY <1>2, <1>3, <2>1
    <3>2. j + 1 = k + 1
      BY <3>1 DEF IInv, AloneInv
    <3> QED  BY <3>2, <1>2, <1>3, <1>4
  <2>2. ASSUME NEW j \in 1 .. Len(queue'), NEW k \in 1 .. Len(replies')
        PROVE  ~SameRegistration(queue'[j], replies'[k].of)
    BY <1>2, <1>3 DEF IInv, AloneInv
  <2> QED  BY <1>3, <2>1, <2>2 DEF IInv, AloneInv
<1> QED  BY <1>5, <1>6, <1>7 DEF UnderWay

(* Whatever happens, what is under way knows what it needs. *)
LEMMA UnderWayStep ==
  ASSUME IInv, [Next]_vars
  PROVE  UnderWay'
<1>0. queue \in Seq(Call) /\ replies \in Seq(Reply)
  BY DEF IInv, TypeOK
<1>1. ASSUME NEW form \in Form, Login(form) PROVE UnderWay'
  <2>1. PICK c \in Call : c = [kind |-> "login", call |-> "get", key |-> form.name, form |-> form]
    BY DEF Call, Form
  <2>2. c.kind = "login" /\ CallInv(c)
    BY <2>1 DEF CallInv
  <2>3. queue' = Append(queue, c) /\ replies' = replies /\ users' = users /\ earned' = earned
    BY <1>1, <2>1 DEF Login, Begin
  <2> QED  BY <2>2, <2>3, Starts DEF SameRegistration
<1>2. ASSUME NEW id \in Stamps, NEW password \in Passwords,
             NEW role \in Roles, NEW profile \in Profiles,
             Register(id, password, role, profile)
      PROVE  UnderWay'
  <2>1. PICK row \in Row : row = [id |-> id, password |-> password,
                                  role |-> role, profile |-> profile]
    BY DEF Row
  <2>2. PICK c \in Call : c = [kind |-> "register", call |-> "get", key |-> id, row |-> row]
    BY DEF Call
  <2>3. CallInv(c) /\ c.kind = "register" /\ c.key = id
    BY <2>1, <2>2 DEF CallInv
  <2>4. queue' = Append(queue, c) /\ replies' = replies /\ users' = users /\ earned' = earned
        /\ id \notin Registering
    BY <1>2, <2>1, <2>2 DEF Register, Begin
  <2>5. \A k \in 1 .. Len(queue) : ~SameRegistration(queue[k], c)
    BY <2>3, <2>4 DEF Registering, SameRegistration
  <2>6. \A k \in 1 .. Len(replies) : ~SameRegistration(c, replies[k].of)
    BY <2>3, <2>4 DEF Registering, SameRegistration
  <2> QED  BY <2>3, <2>4, <2>5, <2>6, Starts
<1>3. ASSUME NEW profile \in Profiles, SaveProfile(profile) PROVE UnderWay'
  <2>1. session \in Row /\ Owned(session) /\ session.id \in earned
    BY <1>3 DEF SaveProfile, IInv, TypeOK, SessionInv
  <2>2. PICK row \in Row : row = [session EXCEPT !.profile = profile]
    BY <2>1 DEF Row
  <2>3. row.id = session.id /\ Owned(row) /\ row.id \in Seeds \cup Stamps
    BY <2>1, <2>2 DEF Owned, Row
  <2>4. PICK c \in Call : c = [kind |-> "save", call |-> "update", key |-> session.id, row |-> row]
    BY <2>3 DEF Call
  <2>5. CallInv(c) /\ c.kind = "save"
    BY <2>1, <2>3, <2>4 DEF CallInv
  <2>6. queue' = Append(queue, c) /\ replies' = replies /\ users' = users /\ earned' = earned
    BY <1>3, <2>2, <2>4 DEF SaveProfile, Begin
  <2> QED  BY <2>5, <2>6, Starts DEF SameRegistration
<1>4. CASE queue' = queue /\ replies' = replies /\ users' = users /\ earned' = earned
  <2>1. QueueInv'
    BY <1>4, CallMoves DEF QueueInv
  <2>2. RepliesInv'
    BY <1>4, AnswerMoves DEF RepliesInv
  <2> QED  BY <1>4, <2>1, <2>2 DEF UnderWay, IInv, AloneInv
<1>5. CASE DbExecute
  BY <1>5, Executed
<1>6. CASE DbFail
  BY <1>6, Failed
<1>7. CASE LoginAnswered
  BY <1>7, Resumed DEF LoginAnswered, Resumes
<1>8. CASE RegisterChecked
  <2>1. CASE Head(replies).answer = Absent
    BY <1>8, <2>1, Inserts
  <2>2. CASE Head(replies).answer # Absent
    BY <1>8, <2>2, Resumed DEF RegisterChecked, Resumes
  <2> QED  BY <2>1, <2>2
<1>9. CASE Registered
  BY <1>9, Resumed DEF Registered, Resumes
<1>10. CASE Saved
  BY <1>10, Resumed DEF Saved, Resumes
<1>11. CASE Restart
  BY <1>11 DEF Restart, UnderWay, QueueInv, RepliesInv, AloneInv
<1>12. CASE Logout \/ UNCHANGED vars
  BY <1>4, <1>12 DEF Logout, vars
<1> QED  BY <1>1, <1>2, <1>3, <1>5, <1>6, <1>7, <1>8, <1>9, <1>10, <1>11, <1>12 DEF Next

-----------------------------------------------------------------------------
(* A session, or the row an answer is about to put into session, is what   *)
(* the table holds, or a save that was executed later will replace it.     *)

Fresh(row, k) ==
  \/ users[row.id] = row
  \/ \E j \in k + 1 .. Len(replies) : replies[j].of.kind = "save" /\ replies[j].of.key = row.id

Shows(r, row) ==
  \/ r.of.kind = "login" /\ r.answer = row
  \/ r.of.kind = "register" /\ r.of.call = "insert" /\ r.of.row = row
  \/ r.of.kind = "save" /\ r.of.row = row

FreshInv ==
  /\ \A row \in Row : session = row => Fresh(row, 0)
  /\ \A row \in Row, k \in 1 .. Len(replies) : Shows(replies[k], row) => Fresh(row, k)

(* What is in session or about to be has an account. *)
LEMMA ShownIsOwned ==
  ASSUME IInv, NEW row \in Row,
         session = row \/ \E k \in 1 .. Len(replies) : Shows(replies[k], row)
  PROVE  Owned(row)
<1>1. row # Absent
  BY AbsentAssumption
<1>2. CASE session = row
  BY <1>1, <1>2 DEF IInv, SessionInv
<1>3. ASSUME NEW k \in 1 .. Len(replies), Shows(replies[k], row) PROVE Owned(row)
  BY <1>1, <1>3 DEF IInv, RepliesInv, ReplyInv, Shows
<1> QED  BY <1>2, <1>3

(* The head of the replies goes: what the others show is as fresh as before. *)
LEMMA FreshAfterHead ==
  ASSUME IInv, replies # << >>, replies' = Tail(replies), users' = users,
         NEW row \in Row, NEW k \in 0 .. Len(replies) - 1, Fresh(row, k + 1)
  PROVE  Fresh(row, k)'
<1>1. replies \in Seq(Reply)
  BY DEF IInv, TypeOK
<1>2. Len(replies) \in Nat /\ Len(replies') = Len(replies) - 1
      /\ \A j \in 1 .. Len(replies) - 1 : replies'[j] = replies[j + 1]
  BY <1>1, Shorter
<1>3. CASE users[row.id] = row
  BY <1>3 DEF Fresh
<1>4. ASSUME NEW j \in k + 2 .. Len(replies), replies[j].of.kind = "save", replies[j].of.key = row.id
      PROVE  Fresh(row, k)'
  <2>1. j - 1 \in k + 1 .. Len(replies') /\ replies'[j - 1] = replies[j]
    <3>1. j - 1 \in k + 1 .. Len(replies) - 1 /\ j - 1 \in 1 .. Len(replies) - 1 /\ (j - 1) + 1 = j
      BY <1>2
    <3> QED  BY <1>2, <3>1
  <2> QED  BY <1>4, <2>1 DEF Fresh
<1> QED  BY <1>2, <1>3, <1>4 DEF Fresh

LEMMA FreshResumed ==
  ASSUME IInv, FreshInv, replies # << >>, replies' = Tail(replies), users' = users,
         \/ session' = session /\ Head(replies).of.kind # "save"
         \/ Shows(Head(replies), session')
  PROVE  FreshInv'
<1>1. replies \in Seq(Reply)
  BY DEF IInv, TypeOK
<1>2. /\ Len(replies) \in Nat /\ Len(replies') = Len(replies) - 1
      /\ \A j \in 1 .. Len(replies) - 1 : replies'[j] = replies[j + 1] /\ j + 1 \in 1 .. Len(replies)
      /\ Head(replies) = replies[1] /\ 1 \in 1 .. Len(replies)
  BY <1>1, Shorter
<1>3. ASSUME NEW row \in Row, session' = row PROVE Fresh(row, 0)'
  <2>1. Fresh(row, 1)
    <3>1. CASE Shows(Head(replies), row)
      BY <1>2, <3>1 DEF FreshInv
    <3>2. CASE session = row /\ Head(replies).of.kind # "save"
      <4>1. Fresh(row, 0)
        BY <3>2 DEF FreshInv
      <4>2. CASE users[row.id] = row
        BY <4>2 DEF Fresh
      <4>3. ASSUME NEW j \in 1 .. Len(replies), replies[j].of.kind = "save", replies[j].of.key = row.id
            PROVE  Fresh(row, 1)
        <5>1. j \in 1 + 1 .. Len(replies)
          BY <1>2, <3>2, <4>3
        <5> QED  BY <4>3, <5>1 DEF Fresh
      <4> QED  BY <4>1, <4>2, <4>3 DEF Fresh
    <3> QED  BY <1>3, <3>1, <3>2
  <2> QED  BY <1>2, <2>1, FreshAfterHead
<1>4. ASSUME NEW row \in Row, NEW k \in 1 .. Len(replies'), Shows(replies'[k], row) PROVE Fresh(row, k)'
  <2>1. k + 1 \in 1 .. Len(replies) /\ Shows(replies[k + 1], row) /\ k \in 0 .. Len(replies) - 1
    BY <1>2, <1>4
  <2>2. Fresh(row, k + 1)
    BY <2>1 DEF FreshInv
  <2> QED  BY <2>1, <2>2, FreshAfterHead
<1> QED  BY <1>3, <1>4 DEF FreshInv, Shows

LEMMA FreshExecuted ==
  ASSUME IInv, FreshInv, DbExecute, [Next]_vars
  PROVE  FreshInv'
<1>1. queue \in Seq(Call) /\ replies \in Seq(Reply) /\ queue # << >>
  BY DEF IInv, TypeOK, DbExecute
<1>2. PICK c \in Call : c = Head(queue)
  BY <1>1, Shorter
<1>3. CallInv(c)
  BY <1>1, <1>2, Shorter DEF IInv, QueueInv
<1>4. /\ users' = CASE c.call = "insert" -> [users EXCEPT ![c.key] = c.row]
                    [] c.call = "update" -> [users EXCEPT ![c.key] = IF @ = Absent THEN @ ELSE c.row]
                    [] OTHER -> users
      /\ session' = session
  BY <1>2 DEF DbExecute
<1>5. /\ c.key \in Keys
      /\ c.call \in {"get", "insert", "update"}
      /\ c.call = "insert" => c.kind = "register" /\ c.row \in Row
      /\ c.call = "update" => c.kind = "save" /\ c.row \in Row
      /\ c.kind = "save" => c.call = "update"
  BY DEF Call, Keys
<1>6. users \in [Keys -> Row \cup {Absent}]
  BY DEF IInv, TypeOK
<1>7. PICK r \in Reply : r = [of |-> c, answer |-> IF c.call = "get" THEN users[c.key] ELSE Absent]
  <2>1. (IF c.call = "get" THEN users[c.key] ELSE Absent) \in Row \cup {Absent}
    BY <1>5, <1>6
  <2> QED  BY <2>1 DEF Reply
<1>8. r.of = c /\ r.answer = IF c.call = "get" THEN users[c.key] ELSE Absent
  BY <1>7
<1>9. replies' = Append(replies, r)
  BY <1>2, <1>7 DEF DbExecute
<1>10. /\ Len(replies) \in Nat /\ Len(replies') = Len(replies) + 1
       /\ \A k \in 1 .. Len(replies) + 1 : replies'[k] = IF k = Len(replies) + 1 THEN r ELSE replies[k]
  BY <1>1, <1>9, Longer
(* The row of an owned account: unchanged, or its save was executed now. *)
<1>11. ASSUME NEW row \in Row, Owned(row), NEW k \in 0 .. Len(replies), Fresh(row, k) PROVE Fresh(row, k)'
  <2>1. row.id \in Keys
    BY DEF Row, Keys
  <2>2. CASE c.call = "update" /\ c.key = row.id
    <3>1. replies'[Len(replies) + 1] = r /\ Len(replies) + 1 \in k + 1 .. Len(replies')
      BY <1>10
    <3> QED  BY <1>5, <1>8, <2>2, <3>1 DEF Fresh
  <2>3. CASE ~(c.call = "update" /\ c.key = row.id)
    <3>1. c.call = "insert" => c.key # row.id
      BY <1>3, <1>5, <1>11 DEF CallInv, Owned
    <3>2. users'[row.id] = users[row.id]
      <4>1. CASE c.call = "get"
        BY <1>4, <4>1
      <4>2. CASE c.call = "insert"
        <5>1. users' = [users EXCEPT ![c.key] = c.row]
          BY <1>4, <4>2
        <5> QED  BY <1>6, <2>1, <3>1, <4>2, <5>1
      <4>3. CASE c.call = "update"
        <5>1. users' = [users EXCEPT ![c.key] = IF @ = Absent THEN @ ELSE c.row]
          BY <1>4, <4>3
        <5> QED  BY <1>6, <2>1, <2>3, <4>3, <5>1
      <4> QED  BY <1>5, <4>1, <4>2, <4>3
    <3>3. ASSUME NEW j \in k + 1 .. Len(replies), replies[j].of.kind = "save", replies[j].of.key = row.id
          PROVE  Fresh(row, k)'
      <4>1. j \in k + 1 .. Len(replies') /\ replies'[j] = replies[j]
        BY <1>10
      <4> QED  BY <3>3, <4>1 DEF Fresh
    <3> QED  BY <1>11, <3>2, <3>3 DEF Fresh
  <2> QED  BY <2>2, <2>3
(* What the new answer shows is in the table now. *)
<1>12. ASSUME NEW row \in Row, Shows(r, row) PROVE users'[row.id] = row
  <2>1. row # Absent
    BY AbsentAssumption
  <2>2. CASE c.kind = "login"
    <3>1. c.call = "get" /\ users' = users /\ row = users[c.key]
      BY <1>4, <1>5, <1>8, <1>12, <2>1, <2>2 DEF Shows
    <3> QED  BY <1>5, <2>1, <3>1 DEF IInv, TableInv
  <2>3. CASE c.kind = "register"
    <3>1. c.call = "insert" /\ row = c.row /\ c.row.id = c.key
      BY <1>3, <1>8, <1>12, <2>3 DEF Shows, CallInv
    <3>2. users' = [users EXCEPT ![c.key] = c.row]
      BY <1>4, <3>1
    <3> QED  BY <1>5, <1>6, <3>1, <3>2
  <2>4. CASE c.kind = "save"
    <3>1. c.call = "update" /\ row = c.row /\ c.row.id = c.key /\ Owned(c.row)
      BY <1>3, <1>5, <1>8, <1>12, <2>4 DEF Shows, CallInv
    <3>2. users' = [users EXCEPT ![c.key] = IF @ = Absent THEN @ ELSE c.row]
      BY <1>4, <3>1
    <3> QED  BY <1>5, <1>6, <3>1, <3>2 DEF Owned
  <2> QED  BY <1>8, <1>12, <2>2, <2>3, <2>4 DEF Shows
<1>13. ASSUME NEW row \in Row, session' = row PROVE Fresh(row, 0)'
  <2>1. Owned(row) /\ Fresh(row, 0)
    BY <1>4, <1>13, ShownIsOwned DEF FreshInv
  <2> QED  BY <1>10, <1>11, <2>1
<1>14. ASSUME NEW row \in Row, NEW k \in 1 .. Len(replies'), Shows(replies'[k], row) PROVE Fresh(row, k)'
  <2>1. CASE k = Len(replies) + 1
    BY <1>10, <1>12, <1>14, <2>1 DEF Fresh
  <2>2. CASE k # Len(replies) + 1
    <3>1. k \in 1 .. Len(replies) /\ Shows(replies[k], row)
      BY <1>10, <1>14, <2>2
    <3>2. Owned(row) /\ Fresh(row, k)
      BY <3>1, ShownIsOwned DEF FreshInv
    <3> QED  BY <1>10, <1>11, <3>1, <3>2
  <2> QED  BY <2>1, <2>2
<1> QED  BY <1>13, <1>14 DEF FreshInv, Shows

LEMMA FreshStep ==
  ASSUME IInv, FreshInv, [Next]_vars
  PROVE  FreshInv'
<1>1. CASE users' = users /\ replies' = replies /\ session' \in {session, Absent}
  BY <1>1, AbsentAssumption DEF FreshInv, Fresh, Shows
<1>2. CASE DbExecute
  BY <1>2, FreshExecuted
<1>3. CASE LoginAnswered
  <2>1. users' = users /\ replies # << >> /\ replies' = Tail(replies) /\ Head(replies).of.kind = "login"
        /\ (session' = session \/ session' = Head(replies).answer)
    BY <1>3 DEF LoginAnswered, Resumes
  <2> QED  BY <2>1, FreshResumed DEF Shows
<1>4. CASE RegisterChecked
  <2>1. users' = users /\ replies # << >> /\ replies' = Tail(replies) /\ Head(replies).of.kind = "register"
        /\ session' = session
    BY <1>4 DEF RegisterChecked, Resumes
  <2> QED  BY <2>1, FreshResumed
<1>5. CASE Registered \/ Saved
  <2>1. users' = users /\ replies # << >> /\ replies' = Tail(replies) /\ Shows(Head(replies), session')
    BY <1>5 DEF Registered, Saved, Resumes, Shows
  <2> QED  BY <2>1, FreshResumed
<1>6. CASE Restart
  BY <1>6, AbsentAssumption DEF Restart, FreshInv
<1>7. \/ users' = users /\ replies' = replies /\ session' \in {session, Absent}
      \/ DbExecute \/ LoginAnswered \/ RegisterChecked \/ Registered \/ Saved \/ Restart
  BY DEF Next, vars, Login, Register, SaveProfile, Begin, Logout, DbFail
<1> QED  BY <1>1, <1>2, <1>3, <1>4, <1>5, <1>6, <1>7

-----------------------------------------------------------------------------
(* The theorems *)

LEMMA InvInit == Init => IInv
<1> SUFFICES ASSUME Init PROVE IInv
  OBVIOUS
<1>1. TypeOK
  BY BoundsAssumption DEF Init, TypeOK
<1>2. TableInv
  BY DEF Init, TableInv
<1>3. SessionInv
  BY DEF Init, SessionInv
<1>4. QueueInv /\ RepliesInv /\ AloneInv
  BY DEF Init, QueueInv, RepliesInv, AloneInv
<1> QED  BY <1>1, <1>2, <1>3, <1>4 DEF IInv

LEMMA InvStep == IInv /\ [Next]_vars => IInv'
<1> SUFFICES ASSUME IInv, [Next]_vars PROVE IInv'
  OBVIOUS
<1>1. TypeOK'
  BY TypeStep DEF IInv
<1>2. TableInv' /\ SessionInv' /\ UnderWay'
  BY TableStep, SessionStep, UnderWayStep
<1> QED  BY <1>1, <1>2 DEF IInv, UnderWay

LEMMA InvAlways == Spec => []IInv
BY InvInit, InvStep, PTL DEF Spec

(* The variables hold what their types say. *)
THEOREM AccountTypes == Spec => []TypeOK
<1>1. IInv => TypeOK
  BY DEF IInv
<1> QED  BY <1>1, InvAlways, PTL

(* Whoever is in session has an account, whatever registrations, saves,    *)
(* failed calls and kills overlapped (register and updateUser of           *)
(* auth_provider.dart).                                                    *)
THEOREM SessionsHaveAccounts == Spec => []SessionHasAccount
<1>1. IInv => SessionHasAccount
  BY DEF IInv, SessionInv, Owned, SessionHasAccount
<1> QED  BY <1>1, InvAlways, PTL

(* Nobody is in session who has not given a password or registered since   *)
(* the app was started (login of auth_service.dart, and _saveProfile,      *)
(* which may bring a session back after a logout).                         *)
THEOREM SessionsAreEarned == Spec => []SessionIsEarned
<1>1. IInv => SessionIsEarned
  BY DEF IInv, SessionInv, SessionIsEarned
<1> QED  BY <1>1, InvAlways, PTL

(* No registration and no save changes the password or the role of an      *)
(* account that is there (auth_provider.dart:74-80).                       *)
THEOREM OwnersKeepAccounts == Spec => AccountsKeepTheirOwner
<1>1. IInv /\ [Next]_vars =>
        [\A k \in Keys : users[k] # Absent =>
           /\ users'[k] # Absent
           /\ users'[k].password = users[k].password
           /\ users'[k].role = users[k].role]_vars
  BY StepKeepsOwners
<1> QED  BY <1>1, InvAlways, PTL DEF Spec, AccountsKeepTheirOwner

(* When nothing is under way the user in session is the row of the table:  *)
(* a login that read the row before a save was executed is overtaken by    *)
(* that save's own answer (updateUser of auth_provider.dart, which sets    *)
(* _user after the write).                                                 *)
THEOREM QuietSessionsAreCurrent == Spec => []QuietSessionIsCurrent
<1>1. Init => FreshInv
  BY AbsentAssumption DEF Init, FreshInv
<1>2. IInv /\ FreshInv /\ [Next]_vars => FreshInv'
  BY FreshStep
<1>3. IInv /\ FreshInv => QuietSessionIsCurrent
  <2> SUFFICES ASSUME IInv, FreshInv, Quiet, session # Absent PROVE users[session.id] = session
    BY DEF QuietSessionIsCurrent
  <2>1. session \in Row /\ Len(replies) = 0
    BY DEF IInv, TypeOK, Quiet
  <2>2. Fresh(session, 0)
    BY <2>1 DEF FreshInv
  <2> QED  BY <2>1, <2>2 DEF Fresh
<1> QED  BY <1>1, <1>2, <1>3, InvAlways, PTL DEF Spec
=============================================================================
