--------------------------- MODULE InvitationsProofs ---------------------------
(* The safety of Invitations, for any number of invitations, calls and addresses. *)
EXTENDS Invitations, TLAPS

\* Who has the lock of a row keeps it pending.
RowsInv == \A j \in Invites : owner[j] # Nobody => row[j].state = "pending"

\* What a create_invitation has still to do about the invitations it must supersede.
Superseded(i, j) == j \in todo[i] \/ owner[j] = i \/ row[j].state \in {"revoked", "accepted"}
CreateInv(i) ==
  /\ pc[i] # "done" => row[i].state = "absent"
  /\ \A j \in known[i] : row[j].state # "absent"
  /\ pc[i] \in {"revoke", "insert"} =>
       \A j \in known[i] : PartyOf(j) = PartyOf(i) => Superseded(i, j)
  /\ pc[i] = "insert" => todo[i] = {}
  /\ i \notin Opening /\ row[i].state # "absent" => known[i] \cap Pending(PartyOf(i)) = {}

\* What an accept_invitation knows of its invitation and of its account.
AcceptInv(t) ==
  t \notin Bootstraps =>
    /\ pc[t] \in {"account", "user", "member", "commit"} =>
         cmd[t].token \in Invites /\ owner[cmd[t].token] = t
    /\ pc[t] = "user" => cmd[t].session = Nobody
    /\ pc[t] \in {"member", "commit"} =>
         IF cmd[t].session = Nobody THEN t \in fresh ELSE cmd[t].session = EmailOf(t)
    /\ pc[t] = "commit" => /\ member[PartyOf(cmd[t].token)] = Nobody
                           /\ Joining(t) = {}

\* An account that is being inserted is the only one of its email.
FreshInv(t) ==
  /\ t \in fresh => /\ pc[t] \in {"member", "commit"}
                    /\ account[EmailOf(t)] = Nobody
                    /\ \A u \in fresh : EmailOf(u) = EmailOf(t) => u = t
  /\ t \in Bootstraps /\ pc[t] = "commit" => t \in fresh
  /\ \A e \in Emails : account[e] = t => pc[t] = "done"

AnswerInv(t) ==
  answer[t] = "accepted" =>
    /\ pc[t] = "done" /\ t \notin Bootstraps
    /\ cmd[t].token \in Invites /\ row[cmd[t].token].state = "accepted"

CallInv(t) == AcceptInv(t) /\ FreshInv(t) /\ AnswerInv(t)

MembersInv == \A x \in OpeningMembers : member[x] # Nobody

IInv ==
  /\ TypeOK
  /\ RowsInv
  /\ \A i \in Invites : CreateInv(i)
  /\ \A t \in Calls : CallInv(t)
  /\ MembersInv
  /\ JoinedByOneInvitation
  /\ AcceptedAsThemselves

-------------------------------------------------------------------------------
(* What the assumptions say of the constants *)

LEMMA InvitedParty ==
  \A i \in Invites : /\ Invited[i].org \in Orgs /\ Invited[i].email \in Emails
                     /\ Invited[i].role \in Roles /\ PartyOf(i) \in Party
  BY InvitationAssumption DEF PartyOf, Party

LEMMA CommandOfAccept ==
  ASSUME TypeOK, NEW t \in Calls, t \notin Bootstraps
  PROVE  /\ cmd[t].token \in Invites \cup {NoInvite}
         /\ cmd[t].password \in BOOLEAN
         /\ cmd[t].session \in Emails \cup {Nobody}
         /\ cmd[t].token \in Invites => EmailOf(t) = Invited[cmd[t].token].email
                                        /\ EmailOf(t) \in Emails
  <1>1. cmd[t] \in Command
    BY InvitationAssumption DEF TypeOK, Bootstraps
  <1> QED
    BY <1>1, InvitedParty DEF Command, EmailOf

LEMMA CommandOfBootstrap ==
  ASSUME TypeOK, NEW t \in Bootstraps
  PROVE  /\ t \in Calls /\ cmd[t].organization \in Orgs /\ cmd[t].email \in Emails
         /\ EmailOf(t) = cmd[t].email
         /\ Founded(t) \in Party \ OpeningMembers
         /\ \A i \in Invites : PartyOf(i) # Founded(t)
         /\ \A u \in Bootstraps \ {t} : Founded(u) # Founded(t)
  <1>1. t \in Calls /\ cmd[t] \in Founding /\ cmd \in Commands
    BY DEF TypeOK, Bootstraps
  <1>2. cmd[t].organization \in Orgs /\ cmd[t].email \in Emails
    BY <1>1 DEF Founding
  <1>3. /\ \A i \in Invites : Invited[i].org # cmd[t].organization
        /\ \A e \in Emails : <<cmd[t].organization, e>> \notin OpeningMembers
        /\ \A u \in Calls \ {t} :
             cmd[u] \in Founding => cmd[u].organization # cmd[t].organization
    BY <1>1, InvitationAssumption
  <1> QED
    BY <1>1, <1>2, <1>3 DEF Bootstraps, EmailOf, Party, Founded, PartyOf

\* Nobody joins an organization before it is founded.
LEMMA NotFoundedYet ==
  ASSUME IInv, NEW t \in Bootstraps, pc[t] # "done"
  PROVE  member[Founded(t)] = Nobody
  <1>1. account[cmd[t].email] # t
    BY CommandOfBootstrap DEF IInv, CallInv, FreshInv
  <1> QED
    BY <1>1, CommandOfBootstrap DEF IInv, JoinedByOneInvitation, Accepted

-------------------------------------------------------------------------------
LEMMA InitInv == Init => IInv
  <1> SUFFICES ASSUME Init
               PROVE  IInv
    OBVIOUS
  <1>1. TypeOK
    BY InvitationAssumption
    DEF Init, TypeOK, States, Steps, Outcomes, Processes
  <1>2. RowsInv
    BY DEF Init, RowsInv
  <1>3. \A i \in Invites : CreateInv(i)
    BY DEF Init, CreateInv, Processes
  <1>4. \A t \in Calls : pc[t] = "start" /\ answer[t] = "pending"
    BY InvitationAssumption DEF Init, Processes
  <1>5. \A t \in Calls : CallInv(t)
    BY <1>4, InvitationAssumption DEF Init, CallInv, AcceptInv, FreshInv, AnswerInv
  <1>6. MembersInv
    BY InvitationAssumption DEF Init, MembersInv
  <1>7. Accepted = {} /\ \A e \in Emails : account[e] \notin Calls
    BY InvitationAssumption DEF Init, Accepted
  <1>8. JoinedByOneInvitation
    <2>1. \A x \in Party \ OpeningMembers : member[x] = Nobody
      BY DEF Init
    <2>2. \A t \in Bootstraps : account[cmd[t].email] # t
      BY <1>1, <1>7, CommandOfBootstrap
    <2> QED
      BY <1>7, <2>1, <2>2 DEF JoinedByOneInvitation
  <1>9. AcceptedAsThemselves
    BY <1>4 DEF AcceptedAsThemselves
  <1> QED
    BY <1>1, <1>2, <1>3, <1>5, <1>6, <1>8, <1>9 DEF IInv
-------------------------------------------------------------------------------
(* Types *)

LEMMA ReleaseTypes ==
  ASSUME TypeOK, NEW p \in Processes, Release(p)
  PROVE  /\ now' \in [Processes -> Nat]
         /\ todo' \in [Invites -> SUBSET Invites]
         /\ owner' \in [Invites -> Processes \cup {Nobody}]
         /\ fresh' \subseteq Calls
  BY DEF TypeOK, Release

LEMMA TellTypes ==
  ASSUME TypeOK, NEW p \in Processes, NEW o \in Outcomes, Tell(p, o)
  PROVE  /\ pc' \in [Processes -> Steps] /\ answer' \in [Processes -> Outcomes]
         /\ pc'[p] = "done" /\ answer'[p] = o
         /\ \A q \in Processes \ {p} : pc'[q] = pc[q] /\ answer'[q] = answer[q]
  BY DEF TypeOK, Tell, Steps

-------------------------------------------------------------------------------
(* Steps that leave the tables alone *)

\* The properties of the tables and the answers need nothing else.
LEMMA TablesKept ==
  ASSUME IInv, UNCHANGED <<tables, cmd>>,
         \A t \in Calls : answer'[t] = "accepted" => answer[t] = "accepted"
  PROVE  MembersInv' /\ JoinedByOneInvitation' /\ AcceptedAsThemselves'
  BY DEF IInv, tables, MembersInv, JoinedByOneInvitation, AcceptedAsThemselves, Accepted,
         PartyOf, EmailOf, Bootstraps, Founded

\* The call raises, or is a victim, or is lost.
LEMMA FinishInv ==
  ASSUME IInv, NEW p \in Processes, NEW o \in Outcomes \ {"accepted"}, Finish(p, o)
  PROVE  IInv'
  <1>1. /\ UNCHANGED <<tables, cmd, clock, known>>
        /\ pc'[p] = "done" /\ \A q \in Processes \ {p} : pc'[q] = pc[q]
        /\ \A t \in Calls : answer'[t] = "accepted" => answer[t] = "accepted"
        /\ \A i \in Invites : owner'[i] = IF owner[i] = p THEN Nobody ELSE owner[i]
        /\ \A i \in Invites : todo'[i] = IF i = p THEN {} ELSE todo[i]
        /\ fresh' = fresh \ {p}
    BY DEF IInv, TypeOK, Finish, Tell, Release, Processes
  <1>2. TypeOK'
    BY DEF IInv, TypeOK, Finish, Tell, Release, Steps, tables
  <1>3. RowsInv'
    BY <1>1 DEF IInv, RowsInv, tables
  <1>4. ASSUME NEW i \in Invites
        PROVE  CreateInv(i)'
    <2>1. /\ known[i] \subseteq Invites /\ CreateInv(i) /\ i # Nobody
          /\ known'[i] = known[i] /\ Pending(PartyOf(i))' = Pending(PartyOf(i))
      BY <1>1, InvitationAssumption DEF IInv, TypeOK, Pending, PartyOf, tables
    <2>2. CASE i = p
      BY <1>1, <2>1, <2>2 DEF CreateInv, tables
    <2>3. CASE i # p
      <3>1. pc'[i] = pc[i] /\ \A j \in known[i] : Superseded(i, j) => Superseded(i, j)'
        BY <1>1, <2>1, <2>3 DEF Superseded, tables, Processes
      <3>2. pc[i] = "insert" => todo'[i] = {}
        BY <1>1, <2>1 DEF CreateInv
      <3> QED
        BY <1>1, <2>1, <3>1, <3>2 DEF CreateInv, tables, PartyOf
    <2> QED
      BY <2>2, <2>3
  <1>5. ASSUME NEW t \in Calls
        PROVE  CallInv(t)'
    <2>1. CallInv(t)
      BY DEF IInv
    <2>2. AcceptInv(t)'
      BY <1>1, <2>1 DEF CallInv, AcceptInv, Bootstraps, tables, EmailOf, PartyOf, Joining, Processes
    <2>3. FreshInv(t)'
      BY <1>1, <2>1 DEF CallInv, FreshInv, Bootstraps, tables, EmailOf, Processes
    <2>4. AnswerInv(t)'
      BY <1>1, <2>1 DEF CallInv, AnswerInv, Bootstraps, tables, Processes
    <2> QED
      BY <2>2, <2>3, <2>4 DEF CallInv
  <1> QED
    BY <1>1, <1>2, <1>3, <1>4, <1>5, TablesKept DEF IInv

LEMMA TickInv == IInv /\ (Tick \/ UNCHANGED vars) => IInv'
  <1> SUFFICES ASSUME IInv, Tick \/ UNCHANGED vars
               PROVE  IInv'
    OBVIOUS
  <1>1. UNCHANGED <<tables, pc, open, cmd, answer, known>> /\ clock' \in Nat
    BY DEF IInv, TypeOK, Tick, vars
  <1>2. TypeOK' /\ RowsInv'
    BY <1>1 DEF IInv, TypeOK, RowsInv, tables, open
  <1>3. \A i \in Invites : CreateInv(i)'
    BY <1>1 DEF IInv, CreateInv, Superseded, tables, open, Pending, PartyOf
  <1>4. \A t \in Calls : CallInv(t)'
    BY <1>1 DEF IInv, CallInv, AcceptInv, FreshInv, AnswerInv, Bootstraps, tables, open, EmailOf,
                PartyOf, Joining
  <1> QED
    BY <1>1, <1>2, <1>3, <1>4, TablesKept DEF IInv

\* A statement of create_invitation before its last.
LEMMA CreatingInv ==
  ASSUME IInv, NEW i \in Invites, BeginCreate(i) \/ Snapshot(i) \/ Revoke(i)
  PROVE  IInv'
  <1>1. /\ UNCHANGED <<tables, cmd, clock, answer, fresh>>
        /\ \A t \in Calls : pc'[t] = pc[t]
        /\ \A j \in Invites : owner[j] \notin {i, Nobody} => owner'[j] = owner[j]
        /\ \A j \in Invites : owner'[j] # owner[j] => owner'[j] = i /\ row[j].state = "pending"
        /\ \A j \in Invites \ {i} : /\ pc'[j] = pc[j] /\ known'[j] = known[j]
                                    /\ todo'[j] = todo[j]
    BY InvitationAssumption
    DEF IInv, TypeOK, BeginCreate, Snapshot, Revoke, Goto, Free, Processes
  <1>2. TypeOK'
    <2>1. CASE BeginCreate(i)
      BY <2>1 DEF IInv, TypeOK, BeginCreate, Goto, Steps, Processes, tables
    <2>2. CASE Snapshot(i)
      BY <2>2 DEF IInv, TypeOK, Snapshot, Goto, Steps, Processes, tables, Pending
    <2>3. CASE Revoke(i)
      BY <2>3 DEF IInv, TypeOK, Revoke, Goto, Steps, Processes, tables
    <2> QED
      BY <2>1, <2>2, <2>3
  <1>3. RowsInv'
    BY <1>1 DEF IInv, RowsInv, tables
  <1>4. ASSUME NEW j \in Invites \ {i}
        PROVE  CreateInv(j)'
    <2>1. \A k \in Invites : owner[k] = j => owner'[k] = j
      BY <1>1, <1>4, InvitationAssumption
    <2> QED
      BY <1>1, <1>4, <2>1 DEF IInv, TypeOK, CreateInv, Superseded, tables, Pending, PartyOf
  <1>5. CreateInv(i)'
    <2>1. CASE BeginCreate(i)
      BY <1>1, <2>1 DEF IInv, TypeOK, CreateInv, BeginCreate, Goto, tables, Processes
    <2>2. CASE Snapshot(i)
      BY <1>1, <2>2
      DEF IInv, TypeOK, CreateInv, Superseded, Snapshot, Goto, tables, Pending, PartyOf, States,
          Processes
    <2>3. CASE Revoke(i)
      <3>1. PICK j \in todo[i] :
              /\ owner' = IF row[j].state = "pending" THEN [owner EXCEPT ![j] = i] ELSE owner
              /\ todo' = [todo EXCEPT ![i] = @ \ {j}]
              /\ pc' = [pc EXCEPT ![i] = IF todo[i] = {j} THEN "insert" ELSE "revoke"]
        BY <2>3 DEF Revoke, Goto
      <3>2. /\ todo'[i] = todo[i] \ {j} /\ pc'[i] = IF todo[i] = {j} THEN "insert" ELSE "revoke"
            /\ known' = known /\ CreateInv(i) /\ pc[i] = "revoke" /\ j \in Invites
        BY <2>3, <3>1 DEF IInv, TypeOK, Revoke, Processes
      <3>3. ASSUME NEW k \in known[i], Superseded(i, k)
            PROVE  Superseded(i, k)'
        <4>1. k \in Invites /\ row[k].state \in States \ {"absent"}
          BY <3>2 DEF CreateInv, IInv, TypeOK
        <4>2. CASE k = j
          BY <1>1, <3>1, <3>2, <4>1, <4>2 DEF Superseded, States, tables, IInv, TypeOK
        <4>3. CASE k # j
          BY <1>1, <3>1, <3>2, <3>3, <4>1, <4>3 DEF Superseded, tables, IInv, TypeOK
        <4> QED
          BY <4>2, <4>3
      <3> QED
        BY <1>1, <3>2, <3>3 DEF CreateInv, tables, PartyOf, Pending
    <2> QED
      BY <2>1, <2>2, <2>3
  <1>6. ASSUME NEW t \in Calls
        PROVE  CallInv(t)'
    <2>1. CallInv(t) /\ t # i /\ t # Nobody
      BY InvitationAssumption DEF IInv
    <2>2. AcceptInv(t)'
      BY <1>1, <2>1 DEF CallInv, AcceptInv, Bootstraps, tables, EmailOf, PartyOf, Joining
    <2> QED
      BY <1>1, <2>1, <2>2 DEF CallInv, FreshInv, AnswerInv, Bootstraps, tables, EmailOf
  <1> QED
    BY <1>1, <1>2, <1>3, <1>4, <1>5, <1>6, TablesKept DEF IInv

\* A statement of accept_invitation or bootstrap_organization that goes on to the next.
OnwardOf(t, next) ==
  /\ Goto(t, next)
  /\ UNCHANGED <<todo, known>>
  /\ now' \in [Processes -> Nat]

LEMMA OnwardInv ==
  ASSUME IInv, NEW t \in Calls, NEW next \in {"lock", "account", "user", "member", "commit"},
         OnwardOf(t, next),
         \/ UNCHANGED owner
         \/ \E i \in Invites : /\ owner' = [owner EXCEPT ![i] = t]
                               /\ owner[i] \in {t, Nobody} /\ row[i].state = "pending",
         \/ UNCHANGED fresh
         \/ /\ fresh' = fresh \cup {t} /\ account[EmailOf(t)] = Nobody
            /\ \A u \in fresh : EmailOf(u) # EmailOf(t)
            /\ next \in {"member", "commit"},
         t \in fresh => next \in {"member", "commit"},
         pc[t] # "done",
         t \in Bootstraps /\ next = "commit" => t \in fresh',
         AcceptInv(t)',
         t \notin Bootstraps /\ next = "commit" => Joining(t) = {}
  PROVE  IInv'
  <1>1. /\ UNCHANGED <<tables, cmd, clock, answer>>
        /\ pc'[t] = next /\ \A p \in Processes \ {t} : pc'[p] = pc[p]
        /\ pc' \in [Processes -> Steps]
        /\ fresh \subseteq fresh' /\ fresh' \subseteq fresh \cup {t}
    BY DEF OnwardOf, Goto, IInv, TypeOK, Processes, Steps
  <1>2. /\ owner' \in [Invites -> Processes \cup {Nobody}]
        /\ \A j \in Invites : owner[j] \notin {t, Nobody} => owner'[j] = owner[j]
        /\ \A j \in Invites : owner'[j] # owner[j] => owner'[j] = t /\ row[j].state = "pending"
    BY DEF IInv, TypeOK, Processes
  <1>3. TypeOK'
    BY <1>1, <1>2 DEF OnwardOf, IInv, TypeOK, tables
  <1>4. RowsInv'
    BY <1>1, <1>2 DEF IInv, RowsInv, tables
  <1>5. ASSUME NEW i \in Invites
        PROVE  CreateInv(i)'
    <2>1. i # t /\ i # Nobody /\ i \in Processes
      BY InvitationAssumption DEF Processes
    <2>2. \A j \in Invites : owner[j] = i => owner'[j] = i
      BY <1>2, <2>1
    <2> QED
      BY <1>1, <2>1, <2>2
      DEF OnwardOf, IInv, TypeOK, CreateInv, Superseded, tables, Pending, PartyOf
  <1>6. ASSUME NEW u \in Calls
        PROVE  CallInv(u)'
    <2>1. CallInv(u) /\ u # Nobody /\ u \in Processes
      BY InvitationAssumption DEF IInv, Processes
    <2>2. AcceptInv(u)'
      <3>1. CASE u = t
        BY <3>1
      <3>2. CASE u # t
        <4>1. pc[u] = "commit" /\ u \notin Bootstraps => Joining(u)' = {}
          <5>1. Joining(u)' \subseteq Joining(u) \cup (IF next = "commit" THEN {t} ELSE {})
            BY <1>1, <2>1 DEF Joining, Bootstraps, PartyOf, Processes
          <5>2. t \in Joining(u)' => t \notin Bootstraps
            BY <1>1 DEF Joining, Bootstraps
          <5>3. t \in Joining(u)' /\ pc[u] = "commit" /\ u \notin Bootstraps => u \in Joining(t)
            BY <1>1, <3>2 DEF Joining, Bootstraps, PartyOf
          <5> QED
            BY <2>1, <5>1, <5>2, <5>3 DEF CallInv, AcceptInv
        <4> QED
          BY <1>1, <1>2, <2>1, <3>2, <4>1
          DEF CallInv, AcceptInv, Bootstraps, tables, EmailOf, PartyOf
      <3> QED
        BY <3>1, <3>2
    <2>3. FreshInv(u)'
      <3>1. \A e \in Emails : account[e] = u => pc[u] = "done" /\ u # t
        BY <2>1 DEF CallInv, FreshInv
      <3>2. u # t => pc'[u] = pc[u] /\ (u \in fresh' <=> u \in fresh)
        BY <1>1, <2>1
      <3>3. CASE u # t
        BY <1>1, <2>1, <3>1, <3>2, <3>3
        DEF IInv, CallInv, FreshInv, Bootstraps, tables, EmailOf
      <3>4. CASE u = t
        <4>1. account' = account /\ cmd' = cmd /\ FreshInv(t) /\ pc'[t] = next
          BY <1>1, <2>1, <3>4 DEF CallInv, tables
        <4>2. \A e \in Emails : account'[e] # t
          BY <3>1, <3>4, <4>1
        <4>3. t \in fresh' => /\ next \in {"member", "commit"} /\ account[EmailOf(t)] = Nobody
                             /\ \A v \in fresh' : EmailOf(v) = EmailOf(t) => v = t
          BY <4>1 DEF FreshInv
        <4> QED
          BY <3>4, <4>1, <4>2, <4>3 DEF FreshInv, Bootstraps, EmailOf
      <3> QED
        BY <3>3, <3>4
    <2>4. AnswerInv(u)'
      BY <1>1, <2>1 DEF IInv, CallInv, AnswerInv, Bootstraps, tables
    <2> QED
      BY <2>2, <2>3, <2>4 DEF CallInv
  <1> QED
    BY <1>1, <1>3, <1>4, <1>5, <1>6, TablesKept DEF IInv
LEMMA AcceptingInv ==
  ASSUME IInv, NEW t \in Calls, t \notin Bootstraps,
         BeginAccept(t) \/ LockInvitation(t) \/ FindAccount(t) \/ InsertMember(t)
  PROVE  IInv'
  <1>1. /\ CallInv(t) /\ TypeOK /\ t \in Processes /\ t # Nobody /\ t \notin Bootstraps'
        /\ cmd' = cmd /\ (pc[t] \notin {"member", "commit"} => t \notin fresh)
        /\ pc[t] # "done"
    BY InvitationAssumption
    DEF IInv, CallInv, FreshInv, Processes, Bootstraps, BeginAccept, LockInvitation, FindAccount,
        InsertMember, Goto, Finish
  <1>2. CASE BeginAccept(t)
    <2>1. OnwardOf(t, "lock") /\ UNCHANGED <<owner, fresh>> /\ t \notin fresh
      BY <1>1, <1>2 DEF BeginAccept, OnwardOf, TypeOK
    <2>2. pc'[t] = "lock"
      BY <1>1, <2>1 DEF OnwardOf, Goto, TypeOK
    <2>3. AcceptInv(t)'
      BY <2>2 DEF AcceptInv
    <2> QED
      BY <1>1, <2>1, <2>3, OnwardInv
  <1>3. CASE LockInvitation(t)
    <2>1. CASE Finish(t, "invalid")
      BY <1>1, <2>1, FinishInv DEF Outcomes
    <2>2. CASE ~Finish(t, "invalid")
      <3> DEFINE i == cmd[t].token
      <3>1. /\ i \in Invites /\ owner[i] \in {t, Nobody} /\ row[i].state = "pending"
            /\ owner' = [owner EXCEPT ![i] = t] /\ UNCHANGED fresh /\ t \notin fresh
            /\ OnwardOf(t, "account")
        BY <1>1, <1>3, <2>2 DEF LockInvitation, OnwardOf, Free, TypeOK
      <3>2. pc'[t] = "account" /\ owner'[i] = t
        BY <1>1, <3>1 DEF OnwardOf, Goto, TypeOK
      <3>3. AcceptInv(t)'
        BY <1>1, <3>1, <3>2 DEF AcceptInv
      <3> QED
        BY <1>1, <3>1, <3>3, OnwardInv
    <2> QED
      BY <2>1, <2>2
  <1>4. CASE FindAccount(t)
    <2>1. CASE \E o \in {"login_required", "invalid"} : Finish(t, o)
      BY <1>1, <2>1, FinishInv DEF Outcomes
    <2>2. CASE ~\E o \in {"login_required", "invalid"} : Finish(t, o)
      <3>1. PICK next \in {"member", "user"} :
              /\ OnwardOf(t, next) /\ UNCHANGED <<owner, fresh>> /\ t \notin fresh
              /\ next = "member" => cmd[t].session = EmailOf(t)
              /\ next = "user" => cmd[t].session = Nobody
        BY <1>1, <1>4, <2>2 DEF FindAccount, OnwardOf, TypeOK, Itself, open
      <3>2. pc'[t] = next
        BY <1>1, <3>1 DEF OnwardOf, Goto, TypeOK
      <3>3. cmd[t].token \in Invites /\ owner[cmd[t].token] = t
        BY <1>1, <1>4 DEF CallInv, AcceptInv, FindAccount
      <3>4. EmailOf(t) # Nobody
        BY <1>1, <3>3, CommandOfAccept, InvitationAssumption
      <3>5. AcceptInv(t)'
        BY <1>1, <3>1, <3>2, <3>3, <3>4 DEF AcceptInv, EmailOf, Bootstraps
      <3> QED
        BY <1>1, <3>1, <3>5, OnwardInv
    <2> QED
      BY <2>1, <2>2
  <1>5. CASE InsertMember(t)
    <2>1. CASE Finish(t, "conflict")
      BY <1>1, <2>1, FinishInv DEF Outcomes
    <2>2. CASE ~Finish(t, "conflict")
      <3>1. /\ OnwardOf(t, "commit") /\ UNCHANGED <<open, tables>> /\ Joining(t) = {}
            /\ pc[t] = "member" /\ member[PartyOf(cmd[t].token)] = Nobody
        BY <1>1, <1>5, <2>2 DEF InsertMember, OnwardOf, TypeOK, open, Goto
      <3>2. pc'[t] = "commit" /\ \A u \in Calls \ {t} : pc'[u] = pc[u]
        BY <1>1, <3>1 DEF OnwardOf, Goto, TypeOK
      <3>3. Joining(t)' = {}
        BY <1>1, <3>1, <3>2 DEF Joining, Bootstraps, PartyOf
      <3>4. AcceptInv(t)'
        BY <1>1, <3>1, <3>2, <3>3
        DEF CallInv, AcceptInv, EmailOf, Bootstraps, PartyOf, open, tables
      <3> QED
        BY <1>1, <3>1, <3>4, OnwardInv DEF open
    <2> QED
      BY <2>1, <2>2
  <1> QED
    BY <1>2, <1>3, <1>4, <1>5

LEMMA InsertUserInv == ASSUME IInv, NEW t \in Calls, InsertUser(t)
                      PROVE  IInv'
  <1>1. /\ CallInv(t) /\ TypeOK /\ t \in Processes /\ pc[t] = "user" /\ t \notin fresh
        /\ cmd' = cmd
    BY DEF IInv, CallInv, FreshInv, Processes, InsertUser, Goto, Finish
  <1>2. CASE \E o \in {"conflict", "login_required"} : Finish(t, o)
    BY <1>1, <1>2, FinishInv DEF Outcomes
  <1>3. CASE ~\E o \in {"conflict", "login_required"} : Finish(t, o)
    <2> DEFINE next == IF t \in Bootstraps THEN "commit" ELSE "member"
    <2>1. /\ OnwardOf(t, next) /\ UNCHANGED owner /\ fresh' = fresh \cup {t}
          /\ account[EmailOf(t)] = Nobody
          /\ \A u \in fresh : EmailOf(u) # EmailOf(t)
      BY <1>1, <1>3 DEF InsertUser, OnwardOf, TypeOK
    <2>2. pc'[t] = next
      BY <1>1, <2>1 DEF OnwardOf, Goto, TypeOK
    <2>3. AcceptInv(t)'
      BY <1>1, <2>1, <2>2 DEF CallInv, AcceptInv, EmailOf, Bootstraps
    <2>4. next \in {"member", "commit"} /\ t \in fresh'
      BY <2>1
    <2>5. t \notin Bootstraps /\ next = "commit" => Joining(t) = {}
      OBVIOUS
    <2> HIDE DEF next
    <2> QED
      BY <1>1, <2>1, <2>3, <2>4, <2>5, OnwardInv
  <1> QED
    BY <1>2, <1>3

LEMMA BeginBootstrapInv == ASSUME IInv, NEW t \in Calls, t \in Bootstraps, BeginBootstrap(t)
                          PROVE  IInv'
  <1>1. CallInv(t) /\ TypeOK /\ t \in Processes /\ pc[t] = "start" /\ t \notin fresh
    BY DEF IInv, CallInv, FreshInv, Processes, BeginBootstrap
  <1>2. CASE Finish(t, "invalid")
    BY <1>1, <1>2, FinishInv DEF Outcomes
  <1>3. CASE ~Finish(t, "invalid")
    <2>1. OnwardOf(t, "user") /\ UNCHANGED <<open, cmd>>
      BY <1>1, <1>3 DEF BeginBootstrap, OnwardOf, TypeOK, open, Goto
    <2>2. AcceptInv(t)'
      BY <2>1 DEF AcceptInv, Bootstraps
    <2> QED
      BY <1>1, <2>1, <2>2, OnwardInv DEF open
  <1> QED
    BY <1>2, <1>3
-------------------------------------------------------------------------------
(* Steps that commit *)

LEMMA CreateCommits == ASSUME IInv, NEW i \in Invites, Create(i)
                      PROVE  IInv'
  <1>1. /\ UNCHANGED <<account, member, cmd, clock, known>> /\ fresh' = fresh
        /\ pc[i] = "insert" /\ pc'[i] = "done" /\ \A p \in Processes \ {i} : pc'[p] = pc[p]
        /\ i \in Processes /\ i \notin Calls /\ i # Nobody
        /\ \A t \in Calls : answer'[t] = answer[t]
        /\ \A j \in Invites : owner'[j] = IF owner[j] = i THEN Nobody ELSE owner[j]
        /\ \A j \in Invites : todo'[j] = IF j = i THEN {} ELSE todo[j]
        /\ TypeOK /\ CreateInv(i) /\ RowsInv
    BY InvitationAssumption DEF IInv, TypeOK, Create, Tell, Release, Processes
  <1>2. /\ row[i].state = "absent" /\ row'[i].state = "pending" /\ todo[i] = {}
        /\ \A j \in Invites \ {i} :
             IF owner[j] = i THEN row[j].state = "pending" /\ row'[j].state = "revoked"
                             ELSE row'[j] = row[j]
    BY <1>1 DEF Create, CreateInv, RowsInv, TypeOK
  <1>3. TypeOK'
    <2>1. row' \in [Invites -> [state : States, expires : Nat]]
      <3>1. Expiry(i) \in Nat
        BY <1>1, InvitationAssumption DEF Expiry, TypeOK
      <3> QED
        BY <1>1, <3>1 DEF Create, TypeOK, States
    <2> QED
      <3>1. \E o \in {"created", "unavailable"} : Tell(i, o)
        BY DEF Create
      <3>2. pc' \in [Processes -> Steps] /\ answer' \in [Processes -> Outcomes]
        BY <1>1, <3>1, TellTypes DEF Outcomes
      <3>3. /\ now' \in [Processes -> Nat] /\ todo' \in [Invites -> SUBSET Invites]
            /\ owner' \in [Invites -> Processes \cup {Nobody}] /\ fresh' \subseteq Calls
        BY <1>1, ReleaseTypes DEF Create
      <3> QED
        BY <1>1, <2>1, <3>2, <3>3 DEF TypeOK
  <1>4. RowsInv'
    BY <1>1, <1>2 DEF RowsInv
  <1>5. ASSUME NEW j \in Invites
        PROVE  CreateInv(j)'
    <2>1. CreateInv(j) /\ known[j] \subseteq Invites /\ j # Nobody /\ j \in Processes
      BY <1>1, InvitationAssumption DEF IInv, TypeOK, Processes
    <2>2. ASSUME NEW k \in known[j]
          PROVE  /\ k # i /\ row'[k].state # "absent"
                 /\ row'[k].state = "pending" => row[k].state = "pending"
                 /\ j # i /\ Superseded(j, k) => Superseded(j, k)'
                 /\ j = i /\ Superseded(i, k) => row'[k].state # "pending"
      <3>1. k \in Invites /\ row[k].state # "absent" /\ k # i
        BY <1>2, <2>1, <2>2 DEF CreateInv
      <3>2. row[k].state \in {"revoked", "accepted"} => owner[k] = Nobody
        BY <1>1, <3>1 DEF RowsInv
      <3> QED
        BY <1>1, <1>2, <2>1, <3>1, <3>2 DEF Superseded
    <2>3. CASE j = i
      <3>1. \A k \in known[i] : PartyOf(k) = PartyOf(i) => row'[k].state # "pending"
        BY <1>1, <2>2, <2>3 DEF CreateInv
      <3> QED
        BY <1>1, <2>2, <2>3, <3>1 DEF CreateInv, Pending, PartyOf
    <2>4. CASE j # i
      <3>1. row[j].state = "absent" <=> row'[j].state = "absent"
        BY <1>2, <2>4
      <3>2. known[j] \cap Pending(PartyOf(j))' \subseteq known[j] \cap Pending(PartyOf(j))
        BY <2>2 DEF Pending, PartyOf
      <3>3. pc'[j] = pc[j] /\ todo'[j] = todo[j] /\ known'[j] = known[j]
        BY <1>1, <2>1, <2>4
      <3>4. PartyOf(j)' = PartyOf(j) /\ \A k \in known[j] : PartyOf(k)' = PartyOf(k)
        BY DEF PartyOf
      <3> QED
        BY <2>1, <2>2, <2>4, <3>1, <3>2, <3>3, <3>4 DEF CreateInv, PartyOf
    <2> QED
      BY <2>3, <2>4
  <1>6. ASSUME NEW t \in Calls
        PROVE  CallInv(t)'
    <2>1. CallInv(t) /\ t # i /\ t # Nobody /\ t \in Processes
      BY <1>1, InvitationAssumption DEF IInv, Processes
    <2>2. AcceptInv(t)'
      BY <1>1, <2>1 DEF CallInv, AcceptInv, Bootstraps, EmailOf, PartyOf, Joining, Processes
    <2>3. FreshInv(t)'
      BY <1>1, <2>1 DEF CallInv, FreshInv, Bootstraps, EmailOf
    <2>4. AnswerInv(t)'
      <3>1. \A j \in Invites : row[j].state = "accepted" => row'[j].state = "accepted"
        BY <1>2
      <3> QED
        BY <1>1, <2>1, <3>1 DEF CallInv, AnswerInv, Bootstraps
    <2> QED
      BY <2>2, <2>3, <2>4 DEF CallInv
  <1>7. Accepted' = Accepted
    BY <1>2 DEF Accepted
  <1>8. MembersInv' /\ JoinedByOneInvitation' /\ AcceptedAsThemselves'
    BY <1>1, <1>7
    DEF IInv, MembersInv, JoinedByOneInvitation, AcceptedAsThemselves, PartyOf, EmailOf,
        Bootstraps, Founded
  <1> QED
    BY <1>3, <1>4, <1>5, <1>6, <1>8 DEF IInv

\* What the commit of a call changes in the accounts: at most its own email's, which has none.
LEMMA AccountsInv ==
  ASSUME IInv, NEW t \in Calls, NEW e \in Emails, t \in fresh, e = EmailOf(t),
         account' = [account EXCEPT ![e] = t], fresh' = fresh \ {t}, UNCHANGED cmd,
         pc'[t] = "done", \A p \in Processes \ {t} : pc'[p] = pc[p]
  PROVE  /\ account[e] = Nobody /\ account' \in [Emails -> Calls \cup {Founder, Nobody}]
         /\ \A u \in Calls : FreshInv(u)'
  <1>1. account[e] = Nobody /\ account' \in [Emails -> Calls \cup {Founder, Nobody}]
        /\ account'[e] = t /\ \A f \in Emails \ {e} : account'[f] = account[f]
    BY DEF IInv, TypeOK, CallInv, FreshInv
  <1>2. ASSUME NEW u \in Calls
        PROVE  FreshInv(u)'
    <2>1. FreshInv(u) /\ FreshInv(t) /\ u \in Processes
      BY DEF IInv, CallInv, Processes
    <2>2. u # t /\ u \in fresh => EmailOf(u) # e
      BY <2>1 DEF FreshInv
    <2>3. u # t /\ u \in fresh => account'[EmailOf(u)] = account[EmailOf(u)]
      BY <2>2 DEF IInv, TypeOK
    <2> QED
      BY <1>1, <2>1, <2>2, <2>3 DEF FreshInv, Bootstraps, EmailOf
  <1> QED
    BY <1>1, <1>2
\* What a commit adds to the members and the accounts is new.
Adds(t, x, r) ==
  /\ x \in Party /\ member[x] = Nobody /\ r \in Roles
  /\ member' = [member EXCEPT ![x] = r]
  /\ \A e \in Emails : account'[e] \in {account[e], t}
  /\ \A e \in Emails : account[e] # Nobody => account'[e] = account[e]

LEMMA AddsKeeps ==
  ASSUME IInv, NEW t \in Calls, NEW x, NEW r, Adds(t, x, r)
  PROVE  /\ member' \in [Party -> Roles \cup {Nobody}] /\ MembersInv' /\ r # Nobody
         /\ member'[x] = r /\ \A y \in Party \ {x} : member'[y] = member[y]
         /\ \A y \in Party : member[y] # Nobody => member'[y] = member[y]
         /\ x \notin OpeningMembers
  BY InvitationAssumption DEF IInv, TypeOK, MembersInv, Adds

\* Those that were told accepted have what they were told.
LEMMA StillThemselves ==
  ASSUME IInv, NEW t \in Calls, NEW x, NEW r, Adds(t, x, r), UNCHANGED cmd, NEW u \in Calls,
         answer[u] = "accepted"
  PROVE  /\ member'[PartyOf(cmd[u].token)] = Invited[cmd[u].token].role
         /\ cmd[u].session = Nobody => account'[EmailOf(u)] = u
         /\ cmd[u].session # Nobody => cmd[u].session = EmailOf(u)
  <1>1. /\ member[PartyOf(cmd[u].token)] = Invited[cmd[u].token].role
        /\ cmd[u].session = Nobody => account[EmailOf(u)] = u
        /\ cmd[u].session # Nobody => cmd[u].session = EmailOf(u)
        /\ cmd[u].token \in Invites /\ u \notin Bootstraps /\ TypeOK
    BY DEF IInv, AcceptedAsThemselves, CallInv, AnswerInv
  <1>2. /\ PartyOf(cmd[u].token) \in Party /\ Invited[cmd[u].token].role # Nobody
        /\ EmailOf(u) \in Emails /\ u # Nobody
    BY <1>1, InvitedParty, CommandOfAccept, InvitationAssumption
  <1> QED
    BY <1>1, <1>2, AddsKeeps DEF Adds

LEMMA AcceptCommits == ASSUME IInv, NEW t \in Calls, t \notin Bootstraps, Accept(t)
                      PROVE  IInv'
  <1> DEFINE i == cmd[t].token
             x == PartyOf(i)
  <1>1. /\ TypeOK /\ RowsInv /\ CallInv(t) /\ t \in Processes /\ t \notin Invites /\ t # Nobody
        /\ pc[t] = "commit" /\ pc'[t] = "done" /\ \A p \in Processes \ {t} : pc'[p] = pc[p]
        /\ UNCHANGED <<cmd, clock, known>> /\ Bootstraps' = Bootstraps
        /\ \A u \in Calls \ {t} : answer'[u] = answer[u]
        /\ \A j \in Invites : owner'[j] = IF owner[j] = t THEN Nobody ELSE owner[j]
        /\ todo' = todo /\ fresh' = fresh \ {t}
    <2>1. TypeOK /\ t \in Processes /\ t \notin Invites /\ t # Nobody
      BY InvitationAssumption DEF IInv, Processes
    <2>2. todo' = todo
      BY <2>1 DEF TypeOK, Accept, Release
    <2>3. /\ pc[t] = "commit" /\ pc'[t] = "done"
          /\ \A p \in Processes \ {t} : pc'[p] = pc[p]
          /\ \A u \in Calls \ {t} : answer'[u] = answer[u]
      BY <2>1 DEF TypeOK, Accept, Tell, Processes
    <2>4. /\ UNCHANGED <<cmd, clock, known>> /\ fresh' = fresh \ {t}
          /\ \A j \in Invites : owner'[j] = IF owner[j] = t THEN Nobody ELSE owner[j]
      BY DEF Accept, Release
    <2> QED
      BY <2>1, <2>2, <2>3, <2>4 DEF IInv, Bootstraps
  <1>2. /\ i \in Invites /\ owner[i] = t /\ row[i].state = "pending" /\ member[x] = Nobody
        /\ Joining(t) = {} /\ EmailOf(t) \in Emails
        /\ IF cmd[t].session = Nobody THEN t \in fresh ELSE cmd[t].session = EmailOf(t)
    BY <1>1, CommandOfAccept DEF CallInv, AcceptInv, RowsInv
  <1>3. /\ row'[i].state = "accepted" /\ row'[i].expires = row[i].expires
        /\ \A j \in Invites \ {i} : row'[j] = row[j]
        /\ row' \in [Invites -> [state : States, expires : Nat]]
    BY <1>1, <1>2 DEF Accept, TypeOK, States
  <1>4. /\ account' \in [Emails -> Calls \cup {Founder, Nobody}]
        /\ \A u \in Calls : FreshInv(u)'
        /\ \A e \in Emails : account'[e] \in {account[e], t}
        /\ \A e \in Emails : account[e] # Nobody => account'[e] = account[e]
        /\ t \in fresh => account'[EmailOf(t)] = t
    <2>1. CASE t \in fresh
      <3>1. account' = [account EXCEPT ![EmailOf(t)] = t]
        BY <2>1 DEF Accept
      <3> QED
        <4>1. /\ account[EmailOf(t)] = Nobody
              /\ account' \in [Emails -> Calls \cup {Founder, Nobody}]
              /\ \A u \in Calls : FreshInv(u)'
          BY <1>1, <1>2, <2>1, <3>1, AccountsInv
        <4> QED
          BY <1>1, <1>2, <3>1, <4>1 DEF TypeOK
    <2>2. CASE t \notin fresh
      <3>1. UNCHANGED <<account, fresh>>
        BY <1>1, <2>2 DEF Accept
      <3>2. ASSUME NEW u \in Calls
            PROVE  FreshInv(u)'
        <4>1. FreshInv(u) /\ u \in Processes
          BY DEF IInv, CallInv, Processes
        <4> QED
          BY <1>1, <2>2, <3>1, <4>1 DEF FreshInv, EmailOf, Bootstraps
      <3> QED
        BY <1>1, <2>2, <3>1, <3>2 DEF TypeOK
    <2> QED
      BY <2>1, <2>2
  <1>5. Adds(t, x, Invited[i].role)
    BY <1>2, <1>4, InvitedParty DEF Adds, Accept
  <1>6. TypeOK'
    <2>1. /\ pc' \in [Processes -> Steps] /\ answer' \in [Processes -> Outcomes]
          /\ now' \in [Processes -> Nat] /\ owner' \in [Invites -> Processes \cup {Nobody}]
          /\ fresh' \subseteq Calls
      <3>1. \E o \in {"accepted", "unavailable"} : Tell(t, o)
        BY DEF Accept
      <3> QED
        BY <1>1, <3>1, TellTypes, ReleaseTypes DEF Accept, Outcomes
    <2> QED
      BY <1>1, <1>3, <1>4, <1>5, <2>1, AddsKeeps DEF TypeOK
  <1>7. RowsInv'
    BY <1>1, <1>2, <1>3 DEF RowsInv
  <1>8. ASSUME NEW j \in Invites
        PROVE  CreateInv(j)'
    <2>1. /\ CreateInv(j) /\ known[j] \subseteq Invites /\ j # t /\ j # Nobody
          /\ pc'[j] = pc[j] /\ todo'[j] = todo[j] /\ known'[j] = known[j]
      BY <1>1, InvitationAssumption DEF IInv, TypeOK, Processes
    <2>2. \A k \in Invites : /\ row'[k].state = "absent" <=> row[k].state = "absent"
                             /\ row'[k].state = "pending" => row[k].state = "pending"
                             /\ Superseded(j, k) => Superseded(j, k)'
      BY <1>1, <1>2, <1>3, <2>1 DEF Superseded
    <2>3. known[j] \cap Pending(PartyOf(j))' \subseteq known[j] \cap Pending(PartyOf(j))
      BY <2>2 DEF Pending, PartyOf
    <2>4. PartyOf(j)' = PartyOf(j) /\ \A k \in known[j] : PartyOf(k)' = PartyOf(k)
      BY DEF PartyOf
    <2> QED
      BY <2>1, <2>2, <2>3, <2>4 DEF CreateInv, PartyOf
  <1>9. ASSUME NEW u \in Calls
        PROVE  AcceptInv(u)' /\ AnswerInv(u)'
    <2>1. CallInv(u) /\ u # Nobody /\ u \in Processes
      BY InvitationAssumption DEF IInv, Processes
    <2>2. CASE u = t
      <3>1. AcceptInv(t)'
        BY <1>1 DEF AcceptInv
      <3>2. AnswerInv(t)'
        BY <1>1, <1>2, <1>3 DEF AnswerInv
      <3> QED
        BY <2>2, <3>1, <3>2
    <2>3. CASE u # t
      <3>1. u \notin Bootstraps /\ pc[u] = "commit" =>
              /\ PartyOf(cmd[u].token) # x /\ PartyOf(cmd[u].token) \in Party
              /\ Joining(u)' = {}
        BY <1>1, <1>2, <2>1, <2>3, InvitedParty
        DEF CallInv, AcceptInv, Joining, PartyOf, Processes
      <3>2. AcceptInv(u)'
        <4>1. /\ pc'[u] = pc[u] /\ (u \in fresh' <=> u \in fresh) /\ cmd' = cmd
              /\ \A j \in Invites : owner[j] = u => owner'[j] = u
          BY <1>1, <2>1, <2>3
        <4>2. u \notin Bootstraps /\ pc[u] = "commit" => member'[PartyOf(cmd[u].token)] = Nobody
          BY <1>5, <2>1, <3>1, AddsKeeps DEF CallInv, AcceptInv
        <4> QED
          BY <1>1, <2>1, <3>1, <4>1, <4>2 DEF CallInv, AcceptInv, EmailOf, PartyOf
      <3>3. AnswerInv(u)'
        BY <1>1, <1>2, <1>3, <2>1, <2>3 DEF CallInv, AnswerInv
      <3> QED
        BY <3>2, <3>3
    <2> QED
      BY <2>2, <2>3
  <1>10. Accepted' = Accepted \cup {i} /\ i \notin Accepted
    BY <1>2, <1>3 DEF Accepted
  <1>11. \A j \in Accepted : PartyOf(j) # x
    <2>1. \A j \in Accepted : member[PartyOf(j)] = Invited[j].role /\ j \in Invites
      BY DEF Accepted, IInv, JoinedByOneInvitation
    <2> QED
      BY <1>2, <2>1, InvitedParty, InvitationAssumption
  <1>12. x \notin OpeningMembers /\ x \in Party
    BY <1>5, AddsKeeps DEF Adds
  <1>13. \A u \in Bootstraps : /\ account[cmd[u].email] = u <=> account'[cmd[u].email] = u
                               /\ Founded(u) \in Party \ {x}
    BY <1>1, <1>2, <1>4, CommandOfBootstrap, InvitationAssumption
  <1>14. JoinedByOneInvitation'
    <2>1. \A j \in Invites : PartyOf(j)' = PartyOf(j) /\ PartyOf(j) \in Party
      BY InvitedParty DEF PartyOf
    <2>2. Founded(t)' = Founded(t) /\ \A u \in Bootstraps : Founded(u)' = Founded(u)
      BY <1>1 DEF Founded
    <2>3. Accepted \subseteq Invites
      BY DEF Accepted
    <2>4. \A j \in Accepted' :
            PartyOf(j) \notin OpeningMembers /\ member'[PartyOf(j)] = Invited[j].role
      BY <1>2, <1>5, <1>10, <1>11, <1>12, <2>1, <2>3, AddsKeeps DEF IInv, JoinedByOneInvitation
    <2>5. \A j, k \in Accepted' : PartyOf(j) = PartyOf(k) => j = k
      BY <1>10, <1>11 DEF IInv, JoinedByOneInvitation
    <2>6. \A u \in Bootstraps : account'[cmd[u].email] = u => member'[Founded(u)] = "admin"
      BY <1>5, <1>13, AddsKeeps DEF IInv, JoinedByOneInvitation
    <2>7. ASSUME NEW y \in Party \ OpeningMembers, member'[y] # Nobody
          PROVE  \/ \E j \in Accepted' : PartyOf(j) = y
                 \/ \E u \in Bootstraps : y = Founded(u) /\ account'[cmd[u].email] = u
      <3>1. CASE y = x
        BY <1>10, <3>1
      <3>2. CASE y # x
        <4>1. member[y] # Nobody
          BY <1>5, <2>7, <3>2, AddsKeeps
        <4> QED
          BY <1>10, <1>13, <2>7, <4>1 DEF IInv, JoinedByOneInvitation
      <3> QED
        BY <3>1, <3>2
    <2> QED
      BY <1>1, <1>10, <2>1, <2>2, <2>3, <2>4, <2>5, <2>6, <2>7 DEF JoinedByOneInvitation
  <1>15. AcceptedAsThemselves'
    <2>1. ASSUME NEW u \in Calls, answer'[u] = "accepted"
          PROVE  /\ member'[PartyOf(cmd[u].token)] = Invited[cmd[u].token].role
                 /\ cmd[u].session = Nobody => account'[EmailOf(u)] = u
                 /\ cmd[u].session # Nobody => cmd[u].session = EmailOf(u)
      <3>1. CASE u = t
        BY <1>2, <1>4, <1>5, <3>1, AddsKeeps
      <3>2. CASE u # t
        BY <1>1, <1>5, <2>1, <3>2, StillThemselves
      <3> QED
        BY <3>1, <3>2
    <2>2. \A u \in Calls \ {t} : answer'[u] = "accepted" => cmd[u].token # i
      BY <1>1, <1>2 DEF IInv, CallInv, AnswerInv
    <2>3. \A u, v \in Calls :
            answer'[u] = "accepted" /\ answer'[v] = "accepted" /\ cmd[u].token = cmd[v].token
              => u = v
      BY <1>1, <2>2 DEF IInv, AcceptedAsThemselves
    <2> QED
      BY <1>1, <2>1, <2>3 DEF AcceptedAsThemselves, PartyOf, EmailOf
  <1>16. \A u \in Calls : CallInv(u)'
    BY <1>4, <1>9 DEF CallInv
  <1> QED
    BY <1>5, <1>6, <1>7, <1>8, <1>14, <1>15, <1>16, AddsKeeps DEF IInv
LEMMA FoundCommits == ASSUME IInv, NEW t \in Calls, t \in Bootstraps, Found(t)
                     PROVE  IInv'
  <1> DEFINE x == Founded(t)
  <1>1. /\ TypeOK /\ RowsInv /\ CallInv(t) /\ t \in Processes /\ t \notin Invites /\ t # Nobody
        /\ pc[t] = "commit" /\ pc'[t] = "done" /\ \A p \in Processes \ {t} : pc'[p] = pc[p]
        /\ UNCHANGED <<row, cmd, clock, known>> /\ Bootstraps' = Bootstraps
        /\ answer'[t] # "accepted" /\ \A u \in Calls \ {t} : answer'[u] = answer[u]
        /\ \A j \in Invites : owner'[j] = IF owner[j] = t THEN Nobody ELSE owner[j]
        /\ todo' = todo /\ fresh' = fresh \ {t}
    <2>1. TypeOK /\ t \in Processes /\ t \notin Invites /\ t # Nobody
      BY InvitationAssumption DEF IInv, Processes
    <2>2. todo' = todo
      BY <2>1 DEF TypeOK, Found, Release
    <2>3. /\ pc[t] = "commit" /\ pc'[t] = "done"
          /\ \A p \in Processes \ {t} : pc'[p] = pc[p]
          /\ answer'[t] # "accepted" /\ \A u \in Calls \ {t} : answer'[u] = answer[u]
      BY <2>1 DEF TypeOK, Found, Tell, Processes
    <2>4. /\ UNCHANGED <<row, cmd, clock, known>> /\ fresh' = fresh \ {t}
          /\ \A j \in Invites : owner'[j] = IF owner[j] = t THEN Nobody ELSE owner[j]
      BY DEF Found, Release
    <2> QED
      BY <2>1, <2>2, <2>3, <2>4 DEF IInv, Bootstraps
  <1>2. /\ member[x] = Nobody /\ x \in Party \ OpeningMembers /\ cmd[t].email \in Emails
        /\ EmailOf(t) = cmd[t].email /\ t \in fresh
    BY <1>1, NotFoundedYet, CommandOfBootstrap DEF CallInv, FreshInv
  <1>3. account' = [account EXCEPT ![cmd[t].email] = t] /\ member' = [member EXCEPT ![x] = "admin"]
    BY DEF Found
  <1>4. /\ account[cmd[t].email] = Nobody
        /\ account' \in [Emails -> Calls \cup {Founder, Nobody}]
        /\ \A u \in Calls : FreshInv(u)'
    BY <1>1, <1>2, <1>3, AccountsInv
  <1>5. Adds(t, x, "admin") /\ account'[cmd[t].email] = t
    BY <1>1, <1>2, <1>3, <1>4, InvitationAssumption DEF Adds, TypeOK
  <1>6. TypeOK' /\ RowsInv'
    <2>1. /\ pc' \in [Processes -> Steps] /\ answer' \in [Processes -> Outcomes]
          /\ now' \in [Processes -> Nat] /\ owner' \in [Invites -> Processes \cup {Nobody}]
          /\ fresh' \subseteq Calls
      <3>1. \E o \in {"founded", "unavailable"} : Tell(t, o)
        BY DEF Found
      <3> QED
        BY <1>1, <3>1, TellTypes, ReleaseTypes DEF Found, Outcomes
    <2>2. TypeOK'
      BY <1>1, <1>4, <1>5, <2>1, AddsKeeps DEF TypeOK
    <2> QED
      BY <1>1, <2>2 DEF RowsInv
  <1>7. ASSUME NEW j \in Invites
        PROVE  CreateInv(j)'
    <2>1. /\ CreateInv(j) /\ known[j] \subseteq Invites /\ j # t /\ j # Nobody
          /\ pc'[j] = pc[j] /\ todo'[j] = todo[j] /\ known'[j] = known[j]
      BY <1>1, InvitationAssumption DEF IInv, TypeOK, Processes
    <2>2. \A k \in Invites : Superseded(j, k) => Superseded(j, k)'
      BY <1>1, <2>1 DEF Superseded
    <2>3. Pending(PartyOf(j))' = Pending(PartyOf(j))
      BY <1>1 DEF Pending, PartyOf
    <2>4. PartyOf(j)' = PartyOf(j) /\ \A k \in known[j] : PartyOf(k)' = PartyOf(k)
      BY DEF PartyOf
    <2> QED
      BY <1>1, <2>1, <2>2, <2>3, <2>4 DEF CreateInv, PartyOf
  <1>8. ASSUME NEW u \in Calls
        PROVE  CallInv(u)'
    <2>1. CallInv(u) /\ u # Nobody /\ u \in Processes
      BY InvitationAssumption DEF IInv, Processes
    <2>2. u \notin Bootstraps /\ pc[u] = "commit" =>
            /\ PartyOf(cmd[u].token) # x /\ PartyOf(cmd[u].token) \in Party
            /\ Joining(u)' = {}
      BY <1>1, <2>1, CommandOfBootstrap, InvitedParty
      DEF CallInv, AcceptInv, Joining, PartyOf, Processes
    <2>3. AcceptInv(u)'
      <3>1. /\ u # t => pc'[u] = pc[u] /\ (u \in fresh' <=> u \in fresh)
            /\ cmd' = cmd /\ \A j \in Invites : owner[j] = u /\ u # t => owner'[j] = u
        BY <1>1, <2>1
      <3>2. u \notin Bootstraps /\ pc[u] = "commit" => member'[PartyOf(cmd[u].token)] = Nobody
        BY <1>5, <2>1, <2>2, AddsKeeps DEF CallInv, AcceptInv
      <3> QED
        BY <1>1, <2>1, <2>2, <3>1, <3>2 DEF CallInv, AcceptInv, EmailOf, PartyOf
    <2>4. AnswerInv(u)'
      BY <1>1, <2>1 DEF CallInv, AnswerInv
    <2> QED
      BY <1>4, <2>3, <2>4 DEF CallInv
  <1>9. Accepted' = Accepted /\ Accepted \subseteq Invites
    BY <1>1 DEF Accepted
  <1>10. \A u \in Bootstraps \ {t} : /\ account[cmd[u].email] = u <=> account'[cmd[u].email] = u
                                     /\ Founded(u) \in Party \ {x}
    BY <1>1, <1>2, <1>5, CommandOfBootstrap, InvitationAssumption DEF Adds
  <1>11. JoinedByOneInvitation'
    <2>1. \A j \in Invites : /\ PartyOf(j)' = PartyOf(j) /\ PartyOf(j) \in Party
                             /\ Invited[j].role # Nobody
      BY InvitedParty, InvitationAssumption DEF PartyOf
    <2>2. \A u \in Bootstraps : Founded(u)' = Founded(u)
      BY <1>1 DEF Founded
    <2>3. \A j \in Accepted :
            PartyOf(j) \notin OpeningMembers /\ member'[PartyOf(j)] = Invited[j].role
      BY <1>5, <1>9, <2>1, AddsKeeps DEF IInv, JoinedByOneInvitation
    <2>4. \A u \in Bootstraps : account'[cmd[u].email] = u => member'[Founded(u)] = "admin"
      BY <1>5, <1>10, AddsKeeps DEF IInv, JoinedByOneInvitation
    <2>5. ASSUME NEW y \in Party \ OpeningMembers, member'[y] # Nobody
          PROVE  \/ \E j \in Accepted : PartyOf(j) = y
                 \/ \E u \in Bootstraps : y = Founded(u) /\ account'[cmd[u].email] = u
      <3>1. CASE y = x
        BY <1>5, <3>1
      <3>2. CASE y # x
        <4>1. member[y] # Nobody
          BY <1>5, <2>5, <3>2, AddsKeeps
        <4> QED
          BY <1>10, <2>5, <3>2, <4>1 DEF IInv, JoinedByOneInvitation
      <3> QED
        BY <3>1, <3>2
    <2> QED
      BY <1>1, <1>9, <2>1, <2>2, <2>3, <2>4, <2>5 DEF IInv, JoinedByOneInvitation
  <1>12. AcceptedAsThemselves'
    <2>1. ASSUME NEW u \in Calls, answer'[u] = "accepted"
          PROVE  /\ member'[PartyOf(cmd[u].token)] = Invited[cmd[u].token].role
                 /\ cmd[u].session = Nobody => account'[EmailOf(u)] = u
                 /\ cmd[u].session # Nobody => cmd[u].session = EmailOf(u)
      BY <1>1, <1>5, <2>1, StillThemselves
    <2>2. \A u, v \in Calls :
            answer'[u] = "accepted" /\ answer'[v] = "accepted" /\ cmd[u].token = cmd[v].token
              => u = v
      BY <1>1 DEF IInv, AcceptedAsThemselves
    <2> QED
      BY <1>1, <2>1, <2>2 DEF AcceptedAsThemselves, PartyOf, EmailOf
  <1> QED
    BY <1>5, <1>6, <1>7, <1>8, <1>11, <1>12, AddsKeeps DEF IInv

-------------------------------------------------------------------------------
LEMMA NextInv == IInv /\ [Next]_vars => IInv'
  <1> SUFFICES ASSUME IInv, [Next]_vars
               PROVE  IInv'
    OBVIOUS
  <1>1. ASSUME NEW i \in Invites, CreateStatement(i)
        PROVE  IInv'
    BY <1>1, CreatingInv, CreateCommits DEF CreateStatement
  <1>2. ASSUME NEW t \in Calls, AcceptStatement(t) \/ BootstrapStatement(t)
        PROVE  IInv'
    BY <1>2, AcceptingInv, InsertUserInv, AcceptCommits, BeginBootstrapInv, FoundCommits
    DEF AcceptStatement, BootstrapStatement
  <1>3. ASSUME NEW p \in Processes, Finish(p, "unavailable")
        PROVE  IInv'
    BY <1>3, FinishInv DEF Outcomes
  <1> QED
    BY <1>1, <1>2, <1>3, TickInv DEF Next, DeadlockVictim, Fail

\* The types of the state, for every instance.
THEOREM TypeCorrect == Spec => []TypeOK
  BY InitInv, NextInv, PTL DEF Spec, IInv

\* Every new membership has come from one invitation or from the founding of its
\* organization, and none of these lacks its membership.
THEOREM OneInvitationEach == Spec => []JoinedByOneInvitation
  BY InitInv, NextInv, PTL DEF Spec, IInv

\* Whoever was told accepted has the role of the invitation, by an account of its own.
THEOREM TheirOwnAccounts == Spec => []AcceptedAsThemselves
  BY InitInv, NextInv, PTL DEF Spec, IInv

\* A new invitation leaves none of those that its call has found to be accepted.
THEOREM Supersession == Spec => []EarlierOnesSuperseded
  <1>1. IInv => EarlierOnesSuperseded
    BY DEF IInv, CreateInv, EarlierOnesSuperseded
  <1> QED
    BY <1>1, InitInv, NextInv, PTL DEF Spec
\* Every other step leaves the tables alone.
LEMMA WhoWrites ==
  ASSUME IInv, Next, ~UNCHANGED tables
  PROVE  \/ \E i \in Invites : Create(i)
         \/ \E t \in Calls \ Bootstraps : Accept(t)
         \/ \E t \in Bootstraps : Found(t) /\ t \in Calls
  BY DEF Next, CreateStatement, AcceptStatement, BootstrapStatement, BeginCreate, Snapshot, Revoke,
         BeginAccept, LockInvitation, FindAccount, InsertUser, InsertMember, BeginBootstrap,
         DeadlockVictim, Fail, Tick, Finish, Goto, tables, Bootstraps

LEMMA StepUsesUpOnce ==
  ASSUME IInv, Next, NEW j \in Invites, row'[j].state # row[j].state
  PROVE  row[j].state \in {"absent", "pending"}
  <1>1. ASSUME NEW i \in Invites, Create(i)
        PROVE  row[j].state \in {"absent", "pending"}
    <2>1. row[i].state = "absent" /\ i # Nobody
      BY <1>1, InvitationAssumption DEF IInv, CreateInv, Create
    <2>2. owner[j] = i => row[j].state = "pending"
      BY <2>1 DEF IInv, RowsInv
    <2> QED
      BY <1>1, <2>1, <2>2 DEF Create
  <1>2. ASSUME NEW t \in Calls \ Bootstraps, Accept(t)
        PROVE  row[j].state \in {"absent", "pending"}
    <2>1. cmd[t].token \in Invites /\ owner[cmd[t].token] = t /\ t # Nobody
      BY <1>2, InvitationAssumption DEF IInv, CallInv, AcceptInv, Accept
    <2>2. row[cmd[t].token].state = "pending"
      BY <2>1 DEF IInv, RowsInv
    <2>3. j # cmd[t].token => row'[j] = row[j]
      BY <1>2, <2>1 DEF Accept, IInv, TypeOK
    <2> QED
      BY <2>2, <2>3
  <1> QED
    BY <1>1, <1>2, WhoWrites DEF Found, tables

\* An invitation that has been used or revoked stays so.
THEOREM UsedOnce == Spec => UsedUpOnce
  <1>1. IInv /\ [Next]_vars =>
          [\A i \in Invites :
             row'[i].state # row[i].state => row[i].state \in {"absent", "pending"}]_vars
    BY StepUsesUpOnce
  <1> QED
    BY <1>1, InitInv, NextInv, PTL DEF Spec, UsedUpOnce

LEMMA StepKeepsAccounts ==
  ASSUME IInv, Next, NEW e \in Emails, account'[e] # account[e]
  PROVE  /\ account[e] = Nobody
         /\ \E o \in Orgs : member[<<o, e>>] = Nobody /\ member'[<<o, e>>] # Nobody
  <1>1. ASSUME NEW t \in Calls \ Bootstraps, Accept(t)
        PROVE  /\ account[e] = Nobody
               /\ \E o \in Orgs : member[<<o, e>>] = Nobody /\ member'[<<o, e>>] # Nobody
    <2>1. /\ cmd[t].token \in Invites /\ member[PartyOf(cmd[t].token)] = Nobody
          /\ EmailOf(t) = Invited[cmd[t].token].email /\ EmailOf(t) \in Emails
      BY <1>1, CommandOfAccept DEF IInv, CallInv, AcceptInv, Accept
    <2>2. t \in fresh /\ e = EmailOf(t) /\ account[e] = Nobody
      BY <1>1, <2>1 DEF Accept, IInv, TypeOK, CallInv, FreshInv
    <2>3. PartyOf(cmd[t].token) = <<Invited[cmd[t].token].org, e>>
          /\ Invited[cmd[t].token].org \in Orgs
          /\ member'[PartyOf(cmd[t].token)] = Invited[cmd[t].token].role
          /\ Invited[cmd[t].token].role # Nobody
      BY <1>1, <2>1, <2>2, InvitedParty, InvitationAssumption DEF Accept, IInv, TypeOK, PartyOf
    <2> QED
      BY <2>1, <2>2, <2>3
  <1>2. ASSUME NEW t \in Bootstraps, t \in Calls, Found(t)
        PROVE  /\ account[e] = Nobody
               /\ \E o \in Orgs : member[<<o, e>>] = Nobody /\ member'[<<o, e>>] # Nobody
    <2>1. /\ cmd[t].organization \in Orgs /\ EmailOf(t) = cmd[t].email /\ Founded(t) \in Party
          /\ member[Founded(t)] = Nobody /\ t \in fresh
      BY <1>2, CommandOfBootstrap, NotFoundedYet DEF IInv, CallInv, FreshInv, Found
    <2>2. e = cmd[t].email /\ account[e] = Nobody
      BY <1>2, <2>1 DEF Found, IInv, TypeOK, CallInv, FreshInv
    <2>3. member'[Founded(t)] = "admin" /\ "admin" # Nobody
      BY <1>2, <2>1, InvitationAssumption DEF Found, IInv, TypeOK
    <2> QED
      BY <2>1, <2>2, <2>3 DEF Founded
  <1> QED
    BY <1>1, <1>2, WhoWrites DEF Create, tables

\* An account keeps its password, and comes with a membership.
THEOREM PasswordsKept == Spec => AccountsKept
  <1>1. IInv /\ [Next]_vars =>
          [\A e \in Emails : account'[e] # account[e] =>
             /\ account[e] = Nobody
             /\ \E o \in Orgs : member[<<o, e>>] = Nobody /\ member'[<<o, e>>] # Nobody]_vars
    BY StepKeepsAccounts
  <1> QED
    BY <1>1, InitInv, NextInv, PTL DEF Spec, AccountsKept
================================================================================
