------------------------------ MODULE Invitations ------------------------------
(***************************************************************************)
(* create_invitation, accept_invitation                                    *)
(* (app/modules/invitations/use_cases.py) and bootstrap_organization       *)
(* (app/modules/organizations/use_cases.py) running concurrently, one SQL  *)
(* statement at a time on a READ COMMITTED PostgreSQL.  An invitation is   *)
(* created by the call of the same name; a token names its invitation.     *)
(***************************************************************************)
EXTENDS Integers, FiniteSets

CONSTANTS
  Invites,     \* invitations, and the calls of create_invitation
  Calls,       \* calls of accept_invitation and bootstrap_organization
  Orgs, Emails, Roles,
  Invited,     \* the organization, email and role of each invitation
  Commands,    \* what their callers send, each way they may do it
  NoInvite,    \* the invitation of a token that was made up
  Nobody,      \* no session, no account, no role, no holder of a lock
  Founder,     \* who chose the password of an account that is there at the start
  Opening,     \* the invitations that are pending by then
  OpeningUsers, Inactive,  \* the emails with an account by then, with an inactive one
  OpeningMembers,          \* the organizations and emails with a membership by then
  OpeningRole, \* the role of these memberships
  Lifetime,    \* INVITATION_LIFETIME_HOURS
  Horizon      \* the last hour of a behaviour; bounds the clock

Party == Orgs \X Emails
Founding == [organization : Orgs, email : Emails, valid : BOOLEAN]
Command == [token : Invites \cup {NoInvite}, password : BOOLEAN, session : Emails \cup {Nobody}]

ASSUME InvitationAssumption ==
  /\ Invited \in [Invites -> [org : Orgs, email : Emails, role : Roles]]
  /\ Invites \cap Calls = {} /\ Founder \notin Calls
  /\ Nobody \notin Invites \cup Calls \cup Emails \cup Roles \cup {Founder}
  /\ NoInvite \notin Invites
  /\ Commands \subseteq [Calls -> Command \cup Founding]
  /\ \A c \in Commands, t \in Calls :
       /\ c[t] \in Command => c[t].session \in OpeningUsers \cup {Nobody}
       /\ c[t] \in Founding =>   \* the organization is new, and its own
            /\ \A i \in Invites : Invited[i].org # c[t].organization
            /\ \A e \in Emails : <<c[t].organization, e>> \notin OpeningMembers
            /\ \A u \in Calls \ {t} :
                 c[u] \in Founding => c[u].organization # c[t].organization
  /\ "admin" \in Roles
  /\ Opening \subseteq Invites
  /\ OpeningUsers \subseteq Emails
  /\ Inactive \subseteq OpeningUsers
  /\ OpeningMembers \subseteq Party
  /\ OpeningRole \in Roles
  /\ Lifetime \in Nat \ {0}
  /\ Horizon \in Nat

VARIABLES
  clock,    \* hours
  row,      \* organization_invitations: whether used, and expires_at
  account,  \* users: the call that chose the password of each email's account
  member,   \* memberships.role
  pc,       \* the next statement of each call
  now,      \* the time that each call has read
  todo,     \* the rows that the UPDATE of a create_invitation has still to visit
  owner,    \* the call that holds an invitation's row
  fresh,    \* the calls that have inserted an account
  cmd, answer,
  known     \* for a property only: the invitations there were when a call began

tables == <<row, account, member>>
open == <<now, todo, owner, fresh>>
vars == <<clock, tables, pc, open, cmd, answer, known>>

Processes == Invites \cup Calls
States == {"absent", "pending", "revoked", "accepted"}
Steps == {"start", "snapshot", "revoke", "insert", "lock", "account", "user", "member",
          "commit", "done"}
Outcomes == {"pending", "created", "accepted", "founded", "invalid", "login_required",
             "conflict", "unavailable"}

TypeOK ==
  /\ clock \in Nat
  /\ row \in [Invites -> [state : States, expires : Nat]]
  /\ account \in [Emails -> Calls \cup {Founder, Nobody}]
  /\ member \in [Party -> Roles \cup {Nobody}]
  /\ pc \in [Processes -> Steps]
  /\ now \in [Processes -> Nat]
  /\ todo \in [Invites -> SUBSET Invites]
  /\ owner \in [Invites -> Processes \cup {Nobody}]
  /\ fresh \subseteq Calls
  /\ cmd \in Commands
  /\ answer \in [Processes -> Outcomes]
  /\ known \in [Invites -> SUBSET Invites]

Init ==
  /\ clock = 0
  /\ row = [i \in Invites |-> IF i \in Opening THEN [state |-> "pending", expires |-> Lifetime]
                              ELSE [state |-> "absent", expires |-> 0]]
  /\ account = [e \in Emails |-> IF e \in OpeningUsers THEN Founder ELSE Nobody]
  /\ member = [x \in Party |-> IF x \in OpeningMembers THEN OpeningRole ELSE Nobody]
  /\ pc = [p \in Processes |-> IF p \in Opening THEN "done" ELSE "start"]
  /\ now = [p \in Processes |-> 0]
  /\ todo = [i \in Invites |-> {}]
  /\ owner = [i \in Invites |-> Nobody]
  /\ fresh = {}
  /\ cmd \in Commands
  /\ answer = [p \in Processes |-> IF p \in Opening THEN "created" ELSE "pending"]
  /\ known = [i \in Invites |-> {}]

-------------------------------------------------------------------------------
(* Transactions *)

Goto(p, next) ==
  /\ pc' = [pc EXCEPT ![p] = next]
  /\ UNCHANGED <<clock, tables, cmd, answer>>

Tell(p, o) ==
  /\ pc' = [pc EXCEPT ![p] = "done"]
  /\ answer' = [answer EXCEPT ![p] = o]

\* What ends a transaction lets go of.
Release(p) ==
  /\ now' = [now EXCEPT ![p] = 0]
  /\ todo' = [i \in Invites |-> IF i = p THEN {} ELSE todo[i]]
  /\ owner' = [i \in Invites |-> IF owner[i] = p THEN Nobody ELSE owner[i]]
  /\ fresh' = fresh \ {p}

\* The call raises, and nothing has changed.
Finish(p, o) == Tell(p, o) /\ Release(p) /\ UNCHANGED <<clock, tables, cmd, known>>

\* Mutant: nobody waits for the holder of a row.
AlwaysFree(p, i) == TRUE
Free(p, i) == owner[i] \in {p, Nobody}

-------------------------------------------------------------------------------
(* create_invitation *)

PartyOf(i) == <<Invited[i].org, Invited[i].email>>
Pending(x) == {i \in Invites : PartyOf(i) = x /\ row[i].state = "pending"}

\* datetime.now, before the transaction.
BeginCreate(i) ==
  /\ pc[i] = "start"
  /\ now' = [now EXCEPT ![i] = clock]
  /\ known' = [known EXCEPT ![i] = {j \in Invites : row[j].state # "absent"}]
  /\ Goto(i, "snapshot")
  /\ UNCHANGED <<todo, owner, fresh>>

\* The UPDATE sees the invitations that are pending when it starts.
Snapshot(i) ==
  /\ pc[i] = "snapshot"
  /\ todo' = [todo EXCEPT ![i] = Pending(PartyOf(i))]
  /\ Goto(i, IF Pending(PartyOf(i)) = {} THEN "insert" ELSE "revoke")
  /\ UNCHANGED <<now, owner, fresh, known>>

\* It takes them one by one, in no order that it states, and once it has the lock of
\* a row it looks again whether the row is pending.
\* Mutant: a locked row is passed over.
RevokeUnlocked(i) ==
  /\ pc[i] = "revoke"
  /\ \E j \in todo[i] :
       /\ owner' = IF Free(i, j) THEN [owner EXCEPT ![j] = i] ELSE owner
       /\ todo' = [todo EXCEPT ![i] = @ \ {j}]
       /\ Goto(i, IF todo[i] = {j} THEN "insert" ELSE "revoke")
  /\ UNCHANGED <<now, fresh, known>>
Revoke(i) ==
  /\ pc[i] = "revoke"
  /\ \E j \in todo[i] :
       /\ Free(i, j)
       /\ owner' = IF row[j].state = "pending" THEN [owner EXCEPT ![j] = i] ELSE owner
       /\ todo' = [todo EXCEPT ![i] = @ \ {j}]
       /\ Goto(i, IF todo[i] = {j} THEN "insert" ELSE "revoke")
  /\ UNCHANGED <<now, fresh, known>>

\* Mutant: the lifetime is taken off.
ExpiryBefore(i) == now[i] - Lifetime
Expiry(i) == now[i] + Lifetime

\* INSERT and COMMIT.
Create(i) ==
  /\ pc[i] = "insert"
  /\ row' = [j \in Invites |->
       CASE j = i -> [state |-> "pending", expires |-> Expiry(i)]
         [] j # i /\ owner[j] = i -> [row[j] EXCEPT !.state = "revoked"]
         [] OTHER -> row[j]]
  /\ Tell(i, "created") \/ Tell(i, "unavailable")
  /\ Release(i)
  /\ UNCHANGED <<clock, account, member, cmd, known>>

-------------------------------------------------------------------------------
(* accept_invitation *)

Bootstraps == {t \in Calls : cmd[t] \in Founding}
EmailOf(t) == IF t \in Bootstraps THEN cmd[t].email ELSE Invited[cmd[t].token].email

\* datetime.now, before the transaction.
BeginAccept(t) ==
  /\ pc[t] = "start"
  /\ now' = [now EXCEPT ![t] = clock]
  /\ Goto(t, "lock")
  /\ UNCHANGED <<todo, owner, fresh, known>>

\* SELECT ... FOR UPDATE of the token's row, and the checks of what it returns.
LockInvitation(t) ==
  LET i == cmd[t].token IN
  /\ pc[t] = "lock"
  /\ \/ /\ i \in Invites => row[i].state = "absent"
        /\ Finish(t, "invalid")
     \/ /\ i \in Invites
        /\ row[i].state # "absent"
        /\ Free(t, i)
        /\ \/ /\ row[i].state # "pending" \/ row[i].expires <= now[t]
              /\ Finish(t, "invalid")
           \/ /\ row[i].state = "pending"
              /\ row[i].expires > now[t]
              /\ owner' = [owner EXCEPT ![i] = t]
              /\ Goto(t, "account")
              /\ UNCHANGED <<now, todo, fresh, known>>

\* The caller is signed in with the account that is invited.
\* Mutant: with any account.
AnyAccount(t) == cmd[t].session # Nobody
Itself(t) == EmailOf(t) \notin Inactive /\ cmd[t].session = EmailOf(t)

\* The account of the invitation's email, as it is committed.
FindAccount(t) ==
  LET found == account[EmailOf(t)] # Nobody
      stranger == cmd[t].session = Nobody /\ cmd[t].password
  IN  /\ pc[t] = "account"
      /\ \/ found /\ ~Itself(t) /\ Finish(t, "login_required")
         \/ ~found /\ ~stranger /\ Finish(t, "invalid")
         \/ /\ found => Itself(t)
            /\ ~found => stranger
            /\ Goto(t, IF found THEN "member" ELSE "user")
            /\ UNCHANGED <<open, known>>

\* INSERT of the user, by accept_invitation or bootstrap_organization: users_email_key
\* waits for one that is being inserted.
\* Mutant: without the unique constraint.
InsertUserAnyway(t) ==
  /\ pc[t] = "user"
  /\ fresh' = fresh \cup {t}
  /\ Goto(t, IF t \in Bootstraps THEN "commit" ELSE "member")
  /\ UNCHANGED <<now, todo, owner, known>>
InsertUser(t) ==
  /\ pc[t] = "user"
  /\ \A u \in fresh : EmailOf(u) # EmailOf(t)
  /\ \/ /\ account[EmailOf(t)] # Nobody
        /\ Finish(t, IF t \in Bootstraps THEN "conflict" ELSE "login_required")
     \/ /\ account[EmailOf(t)] = Nobody
        /\ fresh' = fresh \cup {t}
        /\ Goto(t, IF t \in Bootstraps THEN "commit" ELSE "member")
        /\ UNCHANGED <<now, todo, owner, known>>

\* INSERT of the membership: memberships_pkey waits for the same one.
Joining(t) ==
  {u \in Calls \ (Bootstraps \cup {t}) : pc[u] = "commit" /\ PartyOf(cmd[u].token) = PartyOf(cmd[t].token)}
\* Mutant: without the primary key.
InsertMemberAnyway(t) ==
  /\ pc[t] = "member"
  /\ Goto(t, "commit")
  /\ UNCHANGED <<open, known>>
InsertMember(t) ==
  LET x == PartyOf(cmd[t].token) IN
  /\ pc[t] = "member"
  /\ Joining(t) = {}
  /\ \/ member[x] # Nobody /\ Finish(t, "conflict")
     \/ member[x] = Nobody /\ Goto(t, "commit") /\ UNCHANGED <<open, known>>

\* The UPDATE of the invitation, and COMMIT.
Accept(t) ==
  LET i == cmd[t].token IN
  /\ pc[t] = "commit"
  /\ row' = [row EXCEPT ![i].state = "accepted"]
  /\ member' = [member EXCEPT ![PartyOf(i)] = Invited[i].role]
  /\ account' = IF t \in fresh THEN [account EXCEPT ![EmailOf(t)] = t] ELSE account
  /\ Tell(t, "accepted") \/ Tell(t, "unavailable")
  /\ Release(t)
  /\ UNCHANGED <<clock, cmd, known>>

-------------------------------------------------------------------------------
(* bootstrap_organization *)

\* The checks of the arguments, BEGIN and the INSERT of the organization, which nobody
\* sees and nothing stands in the way of.
BeginBootstrap(t) ==
  /\ pc[t] = "start"
  /\ \/ ~cmd[t].valid /\ Finish(t, "invalid")
     \/ cmd[t].valid /\ Goto(t, "user") /\ UNCHANGED <<open, known>>

Founded(t) == <<cmd[t].organization, cmd[t].email>>

\* INSERT of the administrator's membership, and COMMIT.
Found(t) ==
  /\ pc[t] = "commit"
  /\ account' = [account EXCEPT ![cmd[t].email] = t]
  /\ member' = [member EXCEPT ![Founded(t)] = "admin"]
  /\ Tell(t, "founded") \/ Tell(t, "unavailable")
  /\ Release(t)
  /\ UNCHANGED <<clock, row, cmd, known>>

-------------------------------------------------------------------------------
(* Deadlocks, lost connections and time *)

\* The calls whose transactions the next statement of p waits for, whichever row of
\* its UPDATE comes next.
WaitsFor(p) ==
  CASE pc[p] = "revoke" ->
         IF \E j \in todo[p] : Free(p, j) THEN {} ELSE {owner[j] : j \in todo[p]}
    [] pc[p] = "lock" /\ cmd[p].token \in Invites -> {owner[cmd[p].token]} \ {p, Nobody}
    [] pc[p] = "user" -> {u \in fresh : EmailOf(u) = EmailOf(p)}
    [] pc[p] = "member" -> Joining(p)
    [] OTHER -> {}
Deadlock(ps) == ps # {} /\ \A p \in ps : WaitsFor(p) \cap ps # {}

\* Mutant: without the deadlock detector.
NoVictim(p) == FALSE
DeadlockVictim(p) ==
  /\ WaitsFor(p) # {}
  /\ \E ps \in SUBSET {q \in Processes : WaitsFor(q) # {}} : p \in ps /\ Deadlock(ps)
  /\ Finish(p, "unavailable")

Fail(p) == pc[p] # "done" /\ Finish(p, "unavailable")

Tick ==
  /\ clock < Horizon
  /\ clock' = clock + 1
  /\ UNCHANGED <<tables, pc, open, cmd, answer, known>>

CreateStatement(i) == BeginCreate(i) \/ Snapshot(i) \/ Revoke(i) \/ Create(i)
AcceptStatement(t) ==
  /\ t \notin Bootstraps
  /\ \/ BeginAccept(t) \/ LockInvitation(t) \/ FindAccount(t) \/ InsertUser(t)
     \/ InsertMember(t) \/ Accept(t)
BootstrapStatement(t) ==
  t \in Bootstraps /\ (BeginBootstrap(t) \/ InsertUser(t) \/ Found(t))

Next ==
  \/ \E i \in Invites : CreateStatement(i)
  \/ \E t \in Calls : AcceptStatement(t) \/ BootstrapStatement(t)
  \/ \E p \in Processes : DeadlockVictim(p) \/ Fail(p)
  \/ Tick

Spec == Init /\ [][Next]_vars

\* A statement that can run is run, and the deadlock detector ends a deadlock.
Fairness ==
  /\ \A i \in Invites \ Opening : WF_vars(CreateStatement(i))
  /\ \A t \in Calls : WF_vars(AcceptStatement(t) \/ BootstrapStatement(t))
  /\ WF_vars(\E p \in Processes : DeadlockVictim(p))

FairSpec == Spec /\ Fairness

-------------------------------------------------------------------------------
(* Properties *)

Accepted == {i \in Invites : row[i].state = "accepted"}

\* README.md: invitations "can be accepted only once".  Every membership that is new
\* has come from one invitation, which is marked accepted and names its role, or from
\* the founding of its organization, together with its account; and no invitation that
\* has been accepted, and no organization that has been founded, lacks its membership.
JoinedByOneInvitation ==
  /\ \A i \in Accepted :
       PartyOf(i) \notin OpeningMembers /\ member[PartyOf(i)] = Invited[i].role
  /\ \A i, j \in Accepted : PartyOf(i) = PartyOf(j) => i = j
  /\ \A t \in Bootstraps : account[cmd[t].email] = t => member[Founded(t)] = "admin"
  /\ \A x \in Party \ OpeningMembers : member[x] # Nobody =>
       \/ \E i \in Accepted : PartyOf(i) = x
       \/ \E t \in Bootstraps : x = Founded(t) /\ account[cmd[t].email] = t

\* decisions/0012: "used, revoked, or expired tokens are rejected".  An invitation
\* is used up once: what revokes it and what accepts it exclude each other.
UsedUpOnce ==
  [][\A i \in Invites : row'[i].state # row[i].state => row[i].state \in {"absent", "pending"}]_vars

\* decisions/0012: "never replace the existing password", and "create the user and
\* membership atomically": an account keeps the password it was made with, and one
\* that is made has a membership.
AccountsKept ==
  [][\A e \in Emails : account'[e] # account[e] =>
       /\ account[e] = Nobody
       /\ \E o \in Orgs : member[<<o, e>>] = Nobody /\ member'[<<o, e>>] # Nobody]_vars

\* A caller told accepted has the role it was invited to, by an account that is its
\* own: the one it is signed in with, or one whose password it has just chosen.
AcceptedAsThemselves ==
  \A t \in Calls : answer[t] = "accepted" =>
    /\ member[PartyOf(cmd[t].token)] = Invited[cmd[t].token].role
    /\ cmd[t].session = Nobody => account[EmailOf(t)] = t
    /\ cmd[t].session # Nobody => cmd[t].session = EmailOf(t)
    /\ \A u \in Calls : answer[u] = "accepted" /\ cmd[u].token = cmd[t].token => u = t

\* Once an invitation has been created, none that was there when its call began can
\* still be accepted for the same address.
EarlierOnesSuperseded ==
  \A i \in Invites \ Opening : row[i].state # "absent" =>
    known[i] \cap Pending(PartyOf(i)) = {}

\* decisions/0012: "Revoke previous pending invitations for the same organization and
\* email": one of an address at most can be accepted.
OnePending == \A x \in Party : Cardinality(Pending(x)) <= 1

\* Every call returns.
EveryCallReturns == <>(\A p \in Processes : pc[p] = "done")
================================================================================
