--------------------------- MODULE Collaboration ---------------------------
(***************************************************************************)
(* One project and the people around it: joining by a free door, a shared  *)
(* password or quiz, or an application that a manager decides; members and *)
(* their roles; platform roles; API keys; the settings and the scheduled   *)
(* deletion of the project; comments, notices and private messages.        *)
(*                                                                         *)
(* A request is two steps.  Begin authenticates, takes the platform role   *)
(* as it is then, and makes the checks the handler makes before its        *)
(* transaction.  A second action is the transaction: it locks the project  *)
(* and reads roles again, as far as the code does.  In between, others     *)
(* commit.  The check of a password spans two steps under the lock of the  *)
(* project, because its counters live in Redis and expire by themselves.   *)
(***************************************************************************)
EXTENDS Permissions, Integers, Sequences, FiniteSets

CONSTANTS Users, Owner, Nobody, Addresses, AddressOf, Comments,
          FirstPlatform,    \* the platform role of each user at the start
          FirstProject,     \* the project as its owner has set it up
          Intents,          \* what each user may ask for, in each of several mixes
          UserLimit, AddressLimit,   \* failed attempts in a window
          MaxInFlight, MaxApplications    \* bounds of the model

Policies == {"application", "free", "admin_only", "password", "quiz"}
DefaultRoles == {"translator", "reviewer"}
Visibilities == {"public", "private"}
CommentPolicies == {"private", "internal", "public"}
Scopes == {"all", "project:read", "message:write", "entry:write", "project:write",
           "project:manage", "platform:manage"}

(* Secrets and texts are numbers; 0 is none. *)
Project ==
  [visibility: Visibilities, join_policy: Policies, default_role: DefaultRoles,
   comment_policy: CommentPolicies, scheduled: BOOLEAN,
   password: Nat, question: Nat, answer: Nat]

(* The bodies the routes accept. *)
Requests ==
  [op: {"update"}, visibility: Visibilities, comment_policy: CommentPolicies]
    \union [op: {"settings"}, join_policy: Policies, default_role: DefaultRoles,
            password: Nat, question: Nat, answer: Nat]
    \union [op: {"join"}, secret: Nat]
    \union [op: {"decide"}, id: Nat, approved: BOOLEAN, role: Roles \union {NoRole}]
    \union [op: {"add"}, who: Users, role: Roles]
    \union [op: {"grant"}, who: Users, role: PlatformRoles \union {NoRole}]
    \union [op: {"remove", "poke", "send"}, who: Users]
    \union [op: {"comment", "edit", "erase"}, id: Comments]
    \union [op: {"key", "rekey"}, scopes: SUBSET Scopes]
    \union [op: {"leave", "challenge", "delete", "restore", "revoke", "read"}]

ASSUME OwnerAssumption == Owner \in Users /\ Nobody \notin Users
ASSUME AddressAssumption == AddressOf \in [Users -> Addresses]
ASSUME PlatformAssumption == FirstPlatform \in [Users -> PlatformRoles \union {NoRole}]
ASSUME LimitAssumption == UserLimit \in Nat /\ AddressLimit \in Nat
ASSUME RequestAssumption == Intents \subseteq [Users -> SUBSET Requests]
ASSUME ProjectAssumption ==
  /\ FirstProject \in Project /\ ~FirstProject.scheduled
  /\ FirstProject.join_policy \notin {"password", "quiz"}

VARIABLES project, member, platform, keys, applications, comment, inbox, mail,
          challenge,     \* the owner holds an unused deletion challenge
          attempts,      \* failures counted per user and per address
          checking,      \* who holds the lock of the project for a check
          asked,         \* the request of each user between its two steps
          audited,       \* what a reader of the audit log believes
          intent         \* the mix of this behaviour

vars == <<project, member, platform, keys, applications, comment, inbox, mail,
          challenge, attempts, checking, asked, audited, intent>>

NoRequest == [as |-> NoRole, scopes |-> {}, want |-> [op |-> "none"]]
NoComment == [author |-> Nobody, text |-> 0, deleted |-> FALSE]

-----------------------------------------------------------------------------
(* Access. *)

EffectiveRole(u) == Effective(member[u], platform[u])
CanView(u) == ~project.scheduled /\ (project.visibility = "public" \/ EffectiveRole(u) # NoRole)
HasNode(u, node) == ~project.scheduled /\ node \in Grants(EffectiveRole(u))
CanRead(u) == project.comment_policy # "internal" \/ EffectiveRole(u) # NoRole
CanComment(u) == project.comment_policy = "public" \/ EffectiveRole(u) # NoRole

(* Everybody on the project shares it; only the one project is modelled. *)
ShareProject(u, x) == member[u] # NoRole /\ member[x] # NoRole

Manages == {u \in Users : member[u] \in {"owner", "manager"}}

AvailableScopes(u) ==
  {"all", "project:read", "message:write"}
    \union (IF member[u] # NoRole THEN {"entry:write"} ELSE {})
    \union (IF member[u] \in {"owner", "manager", "reviewer"} \/ platform[u] # NoRole
            THEN {"project:write"} ELSE {})
    \union (IF member[u] \in {"owner", "manager"} \/ platform[u] \in {"super_admin", "admin"}
            THEN {"project:manage"} ELSE {})
    \union (IF platform[u] \in {"super_admin", "admin"} THEN {"platform:manage"} ELSE {})

RequiredScope(op) ==
  CASE op = "grant" -> "platform:manage"
    [] op \in {"send", "read"} -> "message:write"
    [] op \in {"join", "leave"} -> "project:write"
    [] op \in {"comment", "edit", "erase"} -> "entry:write"
    [] OTHER -> "project:manage"

(* The requests that manage keys take the password session only. *)
SessionOnly(op) == op \in {"key", "rekey", "revoke"}

Credentials(u, op) ==
  {{"all"}} \union {k \in {keys[u]} : /\ k # {} /\ ~SessionOnly(op)
                                      /\ k \intersect {"all", RequiredScope(op)} # {}}

(* A key may be given the whole account, or what the account can do now. *)
ValidScopes(u, scopes) == scopes = {"all"} \/ scopes \subseteq AvailableScopes(u)

(* What the handlers check before they open a transaction. *)
CheckedFirst(u, r) ==
  CASE r.op = "update" -> HasNode(u, "manage")
    [] r.op \in {"add", "remove"} -> HasNode(u, "member")
    [] r.op = "grant" -> "users" \in PlatformGrants(platform[u])
    [] r.op = "comment" -> CanView(u) /\ CanComment(u)
    [] r.op \in {"edit", "erase"} -> CanView(u) /\ CanRead(u)
    [] r.op = "poke" -> CanView(u)
    [] r.op = "send" -> ShareProject(u, r.who)
    [] r.op = "delete" -> challenge /\ u = Owner
    [] r.op \in {"key", "rekey"} -> ValidScopes(u, r.scopes)
    [] OTHER -> TRUE

-----------------------------------------------------------------------------
(* The audit log, as a reader replays it. *)

Replay(log, event) ==
  CASE event.action = "member" ->
         [log EXCEPT !.member[event.who] = event.new,
                     !.sound = @ /\ event.previous = log.member[event.who]]
    [] event.action = "platform" ->
         [log EXCEPT !.platform[event.who] = event.new,
                     !.sound = @ /\ event.previous = log.platform[event.who]]
    [] event.action = "applied" ->
         [log EXCEPT !.status = Append(@, "pending"), !.sound = @ /\ event.id = Len(log.status) + 1]
    [] event.action = "withdrawn" -> [log EXCEPT !.status[event.id] = "withdrawn"]
    [] event.action = "decided" ->
         IF event.approved
         THEN [log EXCEPT !.status[event.id] = "approved", !.member[event.who] = event.new,
                          !.sound = @ /\ log.member[event.who] = NoRole]
         ELSE [log EXCEPT !.status[event.id] = "rejected"]
    [] event.action = "deletion" -> [log EXCEPT !.scheduled = event.new]

Membership(who, previous, new) ==
  [action |-> "member", who |-> who, previous |-> previous, new |-> new]

-----------------------------------------------------------------------------
(* Requests. *)

Init ==
  /\ project = FirstProject
  /\ member = [u \in Users |-> IF u = Owner THEN "owner" ELSE NoRole]
  /\ platform = FirstPlatform
  /\ keys = [u \in Users |-> {}]
  /\ applications = <<>>
  /\ comment = [c \in Comments |-> NoComment]
  /\ inbox = {} /\ mail = {} /\ challenge = FALSE
  /\ attempts = [user |-> [u \in Users |-> 0], address |-> [a \in Addresses |-> 0]]
  /\ checking = {}
  /\ asked = [u \in Users |-> NoRequest]
  /\ intent \in Intents
  /\ audited = [member |-> member, platform |-> platform, status |-> <<>>,
                scheduled |-> FALSE, sound |-> TRUE]

Waiting(u) == asked[u] # NoRequest

Begin(u, r, scopes) ==
  /\ ~Waiting(u) /\ Cardinality({v \in Users : Waiting(v)}) < MaxInFlight
  /\ scopes \in Credentials(u, r.op)
  /\ CheckedFirst(u, r)
  /\ asked' = [asked EXCEPT ![u] = [as |-> platform[u], scopes |-> scopes, want |-> r]]
  /\ challenge' = (challenge /\ r.op # "delete")
  /\ UNCHANGED <<project, member, platform, keys, applications, comment, inbox, mail,
                 attempts, checking, audited, intent>>

(* Slip: the attempt is checked and counted outside the lock. *)
LockedNever(u, op) == Waiting(u) /\ asked[u].want.op = op /\ u \notin checking

(* The transaction of a request starts: it may wait for a lock. *)
Locked(u, op) == Waiting(u) /\ asked[u].want.op = op /\ checking = {}
Done(u) == asked' = [asked EXCEPT ![u] = NoRequest]

(* Any check, a database or an audit error rolls the transaction back. *)
Refuse(u) ==
  /\ Waiting(u) /\ u \notin checking
  /\ Done(u)
  /\ UNCHANGED <<project, member, platform, keys, applications, comment, inbox, mail,
                 challenge, attempts, checking, audited, intent>>

-----------------------------------------------------------------------------
(* The project. *)

UpdateProject(u) ==
  LET r == asked[u].want IN
  /\ Locked(u, "update") /\ HasNode(u, "manage")
  /\ project' = [project EXCEPT !.visibility = r.visibility, !.comment_policy = r.comment_policy]
  /\ Done(u)
  /\ UNCHANGED <<member, platform, keys, applications, comment, inbox, mail,
                 challenge, attempts, checking, audited, intent>>

(* A secret that is not supplied (0) is kept. *)
Kept(new, old) == IF new = 0 THEN old ELSE new

(* Slip: a door may be opened before its secret is set. *)
PutJoinSettingsUnchecked(u) ==
  LET r == asked[u].want IN
  /\ Locked(u, "settings") /\ HasNode(u, "manage")
  /\ project' = [project EXCEPT !.join_policy = r.join_policy, !.default_role = r.default_role,
                                !.password = Kept(r.password, @),
                                !.question = Kept(r.question, @), !.answer = Kept(r.answer, @)]
  /\ Done(u)
  /\ UNCHANGED <<member, platform, keys, applications, comment, inbox, mail,
                 challenge, attempts, checking, audited, intent>>

PutJoinSettings(u) ==
  LET r == asked[u].want
      password == Kept(r.password, project.password)
      question == Kept(r.question, project.question)
      answer == Kept(r.answer, project.answer) IN
  /\ Locked(u, "settings") /\ HasNode(u, "manage")
  /\ r.join_policy = "password" => password # 0
  /\ r.join_policy = "quiz" => question # 0 /\ answer # 0
  /\ project' = [project EXCEPT !.join_policy = r.join_policy, !.default_role = r.default_role,
                                !.password = password, !.question = question, !.answer = answer]
  /\ Done(u)
  /\ UNCHANGED <<member, platform, keys, applications, comment, inbox, mail,
                 challenge, attempts, checking, audited, intent>>

IssueChallenge(u) ==
  /\ Waiting(u) /\ asked[u].want.op = "challenge"
  /\ u = Owner /\ ~project.scheduled
  /\ challenge' = TRUE
  /\ Done(u)
  /\ UNCHANGED <<project, member, platform, keys, applications, comment, inbox, mail,
                 attempts, checking, audited, intent>>

ExpireChallenge ==
  /\ challenge /\ challenge' = FALSE
  /\ UNCHANGED <<project, member, platform, keys, applications, comment, inbox, mail,
                 attempts, checking, asked, audited, intent>>

SetScheduled(u, op, scheduled) ==
  /\ Locked(u, op) /\ u = Owner /\ project.scheduled # scheduled
  /\ project' = [project EXCEPT !.scheduled = scheduled]
  /\ audited' = Replay(audited, [action |-> "deletion", new |-> scheduled])
  /\ Done(u)
  /\ UNCHANGED <<member, platform, keys, applications, comment, inbox, mail,
                 challenge, attempts, checking, intent>>

DeleteProject(u) == SetScheduled(u, "delete", TRUE)
CancelDeletion(u) == SetScheduled(u, "restore", FALSE)

-----------------------------------------------------------------------------
(* Joining. *)

Pending(u) ==
  {i \in DOMAIN applications : applications[i].user = u /\ applications[i].status = "pending"}
Notice(to, kind, about) == [to |-> to, kind |-> kind, about |-> about, read |-> FALSE]

MayJoin(u) ==
  Locked(u, "join") /\ project.visibility = "public" /\ ~project.scheduled /\ member[u] = NoRole

Apply(u) ==
  /\ MayJoin(u) /\ project.join_policy = "application"
  /\ Pending(u) = {} /\ Len(applications) < MaxApplications
  /\ LET id == Len(applications) + 1 IN
     /\ applications' = Append(applications, [user |-> u, status |-> "pending", role |-> NoRole])
     /\ inbox' = inbox \union {Notice(m, "application", id) : m \in Manages}
     /\ audited' = Replay(audited, [action |-> "applied", id |-> id])
  /\ Done(u)
  /\ UNCHANGED <<project, member, platform, keys, comment, mail,
                 challenge, attempts, checking, intent>>

Admit(u) ==
  /\ member' = [member EXCEPT ![u] = project.default_role]
  /\ audited' = Replay(audited, Membership(u, NoRole, project.default_role))

JoinFreely(u) ==
  /\ MayJoin(u) /\ project.join_policy = "free"
  /\ Admit(u) /\ Done(u)
  /\ UNCHANGED <<project, platform, keys, applications, comment, inbox, mail,
                 challenge, attempts, checking, intent>>

NotRateLimited(u) ==
  attempts.user[u] < UserLimit /\ attempts.address[AddressOf[u]] < AddressLimit

(* The lock of the project is held until the transaction ends. *)
EnsureNotRateLimited(u) ==
  /\ MayJoin(u) /\ project.join_policy \in {"password", "quiz"}
  /\ NotRateLimited(u)
  /\ checking' = checking \union {u}
  /\ UNCHANGED <<project, member, platform, keys, applications, comment, inbox, mail,
                 challenge, attempts, asked, audited, intent>>

Matches(u) ==
  LET expected == IF project.join_policy = "password" THEN project.password ELSE project.answer IN
  asked[u].want.secret # 0 /\ asked[u].want.secret = expected

VerifyAccepted(u) ==
  /\ u \in checking /\ Matches(u)
  /\ Admit(u) /\ Done(u) /\ checking' = checking \ {u}
  /\ UNCHANGED <<project, platform, keys, applications, comment, inbox, mail,
                 challenge, attempts, intent>>

(* Two scripts count the failure; Redis may fail before either of them. *)
RecordJoinFailure(u) ==
  LET one == [attempts EXCEPT !.user[u] = @ + 1]
      both == [one EXCEPT !.address[AddressOf[u]] = @ + 1] IN
  /\ u \in checking /\ ~Matches(u)
  /\ attempts' \in {attempts, one, both}
  /\ Done(u) /\ checking' = checking \ {u}
  /\ UNCHANGED <<project, member, platform, keys, applications, comment, inbox, mail,
                 challenge, audited, intent>>

(* A window ends some time after its first failure. *)
ExpireWindow ==
  /\ \/ \E u \in Users : attempts.user[u] > 0 /\ attempts' = [attempts EXCEPT !.user[u] = 0]
     \/ \E a \in Addresses :
          attempts.address[a] > 0 /\ attempts' = [attempts EXCEPT !.address[a] = 0]
  /\ UNCHANGED <<project, member, platform, keys, applications, comment, inbox, mail,
                 challenge, checking, asked, audited, intent>>

(* Slip: leaving goes unrecorded. *)
LeaveUnrecorded(u) ==
  /\ Locked(u, "leave") /\ member[u] # NoRole /\ u # Owner
  /\ member' = [member EXCEPT ![u] = NoRole]
  /\ Done(u)
  /\ UNCHANGED <<project, platform, keys, applications, comment, inbox, mail,
                 challenge, attempts, checking, audited, intent>>

Leave(u) ==
  /\ Locked(u, "leave") /\ member[u] # NoRole
  /\ u # Owner /\ member[u] # "owner"
  /\ member' = [member EXCEPT ![u] = NoRole]
  /\ audited' = Replay(audited, Membership(u, member[u], NoRole))
  /\ Done(u)
  /\ UNCHANGED <<project, platform, keys, applications, comment, inbox, mail,
                 challenge, attempts, checking, intent>>

Withdraw(u) ==
  /\ Locked(u, "leave") /\ member[u] = NoRole
  /\ \E i \in Pending(u) :
       /\ applications' = [applications EXCEPT ![i].status = "withdrawn"]
       /\ audited' = Replay(audited, [action |-> "withdrawn", id |-> i])
  /\ Done(u)
  /\ UNCHANGED <<project, member, platform, keys, comment, inbox, mail,
                 challenge, attempts, checking, intent>>

-----------------------------------------------------------------------------
(* Decisions and memberships. *)

(* Slip: an application is found whatever was decided. *)
FindPendingAny(i) == {applications[i]}

FindPending(i) == {a \in {applications[i]} : a.status = "pending"}

(* The scope of the decision uses the platform role of the authentication. *)
Decide(u) ==
  LET r == asked[u].want
      role == IF r.role = NoRole THEN project.default_role ELSE r.role
      scope == MembershipScope(u = Owner, member[u], asked[u].as) IN
  /\ Locked(u, "decide") /\ HasNode(u, "member")
  /\ r.id \in DOMAIN applications
  /\ \E a \in FindPending(r.id) :
       /\ member[a.user] = NoRole
       /\ r.approved => MayChangeMember(scope, a.user = Owner, NoRole, role)
       /\ member' = IF r.approved THEN [member EXCEPT ![a.user] = role] ELSE member
       /\ applications' = [applications EXCEPT ![r.id] =
            [a EXCEPT !.status = IF r.approved THEN "approved" ELSE "rejected",
                      !.role = IF r.approved THEN role ELSE NoRole]]
       /\ inbox' = inbox \union {Notice(a.user, "decision", r.id)}
       /\ audited' = Replay(audited, [action |-> "decided", id |-> r.id, who |-> a.user,
                                      approved |-> r.approved, new |-> role])
  /\ Done(u)
  /\ UNCHANGED <<project, platform, keys, comment, mail,
                 challenge, attempts, checking, intent>>

(* Slip: the platform role is the one of the authentication. *)
MutateMemberStale(u, op, new) ==
  LET x == asked[u].want.who
      scope == MembershipScope(u = Owner, member[u], asked[u].as) IN
  /\ Locked(u, op)
  /\ MayChangeMember(scope, x = Owner, member[x], new)
  /\ member' = [member EXCEPT ![x] = new]
  /\ audited' = Replay(audited, Membership(x, member[x], new))
  /\ Done(u)
  /\ UNCHANGED <<project, platform, keys, applications, comment, inbox, mail,
                 challenge, attempts, checking, intent>>

(* The transaction reads the rows again but not the node or the deletion. *)
MutateMember(u, op, new) ==
  LET x == asked[u].want.who
      scope == MembershipScope(u = Owner, member[u], platform[u]) IN
  /\ Locked(u, op)
  /\ MayChangeMember(scope, x = Owner, member[x], new)
  /\ member' = [member EXCEPT ![x] = new]
  /\ audited' = Replay(audited, Membership(x, member[x], new))
  /\ Done(u)
  /\ UNCHANGED <<project, platform, keys, applications, comment, inbox, mail,
                 challenge, attempts, checking, intent>>

AddMember(u) == MutateMember(u, "add", asked[u].want.role)
RemoveMember(u) == MutateMember(u, "remove", NoRole)

GrantRole(u) ==
  LET x == asked[u].want.who
      new == asked[u].want.role IN
  /\ Waiting(u) /\ asked[u].want.op = "grant"
  /\ MayManageUser(x = u, platform[u], platform[x], new)
  /\ platform' = [platform EXCEPT ![x] = new]
  /\ audited' = Replay(audited, [action |-> "platform", who |-> x,
                                 previous |-> platform[x], new |-> new])
  /\ Done(u)
  /\ UNCHANGED <<project, member, keys, applications, comment, inbox, mail,
                 challenge, attempts, checking, intent>>

-----------------------------------------------------------------------------
(* Comments. *)

CreateComment(u) ==
  LET c == asked[u].want.id IN
  /\ Locked(u, "comment") /\ CanComment(u)
  /\ comment[c].author = Nobody
  /\ comment' = [comment EXCEPT ![c] = [author |-> u, text |-> 1, deleted |-> FALSE]]
  /\ Done(u)
  /\ UNCHANGED <<project, member, platform, keys, applications, inbox, mail,
                 challenge, attempts, checking, audited, intent>>

UpdateComment(u) ==
  LET c == asked[u].want.id IN
  /\ Locked(u, "edit") /\ CanRead(u)
  /\ comment[c].author = u /\ ~comment[c].deleted
  /\ comment' = [comment EXCEPT ![c].text = 2]
  /\ Done(u)
  /\ UNCHANGED <<project, member, platform, keys, applications, inbox, mail,
                 challenge, attempts, checking, audited, intent>>

DeleteComment(u) ==
  LET c == asked[u].want.id IN
  /\ Locked(u, "erase") /\ CanRead(u)
  /\ comment[c].author # Nobody /\ ~comment[c].deleted
  /\ comment[c].author = u \/ HasNode(u, "manage")
  /\ comment' = [comment EXCEPT ![c].text = 0, ![c].deleted = TRUE]
  /\ Done(u)
  /\ UNCHANGED <<project, member, platform, keys, applications, inbox, mail,
                 challenge, attempts, checking, audited, intent>>

-----------------------------------------------------------------------------
(* Keys, notices and messages. *)

(* Bound of the model: one key for each user. *)
CreateApiKey(u) ==
  /\ Waiting(u) /\ asked[u].want.op = "key" /\ keys[u] = {}
  /\ keys' = [keys EXCEPT ![u] = asked[u].want.scopes]
  /\ Done(u)
  /\ UNCHANGED <<project, member, platform, applications, comment, inbox, mail,
                 challenge, attempts, checking, audited, intent>>

(* The scopes were checked before the key was locked. *)
UpdateApiKey(u) ==
  /\ Waiting(u) /\ asked[u].want.op = "rekey" /\ keys[u] # {}
  /\ keys' = [keys EXCEPT ![u] = asked[u].want.scopes]
  /\ Done(u)
  /\ UNCHANGED <<project, member, platform, applications, comment, inbox, mail,
                 challenge, attempts, checking, audited, intent>>

RevokeApiKey(u) ==
  /\ Waiting(u) /\ asked[u].want.op = "revoke" /\ keys[u] # {}
  /\ keys' = [keys EXCEPT ![u] = {}]
  /\ Done(u)
  /\ UNCHANGED <<project, member, platform, applications, comment, inbox, mail,
                 challenge, attempts, checking, audited, intent>>

Poke(u) ==
  LET x == asked[u].want.who IN
  /\ Locked(u, "poke") /\ CanView(u) /\ ShareProject(u, x)
  /\ inbox' = inbox \union {Notice(x, "poke", 0)}
  /\ Done(u)
  /\ UNCHANGED <<project, member, platform, keys, applications, comment, mail,
                 challenge, attempts, checking, audited, intent>>

SendMessage(u) ==
  /\ Waiting(u) /\ asked[u].want.op = "send"
  /\ mail' = mail \union {[from |-> u, to |-> asked[u].want.who, read |-> FALSE]}
  /\ Done(u)
  /\ UNCHANGED <<project, member, platform, keys, applications, comment, inbox,
                 challenge, attempts, checking, audited, intent>>

MarkRead(u) ==
  /\ Waiting(u) /\ asked[u].want.op = "read"
  /\ inbox' = {IF n.to = u THEN [n EXCEPT !.read = TRUE] ELSE n : n \in inbox}
  /\ mail' = {IF n.to = u THEN [n EXCEPT !.read = TRUE] ELSE n : n \in mail}
  /\ Done(u)
  /\ UNCHANGED <<project, member, platform, keys, applications, comment,
                 challenge, attempts, checking, audited, intent>>

-----------------------------------------------------------------------------

Transaction(u) ==
  \/ UpdateProject(u) \/ PutJoinSettings(u) \/ IssueChallenge(u)
  \/ DeleteProject(u) \/ CancelDeletion(u)
  \/ Apply(u) \/ JoinFreely(u) \/ EnsureNotRateLimited(u) \/ VerifyAccepted(u)
  \/ RecordJoinFailure(u) \/ Leave(u) \/ Withdraw(u) \/ Decide(u) \/ AddMember(u)
  \/ RemoveMember(u) \/ GrantRole(u) \/ CreateComment(u) \/ UpdateComment(u)
  \/ DeleteComment(u) \/ CreateApiKey(u) \/ UpdateApiKey(u)
  \/ RevokeApiKey(u) \/ Poke(u) \/ SendMessage(u) \/ MarkRead(u) \/ Refuse(u)

Next ==
  \/ \E u \in Users : \E r \in intent[u] : \E scopes \in Credentials(u, r.op) : Begin(u, r, scopes)
  \/ \E u \in Users : Transaction(u)
  \/ ExpireChallenge \/ ExpireWindow

Spec == Init /\ [][Next]_vars

-----------------------------------------------------------------------------
(* Properties. *)

Statuses == {"pending", "approved", "rejected", "withdrawn"}

TypeOK ==
  /\ project \in Project
  /\ member \in [Users -> Roles \union {NoRole}]
  /\ platform \in [Users -> PlatformRoles \union {NoRole}]
  /\ keys \in [Users -> SUBSET Scopes]
  /\ applications \in Seq([user: Users, status: Statuses, role: Roles \union {NoRole}])
  /\ comment \in [Comments -> [author: Users \union {Nobody}, text: 0..2, deleted: BOOLEAN]]
  /\ inbox \subseteq [to: Users, kind: {"application", "decision", "poke"},
                     about: Nat, read: BOOLEAN]
  /\ mail \subseteq [from: Users, to: Users, read: BOOLEAN]
  /\ challenge \in BOOLEAN
  /\ attempts \in [user: [Users -> Nat], address: [Addresses -> Nat]]
  /\ checking \subseteq Users
  /\ asked \in [Users -> [as: PlatformRoles \union {NoRole}, scopes: SUBSET Scopes,
                         want: Requests \union {[op |-> "none"]}]]
  /\ audited \in [member: [Users -> Roles \union {NoRole}],
                  platform: [Users -> PlatformRoles \union {NoRole}],
                  status: Seq(Statuses), scheduled: BOOLEAN, sound: BOOLEAN]
  /\ intent \in Intents

(* The lock of the project makes check and count one unit: however many    *)
(* try at once, no window counts more failures than its limit              *)
(* (project_join.rs ensure_not_rate_limited and record_join_failure).      *)
AttemptsBounded ==
  /\ \A u \in Users : attempts.user[u] <= UserLimit
  /\ \A a \in Addresses : attempts.address[a] <= AddressLimit

(* The owner of the row is the one owner among the members, the door that  *)
(* is open has its secret, and nobody has two open applications            *)
(* (memberships, put_join_settings, create_application_tx).                *)
ProjectSound ==
  /\ {u \in Users : member[u] = "owner"} = {Owner}
  /\ project.join_policy = "password" => project.password # 0
  /\ project.join_policy = "quiz" => project.question # 0 /\ project.answer # 0
  /\ \A u \in Users : Cardinality(Pending(u)) <= 1

(* Who replays the audit log arrives at the members, the platform roles,   *)
(* the verdicts and the deletion that the tables hold, and each event      *)
(* names the role it replaced (audit.rs, append_event_tx in each handler). *)
AuditReplays ==
  /\ audited.sound
  /\ audited.member = member /\ audited.platform = platform
  /\ audited.scheduled = project.scheduled
  /\ audited.status = [i \in DOMAIN applications |-> applications[i].status]

Acting(u) == Waiting(u) /\ asked'[u] = NoRequest

ProjectRank(role) ==
  CASE role = "owner" -> 3 [] role = "manager" -> 2 [] role = NoRole -> 0 [] OTHER -> 1

(* What the actor is at the commit, whatever he was at the beginning. *)
Authority(u) ==
  IF u = Owner \/ platform[u] \in {"admin", "super_admin"} THEN 3 ELSE ProjectRank(member[u])

(* He decides an application as the administrator he was authenticated as. *)
DecidesAsBefore(u) ==
  /\ asked[u].want.op = "decide"
  /\ asked[u].as \in {"admin", "super_admin"} /\ platform[u] \notin {"admin", "super_admin"}

ByOwnDoor(x) ==
  \/ /\ asked[x].want.op = "leave" /\ member'[x] = NoRole /\ x # Owner
  \/ /\ asked[x].want.op = "join" /\ member[x] = NoRole /\ member'[x] = project.default_role
     /\ project.visibility = "public" /\ ~project.scheduled
     /\ \/ project.join_policy = "free"
        \/ project.join_policy = "password" /\ asked[x].want.secret = project.password
        \/ project.join_policy = "quiz" /\ asked[x].want.secret = project.answer

(* What one step does to the roles. *)
RanksKept ==
  \A x \in Users :
     /\ member'[x] # member[x] =>
          \E u \in Users :
            /\ Acting(u)
            /\ \/ u = x /\ ByOwnDoor(x)
               \/ /\ asked[u].scopes \intersect {"all", "project:manage"} # {}
                  /\ Authority(u) > 1
                  /\ Authority(u) > ProjectRank(member[x])
                  /\ \/ Authority(u) > ProjectRank(member'[x])
                     \/ DecidesAsBefore(u) /\ Authority(u) = ProjectRank(member'[x])
     /\ platform'[x] # platform[x] =>
          \E u \in Users \ {x} :
            /\ Acting(u) /\ platform[u] \in {"admin", "super_admin"}
            /\ PlatformRank(platform[u]) > PlatformRank(platform[x])
            /\ PlatformRank(platform[u]) > PlatformRank(platform'[x])

(* Whatever was revoked between the two steps of a request, nobody changes *)
(* a role of the rank he has at the commit or a higher one, or gives one,  *)
(* in the project or on the platform, or with a key that may not manage; a *)
(* member who was not added came through the open door (permission.rs).    *)
(* One request may give the rank of its actor, though not more: a manager  *)
(* whose platform role was revoked still approves as an administrator.     *)
RankRespected == [][RanksKept]_vars

(* What one step does to the applications. *)
VerdictKept ==
  \A i \in DOMAIN applications :
     LET before == applications[i]
         after == applications'[i] IN
     before # after =>
       /\ before.status = "pending"
       /\ after.status \in {"approved", "rejected"} =>
            Notice(after.user, "decision", i) \in inbox'
       /\ IF after.status = "approved"
          THEN member[after.user] = NoRole /\ member'[after.user] = after.role
          ELSE member'[after.user] = member[after.user]

(* What two managers and the applicant decide about one application never  *)
(* overlaps: a settled one stays, and an approval makes a member of the    *)
(* role it names and tells the applicant in the same commit.               *)
VerdictsStand == [][VerdictKept]_vars

=============================================================================
