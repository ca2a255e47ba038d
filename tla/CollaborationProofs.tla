------------------------- MODULE CollaborationProofs -------------------------
(***************************************************************************)
(* Theorems of Collaboration for every number of users, addresses and      *)
(* requests in flight, every mix of requests, every limit and every first  *)
(* project: TypeOK, AttemptsBounded, ProjectSound, AuditReplays,           *)
(* RankRespected and VerdictsStand.                                        *)
(*                                                                         *)
(* The two action properties need an invariant each: that a request in     *)
(* flight still has the scope its route requires, and that what the check  *)
(* of a password has read does not change until it ends.                   *)
(***************************************************************************)
EXTENDS Collaboration, FiniteSetTheorems, SequenceTheorems, TLAPS

Application == [user: Users, status: Statuses, role: Roles \union {NoRole}]
Asked == [as: PlatformRoles \union {NoRole}, scopes: SUBSET Scopes,
          want: Requests \union {[op |-> "none"]}]
Counters == [user: [Users -> Nat], address: [Addresses -> Nat]]
Notices == [to: Users, kind: {"application", "decision", "poke"}, about: Nat, read: BOOLEAN]
Mails == [from: Users, to: Users, read: BOOLEAN]
Log == [member: [Users -> Roles \union {NoRole}],
        platform: [Users -> PlatformRoles \union {NoRole}],
        status: Seq(Statuses), scheduled: BOOLEAN, sound: BOOLEAN]

OneOwner == \A u \in Users : member[u] = "owner" <=> u = Owner

DoorSound(p) ==
  /\ p.join_policy = "password" => p.password # 0
  /\ p.join_policy = "quiz" => p.question # 0 /\ p.answer # 0

OnePending == \A i, j \in DOMAIN applications :
  applications[i].user = applications[j].user
  /\ applications[i].status = "pending" /\ applications[j].status = "pending" => i = j

(* Whatever happened to the key since, the scope was there at the beginning. *)
Credentialed ==
  \A u \in Users : Waiting(u) =>
    asked[u].scopes \intersect {"all", RequiredScope(asked[u].want.op)} # {}

(* The lock of the project keeps what the check has read. *)
Checks ==
  /\ \A u, v \in checking : u = v
  /\ \A u \in checking :
       /\ Waiting(u) /\ asked[u].want.op = "join"
       /\ NotRateLimited(u)
       /\ member[u] = NoRole
       /\ project.visibility = "public" /\ ~project.scheduled
       /\ project.join_policy \in {"password", "quiz"}

Inv ==
  /\ TypeOK
  /\ OneOwner
  /\ DoorSound(project)
  /\ OnePending
  /\ Credentialed
  /\ Checks
  /\ AttemptsBounded
  /\ AuditReplays

-----------------------------------------------------------------------------
(* Requests *)

LEMMA OwnerHasRole == NoRole \notin Roles /\ "owner" # NoRole /\ "owner" \in Roles
BY DEF Roles, NoRole

(* What the routes have parsed. *)
LEMMA Bodies ==
  ASSUME NEW r \in Requests \union {[op |-> "none"]}
  PROVE  /\ r.op = "update" => r.visibility \in Visibilities /\ r.comment_policy \in CommentPolicies
         /\ r.op = "settings" => /\ r.join_policy \in Policies /\ r.default_role \in DefaultRoles
                                 /\ r.password \in Nat /\ r.question \in Nat /\ r.answer \in Nat
         /\ r.op = "decide" => /\ r.id \in Nat /\ r.approved \in BOOLEAN
                               /\ r.role \in Roles \union {NoRole}
         /\ r.op = "add" => r.who \in Users /\ r.role \in Roles
         /\ r.op = "grant" => r.who \in Users /\ r.role \in PlatformRoles \union {NoRole}
         /\ r.op \in {"remove", "poke", "send"} => r.who \in Users
         /\ r.op \in {"comment", "edit", "erase"} => r.id \in Comments
         /\ r.op \in {"key", "rekey"} => r.scopes \in SUBSET Scopes
BY DEF Requests

LEMMA Wanted ==
  ASSUME TypeOK, NEW u \in Users
  PROVE  asked[u].want \in Requests \union {[op |-> "none"]}
BY DEF TypeOK

(* The end of a request. *)
LEMMA DoneAsked ==
  ASSUME TypeOK, NEW u \in Users, Done(u)
  PROVE  /\ asked' \in [Users -> Asked]
         /\ asked'[u] = NoRequest
         /\ \A v \in Users \ {u} : asked'[v] = asked[v]
<1>1. NoRequest \in Asked
    BY DEF NoRequest, Asked
<1>2. asked \in [Users -> Asked]
    BY DEF TypeOK, Asked
<1> QED
    BY <1>1, <1>2 DEF Done

(* What a step has to show. *)
LEMMA Typed ==
  ASSUME TypeOK,
         project' \in Project \/ UNCHANGED project,
         member' \in [Users -> Roles \union {NoRole}] \/ UNCHANGED member,
         platform' \in [Users -> PlatformRoles \union {NoRole}] \/ UNCHANGED platform,
         keys' \in [Users -> SUBSET Scopes] \/ UNCHANGED keys,
         applications' \in Seq(Application) \/ UNCHANGED applications,
         comment' \in [Comments -> [author: Users \union {Nobody}, text: 0..2, deleted: BOOLEAN]]
           \/ UNCHANGED comment,
         inbox' \subseteq Notices \/ UNCHANGED inbox,
         mail' \subseteq Mails \/ UNCHANGED mail,
         challenge' \in BOOLEAN,
         attempts' \in Counters \/ UNCHANGED attempts,
         checking' \subseteq Users,
         asked' \in [Users -> Asked],
         audited' \in Log \/ UNCHANGED audited,
         UNCHANGED intent
  PROVE  TypeOK'
BY DEF TypeOK, Application, Notices, Mails, Counters, Asked, Log

(* The transactions that end a request: what they keep of the invariant. *)
LEMMA EndStep ==
  ASSUME Inv, NEW u \in Users, Done(u), TypeOK', OneOwner', DoorSound(project)', OnePending',
         AttemptsBounded', AuditReplays',
         checking' \subseteq checking \ {u},
         \/ checking' = {}
         \/ UNCHANGED <<project, member, attempts>>
  PROVE  Inv'
<1>1. /\ asked'[u] = NoRequest
      /\ \A v \in Users \ {u} : asked'[v] = asked[v]
    BY DoneAsked DEF Inv
<1>2. Credentialed'
    BY <1>1 DEF Inv, Credentialed, Waiting
<1>3. Checks'
  <2>1. CASE checking' = {}
      BY <2>1 DEF Checks
  <2>2. CASE UNCHANGED <<project, member, attempts>>
    <3> SUFFICES ASSUME NEW v \in checking'
                 PROVE  /\ Waiting(v)' /\ asked'[v].want.op = "join"
                        /\ NotRateLimited(v)'
                        /\ member'[v] = NoRole
                        /\ project'.visibility = "public" /\ ~project'.scheduled
                        /\ project'.join_policy \in {"password", "quiz"}
        BY DEF Inv, Checks
    <3>1. v \in checking /\ v \in Users \ {u}
        BY DEF Inv, TypeOK
    <3>2. asked'[v] = asked[v]
        BY <1>1, <3>1
    <3> QED
        BY <2>2, <3>1, <3>2 DEF Inv, Checks, Waiting, NotRateLimited
  <2> QED
      BY <2>1, <2>2
<1> QED
    BY <1>2, <1>3 DEF Inv

LEMMA OwnersKept == ASSUME OneOwner, UNCHANGED member PROVE OneOwner'
BY DEF OneOwner

LEMMA PendingKept == ASSUME OnePending, UNCHANGED applications PROVE OnePending'
BY DEF OnePending

LEMMA AttemptsKept == ASSUME AttemptsBounded, UNCHANGED attempts PROVE AttemptsBounded'
BY DEF AttemptsBounded

LEMMA DoorKept == ASSUME DoorSound(project), UNCHANGED project PROVE DoorSound(project)'
BY DEF DoorSound

LEMMA AuditKept ==
  ASSUME AuditReplays, UNCHANGED <<audited, member, platform, applications>>,
         project'.scheduled = project.scheduled
  PROVE  AuditReplays'
BY DEF AuditReplays

(* A request that leaves what others depend on alone. *)
LEMMA AsideStep ==
  ASSUME Inv, NEW u \in Users, Waiting(u), Done(u),
         u \notin checking \/ checking' = {},
         keys' \in [Users -> SUBSET Scopes] \/ UNCHANGED keys,
         comment' \in [Comments -> [author: Users \union {Nobody}, text: 0..2, deleted: BOOLEAN]]
           \/ UNCHANGED comment,
         inbox' \subseteq Notices \/ UNCHANGED inbox,
         mail' \subseteq Mails \/ UNCHANGED mail,
         challenge' \in BOOLEAN,
         UNCHANGED <<project, member, platform, applications, attempts, checking, audited, intent>>
  PROVE  Inv'
<1>1. asked' \in [Users -> Asked]
    BY DoneAsked DEF Inv
<1>2. TypeOK'
  <2>1. checking' \subseteq Users
      BY DEF Inv, TypeOK
  <2> QED
      BY <1>1, <2>1, Typed DEF Inv
<1>3. OneOwner' /\ DoorSound(project)' /\ OnePending' /\ AttemptsBounded' /\ AuditReplays'
    BY OwnersKept, PendingKept, AttemptsKept, DoorKept, AuditKept DEF Inv
<1> QED
    BY <1>2, <1>3, EndStep

-----------------------------------------------------------------------------
(* Steps that change neither the project nor its people *)

LEMMA NotChecking ==
  ASSUME Inv, NEW u \in Users, asked[u].want.op # "join"
  PROVE  u \notin checking
BY DEF Inv, Checks

LEMMA InboxTyped ==
  ASSUME TypeOK, NEW S, S \subseteq Notices, inbox' = inbox \union S
  PROVE  inbox' \subseteq Notices
BY DEF TypeOK, Notices

LEMMA NoticeTyped ==
  ASSUME NEW x \in Users, NEW kind \in {"application", "decision", "poke"}, NEW n \in Nat
  PROVE  Notice(x, kind, n) \in Notices
BY DEF Notice, Notices

LEMMA RefuseStep == ASSUME Inv, NEW u \in Users, Refuse(u) PROVE Inv'
<1>1. challenge' \in BOOLEAN
    BY DEF Refuse, Inv, TypeOK
<1> QED
    BY <1>1, AsideStep DEF Refuse

LEMMA ChallengeStep == ASSUME Inv, NEW u \in Users, IssueChallenge(u) PROVE Inv'
<1>1. u \notin checking
    BY NotChecking DEF IssueChallenge
<1> QED
    BY <1>1, AsideStep DEF IssueChallenge

LEMMA CommentStep ==
  ASSUME Inv, NEW u \in Users, CreateComment(u) \/ UpdateComment(u) \/ DeleteComment(u)
  PROVE  Inv'
<1> DEFINE c == asked[u].want.id
           Rows == [author: Users \union {Nobody}, text: 0..2, deleted: BOOLEAN]
<1>1. /\ asked[u].want.op \in {"comment", "edit", "erase"} /\ Waiting(u)
      /\ checking = {}
    BY DEF CreateComment, UpdateComment, DeleteComment, Locked
<1>2. c \in Comments
    BY <1>1, Wanted, Bodies DEF Inv
<1>3. comment[c] \in Rows /\ comment \in [Comments -> Rows]
    BY <1>2 DEF Inv, TypeOK
<1>4. PICK row \in Rows : comment' = [comment EXCEPT ![c] = row]
  <2> DEFINE old == comment[c]
  <2>1. CASE CreateComment(u)
    <3>1. [author |-> u, text |-> 1, deleted |-> FALSE] \in Rows
        OBVIOUS
    <3> QED
        BY <2>1, <3>1 DEF CreateComment
  <2>2. CASE UpdateComment(u)
    <3>1. comment' = [comment EXCEPT ![c] = [old EXCEPT !.text = 2]]
        BY <2>2, <1>2, <1>3 DEF UpdateComment
    <3>2. old \in Rows
        BY <1>3
    <3> HIDE DEF old
    <3>3. 2 \in 0..2
        OBVIOUS
    <3>4. [old EXCEPT !.text = 2] \in Rows
        BY <3>2, <3>3
    <3> QED
        BY <3>1, <3>4
  <2>3. CASE DeleteComment(u)
    <3>1. comment' = [comment EXCEPT ![c] = [old EXCEPT !.text = 0, !.deleted = TRUE]]
        BY <2>3, <1>2, <1>3 DEF DeleteComment
    <3>2. old \in Rows
        BY <1>3
    <3> HIDE DEF old
    <3>3. 0 \in 0..2
        OBVIOUS
    <3>4. [old EXCEPT !.text = 0, !.deleted = TRUE] \in Rows
        BY <3>2, <3>3
    <3> QED
        BY <3>1, <3>4
  <2> QED
      BY <2>1, <2>2, <2>3
<1>5. /\ Done(u)
      /\ UNCHANGED <<project, member, platform, keys, applications, inbox, mail,
                     challenge, attempts, checking, audited, intent>>
    BY DEF CreateComment, UpdateComment, DeleteComment
<1>6. challenge' \in BOOLEAN
    BY <1>5 DEF Inv, TypeOK
<1>7. comment' \in [Comments -> Rows]
    BY <1>3, <1>4
<1> QED
    BY <1>1, <1>5, <1>6, <1>7, AsideStep

LEMMA KeyStep ==
  ASSUME Inv, NEW u \in Users, CreateApiKey(u) \/ UpdateApiKey(u) \/ RevokeApiKey(u)
  PROVE  Inv'
<1>1. /\ asked[u].want.op \in {"key", "rekey", "revoke"} /\ Waiting(u) /\ Done(u)
      /\ UNCHANGED <<project, member, platform, applications, comment, inbox, mail,
                     challenge, attempts, checking, audited, intent>>
    BY DEF CreateApiKey, UpdateApiKey, RevokeApiKey
<1>2. PICK scopes \in SUBSET Scopes : keys' = [keys EXCEPT ![u] = scopes]
  <2>1. CASE RevokeApiKey(u)
      BY <2>1 DEF RevokeApiKey
  <2>2. CASE CreateApiKey(u) \/ UpdateApiKey(u)
    <3>1. asked[u].want.scopes \in SUBSET Scopes
      <4>1. asked[u].want.op \in {"key", "rekey"}
          BY <2>2 DEF CreateApiKey, UpdateApiKey
      <4> QED
          BY <4>1, Wanted, Bodies DEF Inv
    <3> QED
        BY <2>2, <3>1 DEF CreateApiKey, UpdateApiKey
  <2> QED
      BY <2>1, <2>2
<1>3. keys' \in [Users -> SUBSET Scopes]
    BY <1>2 DEF Inv, TypeOK
<1>4. u \notin checking /\ challenge' \in BOOLEAN
    BY <1>1, NotChecking DEF Inv, TypeOK
<1> QED
    BY <1>1, <1>3, <1>4, AsideStep

LEMMA MessageStep ==
  ASSUME Inv, NEW u \in Users, Poke(u) \/ SendMessage(u) \/ MarkRead(u)
  PROVE  Inv'
<1>1. /\ Waiting(u) /\ Done(u) /\ asked[u].want.op \in {"poke", "send", "read"}
      /\ UNCHANGED <<project, member, platform, keys, applications, comment,
                     challenge, attempts, checking, audited, intent>>
    BY DEF Poke, SendMessage, MarkRead, Locked
<1>2. u \notin checking /\ challenge' \in BOOLEAN
    BY <1>1, NotChecking DEF Inv, TypeOK
<1>3. inbox \subseteq Notices /\ mail \subseteq Mails
    BY DEF Inv, TypeOK, Notices, Mails
<1>4. inbox' \subseteq Notices /\ mail' \subseteq Mails
  <2>1. CASE Poke(u)
    <3>1. asked[u].want.who \in Users
        BY <2>1, Wanted, Bodies DEF Inv, Poke, Locked
    <3>2. Notice(asked[u].want.who, "poke", 0) \in Notices
        BY <3>1, NoticeTyped
    <3> QED
        BY <2>1, <3>2, <1>3 DEF Poke
  <2>2. CASE SendMessage(u)
    <3>1. asked[u].want.who \in Users
        BY <2>2, Wanted, Bodies DEF Inv, SendMessage
    <3>2. [from |-> u, to |-> asked[u].want.who, read |-> FALSE] \in Mails
        BY <3>1 DEF Mails
    <3> QED
        BY <2>2, <3>2, <1>3 DEF SendMessage
  <2>3. CASE MarkRead(u)
    <3>1. /\ inbox' = {IF n.to = u THEN [n EXCEPT !.read = TRUE] ELSE n : n \in inbox}
          /\ mail' = {IF n.to = u THEN [n EXCEPT !.read = TRUE] ELSE n : n \in mail}
        BY <2>3 DEF MarkRead
    <3>2. \A n \in Notices : [n EXCEPT !.read = TRUE] \in Notices
        BY DEF Notices
    <3>3. \A n \in Mails : [n EXCEPT !.read = TRUE] \in Mails
        BY DEF Mails
    <3> QED
        BY <3>1, <3>2, <3>3, <1>3
  <2> QED
      BY <2>1, <2>2, <2>3
<1> QED
    BY <1>1, <1>2, <1>4, AsideStep

(* The beginning of a request. *)
LEMMA BeginStep ==
  ASSUME Inv, NEW u \in Users, NEW r \in intent[u], NEW scopes, Begin(u, r, scopes)
  PROVE  Inv'
<1> DEFINE x == [as |-> platform[u], scopes |-> scopes, want |-> r]
<1>1. /\ ~Waiting(u) /\ scopes \in Credentials(u, r.op)
      /\ asked' = [asked EXCEPT ![u] = x]
      /\ challenge' \in BOOLEAN
      /\ UNCHANGED <<project, member, platform, keys, applications, comment, inbox, mail,
                     attempts, checking, audited, intent>>
    BY DEF Begin, Inv, TypeOK
<1>2. /\ scopes \in SUBSET Scopes
      /\ scopes \intersect {"all", RequiredScope(r.op)} # {}
  <2>1. keys[u] \in SUBSET Scopes
      BY DEF Inv, TypeOK
  <2> QED
      BY <1>1, <2>1 DEF Credentials, Scopes
<1>3. r \in Requests
    BY RequestAssumption DEF Inv, TypeOK
<1>4. x \in Asked
  <2>1. platform[u] \in PlatformRoles \union {NoRole}
      BY DEF Inv, TypeOK
  <2> QED
      BY <2>1, <1>2, <1>3 DEF Asked
<1>5. asked \in [Users -> Asked]
    BY DEF Inv, TypeOK, Asked
<1>6. x.want = r /\ x.scopes = scopes
    OBVIOUS
<1> HIDE DEF x
<1>7. asked' \in [Users -> Asked] /\ \A v \in Users : asked'[v] = IF v = u THEN x ELSE asked[v]
    BY <1>1, <1>4, <1>5
<1>8. TypeOK'
  <2>1. checking' \subseteq Users
      BY <1>1 DEF Inv, TypeOK
  <2> QED
      BY <1>1, <1>7, <2>1, Typed DEF Inv
<1>9. OneOwner' /\ DoorSound(project)' /\ OnePending' /\ AttemptsBounded' /\ AuditReplays'
    BY <1>1, OwnersKept, PendingKept, AttemptsKept, DoorKept, AuditKept DEF Inv
<1>10. Credentialed'
    BY <1>2, <1>6, <1>7 DEF Inv, Credentialed, Waiting
<1>11. Checks'
  <2>1. u \notin checking
      BY <1>1 DEF Inv, Checks
  <2>2. \A v \in checking : v \in Users /\ asked'[v] = asked[v]
      BY <1>7, <2>1 DEF Inv, TypeOK
  <2> QED
      BY <1>1, <2>2 DEF Inv, Checks, Waiting, NotRateLimited
<1> QED
    BY <1>8, <1>9, <1>10, <1>11 DEF Inv

LEMMA ExpireStep == ASSUME Inv, ExpireChallenge \/ ExpireWindow PROVE Inv'
<1>1. /\ challenge' \in BOOLEAN
      /\ UNCHANGED <<project, member, platform, keys, applications, comment, inbox, mail,
                     checking, asked, audited, intent>>
    BY DEF ExpireChallenge, ExpireWindow, Inv, TypeOK
<1>2. /\ attempts' \in Counters
      /\ \A u \in Users : attempts'.user[u] \in {attempts.user[u], 0}
      /\ \A a \in Addresses : attempts'.address[a] \in {attempts.address[a], 0}
  <2>1. attempts \in Counters
      BY DEF Inv, TypeOK, Counters
  <2>2. CASE ExpireChallenge
      BY <2>1, <2>2 DEF ExpireChallenge
  <2>3. ASSUME NEW u \in Users, attempts' = [attempts EXCEPT !.user[u] = 0]
        PROVE  <1>2
      BY <2>1, <2>3 DEF Counters
  <2>4. ASSUME NEW a \in Addresses, attempts' = [attempts EXCEPT !.address[a] = 0]
        PROVE  <1>2
      BY <2>1, <2>4 DEF Counters
  <2> QED
      BY <2>2, <2>3, <2>4 DEF ExpireWindow
<1>3. TypeOK'
  <2>1. checking' \subseteq Users /\ asked' \in [Users -> Asked]
      BY <1>1 DEF Inv, TypeOK, Asked
  <2> QED
      BY <1>1, <1>2, <2>1, Typed DEF Inv
<1>4. OneOwner' /\ DoorSound(project)' /\ OnePending' /\ AuditReplays'
    BY <1>1, OwnersKept, PendingKept, DoorKept, AuditKept DEF Inv
<1>5. AttemptsBounded'
    BY <1>2, LimitAssumption DEF Inv, AttemptsBounded
<1>6. Credentialed'
    BY <1>1 DEF Inv, Credentialed, Waiting
<1>7. Checks'
  <2> SUFFICES ASSUME NEW u \in checking PROVE NotRateLimited(u)'
      BY <1>1 DEF Inv, Checks, Waiting
  <2>1. u \in Users /\ AddressOf[u] \in Addresses
      BY AddressAssumption DEF Inv, TypeOK
  <2>2. attempts.user[u] < UserLimit /\ attempts.address[AddressOf[u]] < AddressLimit
      BY DEF Inv, Checks, NotRateLimited
  <2>3. attempts.user[u] \in Nat /\ attempts.address[AddressOf[u]] \in Nat
      BY <2>1 DEF Inv, TypeOK
  <2>4. attempts'.user[u] < UserLimit
      BY <1>2, <2>1, <2>2, <2>3, LimitAssumption
  <2>5. attempts'.address[AddressOf[u]] < AddressLimit
      BY <1>2, <2>1, <2>2, <2>3, LimitAssumption
  <2> QED
      BY <2>4, <2>5 DEF NotRateLimited
<1> QED
    BY <1>3, <1>4, <1>5, <1>6, <1>7 DEF Inv

-----------------------------------------------------------------------------
(* The audit log *)

LEMMA ReplayMember ==
  ASSUME NEW log \in Log, NEW x \in Users, NEW previous, NEW new \in Roles \union {NoRole}
  PROVE  LET after == Replay(log, Membership(x, previous, new)) IN
         /\ after \in Log
         /\ after.member = [log.member EXCEPT ![x] = new]
         /\ after.platform = log.platform /\ after.status = log.status
         /\ after.scheduled = log.scheduled
         /\ log.sound /\ previous = log.member[x] => after.sound
<1> DEFINE roles == [log.member EXCEPT ![x] = new]
           sound == log.sound /\ previous = log.member[x]
<1>1. Replay(log, Membership(x, previous, new)) = [log EXCEPT !.member = roles, !.sound = sound]
    BY DEF Replay, Membership, Log
<1>2. roles \in [Users -> Roles \union {NoRole}]
    BY DEF Log
<1>3. sound \in BOOLEAN /\ (log.sound /\ previous = log.member[x] => sound)
    OBVIOUS
<1> HIDE DEF roles, sound
<1>4. [log EXCEPT !.member = roles, !.sound = sound] \in Log
    BY <1>2, <1>3 DEF Log
<1> QED
    BY <1>1, <1>3, <1>4 DEF Log, roles

LEMMA ReplayPlatform ==
  ASSUME NEW log \in Log, NEW x \in Users, NEW previous, NEW new \in PlatformRoles \union {NoRole}
  PROVE  LET after == Replay(log, [action |-> "platform", who |-> x,
                                   previous |-> previous, new |-> new]) IN
         /\ after \in Log
         /\ after.platform = [log.platform EXCEPT ![x] = new]
         /\ after.member = log.member /\ after.status = log.status
         /\ after.scheduled = log.scheduled
         /\ log.sound /\ previous = log.platform[x] => after.sound
<1> DEFINE event == [action |-> "platform", who |-> x, previous |-> previous, new |-> new]
           roles == [log.platform EXCEPT ![x] = new]
           sound == log.sound /\ previous = log.platform[x]
<1>1. Replay(log, event) = [log EXCEPT !.platform = roles, !.sound = sound]
    BY DEF Replay, Log
<1>2. roles \in [Users -> PlatformRoles \union {NoRole}]
    BY DEF Log
<1>3. sound \in BOOLEAN /\ (log.sound /\ previous = log.platform[x] => sound)
    OBVIOUS
<1> HIDE DEF roles, sound
<1>4. [log EXCEPT !.platform = roles, !.sound = sound] \in Log
    BY <1>2, <1>3 DEF Log
<1> QED
    BY <1>1, <1>3, <1>4 DEF Log, roles

LEMMA ReplayApplied ==
  ASSUME NEW log \in Log, NEW n
  PROVE  LET after == Replay(log, [action |-> "applied", id |-> n]) IN
         /\ after \in Log
         /\ after.status = Append(log.status, "pending")
         /\ after.member = log.member /\ after.platform = log.platform
         /\ after.scheduled = log.scheduled
         /\ log.sound /\ n = Len(log.status) + 1 => after.sound
<1> DEFINE status == Append(log.status, "pending")
           sound == log.sound /\ n = Len(log.status) + 1
<1>1. Replay(log, [action |-> "applied", id |-> n]) = [log EXCEPT !.status = status, !.sound = sound]
    BY DEF Replay, Log
<1>2. status \in Seq(Statuses)
    BY DEF Log, Statuses
<1>3. sound \in BOOLEAN /\ (log.sound /\ n = Len(log.status) + 1 => sound)
    OBVIOUS
<1> HIDE DEF status, sound
<1>4. [log EXCEPT !.status = status, !.sound = sound] \in Log
    BY <1>2, <1>3 DEF Log
<1> QED
    BY <1>1, <1>3, <1>4 DEF Log, status

LEMMA ReplayWithdrawn ==
  ASSUME NEW log \in Log, NEW n \in DOMAIN log.status
  PROVE  LET after == Replay(log, [action |-> "withdrawn", id |-> n]) IN
         /\ after \in Log
         /\ after.status = [log.status EXCEPT ![n] = "withdrawn"]
         /\ after.member = log.member /\ after.platform = log.platform
         /\ after.scheduled = log.scheduled /\ after.sound = log.sound
<1> DEFINE status == [log.status EXCEPT ![n] = "withdrawn"]
<1>1. Replay(log, [action |-> "withdrawn", id |-> n]) = [log EXCEPT !.status = status]
    BY DEF Replay, Log
<1>2. status \in Seq(Statuses)
    BY ExceptSeq DEF Log, Statuses
<1> HIDE DEF status
<1>3. [log EXCEPT !.status = status] \in Log
    BY <1>2 DEF Log
<1> QED
    BY <1>1, <1>3 DEF Log, status

LEMMA ReplayDecided ==
  ASSUME NEW log \in Log, NEW n \in DOMAIN log.status, NEW x \in Users,
         NEW approved \in BOOLEAN, NEW new \in Roles \union {NoRole}
  PROVE  LET after == Replay(log, [action |-> "decided", id |-> n, who |-> x,
                                   approved |-> approved, new |-> new]) IN
         /\ after \in Log
         /\ after.status = [log.status EXCEPT ![n] = IF approved THEN "approved" ELSE "rejected"]
         /\ after.member = IF approved THEN [log.member EXCEPT ![x] = new] ELSE log.member
         /\ after.platform = log.platform /\ after.scheduled = log.scheduled
         /\ log.sound /\ log.member[x] = NoRole => after.sound
<1> DEFINE event == [action |-> "decided", id |-> n, who |-> x, approved |-> approved, new |-> new]
           status == [log.status EXCEPT ![n] = IF approved THEN "approved" ELSE "rejected"]
           roles == IF approved THEN [log.member EXCEPT ![x] = new] ELSE log.member
           sound == IF approved THEN log.sound /\ log.member[x] = NoRole ELSE log.sound
<1>1. Replay(log, event) = [log EXCEPT !.status = status, !.member = roles, !.sound = sound]
  <2>1. CASE approved
      BY <2>1 DEF Replay, Log
  <2>2. CASE ~approved
      BY <2>2 DEF Replay, Log
  <2> QED
      BY <2>1, <2>2
<1>2. status \in Seq(Statuses)
    BY ExceptSeq DEF Log, Statuses
<1>3. roles \in [Users -> Roles \union {NoRole}]
    BY DEF Log
<1>4. sound \in BOOLEAN /\ (log.sound /\ log.member[x] = NoRole => sound)
    BY DEF Log
<1> HIDE DEF status, roles, sound
<1>5. [log EXCEPT !.status = status, !.member = roles, !.sound = sound] \in Log
    BY <1>2, <1>3, <1>4 DEF Log
<1> QED
    BY <1>1, <1>4, <1>5 DEF Log, status, roles

LEMMA ReplayDeletion ==
  ASSUME NEW log \in Log, NEW new \in BOOLEAN
  PROVE  LET after == Replay(log, [action |-> "deletion", new |-> new]) IN
         /\ after \in Log
         /\ after.scheduled = new /\ after.member = log.member
         /\ after.platform = log.platform /\ after.status = log.status
         /\ after.sound = log.sound
<1>1. Replay(log, [action |-> "deletion", new |-> new]) = [log EXCEPT !.scheduled = new]
    BY DEF Replay
<1>2. [log EXCEPT !.scheduled = new] \in Log
    BY DEF Log
<1> QED
    BY <1>1, <1>2 DEF Log

LEMMA AuditTyped == ASSUME TypeOK PROVE audited \in Log
BY DEF TypeOK, Log

-----------------------------------------------------------------------------
(* The project *)

LEMMA ProjectStep ==
  ASSUME Inv, NEW u \in Users, Done(u), checking = {},
         project' \in Project, DoorSound(project)', audited' \in Log, AuditReplays',
         UNCHANGED <<member, platform, keys, applications, comment, inbox, mail,
                     challenge, attempts, checking, intent>>
  PROVE  Inv'
<1>1. asked' \in [Users -> Asked]
    BY DoneAsked DEF Inv
<1>2. TypeOK'
  <2>1. checking' \subseteq Users /\ challenge' \in BOOLEAN
      BY DEF Inv, TypeOK
  <2> QED
      BY <1>1, <2>1, Typed DEF Inv
<1>3. OneOwner' /\ OnePending' /\ AttemptsBounded'
    BY OwnersKept, PendingKept, AttemptsKept DEF Inv
<1> QED
    BY <1>2, <1>3, EndStep

LEMMA UpdateStep == ASSUME Inv, NEW u \in Users, UpdateProject(u) PROVE Inv'
<1> DEFINE r == asked[u].want
<1>1. /\ r.op = "update" /\ checking = {} /\ Done(u)
      /\ project' = [project EXCEPT !.visibility = r.visibility, !.comment_policy = r.comment_policy]
      /\ UNCHANGED <<member, platform, keys, applications, comment, inbox, mail,
                     challenge, attempts, checking, audited, intent>>
    BY DEF UpdateProject, Locked
<1>2. r.visibility \in Visibilities /\ r.comment_policy \in CommentPolicies
    BY <1>1, Wanted, Bodies DEF Inv
<1> HIDE DEF r
<1>3. project \in Project
    BY DEF Inv, TypeOK
<1>4. /\ project' \in Project
      /\ project'.join_policy = project.join_policy /\ project'.scheduled = project.scheduled
      /\ project'.password = project.password /\ project'.question = project.question
      /\ project'.answer = project.answer
    BY <1>1, <1>2, <1>3 DEF Project
<1>5. DoorSound(project)'
    BY <1>4 DEF Inv, DoorSound
<1>6. audited' \in Log /\ AuditReplays'
    BY <1>1, <1>4, AuditTyped, AuditKept DEF Inv
<1> QED
    BY <1>1, <1>4, <1>5, <1>6, ProjectStep

LEMMA SettingsStep == ASSUME Inv, NEW u \in Users, PutJoinSettings(u) PROVE Inv'
<1> DEFINE r == asked[u].want
           policy == r.join_policy
           role == r.default_role
           password == Kept(r.password, project.password)
           question == Kept(r.question, project.question)
           answer == Kept(r.answer, project.answer)
<1>1. /\ r.op = "settings" /\ checking = {} /\ Done(u)
      /\ policy = "password" => password # 0
      /\ policy = "quiz" => question # 0 /\ answer # 0
      /\ project' = [project EXCEPT !.join_policy = policy, !.default_role = role,
                       !.password = password, !.question = question, !.answer = answer]
      /\ UNCHANGED <<member, platform, keys, applications, comment, inbox, mail,
                     challenge, attempts, checking, audited, intent>>
    BY DEF PutJoinSettings, Locked
<1>2. project \in Project
    BY DEF Inv, TypeOK
<1>3. /\ policy \in Policies /\ role \in DefaultRoles
      /\ password \in Nat /\ question \in Nat /\ answer \in Nat
  <2>1. /\ r.join_policy \in Policies /\ r.default_role \in DefaultRoles
        /\ r.password \in Nat /\ r.question \in Nat /\ r.answer \in Nat
      BY <1>1, Wanted, Bodies DEF Inv
  <2>2. project.password \in Nat /\ project.question \in Nat /\ project.answer \in Nat
      BY <1>2 DEF Project
  <2> QED
      BY <2>1, <2>2 DEF Kept
<1> HIDE DEF r, policy, role, password, question, answer
<1>4. /\ project' \in Project /\ project'.scheduled = project.scheduled
      /\ project'.join_policy = policy /\ project'.password = password
      /\ project'.question = question /\ project'.answer = answer
    BY <1>1, <1>2, <1>3 DEF Project
<1>5. DoorSound(project)'
    BY <1>1, <1>4 DEF DoorSound
<1>6. audited' \in Log /\ AuditReplays'
    BY <1>1, <1>4, AuditTyped, AuditKept DEF Inv
<1> QED
    BY <1>1, <1>4, <1>5, <1>6, ProjectStep

LEMMA ScheduleStep ==
  ASSUME Inv, NEW u \in Users, DeleteProject(u) \/ CancelDeletion(u)
  PROVE  Inv'
<1>1. PICK scheduled \in BOOLEAN :
        /\ checking = {} /\ Done(u)
        /\ project' = [project EXCEPT !.scheduled = scheduled]
        /\ audited' = Replay(audited, [action |-> "deletion", new |-> scheduled])
        /\ UNCHANGED <<member, platform, keys, applications, comment, inbox, mail,
                       challenge, attempts, checking, intent>>
    BY DEF DeleteProject, CancelDeletion, SetScheduled, Locked
<1>2. /\ project' \in Project /\ project'.scheduled = scheduled
      /\ project'.join_policy = project.join_policy
      /\ project'.password = project.password /\ project'.question = project.question
      /\ project'.answer = project.answer
    BY <1>1 DEF Inv, TypeOK, Project
<1>3. DoorSound(project)'
    BY <1>2 DEF Inv, DoorSound
<1>4. /\ audited' \in Log
      /\ audited'.scheduled = scheduled /\ audited'.member = audited.member
      /\ audited'.platform = audited.platform /\ audited'.status = audited.status
      /\ audited'.sound = audited.sound
    BY <1>1, AuditTyped, ReplayDeletion DEF Inv
<1>5. AuditReplays'
    BY <1>1, <1>2, <1>4 DEF Inv, AuditReplays
<1> QED
    BY <1>1, <1>2, <1>3, <1>4, <1>5, ProjectStep

-----------------------------------------------------------------------------
(* Members *)

LEMMA MemberStep ==
  ASSUME Inv, NEW u \in Users, Done(u), checking' = {},
         NEW x \in Users, x # Owner,
         NEW new \in Roles \union {NoRole}, new # "owner",
         member' = [member EXCEPT ![x] = new],
         audited' = Replay(audited, Membership(x, member[x], new)),
         UNCHANGED <<project, platform, keys, applications, comment, inbox, mail,
                     challenge, attempts, intent>>
  PROVE  Inv'
<1>1. asked' \in [Users -> Asked]
    BY DoneAsked DEF Inv
<1>2. member' \in [Users -> Roles \union {NoRole}]
      /\ \A v \in Users : member'[v] = IF v = x THEN new ELSE member[v]
    BY DEF Inv, TypeOK
<1>3. audited \in Log /\ audited.member = member /\ audited.sound
    BY AuditTyped DEF Inv, AuditReplays
<1>4. /\ audited' \in Log /\ audited'.member = member'
      /\ audited'.platform = audited.platform /\ audited'.status = audited.status
      /\ audited'.scheduled = audited.scheduled /\ audited'.sound
  <2> DEFINE after == Replay(audited, Membership(x, member[x], new))
  <2>1. /\ after \in Log
        /\ after.member = [audited.member EXCEPT ![x] = new]
        /\ after.platform = audited.platform /\ after.status = audited.status
        /\ after.scheduled = audited.scheduled
        /\ audited.sound /\ member[x] = audited.member[x] => after.sound
      BY <1>3, ReplayMember
  <2>2. audited' = after
      OBVIOUS
  <2> HIDE DEF after
  <2> QED
      BY <1>3, <2>1, <2>2
<1>5. TypeOK'
  <2>1. checking' \subseteq Users /\ challenge' \in BOOLEAN
      BY DEF Inv, TypeOK
  <2> QED
      BY <1>1, <1>2, <1>4, <2>1, Typed DEF Inv
<1>6. OneOwner'
    BY <1>2 DEF Inv, OneOwner
<1>7. DoorSound(project)' /\ OnePending' /\ AttemptsBounded'
    BY DoorKept, PendingKept, AttemptsKept DEF Inv
<1>8. AuditReplays'
    BY <1>4 DEF Inv, AuditReplays
<1> QED
    BY <1>5, <1>6, <1>7, <1>8, EndStep

LEMMA DefaultRole ==
  ASSUME TypeOK
  PROVE  project.default_role \in Roles /\ project.default_role # "owner"
<1>1. project.default_role \in DefaultRoles
    BY DEF TypeOK, Project
<1> QED
    BY <1>1 DEF DefaultRoles, Roles

LEMMA NotTheOwner ==
  ASSUME Inv, NEW x \in Users, member[x] # "owner"
  PROVE  x # Owner
BY DEF Inv, OneOwner

LEMMA JoinStep ==
  ASSUME Inv, NEW u \in Users, JoinFreely(u) \/ VerifyAccepted(u)
  PROVE  Inv'
<1>1. /\ member[u] = NoRole /\ checking' = {}
  <2>1. CASE JoinFreely(u)
      BY <2>1 DEF JoinFreely, MayJoin, Locked
  <2>2. CASE VerifyAccepted(u)
      BY <2>2 DEF VerifyAccepted, Inv, Checks
  <2> QED
      BY <2>1, <2>2
<1>2. /\ Done(u)
      /\ member' = [member EXCEPT ![u] = project.default_role]
      /\ audited' = Replay(audited, Membership(u, member[u], project.default_role))
      /\ UNCHANGED <<project, platform, keys, applications, comment, inbox, mail,
                     challenge, attempts, intent>>
    BY <1>1 DEF JoinFreely, VerifyAccepted, Admit
<1>3. u # Owner
    BY <1>1, NotTheOwner, OwnerHasRole
<1>4. project.default_role \in Roles \union {NoRole} /\ project.default_role # "owner"
    BY DefaultRole DEF Inv
<1> QED
    BY <1>1, <1>2, <1>3, <1>4, MemberStep

LEMMA LeaveStep == ASSUME Inv, NEW u \in Users, Leave(u) PROVE Inv'
<1>1. /\ Done(u) /\ checking' = {} /\ u # Owner
      /\ member' = [member EXCEPT ![u] = NoRole]
      /\ audited' = Replay(audited, Membership(u, member[u], NoRole))
      /\ UNCHANGED <<project, platform, keys, applications, comment, inbox, mail,
                     challenge, attempts, intent>>
    BY DEF Leave, Locked
<1>2. NoRole \in Roles \union {NoRole} /\ NoRole # "owner"
    BY OwnerHasRole
<1> QED
    BY <1>1, <1>2, MemberStep

(* The role that a member may be given or relieved of. *)
LEMMA ChangeAllowed ==
  ASSUME NEW scope, NEW targetIsOwner \in BOOLEAN, NEW current, NEW requested,
         MayChangeMember(scope, targetIsOwner, current, requested)
  PROVE  /\ requested # "owner" /\ current # "owner" /\ ~targetIsOwner
         /\ \/ scope = "owner"
            \/ scope = "manager" /\ current # "manager" /\ requested # "manager"
BY DEF MayChangeMember

LEMMA MutateStep ==
  ASSUME Inv, NEW u \in Users, AddMember(u) \/ RemoveMember(u)
  PROVE  Inv'
<1> DEFINE x == asked[u].want.who
<1>1. PICK new \in Roles \union {NoRole} :
        /\ MutateMember(u, asked[u].want.op, new)
        /\ asked[u].want.op \in {"add", "remove"}
  <2>1. CASE AddMember(u)
    <3>1. asked[u].want.op = "add"
        BY <2>1 DEF AddMember, MutateMember, Locked
    <3> QED
        BY <2>1, <3>1, Wanted, Bodies DEF Inv, AddMember
  <2>2. CASE RemoveMember(u)
    <3>1. asked[u].want.op = "remove"
        BY <2>2 DEF RemoveMember, MutateMember, Locked
    <3> QED
        BY <2>2, <3>1 DEF RemoveMember
  <2> QED
      BY <2>1, <2>2
<1>2. x \in Users
    BY <1>1, Wanted, Bodies DEF Inv
<1>3. /\ Done(u) /\ checking' = {}
      /\ member' = [member EXCEPT ![x] = new]
      /\ audited' = Replay(audited, Membership(x, member[x], new))
      /\ UNCHANGED <<project, platform, keys, applications, comment, inbox, mail,
                     challenge, attempts, intent>>
    BY <1>1 DEF MutateMember, Locked
<1>4. x # Owner /\ new # "owner"
    BY <1>1 DEF MutateMember, MayChangeMember
<1> HIDE DEF x
<1> QED
    BY <1>2, <1>3, <1>4, MemberStep

LEMMA GrantStep == ASSUME Inv, NEW u \in Users, GrantRole(u) PROVE Inv'
<1> DEFINE x == asked[u].want.who
           new == asked[u].want.role
<1>1. /\ asked[u].want.op = "grant" /\ Done(u)
      /\ platform' = [platform EXCEPT ![x] = new]
      /\ audited' = Replay(audited, [action |-> "platform", who |-> x,
                                     previous |-> platform[x], new |-> new])
      /\ UNCHANGED <<project, member, keys, applications, comment, inbox, mail,
                     challenge, attempts, checking, intent>>
    BY DEF GrantRole
<1>2. x \in Users /\ new \in PlatformRoles \union {NoRole}
    BY <1>1, Wanted, Bodies DEF Inv
<1>3. u \notin checking
    BY <1>1, NotChecking
<1> HIDE DEF x, new
<1>4. asked' \in [Users -> Asked]
    BY <1>1, DoneAsked DEF Inv
<1>5. platform' \in [Users -> PlatformRoles \union {NoRole}]
    BY <1>1, <1>2 DEF Inv, TypeOK
<1>6. audited \in Log /\ audited.platform = platform /\ audited.sound
    BY AuditTyped DEF Inv, AuditReplays
<1>7. /\ audited' \in Log /\ audited'.platform = platform'
      /\ audited'.member = audited.member /\ audited'.status = audited.status
      /\ audited'.scheduled = audited.scheduled /\ audited'.sound
  <2> DEFINE after == Replay(audited, [action |-> "platform", who |-> x,
                                       previous |-> platform[x], new |-> new])
  <2>1. /\ after \in Log
        /\ after.platform = [audited.platform EXCEPT ![x] = new]
        /\ after.member = audited.member /\ after.status = audited.status
        /\ after.scheduled = audited.scheduled
        /\ audited.sound /\ platform[x] = audited.platform[x] => after.sound
      BY <1>2, <1>6, ReplayPlatform
  <2>2. audited' = after
      BY <1>1
  <2> HIDE DEF after
  <2> QED
      BY <1>1, <1>6, <2>1, <2>2
<1>8. TypeOK'
  <2>1. checking' \subseteq Users /\ challenge' \in BOOLEAN
      BY <1>1 DEF Inv, TypeOK
  <2> QED
      BY <1>1, <1>4, <1>5, <1>7, <2>1, Typed DEF Inv
<1>9. OneOwner' /\ DoorSound(project)' /\ OnePending' /\ AttemptsBounded'
    BY <1>1, OwnersKept, DoorKept, PendingKept, AttemptsKept DEF Inv
<1>10. AuditReplays'
    BY <1>1, <1>7 DEF Inv, AuditReplays
<1> QED
    BY <1>1, <1>3, <1>8, <1>9, <1>10, EndStep

-----------------------------------------------------------------------------
(* Applications *)

StatusesOf(rows) == [i \in DOMAIN rows |-> rows[i].status]

LEMMA StatusesTyped ==
  ASSUME NEW rows \in Seq(Application)
  PROVE  /\ StatusesOf(rows) \in Seq(Statuses) /\ Len(StatusesOf(rows)) = Len(rows)
         /\ \A i \in 1..Len(rows) : StatusesOf(rows)[i] = rows[i].status
<1>1. /\ DOMAIN rows = 1..Len(rows) /\ Len(rows) \in Nat
      /\ \A i \in 1..Len(rows) : rows[i] \in Application
    OBVIOUS
<1>2. \A i \in 1..Len(rows) : rows[i].status \in Statuses
    BY <1>1 DEF Application
<1>3. StatusesOf(rows) = [i \in 1..Len(rows) |-> rows[i].status]
    BY <1>1 DEF StatusesOf
<1> QED
    BY <1>1, <1>2, <1>3

LEMMA AppliedStatuses ==
  ASSUME NEW rows \in Seq(Application), NEW a \in Application
  PROVE  StatusesOf(Append(rows, a)) = Append(StatusesOf(rows), a.status)
<1> DEFINE more == Append(rows, a)
           before == StatusesOf(rows)
<1>1. /\ more \in Seq(Application) /\ Len(more) = Len(rows) + 1
      /\ DOMAIN more = 1..(Len(rows) + 1)
      /\ \A i \in 1..Len(rows) : more[i] = rows[i]
      /\ more[Len(rows) + 1] = a
    OBVIOUS
<1>2. /\ before \in Seq(Statuses) /\ Len(before) = Len(rows)
      /\ \A i \in 1..Len(rows) : before[i] = rows[i].status
    BY StatusesTyped
<1>3. StatusesOf(more) \in Seq(Statuses) /\ Len(StatusesOf(more)) = Len(rows) + 1
      /\ \A i \in 1..(Len(rows) + 1) : StatusesOf(more)[i] = more[i].status
    BY <1>1, StatusesTyped
<1>4. a.status \in Statuses
    BY DEF Application
<1> HIDE DEF more, before
<1>5. /\ Append(before, a.status) \in Seq(Statuses)
      /\ Len(Append(before, a.status)) = Len(rows) + 1
      /\ \A i \in 1..Len(rows) : Append(before, a.status)[i] = before[i]
      /\ Append(before, a.status)[Len(rows) + 1] = a.status
    BY <1>2, <1>4
<1>6. \A i \in 1..(Len(rows) + 1) : StatusesOf(more)[i] = Append(before, a.status)[i]
    BY <1>1, <1>2, <1>3, <1>5
<1>7. StatusesOf(more) = Append(before, a.status)
    BY <1>3, <1>5, <1>6, SeqEqual
<1> QED
    BY <1>7 DEF more, before

LEMMA ChangedStatuses ==
  ASSUME NEW rows \in Seq(Application), NEW n \in DOMAIN rows, NEW a \in Application
  PROVE  /\ [rows EXCEPT ![n] = a] \in Seq(Application)
         /\ DOMAIN [rows EXCEPT ![n] = a] = DOMAIN rows
         /\ \A i \in DOMAIN rows : [rows EXCEPT ![n] = a][i] = IF i = n THEN a ELSE rows[i]
         /\ StatusesOf([rows EXCEPT ![n] = a]) = [StatusesOf(rows) EXCEPT ![n] = a.status]
<1>1. [rows EXCEPT ![n] = a] \in Seq(Application)
    BY ExceptSeq
<1> QED
    BY <1>1 DEF StatusesOf

LEMMA RowsTyped ==
  ASSUME Inv
  PROVE  /\ applications \in Seq(Application)
         /\ audited \in Log /\ audited.status = StatusesOf(applications)
         /\ DOMAIN audited.status = DOMAIN applications
         /\ Len(audited.status) = Len(applications)
<1>1. applications \in Seq(Application) /\ audited \in Log
    BY AuditTyped DEF Inv, TypeOK, Application
<1>2. audited.status = StatusesOf(applications)
    BY DEF Inv, AuditReplays, StatusesOf
<1>3. DOMAIN audited.status = DOMAIN applications
    BY <1>2 DEF StatusesOf
<1>4. audited.status \in Seq(Statuses)
    BY <1>1 DEF Log
<1> QED
    BY <1>1, <1>2, <1>3, <1>4

LEMMA ApplyStep == ASSUME Inv, NEW u \in Users, Apply(u) PROVE Inv'
<1> DEFINE id == Len(applications) + 1
           a == [user |-> u, status |-> "pending", role |-> NoRole]
           after == Replay(audited, [action |-> "applied", id |-> id])
<1>1. /\ checking = {} /\ Done(u) /\ Pending(u) = {}
      /\ applications' = Append(applications, a)
      /\ inbox' = inbox \union {Notice(m, "application", id) : m \in Manages}
      /\ audited' = after
      /\ UNCHANGED <<project, member, platform, keys, comment, mail,
                     challenge, attempts, checking, intent>>
    BY DEF Apply, MayJoin, Locked
<1>2. a \in Application /\ a.user = u /\ a.status = "pending"
    BY DEF Application, Statuses
<1>3. /\ applications \in Seq(Application) /\ audited \in Log
      /\ audited.status = StatusesOf(applications) /\ Len(audited.status) = Len(applications)
    BY RowsTyped
<1>4. id \in Nat
    BY <1>3
<1> HIDE DEF a
<1>5. /\ applications' \in Seq(Application)
      /\ DOMAIN applications' = 1..(Len(applications) + 1)
      /\ \A i \in 1..Len(applications) : applications'[i] = applications[i]
      /\ applications'[Len(applications) + 1] = a
    BY <1>1, <1>2, <1>3
<1>6. /\ after \in Log /\ after.status = Append(audited.status, "pending")
      /\ after.member = audited.member /\ after.platform = audited.platform
      /\ after.scheduled = audited.scheduled
      /\ audited.sound /\ id = Len(audited.status) + 1 => after.sound
    BY <1>3, ReplayApplied
<1>7. inbox' \subseteq Notices
  <2>1. \A m \in Manages : Notice(m, "application", id) \in Notices
      BY <1>4, NoticeTyped DEF Manages
  <2> QED
      BY <1>1, <2>1, InboxTyped DEF Inv
<1>8. asked' \in [Users -> Asked]
    BY <1>1, DoneAsked DEF Inv
<1> HIDE DEF after
<1>9. TypeOK'
  <2>1. checking' \subseteq Users /\ challenge' \in BOOLEAN /\ audited' \in Log
      BY <1>1, <1>6 DEF Inv, TypeOK
  <2> QED
      BY <1>1, <1>5, <1>7, <1>8, <2>1, Typed DEF Inv
<1>10. OnePending'
  <2>1. \A i \in 1..Len(applications) :
          ~(applications[i].user = u /\ applications[i].status = "pending")
      BY <1>1, <1>3 DEF Pending
  <2>2. \A i, j \in 1..Len(applications) :
          applications[i].user = applications[j].user
          /\ applications[i].status = "pending" /\ applications[j].status = "pending" => i = j
      BY <1>3 DEF Inv, OnePending
  <2>3. \A i \in DOMAIN applications' : i \in 1..Len(applications) \/ i = Len(applications) + 1
      BY <1>3, <1>5
  <2> QED
      BY <1>2, <1>5, <2>1, <2>2, <2>3 DEF OnePending
<1>11. AuditReplays'
  <2>1. audited'.status = StatusesOf(applications)'
      BY <1>1, <1>2, <1>3, <1>6, AppliedStatuses
  <2>2. audited'.sound
      BY <1>1, <1>3, <1>6 DEF Inv, AuditReplays
  <2> QED
      BY <1>1, <1>6, <2>1, <2>2 DEF Inv, AuditReplays, StatusesOf
<1>12. OneOwner' /\ DoorSound(project)' /\ AttemptsBounded'
    BY <1>1, OwnersKept, DoorKept, AttemptsKept DEF Inv
<1> QED
    BY <1>1, <1>9, <1>10, <1>11, <1>12, EndStep

(* A pending application is settled. *)
LEMMA SettledStep ==
  ASSUME Inv, NEW n \in DOMAIN applications, NEW a \in Application,
         applications' = [applications EXCEPT ![n] = a],
         a.user = applications[n].user, a.status # "pending"
  PROVE  /\ applications' \in Seq(Application) /\ OnePending'
         /\ StatusesOf(applications)' = [audited.status EXCEPT ![n] = a.status]
<1>1. /\ applications \in Seq(Application)
      /\ audited.status = StatusesOf(applications)
    BY RowsTyped
<1>2. /\ applications' \in Seq(Application)
      /\ DOMAIN applications' = DOMAIN applications
      /\ \A i \in DOMAIN applications : applications'[i] = IF i = n THEN a ELSE applications[i]
      /\ StatusesOf(applications') = [StatusesOf(applications) EXCEPT ![n] = a.status]
    BY <1>1, ChangedStatuses
<1>3. OnePending'
    BY <1>2 DEF Inv, OnePending
<1> QED
    BY <1>1, <1>2, <1>3

LEMMA WithdrawStep == ASSUME Inv, NEW u \in Users, Withdraw(u) PROVE Inv'
<1>1. PICK n \in Pending(u) :
        /\ applications' = [applications EXCEPT ![n].status = "withdrawn"]
        /\ audited' = Replay(audited, [action |-> "withdrawn", id |-> n])
    BY DEF Withdraw
<1>2. /\ checking = {} /\ Done(u)
      /\ UNCHANGED <<project, member, platform, keys, comment, inbox, mail,
                     challenge, attempts, checking, intent>>
    BY DEF Withdraw, Locked
<1> DEFINE a == [applications[n] EXCEPT !.status = "withdrawn"]
           after == Replay(audited, [action |-> "withdrawn", id |-> n])
<1>3. /\ n \in DOMAIN applications /\ n \in DOMAIN audited.status /\ audited \in Log
      /\ applications[n] \in Application
    BY RowsTyped DEF Pending
<1>4. applications' = [applications EXCEPT ![n] = a]
    BY <1>1, <1>3
<1>5. a \in Application /\ a.user = applications[n].user /\ a.status = "withdrawn"
    BY <1>3 DEF Application, Statuses
<1> HIDE DEF a
<1>6. /\ applications' \in Seq(Application) /\ OnePending'
      /\ StatusesOf(applications)' = [audited.status EXCEPT ![n] = "withdrawn"]
    BY <1>3, <1>4, <1>5, SettledStep
<1>7. /\ after \in Log
      /\ after.status = [audited.status EXCEPT ![n] = "withdrawn"]
      /\ after.member = audited.member /\ after.platform = audited.platform
      /\ after.scheduled = audited.scheduled /\ after.sound = audited.sound
    BY <1>3, ReplayWithdrawn
<1>8. audited' = after
    BY <1>1
<1> HIDE DEF after
<1>9. TypeOK'
  <2>1. checking' \subseteq Users /\ challenge' \in BOOLEAN /\ asked' \in [Users -> Asked]
      BY <1>2, DoneAsked DEF Inv, TypeOK
  <2> QED
      BY <1>2, <1>6, <1>7, <1>8, <2>1, Typed DEF Inv
<1>10. OneOwner' /\ DoorSound(project)' /\ AttemptsBounded'
    BY <1>2, OwnersKept, DoorKept, AttemptsKept DEF Inv
<1>11. AuditReplays'
    BY <1>2, <1>6, <1>7, <1>8 DEF Inv, AuditReplays, StatusesOf
<1> QED
    BY <1>2, <1>6, <1>9, <1>10, <1>11, EndStep

LEMMA DecideStep == ASSUME Inv, NEW u \in Users, Decide(u) PROVE Inv'
<1> DEFINE r == asked[u].want
           n == r.id
           role == IF r.role = NoRole THEN project.default_role ELSE r.role
           scope == MembershipScope(u = Owner, member[u], asked[u].as)
           b == applications[n]
           x == b.user
           a == [b EXCEPT !.status = IF r.approved THEN "approved" ELSE "rejected",
                          !.role = IF r.approved THEN role ELSE NoRole]
           event == [action |-> "decided", id |-> n, who |-> x,
                     approved |-> r.approved, new |-> role]
           after == Replay(audited, event)
<1>1. /\ r.op = "decide" /\ checking = {} /\ Done(u) /\ n \in DOMAIN applications
      /\ b.status = "pending" /\ member[x] = NoRole
      /\ r.approved => MayChangeMember(scope, x = Owner, NoRole, role)
      /\ member' = IF r.approved THEN [member EXCEPT ![x] = role] ELSE member
      /\ applications' = [applications EXCEPT ![n] = a]
      /\ inbox' = inbox \union {Notice(x, "decision", n)}
      /\ audited' = after
      /\ UNCHANGED <<project, platform, keys, comment, mail,
                     challenge, attempts, checking, intent>>
    BY DEF Decide, Locked, FindPending
<1>2. n \in Nat /\ r.approved \in BOOLEAN /\ role \in Roles \union {NoRole}
  <2>1. r.id \in Nat /\ r.approved \in BOOLEAN /\ r.role \in Roles \union {NoRole}
      BY <1>1, Wanted, Bodies DEF Inv
  <2> QED
      BY <2>1, DefaultRole DEF Inv
<1>3. /\ b \in Application /\ audited \in Log /\ n \in DOMAIN audited.status
      /\ audited.status = StatusesOf(applications) /\ audited.member = member /\ audited.sound
  <2>1. /\ applications \in Seq(Application) /\ audited \in Log
        /\ audited.status = StatusesOf(applications)
        /\ DOMAIN audited.status = DOMAIN applications
      BY RowsTyped
  <2> QED
      BY <1>1, <2>1 DEF Inv, AuditReplays
<1>4. x \in Users
    BY <1>3 DEF Application
<1>5. r.approved => x # Owner /\ role # "owner"
    BY <1>1 DEF MayChangeMember
<1>6. a \in Application /\ a.user = x /\ a.status = IF r.approved THEN "approved" ELSE "rejected"
  <2> DEFINE s == IF r.approved THEN "approved" ELSE "rejected"
             k == IF r.approved THEN role ELSE NoRole
  <2>1. s \in Statuses /\ k \in Roles \union {NoRole}
      BY <1>2 DEF Statuses
  <2>2. a = [b EXCEPT !.status = s, !.role = k]
      OBVIOUS
  <2> HIDE DEF s, k, a, b
  <2>3. a \in Application /\ a.user = b.user /\ a.status = s
      BY <1>3, <2>1, <2>2 DEF Application
  <2> QED
      BY <2>3 DEF s
<1>7. /\ after \in Log
      /\ after.status = [audited.status EXCEPT ![n] = IF r.approved THEN "approved" ELSE "rejected"]
      /\ after.member = IF r.approved THEN [audited.member EXCEPT ![x] = role] ELSE audited.member
      /\ after.platform = audited.platform /\ after.scheduled = audited.scheduled
      /\ audited.sound /\ audited.member[x] = NoRole => after.sound
    BY <1>2, <1>3, <1>4, ReplayDecided
<1>8. Notice(x, "decision", n) \in Notices
    BY <1>2, <1>4, NoticeTyped
<1> HIDE DEF r, n, role, scope, b, x, a, event, after
<1>9. inbox' \subseteq Notices
    BY <1>1, <1>8, InboxTyped DEF Inv
<1>10. /\ applications' \in Seq(Application) /\ OnePending'
       /\ StatusesOf(applications)' = [audited.status EXCEPT ![n] = a.status]
  <2>1. a.user = applications[n].user /\ a.status # "pending"
      BY <1>6 DEF x, b
  <2> QED
      BY <1>1, <1>6, <2>1, SettledStep
<1>11. member' \in [Users -> Roles \union {NoRole}] /\ OneOwner'
  <2>1. member \in [Users -> Roles \union {NoRole}]
      BY DEF Inv, TypeOK
  <2>2. \A v \in Users : member'[v] = IF r.approved /\ v = x THEN role ELSE member[v]
      BY <1>1, <2>1
  <2>3. member' \in [Users -> Roles \union {NoRole}]
      BY <1>1, <1>2, <2>1
  <2> QED
      BY <1>5, <2>2, <2>3 DEF Inv, OneOwner
<1>12. TypeOK'
  <2>1. checking' \subseteq Users /\ challenge' \in BOOLEAN /\ asked' \in [Users -> Asked]
      BY <1>1, DoneAsked DEF Inv, TypeOK
  <2> QED
      BY <1>1, <1>7, <1>9, <1>10, <1>11, <2>1, Typed DEF Inv
<1>13. DoorSound(project)' /\ AttemptsBounded'
    BY <1>1, DoorKept, AttemptsKept DEF Inv
<1>14. AuditReplays'
  <2>1. audited'.status = StatusesOf(applications)'
      BY <1>1, <1>6, <1>7, <1>10
  <2>2. audited'.member = member'
      BY <1>1, <1>3, <1>7
  <2>3. audited'.sound
      BY <1>1, <1>3, <1>7
  <2> QED
      BY <1>1, <1>7, <2>1, <2>2, <2>3 DEF Inv, AuditReplays, StatusesOf
<1> QED
    BY <1>1, <1>10, <1>11, <1>12, <1>13, <1>14, EndStep

-----------------------------------------------------------------------------
(* The check of a password *)

LEMMA CheckStep == ASSUME Inv, NEW u \in Users, EnsureNotRateLimited(u) PROVE Inv'
<1>1. /\ checking = {} /\ checking' = {u} /\ Waiting(u) /\ asked[u].want.op = "join"
      /\ NotRateLimited(u) /\ member[u] = NoRole
      /\ project.visibility = "public" /\ ~project.scheduled
      /\ project.join_policy \in {"password", "quiz"}
      /\ UNCHANGED <<project, member, platform, keys, applications, comment, inbox, mail,
                     challenge, attempts, asked, audited, intent>>
    BY DEF EnsureNotRateLimited, MayJoin, Locked
<1>2. TypeOK'
  <2>1. checking' \subseteq Users /\ challenge' \in BOOLEAN /\ asked' \in [Users -> Asked]
      BY <1>1 DEF Inv, TypeOK, Asked
  <2> QED
      BY <1>1, <2>1, Typed DEF Inv
<1>3. OneOwner' /\ DoorSound(project)' /\ OnePending' /\ AttemptsBounded' /\ AuditReplays'
    BY <1>1, OwnersKept, DoorKept, PendingKept, AttemptsKept, AuditKept DEF Inv
<1>4. Credentialed'
    BY <1>1 DEF Inv, Credentialed, Waiting
<1>5. Checks'
    BY <1>1 DEF Checks, Waiting, NotRateLimited
<1> QED
    BY <1>2, <1>3, <1>4, <1>5 DEF Inv

LEMMA FailureStep == ASSUME Inv, NEW u \in Users, RecordJoinFailure(u) PROVE Inv'
<1> DEFINE h == AddressOf[u]
           one == [attempts EXCEPT !.user[u] = @ + 1]
           both == [one EXCEPT !.address[h] = @ + 1]
<1>1. /\ u \in checking /\ Done(u)
      /\ attempts' \in {attempts, one, both} /\ checking' = checking \ {u}
      /\ UNCHANGED <<project, member, platform, keys, applications, comment, inbox, mail,
                     challenge, audited, intent>>
    BY DEF RecordJoinFailure
<1>2. /\ NotRateLimited(u) /\ checking' = {}
    BY <1>1 DEF Inv, Checks
<1>3. /\ attempts \in Counters /\ h \in Addresses
      /\ attempts.user[u] \in Nat /\ attempts.address[h] \in Nat
    BY AddressAssumption DEF Inv, TypeOK, Counters
<1>4. /\ one \in Counters
      /\ one.user[u] = attempts.user[u] + 1 /\ one.address = attempts.address
      /\ \A v \in Users \ {u} : one.user[v] = attempts.user[v]
    BY <1>3 DEF Counters
<1>5. /\ both \in Counters
      /\ both.address[h] = attempts.address[h] + 1 /\ both.user = one.user
      /\ \A g \in Addresses \ {h} : both.address[g] = attempts.address[g]
  <2> HIDE DEF one
  <2> QED
      BY <1>3, <1>4 DEF Counters
<1>6. /\ attempts.user[u] + 1 <= UserLimit /\ attempts.address[h] + 1 <= AddressLimit
    BY <1>2, <1>3, LimitAssumption DEF NotRateLimited
<1> HIDE DEF h, one, both
<1>7. attempts' \in Counters /\ AttemptsBounded'
  <2>1. /\ \A v \in Users : attempts'.user[v] \in
              {attempts.user[v]} \union (IF v = u THEN {attempts.user[u] + 1} ELSE {})
        /\ \A g \in Addresses : attempts'.address[g] \in
              {attempts.address[g]} \union (IF g = h THEN {attempts.address[h] + 1} ELSE {})
    <3>1. CASE attempts' = attempts
        BY <3>1
    <3>2. CASE attempts' = one
        BY <3>2, <1>4
    <3>3. CASE attempts' = both
        BY <3>3, <1>4, <1>5
    <3> QED
        BY <1>1, <3>1, <3>2, <3>3
  <2>2. AttemptsBounded'
      BY <1>6, <2>1 DEF Inv, AttemptsBounded
  <2> QED
      BY <1>1, <1>3, <1>4, <1>5, <2>2
<1>8. TypeOK'
  <2>1. checking' \subseteq Users /\ challenge' \in BOOLEAN /\ asked' \in [Users -> Asked]
      BY <1>1, <1>2, DoneAsked DEF Inv, TypeOK
  <2> QED
      BY <1>1, <1>7, <2>1, Typed DEF Inv
<1>9. OneOwner' /\ DoorSound(project)' /\ OnePending' /\ AuditReplays'
    BY <1>1, OwnersKept, DoorKept, PendingKept, AuditKept DEF Inv
<1> QED
    BY <1>1, <1>2, <1>7, <1>8, <1>9, EndStep

-----------------------------------------------------------------------------
(* The invariant *)

LEMMA InitInv == Init => Inv
<1> SUFFICES ASSUME Init PROVE Inv
    OBVIOUS
<1>1. project = FirstProject /\ platform = FirstPlatform /\ intent \in Intents
    BY DEF Init
<1>2. member = [u \in Users |-> IF u = Owner THEN "owner" ELSE NoRole]
    BY DEF Init
<1>3. /\ keys = [u \in Users |-> {}] /\ applications = <<>>
      /\ comment = [c \in Comments |-> NoComment]
      /\ inbox = {} /\ mail = {} /\ challenge = FALSE /\ checking = {}
    BY DEF Init
<1>4. attempts = [user |-> [u \in Users |-> 0], address |-> [a \in Addresses |-> 0]]
    BY DEF Init
<1>5. asked = [u \in Users |-> NoRequest]
    BY DEF Init
<1>6. audited = [member |-> member, platform |-> platform, status |-> <<>>,
                 scheduled |-> FALSE, sound |-> TRUE]
    BY DEF Init
<1>7. member \in [Users -> Roles \union {NoRole}] /\ OneOwner
    BY <1>2, OwnerAssumption, OwnerHasRole DEF OneOwner
<1>8. platform \in [Users -> PlatformRoles \union {NoRole}]
    BY <1>1, PlatformAssumption
<1>9. attempts \in Counters /\ AttemptsBounded
    BY <1>4, LimitAssumption DEF Counters, AttemptsBounded
<1>10. asked \in [Users -> Asked]
    BY <1>5 DEF NoRequest, Asked
<1>11. audited \in Log
  <2>1. <<>> \in Seq(Statuses)
      OBVIOUS
  <2> QED
      BY <1>6, <1>7, <1>8, <2>1 DEF Log
<1>12. comment \in [Comments -> [author: Users \union {Nobody}, text: 0..2, deleted: BOOLEAN]]
  <2>1. 0 \in 0..2
      OBVIOUS
  <2>2. NoComment \in [author: Users \union {Nobody}, text: 0..2, deleted: BOOLEAN]
      BY <2>1 DEF NoComment
  <2> QED
      BY <1>3, <2>2
<1>13. TypeOK
  <2>1. project \in Project
      BY <1>1, ProjectAssumption
  <2>2. /\ keys \in [Users -> SUBSET Scopes]
        /\ applications \in Seq([user: Users, status: Statuses, role: Roles \union {NoRole}])
      BY <1>3
  <2>3. inbox \subseteq Notices /\ mail \subseteq Mails /\ challenge \in BOOLEAN /\ checking \subseteq Users
      BY <1>3
  <2> QED
      BY <1>1, <1>7, <1>8, <1>9, <1>10, <1>11, <1>12, <2>1, <2>2, <2>3
      DEF TypeOK, Counters, Asked, Log, Notices, Mails
<1>14. DoorSound(project)
    BY <1>1, ProjectAssumption DEF DoorSound
<1>15. OnePending
    BY <1>3 DEF OnePending
<1>16. Credentialed /\ Checks
    BY <1>3, <1>5 DEF Credentialed, Checks, Waiting
<1>17. AuditReplays
  <2>1. project.scheduled = FALSE
      BY <1>1, ProjectAssumption DEF Project
  <2>2. [i \in DOMAIN applications |-> applications[i].status] = <<>>
      BY <1>3
  <2> QED
      BY <1>6, <2>1, <2>2 DEF AuditReplays
<1> QED
    BY <1>7, <1>9, <1>13, <1>14, <1>15, <1>16, <1>17 DEF Inv

LEMMA NextInv == Inv /\ [Next]_vars => Inv'
<1> SUFFICES ASSUME Inv, [Next]_vars PROVE Inv'
    OBVIOUS
<1>1. ASSUME NEW u \in Users, NEW r \in intent[u], NEW scopes \in Credentials(u, r.op),
             Begin(u, r, scopes)
      PROVE  Inv'
    BY <1>1, BeginStep
<1>2. ASSUME NEW u \in Users, Transaction(u) PROVE Inv'
    BY <1>2, UpdateStep, SettingsStep, ChallengeStep, ScheduleStep, ApplyStep, JoinStep, CheckStep,
       FailureStep, LeaveStep, WithdrawStep, DecideStep, MutateStep, GrantStep, CommentStep,
       KeyStep, MessageStep, RefuseStep DEF Transaction
<1>3. CASE ExpireChallenge \/ ExpireWindow
    BY <1>3, ExpireStep
<1>4. CASE UNCHANGED vars
    BY <1>4 DEF vars, Inv, TypeOK, OneOwner, DoorSound, OnePending, Credentialed, Checks,
       AttemptsBounded, AuditReplays, Waiting, NotRateLimited
<1> QED
    BY <1>1, <1>2, <1>3, <1>4 DEF Next

(* The invariant holds of every state. *)
LEMMA InvHolds == Spec => []Inv
<1> QED
    BY InitInv, NextInv, PTL DEF Spec

-----------------------------------------------------------------------------
(* Ranks *)

(* Who may change a membership stands above the role and the one he gives. *)
LEMMA ScopeOutranks ==
  ASSUME NEW u \in Users, NEW x \in Users, NEW role, NEW current, NEW requested,
         MayChangeMember(MembershipScope(u = Owner, member[u], role),
                         x = Owner, current, requested)
  PROVE  LET authority == IF u = Owner \/ role \in {"admin", "super_admin"} THEN 3
                          ELSE ProjectRank(member[u])
         IN  /\ authority > 1
             /\ authority > ProjectRank(current) /\ authority > ProjectRank(requested)
<1> DEFINE scope == MembershipScope(u = Owner, member[u], role)
           high == u = Owner \/ role \in {"admin", "super_admin"}
           authority == IF high THEN 3 ELSE ProjectRank(member[u])
<1>1. /\ requested # "owner" /\ current # "owner"
      /\ \/ scope = "owner"
         \/ scope = "manager" /\ current # "manager" /\ requested # "manager"
    BY DEF MayChangeMember
<1>2. "manage_all" \in PlatformGrants(role) => role \in {"admin", "super_admin"}
    BY DEF PlatformGrants
<1>3. \/ scope = "owner" /\ high
      \/ ~high /\ scope = (IF member[u] = "owner" THEN NoRole ELSE member[u])
      \/ high
    BY <1>2 DEF MembershipScope
<1>4. ProjectRank(current) \in 0..2 /\ ProjectRank(requested) \in 0..2
    BY <1>1 DEF ProjectRank
<1>5. CASE high
    BY <1>4, <1>5
<1>6. CASE ~high
  <2>1. scope # "owner"
      BY <1>2, <1>6 DEF MembershipScope, NoRole
  <2>2. scope = "manager" /\ member[u] = "manager"
      BY <1>1, <1>2, <1>6, <2>1 DEF MembershipScope, NoRole
  <2>3. authority = 2
    <3>1. ProjectRank("manager") = 2
        BY DEF ProjectRank, NoRole
    <3> QED
        BY <1>6, <2>2, <3>1
  <2>4. ProjectRank(current) \in 0..1 /\ ProjectRank(requested) \in 0..1
      BY <1>1, <2>1 DEF ProjectRank
  <2> QED
      BY <2>3, <2>4
<1> QED
    BY <1>5, <1>6

LEMMA MayManage ==
  ASSUME Inv, NEW u \in Users, Waiting(u), asked[u].want.op \in {"add", "remove", "decide"}
  PROVE  asked[u].scopes \intersect {"all", "project:manage"} # {}
<1>1. RequiredScope(asked[u].want.op) = "project:manage"
    BY DEF RequiredScope
<1> QED
    BY <1>1 DEF Inv, Credentialed

LEMMA Ends == ASSUME Inv, NEW u \in Users, Waiting(u), Done(u) PROVE Acting(u)
BY DoneAsked DEF Inv, Acting

LEMMA RanksStep == ASSUME Inv, Next PROVE RanksKept
<1>1. CASE UNCHANGED <<member, platform>>
    BY <1>1 DEF RanksKept
<1>2. ASSUME NEW u \in Users, JoinFreely(u) \/ VerifyAccepted(u) PROVE RanksKept
  <2>1. /\ Waiting(u) /\ Done(u) /\ asked[u].want.op = "join" /\ member[u] = NoRole
        /\ project.visibility = "public" /\ ~project.scheduled
        /\ \/ project.join_policy = "free"
           \/ project.join_policy = "password" /\ asked[u].want.secret = project.password
           \/ project.join_policy = "quiz" /\ asked[u].want.secret = project.answer
    <3>1. CASE JoinFreely(u)
        BY <3>1 DEF JoinFreely, MayJoin, Locked
    <3>2. CASE VerifyAccepted(u)
        BY <3>2 DEF VerifyAccepted, Matches, Inv, Checks
    <3> QED
        BY <1>2, <3>1, <3>2
  <2>2. member' = [member EXCEPT ![u] = project.default_role] /\ UNCHANGED platform
      BY <1>2 DEF JoinFreely, VerifyAccepted, Admit
  <2>3. \A x \in Users : member'[x] = IF x = u THEN project.default_role ELSE member[x]
      BY <2>2 DEF Inv, TypeOK
  <2>4. ByOwnDoor(u)
      BY <2>1, <2>3 DEF ByOwnDoor
  <2> QED
      BY <2>1, <2>2, <2>3, <2>4, Ends DEF RanksKept
<1>3. ASSUME NEW u \in Users, Leave(u) PROVE RanksKept
  <2>1. /\ Waiting(u) /\ Done(u) /\ asked[u].want.op = "leave" /\ u # Owner
        /\ member' = [member EXCEPT ![u] = NoRole] /\ UNCHANGED platform
      BY <1>3 DEF Leave, Locked
  <2>2. \A x \in Users : member'[x] = IF x = u THEN NoRole ELSE member[x]
      BY <2>1 DEF Inv, TypeOK
  <2>3. ByOwnDoor(u)
      BY <2>1, <2>2 DEF ByOwnDoor
  <2> QED
      BY <2>1, <2>2, <2>3, Ends DEF RanksKept
<1>4. ASSUME NEW u \in Users, NEW y \in Users, NEW new,
             Waiting(u), Done(u), asked[u].want.op \in {"add", "remove", "decide"},
             Authority(u) > 1, Authority(u) > ProjectRank(member[y]),
             \/ Authority(u) > ProjectRank(new)
             \/ DecidesAsBefore(u) /\ Authority(u) = ProjectRank(new),
             member' = [member EXCEPT ![y] = new], UNCHANGED platform
      PROVE  RanksKept
  <2>1. \A x \in Users : member'[x] = IF x = y THEN new ELSE member[x]
      BY <1>4 DEF Inv, TypeOK
  <2>2. Acting(u) /\ asked[u].scopes \intersect {"all", "project:manage"} # {}
      BY <1>4, Ends, MayManage
  <2> QED
      BY <1>4, <2>1, <2>2 DEF RanksKept
<1>5. ASSUME NEW u \in Users, AddMember(u) \/ RemoveMember(u) PROVE RanksKept
  <2>1. PICK new : MutateMember(u, asked[u].want.op, new) /\ asked[u].want.op \in {"add", "remove"}
      BY <1>5 DEF AddMember, RemoveMember, MutateMember, Locked
  <2>2. asked[u].want.who \in Users
      BY <2>1, Wanted, Bodies DEF Inv
  <2> DEFINE y == asked[u].want.who
  <2>3. MayChangeMember(MembershipScope(u = Owner, member[u], platform[u]),
                        y = Owner, member[y], new)
      BY <2>1 DEF MutateMember
  <2>4. /\ Authority(u) > 1
        /\ Authority(u) > ProjectRank(member[y]) /\ Authority(u) > ProjectRank(new)
      BY <2>2, <2>3, ScopeOutranks DEF Authority
  <2> QED
      BY <2>1, <2>2, <2>4, <1>4 DEF MutateMember, Locked
<1>6. ASSUME NEW u \in Users, Decide(u) PROVE RanksKept
  <2> DEFINE r == asked[u].want
             role == IF r.role = NoRole THEN project.default_role ELSE r.role
             y == applications[r.id].user
  <2>1. /\ Waiting(u) /\ Done(u) /\ r.op = "decide" /\ r.id \in DOMAIN applications
        /\ member[y] = NoRole
        /\ r.approved => MayChangeMember(MembershipScope(u = Owner, member[u], asked[u].as),
                                         y = Owner, NoRole, role)
        /\ member' = IF r.approved THEN [member EXCEPT ![y] = role] ELSE member
        /\ UNCHANGED platform
      BY <1>6 DEF Decide, Locked, FindPending
  <2>2. y \in Users
    <3>1. applications[r.id] \in Application
        BY <2>1, RowsTyped
    <3> QED
        BY <3>1 DEF Application
  <2> HIDE DEF y, role
  <2>3. CASE r.approved
    <3>1. MayChangeMember(MembershipScope(u = Owner, member[u], asked[u].as),
                          y = Owner, NoRole, role)
        BY <2>1, <2>3
    <3> DEFINE before == IF u = Owner \/ asked[u].as \in {"admin", "super_admin"} THEN 3
                         ELSE ProjectRank(member[u])
    <3>2. before > 1 /\ before > ProjectRank(role)
        BY <2>2, <3>1, ScopeOutranks
    <3>3. /\ ProjectRank(role) \in 0..2 /\ ProjectRank(NoRole) = 0
          /\ ProjectRank(member[u]) \in 0..3
        BY <3>1 DEF MayChangeMember, ProjectRank, NoRole
    <3>4. CASE ~DecidesAsBefore(u)
      <4>0. Authority(u) \in 0..3
          BY <3>3 DEF Authority
      <4>1. Authority(u) = 3 \/ Authority(u) = before
          BY <2>1, <3>4 DEF Authority, DecidesAsBefore
      <4>2. Authority(u) > 1 /\ Authority(u) > ProjectRank(role)
        <5> HIDE DEF before
        <5> QED
            BY <3>2, <3>3, <4>0, <4>1
      <4>3. Authority(u) > ProjectRank(member[y])
        <5>1. ProjectRank(member[y]) = 0
            BY <2>1, <3>3
        <5> QED
            BY <4>0, <4>2, <5>1
      <4> QED
          BY <1>4, <2>1, <2>2, <2>3, <4>2, <4>3
    <3>5. CASE DecidesAsBefore(u)
      <4>1. "member" \in Grants(Effective(member[u], platform[u]))
          BY <1>6 DEF Decide, HasNode, EffectiveRole
      <4>2. "member" \in Grants(member[u])
          BY <3>5, <4>1 DEF DecidesAsBefore, Effective, PlatformGrants
      <4>3. member[u] \in {"owner", "manager"}
          BY <4>2 DEF Grants
      <4>4. Authority(u) \in {2, 3}
        <5>1. ProjectRank(member[u]) \in {2, 3}
            BY <4>3 DEF ProjectRank, NoRole
        <5> QED
            BY <5>1 DEF Authority
      <4>5. /\ Authority(u) > 1 /\ Authority(u) > ProjectRank(member[y])
            /\ Authority(u) > ProjectRank(role) \/ Authority(u) = ProjectRank(role)
          BY <2>1, <3>3, <4>4
      <4> QED
          BY <1>4, <2>1, <2>2, <2>3, <3>5, <4>5
    <3> QED
        BY <3>4, <3>5
  <2>4. CASE ~r.approved
      BY <2>1, <2>4, <1>1
  <2> QED
      BY <2>3, <2>4
<1>7. ASSUME NEW u \in Users, GrantRole(u) PROVE RanksKept
  <2> DEFINE y == asked[u].want.who
             new == asked[u].want.role
  <2>1. /\ Waiting(u) /\ Done(u) /\ asked[u].want.op = "grant"
        /\ MayManageUser(y = u, platform[u], platform[y], new)
        /\ platform' = [platform EXCEPT ![y] = new] /\ UNCHANGED member
      BY <1>7 DEF GrantRole
  <2>2. \A x \in Users : platform'[x] = IF x = y THEN new ELSE platform[x]
      BY <2>1 DEF Inv, TypeOK
  <2>3. /\ y # u /\ platform[u] \in {"admin", "super_admin"}
        /\ PlatformRank(platform[u]) > PlatformRank(platform[y])
        /\ PlatformRank(platform[u]) > PlatformRank(new)
      BY <2>1 DEF MayManageUser, PlatformRank
  <2> HIDE DEF y, new
  <2> QED
      BY <2>1, <2>2, <2>3, Ends DEF RanksKept
<1>8. ASSUME NEW u \in Users, Transaction(u) PROVE RanksKept
  <2>1. \/ UNCHANGED <<member, platform>>
        \/ JoinFreely(u) \/ VerifyAccepted(u) \/ Leave(u)
        \/ AddMember(u) \/ RemoveMember(u) \/ Decide(u) \/ GrantRole(u)
      BY <1>8 DEF Transaction, UpdateProject, PutJoinSettings, IssueChallenge, DeleteProject,
         CancelDeletion, SetScheduled, Apply, EnsureNotRateLimited, RecordJoinFailure, Withdraw,
         CreateComment, UpdateComment, DeleteComment, CreateApiKey, UpdateApiKey, RevokeApiKey,
         Poke, SendMessage, MarkRead, Refuse
  <2> QED
      BY <2>1, <1>1, <1>2, <1>3, <1>5, <1>6, <1>7
<1>9. ASSUME NEW u, NEW r, NEW scopes, Begin(u, r, scopes) PROVE RanksKept
    BY <1>9, <1>1 DEF Begin
<1>10. CASE ExpireChallenge \/ ExpireWindow
    BY <1>10, <1>1 DEF ExpireChallenge, ExpireWindow
<1> QED
    BY <1>8, <1>9, <1>10 DEF Next

-----------------------------------------------------------------------------
(* Verdicts *)

LEMMA VerdictStep == ASSUME Inv, Next PROVE VerdictKept
<1>0. applications \in Seq(Application)
    BY RowsTyped
<1>1. CASE UNCHANGED applications
    BY <1>1 DEF VerdictKept
<1>2. ASSUME NEW u \in Users, Apply(u) PROVE VerdictKept
  <2>1. PICK a \in Application : applications' = Append(applications, a)
    <3>1. [user |-> u, status |-> "pending", role |-> NoRole] \in Application
        BY DEF Application, Statuses
    <3> QED
        BY <1>2, <3>1 DEF Apply
  <2>2. \A i \in DOMAIN applications : applications'[i] = applications[i]
      BY <1>0, <2>1
  <2> QED
      BY <2>2 DEF VerdictKept
<1>3. ASSUME NEW u \in Users, Withdraw(u) PROVE VerdictKept
  <2>1. PICK n \in Pending(u) : applications' = [applications EXCEPT ![n].status = "withdrawn"]
      BY <1>3 DEF Withdraw
  <2>2. UNCHANGED member
      BY <1>3 DEF Withdraw
  <2>3. n \in DOMAIN applications /\ applications[n].status = "pending"
      BY DEF Pending
  <2>4. applications[n] \in Application
      BY <1>0, <2>3
  <2>5. /\ applications'[n].status = "withdrawn"
        /\ \A i \in DOMAIN applications \ {n} : applications'[i] = applications[i]
      BY <1>0, <2>1, <2>3, <2>4 DEF Application
  <2> QED
      BY <2>2, <2>3, <2>5 DEF VerdictKept
<1>4. ASSUME NEW u \in Users, Decide(u) PROVE VerdictKept
  <2> DEFINE r == asked[u].want
             n == r.id
             role == IF r.role = NoRole THEN project.default_role ELSE r.role
             b == applications[n]
             x == b.user
             status == IF r.approved THEN "approved" ELSE "rejected"
             given == IF r.approved THEN role ELSE NoRole
             a == [b EXCEPT !.status = status, !.role = given]
  <2>1. /\ n \in DOMAIN applications /\ b.status = "pending" /\ member[x] = NoRole
        /\ member' = IF r.approved THEN [member EXCEPT ![x] = role] ELSE member
        /\ applications' = [applications EXCEPT ![n] = a]
        /\ inbox' = inbox \union {Notice(x, "decision", n)}
      BY <1>4 DEF Decide, FindPending
  <2>2. b \in Application
      BY <1>0, <2>1
  <2>3. x \in Users /\ member \in [Users -> Roles \union {NoRole}]
      BY <2>2 DEF Application, Inv, TypeOK
  <2>4. a.user = x /\ a.status = status /\ a.role = given
    <3> HIDE DEF b, status, given
    <3> QED
        BY <2>2 DEF Application
  <2>5. Notice(a.user, "decision", n) \in inbox'
      BY <2>1, <2>4
  <2>6. status = "approved" => r.approved /\ given = role
      OBVIOUS
  <2>7. ~r.approved => status = "rejected"
      OBVIOUS
  <2> HIDE DEF a, b, x, role, status, given
  <2>8. IF status = "approved" THEN member[x] = NoRole /\ member'[x] = given
        ELSE member'[x] = member[x]
  <3>1. CASE r.approved
      BY <2>1, <2>3, <2>6, <3>1 DEF status, given
  <3>2. CASE ~r.approved
      BY <2>1, <2>7, <3>2
  <3> QED
      BY <3>1, <3>2
  <2>9. /\ applications'[n] = a
        /\ \A i \in DOMAIN applications \ {n} : applications'[i] = applications[i]
      BY <1>0, <2>1
  <2> QED
      BY <2>1, <2>4, <2>5, <2>8, <2>9 DEF VerdictKept, b
<1>5. ASSUME NEW u \in Users, Transaction(u) PROVE VerdictKept
  <2>1. \/ UNCHANGED applications
        \/ Apply(u) \/ Withdraw(u) \/ Decide(u)
      BY <1>5 DEF Transaction, UpdateProject, PutJoinSettings, IssueChallenge, DeleteProject,
         CancelDeletion, SetScheduled, EnsureNotRateLimited, RecordJoinFailure, JoinFreely,
         VerifyAccepted, Leave, AddMember, RemoveMember, MutateMember, GrantRole,
         CreateComment, UpdateComment, DeleteComment, CreateApiKey, UpdateApiKey, RevokeApiKey,
         Poke, SendMessage, MarkRead, Refuse
  <2> QED
      BY <2>1, <1>1, <1>2, <1>3, <1>4
<1>6. ASSUME NEW u, NEW r, NEW scopes, Begin(u, r, scopes) PROVE VerdictKept
    BY <1>6, <1>1 DEF Begin
<1>7. CASE ExpireChallenge \/ ExpireWindow
    BY <1>7, <1>1 DEF ExpireChallenge, ExpireWindow
<1> QED
    BY <1>5, <1>6, <1>7 DEF Next

-----------------------------------------------------------------------------
(* Theorems *)

(* The rows, requests and counters stay of their types. *)
THEOREM TypeCorrect == Spec => []TypeOK
<1>1. Inv => TypeOK
    BY DEF Inv
<1> QED
    BY <1>1, InvHolds, PTL

(* No window counts more failed attempts than its limit, however many users
   of an address try at once and whichever counter Redis loses. *)
THEOREM AttemptsAreBounded == Spec => []AttemptsBounded
<1>1. Inv => AttemptsBounded
    BY DEF Inv
<1> QED
    BY <1>1, InvHolds, PTL

(* The project has its one owner, an open door its secret, and nobody two
   open applications. *)
THEOREM ProjectIsSound == Spec => []ProjectSound
<1>1. Inv => ProjectSound
  <2> SUFFICES ASSUME Inv PROVE ProjectSound
      OBVIOUS
  <2>1. {u \in Users : member[u] = "owner"} = {Owner}
      BY OwnerAssumption DEF Inv, OneOwner
  <2>2. ASSUME NEW u \in Users PROVE Cardinality(Pending(u)) <= 1
    <3>1. \A i, j \in Pending(u) : i = j
        BY DEF Inv, OnePending, Pending
    <3>2. CASE Pending(u) = {}
        BY <3>2, FS_EmptySet
    <3>3. CASE Pending(u) # {}
      <4>1. PICK i : i \in Pending(u)
          BY <3>3
      <4>2. Pending(u) = {i}
          BY <3>1, <4>1
      <4> QED
          BY <4>2, FS_Singleton
    <3> QED
        BY <3>2, <3>3
  <2> QED
      BY <2>1, <2>2 DEF Inv, DoorSound, ProjectSound
<1> QED
    BY <1>1, InvHolds, PTL

(* The audit log always tells the roles, the verdicts and the deletion that
   the tables hold. *)
THEOREM AuditHolds == Spec => []AuditReplays
<1>1. Inv => AuditReplays
    BY DEF Inv
<1> QED
    BY <1>1, InvHolds, PTL

(* No step changes a role without a rank above it, or the open door. *)
THEOREM RankHolds == Spec => RankRespected
<1>1. Inv /\ [Next]_vars => [RanksKept]_vars
    BY RanksStep
<1> QED
    BY <1>1, InvHolds, PTL DEF Spec, RankRespected

(* No verdict is taken back, and none is given that its applicant does not
   learn of in the same commit. *)
THEOREM VerdictsHold == Spec => VerdictsStand
<1>1. Inv /\ [Next]_vars => [VerdictKept]_vars
    BY VerdictStep
<1> QED
    BY <1>1, InvHolds, PTL DEF Spec, VerdictsStand

=============================================================================
