-------------------------- MODULE MCCollaboration --------------------------
(* An owner, a manager to be, an applicant and a platform super admin.     *)
EXTENDS Collaboration

CONSTANTS boss, mia, xen, root, c1

MCAddressOf == [u \in Users |-> IF u \in {mia, xen} THEN "near" ELSE "far"]
MCFirstPlatform == [u \in Users |-> IF u = root THEN "super_admin" ELSE NoRole]
MCFirstProject ==
  [visibility |-> "public", join_policy |-> "application", default_role |-> "translator",
   comment_policy |-> "public", scheduled |-> FALSE, password |-> 0, question |-> 0, answer |-> 0]
Door(policy, password, question, answer) ==
  [op |-> "settings", join_policy |-> policy, default_role |-> "translator",
   password |-> password, question |-> question, answer |-> answer]
Open(visibility, comments) ==
  [op |-> "update", visibility |-> visibility, comment_policy |-> comments]
Ranks == [u \in Users |->
  CASE u = boss -> {[op |-> "add", who |-> mia, role |-> "manager"], [op |-> "remove", who |-> mia]}
    [] u = mia -> {[op |-> "decide", id |-> 1, approved |-> TRUE, role |-> "manager"],
                 [op |-> "decide", id |-> 1, approved |-> FALSE, role |-> NoRole],
                 [op |-> "add", who |-> xen, role |-> "translator"], [op |-> "remove", who |-> xen]}
    [] u = xen -> {[op |-> "join", secret |-> 0], [op |-> "leave"]}
    [] OTHER -> {[op |-> "grant", who |-> mia, role |-> "admin"],
                 [op |-> "grant", who |-> mia, role |-> NoRole],
                 [op |-> "add", who |-> boss, role |-> "manager"],
                 [op |-> "decide", id |-> 2, approved |-> TRUE, role |-> NoRole]}]
Doors == [u \in Users |->
  CASE u = boss -> {Door("password", 1, 0, 0), Door("quiz", 0, 1, 2), Door("quiz", 0, 0, 0),
                 Door("free", 2, 0, 0), Open("private", "public"), Open("public", "public")}
    [] u \in {mia, xen} -> {[op |-> "join", secret |-> 1], [op |-> "join", secret |-> 2],
                        [op |-> "leave"]}
    [] OTHER -> {}]
Talk == [u \in Users |->
  CASE u = boss -> {[op |-> "add", who |-> mia, role |-> "manager"], [op |-> "remove", who |-> mia],
                 [op |-> "add", who |-> xen, role |-> "translator"], Open("private", "internal"),
                 [op |-> "challenge"], [op |-> "delete"], [op |-> "restore"]}
    [] u = mia -> {[op |-> "erase", id |-> c1], [op |-> "key", scopes |-> {"project:manage"}],
                 [op |-> "rekey", scopes |-> {"entry:write"}], [op |-> "revoke"], [op |-> "poke", who |-> xen]}
    [] u = xen -> {[op |-> "comment", id |-> c1], [op |-> "edit", id |-> c1],
                 [op |-> "send", who |-> mia], [op |-> "read"]}
    [] OTHER -> {}]
MCIntents == {Ranks, Doors, Talk}

=============================================================================
