---------------------------- MODULE Permissions ----------------------------
(***************************************************************************)
(* Roles and the permission nodes they hold.  A role is a set of nodes,    *)
(* and every decision asks whether the role of the subject has the node.   *)
(***************************************************************************)

EXTENDS Naturals

NoRole == "none"
Roles == {"owner", "manager", "reviewer", "translator"}
PlatformRoles == {"super_admin", "admin", "maintainer"}

Nodes == {"manage", "delete", "member", "upload", "download", "history", "rollback",
          "task", "term", "edit", "review", "lock", "hide"}

Grants(role) ==
  CASE role = "owner" -> Nodes
    [] role = "manager" -> Nodes \ {"delete"}
    [] role = "reviewer" -> {"edit", "review", "download", "history", "term"}
    [] role = "translator" -> {"edit", "download", "history"}
    [] OTHER -> {}

PlatformGrants(role) ==
  CASE role = "super_admin" -> {"grant", "users", "create", "manage_all", "settings", "pos"}
    [] role = "admin" -> {"users", "create", "manage_all", "settings", "pos"}
    [] role = "maintainer" -> {"create"}
    [] OTHER -> {}

(* A platform administrator counts as owner of every project. *)
Effective(membership, platform) ==
  IF "manage_all" \in PlatformGrants(platform) THEN "owner" ELSE membership

CanEditLocked(role) == role \in {"owner", "manager"}

(* The scope in which a subject changes memberships: an owner by the row   *)
(* of the project or a platform administrator, else the role of a member.  *)
MembershipScope(isOwner, membership, platform) ==
  IF isOwner \/ "manage_all" \in PlatformGrants(platform) THEN "owner"
  ELSE IF membership = "owner" THEN NoRole ELSE membership

(* requested is NoRole for a removal. *)
MayChangeMember(scope, targetIsOwner, current, requested) ==
  /\ requested # "owner" /\ current # "owner" /\ ~targetIsOwner
  /\ requested = NoRole => current # NoRole
  /\ \/ scope = "owner"
     \/ scope = "manager" /\ "manager" \notin {current, requested}

PlatformRank(role) ==
  CASE role = "super_admin" -> 3 [] role = "admin" -> 2 [] role = "maintainer" -> 1 [] OTHER -> 0

MayManageUser(itself, actor, current, requested) ==
  /\ PlatformRank(actor) >= 2 /\ ~itself
  /\ PlatformRank(actor) > PlatformRank(current)
  /\ PlatformRank(actor) > PlatformRank(requested)

NodeForState(state) == IF state \in {"checked", "reviewed"} THEN "review" ELSE "edit"

=============================================================================
