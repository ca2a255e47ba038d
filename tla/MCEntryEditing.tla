--------------------------- MODULE MCEntryEditing ---------------------------
(* One translator, one platform administrator, two files of one entry.     *)
EXTENDS EntryEditing, TLC

CONSTANTS u1, u2, f1, f2, e1, e2, t1, s0, s1, s2

MCPlatformRole == [u \in Users |-> IF u = u2 THEN "admin" ELSE NoRole]
MCMemberRole == [u \in Users |-> IF u = u2 THEN NoRole ELSE "translator"]
MCFlagRequests ==
  {[f \in {"hide"} |-> TRUE], [f \in {"hide", "lock"} |-> f = "lock"]}
MCSources == [e \in Entries |-> IF e = e1 THEN {s1, s2} ELSE {s0}]
MCSeed ==
  [e \in Entries |-> IF e = e1 THEN [text |-> 0, state |-> "untranslated"]
                     ELSE [text |-> 1, state |-> "checked"]]
MCSymmetry == Permutations({s1, s2})
MCEdited == [u \in Users |-> {e1}]
MCSaveRequests ==
  [u \in Users |->
     IF u = u2 THEN {[text |-> 0, state |-> "reviewed", tag |-> "yes"]}
     ELSE {[text |-> 1, state |-> "translated", tag |-> "keep"]}]
MCTaskFiles == {{f1}, {f1, f2}}
MCMaxVersion == [e \in Entries |-> IF e = e1 THEN 4 ELSE 1]
MCFileOf == [e \in Entries |-> IF e = e1 THEN f1 ELSE f2]

=============================================================================
