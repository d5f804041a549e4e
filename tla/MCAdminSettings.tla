--------------------------- MODULE MCAdminSettings ---------------------------
(* Instances of AdminSettings for TLC. *)
EXTENDS AdminSettings

TwoModules == {"m", "n"}
Entry(k, yes, no) ==
    [module |-> k, roles |-> [role : yes, enabled : {TRUE}] \cup [role : no, enabled : {FALSE}]]
Post(v, b) == [method |-> "POST", userRole |-> "admin", role |-> "", version |-> v, body |-> b]
Get == [Post(0, {}) EXCEPT !.method = "GET"]
OldRow(o, v) == [cell |-> <<"m", o>>, enabled |-> o = "admin", version |-> v, by |-> Initially]

(* An empty table and one that was saved before. *)
Saved == {OldRow("admin", 1), OldRow("user", 1)}
Tables == {{}, Saved}

MM == {Entry("m", {"user"}, {"admin"})}
MN == {Entry("m", {"user"}, {}), Entry("n", {"user"}, {})}
N == {Entry("n", {}, {"user"})}

(* Nothing at all, a module without a role, keys that are the same in      *)
(* normal form, and keys that have no normal form.                         *)
Bare == {Entry("m", {}, {})}
Collide == {Entry("m", {"admin", "user"}, {"user"}), Entry("m", {"operator"}, {})}
NoKey == {Entry("", {"user"}, {}), Entry("n", {"user"}, {})}
NoRole == {Entry("n", {"user", "guest"}, {})}

(* Saves of overlapping and disjoint matrices at both versions. *)
Contending == {Post(0, MN), Post(1, MM), Post(1, N)}

(* Callers that are not allowed, whose header falls back, or whose body is *)
(* malformed; saves at several versions, of empty matrices too.            *)
Mixed ==
    {Get, Post(0, N), Post(0, {}), Post(1, MM), Post(1, Bare), Post(1, Collide),
     Post(2, N), Post(1, NotJSON), Post(1, NoKey), Post(1, NoRole),
     [Post(0, MM) EXCEPT !.userRole = "user", !.role = "admin"],
     [Post(1, MN) EXCEPT !.userRole = "", !.role = "operator"],
     [Post(1, MN) EXCEPT !.userRole = ""]}

Clients == [o \in BOOLEAN |-> IF o THEN Contending ELSE Mixed]
Overlapping == [o \in {TRUE} |-> Contending]
=============================================================================
