----------------------------- MODULE MCWorkspace -----------------------------
(* Small workspaces, and the requests two callers may make of one. *)
EXTENDS WorkspaceFiles

Req(kind, path, to, data, cond, via) ==
    [kind |-> kind, path |-> path, to |-> to, data |-> data, cond |-> cond, via |-> via]
Tree(a, ab, x, xb) == [q \in Paths |-> CASE q = A -> a [] q = AB -> ab [] q = X -> x [] OTHER -> xb]

MCTrees == {Tree(0, 0, 0, 2), Tree(0, 0, 1, 0), Tree(0, 1, 0, 0)}

MCRequests ==
    { Req("write", AB, AB, 3, "none", "rest"), Req("write", X, X, 1, "absent", "tool"),
      Req("edit", AB, AB, 0, "none", "tool"), Req("edit", XB, XB, 0, "none", "rest"),
      Req("delete", AB, AB, 0, "match", "rest"), Req("rmdir", A, A, 0, "none", "rest"),
      Req("patch", X, AB, 0, "none", "tool"), Req("patch", A, X, 0, "none", "tool"),
      Req("upload", XB, XB, 3, "none", "rest"), Req("move", XB, AB, 0, "none", "rest"),
      Req("dirmove", X, A, 0, "none", "rest"), Req("remove", A, A, 0, "none", "rest") }
=============================================================================
