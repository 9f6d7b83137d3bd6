----------------------------- MODULE MCDispatch -----------------------------
(* Instances of Dispatch for TLC, and what the manual says of conditions.  *)
EXTENDS Dispatch

(* Modules: a version 1 module, one of version 2 that does everything and  *)
(* may fail after it has written, one that advertises a transformation it  *)
(* has no function for, one that is too new, and one that says version 0.  *)
MCKind ==
  << [version |-> 1, capabilities |-> {}, functions |-> {"query"},
      talks |-> FALSE],
     [version |-> 2, capabilities |-> {"query", "xform"},
      functions |-> {"query", "xform"}, talks |-> TRUE],
     [version |-> 2, capabilities |-> {"query", "xform"},
      functions |-> {"query"}, talks |-> FALSE],
     [version |-> 3, capabilities |-> {"query"}, functions |-> {"query"},
      talks |-> FALSE],
     [version |-> 0, capabilities |-> {}, functions |-> {"query"},
      talks |-> FALSE] >>
MCDbModule == <<1, 2, 3, 4, 9, 5>>

Cond(f, v) == [field |-> f, values |-> v, nots |-> 0]
NotCond(f, v) == [field |-> f, values |-> v, nots |-> 1]
MCRule ==
  << [conds |-> {Cond("map", {"a"}), Cond("server", {"s1"})}, db |-> 1,
      xform |-> "none"],
     [conds |-> {Cond("map", {"a"})}, db |-> 2, xform |-> "map"],
     [conds |-> {Cond("key", {"a"}), Cond("source", {"c1"})}, db |-> 2,
      xform |-> "key"],
     [conds |-> {Cond("map", {"b"})}, db |-> 3, xform |-> "map"],
     [conds |-> {Cond("map", {"b"})}, db |-> 4, xform |-> "none"],
     [conds |-> {Cond("key", {"a"})}, db |-> 1, xform |-> "map"],
     [conds |-> {Cond("map", {"b"})}, db |-> 5, xform |-> "none"],
     [conds |-> {Cond("map", {"b"})}, db |-> 8, xform |-> "none"],
     [conds |-> {Cond("key", {"b"})}, db |-> 1, xform |-> "none"],
     [conds |-> {Cond("map", {"c"}), Cond("server", {"s2"})}, db |-> 6,
      xform |-> "key"],
     [conds |-> {Cond("key", {"a", "b"})}, db |-> 2, xform |-> "none"],
     [conds |-> {}, db |-> 2, xform |-> "key"] >>
MCPeers == {<<"s1", "c1">>, <<"s2", "c2">>}

MCNotRule ==
  << [conds |-> {NotCond("map", {"a"})}, db |-> 1, xform |-> "none"],
     [conds |-> {}, db |-> 2, xform |-> "none"] >>

(* doc/smap.texi, on conditions: "The result of any condition may be       *)
(* reverted using the `not' prefix": a rule is only used for a query its   *)
(* conditions, so read, accept.                                            *)
NotReverts ==
  pc = "apply" =>
    \A c \in Rule[cur].conds :
      (qp[c.field] \in c.values) <=> (c.nots % 2 = 0)
=============================================================================
