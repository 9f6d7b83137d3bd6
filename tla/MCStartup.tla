------------------------------ MODULE MCStartup -----------------------------
(* Instances of Startup for TLC.                                           *)
EXTENDS Startup

User(u) == [kw |-> "user", uid |-> u]
Group(gs) == [kw |-> "group", gids |-> gs]
Allgroups == [kw |-> "allgroups"]
Reuseaddr(b) == [kw |-> "reuseaddr", on |-> b]
Owner(u, g) == [kw |-> "socket-owner", uid |-> u, gid |-> g, alone |-> FALSE]
OwnerAlone(u) == [kw |-> "socket-owner", uid |-> u, gid |-> None, alone |-> TRUE]
Server(s) == [kw |-> "server", id |-> s]
End == [kw |-> "end"]
Bad == [kw |-> "bad"]

(* Users root, 1 and 2 and groups 11, 12, 13; the group of user 2 is       *)
(* root's.  User 9 does not exist.                                         *)
MCUsers == {0, 1, 2}
MCPrimaryGid == [u \in MCUsers |-> IF u = 1 THEN 11 ELSE 0]
MCMemberOf == [u \in MCUsers |-> IF u = 1 THEN <<12, 13>> ELSE <<>>]

MCStarts == { Identity(0, 0, {0, 5}), Identity(0, 11, {0}), Identity(2, 0, {0}),
              Identity(1, 11, {11}) }

GlobalPart ==
  { <<>>, <<User(1)>>, <<User(2), Group(<<12>>)>>, <<User(1), Allgroups>>,
    <<Reuseaddr(TRUE)>>, <<User(9), Bad>>, <<End>>, <<Owner(1, 12)>> }

BlockLines ==
  { User(0), User(1), User(2), User(9), Group(<<12, 13>>), Owner(1, 12), Owner(None, 13),
    Owner(2, None), OwnerAlone(1), Reuseaddr(TRUE) }

MCConfigs ==
  { g \o <<Server("a")>> \o b \o <<End, Server("b"), User(1)>> :
      g \in GlobalPart, b \in SeqOf(BlockLines, 2) }
  \cup { <<Server("a"), Server("b")>>, <<Server("a"), Allgroups>> }

(* The directory of the socket of server a belongs to user 1.              *)
MCMayBind == [s \in {"a", "b"} |-> IF s = "a" THEN {1} ELSE {1, 2}]
=============================================================================
