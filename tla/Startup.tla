------------------------------ MODULE Startup -------------------------------
(***************************************************************************)
(* How smapd starts: the configuration is read (parse_config_loop in       *)
(* src/src/cfg.c, the handlers of src/src/smapd.c), the master gives up    *)
(* its privileges (src/src/userprivs.c), the sockets are opened            *)
(* (server_open in src/src/srvman.c) and sessions switch to the user of    *)
(* their server.  smapd may then be restarted, by SIGHUP with the          *)
(* identity it has by then or by the administrator with the identity of    *)
(* the first start; the socket files stay where they are.                  *)
(*                                                                         *)
(* Users and groups are numbers; 0 is root, -1 is (uid_t)-1.               *)
(***************************************************************************)
EXTENDS Integers, Sequences, SequencesExt, FiniteSets

CONSTANTS
  Servers,      \* names that may occur in server statements
  Inet,         \* those of them with an inet address
  Single,       \* those of them in single-process mode
  Configs,      \* configuration files: sequences of statements
  Starts,       \* identities smapd may be started with
  Users,        \* uids with an entry in the user database
  PrimaryGid,   \* pw_gid of each of them
  MemberOf,     \* groups whose gr_mem lists them, in the order of getgrent
  MayBind,      \* uids that may create and remove the socket of each server
  MaxRuns       \* bound on the number of starts

ASSUME StartupAssumption ==
  /\ Inet \subseteq Servers /\ Single \subseteq Servers
  /\ Servers \cap {"master", "global"} = {}
  /\ Users \subseteq Nat
  /\ PrimaryGid \in [Users -> Nat] /\ MemberOf \in [Users -> Seq(Nat)]
  /\ MaxRuns \in Nat

None == -1

(* The statements; "bad" is one that is not understood.  A uid or gid is   *)
(* None where an owner leaves it out; "alone" is an owner without a colon. *)
Statement ==
  [kw : {"user"}, uid : Nat] \cup [kw : {"group"}, gids : Seq(Nat)] \cup
  [kw : {"reuseaddr"}, on : BOOLEAN] \cup
  [kw : {"socket-owner"}, uid : Nat \cup {None}, gid : Nat \cup {None},
   alone : BOOLEAN] \cup
  [kw : {"server"}, id : Servers] \cup [kw : {"allgroups", "end", "bad"}]

(* Each server statement makes a server of its own.                        *)
ASSUME ConfigsAssumption ==
  \A f \in Configs :
    /\ f \in Seq(Statement)
    /\ \A i, j \in DOMAIN f :
         f[i].kw = "server" /\ f[j].kw = "server" /\ f[i].id = f[j].id => i = j

Scopes == Servers \cup {"global"}
Procs == Servers \cup {"master"}

VARIABLES
  pc,        \* control point of the process that runs
  conf,      \* the configuration file
  at,        \* line being read, then position in the list of servers
  block,     \* scope of the statement being read
  errors,    \* cfg_errors
  list,      \* servers attached, in order
  privs,     \* struct privinfo of each scope
  srv,       \* uid, gid and SRV_KEEP_EXISTING of each server
  reuse,     \* srvman_param.reuseaddr
  cred,      \* identity of the master and of the sessions
  who,       \* scope whose privileges are being switched to
  opened,    \* servers with a listening socket
  files,     \* owner of each socket file, or none
  runs,      \* starts so far
  start, was, opener, before, failed  \* history

confVars == <<at, block, errors, list, privs, srv, reuse>>
ghostVars == <<was, opener, before, failed>>
vars == <<pc, conf, confVars, cred, who, opened, files, runs, start, ghostVars>>

NoPrivs == [uid |-> 0, gids |-> <<>>, allgroups |-> FALSE]
NewServer == [uid |-> None, gid |-> None, keep |-> FALSE]
NoFile == [uid |-> None, gid |-> None]

Identity(u, g, gs) == [ruid |-> u, euid |-> u, suid |-> u,
                       rgid |-> g, egid |-> g, sgid |-> g, groups |-> gs]

(* smapd is not installed set-user-ID or set-group-ID.                     *)
ASSUME StartsAssumption ==
  \A c \in Starts : /\ c = Identity(c.ruid, c.rgid, c.groups)
                    /\ c.ruid \in Nat /\ c.rgid \in Nat

Init ==
  /\ pc = "read" /\ conf \in Configs
  /\ at = 1 /\ block = "global" /\ errors = FALSE /\ list = <<>>
  /\ privs = [s \in Scopes |-> NoPrivs]
  /\ srv = [s \in Servers |-> NewServer]
  /\ reuse = FALSE
  /\ start \in Starts
  /\ cred = [p \in Procs |-> start] /\ who = "global"
  /\ opened = {} /\ files = [s \in Servers |-> NoFile]
  /\ runs = 1
  /\ was = start /\ opener = start /\ before = {} /\ failed = {}

-----------------------------------------------------------------------------
(* Reading the configuration: one statement per step.                      *)

Line == conf[at]

AddGid(pi, g) == [pi EXCEPT !.gids = Append(@, g)]

(* An unknown user is reported, and that is all.                           *)
privinfo_set_user(pi, u) ==
  IF u \in Users THEN AddGid([pi EXCEPT !.uid = u], PrimaryGid[u]) ELSE pi

(* A statement of the block or of the global scope has been read.          *)
Reading(kw) ==
  /\ pc = "read" /\ at <= Len(conf) /\ Line.kw = kw
  /\ at' = at + 1
  /\ UNCHANGED <<pc, conf, cred, who, opened, files, runs, start, ghostVars>>

(* cfg_user, cfg_srv_user                                                  *)
ReadUser ==
  /\ Reading("user")
  /\ privs' = [privs EXCEPT ![block] = privinfo_set_user(@, Line.uid)]
  /\ UNCHANGED <<block, errors, list, srv, reuse>>

(* Fault: only the first group named is retained.                          *)
AddGroups_First(pi, gs) == AddGid(pi, Head(gs))

(* privinfo_add_grpnam for each group of a statement                       *)
AddGroups(pi, gs) == [pi EXCEPT !.gids = @ \o gs]

(* cfg_group, cfg_srv_group                                                *)
ReadGroup ==
  /\ Reading("group")
  /\ privs' = [privs EXCEPT ![block] = AddGroups(@, Line.gids)]
  /\ UNCHANGED <<block, errors, list, srv, reuse>>

(* The global statement assigns a variable, that of a block has none.      *)
ReadAllgroups ==
  /\ block = "global"
  /\ Reading("allgroups")
  /\ privs' = [privs EXCEPT !["global"].allgroups = TRUE]
  /\ UNCHANGED <<block, errors, list, srv, reuse>>

ReadAllgroupsCrash ==
  /\ pc = "read" /\ at <= Len(conf) /\ Line.kw = "allgroups"
  /\ block # "global"
  /\ pc' = "crashed"
  /\ UNCHANGED <<conf, confVars, cred, who, opened, files, runs, start,
                 ghostVars>>

(* cfg_reuseaddr: a server that is told to reuse its address is marked to  *)
(* keep what exists.                                                       *)
ReadReuseaddr ==
  /\ Reading("reuseaddr")
  /\ IF block = "global"
     THEN reuse' = Line.on /\ srv' = srv
     ELSE reuse' = reuse /\ srv' = [srv EXCEPT ![block].keep = Line.on]
  /\ UNCHANGED <<block, errors, list, privs>>

(* A user alone stands for the user and the user's group.                  *)
OwnerGid(l) ==
  IF l.alone /\ l.uid \in Users THEN PrimaryGid[l.uid] ELSE l.gid

(* cfg_srv_chown and smap_server_set_owner: -1 stands for a part that is   *)
(* left out.  The group of an owner given in full is retained as well.     *)
ReadSocketOwner ==
  /\ block # "global"
  /\ Reading("socket-owner")
  /\ LET u == Line.uid
         g == OwnerGid(Line)
     IN  /\ privs' = [privs EXCEPT ![block] =
                        IF u # None /\ g # None THEN AddGid(@, g) ELSE @]
         /\ srv' = [srv EXCEPT ![block] =
                      [uid |-> IF u # None THEN u ELSE @.uid,
                       gid |-> IF g # None THEN g ELSE @.gid,
                       keep |-> @.keep]]
  /\ UNCHANGED <<block, errors, list, reuse>>

(* cfg_server with a block                                                 *)
ReadServer ==
  /\ block = "global"
  /\ Reading("server")
  /\ list' = Append(list, Line.id)
  /\ block' = Line.id
  /\ UNCHANGED <<errors, privs, srv, reuse>>

ReadEnd ==
  /\ block # "global"
  /\ Reading("end")
  /\ block' = "global"
  /\ UNCHANGED <<errors, list, privs, srv, reuse>>

(* A line that is not understood in its scope is an error; reading goes on.*)
ReadError ==
  /\ \/ Reading("bad")
     \/ block = "global" /\ (Reading("end") \/ Reading("socket-owner"))
     \/ block # "global" /\ Reading("server")
  /\ errors' = TRUE
  /\ UNCHANGED <<block, list, privs, srv, reuse>>

-----------------------------------------------------------------------------
(* switch_to_privs, one system call per step.                              *)

Proc == IF who \in Single \cup {"global"} THEN "master" ELSE who
Me == cred[Proc]
Target == privs[who]

(* get_user_groups                                                         *)
privinfo_expand_user_groups(pi) ==
  IF pi.allgroups
  THEN [pi EXCEPT !.gids = IF pi.uid \in Users THEN @ \o MemberOf[pi.uid] ELSE @,
                  !.allgroups = FALSE]
  ELSE pi

(* Where the process goes when the function has returned 0 or an error.    *)
Switched == IF who = "global" THEN "expand" ELSE "loop"
NotSwitched == IF who = "global" THEN "exit" ELSE "serve"

(* The privileges are switched only by a process whose group is root's.    *)
BeginSwitch(c, pi) == IF c.rgid = 0 /\ pi.uid # 0 THEN "setgroups" ELSE Switched'

SystemCall(call, c) ==
  /\ pc = call
  /\ cred' = [cred EXCEPT ![Proc] = c]
  /\ UNCHANGED <<conf, confVars, who, opened, files, runs, start, ghostVars>>

(* Fault: the groups of the old identity are kept.                         *)
SetGroups_Skipped ==
  /\ SystemCall("setgroups", Me)
  /\ pc' = "setegid"

SetGroups ==
  \/ /\ Me.euid = 0
     /\ SystemCall("setgroups", [Me EXCEPT !.groups = ToSet(Target.gids)])
     /\ pc' = "setegid"
  \/ /\ Me.euid # 0
     /\ SystemCall("setgroups", Me)
     /\ pc' = "setegid"

SetEgid ==
  LET g == Target.gids[1]
  IN  /\ pc = "setegid" /\ (Me.euid = 0 \/ g \in {Me.rgid, Me.egid, Me.sgid})
      /\ SystemCall("setegid", [Me EXCEPT !.egid = g])
      /\ pc' = IF g # 0 THEN "setgid" ELSE "setuid"

SetGid ==
  LET g == Target.gids[1]
  IN  /\ pc = "setgid" /\ (Me.euid = 0 \/ g \in {Me.rgid, Me.sgid})
      /\ SystemCall("setgid", IF Me.euid = 0
                              THEN [Me EXCEPT !.rgid = g, !.egid = g, !.sgid = g]
                              ELSE [Me EXCEPT !.egid = g])
      /\ pc' = "setuid"

(* What setuid(u) makes of an identity that may call it.                   *)
MaySetUid(c, u) == c.euid = 0 \/ u \in {c.ruid, c.suid}
AfterSetUid(c, u) ==
  IF c.euid = 0 THEN [c EXCEPT !.ruid = u, !.euid = u, !.suid = u]
                ELSE [c EXCEPT !.euid = u]

SetUid ==
  /\ pc = "setuid" /\ MaySetUid(Me, Target.uid)
  /\ SystemCall("setuid", AfterSetUid(Me, Target.uid))
  /\ pc' = "verify"

(* The first setuid fails, setreuid and the second one do not.             *)
SetUidAgain ==
  /\ Me.euid = 0
  /\ SystemCall("setuid", AfterSetUid([Me EXCEPT !.ruid = Target.uid], Target.uid))
  /\ pc' = "verify"

(* A system call fails before the user is changed: the function returns an *)
(* error, and what the calls before it have done stays done.               *)
SwitchFails ==
  /\ pc \in {"setgroups", "setegid", "setgid"}
  /\ pc = "setgroups" => Me.euid = 0
  /\ pc' = NotSwitched
  /\ UNCHANGED <<conf, confVars, cred, who, opened, files, runs, start,
                 ghostVars>>

(* The identities after a failed setuid(u): setreuid and a second setuid   *)
(* are tried and one of them fails as well, or both do.                    *)
HalfSwitched(c, u) ==
  {c} \cup (IF c.euid = u THEN {} ELSE
            (IF c.euid = 0 \/ u \in {c.ruid, c.euid}
             THEN {[c EXCEPT !.ruid = u, !.suid = c.euid]} ELSE {})
            \cup (IF MaySetUid(c, u) THEN {AfterSetUid(c, u)} ELSE {}))

(* setuid(0), which succeeds whenever it is permitted.                     *)
TakeRoot(c) == IF MaySetUid(c, 0) THEN AfterSetUid(c, 0) ELSE c

(* The user is not changed as it should be: the function still tries to    *)
(* become root, and returns an error with what it is then.                 *)
SetUidFails ==
  /\ \E c \in HalfSwitched(Me, Target.uid) : SystemCall("setuid", TakeRoot(c))
  /\ pc' = NotSwitched

(* The way back to root must be closed.                                    *)
Verify ==
  /\ SystemCall("verify", TakeRoot(Me))
  /\ pc' = IF MaySetUid(Me, 0) THEN NotSwitched ELSE Switched

-----------------------------------------------------------------------------
(* smap_daemon.                                                            *)

(* The end of the file, also inside a block.  The groups of the global     *)
(* user are looked up by a process that is going to switch.                *)
EndOfFile ==
  /\ pc = "read" /\ at > Len(conf)
  /\ who' = "global"
  /\ LET c == cred["master"]
         pi == IF c.rgid = 0 THEN privinfo_expand_user_groups(privs["global"])
                             ELSE privs["global"]
     IN  \/ /\ errors
            /\ pc' = "exit"
            /\ UNCHANGED <<privs, was>>
         \/ /\ ~errors
            /\ pc' = BeginSwitch(c, pi)
            /\ privs' = [privs EXCEPT !["global"] = pi]
            /\ was' = c
  /\ UNCHANGED <<conf, at, block, errors, list, srv, reuse, cred, opened,
                 files, runs, start, opener, before, failed>>

(* expand_srv_groups: the privileges of the sessions ...                   *)
SessionPrivs(s) ==
  LET pi == privinfo_expand_user_groups(privs[s])
  IN  IF pi.uid # 0 /\ srv[s].gid # None THEN AddGid(pi, srv[s].gid) ELSE pi

(* Fault: the user is taken for the owner whatever socket-owner says.      *)
SocketOwner_User(s) ==
  IF privs[s].uid # 0
  THEN [srv[s] EXCEPT !.uid = privs[s].uid, !.gid = privs[s].gids[1]]
  ELSE srv[s]

(* ... and the owner of the socket.                                        *)
SocketOwner(s) ==
  IF privs[s].uid # 0 /\ srv[s].gid = None
  THEN [srv[s] EXCEPT !.uid = IF @ = None THEN privs[s].uid ELSE @,
                      !.gid = privs[s].gids[1]]
  ELSE srv[s]

expand_srv_groups ==
  /\ pc = "expand"
  /\ privs' = [s \in Scopes |-> IF Contains(list, s) THEN SessionPrivs(s)
                                                     ELSE privs[s]]
  /\ srv' = [s \in Servers |-> IF Contains(list, s) THEN SocketOwner(s)
                                                    ELSE srv[s]]
  /\ at' = 1
  /\ opener' = cred["master"]
  /\ pc' = "open"
  /\ UNCHANGED <<conf, block, errors, list, reuse, cred, who, opened, files,
                 runs, start, was, before, failed>>

-----------------------------------------------------------------------------
(* server_open and server_prep.                                            *)

Cur == list[at]

(* SRVMAN_REUSEADDR                                                        *)
Reuse(s) == reuse \/ ~srv[s].keep

Allowed(s) == cred["master"].euid \in MayBind[s] \cup {0}

(* Fault: the global reuseaddr is not looked at.                           *)
Blocked_Local(s) == files[s] # NoFile /\ srv[s].keep

(* A socket file that exists is in the way unless it may be removed.       *)
Blocked(s) == files[s] # NoFile /\ ~Reuse(s)

(* The socket file as bind creates it, and after chown, which leaves alone *)
(* what is -1; only root tries it.                                         *)
Created == [uid |-> cred["master"].euid, gid |-> cred["master"].egid]
Chowns(s) == /\ s \notin Inet /\ cred["master"].euid = 0
             /\ srv[s].uid # None \/ srv[s].gid # None
SocketFile(s) ==
  LET Own(new, old) == IF Chowns(s) /\ new # None THEN new ELSE old
  IN  IF s \in Inet THEN NoFile
      ELSE [uid |-> Own(srv[s].uid, Created.uid),
            gid |-> Own(srv[s].gid, Created.gid)]

ServerOpened ==
  /\ pc = "open" /\ at <= Len(list)
  /\ Allowed(Cur) /\ ~Blocked(Cur)
  /\ files' = [files EXCEPT ![Cur] = SocketFile(Cur)]
  /\ opened' = opened \cup {Cur}
  /\ at' = at + 1
  /\ UNCHANGED <<pc, conf, block, errors, list, privs, srv, reuse, cred, who,
                 runs, start, ghostVars>>

(* chown fails, which is reported; the server is opened all the same.      *)
ChownFails ==
  /\ pc = "open" /\ at <= Len(list)
  /\ Allowed(Cur) /\ ~Blocked(Cur) /\ Chowns(Cur)
  /\ files' = [files EXCEPT ![Cur] = Created]
  /\ opened' = opened \cup {Cur}
  /\ failed' = failed \cup {Cur}
  /\ at' = at + 1
  /\ UNCHANGED <<pc, conf, block, errors, list, privs, srv, reuse, cred, who,
                 runs, start, was, opener, before>>

(* The server is freed: it may not bind, or something is in the way.       *)
ServerRefused ==
  /\ pc = "open" /\ at <= Len(list)
  /\ ~Allowed(Cur) \/ Blocked(Cur)
  /\ list' = RemoveAt(list, at)
  /\ UNCHANGED <<pc, conf, at, block, errors, privs, srv, reuse, cred, who,
                 opened, files, runs, start, ghostVars>>

(* A system call fails for another reason, before or after unlink or bind. *)
ServerFails ==
  /\ pc = "open" /\ at <= Len(list)
  /\ Allowed(Cur) /\ ~Blocked(Cur)
  /\ \E f \in {files[Cur], NoFile, SocketFile(Cur)}
               \cup (IF Chowns(Cur) THEN {Created} ELSE {}) :
       files' = [files EXCEPT ![Cur] = f]
  /\ failed' = failed \cup {Cur}
  /\ list' = RemoveAt(list, at)
  /\ UNCHANGED <<pc, conf, at, block, errors, privs, srv, reuse, cred, who,
                 opened, runs, start, was, opener, before>>

OpenDone ==
  /\ pc = "open" /\ at > Len(list)
  /\ pc' = IF list = <<>> THEN "exit" ELSE "serve"
  /\ UNCHANGED <<conf, confVars, cred, who, opened, files, runs, start,
                 ghostVars>>

-----------------------------------------------------------------------------
(* Sessions and restarts.                                                  *)

(* A session starts with the identity of the master, in a process of its   *)
(* own or, in single-process mode, in the master itself.                   *)
SessionStart(s) ==
  /\ pc = "serve" /\ s \in opened
  /\ who' = s
  /\ was' = cred["master"]
  /\ cred' = [cred EXCEPT ![s] = cred["master"]]
  /\ pc' = BeginSwitch(cred["master"], privs[s])
  /\ UNCHANGED <<conf, confVars, opened, files, runs, start, opener, before,
                 failed>>

SessionEnd ==
  /\ pc = "loop"
  /\ pc' = "serve"
  /\ UNCHANGED <<conf, confVars, cred, who, opened, files, runs, start,
                 ghostVars>>

(* execv after SIGHUP, or a new start after the end.  The servers opened   *)
(* are remembered if the new start has the identity that opened them.      *)
Restart ==
  /\ pc \in {"serve", "exit"} /\ runs < MaxRuns
  /\ runs' = runs + 1
  /\ \E c \in {start} \cup (IF pc = "serve" THEN {cred["master"]} ELSE {}) :
       /\ cred' = [p \in Procs |-> c]
       /\ before' = IF c \in {start, opener} THEN opened ELSE {}
  /\ pc' = "read"
  /\ at' = 1 /\ block' = "global" /\ errors' = FALSE /\ list' = <<>>
  /\ privs' = [s \in Scopes |-> NoPrivs]
  /\ srv' = [s \in Servers |-> NewServer]
  /\ reuse' = FALSE
  /\ opened' = {} /\ failed' = {}
  /\ who' = "global"
  /\ UNCHANGED <<conf, files, start, was, opener>>

Terminate ==
  /\ pc = "serve"
  /\ pc' = "exit"
  /\ UNCHANGED <<conf, confVars, cred, who, opened, files, runs, start,
                 ghostVars>>

Next ==
  \/ ReadUser \/ ReadGroup \/ ReadAllgroups \/ ReadAllgroupsCrash
  \/ ReadReuseaddr \/ ReadSocketOwner \/ ReadServer \/ ReadEnd \/ ReadError
  \/ EndOfFile
  \/ SetGroups \/ SetEgid \/ SetGid \/ SetUid \/ SetUidAgain
  \/ SwitchFails \/ SetUidFails \/ Verify
  \/ expand_srv_groups
  \/ ServerOpened \/ ChownFails \/ ServerRefused \/ ServerFails \/ OpenDone
  \/ (\E s \in Servers : SessionStart(s)) \/ SessionEnd
  \/ Restart \/ Terminate

Spec == Init /\ [][Next]_vars

-----------------------------------------------------------------------------
(* Properties.                                                             *)

(* A process that begins to take another user's identity and that goes on  *)
(* has taken all of it: the real, effective and saved ids are that user's  *)
(* and none of the groups of the identity it started with is left.  No     *)
(* order of failing system calls, and no session before it in the same     *)
(* process, leaves it with a part of the old one (switch_to_privs).  Only  *)
(* a process whose real group is root's begins at all (smapd.c:162, 240).  *)
(* Root in another group goes on as root, whatever its user statement      *)
(* says, against doc/smap.texi:1382, "After startup, switch to UID and GID *)
(* of the user name"; of this process nothing is claimed here.             *)
SwitchedForGood ==
  (pc \in {"expand", "loop"} /\ was.rgid = 0 /\ Target.uid # 0) =>
     /\ {Me.ruid, Me.euid, Me.suid} = {Target.uid}
     /\ {Me.rgid, Me.egid, Me.sgid} = {Target.gids[1]}
     /\ was.euid = 0 => Me.groups = ToSet(Target.gids)

(* The statements of a scope, as the file f has them.                      *)
ScopeAt(f, i) ==
  LET marks == {j \in 1..(i - 1) : f[j].kw \in {"server", "end"}}
      last == CHOOSE j \in marks : \A k \in marks : k <= j
  IN  IF marks = {} \/ f[last].kw = "end" THEN "global" ELSE f[last].id
Statements(f, s, kw) == {i \in DOMAIN f : f[i].kw = kw /\ ScopeAt(f, i) = s}
LastOf(S) == CHOOSE i \in S : \A j \in S : j <= i
UserLines(f, s) == {i \in Statements(f, s, "user") : f[i].uid \in Users}
OwnerUid(f, s) == {i \in Statements(f, s, "socket-owner") : f[i].uid # None}
OwnerGids(f, s) ==
  {i \in Statements(f, s, "socket-owner") : OwnerGid(f[i]) # None}

(* The process that serves a scope runs as the user named last for it, and *)
(* in the groups its own statements name, whatever their order: those of   *)
(* its users, those of group, those of the socket's owner, those of the    *)
(* user's memberships if it asks for them; none comes from another scope.  *)
GroupsAsConfigured ==
  (pc \in {"expand", "loop"} /\ was = start /\ start.ruid + start.rgid = 0
     /\ Target.uid # 0) =>
     LET named == UNION {ToSet(conf[i].gids) : i \in Statements(conf, who, "group")}
         users == {PrimaryGid[conf[i].uid] : i \in UserLines(conf, who)}
         owners == {OwnerGid(conf[i]) : i \in OwnerGids(conf, who)}
         all == IF Statements(conf, who, "allgroups") = {} THEN {}
                ELSE ToSet(MemberOf[Target.uid])
     IN  /\ Me.euid = conf[LastOf(UserLines(conf, who))].uid
         /\ named \cup users \cup all \subseteq Me.groups
         /\ Me.groups \subseteq named \cup users \cup all \cup owners

(* A socket opened by root belongs to the owner that socket-owner names;   *)
(* where it names neither part, to the user of the server's sessions.  If  *)
(* chown has failed, which server_prep only reports, the server is open    *)
(* and the file stays root's.                                              *)
OwnerAsConfigured ==
  (pc \in {"serve", "loop"} /\ opener.euid = 0) =>
     /\ \A s \in opened \ (Inet \cup failed) :
          /\ files[s].uid =
                IF OwnerUid(conf, s) # {} THEN conf[LastOf(OwnerUid(conf, s))].uid
                ELSE IF UserLines(conf, s) # {} /\ OwnerGids(conf, s) = {}
                THEN conf[LastOf(UserLines(conf, s))].uid
                ELSE 0
          /\ OwnerGids(conf, s) # {} =>
               files[s].gid = OwnerGid(conf[LastOf(OwnerGids(conf, s))])
     /\ \A s \in (opened \cap failed) \ Inet :
          files[s] = [uid |-> 0, gid |-> opener.egid]

(* A restart opens the servers again that the same identity has opened     *)
(* before, unless a server keeps what exists or a system call fails: what  *)
(* smapd leaves behind is never in its own way.                            *)
RestartReopens ==
  pc = "serve" => {s \in before : Reuse(s)} \subseteq opened \cup failed
=============================================================================
