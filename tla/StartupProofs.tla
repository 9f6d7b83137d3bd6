---------------------------- MODULE StartupProofs ---------------------------
(***************************************************************************)
(* Proofs that smapd gives up its privileges for good, that processes and  *)
(* sockets get the identities their statements ask for and that a restart  *)
(* is not in its own way: for every configuration file of any length,      *)
(* every user database, every identity smapd may be started with, and      *)
(* every order in which sessions, failing system calls and restarts follow *)
(* each other.                                                             *)
(***************************************************************************)
EXTENDS Startup, TLAPS

(* What every process has between two system calls.  Its effective group   *)
(* may differ from the others: setegid has succeeded and setgid has not.   *)
Uniform(c) ==
  /\ c = [ruid |-> c.ruid, euid |-> c.euid, suid |-> c.suid, rgid |-> c.rgid,
          egid |-> c.egid, sgid |-> c.sgid, groups |-> c.groups]
  /\ c.euid = c.ruid /\ c.suid = c.ruid /\ c.sgid = c.rgid

Switching == {"setgroups", "setegid", "setgid", "setuid", "verify"}

Gid == Target.gids[1]
GroupsSet == was.euid = 0 => Me.groups = ToSet(Target.gids)
GidsSet == Me.egid = Gid /\ Me.rgid = Gid

(* How far switch_to_privs has come: what is true before each call.        *)
SwitchInv ==
  /\ DOMAIN privs = Scopes /\ DOMAIN cred = Procs /\ who \in Scopes
  /\ Uniform(start) /\ \A p \in Procs : Uniform(cred[p])
  /\ pc \in Switching => Target.uid # 0
  /\ pc \in {"setgroups", "setegid"} => Me.rgid = 0 /\ Me.euid = was.euid
  /\ pc \in Switching \ {"setgroups"} => GroupsSet
  /\ pc = "setgid" => Me.egid = Gid
  /\ pc \in {"setuid", "verify"} => GidsSet
  /\ pc = "verify" => Me.euid = Target.uid
  /\ SwitchedForGood

(* smapd is started with one user and one group.                           *)
LEMMA UniformIdentity ==
  ASSUME NEW c \in Starts PROVE Uniform(c)
<1>1. c = Identity(c.ruid, c.rgid, c.groups)
  BY StartsAssumption
<1>2. QED
  BY <1>1 DEF Identity, Uniform

(* What a failed setuid leaves is some user through and through: setuid(0) *)
(* mends what setreuid has begun.                                          *)
LEMMA UniformAfterFailure ==
  ASSUME NEW c, Uniform(c), NEW u, NEW d \in HalfSwitched(c, u)
  PROVE  /\ Uniform(TakeRoot(d))
         /\ c.euid # 0 => TakeRoot(d).euid = c.euid /\ TakeRoot(d).rgid = c.rgid
<1>1. CASE d = c
  BY <1>1 DEF TakeRoot, MaySetUid, AfterSetUid, Uniform
<1>2. CASE c.euid = 0 /\ d = [c EXCEPT !.ruid = u, !.suid = c.euid]
  BY <1>2 DEF TakeRoot, MaySetUid, AfterSetUid, Uniform
<1>3. CASE c.euid = 0 /\ d = AfterSetUid(c, u)
  <2>1. d = [c EXCEPT !.ruid = u, !.euid = u, !.suid = u]
    BY <1>3 DEF AfterSetUid
  <2>2. d = [ruid |-> u, euid |-> u, suid |-> u, rgid |-> c.rgid,
             egid |-> c.egid, sgid |-> c.sgid, groups |-> c.groups]
    BY <2>1 DEF Uniform
  <2>3. QED
    BY <1>3, <2>2 DEF TakeRoot, MaySetUid, AfterSetUid, Uniform
<1>4. QED
  BY <1>1, <1>2, <1>3 DEF HalfSwitched, MaySetUid, Uniform

(* The identity of the process a system call is made by.                   *)
LEMMA CallMade ==
  ASSUME SwitchInv, NEW call, NEW c, SystemCall(call, c), Uniform(c)
  PROVE  /\ Me' = c /\ Target' = Target /\ UNCHANGED <<privs, who, start, was>>
         /\ DOMAIN cred' = Procs /\ \A p \in Procs : Uniform(cred'[p])
         /\ pc = call
<1>1. Proc \in Procs /\ Proc' = Proc /\ UNCHANGED <<privs, who, start, was>>
  BY StartupAssumption
     DEF SwitchInv, Proc, Procs, Scopes, SystemCall, confVars, ghostVars
<1>2. cred' = [cred EXCEPT ![Proc] = c] /\ pc = call
  BY DEF SystemCall
<1>3. QED
  BY <1>1, <1>2 DEF SwitchInv, Me, Target

(* What is true before each call of switch_to_privs is so in every run.    *)
LEMMA SwitchInvCorrect == Spec => []SwitchInv
<1>1. Init => SwitchInv
  <2> SUFFICES ASSUME Init PROVE SwitchInv
    OBVIOUS
  <2>1. Uniform(start) /\ cred = [p \in Procs |-> start]
    BY UniformIdentity DEF Init
  <2>2. \A p \in Procs : Uniform(cred[p])
    BY <2>1
  <2>3. QED
    BY <2>1, <2>2 DEF Init, SwitchInv, Switching, SwitchedForGood, Scopes
<1>2. SwitchInv /\ [Next]_vars => SwitchInv'
  <2> SUFFICES ASSUME SwitchInv, [Next]_vars PROVE SwitchInv'
    OBVIOUS
  <2>a. Proc \in Procs /\ Uniform(Me)
    BY StartupAssumption DEF SwitchInv, Proc, Procs, Scopes, Me
  <2>b. ASSUME pc' \notin Switching \cup {"expand", "loop"},
               DOMAIN privs' = Scopes, UNCHANGED <<cred, who, start>>
        PROVE  SwitchInv'
    BY <2>b DEF SwitchInv, SwitchedForGood, Switching
  <2>1. ASSUME NEW kw, Reading(kw)
        PROVE  pc' = "read" /\ UNCHANGED <<cred, who, start>>
    BY <2>1 DEF Reading
  <2>2. CASE ReadUser \/ ReadGroup \/ ReadAllgroups \/ ReadSocketOwner
    <3>1. DOMAIN privs' = Scopes /\ \E kw : Reading(kw)
      BY <2>2 DEF ReadUser, ReadGroup, ReadAllgroups, ReadSocketOwner, SwitchInv
    <3>2. QED
      BY <2>1, <2>b, <3>1 DEF Switching
  <2>3. CASE ReadReuseaddr \/ ReadServer \/ ReadEnd \/ ReadError
    <3>1. privs' = privs /\ \E kw : Reading(kw)
      BY <2>3 DEF ReadReuseaddr, ReadServer, ReadEnd, ReadError
    <3>2. QED
      BY <2>1, <2>b, <3>1 DEF Switching, SwitchInv
  <2>4. CASE ReadAllgroupsCrash \/ SwitchFails \/ OpenDone \/ SessionEnd
             \/ Terminate
    BY <2>4, <2>b DEF ReadAllgroupsCrash, SwitchFails, OpenDone, SessionEnd,
       Terminate, NotSwitched, Switching, SwitchInv, confVars
  <2>5. CASE ServerOpened \/ ChownFails \/ ServerRefused \/ ServerFails
    BY <2>5, <2>b DEF ServerOpened, ChownFails, ServerRefused, ServerFails,
       Switching, SwitchInv
  <2>6. CASE expand_srv_groups
    BY <2>6, <2>b DEF expand_srv_groups, Switching
  <2>7. CASE EndOfFile
    <3>1. /\ who' = "global" /\ DOMAIN privs' = Scopes
          /\ UNCHANGED <<cred, start>>
      BY <2>7 DEF EndOfFile, SwitchInv
    <3>2. CASE pc' = "exit"
      BY <3>1, <3>2 DEF SwitchInv, SwitchedForGood, Switching, Scopes
    <3>3. CASE pc' # "exit"
      <4>1. PICK pi : /\ pc' = BeginSwitch(cred["master"], pi)
                      /\ privs' = [privs EXCEPT !["global"] = pi]
                      /\ was' = cred["master"]
        BY <2>7, <3>3 DEF EndOfFile
      <4>2. Target' = pi /\ Me' = cred["master"]
        BY <3>1, <4>1 DEF Target, Me, Proc, Scopes, SwitchInv
      <4>3. pc' = IF was'.rgid = 0 /\ Target'.uid # 0 THEN "setgroups" ELSE "expand"
        BY <3>1, <4>1, <4>2 DEF BeginSwitch, Switched
      <4>4. QED
        BY <3>1, <4>1, <4>2, <4>3
           DEF SwitchInv, SwitchedForGood, Switching, Scopes
    <3>4. QED
      BY <3>2, <3>3
  <2>8. ASSUME NEW s \in Servers, SessionStart(s) PROVE SwitchInv'
    <3>1. /\ who' = s /\ UNCHANGED <<privs, start>> /\ was' = cred["master"]
          /\ cred' = [cred EXCEPT ![s] = cred["master"]]
          /\ pc' = BeginSwitch(cred["master"], privs[s])
      BY <2>8 DEF SessionStart, confVars
    <3>2. s \in Procs /\ s \in Scopes /\ "master" \in Procs
      BY DEF Procs, Scopes
    <3>3. Me' = cred["master"] /\ Target' = privs[s]
      BY <3>1, <3>2, StartupAssumption DEF Me, Proc, Target, SwitchInv
    <3>4. DOMAIN cred' = Procs /\ \A p \in Procs : Uniform(cred'[p])
      BY <3>1, <3>2 DEF SwitchInv
    <3>5. pc' \in {"setgroups", "expand", "loop"}
          /\ (pc' = "setgroups" <=> was'.rgid = 0 /\ Target'.uid # 0)
      BY <3>1, <3>3 DEF BeginSwitch, Switched
    <3>6. QED
      BY <3>1, <3>2, <3>3, <3>4, <3>5 DEF SwitchInv, SwitchedForGood, Switching
  <2>9. CASE SetGroups
    <3>1. CASE Me.euid = 0
      <4> DEFINE c == [Me EXCEPT !.groups = ToSet(Target.gids)]
      <4>1. /\ Uniform(c) /\ c.groups = ToSet(Target.gids)
            /\ c.rgid = Me.rgid /\ c.euid = Me.euid
        BY <2>a DEF Uniform
      <4>2. SystemCall("setgroups", c) /\ pc' = "setegid"
        BY <2>9, <3>1 DEF SetGroups
      <4> HIDE DEF c
      <4>3. QED
        BY <4>1, <4>2, CallMade
           DEF SwitchInv, Switching, SwitchedForGood, GroupsSet
    <3>2. CASE Me.euid # 0
      <4>1. SystemCall("setgroups", Me) /\ pc' = "setegid"
        BY <2>9, <3>2 DEF SetGroups
      <4>2. QED
        BY <2>a, <3>2, <4>1, CallMade
           DEF SwitchInv, Switching, SwitchedForGood, GroupsSet
    <3>3. QED
      BY <3>1, <3>2
  <2>10. CASE SetEgid
    <3> DEFINE c == [Me EXCEPT !.egid = Gid]
    <3>1. /\ Uniform(c) /\ c.groups = Me.groups /\ c.egid = Gid
          /\ c.rgid = Me.rgid /\ c.euid = Me.euid
      BY <2>a DEF Uniform
    <3>2. SystemCall("setegid", c) /\ pc' = IF Gid # 0 THEN "setgid" ELSE "setuid"
      BY <2>10 DEF SetEgid, Gid
    <3> HIDE DEF c
    <3>3. /\ Me' = c /\ Target' = Target /\ Gid' = Gid
          /\ UNCHANGED <<privs, who, start, was>>
          /\ DOMAIN cred' = Procs /\ \A p \in Procs : Uniform(cred'[p])
          /\ pc = "setegid"
      BY <3>1, <3>2, CallMade DEF Gid
    <3>4. GroupsSet' /\ Target.uid # 0 /\ c.rgid = 0
      BY <3>1, <3>3 DEF SwitchInv, Switching, GroupsSet
    <3>5. CASE Gid = 0
      BY <3>1, <3>2, <3>3, <3>4, <3>5
         DEF SwitchInv, Switching, SwitchedForGood, GidsSet
    <3>6. CASE Gid # 0
      BY <3>1, <3>2, <3>3, <3>4, <3>6
         DEF SwitchInv, Switching, SwitchedForGood
    <3>7. QED
      BY <3>5, <3>6
  <2>11. CASE SetGid
    <3>1. PICK c : /\ SystemCall("setgid", c) /\ pc' = "setuid"
                   /\ Me.euid = 0 \/ Gid \in {Me.rgid, Me.sgid}
                   /\ c = IF Me.euid = 0
                          THEN [Me EXCEPT !.rgid = Gid, !.egid = Gid, !.sgid = Gid]
                          ELSE [Me EXCEPT !.egid = Gid]
      BY <2>11 DEF SetGid, Gid
    <3>2. /\ Uniform(c) /\ c.groups = Me.groups /\ c.egid = Gid
          /\ c.rgid = Gid
      BY <2>a, <3>1 DEF Uniform
    <3>3. SystemCall("setgid", c) /\ pc' = "setuid"
      BY <3>1
    <3>4. QED
      BY <3>2, <3>3, CallMade
         DEF SwitchInv, Switching, SwitchedForGood, GroupsSet, GidsSet, Gid
  <2>12. ASSUME NEW c, SystemCall("setuid", c), pc' = "verify", Uniform(c),
                c.groups = Me.groups, c.egid = Me.egid, c.rgid = Me.rgid,
                c.euid = Target.uid
         PROVE  SwitchInv'
    BY <2>12, CallMade
       DEF SwitchInv, Switching, SwitchedForGood, GroupsSet, GidsSet, Gid
  <2>13. CASE SetUid
    <3> DEFINE c == AfterSetUid(Me, Target.uid)
    <3>1. /\ Uniform(c) /\ c.groups = Me.groups /\ c.egid = Me.egid
          /\ c.rgid = Me.rgid /\ c.euid = Target.uid
      BY <2>a, <2>13 DEF SetUid, MaySetUid, AfterSetUid, Uniform
    <3>2. QED
      BY <2>13, <2>12, <3>1 DEF SetUid
  <2>14. CASE SetUidAgain
    <3> DEFINE c == AfterSetUid([Me EXCEPT !.ruid = Target.uid], Target.uid)
    <3>1. /\ Uniform(c) /\ c.groups = Me.groups /\ c.egid = Me.egid
          /\ c.rgid = Me.rgid /\ c.euid = Target.uid
      BY <2>a, <2>14 DEF SetUidAgain, AfterSetUid, Uniform
    <3>2. QED
      BY <2>14, <2>12, <3>1 DEF SetUidAgain
  <2>19. CASE SetUidFails
    <3>1. PICK d \in HalfSwitched(Me, Target.uid) : SystemCall("setuid", TakeRoot(d))
      BY <2>19 DEF SetUidFails
    <3>2. Uniform(TakeRoot(d)) /\ pc' \in {"exit", "serve"}
      BY <2>19, <2>a, UniformAfterFailure DEF SetUidFails, NotSwitched
    <3>3. QED
      BY <3>1, <3>2, CallMade DEF SwitchInv, Switching, SwitchedForGood
  <2>15. CASE Verify
    <3>1. CASE MaySetUid(Me, 0)
      <4> DEFINE c == AfterSetUid(Me, 0)
      <4>1. Uniform(c)
        BY <2>a, <3>1 DEF MaySetUid, AfterSetUid, Uniform
      <4>2. SystemCall("verify", c) /\ pc' \in {"exit", "serve"}
        BY <2>15, <3>1 DEF Verify, NotSwitched, TakeRoot
      <4> HIDE DEF c
      <4>3. QED
        BY <4>1, <4>2, CallMade DEF SwitchInv, Switching, SwitchedForGood
    <3>2. CASE ~MaySetUid(Me, 0)
      <4>1. SystemCall("verify", Me) /\ pc' \in {"expand", "loop"}
        BY <2>15, <3>2 DEF Verify, Switched, TakeRoot
      <4>2. /\ {Me.ruid, Me.euid, Me.suid} = {Target.uid}
            /\ {Me.rgid, Me.egid, Me.sgid} = {Target.gids[1]}
            /\ was.euid = 0 => Me.groups = ToSet(Target.gids)
        BY <2>a, <4>1
           DEF SystemCall, SwitchInv, Switching, Uniform, GidsSet, Gid, GroupsSet
      <4>3. QED
        BY <2>a, <4>1, <4>2, CallMade DEF SwitchInv, Switching, SwitchedForGood
    <3>3. QED
      BY <3>1, <3>2
  <2>16. CASE Restart
    <3>1. /\ pc' = "read" /\ who' = "global" /\ DOMAIN privs' = Scopes
          /\ start' = start
          /\ \E c \in {start, cred["master"]} : cred' = [p \in Procs |-> c]
      BY <2>16 DEF Restart
    <3>2. DOMAIN cred' = Procs /\ \A p \in Procs : Uniform(cred'[p])
      BY <3>1 DEF SwitchInv, Procs
    <3>3. QED
      BY <3>1, <3>2 DEF SwitchInv, Switching, SwitchedForGood, Scopes
  <2>17. CASE UNCHANGED vars
    <3>1. /\ UNCHANGED <<pc, privs, cred, who, start, was>>
          /\ Me' = Me /\ Target' = Target
      BY <2>17 DEF vars, confVars, ghostVars, Me, Target, Proc
    <3>2. QED
      BY <3>1 DEF SwitchInv, SwitchedForGood, GroupsSet, GidsSet, Gid
  <2>18. QED
    BY <2>2, <2>3, <2>4, <2>5, <2>6, <2>7, <2>8, <2>9, <2>10, <2>11, <2>13,
       <2>14, <2>15, <2>16, <2>17, <2>19 DEF Next
<1>3. QED
  BY <1>1, <1>2, PTL DEF Spec

(* A process that begins to take another user's identity takes all of it,  *)
(* or does not go on (switch_to_privs).                                    *)
THEOREM SwitchedForGoodCorrect == Spec => []SwitchedForGood
<1>1. SwitchInv => SwitchedForGood
  BY DEF SwitchInv
<1>2. QED
  BY <1>1, SwitchInvCorrect, PTL

-----------------------------------------------------------------------------
(* The statements that come before line n, and what they amount to.        *)
Upto(S, n) == {i \in S : i < n}

UidOf(f, S) == IF S = {} THEN 0 ELSE f[LastOf(S)].uid
OwnerOf(f, S) == IF S = {} THEN None ELSE f[LastOf(S)].uid
OwnerGidOf(f, S) == IF S = {} THEN None ELSE OwnerGid(f[LastOf(S)])

(* Groups the statements among S name.                                     *)
GroupsOf(f, S) == UNION {ToSet(f[i].gids) : i \in S}
UserGroupsOf(f, S) == {PrimaryGid[f[i].uid] : i \in S}
OwnerGroupsOf(f, S) == {OwnerGid(f[i]) : i \in S}

Own(f, s, n) == GroupsOf(f, Upto(Statements(f, s, "group"), n))
                  \cup UserGroupsOf(f, Upto(UserLines(f, s), n))
ByOwner(f, s, n) == OwnerGroupsOf(f, Upto(OwnerGids(f, s), n))

(* LastOf is a CHOOSE; it is kept with each set that it is in the set.     *)
HasLast(S) == S # {} => LastOf(S) \in S

(* pi is what the statements of scope s before line n make of it.          *)
PrivsRead(f, s, pi, n) ==
  /\ pi = [uid |-> pi.uid, gids |-> pi.gids, allgroups |-> pi.allgroups]
  /\ pi.gids \in Seq(Nat)
  /\ pi.uid = UidOf(f, Upto(UserLines(f, s), n))
  /\ HasLast(Upto(UserLines(f, s), n))
  /\ Own(f, s, n) \subseteq ToSet(pi.gids)
  /\ ToSet(pi.gids) \subseteq Own(f, s, n) \cup ByOwner(f, s, n)

(* So is the owner sv of the socket.                                       *)
OwnerRead(f, s, sv, n) ==
  /\ sv = [uid |-> sv.uid, gid |-> sv.gid, keep |-> sv.keep]
  /\ sv.uid = OwnerOf(f, Upto(OwnerUid(f, s), n))
  /\ sv.gid = OwnerGidOf(f, Upto(OwnerGids(f, s), n))
  /\ HasLast(Upto(OwnerUid(f, s), n)) /\ HasLast(Upto(OwnerGids(f, s), n))

-----------------------------------------------------------------------------
(* The parts of a struct privinfo after its groups have been added to.     *)
LEMMA GidsAdded ==
  ASSUME NEW pi, NEW gs,
         pi = [uid |-> pi.uid, gids |-> pi.gids, allgroups |-> pi.allgroups]
  PROVE  [pi EXCEPT !.gids = gs]
           = [uid |-> pi.uid, gids |-> gs, allgroups |-> pi.allgroups]
OBVIOUS

(* Sequences of groups.                                                    *)
LEMMA ToSetAppend ==
  ASSUME NEW q \in Seq(Nat), NEW x \in Nat
  PROVE  Append(q, x) \in Seq(Nat) /\ ToSet(Append(q, x)) = ToSet(q) \cup {x}
<1>1. Append(q, x) \in Seq(Nat) /\ DOMAIN Append(q, x) = 1..(Len(q) + 1)
      /\ DOMAIN q = 1..Len(q) /\ Len(q) \in Nat
  OBVIOUS
<1>2. /\ \A i \in 1..Len(q) : Append(q, x)[i] = q[i]
      /\ Append(q, x)[Len(q) + 1] = x
  OBVIOUS
<1>3. QED
  BY <1>1, <1>2 DEF ToSet

(* The groups of one list followed by another.                             *)
LEMMA ToSetConcat ==
  ASSUME NEW q \in Seq(Nat), NEW r \in Seq(Nat)
  PROVE  q \o r \in Seq(Nat) /\ ToSet(q \o r) = ToSet(q) \cup ToSet(r)
<1>1. /\ q \o r \in Seq(Nat) /\ DOMAIN (q \o r) = 1..(Len(q) + Len(r))
      /\ DOMAIN q = 1..Len(q) /\ Len(q) \in Nat
      /\ DOMAIN r = 1..Len(r) /\ Len(r) \in Nat
  OBVIOUS
<1>2. /\ \A i \in 1..Len(q) : (q \o r)[i] = q[i]
      /\ \A i \in 1..Len(r) : (q \o r)[Len(q) + i] = r[i]
      /\ \A i \in 1..(Len(q) + Len(r)) :
           i \in 1..Len(q) \/ (i - Len(q) \in 1..Len(r) /\ i = Len(q) + (i - Len(q)))
  OBVIOUS
<1>3. ASSUME NEW x \in ToSet(r) PROVE x \in ToSet(q \o r)
  <2>1. PICK i \in 1..Len(r) : r[i] = x
    BY <1>1 DEF ToSet
  <2>2. Len(q) + i \in 1..(Len(q) + Len(r)) /\ (q \o r)[Len(q) + i] = x
    BY <1>1, <1>2, <2>1
  <2>3. QED
    BY <1>1, <2>2 DEF ToSet
<1>4. ASSUME NEW x \in ToSet(q) PROVE x \in ToSet(q \o r)
  BY <1>1, <1>2 DEF ToSet
<1>5. ASSUME NEW x \in ToSet(q \o r) PROVE x \in ToSet(q) \cup ToSet(r)
  <2>1. PICK i \in 1..(Len(q) + Len(r)) : (q \o r)[i] = x
    BY <1>1 DEF ToSet
  <2>2. CASE i \in 1..Len(q)
    BY <1>1, <1>2, <2>1, <2>2 DEF ToSet
  <2>3. CASE i - Len(q) \in 1..Len(r)
    BY <1>1, <1>2, <2>1, <2>3 DEF ToSet
  <2>4. QED
    BY <1>2, <2>2, <2>3
<1>6. QED
  BY <1>1, <1>3, <1>4, <1>5

-----------------------------------------------------------------------------
(* Sets of lines.                                                          *)
LEMMA UptoNext ==
  ASSUME NEW S \in SUBSET Nat, NEW n \in Nat
  PROVE  /\ n \in S => Upto(S, n + 1) = Upto(S, n) \cup {n}
         /\ n \notin S => Upto(S, n + 1) = Upto(S, n)
<1>1. \A i \in S : i < n + 1 <=> i < n \/ i = n
  OBVIOUS
<1>2. QED
  BY <1>1 DEF Upto

(* The line just read is the last one so far.                              *)
LEMMA LastIsNew ==
  ASSUME NEW S \in SUBSET Nat, NEW n \in Nat
  PROVE  LastOf(Upto(S, n) \cup {n}) = n
<1>1. /\ n \in Upto(S, n) \cup {n}
      /\ \A j \in Upto(S, n) \cup {n} : j <= n
      /\ \A i \in Upto(S, n) \cup {n} : n <= i => i = n
  BY DEF Upto
<1>2. QED
  BY <1>1 DEF LastOf

(* Reading a line that does not belong to S, or does.                      *)
LEMMA LineRead ==
  ASSUME NEW S \in SUBSET Nat, NEW n \in Nat
  PROVE  /\ n \notin S => Upto(S, n + 1) = Upto(S, n)
         /\ n \in S => /\ Upto(S, n + 1) = Upto(S, n) \cup {n}
                       /\ LastOf(Upto(S, n + 1)) = n
                       /\ Upto(S, n + 1) # {} /\ HasLast(Upto(S, n + 1))
<1>1. LastOf(Upto(S, n) \cup {n}) = n
  BY LastIsNew
<1>2. n \in S => Upto(S, n + 1) = Upto(S, n) \cup {n}
  BY UptoNext
<1>3. QED
  BY <1>1, <1>2, UptoNext DEF HasLast

(* Statements are known by their lines.                                    *)
LEMMA LinesAreNumbers ==
  ASSUME NEW f \in Configs, NEW s
  PROVE  /\ DOMAIN f = 1..Len(f) /\ Len(f) \in Nat
         /\ \A kw : Statements(f, s, kw) \in SUBSET Nat
         /\ UserLines(f, s) \in SUBSET Nat /\ OwnerUid(f, s) \in SUBSET Nat
         /\ OwnerGids(f, s) \in SUBSET Nat
<1>1. f \in Seq(Statement)
  BY ConfigsAssumption
<1>2. DOMAIN f = 1..Len(f) /\ Len(f) \in Nat
  BY <1>1
<1>3. \A kw : Statements(f, s, kw) \subseteq DOMAIN f
  BY DEF Statements
<1>4. QED
  BY <1>2, <1>3 DEF UserLines, OwnerUid, OwnerGids

(* Which statements a line is of.                                          *)
LEMMA LineIsOf ==
  ASSUME NEW f \in Configs, NEW s, NEW n \in DOMAIN f
  PROVE  /\ \A kw : n \in Statements(f, s, kw) <=> f[n].kw = kw /\ ScopeAt(f, n) = s
         /\ n \in UserLines(f, s) <=> f[n].kw = "user" /\ ScopeAt(f, n) = s
                                      /\ f[n].uid \in Users
         /\ n \in OwnerUid(f, s) <=> f[n].kw = "socket-owner" /\ ScopeAt(f, n) = s
                                     /\ f[n].uid # None
         /\ n \in OwnerGids(f, s) <=> f[n].kw = "socket-owner" /\ ScopeAt(f, n) = s
                                      /\ OwnerGid(f[n]) # None
BY DEF Statements, UserLines, OwnerUid, OwnerGids

(* What a statement has.                                                   *)
LEMMA StatementParts ==
  ASSUME NEW f \in Configs, NEW n \in DOMAIN f
  PROVE  /\ f[n].kw = "group" => f[n].gids \in Seq(Nat)
         /\ f[n].kw = "socket-owner" =>
              /\ f[n].uid \in Nat \cup {None}
              /\ OwnerGid(f[n]) \in Nat \cup {None}
         /\ f[n].kw = "server" => f[n].id \in Servers
<1>1. f[n] \in Statement
  BY ConfigsAssumption
<1>2. QED
  BY <1>1, StartupAssumption DEF Statement, OwnerGid

(* The scope of the next line.                                             *)
LEMMA ScopeNext ==
  ASSUME NEW f \in Configs, NEW n \in DOMAIN f
  PROVE  /\ f[n].kw = "server" => ScopeAt(f, n + 1) = f[n].id
         /\ f[n].kw = "end" => ScopeAt(f, n + 1) = "global"
         /\ f[n].kw \notin {"server", "end"} => ScopeAt(f, n + 1) = ScopeAt(f, n)
<1> DEFINE marks(i) == {j \in 1..(i - 1) : f[j].kw \in {"server", "end"}}
           last(i) == CHOOSE j \in marks(i) : \A k \in marks(i) : k <= j
<1>1. n \in Nat /\ n >= 1 /\ 1..((n + 1) - 1) = 1..(n - 1) \cup {n}
  BY LinesAreNumbers
<1>2. ASSUME f[n].kw \in {"server", "end"} PROVE last(n + 1) = n /\ marks(n + 1) # {}
  <2>1. n \in marks(n + 1) /\ \A k \in marks(n + 1) : k \in Nat /\ k <= n
    BY <1>1, <1>2
  <2>2. \A j \in marks(n + 1) : (\A k \in marks(n + 1) : k <= j) => j = n
    BY <1>1, <2>1
  <2> HIDE DEF marks
  <2>3. QED
    BY <2>1, <2>2
<1>3. ASSUME f[n].kw \notin {"server", "end"} PROVE marks(n + 1) = marks(n)
  BY <1>1, <1>3
<1>4. \A i : ScopeAt(f, i) = IF marks(i) = {} \/ f[last(i)].kw = "end"
                             THEN "global" ELSE f[last(i)].id
  BY DEF ScopeAt
<1> HIDE DEF marks
<1>5. f[n].kw = "server" => ScopeAt(f, n + 1) = f[n].id
  <2> HIDE DEF last
  <2>1. QED
    BY <1>2, <1>4
<1>6. f[n].kw = "end" => ScopeAt(f, n + 1) = "global"
  <2> HIDE DEF last
  <2>1. QED
    BY <1>2, <1>4
<1>7. ASSUME f[n].kw \notin {"server", "end"}
      PROVE  ScopeAt(f, n + 1) = ScopeAt(f, n)
  <2>1. marks(n + 1) = marks(n)
    BY <1>3, <1>7
  <2>2. last(n + 1) = last(n)
    BY <2>1
  <2> HIDE DEF last
  <2>3. QED
    BY <1>4, <2>1, <2>2
<1>8. QED
  BY <1>5, <1>6, <1>7

(* A file begins outside of any block.                                     *)
LEMMA ScopeFirst == ASSUME NEW f PROVE ScopeAt(f, 1) = "global"
BY DEF ScopeAt

-----------------------------------------------------------------------------
(* What one statement changes.  Another scope's, or one of another kind,   *)
(* changes nothing.                                                        *)
LEMMA Untouched ==
  ASSUME NEW f \in Configs, NEW s, NEW n \in DOMAIN f, NEW pi, NEW sv,
         ScopeAt(f, n) # s \/ f[n].kw \notin {"user", "group", "socket-owner"}
  PROVE  /\ PrivsRead(f, s, pi, n) => PrivsRead(f, s, pi, n + 1)
         /\ OwnerRead(f, s, sv, n) => OwnerRead(f, s, sv, n + 1)
<1>1. n \in Nat
  BY LinesAreNumbers
<1>2. /\ n \notin Statements(f, s, "group") /\ n \notin UserLines(f, s)
      /\ n \notin OwnerUid(f, s) /\ n \notin OwnerGids(f, s)
  BY LineIsOf
<1>3. /\ Upto(Statements(f, s, "group"), n + 1) = Upto(Statements(f, s, "group"), n)
      /\ Upto(UserLines(f, s), n + 1) = Upto(UserLines(f, s), n)
      /\ Upto(OwnerUid(f, s), n + 1) = Upto(OwnerUid(f, s), n)
      /\ Upto(OwnerGids(f, s), n + 1) = Upto(OwnerGids(f, s), n)
  BY <1>1, <1>2, LineRead, LinesAreNumbers
<1>4. QED
  BY <1>3 DEF PrivsRead, OwnerRead, Own, ByOwner

(* cfg_user, cfg_srv_user: privinfo_set_user.                              *)
LEMMA UserStatement ==
  ASSUME NEW f \in Configs, NEW s, NEW n \in DOMAIN f, NEW pi, NEW sv,
         ScopeAt(f, n) = s, f[n].kw = "user"
  PROVE  /\ PrivsRead(f, s, pi, n) =>
              PrivsRead(f, s, privinfo_set_user(pi, f[n].uid), n + 1)
         /\ OwnerRead(f, s, sv, n) => OwnerRead(f, s, sv, n + 1)
<1>1. n \in Nat
  BY LinesAreNumbers
<1>2. /\ n \notin Statements(f, s, "group")
      /\ n \notin OwnerUid(f, s) /\ n \notin OwnerGids(f, s)
      /\ n \in UserLines(f, s) <=> f[n].uid \in Users
  BY LineIsOf
<1>3. /\ Upto(Statements(f, s, "group"), n + 1) = Upto(Statements(f, s, "group"), n)
      /\ Upto(OwnerUid(f, s), n + 1) = Upto(OwnerUid(f, s), n)
      /\ Upto(OwnerGids(f, s), n + 1) = Upto(OwnerGids(f, s), n)
  BY <1>1, <1>2, LineRead, LinesAreNumbers
<1>4. OwnerRead(f, s, sv, n) => OwnerRead(f, s, sv, n + 1)
  BY <1>3 DEF OwnerRead
<1>5. CASE f[n].uid \notin Users
  <2>1. Upto(UserLines(f, s), n + 1) = Upto(UserLines(f, s), n)
    BY <1>1, <1>2, <1>5, LineRead, LinesAreNumbers
  <2>2. privinfo_set_user(pi, f[n].uid) = pi
    BY <1>5 DEF privinfo_set_user
  <2>3. QED
    BY <1>3, <1>4, <2>1, <2>2 DEF PrivsRead, Own, ByOwner
<1>6. CASE f[n].uid \in Users
  <2> SUFFICES ASSUME PrivsRead(f, s, pi, n)
               PROVE  PrivsRead(f, s, privinfo_set_user(pi, f[n].uid), n + 1)
    BY <1>4
  <2> DEFINE U == Upto(UserLines(f, s), n)
             V == Upto(UserLines(f, s), n + 1)
             g == PrimaryGid[f[n].uid]
  <2>1. V = U \cup {n} /\ LastOf(V) = n /\ V # {} /\ HasLast(V)
    BY <1>1, <1>2, <1>6, LineRead, LinesAreNumbers
  <2>2. g \in Nat
    BY <1>6, StartupAssumption
  <2>3. privinfo_set_user(pi, f[n].uid)
          = [uid |-> f[n].uid, gids |-> Append(pi.gids, g), allgroups |-> pi.allgroups]
    BY <1>6 DEF privinfo_set_user, AddGid, PrivsRead
  <2>4. Append(pi.gids, g) \in Seq(Nat) /\ ToSet(Append(pi.gids, g)) = ToSet(pi.gids) \cup {g}
    BY <2>2, ToSetAppend DEF PrivsRead
  <2>5. UserGroupsOf(f, V) = UserGroupsOf(f, U) \cup {g}
    BY <2>1 DEF UserGroupsOf
  <2>6. Own(f, s, n + 1) = Own(f, s, n) \cup {g} /\ ByOwner(f, s, n + 1) = ByOwner(f, s, n)
    BY <1>3, <2>5 DEF Own, ByOwner
  <2>7. UidOf(f, V) = f[n].uid
    BY <2>1 DEF UidOf
  <2> HIDE DEF U, V, g
  <2>8. QED
    BY <2>1, <2>3, <2>4, <2>6, <2>7 DEF PrivsRead, V
<1>7. QED
  BY <1>5, <1>6

(* cfg_group, cfg_srv_group.                                               *)
LEMMA GroupStatement ==
  ASSUME NEW f \in Configs, NEW s, NEW n \in DOMAIN f, NEW pi, NEW sv,
         ScopeAt(f, n) = s, f[n].kw = "group"
  PROVE  /\ PrivsRead(f, s, pi, n) =>
              PrivsRead(f, s, AddGroups(pi, f[n].gids), n + 1)
         /\ OwnerRead(f, s, sv, n) => OwnerRead(f, s, sv, n + 1)
<1>1. n \in Nat /\ f[n].gids \in Seq(Nat)
  BY LinesAreNumbers, StatementParts
<1>2. /\ n \in Statements(f, s, "group") /\ n \notin UserLines(f, s)
      /\ n \notin OwnerUid(f, s) /\ n \notin OwnerGids(f, s)
  BY LineIsOf
<1> DEFINE G == Upto(Statements(f, s, "group"), n)
           H == Upto(Statements(f, s, "group"), n + 1)
<1>3. /\ H = G \cup {n}
      /\ Upto(UserLines(f, s), n + 1) = Upto(UserLines(f, s), n)
      /\ Upto(OwnerUid(f, s), n + 1) = Upto(OwnerUid(f, s), n)
      /\ Upto(OwnerGids(f, s), n + 1) = Upto(OwnerGids(f, s), n)
  BY <1>1, <1>2, LineRead, LinesAreNumbers
<1>4. GroupsOf(f, H) = GroupsOf(f, G) \cup ToSet(f[n].gids)
  BY <1>3 DEF GroupsOf
<1>5. /\ Own(f, s, n + 1) = Own(f, s, n) \cup ToSet(f[n].gids)
      /\ ByOwner(f, s, n + 1) = ByOwner(f, s, n)
  BY <1>3, <1>4 DEF Own, ByOwner
<1> HIDE DEF G, H
<1>6. OwnerRead(f, s, sv, n) => OwnerRead(f, s, sv, n + 1)
  BY <1>3 DEF OwnerRead
<1>7. ASSUME PrivsRead(f, s, pi, n)
      PROVE  PrivsRead(f, s, AddGroups(pi, f[n].gids), n + 1)
  <2>1. AddGroups(pi, f[n].gids)
          = [uid |-> pi.uid, gids |-> pi.gids \o f[n].gids, allgroups |-> pi.allgroups]
    BY <1>7, GidsAdded DEF AddGroups, PrivsRead
  <2>2. /\ pi.gids \o f[n].gids \in Seq(Nat)
        /\ ToSet(pi.gids \o f[n].gids) = ToSet(pi.gids) \cup ToSet(f[n].gids)
    BY <1>1, <1>7, ToSetConcat DEF PrivsRead
  <2>3. QED
    BY <1>3, <1>5, <1>7, <2>1, <2>2 DEF PrivsRead
<1>8. QED
  BY <1>6, <1>7

(* cfg_srv_chown.                                                          *)
LEMMA OwnerStatement ==
  ASSUME NEW f \in Configs, NEW s, NEW n \in DOMAIN f, NEW pi, NEW sv,
         ScopeAt(f, n) = s, f[n].kw = "socket-owner",
         PrivsRead(f, s, pi, n), OwnerRead(f, s, sv, n)
  PROVE  LET u == f[n].uid
             g == OwnerGid(f[n])
         IN  /\ PrivsRead(f, s, IF u # None /\ g # None THEN AddGid(pi, g) ELSE pi, n + 1)
             /\ OwnerRead(f, s, [uid |-> IF u # None THEN u ELSE sv.uid,
                                 gid |-> IF g # None THEN g ELSE sv.gid,
                                 keep |-> sv.keep], n + 1)
<1> DEFINE u == f[n].uid
           g == OwnerGid(f[n])
           O == Upto(OwnerUid(f, s), n + 1)
           G == Upto(OwnerGids(f, s), n + 1)
<1>1. n \in Nat /\ u \in Nat \cup {None} /\ g \in Nat \cup {None}
  BY LinesAreNumbers, StatementParts
<1>2. /\ n \notin Statements(f, s, "group") /\ n \notin UserLines(f, s)
      /\ n \in OwnerUid(f, s) <=> u # None
      /\ n \in OwnerGids(f, s) <=> g # None
  BY LineIsOf
<1>3. /\ Upto(Statements(f, s, "group"), n + 1) = Upto(Statements(f, s, "group"), n)
      /\ Upto(UserLines(f, s), n + 1) = Upto(UserLines(f, s), n)
  BY <1>1, <1>2, LineRead, LinesAreNumbers
<1>4. /\ u = None => O = Upto(OwnerUid(f, s), n)
      /\ u # None => LastOf(O) = n /\ O # {} /\ HasLast(O)
  BY <1>1, <1>2, LineRead, LinesAreNumbers
<1>5. /\ g = None => G = Upto(OwnerGids(f, s), n)
      /\ g # None => /\ LastOf(G) = n /\ G # {} /\ HasLast(G)
                     /\ G = Upto(OwnerGids(f, s), n) \cup {n}
  BY <1>1, <1>2, LineRead, LinesAreNumbers
<1>6. Own(f, s, n + 1) = Own(f, s, n)
  BY <1>3 DEF Own
<1>7. ByOwner(f, s, n + 1) = IF g = None THEN ByOwner(f, s, n) ELSE ByOwner(f, s, n) \cup {g}
  BY <1>5 DEF ByOwner, OwnerGroupsOf
<1>8. PrivsRead(f, s, IF u # None /\ g # None THEN AddGid(pi, g) ELSE pi, n + 1)
  <2>1. CASE u # None /\ g # None
    <3>1. AddGid(pi, g) = [uid |-> pi.uid, gids |-> Append(pi.gids, g), allgroups |-> pi.allgroups]
      BY GidsAdded DEF AddGid, PrivsRead
    <3>2. /\ Append(pi.gids, g) \in Seq(Nat)
          /\ ToSet(Append(pi.gids, g)) = ToSet(pi.gids) \cup {g}
      BY <1>1, <2>1, ToSetAppend DEF PrivsRead
    <3> HIDE DEF u, g
    <3>3. PrivsRead(f, s, AddGid(pi, g), n + 1)
      BY <1>3, <1>6, <1>7, <2>1, <3>1, <3>2 DEF PrivsRead
    <3>4. QED
      BY <2>1, <3>3
  <2>2. CASE ~(u # None /\ g # None)
    <3> HIDE DEF u, g
    <3>1. PrivsRead(f, s, pi, n + 1)
      BY <1>3, <1>6, <1>7 DEF PrivsRead
    <3>2. QED
      BY <2>2, <3>1
  <2>3. QED
    BY <2>1, <2>2
<1>9. OwnerRead(f, s, [uid |-> IF u # None THEN u ELSE sv.uid,
                       gid |-> IF g # None THEN g ELSE sv.gid,
                       keep |-> sv.keep], n + 1)
  <2>1. /\ (IF u # None THEN u ELSE sv.uid) = OwnerOf(f, O) /\ HasLast(O)
    BY <1>4 DEF OwnerRead, OwnerOf
  <2>2. /\ (IF g # None THEN g ELSE sv.gid) = OwnerGidOf(f, G) /\ HasLast(G)
    BY <1>5 DEF OwnerRead, OwnerGidOf
  <2> HIDE DEF u, g
  <2>3. QED
    BY <2>1, <2>2 DEF OwnerRead
<1>10. QED
  BY <1>8, <1>9

-----------------------------------------------------------------------------
(* The configuration in memory.                                            *)

End == Len(conf) + 1

(* Only the global scope asks for all groups: in a block smapd crashes.    *)
AllLines(s, n) == Upto(Statements(conf, s, "allgroups"), n)
AllRead(s, n) == /\ privs[s].allgroups <=> AllLines(s, n) # {}
                 /\ s # "global" => AllLines(s, n) = {}

(* The servers of the list are those declared before line n, once each.    *)
Declared(f, n) == {i \in DOMAIN f : i < n /\ f[i].kw = "server"}
ListRead(f, l, n) ==
  /\ \A j \in DOMAIN l : \E i \in Declared(f, n) : f[i].id = l[j]
  /\ \A i \in Declared(f, n) : \E j \in DOMAIN l : f[i].id = l[j]
  /\ \A j, k \in DOMAIN l : l[j] = l[k] => j = k

(* While the file is read without error, what has been read has been       *)
(* stored with the scope it was written in.                                *)
ReadInv ==
  pc = "read" /\ ~errors =>
    /\ block = ScopeAt(conf, at)
    /\ \A s \in Scopes : PrivsRead(conf, s, privs[s], at) /\ AllRead(s, at)
    /\ \A s \in Servers : OwnerRead(conf, s, srv[s], at)
    /\ ListRead(conf, list, at)

(* From then on it is complete for the servers ...                         *)
ServersInv ==
  pc \notin {"read", "exit", "crashed"} =>
    /\ ~errors
    /\ \A s \in Servers : /\ PrivsRead(conf, s, privs[s], End)
                          /\ AllLines(s, End) = {}

(* ... and, until the owners of the sockets are completed, for the master, *)
(* whose groups have been looked up if it is going to switch.              *)
Memberships == IF AllLines("global", End) = {} THEN {}
               ELSE ToSet(MemberOf[privs["global"].uid])

MasterInv ==
  pc \in Switching \cup {"expand"} /\ who = "global" =>
    /\ \A s \in Servers : OwnerRead(conf, s, srv[s], End) /\ ~privs[s].allgroups
    /\ ListRead(conf, list, End)
    /\ LET pi == privs["global"]
       IN  /\ pi.uid = UidOf(conf, Upto(UserLines(conf, "global"), End))
           /\ HasLast(Upto(UserLines(conf, "global"), End))
           /\ was.rgid = 0 /\ pi.uid # 0 =>
                /\ Own(conf, "global", End) \cup Memberships \subseteq ToSet(pi.gids)
                /\ ToSet(pi.gids) \subseteq Own(conf, "global", End) \cup Memberships
                                             \cup ByOwner(conf, "global", End)

ParseInv ==
  /\ conf \in Configs /\ at \in Nat \ {0} /\ block \in Scopes
  /\ list \in Seq(Servers)
  /\ DOMAIN privs = Scopes /\ DOMAIN srv = Servers /\ who \in Scopes
  /\ pc = "read" => at <= End
  /\ pc = "expand" => who = "global"
  /\ pc = "loop" => who # "global"
  /\ ReadInv /\ ServersInv /\ MasterInv

(* Before the first line.                                                  *)
LEMMA NothingRead ==
  ASSUME NEW f \in Configs, NEW s
  PROVE  /\ \A kw : Upto(Statements(f, s, kw), 1) = {}
         /\ PrivsRead(f, s, NoPrivs, 1) /\ OwnerRead(f, s, NewServer, 1)
         /\ ListRead(f, <<>>, 1)
<1>1. ASSUME NEW S \in SUBSET (Nat \ {0}) PROVE Upto(S, 1) = {}
  <2>1. \A i \in S : ~(i < 1)
    OBVIOUS
  <2>2. QED
    BY <2>1 DEF Upto
<1>2. Len(f) \in Nat /\ DOMAIN f = 1..Len(f)
  BY LinesAreNumbers
<1>3. \A kw : Statements(f, s, kw) \in SUBSET (Nat \ {0})
  BY <1>2 DEF Statements
<1>4. /\ UserLines(f, s) \in SUBSET (Nat \ {0})
      /\ OwnerUid(f, s) \in SUBSET (Nat \ {0})
      /\ OwnerGids(f, s) \in SUBSET (Nat \ {0})
  BY <1>3 DEF UserLines, OwnerUid, OwnerGids
<1>5. /\ \A kw : Upto(Statements(f, s, kw), 1) = {}
      /\ Upto(UserLines(f, s), 1) = {}
      /\ Upto(OwnerUid(f, s), 1) = {} /\ Upto(OwnerGids(f, s), 1) = {}
  BY <1>1, <1>3, <1>4
<1>6. PrivsRead(f, s, NoPrivs, 1)
  <2>1. Own(f, s, 1) = {}
    BY <1>5 DEF Own, GroupsOf, UserGroupsOf
  <2>2. ToSet(<<>>) = {} /\ <<>> \in Seq(Nat)
    BY DEF ToSet
  <2>3. NoPrivs = [uid |-> 0, gids |-> <<>>, allgroups |-> FALSE]
    BY DEF NoPrivs
  <2>4. NoPrivs.uid = 0 /\ NoPrivs.gids = <<>> /\ NoPrivs.allgroups = FALSE
    BY <2>3
  <2>5. UidOf(f, {}) = 0 /\ HasLast({})
    BY DEF UidOf, HasLast
  <2>6. QED
    BY <1>5, <2>1, <2>2, <2>3, <2>4, <2>5 DEF PrivsRead
<1>7. OwnerRead(f, s, NewServer, 1)
  BY <1>5 DEF OwnerRead, OwnerOf, OwnerGidOf, HasLast, NewServer
<1>8. ListRead(f, <<>>, 1)
  <2>1. DOMAIN <<>> = {}
    OBVIOUS
  <2>2. Declared(f, 1) = {}
    BY <1>2 DEF Declared
  <2>3. QED
    BY <2>1, <2>2 DEF ListRead
<1>9. QED
  BY <1>5, <1>6, <1>7, <1>8

(* cfg_server, and the other statements.                                   *)
LEMMA ServerStatement ==
  ASSUME NEW f \in Configs, NEW n \in DOMAIN f, NEW l \in Seq(Servers),
         ListRead(f, l, n)
  PROVE  /\ f[n].kw # "server" => ListRead(f, l, n + 1)
         /\ f[n].kw = "server" => /\ Append(l, f[n].id) \in Seq(Servers)
                                  /\ ListRead(f, Append(l, f[n].id), n + 1)
<1>1. n \in Nat /\ \A i \in DOMAIN f : i \in Nat /\ (i < n + 1 <=> i < n \/ i = n)
  BY LinesAreNumbers
<1>2. CASE f[n].kw # "server"
  <2>1. Declared(f, n + 1) = Declared(f, n)
    BY <1>1, <1>2 DEF Declared
  <2>2. QED
    BY <1>2, <2>1 DEF ListRead
<1>3. CASE f[n].kw = "server"
  <2> DEFINE m == Append(l, f[n].id)
  <2>1. Declared(f, n + 1) = Declared(f, n) \cup {n} /\ n \notin Declared(f, n)
    BY <1>1, <1>3 DEF Declared
  <2>2. f[n].id \in Servers
    BY <1>3, StatementParts
  <2>3. /\ m \in Seq(Servers) /\ Len(l) \in Nat /\ DOMAIN l = 1..Len(l)
        /\ DOMAIN m = 1..(Len(l) + 1) /\ m[Len(l) + 1] = f[n].id
        /\ \A j \in DOMAIN l : m[j] = l[j] /\ j \in DOMAIN m
        /\ \A j \in DOMAIN m : j \in DOMAIN l \/ j = Len(l) + 1
    BY <2>2
  <2>4. \A i \in Declared(f, n) : f[i].id # f[n].id
    BY <1>3, <2>1, ConfigsAssumption DEF Declared
  <2>5. \A j \in DOMAIN l : l[j] # f[n].id
    BY <2>4 DEF ListRead
  <2> HIDE DEF m
  <2>6. \A j \in DOMAIN m : \E i \in Declared(f, n + 1) : f[i].id = m[j]
    BY <2>1, <2>3 DEF ListRead
  <2>7. \A i \in Declared(f, n + 1) : \E j \in DOMAIN m : f[i].id = m[j]
    BY <2>1, <2>3 DEF ListRead
  <2>8. \A j, k \in DOMAIN m : m[j] = m[k] => j = k
    BY <2>3, <2>5 DEF ListRead
  <2>9. QED
    BY <1>3, <2>3, <2>6, <2>7, <2>8 DEF ListRead, m
<1>4. QED
  BY <1>2, <1>3

(* A line has been read.                                                   *)
LEMMA LineStored ==
  ASSUME ParseInv, NEW kw, Reading(kw), block' \in Scopes,
         list' \in Seq(Servers), DOMAIN privs' = Scopes, DOMAIN srv' = Servers,
         ~errors' =>
           /\ block' = ScopeAt(conf, at + 1)
           /\ \A s \in Scopes : /\ PrivsRead(conf, s, privs'[s], at + 1)
                                /\ privs'[s].allgroups <=> AllLines(s, at + 1) # {}
                                /\ s # "global" => AllLines(s, at + 1) = {}
           /\ \A s \in Servers : OwnerRead(conf, s, srv'[s], at + 1)
           /\ ListRead(conf, list', at + 1)
  PROVE  ParseInv'
<1>1. /\ pc = "read" /\ pc' = "read" /\ at' = at + 1 /\ at <= Len(conf)
      /\ UNCHANGED <<conf, who>>
  BY DEF Reading
<1>2. Len(conf) \in Nat
  BY LinesAreNumbers DEF ParseInv
<1>3. ReadInv'
  BY <1>1 DEF ReadInv, AllRead, AllLines
<1>4. QED
  BY <1>1, <1>2, <1>3 DEF ParseInv, ServersInv, MasterInv, End, Switching

(* Reading keeps statements and memory in agreement.                       *)
LEMMA ReadingKept ==
  ASSUME ParseInv,
         ReadUser \/ ReadGroup \/ ReadAllgroups \/ ReadReuseaddr
           \/ ReadSocketOwner \/ ReadServer \/ ReadEnd \/ ReadError
  PROVE  ParseInv'
<1>1. PICK kw : Reading(kw)
  BY DEF ReadUser, ReadGroup, ReadAllgroups, ReadReuseaddr, ReadSocketOwner,
     ReadServer, ReadEnd, ReadError
<1>2. /\ pc = "read" /\ at <= Len(conf) /\ at \in Nat /\ conf \in Configs
      /\ Line.kw = kw /\ UNCHANGED conf
  BY <1>1 DEF Reading, ParseInv
<1>3. at \in DOMAIN conf /\ Line = conf[at]
  BY <1>2, LinesAreNumbers DEF ParseInv, Line
<1>4. block \in Scopes /\ list \in Seq(Servers) /\ DOMAIN privs = Scopes /\ DOMAIN srv = Servers
  BY DEF ParseInv
<1> DEFINE n == at
<1>5. ASSUME NEW s
      PROVE  /\ kw # "allgroups" \/ ScopeAt(conf, n) # s
                  => AllLines(s, n + 1) = AllLines(s, n)
             /\ kw = "allgroups" /\ ScopeAt(conf, n) = s => AllLines(s, n + 1) # {}
  <2>1. n \in Statements(conf, s, "allgroups") <=> kw = "allgroups" /\ ScopeAt(conf, n) = s
    BY <1>2, <1>3, LineIsOf
  <2>2. Statements(conf, s, "allgroups") \in SUBSET Nat
    BY <1>2, LinesAreNumbers
  <2>3. QED
    BY <1>2, <2>1, <2>2, LineRead DEF AllLines
<1>6. ASSUME ~errors
      PROVE  /\ block = ScopeAt(conf, n) /\ ListRead(conf, list, n)
             /\ \A s \in Scopes : /\ PrivsRead(conf, s, privs[s], n)
                                  /\ privs[s].allgroups <=> AllLines(s, n) # {}
                                  /\ s # "global" => AllLines(s, n) = {}
             /\ \A s \in Servers : OwnerRead(conf, s, srv[s], n)
  BY <1>2, <1>6 DEF ParseInv, ReadInv, AllRead
<1>7. ASSUME ~errors, NEW s, kw \notin {"user", "group", "socket-owner"} \/ s # block
      PROVE  /\ s \in Scopes => PrivsRead(conf, s, privs[s], n + 1)
             /\ s \in Servers => OwnerRead(conf, s, srv[s], n + 1)
  BY <1>2, <1>3, <1>6, <1>7, Untouched
<1>8. ASSUME ~errors, kw # "server" PROVE ListRead(conf, list, n + 1)
  BY <1>2, <1>3, <1>4, <1>6, <1>8, ServerStatement
<1>9. ASSUME ~errors, kw \notin {"server", "end"} PROVE block = ScopeAt(conf, n + 1)
  BY <1>2, <1>3, <1>6, <1>9, ScopeNext
<1>10. ASSUME ~errors, kw # "allgroups", NEW s \in Scopes
       PROVE  /\ privs[s].allgroups <=> AllLines(s, n + 1) # {}
              /\ s # "global" => AllLines(s, n + 1) = {}
  BY <1>5, <1>6, <1>10
<1> HIDE DEF n
<1>11. CASE ReadUser
  <2>1. /\ Reading("user") /\ UNCHANGED <<block, errors, list, srv>>
        /\ privs' = [privs EXCEPT ![block] = privinfo_set_user(privs[block], conf[n].uid)]
    BY <1>3, <1>11 DEF ReadUser, n
  <2>2. kw = "user"
    BY <1>2, <2>1 DEF Reading
  <2>3. ASSUME ~errors, NEW s \in Scopes
        PROVE  /\ PrivsRead(conf, s, privs'[s], n + 1)
               /\ privs'[s].allgroups = privs[s].allgroups
               /\ s \in Servers => OwnerRead(conf, s, srv[s], n + 1)
    <3>1. CASE s # block
      BY <1>4, <1>7, <2>1, <2>3, <3>1
    <3>2. CASE s = block
      <4>1. PrivsRead(conf, s, privs[s], n) /\ (s \in Servers => OwnerRead(conf, s, srv[s], n))
        BY <1>6, <2>3
      <4>2. privs'[s] = privinfo_set_user(privs[s], conf[n].uid)
        BY <1>4, <2>1, <3>2
      <4>3. /\ PrivsRead(conf, s, privinfo_set_user(privs[s], conf[n].uid), n + 1)
            /\ (s \in Servers => OwnerRead(conf, s, srv[s], n + 1))
        BY <1>2, <1>3, <1>6, <2>2, <2>3, <3>2, <4>1, UserStatement DEF n
      <4>4. privinfo_set_user(privs[s], conf[n].uid).allgroups = privs[s].allgroups
        BY <4>1 DEF privinfo_set_user, AddGid, PrivsRead
      <4>5. QED
        BY <4>2, <4>3, <4>4
    <3>3. QED
      BY <3>1, <3>2
  <2>4. \A s \in Servers : s \in Scopes
    BY DEF Scopes
  <2>5. DOMAIN privs' = Scopes
    BY <1>4, <2>1
  <2>6. QED
    BY <1>4, <1>8, <1>9, <1>10, <2>1, <2>2, <2>3, <2>4, <2>5, LineStored DEF n
<1>12. CASE ReadGroup
  <2>1. /\ Reading("group") /\ UNCHANGED <<block, errors, list, srv>>
        /\ privs' = [privs EXCEPT ![block] = AddGroups(privs[block], conf[n].gids)]
    BY <1>3, <1>12 DEF ReadGroup, n
  <2>2. kw = "group"
    BY <1>2, <2>1 DEF Reading
  <2>3. ASSUME ~errors, NEW s \in Scopes
        PROVE  /\ PrivsRead(conf, s, privs'[s], n + 1)
               /\ privs'[s].allgroups = privs[s].allgroups
               /\ s \in Servers => OwnerRead(conf, s, srv[s], n + 1)
    <3>1. CASE s # block
      BY <1>4, <1>7, <2>1, <2>3, <3>1
    <3>2. CASE s = block
      <4>1. PrivsRead(conf, s, privs[s], n) /\ (s \in Servers => OwnerRead(conf, s, srv[s], n))
        BY <1>6, <2>3
      <4>2. privs'[s] = AddGroups(privs[s], conf[n].gids)
        BY <1>4, <2>1, <3>2
      <4>3. /\ PrivsRead(conf, s, AddGroups(privs[s], conf[n].gids), n + 1)
            /\ (s \in Servers => OwnerRead(conf, s, srv[s], n + 1))
        BY <1>2, <1>3, <1>6, <2>2, <2>3, <3>2, <4>1, GroupStatement DEF n
      <4>4. AddGroups(privs[s], conf[n].gids).allgroups = privs[s].allgroups
        BY <4>1, GidsAdded DEF AddGroups, PrivsRead
      <4>5. QED
        BY <4>2, <4>3, <4>4
    <3>3. QED
      BY <3>1, <3>2
  <2>4. \A s \in Servers : s \in Scopes
    BY DEF Scopes
  <2>5. DOMAIN privs' = Scopes
    BY <1>4, <2>1
  <2>6. QED
    BY <1>4, <1>8, <1>9, <1>10, <2>1, <2>2, <2>3, <2>4, <2>5, LineStored DEF n
<1>13. CASE ReadAllgroups
  <2>1. /\ Reading("allgroups") /\ UNCHANGED <<block, errors, list, srv>>
        /\ block = "global"
        /\ privs' = [privs EXCEPT !["global"] = [privs["global"] EXCEPT !.allgroups = TRUE]]
    BY <1>13 DEF ReadAllgroups
  <2>2. kw = "allgroups"
    BY <1>2, <2>1 DEF Reading
  <2>3. ASSUME ~errors, NEW s \in Scopes
        PROVE  /\ PrivsRead(conf, s, privs'[s], n + 1)
               /\ privs'[s].allgroups <=> AllLines(s, n + 1) # {}
               /\ s # "global" => AllLines(s, n + 1) = {}
    <3>1. CASE s # "global"
      <4>1. privs'[s] = privs[s] /\ ScopeAt(conf, n) # s
        BY <1>6, <2>1, <2>3, <3>1
      <4>2. AllLines(s, n + 1) = AllLines(s, n)
        BY <1>5, <4>1 DEF n
      <4>3. QED
        BY <1>6, <1>7, <2>1, <2>3, <3>1, <4>1, <4>2
    <3>2. CASE s = "global"
      <4>1. PrivsRead(conf, s, privs[s], n + 1)
        BY <1>7, <2>2, <2>3
      <4>2. privs'[s] = [uid |-> privs[s].uid, gids |-> privs[s].gids, allgroups |-> TRUE]
        BY <1>4, <2>1, <3>2, <4>1 DEF PrivsRead
      <4>3. privs'[s].uid = privs[s].uid /\ privs'[s].gids = privs[s].gids
            /\ privs'[s].allgroups = TRUE
            /\ privs'[s] = [uid |-> privs'[s].uid, gids |-> privs'[s].gids,
                            allgroups |-> privs'[s].allgroups]
        BY <4>2
      <4>4. AllLines(s, n + 1) # {}
        BY <1>5, <1>6, <2>1, <2>2, <2>3, <3>2 DEF n
      <4>5. PrivsRead(conf, s, privs'[s], n + 1)
        BY <4>1, <4>3 DEF PrivsRead
      <4>6. QED
        BY <3>2, <4>3, <4>4, <4>5
    <3>3. QED
      BY <3>1, <3>2
  <2>4. ASSUME ~errors PROVE \A s \in Servers : OwnerRead(conf, s, srv[s], n + 1)
    BY <1>7, <2>2, <2>4 DEF Scopes
  <2>5. DOMAIN privs' = Scopes
    BY <1>4, <2>1
  <2>6. ASSUME ~errors
        PROVE  block' = ScopeAt(conf, n + 1) /\ ListRead(conf, list', n + 1)
    BY <1>8, <1>9, <2>1, <2>2, <2>6
  <2>7. QED
    BY <1>4, <2>1, <2>3, <2>4, <2>5, <2>6, LineStored DEF n
<1>14. CASE ReadReuseaddr
  <2>1. /\ Reading("reuseaddr") /\ UNCHANGED <<block, errors, list, privs>>
        /\ \/ srv' = srv
           \/ srv' = [srv EXCEPT ![block] = [srv[block] EXCEPT !.keep = Line.on]]
    BY <1>14 DEF ReadReuseaddr
  <2>2. kw = "reuseaddr"
    BY <1>2, <2>1 DEF Reading
  <2>3. ASSUME ~errors, NEW s \in Servers PROVE OwnerRead(conf, s, srv'[s], n + 1)
    <3>1. OwnerRead(conf, s, srv[s], n + 1)
      BY <1>7, <2>2, <2>3
    <3>2. CASE srv'[s] = srv[s]
      BY <3>1, <3>2
    <3>3. CASE srv'[s] = [srv[s] EXCEPT !.keep = Line.on]
      BY <3>1, <3>3 DEF OwnerRead
    <3>4. QED
      BY <1>4, <2>1, <3>2, <3>3
  <2>4. DOMAIN srv' = Servers
    BY <1>4, <2>1
  <2>5. ASSUME ~errors
        PROVE  block' = ScopeAt(conf, n + 1) /\ ListRead(conf, list', n + 1)
    BY <1>8, <1>9, <2>1, <2>2, <2>5
  <2>6. ASSUME ~errors, NEW s \in Scopes
        PROVE  /\ PrivsRead(conf, s, privs'[s], n + 1)
               /\ privs'[s].allgroups <=> AllLines(s, n + 1) # {}
               /\ s # "global" => AllLines(s, n + 1) = {}
    BY <1>7, <1>10, <2>1, <2>2, <2>6
  <2>7. QED
    BY <1>4, <2>1, <2>3, <2>4, <2>5, <2>6, LineStored DEF n
<1>15. CASE ReadSocketOwner
  <2> DEFINE u == conf[n].uid
             g == OwnerGid(conf[n])
  <2>1. /\ Reading("socket-owner") /\ UNCHANGED <<block, errors, list>>
        /\ block # "global"
        /\ privs' = [privs EXCEPT ![block] =
                       IF u # None /\ g # None THEN AddGid(privs[block], g) ELSE privs[block]]
        /\ srv' = [srv EXCEPT ![block] = [uid |-> IF u # None THEN u ELSE srv[block].uid,
                                          gid |-> IF g # None THEN g ELSE srv[block].gid,
                                          keep |-> srv[block].keep]]
    BY <1>3, <1>15 DEF ReadSocketOwner, n
  <2>2. kw = "socket-owner"
    BY <1>2, <2>1 DEF Reading
  <2>3. block \in Servers
    BY <1>4, <2>1 DEF Scopes
  <2>4. ASSUME ~errors
        PROVE  /\ PrivsRead(conf, block, privs'[block], n + 1)
               /\ OwnerRead(conf, block, srv'[block], n + 1)
               /\ privs'[block].allgroups = privs[block].allgroups
    <3>1. PrivsRead(conf, block, privs[block], n) /\ OwnerRead(conf, block, srv[block], n)
      BY <1>4, <1>6, <2>3, <2>4
    <3>2. /\ PrivsRead(conf, block, IF u # None /\ g # None THEN AddGid(privs[block], g)
                                                           ELSE privs[block], n + 1)
          /\ OwnerRead(conf, block, [uid |-> IF u # None THEN u ELSE srv[block].uid,
                                     gid |-> IF g # None THEN g ELSE srv[block].gid,
                                     keep |-> srv[block].keep], n + 1)
      BY <1>2, <1>3, <1>6, <2>2, <2>4, <3>1, OwnerStatement DEF n
    <3>3. AddGid(privs[block], g).allgroups = privs[block].allgroups
      BY <3>1, GidsAdded DEF AddGid, PrivsRead
    <3> HIDE DEF u, g
    <3>4. QED
      BY <1>4, <2>1, <2>3, <3>2, <3>3
  <2>5. DOMAIN privs' = Scopes /\ DOMAIN srv' = Servers
    BY <1>4, <2>1
  <2>6. \A s \in Scopes : s # block => privs'[s] = privs[s]
    BY <1>4, <2>1
  <2>7. \A s \in Servers : s # block => srv'[s] = srv[s]
    BY <1>4, <2>1
  <2> HIDE DEF u, g
  <2>8. ASSUME ~errors
        PROVE  block' = ScopeAt(conf, n + 1) /\ ListRead(conf, list', n + 1)
    BY <1>8, <1>9, <2>1, <2>2, <2>8
  <2>9. ASSUME ~errors, NEW s \in Scopes
        PROVE  /\ PrivsRead(conf, s, privs'[s], n + 1)
               /\ privs'[s].allgroups <=> AllLines(s, n + 1) # {}
               /\ s # "global" => AllLines(s, n + 1) = {}
    BY <1>7, <1>10, <2>2, <2>4, <2>6, <2>9
  <2>10. ASSUME ~errors, NEW s \in Servers PROVE OwnerRead(conf, s, srv'[s], n + 1)
    BY <1>7, <2>4, <2>7, <2>10
  <2>11. QED
    BY <1>4, <2>1, <2>5, <2>8, <2>9, <2>10, LineStored DEF n
<1>16. ASSUME NEW w, Reading(w), w \notin {"user", "group", "socket-owner", "allgroups"},
              UNCHANGED <<errors, privs, srv>>, block' \in Scopes, list' \in Seq(Servers),
              ~errors => block' = ScopeAt(conf, n + 1) /\ ListRead(conf, list', n + 1)
       PROVE  ParseInv'
  <2>1. kw = w
    BY <1>2, <1>16 DEF Reading
  <2>2. ASSUME ~errors, NEW s \in Scopes
        PROVE  /\ PrivsRead(conf, s, privs'[s], n + 1)
               /\ privs'[s].allgroups <=> AllLines(s, n + 1) # {}
               /\ s # "global" => AllLines(s, n + 1) = {}
    BY <1>7, <1>10, <1>16, <2>1, <2>2
  <2>3. ASSUME ~errors, NEW s \in Servers PROVE OwnerRead(conf, s, srv'[s], n + 1)
    BY <1>7, <1>16, <2>1, <2>3
  <2>4. QED
    BY <1>4, <1>16, <2>2, <2>3, LineStored DEF n
<1>17. CASE ReadServer
  <2>1. /\ Reading("server") /\ UNCHANGED <<errors, privs, srv>>
        /\ list' = Append(list, conf[n].id) /\ block' = conf[n].id
    BY <1>3, <1>17 DEF ReadServer, n
  <2>2. kw = "server"
    BY <1>2, <2>1 DEF Reading
  <2>3. conf[n].id \in Servers
    BY <1>2, <1>3, <2>2, StatementParts DEF n
  <2>4. ASSUME ~errors PROVE block' = ScopeAt(conf, n + 1) /\ ListRead(conf, list', n + 1)
    BY <1>2, <1>3, <1>4, <1>6, <2>1, <2>2, <2>4, ScopeNext, ServerStatement DEF n
  <2>5. block' \in Scopes /\ list' \in Seq(Servers)
    BY <1>4, <2>1, <2>3 DEF Scopes
  <2>6. QED
    BY <1>16, <2>1, <2>4, <2>5
<1>18. CASE ReadEnd
  <2>1. /\ Reading("end") /\ UNCHANGED <<errors, privs, srv, list>> /\ block' = "global"
    BY <1>18 DEF ReadEnd
  <2>2. kw = "end"
    BY <1>2, <2>1 DEF Reading
  <2>3. ASSUME ~errors PROVE block' = ScopeAt(conf, n + 1) /\ ListRead(conf, list', n + 1)
    BY <1>2, <1>3, <1>8, <2>1, <2>2, <2>3, ScopeNext DEF n
  <2>4. QED
    BY <1>4, <1>16, <2>1, <2>3 DEF Scopes
<1>19. CASE ReadError
  BY <1>1, <1>4, <1>19, LineStored DEF ReadError
<1>20. QED
  BY <1>11, <1>12, <1>13, <1>14, <1>15, <1>17, <1>18, <1>19

-----------------------------------------------------------------------------
(* The end of the file: the groups of the global user are looked up.       *)
LEMMA MasterReady ==
  ASSUME ParseInv, EndOfFile, ~errors
  PROVE  ParseInv'
<1> DEFINE G == "global"
           c == cred["master"]
           old == privs[G]
<1>1. /\ pc = "read" /\ at > Len(conf) /\ at <= Len(conf) + 1 /\ at \in Nat
      /\ Len(conf) \in Nat /\ conf \in Configs
  BY LinesAreNumbers DEF EndOfFile, ParseInv, End
<1>2. at = Len(conf) + 1
  BY <1>1
<1>3. PICK pi : /\ pi = IF c.rgid = 0 THEN privinfo_expand_user_groups(old) ELSE old
                /\ pc' = BeginSwitch(c, pi)
                /\ privs' = [privs EXCEPT ![G] = pi]
                /\ was' = c
  BY DEF EndOfFile
<1>4. /\ who' = "global" /\ UNCHANGED <<conf, at, block, errors, list, srv>>
  BY DEF EndOfFile
<1>5. pc' \in {"setgroups", "expand"}
  BY <1>3, <1>4 DEF BeginSwitch, Switched
<1>6. /\ \A s \in Scopes : PrivsRead(conf, s, privs[s], End) /\ AllRead(s, End)
      /\ \A s \in Servers : OwnerRead(conf, s, srv[s], End)
      /\ ListRead(conf, list, End)
  BY <1>1, <1>2 DEF ParseInv, ReadInv, End
<1>7. G \in Scopes /\ \A s \in Servers : s \in Scopes /\ s # G
  BY StartupAssumption DEF Scopes
<1>8. \A s \in Servers : privs'[s] = privs[s] /\ ~privs[s].allgroups
  BY <1>3, <1>6, <1>7 DEF AllRead, ParseInv
<1>9. privs'[G] = pi /\ DOMAIN privs' = Scopes
  BY <1>3, <1>7 DEF ParseInv
<1>10. /\ old = [uid |-> old.uid, gids |-> old.gids, allgroups |-> old.allgroups]
       /\ old.gids \in Seq(Nat)
       /\ old.uid = UidOf(conf, Upto(UserLines(conf, G), End))
       /\ HasLast(Upto(UserLines(conf, G), End))
       /\ Own(conf, G, End) \subseteq ToSet(old.gids)
       /\ ToSet(old.gids) \subseteq Own(conf, G, End) \cup ByOwner(conf, G, End)
       /\ old.allgroups <=> AllLines(G, End) # {}
  BY <1>6, <1>7 DEF PrivsRead, AllRead
<1>11. ASSUME old.uid # 0 PROVE old.uid \in Users
  <2>1. Upto(UserLines(conf, G), End) # {}
    BY <1>10, <1>11 DEF UidOf
  <2>2. LastOf(Upto(UserLines(conf, G), End)) \in UserLines(conf, G)
    BY <1>10, <2>1 DEF HasLast, Upto
  <2>3. QED
    BY <1>10, <2>1, <2>2 DEF UidOf, UserLines
<1>12. pi.uid = old.uid
  <2>1. CASE pi = old
    BY <2>1
  <2>2. CASE pi = privinfo_expand_user_groups(old) /\ old.allgroups
    <3>1. pi = [old EXCEPT !.gids = IF old.uid \in Users THEN old.gids \o MemberOf[old.uid]
                                                        ELSE old.gids,
                           !.allgroups = FALSE]
      BY <2>2 DEF privinfo_expand_user_groups
    <3>2. QED
      BY <1>10, <3>1
  <2>3. QED
    BY <1>3, <2>1, <2>2 DEF privinfo_expand_user_groups
<1> DEFINE all == IF AllLines(G, End) = {} THEN {} ELSE ToSet(MemberOf[pi.uid])
<1>13. ASSUME c.rgid = 0, pi.uid # 0
       PROVE  ToSet(pi.gids) = ToSet(old.gids) \cup all
  <2>1. CASE ~old.allgroups
    <3>1. pi = old /\ all = {}
      BY <1>3, <1>10, <1>13, <2>1 DEF privinfo_expand_user_groups
    <3>2. QED
      BY <3>1
  <2>2. CASE old.allgroups
    <3>1. old.uid \in Users /\ MemberOf[old.uid] \in Seq(Nat)
      BY <1>11, <1>12, <1>13, StartupAssumption
    <3>2. pi = [old EXCEPT !.gids = old.gids \o MemberOf[old.uid], !.allgroups = FALSE]
      BY <1>3, <1>13, <2>2, <3>1 DEF privinfo_expand_user_groups
    <3>3. pi.gids = old.gids \o MemberOf[old.uid]
      BY <1>10, <3>2
    <3>4. all = ToSet(MemberOf[old.uid])
      BY <1>10, <1>12, <2>2
    <3>5. QED
      BY <1>10, <3>1, <3>3, <3>4, ToSetConcat
  <2>3. QED
    BY <2>1, <2>2
<1>14. all = Memberships'
  BY <1>4, <1>9 DEF Memberships, AllLines, End
<1> HIDE DEF all
<1>15. ASSUME was'.rgid = 0, pi.uid # 0
       PROVE  /\ Own(conf, G, End) \cup all \subseteq ToSet(pi.gids)
              /\ ToSet(pi.gids) \subseteq Own(conf, G, End) \cup all \cup ByOwner(conf, G, End)
  BY <1>3, <1>10, <1>13, <1>15
<1>16. MasterInv'
  <2>1. End' = End
    BY <1>4 DEF End
  <2>2. \A s \in Servers : OwnerRead(conf, s, srv[s], End)' /\ ~privs'[s].allgroups
    BY <1>4, <1>6, <1>8, <2>1
  <2>3. ListRead(conf, list, End)'
    BY <1>4, <1>6, <2>1
  <2> HIDE DEF c, old
  <2>4. QED
    BY <1>4, <1>9, <1>10, <1>12, <1>14, <1>15, <2>1, <2>2, <2>3 DEF MasterInv
<1>17. ServersInv'
  <2>1. End' = End
    BY <1>4 DEF End
  <2>2. ASSUME NEW s \in Servers
        PROVE  PrivsRead(conf, s, privs'[s], End) /\ AllLines(s, End) = {}
    BY <1>6, <1>7, <1>8 DEF AllRead
  <2>3. QED
    BY <1>4, <2>1, <2>2 DEF ServersInv, AllLines
<1>18. QED
  BY <1>4, <1>5, <1>7, <1>9, <1>16, <1>17 DEF ParseInv, ReadInv

(* expand_srv_groups: the group of the owner, if there is one, is named by *)
(* a statement of the server.                                              *)
LEMMA SessionPrivsRead ==
  ASSUME NEW f \in Configs, NEW s \in Servers, NEW n, ~privs[s].allgroups,
         PrivsRead(f, s, privs[s], n), OwnerRead(f, s, srv[s], n)
  PROVE  PrivsRead(f, s, SessionPrivs(s), n)
<1> DEFINE pi == privs[s]
           g == srv[s].gid
<1>1. privinfo_expand_user_groups(pi) = pi
  BY DEF privinfo_expand_user_groups
<1>2. CASE ~(pi.uid # 0 /\ g # None)
  BY <1>1, <1>2 DEF SessionPrivs
<1>3. CASE pi.uid # 0 /\ g # None
  <2>1. SessionPrivs(s) = AddGid(pi, g)
    BY <1>1, <1>3 DEF SessionPrivs
  <2> DEFINE G == Upto(OwnerGids(f, s), n)
             l == LastOf(G)
  <2>2. G # {} /\ l \in G /\ g = OwnerGid(f[l])
    BY <1>3 DEF OwnerRead, OwnerGidOf, HasLast
  <2>3. l \in DOMAIN f /\ f[l].kw = "socket-owner"
    BY <2>2 DEF Upto, OwnerGids, Statements
  <2>4. g \in Nat
    BY <1>3, <2>2, <2>3, StatementParts
  <2>5. g \in ByOwner(f, s, n)
    BY <2>2 DEF ByOwner, OwnerGroupsOf
  <2>6. AddGid(pi, g) = [uid |-> pi.uid, gids |-> Append(pi.gids, g), allgroups |-> pi.allgroups]
    BY GidsAdded DEF AddGid, PrivsRead
  <2>7. /\ Append(pi.gids, g) \in Seq(Nat)
        /\ ToSet(Append(pi.gids, g)) = ToSet(pi.gids) \cup {g}
    BY <2>4, ToSetAppend DEF PrivsRead
  <2> HIDE DEF pi, g, l, G
  <2>8. PrivsRead(f, s, AddGid(pi, g), n)
    BY <2>5, <2>6, <2>7 DEF PrivsRead, pi
  <2>9. QED
    BY <2>1, <2>8
<1>4. QED
  BY <1>2, <1>3

(* What is in memory is what was written, in every run.                    *)
LEMMA ParseInvCorrect == Spec => []ParseInv
<1>1. ASSUME NEW f \in Configs
      PROVE  /\ \A s : /\ Upto(Statements(f, s, "allgroups"), 1) = {}
                       /\ PrivsRead(f, s, NoPrivs, 1) /\ OwnerRead(f, s, NewServer, 1)
             /\ ListRead(f, <<>>, 1) /\ Len(f) \in Nat
  BY NothingRead, LinesAreNumbers
<1>2. /\ NoPrivs.allgroups = FALSE /\ "global" \in Scopes
      /\ \A s \in Servers : s \in Scopes /\ s # "global"
  BY StartupAssumption DEF NoPrivs, Scopes
<1>3. Init => ParseInv
  <2> SUFFICES ASSUME Init PROVE ParseInv
    OBVIOUS
  <2>1. /\ pc = "read" /\ at = 1 /\ block = "global" /\ list = <<>> /\ conf \in Configs
        /\ privs = [s \in Scopes |-> NoPrivs] /\ srv = [s \in Servers |-> NewServer]
        /\ who = "global"
    BY DEF Init
  <2>2. ReadInv
    BY <1>1, <1>2, <2>1, ScopeFirst DEF ReadInv, AllRead, AllLines
  <2>3. QED
    BY <1>1, <1>2, <2>1, <2>2 DEF ParseInv, ServersInv, MasterInv, End, Switching
<1>4. ParseInv /\ [Next]_vars => ParseInv'
  <2> SUFFICES ASSUME ParseInv, [Next]_vars PROVE ParseInv'
    OBVIOUS
  <2>1. CASE \/ ReadUser \/ ReadGroup \/ ReadAllgroups \/ ReadReuseaddr
             \/ ReadSocketOwner \/ ReadServer \/ ReadEnd \/ ReadError
    BY <2>1, ReadingKept
  <2>2. ASSUME pc \notin {"read", "exit", "crashed"}, pc' # "read", who' \in Scopes,
               UNCHANGED <<conf, block, errors, privs, srv>>,
               at' \in Nat \ {0}, list' \in Seq(Servers),
               pc' \in Switching \cup {"expand"} /\ who' = "global" =>
                 /\ pc \in Switching \cup {"expand"}
                 /\ UNCHANGED <<who, was, list>>,
               pc' = "expand" => who' = "global",
               pc' = "loop" => who' # "global"
        PROVE  ParseInv'
    <3>1. End' = End /\ conf' = conf /\ privs' = privs /\ srv' = srv /\ errors' = errors
      BY <2>2 DEF End
    <3>2. ServersInv'
      BY <2>2, <3>1 DEF ParseInv, ServersInv, AllLines
    <3>3. ASSUME pc' \in Switching \cup {"expand"}, who' = "global"
          PROVE  Memberships' = Memberships
      BY <3>1 DEF Memberships, AllLines
    <3>4. MasterInv'
      BY <2>2, <3>1, <3>3 DEF ParseInv, MasterInv
    <3>5. QED
      BY <2>2, <3>2, <3>4 DEF ParseInv, ReadInv
  <2>3. CASE ReadAllgroupsCrash
    BY <2>3 DEF ReadAllgroupsCrash, ParseInv, ReadInv, ServersInv, MasterInv, Switching, confVars
  <2>4. CASE EndOfFile
    <3>1. CASE errors
      <4>1. /\ pc' = "exit" /\ who' = "global" /\ UNCHANGED <<conf, at, block, list, privs, srv>>
        BY <2>4, <3>1 DEF EndOfFile
      <4>2. QED
        BY <1>2, <4>1 DEF ParseInv, ReadInv, ServersInv, MasterInv, Switching
    <3>2. CASE ~errors
      BY <2>4, <3>2, MasterReady
    <3>3. QED
      BY <3>1, <3>2
  <2>5. ASSUME NEW call \in Switching, NEW c, SystemCall(call, c),
               pc' \in Switching \cup {Switched, NotSwitched}
        PROVE  ParseInv'
    <3>1. pc \in Switching /\ UNCHANGED <<conf, confVars, who, was>>
      BY <2>5 DEF SystemCall, ghostVars
    <3>2. pc' \in Switching \/ pc' = Switched \/ pc' = NotSwitched
      BY <2>5
    <3>3. QED
      BY <2>2, <3>1, <3>2 DEF Switched, NotSwitched, Switching, confVars, ParseInv
  <2>6. CASE SetGroups
    BY <2>5, <2>6 DEF SetGroups, Switching
  <2>7. CASE SetEgid
    BY <2>5, <2>7 DEF SetEgid, Switching
  <2>8. CASE SetGid
    BY <2>5, <2>8 DEF SetGid, Switching
  <2>9. CASE SetUid \/ SetUidAgain \/ SetUidFails
    BY <2>5, <2>9 DEF SetUid, SetUidAgain, SetUidFails, Switching
  <2>10. CASE Verify
    BY <2>5, <2>10 DEF Verify, Switching
  <2>11. CASE SwitchFails
    <3>1. /\ pc \in Switching /\ pc' \in {"exit", "serve"}
          /\ UNCHANGED <<conf, confVars, who, was>>
      BY <2>11 DEF SwitchFails, ghostVars, NotSwitched, Switching
    <3>2. QED
      BY <2>2, <3>1 DEF Switching, confVars, ParseInv
  <2>12. CASE expand_srv_groups
    <3>1. /\ pc = "expand" /\ who = "global" /\ pc' = "open" /\ at' = 1
          /\ UNCHANGED <<conf, block, errors, list, who>>
          /\ DOMAIN srv' = Servers /\ DOMAIN privs' = Scopes
      BY <2>12 DEF expand_srv_groups, ParseInv
    <3>2. \A s \in Scopes : privs'[s] = IF Contains(list, s) THEN SessionPrivs(s) ELSE privs[s]
      BY <2>12 DEF expand_srv_groups
    <3>3. ASSUME NEW s \in Servers PROVE PrivsRead(conf, s, privs'[s], End) /\ AllLines(s, End) = {}
      <4>1. /\ PrivsRead(conf, s, privs[s], End) /\ AllLines(s, End) = {}
            /\ OwnerRead(conf, s, srv[s], End) /\ ~privs[s].allgroups
            /\ conf \in Configs
        BY <3>1 DEF ParseInv, ServersInv, MasterInv, Switching
      <4>2. PrivsRead(conf, s, SessionPrivs(s), End)
        BY <4>1, SessionPrivsRead
      <4>3. QED
        BY <1>2, <3>2, <4>1, <4>2
    <3>4. ServersInv'
      <4>1. End' = End /\ ~errors'
        BY <3>1 DEF End, ParseInv, ServersInv
      <4>2. QED
        BY <3>1, <3>3, <4>1 DEF ServersInv, AllLines
    <3>5. QED
      BY <3>1, <3>4 DEF ParseInv, ReadInv, MasterInv, Switching
  <2>13. CASE ServerOpened \/ ChownFails
    BY <2>2, <2>13 DEF ServerOpened, ChownFails, ParseInv, Switching
  <2>14. CASE ServerRefused \/ ServerFails
    <3>1. /\ pc = "open" /\ UNCHANGED <<pc, conf, at, block, errors, privs, srv, who>>
          /\ list' = RemoveAt(list, at) /\ at <= Len(list)
      BY <2>14 DEF ServerRefused, ServerFails
    <3>2. list' \in Seq(Servers)
      BY <3>1 DEF RemoveAt, ParseInv
    <3>3. QED
      BY <2>2, <3>1, <3>2 DEF ParseInv, Switching
  <2>15. CASE OpenDone \/ SessionEnd \/ Terminate
    BY <2>2, <2>15 DEF OpenDone, SessionEnd, Terminate, ParseInv, Switching, confVars
  <2>16. ASSUME NEW s \in Servers, SessionStart(s) PROVE ParseInv'
    <3>1. /\ pc = "serve" /\ who' = s /\ UNCHANGED <<conf, confVars>>
          /\ pc' = BeginSwitch(cred["master"], privs[s])
      BY <2>16 DEF SessionStart
    <3>2. s # "global" /\ s \in Scopes
      BY <1>2
    <3>3. pc' \in {"setgroups", "loop"}
      BY <3>1, <3>2 DEF BeginSwitch, Switched
    <3>4. QED
      BY <2>2, <3>1, <3>2, <3>3 DEF confVars, ParseInv, Switching
  <2>17. CASE Restart
    <3>1. /\ pc' = "read" /\ at' = 1 /\ block' = "global" /\ list' = <<>> /\ conf' = conf
          /\ privs' = [s \in Scopes |-> NoPrivs] /\ srv' = [s \in Servers |-> NewServer]
          /\ who' = "global"
      BY <2>17 DEF Restart
    <3>2. conf \in Configs
      BY DEF ParseInv
    <3>3. ReadInv'
      BY <1>1, <1>2, <3>1, <3>2, ScopeFirst DEF ReadInv, AllRead, AllLines
    <3>4. QED
      BY <1>1, <1>2, <3>1, <3>2, <3>3 DEF ParseInv, ServersInv, MasterInv, End, Switching
  <2>18. CASE UNCHANGED vars
    <3>1. UNCHANGED <<pc, conf, at, block, errors, list, privs, srv, who, was>>
      BY <2>18 DEF vars, confVars, ghostVars
    <3>2. Memberships' = Memberships /\ End' = End
      BY <3>1 DEF Memberships, AllLines, End
    <3>3. QED
      BY <3>1, <3>2 DEF ParseInv, ReadInv, AllRead, AllLines, ServersInv, MasterInv
  <2>19. QED
    BY <2>1, <2>3, <2>4, <2>6, <2>7, <2>8, <2>9, <2>10, <2>11, <2>12, <2>13, <2>14,
       <2>15, <2>16, <2>17, <2>18 DEF Next
<1>5. QED
  BY <1>3, <1>4, PTL DEF Spec

-----------------------------------------------------------------------------
(* Every line comes before the end of the file.                            *)
LEMMA AllOfFile ==
  ASSUME NEW f \in Configs, NEW s
  PROVE  /\ \A kw : Upto(Statements(f, s, kw), Len(f) + 1) = Statements(f, s, kw)
         /\ Upto(UserLines(f, s), Len(f) + 1) = UserLines(f, s)
         /\ Upto(OwnerUid(f, s), Len(f) + 1) = OwnerUid(f, s)
         /\ Upto(OwnerGids(f, s), Len(f) + 1) = OwnerGids(f, s)
<1>1. \A i \in DOMAIN f : i < Len(f) + 1
  BY LinesAreNumbers
<1>2. \A kw : Statements(f, s, kw) \subseteq DOMAIN f
  BY DEF Statements
<1>3. /\ UserLines(f, s) \subseteq DOMAIN f /\ OwnerUid(f, s) \subseteq DOMAIN f
      /\ OwnerGids(f, s) \subseteq DOMAIN f
  BY <1>2 DEF UserLines, OwnerUid, OwnerGids
<1>4. QED
  BY <1>1, <1>2, <1>3 DEF Upto

(* The administrator always starts smapd in the same way.                  *)
LEMMA StartKept == Spec => [](start \in Starts)
<1>1. Init => start \in Starts
  BY DEF Init
<1>2. start \in Starts /\ [Next]_vars => (start \in Starts)'
  BY DEF Next, vars, ReadUser, ReadGroup, ReadAllgroups, ReadAllgroupsCrash,
     ReadReuseaddr, ReadSocketOwner, ReadServer, ReadEnd, ReadError, Reading,
     EndOfFile, SetGroups, SetEgid, SetGid, SetUid, SetUidAgain, SwitchFails,
     SetUidFails, Verify, SystemCall, expand_srv_groups, ServerOpened,
     ChownFails, ServerRefused, ServerFails, OpenDone, SessionStart, SessionEnd, Restart, Terminate
<1>3. QED
  BY <1>1, <1>2, PTL DEF Spec

(* The process that serves a scope runs as the user named last for it, in  *)
(* the groups that the statements of the scope name, whatever their order  *)
(* and number (cfg_user, cfg_group, privinfo_set_user, switch_to_privs).   *)
THEOREM GroupsAsConfiguredCorrect == Spec => []GroupsAsConfigured
<1>1. ParseInv /\ SwitchInv /\ start \in Starts => GroupsAsConfigured
  <2> SUFFICES ASSUME ParseInv, SwitchInv, start \in Starts,
                      pc \in {"expand", "loop"}, was = start,
                      start.ruid + start.rgid = 0, Target.uid # 0
               PROVE  LET named == UNION {ToSet(conf[i].gids) : i \in Statements(conf, who, "group")}
                          users == {PrimaryGid[conf[i].uid] : i \in UserLines(conf, who)}
                          owners == {OwnerGid(conf[i]) : i \in OwnerGids(conf, who)}
                          all == IF Statements(conf, who, "allgroups") = {} THEN {}
                                 ELSE ToSet(MemberOf[Target.uid])
                      IN  /\ Me.euid = conf[LastOf(UserLines(conf, who))].uid
                          /\ named \cup users \cup all \subseteq Me.groups
                          /\ Me.groups \subseteq named \cup users \cup all \cup owners
    BY DEF GroupsAsConfigured
  <2> DEFINE named == UNION {ToSet(conf[i].gids) : i \in Statements(conf, who, "group")}
             users == {PrimaryGid[conf[i].uid] : i \in UserLines(conf, who)}
             owners == {OwnerGid(conf[i]) : i \in OwnerGids(conf, who)}
             all == IF Statements(conf, who, "allgroups") = {} THEN {}
                    ELSE ToSet(MemberOf[Target.uid])
  <2>1. start.ruid = 0 /\ was.rgid = 0 /\ was.euid = 0
    BY StartsAssumption DEF SwitchInv, Uniform
  <2>2. {Me.ruid, Me.euid, Me.suid} = {Target.uid} /\ Me.groups = ToSet(Target.gids)
    BY <2>1 DEF SwitchInv, SwitchedForGood
  <2>3. Me.euid = Target.uid
    BY <2>2
  <2>4. conf \in Configs /\ who \in Scopes
    BY DEF ParseInv
  <2>5. Own(conf, who, End) = named \cup users /\ ByOwner(conf, who, End) = owners
    BY <2>4, AllOfFile DEF Own, ByOwner, GroupsOf, UserGroupsOf, OwnerGroupsOf, End
  <2>6. AllLines(who, End) = Statements(conf, who, "allgroups")
        /\ Upto(UserLines(conf, who), End) = UserLines(conf, who)
    BY <2>4, AllOfFile DEF AllLines, End
  <2>7. /\ Target.uid = UidOf(conf, UserLines(conf, who))
        /\ named \cup users \cup all \subseteq ToSet(Target.gids)
        /\ ToSet(Target.gids) \subseteq named \cup users \cup all \cup owners
    <3>1. CASE pc = "loop"
      <4>1. who \in Servers
        BY <2>4, <3>1 DEF ParseInv, Scopes
      <4>2. PrivsRead(conf, who, Target, End) /\ AllLines(who, End) = {}
        BY <3>1, <4>1 DEF ParseInv, ServersInv, Target
      <4>3. all = {}
        BY <2>6, <4>2
      <4> HIDE DEF named, users, owners, all
      <4>4. QED
        BY <2>5, <2>6, <4>2, <4>3 DEF PrivsRead
    <3>2. CASE pc = "expand"
      <4>1. who = "global" /\ Target = privs["global"]
        BY <3>2 DEF ParseInv, Target
      <4>2. /\ Target.uid = UidOf(conf, UserLines(conf, who))
            /\ Own(conf, who, End) \cup Memberships \subseteq ToSet(Target.gids)
            /\ ToSet(Target.gids) \subseteq Own(conf, who, End) \cup Memberships
                                             \cup ByOwner(conf, who, End)
        BY <2>1, <2>6, <3>2, <4>1 DEF ParseInv, MasterInv
      <4>3. all = Memberships
        BY <2>6, <4>1 DEF Memberships
      <4> HIDE DEF named, users, owners, all
      <4>4. QED
        BY <2>5, <4>2, <4>3
    <3>3. QED
      BY <3>1, <3>2
  <2>8. Target.uid = conf[LastOf(UserLines(conf, who))].uid
    BY <2>7 DEF UidOf
  <2> HIDE DEF named, users, owners, all
  <2>9. /\ Me.euid = conf[LastOf(UserLines(conf, who))].uid
        /\ named \cup users \cup all \subseteq Me.groups
        /\ Me.groups \subseteq named \cup users \cup all \cup owners
    BY <2>2, <2>3, <2>7, <2>8
  <2>10. QED
    BY <2>9 DEF named, users, owners, all
<1>2. QED
  BY <1>1, ParseInvCorrect, SwitchInvCorrect, StartKept, PTL

-----------------------------------------------------------------------------
(* The owners of the sockets.                                              *)

(* The owner u of the socket of s: root where no statement says it.        *)
OwnedBy(f, s, u) ==
  IF OwnerUid(f, s) # {} THEN u = f[LastOf(OwnerUid(f, s))].uid
  ELSE IF UserLines(f, s) # {} /\ OwnerGids(f, s) = {}
  THEN u = f[LastOf(UserLines(f, s))].uid
  ELSE u = 0

(* The owner stored for a server; None leaves the file to root.            *)
OwnerSet(f, s, sv) ==
  /\ OwnedBy(f, s, IF sv.uid # None THEN sv.uid ELSE 0)
  /\ OwnerGids(f, s) # {} => /\ sv.gid = OwnerGid(f[LastOf(OwnerGids(f, s))])
                             /\ sv.gid # None

FileRight(f, s, file) ==
  /\ OwnedBy(f, s, file.uid)
  /\ OwnerGids(f, s) # {} => file.gid = OwnerGid(f[LastOf(OwnerGids(f, s))])

(* Before server_open has been called in this run.                         *)
Early == pc \in {"read", "expand"} \/ (pc \in Switching /\ who = "global")

(* The file of an open server; if chown has failed it is as bind made it.  *)
FileSet(f, s, file) ==
  IF s \in failed THEN file = [uid |-> 0, gid |-> opener.egid]
                  ELSE FileRight(f, s, file)

(* A server that is open stands before the current one in the list, which  *)
(* has each server once: opening the others does not touch its file.       *)
SocketsInv ==
  /\ DOMAIN files = Servers /\ opened \subseteq Servers
  /\ Early => opened = {} /\ failed = {}
  /\ pc = "open" =>
       /\ \A j \in DOMAIN list : at <= j => list[j] \notin failed
       /\ cred["master"] = opener
       /\ \A j \in DOMAIN list : OwnerSet(conf, list[j], srv[list[j]])
       /\ \A j, k \in DOMAIN list : list[j] = list[k] => j = k
       /\ \A s \in opened : \E j \in DOMAIN list : j < at /\ list[j] = s
  /\ opener.euid = 0 => \A s \in opened \ Inet : FileSet(conf, s, files[s])

(* expand_srv_groups: what socket-owner leaves out comes from the user.    *)
LEMMA OwnerCompleted ==
  ASSUME NEW f \in Configs, NEW s \in Servers,
         PrivsRead(f, s, privs[s], Len(f) + 1), OwnerRead(f, s, srv[s], Len(f) + 1)
  PROVE  OwnerSet(f, s, SocketOwner(s))
<1> DEFINE O == OwnerUid(f, s)
           G == OwnerGids(f, s)
           U == UserLines(f, s)
           sv == srv[s]
<1>1. /\ sv = [uid |-> sv.uid, gid |-> sv.gid, keep |-> sv.keep]
      /\ sv.uid = OwnerOf(f, O) /\ HasLast(O)
      /\ sv.gid = OwnerGidOf(f, G) /\ HasLast(G)
      /\ privs[s].uid = UidOf(f, U) /\ HasLast(U)
  BY AllOfFile DEF PrivsRead, OwnerRead
<1>2. O # {} => sv.uid = f[LastOf(O)].uid /\ sv.uid # None
  BY <1>1 DEF OwnerOf, HasLast, OwnerUid
<1>3. G # {} => sv.gid = OwnerGid(f[LastOf(G)]) /\ sv.gid # None
  BY <1>1 DEF OwnerGidOf, HasLast, OwnerGids
<1>4. U # {} => /\ privs[s].uid = f[LastOf(U)].uid
                /\ privs[s].uid # None
  <2>1. U # {} => f[LastOf(U)].uid \in Users
    BY <1>1 DEF HasLast, UserLines
  <2>2. QED
    BY <1>1, <2>1, StartupAssumption DEF UidOf, None
<1>5. /\ O = {} => sv.uid = None
      /\ G = {} => sv.gid = None
      /\ U = {} => privs[s].uid = 0
  BY <1>1 DEF OwnerOf, OwnerGidOf, UidOf
<1>6. CASE privs[s].uid = 0 \/ G # {}
  <2>1. SocketOwner(s) = sv
    BY <1>3, <1>6 DEF SocketOwner
  <2> HIDE DEF sv
  <2>2. QED
    BY <1>2, <1>3, <1>4, <1>5, <1>6, <2>1 DEF OwnerSet, OwnedBy
<1>7. CASE privs[s].uid # 0 /\ G = {}
  <2> DEFINE new == SocketOwner(s)
  <2>1. new = [sv EXCEPT !.uid = IF sv.uid = None THEN privs[s].uid ELSE sv.uid,
                         !.gid = privs[s].gids[1]]
    BY <1>4, <1>5, <1>7 DEF SocketOwner
  <2>2. new.uid = IF sv.uid = None THEN privs[s].uid ELSE sv.uid
    BY <1>1, <2>1
  <2> HIDE DEF sv, new
  <2>3. OwnerSet(f, s, new)
    BY <1>2, <1>4, <1>5, <1>7, <2>2 DEF OwnerSet, OwnedBy
  <2>4. QED
    BY <2>3 DEF new
<1>8. QED
  BY <1>6, <1>7

(* The list without one of its servers.                                    *)
LEMMA ListShrinks ==
  ASSUME NEW q \in Seq(Servers), NEW i \in 1..Len(q)
  PROVE  /\ RemoveAt(q, i) \in Seq(Servers)
         /\ DOMAIN RemoveAt(q, i) = 1..(Len(q) - 1)
         /\ \A j \in 1..(Len(q) - 1) :
              RemoveAt(q, i)[j] = IF j < i THEN q[j] ELSE q[j + 1]
<1> DEFINE a == SubSeq(q, 1, i - 1)
           b == SubSeq(q, i + 1, Len(q))
<1>1. /\ a \in Seq(Servers) /\ Len(a) = i - 1
      /\ \A j \in 1..(i - 1) : a[j] = q[j]
  OBVIOUS
<1>2. /\ b \in Seq(Servers) /\ Len(b) = Len(q) - i
      /\ \A j \in 1..(Len(q) - i) : b[j] = q[j + i]
  OBVIOUS
<1>3. RemoveAt(q, i) = a \o b
  BY DEF RemoveAt
<1> HIDE DEF a, b
<1>4. /\ a \o b \in Seq(Servers) /\ DOMAIN (a \o b) = 1..(Len(a) + Len(b))
      /\ \A j \in 1..Len(a) : (a \o b)[j] = a[j]
      /\ \A j \in 1..Len(b) : (a \o b)[Len(a) + j] = b[j]
  <2>1. a \in Seq(Servers) /\ b \in Seq(Servers)
    BY <1>1, <1>2
  <2>2. QED
    BY <2>1
<1>5. Len(q) \in Nat /\ Len(a) + Len(b) = Len(q) - 1
  BY <1>1, <1>2
<1>6. ASSUME NEW j \in 1..(Len(q) - 1)
      PROVE  (a \o b)[j] = IF j < i THEN q[j] ELSE q[j + 1]
  <2>1. CASE j < i
    BY <1>1, <1>4, <1>5, <2>1
  <2>2. CASE ~(j < i)
    <3> DEFINE k == j - (i - 1)
    <3>1. k \in 1..(Len(q) - i) /\ k + i = j + 1 /\ Len(a) + k = j
      BY <1>1, <1>5, <2>2
    <3>2. (a \o b)[Len(a) + k] = b[k] /\ b[k] = q[k + i]
      BY <1>2, <1>4, <3>1
    <3> HIDE DEF k
    <3>3. QED
      BY <2>2, <3>1, <3>2
  <2>3. QED
    BY <2>1, <2>2
<1>7. QED
  BY <1>3, <1>4, <1>5, <1>6

(* server_prep: root gives the file to that owner.                         *)
LEMMA FileOwned ==
  ASSUME NEW f, NEW s \in Servers \ Inet, OwnerSet(f, s, srv[s]),
         cred["master"].euid = 0
  PROVE  FileRight(f, s, SocketFile(s))
<1>1. SocketFile(s) = [uid |-> IF srv[s].uid # None THEN srv[s].uid ELSE 0,
                       gid |-> IF srv[s].gid # None THEN srv[s].gid ELSE cred["master"].egid]
  BY DEF SocketFile, Chowns, Created
<1>2. /\ SocketFile(s).uid = IF srv[s].uid # None THEN srv[s].uid ELSE 0
      /\ srv[s].gid # None => SocketFile(s).gid = srv[s].gid
  BY <1>1
<1>3. QED
  BY <1>2 DEF FileRight, OwnerSet, OwnedBy

(* Opening one socket leaves the files of the others alone.                *)
LEMMA SocketsInvCorrect == Spec => []SocketsInv
<1>1. Init => SocketsInv
  BY DEF Init, SocketsInv, Early
<1>2. ParseInv /\ SocketsInv /\ [Next]_vars => SocketsInv'
  <2> SUFFICES ASSUME ParseInv, SocketsInv, [Next]_vars PROVE SocketsInv'
    OBVIOUS
  <2>1. ASSUME UNCHANGED <<conf, opened, files, opener, failed>>, pc' # "open",
               Early' => opened = {} /\ failed = {}
        PROVE  SocketsInv'
    BY <2>1 DEF SocketsInv, FileSet
  <2>2. ASSUME NEW kw, Reading(kw)
        PROVE  /\ pc = "read" /\ pc' = "read" /\ UNCHANGED <<conf, opened, files, opener, failed>>
    BY <2>2 DEF Reading, ghostVars
  <2>3. CASE \/ ReadUser \/ ReadGroup \/ ReadAllgroups \/ ReadReuseaddr
             \/ ReadSocketOwner \/ ReadServer \/ ReadEnd \/ ReadError
    <3>1. \E kw : Reading(kw)
      BY <2>3 DEF ReadUser, ReadGroup, ReadAllgroups, ReadReuseaddr,
         ReadSocketOwner, ReadServer, ReadEnd, ReadError
    <3>2. QED
      BY <2>1, <2>2, <3>1 DEF Early, SocketsInv
  <2>4. CASE ReadAllgroupsCrash \/ EndOfFile
    <3>1. pc = "read" /\ UNCHANGED <<conf, opened, files, opener, failed>> /\ pc' # "open"
      BY <2>4 DEF ReadAllgroupsCrash, EndOfFile, ghostVars, BeginSwitch, Switched
    <3>2. QED
      BY <2>1, <3>1 DEF Early, SocketsInv
  <2>5. ASSUME NEW call \in Switching, NEW c, SystemCall(call, c),
               pc' \in Switching \cup {Switched, NotSwitched}
        PROVE  SocketsInv'
    <3>1. pc \in Switching /\ UNCHANGED <<conf, who, opened, files, opener, failed>>
      BY <2>5 DEF SystemCall, ghostVars
    <3>2. pc' \in Switching \/ pc' = Switched \/ pc' = NotSwitched
      BY <2>5
    <3>3. QED
      BY <2>1, <3>1, <3>2 DEF Early, SocketsInv, Switched, NotSwitched, Switching
  <2>6. CASE SetGroups \/ SetEgid \/ SetGid
    BY <2>5, <2>6 DEF SetGroups, SetEgid, SetGid, Switching
  <2>7. CASE SetUid \/ SetUidAgain \/ SetUidFails \/ Verify
    BY <2>5, <2>7 DEF SetUid, SetUidAgain, SetUidFails, Verify, Switching
  <2>8. CASE SwitchFails \/ SessionEnd \/ Terminate
    BY <2>1, <2>8 DEF SwitchFails, SessionEnd, Terminate, NotSwitched, ghostVars,
       Early, SocketsInv, Switching
  <2>9. CASE OpenDone
    BY <2>1, <2>9 DEF OpenDone, ghostVars, Early, Switching
  <2>10. CASE expand_srv_groups
    <3>1. /\ pc = "expand" /\ who = "global" /\ pc' = "open" /\ at' = 1
          /\ UNCHANGED <<conf, list, cred, opened, files, failed>>
          /\ opener' = cred["master"] /\ opened = {} /\ failed = {}
      BY <2>10 DEF expand_srv_groups, ParseInv, SocketsInv, Early
    <3>2. \A s \in Servers : srv'[s] = IF Contains(list, s) THEN SocketOwner(s) ELSE srv[s]
      BY <2>10 DEF expand_srv_groups
    <3>3. ASSUME NEW j \in DOMAIN list PROVE OwnerSet(conf, list[j], srv'[list[j]])
      <4>1. list[j] \in Servers /\ conf \in Configs
        BY DEF ParseInv
      <4>2. Contains(list, list[j])
        BY <4>1 DEF Contains, ParseInv
      <4>3. /\ PrivsRead(conf, list[j], privs[list[j]], End)
            /\ OwnerRead(conf, list[j], srv[list[j]], End)
        BY <3>1, <4>1 DEF ParseInv, ServersInv, MasterInv
      <4>4. QED
        BY <3>2, <4>1, <4>2, <4>3, OwnerCompleted DEF End
    <3>4. ListRead(conf, list, End)
      BY <3>1 DEF ParseInv, MasterInv
    <3>5. QED
      BY <3>1, <3>3, <3>4 DEF SocketsInv, ListRead, Early, Switching
  <2>11. CASE ServerOpened \/ ChownFails
    <3>1. /\ pc = "open" /\ at \in DOMAIN list /\ at \in Nat /\ Cur = list[at] /\ Cur \in Servers
      BY <2>11 DEF ServerOpened, ChownFails, ParseInv, Cur
    <3>2. /\ opened' = opened \cup {Cur} /\ at' = at + 1
          /\ UNCHANGED <<pc, conf, list, srv, cred, opener>>
          /\ \/ /\ files' = [files EXCEPT ![Cur] = SocketFile(Cur)]
                /\ failed' = failed
             \/ /\ files' = [files EXCEPT ![Cur] = Created]
                /\ failed' = failed \cup {Cur}
      BY <2>11 DEF ServerOpened, ChownFails, ghostVars
    <3>3. ASSUME opener.euid = 0, NEW s \in opened' \ Inet
          PROVE  FileSet(conf, s, files[s])'
      <4>1. CASE s = Cur /\ failed' = failed /\ files' = [files EXCEPT ![Cur] = SocketFile(Cur)]
        <5>1. s \notin failed' /\ files'[s] = SocketFile(s)
          BY <3>1, <4>1 DEF SocketsInv, ParseInv
        <5>2. FileRight(conf, s, SocketFile(s))
          BY <3>1, <3>3, <4>1, FileOwned DEF SocketsInv
        <5>3. QED
          BY <3>2, <5>1, <5>2 DEF FileSet
      <4>2. CASE s = Cur /\ failed' = failed \cup {Cur} /\ files' = [files EXCEPT ![Cur] = Created]
        BY <3>1, <3>2, <3>3, <4>2 DEF SocketsInv, FileSet, Created
      <4>3. CASE s # Cur
        BY <3>2, <3>3, <4>3 DEF SocketsInv, FileSet
      <4>4. QED
        BY <3>2, <4>1, <4>2, <4>3
    <3>7. ASSUME NEW j \in DOMAIN list, at + 1 <= j PROVE list[j] \notin failed'
      <4>1. j \in Nat /\ at <= j /\ j # at
        BY <3>1, <3>7 DEF ParseInv
      <4>2. list[j] \notin failed /\ list[j] # Cur
        BY <3>1, <4>1 DEF SocketsInv
      <4>3. QED
        BY <3>2, <4>2
    <3>4. ASSUME NEW s \in opened' PROVE \E j \in DOMAIN list : j < at + 1 /\ list[j] = s
      <4>1. CASE s = Cur
        BY <3>1, <4>1
      <4>2. CASE s \in opened
        <5>1. PICK j \in DOMAIN list : j < at /\ list[j] = s
          BY <3>1, <4>2 DEF SocketsInv
        <5>2. j \in Nat /\ j < at + 1
          BY <3>1, <5>1 DEF ParseInv
        <5>3. QED
          BY <5>1, <5>2
      <4>3. QED
        BY <3>2, <4>1, <4>2
    <3>5. DOMAIN files' = Servers /\ opened' \subseteq Servers /\ ~Early'
      BY <3>1, <3>2 DEF SocketsInv, Early, Switching
    <3>6. QED
      BY <3>1, <3>2, <3>3, <3>4, <3>5, <3>7 DEF SocketsInv
  <2>12. CASE ServerRefused \/ ServerFails
    <3>1. /\ pc = "open" /\ at \in DOMAIN list /\ at \in Nat /\ Cur = list[at] /\ Cur \in Servers
          /\ list \in Seq(Servers) /\ at >= 1 /\ at <= Len(list)
      BY <2>12 DEF ServerRefused, ServerFails, ParseInv, Cur
    <3>2. /\ list' = RemoveAt(list, at)
          /\ UNCHANGED <<pc, conf, at, srv, cred, opened, opener>>
          /\ failed' \subseteq failed \cup {Cur} /\ failed \subseteq failed'
          /\ files' = files \/ \E x : files' = [files EXCEPT ![Cur] = x]
      BY <2>12 DEF ServerRefused, ServerFails, ghostVars
    <3>3. /\ list' \in Seq(Servers)
          /\ DOMAIN list' = 1..(Len(list) - 1) /\ DOMAIN list = 1..Len(list)
          /\ \A j \in 1..(Len(list) - 1) : list'[j] = IF j < at THEN list[j] ELSE list[j + 1]
      BY <3>1, <3>2, ListShrinks
    <3>4. \A s \in opened : s # Cur
      BY <3>1, <3>3 DEF SocketsInv
    <3>5. \A s \in opened : files'[s] = files[s]
      BY <3>2, <3>4 DEF SocketsInv
    <3>6. ASSUME NEW j \in DOMAIN list' PROVE OwnerSet(conf, list'[j], srv[list'[j]])
      <4>1. PICK k \in DOMAIN list : list'[j] = list[k]
        BY <3>1, <3>3
      <4>2. OwnerSet(conf, list[k], srv[list[k]])
        BY <3>1 DEF SocketsInv
      <4>3. QED
        BY <4>1, <4>2
    <3>7. \A j, k \in DOMAIN list' : list'[j] = list'[k] => j = k
      <4>1. ASSUME NEW j \in DOMAIN list', NEW k \in DOMAIN list', list'[j] = list'[k]
            PROVE  j = k
        <5> DEFINE a == IF j < at THEN j ELSE j + 1
                   b == IF k < at THEN k ELSE k + 1
        <5>1. a \in DOMAIN list /\ b \in DOMAIN list /\ list[a] = list[b]
          BY <3>1, <3>3, <4>1
        <5>2. a = b
          BY <3>1, <5>1 DEF SocketsInv
        <5>3. QED
          BY <3>1, <3>3, <5>2
      <4>2. QED
        BY <4>1
    <3>8. ASSUME NEW s \in opened PROVE \E j \in DOMAIN list' : j < at /\ list'[j] = s
      <4>1. PICK j \in DOMAIN list : j < at /\ list[j] = s
        BY <3>1 DEF SocketsInv
      <4>2. j \in DOMAIN list' /\ list'[j] = s
        BY <3>1, <3>3, <4>1
      <4>3. QED
        BY <4>1, <4>2
    <3>11. \A s \in opened \ Inet : FileSet(conf, s, files[s])' <=> FileSet(conf, s, files[s])
      <4>1. \A s \in opened : s \in failed' <=> s \in failed
        BY <3>2, <3>4
      <4>2. QED
        BY <3>2, <3>5, <4>1 DEF FileSet
    <3>12. ASSUME NEW j \in DOMAIN list', at <= j PROVE list'[j] \notin failed'
      <4>1. j \in Nat /\ j + 1 \in DOMAIN list /\ list'[j] = list[j + 1] /\ at <= j + 1 /\ j + 1 # at
        BY <3>1, <3>3, <3>12
      <4>2. list[j + 1] \notin failed /\ list[j + 1] # Cur
        BY <3>1, <4>1 DEF SocketsInv
      <4>3. QED
        BY <3>2, <4>1, <4>2
    <3>9. DOMAIN files' = Servers /\ ~Early'
      BY <3>1, <3>2 DEF SocketsInv, Early, Switching
    <3>10. QED
      BY <3>1, <3>2, <3>6, <3>7, <3>8, <3>9, <3>11, <3>12 DEF SocketsInv
  <2>13. ASSUME NEW s \in Servers, SessionStart(s) PROVE SocketsInv'
    <3>1. /\ who' = s /\ UNCHANGED <<conf, opened, files, opener, failed>>
          /\ pc' = BeginSwitch(cred["master"], privs[s])
      BY <2>13 DEF SessionStart
    <3>2. s # "global"
      BY StartupAssumption
    <3>3. QED
      BY <2>1, <3>1, <3>2 DEF BeginSwitch, Switched, Early
  <2>14. CASE Restart
    BY <2>14 DEF Restart, SocketsInv, Early, Switching
  <2>15. CASE UNCHANGED vars
    <3>1. UNCHANGED <<pc, conf, at, list, srv, who, cred, opened, files, opener, failed>>
      BY <2>15 DEF vars, confVars, ghostVars
    <3>2. QED
      BY <3>1 DEF SocketsInv, Early, FileSet
  <2>16. QED
    BY <2>3, <2>4, <2>6, <2>7, <2>8, <2>9, <2>10, <2>11, <2>12, <2>13, <2>14, <2>15 DEF Next
<1>3. QED
  BY <1>1, <1>2, ParseInvCorrect, PTL DEF Spec

(* A socket opened by root belongs to the owner that socket-owner names    *)
(* or, where it names neither part, to the user of the server's sessions   *)
(* (cfg_srv_chown, expand_srv_groups, server_prep), or to root if chown    *)
(* has failed.                                                             *)
THEOREM OwnerAsConfiguredCorrect == Spec => []OwnerAsConfigured
<1>1. SocketsInv => OwnerAsConfigured
  BY DEF SocketsInv, OwnerAsConfigured, FileSet, FileRight, OwnedBy
<1>2. QED
  BY <1>1, SocketsInvCorrect, PTL

-----------------------------------------------------------------------------
(* Restarts.                                                               *)

(* The user the sockets are opened by when smapd is started as c: the one  *)
(* of the global scope if there is one and c may switch.                   *)
GlobalUid(f) == UidOf(f, UserLines(f, "global"))
Changes(f, c) == c.rgid = 0 /\ GlobalUid(f) # 0
RunsAs(f, c) == IF Changes(f, c) THEN GlobalUid(f) ELSE c.euid

MayOpen(s, u) == u \in MayBind[s] \cup {0}
Ids(f) == {f[i].id : i \in Declared(f, Len(f) + 1)}

(* A start as c opens sockets as the first start did, unless that is root. *)
Steady(f, first, c) == RunsAs(f, first) = 0 \/ RunsAs(f, c) = RunsAs(f, first)
Settled(f, first, c) == RunsAs(f, c) = c.euid /\ Steady(f, first, c)
Able(f, S, c) == \A s \in S : MayOpen(s, RunsAs(f, c))

Late == pc \in {"open", "serve", "loop"} \/ (pc \in Switching /\ who # "global")

(* A server that is wanted back and has not been tried yet.                *)
Awaited(s) == \E j \in DOMAIN list : at <= j /\ list[j] = s

RestartInv ==
  /\ before \subseteq Ids(conf) /\ opened \subseteq Ids(conf)
  /\ \A s \in opened : MayOpen(s, opener.euid) /\ Settled(conf, start, opener)
  /\ pc = "read" =>
       Steady(conf, start, cred["master"]) /\ Able(conf, before, cred["master"])
  /\ Early /\ pc # "read" =>
       /\ Steady(conf, start, was) /\ Able(conf, before, was)
       /\ pc \in Switching => was.rgid = 0
       /\ pc = "expand" /\ ~Changes(conf, was) => cred["master"] = was
  /\ Late => /\ Steady(conf, start, cred["master"])
             /\ RunsAs(conf, start) # 0 => cred["master"].euid # 0
  /\ pc = "open" =>
       /\ Settled(conf, start, opener) /\ Able(conf, before, opener)
       /\ \A j \in DOMAIN list : list[j] \in Ids(conf)
       /\ \A s \in before : Reuse(s) => s \in opened \cup failed \/ Awaited(s)
  /\ Late /\ pc # "open" => \A s \in before : Reuse(s) => s \in opened \cup failed

(* A process that is not root keeps its user and its group whatever it     *)
(* calls, also in a session of single-process mode.                        *)
LEMMA OnlyRootChanges ==
  ASSUME SwitchInv, Me.euid # 0, NEW call \in Switching, NEW c, SystemCall(call, c),
         SetGroups \/ SetEgid \/ SetGid \/ SetUid \/ SetUidAgain \/ SetUidFails
           \/ Verify
  PROVE  /\ cred'["master"].euid = cred["master"].euid
         /\ cred'["master"].rgid = cred["master"].rgid
<1>1. Proc \in Procs /\ Uniform(Me) /\ DOMAIN cred = Procs /\ "master" \in Procs
  BY StartupAssumption DEF SwitchInv, Proc, Procs, Scopes, Me
<1>2. ASSUME NEW k, NEW d, SystemCall(k, d), d.euid = Me.euid, d.rgid = Me.rgid
      PROVE  /\ cred'["master"].euid = cred["master"].euid
             /\ cred'["master"].rgid = cred["master"].rgid
  <2>1. cred' = [cred EXCEPT ![Proc] = d]
    BY <1>2 DEF SystemCall
  <2>2. QED
    BY <1>1, <1>2, <2>1 DEF Me
<1>3. CASE SetGroups
  BY <1>2, <1>3 DEF SetGroups
<1>4. CASE SetEgid
  <2> DEFINE d == [Me EXCEPT !.egid = Target.gids[1]]
  <2>1. d.euid = Me.euid /\ d.rgid = Me.rgid
    BY <1>1 DEF Uniform
  <2>2. SystemCall("setegid", d)
    BY <1>4 DEF SetEgid
  <2>3. QED
    BY <1>2, <2>1, <2>2
<1>5. CASE SetGid
  <2> DEFINE d == [Me EXCEPT !.egid = Target.gids[1]]
  <2>1. d.euid = Me.euid /\ d.rgid = Me.rgid
    BY <1>1 DEF Uniform
  <2>2. SystemCall("setgid", d)
    BY <1>5 DEF SetGid
  <2>3. QED
    BY <1>2, <2>1, <2>2
<1>6. CASE SetUid
  <2> DEFINE d == [Me EXCEPT !.euid = Target.uid]
  <2>1. Target.uid = Me.euid
    BY <1>1, <1>6 DEF SetUid, MaySetUid, Uniform
  <2>2. d.euid = Me.euid /\ d.rgid = Me.rgid
    BY <1>1, <2>1 DEF Uniform
  <2>3. SystemCall("setuid", d)
    BY <1>6 DEF SetUid, AfterSetUid
  <2>4. QED
    BY <1>2, <2>2, <2>3
<1>7. CASE SetUidAgain
  BY <1>7 DEF SetUidAgain
<1>8. CASE Verify
  <2>1. ~MaySetUid(Me, 0)
    BY <1>1 DEF MaySetUid, Uniform
  <2>2. QED
    BY <1>2, <1>8, <2>1 DEF Verify, TakeRoot
<1>10. CASE SetUidFails
  <2>1. PICK d \in HalfSwitched(Me, Target.uid) : SystemCall("setuid", TakeRoot(d))
    BY <1>10 DEF SetUidFails
  <2>2. TakeRoot(d).euid = Me.euid /\ TakeRoot(d).rgid = Me.rgid
    BY <1>1, UniformAfterFailure
  <2>3. QED
    BY <1>2, <2>1, <2>2
<1>9. QED
  BY <1>3, <1>4, <1>5, <1>6, <1>7, <1>8, <1>10

(* With the privileges given up, the identity is the one RunsAs foresees.  *)
LEMMA IdentitySettled ==
  ASSUME ParseInv, SwitchInv, RestartInv, pc = "expand"
  PROVE  /\ cred["master"].euid = RunsAs(conf, was)
         /\ RunsAs(conf, cred["master"]) = RunsAs(conf, was)
<1>1. who = "global" /\ conf \in Configs /\ Early /\ pc # "read"
  BY DEF ParseInv, Early
<1>2. Target.uid = GlobalUid(conf) /\ Me = cred["master"]
  BY <1>1, AllOfFile DEF ParseInv, MasterInv, Target, Me, Proc, GlobalUid, End
<1>3. CASE Changes(conf, was)
  <2>1. {Me.ruid, Me.euid, Me.suid} = {Target.uid}
    BY <1>2, <1>3 DEF SwitchInv, SwitchedForGood, Changes
  <2>2. Me.euid = Target.uid
    BY <2>1
  <2>3. QED
    BY <1>2, <1>3, <2>2 DEF RunsAs
<1>4. CASE ~Changes(conf, was)
  BY <1>1, <1>4 DEF RestartInv, RunsAs
<1>5. QED
  BY <1>3, <1>4

(* What has been opened once may be opened again.                          *)
LEMMA RestartInvCorrect == Spec => []RestartInv
<1>1. Init => RestartInv
  <2> SUFFICES ASSUME Init PROVE RestartInv
    OBVIOUS
  <2>1. /\ pc = "read" /\ opened = {} /\ before = {} /\ cred["master"] = start
    BY DEF Init, Procs
  <2>2. QED
    BY <2>1 DEF RestartInv, Early, Late, Steady, Able, Switching
<1>2. ParseInv /\ SwitchInv /\ SocketsInv /\ RestartInv /\ [Next]_vars => RestartInv'
  <2> SUFFICES ASSUME ParseInv, SwitchInv, SocketsInv, RestartInv, [Next]_vars
               PROVE  RestartInv'
    OBVIOUS
  <2> DEFINE m == "master"
  <2>1. conf \in Configs /\ at \in Nat \ {0} /\ list \in Seq(Servers)
    BY DEF ParseInv
  <2>2. CASE \/ ReadUser \/ ReadGroup \/ ReadAllgroups \/ ReadReuseaddr
             \/ ReadSocketOwner \/ ReadServer \/ ReadEnd \/ ReadError
    <3>1. PICK kw : Reading(kw)
      BY <2>2 DEF ReadUser, ReadGroup, ReadAllgroups, ReadReuseaddr,
         ReadSocketOwner, ReadServer, ReadEnd, ReadError
    <3>2. /\ pc = "read" /\ pc' = "read"
          /\ UNCHANGED <<conf, cred, start, before, opened, opener>>
      BY <3>1 DEF Reading, ghostVars
    <3>3. QED
      BY <3>2 DEF RestartInv, Early, Late, Switching
  <2>3. CASE ReadAllgroupsCrash
    <3>1. /\ pc' = "crashed" /\ UNCHANGED <<conf, start, before, opened, opener>>
      BY <2>3 DEF ReadAllgroupsCrash, ghostVars
    <3>2. QED
      BY <3>1 DEF RestartInv, Early, Late, Switching
  <2>4. CASE EndOfFile
    <3>1. /\ pc = "read" /\ who' = "global"
          /\ UNCHANGED <<conf, cred, start, before, opened, opener>>
      BY <2>4 DEF EndOfFile
    <3>2. CASE errors
      <4>1. pc' = "exit"
        BY <2>4, <3>2 DEF EndOfFile
      <4>2. QED
        BY <3>1, <4>1 DEF RestartInv, Early, Late, Switching
    <3>3. CASE ~errors
      <4>1. PICK pi : /\ pc' = BeginSwitch(cred[m], pi) /\ was' = cred[m]
                      /\ privs' = [privs EXCEPT !["global"] = pi]
        BY <2>4, <3>3 DEF EndOfFile
      <4>2. privs'["global"] = pi /\ "global" \in Scopes
        BY <4>1 DEF ParseInv, Scopes
      <4>3. ParseInv'
        BY <2>4, <3>3, MasterReady
      <4>4. pc' = IF cred[m].rgid = 0 /\ pi.uid # 0 THEN "setgroups" ELSE "expand"
        BY <3>1, <4>1 DEF BeginSwitch, Switched
      <4>5. pi.uid = GlobalUid(conf)
        BY <2>1, <3>1, <4>2, <4>3, <4>4, AllOfFile
           DEF ParseInv, MasterInv, Switching, GlobalUid, End
      <4>6. QED
        BY <3>1, <4>1, <4>4, <4>5 DEF RestartInv, Early, Late, Switching, Changes
    <3>4. QED
      BY <3>2, <3>3
  <2>5. ASSUME NEW call \in Switching, NEW c, SystemCall(call, c),
               pc' \in Switching \cup {Switched, NotSwitched},
               SetGroups \/ SetEgid \/ SetGid \/ SetUid \/ SetUidAgain \/ SetUidFails
           \/ Verify
        PROVE  RestartInv'
    <3>1. /\ pc \in Switching
          /\ UNCHANGED <<conf, list, srv, reuse, who, start, was, before, opened, failed, opener>>
      BY <2>5 DEF SystemCall, ghostVars, confVars
    <3>2. pc' \in Switching \/ pc' = Switched \/ pc' = NotSwitched
      BY <2>5
    <3>3. Target.uid # 0
      BY <3>1 DEF SwitchInv
    <3>4. CASE who = "global"
      <4>1. Early /\ pc # "read" /\ ~Late' /\ pc' \notin {"read", "open"}
        BY <3>1, <3>2, <3>4 DEF Early, Late, Switching, Switched, NotSwitched
      <4>2. Target.uid = GlobalUid(conf)
        BY <2>1, <3>1, <3>4, AllOfFile DEF ParseInv, MasterInv, Target, GlobalUid, End
      <4>3. Changes(conf, was)
        BY <3>1, <3>3, <4>1, <4>2 DEF RestartInv, Changes
      <4>4. QED
        BY <3>1, <4>1, <4>3 DEF RestartInv
    <3>5. CASE who # "global"
      <4>1. Late /\ pc # "open" /\ ~Early' /\ Late' /\ pc' \notin {"read", "open"}
        BY <3>1, <3>2, <3>5 DEF Early, Late, Switching, Switched, NotSwitched
      <4>2. Steady(conf, start, cred'[m]) /\ (RunsAs(conf, start) # 0 => cred'[m].euid # 0)
        <5>1. CASE RunsAs(conf, start) = 0
          BY <5>1 DEF Steady
        <5>2. CASE RunsAs(conf, start) # 0
          <6>1. cred[m].euid # 0 /\ Steady(conf, start, cred[m])
            BY <4>1, <5>2 DEF RestartInv
          <6>2. cred'[m].euid = cred[m].euid /\ cred'[m].rgid = cred[m].rgid
            <7>1. CASE Proc = m
              BY <2>5, <6>1, <7>1, OnlyRootChanges DEF Me
            <7>2. CASE Proc # m
              <8>1. cred' = [cred EXCEPT ![Proc] = c]
                BY <2>5 DEF SystemCall
              <8>2. QED
                BY <7>2, <8>1 DEF SwitchInv, Procs
            <7>3. QED
              BY <7>1, <7>2
          <6>3. RunsAs(conf, cred'[m]) = RunsAs(conf, cred[m])
            BY <6>2 DEF RunsAs, Changes
          <6>4. QED
            BY <6>1, <6>2, <6>3 DEF Steady
        <5>3. QED
          BY <5>1, <5>2
      <4>3. \A s : Reuse(s)' = Reuse(s)
        BY <3>1 DEF Reuse
      <4>4. QED
        BY <3>1, <4>1, <4>2, <4>3 DEF RestartInv
    <3>6. QED
      BY <3>4, <3>5
  <2>6. CASE SetGroups
    BY <2>5, <2>6 DEF SetGroups, Switching
  <2>7. CASE SetEgid
    BY <2>5, <2>7 DEF SetEgid, Switching
  <2>8. CASE SetGid
    BY <2>5, <2>8 DEF SetGid, Switching
  <2>9. CASE SetUid \/ SetUidAgain \/ SetUidFails
    BY <2>5, <2>9 DEF SetUid, SetUidAgain, SetUidFails, Switching
  <2>10. CASE Verify
    BY <2>5, <2>10 DEF Verify, Switching
  <2>11. ASSUME Late \/ pc' = "exit", pc # "open" \/ pc' = "exit",
                UNCHANGED <<conf, srv, reuse, start, before, opened, failed, opener>>,
                pc' = "exit" \/ (Late' /\ pc' # "open"), cred'[m] = cred[m]
         PROVE  RestartInv'
    <3>1. \A s : Reuse(s)' = Reuse(s)
      BY <2>11 DEF Reuse
    <3>2. ~Early' /\ pc' \notin {"read", "open"}
      BY <2>11 DEF Early, Late, Switching
    <3>3. CASE pc' = "exit"
      BY <2>11, <3>2, <3>3 DEF RestartInv, Late, Switching
    <3>4. CASE pc' # "exit"
      BY <2>11, <3>1, <3>2, <3>4 DEF RestartInv
    <3>5. QED
      BY <3>3, <3>4
  <2>12. CASE SwitchFails \/ SessionEnd \/ Terminate
    <3>1. UNCHANGED <<conf, srv, reuse, cred, who, start, before, opened, failed, opener>>
      BY <2>12 DEF SwitchFails, SessionEnd, Terminate, confVars, ghostVars
    <3>2. \/ pc' = "exit"
          \/ Late /\ pc # "open" /\ pc' = "serve"
      BY <2>12 DEF SwitchFails, SessionEnd, Terminate, NotSwitched, Late, Switching
    <3>3. QED
      BY <2>11, <3>1, <3>2 DEF Late
  <2>13. ASSUME NEW s \in Servers, SessionStart(s) PROVE RestartInv'
    <3>1. /\ pc = "serve" /\ who' = s
          /\ UNCHANGED <<conf, srv, reuse, start, before, opened, failed, opener>>
          /\ cred' = [cred EXCEPT ![s] = cred[m]]
          /\ pc' = BeginSwitch(cred[m], privs[s])
      BY <2>13 DEF SessionStart, confVars
    <3>2. s # "global" /\ s # m
      BY StartupAssumption
    <3>3. cred'[m] = cred[m]
      BY <3>1, <3>2 DEF SwitchInv, Procs
    <3>4. pc' \in {"setgroups", "loop"}
      BY <3>1, <3>2 DEF BeginSwitch, Switched
    <3>5. Late /\ pc # "open" /\ Late' /\ pc' # "open"
      BY <3>1, <3>2, <3>4 DEF Late, Switching
    <3>6. QED
      BY <2>11, <3>1, <3>3, <3>5
  <2>14. CASE expand_srv_groups
    <3>1. /\ pc = "expand" /\ pc' = "open" /\ at' = 1 /\ who = "global" /\ who' = who
          /\ UNCHANGED <<conf, list, cred, start, before, opened>> /\ opener' = cred[m]
          /\ opened = {} /\ Early /\ pc # "read" /\ Late' /\ ~Early'
      BY <2>14 DEF expand_srv_groups, ParseInv, SocketsInv, Early, Late, Switching
    <3>2. cred[m].euid = RunsAs(conf, was) /\ RunsAs(conf, cred[m]) = RunsAs(conf, was)
      BY <3>1, IdentitySettled
    <3>3. Steady(conf, start, was) /\ Able(conf, before, was)
      BY <3>1 DEF RestartInv
    <3>4. /\ Settled(conf, start, cred[m]) /\ Able(conf, before, cred[m])
          /\ Steady(conf, start, cred[m])
          /\ RunsAs(conf, start) # 0 => cred[m].euid # 0
      BY <3>2, <3>3 DEF Settled, Steady, Able
    <3>5. ListRead(conf, list, End)
      BY <3>1 DEF ParseInv, MasterInv
    <3>6. \A j \in DOMAIN list : list[j] \in Ids(conf)
      BY <3>5 DEF ListRead, Ids, End
    <3>7. ASSUME NEW s \in before PROVE \E j \in DOMAIN list : 1 <= j /\ list[j] = s
      <4>1. PICK i \in Declared(conf, End) : conf[i].id = s
        BY DEF RestartInv, Ids, End
      <4>2. PICK j \in DOMAIN list : list[j] = s
        BY <3>5, <4>1 DEF ListRead
      <4>3. QED
        BY <2>1, <4>2
    <3>8. QED
      BY <3>1, <3>4, <3>6, <3>7 DEF RestartInv, Awaited
  <2>15. ASSUME pc = "open", pc' = "open", at <= Len(list), list' \in Seq(Servers),
                UNCHANGED <<conf, srv, reuse, cred, start, before, opener>>,
                \A j \in DOMAIN list' : list'[j] \in Ids(conf),
                opened' = opened \/ (Allowed(Cur) /\ opened' = opened \cup {Cur}),
                \A s \in before : Reuse(s) => s \in opened' \cup failed' \/ Awaited(s)'
         PROVE  RestartInv'
    <3>1. Cur \in Ids(conf) /\ Settled(conf, start, opener) /\ cred[m] = opener
      BY <2>1, <2>15 DEF RestartInv, Cur, SocketsInv
    <3>2. /\ opened' \subseteq Ids(conf)
          /\ \A s \in opened' : MayOpen(s, opener.euid) /\ Settled(conf, start, opener)
      BY <2>15, <3>1 DEF RestartInv, Allowed, MayOpen
    <3>3. ~Early' /\ Late /\ pc' # "read"
      BY <2>15 DEF Early, Late, Switching
    <3>4. \A s : Reuse(s)' = Reuse(s)
      BY <2>15 DEF Reuse
    <3>5. QED
      BY <2>15, <3>2, <3>3, <3>4 DEF RestartInv
  <2>16. CASE ServerOpened \/ ChownFails
    <3>1. /\ pc = "open" /\ pc' = "open" /\ at <= Len(list) /\ Allowed(Cur)
          /\ opened' = opened \cup {Cur} /\ at' = at + 1
          /\ UNCHANGED <<conf, list, srv, reuse, cred, start, before, opener>>
          /\ failed \subseteq failed'
      BY <2>16 DEF ServerOpened, ChownFails, ghostVars
    <3>2. ASSUME NEW s \in before, Reuse(s)
          PROVE  s \in opened' \cup failed' \/ Awaited(s)'
      <4>1. s \in opened \cup failed \/ Awaited(s)
        BY <3>1, <3>2 DEF RestartInv
      <4>2. CASE Awaited(s)
        <5>1. PICK j \in DOMAIN list : at <= j /\ list[j] = s
          BY <4>2 DEF Awaited
        <5>2. CASE j = at
          BY <3>1, <5>1, <5>2 DEF Cur
        <5>3. CASE j # at
          <6>1. at + 1 <= j
            BY <2>1, <5>1, <5>3
          <6>2. QED
            BY <3>1, <5>1, <6>1 DEF Awaited
        <5>4. QED
          BY <5>2, <5>3
      <4>3. QED
        BY <3>1, <4>1, <4>2
    <3>3. \A j \in DOMAIN list : list[j] \in Ids(conf)
      BY <3>1 DEF RestartInv
    <3>4. QED
      BY <2>1, <2>15, <3>1, <3>2, <3>3
  <2>17. CASE ServerRefused \/ ServerFails
    <3>1. /\ pc = "open" /\ pc' = "open" /\ at <= Len(list)
          /\ opened' = opened /\ at' = at /\ list' = RemoveAt(list, at)
          /\ UNCHANGED <<conf, srv, reuse, cred, start, before, opener>>
          /\ failed \subseteq failed'
          /\ \/ Cur \in failed'
             \/ ~Allowed(Cur) \/ Blocked(Cur)
      BY <2>17 DEF ServerRefused, ServerFails, ghostVars
    <3>2. /\ list' \in Seq(Servers) /\ Len(list) \in Nat /\ DOMAIN list = 1..Len(list)
          /\ DOMAIN list' = 1..(Len(list) - 1)
          /\ \A j \in 1..(Len(list) - 1) : list'[j] = IF j < at THEN list[j] ELSE list[j + 1]
      BY <2>1, <3>1, ListShrinks, SMTT(60)
    <3>3. \A j \in DOMAIN list' : list'[j] \in Ids(conf)
      <4>1. ASSUME NEW j \in DOMAIN list' PROVE list'[j] \in Ids(conf)
        <5>1. PICK k \in DOMAIN list : list'[j] = list[k]
          BY <2>1, <3>2
        <5>2. QED
          BY <3>1, <5>1 DEF RestartInv
      <4>2. QED
        BY <4>1
    <3>4. ASSUME Cur \in before, Reuse(Cur) PROVE Cur \in failed'
      <4>1. cred[m] = opener /\ Settled(conf, start, opener) /\ Able(conf, before, opener)
        BY <3>1 DEF RestartInv, SocketsInv
      <4>2. MayOpen(Cur, opener.euid)
        BY <3>4, <4>1 DEF Able, Settled
      <4>3. Allowed(Cur) /\ ~Blocked(Cur)
        BY <3>4, <4>1, <4>2 DEF Allowed, MayOpen, Blocked
      <4>4. QED
        BY <3>1, <4>3
    <3>5. ASSUME NEW s \in before, Reuse(s)
          PROVE  s \in opened' \cup failed' \/ Awaited(s)'
      <4>1. s \in opened \cup failed \/ Awaited(s)
        BY <3>1, <3>5 DEF RestartInv
      <4>2. CASE Awaited(s)
        <5>1. PICK j \in DOMAIN list : at <= j /\ list[j] = s
          BY <4>2 DEF Awaited
        <5>2. CASE j = at
          BY <3>4, <3>5, <5>1, <5>2 DEF Cur
        <5>3. CASE j # at
          <6>1. j - 1 \in 1..(Len(list) - 1) /\ at <= j - 1 /\ ~(j - 1 < at) /\ (j - 1) + 1 = j
            BY <2>1, <3>2, <5>1, <5>3
          <6>2. list'[j - 1] = s
            BY <3>2, <5>1, <6>1
          <6>3. QED
            BY <3>1, <3>2, <6>1, <6>2 DEF Awaited
        <5>4. QED
          BY <5>2, <5>3
      <4>3. QED
        BY <3>1, <4>1, <4>2
    <3>6. QED
      BY <2>15, <3>1, <3>2, <3>3, <3>5
  <2>18. CASE OpenDone
    <3>1. /\ pc = "open" /\ at > Len(list) /\ pc' \in {"exit", "serve"}
          /\ UNCHANGED <<conf, srv, reuse, cred, start, before, opened, failed, opener>>
      BY <2>18 DEF OpenDone, confVars, ghostVars
    <3>2. \A s : ~Awaited(s)
      BY <2>1, <3>1 DEF Awaited
    <3>3. \A s : Reuse(s)' = Reuse(s)
      BY <3>1 DEF Reuse
    <3>4. /\ \A s \in before : Reuse(s) => s \in opened \cup failed
          /\ Late /\ ~Early' /\ pc' \notin {"read", "open"}
      BY <3>1, <3>2 DEF RestartInv, Late, Early, Switching
    <3>5. QED
      BY <3>1, <3>3, <3>4 DEF RestartInv
  <2>19. CASE Restart
    <3>1. /\ pc \in {"serve", "exit"} /\ pc' = "read" /\ opened' = {}
          /\ UNCHANGED <<conf, start, opener>>
      BY <2>19 DEF Restart
    <3>2. PICK c \in {start} \cup (IF pc = "serve" THEN {cred[m]} ELSE {}) :
            cred' = [p \in Procs |-> c] /\ before' = IF c \in {start, opener} THEN opened ELSE {}
      BY <2>19 DEF Restart
    <3>3. cred'[m] = c /\ before' \subseteq opened
      BY <3>2 DEF Procs
    <3>4. Steady(conf, start, c)
      BY <3>2 DEF RestartInv, Late, Steady
    <3>5. ASSUME NEW s \in before' PROVE MayOpen(s, RunsAs(conf, c))
      <4>1. c \in {start, opener} /\ MayOpen(s, opener.euid) /\ Settled(conf, start, opener)
        BY <3>2, <3>5 DEF RestartInv
      <4>2. QED
        BY <4>1 DEF Settled, Steady, MayOpen
    <3>6. ~Late' /\ pc' # "open"
      BY <3>1 DEF Late, Switching
    <3>7. before' \subseteq Ids(conf)
      BY <3>3 DEF RestartInv
    <3>8. Able(conf, before', c)
      BY <3>5 DEF Able
    <3>9. QED
      BY <3>1, <3>3, <3>4, <3>6, <3>7, <3>8 DEF RestartInv
  <2>20. CASE UNCHANGED vars
    <3>1. UNCHANGED <<pc, conf, at, list, srv, reuse, who, cred, start, was, before,
                      opened, failed, opener>>
      BY <2>20 DEF vars, confVars, ghostVars
    <3>2. /\ \A s : Reuse(s)' = Reuse(s) /\ Awaited(s)' = Awaited(s)
          /\ Early' = Early /\ Late' = Late
      BY <3>1 DEF Reuse, Awaited, Early, Late
    <3>3. QED
      BY <3>1, <3>2 DEF RestartInv
  <2>21. QED
    BY <2>2, <2>3, <2>4, <2>6, <2>7, <2>8, <2>9, <2>10, <2>12, <2>13, <2>14, <2>16,
       <2>17, <2>18, <2>19, <2>20 DEF Next
<1>3. QED
  BY <1>1, <1>2, ParseInvCorrect, SwitchInvCorrect, SocketsInvCorrect, PTL DEF Spec

(* A restart opens the servers again that the same identity has opened     *)
(* before, unless one keeps what exists or a system call fails, after any  *)
(* number of restarts and sessions (server_prep, smap_daemon).             *)
THEOREM RestartReopensCorrect == Spec => []RestartReopens
<1>1. RestartInv => RestartReopens
  BY DEF RestartInv, RestartReopens, Late
<1>2. QED
  BY <1>1, RestartInvCorrect, PTL
=============================================================================
