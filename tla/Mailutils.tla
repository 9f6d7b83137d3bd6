----------------------------- MODULE Mailutils -----------------------------
(***************************************************************************)
(* modules/mailutils/mailutils.c: a database in mode auth or mbq.  A mbq   *)
(* query looks at the mailbox with the identity of its owner; its steps    *)
(* are separate actions, since each of them may fail.  GNU mailutils is    *)
(* external.  Sizes are numbers of Width bits, as mu_off_t plus size_t     *)
(* is computed modulo 2^64.  A reply template is "ok" or, when wordsplit   *)
(* cannot expand it, "bad".                                                *)
(***************************************************************************)
EXTENDS Naturals

CONSTANTS
    Width,          \* bits of a size
    MuUsers,        \* accounts: records [uid, change_uid, quota]
    MuStatements,   \* database statements: [mode, pos, neg, err, cfg]
    MuQueries       \* bound on the queries of a behaviour

Sizes == 0 .. 2^Width - 1

VARIABLES
    stmt,       \* the database: mode and templates
    ruid,       \* the identity smapd runs with
    euid,       \* the effective one now
    mupc,       \* next step of the module
    res,        \* struct _mu_smap_result
    said,       \* the reply to the last query: which, "none" if there is none
    mun         \* number of queries so far

muvars == <<stmt, ruid, euid, mupc, res, said, mun>>

NoAuth == [uid |-> "none", change_uid |-> FALSE, quota |-> 0]
Res0   == [auth |-> NoAuth, msgsize |-> 0, mbsize |-> 0]

MuInit ==
    /\ stmt \in MuStatements
    /\ ruid \in {"root", "smap"}
    /\ euid = ruid
    /\ mupc = "closed"
    /\ res = Res0
    /\ said = "none"
    /\ mun = 0

\* A configuration file of the database is parsed when it is opened; it
\* changes the default replies only of databases declared later.
mod_mailutils_open ==
    /\ mupc = "closed"
    /\ mupc' \in IF stmt.cfg THEN {"closed", "idle"} ELSE {"idle"}
    /\ UNCHANGED <<stmt, ruid, euid, res, said, mun>>

expand_reply_text(which) == IF stmt[which] = "ok" THEN which ELSE "none"

_mu_auth_query ==
    /\ mupc = "idle" /\ stmt.mode = "auth" /\ mun < MuQueries
    /\ \E auth \in MuUsers \cup {NoAuth} :
         said' = expand_reply_text(IF auth = NoAuth THEN "neg" ELSE "pos")
    /\ mun' = mun + 1
    /\ UNCHANGED <<stmt, ruid, euid, mupc, res>>

-----------------------------------------------------------------------------
(***************************************************************************)
(* The mailbox quota.                                                      *)
(***************************************************************************)

\* The key is a user name and, after a blank, the size of the message; 0
\* stands for no size, for one that is no number and for SIZE=0.
_mu_mbq_query ==
    /\ mupc = "idle" /\ stmt.mode = "mbq" /\ mun < MuQueries
    /\ \E size \in Sizes : res' = [Res0 EXCEPT !.msgsize = size]
    /\ mupc' = "auth"
    /\ said' = "none"
    /\ mun' = mun + 1
    /\ UNCHANGED <<stmt, ruid, euid>>

\* setreuid(0, uid): only for a process whose real or effective user is root.
switch_user_id(auth, uid) ==
    IF ~auth.change_uid THEN {euid}
    ELSE IF ruid = "root" THEN {uid} ELSE {}

\* checksize: an unknown user, or an identity that cannot be taken, is an
\* error of the query.
checksize ==
    /\ mupc = "auth"
    /\ \E auth \in MuUsers \cup {NoAuth} :
         IF auth = NoAuth \/ switch_user_id(auth, auth.uid) = {}
         THEN mupc' = "error" /\ UNCHANGED <<euid, res>>
         ELSE /\ euid' \in switch_user_id(auth, auth.uid)
              /\ res' = [res EXCEPT !.auth = auth]
              /\ mupc' = "mailbox"
    /\ UNCHANGED <<stmt, ruid, said, mun>>

\* mu_mailbox_create_default, mu_mailbox_open and mu_mailbox_get_size.
MailboxFails ==
    /\ mupc = "mailbox"
    /\ mupc' = "restore"
    /\ UNCHANGED <<stmt, ruid, euid, res, said, mun>>

\* The sum is unsigned and may wrap.
OverQuota(size, auth, msgsize) ==
    size >= auth.quota \/ (msgsize # 0 /\ (size + msgsize) % 2^Width >= auth.quota)

checksize_user ==
    /\ mupc = "mailbox"
    /\ \E size \in Sizes :
         /\ res' = [res EXCEPT !.mbsize = size]
         /\ LET which == IF res.auth.quota # 0 /\ OverQuota(size, res.auth, res.msgsize)
                         THEN "neg" ELSE "pos"
            IN  /\ said' = expand_reply_text(which)
                /\ mupc' = IF said' = "none" THEN "failed" ELSE "replied"
    /\ UNCHANGED <<stmt, ruid, euid, mun>>

\* Fault: the identity is taken back only after a reply.
Restored_OnReply == IF mupc = "replied" /\ res.auth.change_uid THEN "root" ELSE euid

\* switch_user_id(auth, 0), whatever happened to the mailbox.
Restored == IF res.auth.change_uid THEN "root" ELSE euid

\* The end of checksize.  A failure to read the mailbox is answered with
\* onerror-reply, one to expand the reply is not answered.
RestoreUser ==
    /\ mupc \in {"restore", "replied", "failed"}
    /\ euid' = Restored
    /\ mupc' = IF mupc = "restore" THEN "error" ELSE "idle"
    /\ UNCHANGED <<stmt, ruid, res, said, mun>>

OnError ==
    /\ mupc = "error"
    /\ said' = expand_reply_text("err")
    /\ mupc' = "idle"
    /\ UNCHANGED <<stmt, ruid, euid, res, mun>>

MuNext ==
    \/ mod_mailutils_open \/ _mu_auth_query \/ _mu_mbq_query \/ checksize
    \/ MailboxFails \/ checksize_user \/ RestoreUser \/ OnError

MuSpec == MuInit /\ [][MuNext]_muvars

-----------------------------------------------------------------------------
(***************************************************************************)
(* Properties.                                                             *)
(***************************************************************************)

\* Whatever fails while a mailbox is looked at, smapd has its own identity
\* again before it replies with an error and before the next query, and only
\* the mailbox is ever read with another (checksize, switch_user_id).
IdentityRestored ==
    mupc \in {"closed", "idle", "auth", "error"} => euid = ruid
=============================================================================
