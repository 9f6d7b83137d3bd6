-------------------------------- MODULE Smapc --------------------------------
(***************************************************************************)
(* The client smapc: initialization file, command line, commands and       *)
(* queries (src/src/smapc.c).  What travels over the connection is in      *)
(* SockMap.                                                                *)
(*                                                                         *)
(* An input line is [ch, words]: ch is the punctuation character it begins *)
(* with, or "", words are what follows.  Line editing, history, source     *)
(* address, prompt and the commands that only print something are left     *)
(* out, and so are lines without effect.                                   *)
(***************************************************************************)
EXTENDS Naturals, Sequences, SequencesExt

CONSTANTS
    Urls,       \* servers, by URL; the other arguments of open are no URLs
    Lines,      \* lines of the initialization file and of the standard input
    CmdLines,   \* [url, map, key, server, norc]: "" for what is not given
    MaxRc,      \* lines of the initialization file
    MaxInput    \* lines typed

VARIABLES
    cmdline,           \* the command line
    stage,          \* "rc", "loop", "main" or "exit"
    lines,          \* lines read in this loop
    iostr,          \* the stream: descriptor it is made of, or 0
    curserver, curmap,
    cmdprefix,      \* "" for none
    save_cmdprefix,
    peer,           \* the server behind each open descriptor
    query,          \* the last query sent: [to, map, key]
    status          \* of exit

cvars == <<cmdline, stage, lines, iostr, curserver, curmap, cmdprefix, save_cmdprefix,
           peer, query, status>>

NULL == ""

\* The marks for a closed descriptor and for one that leads nowhere are no URLs.
ASSUME UrlsAssumption == NULL \notin Urls /\ "leaked" \notin Urls

NoQuery == [to |-> NULL, map |-> NULL, key |-> <<>>]

SmapcInit ==
    /\ cmdline \in CmdLines
    /\ stage = (IF cmdline.norc THEN "main" ELSE "rc")
    /\ lines = 0 /\ iostr = 0
    /\ curserver = NULL /\ curmap = NULL
    /\ cmdprefix = (IF cmdline.norc THEN "." ELSE "")
    /\ save_cmdprefix = "."
    /\ peer = <<>> /\ query = NoQuery /\ status = "none"

-----------------------------------------------------------------------------
(***************************************************************************)
(* Connections.                                                            *)
(***************************************************************************)

\* peer[fd] is NULL for a descriptor that is closed.
Closed == [peer EXCEPT ![iostr] = NULL]

\* Fault: the name of the server outlives the connection.
smapc_close_KeepName ==
    IF iostr # 0 THEN [iostr |-> 0, server |-> curserver, peer |-> Closed]
    ELSE [iostr |-> 0, server |-> curserver, peer |-> peer]

smapc_close ==
    IF iostr # 0 THEN [iostr |-> 0, server |-> NULL, peer |-> Closed]
    ELSE [iostr |-> 0, server |-> curserver, peer |-> peer]

\* socket, bind or connect fails: after the first of them the descriptor is
\* not closed, though it leads nowhere.
open_socket(url, before) ==
    {[fd |-> 0, peer |-> before]} \cup
    (IF url \in Urls
     THEN {[fd |-> 0, peer |-> Append(before, "leaked")],
           [fd |-> Len(before) + 1, peer |-> Append(before, url)]}
     ELSE {})

\* The previous connection is closed first, whatever comes of the new one.
\* The stream may not be created; then the socket is closed.
smapc_connect(url) ==
    \E o \in open_socket(url, smapc_close.peer), created \in BOOLEAN :
        IF o.fd # 0 /\ created
        THEN iostr' = o.fd /\ curserver' = url /\ peer' = o.peer
        ELSE /\ iostr' = 0 /\ curserver' = smapc_close.server
             /\ peer' = IF o.fd = 0 THEN o.peer ELSE [o.peer EXCEPT ![o.fd] = NULL]

\* The reply is printed, or the error; smapc goes on either way.
smapc_query(map, key) == query' = [to |-> peer[iostr], map |-> map, key |-> key]

-----------------------------------------------------------------------------
(***************************************************************************)
(* Commands.  handle_command has checked the number of arguments.          *)
(***************************************************************************)

ArgCount(name) ==
    CASE name \in {"quit", "nomap", "close"} -> {1}
      [] name = "open" -> {2}
      [] name \in {"map", "prefix"} -> {1, 2}
      [] OTHER -> {}

Punct == {".", ":", "!"}

cmd_map(ws)   == /\ curmap' = (IF Len(ws) = 2 THEN ws[2] ELSE curmap)
                 /\ UNCHANGED <<iostr, curserver, peer, cmdprefix>>
cmd_nomap(ws) == curmap' = NULL /\ UNCHANGED <<iostr, curserver, peer, cmdprefix>>
cmd_open(ws)  == smapc_connect(ws[2]) /\ UNCHANGED <<curmap, cmdprefix>>
cmd_close(ws) == /\ iostr' = smapc_close.iostr /\ curserver' = smapc_close.server
                 /\ peer' = smapc_close.peer
                 /\ UNCHANGED <<curmap, cmdprefix>>
cmd_prefix(ws) == /\ cmdprefix' = (IF Len(ws) = 2 /\ ws[2] \in Punct THEN ws[2] ELSE cmdprefix)
                  /\ UNCHANGED <<iostr, curserver, peer, curmap>>

handle_command(ws) ==
    IF Len(ws) \notin ArgCount(ws[1])
    THEN UNCHANGED <<iostr, curserver, peer, curmap, cmdprefix>>
    ELSE CASE ws[1] = "map"    -> cmd_map(ws)
           [] ws[1] = "nomap"  -> cmd_nomap(ws)
           [] ws[1] = "open"   -> cmd_open(ws)
           [] ws[1] = "close"  -> cmd_close(ws)
           [] ws[1] = "prefix" -> cmd_prefix(ws)
           [] OTHER -> UNCHANGED <<iostr, curserver, peer, curmap, cmdprefix>>

\* After the initialization file comes the command line; after the standard
\* input the connection is closed and smapc exits.
LoopEnds ==
    /\ lines' = 0
    /\ IF stage = "rc"
       THEN stage' = "main" /\ UNCHANGED status
       ELSE stage' = "exit" /\ status' = "ok"

-----------------------------------------------------------------------------
(***************************************************************************)
(* read_eval_loop, one line at a time.                                     *)
(***************************************************************************)

Reads == /\ stage \in {"rc", "loop"}
         /\ lines < (IF stage = "rc" THEN MaxRc ELSE MaxInput)

\* Without a prefix the punctuation is part of the first word.
Whole(l)   == IF l.ch = "" THEN l.words ELSE <<l.ch \o l.words[1]>> \o Tail(l.words)
WordsOf(l) == CASE l.ch = "#" -> <<>>
                [] cmdprefix = "" -> Whole(l)
                [] OTHER -> l.words

IsCommand(l) == l.ch # "?" /\ (cmdprefix = "" \/ l.ch = cmdprefix)

Command(l) ==
    /\ Reads /\ IsCommand(l)
    /\ WordsOf(l) \notin {<<>>, <<"quit">>}
    /\ handle_command(WordsOf(l))
    /\ lines' = lines + 1
    /\ UNCHANGED <<cmdline, stage, save_cmdprefix, query, status>>

\* The end of the file, quit and a command that wordsplit rejects end the
\* loop.  After the initialization file, the saved prefix comes back.
LeaveLoop ==
    /\ stage \in {"rc", "loop"}
    /\ LoopEnds
    /\ IF stage = "rc"
       THEN cmdprefix' = save_cmdprefix /\ UNCHANGED <<iostr, curserver, peer>>
       ELSE /\ iostr' = smapc_close.iostr /\ curserver' = smapc_close.server
            /\ peer' = smapc_close.peer /\ UNCHANGED cmdprefix
    /\ UNCHANGED <<cmdline, curmap, save_cmdprefix, query>>

\* Without a connection or a map the line is refused.
TypedQuery(l) ==
    /\ Reads /\ ~IsCommand(l) /\ l.ch \notin {"?", "#"}
    /\ LET ws == Whole(l)
       IN  IF iostr = 0 \/ (curmap = NULL /\ Len(ws) < 2)
           THEN UNCHANGED query
           ELSE IF curmap # NULL THEN smapc_query(curmap, ws)
                ELSE smapc_query(ws[1], Tail(ws))
    /\ lines' = lines + 1
    /\ UNCHANGED <<cmdline, stage, iostr, curserver, curmap, cmdprefix, save_cmdprefix, peer, status>>

-----------------------------------------------------------------------------
(***************************************************************************)
(* main, once the initialization file has been read.                       *)
(***************************************************************************)

\* smapc URL MAP KEY
SingleQuery ==
    /\ stage = "main" /\ cmdline.url # NULL
    /\ smapc_connect(cmdline.url)
    /\ IF iostr' = 0 THEN status' = "unavailable" /\ UNCHANGED query
       ELSE status' = "ok" /\ query' = [to |-> peer'[iostr'], map |-> cmdline.map, key |-> <<cmdline.key>>]
    /\ stage' = "exit"
    /\ UNCHANGED <<cmdline, lines, curmap, cmdprefix, save_cmdprefix>>

\* The server given by an option; then main goes on with what is left.
ServerOption ==
    /\ stage = "main" /\ cmdline.url = NULL /\ cmdline.server # NULL
    /\ smapc_connect(cmdline.server)
    /\ cmdline' = [cmdline EXCEPT !.server = NULL]
    /\ UNCHANGED <<stage, lines, curmap, cmdprefix, save_cmdprefix, query, status>>

MapGiven == IF cmdline.map # NULL THEN cmdline.map ELSE curmap

\* smapc MAP KEY, with the connection of the initialization file or option.
DefaultQuery ==
    /\ stage = "main" /\ cmdline.url = NULL /\ cmdline.server = NULL /\ cmdline.key # NULL
    /\ curmap' = MapGiven
    /\ IF iostr = 0
       THEN /\ status' = IF curserver = NULL THEN "usage" ELSE "unavailable"
            /\ UNCHANGED query
       ELSE smapc_query(MapGiven, <<cmdline.key>>) /\ status' = "ok"
    /\ stage' = "exit"
    /\ UNCHANGED <<cmdline, lines, iostr, curserver, cmdprefix, save_cmdprefix, peer>>

EnterLoop ==
    /\ stage = "main" /\ cmdline.url = NULL /\ cmdline.server = NULL /\ cmdline.key = NULL
    /\ curmap' = MapGiven
    /\ stage' = "loop"
    /\ UNCHANGED <<cmdline, lines, iostr, curserver, cmdprefix, save_cmdprefix, peer, query, status>>

SmapcNext ==
    \/ \E l \in Lines : Command(l) \/ TypedQuery(l)
    \/ LeaveLoop \/ SingleQuery \/ ServerOption \/ DefaultQuery \/ EnterLoop

SmapcSpec == SmapcInit /\ [][SmapcNext]_cvars

-----------------------------------------------------------------------------
\* The server that smapc names is the one at the other end of its stream, it
\* names one exactly while it is connected, and no other connection is open:
\* through opens that fail at any step, connections that replace one another
\* and commands of the initialization file (smapc_connect, smapc_close).
ConnectedAsNamed ==
    /\ (iostr = 0) = (curserver = NULL)
    /\ iostr # 0 => peer[iostr] = curserver
    /\ \A fd \in DOMAIN peer : peer[fd] \in Urls => fd = iostr
=============================================================================
