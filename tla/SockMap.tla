------------------------------ MODULE SockMap -------------------------------
(***************************************************************************)
(* The socket map protocol between a client (smapc, src/src/smapc.c) and a *)
(* session of smapd (smap_loop, src/src/smapd.c) over one connection: the  *)
(* netstring transport of src/lib/sockmapstr.c and the buffers of          *)
(* src/lib/stream.c under it and above it.                                 *)
(*                                                                         *)
(* Both ends run the same stream code.  A stream of an end has an input    *)
(* half with full buffering and an output half with line buffering, both   *)
(* expandable.  The connection delivers bytes in order and in pieces of    *)
(* any size; a recv may be interrupted, a write may fail or send a part of *)
(* its packet, an end may go away at any time.                             *)
(***************************************************************************)
EXTENDS Integers, Sequences, SequencesExt, FiniteSetsExt

CONSTANTS
  Byte,         \* the bytes, a model of char
  Queries,      \* "map key" texts the client may ask for
  Malformed,    \* byte strings a client that breaks the protocol may send
  Replies,      \* texts of the replies of a module
  Bound,        \* SIZE_T_STRLEN_BOUND
  BufSize,      \* size of the stream buffers before they grow
  MaxQueries,   \* bound on the queries of a behaviour
  MaxFailures   \* bound on the calls of recv and write that fail

ASSUME SizesAssumption ==
  /\ Bound \in Nat \ {0} /\ BufSize \in Nat \ {0}
  /\ MaxQueries \in Nat /\ MaxFailures \in Nat

Ends == {"client", "server"}
Peer(e) == IF e = "client" THEN "server" ELSE "client"
NL == "\n"
Digits == <<"0", "1", "2", "3", "4", "5", "6", "7", "8", "9">>

VARIABLES
  pc,        \* control point of each end
  open,      \* ends that have not closed the connection
  wire,      \* bytes on their way to each end
  nbuf,      \* initial segment of a packet
  ibuf, icap,        \* input buffer: unread bytes, bufsize
  need,      \* reqsz: bytes of the packet still to be received
  line,      \* the line getline has returned
  err, eof,  \* _SMAP_STR_ERR and _SMAP_STR_EOF
  todo,      \* text still to be written, in pieces of any size
  obuf, ooff, ocap,  \* output buffer: unsent bytes, cur - buffer, bufsize
  failures,  \* calls of recv and write that failed so far
  asked, heard, answers, got  \* history: texts sent and received

inVars == <<nbuf, ibuf, icap, need, line, err, eof>>
outVars == <<todo, obuf, ooff, ocap>>
ghostVars == <<failures, asked, heard, answers, got>>
vars == <<pc, open, wire, inVars, outVars, ghostVars>>

Reading == {"getline", "prefix", "payload"}

(* smap_sockmap_stream_create2 at both ends; the server reads first.       *)
Init ==
  /\ pc = [e \in Ends |-> IF e = "client" THEN "idle" ELSE "getline"]
  /\ open = Ends
  /\ wire = [e \in Ends |-> <<>>]
  /\ nbuf = [e \in Ends |-> <<>>]
  /\ ibuf = [e \in Ends |-> <<>>] /\ icap = [e \in Ends |-> BufSize]
  /\ need = [e \in Ends |-> 0]
  /\ line = [e \in Ends |-> <<>>]
  /\ err = {} /\ eof = {}
  /\ todo = [e \in Ends |-> <<>>]
  /\ obuf = [e \in Ends |-> <<>>] /\ ooff = [e \in Ends |-> 0]
  /\ ocap = [e \in Ends |-> BufSize]
  /\ failures = 0
  /\ asked = <<>> /\ heard = <<>> /\ answers = <<>> /\ got = <<>>

-----------------------------------------------------------------------------
(* Packets.                                                                *)

(* Decimal digits of n; none for 0.                                        *)
format_len[n \in Nat] ==
  IF n = 0 THEN <<>> ELSE Append(format_len[n \div 10], Digits[(n % 10) + 1])

(* Fault: the newline is sent with the text.                               *)
Encode_KeepsNl(l) == format_len[Len(l)] \o <<":">> \o l \o <<",">>

(* _sockmap_output_stream_write of a line: its last byte is left out.      *)
Encode(l) == format_len[Len(l) - 1] \o <<":">> \o Front(l) \o <<",">>

(* The number that decimal digits stand for.                               *)
DigitValue(c) == CHOOSE d \in 0..9 : Digits[d + 1] = c
Value[s \in Seq(Range(Digits))] ==
  IF s = <<>> THEN 0 ELSE 10 * Value[Front(s)] + DigitValue(Last(s))

(* The payload length before the colon; -1 when a byte is not a digit.     *)
Length(digits) == IF digits \in Seq(Range(Digits)) THEN Value[digits] ELSE -1

(* A size_t that wrapped below zero: more than any packet holds.           *)
Huge == 1000

First(s, c) == Min({i \in DOMAIN s : s[i] = c})
Has(s, c) == Contains(s, c)

(* What read_payload_length finds in a string with a colon.                *)
Size(bytes) == Length(SubSeq(bytes, 1, First(bytes, ":") - 1))
Data(bytes) == SubSeq(bytes, First(bytes, ":") + 1, Len(bytes))

(* A text is one line whose length can be told in a prefix.                *)
IsText(t) ==
  t \in Seq(Byte) /\ ~Has(t, NL) /\ Len(format_len[Len(t)]) < Bound

ASSUME BytesAssumption == Range(Digits) \cup {NL, ":", ",", " "} \subseteq Byte

(* A query names a map.  What breaks the protocol is not a packet with a   *)
(* map name, and nothing follows a packet: what the code does with bytes   *)
(* behind a packet, or with a reply of several lines, is not modelled.     *)
ASSUME TextsAssumption ==
  /\ \A q \in Queries : IsText(q) /\ Has(q, " ")
  /\ \A r \in Replies : IsText(r)
  /\ \A b \in Malformed :
       /\ b \in Seq(Byte)
       /\ Has(b, ":") /\ Size(b) # -1 =>
            \/ Len(Data(b)) <= Size(b)
            \/ /\ Len(Data(b)) = Size(b) + 1
               /\ Has(Data(b), " ") => Last(Data(b)) # ","

-----------------------------------------------------------------------------
(* smap_stream_getline: the outer stream takes single bytes from the input *)
(* buffer until it meets a newline, and the buffer is filled when empty.   *)
(* Every fill that succeeds ends in a newline.                             *)

Return(e, l) == pc' = [pc EXCEPT ![e] = "line"] /\ line' = [line EXCEPT ![e] = l]

TakeLine(e) ==
  /\ pc[e] = "getline" /\ ibuf[e] # <<>>
  /\ LET n == First(ibuf[e], NL)
     IN  /\ Return(e, SubSeq(ibuf[e], 1, n))
         /\ ibuf' = [ibuf EXCEPT ![e] = SubSeq(@, n + 1, Len(@))]
  /\ UNCHANGED <<open, wire, nbuf, icap, need, err, eof, outVars, ghostVars>>

(* The flags of the stream end the read at once.                           *)
TakeNothing(e) ==
  /\ pc[e] = "getline" /\ ibuf[e] = <<>>
  /\ e \in eof \cup err
  /\ Return(e, <<>>)
  /\ UNCHANGED <<open, wire, nbuf, ibuf, icap, need, err, eof, outVars,
                 ghostVars>>

FillBuffer(e) ==
  /\ pc[e] = "getline" /\ ibuf[e] = <<>>
  /\ e \notin eof \cup err
  /\ pc' = [pc EXCEPT ![e] = "prefix"]
  /\ UNCHANGED <<open, wire, inVars, outVars, ghostVars>>

(* An error makes the stream unusable; getline returns it.                 *)
Fail(e) ==
  /\ Return(e, <<>>)
  /\ err' = err \cup {e}

(* recv returns at most "most" bytes.                                      *)
Received(e, most, n) == /\ wire[e] # <<>>
                        /\ n \in 1..Min({most, Len(wire[e])})

(* Fault: the comma is not looked at.                                      *)
Completed_AnyByte(e, data) ==
  /\ ibuf' = [ibuf EXCEPT ![e] = Append(Front(data), NL)]
  /\ pc' = [pc EXCEPT ![e] = "getline"]
  /\ UNCHANGED <<line, err>>

(* The packet is complete: its comma becomes a newline.                    *)
Completed(e, data) ==
  \/ /\ Last(data) = ","
     /\ ibuf' = [ibuf EXCEPT ![e] = Append(Front(data), NL)]
     /\ pc' = [pc EXCEPT ![e] = "getline"]
     /\ UNCHANGED <<line, err>>
  \/ /\ Last(data) # ","
     /\ Fail(e)
     /\ ibuf' = [ibuf EXCEPT ![e] = <<>>]

(* reqsz -= rds, in size_t.                                                *)
Remaining(size, rds) ==
  IF rds <= size + 1 THEN size + 1 - rds ELSE Huge

(* bufsize after the ERANGE of a payload that does not fit.                *)
Enlarged(cap, size) == Max({cap, size + 1})

(* Fault: the pointer into the buffer is not advanced.                     *)
Joined_Over(old, new) == new

(* The buffer after one more recv into it.                                 *)
Joined(old, new) == old \o new

(* One recv of read_payload_length.  With the colon the length is known:   *)
(* the buffer grows when it is too small, the bytes after the colon are    *)
(* the beginning of the payload.                                           *)
RecvPrefix(e) ==
  /\ pc[e] = "prefix"
  /\ \E n \in 1..Bound :
       /\ Received(e, Bound - Len(nbuf[e]), n)
       /\ wire' = [wire EXCEPT ![e] = SubSeq(@, n + 1, Len(@))]
       /\ LET seg == nbuf[e] \o SubSeq(wire[e], 1, n)
              size == Size(seg)
              data == Data(seg)
              left == Remaining(size, Len(data))
          IN  \/ /\ ~Has(seg, ":") /\ Len(seg) < Bound
                 /\ nbuf' = [nbuf EXCEPT ![e] = seg]
                 /\ UNCHANGED <<pc, ibuf, icap, need, line, err>>
              \/ /\ ~Has(seg, ":") /\ Len(seg) = Bound
                 /\ Fail(e)
                 /\ UNCHANGED <<nbuf, ibuf, icap, need>>
              \/ /\ Has(seg, ":") /\ size = -1
                 /\ Fail(e)
                 /\ nbuf' = [nbuf EXCEPT ![e] = <<>>]
                 /\ UNCHANGED <<ibuf, icap, need>>
              \/ /\ Has(seg, ":") /\ size # -1
                 /\ nbuf' = [nbuf EXCEPT ![e] = <<>>]
                 /\ icap' = [icap EXCEPT ![e] = Enlarged(@, size)]
                 /\ need' = [need EXCEPT ![e] = left]
                 /\ IF left = 0
                    THEN Completed(e, data)
                    ELSE /\ ibuf' = [ibuf EXCEPT ![e] = data]
                         /\ pc' = [pc EXCEPT ![e] = "payload"]
                         /\ UNCHANGED <<line, err>>
  /\ UNCHANGED <<open, eof, outVars, ghostVars>>

(* One recv of the loop that reads the payload.                            *)
RecvPayload(e) ==
  /\ pc[e] = "payload"
  /\ \E n \in 1..need[e] :
       /\ Received(e, need[e], n)
       /\ wire' = [wire EXCEPT ![e] = SubSeq(@, n + 1, Len(@))]
       /\ need' = [need EXCEPT ![e] = @ - n]
       /\ LET data == Joined(ibuf[e], SubSeq(wire[e], 1, n))
          IN  IF n = need[e]
              THEN Completed(e, data)
              ELSE /\ ibuf' = [ibuf EXCEPT ![e] = data]
                   /\ UNCHANGED <<pc, line, err>>
  /\ UNCHANGED <<open, nbuf, icap, eof, outVars, ghostVars>>

(* recv returns 0: the end of the input before a packet, an error inside.  *)
RecvEof(e) ==
  /\ wire[e] = <<>> /\ Peer(e) \notin open
  /\ \/ /\ pc[e] = "prefix"
        /\ eof' = eof \cup {e}
        /\ Return(e, <<>>)
        /\ UNCHANGED <<err, ibuf>>
     \/ /\ pc[e] = "payload"
        /\ Fail(e)
        /\ ibuf' = [ibuf EXCEPT ![e] = <<>>]
        /\ UNCHANGED eof
  /\ UNCHANGED <<open, wire, nbuf, icap, need, outVars, ghostVars>>

(* recv fails, interrupted by SIGCHLD in single-process mode.  In the      *)
(* payload loop the -1 is stored in a size_t and taken for a count: the    *)
(* buffer pointer moves back a byte and one byte more is asked for.        *)
RecvFails ==
  LET e == "server"
  IN  /\ failures < MaxFailures /\ failures' = failures + 1
      /\ \/ /\ pc[e] = "prefix"
            /\ Fail(e)
            /\ UNCHANGED <<ibuf, need>>
         \/ /\ pc[e] = "payload"
            /\ ibuf' = [ibuf EXCEPT ![e] = IF @ = <<>> THEN @ ELSE Front(@)]
            /\ need' = [need EXCEPT ![e] = @ + 1]
            /\ UNCHANGED <<pc, line, err>>
      /\ UNCHANGED <<open, wire, nbuf, icap, eof, outVars, asked, heard,
                     answers, got>>

-----------------------------------------------------------------------------
(* smap_stream_write on the output half, a turn of its loop per step.      *)

BufferFull(e) == ooff[e] + Len(obuf[e]) = ocap[e] \/ Has(obuf[e], NL)

(* _stream_realloc_buffer.                                                 *)
Grown(e) == 2 * ocap[e]

(* _stream_flush_buffer(stream, 0), a turn of its loop per step: the first *)
(* line goes out as a packet.  After the last one, a full buffer with an   *)
(* unfinished line is made larger, and what is left moves to the beginning *)
(* except when the buffer has just been made larger.  Bytes sent to an end *)
(* that has gone are lost.                                                 *)
FlushLine(e) ==
  /\ pc[e] = "write" /\ BufferFull(e)
  /\ LET n == IF Has(obuf[e], NL) THEN First(obuf[e], NL) ELSE 0
         packet == IF n = 0 THEN <<>> ELSE Encode(SubSeq(obuf[e], 1, n))
         rest == SubSeq(obuf[e], n + 1, Len(obuf[e]))
         full == ~Has(rest, NL) /\ rest # <<>>
                 /\ ooff[e] + Len(obuf[e]) = ocap[e]
     IN  /\ obuf' = [obuf EXCEPT ![e] = rest]
         /\ ocap' = [ocap EXCEPT ![e] = IF full THEN Grown(e) ELSE @]
         /\ ooff' = [ooff EXCEPT ![e] = IF full \/ Has(rest, NL) THEN @ + n ELSE 0]
         /\ wire' = [wire EXCEPT ![Peer(e)] =
                       IF Peer(e) \in open THEN @ \o packet ELSE @]
  /\ UNCHANGED <<pc, open, inVars, todo, ghostVars>>

(* smap_stream_write copies what the buffer has room for.                  *)
CopyPiece(e) ==
  /\ pc[e] = "write" /\ ~BufferFull(e)
  /\ \E n \in 1 .. Min({ocap[e] - Len(obuf[e]), Len(todo[e])}) :
       /\ obuf' = [obuf EXCEPT ![e] = @ \o SubSeq(todo[e], 1, n)]
       /\ todo' = [todo EXCEPT ![e] = SubSeq(@, n + 1, Len(@))]
  /\ UNCHANGED <<pc, open, wire, inVars, ooff, ocap, ghostVars>>

(* The text is written: the end goes on to read.                           *)
WriteDone(e) ==
  /\ pc[e] = "write" /\ ~BufferFull(e) /\ todo[e] = <<>>
  /\ pc' = [pc EXCEPT ![e] = "getline"]
  /\ UNCHANGED <<open, wire, inVars, outVars, ghostVars>>

(* The write of a packet fails, or sends a part of it only: the line stays *)
(* in the buffer, both streams of the end are in error, so the rest of the *)
(* text is not written and the read that follows fails at once.            *)
WriteFails(e) ==
  /\ pc[e] = "write" /\ Has(obuf[e], NL)
  /\ failures < MaxFailures /\ failures' = failures + 1
  /\ LET packet == Encode(SubSeq(obuf[e], 1, First(obuf[e], NL)))
     IN  \E n \in 0 .. Len(packet) - 1 :
           wire' = [wire EXCEPT ![Peer(e)] =
                      IF Peer(e) \in open THEN @ \o SubSeq(packet, 1, n) ELSE @]
  /\ Fail(e)
  /\ todo' = [todo EXCEPT ![e] = <<>>]
  /\ UNCHANGED <<open, nbuf, ibuf, icap, need, eof, obuf, ooff, ocap, asked,
                 heard, answers, got>>

(* SIGPIPE, which neither program handles, on a packet to a closed end.    *)
WriteKilled(e) ==
  /\ pc[e] = "write" /\ Has(obuf[e], NL) /\ Peer(e) \notin open
  /\ pc' = [pc EXCEPT ![e] = "gone"]
  /\ open' = open \ {e}
  /\ UNCHANGED <<wire, inVars, outVars, ghostVars>>

-----------------------------------------------------------------------------
(* The two programs.                                                       *)

Close(e) ==
  /\ pc' = [pc EXCEPT ![e] = "gone"]
  /\ open' = open \ {e}

(* smapc_query.  A stream in error sends nothing.                          *)
smapc_query ==
  /\ pc["client"] = "idle" /\ "client" \notin err
  /\ Len(asked) < MaxQueries
  /\ \E q \in Queries :
       /\ asked' = Append(asked, q)
       /\ todo' = [todo EXCEPT !["client"] = Append(q, NL)]
  /\ pc' = [pc EXCEPT !["client"] = "write"]
  /\ UNCHANGED <<open, wire, inVars, obuf, ooff, ocap, failures, heard,
                 answers, got>>

(* A client that does not speak the protocol; it waits for a reply.        *)
Garbage ==
  /\ pc["client"] = "idle" /\ "client" \notin err
  /\ "server" \in open
  /\ \E bytes \in Malformed :
       wire' = [wire EXCEPT !["server"] = @ \o bytes]
  /\ pc' = [pc EXCEPT !["client"] = "getline"]
  /\ UNCHANGED <<open, inVars, outVars, ghostVars>>

(* The reply, an empty line or an error is printed.                        *)
PrintReply ==
  /\ pc["client"] = "line"
  /\ got' = IF line["client"] = <<>> THEN got
                                     ELSE Append(got, Front(line["client"]))
  /\ pc' = [pc EXCEPT !["client"] = "idle"]
  /\ UNCHANGED <<open, wire, inVars, outVars, failures, asked, heard, answers>>

(* smapc_close, or the client is interrupted while it waits.               *)
ClientLeaves ==
  /\ pc["client"] \in {"idle"} \cup Reading
  /\ Close("client")
  /\ UNCHANGED <<wire, inVars, outVars, ghostVars>>

(* smap_loop has a line with a map name: the module writes its reply.      *)
Serve ==
  /\ pc["server"] = "line" /\ Has(line["server"], " ")
  /\ heard' = Append(heard, Front(line["server"]))
  /\ \E r \in Replies :
       /\ todo' = [todo EXCEPT !["server"] = Append(r, NL)]
       /\ answers' = Append(answers, r)
  /\ pc' = [pc EXCEPT !["server"] = "write"]
  /\ UNCHANGED <<open, wire, inVars, obuf, ooff, ocap, failures, asked, got>>

(* End of file, a read error, or a line without a map name.                *)
ServerLeaves ==
  /\ pc["server"] = "line" /\ ~Has(line["server"], " ")
  /\ Close("server")
  /\ UNCHANGED <<wire, inVars, outVars, ghostVars>>

(* Fault: the alarm is switched off once a packet has begun.               *)
Alarm_PrefixOnly ==
  /\ pc["server"] = "prefix"
  /\ Close("server")
  /\ UNCHANGED <<wire, inVars, outVars, ghostVars>>

(* SIGALRM: no complete line within idle_timeout.                          *)
Alarm ==
  /\ pc["server"] \in {"prefix", "payload"}
  /\ Close("server")
  /\ UNCHANGED <<wire, inVars, outVars, ghostVars>>

-----------------------------------------------------------------------------
StreamStep(e) ==
  \/ TakeLine(e) \/ TakeNothing(e) \/ FillBuffer(e)
  \/ RecvPrefix(e) \/ RecvPayload(e) \/ RecvEof(e)
  \/ FlushLine(e) \/ CopyPiece(e) \/ WriteDone(e) \/ WriteKilled(e)

ClientStep == StreamStep("client") \/ PrintReply
ServerStep == StreamStep("server") \/ Serve \/ ServerLeaves

Next ==
  \/ ClientStep \/ ServerStep
  \/ smapc_query \/ Garbage \/ ClientLeaves
  \/ RecvFails \/ Alarm
  \/ \E e \in Ends : WriteFails(e)

Spec == Init /\ [][Next]_vars

(* Both processes are scheduled, and the session has an idle-timeout.      *)
FairSpec == Spec /\ WF_vars(ClientStep) /\ WF_vars(ServerStep) /\ WF_vars(Alarm)

-----------------------------------------------------------------------------
(* Properties.                                                             *)

(* However the packets are cut into pieces, whatever fails and whatever    *)
(* garbage precedes them, the session sees the client's queries: each as a *)
(* whole, in order, none twice, and nothing that was not a query; and the  *)
(* client prints the module's replies in the same way.                     *)
QueriesIntact == IsPrefix(heard, asked)
RepliesIntact == IsPrefix(got, answers)

(* The two ends stay in step: when the client may ask again, its last      *)
(* query was the last one served and no byte of the exchange is left in a  *)
(* buffer or on the wire.                                                  *)
InStep ==
  (pc["client"] = "idle" /\ err \cup eof = {} /\ open = Ends) =>
     /\ Len(asked) = Len(got) /\ Len(heard) = Len(answers)
     /\ \A e \in Ends : wire[e] = <<>> /\ ibuf[e] = <<>> /\ obuf[e] = <<>>

(* Every query comes to an end for the client: a reply, the end of the     *)
(* connection or an error, also after a recv that failed inside a packet   *)
(* and left the session waiting for a byte that will not come, or a write  *)
(* that sent a part of one.                                                *)
QueryEnds == pc["client"] = "getline" ~> pc["client"] \in {"idle", "gone"}
=============================================================================
