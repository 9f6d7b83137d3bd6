------------------------------ MODULE MCSockMap -----------------------------
(* Instances of SockMap for TLC.                                           *)
EXTENDS SockMap

MCByte == Range(Digits) \cup {NL, ":", ",", " ", "k", "m", "x", "v", "N", "O", "K"}

(* Texts that look like parts of a packet, and one with two digits of      *)
(* length.                                                                 *)
MCQueries == { <<"m", " ", "k">>, <<"m", " ", "3", ":", ",">>,
               <<"m", " ", "k", "k", "k", "k", "k", "k", "k", "k">> }

(* A length that is no number, one that is too long, a packet without its  *)
(* comma, and a text without a map name.                                   *)
MCMalformed == { <<"x", ":">>, <<"1", "1", "1", "1">>, <<"2", ":", " ", "k", "k">>,
                 <<"1", ":", "k", ",">> }

MCReplies == { <<"N">>, <<"O", "K", " ", "v", ",", "v">> }
=============================================================================
