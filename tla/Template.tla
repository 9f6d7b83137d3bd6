------------------------------ MODULE Template ------------------------------
(***************************************************************************)
(* Templates of the database modules, as wordsplit expands them when       *)
(* WRDSF_NOSPLIT is set (see WordSplit).  Texts are sequences of           *)
(* characters.  A template is a sequence of items: <<"lit", text>>,        *)
(* <<"var", name>> and, in one that wordsplit refuses, <<"bad", text>>.    *)
(* NULL is an option that was not given.  Templates whose expansion is     *)
(* empty leave ws_wordv[0] null and are not among the instances.           *)
(***************************************************************************)
EXTENDS Sequences, SequencesExt

NULL == <<>>

IsTemplate(t) == \A k \in DOMAIN t : t[k][1] \in {"lit", "var", "bad"}

Expandable(t) == \A k \in DOMAIN t : t[k][1] # "bad"

\* One word; a variable that is not defined expands to nothing.
Expand(t, env) ==
    FlattenSeq([k \in DOMAIN t |->
        IF t[k][1] = "lit" THEN t[k][2]
        ELSE IF t[k][2] \in DOMAIN env THEN env[t[k][2]] ELSE <<>>])

\* The references to variables in the template of an option.
wordsplit_varnames(option, t) ==
    {[option |-> option, at |-> k, name |-> t[k][2]] : k \in {j \in DOMAIN t : t[j][1] = "var"}}
=============================================================================
