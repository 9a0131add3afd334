------------------------------ MODULE TagList ------------------------------
(***************************************************************************)
(* Lists of tags in one string, separated by "||" (include/rpc_common.hpp, *)
(* include/rpc_client.hpp).  A string is a sequence of characters.         *)
(***************************************************************************)
EXTENDS Naturals, SequencesExt

Separator == <<"|", "|">>

(* Where find("||") may succeed; it returns the first of them.             *)
Separators(s) == {i \in 1 .. Len(s) - 1 : SubSeq(s, i, i + 1) = Separator}

(* split_tag_string(), and split_tag_hash() up to the hashing: cut at the  *)
(* first separator, go on behind it; the rest is a tag, empty or not.      *)
Split(tags) ==
    LET split[s \in Seq({tags[i] : i \in DOMAIN tags})] ==
            IF Separators(s) = {} THEN <<s>>
            ELSE LET pos == Min(Separators(s))
                 IN  <<SubSeq(s, 1, pos - 1)>> \o split[SubSeq(s, pos + 2, Len(s))]
    IN  split[tags]

(* re_subscribe(): a separator behind every tag, and the last one cut off. *)
JoinKeepsOneBar(list) ==
    LET tags == FlattenSeq([i \in DOMAIN list |-> list[i] \o Separator])
    IN  SubSeq(tags, 1, Len(tags) - 1)

Join(list) ==
    LET tags == FlattenSeq([i \in DOMAIN list |-> list[i] \o Separator])
    IN  SubSeq(tags, 1, Len(tags) - 2)

(* The orders in which a container without an order may be gone through.   *)
Orders(S) == SetToSeqs(S)

(* Tags as an application can name them: a separator would have cut them.  *)
Tag(Characters, n) == {s \in BoundedSeq(Characters, n) : Separators(s) = {}}

EndsInBar(tag) == tag # <<>> /\ tag[Len(tag)] = "|"
=============================================================================
