-------------------------- MODULE MCVariableTypes --------------------------
(***************************************************************************)
(* The parsers of VariableTypes on every text within MaxEdits edits of a   *)
(* well-formed one: characters dropped, added or replaced at any place.    *)
(***************************************************************************)
EXTENDS VariableTypes

CONSTANTS Alphabet, MaxEdits

VARIABLES text, edits

vars == <<text, edits>>

Seeds ==
    {<<"2", "-", "9">>,
     <<"2", ".", "5", ".", "0", ".", "2", "5", "5">>,
     <<"2", ".", "5", ".", "0", ".", "1", "/", "8">>,
     <<"2", ".", "5", ".", "0", ".", "1", ":", "0", ".", "0", ".", "2", ".", "5">>,
     <<"2", ".", "5", ".", "0", ".", "1", "/", "8", ":", "9", "-", "9">>,
     <<"INVALID_IP", "(", "5", "l", ")">>,
     <<"AUTO", "/", "NONE", "(", "5", "l", ")">>}

Init == text \in Seeds /\ edits = 0

Replace(k, c) == text' = [text EXCEPT ![k] = c]
Insert(k, c) == text' = SubSeq(text, 1, k - 1) \o <<c>> \o SubSeq(text, k, Len(text))
Remove(k) == text' = SubSeq(text, 1, k - 1) \o SubSeq(text, k + 1, Len(text))

Edit ==
    /\ edits < MaxEdits
    /\ edits' = edits + 1
    /\ \/ \E k \in DOMAIN text, c \in Alphabet : Replace(k, c)
       \/ \E k \in 1..(Len(text) + 1), c \in Alphabet : Insert(k, c)
       \/ \E k \in DOMAIN text : Remove(k)

Spec == Init /\ [][Edit]_vars

-----------------------------------------------------------------------------
(* The formats, written down by the places of the separators rather than by *)
(* splitting: what lies strictly between two places is a number.            *)
Between(s, i, j) == SubSeq(s, i + 1, j - 1)
NumberBetween(s, i, j) == IsNumber(Between(s, i, j))
OctetBetween(s, i, j) ==
    NumberBetween(s, i, j) /\ NumberOf(Between(s, i, j)) >= 0
                           /\ NumberOf(Between(s, i, j)) <= 255

Only(s, c, k) == Where(s, c) = {k}
Last(s) == Len(s) + 1

DottedQuad(s) ==
    \E i, j, k \in Where(s, ".") :
        /\ i < j /\ j < k /\ Where(s, ".") = {i, j, k}
        /\ OctetBetween(s, 0, i) /\ OctetBetween(s, i, j)
        /\ OctetBetween(s, j, k) /\ OctetBetween(s, k, Last(s))

(* A mark, "(", anything but "l" that is a number, "l", then anything; and  *)
(* no three dots, which would make it four segments.                        *)
UnknownAddress(s) ==
    /\ Cardinality(Where(s, ".")) # 3
    /\ s # <<>>
    /\ \/ s[1] = "INVALID_IP"
       \/ Len(s) > 2 /\ s[1] = "AUTO" /\ s[2] = "/" /\ s[3] = "NONE"
    /\ \E i \in Where(s, "("), j \in Where(s, "l") :
          /\ \A p \in 1..(i - 1) : s[p] # "("
          /\ i < j
          /\ NumberBetween(s, i, j)

Address(s) == DottedQuad(s) \/ UnknownAddress(s)
Range2(s) == \E k \in Where(s, "-") :
    Only(s, "-", k) /\ NumberBetween(s, 0, k) /\ NumberBetween(s, k, Last(s))
CIDR(s) == \E k \in Where(s, "/") :
    Only(s, "/", k) /\ Address(Between(s, 0, k)) /\ NumberBetween(s, k, Last(s))
CIDRRange(s) ==
    \/ ~Contains(s, ":") /\ CIDR(s)
    \/ \E k \in Where(s, ":") :
          Only(s, ":", k) /\ CIDR(Between(s, 0, k)) /\ Range2(Between(s, k, Last(s)))
Wildcard(s) ==
    \/ ~Contains(s, ":") /\ ~Contains(s, "/") /\ Address(s)
    \/ ~Contains(s, ":") /\ CIDR(s)
    \/ \E k \in Where(s, ":") :
          Only(s, ":", k) /\ Address(Between(s, 0, k)) /\ Address(Between(s, k, Last(s)))

-----------------------------------------------------------------------------
(* isIP, isSubRange, isPrefix, isPrefixRange and isIPWildcard accept the    *)
(* texts of their formats and no others: no missing, empty or surplus part, *)
(* octet out of range, or separator of another format gets through.         *)
AcceptsExactlyTheFormats ==
    /\ IsIP(text) <=> Address(text)
    /\ IsSubRange(text) <=> Range2(text)
    /\ IsPrefix(text) <=> CIDR(text)
    /\ IsPrefixRange(text) <=> CIDRRange(text)
    /\ IsIPWildcard(text) <=> Wildcard(text)
=============================================================================
