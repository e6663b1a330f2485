--------------------------- MODULE VariableTypes ---------------------------
(***************************************************************************)
(* What question/validation.go accepts as the value of a question          *)
(* variable.  A text is the sequence of its characters; "INVALID_IP",      *)
(* "AUTO" and "NONE" stand as one character each, they are only compared   *)
(* as wholes.  The error messages are left out.                            *)
(***************************************************************************)
EXTENDS Integers, Sequences, FiniteSets

CONSTANTS
    IntegerLimit,   \* 2^32, the bound that validateType names int32
    LongLimit,      \* 2^63, the bound of int64 and int
    Absent          \* no "value" key, or no limit, in a variable

ASSUME WidthAssumption ==
    IntegerLimit \in Nat \ {0} /\ LongLimit \in Nat /\ IntegerLimit < LongLimit

-----------------------------------------------------------------------------
(* Texts: strings.Split, SplitN(_, _, 2) and strconv.Atoi.                  *)
DigitOrder == <<"0", "1", "2", "3", "4", "5", "6", "7", "8", "9">>
Digits == {DigitOrder[n] : n \in 1..10}
DigitValue(c) == (CHOOSE n \in 1..10 : DigitOrder[n] = c) - 1

Where(s, c) == {k \in DOMAIN s : s[k] = c}
FirstOf(S) == CHOOSE k \in S : \A j \in S : k <= j

(* The separator number k, counted from 1; 0 and Len(s)+1 stand for the     *)
(* ends of the text.                                                        *)
Cut(s, c, k) ==
    IF k = 0 THEN 0
    ELSE IF k > Cardinality(Where(s, c)) THEN Len(s) + 1
    ELSE CHOOSE p \in Where(s, c) : Cardinality({j \in Where(s, c) : j <= p}) = k

Split(s, c) ==
    [k \in 1..(Cardinality(Where(s, c)) + 1) |->
        SubSeq(s, Cut(s, c, k - 1) + 1, Cut(s, c, k) - 1)]

Contains(s, c) == Where(s, c) # {}
Before(s, c) == SubSeq(s, 1, FirstOf(Where(s, c)) - 1)
After(s, c) == SubSeq(s, FirstOf(Where(s, c)) + 1, Len(s))

Signed(s) == s # <<>> /\ s[1] \in {"+", "-"}
Unsigned(s) == IF Signed(s) THEN Tail(s) ELSE s
AllDigits(s) == s # <<>> /\ \A k \in DOMAIN s : s[k] \in Digits
NumberOf(s) ==
    LET digits == Unsigned(s)
        value[n \in 0..Len(digits)] ==
            IF n = 0 THEN 0 ELSE 10 * value[n - 1] + DigitValue(digits[n])
    IN  IF s[1] = "-" THEN -value[Len(digits)] ELSE value[Len(digits)]

(* Atoi fails on what does not fit an int, which is as wide as a long here. *)
IsNumber(s) == AllDigits(Unsigned(s)) /\ NumberOf(s) \in -LongLimit..(LongLimit - 1)

-----------------------------------------------------------------------------
(* isIP, isSubRange, isPrefix, isPrefixRange and isIPWildcard.              *)
(* A text that is not made of four segments may still be one of the marks   *)
(* that Batfish prints for an address it does not know, INVALID_IP(100l).   *)
IsMarkedIP(s) ==
    /\ \/ s # <<>> /\ s[1] = "INVALID_IP"
       \/ Len(s) >= 3 /\ SubSeq(s, 1, 3) = <<"AUTO", "/", "NONE">>
    /\ Contains(s, "(")
    /\ Contains(After(s, "("), "l")
    /\ IsNumber(Before(After(s, "("), "l"))

IsIP(s) ==
    LET segments == Split(s, ".")
    IN  IF Len(segments) # 4 THEN IsMarkedIP(s)
        ELSE \A k \in 1..4 : IsNumber(segments[k]) /\ NumberOf(segments[k]) \in 0..255

(* Faulty: what follows the first "-" is not looked at.                     *)
IsSubRangeStart(s) ==
    LET ends == Split(s, "-")
    IN  Len(ends) >= 2 /\ IsNumber(ends[1])

IsSubRange(s) ==
    LET ends == Split(s, "-")
    IN  Len(ends) = 2 /\ IsNumber(ends[1]) /\ IsNumber(ends[2])

IsPrefix(s) ==
    LET parts == Split(s, "/")
    IN  Len(parts) = 2 /\ IsNumber(parts[2]) /\ IsIP(parts[1])

IsPrefixRange(s) ==
    LET parts == Split(s, ":")
    IN  /\ Len(parts) <= 2
        /\ IsPrefix(parts[1])
        /\ Len(parts) = 2 => IsSubRange(parts[2])

IsIPWildcard(s) ==
    LET masked == Split(s, ":")
        prefix == Split(s, "/")
    IN  IF Contains(s, ":")
        THEN Len(masked) = 2 /\ IsIP(masked[1]) /\ IsIP(masked[2])
        ELSE IF Contains(s, "/")
        THEN Len(prefix) = 2 /\ IsIP(prefix[1]) /\ IsNumber(prefix[2])
        ELSE IsIP(s)

-----------------------------------------------------------------------------
(* Values.  text is what fmt.Sprint prints of a value; num and whole are    *)
(* those of a number; items those of a list; path and suffix those of a map.*)
Kinds == {"nil", "bool", "string", "int", "float", "list", "map", "question",
          "route", "other"}

Value(kind, text) ==
    [kind |-> kind, text |-> text, num |-> 0, whole |-> TRUE, items |-> <<>>,
     path |-> "none", suffix |-> "none"]

(* asInt: an int or int64 always, a float64 that is whole and in range.     *)
AsInt(v) ==
    \/ v.kind = "int"
    \/ v.kind = "float" /\ v.whole /\ v.num >= -LongLimit /\ v.num < LongLimit

LengthOf(v) ==
    CASE v.kind = "string" -> Len(v.text)
      [] v.kind = "list" -> Len(v.items)
      [] OTHER -> 0

IsText(v, Format(_)) == v.kind = "string" /\ Format(v.text)

IsJSONPath(v) ==
    v.kind = "map" /\ v.path = "string" /\ v.suffix \in {"none", "bool"}

Comparators == {<<"<">>, <<"<", "=">>, <<"=", "=">>, <<">", "=">>, <<">">>, <<"!", "=">>}

(* strings.ToLower of the name of a protocol, which is one word here.       *)
ToLower(s) ==
    [k \in DOMAIN s |-> CASE s[k] \in {"DNS", "Dns"} -> "dns"
                        [] s[k] \in {"SSH", "Ssh"} -> "ssh"
                        [] s[k] \in {"TCP", "Tcp"} -> "tcp"
                        [] s[k] \in {"UDP", "Udp"} -> "udp"
                        [] OTHER -> s[k]]
Protocols == {<<"dns">>, <<"ssh">>, <<"tcp">>, <<"udp">>}

(* What Atoi cannot read, a number that does not fit among it, is accepted. *)
IPProtocol(s) == IsNumber(s) => NumberOf(s) \in 0..255

(* validateType.  "name" is any of the 39 types that only ask for a string, *)
(* "float" is also double, "any" is every type without a check of its own.  *)
ValidateType(v, type) ==
    CASE type = "boolean" -> v.kind = "bool"
      [] type = "comparator" -> v.text \in Comparators
      [] type = "integer" -> AsInt(v) /\ v.num \in -IntegerLimit..(IntegerLimit - 1)
      [] type = "long" -> AsInt(v)
      [] type = "float" -> v.kind = "float"
      [] type \in {"name", "string"} -> v.kind = "string"
      [] type = "ip" -> IsText(v, IsIP)
      [] type = "ipWildcard" -> IsText(v, IsIPWildcard)
      [] type = "prefix" -> IsText(v, IsPrefix)
      [] type = "prefixRange" -> IsText(v, IsPrefixRange)
      [] type = "jsonPath" -> IsJSONPath(v)
      [] type = "question" -> v.kind = "question"
      [] type = "bgpRoutes" ->
            v.kind = "list" /\ \A k \in DOMAIN v.items : v.items[k].kind = "route"
      [] type = "subrange" -> AsInt(v) \/ IsText(v, IsSubRange)
      [] type = "protocol" -> v.kind = "string" /\ ToLower(v.text) \in Protocols
      [] type = "ipProtocol" -> IsText(v, IPProtocol)
      [] OTHER -> TRUE

-----------------------------------------------------------------------------
(* A declared variable of a template: type, optional, minLength,            *)
(* minElements (Absent unless the variable is a list), and the names in     *)
(* values and in the obsolete allowedValues.                                *)

(* buildAllowedValues: values take precedence; an empty list is no limit.   *)
AllowedValues(d) == IF d.values # {} THEN d.values ELSE d.allowedValues

ElementAccepted(d, v) ==
    /\ ValidateType(v, d.type)
    /\ d.minLength # Absent => LengthOf(v) >= d.minLength
    /\ AllowedValues(d) # {} => v.text \in AllowedValues(d)

(* The body of the loop of validate, for a variable declared as d whose     *)
(* "value" is v.                                                            *)
VariableAccepted(d, v) ==
    IF v = Absent THEN d.optional
    ELSE IF d.minElements = Absent THEN ElementAccepted(d, v)
    ELSE /\ v.kind = "list"
         /\ Len(v.items) >= d.minElements
         /\ \A k \in DOMAIN v.items : ElementAccepted(d, v.items[k])
=============================================================================
