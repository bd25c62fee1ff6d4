----------------------------- MODULE BiDiValues -----------------------------
(***************************************************************************)
(* The values that cross the BiDi adapter (pkg/backend/bidi/client.go): the *)
(* argument of a function on its way to the page and the result on its way  *)
(* back, by value.                                                          *)
(*                                                                          *)
(* A page's value, its BiDi form and the CDP answer are pairs of a type and *)
(* a value; an object's value is a sequence of <<key, value>> pairs, as     *)
(* BiDi sends it, and in a plain (JSON) value a set of them.                *)
(***************************************************************************)
EXTENDS Naturals, Sequences

CONSTANTS
    Text,       \* a string
    EmptyText,  \* ""
    Number,     \* a number JSON can hold
    NaN,        \* one it cannot: BiDi sends the string "NaN" for its value
    NoValue,    \* of a type that has none
    Depth       \* bound: how deep values are nested

ASSUME ValuesAssumption == Depth \in Nat \ {0}

Of(type, value) == <<type, value>>
Only(type)      == <<type, NoValue>>
Type(v)         == v[1]
Value(v)        == v[2]

Null      == Only("null")
Undefined == Only("undefined")
Zero      == Of("number", 0)

------------------------------------------------------------------------------
(* Values of a page.                                                        *)

Scalars == {Null, Undefined, Of("string", Text), Of("string", EmptyText), Of("boolean", TRUE),
            Of("number", Number), Of("number", NaN), Only("date")}

\* Lists and lists of named values, with such elements.
Lists(of) == {<<>>} \cup {<<v>> : v \in of} \cup {<<v, Of("number", Number)>> : v \in of}
Pairs(of) == {<<>>} \cup {<< <<Text, v>> >> : v \in of}
                    \cup {<< <<EmptyText, v>>, <<Text, Null>> >> : v \in of}

Nested(of) == Scalars
              \cup {Of("array", l) : l \in Lists(of)} \cup {Of("object", l) : l \in Pairs(of)}
              \cup {Of("set", <<v>>) : v \in of} \cup {Of("map", << <<Text, v>> >>) : v \in of}

Level[n \in 0 .. Depth] == IF n = 0 THEN Scalars ELSE Nested(Level[n - 1])
Shallow == Nested(Scalars)
Values  == Level[Depth]

\* Values that JSON holds: no undefined, NaN, set or date anywhere.
IsData[v \in Values] ==
    \/ Type(v) \in {"null", "string", "boolean"}
    \/ Type(v) = "number" /\ Value(v) # NaN
    \/ Type(v) = "array" /\ \A i \in DOMAIN Value(v) : IsData[Value(v)[i]]
    \/ Type(v) \in {"object", "map"} /\ \A i \in DOMAIN Value(v) : IsData[Value(v)[i][2]]

\* Arguments of a client: JSON, which has no maps, or none.
Arguments == {v \in Shallow : IsData[v] /\ Type(v) # "map"} \cup {Undefined}

\* What a client of Chrome is told of such a value.
Data[v \in Values] ==
    CASE Type(v) = "array"            -> Of("array", [i \in DOMAIN Value(v) |-> Data[Value(v)[i]]])
      [] Type(v) \in {"object", "map"} ->
            Of("object", {<<Value(v)[i][1], Data[Value(v)[i][2]]>> : i \in DOMAIN Value(v)})
      [] OTHER                        -> v

------------------------------------------------------------------------------
(* The translation.                                                         *)

\* A number's value is decoded into a float64, which "NaN" is not: 0 remains.
Decoded(v) == IF Value(v) = NaN THEN Zero ELSE v

\* bidiValueToPlain: what it does not know becomes null, and so does undefined.
BidiValueToPlain[v \in Values] ==
    CASE Type(v) \in {"string", "boolean"} -> v
      [] Type(v) = "number"                -> Decoded(v)
      [] Type(v) = "array"                 -> Of("array", [i \in DOMAIN Value(v) |-> BidiValueToPlain[Value(v)[i]]])
      [] Type(v) \in {"object", "map"}      ->
            Of("object", {<<Value(v)[i][1], BidiValueToPlain[Value(v)[i][2]]>> : i \in DOMAIN Value(v)})
      [] OTHER                             -> Null

\* Mutant: a map is taken for an object that has no value.
TranslatesNoMaps(v) ==
    CASE Type(v) \in {"undefined", "null", "string", "boolean"} -> v
      [] Type(v) = "number"                                     -> Decoded(v)
      [] Type(v) \in {"array", "object", "set"}                 -> BidiValueToPlain[v]
      [] OTHER                                                 -> Only("object")

\* translateScriptResult for a result without a handle.
TranslateScriptResult(v) ==
    CASE Type(v) \in {"undefined", "null", "string", "boolean"} -> v
      [] Type(v) = "number"                                     -> Decoded(v)
      [] Type(v) \in {"array", "object", "map", "set"}          -> BidiValueToPlain[v]
      [] OTHER                                                 -> Only("object")

\* toBiDiArg for {value: v}: an array or an object is sent as it is, under the type "object".
ToBiDiArg(v) ==
    IF Type(v) \in {"array", "object"} THEN Of("object", v) ELSE v

\* The browser reads an argument (script.LocalValue); the value of an "object" has to be a list
\* of pairs, which only the empty array of a client is.
Acceptable(arg) == Type(arg) = "object" => Value(arg) = Of("array", <<>>)
Received(arg)   == IF Type(arg) = "object" THEN Of("object", <<>>) ELSE arg
=============================================================================
