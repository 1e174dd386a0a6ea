----------------------------- MODULE MCSettings -----------------------------
(* "KK" is a capital of three bytes, like the Kelvin sign, with the lower case *)
(* "k" of one; "KI" has it too, but EqualFold does not equate the two, as with *)
(* U+0130 and i; "s" is a lower-case letter of two bytes that EqualFold        *)
(* equates with "k", like the long s with s.  Of the blanks, " " is banned,    *)
(* "nbsp" may be part of an atom and "tab" may not.                            *)
EXTENDS Settings

MCLower == [c \in Char |-> IF c \in {"KK", "KI"} THEN "k" ELSE c]
MCFold == [c \in Char |-> IF c \in {"KK", "s"} THEN "k" ELSE c]
MCWidth ==
  [c \in Char |-> CASE c = "KK" -> 3 [] c \in {"KI", "s", "nbsp"} -> 2 [] OTHER -> 1]
MCReserved == {<<"k", "k">>}
MCDomain == <<"KK">>
=============================================================================
