-------------------------- MODULE MCCanonicalization --------------------------
(* Documents over the characters that the repository's vectors pick: e     *)
(* acute in both spellings, U+E000 against U+1F600 (UTF-16 orders them the *)
(* other way), an unpaired surrogate, and U+1F600 as two code points.      *)
EXTENDS Canonicalization

MCCodePoints ==
    [nfc |-> <<233>>, nfd |-> <<101, 769>>, pua |-> <<57344>>, smile |-> <<128512>>,
     lone |-> <<55357>>, split |-> <<55357, 56832>>, tag |-> <<36, 98>>, hex |-> <<54, 49>>]

MCTexts == DOMAIN MCCodePoints

MCNfc == [s \in MCTexts |-> IF s = "nfd" THEN "nfc" ELSE s]

MCHex == [blob |-> "hex"]

Str(s) == [t |-> "str", s |-> s]
Int_(n) == [t |-> "int", n |-> n]

MCKeys == {Str(s) : s \in MCTexts \ {"hex"}} \cup {Int_(0)}

MCScalars ==
    {Str("nfc"), Str("nfd"), Str("lone"), Str("split"), Str("hex"), [t |-> "null"], [t |-> "float"],
     [t |-> "bytes", b |-> "blob"]} \cup {Int_(n) : n \in {-3, -2, 2, 3}}
=============================================================================
