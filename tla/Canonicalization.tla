--------------------------- MODULE Canonicalization ---------------------------
(***************************************************************************)
(* The canonical bytes under every digest and signature, as four programs  *)
(* compute them: Python's local and portable profiles (canonical.py), Go   *)
(* (internal/canonical) and Node (canonical.mjs).  Each walks a value,     *)
(* rejects what it will not encode, normalizes texts and keys to NFC,      *)
(* orders the keys of a map its own way and writes compact JSON.           *)
(*                                                                         *)
(* A value is a record with its type in t; a map is the sequence of its    *)
(* entries in insertion order, because that is what a dict and a JSON      *)
(* object keep.  Bytes are the sequence of JSON tokens: escaping is one    *)
(* function of the text, and separators follow from the structure.  Texts  *)
(* are known by their code points; what NFC does to them is the Unicode    *)
(* tables' business, and here the same in all runtimes.                    *)
(*                                                                         *)
(* doc is one document that its owner edits step by step.                  *)
(***************************************************************************)
EXTENDS Integers, Sequences, SequencesExt, FiniteSets

CONSTANTS
    Texts,
    CodePoints,         \* [Texts -> Seq(CodePoint)]
    Nfc,                \* [Texts -> Texts]
    Tag,                \* the key "$bytes_hex"
    Hex,                \* [blobs -> Texts], bytes.hex()
    MaxSafe,            \* MAX_SAFE_INTEGER, scaled down
    Keys,               \* the keys, as values, that documents are built with
    Scalars,            \* and their scalar values
    MaxSize             \* bound: how many values a document holds, itself included

(* A text is its code points.                                              *)
MaxRune == 1114111
CodePoint == 0 .. MaxRune

ASSUME TextAssumption ==
    /\ CodePoints \in [Texts -> Seq(CodePoint)]
    /\ \A s, t \in Texts : CodePoints[s] = CodePoints[t] => s = t
    /\ Nfc \in [Texts -> Texts]
    /\ \A s \in Texts : Nfc[Nfc[s]] = Nfc[s]

ASSUME ConstantAssumption ==
    /\ Tag \in Texts
    /\ Hex \in [DOMAIN Hex -> Texts]
    /\ \A b, c \in DOMAIN Hex : Hex[b] = Hex[c] => b = c
    /\ MaxSafe \in Nat
    /\ MaxSize \in Nat \ {0}

Runtimes == {"python-local", "python-portable", "go", "node"}
Portable == Runtimes \ {"python-local"}

VARIABLE doc

-----------------------------------------------------------------------------
(* The values of a program, by how deep they nest.  Other than scalars a   *)
(* value has items (a list, a tuple) or entries (a dict), pairs of a key   *)
(* and a value.                                                            *)
Leaves ==
    [t : {"null", "float"}] \cup [t : {"int"}, n : Int] \cup [t : {"str"}, s : Texts]
    \cup [t : {"bytes"}, b : DOMAIN Hex]

Containers(S) ==
    [t : {"list", "tuple"}, items : Seq(S)] \cup [t : {"map"}, entries : Seq(Leaves \X S)]

Values[n \in Nat] == IF n = 0 THEN Leaves ELSE Leaves \cup Containers(Values[n - 1])

(* A document of MaxSize values nests no deeper than that.                 *)
Documents == Values[MaxSize]

Children(v) ==
    CASE v.t \in {"list", "tuple"} -> ToSet(v.items)
      [] v.t = "map" -> {e[2] : e \in ToSet(v.entries)}
      [] OTHER -> {}

(* A value and all the values in it: what a walk over it visits.           *)
Parts[v \in Documents] == {v} \cup UNION {Parts[c] : c \in Children(v)}

-----------------------------------------------------------------------------
(* A text as the runtimes hold it: Python by code points, Go as UTF-8,     *)
(* Node as UTF-16.                                                         *)
Utf8(p) ==
    IF p < 128 THEN <<p>>
    ELSE IF p < 2048 THEN <<192 + p \div 64, 128 + (p % 64)>>
    ELSE IF p < 65536
         THEN <<224 + p \div 4096, 128 + ((p \div 64) % 64), 128 + (p % 64)>>
    ELSE <<240 + p \div 262144, 128 + ((p \div 4096) % 64), 128 + ((p \div 64) % 64), 128 + (p % 64)>>

Utf16(p) ==
    IF p < 65536 THEN <<p>>
    ELSE <<55296 + (p - 65536) \div 1024, 56320 + ((p - 65536) % 1024)>>

Utf8Bytes(s) == FlattenSeq([i \in DOMAIN CodePoints[s] |-> Utf8(CodePoints[s][i])])
Utf16Units(s) == FlattenSeq([i \in DOMAIN CodePoints[s] |-> Utf16(CodePoints[s][i])])

Surrogate1 == 55296
Surrogate2 == 56320
Surrogate3 == 57344
HighSurrogates == Surrogate1 .. Surrogate2 - 1
LowSurrogates == Surrogate2 .. Surrogate3 - 1

PythonText(s) == \A p \in ToSet(CodePoints[s]) : p \notin HighSurrogates \cup LowSurrogates

(* utf8.ValidString: the three-byte form of a surrogate is not UTF-8. *)
GoText(s) ==
    \A i \in DOMAIN Utf8Bytes(s) : Utf8Bytes(s)[i] = 237 => Utf8Bytes(s)[i + 1] < 160

(* assertUnicodeScalarString: surrogates come as high and low, in pairs. *)
NodeText(s) ==
    LET u == Utf16Units(s)
    IN  \A i \in DOMAIN u :
           /\ u[i] \in HighSurrogates => i < Len(u) /\ u[i + 1] \in LowSurrogates
           /\ u[i] \in LowSurrogates => i > 1 /\ u[i - 1] \in HighSurrogates

ValidText(r, s) ==
    CASE r = "go"   -> GoText(s)
      [] r = "node" -> NodeText(s)
      [] OTHER      -> PythonText(s)

ValidInteger(r, n) == r = "python-local" \/ (n <= MaxSafe /\ -n <= MaxSafe)

-----------------------------------------------------------------------------
(* Which values the walk lets through. *)
Key(entry) == entry[1].s

(* The fault: colliding keys overwrite one another. *)
KeysOverwrite(r, entries) ==
    \A i \in DOMAIN entries : entries[i][1].t = "str" /\ ValidText(r, Key(entries[i]))

KeysAccepted(r, entries) ==
    /\ \A i \in DOMAIN entries : entries[i][1].t = "str" /\ ValidText(r, Key(entries[i]))
    /\ \A i, j \in DOMAIN entries : Nfc[Key(entries[i])] = Nfc[Key(entries[j])] => i = j

Accepts(r, v) ==
    \A w \in Parts[v] :
        CASE w.t = "int"   -> ValidInteger(r, w.n)
          [] w.t = "float" -> FALSE
          [] w.t = "str"   -> ValidText(r, w.s)
          [] w.t = "bytes" -> r = "python-local"
          [] w.t = "map"   -> KeysAccepted(r, w.entries)
          [] OTHER         -> TRUE

(* Lexical order of two sequences of numbers. *)
Precedes(a, b) ==
    \/ IsStrictPrefix(a, b)
    \/ \E i \in DOMAIN a \cap DOMAIN b :
          a[i] < b[i] /\ \A j \in 1 .. i - 1 : a[j] = b[j]

(* The fault: the default order of JavaScript strings. *)
KeyBeforeUtf16(r, k, l) ==
    CASE r = "node" -> Precedes(Utf16Units(k), Utf16Units(l))
      [] r = "go"   -> Precedes(Utf8Bytes(k), Utf8Bytes(l))
      [] OTHER      -> Precedes(CodePoints[k], CodePoints[l])

KeyBefore(r, k, l) ==
    CASE r \in {"go", "node"} -> Precedes(Utf8Bytes(k), Utf8Bytes(l))
      [] OTHER                -> Precedes(CodePoints[k], CodePoints[l])

(* The fault: entries are written as they were inserted. *)
InsertionOrder(r, entries) == entries

(* The entries sorted: one's place is by how many keys come before its own. *)
KeyOrder(r, entries) ==
    LET keys     == {Nfc[Key(e)] : e \in ToSet(entries)}
        place(k) == 1 + Cardinality({l \in keys : KeyBefore(r, l, k)})
    IN  [i \in DOMAIN entries |-> CHOOSE e \in ToSet(entries) : place(Nfc[Key(e)]) = i]

(* What a runtime writes for a value it accepts, given the bytes it wrote  *)
(* for the children.                                                       *)
Written(r, v, bytes) ==
    CASE v.t = "null"  -> <<<<"null">>>>
      [] v.t = "int"   -> <<<<"number", v.n>>>>
      [] v.t = "str"   -> <<<<"text", Nfc[v.s]>>>>
      [] v.t = "bytes" -> <<<<"{">>, <<"text", Tag>>, <<"text", Hex[v.b]>>, <<"}">>>>
      [] v.t \in {"list", "tuple"} ->
            <<<<"[">>>> \o FlattenSeq([i \in DOMAIN v.items |-> bytes[v.items[i]]]) \o <<<<"]">>>>
      [] v.t = "map" /\ KeysAccepted(r, v.entries) ->
            LET es == KeyOrder(r, v.entries)
            IN  <<<<"{">>>>
                \o FlattenSeq([i \in DOMAIN es |->
                      <<<<"text", Nfc[Key(es[i])]>>>> \o bytes[es[i][2]]])
                \o <<<<"}">>>>
      [] OTHER -> <<>>

Bytes(r, v) ==
    LET bytes[w \in Documents] == Written(r, w, [c \in Children(w) |-> bytes[c]])
    IN  bytes[v]

-----------------------------------------------------------------------------
(* The owner of a document edits it: a dict keeps one entry per key, in    *)
(* the order of first insertion.                                           *)
Size[v \in Documents] ==
    LET children == CASE v.t \in {"list", "tuple"} -> v.items
                      [] v.t = "map" -> [i \in DOMAIN v.entries |-> v.entries[i][2]]
                      [] OTHER -> <<>>
    IN  1 + FoldSeq(LAMBDA c, n : Size[c] + n, 0, children)

Entries == doc.entries

Become(entries) ==
    /\ doc' = [t |-> "map", entries |-> entries]
    /\ doc' \in Documents
    /\ Size[doc'] <= MaxSize

Put(k, v) ==
    LET at == {i \in DOMAIN Entries : Entries[i][1] = k}
    IN  Become(IF at = {} THEN Append(Entries, <<k, v>>)
               ELSE [i \in DOMAIN Entries |-> IF i \in at THEN <<k, v>> ELSE Entries[i]])

Rename(i, k) ==
    /\ \A j \in DOMAIN Entries : Entries[j][1] # k
    /\ Become([Entries EXCEPT ![i] = <<k, @[2]>>])

MoveToEnd(i) == Become(Append(RemoveAt(Entries, i), Entries[i]))

Delete(i) == Become(RemoveAt(Entries, i))

(* A value is put into a container of its own. *)
Nest(i) ==
    \E v \in {[t |-> "list", items |-> <<Entries[i][2]>>]}
             \cup {[t |-> "map", entries |-> <<<<k, Entries[i][2]>>>>] : k \in Keys} :
        Become([Entries EXCEPT ![i] = <<@[1], v>>])

(* A list becomes a tuple, and a tagged dict the bytes it is the tag of. *)
Retype(i) ==
    LET old == Entries[i][2]
        becomes(v) == Become([Entries EXCEPT ![i] = <<@[1], v>>])
    IN  \/ old.t = "list" /\ becomes([t |-> "tuple", items |-> old.items])
        \/ \E b \in DOMAIN Hex :
              /\ old = [t |-> "map", entries |->
                          <<<<[t |-> "str", s |-> Tag], [t |-> "str", s |-> Hex[b]]>>>>]
              /\ becomes([t |-> "bytes", b |-> b])

DocInit == doc = [t |-> "map", entries |-> <<>>]

DocNext ==
    \/ \E k \in Keys, v \in Scalars : Put(k, v)
    \/ \E i \in DOMAIN Entries :
          MoveToEnd(i) \/ Delete(i) \/ Nest(i) \/ Retype(i) \/ \E k \in Keys : Rename(i, k)

DocSpec == DocInit /\ [][DocNext]_doc

-----------------------------------------------------------------------------
(* What JSON, and so a Go or a Node program, can hold at all.  To Node a   *)
(* high and a low surrogate are one character, never two code points.      *)
Json(v) ==
    \A w \in Parts[v] :
        /\ w.t \notin {"bytes", "tuple"}
        /\ w.t = "map" => \A e \in ToSet(w.entries) : e[1].t = "str"

TextsOf(w) ==
    CASE w.t = "str" -> {w.s}
      [] w.t = "map" -> {Key(e) : e \in {f \in ToSet(w.entries) : f[1].t = "str"}}
      [] OTHER       -> {}

SplitPair(s) ==
    \E i \in 2 .. Len(CodePoints[s]) :
        CodePoints[s][i - 1] \in HighSurrogates /\ CodePoints[s][i] \in LowSurrogates

CanHold(r) ==
    \/ r \in {"python-local", "python-portable"}
    \/ /\ Json(doc)
       /\ r = "node" => \A w \in Parts[doc] : \A s \in TextsOf(w) : ~SplitPair(s)

(* The documented portable data domain, with Python's tuples for lists.    *)
ScalarText(s) ==
    \A i \in DOMAIN CodePoints[s] : CodePoints[s][i] \notin Surrogate1 .. Surrogate3 - 1

InPortableDomain(v) ==
    \A w \in Parts[v] :
        /\ w.t \notin {"float", "bytes"}
        /\ w.t = "int" => w.n \in -MaxSafe .. MaxSafe
        /\ \A s \in TextsOf(w) : ScalarText(s)
        /\ w.t = "map" => /\ \A e \in ToSet(w.entries) : e[1].t = "str"
                         /\ Cardinality({Nfc[s] : s \in TextsOf(w)}) = Len(w.entries)

(* The three portable canonicalizers reject one set of documents, the one  *)
(* the profile documents, although each finds surrogates, the limits of    *)
(* integers and colliding keys in its own representation of the value      *)
(* (canonical.py:22-52, canonical.go:28-128, canonical.mjs:5-40).          *)
OneDomain ==
    \A r \in Portable : CanHold(r) => (Accepts(r, doc) <=> InPortableDomain(doc))

(* Programs that accept a document agree on its bytes, so a signature made *)
(* over Python's local bytes verifies in Go and in Node; they sort keys by *)
(* code points, by UTF-8 strings and by a byte comparison                  *)
(* (canonical.py:52-63, canonical.go:130-147, canonical.mjs:19-55).        *)
OneEncoding ==
    \A r, q \in Runtimes :
        CanHold(r) /\ CanHold(q) /\ Accepts(r, doc) /\ Accepts(q, doc)
        => Bytes(r, doc) = Bytes(q, doc)

(* What a document says, in no order and no spelling.  The tagged dict of  *)
(* bytes means the bytes: the local profile does not tell them apart.      *)
Meant(v, meaning) ==
    CASE v.t = "int"   -> <<"int", v.n>>
      [] v.t = "str"   -> <<"str", Nfc[v.s]>>
      [] v.t = "bytes" -> <<"map", {<<Tag, <<"str", Hex[v.b]>>>>}>>
      [] v.t \in {"list", "tuple"} -> <<"list", [i \in DOMAIN v.items |-> meaning[v.items[i]]]>>
      [] v.t = "map"   -> <<"map", {<<Nfc[Key(e)], meaning[e[2]]>> : e \in ToSet(v.entries)}>>
      [] OTHER -> <<v.t>>

Meaning[v \in Documents] == Meant(v, [c \in Children(v) |-> Meaning[c]])

(* A digest names a meaning: an edit leaves the bytes alone exactly when   *)
(* it changes nothing but the order of entries, the spelling of a text, or *)
(* the Python type of a container.  All digest comparisons of the protocol *)
(* stand on this (canonical.py:31-63).                                     *)
DigestsSeparate ==
    [][\A r \in Runtimes :
          CanHold(r) /\ Accepts(r, doc) /\ CanHold(r)' /\ Accepts(r, doc')
          => (Bytes(r, doc) = Bytes(r, doc') <=> Meaning[doc] = Meaning[doc'])]_doc
=============================================================================
