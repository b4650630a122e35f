---------------------------- MODULE ByteStrings ----------------------------
(***************************************************************************)
(* What zco.c promises its clients: a zero-copy object is a string of      *)
(* bytes, to which text can be added at both ends and from which slices    *)
(* are copied.  Nothing that is done to one string shows in another one,   *)
(* whatever they share underneath.  A byte is named by the place it lives  *)
(* at, <<object, index>>.                                                  *)
(***************************************************************************)
EXTENDS Integers, Sequences

CONSTANTS Ids,          \* the names of the strings
          Objects,      \* files and heap objects that hold bytes
          Length        \* Length[o]: number of bytes of object o

VARIABLES strings,      \* strings[z]: the string z, or NoString
          lengths       \* lengths[z]: what is told of the lengths of z
vars == <<strings, lengths>>

NoString == [is |-> "none"]

\* "attached" are the headers that were prepended and not bonded; "body" has
\* "left" bytes of headers in it, then "source" bytes of data, then trailers.
StringOf(attached, body, left, source) ==
  [is |-> "string", attached |-> attached, body |-> body, left |-> left, source |-> source]

LengthsOf(s) == IF s = NoString THEN NoString
                ELSE [is |-> "lengths", total |-> Len(s.attached) + Len(s.body), data |-> Len(s.body)]

\* The n bytes of object o from index k on; and those of a text, or as many as
\* there are.
TextOf(o, k, n) == [i \in 1..n |-> <<o, k + i>>]
SliceOf(text, k, n) == SubSeq(text, k + 1, IF k + n <= Len(text) THEN k + n ELSE Len(text))

(***************************************************************************)
(* The steps of one string, from s to t                                    *)
(***************************************************************************)
Created(s, t, text) == s = NoString /\ t = StringOf(<<>>, text, 0, Len(text))

Appended(s, t, text) ==
  s # NoString /\ t = [s EXCEPT !.body = @ \o text, !.source = @ + Len(text)]

Prepended(s, t, text) == s # NoString /\ t = [s EXCEPT !.attached = text \o @]

Bonded(s, t) ==
  s # NoString /\ t = StringOf(<<>>, s.attached \o s.body, s.left, s.source + Len(s.attached))

Delimited(s, t, left, source) ==
  /\ s # NoString /\ left + source <= Len(s.body)
  /\ t = [s EXCEPT !.left = left, !.source = source]

Destroyed(s, t) == s # NoString /\ t = NoString

(***************************************************************************)
(* Specification                                                           *)
(***************************************************************************)
\* A step of one string among the strings ss.
Changed(s, t, ss) ==
  \/ Destroyed(s, t) \/ Bonded(s, t) \/ Created(s, t, <<>>)
  \/ \E o \in Objects : Prepended(s, t, TextOf(o, 0, Length[o]))
  \/ s # NoString /\ \E left \in 0..Len(s.body) : \E source \in 0..Len(s.body) - left :
       Delimited(s, t, left, source)
  \/ \E o \in Objects : \E k \in 0..Length[o] : \E n \in 0..Length[o] - k :
       Created(s, t, TextOf(o, k, n)) \/ Appended(s, t, TextOf(o, k, n))
  \/ \E from \in Ids : ss[from] # NoString /\ \E k \in 0..Len(ss[from].body) :
       \E n \in 0..Len(ss[from].body) - k :
          \/ Created(s, t, SliceOf(ss[from].body, k, n))
          \/ Appended(s, t, SliceOf(ss[from].body, k, n))

OnlyOne(ss, tt) ==
  \E z \in Ids : /\ \A y \in Ids \ {z} : tt[y] = ss[y]
                 /\ Changed(ss[z], tt[z], ss)

Init == strings = [z \in Ids |-> NoString] /\ lengths = [z \in Ids |-> NoString]

Next == OnlyOne(strings, strings') /\ lengths' = [z \in Ids |-> LengthsOf(strings'[z])]

Spec == Init /\ [][Next]_vars
=============================================================================
