-------------------------------- MODULE Zco --------------------------------
(***************************************************************************)
(* Zero-copy objects (ici/library/zco.c).  The bytes of a ZCO stay where   *)
(* they are, in a file or a heap object.  A reference object cites the     *)
(* bytes, a lien cites a reference, and the extents of the ZCOs cite       *)
(* liens; both kinds of citation are counted for each account, inbound and *)
(* outbound.  What a ZCO uses is posted to the occupancy of its account    *)
(* when its first citation there appears, and taken off with the last one. *)
(* Every function runs inside an SDR transaction of its caller, so each is *)
(* one step.  Extents and capsules belong to one ZCO and are kept in it.   *)
(* No function of zco.c makes a trailer capsule or a bulk reference.       *)
(***************************************************************************)
EXTENDS Integers, FiniteSets, SequencesExt

CONSTANTS
  Accts,                     \* the accounts: inbound, outbound
  Objects, Medium, Length,   \* objects, numbered; their medium and length
  ZcoIds, LienIds,           \* addresses of ZCOs and of liens, numbered
  MaxExtents, MaxCapsules,   \* bounds: extents in all, capsules of a ZCO
  Declares,                  \* whether callers declare the length of an extent okay
  Delimits,                  \* the delimitations tried, pairs <<offset, length>>
  ZcoSize, CapsuleSize, ExtentSize, LienSize, RefSize,    \* sizeof
  Limit                      \* Limit[acct][medium]: maximum occupancy

Media == {"file", "heap"}

ASSUME ZcoAssumption ==
  /\ Objects \subseteq Nat /\ ZcoIds \subseteq Nat /\ LienIds \subseteq Nat
  /\ Medium \in [Objects -> Media] /\ Length \in [Objects -> Nat \ {0}]
  /\ {ZcoSize, CapsuleSize, ExtentSize, LienSize} \subseteq Nat
  /\ RefSize \in [Media -> Nat] /\ Limit \in [Accts -> [Media -> Nat]]
  /\ IsFiniteSet(Objects) /\ IsFiniteSet(ZcoIds) /\ IsFiniteSet(LienIds)
  /\ Objects # {} /\ MaxExtents \in Nat /\ Delimits \subseteq Nat \X Nat

VARIABLES
  zcos,       \* zcos[z]: the ZCO at z, or NoZco
  liens,      \* liens[l]: the lien at l, or NoLien
  refs,       \* refs[o]: the reference object of object o, or NoRef
  objects,    \* the files and heap objects that exist
  book        \* book[acct][medium]: the occupancy
vars == <<zcos, liens, refs, objects, book>>

NoZco == [is |-> "none"]
NoLien == [is |-> "none"]
NoRef == [is |-> "none"]
NoCitation == [a \in Accts |-> 0]

Store == [zcos |-> zcos, liens |-> liens, refs |-> refs, objects |-> objects, book |-> book]
Become(s) == /\ zcos' = s.zcos /\ liens' = s.liens /\ refs' = s.refs
             /\ objects' = s.objects /\ book' = s.book

Live == {z \in ZcoIds : zcos[z] # NoZco}
FreeZcos == ZcoIds \ Live
FreeLiens == {l \in LienIds : liens[l] = NoLien}
FreeObjects == Objects \ objects

(***************************************************************************)
(* Citations and occupancy                                                 *)
(***************************************************************************)
Increase(s, a, m, n) == [s EXCEPT !.book[a][m] = @ + n]
Reduce(s, a, m, n) == [s EXCEPT !.book[a][m] = @ - n]

\* One more lien cites the reference in this account; the first is posted.
CiteRef(s, o, a) ==
  LET cited == [s EXCEPT !.refs[o].count[a] = @ + 1]
  IN IF cited.refs[o].count[a] = 1
     THEN Increase(cited, a, "heap", RefSize[Medium[o]]) ELSE cited

\* One more extent cites the lien in this account.  The first citation posts
\* the bytes under lien and the lien itself, and cites the reference.
CiteLien(s, l, a) ==
  LET lien == s.liens[l]
      cited == [s EXCEPT !.liens[l].count[a] = @ + 1]
  IN IF cited.liens[l].count[a] = 1
     THEN CiteRef(Increase(Increase(cited, a, Medium[lien.ref], lien.length),
                           a, "heap", LienSize), lien.ref, a)
     ELSE cited

\* destroyFileReference, destroyObjReference: the object goes with it (files
\* as LTP makes them: an empty cleanup script, unlinkOnDestroy).
DropRef(s, o) == [s EXCEPT !.refs[o] = NoRef, !.objects = @ \ {o}]

\* Variant of UncitedRef that looks at the counter of one account only.
UncitedRefThere(s, o, a) == s.refs[o].count[a] = 0 /\ s.refs[o].okayToDestroy
UncitedRef(s, o, a) == s.refs[o].count = NoCitation /\ s.refs[o].okayToDestroy

\* One lien less cites the reference in this account; the last is taken off.
UnciteRef(s, o, a) ==
  LET one == [s EXCEPT !.refs[o].count[a] = @ - 1]
      posted == IF one.refs[o].count[a] = 0
                THEN Reduce(one, a, "heap", RefSize[Medium[o]]) ELSE one
  IN IF UncitedRef(posted, o, a) THEN DropRef(posted, o) ELSE posted

\* Variant of UnciteLien that keeps citing the reference.
UnciteLienKeepsRef(s, l, a) ==
  LET lien == s.liens[l]
      one == [s EXCEPT !.liens[l].count[a] = @ - 1]
      posted == IF one.liens[l].count[a] = 0
                THEN Reduce(Reduce(one, a, Medium[lien.ref], lien.length), a, "heap", LienSize)
                ELSE one
  IN IF posted.liens[l].count = NoCitation
     THEN [posted EXCEPT !.liens[l] = NoLien] ELSE posted

\* destroyExtentText: the lien goes with its last citation in any account.
UnciteLien(s, l, a) ==
  LET lien == s.liens[l]
      one == [s EXCEPT !.liens[l].count[a] = @ - 1]
      posted == IF one.liens[l].count[a] = 0
                THEN UnciteRef(Reduce(Reduce(one, a, Medium[lien.ref], lien.length),
                                      a, "heap", LienSize), lien.ref, a)
                ELSE one
  IN IF posted.liens[l].count = NoCitation
     THEN [posted EXCEPT !.liens[l] = NoLien] ELSE posted

(***************************************************************************)
(* Extents                                                                 *)
(***************************************************************************)
ExtentOf(l, offset, length) == [lien |-> l, offset |-> offset, length |-> length]

AddExtent(s, z, e) ==
  LET more == Increase(s, s.zcos[z].acct, "heap", ExtentSize)
  IN [more EXCEPT !.zcos[z].extents = Append(@, e),
                  !.zcos[z].sourceLength = @ + e.length,
                  !.zcos[z].totalLength = @ + e.length]

\* appendExtent: a new lien on the reference, cited by a new extent.
ExtendByRef(s, z, o, offset, length) ==
  LET l == Min({x \in LienIds : s.liens[x] = NoLien})
      a == s.zcos[z].acct
      lien == [is |-> "lien", ref |-> o, length |-> length, count |-> NoCitation]
  IN AddExtent(CiteLien([s EXCEPT !.liens[l] = lien], l, a), z, ExtentOf(l, offset, length))

\* Variant of Walk that takes a piece from the beginning of its extent.
WalkFromStart(pieces, offset, length) ==
  FoldLeft(LAMBDA w, p :
             IF w.todo = 0 THEN w
             ELSE IF w.skip >= p.length THEN [w EXCEPT !.skip = @ - p.length]
             ELSE LET n == Min({p.length - w.skip, w.todo})
                  IN [skip |-> 0, todo |-> w.todo - n,
                      taken |-> Append(w.taken, [p EXCEPT !.length = n])],
           [skip |-> offset, todo |-> length, taken |-> <<>>], pieces).taken

\* The walk that copying, revising and every kind of reading make: skip
\* "offset" bytes of a list of pieces, then take "length" bytes of the rest.
Walk(pieces, offset, length) ==
  FoldLeft(LAMBDA w, p :
             IF w.todo = 0 THEN w
             ELSE IF w.skip >= p.length THEN [w EXCEPT !.skip = @ - p.length]
             ELSE LET n == Min({p.length - w.skip, w.todo})
                  IN [skip |-> 0, todo |-> w.todo - n,
                      taken |-> Append(w.taken, [p EXCEPT !.offset = @ + w.skip, !.length = n])],
           [skip |-> offset, todo |-> length, taken |-> <<>>], pieces).taken

\* appendExtentOfExistingZco: the pieces of another ZCO, under the same liens.
ExtendByZco(s, z, from, offset, length) ==
  FoldLeft(LAMBDA t, p : AddExtent(CiteLien(t, p.lien, t.zcos[z].acct), z, p),
           s, Walk(s.zcos[from].extents, offset, length))
Extents == FoldSet(LAMBDA z, n : n + Len(zcos[z].extents), 0, Live)
Fits(from, offset, length) ==
  Extents + Len(Walk(zcos[from].extents, offset, length)) <= MaxExtents

DataLength(z) == zcos[z].totalLength - zcos[z].capsuleLength

(***************************************************************************)
(* Limits.  A caller that has been awarded the space declares the length   *)
(* to be okay, and no check is made.                                       *)
(***************************************************************************)
Room(a, m) == LET r == Limit[a][m] - book[a][m] IN IF r < 0 THEN 0 ELSE r

ExtentTooLarge(m, length, a) ==
  \/ m = "file" /\ length > Room(a, "file")
  \/ ExtentSize + (IF m = "heap" THEN length ELSE 0) > Room(a, "heap")

AggregateLength(from, offset, length, m) ==
  FoldLeft(LAMBDA n, p : n + (IF Medium[liens[p.lien].ref] = m THEN p.length ELSE 0)
                           + (IF m = "heap" THEN ExtentSize ELSE 0),
           0, Walk(zcos[from].extents, offset, length))
AggregateTooLarge(from, offset, length, a) ==
  \E m \in Media : AggregateLength(from, offset, length, m) > Room(a, m)

(***************************************************************************)
(* Operations                                                              *)
(***************************************************************************)
NewRef(okay) == [is |-> "ref", count |-> NoCitation, okayToDestroy |-> okay]

\* zco_create_file_ref, zco_create_obj_ref, on a file or object just made.
CreateRef(o) ==
  /\ o \in FreeObjects
  /\ Become([Store EXCEPT !.objects = @ \cup {o}, !.refs[o] = NewRef(FALSE)])

\* zco_destroy_file_ref, zco_destroy_obj_ref: called once by the maker.
DestroyRef(o) ==
  /\ refs[o] # NoRef /\ ~refs[o].okayToDestroy
  /\ Become(IF refs[o].count = NoCitation THEN DropRef(Store, o)
            ELSE [Store EXCEPT !.refs[o].okayToDestroy = TRUE])

NewZco(s, z, a) ==
  Increase([s EXCEPT !.zcos[z] = [is |-> "zco", acct |-> a, headers |-> <<>>, extents |-> <<>>,
                                  headersLength |-> 0, sourceLength |-> 0, trailersLength |-> 0,
                                  capsuleLength |-> 0, totalLength |-> 0]],
           a, "heap", ZcoSize)

\* The source of an extent: a reference, or a heap object that gets one which
\* is destroyed as soon as its counts drop to zero.
Sourced(o) ==
  IF refs[o] # NoRef THEN Store
  ELSE [Store EXCEPT !.objects = @ \cup {o}, !.refs[o] = NewRef(TRUE)]
MaySource(o) == \/ refs[o] # NoRef /\ ~refs[o].okayToDestroy
                \/ o \in FreeObjects /\ Medium[o] = "heap"

CreateEmpty(a) == FreeZcos # {} /\ Become(NewZco(Store, Min(FreeZcos), a))

Create(a, o, offset, length, declared) ==
  /\ FreeZcos # {} /\ FreeLiens # {} /\ Extents < MaxExtents /\ MaySource(o) /\ offset + length <= Length[o]
  /\ declared \/ ~ExtentTooLarge(Medium[o], length, a)
  /\ LET z == Min(FreeZcos) IN Become(ExtendByRef(NewZco(Sourced(o), z, a), z, o, offset, length))

\* zco_create from a ZCO of the other account: all of its source data.
CreateFromZco(a, from, declared) ==
  /\ FreeZcos # {} /\ from \in Live /\ zcos[from].acct # a
  /\ Fits(from, 0, DataLength(from))
  /\ declared \/ ~AggregateTooLarge(from, 0, DataLength(from), a)
  /\ LET z == Min(FreeZcos) IN Become(ExtendByZco(NewZco(Store, z, a), z, from, 0, DataLength(from)))

AppendExtent(z, o, offset, length, declared) ==
  /\ z \in Live /\ FreeLiens # {} /\ MaySource(o) /\ offset + length <= Length[o]
  /\ Extents < MaxExtents
  /\ declared \/ ~ExtentTooLarge(Medium[o], length, zcos[z].acct)
  /\ Become(ExtendByRef(Sourced(o), z, o, offset, length))

\* zco_append_extent from a ZCO of the other account; a length that is not
\* declared okay is always refused.  zco_clone_source_data: same account.
AppendFromZco(z, from, offset, length) ==
  /\ {z, from} \subseteq Live /\ z # from
  /\ offset + length <= DataLength(from) /\ Fits(from, offset, length)
  /\ Become(ExtendByZco(Store, z, from, offset, length))

\* zco_clone: no look at the length of the source.
Clone(from, offset, length) ==
  /\ FreeZcos # {} /\ from \in Live /\ Fits(from, offset, length)
  /\ LET z == Min(FreeZcos)
     IN Become(ExtendByZco(NewZco(Store, z, zcos[from].acct), z, from, offset, length))

\* zco_prepend_header copies the text to a heap object of its own.
PrependHeader(z, o) ==
  /\ z \in Live /\ o \in FreeObjects /\ Medium[o] = "heap"
  /\ Len(zcos[z].headers) < MaxCapsules
  /\ LET more == Increase(Store, zcos[z].acct, "heap", Length[o] + CapsuleSize)
     IN Become([more EXCEPT !.objects = @ \cup {o},
                            !.zcos[z].headers = <<o>> \o @,
                            !.zcos[z].capsuleLength = @ + Length[o],
                            !.zcos[z].totalLength = @ + Length[o]])

\* Variant of BondHeader that puts a header behind the data.
BondHeaderLast(s, z, o) ==
  LET l == Min({x \in LienIds : s.liens[x] = NoLien})
      a == s.zcos[z].acct
      one == [NoCitation EXCEPT ![a] = 1]
      freed == Reduce(s, a, "heap", CapsuleSize)
      kept == Increase(freed, a, "heap", ExtentSize + LienSize + RefSize["heap"])
  IN [kept EXCEPT
        !.refs[o] = [NewRef(TRUE) EXCEPT !.count = one],
        !.liens[l] = [is |-> "lien", ref |-> o, length |-> Length[o], count |-> one],
        !.zcos[z].extents = Append(@, ExtentOf(l, 0, Length[o]))]

\* The last header becomes the first extent, with a lien and a reference.
BondHeader(s, z, o) ==
  LET l == Min({x \in LienIds : s.liens[x] = NoLien})
      a == s.zcos[z].acct
      one == [NoCitation EXCEPT ![a] = 1]
      freed == Reduce(s, a, "heap", CapsuleSize)
      kept == Increase(freed, a, "heap", ExtentSize + LienSize + RefSize["heap"])
  IN [kept EXCEPT
        !.refs[o] = [NewRef(TRUE) EXCEPT !.count = one],
        !.liens[l] = [is |-> "lien", ref |-> o, length |-> Length[o], count |-> one],
        !.zcos[z].extents = <<ExtentOf(l, 0, Length[o])>> \o @]

Bond(z) ==
  /\ z \in Live /\ zcos[z].headers # <<>>
  /\ Cardinality(FreeLiens) >= Len(zcos[z].headers)
  /\ Len(zcos[z].headers) + Extents <= MaxExtents
  /\ LET s == FoldRight(LAMBDA o, t : BondHeader(t, z, o), zcos[z].headers, Store)
     IN Become([s EXCEPT !.zcos[z].headers = <<>>,
                         !.zcos[z].sourceLength = @ + zcos[z].capsuleLength,
                         !.zcos[z].capsuleLength = 0])

\* zco_delimit_source
Delimit(z, offset, length) ==
  /\ z \in Live /\ offset + length <= DataLength(z)
  /\ Become([Store EXCEPT !.zcos[z].headersLength = offset,
                          !.zcos[z].sourceLength = length,
                          !.zcos[z].trailersLength = DataLength(z) - offset - length])

DestroyHeader(s, a, o) ==
  Reduce([s EXCEPT !.objects = @ \ {o}], a, "heap", Length[o] + CapsuleSize)

\* zco_destroy: the extents, the headers, the ZCO.
Destroy(z) ==
  /\ z \in Live
  /\ LET a == zcos[z].acct
         cut == FoldLeft(LAMBDA s, e : Reduce(UnciteLien(s, e.lien, a), a, "heap", ExtentSize),
                         Store, zcos[z].extents)
         bare == FoldLeft(LAMBDA s, o : DestroyHeader(s, a, o), cut, zcos[z].headers)
     IN Become(Reduce([bare EXCEPT !.zcos[z] = NoZco], a, "heap", ZcoSize))

(***************************************************************************)
(* Reading.  A reader remembers how much it has copied, and every call     *)
(* walks from the beginning.                                               *)
(***************************************************************************)
Kinds == {"transmit", "headers", "source", "trailers"}
Pieces(z) == [i \in DOMAIN zcos[z].extents |->
  LET e == zcos[z].extents[i]
  IN [object |-> liens[e.lien].ref, offset |-> e.offset, length |-> e.length]]
Capsules(z) == [i \in DOMAIN zcos[z].headers |->
  [object |-> zcos[z].headers[i], offset |-> 0, length |-> Length[zcos[z].headers[i]]]]
BytesOf(pieces) == FoldLeft(LAMBDA bytes, p :
  bytes \o [j \in 1..p.length |-> <<p.object, p.offset + j>>], <<>>, pieces)

Exposed(z, kind) == IF kind = "transmit" THEN Capsules(z) \o Pieces(z) ELSE Pieces(z)
Skipped(z, kind) == CASE kind \in {"transmit", "headers"} -> 0
                      [] kind = "source" -> zcos[z].headersLength
                      [] kind = "trailers" -> zcos[z].headersLength + zcos[z].sourceLength

\* What zco_transmit, zco_receive_headers, zco_receive_source and
\* zco_receive_trailers put in the buffer when "copied" bytes were read before.
Receive(z, kind, copied, length) ==
  BytesOf(Walk(Exposed(z, kind), Skipped(z, kind) + copied, length))

(***************************************************************************)
(* Specification                                                           *)
(***************************************************************************)
Init == /\ zcos = [z \in ZcoIds |-> NoZco] /\ liens = [l \in LienIds |-> NoLien]
        /\ refs = [o \in Objects |-> NoRef] /\ objects = {}
        /\ book = [a \in Accts |-> [m \in Media |-> 0]]

Offsets == 0..Max({Length[o] : o \in Objects}) - 1
Lengths == 1..Max({Length[o] : o \in Objects})

Next ==
  \/ \E o \in Objects : CreateRef(o)
  \/ \E o \in Objects : DestroyRef(o)
  \/ \E a \in Accts : CreateEmpty(a)
  \/ \E a \in Accts, o \in Objects, i \in Offsets, n \in Lengths, d \in Declares : Create(a, o, i, n, d)
  \/ \E a \in Accts, z \in ZcoIds, d \in Declares : CreateFromZco(a, z, d)
  \/ \E z \in ZcoIds, o \in Objects, i \in Offsets, n \in Lengths, d \in Declares : AppendExtent(z, o, i, n, d)
  \/ \E z, f \in ZcoIds, i \in Offsets, n \in Lengths : AppendFromZco(z, f, i, n)
  \/ \E f \in ZcoIds, i \in Offsets, n \in Lengths : Clone(f, i, n)
  \/ \E z \in ZcoIds, o \in Objects : PrependHeader(z, o)
  \/ \E z \in ZcoIds : Bond(z)
  \/ \E z \in ZcoIds, d \in Delimits : Delimit(z, d[1], d[2])
  \/ \E z \in ZcoIds : Destroy(z)

Spec == Init /\ [][Next]_vars

(***************************************************************************)
(* Properties                                                              *)
(***************************************************************************)
Cites(a, l) == {c \in ZcoIds \X (1..MaxExtents) :
                  LET z == zcos[c[1]]
                  IN /\ z # NoZco /\ z.acct = a
                     /\ c[2] \in DOMAIN z.extents /\ z.extents[c[2]].lien = l}
Held == {l \in LienIds : liens[l] # NoLien}
HeldIn(a) == {l \in Held : liens[l].count[a] > 0}

\* The types of the variables; counters and occupancies never go below zero.
TypeOK ==
  /\ DOMAIN zcos = ZcoIds /\ DOMAIN liens = LienIds /\ DOMAIN refs = Objects
  /\ \A z \in Live :
       /\ zcos[z].acct \in Accts /\ Len(zcos[z].extents) <= MaxExtents
       /\ {zcos[z].headersLength, zcos[z].sourceLength, zcos[z].trailersLength,
           zcos[z].capsuleLength, zcos[z].totalLength} \subseteq Nat
  /\ \A l \in Held : liens[l].ref \in Objects /\ liens[l].count \in [Accts -> Nat]
  /\ \A o \in Objects : refs[o] # NoRef => refs[o].count \in [Accts -> Nat]
  /\ objects \subseteq Objects /\ book \in [Accts -> [Media -> Nat]]

\* The occupancy that the limits are checked against is exactly what the ZCOs
\* of the account use: nothing is posted twice and nothing stays posted.
OccupancyExact ==
  \A a \in Accts :
    LET mine == {z \in Live : zcos[z].acct = a}
        bytes(m) == SumFunctionOnSet([l \in LienIds |-> IF l \in Held THEN liens[l].length ELSE 0],
                                     {l \in HeldIn(a) : Medium[liens[l].ref] = m})
        zcoSize(z) == ZcoSize + ExtentSize * Len(zcos[z].extents)
                        + CapsuleSize * Len(zcos[z].headers) + zcos[z].capsuleLength
    IN /\ book[a]["file"] = bytes("file")
       /\ book[a]["heap"] =
            bytes("heap") + LienSize * Cardinality(HeldIn(a))
            + SumFunctionOnSet([z \in ZcoIds |-> IF z \in mine THEN zcoSize(z) ELSE 0], mine)
            + SumFunctionOnSet([o \in Objects |-> RefSize[Medium[o]]], {liens[l].ref : l \in HeldIn(a)})

\* The counters of a lien are the extents that cite it and those of a
\* reference the liens that cite it, in each account; a lien that nothing
\* cites is gone.
CitationsExact ==
  /\ \A l \in Held : /\ \A a \in Accts : liens[l].count[a] = Cardinality(Cites(a, l))
                     /\ liens[l].count # NoCitation
  /\ \A o \in Objects : refs[o] # NoRef =>
       \A a \in Accts : refs[o].count[a] = Cardinality({l \in HeldIn(a) : liens[l].ref = o})

\* Every byte of a ZCO exists as long as the ZCO does, whoever destroyed the
\* reference or another ZCO over the same bytes; and an object that no client
\* and no ZCO can reach any more has been destroyed.
StorageOwned ==
  /\ \A z \in Live : \A i \in DOMAIN zcos[z].extents :
       LET e == zcos[z].extents[i]
       IN /\ e.lien \in Held /\ refs[liens[e.lien].ref] # NoRef
          /\ liens[e.lien].ref \in objects
          /\ e.offset + e.length <= Length[liens[e.lien].ref]
  /\ \A o \in objects :
       \/ refs[o] # NoRef /\ (~refs[o].okayToDestroy \/ refs[o].count # NoCitation)
       \/ \E z \in Live : Contains(zcos[z].headers, o)

\* A reader that stops and goes on loses no byte and reads none twice, at
\* whatever piece it stopped, and each kind of reading begins where
\* zco_delimit_source put its part.
ReadsInOrder ==
  \A z \in Live, kind \in Kinds :
    LET all == BytesOf(Exposed(z, kind))
        from == Skipped(z, kind)
    IN \A i \in 0..Len(all) :
         Receive(z, kind, 0, i) \o Receive(z, kind, Min({i, Len(all) - from}), Len(all))
           = SubSeq(all, from + 1, Len(all))

\* What is occupied and what is cited are counted alike: neither drifts from
\* what the ZCOs hold, whatever the order in which bytes come and go.
AccountsExact == OccupancyExact /\ CitationsExact

(***************************************************************************)
(* Zco implements ByteStrings                                              *)
(***************************************************************************)
StringOf(z) ==
  IF zcos[z] = NoZco THEN NoZco
  ELSE [is |-> "string", attached |-> BytesOf(Capsules(z)), body |-> BytesOf(Pieces(z)),
        left |-> zcos[z].headersLength, source |-> zcos[z].sourceLength]
\* zco_length, zco_source_data_length
LengthsOf(z) ==
  IF zcos[z] = NoZco THEN NoZco
  ELSE [is |-> "lengths", total |-> zcos[z].totalLength,
        data |-> zcos[z].headersLength + zcos[z].sourceLength + zcos[z].trailersLength]

Promise == INSTANCE ByteStrings
             WITH Ids <- ZcoIds, strings <- [z \in ZcoIds |-> StringOf(z)],
                  lengths <- [z \in ZcoIds |-> LengthsOf(z)]

\* ZCOs that share bytes behave as strings of bytes that share nothing: the
\* content of one, and the lengths told of it, depend on nothing that is
\* done to another.
ImplementsByteStrings == Promise!Spec

\* A string is made of a text; a text is added to one.
Makes(text) == \E z \in ZcoIds : Promise!Created(StringOf(z), StringOf(z)', text)
Adds(z, text) == Promise!Appended(StringOf(z), StringOf(z)', text)

\* The step of ByteStrings that a call makes is the one that it was asked for.
\* A clone or a copy has the slice of its source, an extent has the bytes of its
\* object, with the offset and the length that the caller gave, however many
\* extents, shared, partial or bonded, the walk has to go over.
CallAsAsked ==
  /\ \A a \in Accts : CreateEmpty(a) => Makes(<<>>)
  /\ \A o \in Objects, i \in Offsets, n \in Lengths, d \in Declares :
       LET text == Promise!TextOf(o, i, n)
       IN /\ \A a \in Accts : Create(a, o, i, n, d) => Makes(text)
          /\ \A z \in ZcoIds : AppendExtent(z, o, i, n, d) => Adds(z, text)
  /\ \A a \in Accts, f \in ZcoIds, d \in Declares :
       CreateFromZco(a, f, d) => Makes(StringOf(f).body)
  /\ \A f \in ZcoIds, i \in Offsets, n \in Lengths :
       LET text == Promise!SliceOf(StringOf(f).body, i, n)
       IN /\ Clone(f, i, n) => Makes(text)
          /\ \A z \in ZcoIds : AppendFromZco(z, f, i, n) => Adds(z, text)
  /\ \A z \in ZcoIds :
       LET s == StringOf(z)
           t == StringOf(z)'
       IN /\ \A o \in Objects :
               PrependHeader(z, o) => Promise!Prepended(s, t, Promise!TextOf(o, 0, Length[o]))
          /\ \A d \in Delimits : Delimit(z, d[1], d[2]) => Promise!Delimited(s, t, d[1], d[2])
          /\ Bond(z) => Promise!Bonded(s, t)
          /\ Destroy(z) => Promise!Destroyed(s, t)
CallsAsAsked == [][CallAsAsked]_vars
=============================================================================
