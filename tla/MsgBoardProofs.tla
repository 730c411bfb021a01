--------------------------- MODULE MsgBoardProofs ---------------------------
(***************************************************************************)
(* Message boards of any number of files and posts: no post is shown with  *)
(* another's text, and a start of the server drops what it should and no   *)
(* more.                                                                   *)
(*                                                                         *)
(* The invariant compares the two files of a pair, in which the numbers    *)
(* grow.  Maintenance goes through the index by a recursion; as in         *)
(* VendorProofs, Upto is the induction, and what holds of the entries gone *)
(* through so far is a predicate of the accumulator.                       *)
(***************************************************************************)
EXTENDS MsgBoard, FiniteSetTheorems, SequenceTheorems, TLAPS

-----------------------------------------------------------------------------
(* Induction, over a set instead of a formula.                             *)

\* A set of numbers has a least one.
LEMMA Least ==
    ASSUME NEW T, T \subseteq Nat, T # {}
    PROVE  \E m \in T : \A k \in T : m <= k
<1> DEFINE R == OpToRel(<, Nat)
<1>1. IsWellFoundedOn(R, Nat)
  BY NatLessThanWellFounded
<1>2. PICK m \in T : \A y \in T : ~(<<y, m>> \in R)
  <2> HIDE DEF R
  <2> QED  BY <1>1, WFMin
<1>3. \A y \in T : ~(y < m)
  BY <1>2 DEF OpToRel
<1> QED  BY <1>3

\* On a number: from 0, and from each to the next.
LEMMA Upto ==
    ASSUME NEW n \in Nat, NEW T, 0 \in T, \A i \in 0 .. n - 1 : i \in T => i + 1 \in T
    PROVE  0 .. n \subseteq T
<1> DEFINE V == (0 .. n) \ T
<1> SUFFICES ASSUME V # {}
             PROVE  FALSE
  OBVIOUS
<1>1. PICK m \in V : \A k \in V : m <= k
  <2>1. V \subseteq Nat
    OBVIOUS
  <2> HIDE DEF V
  <2> QED  BY <2>1, Least
<1>2. m # 0 /\ m - 1 \in 0 .. n - 1 /\ m - 1 \in T
  BY <1>1
<1> QED  BY <1>1, <1>2

-----------------------------------------------------------------------------
(* The invariant.                                                          *)

Numbers(f) == Base[f] .. Base[f] + Limit - 1
Entry(f) == [sn : Numbers(f), live : BOOLEAN, day : 1 .. Year, text : Texts]
PostOf(f) == [sn : Numbers(f), text : Texts]

\* Numbers only grow along a file.
Grows(s) == \A i, j \in DOMAIN s : i < j => s[i].sn < s[j].sn

\* Where the numbers of an entry and of a post are the same, so are the texts.
SameTexts(ix, ps) == \A i \in DOMAIN ix, k \in DOMAIN ps : ix[i].sn = ps[k].sn => ix[i].text = ps[k].text

\* A pair of files: t at the head of the index, its entries ix, the posts ps.
Sound(f, t, ix, ps) ==
    /\ t \in {Missing, Empty} \cup Base[f] .. Base[f] + Limit
    /\ ix \in Seq(Entry(f)) /\ ps \in Seq(PostOf(f))
    /\ Grows(ix) /\ Grows(ps)
    /\ \A i \in DOMAIN ix : ix[i].sn <= t
    /\ \A k \in DOMAIN ps : ps[k].sn <= t
    /\ SameTexts(ix, ps)

\* A leftover index lx is that of a pair of files which has nothing else.
Left(f, lx, t, ps) == lx \in Seq(Entry(f)) /\ t = Empty /\ ps = <<>>

Inv ==
    /\ top \in [Files -> Int]
    /\ DOMAIN index = Files /\ DOMAIN texts = Files
    /\ today \in 1 .. Year
    /\ \A f \in Files : Sound(f, top[f], index[f], Posts(f))
    /\ leftover # NoIndex => \E f \in Files : Left(f, leftover, top[f], Posts(f))

\* Numbers are positive, so those of a post are neither of the two marks.
LEMMA BaseIsNat ==
    ASSUME NEW f \in Files
    PROVE  Base[f] \in Nat \ {0} /\ Limit \in Nat \ {0} /\ Missing \notin Numbers(f) /\ Empty \notin Numbers(f)
BY BaseAssumption DEF Missing, Empty, Numbers

\* The first post with a number.
LEMMA FoundPost ==
    ASSUME NEW S, NEW s \in Seq(S), NEW sn
    PROVE  /\ Found(s, sn) = 0 <=> \A k \in DOMAIN s : s[k].sn # sn
           /\ Found(s, sn) # 0 =>
                /\ Found(s, sn) \in DOMAIN s /\ s[Found(s, sn)].sn = sn
                /\ \A k \in DOMAIN s : s[k].sn = sn => Found(s, sn) <= k
<1> DEFINE I == {i \in 1 .. Len(s) : s[i].sn = sn}
<1>1. Len(s) \in Nat /\ DOMAIN s = 1 .. Len(s)
  OBVIOUS
<1>2. Found(s, sn) = IF I # {} THEN Min(I) ELSE 0
  BY DEF Found, SelectInSeq
<1>3. CASE I = {}
  BY <1>1, <1>2, <1>3
<1>4. CASE I # {}
  <2>1. \E m \in I : \A k \in I : m <= k
    <3>1. I \subseteq Nat
      BY <1>1
    <3> HIDE DEF I
    <3> QED  BY <1>4, <3>1, Least
  <2>2. Min(I) \in I /\ \A k \in I : Min(I) <= k
    <3> HIDE DEF I
    <3> QED  BY <2>1 DEF Min
  <2> QED  BY <1>1, <1>2, <1>4, <2>2
<1> QED  BY <1>3, <1>4

\* What the lemmas below use of the entries and posts of sound files.
LEMMA SoundParts ==
    ASSUME NEW f \in Files, NEW t, NEW ix, NEW ps, Sound(f, t, ix, ps)
    PROVE  /\ ix \in Seq(Entry(f)) /\ DOMAIN ix = 1 .. Len(ix) /\ Len(ix) \in Nat
           /\ ps \in Seq(PostOf(f)) /\ DOMAIN ps = 1 .. Len(ps) /\ Len(ps) \in Nat
           /\ \A i \in 1 .. Len(ix) : ix[i] \in Entry(f) /\ ix[i].sn \in Int /\ ix[i].sn >= Base[f]
           /\ \A k \in 1 .. Len(ps) : ps[k] \in PostOf(f) /\ ps[k].sn \in Int /\ ps[k].sn >= Base[f]
<1>1. ix \in Seq(Entry(f)) /\ ps \in Seq(PostOf(f))
  BY DEF Sound
<1>2. \A e \in Entry(f) : e.sn \in Int /\ e.sn >= Base[f]
  BY BaseIsNat DEF Entry, Numbers
<1>3. \A p \in PostOf(f) : p.sn \in Int /\ p.sn >= Base[f]
  BY BaseIsNat DEF PostOf, Numbers
<1>4. \A i \in 1 .. Len(ix) : ix[i] \in Entry(f)
  BY <1>1
<1>5. \A k \in 1 .. Len(ps) : ps[k] \in PostOf(f)
  BY <1>1
<1> QED  BY <1>1, <1>2, <1>3, <1>4, <1>5

\* A pair of files without entries.
LEMMA NoFiles == ASSUME NEW f \in Files PROVE Sound(f, Missing, <<>>, <<>>) /\ Sound(f, Empty, <<>>, <<>>)
BY DEF Sound, Grows, SameTexts, Missing, Empty

\* The invariant holds before the first post (there are no files).
LEMMA InvInit == Init => Inv
<1> SUFFICES ASSUME Init
             PROVE  Inv
  OBVIOUS
<1>1. \A f \in Files : top[f] = Missing /\ index[f] = <<>> /\ Posts(f) = <<>>
  BY DEF Init, Posts, HasTexts
<1>2. top \in [Files -> Int] /\ DOMAIN index = Files /\ DOMAIN texts = Files
  BY DEF Init, Missing
<1>3. today \in 1 .. Year
  BY DaysAssumption DEF Init
<1>4. leftover = NoIndex
  BY DEF Init
<1> QED  BY <1>1, <1>2, <1>3, <1>4, NoFiles DEF Inv

\* A number given out is higher than those given before.
LEMMA HigherNumber ==
    ASSUME Inv, NEW f \in Files, top[f] # Empty, NewNumber(f) <= Base[f] + Limit
    PROVE  /\ NewNumber(f) \in Base[f] .. Base[f] + Limit
           /\ \A i \in DOMAIN index[f] : index[f][i].sn < NewNumber(f)
           /\ \A k \in DOMAIN Posts(f) : Posts(f)[k].sn < NewNumber(f)
<1>1. Sound(f, top[f], index[f], Posts(f)) /\ top[f] \in Int
  BY DEF Inv
<1>2. /\ \A i \in DOMAIN index[f] : index[f][i].sn \in Int /\ index[f][i].sn >= Base[f]
      /\ \A k \in DOMAIN Posts(f) : Posts(f)[k].sn \in Int /\ Posts(f)[k].sn >= Base[f]
  BY <1>1, SoundParts
<1>3. /\ \A i \in DOMAIN index[f] : index[f][i].sn <= top[f]
      /\ \A k \in DOMAIN Posts(f) : Posts(f)[k].sn <= top[f]
      /\ top[f] \in {Missing, Empty} \cup Base[f] .. Base[f] + Limit
  BY <1>1 DEF Sound
<1> DEFINE ix == index[f]
           ps == Posts(f)
<1> HIDE DEF ix, ps
<1>4. CASE top[f] = Missing
  BY <1>2, <1>3, <1>4, BaseIsNat DEF NewNumber, Missing
<1>5. CASE top[f] # Missing
  BY <1>2, <1>3, <1>5, BaseIsNat DEF NewNumber
<1> QED  BY <1>4, <1>5

\* A sequence with one element more.
LEMMA Appended ==
    ASSUME NEW S, NEW s \in Seq(S), NEW e \in S
    PROVE  /\ Append(s, e) \in Seq(S)
           /\ DOMAIN s = 1 .. Len(s) /\ DOMAIN Append(s, e) = 1 .. Len(s) + 1
           /\ \A i \in 1 .. Len(s) : Append(s, e)[i] = s[i]
           /\ Append(s, e)[Len(s) + 1] = e
           /\ Len(s) \in Nat /\ Len(Append(s, e)) = Len(s) + 1
OBVIOUS

\* An entry, and perhaps its post, with a higher number at the end.
LEMMA SoundWithPost ==
    ASSUME NEW f \in Files, NEW t, NEW ix, NEW ps, Sound(f, t, ix, ps),
           NEW e \in Entry(f), NEW p \in PostOf(f), e.sn = p.sn, e.text = p.text,
           \A i \in DOMAIN ix : ix[i].sn < e.sn,
           \A k \in DOMAIN ps : ps[k].sn < e.sn
    PROVE  /\ Sound(f, e.sn, Append(ix, e), ps)
           /\ Sound(f, e.sn, Append(ix, e), Append(ps, p))
<1>1. ix \in Seq(Entry(f)) /\ ps \in Seq(PostOf(f)) /\ Grows(ix) /\ Grows(ps) /\ SameTexts(ix, ps)
  BY DEF Sound
<1> DEFINE n == Len(ix)
           m == Len(ps)
           iy == Append(ix, e)
           pt == Append(ps, p)
<1>2. /\ iy \in Seq(Entry(f)) /\ DOMAIN ix = 1 .. n /\ DOMAIN iy = 1 .. n + 1 /\ n \in Nat
      /\ \A i \in 1 .. n : iy[i] = ix[i]
      /\ iy[n + 1] = e
  BY <1>1, Appended
<1>3. /\ pt \in Seq(PostOf(f)) /\ DOMAIN ps = 1 .. m /\ DOMAIN pt = 1 .. m + 1 /\ m \in Nat
      /\ \A i \in 1 .. m : pt[i] = ps[i]
      /\ pt[m + 1] = p
  BY <1>1, Appended
<1>4. /\ e.sn \in Int /\ e.sn \in Base[f] .. Base[f] + Limit
      /\ \A i \in 1 .. n : ix[i].sn \in Int
      /\ \A k \in 1 .. m : ps[k].sn \in Int
  <2>1. e.sn \in Int /\ e.sn \in Base[f] .. Base[f] + Limit
    BY BaseIsNat DEF Entry, Numbers
  <2> QED  BY <2>1, SoundParts
<1> HIDE DEF iy, pt, n, m
<1>5. Grows(iy)
  <2> SUFFICES ASSUME NEW i \in 1 .. n + 1, NEW j \in 1 .. n + 1, i < j
               PROVE  iy[i].sn < iy[j].sn
    BY <1>2 DEF Grows
  <2>1. CASE j = n + 1
    BY <1>2, <2>1
  <2>2. CASE j # n + 1
    BY <1>1, <1>2, <2>2 DEF Grows
  <2> QED  BY <2>1, <2>2
<1>6. Grows(pt)
  <2> SUFFICES ASSUME NEW i \in 1 .. m + 1, NEW j \in 1 .. m + 1, i < j
               PROVE  pt[i].sn < pt[j].sn
    BY <1>3 DEF Grows
  <2>1. CASE j = m + 1
    BY <1>3, <2>1
  <2>2. CASE j # m + 1
    BY <1>1, <1>3, <2>2 DEF Grows
  <2> QED  BY <2>1, <2>2
<1>7. SameTexts(iy, ps)
  <2> SUFFICES ASSUME NEW i \in 1 .. n + 1, NEW k \in 1 .. m, iy[i].sn = ps[k].sn
               PROVE  iy[i].text = ps[k].text
    BY <1>2, <1>3 DEF SameTexts
  <2>1. i # n + 1
    BY <1>2, <1>3, <1>4
  <2> QED  BY <1>1, <1>2, <1>3, <2>1 DEF SameTexts
<1>8. SameTexts(iy, pt)
  <2> SUFFICES ASSUME NEW i \in 1 .. n + 1, NEW k \in 1 .. m + 1, iy[i].sn = pt[k].sn
               PROVE  iy[i].text = pt[k].text
    BY <1>2, <1>3 DEF SameTexts
  <2>1. CASE i = n + 1 /\ k = m + 1
    BY <1>2, <1>3, <2>1
  <2>2. CASE i = n + 1 /\ k # m + 1
    <3>1. k \in 1 .. m /\ pt[k] = ps[k] /\ iy[i] = e
      BY <1>2, <1>3, <2>2
    <3>2. ps[k].sn < e.sn
      BY <1>3, <3>1
    <3> QED  BY <1>4, <3>1, <3>2
  <2>3. CASE i # n + 1 /\ k = m + 1
    <3>1. i \in 1 .. n /\ iy[i] = ix[i] /\ pt[k] = p
      BY <1>2, <1>3, <2>3
    <3>2. ix[i].sn < e.sn
      BY <1>2, <3>1
    <3> QED  BY <1>4, <3>1, <3>2
  <2>4. CASE i # n + 1 /\ k # m + 1
    <3>1. i \in DOMAIN ix /\ k \in DOMAIN ps /\ iy[i] = ix[i] /\ pt[k] = ps[k]
      BY <1>2, <1>3, <2>4
    <3> QED  BY <1>1, <3>1 DEF SameTexts
  <2> QED  BY <2>1, <2>2, <2>3, <2>4
<1>9. /\ \A i \in DOMAIN iy : iy[i].sn <= e.sn
      /\ \A k \in DOMAIN ps : ps[k].sn <= e.sn
      /\ \A k \in DOMAIN pt : pt[k].sn <= e.sn
  <2>1. ASSUME NEW i \in 1 .. n + 1
        PROVE  iy[i].sn <= e.sn
    <3>1. CASE i = n + 1
      BY <1>2, <1>4, <3>1
    <3>2. CASE i # n + 1
      <4>1. i \in 1 .. n /\ iy[i] = ix[i] /\ ix[i].sn < e.sn
        BY <1>2, <3>2
      <4> QED  BY <1>4, <4>1
    <3> QED  BY <3>1, <3>2
  <2>2. ASSUME NEW k \in 1 .. m
        PROVE  ps[k].sn <= e.sn
    <3>1. ps[k].sn < e.sn
      BY <1>3
    <3> QED  BY <1>4, <3>1
  <2>3. ASSUME NEW k \in 1 .. m + 1
        PROVE  pt[k].sn <= e.sn
    <3>1. CASE k = m + 1
      BY <1>3, <1>4, <3>1
    <3>2. CASE k # m + 1
      <4>1. k \in 1 .. m /\ pt[k] = ps[k]
        BY <1>3, <3>2
      <4> QED  BY <2>2, <4>1
    <3> QED  BY <3>1, <3>2
  <2> QED  BY <1>2, <1>3, <2>1, <2>2, <2>3
<1>10. Sound(f, e.sn, iy, ps) /\ Sound(f, e.sn, iy, pt)
  BY <1>1, <1>2, <1>3, <1>4, <1>5, <1>6, <1>7, <1>8, <1>9 DEF Sound
<1> QED  BY <1>10 DEF iy, pt

-----------------------------------------------------------------------------
(* Maintenance: the recursion through the index.                           *)

\* The function Compacted() evaluates.
Acc(f) ==
    CHOOSE acc : acc = [i \in 0 .. Len(OldIndex(f)) |->
        IF i = 0 THEN [rest |-> Posts(f), next |-> Base[f], index |-> <<>>, texts |-> <<>>]
        ELSE Keep(acc[i - 1], OldIndex(f)[i])]

NewEntry == [sn : Int, live : BOOLEAN, day : 1 .. Year, text : Texts]
NewPost == [sn : Int, text : Texts]
AccType(f) == [rest : Seq(PostOf(f)), next : Int, index : Seq(NewEntry), texts : Seq(NewPost)]

\* The functions on 0 .. n that begin with s and make each step F[i].
Courses(n, G, s, F) == {g \in [0 .. n -> G] : g[0] = s /\ \A i \in 1 .. n : g[i] = F[i][g[i - 1]]}

\* There is one.
LEMMA Stepwise ==
    ASSUME NEW n \in Nat, NEW G, NEW s \in G, NEW F \in [1 .. n -> [G -> G]]
    PROVE  Courses(n, G, s, F) # {}
<1> DEFINE Fits(g, m) == g[0] = s /\ \A i \in 1 .. m : g[i] = F[i][g[i - 1]]
           T == {m \in 0 .. n : \E g \in [0 .. n -> G] : Fits(g, m)}
<1>1. 0 \in T
  <2> DEFINE z == [i \in 0 .. n |-> s]
  <2>1. z \in [0 .. n -> G] /\ Fits(z, 0)
    OBVIOUS
  <2> HIDE DEF z, Fits
  <2> QED  BY <2>1
<1>2. ASSUME NEW m \in 0 .. n - 1, m \in T
      PROVE  m + 1 \in T
  <2>1. PICK g \in [0 .. n -> G] : Fits(g, m)
    BY <1>2
  <2> DEFINE h == [g EXCEPT ![m + 1] = F[m + 1][g[m]]]
  <2>2. F[m + 1] \in [G -> G] /\ g[m] \in G
    OBVIOUS
  <2>3. h \in [0 .. n -> G]
    BY <2>2
  <2>4. Fits(h, m + 1)
    <3>1. h[0] = s
      BY <2>1
    <3>2. ASSUME NEW i \in 1 .. m + 1
          PROVE  h[i] = F[i][h[i - 1]]
      BY <2>1
    <3> QED  BY <3>1, <3>2
  <2> HIDE DEF h, Fits
  <2> QED  BY <2>3, <2>4
<1>3. n \in T
  <2> HIDE DEF T
  <2>1. \A m \in 0 .. n - 1 : m \in T => m + 1 \in T
    BY <1>2
  <2>2. 0 .. n \subseteq T
    BY <1>1, <2>1, Upto
  <2> QED  BY <2>2
<1> QED  BY <1>3 DEF Courses

\* The rest of a file behind its first k posts.
LEMMA RestOf ==
    ASSUME NEW S, NEW s \in Seq(S), NEW k \in 0 .. Len(s)
    PROVE  /\ SubSeq(s, k + 1, Len(s)) \in Seq(S)
           /\ Len(SubSeq(s, k + 1, Len(s))) = Len(s) - k
           /\ \A i \in 1 .. Len(s) - k : SubSeq(s, k + 1, Len(s))[i] = s[k + i]
OBVIOUS

\* One entry: the accumulator keeps its type (the loop of MsgBoardMaintenance).
LEMMA KeepType ==
    ASSUME NEW f \in Files, NEW a \in AccType(f), NEW e \in NewEntry
    PROVE  Keep(a, e) \in AccType(f)
<1> DEFINE k == Found(a.rest, e.sn)
<1>1. /\ a.rest \in Seq(PostOf(f)) /\ a.next \in Int
      /\ a.index \in Seq(NewEntry) /\ a.texts \in Seq(NewPost)
  BY DEF AccType
<1>2. CASE ~Wanted(e)
  BY <1>2 DEF Keep
<1>3. CASE Wanted(e) /\ k = 0
  <2>1. Keep(a, e) = [a EXCEPT !.rest = <<>>]
    BY <1>3 DEF Keep
  <2>2. <<>> \in Seq(PostOf(f))
    OBVIOUS
  <2> QED  BY <2>1, <2>2 DEF AccType
<1>4. CASE Wanted(e) /\ k # 0
  <2>1. k \in 1 .. Len(a.rest) /\ Len(a.rest) \in Nat
    BY <1>1, <1>4, FoundPost
  <2>2. Keep(a, e) = [rest  |-> SubSeq(a.rest, k + 1, Len(a.rest)),
                      next  |-> a.next + 1,
                      index |-> Append(a.index, [e EXCEPT !.sn = a.next]),
                      texts |-> Append(a.texts, [a.rest[k] EXCEPT !.sn = a.next])]
    BY <1>4 DEF Keep
  <2>3. SubSeq(a.rest, k + 1, Len(a.rest)) \in Seq(PostOf(f))
    BY <1>1, <2>1, RestOf
  <2>4. [e EXCEPT !.sn = a.next] \in NewEntry
    BY <1>1 DEF NewEntry
  <2>5. [a.rest[k] EXCEPT !.sn = a.next] \in NewPost
    <3>1. a.rest[k] \in PostOf(f)
      BY <1>1, <2>1
    <3> QED  BY <1>1, <3>1 DEF PostOf, NewPost
  <2>6. /\ Append(a.index, [e EXCEPT !.sn = a.next]) \in Seq(NewEntry)
        /\ Append(a.texts, [a.rest[k] EXCEPT !.sn = a.next]) \in Seq(NewPost)
    BY <1>1, <2>4, <2>5, Appended
  <2> HIDE DEF k
  <2> QED  BY <1>1, <2>2, <2>3, <2>6 DEF AccType
<1> QED  BY <1>2, <1>3, <1>4

\* The index that is read, the file's own or the leftover one.
LEMMA OldIndexType ==
    ASSUME Inv, NEW f \in Files
    PROVE  /\ OldIndex(f) \in Seq(NewEntry) /\ Len(OldIndex(f)) \in Nat
           /\ \A i \in 1 .. Len(OldIndex(f)) : OldIndex(f)[i] \in NewEntry
<1>1. ASSUME NEW g \in Files
      PROVE  Entry(g) \subseteq NewEntry
  BY BaseIsNat DEF Entry, NewEntry, Numbers
<1>2. PICK g \in Files : OldIndex(f) \in Seq(Entry(g))
  <2>1. CASE Displaced(f)
    BY <2>1 DEF Displaced, OldIndex, Inv, Left
  <2>2. CASE ~Displaced(f)
    BY <2>2 DEF OldIndex, Inv, Sound
  <2> QED  BY <2>1, <2>2
<1>3. OldIndex(f) \in Seq(NewEntry)
  BY <1>1, <1>2
<1> QED  BY <1>3

\* The recursion has the values its equations say, of that type.
LEMMA AccDefined ==
    ASSUME Inv, NEW f \in Files
    PROVE  /\ Len(OldIndex(f)) \in Nat
           /\ \A i \in 1 .. Len(OldIndex(f)) : OldIndex(f)[i] \in NewEntry
           /\ Compacted(f) = Acc(f)[Len(OldIndex(f))]
           /\ Acc(f)[0] = [rest |-> Posts(f), next |-> Base[f], index |-> <<>>, texts |-> <<>>]
           /\ \A i \in 1 .. Len(OldIndex(f)) : Acc(f)[i] = Keep(Acc(f)[i - 1], OldIndex(f)[i])
           /\ \A i \in 0 .. Len(OldIndex(f)) : Acc(f)[i] \in AccType(f)
<1> DEFINE n == Len(OldIndex(f))
           s == [rest |-> Posts(f), next |-> Base[f], index |-> <<>>, texts |-> <<>>]
           F == [i \in 1 .. n |-> [a \in AccType(f) |-> Keep(a, OldIndex(f)[i])]]
           c == Acc(f)
<1>1. n \in Nat /\ (\A i \in 1 .. n : OldIndex(f)[i] \in NewEntry) /\ Posts(f) \in Seq(PostOf(f))
  BY OldIndexType, SoundParts DEF Inv
<1>2. s \in AccType(f)
  <2>1. <<>> \in Seq(NewEntry) /\ <<>> \in Seq(NewPost) /\ Base[f] \in Int
    BY BaseIsNat
  <2> QED  BY <1>1, <2>1 DEF AccType
<1>3. Compacted(f) = c[n]
  BY DEF Compacted, Acc
<1> HIDE DEF n, s
<1>4. F \in [1 .. n -> [AccType(f) -> AccType(f)]]
  BY <1>1, KeepType
<1>5. PICK g \in [0 .. n -> AccType(f)] : g[0] = s /\ \A i \in 1 .. n : g[i] = F[i][g[i - 1]]
  <2> HIDE DEF F
  <2>1. n \in Nat
    BY <1>1
  <2>2. Courses(n, AccType(f), s, F) # {}
    BY <2>1, <1>2, <1>4, Stepwise
  <2> QED  BY <2>2 DEF Courses
<1>6. g = [i \in 0 .. n |-> IF i = 0 THEN s ELSE Keep(g[i - 1], OldIndex(f)[i])]
  <2>1. \A i \in 1 .. n : g[i - 1] \in AccType(f)
    BY <1>1
  <2>2. \A i \in 1 .. n : g[i] = Keep(g[i - 1], OldIndex(f)[i])
    BY <1>5, <2>1
  <2> QED  BY <1>5, <2>2
<1>7. c = [i \in 0 .. n |-> IF i = 0 THEN s ELSE Keep(c[i - 1], OldIndex(f)[i])]
  BY <1>6 DEF Acc, n, s
<1> HIDE DEF c
<1>8. c[0] = s /\ \A i \in 1 .. n : c[i] = Keep(c[i - 1], OldIndex(f)[i])
  BY <1>1, <1>7
<1>9. \A i \in 0 .. n : c[i] \in AccType(f)
  <2> DEFINE T == {i \in 0 .. n : c[i] \in AccType(f)}
  <2>1. 0 \in T
    BY <1>1, <1>2, <1>8
  <2>2. ASSUME NEW i \in 0 .. n - 1, i \in T
        PROVE  i + 1 \in T
    <3>1. c[i + 1] = Keep(c[i], OldIndex(f)[i + 1]) /\ i + 1 \in 1 .. n
      BY <1>1, <1>8
    <3> QED  BY <1>1, <2>2, <3>1, KeepType
  <2>3. 0 .. n \subseteq T
    <3> HIDE DEF T
    <3>1. \A i \in 0 .. n - 1 : i \in T => i + 1 \in T
      BY <2>2
    <3> QED  BY <1>1, <2>1, <3>1, Upto
  <2> QED  BY <2>3
<1> QED  BY <1>1, <1>3, <1>8, <1>9 DEF n, s, c

\* In the place of another index nothing is found: the file has no posts, or
\* none with a number of another kind.
LEMMA NothingFound ==
    ASSUME Inv, NEW f \in Files, Displaced(f)
    PROVE  Compacted(f).index = <<>> /\ Compacted(f).texts = <<>> /\ Compacted(f).next = Base[f]
<1> DEFINE n == Len(OldIndex(f))
           c == Acc(f)
           T == {i \in 0 .. n : /\ c[i].index = <<>> /\ c[i].texts = <<>> /\ c[i].next = Base[f]
                                /\ c[i].rest = Posts(f) \/ c[i].rest = <<>>}
<1>1. /\ n \in Nat /\ Compacted(f) = c[n]
      /\ c[0] = [rest |-> Posts(f), next |-> Base[f], index |-> <<>>, texts |-> <<>>]
      /\ \A i \in 1 .. n : c[i] = Keep(c[i - 1], OldIndex(f)[i])
      /\ \A i \in 0 .. n : c[i] \in AccType(f)
  BY AccDefined
<1>2. PICK g \in Files : leftover \in Seq(Entry(g)) /\ Posts(g) = <<>>
  BY DEF Displaced, Inv, Left
<1>3. OldIndex(f) = leftover
  BY DEF OldIndex
<1>4. Posts(f) \in Seq(PostOf(f)) /\ \A k \in DOMAIN Posts(f) : Posts(f)[k] \in PostOf(f)
  BY SoundParts DEF Inv
<1>5. ASSUME NEW i \in 1 .. n, NEW k \in DOMAIN Posts(f)
      PROVE  Posts(f)[k].sn # OldIndex(f)[i].sn
  <2>1. f # g
    BY <1>2
  <2>2. Posts(f)[k].sn \in Numbers(f)
    BY <1>4 DEF PostOf
  <2>3. OldIndex(f)[i].sn \in Numbers(g)
    <3>1. OldIndex(f) \in Seq(Entry(g)) /\ i \in 1 .. Len(OldIndex(f))
      BY <1>2, <1>3
    <3>2. OldIndex(f)[i] \in Entry(g)
      BY <3>1
    <3> QED  BY <3>2 DEF Entry
  <2>4. Base[f] + Limit <= Base[g] \/ Base[g] + Limit <= Base[f]
    BY <2>1, BaseAssumption
  <2> QED  BY <2>2, <2>3, <2>4, BaseIsNat DEF Numbers
<1>6. ASSUME NEW i \in 1 .. n
      PROVE  Found(Posts(f), OldIndex(f)[i].sn) = 0 /\ Found(<<>>, OldIndex(f)[i].sn) = 0
  <2>1. <<>> \in Seq(PostOf(f)) /\ DOMAIN <<>> = {}
    OBVIOUS
  <2> QED  BY <1>4, <1>5, <2>1, FoundPost
<1> HIDE DEF n, c
<1>7. 0 \in T
  BY <1>1
<1>8. ASSUME NEW i \in 0 .. n - 1, i \in T
      PROVE  i + 1 \in T
  <2> DEFINE a == c[i]
             e == OldIndex(f)[i + 1]
  <2>1. /\ i + 1 \in 1 .. n /\ c[i + 1] = Keep(a, e) /\ a \in AccType(f)
        /\ a.index = <<>> /\ a.texts = <<>> /\ a.next = Base[f]
        /\ a.rest = Posts(f) \/ a.rest = <<>>
    BY <1>1, <1>8
  <2>2. Found(a.rest, e.sn) = 0
    BY <1>6, <2>1
  <2> HIDE DEF a, e
  <2>3. Keep(a, e) = a \/ Keep(a, e) = [a EXCEPT !.rest = <<>>]
    BY <2>2 DEF Keep
  <2>4. [a EXCEPT !.rest = <<>>].index = <<>> /\ [a EXCEPT !.rest = <<>>].texts = <<>>
        /\ [a EXCEPT !.rest = <<>>].next = Base[f] /\ [a EXCEPT !.rest = <<>>].rest = <<>>
    BY <2>1 DEF AccType
  <2>5. /\ c[i + 1].index = <<>> /\ c[i + 1].texts = <<>> /\ c[i + 1].next = Base[f]
        /\ c[i + 1].rest = Posts(f) \/ c[i + 1].rest = <<>>
    BY <2>1, <2>3, <2>4
  <2>6. i + 1 \in 0 .. n
    BY <1>1
  <2> QED  BY <2>5, <2>6
<1>9. n \in T
  <2> HIDE DEF T
  <2>1. \A i \in 0 .. n - 1 : i \in T => i + 1 \in T
    BY <1>8
  <2>2. 0 .. n \subseteq T
    BY <1>1, <1>7, <2>1, Upto
  <2> QED  BY <1>1, <2>2
<1> QED  BY <1>1, <1>9

-----------------------------------------------------------------------------
(* Maintenance: what it has kept of the first i entries.                   *)

Good(f, i) == {j \in 1 .. i : Wanted(index[f][j])}
Whole(f, i) == {j \in Good(f, i) : \A k \in Good(f, i) : k <= j => Found(Posts(f), index[f][k].sn) # 0}
Place(W, j) == Cardinality({k \in W : k <= j})

\* Numbered anew from the first number on, entries and posts alike.
Anew(f, ix, ps) ==
    /\ Len(ps) = Len(ix)
    /\ \A j \in 1 .. Len(ix) :
         ix[j].sn = Base[f] + j - 1 /\ ps[j].sn = ix[j].sn /\ ps[j].text = ix[j].text /\ ix[j].live

\* The search has gone no further than the entries, or has run to the end.
Rest(f, i, rest) ==
    IF Whole(f, i) = Good(f, i)
    THEN \E m \in 0 .. Len(Posts(f)) :
            /\ rest = SubSeq(Posts(f), m + 1, Len(Posts(f)))
            /\ \A k \in 1 .. m : \E j \in 1 .. i : Posts(f)[k].sn <= index[f][j].sn
    ELSE rest = <<>>

Kept(f, i, a) ==
    /\ Anew(f, a.index, a.texts)
    /\ a.next = Base[f] + Len(a.index) /\ Len(a.index) <= i
    /\ Len(a.index) = Cardinality(Whole(f, i))
    /\ \A j \in Whole(f, i) : a.index[Place(Whole(f, i), j)].text = index[f][j].text
    /\ Rest(f, i, a.rest)

\* A position i + 1 behind those of W comes last, and moves none.
ComesLast(i, W) ==
    /\ Cardinality(W) \in Nat
    /\ \A j \in W : Place(W, j) \in 1 .. Cardinality(W)
    /\ Cardinality(W \cup {i + 1}) = Cardinality(W) + 1
    /\ Place(W \cup {i + 1}, i + 1) = Cardinality(W) + 1
    /\ \A j \in W : Place(W \cup {i + 1}, j) = Place(W, j)

\* It does, when they are below it.
LEMMA Positions ==
    ASSUME NEW i \in Nat, NEW W \in SUBSET (1 .. i)
    PROVE  ComesLast(i, W)
<1>1. IsFiniteSet(W) /\ Cardinality(W) \in Nat
  <2>1. IsFiniteSet(1 .. i)
    BY FS_Interval
  <2> QED  BY <2>1, FS_Subset, FS_CardinalityType
<1>2. ASSUME NEW j \in W
      PROVE  Place(W, j) \in 1 .. Cardinality(W)
  <2> DEFINE V == {k \in W : k <= j}
  <2>1. V \subseteq W /\ j \in V
    OBVIOUS
  <2> HIDE DEF V
  <2>2. IsFiniteSet(V) /\ Cardinality(V) <= Cardinality(W)
    BY <1>1, <2>1, FS_Subset
  <2>3. Cardinality(V) \in Nat /\ Cardinality(V) # 0
    BY <2>1, <2>2, FS_CardinalityType, FS_EmptySet
  <2>4. Cardinality(V) \in 1 .. Cardinality(W)
    BY <1>1, <2>2, <2>3
  <2> QED  BY <2>4 DEF Place, V
<1>3. i + 1 \notin W
  OBVIOUS
<1>4. Cardinality(W \cup {i + 1}) = Cardinality(W) + 1
  BY <1>1, <1>3, FS_AddElement
<1>5. {k \in W \cup {i + 1} : k <= i + 1} = W \cup {i + 1}
  <2>1. \A k \in W \cup {i + 1} : k <= i + 1
    OBVIOUS
  <2> QED  BY <2>1
<1>6. \A j \in W : {k \in W \cup {i + 1} : k <= j} = {k \in W : k <= j}
  OBVIOUS
<1> QED  BY <1>1, <1>2, <1>3, <1>4, <1>5, <1>6 DEF Place, ComesLast

\* One entry more is looked at.
LEMMA OneMore ==
    ASSUME NEW f \in Files, NEW i \in Nat
    PROVE  /\ Good(f, i + 1) = Good(f, i) \cup (IF Wanted(index[f][i + 1]) THEN {i + 1} ELSE {})
           /\ Whole(f, i) \subseteq Good(f, i) /\ Good(f, i) \subseteq 1 .. i
           /\ LET more == Wanted(index[f][i + 1]) /\ Found(Posts(f), index[f][i + 1].sn) # 0
                                                 /\ Whole(f, i) = Good(f, i)
              IN  Whole(f, i + 1) = IF more THEN Whole(f, i) \cup {i + 1} ELSE Whole(f, i)
<1> DEFINE Has(k) == Found(Posts(f), index[f][k].sn) # 0
           G == Good(f, i)
           H == Good(f, i + 1)
           W == Whole(f, i)
           e == index[f][i + 1]
<1>1. H = G \cup (IF Wanted(e) THEN {i + 1} ELSE {}) /\ G \subseteq 1 .. i
  BY DEF Good
<1>2. /\ W = {j \in G : \A k \in G : k <= j => Has(k)}
      /\ Whole(f, i + 1) = {j \in H : \A k \in H : k <= j => Has(k)}
  BY DEF Whole
<1> HIDE DEF Has, G, H, W
<1>3. \A j \in G, k \in H : k <= j => k \in G
  BY <1>1
<1>4. \A j \in G : j \in Whole(f, i + 1) <=> j \in W
  BY <1>1, <1>2, <1>3
<1>5. i + 1 \in Whole(f, i + 1) <=> Wanted(e) /\ Has(i + 1) /\ W = G
  <2>1. ASSUME i + 1 \in Whole(f, i + 1)
        PROVE  Wanted(e) /\ Has(i + 1) /\ W = G
    <3>1. i + 1 \in H /\ \A k \in H : k <= i + 1 => Has(k)
      BY <1>2, <2>1
    <3>2. Wanted(e)
      BY <1>1, <3>1
    <3>3. \A k \in G : Has(k)
      BY <1>1, <3>1
    <3> QED  BY <1>2, <3>1, <3>2, <3>3
  <2>2. ASSUME Wanted(e), Has(i + 1), W = G
        PROVE  i + 1 \in Whole(f, i + 1)
    <3>1. \A k \in G : Has(k)
      BY <1>1, <1>2, <2>2
    <3>2. \A k \in H : Has(k)
      BY <1>1, <2>2, <3>1
    <3> QED  BY <1>1, <1>2, <2>2, <3>2
  <2> QED  BY <2>1, <2>2
<1>6. Whole(f, i + 1) \subseteq G \cup {i + 1} /\ W \subseteq G
  BY <1>1, <1>2
<1>7. Wanted(e) /\ Has(i + 1) /\ W = G => Whole(f, i + 1) = W \cup {i + 1}
  BY <1>4, <1>5, <1>6
<1>8. ~(Wanted(e) /\ Has(i + 1) /\ W = G) => Whole(f, i + 1) = W
  BY <1>4, <1>5, <1>6
<1> QED  BY <1>1, <1>6, <1>7, <1>8 DEF Has, G, H, W

\* The first post with a number, looked for in the rest behind m posts.
FoundNext(ps, sn, m, rest) ==
    /\ Found(rest, sn) = 0 <=> Found(ps, sn) = 0
    /\ Found(rest, sn) # 0 =>
         /\ m + Found(rest, sn) \in 1 .. Len(ps)
         /\ Found(rest, sn) \in 1 .. Len(rest)
         /\ Len(rest) = Len(ps) - m
         /\ rest[Found(rest, sn)] = ps[m + Found(rest, sn)]
         /\ ps[m + Found(rest, sn)].sn = sn

\* It is found there, when these have other numbers.
LEMMA FindNext ==
    ASSUME NEW S, NEW ps \in Seq(S), NEW sn \in Int, NEW m \in 0 .. Len(ps),
           \A q \in 1 .. m : ps[q].sn # sn,
           NEW rest, rest = SubSeq(ps, m + 1, Len(ps))
    PROVE  FoundNext(ps, sn, m, rest)
<1> DEFINE k == Found(rest, sn)
<1>1. /\ rest \in Seq(S) /\ Len(rest) = Len(ps) - m
      /\ \A q \in 1 .. Len(ps) - m : rest[q] = ps[m + q]
  BY RestOf
<1>2. DOMAIN rest = 1 .. Len(ps) - m /\ DOMAIN ps = 1 .. Len(ps) /\ Len(ps) \in Nat
  BY <1>1
<1>3. /\ k = 0 <=> \A q \in DOMAIN rest : rest[q].sn # sn
      /\ k # 0 => k \in DOMAIN rest /\ rest[k].sn = sn
  BY <1>1, FoundPost
<1>4. Found(ps, sn) = 0 <=> \A q \in DOMAIN ps : ps[q].sn # sn
  BY FoundPost
<1> HIDE DEF k
<1>5. k # 0 => /\ m + k \in 1 .. Len(ps) /\ k \in 1 .. Len(rest)
               /\ rest[k] = ps[m + k] /\ ps[m + k].sn = sn
  <2> SUFFICES ASSUME k # 0
               PROVE  /\ m + k \in 1 .. Len(ps) /\ k \in 1 .. Len(rest)
                      /\ rest[k] = ps[m + k] /\ ps[m + k].sn = sn
    OBVIOUS
  <2>1. k \in 1 .. Len(ps) - m /\ rest[k].sn = sn
    BY <1>2, <1>3
  <2>2. m + k \in 1 .. Len(ps)
    BY <1>2, <2>1
  <2> QED  BY <1>1, <2>1, <2>2
<1>6. ASSUME NEW q \in 1 .. Len(ps), ps[q].sn = sn
      PROVE  \E r \in 1 .. Len(ps) - m : rest[r].sn = sn
  <2>1. q > m
    BY <1>6
  <2>2. q - m \in 1 .. Len(ps) - m /\ m + (q - m) = q
    BY <1>2, <2>1
  <2>3. rest[q - m] = ps[q]
    BY <1>1, <2>2
  <2> QED  BY <1>6, <2>2, <2>3
<1>7. Found(ps, sn) = 0 => k = 0
  BY <1>2, <1>4, <1>5
<1>8. k = 0 => Found(ps, sn) = 0
  BY <1>2, <1>3, <1>4, <1>6
<1> QED  BY <1>1, <1>5, <1>7, <1>8 DEF k, FoundNext

\* The rest of a rest.
LEMMA RestOfRest ==
    ASSUME NEW S, NEW s \in Seq(S), NEW m \in 0 .. Len(s), NEW k \in 0 .. Len(s) - m,
           NEW rest, rest = SubSeq(s, m + 1, Len(s))
    PROVE  SubSeq(rest, k + 1, Len(rest)) = SubSeq(s, m + k + 1, Len(s))
<1> DEFINE t == SubSeq(rest, k + 1, Len(rest))
           u == SubSeq(s, m + k + 1, Len(s))
<1>1. /\ rest \in Seq(S) /\ Len(rest) = Len(s) - m
      /\ \A q \in 1 .. Len(s) - m : rest[q] = s[m + q]
  BY RestOf
<1>2. k \in 0 .. Len(rest)
  BY <1>1
<1>3. /\ t \in Seq(S) /\ Len(t) = Len(rest) - k
      /\ \A q \in 1 .. Len(rest) - k : t[q] = rest[k + q]
  BY <1>1, <1>2, RestOf
<1>4. m + k \in 0 .. Len(s)
  OBVIOUS
<1>5. /\ u \in Seq(S) /\ Len(u) = Len(s) - (m + k)
      /\ \A q \in 1 .. Len(s) - (m + k) : u[q] = s[(m + k) + q]
  BY <1>4, RestOf
<1> HIDE DEF t, u
<1>6. Len(t) = Len(u)
  BY <1>1, <1>3, <1>5
<1>7. ASSUME NEW q \in 1 .. Len(u)
      PROVE  t[q] = u[q]
  <2>1. q \in 1 .. Len(rest) - k /\ q \in 1 .. Len(s) - (m + k) /\ k + q \in 1 .. Len(s) - m
        /\ m + (k + q) = (m + k) + q
    BY <1>1, <1>5
  <2> QED  BY <1>1, <1>3, <1>5, <2>1
<1>8. t = u
  <2>1. t \in Seq(S) /\ u \in Seq(S) /\ Len(t) = Len(u) /\ \A q \in 1 .. Len(u) : t[q] = u[q]
    BY <1>3, <1>5, <1>6, <1>7
  <2>2. Len(t) \in Nat /\ DOMAIN t = 1 .. Len(t) /\ DOMAIN u = 1 .. Len(u)
    BY <2>1
  <2> QED  BY ONLY <2>1, <2>2, SeqEqual
<1> QED  BY <1>8 DEF t, u

\* One entry and its post more, with the next number.
LEMMA AnewOne ==
    ASSUME NEW f \in Files, NEW ix \in Seq(NewEntry), NEW ps \in Seq(NewPost), Anew(f, ix, ps),
           NEW e \in NewEntry, NEW p \in NewPost,
           e.sn = Base[f] + Len(ix), p.sn = e.sn, p.text = e.text, e.live
    PROVE  Anew(f, Append(ix, e), Append(ps, p))
<1> DEFINE iy == Append(ix, e)
           pt == Append(ps, p)
           n == Len(ix)
<1>1. Len(ps) = n /\ \A j \in 1 .. n :
            ix[j].sn = Base[f] + j - 1 /\ ps[j].sn = ix[j].sn /\ ps[j].text = ix[j].text /\ ix[j].live
  BY DEF Anew
<1>2. /\ Len(iy) = n + 1 /\ (\A j \in 1 .. n : iy[j] = ix[j]) /\ iy[n + 1] = e /\ n \in Nat
      /\ Len(pt) = n + 1 /\ (\A j \in 1 .. n : pt[j] = ps[j]) /\ pt[n + 1] = p
  BY <1>1, Appended
<1> HIDE DEF iy, pt, n
<1>3. e.sn = Base[f] + (n + 1) - 1
  BY <1>2, BaseIsNat DEF n
<1>4. ASSUME NEW j \in 1 .. n + 1
      PROVE  iy[j].sn = Base[f] + j - 1 /\ pt[j].sn = iy[j].sn /\ pt[j].text = iy[j].text /\ iy[j].live
  <2>1. CASE j = n + 1
    BY <1>2, <1>3, <2>1
  <2>2. CASE j # n + 1
    <3>1. j \in 1 .. n
      BY <1>2, <2>2
    <3> QED  BY <1>1, <1>2, <3>1
  <2> QED  BY <2>1, <2>2
<1>5. Anew(f, iy, pt)
  BY <1>2, <1>4 DEF Anew
<1> QED  BY <1>5 DEF iy, pt

\* An entry is kept, dropped or torn, and what is kept stays in its place.
LEMMA KeepKeeps ==
    ASSUME Inv, NEW f \in Files, NEW i \in 0 .. Len(index[f]) - 1,
           NEW a \in AccType(f), Kept(f, i, a)
    PROVE  Kept(f, i + 1, Keep(a, index[f][i + 1]))
<1> DEFINE ix == index[f]
           ps == Posts(f)
           e == ix[i + 1]
           b == Keep(a, e)
           G == Good(f, i)
           W == Whole(f, i)
           V == Whole(f, i + 1)
           n == Len(a.index)
           k == Found(a.rest, e.sn)
<1>1. /\ ix \in Seq(Entry(f)) /\ DOMAIN ix = 1 .. Len(ix) /\ Len(ix) \in Nat
      /\ ps \in Seq(PostOf(f)) /\ DOMAIN ps = 1 .. Len(ps) /\ Len(ps) \in Nat
      /\ \A j \in 1 .. Len(ix) : ix[j] \in Entry(f) /\ ix[j].sn \in Int
      /\ \A j \in 1 .. Len(ps) : ps[j] \in PostOf(f) /\ ps[j].sn \in Int
      /\ Grows(ix) /\ Grows(ps) /\ SameTexts(ix, ps)
  BY SoundParts DEF Inv, Sound
<1>2. i \in Nat /\ i + 1 \in 1 .. Len(ix) /\ e \in Entry(f) /\ e.sn \in Int
  BY <1>1
<1>3. /\ a.rest \in Seq(PostOf(f)) /\ a.next \in Int
      /\ a.index \in Seq(NewEntry) /\ a.texts \in Seq(NewPost) /\ n \in Nat
  BY DEF AccType
<1>4. /\ Anew(f, a.index, a.texts)
      /\ a.next = Base[f] + n /\ n <= i
      /\ n = Cardinality(W)
      /\ \A j \in W : a.index[Place(W, j)].text = ix[j].text
      /\ Rest(f, i, a.rest)
  BY DEF Kept
<1>5. /\ Good(f, i + 1) = G \cup (IF Wanted(e) THEN {i + 1} ELSE {})
      /\ W \subseteq G /\ G \subseteq 1 .. i
      /\ V = IF Wanted(e) /\ Found(ps, e.sn) # 0 /\ W = G THEN W \cup {i + 1} ELSE W
  BY <1>2, OneMore
<1>6. \A j \in 1 .. i : ix[j].sn < e.sn /\ ix[j].sn \in Int
  <2> SUFFICES ASSUME NEW j \in 1 .. i
               PROVE  ix[j].sn < e.sn /\ ix[j].sn \in Int
    OBVIOUS
  <2>1. j \in DOMAIN ix /\ i + 1 \in DOMAIN ix /\ j < i + 1
    BY <1>1, <1>2
  <2> QED  BY <1>1, <2>1 DEF Grows
\* How far the search has gone.
<1> DEFINE To(m) == /\ a.rest = SubSeq(ps, m + 1, Len(ps))
                    /\ \A q \in 1 .. m : \E j \in 1 .. i : ps[q].sn <= ix[j].sn
<1>7. (W = G => \E m \in 0 .. Len(ps) : To(m)) /\ (W # G => a.rest = <<>>)
  BY <1>4 DEF Rest
<1>8. /\ ~Wanted(e) => b = a
      /\ Wanted(e) /\ k = 0 => b = [a EXCEPT !.rest = <<>>]
      /\ Wanted(e) /\ k # 0 =>
            b = [rest  |-> SubSeq(a.rest, k + 1, Len(a.rest)),
                 next  |-> a.next + 1,
                 index |-> Append(a.index, [e EXCEPT !.sn = a.next]),
                 texts |-> Append(a.texts, [a.rest[k] EXCEPT !.sn = a.next])]
  BY DEF Keep
<1>9. W # G => k = 0
  <2> SUFFICES ASSUME a.rest = <<>>
               PROVE  k = 0
    BY <1>7
  <2>1. \A q \in DOMAIN a.rest : a.rest[q].sn # e.sn
    OBVIOUS
  <2>2. k = 0 <=> \A q \in DOMAIN a.rest : a.rest[q].sn # e.sn
    <3> HIDE DEF e
    <3> QED  BY <1>3, FoundPost
  <2> QED  BY <2>1, <2>2
<1>10. ASSUME NEW m \in 0 .. Len(ps), To(m)
       PROVE  /\ \A q \in 1 .. m : ps[q].sn < e.sn
              /\ k # 0 => m + k \in 1 .. Len(ps) /\ k \in 1 .. Len(a.rest) /\ Len(a.rest) = Len(ps) - m
                          /\ a.rest[k] = ps[m + k] /\ ps[m + k].sn = e.sn
              /\ k = 0 <=> Found(ps, e.sn) = 0
  <2>1. a.rest = SubSeq(ps, m + 1, Len(ps)) /\ \A q \in 1 .. m : \E j \in 1 .. i : ps[q].sn <= ix[j].sn
    BY <1>10
  <2> HIDE DEF ix, ps, e, To
  <2>2. \A q \in 1 .. m : ps[q].sn < e.sn
    <3> SUFFICES ASSUME NEW q \in 1 .. m
                 PROVE  ps[q].sn < e.sn
      OBVIOUS
    <3>1. PICK j \in 1 .. i : ps[q].sn <= ix[j].sn
      BY <2>1
    <3>2. ps[q].sn \in Int /\ ix[j].sn \in Int /\ ix[j].sn < e.sn
      BY <1>1, <1>6
    <3> QED  BY <1>2, <3>1, <3>2
  <2>3. \A q \in 1 .. m : ps[q].sn # e.sn
    <3> SUFFICES ASSUME NEW q \in 1 .. m
                 PROVE  ps[q].sn # e.sn
      OBVIOUS
    <3>1. ps[q].sn \in Int /\ ps[q].sn < e.sn
      BY <1>1, <2>2
    <3> QED  BY <1>2, <3>1
  <2> DEFINE j == Found(a.rest, e.sn)
  <2>4. /\ j = 0 <=> Found(ps, e.sn) = 0
        /\ j # 0 => /\ m + j \in 1 .. Len(ps) /\ j \in 1 .. Len(a.rest) /\ Len(a.rest) = Len(ps) - m
                    /\ a.rest[j] = ps[m + j] /\ ps[m + j].sn = e.sn
    <3>1. ps \in Seq(PostOf(f)) /\ e.sn \in Int
      BY <1>1, <1>2
    <3> DEFINE sn == e.sn
               rest == a.rest
    <3>2. sn \in Int /\ rest = SubSeq(ps, m + 1, Len(ps)) /\ \A q \in 1 .. m : ps[q].sn # sn
      BY <2>1, <2>3, <3>1
    <3> HIDE DEF sn, rest
    <3>3. FoundNext(ps, sn, m, rest)
      BY <3>1, <3>2, FindNext
    <3> QED  BY <3>3 DEF sn, rest, FoundNext
  <2> QED  BY <2>2, <2>4
<1> HIDE DEF b, V, W, G, n, k, To
<1>11. CASE ~Wanted(e)
  <2>1. b = a /\ Good(f, i + 1) = G /\ V = W
    BY <1>5, <1>8, <1>11
  <2>2. Rest(f, i + 1, a.rest)
    <3>1. CASE W = G
      <4>1. PICK m \in 0 .. Len(ps) : To(m)
        BY <1>7, <3>1
      <4>2. a.rest = SubSeq(ps, m + 1, Len(ps)) /\ \A q \in 1 .. m : \E j \in 1 .. i : ps[q].sn <= ix[j].sn
        BY <4>1 DEF To
      <4>3. \A j \in 1 .. i : j \in 1 .. i + 1
        OBVIOUS
      <4>4. \A q \in 1 .. m : \E j \in 1 .. i + 1 : ps[q].sn <= ix[j].sn
        <5> HIDE DEF ps, ix
        <5> QED  BY <4>2, <4>3
      <4> QED  BY <2>1, <3>1, <4>2, <4>4 DEF Rest, V
    <3>2. CASE W # G
      BY <1>7, <2>1, <3>2 DEF Rest, V
    <3> QED  BY <3>1, <3>2
  <2>3. n <= i + 1
    BY <1>2, <1>3, <1>4
  <2> HIDE DEF ix
  <2>4. \A j \in V : a.index[Place(V, j)].text = ix[j].text
    BY <1>4, <2>1
  <2>5. Kept(f, i + 1, a)
    BY <1>4, <2>1, <2>2, <2>3, <2>4 DEF Kept, n, V, ix
  <2> QED  BY <2>1, <2>5 DEF b, ix
<1>12. CASE Wanted(e) /\ k = 0
  <2>1. b.rest = <<>> /\ b.next = a.next /\ b.index = a.index /\ b.texts = a.texts
    BY <1>8, <1>12 DEF AccType
  <2>2. W = G => Found(ps, e.sn) = 0
    BY <1>7, <1>10, <1>12
  <2>3. V = W /\ i + 1 \in Good(f, i + 1) /\ i + 1 \notin W
    BY <1>2, <1>5, <1>12, <2>2
  <2>4. Rest(f, i + 1, b.rest)
    BY <2>1, <2>3 DEF Rest, V
  <2>5. n <= i + 1
    BY <1>2, <1>3, <1>4
  <2> HIDE DEF ix, e
  <2>6. \A j \in V : b.index[Place(V, j)].text = ix[j].text
    BY <1>4, <2>1, <2>3
  <2>7. Kept(f, i + 1, b)
    BY <1>4, <2>1, <2>3, <2>4, <2>5, <2>6 DEF Kept, n, V, ix
  <2> QED  BY <2>7 DEF b, e, ix
<1>13. CASE Wanted(e) /\ k # 0
  <2>1. W = G
    BY <1>9, <1>13
  <2>2. PICK m \in 0 .. Len(ps) : To(m)
    BY <1>7, <2>1
  <2>3. /\ m + k \in 1 .. Len(ps) /\ k \in 1 .. Len(a.rest) /\ Len(a.rest) = Len(ps) - m
        /\ a.rest[k] = ps[m + k] /\ ps[m + k].sn = e.sn
        /\ Found(ps, e.sn) # 0
        /\ \A q \in 1 .. m : ps[q].sn < e.sn
    BY <1>10, <1>13, <2>2
  <2> DEFINE new == [e EXCEPT !.sn = a.next]
             copy == [a.rest[k] EXCEPT !.sn = a.next]
  <2>4. b = [rest  |-> SubSeq(a.rest, k + 1, Len(a.rest)),
             next  |-> a.next + 1,
             index |-> Append(a.index, new),
             texts |-> Append(a.texts, copy)]
    BY <1>8, <1>13
  <2>5. /\ new \in NewEntry /\ new.sn = a.next /\ new.text = e.text /\ new.live
        /\ copy \in NewPost /\ copy.sn = a.next /\ copy.text = e.text
    <3>1. ps[m + k].text = e.text
      <4>1. i + 1 \in DOMAIN ix /\ m + k \in DOMAIN ps
        BY <1>1, <1>2, <2>3
      <4> HIDE DEF ps
      <4> QED  BY <1>1, <2>3, <4>1 DEF SameTexts
    <3>2. ps[m + k] \in PostOf(f)
      BY <1>1, <2>3
    <3> HIDE DEF e, ps
    <3>3. new \in NewEntry /\ new.sn = a.next /\ new.text = e.text /\ new.live
      BY <1>2, <1>3, <1>13 DEF NewEntry, Entry, Wanted
    <3> QED  BY <1>3, <2>3, <3>1, <3>2, <3>3 DEF NewPost, PostOf
  <2>6. Good(f, i + 1) = V /\ V = W \cup {i + 1}
    BY <1>5, <1>13, <2>1, <2>3
  <2>7. W \in SUBSET (1 .. i)
    BY <1>5
  <2> HIDE DEF new, copy, ix, ps, e
  <2> DEFINE iy == Append(a.index, new)
             pt == Append(a.texts, copy)
  <2>8. Len(iy) = n + 1 /\ (\A j \in 1 .. n : iy[j] = a.index[j]) /\ iy[n + 1] = new
    BY <1>3, <2>5, Appended DEF n
  <2>9. Anew(f, iy, pt)
    <3>1. new.sn = Base[f] + Len(a.index) /\ copy.sn = new.sn /\ copy.text = new.text /\ new.live
      BY <1>4, <2>5 DEF n
    <3> QED  BY <1>3, <1>4, <2>5, <3>1, AnewOne
  <2> HIDE DEF iy, pt
  <2>10. /\ Cardinality(V) = n + 1 /\ Place(V, i + 1) = n + 1
         /\ \A j \in W : Place(V, j) = Place(W, j) /\ Place(W, j) \in 1 .. n
    <3>1. /\ Cardinality(W \cup {i + 1}) = Cardinality(W) + 1
          /\ Place(W \cup {i + 1}, i + 1) = Cardinality(W) + 1
          /\ \A j \in W : Place(W \cup {i + 1}, j) = Place(W, j) /\ Place(W, j) \in 1 .. Cardinality(W)
      <4>1. i \in Nat /\ W \in SUBSET (1 .. i)
        BY <1>2, <2>7
      <4>2. ComesLast(i, W)
        BY <4>1, Positions
      <4> QED  BY <4>2 DEF ComesLast
    <3> QED  BY <1>4, <2>6, <3>1
  <2>11. n + 1 <= i + 1 /\ a.next + 1 = Base[f] + (n + 1)
    BY <1>2, <1>3, <1>4, BaseIsNat
  <2>12. \A j \in V : iy[Place(V, j)].text = ix[j].text
    <3>1. ASSUME NEW j \in W
          PROVE  iy[Place(V, j)].text = ix[j].text
      BY <1>4, <2>8, <2>10
    <3>2. iy[Place(V, i + 1)].text = ix[i + 1].text
      BY <2>5, <2>8, <2>10 DEF e
    <3> QED  BY <2>6, <3>1, <3>2
  <2>13. Rest(f, i + 1, b.rest)
    <3> DEFINE c == m + k
    <3>1. b.rest = SubSeq(ps, c + 1, Len(ps)) /\ c \in 1 .. Len(ps) /\ ps[c].sn = e.sn
      <4>1. a.rest = SubSeq(ps, m + 1, Len(ps))
        BY <2>2 DEF To
      <4>2. k \in 0 .. Len(ps) - m
        BY <1>1, <2>3
      <4>3. SubSeq(a.rest, k + 1, Len(a.rest)) = SubSeq(ps, m + k + 1, Len(ps))
        BY <1>1, <4>1, <4>2, RestOfRest
      <4> QED  BY <2>3, <2>4, <4>3
    <3> HIDE DEF c, b
    <3>2. ASSUME NEW q \in 1 .. c
          PROVE  ps[q].sn <= e.sn
      <4>1. q \in 1 .. Len(ps) /\ q \in DOMAIN ps /\ c \in DOMAIN ps
        BY <1>1, <3>1
      <4>2. CASE q = c
        BY <1>2, <3>1, <4>2
      <4>3. CASE q # c
        <5>1. q < c
          BY <1>1, <3>1, <4>3
        <5>2. ps[q].sn < ps[c].sn /\ ps[q].sn \in Int
          BY <1>1, <4>1, <5>1 DEF Grows
        <5> QED  BY <1>2, <3>1, <5>2
      <4> QED  BY <4>2, <4>3
    <3>3. \A q \in 1 .. c : \E j \in 1 .. i + 1 : ps[q].sn <= ix[j].sn
      <4>1. i + 1 \in 1 .. i + 1 /\ e = ix[i + 1]
        BY <1>2 DEF e
      <4> QED  BY <3>2, <4>1
    <3>4. c \in 0 .. Len(ps)
      BY <1>1, <3>1
    <3> QED  BY <2>6, <3>1, <3>3, <3>4 DEF Rest, V, ps, ix
  <2>14. b.index = iy /\ b.texts = pt /\ b.next = a.next + 1
    BY <2>4 DEF iy, pt
  <2>15. Kept(f, i + 1, b)
    BY <2>8, <2>9, <2>10, <2>11, <2>12, <2>13, <2>14 DEF Kept, V, ix
  <2> QED  BY <2>15 DEF b, e, ix
<1> QED  BY <1>11, <1>12, <1>13

\* At the beginning nothing is kept, and the whole file is ahead.
LEMMA KeptNone ==
    ASSUME Inv, NEW f \in Files
    PROVE  Kept(f, 0, Acc(f)[0])
<1> DEFINE a == Acc(f)[0]
           ps == Posts(f)
<1>1. a = [rest |-> ps, next |-> Base[f], index |-> <<>>, texts |-> <<>>]
  BY AccDefined
<1>2. a.rest = ps /\ a.next = Base[f] /\ a.index = <<>> /\ a.texts = <<>>
  BY <1>1
<1>3. Good(f, 0) = {} /\ Whole(f, 0) = {}
  BY DEF Good, Whole
<1>4. Cardinality(Whole(f, 0)) = 0 /\ Len(a.index) = 0 /\ Len(a.texts) = 0
  BY <1>2, <1>3, FS_EmptySet
<1>5. Rest(f, 0, a.rest)
  <2>1. ps \in Seq(PostOf(f)) /\ Len(ps) \in Nat
    BY SoundParts DEF Inv
  <2> HIDE DEF a
  <2>2. SubSeq(ps, 0 + 1, Len(ps)) = ps
    <3> HIDE DEF ps
    <3> QED  BY <2>1
  <2>3. 0 \in 0 .. Len(ps) /\ a.rest = SubSeq(ps, 0 + 1, Len(ps))
    BY <1>2, <2>1, <2>2
  <2>4. \E m \in 0 .. Len(ps) : /\ a.rest = SubSeq(ps, m + 1, Len(ps))
                                 /\ \A k \in 1 .. m : \E j \in 1 .. 0 : ps[k].sn <= index[f][j].sn
    <3> HIDE DEF ps
    <3> QED  BY <2>3
  <2> QED  BY <1>3, <2>4 DEF Rest
<1>6. Anew(f, a.index, a.texts)
  BY <1>4 DEF Anew
<1>7. a.next = Base[f] + Len(a.index)
  BY <1>2, <1>4, BaseIsNat
<1> HIDE DEF a
<1>8. Kept(f, 0, a)
  BY <1>3, <1>4, <1>5, <1>6, <1>7 DEF Kept
<1> QED  BY <1>8 DEF a

\* What maintenance has kept when it has gone through the index.
LEMMA KeptAll ==
    ASSUME Inv, NEW f \in Files, ~Displaced(f)
    PROVE  Kept(f, Len(index[f]), Compacted(f)) /\ Compacted(f) \in AccType(f)
<1> DEFINE n == Len(index[f])
           c == Acc(f)
           T == {i \in 0 .. n : Kept(f, i, c[i])}
<1>1. /\ n \in Nat /\ Compacted(f) = c[n]
      /\ \A i \in 1 .. n : c[i] = Keep(c[i - 1], index[f][i])
      /\ \A i \in 0 .. n : c[i] \in AccType(f)
  <2>1. OldIndex(f) = index[f]
    BY DEF OldIndex
  <2> QED  BY <2>1, AccDefined
<1>2. 0 \in T
  BY <1>1, KeptNone
<1>3. ASSUME NEW i \in 0 .. n - 1, i \in T
      PROVE  i + 1 \in T
  <2>1. i \in 0 .. n /\ i + 1 \in 0 .. n /\ i + 1 \in 1 .. n
    BY <1>1
  <2>2. c[i + 1] = Keep(c[i], index[f][i + 1]) /\ c[i] \in AccType(f)
    BY <1>1, <2>1
  <2>3. Kept(f, i, c[i])
    BY <1>3
  <2> HIDE DEF c
  <2>4. Kept(f, i + 1, Keep(c[i], index[f][i + 1]))
    BY <2>2, <2>3, KeepKeeps DEF n
  <2> QED  BY <2>1, <2>2, <2>4
<1>4. n \in T
  <2> HIDE DEF T, n
  <2>1. \A i \in 0 .. n - 1 : i \in T => i + 1 \in T
    BY <1>3
  <2>2. 0 .. n \subseteq T
    BY <1>1, <1>2, <2>1, Upto
  <2> QED  BY <1>1, <2>2
<1>5. Kept(f, n, c[n]) /\ c[n] \in AccType(f)
  BY <1>1, <1>4
<1> QED  BY <1>1, <1>5

\* There are no more entries than numbers.
LEMMA FewEntries ==
    ASSUME NEW f \in Files, NEW t, NEW ix, NEW ps, Sound(f, t, ix, ps)
    PROVE  Len(ix) <= Limit
<1> DEFINE n == Len(ix)
           T == {i \in 0 .. n : i # 0 => ix[i].sn >= Base[f] + i - 1}
<1>1. /\ n \in Nat /\ DOMAIN ix = 1 .. n
      /\ \A i \in 1 .. n : ix[i] \in Entry(f) /\ ix[i].sn \in Int /\ ix[i].sn >= Base[f]
  BY SoundParts
<1>2. \A i, j \in 1 .. n : i < j => ix[i].sn < ix[j].sn
  BY <1>1 DEF Sound, Grows
<1>3. Base[f] \in Nat /\ Limit \in Nat \ {0}
  BY BaseIsNat
<1> HIDE DEF n
<1>4. 0 \in T
  BY <1>1
<1>5. ASSUME NEW i \in 0 .. n - 1, i \in T
      PROVE  i + 1 \in T
  <2>1. i + 1 \in 1 .. n
    BY <1>1
  <2>2. CASE i = 0
    BY <1>1, <1>3, <2>1, <2>2
  <2>3. CASE i # 0
    <3>1. i \in 1 .. n /\ ix[i].sn >= Base[f] + i - 1
      BY <1>1, <1>5, <2>3
    <3>2. ix[i].sn < ix[i + 1].sn /\ ix[i].sn \in Int /\ ix[i + 1].sn \in Int
      BY <1>1, <1>2, <2>1, <3>1
    <3>3. ix[i + 1].sn >= Base[f] + (i + 1) - 1
      BY <1>3, <3>1, <3>2
    <3> QED  BY <2>1, <3>3
  <2> QED  BY <2>2, <2>3
<1>6. n \in T
  <2> HIDE DEF T
  <2>1. \A i \in 0 .. n - 1 : i \in T => i + 1 \in T
    BY <1>5
  <2>2. 0 .. n \subseteq T
    BY <1>1, <1>4, <2>1, Upto
  <2> QED  BY <1>1, <2>2
<1>7. n # 0 => ix[n].sn >= Base[f] + n - 1 /\ ix[n].sn <= Base[f] + Limit - 1
  <2>1. \A e \in Entry(f) : e.sn <= Base[f] + Limit - 1
    BY <1>3 DEF Entry, Numbers
  <2> QED  BY <1>1, <1>6, <2>1
<1>8. n # 0 => ix[n].sn \in Int
  BY <1>1
<1>9. n <= Limit
  BY <1>1, <1>3, <1>7, <1>8
<1> QED  BY <1>9 DEF n

\* Files numbered anew are sound.
LEMMA SoundAnew ==
    ASSUME NEW f \in Files, NEW ix \in Seq(NewEntry), NEW ps \in Seq(NewPost), Anew(f, ix, ps),
           Len(ix) <= Limit
    PROVE  Sound(f, HighestGiven(f, Base[f] + Len(ix)), ix, ps)
<1> DEFINE n == Len(ix)
           t == HighestGiven(f, Base[f] + n)
<1>1. /\ Len(ps) = n /\ n \in Nat /\ DOMAIN ix = 1 .. n /\ DOMAIN ps = 1 .. n
      /\ \A j \in 1 .. n : ix[j].sn = Base[f] + j - 1 /\ ps[j].sn = Base[f] + j - 1 /\ ps[j].text = ix[j].text
      /\ \A j \in 1 .. n : ix[j] \in NewEntry /\ ps[j] \in NewPost
  BY DEF Anew
<1>2. Base[f] \in Nat /\ Limit \in Nat \ {0} /\ n <= Limit
  BY BaseIsNat
<1> HIDE DEF n
<1>3. t = (IF n = 0 THEN Base[f] ELSE Base[f] + n - 1)
  BY <1>1, <1>2 DEF HighestGiven
<1>4. t \in Base[f] .. Base[f] + Limit
  BY <1>1, <1>2, <1>3
<1>5. \A j \in 1 .. n : Base[f] + j - 1 \in Numbers(f) /\ Base[f] + j - 1 <= t
  BY <1>1, <1>2, <1>3 DEF Numbers
<1> HIDE DEF t
<1>6. ix \in Seq(Entry(f))
  <2>1. \A j \in 1 .. n : ix[j] \in Entry(f)
    BY <1>1, <1>5 DEF NewEntry, Entry
  <2> QED  BY <2>1 DEF n
<1>7. ps \in Seq(PostOf(f))
  <2>1. \A j \in 1 .. n : ps[j] \in PostOf(f)
    BY <1>1, <1>5 DEF NewPost, PostOf
  <2> QED  BY <1>1, <2>1
<1>8. Grows(ix) /\ Grows(ps)
  <2>1. ASSUME NEW i \in 1 .. n, NEW j \in 1 .. n, i < j
        PROVE  ix[i].sn < ix[j].sn /\ ps[i].sn < ps[j].sn
    BY <1>1, <1>2, <2>1
  <2> QED  BY <1>1, <2>1 DEF Grows
<1>9. SameTexts(ix, ps)
  <2> SUFFICES ASSUME NEW i \in 1 .. n, NEW k \in 1 .. n, ix[i].sn = ps[k].sn
               PROVE  ix[i].text = ps[k].text
    BY <1>1 DEF SameTexts
  <2>1. i = k
    BY <1>1, <1>2
  <2> QED  BY <1>1, <2>1
<1>10. (\A i \in DOMAIN ix : ix[i].sn <= t) /\ (\A k \in DOMAIN ps : ps[k].sn <= t)
  BY <1>1, <1>5
<1>11. Sound(f, t, ix, ps)
  BY <1>4, <1>6, <1>7, <1>8, <1>9, <1>10 DEF Sound
<1> QED  BY <1>11 DEF t, n

\* So is what maintenance writes.
LEMMA SoundCompacted ==
    ASSUME Inv, NEW f \in Files
    PROVE  Sound(f, HighestGiven(f, Compacted(f).next), Compacted(f).index, Compacted(f).texts)
<1> DEFINE a == Compacted(f)
           n == Len(index[f])
<1>0. CASE Displaced(f)
  <2>1. a.index = <<>> /\ a.texts = <<>> /\ a.next = Base[f]
    BY <1>0, NothingFound
  <2> HIDE DEF a
  <2>2. HighestGiven(f, a.next) = Base[f] /\ Base[f] \in Base[f] .. Base[f] + Limit
    BY <2>1, BaseIsNat DEF HighestGiven
  <2>3. Sound(f, Base[f], <<>>, <<>>)
    BY <2>2 DEF Sound, Grows, SameTexts
  <2> QED  BY <2>1, <2>2, <2>3 DEF a
<1> SUFFICES ASSUME ~Displaced(f)
             PROVE  Sound(f, HighestGiven(f, a.next), a.index, a.texts)
  BY <1>0
<1>1. Kept(f, n, a) /\ a \in AccType(f)
  BY KeptAll
<1>2. Sound(f, top[f], index[f], Posts(f))
  BY DEF Inv
<1>3. n <= Limit /\ n \in Nat
  BY <1>2, FewEntries, SoundParts
<1> HIDE DEF a, n
<1>4. a.index \in Seq(NewEntry) /\ a.texts \in Seq(NewPost) /\ Len(a.index) \in Nat
  BY <1>1 DEF AccType
<1>5. Anew(f, a.index, a.texts) /\ a.next = Base[f] + Len(a.index) /\ Len(a.index) <= n
  BY <1>1 DEF Kept
<1>6. Len(a.index) <= Limit
  BY <1>3, <1>4, <1>5, BaseIsNat
<1>7. Sound(f, HighestGiven(f, Base[f] + Len(a.index)), a.index, a.texts)
  BY <1>4, <1>5, <1>6, SoundAnew
<1> QED  BY <1>5, <1>7 DEF a

-----------------------------------------------------------------------------
(* Every step keeps the invariant.                                         *)

\* Without the posts.
LEMMA SoundWithoutPosts ==
    ASSUME NEW f \in Files, NEW t, NEW ix, NEW ps, Sound(f, t, ix, ps)
    PROVE  Sound(f, t, ix, <<>>)
BY DEF Sound, Grows, SameTexts

\* After a step the leftover index, if there is one, is that of a pair of
\* files which has nothing else.
LeftAfter ==
    leftover' # NoIndex =>
        \E f \in Files : /\ leftover' \in Seq(Entry(f)) /\ top'[f] = Empty
                         /\ texts'[f] = <<>> \/ (texts'[f] = texts[f] /\ Posts(f) = <<>>)

\* It is, when the step does not touch such files.
LEMMA LeftStays ==
    ASSUME Inv, leftover' = leftover,
           \A f \in Files : top[f] = Empty => top'[f] = Empty /\ texts'[f] = texts[f]
    PROVE  LeftAfter
BY DEF Inv, Left, LeftAfter

\* What a change of some files must be for the invariant to hold after it;
\* whether NoTexts is a list of posts is nobody's business.
LEMMA InvAfter ==
    ASSUME Inv, today' \in 1 .. Year,
           top' \in [Files -> Int], DOMAIN index' = Files, DOMAIN texts' = Files,
           \A f \in Files : Sound(f, top'[f], index'[f], texts'[f])
                            \/ (texts'[f] = texts[f] /\ Sound(f, top'[f], index'[f], Posts(f))),
           LeftAfter
    PROVE  Inv'
<1>1. ASSUME NEW f \in Files
      PROVE  Sound(f, top'[f], index'[f], Posts(f)')
  <2>1. CASE Sound(f, top'[f], index'[f], texts'[f])
    <3>1. Posts(f)' = texts'[f] \/ Posts(f)' = <<>>
      BY DEF Posts, HasTexts
    <3> QED  BY <2>1, <3>1, SoundWithoutPosts
  <2>2. CASE texts'[f] = texts[f] /\ Sound(f, top'[f], index'[f], Posts(f))
    <3>1. Posts(f)' = Posts(f)
      BY <2>2 DEF Posts, HasTexts
    <3> QED  BY <2>2, <3>1
  <2> QED  BY <1>1, <2>1, <2>2
<1>2. (\A f \in Files : Sound(f, top[f], index[f], Posts(f)))'
  BY <1>1 DEF Sound
<1>3. (leftover # NoIndex => \E f \in Files : Left(f, leftover, top[f], Posts(f)))'
  <2> SUFFICES ASSUME leftover' # NoIndex
               PROVE  (\E f \in Files : Left(f, leftover, top[f], Posts(f)))'
    OBVIOUS
  <2>1. PICK f \in Files : /\ leftover' \in Seq(Entry(f)) /\ top'[f] = Empty
                           /\ texts'[f] = <<>> \/ (texts'[f] = texts[f] /\ Posts(f) = <<>>)
    BY DEF LeftAfter
  <2>2. Posts(f)' = <<>>
    BY <2>1 DEF Posts, HasTexts
  <2>3. Left(f, leftover, top[f], Posts(f))'
    BY <2>1, <2>2 DEF Left
  <2> QED  BY <2>3
<1> QED  BY <1>2, <1>3 DEF Inv

\* The new entry and its post.
LEMMA PostedSound ==
    ASSUME Inv, NEW f \in Files, NEW t \in Texts, top[f] # Empty, InRange(f, NewNumber(f))
    PROVE  LET e == [sn |-> NewNumber(f), live |-> TRUE, day |-> today, text |-> t]
               p == [sn |-> NewNumber(f), text |-> t]
           IN  /\ Sound(f, NewNumber(f), Append(index[f], e), Posts(f))
               /\ Sound(f, NewNumber(f), Append(index[f], e), Append(Posts(f), p))
               /\ NewNumber(f) \in Int
<1> DEFINE e == [sn |-> NewNumber(f), live |-> TRUE, day |-> today, text |-> t]
           p == [sn |-> NewNumber(f), text |-> t]
<1>1. Base[f] \in Nat /\ Limit \in Nat \ {0}
  BY BaseIsNat
<1>2. NewNumber(f) \in Int /\ NewNumber(f) <= Base[f] + Limit - 2
  <2>1. top[f] \in Int
    BY DEF Inv
  <2> QED  BY <1>1, <2>1 DEF NewNumber, InRange
<1>3. /\ NewNumber(f) \in Base[f] .. Base[f] + Limit
      /\ \A i \in DOMAIN index[f] : index[f][i].sn < NewNumber(f)
      /\ \A k \in DOMAIN Posts(f) : Posts(f)[k].sn < NewNumber(f)
  <2>1. NewNumber(f) <= Base[f] + Limit
    BY <1>1, <1>2
  <2> QED  BY <2>1, HigherNumber
<1>4. NewNumber(f) \in Numbers(f)
  BY <1>1, <1>2, <1>3 DEF Numbers
<1>5. e \in Entry(f) /\ p \in PostOf(f)
  BY <1>4 DEF Entry, PostOf, Inv
<1>6. e.sn = NewNumber(f) /\ p.sn = NewNumber(f) /\ e.text = t /\ p.text = t
  OBVIOUS
<1>7. Sound(f, top[f], index[f], Posts(f))
  BY DEF Inv
<1> HIDE DEF e, p
<1>8. Sound(f, e.sn, Append(index[f], e), Posts(f)) /\ Sound(f, e.sn, Append(index[f], e), Append(Posts(f), p))
  BY <1>3, <1>5, <1>6, <1>7, SoundWithPost
<1> QED  BY <1>2, <1>6, <1>8 DEF e, p

\* Posting, whether the text is written or not (MsgBoardPost).
LEMMA InvPost ==
    ASSUME Inv, NEW f \in Files, NEW t \in Texts, Post(f, t) \/ PostTorn(f, t)
    PROVE  Inv'
<1> DEFINE sn == NewNumber(f)
           e == [sn |-> sn, live |-> TRUE, day |-> today, text |-> t]
           p == [sn |-> sn, text |-> t]
<1>1. /\ top[f] # Empty /\ InRange(f, sn) /\ today' = today
      /\ top' = [top EXCEPT ![f] = sn]
      /\ index' = [index EXCEPT ![f] = Append(@, e)]
      /\ texts' = [texts EXCEPT ![f] = Append(Posts(f), p)] \/ texts' = texts
  BY DEF Post, PostTorn, Numbered, Indexed
<1>2. /\ Sound(f, sn, Append(index[f], e), Posts(f))
      /\ Sound(f, sn, Append(index[f], e), Append(Posts(f), p))
      /\ sn \in Int
  BY <1>1, PostedSound
<1> HIDE DEF sn, e, p
<1>3. top' \in [Files -> Int] /\ DOMAIN index' = Files /\ DOMAIN texts' = Files /\ today' \in 1 .. Year
  BY <1>1, <1>2 DEF Inv
<1>4. ASSUME NEW g \in Files
      PROVE  Sound(g, top'[g], index'[g], texts'[g])
             \/ (texts'[g] = texts[g] /\ Sound(g, top'[g], index'[g], Posts(g)))
  <2>1. CASE g = f
    <3>1. top'[f] = sn /\ index'[f] = Append(index[f], e)
          /\ (texts'[f] = Append(Posts(f), p) \/ texts'[f] = texts[f])
      BY <1>1 DEF Inv
    <3> QED  BY <1>2, <2>1, <3>1
  <2>2. CASE g # f
    <3>1. top'[g] = top[g] /\ index'[g] = index[g] /\ texts'[g] = texts[g]
      BY <1>1, <2>2 DEF Inv
    <3> QED  BY <3>1 DEF Inv
  <2> QED  BY <2>1, <2>2
<1>5. LeftAfter
  <2>1. leftover' = leftover /\ \A g \in Files : g # f => top'[g] = top[g] /\ texts'[g] = texts[g]
    BY <1>1 DEF Post, PostTorn, Inv
  <2> QED  BY <1>1, <2>1, LeftStays
<1> QED  BY <1>3, <1>4, <1>5, InvAfter

\* A number used up for nothing (MsgBoardGetMaxMsgSN).
LEMMA InvRefused ==
    ASSUME Inv, NEW f \in Files, PostRefused(f)
    PROVE  Inv'
<1>1. /\ top[f] # Empty /\ NewNumber(f) <= Base[f] + Limit
      /\ top' = [top EXCEPT ![f] = NewNumber(f)] /\ index' = index /\ texts' = texts /\ today' = today
  BY DEF PostRefused, Room, Numbered
<1>2. /\ NewNumber(f) \in Base[f] .. Base[f] + Limit
      /\ \A i \in DOMAIN index[f] : index[f][i].sn < NewNumber(f)
      /\ \A k \in DOMAIN Posts(f) : Posts(f)[k].sn < NewNumber(f)
  BY <1>1, HigherNumber
<1>3. Sound(f, top[f], index[f], Posts(f)) /\ top \in [Files -> Int]
  BY DEF Inv
<1>4. /\ \A i \in DOMAIN index[f] : index[f][i].sn \in Int
      /\ \A k \in DOMAIN Posts(f) : Posts(f)[k].sn \in Int
      /\ NewNumber(f) \in Int
  <2>1. NewNumber(f) \in Int
    BY <1>2, BaseIsNat
  <2> QED  BY <1>3, <2>1, SoundParts
<1>5. Sound(f, NewNumber(f), index[f], Posts(f))
  <2> DEFINE ix == index[f]
             ps == Posts(f)
             sn == NewNumber(f)
  <2> HIDE DEF ix, ps, sn
  <2> QED  BY <1>2, <1>3, <1>4 DEF Sound, ix, ps, sn
<1>6. top' \in [Files -> Int] /\ DOMAIN index' = Files /\ DOMAIN texts' = Files /\ today' \in 1 .. Year
  BY <1>1, <1>4 DEF Inv
<1>7. ASSUME NEW g \in Files
      PROVE  texts'[g] = texts[g] /\ Sound(g, top'[g], index'[g], Posts(g))
  <2>1. CASE g = f
    BY <1>1, <1>3, <1>5, <2>1
  <2>2. CASE g # f
    <3>1. top'[g] = top[g] /\ index'[g] = index[g] /\ texts'[g] = texts[g]
      BY <1>1, <1>3, <2>2
    <3> QED  BY <3>1 DEF Inv
  <2> QED  BY <2>1, <2>2
<1>8. LeftAfter
  <2>1. leftover' = leftover /\ \A g \in Files : g # f => top'[g] = top[g]
    BY <1>1, <1>3 DEF PostRefused
  <2> QED  BY <1>1, <2>1, LeftStays
<1> QED  BY <1>6, <1>7, <1>8, InvAfter

\* Only the mark of an entry changes.
LEMMA InvRemove ==
    ASSUME Inv, NEW f \in Files, NEW sn, RemovePost(f, sn)
    PROVE  Inv'
<1> DEFINE ix == index[f]
           ps == Posts(f)
           i == Found(ix, sn)
           iy == [ix EXCEPT ![i].live = FALSE]
<1>1. /\ i # 0 /\ top' = top /\ texts' = texts /\ today' = today
      /\ index' = [index EXCEPT ![f][i].live = FALSE]
  BY DEF RemovePost
<1>2. Sound(f, top[f], ix, ps) /\ DOMAIN index = Files
  BY DEF Inv
<1>3. /\ ix \in Seq(Entry(f)) /\ DOMAIN ix = 1 .. Len(ix) /\ Len(ix) \in Nat
      /\ \A j \in 1 .. Len(ix) : ix[j] \in Entry(f)
  BY <1>2, SoundParts
<1>4. i \in DOMAIN ix
  BY <1>1, <1>3, FoundPost
<1>5. index'[f] = iy /\ \A g \in Files : g # f => index'[g] = index[g]
  BY <1>1, <1>2
<1> HIDE DEF ix, ps, i
<1>6. /\ DOMAIN iy = DOMAIN ix
      /\ \A j \in DOMAIN ix : iy[j] \in Entry(f) /\ iy[j].sn = ix[j].sn /\ iy[j].text = ix[j].text
  <2>1. [ix[i] EXCEPT !.live = FALSE] \in Entry(f)
        /\ [ix[i] EXCEPT !.live = FALSE].sn = ix[i].sn /\ [ix[i] EXCEPT !.live = FALSE].text = ix[i].text
    BY <1>3, <1>4 DEF Entry
  <2> QED  BY <1>3, <1>4, <2>1
<1> HIDE DEF iy
<1>7. iy \in Seq(Entry(f))
  <2>1. iy \in [1 .. Len(ix) -> Entry(f)]
    <3>1. iy = [j \in DOMAIN ix |-> iy[j]]
      <4>1. iy = [ix EXCEPT ![i] = [ix[i] EXCEPT !.live = FALSE]]
        BY DEF iy
      <4> QED  BY <4>1
    <3> QED  BY <1>3, <1>6, <3>1
  <2> QED  BY <1>3, <2>1
<1>8. Sound(f, top[f], iy, ps)
  BY <1>2, <1>6, <1>7 DEF Sound, Grows, SameTexts
<1>9. ASSUME NEW g \in Files
      PROVE  texts'[g] = texts[g] /\ Sound(g, top'[g], index'[g], Posts(g))
  <2>1. CASE g = f
    BY <1>1, <1>5, <1>8, <2>1 DEF ps
  <2>2. CASE g # f
    BY <1>1, <1>5, <2>2 DEF Inv
  <2> QED  BY <2>1, <2>2
<1>10. top' \in [Files -> Int] /\ DOMAIN index' = Files /\ DOMAIN texts' = Files /\ today' \in 1 .. Year
  BY <1>1 DEF Inv
<1>11. LeftAfter
  BY <1>1, LeftStays DEF RemovePost
<1> QED  BY <1>9, <1>10, <1>11, InvAfter

\* Without posts nothing is copied.
LEMMA NothingCopied ==
    ASSUME Inv, NEW f \in Files, ~HasTexts(f)
    PROVE  Posts(f) = <<>> /\ Compacted(f).index = <<>> /\ Compacted(f).texts = <<>>
<1> DEFINE n == Len(index[f])
           a == Compacted(f)
           W == Whole(f, n)
<1>1. Posts(f) = <<>>
  BY DEF Posts
<1> SUFFICES ASSUME ~Displaced(f)
             PROVE  a.index = <<>> /\ a.texts = <<>>
  BY <1>1, NothingFound
<1>2. Kept(f, n, a) /\ a \in AccType(f)
  BY KeptAll
<1>3. W = {}
  <2>1. \A sn : Found(<<>>, sn) = 0
    <3> SUFFICES ASSUME NEW sn
                 PROVE  Found(<<>>, sn) = 0
      OBVIOUS
    <3>1. <<>> \in Seq(PostOf(f)) /\ DOMAIN <<>> = {}
      OBVIOUS
    <3> QED  BY <3>1, FoundPost
  <2>2. n \in Nat
    BY AccDefined
  <2>3. Good(f, n) \subseteq 1 .. n /\ W \subseteq Good(f, n)
    BY DEF Good, Whole
  <2> HIDE DEF n
  <2>4. \A j \in Good(f, n) : j <= j
    BY <2>2, <2>3
  <2> QED  BY <1>1, <2>1, <2>3, <2>4 DEF Whole
<1> HIDE DEF n, a
<1>4. Len(a.index) = 0 /\ Len(a.texts) = 0
  BY <1>2, <1>3, FS_EmptySet DEF Kept, Anew
<1>5. a.index \in Seq(NewEntry) /\ a.texts \in Seq(NewPost)
  BY <1>2 DEF AccType
<1>6. a.index = <<>> /\ a.texts = <<>>
  BY <1>4, <1>5
<1> QED  BY <1>6 DEF a

\* Starting (MsgBoardMaintenance).
LEMMA InvRestart ==
    ASSUME Inv, Restart
    PROVE  Inv'
<1>1. /\ top' = [f \in Files |-> IF f \notin Reached THEN top[f]
                                 ELSE IF HasTexts(f) THEN HighestGiven(f, Compacted(f).next) ELSE Empty]
      /\ index' = [f \in Files |-> IF f \notin Reached THEN index[f]
                                   ELSE IF HasTexts(f) THEN Compacted(f).index ELSE <<>>]
      /\ texts' = [f \in Files |-> IF f \notin Reached THEN texts[f] ELSE Compacted(f).texts]
      /\ today' = today
  BY DEF Restart, MsgBoardMaintenance
<1>2. ASSUME NEW f \in Files
      PROVE  /\ top'[f] \in Int
             /\ Sound(f, top'[f], index'[f], texts'[f])
                \/ (texts'[f] = texts[f] /\ Sound(f, top'[f], index'[f], Posts(f)))
  <2>1. CASE f \notin Reached
    <3>1. top'[f] = top[f] /\ index'[f] = index[f] /\ texts'[f] = texts[f]
      BY <1>1, <2>1
    <3> QED  BY <3>1 DEF Inv
  <2>2. CASE f \in Reached /\ HasTexts(f)
    <3>1. /\ top'[f] = HighestGiven(f, Compacted(f).next)
          /\ index'[f] = Compacted(f).index /\ texts'[f] = Compacted(f).texts
      BY <1>1, <2>2
    <3>2. Sound(f, top'[f], index'[f], texts'[f])
      BY <3>1, SoundCompacted
    <3>3. top'[f] \in Int
      BY <3>2, BaseIsNat DEF Sound, Missing, Empty
    <3> QED  BY <3>2, <3>3
  <2>3. CASE f \in Reached /\ ~HasTexts(f)
    <3>1. top'[f] = Empty /\ index'[f] = <<>> /\ texts'[f] = Compacted(f).texts
      BY <1>1, <2>3
    <3>2. Compacted(f).texts = <<>>
      BY <2>3, NothingCopied
    <3> QED  BY <3>1, <3>2, NoFiles DEF Empty
  <2> QED  BY <2>1, <2>2, <2>3
<1>3. top' \in [Files -> Int]
  <2>1. top' = [f \in Files |-> top'[f]]
    BY <1>1
  <2> QED  BY <1>2, <2>1
<1>4. DOMAIN index' = Files /\ DOMAIN texts' = Files /\ today' \in 1 .. Year
  BY <1>1 DEF Inv
<1>5. LeftAfter
  <2> SUFFICES ASSUME leftover' # NoIndex
               PROVE  \E f \in Files : /\ leftover' \in Seq(Entry(f)) /\ top'[f] = Empty
                                       /\ texts'[f] = <<>> \/ (texts'[f] = texts[f] /\ Posts(f) = <<>>)
    BY DEF LeftAfter
  <2>1. Reached \subseteq Files
    BY OrderAssumption DEF Reached, There
  <2>2. leftover' = IF Reached = {} THEN leftover
                    ELSE IF Stopped = {} THEN NoIndex ELSE OldIndex(CHOOSE f \in Stopped : TRUE)
    BY DEF Restart, MsgBoardMaintenance
  <2>3. CASE Reached = {}
    <3>1. leftover' = leftover /\ \A f \in Files : top'[f] = top[f] /\ texts'[f] = texts[f]
      BY <1>1, <2>2, <2>3
    <3> QED  BY <3>1, LeftStays DEF LeftAfter
  <2>4. CASE Reached # {}
    <3>1. PICK h \in Stopped : leftover' = OldIndex(h)
      BY <2>2, <2>4
    <3>2. h \in Files /\ h \in Reached /\ ~HasTexts(h)
      BY <2>1, <3>1 DEF Stopped
    <3>3. top'[h] = Empty /\ texts'[h] = <<>>
      BY <1>1, <3>2, NothingCopied
    <3>4. CASE ~Displaced(h)
      <4>1. leftover' = index[h]
        BY <3>1, <3>4 DEF OldIndex
      <4>2. leftover' \in Seq(Entry(h))
        BY <3>2, <4>1 DEF Inv, Sound
      <4> QED  BY <3>2, <3>3, <4>2
    <3>5. CASE Displaced(h)
      <4>1. leftover' = leftover /\ leftover # NoIndex
        BY <3>1, <3>5 DEF OldIndex, Displaced
      <4>2. PICK g \in Files : leftover \in Seq(Entry(g)) /\ top[g] = Empty /\ Posts(g) = <<>>
        BY <4>1 DEF Inv, Left
      <4>3. CASE g \notin Reached
        <5>1. top'[g] = top[g] /\ texts'[g] = texts[g]
          BY <1>1, <4>3
        <5> QED  BY <4>1, <4>2, <5>1
      <4>4. CASE g = h
        BY <3>3, <4>1, <4>2, <4>4
      <4>5. CASE g \in Reached /\ g # h
        <5>1. PICK i \in There : Order[i] = h /\ \A k \in There : i <= k
          BY <3>5 DEF Displaced
        <5>2. PICK j \in There : Order[j] = g /\ \A k \in There : k < j => Windows /\ HasTexts(Order[k])
          BY <4>5 DEF Reached
        <5>3. i \in Int /\ j \in Int
          BY OrderAssumption, <5>1, <5>2 DEF There
        <5>4. i < j
          BY <4>5, <5>1, <5>2, <5>3
        <5>5. HasTexts(h)
          BY <5>1, <5>2, <5>4
        <5> QED  BY <3>2, <5>5
      <4> QED  BY <4>3, <4>4, <4>5
    <3> QED  BY <3>4, <3>5
  <2> QED  BY <2>3, <2>4
<1> QED  BY <1>2, <1>3, <1>4, <1>5, InvAfter

\* Every step.
LEMMA InvNext ==
    ASSUME Inv, [Next]_vars
    PROVE  Inv'
<1>1. CASE \E f \in Files, t \in Texts : Post(f, t) \/ PostTorn(f, t)
  BY <1>1, InvPost
<1>2. CASE \E f \in Files : PostRefused(f)
  BY <1>2, InvRefused
<1>3. CASE \E f \in Files : \E e \in ToSet(index[f]) : RemovePost(f, e.sn)
  BY <1>3, InvRemove
<1>4. CASE NextDay
  <2>1. today' = (today % Year) + 1 /\ UNCHANGED <<top, index, texts, leftover>>
    BY <1>4 DEF NextDay
  <2>2. today' \in 1 .. Year
    BY <2>1, DaysAssumption DEF Inv
  <2>3. \A f \in Files : texts'[f] = texts[f] /\ Sound(f, top'[f], index'[f], Posts(f))
    BY <2>1 DEF Inv
  <2>4. top' \in [Files -> Int] /\ DOMAIN index' = Files /\ DOMAIN texts' = Files
    BY <2>1 DEF Inv
  <2>5. LeftAfter
    BY <2>1, LeftStays
  <2> QED  BY <2>2, <2>3, <2>4, <2>5, InvAfter
<1>5. CASE Restart
  BY <1>5, InvRestart
<1>6. CASE UNCHANGED vars
  <2>1. today' = today /\ UNCHANGED <<top, index, texts, leftover>>
    BY <1>6 DEF vars
  <2>2. \A f \in Files : texts'[f] = texts[f] /\ Sound(f, top'[f], index'[f], Posts(f))
    BY <2>1 DEF Inv
  <2>3. today' \in 1 .. Year /\ top' \in [Files -> Int] /\ DOMAIN index' = Files /\ DOMAIN texts' = Files
    BY <2>1 DEF Inv
  <2>4. LeftAfter
    BY <2>1, LeftStays
  <2> QED  BY <2>2, <2>3, <2>4, InvAfter
<1> QED  BY <1>1, <1>2, <1>3, <1>4, <1>5, <1>6 DEF Next

-----------------------------------------------------------------------------
(* Theorems.                                                               *)

\* The invariant always holds.
LEMMA InvHolds == Spec => []Inv
<1> QED  BY InvInit, InvNext, PTL DEF Spec

\* The types, and with them the kinds: no number leaves the range of its
\* files, however often they are numbered anew.
THEOREM NumbersOfTheirKind == Spec => []TypeOK
<1>1. ASSUME Inv
      PROVE  TypeOK
  <2>1. ASSUME NEW f \in Files
        PROVE  /\ top[f] \in {Missing, Empty} \cup Base[f] .. Base[f] + Limit
               /\ \A e \in ToSet(index[f]) : e \in Entry(f)
               /\ HasTexts(f) => \A p \in ToSet(texts[f]) : p \in PostOf(f)
    <3>1. Sound(f, top[f], index[f], Posts(f))
      BY <1>1 DEF Inv
    <3>2. index[f] \in Seq(Entry(f)) /\ Posts(f) \in Seq(PostOf(f))
      BY <3>1 DEF Sound
    <3>3. \A e \in ToSet(index[f]) : e \in Entry(f)
      BY <3>2 DEF ToSet
    <3>4. \A p \in ToSet(Posts(f)) : p \in PostOf(f)
      BY <3>2 DEF ToSet
    <3>5. HasTexts(f) => Posts(f) = texts[f]
      BY DEF Posts
    <3> QED  BY <3>1, <3>3, <3>4, <3>5 DEF Sound
  <2>2. today \in 1 .. Year
    BY <1>1 DEF Inv
  <2> QED  BY <2>1, <2>2 DEF TypeOK, Entry, PostOf, Numbers
<1> QED  BY <1>1, InvHolds, PTL

\* A post is never shown with the text of another, for every number of
\* posts, removals, torn posts, wasted numbers and starts.
THEOREM NoOtherText == Spec => []OwnText
<1>1. ASSUME Inv
      PROVE  OwnText
  <2> SUFFICES ASSUME NEW f \in Files, NEW i \in Listed(f), Found(Posts(f), index[f][i].sn) # 0
               PROVE  texts[f][Found(Posts(f), index[f][i].sn)].text = index[f][i].text
    BY DEF OwnText
  <2> DEFINE ps == Posts(f)
             sn == index[f][i].sn
             k == Found(ps, sn)
  <2>1. Sound(f, top[f], index[f], ps)
    BY <1>1 DEF Inv
  <2>2. ps \in Seq(PostOf(f)) /\ SameTexts(index[f], ps)
    BY <2>1 DEF Sound
  <2>3. k \in DOMAIN ps /\ ps[k].sn = sn
    <3> HIDE DEF ps, sn
    <3> QED  BY <2>2, FoundPost DEF ps, sn
  <2>4. i \in DOMAIN index[f]
    BY DEF Listed
  <2>5. ps = texts[f]
    BY <2>3 DEF Posts
  <2> HIDE DEF k, ps
  <2>6. ps[k].text = index[f][i].text
    BY <2>2, <2>3, <2>4 DEF SameTexts
  <2> QED  BY <2>5, <2>6 DEF k, ps
<1> QED  BY <1>1, InvHolds, PTL

\* The index of each file maintenance has come to, and could rename, is as CleansOnlyOld says.
LEMMA Starts == ASSUME Inv, Restart, NEW f \in Reached, ~Displaced(f) PROVE CleanedOnlyOld(f)
<1> DEFINE good  == {i \in DOMAIN index[f] : index[f][i].live /\ Age(index[f][i]) <= Retention}
           whole == {i \in good : \A j \in good : j <= i => Found(Posts(f), index[f][j].sn) # 0}
           place(i) == Cardinality({j \in whole : j <= i})
<1>1. f \in Files
  <2>1. \A i \in DOMAIN Order : Order[i] \in Files
    BY OrderAssumption
  <2> QED  BY <2>1 DEF Reached, There
<1>2. index'[f] = IF HasTexts(f) THEN Compacted(f).index ELSE <<>>
  BY <1>1 DEF Restart, MsgBoardMaintenance
<1> DEFINE n == Len(index[f])
           a == Compacted(f)
           W == Whole(f, n)
<1>3. n \in Nat /\ DOMAIN index[f] = 1 .. n
  BY <1>1, SoundParts DEF Inv
<1>4. good = Good(f, n)
  BY <1>3 DEF Good, Wanted
<1>5. whole = W
  BY <1>4 DEF Whole
<1>6. \A i \in W : place(i) = Place(W, i)
  BY <1>5 DEF Place
<1>7. index'[f] = a.index
  <2>1. ~HasTexts(f) => a.index = <<>>
    BY <1>1, NothingCopied
  <2> QED  BY <1>2, <2>1
<1>8. Kept(f, n, a)
  BY <1>1, KeptAll
<1>9. /\ Len(a.index) = Cardinality(W)
      /\ \A j \in W : a.index[Place(W, j)].text = index[f][j].text
      /\ \A k \in 1 .. Len(a.index) : a.index[k].live
  BY <1>8 DEF Kept, Anew
<1>10. \A j \in W : Place(W, j) \in 1 .. Cardinality(W)
  <2>1. W \in SUBSET (1 .. n)
    BY DEF Whole, Good
  <2> HIDE DEF W, n
  <2>2. ComesLast(n, W)
    BY <1>3, <2>1, Positions
  <2> QED  BY <2>2 DEF ComesLast
<1> HIDE DEF W, a, n, good, whole, place
<1>11. \A i \in W : a.index[Place(W, i)].live
  BY <1>9, <1>10
<1> QED  BY <1>5, <1>6, <1>7, <1>9, <1>11 DEF CleanedOnlyOld, whole, good, place

\* The one it could not rename is empty.
LEMMA Loses == ASSUME Inv, Restart, NEW f \in Reached, Displaced(f) PROVE index'[f] = <<>>
<1>1. f \in Files
  <2>1. \A i \in DOMAIN Order : Order[i] \in Files
    BY OrderAssumption
  <2> QED  BY <2>1 DEF Reached, There
<1>2. index'[f] = IF HasTexts(f) THEN Compacted(f).index ELSE <<>>
  BY <1>1 DEF Restart, MsgBoardMaintenance
<1> QED  BY <1>1, <1>2, NothingFound

\* A start keeps exactly the posts it should, in their order, with their
\* texts, for indexes of every length; an index that cannot be renamed, since
\* the bbi.tmp of an earlier start is in the way, loses all.
THEOREM StartsCleanOnlyOld == Spec => CleansOnlyOld
<1>1. Inv => (Restart => \A f \in Reached : IF Displaced(f) THEN index'[f] = <<>> ELSE CleanedOnlyOld(f))
  BY Starts, Loses
<1> QED  BY <1>1, InvHolds, PTL DEF Spec, CleansOnlyOld
=============================================================================
