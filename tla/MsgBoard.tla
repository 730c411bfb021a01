------------------------------ MODULE MsgBoard ------------------------------
(***************************************************************************)
(* The files of the message boards, src/extras/msgboard.cpp.  The global   *)
(* posts, those of a region and those of one board have two files each:    *)
(* the index (.bbi), which begins with the highest serial number given and *)
(* lists the posts, and the texts (.bbp).  A post is written to the first  *)
(* and then to the second; a disk error or a crash may come between.  Both *)
(* files only grow until the server starts again, when maintenance drops   *)
(* what was removed or is too old and numbers the rest anew.  It renames   *)
(* the old index to bbi.tmp, one name for all, and where it returns early  *)
(* this file stays: on Windows the next rename() does not replace it, and  *)
(* the next index found is emptied while the leftover is read.             *)
(*                                                                         *)
(* The text of a post, of which the index knows nothing, is kept in the    *)
(* entry too, as history: the properties compare the two.                  *)
(***************************************************************************)
EXTENDS Integers, Sequences, FiniteSets, SequencesExt

CONSTANTS
    Files,      \* names of the pairs of files
    Order,      \* the order in which maintenance finds the indexes
    Windows,    \* it goes on to the next, and rename() does not replace a file;
                \* on Unix it stops after one, and rename() replaces
    Base,       \* by file: the first serial number of its kind of post
    Limit,      \* how many there are before those of the next kind
    Texts,
    Year, Retention,  \* in days
    NoTexts,    \* there is no file of texts
    NoIndex,    \* there is no bbi.tmp
    MaxPosts    \* bound on the entries of all indexes and of bbi.tmp

ASSUME OrderAssumption == Order \in Seq(Files) /\ \A i, j \in DOMAIN Order : Order[i] = Order[j] => i = j
ASSUME BaseAssumption ==
    /\ Base \in [Files -> Nat \ {0}] /\ Limit \in Nat \ {0}
    /\ \A f, g \in Files : f # g => Base[f] + Limit <= Base[g] \/ Base[g] + Limit <= Base[f]
ASSUME DaysAssumption == Year \in Nat \ {0} /\ Retention \in 0 .. Year - 1

VARIABLES
    top,      \* the number at the head of an index, or Missing or Empty
    index,    \* by file: the entries
    texts,    \* by file: the posts, or NoTexts
    leftover, \* the entries of bbi.tmp, or NoIndex
    today     \* day of the year

vars == <<top, index, texts, leftover, today>>

Missing == -2   \* there is no index
Empty   == -1   \* there is one of no bytes

HasTexts(f) == texts[f] # NoTexts
Posts(f) == IF HasTexts(f) THEN texts[f] ELSE <<>>

-----------------------------------------------------------------------------
(* What a client is shown.                                                 *)

Listed(f) == {i \in DOMAIN index[f] : index[f][i].live}

\* The first post with a number, of those of a file in order; 0: none.
Found(posts, sn) == SelectInSeq(posts, LAMBDA p : p.sn = sn)

-----------------------------------------------------------------------------
(* Posting.                                                                *)

NewNumber(f) == IF top[f] = Missing THEN Base[f] ELSE top[f] + 1

\* (Altered on purpose, a mutant: the last number of a kind is not kept back.)
InRangeBug(f, sn) == sn <= Base[f] + Limit
InRange(f, sn) == sn < Base[f] + Limit - 1

Numbered(f) == top' = [top EXCEPT ![f] = NewNumber(f)]
Indexed(f, t) ==
    /\ InRange(f, NewNumber(f))
    /\ index' = [index EXCEPT ![f] = Append(@, [sn |-> NewNumber(f), live |-> TRUE, day |-> today, text |-> t])]

Entries == UNION {{f} \X DOMAIN index[f] : f \in Files}
Room(f) ==
    /\ Cardinality(Entries) + (IF leftover = NoIndex THEN 0 ELSE Len(leftover)) < MaxPosts
    /\ NewNumber(f) <= Base[f] + Limit

Post(f, t) ==
    /\ Room(f) /\ top[f] # Empty
    /\ Numbered(f) /\ Indexed(f, t)
    /\ texts' = [texts EXCEPT ![f] = Append(Posts(f), [sn |-> NewNumber(f), text |-> t])]
    /\ UNCHANGED <<leftover, today>>

\* The texts cannot be opened, or the server dies before: the entry stays.
PostTorn(f, t) ==
    /\ Room(f) /\ top[f] # Empty
    /\ Numbered(f) /\ Indexed(f, t)
    /\ UNCHANGED <<texts, leftover, today>>

\* All numbers are given out, or the server dies before the entry is
\* written: the number is used up.
PostRefused(f) ==
    /\ Room(f) /\ top[f] # Empty
    /\ Numbered(f)
    /\ UNCHANGED <<index, texts, leftover, today>>

-----------------------------------------------------------------------------
(* Removing: of the post a client names, the first entry with its number.  *)

RemovePost(f, sn) ==
    LET i == Found(index[f], sn)
    IN  /\ i # 0
        /\ index' = [index EXCEPT ![f][i].live = FALSE]
        /\ UNCHANGED <<top, texts, leftover, today>>

NextDay == today' = (today % Year) + 1 /\ UNCHANGED <<top, index, texts, leftover>>

-----------------------------------------------------------------------------
(* Starting.                                                               *)

Age(e) == IF today < e.day THEN today - e.day + Year ELSE today - e.day

\* The indexes there are, by their place in the order, and those maintenance
\* comes to: it returns at the first whose texts are missing, having emptied
\* that index.
There == {i \in DOMAIN Order : top[Order[i]] # Missing}
Reached ==
    {Order[i] : i \in {j \in There : \A k \in There : k < j => Windows /\ HasTexts(Order[k])}}
Stopped == {f \in Reached : ~HasTexts(f)}

\* The first index found, when it cannot be renamed: it is lost, and the
\* leftover one is read in its place.  What follows finds bbi.tmp removed.
Displaced(f) ==
    /\ Windows /\ leftover # NoIndex
    /\ \E i \in There : Order[i] = f /\ \A k \in There : i <= k
OldIndex(f) == IF Displaced(f) THEN leftover ELSE index[f]

\* (Altered on purpose, a mutant: the mark of a removed post is not looked at.)
WantedBug(e) == Age(e) <= Retention
Wanted(e) == e.live /\ Age(e) <= Retention

\* One entry of the old index.  Its text is looked for from where the last
\* one was found, the order of both files being the same; an entry without
\* one makes the search run to the end.
Keep(acc, e) ==
    LET k == Found(acc.rest, e.sn)
    IN  IF ~Wanted(e) THEN acc
        ELSE IF k = 0 THEN [acc EXCEPT !.rest = <<>>]
        ELSE [rest  |-> SubSeq(acc.rest, k + 1, Len(acc.rest)),
              next  |-> acc.next + 1,
              index |-> Append(acc.index, [e EXCEPT !.sn = acc.next]),
              texts |-> Append(acc.texts, [acc.rest[k] EXCEPT !.sn = acc.next])]

Compacted(f) ==
    LET acc[i \in 0 .. Len(OldIndex(f))] ==
            IF i = 0 THEN [rest |-> Posts(f), next |-> Base[f], index |-> <<>>, texts |-> <<>>]
            ELSE Keep(acc[i - 1], OldIndex(f)[i])
    IN  acc[Len(OldIndex(f))]

\* (Altered on purpose, a mutant: the head that was written first stays.)
HighestGivenBug(f, next) == Base[f]

\* The number at the head of the new index: the last one given, or the first
\* of all if none was.
HighestGiven(f, next) == IF next = Base[f] THEN next ELSE next - 1

MsgBoardMaintenance ==
    /\ top' = [f \in Files |-> IF f \notin Reached THEN top[f]
                               ELSE IF HasTexts(f) THEN HighestGiven(f, Compacted(f).next) ELSE Empty]
    /\ index' = [f \in Files |-> IF f \notin Reached THEN index[f]
                                 ELSE IF HasTexts(f) THEN Compacted(f).index ELSE <<>>]
    /\ texts' = [f \in Files |-> IF f \notin Reached THEN texts[f] ELSE Compacted(f).texts]
    /\ leftover' = IF Reached = {} THEN leftover
                   ELSE IF Stopped = {} THEN NoIndex
                   ELSE OldIndex(CHOOSE f \in Stopped : TRUE)

Restart == MsgBoardMaintenance /\ UNCHANGED today

-----------------------------------------------------------------------------
Init ==
    /\ top = [f \in Files |-> Missing]
    /\ index = [f \in Files |-> <<>>]
    /\ texts = [f \in Files |-> NoTexts]
    /\ leftover = NoIndex
    /\ today = 1

Next ==
    \/ \E f \in Files, t \in Texts : Post(f, t) \/ PostTorn(f, t)
    \/ \E f \in Files : PostRefused(f)
    \/ \E f \in Files : \E e \in ToSet(index[f]) : RemovePost(f, e.sn)
    \/ NextDay
    \/ Restart

Spec == Init /\ [][Next]_vars

-----------------------------------------------------------------------------
(* Properties.                                                             *)

\* The numbers of posts are of their kind: MsgBoardOpenPost() and
\* MsgBoardRemovePost() find the file of a post by its number.
TypeOK ==
    /\ today \in 1 .. Year
    /\ \A f \in Files :
        /\ top[f] \in {Missing, Empty} \cup Base[f] .. Base[f] + Limit
        /\ \A e \in ToSet(index[f]) :
            /\ e.sn \in Base[f] .. Base[f] + Limit - 1
            /\ e.live \in BOOLEAN /\ e.day \in 1 .. Year /\ e.text \in Texts
        /\ HasTexts(f) => \A p \in ToSet(texts[f]) : p.sn \in Base[f] .. Base[f] + Limit - 1 /\ p.text \in Texts

\* Who opens a listed post reads that post and no other, through removals,
\* torn posts, wasted numbers and renumbering: MsgBoardOpenPost() takes the
\* first text that has the number.
OwnText ==
    \A f \in Files : \A i \in Listed(f) :
        LET k == Found(Posts(f), index[f][i].sn) IN k # 0 => texts[f][k].text = index[f][i].text

\* What a start leaves of the index of f: the wanted entries before the first
\* of them without a text, in their order.
CleanedOnlyOld(f) ==
    LET good  == {i \in DOMAIN index[f] : index[f][i].live /\ Age(index[f][i]) <= Retention}
        whole == {i \in good : \A j \in good : j <= i => Found(Posts(f), index[f][j].sn) # 0}
        place(i) == Cardinality({j \in whole : j <= i})
    IN  /\ Len(index'[f]) = Cardinality(whole)
        /\ \A i \in whole : index'[f][place(i)].live /\ index'[f][place(i)].text = index[f][i].text

\* "Cleans out old posts ... and any posts that have been marked for
\* deletion": a start keeps every post that is neither, in its order, unless
\* it stands behind an entry whose text was never written, and keeps nothing
\* else.  The one exception: an index that could not be renamed, because an
\* earlier start returned at missing texts and left its bbi.tmp behind, loses
\* every post it had.
CleansOnlyOld ==
    [][Restart => \A f \in Reached : IF Displaced(f) THEN index'[f] = <<>> ELSE CleanedOnlyOld(f)]_vars
=============================================================================
