----------------------------- MODULE AdminUiProofs -----------------------------
(***************************************************************************)
(* Proofs about the admin page and the answers it gets: whom the           *)
(* full-state digest lists while lists change between its two reads, that  *)
(* a dialog is closed by its own answer, that the screen shows what is     *)
(* asked for, and that no day of the dashboard's chart is cut short.       *)
(***************************************************************************)
EXTENDS AdminUi, SequenceTheorems, FiniteSetTheorems, TLAPS

-----------------------------------------------------------------------------
\* Sequences.

IsSequence(s) == s \in Seq(ToSet(s))

\* A sequence over any set is one over its own elements.
LEMMA SequenceOfItself ==
  ASSUME NEW S, NEW s \in Seq(S)
  PROVE  IsSequence(s) /\ ToSet(s) \subseteq S
<1>1. s \in [1 .. Len(s) -> S] /\ DOMAIN s = 1 .. Len(s) /\ Len(s) \in Nat
  OBVIOUS
<1>2. ToSet(s) \subseteq S
  BY <1>1 DEF ToSet
<1>3. s \in [1 .. Len(s) -> ToSet(s)]
  BY <1>1 DEF ToSet
<1> QED
  BY <1>1, <1>2, <1>3 DEF IsSequence

\* Leaving out an element leaves some of the elements.
LEMMA RemoveAtKeeps ==
  ASSUME NEW s, IsSequence(s), NEW i \in 1 .. Len(s)
  PROVE  IsSequence(RemoveAt(s, i)) /\ ToSet(RemoveAt(s, i)) \subseteq ToSet(s)
<1>1. s \in Seq(ToSet(s)) /\ Len(s) \in Nat
  BY DEF IsSequence
<1>2. SubSeq(s, 1, i - 1) \in Seq(ToSet(s)) /\ SubSeq(s, i + 1, Len(s)) \in Seq(ToSet(s))
  BY <1>1
<1>3. RemoveAt(s, i) \in Seq(ToSet(s))
  BY <1>2 DEF RemoveAt
<1> QED
  BY <1>3, SequenceOfItself

\* Taking a row off a list leaves a list of some of its rows.
LEMMA WithoutKeeps ==
  ASSUME NEW s, IsSequence(s), NEW a
  PROVE  IsSequence(Without(s, a)) /\ ToSet(Without(s, a)) \subseteq ToSet(s)
<1>1. CASE a \notin ToSet(s)
  BY <1>1 DEF Without
<1>2. CASE a \in ToSet(s)
  <2> DEFINE i == CHOOSE j \in DOMAIN s : s[j] = a
  <2>1. i \in DOMAIN s
    BY <1>2 DEF ToSet
  <2>2. i \in 1 .. Len(s)
    BY <2>1 DEF IsSequence
  <2>3. Without(s, a) = RemoveAt(s, i)
    BY <1>2 DEF Without
  <2> HIDE DEF i
  <2> QED
    BY <2>2, <2>3, RemoveAtKeeps
<1> QED
  BY <1>1, <1>2

\* Putting an account on a list adds that account.
LEMMA InsertAtAdds ==
  ASSUME NEW s, IsSequence(s), NEW a, NEW i \in 1 .. Len(s) + 1
  PROVE  IsSequence(InsertAt(s, i, a)) /\ ToSet(InsertAt(s, i, a)) \subseteq ToSet(s) \cup {a}
<1> DEFINE S == ToSet(s) \cup {a}
<1>1. s \in Seq(S) /\ Len(s) \in Nat
  <2>1. s \in Seq(ToSet(s))
    BY DEF IsSequence
  <2> QED
    BY <2>1
<1>2. <<a>> \in Seq(S)
  OBVIOUS
<1> HIDE DEF S
<1>3. SubSeq(s, 1, i - 1) \in Seq(S) /\ SubSeq(s, i, Len(s)) \in Seq(S)
  BY <1>1
<1>4. InsertAt(s, i, a) \in Seq(S)
  BY <1>2, <1>3 DEF InsertAt
<1> QED
  BY <1>4, SequenceOfItself DEF S

\* A part of a sequence.
LEMMA Slice ==
  ASSUME NEW S, NEW s \in Seq(S), NEW m \in 1 .. Len(s) + 1, NEW n \in 0 .. Len(s), m <= n + 1
  PROVE  /\ SubSeq(s, m, n) \in Seq(S) /\ Len(SubSeq(s, m, n)) = n - m + 1
         /\ \A j \in 1 .. n - m + 1 : SubSeq(s, m, n)[j] = s[m + j - 1]
<1>1. Len(s) \in Nat /\ \A j \in 1 .. Len(s) : s[j] \in S
  OBVIOUS
<1>2. \A j \in m .. n : s[j] \in S
  BY <1>1
<1> DEFINE part == SubSeq(s, m, n)
<1>3. /\ part \in Seq(S) /\ Len(part) = IF m <= n THEN n - m + 1 ELSE 0
      /\ \A j \in 1 .. n - m + 1 : part[j] = s[m + j - 1]
  BY <1>1, <1>2, SubSeqProperties
<1> HIDE DEF part
<1>4. Len(part) = n - m + 1
  BY <1>1, <1>3
<1> QED
  BY <1>3, <1>4 DEF part

\* What RemoveAt gives, element by element.
LEMMA RemoveAtElements ==
  ASSUME NEW S, NEW s \in Seq(S), NEW i \in 1 .. Len(s)
  PROVE  /\ RemoveAt(s, i) \in Seq(S) /\ Len(RemoveAt(s, i)) = Len(s) - 1
         /\ \A j \in 1 .. Len(s) - 1 : RemoveAt(s, i)[j] = IF j < i THEN s[j] ELSE s[j + 1]
<1> DEFINE front == SubSeq(s, 1, i - 1)
           back == SubSeq(s, i + 1, Len(s))
<1>1. Len(s) \in Nat /\ i \in Int
  OBVIOUS
<1>2. /\ front \in Seq(S) /\ Len(front) = i - 1
      /\ \A j \in 1 .. i - 1 : front[j] = s[j]
  <2>1. /\ front \in Seq(S) /\ Len(front) = i - 1 - 1 + 1
        /\ \A j \in 1 .. i - 1 - 1 + 1 : front[j] = s[1 + j - 1]
    BY <1>1, Slice
  <2> HIDE DEF front
  <2> QED
    BY <1>1, <2>1
<1>3. /\ back \in Seq(S) /\ Len(back) = Len(s) - i
      /\ \A j \in 1 .. Len(s) - i : back[j] = s[j + i]
  <2>1. /\ back \in Seq(S) /\ Len(back) = Len(s) - (i + 1) + 1
        /\ \A j \in 1 .. Len(s) - (i + 1) + 1 : back[j] = s[(i + 1) + j - 1]
    BY <1>1, Slice
  <2> HIDE DEF back
  <2> QED
    BY <1>1, <2>1
<1>4. RemoveAt(s, i) = front \o back
  BY DEF RemoveAt
<1> HIDE DEF front, back
<1>5. /\ front \o back \in Seq(S) /\ Len(front \o back) = Len(front) + Len(back)
      /\ \A j \in 1 .. Len(front) + Len(back) :
           (front \o back)[j] = IF j <= Len(front) THEN front[j] ELSE back[j - Len(front)]
  BY <1>2, <1>3, ConcatProperties
<1>6. Len(front) + Len(back) = Len(s) - 1
  BY <1>1, <1>2, <1>3
<1>7. ASSUME NEW j \in 1 .. Len(s) - 1
      PROVE  (front \o back)[j] = IF j < i THEN s[j] ELSE s[j + 1]
  <2>1. CASE j < i
    <3>1. j \in 1 .. i - 1 /\ j <= Len(front)
      BY <1>1, <1>2, <2>1
    <3> QED
      BY <1>2, <1>5, <1>6, <2>1, <3>1
  <2>2. CASE ~(j < i)
    <3>1. ~(j <= Len(front)) /\ j - Len(front) \in 1 .. Len(s) - i /\ j - Len(front) + i = j + 1
      BY <1>1, <1>2, <2>2
    <3> QED
      BY <1>3, <1>5, <1>6, <2>2, <3>1
  <2> QED
    BY <2>1, <2>2
<1> QED
  BY <1>4, <1>5, <1>6, <1>7

\* Nothing but the element itself is left out.
LEMMA RemoveAtLeaves ==
  ASSUME NEW S, NEW s \in Seq(S), NEW i \in 1 .. Len(s)
  PROVE  /\ RemoveAt(s, i) \in Seq(S)
         /\ ToSet(RemoveAt(s, i)) \subseteq ToSet(s)
         /\ ToSet(s) \subseteq ToSet(RemoveAt(s, i)) \cup {s[i]}
<1> DEFINE r == RemoveAt(s, i)
<1>1. /\ r \in Seq(S) /\ Len(r) = Len(s) - 1 /\ Len(s) \in Nat
      /\ \A j \in 1 .. Len(s) - 1 : r[j] = IF j < i THEN s[j] ELSE s[j + 1]
  <2>1. Len(s) \in Nat
    OBVIOUS
  <2> QED
    BY <2>1, RemoveAtElements
<1> HIDE DEF r
<1>2. DOMAIN r = 1 .. Len(s) - 1 /\ DOMAIN s = 1 .. Len(s)
  BY <1>1
<1>3. ASSUME NEW j \in DOMAIN r
      PROVE  r[j] \in ToSet(s)
  <2>1. j \in 1 .. Len(s) /\ j + 1 \in 1 .. Len(s)
    BY <1>1, <1>2
  <2> QED
    BY <1>1, <1>2, <2>1 DEF ToSet
<1>4. ASSUME NEW j \in 1 .. Len(s), j # i
      PROVE  \E k \in DOMAIN r : r[k] = s[j]
  <2>1. CASE j < i
    <3>1. j \in DOMAIN r
      BY <1>1, <1>2, <2>1
    <3> QED
      BY <1>1, <1>2, <2>1, <3>1
  <2>2. CASE ~(j < i)
    <3>1. j - 1 \in DOMAIN r /\ ~(j - 1 < i) /\ j - 1 + 1 = j
      BY <1>1, <1>2, <1>4, <2>2
    <3> QED
      BY <1>1, <1>2, <3>1
  <2> QED
    BY <2>1, <2>2
<1>5. ToSet(r) \subseteq ToSet(s)
  BY <1>3 DEF ToSet
<1>6. ToSet(s) \subseteq ToSet(r) \cup {s[i]}
  BY <1>2, <1>4 DEF ToSet
<1> QED
  BY <1>1, <1>5, <1>6 DEF r

LEMMA AppendAdds ==
  ASSUME NEW S, NEW s \in Seq(S), NEW x \in S
  PROVE  /\ Append(s, x) \in Seq(S)
         /\ ToSet(Append(s, x)) = ToSet(s) \cup {x}
<1>1. Append(s, x) \in Seq(S) /\ Len(Append(s, x)) = Len(s) + 1 /\ Len(s) \in Nat
  OBVIOUS
<1>2. DOMAIN Append(s, x) = 1 .. Len(s) + 1 /\ DOMAIN s = 1 .. Len(s)
  BY <1>1
<1>3. \A j \in 1 .. Len(s) : Append(s, x)[j] = s[j]
  OBVIOUS
<1>4. Append(s, x)[Len(s) + 1] = x
  OBVIOUS
<1>5. 1 .. Len(s) + 1 = (1 .. Len(s)) \cup {Len(s) + 1}
  BY <1>1
<1> HIDE <1>1
<1>6. ToSet(Append(s, x)) = {Append(s, x)[j] : j \in (1 .. Len(s)) \cup {Len(s) + 1}}
  BY <1>2, <1>5 DEF ToSet
<1> QED
  BY <1>1, <1>2, <1>3, <1>4, <1>6 DEF ToSet

\* One element is replaced by another.
LEMMA ReplaceAtKeeps ==
  ASSUME NEW S, NEW s \in Seq(S), NEW i \in 1 .. Len(s), NEW x \in S
  PROVE  /\ [s EXCEPT ![i] = x] \in Seq(S)
         /\ ToSet([s EXCEPT ![i] = x]) \subseteq ToSet(s) \cup {x}
<1>1. [s EXCEPT ![i] = x] \in Seq(S)
  OBVIOUS
<1>2. DOMAIN [s EXCEPT ![i] = x] = DOMAIN s
  OBVIOUS
<1>3. \A j \in DOMAIN s : [s EXCEPT ![i] = x][j] = x \/ [s EXCEPT ![i] = x][j] = s[j]
  OBVIOUS
<1> QED
  BY <1>1, <1>2, <1>3 DEF ToSet

-----------------------------------------------------------------------------
\* The full-state digest.

\* Whoever has access now had it when the digest read the first list, or has been
\* granted it since.
AccessCovered ==
  /\ IsSequence(access)
  /\ \A d \in digest :
       /\ d = [project |-> d.project, found |-> d.found, granted |-> d.granted]
       /\ ListAllWithAccess(d.project) \ d.granted \subseteq d.found

LEMMA CoveredInit == Init => AccessCovered
<1> SUFFICES ASSUME Init PROVE AccessCovered
  OBVIOUS
<1>1. access = <<>> /\ digest = {}
  BY DEF Init, ListingInit
<1>2. IsSequence(access)
  BY <1>1 DEF IsSequence
<1> QED
  BY <1>1, <1>2 DEF AccessCovered

\* Neither the list of those with access nor the digest changes.
LEMMA CoveredQuiet ==
  ASSUME AccessCovered, UNCHANGED <<access, digest>>
  PROVE  AccessCovered'
BY DEF AccessCovered, ListAllWithAccess

LEMMA CoveredGrant ==
  ASSUME AccessCovered, NEW a, Grant(a)
  PROVE  AccessCovered'
<1>1. IsSequence(Without(access, a)) /\ ToSet(Without(access, a)) \subseteq ToSet(access)
  BY WithoutKeeps DEF AccessCovered
<1>2. PICK i \in 1 .. Len(Without(access, a)) + 1 : access' = InsertAt(Without(access, a), i, a)
  BY DEF Grant
<1>3. IsSequence(access') /\ ToSet(access') \subseteq ToSet(access) \cup {a}
  BY <1>1, <1>2, InsertAtAdds
<1>4. ASSUME NEW d \in digest'
      PROVE  /\ d = [project |-> d.project, found |-> d.found, granted |-> d.granted]
             /\ ListAllWithAccess(d.project)' \ d.granted \subseteq d.found
  <2>1. PICK c \in digest : d = [c EXCEPT !.granted = @ \cup {a}]
    BY <1>4 DEF Grant, Granting
  <2>2. /\ c = [project |-> c.project, found |-> c.found, granted |-> c.granted]
        /\ ListAllWithAccess(c.project) \ c.granted \subseteq c.found
    BY DEF AccessCovered
  <2>3. d = [project |-> c.project, found |-> c.found, granted |-> c.granted \cup {a}]
    BY <2>1, <2>2
  <2>4. ListAllWithAccess(c.project)' \subseteq ListAllWithAccess(c.project) \cup {a}
    BY <1>3 DEF ListAllWithAccess
  <2> QED
    BY <2>2, <2>3, <2>4
<1> QED
  BY <1>3, <1>4 DEF AccessCovered

LEMMA CoveredRevoke ==
  ASSUME AccessCovered, NEW a, Revoke(a)
  PROVE  AccessCovered'
<1>1. IsSequence(access') /\ ToSet(access') \subseteq ToSet(access)
  BY WithoutKeeps DEF AccessCovered, Revoke
<1> QED
  BY <1>1 DEF AccessCovered, Revoke, ListAllWithAccess

LEMMA CoveredRead ==
  ASSUME AccessCovered, NEW p, ReadAccess(p)
  PROVE  AccessCovered'
<1>1. access' = access
  BY DEF ReadAccess, lists
<1> QED
  BY <1>1 DEF AccessCovered, ReadAccess, ListAllWithAccess

\* The digest has been sent, or has failed.
LEMMA CoveredEnd ==
  ASSUME AccessCovered, access' = access, digest' = {}
  PROVE  AccessCovered'
BY DEF AccessCovered

LEMMA CoveredNext == AccessCovered /\ [Next]_vars => AccessCovered'
<1> SUFFICES ASSUME AccessCovered, [Next]_vars PROVE AccessCovered'
  OBVIOUS
<1>1. CASE \E t \in Tabs, i \in 1 .. MaxLoads :
             i <= Len(pending[t]) /\ (Arrive(t, i) \/ LoadFails(t, i))
  BY <1>1, CoveredQuiet DEF Arrive, LoadFails, Elsewhere
<1>3. CASE \/ \E t \in Tabs : SetTab(t) \/ \E s \in Searches : Search(t, s)
           \/ \E p \in Filters : ChangeProject(p)
           \/ \E l \in Limits : ChangeLimit(l)
           \/ PrevPage \/ NextPage
  <2>1. Move
    BY <1>3 DEF SetTab, Search, ChangeProject, ChangeLimit, Filter, PrevPage, NextPage, Turn
  <2> QED
    BY <2>1, CoveredQuiet DEF Move, Elsewhere
<1>4. CASE \/ PromptRevoke \/ PromptGrant \/ PromptDelete \/ PromptSendDigest
           \/ CloseModal \/ Confirm
  <2>1. Click
    BY <1>4 DEF PromptRevoke, PromptGrant, PromptDelete, PromptSendDigest, Open, CloseModal, Confirm
  <2> QED
    BY <2>1, CoveredQuiet DEF Click, Elsewhere
<1>5. CASE \E i \in 1 .. MaxPosts :
             /\ i <= Len(posts)
             /\ Completed(i) \/ Refused(i) \/ Handle(i) \/ HandleSendDigest(i) \/ Fails(i)
  <2> PICK i \in 1 .. MaxPosts :
             Completed(i) \/ Refused(i) \/ Handle(i) \/ HandleSendDigest(i) \/ Fails(i)
    BY <1>5
  <2>1. CASE Completed(i) \/ Refused(i)
    BY <2>1, CoveredQuiet DEF Completed, Refused, Elsewhere
  <2>2. CASE Handle(i)
    <3>1. \/ \E a : Grant(a) \/ Revoke(a)
          \/ UNCHANGED <<access, digest>>
      BY <2>2 DEF Handle, DeleteEntry, lists
    <3> QED
      BY <3>1, CoveredGrant, CoveredRevoke, CoveredQuiet
  <2>3. CASE HandleSendDigest(i)
    <3>1. \/ \E p : ReadAccess(p)
          \/ access' = access /\ digest' = {}
          \/ UNCHANGED <<access, digest>>
      BY <2>3 DEF HandleSendDigest, ReadWaitlist, lists
    <3> QED
      BY <3>1, CoveredRead, CoveredEnd, CoveredQuiet
  <2>4. CASE Fails(i)
    <3>1. access' = access /\ (digest' = {} \/ digest' = digest)
      BY <2>4 DEF Fails, lists
    <3> QED
      BY <3>1, CoveredEnd, CoveredQuiet
  <2> QED
    BY <2>1, <2>2, <2>3, <2>4
<1>6. CASE Others
  <2>1. PICK a \in Accounts : SignUp(a) \/ Grant(a) \/ Revoke(a) \/ DeleteEntry(a)
    BY <1>6 DEF Others
  <2> QED
    BY <2>1, CoveredGrant, CoveredRevoke, CoveredQuiet DEF SignUp, DeleteEntry
<1>7. CASE UNCHANGED vars
  BY <1>7, CoveredQuiet DEF vars
<1> QED
  BY <1>1, <1>3, <1>4, <1>5, <1>6, <1>7 DEF Next

\* Whatever sign-ups, grants, revocations and removals come between the two reads of
\* handleSendDigest, and however many there are, the digest lists everybody who is on
\* a list at the second read, save those who were granted access in between.
THEOREM FullStateIsComplete == Spec => []FullStateComplete
<1>1. AccessCovered => FullStateComplete
  BY DEF AccessCovered, FullStateComplete, FullState, Listed, ListAllWithAccess, ListAllJoined
<1> QED
  BY <1>1, CoveredInit, CoveredNext, PTL DEF Spec

-----------------------------------------------------------------------------
\* The types.

AtMostOne(S) == \A x, y \in S : x = y

\* A digest asks for a project, everything else for a row.
Fits(kind, y) == y \in (IF kind = "digest" THEN Filters ELSE TableRows)

DigestRecords == [project : Projects, found : SUBSET Accounts, granted : SUBSET Accounts]
Requests == [query : Queries, newest : BOOLEAN]
DialogRecords == [kind : Kinds, named : Named, n : 1 .. MaxDialogs]
PostRecords == [kind : Kinds, n : 1 .. MaxDialogs, target : Targets,
                at : {"sent", "reading", "ok", "error"}]
FittingDialogs == {m \in DialogRecords : Fits(m.kind, m.named)}
FittingPosts == {x \in PostRecords : Fits(x.kind, x.target)}

ListsTyped ==
  /\ waiting \in Seq(Accounts) /\ access \in Seq(Accounts)
  /\ IsInjective(waiting) /\ IsInjective(access)
  /\ entry \in [Accounts -> 0 .. MaxEntries]
  /\ digest \subseteq DigestRecords /\ AtMostOne(digest)
PageTyped ==
  /\ tab \in Tabs /\ project \in Filters
  /\ list \in [Tabs -> [search : Searches, limit : Limits, offset : Nat]]
  /\ moves \in 0 .. MaxMoves
TablesTyped ==
  /\ table \in [Tabs -> [query : Queries, rows : SUBSET TableRows, prev : BOOLEAN, next : BOOLEAN]]
  /\ late \in [Tabs -> BOOLEAN]
PendingTyped == pending \in [Tabs -> Seq(Requests)]
DialogsTyped ==
  /\ modal \subseteq FittingDialogs /\ AtMostOne(modal)
  /\ dialogs \in 0 .. MaxDialogs /\ hasty \in BOOLEAN
PostsTyped == posts \in Seq(FittingPosts)
UiTyped ==
  /\ ListsTyped /\ PageTyped /\ TablesTyped /\ PendingTyped /\ DialogsTyped /\ PostsTyped
  /\ others \in 0 .. MaxOthers

LEMMA OneAtMost ==
  ASSUME NEW S, AtMostOne(S)
  PROVE  Cardinality(S) <= 1
<1>1. CASE S = {}
  BY <1>1, FS_EmptySet
<1>2. CASE S # {}
  <2>1. PICK x : x \in S
    BY <1>2
  <2>2. S = {x}
    BY <2>1 DEF AtMostOne
  <2>3. Cardinality({x}) = 1
    BY FS_Singleton
  <2> QED
    BY <2>2, <2>3
<1> QED
  BY <1>1, <1>2

LEMMA UiTypes == UiTyped => TypeOK
<1> SUFFICES ASSUME UiTyped PROVE TypeOK
  OBVIOUS
<1>1. ListingTypeOK
  BY OneAtMost DEF UiTyped, ListsTyped, ListingTypeOK, DigestRecords
<1>2. modal \subseteq DialogRecords /\ Cardinality(modal) <= 1
  BY OneAtMost DEF UiTyped, DialogsTyped, FittingDialogs
<1>3. posts \in Seq(PostRecords)
  <2>1. FittingPosts \subseteq PostRecords
    BY DEF FittingPosts
  <2>2. posts \in Seq(FittingPosts)
    BY DEF UiTyped, PostsTyped
  <2> HIDE DEF FittingPosts, PostRecords
  <2> QED
    BY <2>1, <2>2
<1> QED
  BY <1>1, <1>2, <1>3
  DEF UiTyped, PageTyped, TablesTyped, PendingTyped, DialogsTyped, Requests, DialogRecords,
      PostRecords, TypeOK

LEMMA UiTypedInit == Init => UiTyped
<1> SUFFICES ASSUME Init PROVE UiTyped
  OBVIOUS
<1>1. ListsTyped
  BY ListingAssumption DEF Init, ListingInit, ListsTyped, IsInjective, AtMostOne
<1>2. PageTyped
  BY AdminUiAssumption DEF Init, PageTyped, Filters
<1> DEFINE asked == [project |-> AllProjects, search |-> Accounts, limit |-> DefaultLimit, offset |-> 0]
<1>3. Blank \in Queries /\ asked \in Queries
  BY AdminUiAssumption DEF Blank, Queries, Filters
<1>4. TablesTyped
  BY <1>3 DEF Init, TablesTyped
<1>5. PendingTyped
  <2> DEFINE request == [query |-> asked, newest |-> TRUE]
  <2>1. request \in Requests
    BY <1>3 DEF Requests
  <2>2. pending = [t \in Tabs |-> IF t # tab THEN <<>> ELSE <<request>>]
    BY DEF Init
  <2> HIDE DEF request, Requests
  <2> QED
    BY <2>1, <2>2 DEF PendingTyped
<1>6. DialogsTyped /\ PostsTyped
  <2>1. modal = {} /\ posts = <<>> /\ dialogs = 0 /\ hasty = FALSE
    BY DEF Init
  <2>2. DialogsTyped
    <3>1. AtMostOne(modal) /\ modal \subseteq FittingDialogs
      BY <2>1 DEF AtMostOne
    <3>2. dialogs \in 0 .. MaxDialogs
      BY <2>1, AdminUiAssumption
    <3>3. hasty \in BOOLEAN
      BY <2>1
    <3> QED
      BY <3>1, <3>2, <3>3 DEF DialogsTyped
  <2>3. <<>> \in Seq(FittingPosts)
    OBVIOUS
  <2> QED
    BY <2>1, <2>2, <2>3 DEF PostsTyped
<1> QED
  BY <1>1, <1>2, <1>4, <1>5, <1>6, AdminUiAssumption DEF UiTyped, Init

\* A list names an account at most once, also after one was taken off or put on it.
LEMMA WithoutOnce ==
  ASSUME NEW s \in Seq(Accounts), IsInjective(s), NEW a
  PROVE  /\ Without(s, a) \in Seq(Accounts) /\ IsInjective(Without(s, a))
         /\ ToSet(Without(s, a)) \subseteq ToSet(s) \ {a}
<1>1. CASE a \notin ToSet(s)
  BY <1>1 DEF Without
<1>2. CASE a \in ToSet(s)
  <2> DEFINE i == CHOOSE j \in DOMAIN s : s[j] = a
             r == RemoveAt(s, i)
  <2>1. i \in DOMAIN s /\ s[i] = a
    BY <1>2 DEF ToSet
  <2>2. Without(s, a) = r
    BY <1>2 DEF Without
  <2> HIDE DEF i
  <2>3. Len(s) \in Nat /\ DOMAIN s = 1 .. Len(s)
    OBVIOUS
  <2>4. /\ r \in Seq(Accounts) /\ Len(r) = Len(s) - 1
        /\ \A j \in 1 .. Len(s) - 1 : r[j] = IF j < i THEN s[j] ELSE s[j + 1]
    BY <2>1, <2>3, RemoveAtElements
  <2> HIDE DEF r
  <2>5. DOMAIN r = 1 .. Len(s) - 1
    BY <2>3, <2>4
  <2> DEFINE From(j) == IF j < i THEN j ELSE j + 1
  <2>6. \A j \in DOMAIN r : From(j) \in DOMAIN s /\ From(j) # i /\ r[j] = s[From(j)]
    BY <2>1, <2>3, <2>4, <2>5
  <2>7. \A j, k \in DOMAIN r : From(j) = From(k) => j = k
    BY <2>1, <2>3, <2>5
  <2> HIDE DEF From
  <2>8. IsInjective(r)
    BY <2>6, <2>7 DEF IsInjective
  <2>9. ToSet(r) \subseteq ToSet(s) \ {a}
    BY <2>1, <2>6 DEF ToSet, IsInjective
  <2> QED
    BY <2>2, <2>4, <2>8, <2>9
<1> QED
  BY <1>1, <1>2

LEMMA InsertAtOnce ==
  ASSUME NEW s \in Seq(Accounts), IsInjective(s), NEW a \in Accounts, a \notin ToSet(s),
         NEW i \in 1 .. Len(s) + 1
  PROVE  /\ InsertAt(s, i, a) \in Seq(Accounts) /\ IsInjective(InsertAt(s, i, a))
         /\ ToSet(InsertAt(s, i, a)) \subseteq ToSet(s) \cup {a}
<1> DEFINE front == SubSeq(s, 1, i - 1)
           back == SubSeq(s, i, Len(s))
           middle == <<a>>
<1>1. Len(s) \in Nat /\ i \in Int
  OBVIOUS
<1>2. /\ front \in Seq(Accounts) /\ Len(front) = i - 1
      /\ \A j \in 1 .. i - 1 : front[j] = s[j]
  <2>1. /\ front \in Seq(Accounts) /\ Len(front) = i - 1 - 1 + 1
        /\ \A j \in 1 .. i - 1 - 1 + 1 : front[j] = s[1 + j - 1]
    BY <1>1, Slice
  <2> HIDE DEF front
  <2> QED
    BY <1>1, <2>1
<1>3. /\ back \in Seq(Accounts) /\ Len(back) = Len(s) - i + 1
      /\ \A j \in 1 .. Len(s) - i + 1 : back[j] = s[j + i - 1]
  <2>1. /\ back \in Seq(Accounts) /\ Len(back) = Len(s) - i + 1
        /\ \A j \in 1 .. Len(s) - i + 1 : back[j] = s[i + j - 1]
    BY <1>1, Slice
  <2> HIDE DEF back
  <2> QED
    BY <1>1, <2>1
<1>4. middle \in Seq(Accounts) /\ Len(middle) = 1 /\ middle[1] = a
  OBVIOUS
<1>5. InsertAt(s, i, a) = (front \o middle) \o back
  BY DEF InsertAt
<1> HIDE DEF front, middle, back
<1>6. /\ front \o middle \in Seq(Accounts) /\ Len(front \o middle) = i
      /\ \A j \in 1 .. i : (front \o middle)[j] = IF j < i THEN s[j] ELSE a
  <2>1. /\ front \o middle \in Seq(Accounts) /\ Len(front \o middle) = Len(front) + Len(middle)
        /\ \A j \in 1 .. Len(front) + Len(middle) :
             (front \o middle)[j] = IF j <= Len(front) THEN front[j] ELSE middle[j - Len(front)]
    BY <1>2, <1>4, ConcatProperties
  <2>2. Len(front) + Len(middle) = i
    BY <1>2, <1>4
  <2>3. ASSUME NEW j \in 1 .. i
        PROVE  (front \o middle)[j] = IF j < i THEN s[j] ELSE a
    <3>1. CASE j < i
      <4>1. j \in 1 .. i - 1 /\ j <= Len(front)
        BY <1>1, <1>2, <3>1
      <4> QED
        BY <1>2, <2>1, <2>2, <3>1, <4>1
    <3>2. CASE ~(j < i)
      <4>1. ~(j <= Len(front)) /\ j - Len(front) = 1
        BY <1>1, <1>2, <3>2
      <4> QED
        BY <1>4, <2>1, <2>2, <3>2, <4>1
    <3> QED
      BY <3>1, <3>2
  <2> QED
    BY <2>1, <2>2, <2>3
<1> DEFINE start == front \o middle
<1> HIDE DEF start
<1>7. /\ start \o back \in Seq(Accounts) /\ Len(start \o back) = Len(start) + Len(back)
      /\ \A j \in 1 .. Len(start) + Len(back) :
           (start \o back)[j] = IF j <= Len(start) THEN start[j] ELSE back[j - Len(start)]
  <2>1. start \in Seq(Accounts)
    BY <1>6 DEF start
  <2> QED
    BY <1>3, <2>1, ConcatProperties
<1>8. /\ Len(start) = i
      /\ \A j \in 1 .. i : start[j] = IF j < i THEN s[j] ELSE a
  BY <1>6 DEF start
<1>9. Len(start) + Len(back) = Len(s) + 1
  BY <1>1, <1>3, <1>8
<1>10. ASSUME NEW j \in 1 .. Len(s) + 1
       PROVE  /\ j < i => (start \o back)[j] = s[j]
              /\ j = i => (start \o back)[j] = a
              /\ j > i => (start \o back)[j] = s[j - 1]
  <2>1. CASE j <= i
    <3>1. j \in 1 .. i
      BY <1>1, <2>1
    <3> QED
      BY <1>1, <1>7, <1>8, <1>9, <2>1, <3>1
  <2>2. CASE ~(j <= i)
    <3>1. ~(j < i) /\ j # i /\ j - i \in 1 .. Len(s) - i + 1 /\ j - i + i - 1 = j - 1
      BY <1>1, <2>2
    <3> QED
      BY <1>3, <1>7, <1>8, <1>9, <2>2, <3>1
  <2> QED
    BY <2>1, <2>2
<1> DEFINE r == start \o back
<1>11. /\ InsertAt(s, i, a) = r /\ r \in Seq(Accounts) /\ Len(r) = Len(s) + 1
       /\ \A j \in 1 .. Len(s) + 1 :
            /\ j < i => r[j] = s[j]
            /\ j = i => r[j] = a
            /\ j > i => r[j] = s[j - 1]
  BY <1>5, <1>7, <1>9, <1>10 DEF start
<1> HIDE DEF r
<1>12. DOMAIN s = 1 .. Len(s) /\ DOMAIN r = 1 .. Len(s) + 1
  BY <1>1, <1>11
<1> DEFINE From(j) == IF j < i THEN j ELSE j - 1
<1>13. \A j \in DOMAIN r : j # i => From(j) \in DOMAIN s /\ r[j] = s[From(j)]
  BY <1>1, <1>11, <1>12
<1>14. \A j, k \in DOMAIN r : j # i /\ k # i /\ From(j) = From(k) => j = k
  BY <1>1, <1>12
<1>15. i \in DOMAIN r => r[i] = a
  BY <1>1, <1>11, <1>12
<1> HIDE DEF From
<1>16. \A j \in DOMAIN r : j # i => r[j] \in ToSet(s)
  BY <1>13 DEF ToSet
<1>17. IsInjective(r)
  BY <1>13, <1>14, <1>15, <1>16 DEF IsInjective
<1>18. ToSet(r) \subseteq ToSet(s) \cup {a}
  BY <1>15, <1>16 DEF ToSet
<1> QED
  BY <1>11, <1>17, <1>18

\* What a step can do to the lists and to the digest under way.
ListsChange ==
  \/ UNCHANGED <<lists, digest>>
  \/ \E a \in Accounts : SignUp(a) \/ Grant(a) \/ Revoke(a) \/ DeleteEntry(a)
  \/ \E p \in Projects : ReadAccess(p)
  \/ UNCHANGED lists /\ digest' = {}

LEMMA PostAt ==
  ASSUME PostsTyped, NEW i \in Nat \ {0}, i <= Len(posts)
  PROVE  /\ i \in 1 .. Len(posts) /\ posts[i] \in FittingPosts
         /\ posts[i].kind = "digest" => posts[i].target \in Filters
         /\ posts[i].kind # "digest" => posts[i].target.who \in Accounts
<1>1. i \in 1 .. Len(posts)
  BY DEF PostsTyped
<1>2. posts[i] \in FittingPosts
  <2> HIDE DEF FittingPosts
  <2> QED
    BY <1>1 DEF PostsTyped
<1>3. Fits(posts[i].kind, posts[i].target)
  BY <1>2 DEF FittingPosts
<1> QED
  BY <1>1, <1>2, <1>3 DEF Fits, TableRows

LEMMA ListsChanges ==
  ASSUME PostsTyped, [Next]_vars
  PROVE  ListsChange
<1>1. CASE \/ \E t \in Tabs, i \in 1 .. MaxLoads :
                i <= Len(pending[t]) /\ (Arrive(t, i) \/ LoadFails(t, i))
  BY <1>1 DEF Arrive, LoadFails, Elsewhere, ListsChange, lists
<1>2. CASE \/ \E t \in Tabs : SetTab(t) \/ \E s \in Searches : Search(t, s)
           \/ \E p \in Filters : ChangeProject(p)
           \/ \E l \in Limits : ChangeLimit(l)
           \/ PrevPage \/ NextPage
  <2>1. Move
    BY <1>2 DEF SetTab, Search, ChangeProject, ChangeLimit, Filter, PrevPage, NextPage, Turn
  <2> QED
    BY <2>1 DEF Move, Elsewhere, ListsChange, lists
<1>3. CASE \/ PromptRevoke \/ PromptGrant \/ PromptDelete \/ PromptSendDigest
           \/ CloseModal \/ Confirm
  <2>1. Click
    BY <1>3 DEF PromptRevoke, PromptGrant, PromptDelete, PromptSendDigest, Open, CloseModal, Confirm
  <2> QED
    BY <2>1 DEF Click, Elsewhere, ListsChange, lists
<1>4. CASE \E i \in 1 .. MaxPosts :
             /\ i <= Len(posts)
             /\ Completed(i) \/ Refused(i) \/ Handle(i) \/ HandleSendDigest(i) \/ Fails(i)
  <2> PICK i \in 1 .. MaxPosts :
             /\ i <= Len(posts)
             /\ Completed(i) \/ Refused(i) \/ Handle(i) \/ HandleSendDigest(i) \/ Fails(i)
    BY <1>4
  <2>1. /\ posts[i].kind = "digest" => posts[i].target \in Filters
        /\ posts[i].kind # "digest" => posts[i].target.who \in Accounts
    BY PostAt
  <2>2. CASE Completed(i) \/ Refused(i)
    BY <2>2 DEF Completed, Refused, Elsewhere, ListsChange, lists
  <2>3. CASE Handle(i)
    <3>1. posts[i].kind # "digest"
      BY <2>3 DEF Handle
    <3>2. \/ \E a \in Accounts : Grant(a) \/ Revoke(a) \/ DeleteEntry(a)
          \/ UNCHANGED <<lists, digest>>
      BY <2>1, <2>3, <3>1 DEF Handle
    <3> QED
      BY <3>2 DEF ListsChange
  <2>4. CASE HandleSendDigest(i)
    <3>1. posts[i].target # AllProjects => posts[i].target \in Projects
      BY <2>1, <2>4 DEF HandleSendDigest, Filters
    <3> QED
      BY <2>4, <3>1 DEF HandleSendDigest, ReadWaitlist, ListsChange
  <2>5. CASE Fails(i)
    BY <2>5 DEF Fails, ListsChange
  <2> QED
    BY <2>2, <2>3, <2>4, <2>5
<1>5. CASE Others
  BY <1>5 DEF Others, ListsChange
<1>6. CASE UNCHANGED vars
  BY <1>6 DEF vars, ListsChange, lists
<1> QED
  BY <1>1, <1>2, <1>3, <1>4, <1>5, <1>6 DEF Next

\* Somebody who has access now, or had it in the past, is granted it.
LEMMA ListsTypedGrant ==
  ASSUME ListsTyped, NEW a \in Accounts, Grant(a)
  PROVE  ListsTyped'
<1>1. /\ Without(waiting, a) \in Seq(Accounts) /\ IsInjective(Without(waiting, a))
      /\ Without(access, a) \in Seq(Accounts) /\ IsInjective(Without(access, a))
      /\ a \notin ToSet(Without(access, a))
  BY WithoutOnce DEF ListsTyped
<1>2. waiting' \in Seq(Accounts) /\ IsInjective(waiting')
  BY <1>1 DEF Grant
<1>3. PICK i \in 1 .. Len(Without(access, a)) + 1 : access' = InsertAt(Without(access, a), i, a)
  BY DEF Grant
<1>4. access' \in Seq(Accounts) /\ IsInjective(access')
  BY <1>1, <1>3, InsertAtOnce
<1>5. digest' \subseteq DigestRecords
  <2>1. ASSUME NEW d \in DigestRecords
        PROVE  [d EXCEPT !.granted = @ \cup {a}] \in DigestRecords
    <3>1. d.granted \cup {a} \in SUBSET Accounts
      BY DEF DigestRecords
    <3> QED
      BY <3>1 DEF DigestRecords
  <2> HIDE DEF DigestRecords
  <2> QED
    BY <2>1 DEF Grant, Granting, ListsTyped
<1>6. AtMostOne(digest')
  BY DEF Grant, Granting, ListsTyped, AtMostOne
<1> QED
  BY <1>2, <1>4, <1>5, <1>6 DEF Grant, ListsTyped, AtMostOne

LEMMA ListsTypedSignUp ==
  ASSUME ListsTyped, NEW a \in Accounts, SignUp(a)
  PROVE  ListsTyped'
<1>1. PICK i \in 1 .. Len(waiting) + 1 : waiting' = InsertAt(waiting, i, a)
  BY DEF SignUp
<1>2. waiting' \in Seq(Accounts) /\ IsInjective(waiting')
  BY <1>1, InsertAtOnce DEF ListsTyped, SignUp
<1>3. entry' \in [Accounts -> 0 .. MaxEntries]
  BY ListingAssumption DEF ListsTyped, SignUp
<1> QED
  BY <1>2, <1>3 DEF SignUp, ListsTyped, AtMostOne

LEMMA ListsTypedNext ==
  ASSUME ListsTyped, ListsChange
  PROVE  ListsTyped'
<1>1. CASE UNCHANGED <<lists, digest>>
  BY <1>1 DEF ListsTyped, lists, AtMostOne
<1>2. ASSUME NEW a \in Accounts, Revoke(a) \/ DeleteEntry(a)
      PROVE  ListsTyped'
  <2>1. /\ Without(waiting, a) \in Seq(Accounts) /\ IsInjective(Without(waiting, a))
        /\ Without(access, a) \in Seq(Accounts) /\ IsInjective(Without(access, a))
    BY WithoutOnce DEF ListsTyped
  <2> QED
    BY <1>2, <2>1 DEF Revoke, DeleteEntry, ListsTyped, AtMostOne
<1>3. ASSUME NEW p \in Projects, ReadAccess(p)
      PROVE  ListsTyped'
  <2>1. ToSet(access) \subseteq Accounts
    BY SequenceOfItself DEF ListsTyped
  <2>2. ListAllWithAccess(p) \in SUBSET Accounts
    BY <2>1 DEF ListAllWithAccess
  <2>3. digest' \subseteq DigestRecords /\ AtMostOne(digest')
    BY <1>3, <2>2 DEF ReadAccess, DigestRecords, AtMostOne
  <2> QED
    BY <1>3, <2>3 DEF ReadAccess, ListsTyped, lists, AtMostOne
<1>4. CASE UNCHANGED lists /\ digest' = {}
  <2>1. digest' \subseteq DigestRecords /\ AtMostOne(digest')
    BY <1>4 DEF AtMostOne
  <2> QED
    BY <1>4, <2>1 DEF ListsTyped, lists, AtMostOne
<1> QED
  BY <1>1, <1>2, <1>3, <1>4, ListsTypedGrant, ListsTypedSignUp DEF ListsChange

\* Requests for a table: none changes, one is made, or one is over.
PendingChange ==
  \/ pending' = pending
  \/ \E t \in Tabs : Load(t)
  \/ \E t \in Tabs, i \in 1 .. MaxLoads :
       i <= Len(pending[t]) /\ pending' = [pending EXCEPT ![t] = RemoveAt(@, i)]

LEMMA PageTypedNext ==
  ASSUME PageTyped, [Next]_vars
  PROVE  PageTyped' /\ PendingChange
<1>1. ASSUME UNCHANGED <<page, moves, pending>>
      PROVE  PageTyped' /\ PendingChange
  BY <1>1 DEF PageTyped, page, PendingChange
<1>2. CASE \E t \in Tabs, i \in 1 .. MaxLoads :
             i <= Len(pending[t]) /\ (Arrive(t, i) \/ LoadFails(t, i))
  <2>1. UNCHANGED <<page, moves>>
    BY <1>2 DEF Arrive, LoadFails
  <2>2. PendingChange
    BY <1>2 DEF Arrive, LoadFails, PendingChange
  <2> QED
    BY <2>1, <2>2 DEF PageTyped, page
<1> DEFINE Lists == [Tabs -> [search : Searches, limit : Limits, offset : Nat]]
<1>4. ASSUME Move
      PROVE  moves' \in 0 .. MaxMoves
  BY <1>4, AdminUiAssumption DEF Move, PageTyped
<1>5. ASSUME NEW t \in Tabs, SetTab(t)
      PROVE  PageTyped' /\ PendingChange
  BY <1>4, <1>5 DEF SetTab, PageTyped, PendingChange
<1>6. ASSUME NEW p \in Filters, ChangeProject(p)
      PROVE  PageTyped' /\ PendingChange
  <2>1. tab' = tab /\ project' = p /\ Load(tab) /\ Move
        /\ list' = [t \in Tabs |-> [list[t] EXCEPT !.offset = 0]]
    BY <1>6 DEF ChangeProject
  <2>2. list' \in Lists
    BY <2>1 DEF PageTyped
  <2> QED
    BY <1>4, <2>1, <2>2 DEF PageTyped, PendingChange
<1>7. ASSUME NEW t \in Tabs, NEW search \in Searches, NEW limit \in Limits, Filter(t, search, limit)
      PROVE  PageTyped' /\ PendingChange
  <2>1. list' \in Lists
    BY <1>7 DEF Filter, PageTyped
  <2> QED
    BY <1>4, <1>7, <2>1 DEF Filter, PageTyped, PendingChange
<1>8. ASSUME NEW offset \in Nat, Turn(offset)
      PROVE  PageTyped' /\ PendingChange
  <2>1. list' \in Lists
    BY <1>8 DEF Turn, PageTyped
  <2> QED
    BY <1>4, <1>8, <2>1 DEF Turn, PageTyped, PendingChange
<1>9. list[tab].search \in Searches /\ list[tab].limit \in Nat /\ list[tab].offset \in Nat
      /\ \A t \in Tabs : list[t].limit \in Limits
  BY AdminUiAssumption DEF PageTyped
<1>10. CASE PrevPage \/ NextPage
  <2>1. ASSUME NEW n \in Int
        PROVE  Max({0, n}) \in Nat
    <3>1. Max({0, n}) \in {0, n} /\ \A y \in {0, n} : Max({0, n}) >= y
      <4>1. \E x \in {0, n} : \A y \in {0, n} : x >= y
        OBVIOUS
      <4> QED
        BY <4>1 DEF Max
    <3> QED
      BY <3>1
  <2>2. list[tab].offset + list[tab].limit \in Nat /\ list[tab].offset - list[tab].limit \in Int
    BY <1>9
  <2> QED
    BY <1>8, <1>10, <2>1, <2>2 DEF PrevPage, NextPage
<1>11. CASE \/ \E t \in Tabs, s \in Searches : Search(t, s)
            \/ \E l \in Limits : ChangeLimit(l)
  <2>1. tab \in Tabs
    BY DEF PageTyped
  <2> QED
    BY <1>7, <1>9, <1>11, <2>1 DEF Search, ChangeLimit
<1>12. CASE \/ PromptRevoke \/ PromptGrant \/ PromptDelete \/ PromptSendDigest
            \/ CloseModal \/ Confirm
  <2>1. Click
    BY <1>12 DEF PromptRevoke, PromptGrant, PromptDelete, PromptSendDigest, Open, CloseModal, Confirm
  <2> QED
    BY <1>1, <2>1 DEF Click
<1>13. CASE \E i \in 1 .. MaxPosts :
              /\ i <= Len(posts)
              /\ Completed(i) \/ Refused(i) \/ Handle(i) \/ HandleSendDigest(i) \/ Fails(i)
  <2> PICK i \in 1 .. MaxPosts :
              /\ i <= Len(posts)
              /\ Completed(i) \/ Refused(i) \/ Handle(i) \/ HandleSendDigest(i) \/ Fails(i)
    BY <1>13
  <2>1. CASE Completed(i)
    <3>1. UNCHANGED <<page, moves>>
      BY <2>1 DEF Completed
    <3>2. UNCHANGED pending \/ Load("access") \/ Load("waitlist")
      BY <2>1 DEF Completed
    <3>3. PendingChange
      BY <3>2 DEF PendingChange, Tabs
    <3> QED
      BY <3>1, <3>3 DEF PageTyped, page
  <2>2. CASE Refused(i) \/ Handle(i) \/ HandleSendDigest(i) \/ Fails(i)
    BY <1>1, <2>2 DEF Refused, Handle, HandleSendDigest, Fails, PageUnchanged
  <2> QED
    BY <2>1, <2>2
<1>14. CASE Others
  BY <1>1, <1>14 DEF Others, PageUnchanged
<1>15. CASE UNCHANGED vars
  BY <1>1, <1>15 DEF vars, page
<1> QED
  BY <1>2, <1>5, <1>6, <1>10, <1>11, <1>12, <1>13, <1>14, <1>15 DEF Next

LEMMA NotNewest ==
  ASSUME NEW r \in Requests
  PROVE  /\ [r EXCEPT !.newest = FALSE] \in Requests
         /\ ~[r EXCEPT !.newest = FALSE].newest
         /\ [r EXCEPT !.newest = FALSE].query = r.query
<1> HIDE DEF Queries
<1>1. [r EXCEPT !.newest = FALSE].newest = FALSE
  BY DEF Requests
<1> QED
  BY <1>1 DEF Requests

\* Requests that are superseded are the same requests, and none is the newest.
LEMMA SupersededKeeps ==
  ASSUME NEW s \in Seq(Requests)
  PROVE  /\ Superseded(s) \in Seq(Requests)
         /\ \A r \in ToSet(Superseded(s)) :
              ~r.newest /\ \E q \in ToSet(s) : r.query = q.query
<1> DEFINE z == Superseded(s)
<1>1. Len(s) \in Nat /\ DOMAIN s = 1 .. Len(s) /\ \A i \in DOMAIN s : s[i] \in Requests
  <2> HIDE DEF Requests
  <2> QED
    OBVIOUS
<1>2. DOMAIN z = 1 .. Len(s) /\ \A i \in DOMAIN z : z[i] = [s[i] EXCEPT !.newest = FALSE]
  BY <1>1 DEF Superseded
<1>3. z = [i \in 1 .. Len(s) |-> z[i]]
  BY <1>1 DEF Superseded
<1> HIDE DEF z
<1>4. ASSUME NEW i \in DOMAIN z
      PROVE  /\ z[i] \in Requests /\ ~z[i].newest
             /\ z[i].query = s[i].query
             /\ s[i] \in ToSet(s)
  <2>1. s[i] \in Requests /\ s[i] \in ToSet(s)
    BY <1>1, <1>2 DEF ToSet
  <2> HIDE DEF Requests
  <2> QED
    BY <1>2, <2>1, NotNewest
<1>5. z \in Seq(Requests)
  <2> HIDE DEF Requests
  <2>1. z \in [1 .. Len(s) -> Requests]
    BY <1>2, <1>3, <1>4
  <2> QED
    BY <1>1, <2>1, SeqDef
<1>6. \A r \in ToSet(z) :
        ~r.newest /\ \E q \in ToSet(s) : r.query = q.query
  BY <1>4 DEF ToSet
<1> QED
  BY <1>5, <1>6 DEF z

\* What a tab asks for, with the filters as they are.
Asked(t) == [project |-> project, search |-> list[t].search,
             limit |-> list[t].limit, offset |-> list[t].offset]

\* Starting a request: it is the newest of its tab and asks for what is chosen then.
LEMMA LoadStep ==
  ASSUME PendingTyped, PageTyped', NEW t \in Tabs, Load(t)
  PROVE  /\ PendingTyped'
         /\ \A u \in Tabs \ {t} : pending'[u] = pending[u]
         /\ \E r \in ToSet(pending'[t]) : r.newest /\ r.query = Asked(t)'
         /\ \A r \in ToSet(pending'[t]) :
              \/ r.newest /\ r.query = Asked(t)'
              \/ ~r.newest /\ \E q \in ToSet(pending[t]) : r.query = q.query
<1> DEFINE request == [query |-> Query(t), newest |-> TRUE]
           before == Superseded(pending[t])
<1>1. Query(t) = Asked(t)'
  BY DEF Query, Asked
<1>2. Asked(t)' \in Queries
  <2>1. project' \in Filters /\ list'[t] \in [search : Searches, limit : Limits, offset : Nat]
    BY DEF PageTyped
  <2> QED
    BY <2>1 DEF Asked, Queries
<1>3. request \in Requests /\ request.newest /\ request.query = Asked(t)'
  <2>1. Query(t) \in Queries
    BY <1>1, <1>2
  <2> HIDE DEF Queries, Query
  <2> QED
    BY <1>1, <2>1 DEF Requests
<1>4. pending[t] \in Seq(Requests)
  BY DEF PendingTyped
<1>5. /\ before \in Seq(Requests)
      /\ \A r \in ToSet(before) :
           ~r.newest /\ \E q \in ToSet(pending[t]) : r.query = q.query
  BY <1>4, SupersededKeeps
<1>6. pending' = [pending EXCEPT ![t] = Append(before, request)]
  BY DEF Load
<1> HIDE DEF request, before
<1>7. /\ Append(before, request) \in Seq(Requests)
      /\ ToSet(Append(before, request)) = ToSet(before) \cup {request}
  BY <1>3, <1>5, AppendAdds
<1>8. PendingTyped' /\ pending'[t] = Append(before, request)
  BY <1>6, <1>7 DEF PendingTyped
<1>9. \A u \in Tabs \ {t} : pending'[u] = pending[u]
  BY <1>6 DEF PendingTyped
<1> QED
  BY <1>3, <1>5, <1>7, <1>8, <1>9

\* A request is over.
LEMMA OverStep ==
  ASSUME PendingTyped, NEW t \in Tabs, NEW i \in Nat \ {0}, i <= Len(pending[t]),
         pending' = [pending EXCEPT ![t] = RemoveAt(@, i)]
  PROVE  /\ PendingTyped'
         /\ pending[t][i] \in ToSet(pending[t]) /\ pending[t][i] \in Requests
         /\ \A u \in Tabs \ {t} : pending'[u] = pending[u]
         /\ ToSet(pending'[t]) \subseteq ToSet(pending[t])
         /\ ToSet(pending[t]) \subseteq ToSet(pending'[t]) \cup {pending[t][i]}
<1> HIDE DEF Requests
<1>1. pending[t] \in Seq(Requests) /\ i \in 1 .. Len(pending[t])
  BY DEF PendingTyped
<1>2. /\ RemoveAt(pending[t], i) \in Seq(Requests)
      /\ ToSet(RemoveAt(pending[t], i)) \subseteq ToSet(pending[t])
      /\ ToSet(pending[t]) \subseteq ToSet(RemoveAt(pending[t], i)) \cup {pending[t][i]}
  BY <1>1, RemoveAtLeaves
<1>3. pending[t][i] \in Requests /\ i \in DOMAIN pending[t]
  BY <1>1
<1>4. pending[t][i] \in ToSet(pending[t])
  BY <1>3 DEF ToSet
<1> QED
  BY <1>2, <1>3, <1>4 DEF PendingTyped

LEMMA AnswerTyped ==
  ASSUME ListsTyped, NEW t \in Tabs, NEW q \in Queries
  PROVE  Answer(t, q) \in SUBSET TableRows
<1>1. /\ \A i \in DOMAIN access : access[i] \in Accounts
      /\ \A i \in DOMAIN waiting : waiting[i] \in Accounts
  BY DEF ListsTyped
<1>2. /\ ListWithAccess(q.project, q.search, q.limit, q.offset) \subseteq Accounts
      /\ ListJoined(q.project, q.search, q.limit, q.offset) \subseteq Accounts
  BY <1>1 DEF ListWithAccess, ListJoined, Page, Matching
<1>3. \A a \in Accounts : [who |-> a, entry |-> entry[a]] \in TableRows
  BY DEF ListsTyped, TableRows
<1> QED
  BY <1>2, <1>3 DEF Answer

LEMMA TablesTypedNext ==
  ASSUME ListsTyped, PageTyped, PendingTyped, TablesTyped, [Next]_vars
  PROVE  TablesTyped'
<1>1. ASSUME UNCHANGED <<table, late>>
      PROVE  TablesTyped'
  BY <1>1 DEF TablesTyped
<1> DEFINE Tables == [query : Queries, rows : SUBSET TableRows, prev : BOOLEAN, next : BOOLEAN]
<1>2. ASSUME NEW t \in Tabs, NEW i \in 1 .. MaxLoads, i <= Len(pending[t]),
             Arrive(t, i) \/ LoadFails(t, i)
      PROVE  TablesTyped'
  <2>1. pending[t][i] \in Requests
    <3> HIDE DEF Requests
    <3> QED
      BY <1>2 DEF PendingTyped
  <2>2. pending[t][i].query \in Queries /\ pending[t][i].newest \in BOOLEAN
    BY <2>1 DEF Requests
  <2>3. late' \in [Tabs -> BOOLEAN]
    <3>1. late' = [late EXCEPT ![t] = ~pending[t][i].newest]
          \/ late' = [late EXCEPT ![t] = @ \/ pending[t][i].newest]
      BY <1>2 DEF Arrive, LoadFails
    <3> QED
      BY <2>2, <3>1 DEF TablesTyped
  <2>4. CASE table' = table
    BY <2>3, <2>4 DEF TablesTyped
  <2>5. CASE Draw(t, pending[t][i].query)
    <3> DEFINE q == pending[t][i].query
               drawn == [query |-> q, rows |-> Answer(t, q), prev |-> list[t].offset > 0,
                         next |-> Cardinality(Answer(t, q)) >= list[t].limit]
    <3>1. Answer(t, q) \in SUBSET TableRows
      BY <2>2, AnswerTyped
    <3>2. (list[t].offset > 0) \in BOOLEAN /\ (Cardinality(Answer(t, q)) >= list[t].limit) \in BOOLEAN
      OBVIOUS
    <3>3. drawn \in Tables
      <4> HIDE DEF Queries, TableRows, Answer, q
      <4> QED
        BY <2>2, <3>1, <3>2 DEF q
    <3>4. table' = [table EXCEPT ![t] = drawn]
      BY <2>5 DEF Draw
    <3> HIDE DEF drawn, Tables
    <3>5. table' \in [Tabs -> Tables]
      BY <3>3, <3>4 DEF TablesTyped, Tables
    <3> QED
      BY <2>3, <3>5 DEF TablesTyped, Tables
  <2> QED
    BY <1>2, <2>4, <2>5 DEF Arrive, LoadFails
<1>4. CASE \/ \E t \in Tabs : SetTab(t) \/ \E s \in Searches : Search(t, s)
           \/ \E p \in Filters : ChangeProject(p)
           \/ \E l \in Limits : ChangeLimit(l)
           \/ PrevPage \/ NextPage
  <2>1. Move
    BY <1>4 DEF SetTab, Search, ChangeProject, ChangeLimit, Filter, PrevPage, NextPage, Turn
  <2> QED
    BY <1>1, <2>1 DEF Move
<1>5. CASE \/ PromptRevoke \/ PromptGrant \/ PromptDelete \/ PromptSendDigest
           \/ CloseModal \/ Confirm
  <2>1. Click
    BY <1>5 DEF PromptRevoke, PromptGrant, PromptDelete, PromptSendDigest, Open, CloseModal, Confirm
  <2> QED
    BY <1>1, <2>1 DEF Click
<1>6. CASE \E i \in 1 .. MaxPosts :
             /\ i <= Len(posts)
             /\ Completed(i) \/ Refused(i) \/ Handle(i) \/ HandleSendDigest(i) \/ Fails(i)
  BY <1>1, <1>6 DEF Completed, Refused, Handle, HandleSendDigest, Fails, PageUnchanged
<1>7. CASE Others
  BY <1>1, <1>7 DEF Others, PageUnchanged
<1>8. CASE UNCHANGED vars
  BY <1>1, <1>8 DEF vars
<1> QED
  BY <1>2, <1>4, <1>5, <1>6, <1>7, <1>8 DEF Next

LEMMA OpenTyped ==
  ASSUME DialogsTyped, NEW kind \in Kinds, NEW named \in Named, Fits(kind, named), Open(kind, named)
  PROVE  DialogsTyped'
<1> DEFINE m == [kind |-> kind, named |-> named, n |-> dialogs + 1]
<1>1. dialogs' \in 0 .. MaxDialogs /\ dialogs + 1 \in 1 .. MaxDialogs
  BY AdminUiAssumption DEF DialogsTyped, Open, Click
<1>2. m \in FittingDialogs
  <2>1. m \in DialogRecords
    BY <1>1 DEF DialogRecords
  <2>2. m.kind = kind /\ m.named = named
    OBVIOUS
  <2> HIDE DEF m, DialogRecords
  <2> QED
    BY <2>1, <2>2 DEF FittingDialogs
<1>3. modal' = {m}
  BY DEF Open
<1>4. hasty' \in BOOLEAN
  <2>1. hasty' = (hasty \/ posts # <<>>)
    BY DEF Open
  <2> QED
    BY <2>1
<1> HIDE DEF m
<1>5. AtMostOne(modal')
  BY <1>3 DEF AtMostOne
<1> QED
  BY <1>1, <1>2, <1>3, <1>4, <1>5 DEF DialogsTyped, AtMostOne

LEMMA ConfirmTyped ==
  ASSUME DialogsTyped, PostsTyped, PageTyped, Confirm
  PROVE  DialogsTyped' /\ PostsTyped'
<1>1. PICK m \in modal :
        /\ posts' = Append(posts, [kind |-> m.kind, n |-> m.n, target |-> Target(m), at |-> "sent"])
        /\ modal' = modal /\ hasty' = hasty /\ dialogs < MaxDialogs /\ dialogs' = dialogs + 1
  BY DEF Confirm, Click
<1> DEFINE x == [kind |-> m.kind, n |-> m.n, target |-> Target(m), at |-> "sent"]
<1>2. m \in DialogRecords /\ Fits(m.kind, m.named)
  BY DEF DialogsTyped, FittingDialogs
<1>3. Fits(m.kind, Target(m)) /\ Target(m) \in Targets
  BY <1>2 DEF Fits, Target, Targets, Named, PageTyped
<1>4. x \in FittingPosts
  <2>1. x \in PostRecords
    <3> HIDE DEF Targets, Kinds, Target
    <3> QED
      BY <1>2, <1>3 DEF DialogRecords, PostRecords
  <2>2. x.kind = m.kind /\ x.target = Target(m)
    OBVIOUS
  <2> HIDE DEF x, PostRecords
  <2> QED
    BY <1>3, <2>1, <2>2 DEF FittingPosts
<1>5. posts' = Append(posts, x)
  BY <1>1
<1> HIDE DEF x, FittingPosts
<1>6. PostsTyped'
  BY <1>4, <1>5 DEF PostsTyped
<1>7. DialogsTyped'
  BY <1>1, AdminUiAssumption DEF DialogsTyped, AtMostOne
<1> QED
  BY <1>6, <1>7

LEMMA PostOver ==
  ASSUME PostsTyped, NEW i \in 1 .. MaxPosts, i <= Len(posts),
         Drop(i) \/ \E at \in {"sent", "reading", "ok", "error"} : Answered(i, at)
  PROVE  PostsTyped'
<1>1. i \in 1 .. Len(posts) /\ posts[i] \in FittingPosts
  BY PostAt
<1>2. CASE Drop(i)
  <2> HIDE DEF FittingPosts
  <2> QED
    BY <1>1, <1>2, RemoveAtLeaves DEF PostsTyped, Drop
<1>3. ASSUME NEW at \in {"sent", "reading", "ok", "error"}, Answered(i, at)
      PROVE  PostsTyped'
  <2>1. posts[i] \in PostRecords /\ Fits(posts[i].kind, posts[i].target)
    BY <1>1 DEF FittingPosts
  <2> DEFINE y == [posts[i] EXCEPT !.at = at]
  <2>2. y \in PostRecords /\ y.kind = posts[i].kind /\ y.target = posts[i].target
    <3> HIDE DEF Targets, Kinds
    <3> QED
      BY <2>1 DEF PostRecords
  <2>3. posts' = [posts EXCEPT ![i] = y]
    BY <1>3 DEF Answered
  <2> HIDE DEF y, PostRecords
  <2>4. y \in FittingPosts
    BY <2>1, <2>2 DEF FittingPosts
  <2> HIDE DEF FittingPosts
  <2> QED
    BY <1>1, <2>3, <2>4 DEF PostsTyped
<1> QED
  BY <1>2, <1>3

LEMMA DialogsTypedNext ==
  ASSUME PageTyped, TablesTyped, DialogsTyped, PostsTyped, [Next]_vars
  PROVE  DialogsTyped' /\ PostsTyped'
<1>1. ASSUME modal' = modal \/ modal' = {}, dialogs' \in 0 .. MaxDialogs, hasty' = hasty
      PROVE  DialogsTyped'
  BY <1>1 DEF DialogsTyped, AtMostOne
<1>2. ASSUME UNCHANGED <<modal, dialogs, hasty, posts>>
      PROVE  DialogsTyped' /\ PostsTyped'
  BY <1>2 DEF DialogsTyped, PostsTyped, AtMostOne
<1>3. CASE \/ \E t \in Tabs, i \in 1 .. MaxLoads :
                i <= Len(pending[t]) /\ (Arrive(t, i) \/ LoadFails(t, i))
  BY <1>2, <1>3 DEF Arrive, LoadFails
<1>4. CASE \/ \E t \in Tabs : SetTab(t) \/ \E s \in Searches : Search(t, s)
           \/ \E p \in Filters : ChangeProject(p)
           \/ \E l \in Limits : ChangeLimit(l)
           \/ PrevPage \/ NextPage
  BY <1>2, <1>4 DEF SetTab, Search, ChangeProject, ChangeLimit, Filter, PrevPage, NextPage, Turn, Move
<1>6. CASE PromptRevoke \/ PromptGrant \/ PromptDelete \/ PromptSendDigest
  <2>1. table[tab].rows \subseteq TableRows /\ project \in Filters
    BY DEF TablesTyped, PageTyped
  <2>2. PICK kind \in Kinds, named \in Named : Fits(kind, named) /\ Open(kind, named)
    BY <1>6, <2>1 DEF PromptRevoke, PromptGrant, PromptDelete, PromptSendDigest, Fits, Kinds, Named, Filters
  <2>3. posts' = posts
    BY <2>2 DEF Open
  <2> QED
    BY <2>2, <2>3, OpenTyped DEF PostsTyped
<1>7. CASE CloseModal
  <2>1. modal' = {} /\ dialogs' \in 0 .. MaxDialogs /\ UNCHANGED <<posts, hasty>>
    BY <1>7, AdminUiAssumption DEF CloseModal, Click, DialogsTyped
  <2> QED
    BY <1>1, <2>1 DEF PostsTyped
<1>8. CASE Confirm
  BY <1>8, ConfirmTyped
<1>9. CASE \E i \in 1 .. MaxPosts :
             /\ i <= Len(posts)
             /\ Completed(i) \/ Refused(i) \/ Handle(i) \/ HandleSendDigest(i) \/ Fails(i)
  <2> PICK i \in 1 .. MaxPosts :
             /\ i <= Len(posts)
             /\ Completed(i) \/ Refused(i) \/ Handle(i) \/ HandleSendDigest(i) \/ Fails(i)
    BY <1>9
  <2>1. /\ modal' = modal \/ modal' = {}
        /\ UNCHANGED <<dialogs, hasty>>
    BY DEF Completed, Refused, Handle, HandleSendDigest, Fails, PageUnchanged
  <2>2. Drop(i) \/ \E at \in {"sent", "reading", "ok", "error"} : Answered(i, at)
    BY DEF Completed, Refused, Handle, HandleSendDigest, Fails
  <2>3. PostsTyped'
    BY <2>2, PostOver
  <2>4. dialogs' \in 0 .. MaxDialogs
    BY <2>1 DEF DialogsTyped
  <2> QED
    BY <1>1, <2>1, <2>3, <2>4
<1>10. CASE Others
  BY <1>2, <1>10 DEF Others, PageUnchanged
<1>11. CASE UNCHANGED vars
  BY <1>2, <1>11 DEF vars
<1> QED
  BY <1>3, <1>4, <1>6, <1>7, <1>8, <1>9, <1>10, <1>11 DEF Next

LEMMA OthersTypedNext ==
  ASSUME others \in 0 .. MaxOthers, [Next]_vars
  PROVE  others' \in 0 .. MaxOthers
<1>1. CASE Others
  BY <1>1, AdminUiAssumption DEF Others
<1>2. CASE \/ \E t \in Tabs, i \in 1 .. MaxLoads :
                i <= Len(pending[t]) /\ (Arrive(t, i) \/ LoadFails(t, i))
  BY <1>2 DEF Arrive, LoadFails, Elsewhere
<1>3. CASE \/ \E t \in Tabs : SetTab(t) \/ \E s \in Searches : Search(t, s)
           \/ \E p \in Filters : ChangeProject(p)
           \/ \E l \in Limits : ChangeLimit(l)
           \/ PrevPage \/ NextPage
  <2>1. Move
    BY <1>3 DEF SetTab, Search, ChangeProject, ChangeLimit, Filter, PrevPage, NextPage, Turn
  <2> QED
    BY <2>1 DEF Move, Elsewhere
<1>4. CASE \/ PromptRevoke \/ PromptGrant \/ PromptDelete \/ PromptSendDigest
           \/ CloseModal \/ Confirm
  <2>1. Click
    BY <1>4 DEF PromptRevoke, PromptGrant, PromptDelete, PromptSendDigest, Open, CloseModal, Confirm
  <2> QED
    BY <2>1 DEF Click, Elsewhere
<1>5. CASE \E i \in 1 .. MaxPosts :
             /\ i <= Len(posts)
             /\ Completed(i) \/ Refused(i) \/ Handle(i) \/ HandleSendDigest(i) \/ Fails(i)
  BY <1>5 DEF Completed, Refused, Handle, HandleSendDigest, Fails, Elsewhere
<1>6. CASE UNCHANGED vars
  BY <1>6 DEF vars
<1> QED
  BY <1>1, <1>2, <1>3, <1>4, <1>5, <1>6 DEF Next

LEMMA UiTypedNext == UiTyped /\ [Next]_vars => UiTyped'
<1> SUFFICES ASSUME UiTyped, [Next]_vars PROVE UiTyped'
  OBVIOUS
<1>1. ListsTyped'
  BY ListsChanges, ListsTypedNext DEF UiTyped
<1>2. PageTyped' /\ PendingChange
  BY PageTypedNext DEF UiTyped
<1>3. PendingTyped'
  <2>1. PendingTyped /\ ListsTyped
    BY DEF UiTyped
  <2>2. CASE pending' = pending
    BY <2>1, <2>2 DEF PendingTyped
  <2>3. CASE \E t \in Tabs : Load(t)
    BY <1>2, <2>1, <2>3, LoadStep
  <2>4. CASE \E t \in Tabs, i \in 1 .. MaxLoads :
               i <= Len(pending[t]) /\ pending' = [pending EXCEPT ![t] = RemoveAt(@, i)]
    <3>1. PICK t \in Tabs, i \in 1 .. MaxLoads :
                 i <= Len(pending[t]) /\ pending' = [pending EXCEPT ![t] = RemoveAt(@, i)]
      BY <2>4
    <3>2. i \in Nat \ {0}
      OBVIOUS
    <3> QED
      BY <2>1, <3>1, <3>2, OverStep
  <2> QED
    BY <1>2, <2>2, <2>3, <2>4 DEF PendingChange
<1>4. TablesTyped' /\ DialogsTyped' /\ PostsTyped'
  BY TablesTypedNext, DialogsTypedNext DEF UiTyped
<1>5. others' \in 0 .. MaxOthers
  BY OthersTypedNext DEF UiTyped
<1> QED
  BY <1>1, <1>2, <1>3, <1>4, <1>5 DEF UiTyped

\* Type correctness, for any number of accounts, page sizes and requests under way:
\* also that a list names nobody twice, and that what a dialog asks for is a row, or a
\* project for the digest.
THEOREM UiTypeCorrect == Spec => []TypeOK
BY UiTypedInit, UiTypedNext, UiTypes, PTL DEF Spec

-----------------------------------------------------------------------------
\* What the tab shows.

\* Of the tab on the screen: the newest request asks for what is chosen, and once it is
\* answered, and no older answer came after it, the table is that answer.
Shown ==
  /\ \A r \in ToSet(pending[tab]) : r.newest => r.query = Asked(tab)
  /\ (\A r \in ToSet(pending[tab]) : ~r.newest) /\ ~late[tab] => table[tab].query = Asked(tab)

LEMMA OfOne ==
  ASSUME NEW x
  PROVE  ToSet(<<x>>) = {x}
<1>1. DOMAIN <<x>> = {1} /\ <<x>>[1] = x
  OBVIOUS
<1> QED
  BY <1>1 DEF ToSet

LEMMA ShownInit == Init => Shown
<1> SUFFICES ASSUME Init PROVE Shown
  OBVIOUS
<1> DEFINE r == [query |-> [project |-> AllProjects, search |-> Accounts,
                            limit |-> DefaultLimit, offset |-> 0],
                 newest |-> TRUE]
<1>1. tab \in Tabs /\ pending[tab] = <<r>>
  BY DEF Init
<1>2. ToSet(pending[tab]) = {r}
  BY <1>1, OfOne
<1>3. r.newest /\ r.query = Asked(tab)
  BY <1>1 DEF Init, Asked
<1> HIDE DEF r
<1> QED
  BY <1>2, <1>3 DEF Shown

\* The tab on the screen has just been loaded.
LEMMA ShownLoaded ==
  ASSUME UiTyped, UiTyped', tab' \in Tabs, Load(tab')
  PROVE  Shown'
<1> PICK t \in Tabs : t = tab'
  OBVIOUS
<1>1. Load(t)
  OBVIOUS
<1>2. /\ \E r \in ToSet(pending'[t]) : r.newest /\ r.query = Asked(t)'
      /\ \A r \in ToSet(pending'[t]) : ~r.newest \/ r.query = Asked(t)'
  BY <1>1, LoadStep DEF UiTyped
<1>3. Asked(t)' = Asked(tab)'
  BY DEF Asked
<1> QED
  BY <1>2, <1>3 DEF Shown

\* Nothing about the tab on the screen changes.
LEMMA ShownSame ==
  ASSUME Shown, UNCHANGED <<tab, project, list[tab], pending[tab], table[tab], late[tab]>>
  PROVE  Shown'
BY DEF Shown, Asked

LEMMA ShownNext == UiTyped /\ UiTyped' /\ Shown /\ [Next]_vars => Shown'
<1> SUFFICES ASSUME UiTyped, UiTyped', Shown, [Next]_vars PROVE Shown'
  OBVIOUS
<1>1. /\ tab \in Tabs /\ tab' \in Tabs /\ PendingTyped /\ PageTyped' /\ ListsTyped
      /\ DOMAIN table = Tabs /\ DOMAIN late = Tabs /\ DOMAIN list = Tabs /\ DOMAIN pending = Tabs
      /\ late \in [Tabs -> BOOLEAN]
  BY DEF UiTyped, PageTyped, PendingTyped, TablesTyped
<1>2. ASSUME UNCHANGED <<page, pending, table, late>>
      PROVE  Shown'
  BY <1>2, ShownSame DEF page
<1>3. ASSUME NEW t \in Tabs, NEW i \in 1 .. MaxLoads, i <= Len(pending[t]),
             Arrive(t, i) \/ LoadFails(t, i)
      PROVE  Shown'
  <2> DEFINE request == pending[t][i]
  <2>1. UNCHANGED <<tab, project, list>> /\ pending' = [pending EXCEPT ![t] = RemoveAt(@, i)]
    BY <1>3 DEF Arrive, LoadFails, page
  <2>2. i \in Nat \ {0}
    OBVIOUS
  <2>3. /\ request \in ToSet(pending[t]) /\ request \in Requests
        /\ \A u \in Tabs \ {t} : pending'[u] = pending[u]
        /\ ToSet(pending'[t]) \subseteq ToSet(pending[t])
        /\ ToSet(pending[t]) \subseteq ToSet(pending'[t]) \cup {request}
    BY <1>1, <1>3, <2>1, <2>2, OverStep
  <2>4. request.newest \in BOOLEAN
    BY <2>3 DEF Requests
  <2>5. Asked(tab)' = Asked(tab)
    BY <2>1 DEF Asked
  <2>6. \/ Draw(t, request.query) /\ late' = [late EXCEPT ![t] = ~request.newest]
        \/ table' = table /\ late' = [late EXCEPT ![t] = @ \/ request.newest]
    BY <1>3 DEF Arrive, LoadFails
  <2>7. CASE t # tab
    <3>1. table'[tab] = table[tab] /\ late'[tab] = late[tab]
      BY <1>1, <2>6, <2>7 DEF Draw
    <3> QED
      BY <1>1, <2>1, <2>3, <2>7, <3>1, ShownSame
  <2>8. CASE t = tab
    <3>1. \A r \in ToSet(pending'[tab]) : r.newest => r.query = Asked(tab)
      BY <2>3, <2>8 DEF Shown
    <3>2. CASE Draw(t, request.query) /\ late' = [late EXCEPT ![t] = ~request.newest]
      <4>1. late'[tab] = ~request.newest
        BY <1>1, <2>8, <3>2
      <4>2. table'[tab].query = request.query
        BY <1>1, <2>8, <3>2 DEF Draw
      <4>3. request.newest => request.query = Asked(tab)
        BY <2>3, <2>8 DEF Shown
      <4> HIDE DEF request
      <4> QED
        BY <2>1, <2>5, <3>1, <4>1, <4>2, <4>3 DEF Shown
    <3>3. CASE table' = table /\ late' = [late EXCEPT ![t] = @ \/ request.newest]
      <4>1. late'[tab] = (late[tab] \/ request.newest)
        BY <1>1, <2>8, <3>3
      <4>2. (\A r \in ToSet(pending'[tab]) : ~r.newest) /\ ~request.newest
               => \A r \in ToSet(pending[tab]) : ~r.newest
        BY <2>3, <2>8
      <4> HIDE DEF request
      <4> QED
        BY <2>1, <2>5, <3>1, <3>3, <4>1, <4>2 DEF Shown
    <3> QED
      BY <2>6, <3>2, <3>3
  <2> QED
    BY <2>7, <2>8
<1>5. CASE \/ \E t \in Tabs : SetTab(t)
           \/ \E p \in Filters : ChangeProject(p)
           \/ \E l \in Limits : ChangeLimit(l)
           \/ PrevPage \/ NextPage
  <2>1. Load(tab')
    BY <1>5 DEF SetTab, ChangeProject, ChangeLimit, Filter, PrevPage, NextPage, Turn
  <2> QED
    BY <1>1, <2>1, ShownLoaded
<1>6. ASSUME NEW t \in Tabs, NEW s \in Searches, Search(t, s)
      PROVE  Shown'
  <2>1. /\ list' = [list EXCEPT ![t] = [search |-> s, limit |-> list[t].limit, offset |-> 0]]
        /\ Load(t) /\ UNCHANGED <<tab, project, table, late>>
    BY <1>6 DEF Search, Filter, Move
  <2>2. CASE t = tab
    BY <1>1, <2>1, <2>2, ShownLoaded
  <2>3. CASE t # tab
    <3>1. pending'[tab] = pending[tab]
      BY <1>1, <2>1, <2>3, LoadStep
    <3> QED
      BY <1>1, <2>1, <2>3, <3>1, ShownSame
  <2> QED
    BY <2>2, <2>3
<1>7. CASE \/ PromptRevoke \/ PromptGrant \/ PromptDelete \/ PromptSendDigest
           \/ CloseModal \/ Confirm
  <2>1. Click
    BY <1>7 DEF PromptRevoke, PromptGrant, PromptDelete, PromptSendDigest, Open, CloseModal, Confirm
  <2> QED
    BY <1>2, <2>1 DEF Click
<1>8. ASSUME NEW i \in 1 .. MaxPosts,
             Completed(i) \/ Refused(i) \/ Handle(i) \/ HandleSendDigest(i) \/ Fails(i)
      PROVE  Shown'
  <2>1. CASE UNCHANGED pending /\ Completed(i)
    BY <1>2, <2>1 DEF Completed
  <2>2. ASSUME NEW t \in Tabs, Load(t), UNCHANGED <<page, table, late>>
        PROVE  Shown'
    <3>1. CASE t = tab
      BY <1>1, <2>2, <3>1, ShownLoaded DEF page
    <3>2. CASE t # tab
      <4>1. pending'[tab] = pending[tab]
        BY <1>1, <2>2, <3>2, LoadStep
      <4> QED
        BY <2>2, <4>1, ShownSame DEF page
    <3> QED
      BY <3>1, <3>2
  <2>3. Completed(i) => /\ UNCHANGED <<page, table, late>>
                        /\ UNCHANGED pending \/ Load("access") \/ Load("waitlist")
    BY DEF Completed
  <2>4. CASE Refused(i) \/ Handle(i) \/ HandleSendDigest(i) \/ Fails(i)
    BY <1>2, <2>4 DEF Refused, Handle, HandleSendDigest, Fails, PageUnchanged
  <2>5. "access" \in Tabs /\ "waitlist" \in Tabs
    BY DEF Tabs
  <2> QED
    BY <1>8, <2>1, <2>2, <2>3, <2>4, <2>5
<1>9. CASE Others
  BY <1>2, <1>9 DEF Others, PageUnchanged
<1>10. CASE UNCHANGED vars
  BY <1>2, <1>10 DEF vars, page
<1> QED
  BY <1>3, <1>5, <1>6, <1>7, <1>8, <1>9, <1>10 DEF Next

\* For any number of requests under way, answered in any order or not at all: when the
\* tab on the screen has none left, it shows the answer for the project, search and page
\* that are chosen, unless an older answer came last or the newest request failed.
THEOREM ScreenShowsWhatIsAsked == Spec => []ShownIsAsked
<1>1. Shown => ShownIsAsked
  <2> SUFFICES ASSUME Shown, pending[tab] = <<>>, ~late[tab]
               PROVE  table[tab].query = Asked(tab)
    BY DEF ShownIsAsked, Asked
  <2>1. ToSet(pending[tab]) = {}
    BY DEF ToSet
  <2> QED
    BY <2>1 DEF Shown
<1>2. Init => UiTyped /\ Shown
  BY UiTypedInit, ShownInit
<1>3. (UiTyped /\ Shown) /\ [Next]_vars => (UiTyped /\ Shown)'
  BY UiTypedNext, ShownNext
<1> QED
  BY <1>1, <1>2, <1>3, PTL DEF Spec

-----------------------------------------------------------------------------
\* Whose answer closes a dialog.

\* As long as no dialog was opened behind a request, every request under way is one
\* of the dialog that is open.
OwnRequests == hasty \/ \A m \in modal : \A x \in ToSet(posts) : x.n = m.n

LEMMA OwnInit == Init => OwnRequests
BY DEF Init, OwnRequests

\* The dialog is the same, and no request is new but one that another stands for.
LEMMA OwnKept ==
  ASSUME OwnRequests, hasty' = hasty,
         \A m \in modal' : \E k \in modal : m.n = k.n,
         \A x \in ToSet(posts') : \E y \in ToSet(posts) : x.n = y.n
  PROVE  OwnRequests'
BY DEF OwnRequests

\* A request that is dropped or answered leaves the number of its dialog.
LEMMA OwnAnswered ==
  ASSUME PostsTyped, NEW i \in 1 .. MaxPosts, i <= Len(posts),
         Drop(i) \/ \E at \in {"sent", "reading", "ok", "error"} : Answered(i, at)
  PROVE  \A x \in ToSet(posts') : \E y \in ToSet(posts) : x.n = y.n
<1>1. i \in 1 .. Len(posts) /\ posts[i] \in FittingPosts
  <2>1. i \in Nat \ {0}
    OBVIOUS
  <2> QED
    BY <2>1, PostAt
<1>2. posts \in Seq(FittingPosts)
  BY DEF PostsTyped
<1>3. posts[i] \in ToSet(posts)
  BY <1>1 DEF ToSet
<1>4. CASE Drop(i)
  <2>1. ToSet(posts') \subseteq ToSet(posts)
    BY <1>1, <1>2, <1>4, RemoveAtLeaves DEF Drop
  <2> QED
    BY <2>1
<1>5. ASSUME NEW at \in {"sent", "reading", "ok", "error"}, Answered(i, at)
      PROVE  \A x \in ToSet(posts') : \E y \in ToSet(posts) : x.n = y.n
  <2> DEFINE answered == [posts[i] EXCEPT !.at = at]
  <2>1. answered \in PostRecords /\ answered.kind = posts[i].kind
        /\ answered.target = posts[i].target /\ answered.n = posts[i].n
    BY <1>1 DEF FittingPosts, PostRecords
  <2>2. answered \in FittingPosts
    BY <1>1, <2>1 DEF FittingPosts
  <2>3. posts' = [posts EXCEPT ![i] = answered]
    BY <1>5 DEF Answered
  <2> HIDE DEF answered
  <2>4. ToSet(posts') \subseteq ToSet(posts) \cup {answered}
    BY <1>1, <1>2, <2>2, <2>3, ReplaceAtKeeps
  <2> QED
    BY <1>3, <2>1, <2>4
<1> QED
  BY <1>4, <1>5

LEMMA OwnConfirmed ==
  ASSUME UiTyped, OwnRequests, Confirm
  PROVE  OwnRequests'
<1> PICK m \in modal :
      /\ posts' = Append(posts, [kind |-> m.kind, n |-> m.n, target |-> Target(m), at |-> "sent"])
      /\ UNCHANGED <<modal, hasty>>
  BY DEF Confirm
<1> DEFINE post == [kind |-> m.kind, n |-> m.n, target |-> Target(m), at |-> "sent"]
<1>1. post.n = m.n
  OBVIOUS
<1>2. posts \in Seq(FittingPosts) /\ \A k \in modal : k = m
  BY DEF UiTyped, PostsTyped, DialogsTyped, AtMostOne
<1> HIDE DEF post
<1>3. ToSet(posts') = ToSet(posts) \cup {post}
  <2> DEFINE S == FittingPosts \cup {post}
  <2>1. posts \in Seq(S) /\ post \in S
    <3> HIDE DEF FittingPosts
    <3> QED
      BY <1>2
  <2> HIDE DEF S
  <2> QED
    BY <2>1, AppendAdds DEF post
<1> QED
  BY <1>1, <1>2, <1>3 DEF OwnRequests

LEMMA OwnNext == UiTyped /\ OwnRequests /\ [Next]_vars => OwnRequests'
<1> SUFFICES ASSUME UiTyped, OwnRequests, [Next]_vars PROVE OwnRequests'
  OBVIOUS
<1>1. ASSUME modal' = modal \/ modal' = {}, UNCHANGED <<posts, hasty>>
      PROVE  OwnRequests'
  BY <1>1 DEF OwnRequests
<1>2. CASE \/ \E t \in Tabs, i \in 1 .. MaxLoads :
                i <= Len(pending[t]) /\ (Arrive(t, i) \/ LoadFails(t, i))
  BY <1>1, <1>2 DEF Arrive, LoadFails
<1>3. CASE \/ \E t \in Tabs : SetTab(t) \/ \E s \in Searches : Search(t, s)
           \/ \E p \in Filters : ChangeProject(p)
           \/ \E l \in Limits : ChangeLimit(l)
           \/ PrevPage \/ NextPage
  BY <1>1, <1>3 DEF SetTab, Search, ChangeProject, ChangeLimit, Filter, PrevPage, NextPage, Turn, Move
<1>5. CASE PromptRevoke \/ PromptGrant \/ PromptDelete \/ PromptSendDigest
  <2>1. PICK kind, named : Open(kind, named)
    BY <1>5 DEF PromptRevoke, PromptGrant, PromptDelete, PromptSendDigest
  <2>2. posts' = posts /\ hasty' = (hasty \/ posts # <<>>)
    BY <2>1 DEF Open
  <2>3. CASE posts = <<>>
    <3>1. ToSet(posts') = {}
      BY <2>2, <2>3 DEF ToSet
    <3> QED
      BY <3>1 DEF OwnRequests
  <2>4. CASE posts # <<>>
    BY <2>2, <2>4 DEF OwnRequests
  <2> QED
    BY <2>3, <2>4
<1>6. CASE CloseModal
  BY <1>1, <1>6 DEF CloseModal
<1>7. CASE Confirm
  BY <1>7, OwnConfirmed
<1>8. CASE \E i \in 1 .. MaxPosts :
             /\ i <= Len(posts)
             /\ Completed(i) \/ Refused(i) \/ Handle(i) \/ HandleSendDigest(i) \/ Fails(i)
  <2> PICK i \in 1 .. MaxPosts :
             /\ i <= Len(posts)
             /\ Completed(i) \/ Refused(i) \/ Handle(i) \/ HandleSendDigest(i) \/ Fails(i)
    BY <1>8
  <2>1. (modal' = modal \/ modal' = {}) /\ hasty' = hasty
    BY DEF Completed, Refused, Handle, HandleSendDigest, Fails, PageUnchanged
  <2>2. Drop(i) \/ \E at \in {"sent", "reading", "ok", "error"} : Answered(i, at)
    BY DEF Completed, Refused, Handle, HandleSendDigest, Fails
  <2>3. \A x \in ToSet(posts') : \E y \in ToSet(posts) : x.n = y.n
    BY <2>2, OwnAnswered DEF UiTyped
  <2> QED
    BY <2>1, <2>3, OwnKept
<1>9. CASE Others
  BY <1>1, <1>9 DEF Others, PageUnchanged
<1>10. CASE UNCHANGED vars
  BY <1>1, <1>10 DEF vars
<1> QED
  BY <1>2, <1>3, <1>5, <1>6, <1>7, <1>8, <1>9, <1>10 DEF Next

\* A step that closes a dialog, not cancelled by the user: the dialog's own request
\* has succeeded.
ClosedDone ==
  \A m \in modal : modal' = {} /\ ~CloseModal =>
    hasty \/ \E i \in DOMAIN posts : posts[i].n = m.n /\ posts[i].at = "ok"

LEMMA ClosedStep == UiTyped /\ OwnRequests /\ [Next]_vars => ClosedDone
<1> SUFFICES ASSUME UiTyped, OwnRequests, [Next]_vars,
                    NEW m \in modal, modal' = {}, ~CloseModal, ~hasty
             PROVE  \E i \in DOMAIN posts : posts[i].n = m.n /\ posts[i].at = "ok"
  BY DEF ClosedDone
<1>1. modal' # modal
  OBVIOUS
<1>2. PICK i \in 1 .. MaxPosts : i <= Len(posts) /\ Completed(i)
  <2>2. ~(PromptRevoke \/ PromptGrant \/ PromptDelete \/ PromptSendDigest)
    BY DEF PromptRevoke, PromptGrant, PromptDelete, PromptSendDigest, Open
  <2>3. ~(\/ \E t \in Tabs, i \in 1 .. MaxLoads :
               i <= Len(pending[t]) /\ (Arrive(t, i) \/ LoadFails(t, i)))
    BY <1>1 DEF Arrive, LoadFails
  <2>4. ~(\/ \E t \in Tabs : SetTab(t) \/ \E s \in Searches : Search(t, s)
          \/ \E p \in Filters : ChangeProject(p)
          \/ \E l \in Limits : ChangeLimit(l)
          \/ PrevPage \/ NextPage)
    BY <1>1 DEF SetTab, Search, ChangeProject, ChangeLimit, Filter, PrevPage, NextPage, Turn
  <2>5. ~Confirm /\ ~Others /\ ~UNCHANGED vars
    BY <1>1 DEF Confirm, Others, PageUnchanged, vars
  <2>6. \A i \in 1 .. MaxPosts : ~(Refused(i) \/ Handle(i) \/ HandleSendDigest(i) \/ Fails(i))
    BY <1>1 DEF Refused, Handle, HandleSendDigest, Fails, PageUnchanged
  <2> QED
    BY <2>2, <2>3, <2>4, <2>5, <2>6 DEF Next
<1>3. i \in DOMAIN posts /\ posts[i].at = "ok"
  <2>1. i \in Nat \ {0}
    OBVIOUS
  <2>2. i \in 1 .. Len(posts)
    BY <1>2, <2>1, PostAt DEF UiTyped
  <2>3. posts \in Seq(FittingPosts)
    BY DEF UiTyped, PostsTyped
  <2>4. i \in DOMAIN posts
    <3> HIDE DEF FittingPosts
    <3> QED
      BY <2>2, <2>3
  <2> QED
    BY <1>2, <2>4 DEF Completed
<1>4. posts[i].n = m.n
  BY <1>3 DEF OwnRequests, ToSet
<1> QED
  BY <1>3, <1>4

\* For any number of dialogs, confirmed any number of times and answered in any order:
\* a dialog that the user does not cancel is closed only when its own request has
\* succeeded, unless another was opened while a request was under way.
THEOREM DialogsCloseWhenDone == Spec => ClosedMeansDone
<1>1. Init => UiTyped /\ OwnRequests
  BY UiTypedInit, OwnInit
<1>2. (UiTyped /\ OwnRequests) /\ [Next]_vars => (UiTyped /\ OwnRequests)'
  BY UiTypedNext, OwnNext
<1>3. (UiTyped /\ OwnRequests) /\ [Next]_vars =>
        [\A m \in modal : modal' = {} /\ ~CloseModal =>
           hasty \/ \E i \in DOMAIN posts : posts[i].n = m.n /\ posts[i].at = "ok"]_vars
  BY ClosedStep DEF ClosedDone
<1>4. Spec => [][\A m \in modal : modal' = {} /\ ~CloseModal =>
                   hasty \/ \E i \in DOMAIN posts : posts[i].n = m.n /\ posts[i].at = "ok"]_vars
  BY <1>1, <1>2, <1>3, PTL DEF Spec
<1> QED
  BY <1>4 DEF ClosedMeansDone

-----------------------------------------------------------------------------
\* The chart.

\* Every day the dashboard shows counts all the sign-ups of that day up to the query,
\* although the query looks back by hours and the answer lists days, also when
\* midnight comes between the two: for any number of days and any times.
THEOREM ListedDaysComplete ==
  ASSUME NEW U, NEW created \in [U -> Int], NEW days \in Nat \ {0},
         NEW queried \in Int, NEW listed \in Int, queried <= listed,
         NEW day \in DayOf(listed) - days + 1 .. DayOf(listed)
  PROVE  EnlistmentsByDay(created, days, queried, listed)[day] =
           {u \in U : created[u] <= queried /\ DayOf(created[u]) = day}
<1>1. ASSUME NEW u \in U, DayOf(created[u]) = day
      PROVE  created[u] >= queried - days * Day
  <2>1. created[u] \in Int
    OBVIOUS
  <2>2. DayOf(created[u]) \in Int /\ DayOf(listed) \in Int
    BY <2>1 DEF DayOf, Day
  <2>3. created[u] >= 86400 * DayOf(created[u])
    BY <2>1 DEF DayOf, Day
  <2>4. listed < 86400 * DayOf(listed) + 86400
    BY DEF DayOf, Day
  <2> QED
    BY <1>1, <2>1, <2>2, <2>3, <2>4 DEF Day
<1> QED
  BY <1>1 DEF EnlistmentsByDay, Counted
=============================================================================
