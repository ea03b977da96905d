------------------------------- MODULE AdminUi -------------------------------
(***************************************************************************)
(* The admin page: one browser tab, its tables, its dialog, and the        *)
(* requests it has under way, beside everybody else who changes the lists. *)
(*                                                                         *)
(* A click changes `state' and starts a request; the handler awaits the    *)
(* answer and draws it, whatever has happened in the meantime.  Answers    *)
(* overtake each other.                                                    *)
(*                                                                         *)
(* A list is read when its answer is drawn: a change that happens on the   *)
(* way could as well happen right afterwards.                              *)
(***************************************************************************)
EXTENDS Listing

CONSTANTS
  Limits,     \* the page sizes to choose from
  MaxMoves,   \* bound: the user's changes of tab, filter and page
  MaxDialogs, \* bound: the user's steps with dialogs
  MaxOthers,  \* bound: what others do to the lists
  MaxLoads,   \* bound: requests for one table at a time
  MaxPosts    \* bound: requests of confirmed dialogs at a time

Tabs == {"dashboard", "access", "waitlist"}

\* An empty search box matches every account.
ASSUME AdminUiAssumption ==
  /\ Accounts \in Searches
  /\ DefaultLimit \in Limits /\ Limits \subseteq Nat
  /\ MaxMoves \in Nat /\ MaxDialogs \in Nat /\ MaxOthers \in Nat

VARIABLES
  tab, project, list,  \* `state': a list's search, limit and offset
  table,     \* what is drawn on a tab: the query it answers, its rows, its pager
  pending,   \* the requests of a tab that have no answer, oldest first
  modal,     \* the dialog: {} or one record
  posts,     \* the requests of confirmed dialogs
  moves, dialogs, others,
  late,      \* observer: what a tab shows is not the answer to its newest request
  hasty      \* observer: the user opened a dialog while the request of one was under way

page == <<tab, project, list>>
vars == <<waiting, access, entry, digest, tab, project, list, table,
          pending, modal, posts, moves, dialogs, others, late, hasty>>

Blank == [project |-> AllProjects, search |-> {}, limit |-> 0, offset |-> 0]
Queries == [project : Filters, search : Searches \cup {{}}, limit : Limits \cup {0}, offset : Nat]
TableRows == [who : Accounts, entry : 0 .. MaxEntries]
Kinds == {"revoke", "grant", "remove", "digest"}
Named == TableRows \cup Projects
Targets == TableRows \cup Filters

TypeOK ==
  /\ ListingTypeOK
  /\ tab \in Tabs /\ project \in Filters
  /\ list \in [Tabs -> [search : Searches, limit : Limits, offset : Nat]]
  /\ table \in [Tabs -> [query : Queries, rows : SUBSET TableRows, prev : BOOLEAN, next : BOOLEAN]]
  /\ pending \in [Tabs -> Seq([query : Queries, newest : BOOLEAN])]
  /\ modal \subseteq [kind : Kinds, named : Named, n : 1 .. MaxDialogs]
  /\ Cardinality(modal) <= 1
  /\ posts \in Seq([kind : Kinds, n : 1 .. MaxDialogs, target : Targets,
                    at : {"sent", "reading", "ok", "error"}])
  /\ moves \in 0 .. MaxMoves /\ dialogs \in 0 .. MaxDialogs /\ others \in 0 .. MaxOthers
  /\ late \in [Tabs -> BOOLEAN] /\ hasty \in BOOLEAN

-----------------------------------------------------------------------------
\* Loading a table.

\* The request a tab makes, with the filters as they are after the step.
Query(t) == [project |-> project', search |-> list'[t].search,
             limit |-> list'[t].limit, offset |-> list'[t].offset]

Superseded(requests) == [i \in DOMAIN requests |-> [requests[i] EXCEPT !.newest = FALSE]]

\* Mutant: no second request while one is under way.
LoadUnlessLoading(t) ==
  pending' = [pending EXCEPT ![t] =
    IF @ = <<>> THEN <<[query |-> Query(t), newest |-> TRUE]>> ELSE @]

Load(t) ==
  /\ Len(pending[t]) < MaxLoads
  /\ pending' = [pending EXCEPT ![t] =
       Append(Superseded(@), [query |-> Query(t), newest |-> TRUE])]

Answer(t, q) ==
  LET rows == CASE t = "access" -> ListWithAccess(q.project, q.search, q.limit, q.offset)
                [] t = "waitlist" -> ListJoined(q.project, q.search, q.limit, q.offset)
                [] OTHER -> {}
  IN {[who |-> a, entry |-> entry[a]] : a \in rows}

Elsewhere == UNCHANGED <<waiting, access, entry, digest, others>>

\* updatePager compares with the filters of now.
Draw(t, q) ==
  table' = [table EXCEPT ![t] = [query |-> q, rows |-> Answer(t, q),
                                 prev |-> list[t].offset > 0,
                                 next |-> Cardinality(Answer(t, q)) >= list[t].limit]]

Arrive(t, i) ==
  LET request == pending[t][i] IN
  /\ Accepts(request.query.project, request.query.limit, request.query.offset)
  /\ Draw(t, request.query)
  /\ late' = [late EXCEPT ![t] = ~request.newest]
  /\ pending' = [pending EXCEPT ![t] = RemoveAt(@, i)]
  /\ UNCHANGED <<page, modal, posts, moves, dialogs, hasty>> /\ Elsewhere

\* The banner shows the error, and the rows stay.
LoadFails(t, i) ==
  /\ late' = [late EXCEPT ![t] = @ \/ pending[t][i].newest]
  /\ pending' = [pending EXCEPT ![t] = RemoveAt(@, i)]
  /\ UNCHANGED <<page, table, modal, posts, moves, dialogs, hasty>> /\ Elsewhere

-----------------------------------------------------------------------------
\* The filters.

Move ==
  /\ moves < MaxMoves /\ moves' = moves + 1
  /\ UNCHANGED <<table, posts, dialogs, late>> /\ Elsewhere

SetTab(t) ==
  /\ Move
  /\ tab' = t
  /\ UNCHANGED <<project, list, modal, hasty>>
  /\ Load(t)

\* Nothing keeps the filter from being changed by keyboard behind an open dialog.
ChangeProject(p) ==
  /\ Move
  /\ p # project /\ project' = p
  /\ list' = [t \in Tabs |-> [list[t] EXCEPT !.offset = 0]]
  /\ UNCHANGED <<tab, modal, hasty>>
  /\ Load(tab)

\* The timer of the search box, or the choice of a page size (on the dashboard
\* a number of days).
Filter(t, search, limit) ==
  /\ Move
  /\ list' = [list EXCEPT ![t] = [search |-> search, limit |-> limit, offset |-> 0]]
  /\ UNCHANGED <<tab, project, modal, hasty>>
  /\ Load(t)

Search(t, search) == t # "dashboard" /\ Filter(t, search, list[t].limit)

ChangeLimit(limit) == limit # list[tab].limit /\ Filter(tab, list[tab].search, limit)

Turn(offset) ==
  /\ Move
  /\ tab # "dashboard"
  /\ list' = [list EXCEPT ![tab].offset = offset]
  /\ UNCHANGED <<tab, project, modal, hasty>>
  /\ Load(tab)

\* The buttons are as the last answer left them, also while the next page is loading.
PrevPage == table[tab].prev /\ Turn(Max({0, list[tab].offset - list[tab].limit}))

NextPage == table[tab].next /\ Turn(list[tab].offset + list[tab].limit)

-----------------------------------------------------------------------------
\* The dialog.

Click ==
  /\ dialogs < MaxDialogs /\ dialogs' = dialogs + 1
  /\ UNCHANGED <<page, table, pending, moves, late>> /\ Elsewhere

Open(kind, named) ==
  /\ Click
  /\ hasty' = (hasty \/ posts # <<>>)
  /\ modal' = {[kind |-> kind, named |-> named, n |-> dialogs + 1]}
  /\ UNCHANGED posts

PromptRevoke == tab = "access" /\ \E r \in table[tab].rows : Open("revoke", r)
PromptGrant  == tab = "waitlist" /\ \E r \in table[tab].rows : Open("grant", r)
PromptDelete == tab = "waitlist" /\ \E r \in table[tab].rows : Open("remove", r)

\* Mutant: no look at whether a project is chosen.
PromptSendDigestAlways == tab = "dashboard" /\ Open("digest", project)

PromptSendDigest == tab = "dashboard" /\ project # AllProjects /\ Open("digest", project)

\* Cancel or Escape.
CloseModal ==
  /\ modal # {}
  /\ Click
  /\ modal' = {}
  /\ UNCHANGED <<posts, hasty>>

\* The closure keeps the row it was made for; the digest asks for the project.
Target(m) == IF m.kind = "digest" THEN project ELSE m.named

\* Mutant: the dialog is closed before its request is answered.
ConfirmAndClose ==
  \E m \in modal :
    /\ Len(posts) < MaxPosts
    /\ Click
    /\ posts' = Append(posts, [kind |-> m.kind, n |-> m.n, target |-> Target(m), at |-> "sent"])
    /\ modal' = {}
    /\ UNCHANGED hasty

\* Nothing disables the button: it can be pressed again before the answer.
Confirm ==
  \E m \in modal :
    /\ Len(posts) < MaxPosts
    /\ Click
    /\ posts' = Append(posts, [kind |-> m.kind, n |-> m.n, target |-> Target(m), at |-> "sent"])
    /\ UNCHANGED <<modal, hasty>>

Drop(i) == posts' = RemoveAt(posts, i)

\* onConfirm: the dialog is closed, and the list loaded again.
Completed(i) ==
  /\ posts[i].at = "ok"
  /\ Drop(i)
  /\ modal' = {}
  /\ UNCHANGED page
  /\ CASE posts[i].kind = "digest" -> UNCHANGED pending
       [] posts[i].kind = "revoke" -> Load("access")
       [] OTHER -> Load("waitlist")
  /\ UNCHANGED <<table, moves, dialogs, late, hasty>> /\ Elsewhere

\* submitModal shows the error in the dialog, whichever is open by now.
Refused(i) ==
  /\ posts[i].at = "error"
  /\ Drop(i)
  /\ UNCHANGED <<page, table, pending, modal, moves, dialogs, late, hasty>> /\ Elsewhere

-----------------------------------------------------------------------------
\* The server and the others.

PageUnchanged == UNCHANGED <<page, table, pending, modal, moves, dialogs, late, hasty>>

Answered(i, at) == posts' = [posts EXCEPT ![i].at = at]

\* Removing an entry that is no longer there is answered with 404.
Handle(i) ==
  LET post == posts[i] IN
  /\ post.at = "sent"
  /\ \/ post.kind = "grant" /\ Grant(post.target.who) /\ Answered(i, "ok")
     \/ post.kind = "revoke" /\ Revoke(post.target.who) /\ Answered(i, "ok")
     \/ /\ post.kind = "remove"
        /\ IF post.target.who \in ToSet(waiting) /\ entry[post.target.who] = post.target.entry
           THEN DeleteEntry(post.target.who) /\ Answered(i, "ok")
           ELSE UNCHANGED <<lists, digest>> /\ Answered(i, "error")
  /\ UNCHANGED others /\ PageUnchanged

HandleSendDigest(i) ==
  /\ posts[i].kind = "digest"
  /\ \/ /\ posts[i].at = "sent" /\ posts[i].target # AllProjects
        /\ ReadAccess(posts[i].target) /\ Answered(i, "reading")
     \/ /\ posts[i].at = "sent" /\ posts[i].target = AllProjects
        /\ Answered(i, "error") /\ UNCHANGED <<lists, digest>>
     \/ /\ posts[i].at = "reading"
        /\ ReadWaitlist /\ Answered(i, "ok")
  /\ UNCHANGED others /\ PageUnchanged

\* The connection, the database or the mail server fails; the answer is an error.
Fails(i) ==
  /\ posts[i].at \in {"sent", "reading"}
  /\ Answered(i, "error")
  /\ digest' = IF posts[i].at = "reading" THEN {} ELSE digest
  /\ UNCHANGED <<lists, others>> /\ PageUnchanged

\* Sign-ups, the scheduler and other admins.
Others ==
  /\ others < MaxOthers /\ others' = others + 1
  /\ \E a \in Accounts : SignUp(a) \/ Grant(a) \/ Revoke(a) \/ DeleteEntry(a)
  /\ UNCHANGED posts /\ PageUnchanged

-----------------------------------------------------------------------------
\* The tab comes from the URL.  If the projects cannot be loaded the filter offers
\* none, and ChangeProject never happens.
Init ==
  /\ ListingInit
  /\ tab \in Tabs
  /\ project = AllProjects
  /\ list = [t \in Tabs |-> [search |-> Accounts, limit |-> DefaultLimit, offset |-> 0]]
  /\ table = [t \in Tabs |-> [query |-> Blank, rows |-> {}, prev |-> FALSE, next |-> TRUE]]
  /\ pending = [t \in Tabs |->
       IF t # tab THEN <<>>
       ELSE <<[query |-> [project |-> AllProjects, search |-> Accounts,
                          limit |-> DefaultLimit, offset |-> 0], newest |-> TRUE]>>]
  /\ modal = {} /\ posts = <<>>
  /\ moves = 0 /\ dialogs = 0 /\ others = 0
  /\ late = [t \in Tabs |-> FALSE] /\ hasty = FALSE

Next ==
  \/ \E t \in Tabs, i \in 1 .. MaxLoads :
       i <= Len(pending[t]) /\ (Arrive(t, i) \/ LoadFails(t, i))
  \/ \E t \in Tabs : SetTab(t) \/ \E s \in Searches : Search(t, s)
  \/ \E p \in Filters : ChangeProject(p)
  \/ \E l \in Limits : ChangeLimit(l)
  \/ PrevPage \/ NextPage
  \/ PromptRevoke \/ PromptGrant \/ PromptDelete \/ PromptSendDigest
  \/ CloseModal \/ Confirm
  \/ \E i \in 1 .. MaxPosts :
       i <= Len(posts) /\ (Completed(i) \/ Refused(i) \/ Handle(i) \/ HandleSendDigest(i) \/ Fails(i))
  \/ Others

Spec == Init /\ [][Next]_vars

-----------------------------------------------------------------------------
\* Properties.

\* When nothing is being loaded, the tab on the screen shows the answer for the
\* project, search and page that are chosen, unless an older answer came last or the
\* newest request failed.
ShownIsAsked ==
  pending[tab] = <<>> /\ ~late[tab] =>
    table[tab].query = [project |-> project, search |-> list[tab].search,
                        limit |-> list[tab].limit, offset |-> list[tab].offset]

\* A dialog that the user does not cancel is closed only when its own request has
\* succeeded, unless another was opened while a request was under way: the answer to
\* the first then closes the second, which has asked for nothing yet.
ClosedMeansDone ==
  [][\A m \in modal : modal' = {} /\ ~CloseModal =>
       hasty \/ \E i \in DOMAIN posts : posts[i].n = m.n /\ posts[i].at = "ok"]_vars
=============================================================================
