----------------------------- MODULE Membership -----------------------------
(***************************************************************************)
(* What the service promises about its accounts, one indivisible step per  *)
(* operation: who is on the waiting list, who has access and through whom, *)
(* and how long ago each project's last batch was.  There are no requests, *)
(* statements, transactions or faults here.                                *)
(*                                                                         *)
(* Two promises depend on how the service is run.  Isolated: transactions  *)
(* exclude each other (SQLite); without it a sign-up may join the list     *)
(* although access was granted while it was on its way.  Sole: one         *)
(* scheduler runs; without it the cooldown between batches is not kept.    *)
(***************************************************************************)
EXTENDS Naturals, FiniteSets

CONSTANTS Projects, Emails, AgeCap, Batch, Window, Disabled,
          Isolated, Sole

Accounts == Projects \X Emails

VARIABLES
  user,     \* what is recorded of every account
  waiting,  \* the rows of the waiting list
  last,     \* how many rows every account has had on it
  cool      \* the age of every project's last batch

memberVars == <<user, waiting, last, cool>>

\* Every row there has been: the n-th row of an account has the id n.
RowsEver == UNION {{[acct |-> a, id |-> n] : n \in 1 .. last[a]} : a \in Accounts}

OnList(a) == {r \in waiting : r.acct = a}

Unknown == [known |-> FALSE, access |-> FALSE, by |-> "none", revoked |-> FALSE]
Signed  == [Unknown EXCEPT !.known = TRUE]
Granted(a, source) ==
  [user[a] EXCEPT !.access = TRUE, !.by = source, !.revoked = FALSE]

Init ==
  /\ user = [a \in Accounts |-> Unknown]
  /\ waiting = {}
  /\ last = [a \in Accounts |-> 0]
  /\ cool = [j \in Projects |-> AgeCap]

\* A sign-up puts an account on the list, once, and only one without access.
Enlist(a) ==
  /\ OnList(a) = {}
  /\ Isolated => ~user[a].access
  /\ user' = [user EXCEPT ![a] = IF user[a].known THEN @ ELSE Signed]
  /\ last' = [last EXCEPT ![a] = @ + 1]
  /\ waiting' = waiting \cup {[acct |-> a, id |-> last[a] + 1]}
  /\ UNCHANGED cool

\* A batch of one project is let in together, and not before its time, and all
\* its rows are off the list then.  They have all been on the list, but some may
\* have left it while the batch was on its way: their users are let in as well,
\* and whoever has joined the list again stays on it.
Promote(j, B) ==
  /\ j \notin Disabled
  /\ B # {} /\ Cardinality(B) <= Batch[j]
  /\ \A r \in B : r.acct[1] = j
  /\ Sole => cool[j] >= Window[j]
  /\ user' = [a \in Accounts |->
                IF \E r \in B : r.acct = a THEN Granted(a, "scheduler") ELSE user[a]]
  /\ waiting' = waiting \ B
  /\ \E age \in 0 .. AgeCap : cool' = [cool EXCEPT ![j] = age]
  /\ UNCHANGED last

\* An administrator's grant takes the account off the list.
AdminGrant(a) ==
  /\ user[a].known
  /\ user' = [user EXCEPT ![a] = Granted(a, "admin")]
  /\ \/ waiting' = waiting \ OnList(a)
     \/ ~Isolated /\ UNCHANGED waiting
  /\ UNCHANGED <<last, cool>>

Revoke(a) ==
  /\ user[a].known
  /\ user' = [user EXCEPT ![a].access = FALSE, ![a].revoked = TRUE]
  /\ UNCHANGED <<waiting, last, cool>>

Remove(r) ==
  /\ waiting' = waiting \ {r}
  /\ UNCHANGED <<user, last, cool>>

Tick ==
  /\ cool' = [j \in Projects |-> IF cool[j] < AgeCap THEN cool[j] + 1 ELSE AgeCap]
  /\ UNCHANGED <<user, waiting, last>>

Next ==
  \/ \E a \in Accounts : Enlist(a) \/ AdminGrant(a) \/ Revoke(a)
  \/ \E r \in waiting : Remove(r)
  \/ \E j \in Projects, B \in SUBSET RowsEver : Promote(j, B)
  \/ Tick

Spec == Init /\ [][Next]_memberVars
=============================================================================
