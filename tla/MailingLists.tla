----------------------------- MODULE MailingLists -----------------------------
(***************************************************************************)
(* The mailing lists of tenants.  A list is a row of its own and one row   *)
(* per member.  Create and update are transactions of several statements   *)
(* at the isolation READ COMMITTED: a statement sees what is committed,    *)
(* and waits for rows that another transaction has written.  Names and     *)
(* descriptions are left out: a name that is taken is one of the reasons   *)
(* why a statement fails.                                                  *)
(***************************************************************************)
EXTENDS FiniteSets

CONSTANTS
    Requests,
    Lists,          \* identifiers of lists
    Emails,
    Tenants,
    Addressed,      \* pairs of the tenant and the list in a request's path
    None

\* What is assumed of the constants.
MailingListsAssumption == Addressed \subseteq Tenants \X Lists /\ None \notin Tenants

VARIABLES
    owner,          \* tenant of the lists that exist, or None
    members,        \* [Lists -> SUBSET Emails], committed
    given,          \* history: members as the last request gave them, and its tenant
    req

vars == <<owner, members, given, req>>

Init ==
    /\ owner = [l \in Lists |-> None]
    /\ members = [l \in Lists |-> {}]
    /\ given = [l \in Lists |-> [by |-> None, emails |-> {}]]
    /\ req = [r \in Requests |-> [pc |-> "idle"]]

Open(r) == req[r].pc \notin {"idle", "audit", "done"}
Others(r, l) == {x \in Requests \ {r} : Open(x) /\ req[x].list = l}
Answer(r, status) == req' = [req EXCEPT ![r].pc = "done", ![r].status = status]

Begin(r, op, t, l, emails) ==
    /\ req[r].pc = "idle"
    /\ req' = [req EXCEPT ![r] =
         [pc |-> "row", op |-> op, tenant |-> t, list |-> l, emails |-> emails, status |-> 0,
          holds |-> FALSE, deleted |-> {}, inserted |-> {}, existed |-> FALSE]]
    /\ UNCHANGED <<owner, members, given>>

\* Identifiers are random: nobody addresses a list before it is committed.
Known(l) == given[l].by # None

\* The identifier of a new list is a fresh one.
HandleMailingListCreate(r) ==
    \E t \in Tenants, l \in Lists, emails \in SUBSET Emails :
        /\ ~Known(l)
        /\ \A x \in Requests : req[x].pc # "idle" => req[x].list # l
        /\ Begin(r, "create", t, l, emails)
HandleMailingListUpdate(r) ==
    \E a \in Addressed, emails \in SUBSET Emails :
        Known(a[2]) /\ Begin(r, "update", a[1], a[2], emails)
HandleMailingListDelete(r) ==
    \E a \in Addressed : Known(a[2]) /\ Begin(r, "delete", a[1], a[2], {})

-----------------------------------------------------------------------------
(* Statements of the transactions. *)

\* The row of the list is locked if it is found, and until then waits for
\* whoever has it locked.
UpdateRowUnlocked(r) ==
    /\ req[r].pc = "row" /\ req[r].op = "update"
    /\ req' = [req EXCEPT ![r].pc = "delete"]
    /\ UNCHANGED <<owner, members, given>>
UpdateRow(r) ==
    LET found == owner[req[r].list] = req[r].tenant
    IN  /\ req[r].pc = "row" /\ req[r].op = "update"
        /\ found => \A x \in Others(r, req[r].list) : ~req[x].holds
        /\ req' = [req EXCEPT ![r].pc = "delete", ![r].holds = found]
        /\ UNCHANGED <<owner, members, given>>

\* Nobody sees a new row before the commit.
InsertRow(r) ==
    /\ req[r].pc = "row" /\ req[r].op = "create"
    /\ req' = [req EXCEPT ![r].pc = "insert", ![r].holds = TRUE]
    /\ UNCHANGED <<owner, members, given>>

\* By the list's identifier alone.
DeleteMembers(r) ==
    LET l == req[r].list
    IN  /\ req[r].pc = "delete"
        /\ \A x \in Others(r, l) : req[x].deleted \cap members[l] = {}
        /\ req' = [req EXCEPT ![r].pc = "insert", ![r].deleted = members[l]]
        /\ UNCHANGED <<owner, members, given>>

\* Members refer to their list, and are unique in it.
InsertMembersFree(r) ==
    LET l == req[r].list
        emails == req[r].emails
        fits == emails \cap (members[l] \ req[r].deleted) = {}
    IN  /\ req[r].pc = "insert"
        /\ \A x \in Others(r, l) : req[x].inserted \cap emails = {}
        /\ IF fits THEN req' = [req EXCEPT ![r].pc = "commit", ![r].inserted = emails]
           ELSE Answer(r, 500)
        /\ UNCHANGED <<owner, members, given>>
InsertMembers(r) ==
    LET l == req[r].list
        emails == req[r].emails
        fits == /\ emails # {} => owner[l] # None \/ req[r].op = "create"
                /\ emails \cap (members[l] \ req[r].deleted) = {}
    IN  /\ req[r].pc = "insert"
        /\ \A x \in Others(r, l) : req[x].inserted \cap emails = {}
        /\ IF fits THEN req' = [req EXCEPT ![r].pc = "commit", ![r].inserted = emails]
           ELSE Answer(r, 500)
        /\ UNCHANGED <<owner, members, given>>

Commit(r) ==
    LET l == req[r].list
    IN  /\ req[r].pc = "commit"
        /\ owner' = IF req[r].op = "create" THEN [owner EXCEPT ![l] = req[r].tenant] ELSE owner
        /\ members' = [members EXCEPT ![l] = (@ \ req[r].deleted) \cup req[r].inserted]
        /\ given' = [given EXCEPT ![l] = [by |-> req[r].tenant, emails |-> req[r].emails]]
        /\ req' = [req EXCEPT ![r].pc = "audit", ![r].existed = owner'[l] # None]

\* DeleteMailingList is one statement: it waits for transactions that have
\* locked the list, by writing it or a member of it, and takes the members
\* with the list.
DeleteMailingList(r) ==
    LET l == req[r].list
        found == owner[l] = req[r].tenant
    IN  /\ req[r].pc = "row" /\ req[r].op = "delete"
        /\ found => \A x \in Others(r, l) : ~req[x].holds /\ req[x].inserted \cup req[x].deleted = {}
        /\ owner' = IF found THEN [owner EXCEPT ![l] = None] ELSE owner
        /\ members' = IF found THEN [members EXCEPT ![l] = {}] ELSE members
        /\ req' = [req EXCEPT ![r].pc = "audit", ![r].existed = found]
        /\ UNCHANGED given

\* A statement fails, or the database ends one of two transactions that wait
\* for each other: everything is rolled back.
Fail(r) == Open(r) /\ Answer(r, 500) /\ UNCHANGED <<owner, members, given>>

EmitAuditEvent(r) ==
    /\ req[r].pc = "audit"
    /\ \E status \in {IF req[r].op = "create" THEN 201 ELSE 204, 500} : Answer(r, status)
    /\ UNCHANGED <<owner, members, given>>

Next ==
    \E r \in Requests :
        \/ HandleMailingListCreate(r) \/ HandleMailingListUpdate(r) \/ HandleMailingListDelete(r)
        \/ UpdateRow(r) \/ InsertRow(r) \/ DeleteMembers(r) \/ InsertMembers(r) \/ Commit(r)
        \/ DeleteMailingList(r) \/ Fail(r) \/ EmitAuditEvent(r)

Spec == Init /\ [][Next]_vars

-----------------------------------------------------------------------------
(* Properties. *)

\* A list has the members that one request gave it, never a mixture of those
\* of two updates that ran at the same time.
MembersOfOneRequest == \A l \in Lists : owner[l] # None => members[l] = given[l].emails

\* A list that is gone has no members: none is left over by an update that
\* ran at the same time as its deletion.
MembersHaveList == \A l \in Lists : owner[l] = None => members[l] = {}

\* README: "Each tenant has isolated: ... Notification channel configuration".
\* Members of a list are given by requests of the list's own tenant.
OwnerGivesMembers == \A l \in Lists : owner[l] # None => given[l].by = owner[l]
=============================================================================
