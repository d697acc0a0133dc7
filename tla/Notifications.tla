----------------------------- MODULE Notifications -----------------------------
(***************************************************************************)
(* Service.Send tells a tenant of an event on every channel that is on,    *)
(* one after the other.  On each channel the engine reads the event's      *)
(* suppression, sends unless one of the same key was sent less than the    *)
(* cooldown ago, and writes the suppression back.  The scheduler, requests *)
(* and other gateways call it at the same time; there is no lock.          *)
(***************************************************************************)
EXTENDS Integers

CONSTANTS
    Sends,
    Events,         \* tenant, type, resource and severity of an event
    TestEvent,      \* the event of the test endpoints
    Channels,       \* numbers of the channels, in the order that Send takes them
    Cooldown,       \* in ticks
    MaxNoticeTime

ASSUME NotificationsAssumption ==
    Cooldown \in Nat \ {0} /\ MaxNoticeTime \in Nat /\ Channels \subseteq Nat

VARIABLES
    noticeClock,
    supp,           \* notification_suppressions, by event and channel
    notice,
    told,           \* history: messages that reached their channel
    contended       \* history: keys for which calls overlapped or a step failed

noticeVars == <<noticeClock, supp, notice, told, contended>>

NoticeKeys == Events \X Channels
Never == -100
NoRow == [sent |-> Never, until |-> Never, count |-> 0]

\* A call that has not begun.
Unsent == [pc |-> "idle", event |-> TestEvent, err |-> FALSE, on |-> {}, left |-> {},
           channel |-> 0, tried |-> {}, now |-> Never, row |-> NoRow, sent |-> FALSE]

NoticeInit ==
    /\ noticeClock = 0
    /\ supp = [k \in NoticeKeys |-> NoRow]
    /\ notice = [s \in Sends |-> Unsent]
    /\ told = {}
    /\ contended = {}

Key(s) == <<notice[s].event, notice[s].channel>>
AtEngine(s) == notice[s].pc \in {"read", "send", "record", "suppress"}

-----------------------------------------------------------------------------
(* Service.Send *)

\* A tenant without a row, and an event that is switched off, are done at
\* once; a row that cannot be read is an error.
ServiceSend(s, e) ==
    /\ notice[s].pc = "idle"
    /\ \E err \in BOOLEAN, on \in SUBSET Channels :
         notice' = [notice EXCEPT ![s].pc = IF err \/ on = {} THEN "done" ELSE "resolve",
                      ![s].event = e, ![s].err = err, ![s].on = on, ![s].left = on]
    /\ UNCHANGED <<noticeClock, supp, told, contended>>

\* The next channel, or the end: errors are joined and do not stop the call.
AfterChannelStops(n, err) ==
    [n EXCEPT !.err = @ \/ err, !.tried = @ \cup {n.channel}, !.now = Never, !.row = NoRow,
              !.pc = IF err \/ n.left = {} THEN "done" ELSE "resolve"]
AfterChannel(n, err) ==
    [n EXCEPT !.err = @ \/ err, !.tried = @ \cup {n.channel}, !.now = Never, !.row = NoRow,
              !.pc = IF n.left = {} THEN "done" ELSE "resolve"]

\* The first channel that is left is c.
TakesChannel(n, c) == c \in n.left /\ \A d \in n.left : c <= d
Take(n, c) == [n EXCEPT !.channel = c, !.left = @ \ {c}]

\* The channel's secret; for e-mail also the members of its mailing list and
\* the provider.
ResolveFails(s) ==
    /\ notice[s].pc = "resolve"
    /\ \E c \in Channels :
         /\ TakesChannel(notice[s], c)
         /\ notice' = [notice EXCEPT ![s] = AfterChannel(Take(@, c), TRUE)]
    /\ UNCHANGED <<noticeClock, supp, told, contended>>

-----------------------------------------------------------------------------
(* Engine.Send *)

ShouldSend(row, now) ==
    /\ ~(row.sent # Never /\ now - row.sent < Cooldown)
    /\ ~(row.until # Never /\ now < row.until)

\* The time of the message is taken before the suppression is read.
EngineSend(s) ==
    /\ notice[s].pc = "resolve"
    /\ \E c \in Channels :
         LET key == <<notice[s].event, c>>
             beside == \E x \in Sends \ {s} : AtEngine(x) /\ Key(x) = key
         IN  /\ TakesChannel(notice[s], c)
             /\ notice' = [notice EXCEPT ![s] =
                             [Take(@, c) EXCEPT !.pc = "read", !.now = noticeClock]]
             /\ contended' = IF beside THEN contended \cup {key} ELSE contended
    /\ UNCHANGED <<noticeClock, supp, told>>

GetNotificationSuppression(s) ==
    LET row == supp[Key(s)]
    IN  /\ notice[s].pc = "read"
        /\ \/ notice' = [notice EXCEPT ![s].row = row,
                ![s].pc = IF ShouldSend(row, notice[s].now) THEN "send" ELSE "suppress"]
           \/ notice' = [notice EXCEPT ![s] = AfterChannel(@, TRUE)]
        /\ UNCHANGED <<noticeClock, supp, told, contended>>

\* The channel's service; an error may hide that the message arrived.
NotifierSend(s) ==
    /\ notice[s].pc = "send"
    /\ \E ok, arrived \in BOOLEAN :
         /\ ok => arrived
         /\ notice' = [notice EXCEPT ![s].pc = "record", ![s].sent = ok]
         /\ told' = IF ~arrived THEN told
                    ELSE told \cup {[key |-> Key(s), start |-> notice[s].now, by |-> s]}
         /\ contended' = IF arrived /\ ~ok THEN contended \cup {Key(s)} ELSE contended
    /\ UNCHANGED <<noticeClock, supp>>

\* BuildSuppression with what MergeSuppression takes from the row that was
\* read.
MergeSuppressionNone(row) == NoRow
MergeSuppression(row) == row

SentRow(row, now) == [MergeSuppression(row) EXCEPT !.sent = now, !.until = now + Cooldown]
FailedRowAsSent(row, now) == SentRow(row, now)
FailedRow(row, now) == MergeSuppression(row)
SuppressedRow(row) == [MergeSuppression(row) EXCEPT !.count = @ + 1]

Upsert(s, new, err) ==
    \/ /\ supp' = [supp EXCEPT ![Key(s)] = new]
       /\ notice' = [notice EXCEPT ![s] = AfterChannel(@, err)]
       /\ UNCHANGED <<noticeClock, told, contended>>
    \/ /\ notice' = [notice EXCEPT ![s] = AfterChannel(@, TRUE)]
       /\ contended' = contended \cup {Key(s)}
       /\ UNCHANGED <<noticeClock, supp, told>>

UpsertSent(s) ==
    /\ notice[s].pc = "record" /\ notice[s].sent
    /\ Upsert(s, SentRow(notice[s].row, notice[s].now), FALSE)
UpsertFailed(s) ==
    /\ notice[s].pc = "record" /\ ~notice[s].sent
    /\ Upsert(s, FailedRow(notice[s].row, notice[s].now), TRUE)
UpsertSuppressed(s) ==
    /\ notice[s].pc = "suppress"
    /\ Upsert(s, SuppressedRow(notice[s].row), FALSE)

NoticeTick ==
    /\ noticeClock < MaxNoticeTime
    /\ noticeClock' = noticeClock + 1
    /\ UNCHANGED <<supp, notice, told, contended>>

NoticeNext ==
    \/ NoticeTick
    \/ \E s \in Sends :
         \/ \E e \in Events : ServiceSend(s, e)
         \/ ResolveFails(s) \/ EngineSend(s)
         \/ GetNotificationSuppression(s) \/ NotifierSend(s)
         \/ UpsertSent(s) \/ UpsertFailed(s) \/ UpsertSuppressed(s)

NoticeSpec == NoticeInit /\ [][NoticeNext]_noticeVars

-----------------------------------------------------------------------------
(* Properties. *)

\* Whatever calls overlap and whatever fails, an event is held back only if
\* its channel was told of the same event less than the cooldown before: a
\* message that failed is never a reason.
HeldBackWasTold ==
    \A s \in Sends : notice[s].pc = "suppress" =>
        \E m \in told : m.key = Key(s) /\ notice[s].now - m.start < Cooldown

\* A channel that fails does not keep the event from the others.
EveryChannelTried ==
    \A s \in Sends :
        notice[s].pc = "done" /\ notice[s].tried # {} => notice[s].tried = notice[s].on

\* As long as calls for a key did not overlap and each had its suppression
\* written, the channel is told once in a cooldown, events that were held
\* back in between notwithstanding.
OnceIfUndisturbed ==
    \A m, n \in told : m.key = n.key /\ m.by # n.by /\ m.key \notin contended =>
        m.start - n.start >= Cooldown \/ n.start - m.start >= Cooldown

\* Whatever calls overlap and fail, an event is held back only if its
\* channel was told of it less than the cooldown before; undisturbed, a
\* channel is told once in a cooldown; and a channel that fails does not
\* keep the event from the others (Service.Send, Engine.Send).
NoticesArrive == HeldBackWasTold /\ OnceIfUndisturbed /\ EveryChannelTried

\* README: "suppression tracking (dedup + cooldown)".  A channel is told of an
\* event once in a cooldown.
OncePerCooldown ==
    \A m, n \in told : m.key = n.key /\ m.by # n.by =>
        m.start - n.start >= Cooldown \/ n.start - m.start >= Cooldown

\* docs/runbooks/incident-response.md: "Test delivery: `POST
\* /admin/tenants/:tenant_id/notifications/test/slack`".  A test that is
\* answered without error has reached its channels.
TestIsDelivered ==
    \A s \in Sends : notice[s].pc = "done" /\ notice[s].event = TestEvent /\ ~notice[s].err =>
        \A c \in notice[s].on : \E m \in told : m.by = s /\ m.key = <<TestEvent, c>>
=============================================================================
