------------------------- MODULE Notifications_proofs -------------------------
(***************************************************************************)
(* Alerts reach every channel once per cooldown, for any number of senders, *)
(* keys and channels.  NoticesArrive is not inductive: that a quiet key was *)
(* told to a channel follows only from what the row of suppressions and the *)
(* sends that have read it say of each other.                              *)
(***************************************************************************)
EXTENDS Notifications, TLAPS

\* The provers that try a leaf which names none, and their time.
USE SMTT(15), ZenonT(30)

NoticeTimes == Nat \cup {Never}
SuppressionRows == [sent : NoticeTimes, until : NoticeTimes, count : Nat]
NoticeStates == {"idle", "resolve", "read", "send", "record", "suppress", "done"}
Notices ==
    [pc : NoticeStates, event : Events \cup {TestEvent}, err : BOOLEAN, on : SUBSET Channels,
     left : SUBSET Channels, channel : Nat, tried : SUBSET Nat, now : NoticeTimes,
     row : SuppressionRows, sent : BOOLEAN]
Deliveries == [key : NoticeKeys, start : Nat, by : Sends]

NoticeTypes ==
    /\ noticeClock \in Nat
    /\ supp \in [NoticeKeys -> SuppressionRows]
    /\ notice \in [Sends -> Notices]
    /\ told \subseteq Deliveries

\* A row says when its channel was told.
RowOK(row, k) ==
    /\ row.sent # Never => \E m \in told : m.key = k /\ m.start = row.sent
    /\ row.until # Never => row.sent # Never /\ row.until = row.sent + Cooldown

\* A call that has sent its message and not yet written the suppression.
Unrecorded(s) == notice[s].pc = "record" /\ notice[s].sent
HasRow(s) == notice[s].pc \in {"send", "record", "suppress"}

NoticeOK(s) ==
    LET n == notice[s] IN
    /\ n.pc # "idle" => n.event \in Events
    /\ n.pc = "idle" => n.tried = {}
    /\ n.pc = "resolve" => n.left # {} /\ n.on = n.tried \cup n.left
    /\ n.pc = "done" /\ n.tried # {} => n.tried = n.on
    /\ AtEngine(s) =>
         n.channel \in Channels /\ n.now \in Nat /\ n.on = n.tried \cup {n.channel} \cup n.left
    /\ HasRow(s) => RowOK(n.row, Key(s)) /\ (ShouldSend(n.row, n.now) <=> n.pc # "suppress")
    /\ Unrecorded(s) => \E m \in told : m.key = Key(s) /\ m.start = n.now

\* Calls for a key that is not contended are at the engine one at a time, so
\* that the row such a call has read is the one it replaces.
OneAtEngine ==
    \A s, x \in Sends :
        s # x /\ AtEngine(s) /\ AtEngine(x) /\ Key(s) = Key(x) => Key(s) \in contended
RowIsCurrent == \A s \in Sends : HasRow(s) /\ Key(s) \notin contended => notice[s].row = supp[Key(s)]
ToldIsRecorded ==
    \A m \in told : m.key \notin contended =>
        \/ m.start <= supp[m.key].sent
        \/ Unrecorded(m.by) /\ Key(m.by) = m.key /\ m.start = notice[m.by].now

NoticeInv ==
    /\ NoticeTypes
    /\ \A k \in NoticeKeys : RowOK(supp[k], k)
    /\ \A s \in Sends : NoticeOK(s)
    /\ OneAtEngine
    /\ RowIsCurrent
    /\ ToldIsRecorded
    /\ OnceIfUndisturbed

LEMMA NoticeConstants == Cooldown \in Nat /\ Cooldown >= 1 /\ Channels \subseteq Nat /\ Never = -100
  BY NotificationsAssumption DEF Never

LEMMA InitNoticeInv == NoticeInit => NoticeInv
<1> SUFFICES ASSUME NoticeInit PROVE NoticeInv
    OBVIOUS
<1>1. NoRow \in SuppressionRows /\ NoRow.sent = Never /\ NoRow.until = Never
    BY DEF NoRow, SuppressionRows, NoticeTimes
<1>2. Unsent \in Notices /\ Unsent.pc = "idle" /\ Unsent.tried = {}
    BY <1>1 DEF Unsent, Notices, NoticeStates, NoticeTimes
<1>3. /\ \A k \in NoticeKeys : supp[k] = NoRow
      /\ \A s \in Sends : notice[s] = Unsent
      /\ told = {}
    BY DEF NoticeInit
<1>4. NoticeTypes
    BY <1>1, <1>2 DEF NoticeInit, NoticeTypes
<1>5. \A k \in NoticeKeys : RowOK(supp[k], k)
    BY <1>1, <1>3 DEF RowOK
<1>6. \A s \in Sends : ~AtEngine(s) /\ ~HasRow(s) /\ ~Unrecorded(s)
    BY ZenonT(30), <1>2, <1>3 DEF AtEngine, HasRow, Unrecorded
<1>7. \A s \in Sends : NoticeOK(s)
    BY ZenonT(30), <1>2, <1>3, <1>6 DEF NoticeOK
<1>8. OneAtEngine /\ RowIsCurrent
    BY <1>6 DEF OneAtEngine, RowIsCurrent
<1>9. ToldIsRecorded /\ OnceIfUndisturbed
    BY <1>3 DEF ToldIsRecorded, OnceIfUndisturbed
<1> QED BY <1>4, <1>5, <1>7, <1>8, <1>9 DEF NoticeInv

\* What a row says stays true.
LEMMA RowStaysOK ==
    ASSUME NEW row, NEW k, RowOK(row, k), told \subseteq told' PROVE RowOK(row, k)'
  BY DEF RowOK

\* A step of one call, which writes no row but that of its own key and only
\* while it is at the engine, against what it leaves alone.
LEMMA OneNotice ==
    ASSUME NoticeInv, NEW s \in Sends, NEW r \in Notices, notice' = [notice EXCEPT ![s] = r],
           noticeClock' \in Nat, supp' \in [NoticeKeys -> SuppressionRows],
           told \subseteq told', told' \subseteq Deliveries, contended \subseteq contended',
           \A k \in NoticeKeys : supp'[k] = supp[k] \/ (AtEngine(s) /\ k = Key(s)),
           \A k \in NoticeKeys : supp'[k] = supp[k] \/ RowOK(supp[k], k)',
           NoticeOK(s)',
           \A x \in Sends \ {s} : AtEngine(s)' /\ AtEngine(x) /\ Key(x) = Key(s)' => Key(x) \in contended',
           HasRow(s)' /\ Key(s)' \notin contended' => r.row = supp'[Key(s)'],
           ToldIsRecorded', OnceIfUndisturbed'
    PROVE  NoticeInv'
<1>1. notice'[s] = r /\ \A x \in Sends : x # s => notice'[x] = notice[x]
    BY DEF NoticeInv, NoticeTypes
<1>2. NoticeTypes'
    BY DEF NoticeInv, NoticeTypes
<1>3. \A k \in NoticeKeys : RowOK(supp[k], k)'
    BY RowStaysOK DEF NoticeInv
<1>4. ASSUME NEW x \in Sends, x # s
      PROVE  /\ Key(x)' = Key(x) /\ (AtEngine(x)' <=> AtEngine(x)) /\ (HasRow(x)' <=> HasRow(x))
             /\ Unrecorded(x)' <=> Unrecorded(x)
    BY <1>1, <1>4 DEF Key, AtEngine, HasRow, Unrecorded
<1>5. ASSUME NEW x \in Sends, x # s PROVE NoticeOK(x)'
  <2>1. NoticeOK(x) /\ notice'[x] = notice[x]
      BY <1>1, <1>5 DEF NoticeInv
  <2>2. HasRow(x) => RowOK(notice[x].row, Key(x))'
    <3>1. HasRow(x) => RowOK(notice[x].row, Key(x))
        BY <2>1 DEF NoticeOK
    <3> QED BY <2>1, <3>1, <1>4, <1>5 DEF RowOK
  <2> QED BY <1>4, <1>5, <2>1, <2>2 DEF NoticeOK
<1>6. OneAtEngine'
  <2> SUFFICES ASSUME NEW y \in Sends, NEW x \in Sends, y # x, AtEngine(y)', AtEngine(x)',
                      Key(y)' = Key(x)'
               PROVE  Key(y)' \in contended'
      BY DEF OneAtEngine
  <2>1. CASE y # s /\ x # s
      BY <1>4, <2>1 DEF NoticeInv, OneAtEngine
  <2>2. CASE y = s
      BY <1>4, <2>2
  <2>3. CASE x = s
      BY <1>4, <2>3
  <2> QED BY <2>1, <2>2, <2>3
<1>7. RowIsCurrent'
  <2> SUFFICES ASSUME NEW x \in Sends, HasRow(x)', Key(x)' \notin contended'
               PROVE  notice'[x].row = supp'[Key(x)']
      BY DEF RowIsCurrent
  <2>1. CASE x = s
      BY <1>1, <2>1
  <2>2. CASE x # s
    <3>1. HasRow(x) /\ Key(x)' = Key(x) /\ Key(x) \notin contended
        BY <1>4, <2>2
    <3>2. AtEngine(x) /\ NoticeOK(x)
        BY <3>1 DEF HasRow, AtEngine, NoticeInv
    <3>3. Key(x) \in NoticeKeys
        BY <3>2 DEF NoticeOK, Key, NoticeKeys, AtEngine
    <3>4. supp'[Key(x)] = supp[Key(x)]
        BY <2>2, <3>1, <3>2, <3>3 DEF NoticeInv, OneAtEngine
    <3> QED BY <1>1, <2>2, <3>1, <3>4 DEF NoticeInv, RowIsCurrent
  <2> QED BY <2>1, <2>2
<1> QED BY <1>2, <1>3, <1>5, <1>6, <1>7 DEF NoticeInv

\* Steps of a call that tell nobody and write no row.
LEMMA QuietTold ==
    ASSUME NoticeInv, NEW s \in Sends, ~Unrecorded(s), UNCHANGED <<supp, told>>,
           \A x \in Sends : x # s => notice'[x] = notice[x], contended \subseteq contended'
    PROVE  ToldIsRecorded' /\ OnceIfUndisturbed'
<1>1. ASSUME NEW x \in Sends, x # s
      PROVE  Key(x)' = Key(x) /\ (Unrecorded(x)' <=> Unrecorded(x)) /\ notice'[x] = notice[x]
    BY <1>1 DEF Key, Unrecorded
<1>2. \A m \in told : m.by \in Sends
    BY DEF NoticeInv, NoticeTypes, Deliveries
<1>3. ToldIsRecorded'
    BY <1>1, <1>2 DEF NoticeInv, ToldIsRecorded
<1>4. OnceIfUndisturbed'
    BY DEF NoticeInv, OnceIfUndisturbed
<1> QED BY <1>3, <1>4

LEMMA AfterChannelIs ==
    ASSUME NEW n \in Notices, NEW err \in BOOLEAN, NEW r, r = AfterChannel(n, err),
           n.on = n.tried \cup {n.channel} \cup n.left
    PROVE  /\ r \in Notices /\ r.pc \in {"done", "resolve"} /\ r.event = n.event
           /\ r.pc = "resolve" => r.left # {} /\ r.on = r.tried \cup r.left
           /\ r.pc = "done" => r.tried = r.on
<1>1. (n.err \/ err) \in BOOLEAN
    BY ZenonT(30)
<1>2. n.tried \cup {n.channel} \in SUBSET Nat
    BY DEF Notices
<1>3. NoRow \in SuppressionRows /\ Never \in NoticeTimes
    BY DEF NoRow, SuppressionRows, NoticeTimes
<1>4. /\ r \in Notices /\ r.event = n.event /\ r.left = n.left /\ r.on = n.on
      /\ r.tried = n.tried \cup {n.channel}
      /\ r.pc = IF n.left = {} THEN "done" ELSE "resolve"
    BY ZenonT(30), <1>1, <1>2, <1>3 DEF AfterChannel, Notices, NoticeStates
<1> QED BY <1>4

LEMMA TakeIs ==
    ASSUME NEW n \in Notices, NEW c \in Channels, TakesChannel(n, c), n.on = n.tried \cup n.left,
           NEW r, r = Take(n, c)
    PROVE  /\ r \in Notices /\ r.event = n.event /\ r.channel = c /\ r.pc = n.pc
           /\ r.tried = n.tried /\ r.on = n.on /\ r.left = n.left \ {c}
           /\ r.on = r.tried \cup {r.channel} \cup r.left
<1>1. n.left \ {c} \in SUBSET Channels /\ c \in Nat /\ c \in n.left
    BY NoticeConstants DEF Notices, TakesChannel
<1>2. /\ r \in Notices /\ r.event = n.event /\ r.channel = c /\ r.pc = n.pc
      /\ r.tried = n.tried /\ r.on = n.on /\ r.left = n.left \ {c}
    BY ZenonT(30), <1>1 DEF Take, Notices
<1> QED BY <1>1, <1>2

\* A call that is done with a channel, or does not reach one.
LEMMA LeavesEngine ==
    ASSUME NoticeInv, NEW s \in Sends, NEW r \in Notices, notice' = [notice EXCEPT ![s] = r],
           r.pc \in {"done", "resolve"}, r.event \in Events,
           r.pc = "resolve" => r.left # {} /\ r.on = r.tried \cup r.left,
           r.pc = "done" => r.tried \in {{}, r.on},
           noticeClock' = noticeClock, told' = told, contended \subseteq contended',
           supp' \in [NoticeKeys -> SuppressionRows],
           \A k \in NoticeKeys : supp'[k] = supp[k] \/ (AtEngine(s) /\ k = Key(s)),
           \A k \in NoticeKeys : supp'[k] = supp[k] \/ RowOK(supp[k], k)',
           ToldIsRecorded'
    PROVE  NoticeInv'
<1>1. notice'[s] = r
    BY DEF NoticeInv, NoticeTypes
<1>2. ~AtEngine(s)' /\ ~HasRow(s)' /\ ~Unrecorded(s)'
    BY <1>1 DEF AtEngine, HasRow, Unrecorded
<1>3. NoticeOK(s)'
    BY <1>1, <1>2 DEF NoticeOK
<1>4. OnceIfUndisturbed'
    BY DEF NoticeInv, OnceIfUndisturbed
<1>5. noticeClock' \in Nat /\ told \subseteq told' /\ told' \subseteq Deliveries
    BY DEF NoticeInv, NoticeTypes
<1> QED BY ZenonT(30), <1>2, <1>3, <1>4, <1>5, OneNotice

LEMMA ServiceSendKeeps ==
    ASSUME NoticeInv, NEW s \in Sends, NEW e \in Events, ServiceSend(s, e) PROVE NoticeInv'
<1>1. PICK err \in BOOLEAN, on \in SUBSET Channels :
         notice' = [notice EXCEPT ![s].pc = IF err \/ on = {} THEN "done" ELSE "resolve",
                      ![s].event = e, ![s].err = err, ![s].on = on, ![s].left = on]
    BY ZenonT(30) DEF ServiceSend
<1> DEFINE n == notice[s]
           p == IF err \/ on = {} THEN "done" ELSE "resolve"
           r == [n EXCEPT !.pc = p, !.event = e, !.err = err, !.on = on, !.left = on]
<1>2. /\ n \in Notices /\ n.pc = "idle" /\ n.tried = {}
      /\ UNCHANGED <<noticeClock, supp, told, contended>>
    BY ZenonT(30) DEF ServiceSend, NoticeInv, NoticeTypes, NoticeOK
<1>3. notice' = [notice EXCEPT ![s] = r]
    BY <1>1, ZenonT(30) DEF NoticeInv, NoticeTypes
<1>4. p \in {"done", "resolve"} /\ (p = "resolve" => on # {})
    BY ZenonT(30)
<1>5. p \in NoticeStates
    BY <1>4 DEF NoticeStates
<1> HIDE DEF p, n
<1>6. /\ r \in Notices /\ r.pc = p /\ r.event = e /\ r.on = on /\ r.left = on /\ r.tried = {}
    BY ZenonT(30), <1>2, <1>5 DEF Notices
<1> HIDE DEF r
<1>7. ~Unrecorded(s) /\ \A x \in Sends : x # s => notice'[x] = notice[x]
    BY <1>2, <1>3 DEF Unrecorded, NoticeInv, NoticeTypes, n
<1>8. ToldIsRecorded'
    BY <1>2, <1>7, QuietTold
<1> QED BY ZenonT(30), <1>2, <1>3, <1>4, <1>6, <1>8, LeavesEngine DEF NoticeInv, NoticeTypes

LEMMA ResolveFailsKeeps ==
    ASSUME NoticeInv, NEW s \in Sends, ResolveFails(s) PROVE NoticeInv'
<1>1. PICK c \in Channels : /\ TakesChannel(notice[s], c)
                            /\ notice' = [notice EXCEPT ![s] = AfterChannel(Take(@, c), TRUE)]
    BY ZenonT(30) DEF ResolveFails
<1>2. /\ notice[s] \in Notices /\ notice[s].pc = "resolve" /\ notice[s].event \in Events
      /\ notice[s].on = notice[s].tried \cup notice[s].left
      /\ UNCHANGED <<noticeClock, supp, told, contended>>
    BY DEF ResolveFails, NoticeInv, NoticeTypes, NoticeOK
<1> DEFINE n == Take(notice[s], c)
           r == AfterChannel(n, TRUE)
<1>3. n \in Notices /\ n.event = notice[s].event /\ n.on = n.tried \cup {n.channel} \cup n.left
    BY <1>1, <1>2, TakeIs
<1>4. notice' = [notice EXCEPT ![s] = r]
    BY <1>1
<1> HIDE DEF n
<1>5. /\ r \in Notices /\ r.pc \in {"done", "resolve"} /\ r.event = n.event
      /\ r.pc = "resolve" => r.left # {} /\ r.on = r.tried \cup r.left
      /\ r.pc = "done" => r.tried = r.on
  <2>1. TRUE \in BOOLEAN
      BY ZenonT(30)
  <2> QED BY ZenonT(30), <1>3, <2>1, AfterChannelIs
<1> HIDE DEF r
<1>6. ~Unrecorded(s) /\ \A x \in Sends : x # s => notice'[x] = notice[x]
    BY <1>2, <1>4 DEF Unrecorded, NoticeInv, NoticeTypes
<1>7. ToldIsRecorded'
    BY <1>2, <1>6, QuietTold
<1> QED BY ZenonT(30), <1>2, <1>3, <1>4, <1>5, <1>7, LeavesEngine DEF NoticeInv, NoticeTypes

LEMMA EngineSendKeeps ==
    ASSUME NoticeInv, NEW s \in Sends, EngineSend(s) PROVE NoticeInv'
<1>1. PICK c \in Channels :
         /\ TakesChannel(notice[s], c)
         /\ notice' = [notice EXCEPT ![s] = [Take(@, c) EXCEPT !.pc = "read", !.now = noticeClock]]
         /\ contended' = IF \E x \in Sends \ {s} : AtEngine(x) /\ Key(x) = <<notice[s].event, c>>
                         THEN contended \cup {<<notice[s].event, c>>} ELSE contended
    BY ZenonT(30) DEF EngineSend
<1>2. /\ notice[s] \in Notices /\ notice[s].pc = "resolve" /\ notice[s].event \in Events
      /\ notice[s].on = notice[s].tried \cup notice[s].left /\ noticeClock \in Nat
      /\ UNCHANGED <<noticeClock, supp, told>>
    BY DEF EngineSend, NoticeInv, NoticeTypes, NoticeOK
<1> DEFINE n == Take(notice[s], c)
           r == [n EXCEPT !.pc = "read", !.now = noticeClock]
<1>3. /\ n \in Notices /\ n.event = notice[s].event /\ n.channel = c
      /\ n.on = n.tried \cup {n.channel} \cup n.left
    BY <1>1, <1>2, TakeIs
<1>4. notice' = [notice EXCEPT ![s] = r]
    BY <1>1
<1> HIDE DEF n
<1>5. /\ r \in Notices /\ r.pc = "read" /\ r.event = n.event /\ r.channel = n.channel
      /\ r.now = noticeClock /\ r.on = n.on /\ r.tried = n.tried /\ r.left = n.left
    BY ZenonT(30), <1>2, <1>3 DEF Notices, NoticeStates, NoticeTimes
<1> HIDE DEF r
<1>6. notice'[s] = r /\ \A x \in Sends : x # s => notice'[x] = notice[x]
    BY <1>4 DEF NoticeInv, NoticeTypes
<1>7. Key(s)' = <<notice[s].event, c>> /\ ~HasRow(s)' /\ ~Unrecorded(s)' /\ ~Unrecorded(s)
    BY <1>2, <1>3, <1>5, <1>6 DEF Key, HasRow, Unrecorded
<1>8. contended \subseteq contended'
    BY <1>1
<1>9. ToldIsRecorded' /\ OnceIfUndisturbed'
    BY <1>2, <1>6, <1>7, <1>8, QuietTold
<1>10. NoticeOK(s)'
    BY <1>2, <1>3, <1>5, <1>6, <1>7 DEF NoticeOK, AtEngine
<1>11. \A x \in Sends \ {s} : AtEngine(x) /\ Key(x) = Key(s)' => Key(x) \in contended'
    BY <1>1, <1>7
<1>12. /\ noticeClock' \in Nat /\ supp' \in [NoticeKeys -> SuppressionRows]
       /\ told \subseteq told' /\ told' \subseteq Deliveries
    BY <1>2 DEF NoticeInv, NoticeTypes
<1> QED BY ZenonT(30), <1>2, <1>4, <1>5, <1>7, <1>8, <1>9, <1>10, <1>11, <1>12, OneNotice

\* What is known of a call that is at the engine.
LEMMA EngineFacts ==
    ASSUME NoticeInv, NEW s \in Sends, AtEngine(s)
    PROVE  /\ notice[s] \in Notices /\ notice[s].event \in Events /\ notice[s].channel \in Channels
           /\ notice[s].now \in Nat /\ Key(s) \in NoticeKeys
           /\ notice[s].on = notice[s].tried \cup {notice[s].channel} \cup notice[s].left
           /\ supp[Key(s)] \in SuppressionRows /\ RowOK(supp[Key(s)], Key(s))
           /\ notice[s].row \in SuppressionRows
<1>1. NoticeOK(s) /\ notice[s] \in Notices
    BY DEF NoticeInv, NoticeTypes
<1>2. /\ notice[s].event \in Events /\ notice[s].channel \in Channels /\ notice[s].now \in Nat
      /\ notice[s].on = notice[s].tried \cup {notice[s].channel} \cup notice[s].left
    BY <1>1 DEF NoticeOK, AtEngine
<1>3. Key(s) \in NoticeKeys
    BY <1>2 DEF Key, NoticeKeys
<1>4. notice[s].row \in SuppressionRows
    BY <1>1 DEF Notices
<1> QED BY <1>1, <1>2, <1>3, <1>4 DEF NoticeInv, NoticeTypes

\* The call leaves a channel, having written the row new or nothing.
LEMMA ChannelDone ==
    ASSUME NoticeInv, NEW s \in Sends, AtEngine(s), NEW err \in BOOLEAN,
           notice' = [notice EXCEPT ![s] = AfterChannel(@, err)],
           noticeClock' = noticeClock, told' = told, contended \subseteq contended',
           supp' \in [NoticeKeys -> SuppressionRows],
           \A k \in NoticeKeys : k # Key(s) => supp'[k] = supp[k],
           RowOK(supp[Key(s)], Key(s))' \/ supp' = supp,
           ToldIsRecorded'
    PROVE  NoticeInv'
<1> DEFINE r == AfterChannel(notice[s], err)
<1>1. notice' = [notice EXCEPT ![s] = r]
    OBVIOUS
<1>2. /\ r \in Notices /\ r.pc \in {"done", "resolve"} /\ r.event = notice[s].event
      /\ r.pc = "resolve" => r.left # {} /\ r.on = r.tried \cup r.left
      /\ r.pc = "done" => r.tried = r.on
    BY EngineFacts, AfterChannelIs
<1> HIDE DEF r
<1>3. notice[s].event \in Events /\ Key(s) \in NoticeKeys
    BY EngineFacts
<1>4. \A k \in NoticeKeys : supp'[k] = supp[k] \/ RowOK(supp[k], k)'
  <2> SUFFICES ASSUME NEW k \in NoticeKeys, supp'[k] # supp[k] PROVE RowOK(supp[k], k)'
      OBVIOUS
  <2>1. k = Key(s)
      OBVIOUS
  <2>2. RowOK(supp[Key(s)], Key(s))'
      OBVIOUS
  <2>3. Key(s)' = Key(s)
    <3>1. notice'[s] = r /\ r.channel = notice[s].channel
        BY <1>1, EngineFacts DEF NoticeInv, NoticeTypes, r, AfterChannel, Notices
    <3> QED BY <1>2, <3>1 DEF Key
  <2> QED BY <2>1, <2>2, <2>3 DEF RowOK
<1> QED BY ZenonT(30), <1>1, <1>2, <1>3, <1>4, LeavesEngine

LEMMA GetNotificationSuppressionKeeps ==
    ASSUME NoticeInv, NEW s \in Sends, GetNotificationSuppression(s) PROVE NoticeInv'
<1>1. /\ notice[s].pc = "read" /\ AtEngine(s) /\ ~Unrecorded(s)
      /\ UNCHANGED <<noticeClock, supp, told, contended>>
    BY DEF GetNotificationSuppression, AtEngine, Unrecorded
<1>2. CASE notice' = [notice EXCEPT ![s] = AfterChannel(@, TRUE)]
  <2>1. \A x \in Sends : x # s => notice'[x] = notice[x]
      BY <1>2 DEF NoticeInv, NoticeTypes
  <2>2. ToldIsRecorded'
      BY <1>1, <2>1, QuietTold
  <2>3. TRUE \in BOOLEAN
      BY ZenonT(30)
  <2> QED BY ZenonT(30), <1>1, <1>2, <2>2, <2>3, ChannelDone DEF NoticeInv, NoticeTypes
<1>3. CASE notice' = [notice EXCEPT ![s].row = supp[Key(s)],
                ![s].pc = IF ShouldSend(supp[Key(s)], notice[s].now) THEN "send" ELSE "suppress"]
  <2> DEFINE p == IF ShouldSend(supp[Key(s)], notice[s].now) THEN "send" ELSE "suppress"
             r == [notice[s] EXCEPT !.row = supp[Key(s)], !.pc = p]
  <2>1. notice' = [notice EXCEPT ![s] = r]
      BY ZenonT(30), <1>3 DEF NoticeInv, NoticeTypes
  <2>2. p \in {"send", "suppress"} /\ (ShouldSend(supp[Key(s)], notice[s].now) <=> p # "suppress")
      OBVIOUS
  <2> HIDE DEF p
  <2>3. /\ r \in Notices /\ r.pc = p /\ r.row = supp[Key(s)] /\ r.event = notice[s].event
        /\ r.channel = notice[s].channel /\ r.now = notice[s].now /\ r.on = notice[s].on
        /\ r.tried = notice[s].tried /\ r.left = notice[s].left
      BY ZenonT(30), <1>1, <2>2, EngineFacts DEF Notices, NoticeStates
  <2> HIDE DEF r
  <2>4. notice'[s] = r /\ \A x \in Sends : x # s => notice'[x] = notice[x]
      BY <2>1 DEF NoticeInv, NoticeTypes
  <2>5. Key(s)' = Key(s) /\ AtEngine(s)' /\ ~Unrecorded(s)'
      BY <2>2, <2>3, <2>4 DEF Key, AtEngine, Unrecorded
  <2>6. RowOK(supp[Key(s)], Key(s))
      BY <1>1, EngineFacts
  <2>7. RowOK(notice[s].row, Key(s))'
      BY ZenonT(30), <1>1, <2>3, <2>4, <2>5, <2>6 DEF RowOK
  <2>8. NoticeOK(s)'
      BY <1>1, <2>2, <2>3, <2>4, <2>5, <2>7, EngineFacts, Zenon DEF NoticeOK, ShouldSend
  <2>9. ToldIsRecorded' /\ OnceIfUndisturbed'
      BY <1>1, <2>4, QuietTold
  <2>10. \A x \in Sends \ {s} : AtEngine(x) /\ Key(x) = Key(s)' => Key(x) \in contended'
      BY <1>1, <2>5 DEF NoticeInv, OneAtEngine
  <2>11. /\ noticeClock' \in Nat /\ supp' \in [NoticeKeys -> SuppressionRows]
         /\ told \subseteq told' /\ told' \subseteq Deliveries /\ contended \subseteq contended'
      BY <1>1 DEF NoticeInv, NoticeTypes
  <2>12. r.row = supp'[Key(s)']
      BY <1>1, <2>3, <2>5
  <2> QED BY ZenonT(30), <1>1, <2>1, <2>3, <2>8, <2>9, <2>10, <2>11, <2>12, OneNotice
<1> QED BY ZenonT(30), <1>2, <1>3 DEF GetNotificationSuppression

\* A message for a key that is not contended comes a cooldown after all the
\* others: the row that allowed it names the last of them.
LEMMA NotifierSendKeeps ==
    ASSUME NoticeInv, NEW s \in Sends, NotifierSend(s) PROVE NoticeInv'
<1>1. PICK ok \in BOOLEAN, arrived \in BOOLEAN :
         /\ ok => arrived
         /\ notice' = [notice EXCEPT ![s].pc = "record", ![s].sent = ok]
         /\ told' = IF ~arrived THEN told
                    ELSE told \cup {[key |-> Key(s), start |-> notice[s].now, by |-> s]}
         /\ contended' = IF arrived /\ ~ok THEN contended \cup {Key(s)} ELSE contended
    BY ZenonT(30) DEF NotifierSend
<1>2. /\ notice[s].pc = "send" /\ AtEngine(s) /\ HasRow(s) /\ ~Unrecorded(s)
      /\ UNCHANGED <<noticeClock, supp>>
    BY DEF NotifierSend, AtEngine, HasRow, Unrecorded
<1>3. /\ notice[s] \in Notices /\ notice[s].event \in Events /\ notice[s].channel \in Channels
      /\ notice[s].now \in Nat /\ Key(s) \in NoticeKeys
      /\ notice[s].on = notice[s].tried \cup {notice[s].channel} \cup notice[s].left
      /\ supp[Key(s)] \in SuppressionRows
    BY <1>2, EngineFacts
<1>4. RowOK(notice[s].row, Key(s)) /\ ShouldSend(notice[s].row, notice[s].now)
    BY <1>2 DEF NoticeInv, NoticeOK
<1> DEFINE r == [notice[s] EXCEPT !.pc = "record", !.sent = ok]
           m == [key |-> Key(s), start |-> notice[s].now, by |-> s]
<1>5. notice' = [notice EXCEPT ![s] = r]
    BY ZenonT(30), <1>1 DEF NoticeInv, NoticeTypes
<1>6. /\ r \in Notices /\ r.pc = "record" /\ r.row = notice[s].row /\ r.event = notice[s].event
      /\ r.channel = notice[s].channel /\ r.now = notice[s].now /\ r.on = notice[s].on
      /\ r.tried = notice[s].tried /\ r.left = notice[s].left
    BY ZenonT(30), <1>3 DEF Notices, NoticeStates
<1>7. r.sent = ok
    BY <1>3, ZenonT(30) DEF Notices
<1> HIDE DEF r
<1>8. notice'[s] = r /\ \A x \in Sends : x # s => notice'[x] = notice[x]
    BY <1>5 DEF NoticeInv, NoticeTypes
<1>9. /\ Key(s)' = Key(s) /\ AtEngine(s)' /\ HasRow(s)'
    BY <1>6, <1>8 DEF Key, AtEngine, HasRow
<1>10. Unrecorded(s)' <=> ok
    BY <1>6, <1>7, <1>8, ZenonT(30) DEF Unrecorded
<1>11. m \in Deliveries /\ m.key = Key(s) /\ m.start = notice[s].now /\ m.by = s
    BY <1>3 DEF Deliveries
<1> HIDE DEF m
<1>12. told' \subseteq told \cup {m} /\ told \subseteq told' /\ contended \subseteq contended'
    BY <1>1 DEF m
<1>13. ok => m \in told'
    BY <1>1 DEF m
<1>14. m \in told' \ told => ok \/ Key(s) \in contended'
    BY <1>1, ZenonT(30) DEF m
<1>15. ASSUME NEW x \in Sends, x # s
       PROVE  /\ Key(x)' = Key(x) /\ (Unrecorded(x)' <=> Unrecorded(x)) /\ notice'[x] = notice[x]
    BY <1>8, <1>15 DEF Key, Unrecorded
<1>16. \A d \in told : d.by \in Sends /\ d.start \in Nat /\ d.key \in NoticeKeys
    BY DEF NoticeInv, NoticeTypes, Deliveries
<1>17. NoticeOK(s)'
  <2>1. RowOK(notice[s].row, Key(s))'
      BY <1>4, <1>6, <1>8, <1>9, <1>12 DEF RowOK
  <2>2. ShouldSend(notice[s].row, notice[s].now)'
      BY <1>4, <1>6, <1>8 DEF ShouldSend
  <2>3. Unrecorded(s)' => \E d \in told' : d.key = Key(s)' /\ d.start = notice'[s].now
      BY <1>6, <1>8, <1>9, <1>10, <1>11, <1>13
  <2> QED BY <1>3, <1>6, <1>8, <2>1, <2>2, <2>3, Zenon DEF NoticeOK
<1>18. ToldIsRecorded'
  <2> SUFFICES ASSUME NEW d \in told', d.key \notin contended'
               PROVE  \/ d.start <= supp'[d.key].sent
                      \/ Unrecorded(d.by)' /\ Key(d.by)' = d.key /\ d.start = notice'[d.by].now
      BY DEF ToldIsRecorded
  <2>1. CASE d \in told
    <3>1. \/ d.start <= supp[d.key].sent
          \/ Unrecorded(d.by) /\ Key(d.by) = d.key /\ d.start = notice[d.by].now
        BY <1>12, <2>1 DEF NoticeInv, ToldIsRecorded
    <3> QED BY <1>2, <1>15, <1>16, <2>1, <3>1
  <2>2. CASE d \notin told
    <3>1. d = m /\ ok
        BY <1>11, <1>12, <1>14, <2>2
    <3> QED BY <1>6, <1>8, <1>9, <1>10, <1>11, <3>1
  <2> QED BY <2>1, <2>2
<1>19. ASSUME NEW d \in told, d.key = Key(s), Key(s) \notin contended
       PROVE  notice[s].now - d.start >= Cooldown
  <2>1. notice[s].row = supp[Key(s)]
      BY <1>2, <1>19 DEF NoticeInv, RowIsCurrent
  <2>2. d.start <= supp[Key(s)].sent
    <3>1. \/ d.start <= supp[d.key].sent
          \/ Unrecorded(d.by) /\ Key(d.by) = d.key /\ d.start = notice[d.by].now
        BY <1>19 DEF NoticeInv, ToldIsRecorded
    <3>2. ASSUME Unrecorded(d.by), Key(d.by) = d.key PROVE FALSE
      <4>1. d.by # s /\ d.by \in Sends /\ AtEngine(d.by)
          BY <1>2, <1>16, <3>2 DEF Unrecorded, AtEngine
      <4> QED BY <1>2, <1>19, <3>2, <4>1 DEF NoticeInv, OneAtEngine
    <3> QED BY <1>19, <3>1, <3>2
  <2>3. supp[Key(s)].sent \in NoticeTimes
      BY <1>3 DEF SuppressionRows
  <2> QED
      BY <1>3, <1>4, <1>16, <2>1, <2>2, <2>3, NoticeConstants
      DEF ShouldSend, NoticeTimes
<1>20. OnceIfUndisturbed'
  <2> SUFFICES ASSUME NEW d \in told', NEW e \in told', d.key = e.key, d.by # e.by,
                      d.key \notin contended'
               PROVE  d.start - e.start >= Cooldown \/ e.start - d.start >= Cooldown
      BY DEF OnceIfUndisturbed
  <2>1. CASE d \in told /\ e \in told
      BY <1>12, <2>1 DEF NoticeInv, OnceIfUndisturbed
  <2>2. CASE d = m /\ e \in told
      BY <1>11, <1>12, <1>19, <2>2
  <2>3. CASE d \in told /\ e = m
      BY <1>11, <1>12, <1>19, <2>3
  <2>4. CASE d = m /\ e = m
      BY <2>4
  <2> QED BY <1>12, <2>1, <2>2, <2>3, <2>4
<1>21. \A x \in Sends \ {s} : AtEngine(x) /\ Key(x) = Key(s)' => Key(x) \in contended'
    BY <1>2, <1>9, <1>12 DEF NoticeInv, OneAtEngine
<1>22. Key(s)' \notin contended' => r.row = supp'[Key(s)']
    BY <1>2, <1>6, <1>9, <1>12 DEF NoticeInv, RowIsCurrent
<1>23. /\ noticeClock' \in Nat /\ supp' \in [NoticeKeys -> SuppressionRows]
       /\ told' \subseteq Deliveries
    BY <1>2, <1>11, <1>12 DEF NoticeInv, NoticeTypes
<1> QED
    BY ZenonT(30), <1>2, <1>5, <1>6, <1>12, <1>17, <1>18, <1>20, <1>21, <1>22, <1>23,
       OneNotice

\* Writing the row, or failing to.  A new row is as good as what its channel
\* was told, and no older than any of it.
LEMMA UpsertKeeps ==
    ASSUME NoticeInv, NEW s \in Sends, HasRow(s), NEW new \in SuppressionRows, NEW err \in BOOLEAN,
           Upsert(s, new, err), RowOK(new, Key(s)),
           Unrecorded(s) => new.sent = notice[s].now,
           ~Unrecorded(s) => new.sent = notice[s].row.sent,
           notice[s].row.sent <= new.sent
    PROVE  NoticeInv'
<1>1. AtEngine(s)
    BY DEF HasRow, AtEngine
<1>2. Key(s) \in NoticeKeys /\ notice[s].row \in SuppressionRows
    BY <1>1, EngineFacts
<1>3. /\ \E b \in BOOLEAN : notice' = [notice EXCEPT ![s] = AfterChannel(@, b)]
      /\ noticeClock' = noticeClock /\ told' = told
  <2>1. TRUE \in BOOLEAN
      BY ZenonT(30)
  <2> QED BY <2>1, ZenonT(30) DEF Upsert
<1>4. PICK b \in BOOLEAN : notice' = [notice EXCEPT ![s] = AfterChannel(@, b)]
    BY ZenonT(30), <1>3
<1>5. \A x \in Sends : x # s => notice'[x] = notice[x]
    BY <1>4 DEF NoticeInv, NoticeTypes
<1>6. ASSUME NEW x \in Sends, x # s
      PROVE  Key(x)' = Key(x) /\ (Unrecorded(x)' <=> Unrecorded(x)) /\ notice'[x] = notice[x]
    BY <1>5, <1>6 DEF Key, Unrecorded
<1>7. \A d \in told : d.by \in Sends /\ d.start \in Nat /\ d.key \in NoticeKeys
    BY DEF NoticeInv, NoticeTypes, Deliveries
<1>8. CASE supp' = [supp EXCEPT ![Key(s)] = new] /\ contended' = contended
  <2>1. /\ supp' \in [NoticeKeys -> SuppressionRows] /\ supp'[Key(s)] = new
        /\ \A k \in NoticeKeys : k # Key(s) => supp'[k] = supp[k]
      BY <1>2, <1>8 DEF NoticeInv, NoticeTypes
  <2>2. Key(s)' = Key(s)
    <3>1. notice'[s] = AfterChannel(notice[s], b) /\ notice[s] \in Notices
        BY <1>4 DEF NoticeInv, NoticeTypes
    <3>2. notice'[s].event = notice[s].event /\ notice'[s].channel = notice[s].channel
        BY <3>1 DEF AfterChannel, Notices
    <3> QED BY <3>2 DEF Key
  <2>3. RowOK(supp[Key(s)], Key(s))'
      BY <1>3, <2>1, <2>2 DEF RowOK
  <2>4. ToldIsRecorded'
    <3> SUFFICES ASSUME NEW d \in told, d.key \notin contended
                 PROVE  \/ d.start <= supp'[d.key].sent
                        \/ Unrecorded(d.by)' /\ Key(d.by)' = d.key /\ d.start = notice'[d.by].now
        BY <1>3, <1>8, Zenon DEF ToldIsRecorded
    <3>1. \/ d.start <= supp[d.key].sent
          \/ Unrecorded(d.by) /\ Key(d.by) = d.key /\ d.start = notice[d.by].now
        BY Zenon DEF NoticeInv, ToldIsRecorded
    <3>2. CASE d.key # Key(s)
        BY <1>6, <1>7, <2>1, <3>1, <3>2
    <3>3. CASE d.key = Key(s) /\ d.start <= supp[d.key].sent
      <4>1. supp[Key(s)] = notice[s].row
          BY <3>3 DEF NoticeInv, RowIsCurrent
      <4>2. new.sent \in Int /\ notice[s].row.sent \in Int /\ d.start \in Int
        <5>1. /\ new.sent \in Nat \cup {Never} /\ notice[s].row.sent \in Nat \cup {Never}
              /\ d.start \in Nat
            BY <1>2, <1>7, Zenon DEF SuppressionRows, NoticeTimes
        <5> QED BY ONLY <5>1, SMTT(15) DEF Never
      <4>3. d.start <= supp[d.key].sent /\ supp[d.key] = notice[s].row /\ supp'[d.key] = new
          BY <2>1, <3>3, <4>1, Zenon
      <4>4. d.start <= supp'[d.key].sent
          BY ONLY <4>2, <4>3, notice[s].row.sent <= new.sent, SMTT(15)
      <4> QED BY <4>4, Zenon
    <3>4. CASE d.key = Key(s) /\ Unrecorded(d.by) /\ Key(d.by) = d.key /\ d.start = notice[d.by].now
      <4>1. AtEngine(d.by) /\ d.by \in Sends
          BY <1>7, <3>4 DEF Unrecorded, AtEngine
      <4>2. d.by = s
          BY <1>1, <3>4, <4>1 DEF NoticeInv, OneAtEngine
      <4>3. d.start = new.sent /\ d.start \in Nat
          BY <1>7, <3>4, <4>2, Zenon
      <4>4. supp'[d.key] = new
          BY <2>1, <3>4, Zenon
      <4>5. d.start <= supp'[d.key].sent
          BY ONLY <4>3, <4>4, SMTT(15)
      <4> QED BY <4>5, Zenon
    <3> QED BY <3>1, <3>2, <3>3, <3>4, Zenon
  <2> QED BY ZenonT(30), <1>1, <1>3, <1>4, <1>8, <2>1, <2>3, <2>4, ChannelDone
<1>9. CASE supp' = supp /\ contended' = contended \cup {Key(s)}
  <2>1. ToldIsRecorded'
      BY <1>3, <1>6, <1>7, <1>9, ZenonT(30) DEF NoticeInv, ToldIsRecorded
  <2> QED BY ZenonT(30), <1>1, <1>3, <1>4, <1>9, <2>1, ChannelDone DEF NoticeInv, NoticeTypes
<1> QED BY ZenonT(30), <1>8, <1>9 DEF Upsert

LEMMA UpsertsKeep ==
    ASSUME NoticeInv, NEW s \in Sends, UpsertSent(s) \/ UpsertFailed(s) \/ UpsertSuppressed(s)
    PROVE  NoticeInv'
<1> DEFINE row == notice[s].row
           now == notice[s].now
<1>1. HasRow(s) /\ AtEngine(s)
    BY ZenonT(30) DEF UpsertSent, UpsertFailed, UpsertSuppressed, HasRow, AtEngine
<1>2. row \in SuppressionRows /\ now \in Nat /\ RowOK(row, Key(s))
    BY ZenonT(30), <1>1, EngineFacts DEF NoticeInv, NoticeOK
<1>3. row.sent \in NoticeTimes /\ row.sent \in Int /\ row.sent <= row.sent
    BY <1>2 DEF SuppressionRows, NoticeTimes, Never
<1>4. FALSE \in BOOLEAN /\ TRUE \in BOOLEAN
    BY ZenonT(30)
<1> HIDE DEF row, now
<1>5. CASE UpsertSent(s)
  <2> DEFINE new == SentRow(row, now)
  <2>1. new \in SuppressionRows /\ new.sent = now /\ new.until = now + Cooldown
    <3>1. now \in NoticeTimes /\ now + Cooldown \in NoticeTimes
        BY <1>2, NoticeConstants DEF NoticeTimes
    <3> QED BY ZenonT(30), <1>2, <3>1 DEF SentRow, MergeSuppression, SuppressionRows
  <2>2. notice[s].pc = "record" /\ Upsert(s, new, FALSE)
      BY <1>5, ZenonT(30) DEF UpsertSent, row, now
  <2> HIDE DEF new
  <2>3. Unrecorded(s)
      BY <1>5, ZenonT(30) DEF UpsertSent, Unrecorded
  <2>4. RowOK(new, Key(s))
    <3>1. \E m \in told : m.key = Key(s) /\ m.start = now
        BY ZenonT(30), <2>3 DEF NoticeInv, NoticeOK, now
    <3> QED BY <1>2, <2>1, <3>1, NoticeConstants DEF RowOK
  <2>5. ShouldSend(row, now)
      BY <1>1, <2>2, Zenon DEF NoticeInv, NoticeOK, row, now
  <2>6. row.sent <= new.sent
      BY <1>2, <1>3, <2>1, <2>5, NoticeConstants DEF ShouldSend, NoticeTimes
  <2> QED BY ZenonT(30), <1>1, <1>4, <2>1, <2>2, <2>3, <2>4, <2>6, UpsertKeeps DEF row, now
<1>6. CASE UpsertFailed(s)
  <2>1. Upsert(s, row, TRUE)
      BY <1>6, ZenonT(30) DEF UpsertFailed, FailedRow, MergeSuppression, row, now
  <2>2. ~Unrecorded(s)
      BY <1>6, ZenonT(30) DEF UpsertFailed, Unrecorded
  <2> QED BY ZenonT(30), <1>1, <1>2, <1>3, <1>4, <2>1, <2>2, UpsertKeeps DEF row
<1>7. CASE UpsertSuppressed(s)
  <2> DEFINE new == SuppressedRow(row)
  <2>1. new \in SuppressionRows /\ new.sent = row.sent /\ new.until = row.until
      BY <1>2 DEF SuppressedRow, MergeSuppression, SuppressionRows
  <2>2. notice[s].pc = "suppress" /\ Upsert(s, new, FALSE)
      BY <1>7, ZenonT(30) DEF UpsertSuppressed, row
  <2> HIDE DEF new
  <2>3. ~Unrecorded(s)
      BY <2>2 DEF Unrecorded
  <2>4. RowOK(new, Key(s))
      BY <1>2, <2>1 DEF RowOK
  <2> QED BY ZenonT(30), <1>1, <1>3, <1>4, <2>1, <2>2, <2>3, <2>4, UpsertKeeps DEF row
<1> QED BY <1>5, <1>6, <1>7

LEMMA NextNoticeInv == NoticeInv /\ [NoticeNext]_noticeVars => NoticeInv'
<1> SUFFICES ASSUME NoticeInv, [NoticeNext]_noticeVars PROVE NoticeInv'
    OBVIOUS
<1>1. CASE NoticeTick \/ UNCHANGED noticeVars
  <2>1. noticeClock' \in Nat /\ UNCHANGED <<supp, notice, told, contended>>
      BY <1>1 DEF NoticeTick, noticeVars, NoticeInv, NoticeTypes
  <2>2. \A s \in Sends : /\ Key(s)' = Key(s) /\ (AtEngine(s)' <=> AtEngine(s))
                         /\ (HasRow(s)' <=> HasRow(s)) /\ (Unrecorded(s)' <=> Unrecorded(s))
      BY <2>1 DEF Key, AtEngine, HasRow, Unrecorded
  <2>3. NoticeTypes' /\ \A k \in NoticeKeys : RowOK(supp[k], k)'
      BY ZenonT(30), <2>1 DEF NoticeInv, NoticeTypes, RowOK
  <2>4. \A s \in Sends : NoticeOK(s)'
    <3> SUFFICES ASSUME NEW s \in Sends PROVE NoticeOK(s)'
        OBVIOUS
    <3>1. NoticeOK(s) /\ notice'[s] = notice[s] /\ told' = told
        BY <2>1 DEF NoticeInv
    <3>2. RowOK(notice[s].row, Key(s))' <=> RowOK(notice[s].row, Key(s))
        BY <2>2, <3>1, Zenon DEF RowOK
    <3> QED BY <2>2, <3>1, <3>2, Zenon DEF NoticeOK
  <2>5. OneAtEngine' /\ RowIsCurrent' /\ OnceIfUndisturbed'
      BY ZenonT(30), <2>1, <2>2 DEF NoticeInv, OneAtEngine, RowIsCurrent, OnceIfUndisturbed
  <2>6. ToldIsRecorded'
    <3>1. \A m \in told : m.by \in Sends
        BY DEF NoticeInv, NoticeTypes, Deliveries
    <3> QED BY <2>1, <2>2, <3>1, Zenon DEF NoticeInv, ToldIsRecorded
  <2> QED BY <2>3, <2>4, <2>5, <2>6 DEF NoticeInv
<1>2. ASSUME NEW s \in Sends,
             \/ \E e \in Events : ServiceSend(s, e)
             \/ ResolveFails(s) \/ EngineSend(s)
             \/ GetNotificationSuppression(s) \/ NotifierSend(s)
             \/ UpsertSent(s) \/ UpsertFailed(s) \/ UpsertSuppressed(s)
      PROVE  NoticeInv'
    BY <1>2, ServiceSendKeeps, ResolveFailsKeeps, EngineSendKeeps,
       GetNotificationSuppressionKeeps,
       NotifierSendKeeps, UpsertsKeep
<1> QED BY <1>1, <1>2 DEF NoticeNext

\* Service.Send and Engine.Send: whatever calls overlap and fail, an event is
\* held back only if its channel was told of it less than the cooldown
\* before; undisturbed, a channel is told once in a cooldown; and a channel
\* that fails does not keep the event from the others.
THEOREM NoticesDoArrive == NoticeSpec => []NoticesArrive
<1>1. NoticeInv => NoticesArrive
  <2> SUFFICES ASSUME NoticeInv PROVE NoticesArrive
      OBVIOUS
  <2>1. ASSUME NEW s \in Sends, notice[s].pc = "suppress"
        PROVE  \E m \in told : m.key = Key(s) /\ notice[s].now - m.start < Cooldown
    <3>1. HasRow(s) /\ AtEngine(s) /\ NoticeOK(s)
        BY ZenonT(30), <2>1 DEF HasRow, AtEngine, NoticeInv
    <3>2. /\ RowOK(notice[s].row, Key(s)) /\ ~ShouldSend(notice[s].row, notice[s].now)
          /\ notice[s].row \in SuppressionRows /\ notice[s].now \in Nat
        BY <2>1, <3>1, EngineFacts, Zenon DEF NoticeOK
    <3>3. notice[s].row.sent \in NoticeTimes
        BY <3>2 DEF SuppressionRows
    <3>4. /\ notice[s].row.sent # Never
          /\ notice[s].now - notice[s].row.sent < Cooldown
        BY <3>2, <3>3, NoticeConstants DEF RowOK, ShouldSend, NoticeTimes
    <3> QED BY <3>2, <3>4, Zenon DEF RowOK
  <2>2. HeldBackWasTold
      BY <2>1 DEF HeldBackWasTold
  <2>3. EveryChannelTried
      BY Zenon DEF NoticeInv, NoticeOK, EveryChannelTried
  <2> QED BY <2>2, <2>3 DEF NoticeInv, NoticesArrive
<1> QED BY InitNoticeInv, NextNoticeInv, <1>1, PTL DEF NoticeSpec
===============================================================================
