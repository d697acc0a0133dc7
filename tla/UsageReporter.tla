----------------------------- MODULE UsageReporter -----------------------------
(***************************************************************************)
(* The marketplace usage reporters.  Calls append to a buffer in memory;   *)
(* a background loop drains it on a ticker, on a full buffer and once more *)
(* at shutdown, adds the records up by hour, and sends them in batches.    *)
(* What could not be sent goes back to the buffer.                         *)
(***************************************************************************)
EXTENDS Integers, Sequences, SequencesExt

CONSTANTS
    Market,         \* "aws", "azure" or "gcp"
    Threshold,      \* earlyFlushThreshold
    BatchSize,      \* maxBatchSize
    MaxHour,
    MaxActions,     \* governed actions in an hour
    MaxRepeats      \* quantity of lost answers in an hour, at most

\* What is assumed of the constants.
UsageReporterAssumption ==
    /\ Market \in {"aws", "azure", "gcp"}
    /\ Threshold \in Nat \ {0} /\ BatchSize \in Nat \ {0}
    /\ MaxHour \in Nat /\ MaxActions \in Nat /\ MaxRepeats \in Nat

VARIABLES
    hour,
    buffer,         \* records [quantity, hour]
    toSignal,       \* calls that found the buffer full and have not said so yet
    flush,          \* the channel of capacity one
    cancelled,      \* the context of the process
    loop,           \* background goroutine
    exited,         \* main has returned
    recorded,       \* governed actions of each hour
    accepted,       \* quantity that the marketplace took for each hour
    repeated        \* quantity that it took without the gateway learning of it

vars == <<hour, buffer, toSignal, flush, cancelled, loop, exited, recorded, accepted, repeated>>

Hours == 0 .. MaxHour
MaxInt32 == 2147483647
Rec(h, q) == [hour |-> h, quantity |-> q]
Quantity(s, h) ==
    FoldLeft(LAMBDA sum, r : IF r.hour = h THEN sum + r.quantity ELSE sum, 0, s)
Idle == [pc |-> "wait", final |-> FALSE, records |-> <<>>, ops |-> <<>>, sent |-> 0]

Init ==
    /\ hour = 0
    /\ buffer = <<>>
    /\ toSignal = 0
    /\ flush = FALSE
    /\ cancelled = FALSE
    /\ loop = Idle
    /\ exited = FALSE
    /\ recorded = [h \in Hours |-> 0]
    /\ accepted = [h \in Hours |-> 0]
    /\ repeated = [h \in Hours |-> 0]

HourPasses ==
    /\ hour < MaxHour
    /\ hour' = hour + 1
    /\ UNCHANGED <<buffer, toSignal, flush, cancelled, loop, exited, recorded, accepted, repeated>>

RecordUsage ==
    /\ ~exited
    /\ recorded[hour] < MaxActions
    /\ buffer' = Append(buffer, Rec(hour, 1))
    /\ toSignal' = toSignal + (IF Len(buffer') >= Threshold THEN 1 ELSE 0)
    /\ recorded' = [recorded EXCEPT ![hour] = @ + 1]
    /\ UNCHANGED <<hour, flush, cancelled, loop, exited, accepted, repeated>>

\* A call that finds the channel full leaves it.
SignalFlush ==
    /\ ~exited
    /\ toSignal > 0
    /\ toSignal' = toSignal - 1
    /\ flush' = TRUE
    /\ UNCHANGED <<hour, buffer, cancelled, loop, exited, recorded, accepted, repeated>>

\* One operation for each hour, in the order of a Go map.
Aggregate(records) ==
    LET hours == {records[k].hour : k \in DOMAIN records}
        Op(h) == Rec(h, IF Quantity(records, h) > MaxInt32 THEN MaxInt32 ELSE Quantity(records, h))
    IN  {[k \in DOMAIN order |-> Op(order[k])] : order \in SetToSeqs(hours)}
AzureAggregate(records) ==
    {[k \in DOMAIN order |-> Rec(order[k], Quantity(records, order[k]))] :
        order \in SetToSeqs({records[j].hour : j \in DOMAIN records})}
BuildOperations(records) ==
    {[k \in DOMAIN order |-> Rec(order[k], Quantity(records, order[k]))] :
        order \in SetToSeqs({records[j].hour : j \in DOMAIN records})}
OperationsOf(records) ==
    CASE Market = "aws"   -> Aggregate(records)
      [] Market = "azure" -> AzureAggregate(records)
      [] Market = "gcp"   -> BuildOperations(records)

\* An empty buffer ends the flush; otherwise the whole of it is taken.
DrainFull(final) ==
    IF Len(buffer) < Threshold
    THEN /\ loop' = [Idle EXCEPT !.pc = IF final THEN "stopped" ELSE "wait"]
         /\ UNCHANGED buffer
    ELSE /\ \E ops \in OperationsOf(buffer) :
              loop' = [pc |-> "send", final |-> final, records |-> buffer, ops |-> ops, sent |-> 0]
         /\ buffer' = <<>>
DoFlushKeeps(final) ==
    IF buffer = <<>>
    THEN /\ loop' = [Idle EXCEPT !.pc = IF final THEN "stopped" ELSE "wait"]
         /\ UNCHANGED buffer
    ELSE /\ \E ops \in OperationsOf(buffer) :
              loop' = [pc |-> "send", final |-> final, records |-> buffer, ops |-> ops, sent |-> 0]
         /\ buffer' = SubSeq(buffer, Threshold, Len(buffer))
DoFlush(final) ==
    IF buffer = <<>>
    THEN /\ loop' = [Idle EXCEPT !.pc = IF final THEN "stopped" ELSE "wait"]
         /\ UNCHANGED buffer
    ELSE /\ \E ops \in OperationsOf(buffer) :
              loop' = [pc |-> "send", final |-> final, records |-> buffer, ops |-> ops, sent |-> 0]
         /\ buffer' = <<>>

FlushOnTick ==
    /\ ~exited /\ loop.pc = "wait"
    /\ DoFlush(FALSE)
    /\ UNCHANGED <<hour, toSignal, flush, cancelled, exited, recorded, accepted, repeated>>

FlushOnSignal ==
    /\ ~exited /\ loop.pc = "wait"
    /\ flush
    /\ flush' = FALSE
    /\ DoFlush(FALSE)
    /\ UNCHANGED <<hour, toSignal, cancelled, exited, recorded, accepted, repeated>>

FlushOnDone ==
    /\ ~exited /\ loop.pc = "wait"
    /\ cancelled
    /\ DoFlush(TRUE)
    /\ UNCHANGED <<hour, toSignal, flush, cancelled, exited, recorded, accepted, repeated>>

BatchEnd == IF loop.sent + BatchSize < Len(loop.ops) THEN loop.sent + BatchSize ELSE Len(loop.ops)
Batch == (loop.sent + 1) .. BatchEnd
OpsAt(S) == [k \in 1 .. Len(SetToSortSeq(S, <)) |-> loop.ops[SetToSortSeq(S, <)[k]]]

\* The operations go back as records, each with the sum of its hour.
ReBufferNothing(S) == <<>>
ReBuffer(S) == OpsAt(S)
AzureReBuffer(S) == OpsAt(S)
\* This reporter takes the places of the operations in the list of records.
GcpReBuffer(S) == SubSeq(loop.records, loop.sent + 1, BatchEnd)
ReBuffered(S) ==
    CASE Market = "aws"   -> ReBuffer(S)
      [] Market = "azure" -> AzureReBuffer(S)
      [] Market = "gcp"   -> GcpReBuffer(S)

NextBatch ==
    loop' = IF BatchEnd < Len(loop.ops)
            THEN [loop EXCEPT !.sent = BatchEnd]
            ELSE [Idle EXCEPT !.pc = IF loop.final THEN "stopped" ELSE "wait"]

Plus(count, S) == [h \in Hours |-> count[h] + Quantity(OpsAt(S), h)]

\* The call fails: the marketplace did not get the batch, or its answer was lost.
SendFails ==
    /\ ~exited /\ loop.pc = "send"
    /\ \E took \in BOOLEAN :
         /\ took => \A h \in Hours : repeated[h] < MaxRepeats
         /\ accepted' = IF took THEN Plus(accepted, Batch) ELSE accepted
         /\ repeated' = IF took THEN Plus(repeated, Batch) ELSE repeated
    /\ buffer' = buffer \o ReBuffered(Batch)
    /\ NextBatch
    /\ UNCHANGED <<hour, toSignal, flush, cancelled, exited, recorded>>

\* The call succeeds, and names the records that it did not process.
SendAnsweredAws ==
    /\ Market = "aws"
    /\ ~exited /\ loop.pc = "send"
    /\ \E U \in SUBSET Batch :
         /\ accepted' = Plus(accepted, Batch \ U)
         /\ buffer' = buffer \o ReBuffered(U)
    /\ NextBatch
    /\ UNCHANGED <<hour, toSignal, flush, cancelled, exited, recorded, repeated>>

\* Events that were not accepted are counted for the log.
SendAnsweredRetryAll ==
    /\ Market = "azure"
    /\ ~exited /\ loop.pc = "send"
    /\ \E U \in SUBSET Batch :
         /\ accepted' = Plus(accepted, Batch \ U)
         /\ buffer' = IF U = {} THEN buffer ELSE buffer \o AzureReBuffer(Batch)
    /\ NextBatch
    /\ UNCHANGED <<hour, toSignal, flush, cancelled, exited, recorded, repeated>>
SendAnsweredAzure ==
    /\ Market = "azure"
    /\ ~exited /\ loop.pc = "send"
    /\ \E U \in SUBSET Batch : accepted' = Plus(accepted, Batch \ U)
    /\ NextBatch
    /\ UNCHANGED <<hour, buffer, toSignal, flush, cancelled, exited, recorded, repeated>>

SendAnsweredGcp ==
    /\ Market = "gcp"
    /\ ~exited /\ loop.pc = "send"
    /\ accepted' = Plus(accepted, Batch)
    /\ NextBatch
    /\ UNCHANGED <<hour, buffer, toSignal, flush, cancelled, exited, recorded, repeated>>

\* The process is told to stop.  The server finishes its requests, then main
\* returns; it waits for no other goroutine.
Cancel ==
    /\ ~cancelled
    /\ cancelled' = TRUE
    /\ UNCHANGED <<hour, buffer, toSignal, flush, loop, exited, recorded, accepted, repeated>>
Exit ==
    /\ cancelled /\ ~exited
    /\ toSignal = 0
    /\ exited' = TRUE
    /\ UNCHANGED <<hour, buffer, toSignal, flush, cancelled, loop, recorded, accepted, repeated>>

SendAnswered == SendAnsweredAws \/ SendAnsweredAzure \/ SendAnsweredGcp

Next ==
    \/ HourPasses
    \/ RecordUsage
    \/ SignalFlush
    \/ FlushOnTick
    \/ FlushOnSignal
    \/ FlushOnDone
    \/ SendFails
    \/ SendAnsweredAws
    \/ SendAnsweredAzure
    \/ SendAnsweredGcp
    \/ Cancel
    \/ Exit

Spec == Init /\ [][Next]_vars

\* The ticker keeps firing, a flush runs to its end, and a marketplace that is
\* asked again and again sooner or later takes a batch.
Accepts == SendAnswered /\ accepted' = Plus(accepted, Batch)
Fairness ==
    /\ WF_vars(FlushOnTick)
    /\ WF_vars(SendFails \/ SendAnswered)
    /\ SF_vars(Accepts)
FairSpec == Spec /\ Fairness

--------------------------------------------------------------------------------
InFlight(h) ==
    IF loop.pc = "send" THEN Quantity(SubSeq(loop.ops, loop.sent + 1, Len(loop.ops)), h) ELSE 0

(***************************************************************************)
(* What a flush could not send is sent by a later one: every action of an  *)
(* hour is in the buffer, in a batch that is still to be sent or taken by  *)
(* the marketplace, and none is there twice, save for a batch that was     *)
(* taken though the call failed (RecordUsage, doFlush, aggregate, reBuffer)*)
(***************************************************************************)
UsageConserved ==
    \A h \in Hours :
        recorded[h] + repeated[h] = Quantity(buffer, h) + InFlight(h) + accepted[h]

(***************************************************************************)
(* No reporter bills an action twice, whatever part of a flush fails and   *)
(* whatever is recorded meanwhile, save for a batch that was taken though  *)
(* the call failed (doFlush, reBuffer).                                    *)
(***************************************************************************)
NotOverReported == \A h \in Hours : accepted[h] <= recorded[h] + repeated[h]

(***************************************************************************)
(* While the process runs, every governed action is reported sooner or     *)
(* later, whatever fails in between (Start, doFlush, reBuffer).            *)
(***************************************************************************)
EventuallyReported ==
    \A h \in Hours : []<>(accepted[h] >= recorded[h] \/ cancelled)

(***************************************************************************)
(* reporter.go: on shutdown, Start performs a final flush attempt.         *)
(***************************************************************************)
FinalFlushAttempted == exited => loop.pc = "stopped"

================================================================================
