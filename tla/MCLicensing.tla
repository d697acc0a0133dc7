----------------------------- MODULE MCLicensing -----------------------------
(***************************************************************************)
(* The marketplaces and the license key, with what must eventually happen: *)
(* a behaviour is a fair behaviour of one of the components below, which   *)
(* Init chooses.  They share no state, so that this is the same as         *)
(* checking each of them alone; variables with the same name are one       *)
(* variable here.                                                          *)
(***************************************************************************)
EXTENDS Integers, Sequences

VARIABLES
    part,           \* the component that this behaviour is one of
    hour, buffer, toSignal, flush, cancelled, loop, exited, recorded, accepted,
    repeated, clock, file, writes, info, watcher, request, history, trials,
    market, changes, provider, reporter, task

vars ==
    <<part, hour, buffer, toSignal, flush, cancelled, loop, exited, recorded,
    accepted, repeated, clock, file, writes, info, watcher, request, history,
    trials, market, changes, provider, reporter, task>>

\* A trial that ends soon, and a paid key that leaves out a feature.
LicenseKeys == {[tier |-> "trial", exp |-> 1, claims |-> {}],
                [tier |-> "paid", exp |-> 9, claims |-> {"policies"}]}

Aws == INSTANCE UsageReporter WITH
    Market <- "aws", BatchSize <- 1, Threshold <- 2, MaxHour <- 1,
    MaxActions <- 2, MaxRepeats <- 1
Metered == INSTANCE UsageReporter WITH
    Market <- "azure", BatchSize <- 2, Threshold <- 2, MaxHour <- 1,
    MaxActions <- 2, MaxRepeats <- 1
Gcp == INSTANCE UsageReporter WITH
    Market <- "gcp", BatchSize <- 2, Threshold <- 2, MaxHour <- 1,
    MaxActions <- 2, MaxRepeats <- 1
License == INSTANCE LicenseKey WITH
    Keys <- LicenseKeys, Features <- {"approvals", "policies"},
    FreeFeatures <- {"policies"}, Grace <- 1, TrialDays <- 2, MaxClock <- 3,
    Handlers <- {"h"}, Edits <- FALSE, Faults <- FALSE, MaxWrites <- 4
Edited == INSTANCE LicenseKey WITH
    Keys <- LicenseKeys, Features <- {"approvals", "policies"},
    FreeFeatures <- {"policies"}, Grace <- 1, TrialDays <- 2, MaxClock <- 3,
    Handlers <- {"h"}, Edits <- TRUE, Faults <- TRUE, MaxWrites <- 3
Azure == INSTANCE AzureSubscription WITH
    Subscriptions <- {"s"}, Plans <- {"starter", "pro"}, Requests <- {"r"},
    MaxChanges <- 1

ASSUME
    /\ Aws!UsageReporterAssumption
    /\ Metered!UsageReporterAssumption
    /\ Gcp!UsageReporterAssumption
    /\ License!LicenseKeyAssumption
    /\ Edited!LicenseKeyAssumption
    /\ Azure!AzureSubscriptionAssumption

\* A variable that the component does not have.
Off == "off"

Init ==
    \/ /\ part = "aws"
       /\ Aws!Init
       /\ clock = Off /\ file = Off /\ writes = Off /\ info = Off
       /\ watcher = Off /\ request = Off /\ history = Off /\ trials = Off
       /\ market = Off /\ changes = Off /\ provider = Off /\ reporter = Off
       /\ task = Off
    \/ /\ part = "metered"
       /\ Metered!Init
       /\ clock = Off /\ file = Off /\ writes = Off /\ info = Off
       /\ watcher = Off /\ request = Off /\ history = Off /\ trials = Off
       /\ market = Off /\ changes = Off /\ provider = Off /\ reporter = Off
       /\ task = Off
    \/ /\ part = "gcp"
       /\ Gcp!Init
       /\ clock = Off /\ file = Off /\ writes = Off /\ info = Off
       /\ watcher = Off /\ request = Off /\ history = Off /\ trials = Off
       /\ market = Off /\ changes = Off /\ provider = Off /\ reporter = Off
       /\ task = Off
    \/ /\ part = "license"
       /\ License!Init
       /\ hour = Off /\ buffer = Off /\ toSignal = Off /\ flush = Off
       /\ cancelled = Off /\ loop = Off /\ exited = Off /\ recorded = Off
       /\ accepted = Off /\ repeated = Off /\ market = Off /\ changes = Off
       /\ provider = Off /\ reporter = Off /\ task = Off
    \/ /\ part = "edited"
       /\ Edited!Init
       /\ hour = Off /\ buffer = Off /\ toSignal = Off /\ flush = Off
       /\ cancelled = Off /\ loop = Off /\ exited = Off /\ recorded = Off
       /\ accepted = Off /\ repeated = Off /\ market = Off /\ changes = Off
       /\ provider = Off /\ reporter = Off /\ task = Off
    \/ /\ part = "azure"
       /\ Azure!Init
       /\ hour = Off /\ buffer = Off /\ toSignal = Off /\ flush = Off
       /\ cancelled = Off /\ loop = Off /\ exited = Off /\ recorded = Off
       /\ accepted = Off /\ repeated = Off /\ clock = Off /\ file = Off
       /\ writes = Off /\ info = Off /\ watcher = Off /\ request = Off
       /\ history = Off /\ trials = Off

notAws ==
    <<part, clock, file, writes, info, watcher, request, history, trials,
    market, changes, provider, reporter, task>>
notMetered ==
    <<part, clock, file, writes, info, watcher, request, history, trials,
    market, changes, provider, reporter, task>>
notGcp ==
    <<part, clock, file, writes, info, watcher, request, history, trials,
    market, changes, provider, reporter, task>>
notLicense ==
    <<part, hour, buffer, toSignal, flush, cancelled, loop, exited, recorded,
    accepted, repeated, market, changes, provider, reporter, task>>
notEdited ==
    <<part, hour, buffer, toSignal, flush, cancelled, loop, exited, recorded,
    accepted, repeated, market, changes, provider, reporter, task>>
notAzure ==
    <<part, hour, buffer, toSignal, flush, cancelled, loop, exited, recorded,
    accepted, repeated, clock, file, writes, info, watcher, request, history,
    trials>>

Next ==
    \/ part = "aws" /\ Aws!Next /\ UNCHANGED notAws
    \/ part = "metered" /\ Metered!Next /\ UNCHANGED notMetered
    \/ part = "gcp" /\ Gcp!Next /\ UNCHANGED notGcp
    \/ part = "license" /\ License!Next /\ UNCHANGED notLicense
    \/ part = "edited" /\ Edited!Next /\ UNCHANGED notEdited
    \/ part = "azure" /\ Azure!Next /\ UNCHANGED notAzure

Spec == Init /\ [][Next]_vars

\* The fairness that the modules of the components state and justify.  No
\* behaviour is one of two components, so that the strong fairness of both
\* can be stated in one formula.
Retried(k) ==
    \/ part = "aws" /\ UNCHANGED notAws /\ k = 1 /\ Aws!Accepts
    \/ /\ part = "azure" /\ UNCHANGED notAzure
       /\ Azure!RefreshGet(<<"poll", "r">>[k])
awsVars == Aws!vars
azureVars == Azure!vars
licenseVars == License!vars
Fairness ==
    /\ \A k \in 1 .. 2 : SF_vars(Retried(k))
    /\ WF_awsVars(part = "aws" /\ Aws!FlushOnTick)
    /\ WF_awsVars(part = "aws" /\ (Aws!SendFails \/ Aws!SendAnswered))
    /\ WF_licenseVars(part = "license" /\ License!Watch)
    /\ WF_licenseVars(part = "license" /\ License!Handle("h"))
    /\ WF_azureVars(part = "azure" /\ Azure!Poll)
    /\ \A t \in {"poll", "r"} :
         WF_azureVars(part = "azure" /\ Azure!Refresh(t))
    /\ WF_azureVars(/\ part = "azure"
                    /\ \/ Azure!SetSubscription("r") \/ Azure!UpdateStatus("r")
                       \/ Azure!ReporterSetSubscription("r"))
FairSpec == Spec /\ Fairness

------------------------------------------------------------------------------
\* Whatever part of a flush fails and whatever is recorded meanwhile, no
\* reporter bills an action twice, and that of AWS loses none: an action is
\* in the buffer, in a batch to be sent or taken by the marketplace. A batch
\* that was taken though the call failed is the exception (RecordUsage,
\* doFlush, reBuffer).
UsageIsBilledOnce ==
    /\ part = "aws" => Aws!UsageConserved
    /\ part = "metered" => Metered!NotOverReported
    /\ part = "gcp" => Gcp!NotOverReported

\* No key strips an installation of the features of its tier, whichever
\* reload came last; with one request at a time the watcher never takes a
\* file for known whose key is not in force, and one trial is used; and what
\* the Azure provider shows and enforces belongs to one plan and one status,
\* though landing pages, webhooks and polls write them in turn
\* (LoadAndValidate, Watcher.check, handleLicenseUpload, refresh).
LicenseIsThatOfItsSource ==
    /\ part = "license" =>
         /\ License!TierIsEntitled
         /\ License!WatcherInStep
         /\ License!TrialOnce
    /\ part = "edited" => Edited!TierIsEntitled
    /\ part = "azure" => Azure!InfoOfOneState

\* While the process runs, every action is reported to AWS sooner or later,
\* whatever fails in between (Start, doFlush, reBuffer); with one request at a
\* time, memory keeps coming back to what the license file says, however the
\* request and a reload of the watcher interleave (Watcher.Start); and a late
\* answer, a lost or a repeated webhook does no lasting harm: while an Azure
\* subscription is known, the license comes back to it (refresh).
LicensingConverges ==
    /\ \A h \in 0 .. 1 : []<>(part = "aws" => accepted[h] >= recorded[h] \/ cancelled)
    /\ []<>(part = "license" => License!Settled \/ file = License!NoFile)
    /\ []<>(part = "azure" =>
              \/ provider.sub = Azure!Nil
              \/ /\ provider.plan = market[provider.sub].plan
                 /\ provider.status = market[provider.sub].status)
==============================================================================
