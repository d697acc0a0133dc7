----------------------------- MODULE MCEventually -----------------------------
(***************************************************************************)
(* What must eventually happen while requests are served: in a behaviour   *)
(* one of the components below takes steps, fairly, which Init chooses,    *)
(* and the others stay as they were at the start.  They share no state, so *)
(* that this is the same as checking each of them alone.                   *)
(***************************************************************************)
EXTENDS JobLock, Setup, ToolCall, Ticketing, OAuthTokens

VARIABLE part       \* the component that takes steps

OneTracker ==
    {[provider |-> "jira", enabled |-> TRUE, auto |-> TRUE, secret |-> "s"]}
OneTenant == [a \in Approvals |-> "t"]
OneScope(t) == "read"

\* The components that do not take steps are in one of their initial states.
MCInit ==
    /\ part \in {"job", "setup", "call", "ticket", "token"}
    /\ JobInit /\ SetupInit /\ ToolCallInit /\ TicketInit /\ OAuthInit
    /\ part # "call" => /\ mode = "enforce" /\ enabled = {} /\ tool = {}
                       /\ \A c \in Calls : call[c].proto = "rest"

notJob == <<part, setupVars, toolCallVars, ticketVars, oauthVars>>
notSetup == <<part, jobVars, toolCallVars, ticketVars, oauthVars>>
notCall == <<part, jobVars, setupVars, ticketVars, oauthVars>>
notTicket == <<part, jobVars, setupVars, toolCallVars, oauthVars>>
notToken == <<part, jobVars, setupVars, toolCallVars, ticketVars>>

MCNext ==
    \/ part = "job" /\ JobNext /\ UNCHANGED notJob
    \/ part = "setup" /\ SetupNext /\ UNCHANGED notSetup
    \/ part = "call" /\ ToolCallNext /\ UNCHANGED notCall
    \/ part = "ticket" /\ TicketNext /\ UNCHANGED notTicket
    \/ part = "token" /\ OAuthNext /\ UNCHANGED notToken

mcVars == <<notJob, jobVars>>
MCSpec == MCInit /\ [][MCNext]_mcVars

\* The fairness that the modules of the components state and justify.  No
\* behaviour is one of two components, so that the strong fairness of both
\* can be stated in one formula.
Retried(k) ==
    \/ /\ part = "job" /\ UNCHANGED notJob
       /\ LET n == <<"n1", "n2", "n1", "n2">>[k]
          IN  IF k < 3 THEN Lock(n) ELSE Release(n)
    \/ /\ part = "token" /\ UNCHANGED notToken
       /\ LET c == <<"c1", "c2", "c1", "c2">>[k]
          IN  IF k < 3 THEN ReadCache(c) ELSE LockAndFetch(c)
MCFairness ==
    /\ \A k \in 1 .. 4 : SF_mcVars(Retried(k))
    /\ WF_jobVars(part = "job" /\ Interval)
    /\ \A n \in Nodes : /\ WF_jobVars(part = "job" /\ Run(n))
                        /\ WF_jobVars(part = "job" /\ Start(n))
    /\ \A c \in Conns : /\ WF_jobVars(part = "job" /\ Return(c))
                        /\ WF_jobVars(part = "job" /\ Recycle(c))
    /\ \A r \in Setups : WF_setupVars(part = "setup" /\ RequestStep(r))
    /\ \A c \in Calls : WF_toolCallVars(part = "call" /\ Step(c))
    /\ \A x \in Approvals \X Kinds : WF_ticketVars(part = "ticket" /\ TaskStep(x))
    /\ \A a \in Approvals : WF_ticketVars(part = "ticket" /\ CreateStep(a))
    /\ WF_oauthVars(part = "token" /\ TokenTick)
    /\ \A c \in TokenCalls :
         WF_oauthVars(part = "token" /\ (Receive(c) \/ FetchFails(c)))
MCFairSpec == MCSpec /\ MCFairness

------------------------------------------------------------------------------
\* However often a release misses the session with the lock, the job runs
\* again and again on some gateway.
JobRunsAgain == part = "job" => RunsAgain

\* Every request ends: that for a setup, since the lock is never waited for
\* with a connection in hand, so that the request which holds it gets the
\* second connection it needs (Initialize, writeSetupState); a tool call, over
\* both protocols and whatever fails (handleToolCall, handleToolsCall); and
\* that for a token, however many wait for the same fetch (getToken).
EverythingIsAnswered == Answered /\ EveryCallAnswered /\ CallEnds
==============================================================================
