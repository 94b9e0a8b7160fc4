---------------------------- MODULE MCScheduler ----------------------------
\* Instances of Scheduler for TLC.
EXTENDS Scheduler

CONSTANTS j1, r1, r2, c1, c2

OneJob == {j1}
OneRun == {r1}
TwoRuns == {r1, r2}
OneCaller == {c1}
TwoCallers == {c1, c2}

\* Four instances in one run:
\*   "runs"   two executions overlap, while a client adds, removes, pauses and
\*            kills the job;
\*   "calls"  two clients' calls interleave, updates among them;
\*   "list"   list interleaves with one client's calls, updates among them,
\*            and both the crash and the failed write may come;
\*   "marks"  an execution, one client's calls but for updates, and list
\*            interleave, and either the crash or the failed write may come.
\* Every call may be dropped in each of them.
VARIABLE scene

MCInit == Init /\ scene \in {"runs", "calls", "list", "marks"}

NoRuns == \A r \in Runs : rpc[r] = "idle"
OnlyR1Runs == \A r \in Runs \ {r1} : rpc[r] = "idle"
Alone == \A c \in Callers \ {c1} : cpc[c] = "idle"
NoUpdate == cpc[c1] \notin Updating

Within ==
    \/ scene = "runs" /\ Alone /\ NoUpdate /\ lpc = "idle" /\ crashes = 0 /\ gone = {}
    \/ scene = "calls" /\ NoRuns /\ lpc = "idle" /\ crashes = 0
    \/ scene = "list" /\ NoRuns /\ Alone
    \/ scene = "marks" /\ OnlyR1Runs /\ Alone /\ NoUpdate
          /\ crashes + failures <= 1

MCNext == Next /\ UNCHANGED scene /\ Within'

MCSpec == MCInit /\ [][MCNext]_<<vars, scene>>
=============================================================================
