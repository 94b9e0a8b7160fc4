------------------------------ MODULE Scheduler ------------------------------
(***************************************************************************)
(* Scheduled recipes: bharatcode-core's Scheduler (scheduler.rs) in one    *)
(* server process, with its jobs map, schedule.json and the cron           *)
(* registrations of the tokio scheduler.                                   *)
(*                                                                         *)
(* Every lock section, every write of the file and every call of the tokio *)
(* scheduler is a step: cron ticks, run_now, the other calls and list run  *)
(* concurrently, and any of the calls may be dropped between two steps, as *)
(* the handler of a request is when its client goes away.  The tokio       *)
(* scheduler itself does what it is told.                                  *)
(***************************************************************************)
EXTENDS Integers, FiniteSets, Functions

CONSTANTS
    Jobs,           \* job ids
    Runs,           \* executions at a time: cron ticks and run_now calls
    Callers,        \* other calls at a time: add, remove, pause, ...
    NoJob, NoRun,
    Listing,        \* TRUE when clients list the schedules
    MaxCrons,       \* bound: registrations when add or update begins, and
                    \* when a call or list is dropped
    MaxCrashes,     \* bound: crashes of the server process
    MaxFailures     \* bound: writes of schedule.json that fail

ASSUME SchedulerAssumption ==
    /\ NoJob \notin Jobs
    /\ NoRun \notin Runs
    /\ IsFiniteSet(Jobs)
    /\ IsFiniteSet(Callers)
    /\ Listing \in BOOLEAN
    /\ MaxCrons \in Nat
    /\ MaxCrashes \in Nat
    /\ MaxFailures \in Nat

VARIABLES
    jobs,           \* the jobs map: id -> entry, of the ids it holds
    disk,           \* schedule.json: id -> entry without its registration
    legible,        \* whether there is such a file and it can be parsed
    gone,           \* ids whose recipe file is missing
    crons,          \* registration -> id its task runs
    tokens,         \* running_tasks: id -> run, of the ids it holds
    cancelled,      \* runs whose token is cancelled
    rpc, rjob,      \* run -> where it is, the job it runs
    now,            \* runs that are calls of run_now
    cpc, call,      \* caller -> where it is, what it keeps across awaits
    lpc, seen,      \* list: where it is, the file as it has read it
    adding,         \* list: entries it will add, 0 for no registration yet
    removing,       \* list: job -> registration, of those it will remove, 0
                    \* once that is gone
    \* History variables and bounds.
    left,           \* jobs whose flag no run will clear
    cut,            \* jobs whose update or removal by list was dropped
    crashes, failures

jobVars   == <<jobs, crons, left, cut>>
fileVars  == <<disk, legible, gone>>
runVars   == <<tokens, cancelled, rpc, rjob, now>>
callVars  == <<cpc, call>>
listVars  == <<lpc, seen, adding, removing>>
boundVars == <<crashes, failures>>
vars == <<jobVars, fileVars, runVars, callVars, listVars, boundVars>>

Put(f, k, v) == [x \in DOMAIN f \cup {k} |-> IF x = k THEN v ELSE f[x]]
Drop(f, k) == Restrict(f, DOMAIN f \ {k})
Empty == Restrict(<<>>, {})

Stored == [paused : BOOLEAN, running : BOOLEAN, parses : BOOLEAN]
OnDisk(e) == [paused |-> e.paused, running |-> e.running, parses |-> e.parses]
InMap(e, u) == [uuid |-> u, paused |-> e.paused, running |-> e.running,
                parses |-> e.parses]
Fresh == [paused |-> FALSE, running |-> FALSE, parses |-> TRUE]

NoCall == [job |-> NoJob, uuid |-> 0, parses |-> FALSE]

\* A registration nobody remembers.
NewUuid ==
    LET known == DOMAIN crons \cup {jobs[j].uuid : j \in DOMAIN jobs}
                     \cup {call[c].uuid : c \in Callers}
                     \cup {adding[j].uuid : j \in DOMAIN adding}
                     \cup {removing[j] : j \in DOMAIN removing}
    IN  CHOOSE u \in 1..(Cardinality(known) + 1) : u \notin known

Init ==
    /\ jobs = Empty
    /\ disk = Empty
    /\ legible = FALSE
    /\ gone = {}
    /\ crons = Empty
    /\ tokens = Empty
    /\ cancelled = {}
    /\ rpc = [r \in Runs |-> "idle"]
    /\ rjob = [r \in Runs |-> NoJob]
    /\ now = {}
    /\ cpc = [c \in Callers |-> "idle"]
    /\ call = [c \in Callers |-> NoCall]
    /\ lpc = "idle"
    /\ seen = Empty
    /\ adding = Empty
    /\ removing = Empty
    /\ left = {}
    /\ cut = {}
    /\ crashes = 0
    /\ failures = 0

-----------------------------------------------------------------------------
\* persist_jobs: the whole map, written under its lock.
Write ==
    /\ disk' = [j \in DOMAIN jobs |-> OnDisk(jobs[j])]
    /\ legible' = TRUE
    /\ UNCHANGED <<gone, failures>>

\* fs::write empties the file before it writes: what is left is cut short.
CutShort == disk' = Empty /\ legible' = FALSE

\* It fails before it has opened the file, or after.
WriteFails ==
    /\ failures < MaxFailures
    /\ failures' = failures + 1
    /\ UNCHANGED <<disk, legible>> \/ CutShort
    /\ UNCHANGED gone

SetFlag(j, flag) == jobs' = [jobs EXCEPT ![j].running = flag]

At(r, here, next) ==
    /\ rpc[r] = here
    /\ rpc' = [rpc EXCEPT ![r] = next]
    /\ UNCHANGED <<rjob, now>>

StartRun(r, next, j) ==
    /\ rpc[r] = "idle"
    /\ rpc' = [rpc EXCEPT ![r] = next]
    /\ rjob' = [rjob EXCEPT ![r] = j]

EndRun(r) ==
    /\ rpc' = [rpc EXCEPT ![r] = "idle"]
    /\ rjob' = [rjob EXCEPT ![r] = NoJob]
    /\ now' = now \ {r}
    /\ cancelled' = cancelled \ {r}

\* A cron task fires.  It looks at paused, not at currently_running.
Tick(r, u) ==
    /\ crons[u] \in DOMAIN jobs
    /\ ~jobs[crons[u]].paused
    /\ StartRun(r, "checked", crons[u])
    /\ UNCHANGED <<jobVars, fileVars, tokens, cancelled, now, callVars, listVars,
                   boundVars>>

\* It takes the lock again to mark the job; a job removed meanwhile runs, too.
Mark(r) ==
    /\ At(r, "checked", "marked")
    /\ IF rjob[r] \in DOMAIN jobs THEN SetFlag(rjob[r], TRUE) ELSE UNCHANGED jobs
    /\ left' = left \ {rjob[r]}
    /\ UNCHANGED <<crons, cut, fileVars, tokens, cancelled, callVars, listVars, boundVars>>

\* run_now refuses a job that is marked, and marks it.
RunNow(r, j) ==
    /\ j \in DOMAIN jobs
    /\ ~jobs[j].running
    /\ SetFlag(j, TRUE)
    /\ StartRun(r, "marked", j)
    /\ now' = now \cup {r}
    /\ UNCHANGED <<crons, left, cut, fileVars, tokens, cancelled, callVars, listVars,
                   boundVars>>

\* A tick goes on when the write fails, and only logs it.
SaveMark(r) ==
    /\ At(r, "marked", "saved")
    /\ Write \/ (r \notin now /\ WriteFails)
    /\ UNCHANGED <<jobVars, tokens, cancelled, callVars, listVars, crashes>>

\* run_now returns the error and leaves the mark.
SaveMarkFails(r) ==
    /\ r \in now
    /\ rpc[r] = "marked"
    /\ WriteFails
    /\ EndRun(r)
    /\ left' = left \cup {rjob[r]}
    /\ UNCHANGED <<jobs, crons, cut, tokens, callVars, listVars, crashes>>

InsertToken(r) ==
    /\ At(r, "saved", "executing")
    /\ tokens' = Put(tokens, rjob[r], r)
    /\ UNCHANGED <<jobVars, fileVars, cancelled, callVars, listVars, boundVars>>

KeepToken(r) == UNCHANGED tokens                        \* mutant of TakeToken
TakeToken(r) == tokens' = Drop(tokens, rjob[r])

\* execute_job returns: the agent is done, cancelled, or it never started.
\* The token under the job's id goes, whosever it is.
Execute(r) ==
    /\ At(r, "executing", "executed")
    /\ TakeToken(r)
    /\ UNCHANGED <<jobVars, fileVars, cancelled, callVars, listVars, boundVars>>

KeepFlag(r) == UNCHANGED jobs                           \* mutant of ClearFlag
ClearFlag(r) ==
    IF rjob[r] \in DOMAIN jobs THEN SetFlag(rjob[r], FALSE) ELSE UNCHANGED jobs

Unmark(r) ==
    /\ At(r, "executed", "unmarked")
    /\ ClearFlag(r)
    /\ left' = left \ {rjob[r]}
    /\ UNCHANGED <<crons, cut, fileVars, tokens, cancelled, callVars, listVars, boundVars>>

SaveUnmark(r) ==
    /\ rpc[r] = "unmarked"
    /\ EndRun(r)
    /\ Write \/ WriteFails
    /\ UNCHANGED <<jobVars, tokens, callVars, listVars, crashes>>

Marked == {"marked", "saved", "executing", "executed"}

\* The client of run_now goes away: the handler, which runs the job, is
\* dropped where it waits.  Its mark stays, and so does its token, to which
\* no run listens any more.
DropRun(r) ==
    /\ r \in now
    /\ rpc[r] \in Marked \cup {"unmarked"}
    /\ EndRun(r)
    /\ tokens' = [k \in DOMAIN tokens |-> IF tokens[k] = r THEN NoRun
                                                          ELSE tokens[k]]
    /\ left' = IF rpc[r] \in Marked THEN left \cup {rjob[r]} ELSE left
    /\ UNCHANGED <<jobs, crons, cut, fileVars, callVars, listVars, boundVars>>

-----------------------------------------------------------------------------
\* A call of another operation: from its first lock section to its return.
Begin(c, next, kept) ==
    /\ cpc[c] = "idle"
    /\ cpc' = [cpc EXCEPT ![c] = next]
    /\ call' = [call EXCEPT ![c] = kept]
    /\ UNCHANGED <<fileVars, runVars, listVars, boundVars>>

Return(c) ==
    /\ cpc' = [cpc EXCEPT ![c] = "idle"]
    /\ call' = [call EXCEPT ![c] = NoCall]

Goto(c, here, next) ==
    /\ cpc[c] = here
    /\ cpc' = [cpc EXCEPT ![c] = next]
    /\ UNCHANGED <<runVars, listVars>>

Add(c, j) ==
    /\ Cardinality(DOMAIN crons) < MaxCrons
    /\ Begin(c, "adding", [NoCall EXCEPT !.job = j])
    /\ j \notin DOMAIN jobs
    /\ UNCHANGED jobVars

\* A cron task of the job's own: add has put the recipe where it runs it from.
Register(c) ==
    /\ \/ /\ Goto(c, "adding", "inserting")
          /\ gone' = gone \ {call[c].job}
       \/ /\ Goto(c, "registering", "renaming")
          /\ UNCHANGED gone
    /\ crons' = Put(crons, NewUuid, call[c].job)
    /\ call' = [call EXCEPT ![c].uuid = NewUuid]
    /\ UNCHANGED <<jobs, left, cut, disk, legible, boundVars>>

Insert(c) ==
    /\ Goto(c, "inserting", "saving")
    /\ call' = [call EXCEPT ![c] = NoCall]
    /\ jobs' = Put(jobs, call[c].job, InMap(Fresh, call[c].uuid))
    /\ left' = left \ {call[c].job}
    /\ cut' = cut \ {call[c].job}
    /\ UNCHANGED <<crons, fileVars, boundVars>>

\* remove_scheduled_job: out of the map first ...
Remove(c, j) ==
    /\ j \in DOMAIN jobs
    /\ Begin(c, "removing", [NoCall EXCEPT !.job = j, !.uuid = jobs[j].uuid])
    /\ jobs' = Drop(jobs, j)
    /\ left' = left \ {j}
    /\ cut' = cut \ {j}
    /\ UNCHANGED crons

\* ... then the registration goes and, if that is asked for, the recipe file;
\* the call ends here when it cannot be deleted.
Unregister(c) ==
    /\ crons' = Drop(crons, call[c].uuid)
    /\ \/ /\ Goto(c, "removing", "saving")
          /\ gone' \in {gone, gone \cup {call[c].job}}
          /\ call' = [call EXCEPT ![c] = NoCall]
          /\ UNCHANGED failures
       \/ /\ cpc[c] = "removing"
          /\ failures < MaxFailures
          /\ failures' = failures + 1
          /\ Return(c)
          /\ UNCHANGED <<gone, runVars, listVars>>
    /\ UNCHANGED <<jobs, left, cut, disk, legible, crashes>>

\* pause_schedule refuses a job that is marked.
MayPause(j) == ~jobs[j].running

Pause(c, j) ==
    /\ j \in DOMAIN jobs
    /\ MayPause(j)
    /\ Begin(c, "saving", NoCall)
    /\ jobs' = [jobs EXCEPT ![j].paused = TRUE]
    /\ UNCHANGED <<crons, left, cut>>

Unpause(c, j) ==
    /\ j \in DOMAIN jobs
    /\ Begin(c, "saving", NoCall)
    /\ jobs' = [jobs EXCEPT ![j].paused = FALSE]
    /\ UNCHANGED <<crons, left, cut>>

Updating == {"replacing", "registering", "renaming"}

\* update_schedule: the new expression is entered first ...
Update(c, j, ok) ==
    /\ j \in DOMAIN jobs
    /\ ~jobs[j].running
    /\ Cardinality(DOMAIN crons) < MaxCrons
    /\ Begin(c, "replacing", [job |-> j, uuid |-> jobs[j].uuid,
                              parses |-> ok])
    /\ jobs' = [jobs EXCEPT ![j].parses = ok]
    /\ UNCHANGED <<crons, left, cut>>

\* ... then the old registration goes, and the call fails here if the
\* expression cannot be parsed ...
Replace(c) ==
    /\ cpc[c] = "replacing"
    /\ crons' = Drop(crons, call[c].uuid)
    /\ IF call[c].parses
       THEN /\ cpc' = [cpc EXCEPT ![c] = "registering"]
            /\ UNCHANGED call
       ELSE Return(c)
    /\ UNCHANGED <<jobs, left, cut, fileVars, runVars, listVars, boundVars>>

\* Mutant of Renamed: the job keeps the registration that was removed.
KeepName(c) == jobs

\* The job, if it is still there, with the new registration.
Renamed(c) ==
    IF call[c].job \in DOMAIN jobs
    THEN [jobs EXCEPT ![call[c].job].uuid = call[c].uuid] ELSE jobs

\* ... and, once there is a new one (Register), the map is told.
Rename(c) ==
    /\ Goto(c, "renaming", "saving")
    /\ jobs' = Renamed(c)
    /\ cut' = cut \ {call[c].job}
    /\ call' = [call EXCEPT ![c] = NoCall]
    /\ UNCHANGED <<crons, left, fileVars, boundVars>>

\* The call returns, with the error if the write fails.
Save(c) ==
    /\ cpc[c] = "saving"
    /\ Write \/ WriteFails
    /\ Return(c)
    /\ UNCHANGED <<jobVars, runVars, listVars, crashes>>

\* kill_running_job: the flag is read under one lock, the token under another.
Kill(c, j) ==
    /\ j \in DOMAIN jobs
    /\ jobs[j].running
    /\ Begin(c, "killing", [NoCall EXCEPT !.job = j])
    /\ UNCHANGED jobVars

CancelToken(c) ==
    /\ cpc[c] = "killing"
    /\ cancelled' = {r \in Runs :
                        \/ r \in cancelled
                        \/ call[c].job \in DOMAIN tokens /\ tokens[call[c].job] = r}
    /\ Return(c)
    /\ UNCHANGED <<jobVars, fileVars, tokens, rpc, rjob, now, listVars,
                   boundVars>>

\* The client of a call goes away and its handler is dropped where it waits.
\* An update may have removed one registration and not entered another.
DropCall(c) ==
    /\ cpc[c] # "idle"
    /\ Cardinality(DOMAIN crons) < MaxCrons
    /\ Return(c)
    /\ cut' = IF cpc[c] \in Updating THEN cut \cup {call[c].job} ELSE cut
    /\ UNCHANGED <<jobs, crons, left, fileVars, runVars, listVars, boundVars>>

-----------------------------------------------------------------------------
(***************************************************************************)
(* list_scheduled_jobs first synchronises with the file, which another     *)
(* process may have written: it adds and removes jobs, but does not save.  *)
(* It leaves the jobs alone when there is no file or it cannot be parsed;  *)
(* so it does when it reads one that is being written.                     *)
(***************************************************************************)
ListRead ==
    /\ Listing
    /\ legible
    /\ lpc = "idle"
    /\ lpc' = "read"
    /\ seen' = disk
    /\ UNCHANGED <<jobVars, fileVars, runVars, callVars, adding, removing,
                   boundVars>>

\* Mutant of ToRemove: the file only ever adds jobs.
NoneToRemove == {}

ToRemove == {j \in DOMAIN jobs \ DOMAIN seen : ~jobs[j].running}

\* What differs, by id; a job whose expression cannot be parsed is skipped.
ListDiff ==
    /\ lpc = "read"
    /\ lpc' = "applying"
    /\ seen' = Empty
    /\ adding' = [j \in {i \in DOMAIN seen \ DOMAIN jobs : seen[i].parses} |->
                     InMap(seen[j], 0)]
    /\ removing' = [j \in ToRemove |-> jobs[j].uuid]
    /\ UNCHANGED <<jobVars, fileVars, runVars, callVars, boundVars>>

Applying ==
    /\ lpc = "applying"
    /\ UNCHANGED <<fileVars, runVars, callVars, lpc, seen, boundVars>>

\* So is a job whose recipe file is missing.
ListSkip(j) ==
    /\ Applying
    /\ j \in DOMAIN adding \cap gone
    /\ adding[j].uuid = 0
    /\ adding' = Drop(adding, j)
    /\ UNCHANGED <<jobVars, removing>>

\* The others are added one by one ...
ListRegister(j) ==
    /\ Applying
    /\ j \in DOMAIN adding \ gone
    /\ \A i \in DOMAIN adding : adding[i].uuid = 0
    /\ crons' = Put(crons, NewUuid, j)
    /\ adding' = [adding EXCEPT ![j].uuid = NewUuid]
    /\ UNCHANGED <<jobs, left, cut, removing>>

\* ... with the mark the file has, whosever run that was.
ListInsert(j) ==
    /\ Applying
    /\ j \in DOMAIN adding
    /\ adding[j].uuid # 0
    /\ jobs' = Put(jobs, j, adding[j])
    /\ left' = IF adding[j].running THEN left \cup {j} ELSE left \ {j}
    /\ cut' = cut \ {j}
    /\ adding' = Drop(adding, j)
    /\ UNCHANGED <<crons, removing>>

\* Then jobs go one by one, registration first.
ListUnregister(j) ==
    /\ Applying
    /\ adding = Empty
    /\ j \in DOMAIN removing
    /\ \A i \in DOMAIN removing : removing[i] # 0
    /\ crons' = Drop(crons, removing[j])
    /\ removing' = [removing EXCEPT ![j] = 0]
    /\ UNCHANGED <<jobs, left, cut, adding>>

ListForget(j) ==
    /\ Applying
    /\ j \in DOMAIN removing
    /\ removing[j] = 0
    /\ jobs' = Drop(jobs, j)
    /\ left' = left \ {j}
    /\ cut' = cut \ {j}
    /\ removing' = Drop(removing, j)
    /\ UNCHANGED <<crons, adding>>

ListEnd ==
    /\ lpc = "applying"
    /\ adding = Empty
    /\ removing = Empty
    /\ lpc' = "idle"
    /\ UNCHANGED <<jobVars, fileVars, runVars, callVars, seen, adding, removing,
                   boundVars>>

\* The client that lists goes away; what was done so far stays.
DropList ==
    /\ lpc # "idle"
    /\ Cardinality(DOMAIN crons) < MaxCrons
    /\ lpc' = "idle"
    /\ seen' = Empty
    /\ adding' = Empty
    /\ removing' = Empty
    /\ cut' = cut \cup {j \in DOMAIN removing : removing[j] = 0}
    /\ UNCHANGED <<jobs, crons, left, fileVars, runVars, callVars, boundVars>>

-----------------------------------------------------------------------------
Saving == \/ \E r \in Runs : rpc[r] \in {"marked", "unmarked"}
          \/ \E c \in Callers : cpc[c] = "saving"

\* The process dies, perhaps in the middle of a write, and a new one loads the
\* file: marks are taken as they are, and a job whose expression cannot be
\* parsed, or whose recipe file is missing, is skipped.
Crash ==
    /\ crashes < MaxCrashes
    /\ crashes' = crashes + 1
    /\ UNCHANGED <<disk, legible>> \/ (Saving /\ CutShort)
    /\ LET loaded == {j \in DOMAIN disk' \ gone : disk'[j].parses}
           uuid == CHOOSE f \in [loaded -> 1..Cardinality(loaded)] :
                       \A i, j \in loaded : f[i] = f[j] => i = j
       IN  /\ jobs' = [j \in loaded |-> InMap(disk'[j], uuid[j])]
           /\ crons' = [u \in 1..Cardinality(loaded) |->
                           CHOOSE j \in loaded : uuid[j] = u]
           /\ left' = {j \in loaded : disk'[j].running}
    /\ cut' = {}
    /\ tokens' = Empty
    /\ cancelled' = {}
    /\ rpc' = [r \in Runs |-> "idle"]
    /\ cpc' = [c \in Callers |-> "idle"]
    /\ call' = [c \in Callers |-> NoCall]
    /\ lpc' = "idle"
    /\ seen' = Empty
    /\ adding' = Empty
    /\ removing' = Empty
    /\ rjob' = [r \in Runs |-> NoJob]
    /\ now' = {}
    /\ UNCHANGED <<gone, failures>>

-----------------------------------------------------------------------------
RunStep(r) ==
    \/ Mark(r) \/ SaveMark(r) \/ SaveMarkFails(r) \/ InsertToken(r)
    \/ Execute(r) \/ Unmark(r) \/ SaveUnmark(r)

CallStep(c) ==
    \/ Register(c) \/ Insert(c) \/ Unregister(c) \/ Replace(c) \/ Rename(c)
    \/ Save(c) \/ CancelToken(c) \/ DropCall(c)

List ==
    \/ ListRead \/ ListDiff \/ ListEnd \/ DropList
    \/ \E j \in Jobs :
          \/ ListSkip(j) \/ ListRegister(j) \/ ListInsert(j)
          \/ ListUnregister(j) \/ ListForget(j)

Next ==
    \/ \E r \in Runs :
          \/ \E u \in DOMAIN crons : Tick(r, u)
          \/ \E j \in Jobs : RunNow(r, j)
          \/ RunStep(r) \/ DropRun(r)
    \/ \E c \in Callers :
          \/ \E j \in Jobs :
                \/ Add(c, j) \/ Remove(c, j) \/ Pause(c, j) \/ Unpause(c, j)
                \/ Kill(c, j)
                \/ \E ok \in BOOLEAN : Update(c, j, ok)
          \/ CallStep(c)
    \/ List
    \/ Crash

Spec == Init /\ [][Next]_vars

-----------------------------------------------------------------------------
Entries == [uuid : Nat, paused : BOOLEAN, running : BOOLEAN, parses : BOOLEAN]
RunPcs == Marked \cup {"idle", "checked", "unmarked"}
CallPcs == Updating \cup {"idle", "adding", "inserting", "removing", "saving",
                        "killing"}

\* Types of the variables.
TypeOK ==
    /\ DOMAIN jobs \subseteq Jobs /\ \A j \in DOMAIN jobs : jobs[j] \in Entries
    /\ DOMAIN disk \subseteq Jobs /\ \A j \in DOMAIN disk : disk[j] \in Stored
    /\ legible \in BOOLEAN
    /\ gone \subseteq Jobs
    /\ DOMAIN crons \subseteq Nat \ {0}
    /\ \A u \in DOMAIN crons : crons[u] \in Jobs
    /\ DOMAIN tokens \subseteq Jobs
    /\ \A j \in DOMAIN tokens : tokens[j] \in Runs \cup {NoRun}
    /\ cancelled \subseteq Runs
    /\ rpc \in [Runs -> RunPcs]
    /\ rjob \in [Runs -> Jobs \cup {NoJob}]
    /\ now \subseteq Runs
    /\ cpc \in [Callers -> CallPcs]
    /\ call \in [Callers -> [job : Jobs \cup {NoJob}, uuid : Nat, parses : BOOLEAN]]
    /\ lpc \in {"idle", "read", "applying"}
    /\ DOMAIN seen \subseteq Jobs /\ \A j \in DOMAIN seen : seen[j] \in Stored
    /\ DOMAIN adding \subseteq Jobs
    /\ \A j \in DOMAIN adding : adding[j] \in Entries
    /\ DOMAIN removing \subseteq Jobs
    /\ \A j \in DOMAIN removing : removing[j] \in Nat
    /\ left \subseteq Jobs
    /\ cut \subseteq Jobs
    /\ crashes \in Nat
    /\ failures \in Nat

RunOf(r, j) == rjob[r] = j /\ rpc[r] \in Marked

\* A job that is marked as running has a run that will clear the mark, so
\* run_now, pause and update do not refuse it for ever; the exceptions are
\* marks that a crash, a dropped or failed run_now, or the file left behind.
FlagHasRun ==
    \A j \in DOMAIN jobs :
        jobs[j].running /\ j \notin left => \E r \in Runs : RunOf(r, j)

\* running_tasks holds the token of a run that is under way, or one nobody
\* listens to: kill_running_job never cancels a run of another job.
TokenHasRun ==
    \A j \in DOMAIN tokens : tokens[j] # NoRun =>
        rjob[tokens[j]] = j /\ rpc[tokens[j]] = "executing"

\* Every job whose expression can be parsed has a cron task of its own that
\* runs it, in whatever order updates, removals, list and crashes change the
\* registrations, unless an update is replacing it or list is removing the
\* job.  A job is left without one for good only where such an update or list
\* was dropped in between (`cut`), until it is updated again, removed, or
\* loaded by the next process.
JobHasCron ==
    \A j \in DOMAIN jobs :
        \/ ~jobs[j].parses
        \/ \E c \in Callers : cpc[c] \in Updating /\ call[c].job = j
        \/ j \in DOMAIN removing /\ removing[j] = 0
        \/ j \in cut
        \/ jobs[j].uuid \in DOMAIN crons /\ crons[jobs[j].uuid] = j

Quiet ==
    /\ \A r \in Runs : rpc[r] = "idle"
    /\ \A c \in Callers : cpc[c] = "idle"

\* Memory and file hold the same jobs, but for those list leaves alone: marked
\* ones in memory, and in the file those it cannot run.
SameJobs ==
    /\ \A j \in DOMAIN jobs : jobs[j].running \/ j \in DOMAIN disk
    /\ \A j \in DOMAIN disk \ gone : disk[j].parses => j \in DOMAIN jobs

\* Once nothing else happens and list gets through to its end again and again,
\* it makes memory and file agree, whatever calls, runs, dropped handlers,
\* failed writes and crashes did before, if the file can be parsed: when a
\* write that failed has cut it short list leaves the two apart, and only the
\* next call that saves brings them together.
ListHeals ==
    <>[]Quiet /\ <>[]legible /\ []<><<ListEnd>>_vars => <>[]SameJobs

\* "Running job killed successfully" (kill_running_job): when the call
\* returns, every run of the job that was not over has been cancelled.
KillReachesRun ==
    [][\A c \in Callers : CancelToken(c) =>
         \A r \in Runs :
            /\ rjob[r] = call[c].job
            /\ rpc[r] \in {"marked", "saved", "executing"}
            => r \in cancelled']_vars
=============================================================================
