--------------------------- MODULE SchedulerProofs ---------------------------
(***************************************************************************)
(* What Scheduler guarantees for any jobs, runs and callers, whatever      *)
(* crashes, writes that fail and clients that go away.                     *)
(*                                                                         *)
(* Marks and tokens: whoever sets a mark or takes a token is a run, and a  *)
(* run that goes leaves neither, or leaves a mark that nobody will clear.  *)
(* Cron tasks: a registration is only ever dropped by somebody who         *)
(* remembers its name, and no name that somebody remembers is given out    *)
(* again (NewUuidIsNew), so nobody drops the task of another job.  Until   *)
(* the map has a new name, only the call (CallNames) or the list           *)
(* (ListNames) that registered it knows it.                                *)
(***************************************************************************)
EXTENDS Scheduler, FiniteSetTheorems, FunctionTheorems, TLAPS

LEMMA PutEffect ==
    ASSUME NEW f, NEW k, NEW v
    PROVE  /\ DOMAIN Put(f, k, v) = DOMAIN f \cup {k}
           /\ Put(f, k, v)[k] = v
           /\ \A x \in DOMAIN f : x # k => Put(f, k, v)[x] = f[x]
  BY DEF Put

LEMMA DropEffect ==
    ASSUME NEW f, NEW k
    PROVE  /\ DOMAIN Drop(f, k) = DOMAIN f \ {k}
           /\ \A x \in DOMAIN f : x # k => Drop(f, k)[x] = f[x]
  BY DEF Drop, Restrict

\* Of a map without one key the rest stays.
LEMMA MapDropped ==
    ASSUME NEW f, NEW g, NEW k, g = Drop(f, k)
    PROVE  k \notin DOMAIN g /\ \A x \in DOMAIN g : x \in DOMAIN f /\ g[x] = f[x]
  BY DEF Drop, Restrict

LEMMA EmptyEffect == DOMAIN Empty = {}
  BY DEF Empty, Restrict

\* What a function maps a finite set to is finite.
LEMMA FiniteImage ==
    ASSUME NEW f, IsFiniteSet(DOMAIN f)
    PROVE  IsFiniteSet({f[x] : x \in DOMAIN f})
<1> DEFINE T == {f[x] : x \in DOMAIN f}
           g == [x \in DOMAIN f |-> f[x]]
<1>1. g \in Surjection(DOMAIN f, T)
  BY DEF Surjection
<1> QED
  BY <1>1, FS_Surjection

\* Somebody remembers the registration u as the one of job j.
Remembers(j, u) ==
    /\ u # 0
    /\ \/ j \in DOMAIN jobs /\ jobs[j].uuid = u
       \/ \E c \in Callers : call[c].job = j /\ call[c].uuid = u
       \/ j \in DOMAIN adding /\ adding[j].uuid = u
       \/ j \in DOMAIN removing /\ removing[j] = u

FiniteCrons == IsFiniteSet(DOMAIN crons)

\* A new registration has a name that nobody remembers.
LEMMA NewUuidIsNew ==
    ASSUME TypeOK, FiniteCrons
    PROVE  /\ NewUuid \in Nat \ {0}
           /\ NewUuid \notin DOMAIN crons
           /\ \A j \in DOMAIN jobs : jobs[j].uuid # NewUuid
           /\ \A c \in Callers : call[c].uuid # NewUuid
           /\ \A j \in DOMAIN adding : adding[j].uuid # NewUuid
           /\ \A j \in DOMAIN removing : removing[j] # NewUuid
<1> DEFINE known == DOMAIN crons \cup {jobs[j].uuid : j \in DOMAIN jobs}
                       \cup {call[c].uuid : c \in Callers}
                       \cup {adding[j].uuid : j \in DOMAIN adding}
                       \cup {removing[j] : j \in DOMAIN removing}
           n == Cardinality(known)
<1>1. IsFiniteSet({jobs[j].uuid : j \in DOMAIN jobs})
  <2> DEFINE f == [j \in DOMAIN jobs |-> jobs[j].uuid]
  <2>1. IsFiniteSet(DOMAIN jobs)
    BY SchedulerAssumption, FS_Subset DEF TypeOK
  <2>2. IsFiniteSet({f[x] : x \in DOMAIN f})
    BY <2>1, FiniteImage
  <2>3. {f[x] : x \in DOMAIN f} = {jobs[j].uuid : j \in DOMAIN jobs}
    OBVIOUS
  <2> QED
    BY <2>2, <2>3
<1>2. IsFiniteSet({call[c].uuid : c \in Callers})
  <2> DEFINE f == [c \in Callers |-> call[c].uuid]
  <2>2. IsFiniteSet({f[x] : x \in DOMAIN f})
    BY SchedulerAssumption, FiniteImage
  <2>3. {f[x] : x \in DOMAIN f} = {call[c].uuid : c \in Callers}
    OBVIOUS
  <2> QED
    BY <2>2, <2>3
<1>3. IsFiniteSet({removing[j] : j \in DOMAIN removing})
  BY SchedulerAssumption, FS_Subset, FiniteImage DEF TypeOK
<1>9. IsFiniteSet({adding[j].uuid : j \in DOMAIN adding})
  <2> DEFINE f == [j \in DOMAIN adding |-> adding[j].uuid]
  <2>1. IsFiniteSet(DOMAIN adding)
    BY SchedulerAssumption, FS_Subset DEF TypeOK
  <2>2. IsFiniteSet({f[x] : x \in DOMAIN f})
    BY <2>1, FiniteImage
  <2>3. {f[x] : x \in DOMAIN f} = {adding[j].uuid : j \in DOMAIN adding}
    OBVIOUS
  <2> QED
    BY <2>2, <2>3
<1>4. IsFiniteSet(known)
  BY <1>1, <1>2, <1>3, <1>9, FS_Union DEF FiniteCrons
<1>5. n \in Nat
  BY <1>4, FS_CardinalityType
<1>6. \E u \in 1..(n + 1) : u \notin known
  <2>1. ASSUME 1..(n + 1) \subseteq known
        PROVE  FALSE
    <3>1. Cardinality(1..(n + 1)) <= n
      BY <1>4, <2>1, FS_Subset
    <3>2. Cardinality(1..(n + 1)) = n + 1
      BY <1>5, FS_Interval
    <3> HIDE DEF n
    <3> QED
      BY <1>5, <3>1, <3>2
  <2> QED
    BY <2>1
<1>7. NewUuid \in 1..(n + 1) /\ NewUuid \notin known
  BY <1>6 DEF NewUuid
<1>8. NewUuid \in Nat \ {0}
  BY <1>5, <1>7
<1> QED
  BY <1>7, <1>8

-----------------------------------------------------------------------------
LEMMA PutType ==
    ASSUME NEW K, NEW V, NEW f, NEW k \in K, NEW v \in V,
           DOMAIN f \subseteq K, \A x \in DOMAIN f : f[x] \in V
    PROVE  /\ DOMAIN Put(f, k, v) \subseteq K
           /\ \A x \in DOMAIN Put(f, k, v) : Put(f, k, v)[x] \in V
  BY DEF Put

LEMMA DropType ==
    ASSUME NEW K, NEW V, NEW f, NEW k,
           DOMAIN f \subseteq K, \A x \in DOMAIN f : f[x] \in V
    PROVE  /\ DOMAIN Drop(f, k) \subseteq K
           /\ \A x \in DOMAIN Drop(f, k) : Drop(f, k)[x] \in V
  BY DEF Drop, Restrict

LEMMA EntryTypes ==
    /\ \A e \in Entries : OnDisk(e) \in Stored
    /\ \A e \in Stored : \A u \in Nat : InMap(e, u) \in Entries
    /\ Fresh \in Stored
  BY DEF Entries, Stored, OnDisk, InMap, Fresh

\* The jobs, the file, the registrations and the tokens.
JobsType == DOMAIN jobs \subseteq Jobs /\ \A j \in DOMAIN jobs : jobs[j] \in Entries
FileType ==
    /\ DOMAIN disk \subseteq Jobs /\ \A j \in DOMAIN disk : disk[j] \in Stored
    /\ legible \in BOOLEAN
    /\ gone \subseteq Jobs
CronsType ==
    /\ DOMAIN crons \subseteq Nat \ {0}
    /\ \A u \in DOMAIN crons : crons[u] \in Jobs
TokensType ==
    /\ DOMAIN tokens \subseteq Jobs
    /\ \A j \in DOMAIN tokens : tokens[j] \in Runs \cup {NoRun}
RunsType ==
    /\ cancelled \subseteq Runs
    /\ rpc \in [Runs -> RunPcs]
    /\ rjob \in [Runs -> Jobs \cup {NoJob}]
    /\ now \subseteq Runs
CallsType ==
    /\ cpc \in [Callers -> CallPcs]
    /\ call \in [Callers -> [job : Jobs \cup {NoJob}, uuid : Nat, parses : BOOLEAN]]
ListType ==
    /\ lpc \in {"idle", "read", "applying"}
    /\ DOMAIN seen \subseteq Jobs /\ \A j \in DOMAIN seen : seen[j] \in Stored
    /\ DOMAIN adding \subseteq Jobs
    /\ \A j \in DOMAIN adding : adding[j] \in Entries
    /\ DOMAIN removing \subseteq Jobs
    /\ \A j \in DOMAIN removing : removing[j] \in Nat
RestType ==
    left \subseteq Jobs /\ cut \subseteq Jobs /\ crashes \in Nat /\ failures \in Nat

LEMMA TypeParts ==
    TypeOK <=> /\ JobsType /\ FileType /\ CronsType /\ TokensType
               /\ RunsType /\ CallsType /\ ListType /\ RestType
  BY DEF TypeOK, JobsType, FileType, CronsType, TokensType, RunsType, CallsType,
         ListType, RestType

LEMMA TypePartsNext ==
    ASSUME JobsType', FileType', CronsType', TokensType', RunsType', CallsType',
           ListType', RestType'
    PROVE  TypeOK'
  BY DEF TypeOK, JobsType, FileType, CronsType, TokensType, RunsType, CallsType,
         ListType, RestType

\* Whoever is at work knows its job.
BusyInv ==
    /\ \A r \in Runs : rpc[r] # "idle" => rjob[r] \in Jobs
    /\ \A c \in Callers : cpc[c] \notin {"idle", "saving"} => call[c].job \in Jobs
    /\ lpc # "applying" => DOMAIN adding = {} /\ DOMAIN removing = {}

\* The parts that need more than the types.
TypeInv == TypeOK /\ BusyInv /\ FiniteCrons

LEMMA SetFlagType ==
    ASSUME JobsType, NEW j \in DOMAIN jobs, NEW flag \in BOOLEAN, SetFlag(j, flag)
    PROVE  JobsType' /\ DOMAIN jobs' = DOMAIN jobs
  BY DEF SetFlag, JobsType, Entries

LEMMA WriteType ==
    ASSUME TypeOK, Write \/ WriteFails
    PROVE  FileType' /\ failures' \in Nat
<1>1. CASE Write
  <2>1. DOMAIN disk' = DOMAIN jobs /\ \A j \in DOMAIN jobs : disk'[j] = OnDisk(jobs[j])
    BY <1>1 DEF Write
  <2> QED
    BY <1>1, <2>1, EntryTypes DEF TypeOK, FileType, Write
<1>2. CASE WriteFails
  <2>1. /\ UNCHANGED <<disk, legible>> \/ CutShort
        /\ gone' = gone /\ failures' = failures + 1
    BY <1>2 DEF WriteFails
  <2>2. \/ UNCHANGED <<disk, legible>>
        \/ DOMAIN disk' = {} /\ legible' = FALSE
    BY <2>1, EmptyEffect DEF CutShort
  <2>3. failures' \in Nat /\ gone' \subseteq Jobs
    BY <2>1 DEF TypeOK
  <2>5. legible' \in BOOLEAN
    BY <2>2 DEF TypeOK
  <2>4. DOMAIN disk' \subseteq Jobs /\ \A j \in DOMAIN disk' : disk'[j] \in Stored
    BY <2>2 DEF TypeOK
  <2> QED
    BY <2>3, <2>4, <2>5 DEF FileType
<1> QED
  BY <1>1, <1>2

-----------------------------------------------------------------------------
\* The steps of runs: they neither add nor remove jobs and registrations.
RunAction ==
    \E r \in Runs :
        \/ \E u \in DOMAIN crons : Tick(r, u)
        \/ \E j \in Jobs : RunNow(r, j)
        \/ RunStep(r) \/ DropRun(r)

\* What these steps leave of the jobs.
SameNames ==
    /\ DOMAIN jobs' = DOMAIN jobs
    /\ \A j \in DOMAIN jobs : jobs'[j].uuid = jobs[j].uuid
                              /\ jobs'[j].parses = jobs[j].parses
    /\ UNCHANGED <<crons, cut, cpc, call, lpc, seen, adding, removing>>

LEMMA SetFlagNames ==
    ASSUME JobsType, NEW j \in DOMAIN jobs, NEW flag \in BOOLEAN, SetFlag(j, flag)
    PROVE  /\ DOMAIN jobs' = DOMAIN jobs
           /\ \A i \in DOMAIN jobs : /\ jobs'[i].uuid = jobs[i].uuid
                                     /\ jobs'[i].parses = jobs[i].parses
                                     /\ i # j => jobs'[i] = jobs[i]
           /\ jobs'[j].running = flag
  BY DEF SetFlag, JobsType, Entries

LEMMA RunActionType ==
    ASSUME TypeInv, RunAction
    PROVE  TypeInv' /\ SameNames
<1> DEFINE Goal == TypeInv' /\ SameNames
<1>0. /\ JobsType /\ FileType /\ CronsType /\ TokensType
      /\ RunsType /\ CallsType /\ ListType /\ RestType /\ BusyInv /\ FiniteCrons
      /\ TypeOK
  BY TypeParts DEF TypeInv
<1>1. ASSUME JobsType', FileType', TokensType', RunsType', RestType',
             \A r \in Runs : rpc'[r] # "idle" => rjob'[r] \in Jobs,
             SameNames
      PROVE  Goal
  <2>1. CronsType' /\ CallsType' /\ ListType' /\ FiniteCrons'
    BY <1>0, <1>1 DEF SameNames, CronsType, CallsType, ListType, FiniteCrons
  <2>2. BusyInv'
    BY <1>0, <1>1 DEF BusyInv, SameNames
  <2>3. TypeOK'
    BY <1>1, <2>1, TypePartsNext
  <2> QED
    BY <1>1, <2>1, <2>2, <2>3 DEF TypeInv
<1>2. jobs' = jobs /\ UNCHANGED <<crons, cut, cpc, call, lpc, seen, adding, removing>>
        => JobsType' /\ SameNames
  BY <1>0 DEF JobsType, SameNames
<1>3. ASSUME NEW r \in Runs, NEW u \in DOMAIN crons, Tick(r, u)
      PROVE  Goal
  <2>1. /\ UNCHANGED <<jobs, crons, left, cut, disk, legible, gone, tokens, cancelled, now, cpc, call,
                       lpc, seen, adding, removing, crashes, failures>>
        /\ rpc' = [rpc EXCEPT ![r] = "checked"]
        /\ rjob' = [rjob EXCEPT ![r] = crons[u]]
    BY <1>3 DEF Tick, StartRun, jobVars, fileVars, callVars, listVars, boundVars
  <2>2. crons[u] \in Jobs
    BY <1>0 DEF CronsType
  <2>3. RunsType' /\ \A q \in Runs : rpc'[q] # "idle" => rjob'[q] \in Jobs
    BY <1>0, <2>1, <2>2 DEF RunsType, RunPcs, BusyInv
  <2>4. FileType' /\ TokensType' /\ RestType'
    BY <1>0, <2>1 DEF FileType, TokensType, RestType
  <2> QED
    BY <1>1, <1>2, <2>1, <2>3, <2>4
<1>4. ASSUME NEW r \in Runs, NEW j \in Jobs, RunNow(r, j)
      PROVE  Goal
  <2>1. /\ UNCHANGED <<crons, left, cut, disk, legible, gone, tokens, cancelled, cpc, call,
                       lpc, seen, adding, removing, crashes, failures>>
        /\ rpc' = [rpc EXCEPT ![r] = "marked"]
        /\ rjob' = [rjob EXCEPT ![r] = j]
        /\ now' = now \cup {r}
        /\ j \in DOMAIN jobs /\ SetFlag(j, TRUE)
    BY <1>4 DEF RunNow, StartRun, fileVars, callVars, listVars, boundVars
  <2>2. RunsType' /\ \A q \in Runs : rpc'[q] # "idle" => rjob'[q] \in Jobs
    BY <1>0, <2>1 DEF RunsType, RunPcs, Marked, BusyInv
  <2>3. FileType' /\ TokensType' /\ RestType'
    BY <1>0, <2>1 DEF FileType, TokensType, RestType
  <2>4. JobsType' /\ SameNames
    BY <1>0, <2>1, SetFlagType, SetFlagNames DEF SameNames
  <2> QED
    BY <1>1, <2>2, <2>3, <2>4
\* A run goes from one point to the next, or ends.
<1>5. ASSUME NEW r \in Runs, NEW here, NEW next \in RunPcs \ {"idle"},
             here # "idle", At(r, here, next), cancelled' = cancelled
      PROVE  RunsType' /\ \A q \in Runs : rpc'[q] # "idle" => rjob'[q] \in Jobs
  BY <1>0, <1>5 DEF At, RunsType, BusyInv
<1>6. ASSUME NEW r \in Runs, EndRun(r)
      PROVE  RunsType' /\ \A q \in Runs : rpc'[q] # "idle" => rjob'[q] \in Jobs
  BY <1>0, <1>6 DEF EndRun, RunsType, BusyInv, RunPcs
<1>7. ASSUME NEW r \in Runs, Mark(r) \/ Unmark(r)
      PROVE  Goal
  <2>1. /\ UNCHANGED <<crons, cut, disk, legible, gone, tokens, cancelled, cpc, call, lpc, seen, adding,
                       removing, crashes, failures>>
        /\ left' = left \ {rjob[r]}
        /\ At(r, "checked", "marked") \/ At(r, "executed", "unmarked")
    BY <1>7 DEF Mark, Unmark, fileVars, callVars, listVars, boundVars
  <2>2. \/ jobs' = jobs
        \/ rjob[r] \in DOMAIN jobs /\ \E b \in BOOLEAN : SetFlag(rjob[r], b)
    BY <1>7 DEF Mark, Unmark, ClearFlag
  <2>3. JobsType' /\ SameNames
    <3>1. CASE jobs' = jobs
      BY <1>2, <2>1, <3>1
    <3>2. CASE rjob[r] \in DOMAIN jobs /\ \E b \in BOOLEAN : SetFlag(rjob[r], b)
      BY <1>0, <2>1, <3>2, SetFlagType, SetFlagNames DEF SameNames
    <3> QED
      BY <2>2, <3>1, <3>2
  <2>4. RunsType' /\ \A q \in Runs : rpc'[q] # "idle" => rjob'[q] \in Jobs
    BY <1>5, <2>1 DEF RunPcs, Marked
  <2>5. FileType' /\ TokensType' /\ RestType'
    BY <1>0, <2>1 DEF FileType, TokensType, RestType
  <2> QED
    BY <1>1, <2>3, <2>4, <2>5
<1>8. ASSUME NEW r \in Runs, SaveMark(r)
      PROVE  Goal
  <2>1. /\ UNCHANGED <<jobs, crons, left, cut, tokens, cancelled, cpc, call, lpc, seen,
                       adding, removing, crashes>>
        /\ At(r, "marked", "saved")
        /\ Write \/ WriteFails
    BY <1>8 DEF SaveMark, jobVars, callVars, listVars
  <2>2. FileType' /\ failures' \in Nat
    BY <1>0, <2>1, WriteType
  <2>3. TokensType' /\ RestType'
    BY <1>0, <2>1, <2>2 DEF TokensType, RestType
  <2>4. RunsType' /\ \A q \in Runs : rpc'[q] # "idle" => rjob'[q] \in Jobs
    BY <1>5, <2>1 DEF RunPcs, Marked
  <2> QED
    BY <1>1, <1>2, <2>1, <2>2, <2>3, <2>4
<1>9. ASSUME NEW r \in Runs, SaveMarkFails(r) \/ SaveUnmark(r)
      PROVE  Goal
  <2>1. /\ UNCHANGED <<jobs, crons, cut, tokens, cpc, call, lpc, seen, adding, removing,
                       crashes>>
        /\ EndRun(r) /\ rpc[r] # "idle"
        /\ Write \/ WriteFails
        /\ left' \in {left, left \cup {rjob[r]}}
    BY <1>9 DEF SaveMarkFails, SaveUnmark, jobVars, callVars, listVars
  <2>2. FileType' /\ failures' \in Nat
    BY <1>0, <2>1, WriteType
  <2>3. rjob[r] \in Jobs
    BY <1>0, <2>1 DEF BusyInv
  <2>4. TokensType' /\ RestType'
    BY <1>0, <2>1, <2>2, <2>3 DEF TokensType, RestType
  <2>5. RunsType' /\ \A q \in Runs : rpc'[q] # "idle" => rjob'[q] \in Jobs
    BY <1>6, <2>1
  <2> QED
    BY <1>1, <1>2, <2>1, <2>2, <2>4, <2>5
<1>10. ASSUME NEW r \in Runs, InsertToken(r) \/ Execute(r)
       PROVE  Goal
  <2>1. /\ UNCHANGED <<jobs, crons, left, cut, disk, legible, gone, cancelled, cpc, call, lpc, seen,
                       adding, removing, crashes, failures>>
        /\ \/ At(r, "saved", "executing") /\ tokens' = Put(tokens, rjob[r], r)
           \/ At(r, "executing", "executed") /\ tokens' = Drop(tokens, rjob[r])
    BY <1>10 DEF InsertToken, Execute, TakeToken, jobVars, fileVars, callVars, listVars,
                 boundVars
  <2>2. rjob[r] \in Jobs
    BY <1>0, <2>1 DEF BusyInv, At
  <2>3. TokensType'
    <3>1. CASE tokens' = Put(tokens, rjob[r], r)
      <4>1. r \in Runs \cup {NoRun}
        OBVIOUS
      <4>2. /\ DOMAIN Put(tokens, rjob[r], r) \subseteq Jobs
            /\ \A k \in DOMAIN Put(tokens, rjob[r], r) :
                  Put(tokens, rjob[r], r)[k] \in Runs \cup {NoRun}
        BY <1>0, <2>2, <4>1, PutType DEF TokensType
      <4> QED
        BY <3>1, <4>2 DEF TokensType
    <3>2. CASE tokens' = Drop(tokens, rjob[r])
      <4>1. /\ DOMAIN Drop(tokens, rjob[r]) \subseteq Jobs
            /\ \A k \in DOMAIN Drop(tokens, rjob[r]) :
                  Drop(tokens, rjob[r])[k] \in Runs \cup {NoRun}
        BY <1>0, DropType DEF TokensType
      <4> QED
        BY <3>2, <4>1 DEF TokensType
    <3> QED
      BY <2>1, <3>1, <3>2
  <2>4. FileType' /\ RestType'
    BY <1>0, <2>1 DEF FileType, RestType
  <2>5. RunsType' /\ \A q \in Runs : rpc'[q] # "idle" => rjob'[q] \in Jobs
    BY <1>5, <2>1 DEF RunPcs, Marked
  <2> QED
    BY <1>1, <1>2, <2>1, <2>3, <2>4, <2>5
<1>11. ASSUME NEW r \in Runs, DropRun(r)
       PROVE  Goal
  <2>1. /\ UNCHANGED <<jobs, crons, cut, disk, legible, gone, cpc, call, lpc, seen, adding, removing,
                       crashes, failures>>
        /\ EndRun(r) /\ rpc[r] # "idle"
        /\ tokens' = [k \in DOMAIN tokens |-> IF tokens[k] = r THEN NoRun
                                                              ELSE tokens[k]]
        /\ left' \in {left, left \cup {rjob[r]}}
    BY <1>11 DEF DropRun, Marked, fileVars, callVars, listVars, boundVars
  <2>2. rjob[r] \in Jobs
    BY <1>0, <2>1 DEF BusyInv
  <2>3. TokensType' /\ RestType' /\ FileType'
    BY <1>0, <2>1, <2>2 DEF TokensType, RestType, FileType
  <2>4. RunsType' /\ \A q \in Runs : rpc'[q] # "idle" => rjob'[q] \in Jobs
    BY <1>6, <2>1
  <2> QED
    BY <1>1, <1>2, <2>1, <2>3, <2>4
<1> QED
  BY <1>3, <1>4, <1>7, <1>8, <1>9, <1>10, <1>11 DEF RunAction, RunStep

-----------------------------------------------------------------------------
\* The other calls, from their first lock section to their return.
CallAction ==
    \E c \in Callers :
        \/ \E j \in Jobs :
              \/ Add(c, j) \/ Remove(c, j) \/ Pause(c, j) \/ Unpause(c, j)
              \/ Kill(c, j)
              \/ \E ok \in BOOLEAN : Update(c, j, ok)
        \/ CallStep(c)

\* What they leave alone.
CallRest == UNCHANGED <<tokens, rpc, rjob, now, lpc, seen, adding, removing, crashes>>

Calls == [job : Jobs \cup {NoJob}, uuid : Nat, parses : BOOLEAN]

\* A call goes on, at another point and with what it keeps there.
Becomes(c, next, kept) ==
    /\ cpc' = [cpc EXCEPT ![c] = next]
    /\ call' = [call EXCEPT ![c] = kept]

LEMMA CronsPut ==
    ASSUME TypeInv, NEW j \in Jobs, crons' = Put(crons, NewUuid, j)
    PROVE  CronsType' /\ FiniteCrons'
<1>1. NewUuid \in Nat \ {0}
  BY NewUuidIsNew DEF TypeInv
<1>2. /\ DOMAIN crons \subseteq Nat \ {0} /\ \A v \in DOMAIN crons : crons[v] \in Jobs
      /\ IsFiniteSet(DOMAIN crons)
  BY DEF TypeInv, TypeOK, FiniteCrons
<1> HIDE DEF NewUuid
<1>3. DOMAIN crons' = DOMAIN crons \cup {NewUuid}
  BY PutEffect
<1>4. \A v \in DOMAIN crons' : crons'[v] \in Jobs
  BY <1>2 DEF Put
<1>5. IsFiniteSet(DOMAIN crons')
  BY <1>2, <1>3, FS_AddElement
<1> QED
  BY <1>1, <1>2, <1>3, <1>4, <1>5 DEF CronsType, FiniteCrons

LEMMA CronsDrop ==
    ASSUME TypeInv, NEW u, crons' = Drop(crons, u)
    PROVE  CronsType' /\ FiniteCrons'
<1>1. DOMAIN crons' = DOMAIN crons \ {u}
  BY DropEffect
<1>2. \A v \in DOMAIN crons' : crons'[v] = crons[v]
  BY DropEffect
<1>3. IsFiniteSet(DOMAIN crons')
  BY <1>1, FS_RemoveElement DEF TypeInv, FiniteCrons
<1> QED
  BY <1>1, <1>2, <1>3 DEF TypeInv, TypeOK, CronsType, FiniteCrons

LEMMA CronsKept ==
    ASSUME TypeInv, crons' = crons
    PROVE  CronsType' /\ FiniteCrons'
  BY DEF TypeInv, TypeOK, CronsType, FiniteCrons

\* The jobs stay well typed when one is put, dropped or changed in one field.
LEMMA JobsPut ==
    ASSUME TypeInv, NEW j \in Jobs, NEW e \in Entries, jobs' = Put(jobs, j, e)
    PROVE  JobsType'
<1>1. /\ DOMAIN Put(jobs, j, e) \subseteq Jobs
      /\ \A i \in DOMAIN Put(jobs, j, e) : Put(jobs, j, e)[i] \in Entries
  BY PutType DEF TypeInv, TypeOK
<1> QED
  BY <1>1 DEF JobsType

LEMMA JobsDrop ==
    ASSUME TypeInv, NEW j, jobs' = Drop(jobs, j)
    PROVE  JobsType'
<1>1. /\ DOMAIN Drop(jobs, j) \subseteq Jobs
      /\ \A i \in DOMAIN Drop(jobs, j) : Drop(jobs, j)[i] \in Entries
  BY DropType DEF TypeInv, TypeOK
<1> QED
  BY <1>1 DEF JobsType

LEMMA JobsSet ==
    ASSUME TypeInv, NEW j \in DOMAIN jobs,
           \/ \E b \in BOOLEAN : jobs' = [jobs EXCEPT ![j].paused = b]
           \/ \E b \in BOOLEAN : jobs' = [jobs EXCEPT ![j].parses = b]
           \/ \E u \in Nat : jobs' = [jobs EXCEPT ![j].uuid = u]
    PROVE  JobsType'
  BY DEF TypeInv, TypeOK, JobsType, Entries

LEMMA CallTypes ==
    ASSUME TypeInv, NEW c \in Callers, NEW next \in CallPcs, NEW kept \in Calls,
           next \notin {"idle", "saving"} => kept.job \in Jobs,
           Becomes(c, next, kept)
    PROVE  /\ CallsType'
           /\ \A d \in Callers : cpc'[d] \notin {"idle", "saving"} =>
                 call'[d].job \in Jobs
<1>1. /\ cpc \in [Callers -> CallPcs] /\ call \in [Callers -> Calls]
      /\ \A d \in Callers : cpc[d] \notin {"idle", "saving"} => call[d].job \in Jobs
  BY DEF TypeInv, TypeOK, BusyInv, Calls
<1>2. cpc' = [cpc EXCEPT ![c] = next] /\ call' = [call EXCEPT ![c] = kept]
  BY DEF Becomes
<1>3. /\ cpc'[c] = next /\ call'[c] = kept
      /\ \A d \in Callers \ {c} : cpc'[d] = cpc[d] /\ call'[d] = call[d]
  BY <1>1, <1>2
<1>4. cpc' \in [Callers -> CallPcs] /\ call' \in [Callers -> Calls]
  BY <1>1, <1>2
<1>5. CallsType'
  BY <1>4 DEF CallsType, Calls
<1> QED
  BY <1>1, <1>3, <1>5

\* How each call goes on.
LEMMA Beginnings ==
    ASSUME TypeInv, NEW c \in Callers, NEW j \in Jobs
    PROVE  /\ Add(c, j) => Becomes(c, "adding", [NoCall EXCEPT !.job = j])
           /\ Kill(c, j) => Becomes(c, "killing", [NoCall EXCEPT !.job = j])
           /\ Pause(c, j) \/ Unpause(c, j) => Becomes(c, "saving", NoCall)
           /\ Remove(c, j) => Becomes(c, "removing",
                  [NoCall EXCEPT !.job = j, !.uuid = jobs[j].uuid])
           /\ \A ok : Update(c, j, ok) => Becomes(c, "replacing",
                  [job |-> j, uuid |-> jobs[j].uuid, parses |-> ok])
<1>1. Add(c, j) => Becomes(c, "adding", [NoCall EXCEPT !.job = j])
  BY DEF Add, Begin, Becomes
<1>2. Kill(c, j) => Becomes(c, "killing", [NoCall EXCEPT !.job = j])
  BY DEF Kill, Begin, Becomes
<1>3. Pause(c, j) \/ Unpause(c, j) => Becomes(c, "saving", NoCall)
  BY DEF Pause, Unpause, Begin, Becomes
<1>4. Remove(c, j) => Becomes(c, "removing",
          [NoCall EXCEPT !.job = j, !.uuid = jobs[j].uuid])
  BY DEF Remove, Begin, Becomes
<1>5. ASSUME NEW ok, Update(c, j, ok)
      PROVE  Becomes(c, "replacing",
                 [job |-> j, uuid |-> jobs[j].uuid, parses |-> ok])
  BY <1>5 DEF Update, Begin, Becomes
<1> QED
  BY <1>1, <1>2, <1>3, <1>4, <1>5

\* What a call keeps when it has registered a cron task.
Named(c) == [call[c] EXCEPT !.uuid = NewUuid]

LEMMA Continuations ==
    ASSUME TypeInv, NEW c \in Callers
    PROVE  /\ Register(c) /\ cpc[c] = "adding" =>
                  Becomes(c, "inserting", Named(c))
           /\ Register(c) /\ cpc[c] # "adding" =>
                  cpc[c] = "registering" /\ Becomes(c, "renaming", Named(c))
           /\ Insert(c) \/ Rename(c) => Becomes(c, "saving", NoCall)
           /\ Unregister(c) => \E next \in {"saving", "idle"} :
                  Becomes(c, next, NoCall)
           /\ Replace(c) /\ call[c].parses => Becomes(c, "registering", call[c])
           /\ Replace(c) /\ ~call[c].parses => Becomes(c, "idle", NoCall)
           /\ Save(c) \/ CancelToken(c) \/ DropCall(c) => Becomes(c, "idle", NoCall)
<1>0. call \in [Callers -> Calls]
  BY DEF TypeInv, TypeOK, Calls
<1>1. Register(c) /\ cpc[c] = "adding" => Becomes(c, "inserting", Named(c))
  BY <1>0 DEF Register, Goto, Becomes, Named
<1>2. Register(c) /\ cpc[c] # "adding" =>
          cpc[c] = "registering" /\ Becomes(c, "renaming", Named(c))
  BY <1>0 DEF Register, Goto, Becomes, Named
<1>3. Insert(c) \/ Rename(c) => Becomes(c, "saving", NoCall)
  BY DEF Insert, Rename, Goto, Becomes
<1>4. Unregister(c) => \E next \in {"saving", "idle"} : Becomes(c, next, NoCall)
  BY DEF Unregister, Goto, Return, Becomes
<1>5. Replace(c) /\ call[c].parses => Becomes(c, "registering", call[c])
  <2> SUFFICES ASSUME Replace(c), call[c].parses
               PROVE  Becomes(c, "registering", call[c])
    OBVIOUS
  <2>1. cpc' = [cpc EXCEPT ![c] = "registering"] /\ call' = call
    BY DEF Replace
  <2>2. call = [call EXCEPT ![c] = call[c]]
    BY <1>0
  <2> QED
    BY <2>1, <2>2 DEF Becomes
<1>6. Replace(c) /\ ~call[c].parses => Becomes(c, "idle", NoCall)
  BY DEF Replace, Return, Becomes
<1>7. Save(c) \/ CancelToken(c) \/ DropCall(c) => Becomes(c, "idle", NoCall)
  BY DEF Save, CancelToken, DropCall, Return, Becomes
<1> QED
  BY <1>1, <1>2, <1>3, <1>4, <1>5, <1>6, <1>7

LEMMA CallKinds ==
    /\ NoCall \in Calls
    /\ \A j \in Jobs : [NoCall EXCEPT !.job = j] \in Calls
    /\ \A j \in Jobs, u \in Nat : [NoCall EXCEPT !.job = j, !.uuid = u] \in Calls
  BY DEF NoCall, Calls

LEMMA CallActionType ==
    ASSUME TypeInv, CallAction
    PROVE  TypeInv' /\ CallRest
<1> DEFINE Goal == TypeInv' /\ CallRest
           BusyCalls == \A d \in Callers : cpc[d] \notin {"idle", "saving"} =>
                                               call[d].job \in Jobs
<1>0. /\ JobsType /\ FileType /\ CronsType /\ TokensType
      /\ RunsType /\ CallsType /\ ListType /\ RestType /\ BusyInv /\ FiniteCrons
  BY TypeParts DEF TypeInv
<1>1. ASSUME JobsType', CronsType', FiniteCrons', CallsType', FileType', BusyCalls',
             failures' \in Nat, left' \subseteq Jobs, cut' \subseteq Jobs,
             cancelled' \subseteq Runs, CallRest
      PROVE  Goal
  <2>1. TokensType' /\ RunsType' /\ ListType' /\ RestType'
    BY <1>0, <1>1 DEF CallRest, TokensType, RunsType, ListType, RestType
  <2>2. BusyInv'
    BY <1>0, <1>1 DEF CallRest, BusyInv
  <2>3. TypeOK'
    BY <1>1, <2>1, TypePartsNext
  <2> QED
    BY <1>1, <2>2, <2>3 DEF TypeInv
<1>2. UNCHANGED <<disk, legible, gone>> => FileType'
  BY <1>0 DEF FileType
<1>3. jobs' = jobs => JobsType'
  BY <1>0 DEF JobsType
<1>4. /\ left \subseteq Jobs /\ cut \subseteq Jobs /\ failures \in Nat
      /\ cancelled \subseteq Runs
      /\ \A k : left \ {k} \subseteq Jobs /\ cut \ {k} \subseteq Jobs
  BY <1>0 DEF RestType, RunsType
<1>5. ASSUME NEW c \in Callers, NEW j \in Jobs,
             Add(c, j) \/ Pause(c, j) \/ Unpause(c, j) \/ Kill(c, j)
      PROVE  Goal
  <2>1. /\ UNCHANGED <<crons, left, cut, disk, legible, gone, cancelled, failures>>
        /\ CallRest
        /\ \/ jobs' = jobs
           \/ j \in DOMAIN jobs
              /\ \E b \in BOOLEAN : jobs' = [jobs EXCEPT ![j].paused = b]
    <3>1. CASE Add(c, j)
      BY <3>1 DEF Add, Begin, jobVars, fileVars, runVars, listVars, boundVars, CallRest
    <3>2. CASE Pause(c, j)
      BY <3>2 DEF Pause, Begin, fileVars, runVars, listVars, boundVars, CallRest
    <3>3. CASE Unpause(c, j)
      BY <3>3 DEF Unpause, Begin, fileVars, runVars, listVars, boundVars, CallRest
    <3>4. CASE Kill(c, j)
      BY <3>4 DEF Kill, Begin, jobVars, fileVars, runVars, listVars, boundVars, CallRest
    <3> QED
      BY <1>5, <3>1, <3>2, <3>3, <3>4
  <2>2. CallsType' /\ BusyCalls'
    <3>1. CASE Pause(c, j) \/ Unpause(c, j)
      BY <3>1, Beginnings, CallKinds, CallTypes DEF CallPcs
    <3>2. CASE Add(c, j) \/ Kill(c, j)
      <4> DEFINE kept == [NoCall EXCEPT !.job = j]
      <4>1. Becomes(c, "adding", kept) \/ Becomes(c, "killing", kept)
        BY <3>2, Beginnings
      <4>2. kept \in Calls /\ kept.job = j
        BY CallKinds DEF NoCall
      <4> HIDE DEF kept
      <4> QED
        BY <4>1, <4>2, CallTypes DEF CallPcs
    <3> QED
      BY <1>5, <3>1, <3>2
  <2>3. JobsType'
    BY <1>3, <2>1, JobsSet
  <2>4. CronsType' /\ FiniteCrons'
    BY <2>1, CronsKept
  <2> QED
    BY <1>1, <1>2, <1>4, <2>1, <2>2, <2>3, <2>4
<1>6. ASSUME NEW c \in Callers, NEW j \in Jobs, Remove(c, j)
      PROVE  Goal
  <2> DEFINE kept == [NoCall EXCEPT !.job = j, !.uuid = jobs[j].uuid]
  <2>1. /\ UNCHANGED <<crons, disk, legible, gone, cancelled, failures>>
        /\ CallRest
        /\ j \in DOMAIN jobs /\ jobs' = Drop(jobs, j)
        /\ left' = left \ {j} /\ cut' = cut \ {j}
    BY <1>6 DEF Remove, Begin, fileVars, runVars, listVars, boundVars, CallRest
  <2>2. kept \in Calls /\ kept.job = j
    <3>1. jobs[j].uuid \in Nat
      BY <1>0, <2>1 DEF JobsType, Entries
    <3> QED
      BY <3>1, CallKinds DEF NoCall
  <2>3. Becomes(c, "removing", kept)
    BY <1>6, Beginnings
  <2> HIDE DEF kept
  <2>4. CallsType' /\ BusyCalls'
    BY <2>2, <2>3, CallTypes DEF CallPcs
  <2>5. JobsType' /\ CronsType' /\ FiniteCrons'
    BY <2>1, JobsDrop, CronsKept
  <2> QED
    BY <1>1, <1>2, <1>4, <2>1, <2>4, <2>5
<1>7. ASSUME NEW c \in Callers, NEW j \in Jobs, NEW ok \in BOOLEAN, Update(c, j, ok)
      PROVE  Goal
  <2> DEFINE kept == [job |-> j, uuid |-> jobs[j].uuid, parses |-> ok]
  <2>1. /\ UNCHANGED <<crons, left, cut, disk, legible, gone, cancelled, failures>>
        /\ CallRest
        /\ j \in DOMAIN jobs /\ jobs' = [jobs EXCEPT ![j].parses = ok]
    BY <1>7 DEF Update, Begin, fileVars, runVars, listVars, boundVars, CallRest
  <2>2. kept \in Calls /\ kept.job = j
    BY <1>0, <2>1 DEF JobsType, Entries, Calls
  <2>3. Becomes(c, "replacing", kept)
    BY <1>7, Beginnings
  <2> HIDE DEF kept
  <2>4. CallsType' /\ BusyCalls'
    BY <2>2, <2>3, CallTypes DEF CallPcs, Updating
  <2>5. JobsType' /\ CronsType' /\ FiniteCrons'
    BY <2>1, JobsSet, CronsKept
  <2> QED
    BY <1>1, <1>2, <1>4, <2>1, <2>4, <2>5
<1>8. ASSUME NEW c \in Callers, Register(c)
      PROVE  Goal
  <2>1. /\ UNCHANGED <<jobs, left, cut, disk, legible, cancelled, failures>>
        /\ CallRest
        /\ cpc[c] \in {"adding", "registering"}
        /\ gone' \subseteq gone
        /\ crons' = Put(crons, NewUuid, call[c].job)
    BY <1>8 DEF Register, Goto, runVars, listVars, boundVars, CallRest
  <2>2. call[c].job \in Jobs
    BY <1>0, <2>1 DEF BusyInv
  <2>3. Named(c) \in Calls /\ Named(c).job = call[c].job
    <3>1. call[c] \in Calls /\ NewUuid \in Nat
      BY <1>0, NewUuidIsNew DEF TypeInv, CallsType, Calls
    <3> HIDE DEF NewUuid
    <3> QED
      BY <3>1 DEF Named, Calls
  <2>4. CallsType' /\ BusyCalls'
    <3>1. Becomes(c, "inserting", Named(c)) \/ Becomes(c, "renaming", Named(c))
      BY <1>8, Continuations
    <3> QED
      BY <2>2, <2>3, <3>1, CallTypes DEF CallPcs, Updating
  <2>5. CronsType' /\ FiniteCrons'
    BY <2>1, <2>2, CronsPut
  <2>6. FileType'
    BY <1>0, <2>1 DEF FileType
  <2> QED
    BY <1>1, <1>3, <1>4, <2>1, <2>4, <2>5, <2>6
<1>9. ASSUME NEW c \in Callers, Insert(c)
      PROVE  Goal
  <2>1. /\ UNCHANGED <<crons, disk, legible, gone, cancelled, failures>>
        /\ CallRest
        /\ cpc[c] = "inserting"
        /\ jobs' = Put(jobs, call[c].job, InMap(Fresh, call[c].uuid))
        /\ left' = left \ {call[c].job} /\ cut' = cut \ {call[c].job}
    BY <1>9 DEF Insert, Goto, fileVars, runVars, listVars, boundVars, CallRest
  <2>2. call[c].job \in Jobs /\ call[c].uuid \in Nat
    BY <1>0, <2>1 DEF BusyInv, CallsType
  <2>3. CallsType' /\ BusyCalls'
    BY <1>9, Continuations, CallKinds, CallTypes DEF CallPcs
  <2>4. InMap(Fresh, call[c].uuid) \in Entries
    BY <2>2, EntryTypes
  <2>5. JobsType' /\ CronsType' /\ FiniteCrons'
    BY <2>1, <2>2, <2>4, JobsPut, CronsKept
  <2> QED
    BY <1>1, <1>2, <1>4, <2>1, <2>3, <2>5
<1>10. ASSUME NEW c \in Callers, Rename(c)
       PROVE  Goal
  <2>1. /\ UNCHANGED <<crons, left, disk, legible, gone, cancelled, failures>>
        /\ CallRest
        /\ jobs' = Renamed(c) /\ cut' = cut \ {call[c].job}
    BY <1>10 DEF Rename, Goto, fileVars, runVars, listVars, boundVars, CallRest
  <2>2. CallsType' /\ BusyCalls'
    BY <1>10, Continuations, CallKinds, CallTypes DEF CallPcs
  <2>3. call[c].uuid \in Nat
    BY <1>0 DEF CallsType
  <2>4. JobsType' /\ CronsType' /\ FiniteCrons'
    BY <1>3, <2>1, <2>3, JobsSet, CronsKept DEF Renamed
  <2> QED
    BY <1>1, <1>2, <1>4, <2>1, <2>2, <2>4
<1>11. ASSUME NEW c \in Callers, Unregister(c)
       PROVE  Goal
  <2>1. /\ UNCHANGED <<jobs, left, cut, disk, legible, cancelled>>
        /\ CallRest
        /\ cpc[c] = "removing"
        /\ gone' \in {gone, gone \cup {call[c].job}}
        /\ failures' \in {failures, failures + 1}
        /\ crons' = Drop(crons, call[c].uuid)
    BY <1>11 DEF Unregister, Goto, runVars, listVars, CallRest
  <2>2. call[c].job \in Jobs
    BY <1>0, <2>1 DEF BusyInv
  <2>3. CallsType' /\ BusyCalls'
    BY <1>11, Continuations, CallKinds, CallTypes DEF CallPcs
  <2>4. FileType'
    BY <1>0, <2>1, <2>2 DEF FileType
  <2>5. CronsType' /\ FiniteCrons' /\ failures' \in Nat
    BY <1>4, <2>1, CronsDrop
  <2> QED
    BY <1>1, <1>3, <1>4, <2>1, <2>3, <2>4, <2>5
<1>12. ASSUME NEW c \in Callers, Replace(c)
       PROVE  Goal
  <2>1. /\ UNCHANGED <<jobs, left, cut, disk, legible, gone, cancelled, failures>>
        /\ CallRest
        /\ cpc[c] = "replacing"
        /\ crons' = Drop(crons, call[c].uuid)
    BY <1>12 DEF Replace, fileVars, runVars, listVars, boundVars, CallRest
  <2>2. call[c].job \in Jobs /\ call[c] \in Calls
    BY <1>0, <2>1 DEF BusyInv, CallsType, Calls
  <2>3. CallsType' /\ BusyCalls'
    <3>1. CASE call[c].parses
      BY <1>12, <2>2, <3>1, Continuations, CallTypes DEF CallPcs, Updating
    <3>2. CASE ~call[c].parses
      BY <1>12, <3>2, Continuations, CallKinds, CallTypes DEF CallPcs
    <3> QED
      BY <3>1, <3>2
  <2>4. CronsType' /\ FiniteCrons'
    BY <2>1, CronsDrop
  <2> QED
    BY <1>1, <1>2, <1>3, <1>4, <2>1, <2>3, <2>4
<1>13. ASSUME NEW c \in Callers, Save(c) \/ CancelToken(c) \/ DropCall(c)
       PROVE  Goal
  <2>1. UNCHANGED <<jobs, crons, left>> /\ CallRest
    BY <1>13 DEF Save, CancelToken, DropCall, jobVars, runVars, listVars, boundVars,
                 CallRest
  <2>2. \/ Write \/ WriteFails
        \/ UNCHANGED <<disk, legible, gone, failures>>
    BY <1>13 DEF Save, CancelToken, DropCall, fileVars, boundVars
  <2>3. FileType' /\ failures' \in Nat
    BY <1>2, <1>4, <2>2, WriteType DEF TypeInv
  <2>4. cancelled' \subseteq Runs
    BY <1>4, <1>13 DEF Save, CancelToken, DropCall, runVars
  <2>5. CallsType' /\ BusyCalls'
    BY <1>13, Continuations, CallKinds, CallTypes DEF CallPcs
  <2>6. cut' \subseteq Jobs
    <3>1. CASE Save(c) \/ CancelToken(c)
      BY <1>4, <3>1 DEF Save, CancelToken, jobVars
    <3>2. CASE DropCall(c)
      <4>1. cpc[c] \in Updating => call[c].job \in Jobs
        BY <1>0 DEF BusyInv, Updating
      <4> QED
        BY <1>4, <3>2, <4>1 DEF DropCall
    <3> QED
      BY <1>13, <3>1, <3>2
  <2>7. CronsType' /\ FiniteCrons'
    BY <2>1, CronsKept
  <2> QED
    BY <1>1, <1>3, <1>4, <2>1, <2>3, <2>4, <2>5, <2>6, <2>7
<1> QED
  BY <1>5, <1>6, <1>7, <1>8, <1>9, <1>10, <1>11, <1>12, <1>13
     DEF CallAction, CallStep

-----------------------------------------------------------------------------
\* The steps of list: they leave runs and calls alone.
ListRest == UNCHANGED <<disk, legible, gone, tokens, cancelled, rpc, rjob, now, cpc,
                        call, crashes, failures>>

LEMMA ListActionType ==
    ASSUME TypeInv, List
    PROVE  TypeInv' /\ ListRest
<1> DEFINE Goal == TypeInv' /\ ListRest
           Resting == lpc # "applying" => DOMAIN adding = {} /\ DOMAIN removing = {}
<1>0. /\ JobsType /\ FileType /\ CronsType /\ TokensType
      /\ RunsType /\ CallsType /\ ListType /\ RestType /\ BusyInv /\ FiniteCrons
  BY TypeParts DEF TypeInv
<1>1. ASSUME JobsType', CronsType', FiniteCrons', ListType', Resting',
             left' \subseteq Jobs, cut' \subseteq Jobs, ListRest
      PROVE  Goal
  <2>1. FileType' /\ TokensType' /\ RunsType' /\ CallsType' /\ RestType'
    BY <1>0, <1>1 DEF ListRest, FileType, TokensType, RunsType, CallsType, RestType
  <2>2. BusyInv'
    BY <1>0, <1>1 DEF ListRest, BusyInv
  <2>3. TypeOK'
    BY <1>1, <2>1, TypePartsNext
  <2> QED
    BY <1>1, <2>2, <2>3 DEF TypeInv
<1>2. left \subseteq Jobs /\ cut \subseteq Jobs
  BY <1>0 DEF RestType
<1>3. jobs' = jobs => JobsType'
  BY <1>0 DEF JobsType
<1>4. CASE ListRead \/ ListDiff \/ ListEnd \/ DropList
  <2>1. UNCHANGED <<jobs, crons, left>> /\ ListRest
    BY <1>4 DEF ListRead, ListDiff, ListEnd, DropList, jobVars, fileVars, runVars,
                callVars, boundVars, ListRest
  <2>2. ListType' /\ Resting' /\ cut' \subseteq Jobs
    <3>1. CASE ListRead
      <4>1. /\ lpc = "idle" /\ lpc' = "read" /\ seen' = disk
            /\ UNCHANGED <<adding, removing, cut>>
        BY <3>1 DEF ListRead, jobVars
      <4> QED
        BY <1>0, <4>1 DEF ListType, FileType, BusyInv, RestType
    <3>2. CASE ListEnd
      <4>1. /\ lpc' = "idle" /\ adding = Empty /\ removing = Empty
            /\ UNCHANGED <<seen, adding, removing, cut>>
        BY <3>2 DEF ListEnd, jobVars
      <4> QED
        BY <1>0, <4>1, EmptyEffect DEF ListType, RestType
    <3>3. CASE ListDiff
      <4>1. /\ lpc' = "applying" /\ seen' = Empty /\ cut' = cut
            /\ DOMAIN adding' \subseteq DOMAIN seen
            /\ \A j \in DOMAIN adding' : adding'[j] = InMap(seen[j], 0)
            /\ DOMAIN removing' = ToRemove
            /\ \A j \in ToRemove : removing'[j] = jobs[j].uuid
        BY <3>3 DEF ListDiff, jobVars
      <4>2. \A j \in DOMAIN jobs : jobs[j].uuid \in Nat
        BY <1>0 DEF JobsType, Entries
      <4>3. ToRemove \subseteq DOMAIN jobs
        BY DEF ToRemove
      <4>4. \A j \in DOMAIN adding' : adding'[j] \in Entries
        BY <1>0, <4>1, EntryTypes DEF ListType
      <4> QED
        BY <1>0, <1>2, <4>1, <4>2, <4>3, <4>4, EmptyEffect DEF ListType, JobsType
    <3>4. CASE DropList
      <4>1. /\ lpc' = "idle"
            /\ DOMAIN seen' = {} /\ DOMAIN adding' = {} /\ DOMAIN removing' = {}
            /\ cut' \subseteq cut \cup DOMAIN removing
        BY <3>4, EmptyEffect DEF DropList
      <4> QED
        BY <1>0, <1>2, <4>1 DEF ListType
    <3> QED
      BY <1>4, <3>1, <3>2, <3>3, <3>4
  <2>3. CronsType' /\ FiniteCrons'
    BY <2>1, CronsKept
  <2> QED
    BY <1>1, <1>2, <1>3, <2>1, <2>2, <2>3
\* The other steps change what list still has to apply.
<1>5. ASSUME Applying,
             DOMAIN adding' \subseteq DOMAIN adding,
             \A i \in DOMAIN adding' : adding'[i] \in Entries,
             DOMAIN removing' \subseteq DOMAIN removing,
             \A i \in DOMAIN removing' : removing'[i] \in Nat
      PROVE  ListType' /\ Resting' /\ ListRest
  <2>1. UNCHANGED <<lpc, seen>> /\ lpc = "applying" /\ ListRest
    BY <1>5 DEF Applying, fileVars, runVars, callVars, boundVars, ListRest
  <2> QED
    BY <1>0, <1>5, <2>1 DEF ListType
<1>6. /\ DOMAIN adding \subseteq Jobs /\ \A i \in DOMAIN adding : adding[i] \in Entries
      /\ DOMAIN removing \subseteq Jobs /\ \A i \in DOMAIN removing : removing[i] \in Nat
  BY <1>0 DEF ListType
<1>7. \A j : /\ DOMAIN Drop(adding, j) \subseteq DOMAIN adding
             /\ \A i \in DOMAIN Drop(adding, j) : Drop(adding, j)[i] \in Entries
             /\ DOMAIN Drop(removing, j) \subseteq DOMAIN removing
             /\ \A i \in DOMAIN Drop(removing, j) : Drop(removing, j)[i] \in Nat
  BY <1>6 DEF Drop, Restrict
<1>8. ASSUME NEW j \in Jobs, ListSkip(j)
      PROVE  Goal
  <2>1. Applying /\ UNCHANGED <<jobs, crons, left, cut, removing>>
        /\ adding' = Drop(adding, j)
    BY <1>8 DEF ListSkip, jobVars
  <2>2. ListType' /\ Resting' /\ ListRest
    BY <1>5, <1>6, <1>7, <2>1
  <2> QED
    BY <1>1, <1>2, <1>3, <2>1, <2>2, CronsKept
<1>9. ASSUME NEW j \in Jobs, ListRegister(j)
      PROVE  Goal
  <2>1. /\ Applying /\ UNCHANGED <<jobs, left, cut, removing>>
        /\ crons' = Put(crons, NewUuid, j)
        /\ adding' = [adding EXCEPT ![j].uuid = NewUuid]
    BY <1>9 DEF ListRegister
  <2>2. NewUuid \in Nat
    BY NewUuidIsNew DEF TypeInv
  <2>3. CronsType' /\ FiniteCrons'
    BY <2>1, CronsPut
  <2> HIDE DEF NewUuid
  <2>4. DOMAIN adding' = DOMAIN adding /\ \A i \in DOMAIN adding' : adding'[i] \in Entries
    BY <1>6, <2>1, <2>2 DEF Entries
  <2>5. ListType' /\ Resting' /\ ListRest
    BY <1>5, <1>6, <2>1, <2>4
  <2> QED
    BY <1>1, <1>2, <1>3, <2>1, <2>3, <2>5
<1>10. ASSUME NEW j \in Jobs, ListInsert(j)
       PROVE  Goal
  <2>1. /\ Applying /\ UNCHANGED <<crons, removing>>
        /\ j \in DOMAIN adding
        /\ jobs' = Put(jobs, j, adding[j])
        /\ left' \in {left \cup {j}, left \ {j}}
        /\ cut' = cut \ {j}
        /\ adding' = Drop(adding, j)
    BY <1>10 DEF ListInsert
  <2>2. JobsType' /\ CronsType' /\ FiniteCrons'
    BY <1>6, <2>1, JobsPut, CronsKept
  <2>3. ListType' /\ Resting' /\ ListRest
    BY <1>5, <1>6, <1>7, <2>1
  <2> QED
    BY <1>1, <1>2, <2>1, <2>2, <2>3
<1>11. ASSUME NEW j \in Jobs, ListUnregister(j)
       PROVE  Goal
  <2>1. /\ Applying /\ UNCHANGED <<jobs, left, cut, adding>>
        /\ crons' = Drop(crons, removing[j])
        /\ removing' = [removing EXCEPT ![j] = 0]
    BY <1>11 DEF ListUnregister
  <2>2. ListType' /\ Resting' /\ ListRest
    BY <1>5, <1>6, <2>1
  <2> QED
    BY <1>1, <1>2, <1>3, <2>1, <2>2, CronsDrop
<1>12. ASSUME NEW j \in Jobs, ListForget(j)
       PROVE  Goal
  <2>1. /\ Applying /\ UNCHANGED <<crons, adding>>
        /\ jobs' = Drop(jobs, j)
        /\ left' = left \ {j} /\ cut' = cut \ {j}
        /\ removing' = Drop(removing, j)
    BY <1>12 DEF ListForget
  <2>2. ListType' /\ Resting' /\ ListRest
    BY <1>5, <1>6, <1>7, <2>1
  <2> QED
    BY <1>1, <1>2, <2>1, <2>2, JobsDrop, CronsKept
<1> QED
  BY <1>4, <1>8, <1>9, <1>10, <1>11, <1>12 DEF List

-----------------------------------------------------------------------------
\* The jobs a crash leaves, and the names they get: one each.
Loaded == {j \in DOMAIN disk' \ gone : disk'[j].parses}
LoadedUuid == CHOOSE f \in [Loaded -> 1..Cardinality(Loaded)] :
                  \A i, j \in Loaded : f[i] = f[j] => i = j

LEMMA CrashFile ==
    ASSUME TypeInv, Crash
    PROVE  FileType'
<1>1. /\ UNCHANGED <<disk, legible>> \/ CutShort
      /\ gone' = gone
  BY DEF Crash
<1>2. \/ UNCHANGED <<disk, legible>>
      \/ DOMAIN disk' = {} /\ legible' = FALSE
  BY <1>1, EmptyEffect DEF CutShort
<1>3. gone' \subseteq Jobs
  BY <1>1 DEF TypeInv, TypeOK
<1>4. legible' \in BOOLEAN
  BY <1>2 DEF TypeInv, TypeOK
<1>5. DOMAIN disk' \subseteq Jobs /\ \A j \in DOMAIN disk' : disk'[j] \in Stored
  BY <1>2 DEF TypeInv, TypeOK
<1> QED
  BY <1>3, <1>4, <1>5 DEF FileType

LEMMA LoadedNames ==
    ASSUME TypeInv, Crash
    PROVE  /\ IsFiniteSet(Loaded) /\ Cardinality(Loaded) \in Nat
           /\ LoadedUuid \in [Loaded -> 1..Cardinality(Loaded)]
           /\ \A i, j \in Loaded : LoadedUuid[i] = LoadedUuid[j] => i = j
           /\ \A u \in 1..Cardinality(Loaded) : \E j \in Loaded : LoadedUuid[j] = u
<1> DEFINE n == Cardinality(Loaded)
<1>1. IsFiniteSet(Loaded)
  BY SchedulerAssumption, FS_Subset, CrashFile DEF FileType, Loaded
<1>2. n \in Nat /\ ExistsBijection(1..n, Loaded)
  BY <1>1, FS_CardinalityType
<1>3. ExistsBijection(Loaded, 1..n)
  BY <1>2, Fun_ExistsBijSymmetric
<1>4. \E f \in [Loaded -> 1..n] : \A i, j \in Loaded : f[i] = f[j] => i = j
  BY <1>3 DEF ExistsBijection, Bijection, Injection, IsInjective
<1>5. /\ LoadedUuid \in [Loaded -> 1..n]
      /\ \A i, j \in Loaded : LoadedUuid[i] = LoadedUuid[j] => i = j
  BY <1>4 DEF LoadedUuid
<1>6. LoadedUuid \in Injection(Loaded, 1..n)
  BY <1>5 DEF Injection, IsInjective
<1>7. IsFiniteSet(1..n) /\ Cardinality(1..n) = n
  BY <1>2, FS_Interval
<1>8. LoadedUuid \in Surjection(Loaded, 1..n)
  BY <1>1, <1>6, <1>7, FS_Injection
<1> QED
  BY <1>1, <1>2, <1>5, <1>8 DEF Surjection

\* What the process that dies leaves, but for the file.
CrashRest ==
    /\ tokens' = Empty
    /\ cancelled' = {}
    /\ rpc' = [r \in Runs |-> "idle"]
    /\ cpc' = [c \in Callers |-> "idle"]
    /\ call' = [c \in Callers |-> NoCall]
    /\ adding' = Empty
    /\ removing' = Empty

LEMMA CrashType ==
    ASSUME TypeInv, Crash
    PROVE  /\ TypeInv' /\ CrashRest
           /\ jobs' = [j \in Loaded |-> InMap(disk'[j], LoadedUuid[j])]
           /\ left' = {j \in Loaded : disk'[j].running}
           /\ \A j \in Loaded : LoadedUuid[j] \in DOMAIN crons'
                                  /\ crons'[LoadedUuid[j]] = j
<1> DEFINE n == Cardinality(Loaded)
<1>0. TypeOK /\ FileType'
  BY CrashFile DEF TypeInv
<1>1. /\ CrashRest
      /\ jobs' = [j \in Loaded |-> InMap(disk'[j], LoadedUuid[j])]
      /\ crons' = [u \in 1..n |-> CHOOSE j \in Loaded : LoadedUuid[j] = u]
      /\ left' = {j \in Loaded : disk'[j].running}
      /\ cut' = {}
      /\ lpc' = "idle" /\ seen' = Empty
      /\ rjob' = [r \in Runs |-> NoJob] /\ now' = {}
      /\ failures' = failures /\ crashes' = crashes + 1
  BY DEF Crash, CrashRest, Loaded, LoadedUuid
<1>2. /\ LoadedUuid \in [Loaded -> 1..n] /\ n \in Nat
      /\ \A i, j \in Loaded : LoadedUuid[i] = LoadedUuid[j] => i = j
      /\ \A u \in 1..n : \E j \in Loaded : LoadedUuid[j] = u
  BY LoadedNames
<1> HIDE DEF n
<1>3. \A j \in Loaded : j \in Jobs /\ disk'[j] \in Stored
  BY <1>0 DEF Loaded, FileType
<1>4. JobsType'
  <2>1. \A j \in Loaded : LoadedUuid[j] \in Nat
    BY <1>2
  <2>2. \A j \in Loaded : InMap(disk'[j], LoadedUuid[j]) \in Entries
    BY <1>3, <2>1, EntryTypes
  <2> QED
    BY <1>1, <1>3, <2>2 DEF JobsType
<1>5. ASSUME NEW u \in 1..n
      PROVE  crons'[u] \in Loaded /\ LoadedUuid[crons'[u]] = u
  BY <1>1, <1>2
<1>6. CronsType' /\ DOMAIN crons' = 1..n
  BY <1>1, <1>2, <1>3, <1>5 DEF CronsType
<1>7. FiniteCrons'
  BY <1>2, <1>6, FS_Interval DEF FiniteCrons
<1>8. TokensType' /\ ListType'
  BY <1>1, EmptyEffect DEF CrashRest, TokensType, ListType
<1>9. RunsType'
  BY <1>1 DEF CrashRest, RunsType, RunPcs
<1>10. CallsType'
  BY <1>1 DEF CrashRest, CallsType, CallPcs, NoCall
<1>11. BusyInv'
  BY <1>1, EmptyEffect DEF CrashRest, BusyInv
<1>12. RestType'
  BY <1>0, <1>1, <1>3 DEF RestType, TypeOK
<1>13. TypeInv'
  BY <1>0, <1>4, <1>6, <1>7, <1>8, <1>9, <1>10, <1>11, <1>12, TypePartsNext DEF TypeInv
<1>14. \A j \in Loaded : LoadedUuid[j] \in DOMAIN crons'
                          /\ crons'[LoadedUuid[j]] = j
  BY <1>2, <1>5, <1>6
<1> QED
  BY <1>1, <1>13, <1>14

-----------------------------------------------------------------------------
LEMMA NextActions ==
    Next <=> RunAction \/ CallAction \/ List \/ Crash
  BY DEF Next, RunAction, CallAction

LEMMA InitType == Init => TypeInv
<1> SUFFICES ASSUME Init PROVE TypeInv
  OBVIOUS
<1>1. /\ DOMAIN jobs = {} /\ DOMAIN disk = {} /\ DOMAIN crons = {}
      /\ DOMAIN tokens = {} /\ DOMAIN seen = {} /\ DOMAIN adding = {}
      /\ DOMAIN removing = {}
  BY EmptyEffect DEF Init
<1>2. CallsType
  BY DEF Init, CallsType, CallPcs, NoCall
<1>3. RunsType
  BY DEF Init, RunsType, RunPcs
<1>4. JobsType /\ FileType /\ CronsType /\ TokensType /\ ListType /\ RestType
  BY <1>1 DEF Init, JobsType, FileType, CronsType, TokensType, ListType, RestType
<1>5. BusyInv
  BY <1>1 DEF Init, BusyInv
<1>6. FiniteCrons
  BY <1>1, FS_EmptySet DEF FiniteCrons
<1> QED
  BY <1>2, <1>3, <1>4, <1>5, <1>6, TypeParts DEF TypeInv

LEMMA TypeStep == TypeInv /\ [Next]_vars => TypeInv'
<1>1. ASSUME TypeInv, UNCHANGED vars
      PROVE  TypeInv'
  BY <1>1 DEF vars, jobVars, fileVars, runVars, callVars, listVars, boundVars, TypeInv, TypeOK,
              BusyInv, FiniteCrons
<1> QED
  BY <1>1, NextActions, RunActionType, CallActionType, ListActionType, CrashType

\* The variables keep their types.
THEOREM TypeCorrect == Spec => []TypeOK
<1>1. TypeInv => TypeOK
  BY DEF TypeInv
<1> QED
  BY <1>1, InitType, TypeStep, PTL DEF Spec

-----------------------------------------------------------------------------
\* A step of run r may take a mark over from it only by clearing the mark or
\* by leaving it behind.
LEMMA FlagRule ==
    ASSUME FlagHasRun, NEW r \in Runs,
           \A q \in Runs \ {r} : rpc'[q] = rpc[q] /\ rjob'[q] = rjob[q],
           DOMAIN jobs' = DOMAIN jobs,
           \A j \in DOMAIN jobs : jobs'[j].running /\ j \notin left' =>
               \/ rjob'[r] = j /\ rpc'[r] \in Marked
               \/ /\ jobs[j].running /\ j \notin left
                  /\ ~(rjob[r] = j /\ rpc[r] \in Marked)
    PROVE  FlagHasRun'
<1> SUFFICES ASSUME NEW j \in DOMAIN jobs, jobs'[j].running, j \notin left'
             PROVE  \E q \in Runs : rjob'[q] = j /\ rpc'[q] \in Marked
  BY DEF FlagHasRun, RunOf
<1>1. CASE rjob'[r] = j /\ rpc'[r] \in Marked
  BY <1>1
<1>2. CASE /\ jobs[j].running /\ j \notin left
           /\ ~(rjob[r] = j /\ rpc[r] \in Marked)
  <2>1. PICK q \in Runs : rjob[q] = j /\ rpc[q] \in Marked
    BY <1>2 DEF FlagHasRun, RunOf
  <2> QED
    BY <1>2, <2>1
<1> QED
  BY <1>1, <1>2

LEMMA RunActionFlag ==
    ASSUME TypeInv, FlagHasRun, RunAction
    PROVE  FlagHasRun'
<1>0. /\ JobsType /\ rpc \in [Runs -> RunPcs] /\ rjob \in [Runs -> Jobs \cup {NoJob}]
      /\ DOMAIN jobs' = DOMAIN jobs
  BY TypeParts, RunActionType DEF TypeInv, TypeOK, SameNames
<1>1. ASSUME NEW r \in Runs, NEW u \in DOMAIN crons, Tick(r, u)
      PROVE  FlagHasRun'
  BY <1>0, <1>1, FlagRule DEF Tick, StartRun, Marked, jobVars
<1>2. ASSUME NEW r \in Runs, NEW j \in Jobs, RunNow(r, j)
      PROVE  FlagHasRun'
  <2>1. j \in DOMAIN jobs /\ SetFlag(j, TRUE)
    BY <1>2 DEF RunNow
  <2>2. \A i \in DOMAIN jobs : i # j => jobs'[i] = jobs[i]
    BY <1>0, <2>1, SetFlagNames
  <2> QED
    BY <1>0, <1>2, <2>2, FlagRule DEF RunNow, StartRun, Marked
<1>3. ASSUME NEW r \in Runs, Mark(r)
      PROVE  FlagHasRun'
  <2>1. \A i \in DOMAIN jobs : i # rjob[r] => jobs'[i] = jobs[i]
    <3>1. CASE rjob[r] \in DOMAIN jobs
      BY <1>0, <1>3, <3>1, SetFlagNames DEF Mark
    <3>2. CASE rjob[r] \notin DOMAIN jobs
      BY <1>3, <3>2 DEF Mark
    <3> QED
      BY <3>1, <3>2
  <2>2. left' = left \ {rjob[r]} /\ At(r, "checked", "marked")
    BY <1>3 DEF Mark
  <2> QED
    BY <1>0, <2>1, <2>2, FlagRule DEF At, Marked
<1>4. ASSUME NEW r \in Runs, Unmark(r)
      PROVE  FlagHasRun'
  <2>1. \A i \in DOMAIN jobs : /\ i # rjob[r] => jobs'[i] = jobs[i]
                               /\ i = rjob[r] => ~jobs'[i].running
    <3>1. CASE rjob[r] \in DOMAIN jobs
      BY <1>0, <1>4, <3>1, SetFlagNames DEF Unmark, ClearFlag
    <3>2. CASE rjob[r] \notin DOMAIN jobs
      BY <1>4, <3>2 DEF Unmark, ClearFlag
    <3> QED
      BY <3>1, <3>2
  <2>2. left' = left \ {rjob[r]} /\ At(r, "executed", "unmarked")
    BY <1>4 DEF Unmark
  <2> QED
    BY <1>0, <2>1, <2>2, FlagRule DEF At, Marked
<1>5. ASSUME NEW r \in Runs, SaveMark(r) \/ InsertToken(r) \/ Execute(r)
      PROVE  FlagHasRun'
  <2>1. /\ UNCHANGED <<jobs, left>>
        /\ \/ At(r, "marked", "saved") \/ At(r, "saved", "executing")
           \/ At(r, "executing", "executed")
    BY <1>5 DEF SaveMark, InsertToken, Execute, jobVars
  <2> QED
    BY <1>0, <2>1, FlagRule DEF At, Marked
<1>6. ASSUME NEW r \in Runs, SaveMarkFails(r) \/ SaveUnmark(r) \/ DropRun(r)
      PROVE  FlagHasRun'
  <2>1. /\ jobs' = jobs /\ EndRun(r)
        /\ \/ left' = left \cup {rjob[r]}
           \/ left' = left /\ rpc[r] \notin Marked
    BY <1>6 DEF SaveMarkFails, SaveUnmark, DropRun, Marked, jobVars
  <2> QED
    BY <1>0, <2>1, FlagRule DEF EndRun
<1> QED
  BY <1>1, <1>2, <1>3, <1>4, <1>5, <1>6 DEF RunAction, RunStep

\* The other steps set no mark but those of the file, which they record as
\* left behind.
LEMMA OthersFlag ==
    ASSUME TypeInv, FlagHasRun, CallAction \/ List
    PROVE  FlagHasRun'
<1>0. JobsType /\ UNCHANGED <<rpc, rjob>>
  BY TypeParts, CallActionType, ListActionType DEF TypeInv, CallRest, ListRest
<1>1. ASSUME \A j \in DOMAIN jobs' :
                jobs'[j].running /\ j \notin left' =>
                    j \in DOMAIN jobs /\ jobs[j].running /\ j \notin left
      PROVE  FlagHasRun'
  BY <1>0, <1>1 DEF FlagHasRun, RunOf
<1>2. ASSUME NEW c \in Callers, NEW j \in Jobs,
             \/ Add(c, j) \/ Pause(c, j) \/ Unpause(c, j) \/ Kill(c, j)
             \/ \E ok \in BOOLEAN : Update(c, j, ok)
      PROVE  FlagHasRun'
  <2>1. left' = left
    BY <1>2 DEF Add, Pause, Unpause, Kill, Update, jobVars
  <2>2. \/ jobs' = jobs
        \/ j \in DOMAIN jobs /\ \E b \in BOOLEAN :
              jobs' = [jobs EXCEPT ![j].paused = b] \/ jobs' = [jobs EXCEPT ![j].parses = b]
    BY <1>2 DEF Add, Pause, Unpause, Kill, Update, jobVars
  <2>3. \A i \in DOMAIN jobs' : i \in DOMAIN jobs
                               /\ jobs'[i].running = jobs[i].running
    BY <1>0, <2>2 DEF JobsType, Entries
  <2> QED
    BY <1>1, <2>1, <2>3
<1>3. ASSUME NEW j, jobs' = Drop(jobs, j), left' = left \ {j}
      PROVE  FlagHasRun'
  <2>1. /\ DOMAIN jobs' = DOMAIN jobs \ {j}
        /\ \A i \in DOMAIN jobs : i # j => jobs'[i] = jobs[i]
    BY <1>3, DropEffect
  <2>2. \A i \in DOMAIN jobs' : i \in DOMAIN jobs /\ jobs'[i] = jobs[i]
                               /\ (i \notin left' => i \notin left)
    BY <1>3, <2>1
  <2> QED
    BY <1>1, <2>2
<1>4. ASSUME NEW j, NEW e, jobs' = Put(jobs, j, e),
             \/ left' = left \cup {j}
             \/ left' = left \ {j} /\ ~e.running
      PROVE  FlagHasRun'
  <2>1. /\ DOMAIN jobs' = DOMAIN jobs \cup {j} /\ jobs'[j] = e
        /\ \A i \in DOMAIN jobs : i # j => jobs'[i] = jobs[i]
    <3>1. /\ DOMAIN Put(jobs, j, e) = DOMAIN jobs \cup {j}
          /\ Put(jobs, j, e)[j] = e
          /\ \A i \in DOMAIN jobs : i # j => Put(jobs, j, e)[i] = jobs[i]
      BY DEF Put
    <3> QED
      BY <1>4, <3>1
  <2>2. jobs'[j].running => j \in left'
    BY <1>4, <2>1
  <2>3. \A i \in DOMAIN jobs' : i # j => /\ i \in DOMAIN jobs /\ jobs'[i] = jobs[i]
                                        /\ (i \notin left' => i \notin left)
    BY <1>4, <2>1
  <2> QED
    BY <1>1, <2>2, <2>3
<1>5. ASSUME NEW c \in Callers, CallStep(c)
      PROVE  FlagHasRun'
  <2>1. CASE Insert(c)
    <3> DEFINE e == InMap(Fresh, call[c].uuid)
    <3>1. ~e.running
      BY DEF InMap, Fresh
    <3>2. jobs' = Put(jobs, call[c].job, e) /\ left' = left \ {call[c].job}
      BY <2>1 DEF Insert
    <3> HIDE DEF e
    <3> QED
      BY <1>4, <3>1, <3>2
  <2>2. CASE Rename(c)
    <3>1. left' = left /\ jobs' = Renamed(c)
      BY <2>2 DEF Rename
    <3>2. \A i \in DOMAIN jobs' : i \in DOMAIN jobs
                                 /\ jobs'[i].running = jobs[i].running
      BY <1>0, <3>1 DEF Renamed, JobsType, Entries
    <3> QED
      BY <1>1, <3>1, <3>2
  <2>3. CASE \/ Register(c) \/ Unregister(c) \/ Replace(c) \/ Save(c)
             \/ CancelToken(c) \/ DropCall(c)
    <3>1. UNCHANGED <<jobs, left>>
      BY <2>3 DEF Register, Unregister, Replace, Save, CancelToken, DropCall, jobVars
    <3> QED
      BY <1>1, <3>1
  <2> QED
    BY <1>5, <2>1, <2>2, <2>3 DEF CallStep
<1>6. ASSUME NEW c \in Callers, NEW j \in Jobs, Remove(c, j)
      PROVE  FlagHasRun'
  BY <1>3, <1>6 DEF Remove
<1>7. CASE List
  <2>1. ASSUME NEW j \in Jobs, ListInsert(j)
        PROVE  FlagHasRun'
    BY <1>4, <2>1 DEF ListInsert
  <2>2. ASSUME NEW j \in Jobs, ListForget(j)
        PROVE  FlagHasRun'
    BY <1>3, <2>2 DEF ListForget
  <2>3. CASE \/ ListRead \/ ListDiff \/ ListEnd \/ DropList
             \/ \E j \in Jobs : ListSkip(j) \/ ListRegister(j) \/ ListUnregister(j)
    <3>1. UNCHANGED <<jobs, left>>
      BY <2>3 DEF ListRead, ListDiff, ListEnd, DropList, ListSkip, ListRegister,
                  ListUnregister, jobVars
    <3> QED
      BY <1>1, <3>1
  <2> QED
    BY <1>7, <2>1, <2>2, <2>3 DEF List
<1> QED
  BY <1>2, <1>5, <1>6, <1>7 DEF CallAction

LEMMA CrashFlag ==
    ASSUME TypeInv, Crash
    PROVE  FlagHasRun'
<1>1. /\ jobs' = [j \in Loaded |-> InMap(disk'[j], LoadedUuid[j])]
      /\ left' = {j \in Loaded : disk'[j].running}
  BY CrashType
<1>2. \A j \in DOMAIN jobs' : jobs'[j].running => j \in left'
  BY <1>1 DEF InMap
<1> QED
  BY <1>2 DEF FlagHasRun

\* A job that is marked as running and whose mark nobody left behind has a
\* run under way that will clear the mark: nothing but a crash, a client that
\* goes away or a write that fails locks a job out of run_now for ever.
THEOREM MarkHasRun == Spec => []FlagHasRun
<1>1. Init => FlagHasRun
  <2> SUFFICES ASSUME Init PROVE FlagHasRun
    OBVIOUS
  <2>1. DOMAIN jobs = {}
    BY EmptyEffect DEF Init
  <2> QED
    BY <2>1 DEF FlagHasRun
<1>2. TypeInv /\ FlagHasRun /\ [Next]_vars => FlagHasRun'
  <2>1. ASSUME FlagHasRun, UNCHANGED vars
        PROVE  FlagHasRun'
    BY <2>1 DEF vars, jobVars, runVars, FlagHasRun, RunOf
  <2> QED
    BY <2>1, NextActions, RunActionFlag, OthersFlag, CrashFlag
<1> QED
  BY <1>1, <1>2, InitType, TypeStep, PTL DEF Spec

-----------------------------------------------------------------------------
LEMMA RunActionToken ==
    ASSUME TypeInv, TokenHasRun, RunAction
    PROVE  TokenHasRun'
<1>0. /\ TokensType /\ rpc \in [Runs -> RunPcs] /\ rjob \in [Runs -> Jobs \cup {NoJob}]
      /\ NoRun \notin Runs
  BY TypeParts, SchedulerAssumption DEF TypeInv, TypeOK
\* A run whose token nobody holds may go on; tokens of others stay true.
<1>1. ASSUME NEW r \in Runs,
             \A q \in Runs \ {r} : rpc'[q] = rpc[q] /\ rjob'[q] = rjob[q],
             DOMAIN tokens' \subseteq DOMAIN tokens,
             \A j \in DOMAIN tokens' : tokens'[j] \in {tokens[j], NoRun},
             \A j \in DOMAIN tokens' : tokens'[j] # r
      PROVE  TokenHasRun'
  <2> SUFFICES ASSUME NEW j \in DOMAIN tokens', tokens'[j] # NoRun
               PROVE  rjob'[tokens'[j]] = j /\ rpc'[tokens'[j]] = "executing"
    BY DEF TokenHasRun
  <2>1. j \in DOMAIN tokens /\ tokens[j] = tokens'[j] /\ tokens[j] \in Runs \ {r}
    BY <1>0, <1>1 DEF TokensType
  <2> QED
    BY <1>1, <2>1 DEF TokenHasRun
<1>2. ASSUME NEW r \in Runs, rpc[r] # "executing"
      PROVE  \A j \in DOMAIN tokens : tokens[j] # r
  BY <1>0, <1>2 DEF TokenHasRun
<1>3. ASSUME NEW r \in Runs,
             \/ \E u \in DOMAIN crons : Tick(r, u)
             \/ \E j \in Jobs : RunNow(r, j)
             \/ Mark(r) \/ SaveMark(r) \/ SaveMarkFails(r)
             \/ Unmark(r) \/ SaveUnmark(r)
      PROVE  TokenHasRun'
  <2>1. /\ tokens' = tokens /\ rpc[r] # "executing"
        /\ \A q \in Runs \ {r} : rpc'[q] = rpc[q] /\ rjob'[q] = rjob[q]
    BY <1>0, <1>3 DEF Tick, RunNow, StartRun, Mark, SaveMark, SaveMarkFails, Unmark,
                      SaveUnmark, At, EndRun
  <2>2. \A j \in DOMAIN tokens : tokens[j] # r
    BY <1>2, <2>1
  <2>3. \A j \in DOMAIN tokens' : tokens'[j] \in {tokens[j], NoRun} /\ tokens'[j] # r
    BY <2>1, <2>2
  <2> QED
    BY <1>1, <2>1, <2>3
<1>4. ASSUME NEW r \in Runs, InsertToken(r)
      PROVE  TokenHasRun'
  <2>1. /\ rpc[r] = "saved" /\ rpc' = [rpc EXCEPT ![r] = "executing"] /\ rjob' = rjob
        /\ tokens' = Put(tokens, rjob[r], r)
    BY <1>4 DEF InsertToken, At
  <2>2. /\ DOMAIN tokens' = DOMAIN tokens \cup {rjob[r]} /\ tokens'[rjob[r]] = r
        /\ \A k \in DOMAIN tokens : k # rjob[r] => tokens'[k] = tokens[k]
    <3> DEFINE j == rjob[r]
    <3>1. /\ DOMAIN Put(tokens, j, r) = DOMAIN tokens \cup {j}
          /\ Put(tokens, j, r)[j] = r
          /\ \A k \in DOMAIN tokens : k # j => Put(tokens, j, r)[k] = tokens[k]
      BY DEF Put
    <3> QED
      BY <2>1, <3>1
  <2> SUFFICES ASSUME NEW j \in DOMAIN tokens', tokens'[j] # NoRun
               PROVE  rjob'[tokens'[j]] = j /\ rpc'[tokens'[j]] = "executing"
    BY DEF TokenHasRun
  <2>3. CASE j = rjob[r]
    BY <1>0, <2>1, <2>2, <2>3
  <2>4. CASE j # rjob[r]
    BY <1>0, <1>2, <2>1, <2>2, <2>4 DEF TokenHasRun, TokensType
  <2> QED
    BY <2>3, <2>4
<1>5. ASSUME NEW r \in Runs, Execute(r)
      PROVE  TokenHasRun'
  <2>1. /\ rpc' = [rpc EXCEPT ![r] = "executed"] /\ rjob' = rjob
        /\ tokens' = Drop(tokens, rjob[r])
    BY <1>5 DEF Execute, At, TakeToken
  <2>2. /\ DOMAIN tokens' = DOMAIN tokens \ {rjob[r]}
        /\ \A k \in DOMAIN tokens : k # rjob[r] => tokens'[k] = tokens[k]
    BY <2>1, DropEffect
  <2>3. \A j \in DOMAIN tokens' : tokens'[j] = tokens[j] /\ tokens'[j] # r
    BY <1>0, <2>2 DEF TokenHasRun
  <2> QED
    BY <1>0, <1>1, <2>1, <2>2, <2>3
<1>6. ASSUME NEW r \in Runs, DropRun(r)
      PROVE  TokenHasRun'
  <2>1. /\ \A q \in Runs \ {r} : rpc'[q] = rpc[q] /\ rjob'[q] = rjob[q]
        /\ DOMAIN tokens' = DOMAIN tokens
        /\ \A k \in DOMAIN tokens : tokens'[k] = IF tokens[k] = r THEN NoRun ELSE tokens[k]
    BY <1>0, <1>6 DEF DropRun, EndRun
  <2> QED
    BY <1>0, <1>1, <2>1
<1> QED
  BY <1>3, <1>4, <1>5, <1>6 DEF RunAction, RunStep

\* What kill_running_job finds under a job's id is the token of a run of that
\* job that is executing, or one that no run listens to: it never stops a run
\* of another job.
THEOREM TokenIsOfItsJob == Spec => []TokenHasRun
<1>1. Init => TokenHasRun
  <2> SUFFICES ASSUME Init PROVE TokenHasRun
    OBVIOUS
  <2>1. DOMAIN tokens = {}
    BY EmptyEffect DEF Init
  <2> QED
    BY <2>1 DEF TokenHasRun
<1>2. TypeInv /\ TokenHasRun /\ [Next]_vars => TokenHasRun'
  <2>1. ASSUME TokenHasRun, UNCHANGED <<tokens, rpc, rjob>>
        PROVE  TokenHasRun'
    BY <2>1 DEF TokenHasRun
  <2>2. ASSUME TypeInv, Crash
        PROVE  TokenHasRun'
    <3>1. DOMAIN tokens' = {}
      BY <2>2, CrashType, EmptyEffect DEF CrashRest
    <3> QED
      BY <3>1 DEF TokenHasRun
  <2>3. ASSUME TypeInv, TokenHasRun, CallAction \/ List
        PROVE  TokenHasRun'
    BY <2>1, <2>3, CallActionType, ListActionType DEF CallRest, ListRest
  <2>4. ASSUME TokenHasRun, UNCHANGED vars
        PROVE  TokenHasRun'
    BY <2>1, <2>4 DEF vars, runVars
  <2> QED
    BY <2>2, <2>3, <2>4, NextActions, RunActionToken
<1> QED
  BY <1>1, <1>2, InitType, TypeStep, PTL DEF Spec

-----------------------------------------------------------------------------
\* Names of registrations are not confused: one that somebody remembers as a
\* job's is no other job's, and no task of another job has it.
Names ==
    \A i, u : Remembers(i, u) =>
        /\ \A j : Remembers(j, u) => i = j
        /\ u \in DOMAIN crons => crons[u] = i

\* Where a call has registered a task and not told the map yet.
Minting == {"inserting", "renaming"}

\* Until then nobody else knows the task's name, so nobody removes it.
CallNames ==
    \A c \in Callers : cpc[c] \in Minting =>
        /\ call[c].uuid \in DOMAIN crons
        /\ \A j \in DOMAIN jobs : jobs[j].uuid # call[c].uuid
        /\ \A d \in Callers \ {c} : call[d].uuid # call[c].uuid
        /\ \A j \in DOMAIN adding : adding[j].uuid # call[c].uuid
        /\ \A j \in DOMAIN removing : removing[j] # call[c].uuid

\* Nor the name of a task that list has registered.
ListNames ==
    \A i \in DOMAIN adding : adding[i].uuid # 0 =>
        /\ adding[i].uuid \in DOMAIN crons
        /\ \A j \in DOMAIN jobs : jobs[j].uuid # adding[i].uuid
        /\ \A d \in Callers : call[d].uuid # adding[i].uuid
        /\ \A j \in DOMAIN removing : removing[j] # adding[i].uuid

\* The task of a removed job is no job's.
OldNames ==
    \A c \in Callers : cpc[c] = "removing" =>
        \A j \in DOMAIN jobs : jobs[j].uuid # call[c].uuid

JobNames == \A j \in DOMAIN jobs : jobs[j].uuid # 0

CronNames == Names /\ CallNames /\ ListNames /\ OldNames /\ JobNames

Served(j) == jobs[j].uuid \in DOMAIN crons /\ crons[jobs[j].uuid] = j

\* An update will give the job a registration.
Coming(j) ==
    \E c \in Callers : cpc[c] \in Updating /\ call[c].job = j /\ call[c].parses

Going(j) == j \in DOMAIN removing /\ removing[j] = 0

Excused(j) == Coming(j) \/ Going(j) \/ j \in cut

JobsServed == \A j \in DOMAIN jobs : ~jobs[j].parses \/ Served(j) \/ Excused(j)

\* An update that will fail takes a registration away only from a job whose
\* expression cannot be parsed, or that may be without one.
UpdatesServe ==
    \A c \in Callers : \A j \in DOMAIN jobs :
        cpc[c] = "replacing" /\ call[c].job = j /\ call[c].uuid = jobs[j].uuid
            => ~jobs[j].parses \/ Excused(j)

CronInv == CronNames /\ JobsServed /\ UpdatesServe

SameCall(d) == cpc'[d] = cpc[d] /\ call'[d] = call[d]

LEMMA BecomesEffect ==
    ASSUME TypeInv, NEW c \in Callers, NEW next, NEW kept, Becomes(c, next, kept)
    PROVE  /\ cpc'[c] = next /\ call'[c] = kept
           /\ \A d \in Callers \ {c} : SameCall(d)
  BY DEF TypeInv, TypeOK, Becomes, SameCall

\* A step that gives no new name, and takes no registration away whose name
\* only one knows.
LEMMA NamesKept ==
    ASSUME TypeInv, CronNames,
           \A i \in DOMAIN jobs' : i \in DOMAIN jobs /\ jobs'[i].uuid = jobs[i].uuid,
           \A d \in Callers :
               \/ call'[d].uuid = 0
               \/ call'[d].job = call[d].job /\ call'[d].uuid = call[d].uuid
               \/ /\ call'[d].job \in DOMAIN jobs
                  /\ call'[d].uuid = jobs[call'[d].job].uuid,
           \A d \in Callers : cpc'[d] \in Minting => SameCall(d),
           \A d \in Callers : cpc'[d] = "removing" =>
               \/ SameCall(d)
               \/ \A i \in DOMAIN jobs' : jobs'[i].uuid # call'[d].uuid,
           \A i \in DOMAIN adding' :
               \/ adding'[i].uuid = 0
               \/ i \in DOMAIN adding /\ adding'[i].uuid = adding[i].uuid,
           \A i \in DOMAIN removing' :
               \/ removing'[i] = 0
               \/ i \in DOMAIN removing /\ removing'[i] = removing[i]
               \/ i \in DOMAIN jobs /\ removing'[i] = jobs[i].uuid,
           \A u \in DOMAIN crons' : u \in DOMAIN crons /\ crons'[u] = crons[u],
           \A u \in DOMAIN crons \ DOMAIN crons' :
               \/ \E d \in Callers : cpc[d] \notin Minting /\ call[d].uuid = u
               \/ \E i \in DOMAIN removing : removing[i] = u
    PROVE  CronNames'
<1>0. /\ Names /\ CallNames /\ ListNames /\ OldNames /\ JobNames
      /\ 0 \notin DOMAIN crons
  BY DEF CronNames, TypeInv, TypeOK
<1>1. \A i, u : Remembers(i, u)' => Remembers(i, u)
  BY DEF Remembers
<1>2. Names'
  BY <1>0, <1>1 DEF Names
<1>3. ASSUME NEW c \in Callers, cpc'[c] \in Minting
      PROVE  /\ call'[c].uuid \in DOMAIN crons'
             /\ \A j \in DOMAIN jobs' : jobs'[j].uuid # call'[c].uuid
             /\ \A d \in Callers \ {c} : call'[d].uuid # call'[c].uuid
             /\ \A j \in DOMAIN adding' : adding'[j].uuid # call'[c].uuid
             /\ \A j \in DOMAIN removing' : removing'[j] # call'[c].uuid
  <2>1. cpc[c] \in Minting /\ call'[c] = call[c]
    BY <1>3 DEF SameCall
  <2>2. /\ call[c].uuid \in DOMAIN crons /\ call[c].uuid # 0
        /\ \A j \in DOMAIN jobs : jobs[j].uuid # call[c].uuid
        /\ \A d \in Callers \ {c} : call[d].uuid # call[c].uuid
        /\ \A j \in DOMAIN adding : adding[j].uuid # call[c].uuid
        /\ \A j \in DOMAIN removing : removing[j] # call[c].uuid
    BY <1>0, <2>1 DEF CallNames
  <2>3. call[c].uuid \in DOMAIN crons'
    BY <2>1, <2>2
  <2>4. \A d \in Callers \ {c} : call'[d].uuid # call[c].uuid
    BY <2>2
  <2>5. \A j \in DOMAIN removing' : removing'[j] # call[c].uuid
    BY <2>2
  <2>6. /\ \A j \in DOMAIN adding' : adding'[j].uuid # call[c].uuid
        /\ \A j \in DOMAIN jobs' : jobs'[j].uuid # call[c].uuid
    BY <2>2
  <2> QED
    BY <2>1, <2>3, <2>4, <2>5, <2>6
<1>4. ASSUME NEW i \in DOMAIN adding', adding'[i].uuid # 0
      PROVE  /\ adding'[i].uuid \in DOMAIN crons'
             /\ \A j \in DOMAIN jobs' : jobs'[j].uuid # adding'[i].uuid
             /\ \A d \in Callers : call'[d].uuid # adding'[i].uuid
             /\ \A j \in DOMAIN removing' : removing'[j] # adding'[i].uuid
  <2>1. i \in DOMAIN adding /\ adding'[i].uuid = adding[i].uuid
    BY <1>4
  <2>2. /\ adding[i].uuid \in DOMAIN crons /\ adding[i].uuid # 0
        /\ \A j \in DOMAIN jobs : jobs[j].uuid # adding[i].uuid
        /\ \A d \in Callers : call[d].uuid # adding[i].uuid
        /\ \A j \in DOMAIN removing : removing[j] # adding[i].uuid
    BY <1>0, <1>4, <2>1 DEF ListNames
  <2>3. adding[i].uuid \in DOMAIN crons'
    BY <2>2
  <2>4. \A d \in Callers : call'[d].uuid # adding[i].uuid
    BY <2>2
  <2>5. /\ \A j \in DOMAIN removing' : removing'[j] # adding[i].uuid
        /\ \A j \in DOMAIN jobs' : jobs'[j].uuid # adding[i].uuid
    BY <2>2
  <2> QED
    BY <2>1, <2>3, <2>4, <2>5
<1>5. OldNames'
  BY <1>0 DEF OldNames, SameCall
<1>6. JobNames'
  BY <1>0 DEF JobNames
<1> QED
  BY <1>2, <1>3, <1>4, <1>5, <1>6 DEF CronNames, CallNames, ListNames

\* A step that registers a task for job k under the new name, which one call
\* or list keeps.
LEMMA NamesMinted ==
    ASSUME TypeInv, CronNames, NEW k \in Jobs,
           crons' = Put(crons, NewUuid, k), UNCHANGED <<jobs, removing>>,
           \/ /\ adding' = adding
              /\ \E c \in Callers :
                    /\ call'[c].job = k /\ call'[c].uuid = NewUuid
                    /\ cpc'[c] \in Minting
                    /\ \A d \in Callers \ {c} : SameCall(d)
           \/ /\ UNCHANGED <<cpc, call>>
              /\ k \in DOMAIN adding
              /\ DOMAIN adding' = DOMAIN adding
              /\ adding'[k].uuid = NewUuid
              /\ \A i \in DOMAIN adding \ {k} : adding'[i].uuid = adding[i].uuid
    PROVE  CronNames'
<1>0. /\ Names /\ CallNames /\ ListNames /\ OldNames /\ JobNames
      /\ NewUuid # 0 /\ NewUuid \notin DOMAIN crons
      /\ \A j \in DOMAIN jobs : jobs[j].uuid # NewUuid
      /\ \A c \in Callers : call[c].uuid # NewUuid
      /\ \A j \in DOMAIN adding : adding[j].uuid # NewUuid
      /\ \A j \in DOMAIN removing : removing[j] # NewUuid
  BY NewUuidIsNew DEF CronNames, TypeInv
<1> HIDE DEF NewUuid
<1>1. /\ DOMAIN crons' = DOMAIN crons \cup {NewUuid} /\ crons'[NewUuid] = k
      /\ \A u \in DOMAIN crons : crons'[u] = crons[u]
  BY <1>0 DEF Put
<1>2. CASE /\ adding' = adding
           /\ \E c \in Callers :
                 /\ call'[c].job = k /\ call'[c].uuid = NewUuid
                 /\ cpc'[c] \in Minting
                 /\ \A d \in Callers \ {c} : SameCall(d)
  <2>1. PICK c \in Callers : /\ call'[c].job = k /\ call'[c].uuid = NewUuid
                             /\ cpc'[c] \in Minting
                             /\ \A d \in Callers \ {c} : SameCall(d)
    BY <1>2
  <2>2. \A i, u : Remembers(i, u)' =>
                      (u # NewUuid /\ Remembers(i, u)) \/ (u = NewUuid /\ i = k)
    BY <1>0, <1>2, <2>1 DEF Remembers, SameCall
  <2>3. Names'
    BY <1>0, <1>1, <2>2 DEF Names
  <2>4. ASSUME NEW d \in Callers, cpc'[d] \in Minting, d # c
        PROVE  /\ call'[d].uuid \in DOMAIN crons'
               /\ \A j \in DOMAIN jobs' : jobs'[j].uuid # call'[d].uuid
               /\ \A e \in Callers \ {d} : call'[e].uuid # call'[d].uuid
               /\ \A j \in DOMAIN adding' : adding'[j].uuid # call'[d].uuid
               /\ \A j \in DOMAIN removing' : removing'[j] # call'[d].uuid
    <3>1. cpc[d] \in Minting /\ call'[d] = call[d]
      BY <2>1, <2>4 DEF SameCall
    <3> QED
      BY <1>0, <1>1, <1>2, <2>1, <3>1 DEF CallNames, SameCall
  <2>5. /\ call'[c].uuid \in DOMAIN crons'
        /\ \A j \in DOMAIN jobs' : jobs'[j].uuid # call'[c].uuid
        /\ \A e \in Callers \ {c} : call'[e].uuid # call'[c].uuid
        /\ \A j \in DOMAIN adding' : adding'[j].uuid # call'[c].uuid
        /\ \A j \in DOMAIN removing' : removing'[j] # call'[c].uuid
    BY <1>0, <1>1, <1>2, <2>1 DEF SameCall
  <2>6. CallNames'
    BY <2>4, <2>5 DEF CallNames
  <2>7. ListNames'
    BY <1>0, <1>1, <1>2, <2>1 DEF ListNames, SameCall
  <2>8. OldNames' /\ JobNames'
    <3>1. \A d \in Callers : cpc'[d] = "removing" => d # c
      BY <2>1 DEF Minting
    <3> QED
      BY <1>0, <2>1, <3>1 DEF OldNames, JobNames, SameCall
  <2> QED
    BY <2>3, <2>6, <2>7, <2>8 DEF CronNames
<1>3. CASE /\ UNCHANGED <<cpc, call>>
           /\ k \in DOMAIN adding
           /\ DOMAIN adding' = DOMAIN adding
           /\ adding'[k].uuid = NewUuid
           /\ \A i \in DOMAIN adding \ {k} : adding'[i].uuid = adding[i].uuid
  <2>1. \A i, u : Remembers(i, u)' =>
                      (u # NewUuid /\ Remembers(i, u)) \/ (u = NewUuid /\ i = k)
    BY <1>0, <1>3 DEF Remembers
  <2>2. Names'
    BY <1>0, <1>1, <2>1 DEF Names
  <2>3. CallNames'
    BY <1>0, <1>1, <1>3 DEF CallNames
  <2>4. ListNames'
    BY <1>0, <1>1, <1>3 DEF ListNames
  <2>5. OldNames' /\ JobNames'
    BY <1>0, <1>3 DEF OldNames, JobNames
  <2> QED
    BY <2>2, <2>3, <2>4, <2>5 DEF CronNames
<1> QED
  BY <1>2, <1>3

\* A step in which the map learns the name u of the task registered for job k.
LEMMA NamesGiven ==
    ASSUME TypeInv, CronNames, NEW k, NEW u, u \in DOMAIN crons, crons[u] = k,
           UNCHANGED <<crons, removing>>,
           k \in DOMAIN jobs', jobs'[k].uuid = u,
           \A i \in DOMAIN jobs' : i # k =>
               i \in DOMAIN jobs /\ jobs'[i].uuid = jobs[i].uuid,
           \A d \in Callers :
               \/ call'[d].uuid = 0 /\ cpc'[d] \notin Minting \cup {"removing"}
               \/ SameCall(d),
           DOMAIN adding' \subseteq DOMAIN adding,
           \A i \in DOMAIN adding' : adding'[i].uuid = adding[i].uuid,
           \A i \in DOMAIN jobs : jobs[i].uuid # u,
           \A d \in Callers : call'[d].uuid # u,
           \A i \in DOMAIN adding' : adding'[i].uuid # u,
           \A i \in DOMAIN removing : removing[i] # u
    PROVE  /\ CronNames' /\ Served(k)'
           /\ \A d \in Callers : cpc'[d] = "replacing" => call'[d].uuid # jobs'[k].uuid
<1>0. /\ Names /\ CallNames /\ ListNames /\ OldNames /\ JobNames
      /\ 0 \notin DOMAIN crons
  BY DEF CronNames, TypeInv, TypeOK
<1>1. \A i, v : Remembers(i, v)' => (v # u /\ Remembers(i, v)) \/ (v = u /\ i = k)
  BY DEF Remembers, SameCall
<1>2. Names'
  BY <1>0, <1>1 DEF Names
<1>3. ASSUME NEW c \in Callers, cpc'[c] \in Minting
      PROVE  /\ call'[c].uuid \in DOMAIN crons'
             /\ \A j \in DOMAIN jobs' : jobs'[j].uuid # call'[c].uuid
             /\ \A d \in Callers \ {c} : call'[d].uuid # call'[c].uuid
             /\ \A j \in DOMAIN adding' : adding'[j].uuid # call'[c].uuid
             /\ \A j \in DOMAIN removing' : removing'[j] # call'[c].uuid
  <2>1. cpc[c] \in Minting /\ call'[c] = call[c]
    BY <1>3 DEF SameCall
  <2>2. call[c].uuid \in DOMAIN crons /\ call[c].uuid # 0 /\ call[c].uuid # u
    BY <1>0, <2>1 DEF CallNames
  <2> QED
    BY <1>0, <2>1, <2>2 DEF CallNames, SameCall
<1>4. ListNames'
  BY <1>0 DEF ListNames, SameCall
<1>5. OldNames' /\ JobNames'
  BY <1>0 DEF OldNames, JobNames, SameCall
<1>6. Served(k)'
  BY DEF Served
<1> QED
  BY <1>2, <1>3, <1>4, <1>5, <1>6 DEF CronNames, CallNames

\* A step that touches one job, k, leaves the others served.
LEMMA OtherJobs ==
    ASSUME CronInv, NEW k,
           \A i \in DOMAIN jobs' : i # k =>
               /\ i \in DOMAIN jobs
               /\ jobs'[i].uuid = jobs[i].uuid /\ jobs'[i].parses = jobs[i].parses
               /\ Served(i) => Served(i)'
               /\ Excused(i) => Excused(i)',
           \A c \in Callers : cpc'[c] = "replacing" /\ call'[c].job # k => SameCall(c),
           k \in DOMAIN jobs' => ~jobs'[k].parses \/ Served(k)' \/ Excused(k)',
           \A c \in Callers :
               /\ k \in DOMAIN jobs' /\ cpc'[c] = "replacing" /\ call'[c].job = k
               /\ call'[c].uuid = jobs'[k].uuid
               => ~jobs'[k].parses \/ Excused(k)'
    PROVE  JobsServed' /\ UpdatesServe'
<1>1. JobsServed'
  <2> SUFFICES ASSUME NEW i \in DOMAIN jobs'
               PROVE  ~jobs'[i].parses \/ Served(i)' \/ Excused(i)'
    BY DEF JobsServed
  <2>1. CASE i = k
    BY <2>1
  <2>2. CASE i # k
    BY <2>2 DEF CronInv, JobsServed
  <2> QED
    BY <2>1, <2>2
<1>2. UpdatesServe'
  <2> SUFFICES ASSUME NEW c \in Callers, NEW i \in DOMAIN jobs',
                      cpc'[c] = "replacing", call'[c].job = i,
                      call'[c].uuid = jobs'[i].uuid
               PROVE  ~jobs'[i].parses \/ Excused(i)'
    BY DEF UpdatesServe
  <2>1. CASE i = k
    BY <2>1
  <2>2. CASE i # k
    BY <2>2 DEF CronInv, UpdatesServe, SameCall
  <2> QED
    BY <2>1, <2>2
<1> QED
  BY <1>1, <1>2

-----------------------------------------------------------------------------
LEMMA RunActionCron ==
    ASSUME TypeInv, CronInv, RunAction
    PROVE  CronInv'
<1>1. SameNames /\ TypeOK
  BY RunActionType DEF TypeInv
<1>2. UNCHANGED <<crons, cut, cpc, call, adding, removing>>
  BY <1>1 DEF SameNames
<1>3. CronNames'
  <2>1. \A d \in Callers : SameCall(d)
    BY <1>2 DEF SameCall
  <2> QED
    BY <1>1, <1>2, <2>1, NamesKept DEF CronInv, SameNames
<1>4. \A j : Excused(j)' <=> Excused(j)
  BY <1>2 DEF Excused, Coming, Going
<1>5. JobsServed'
  BY <1>1, <1>4 DEF CronInv, JobsServed, SameNames, Served
<1>6. UpdatesServe'
  BY <1>1, <1>4 DEF CronInv, UpdatesServe, SameNames
<1> QED
  BY <1>3, <1>5, <1>6 DEF CronInv

\* A call that ends, or begins, without a registration of its own.
LEMMA QuietCall ==
    ASSUME TypeInv, CronInv, NEW c \in Callers,
           cpc'[c] \notin Minting \cup Updating \cup {"removing"}, call'[c].uuid = 0,
           \A d \in Callers \ {c} : SameCall(d),
           UNCHANGED <<crons, adding, removing>>,
           \A i \in DOMAIN jobs' :
               /\ i \in DOMAIN jobs
               /\ jobs'[i].uuid = jobs[i].uuid /\ jobs'[i].parses = jobs[i].parses
               /\ i \in cut \/ (cpc[c] \in Updating /\ call[c].job = i) => i \in cut'
    PROVE  CronInv'
<1>1. CronNames'
  BY NamesKept DEF CronInv, SameCall
<1>2. \A i \in DOMAIN jobs' : Served(i) => Served(i)'
  BY DEF Served
<1>3. ASSUME NEW i \in DOMAIN jobs', Excused(i)
      PROVE  Excused(i)'
  <2>1. CASE Going(i) \/ i \in cut
    BY <2>1 DEF Excused, Going
  <2>2. CASE Coming(i)
    <3>1. PICK d \in Callers : cpc[d] \in Updating /\ call[d].job = i /\ call[d].parses
      BY <2>2 DEF Coming
    <3> QED
      BY <3>1 DEF Excused, Coming, SameCall
  <2> QED
    BY <1>3, <2>1, <2>2 DEF Excused
<1>4. \A d \in Callers : cpc'[d] = "replacing" => SameCall(d)
  BY DEF Updating
<1>5. JobsServed' /\ UpdatesServe'
  <2>1. JobsServed'
    BY <1>2, <1>3 DEF CronInv, JobsServed
  <2>2. UpdatesServe'
    BY <1>3, <1>4 DEF CronInv, UpdatesServe, SameCall
  <2> QED
    BY <2>1, <2>2
<1> QED
  BY <1>1, <1>5 DEF CronInv

\* A removal or an update begins: the call keeps the name of its job's task.
LEMMA RemoveCron ==
    ASSUME TypeInv, CronInv, NEW c \in Callers, NEW j \in Jobs, Remove(c, j),
           UNCHANGED <<adding, removing>>
    PROVE  CronInv'
<1> DEFINE kept == [NoCall EXCEPT !.job = j, !.uuid = jobs[j].uuid]
<1>1. /\ j \in DOMAIN jobs /\ cpc[c] = "idle" /\ crons' = crons
      /\ jobs' = Drop(jobs, j) /\ cut' = cut \ {j}
  BY DEF Remove, Begin
<1>3. kept.job = j /\ kept.uuid = jobs[j].uuid
  BY DEF NoCall
<1>9. Becomes(c, "removing", kept)
  BY Beginnings
<1> HIDE DEF kept
<1>2. /\ cpc'[c] = "removing" /\ call'[c] = kept
      /\ \A d \in Callers \ {c} : SameCall(d)
  BY <1>9, BecomesEffect
<1>4. /\ j \notin DOMAIN jobs'
      /\ \A i \in DOMAIN jobs' : i \in DOMAIN jobs /\ jobs'[i] = jobs[i]
  BY <1>1, MapDropped
<1>5. \A i \in DOMAIN jobs' : jobs'[i].uuid # call'[c].uuid
  BY <1>1, <1>2, <1>3, <1>4 DEF CronInv, CronNames, Names, JobNames, Remembers
<1>6. CronNames'
  BY <1>1, <1>2, <1>3, <1>4, <1>5, NamesKept DEF CronInv, SameCall, Minting
<1>7. \A i : Coming(i) => Coming(i)'
  BY <1>1, <1>2 DEF Coming, SameCall, Updating
<1>8. \A i \in DOMAIN jobs' : i # j => (Served(i) => Served(i)') /\ (Excused(i) => Excused(i)')
  BY <1>1, <1>4, <1>7 DEF Served, Excused, Going
<1>10. \A d \in Callers : cpc'[d] = "replacing" => SameCall(d)
  BY <1>2
<1> QED
  BY <1>4, <1>6, <1>8, <1>10, OtherJobs DEF CronInv

LEMMA UpdateCron ==
    ASSUME TypeInv, CronInv, NEW c \in Callers, NEW j \in Jobs, NEW ok \in BOOLEAN,
           Update(c, j, ok), UNCHANGED <<adding, removing>>
    PROVE  CronInv'
<1> DEFINE kept == [job |-> j, uuid |-> jobs[j].uuid, parses |-> ok]
<1>0. JobsType
  BY TypeParts DEF TypeInv
<1>1. /\ j \in DOMAIN jobs /\ cpc[c] = "idle" /\ UNCHANGED <<crons, cut>>
      /\ jobs' = [jobs EXCEPT ![j].parses = ok]
  BY DEF Update, Begin
<1>10. kept.job = j /\ kept.uuid = jobs[j].uuid /\ kept.parses = ok
  OBVIOUS
<1>11. Becomes(c, "replacing", kept)
  BY Beginnings
<1> HIDE DEF kept
<1>2. /\ cpc'[c] = "replacing" /\ call'[c] = kept
      /\ \A d \in Callers \ {c} : SameCall(d)
  BY <1>11, BecomesEffect
<1>3. call'[c].job = j /\ call'[c].uuid = jobs[j].uuid /\ call'[c].parses = ok
  BY <1>2, <1>10
<1>4. /\ DOMAIN jobs' = DOMAIN jobs /\ jobs'[j].uuid = jobs[j].uuid
      /\ jobs'[j].parses = ok
      /\ \A i \in DOMAIN jobs : i # j => jobs'[i] = jobs[i]
  BY <1>0, <1>1 DEF JobsType, Entries
<1>5. CronNames'
  BY <1>1, <1>2, <1>3, <1>4, NamesKept DEF CronInv, SameCall, Minting
<1>6. \A i : Excused(i) => Excused(i)'
  BY <1>1, <1>2 DEF Excused, Going, Coming, SameCall, Updating
<1>7. \A i \in DOMAIN jobs' : Served(i) => Served(i)'
  BY <1>1, <1>4 DEF Served
<1>8. ~jobs'[j].parses \/ Excused(j)'
  BY <1>2, <1>3, <1>4 DEF Excused, Coming, Updating
<1>9. \A d \in Callers : cpc'[d] = "replacing" /\ call'[d].job # j => SameCall(d)
  BY <1>2, <1>3
<1> QED
  BY <1>4, <1>5, <1>6, <1>7, <1>8, <1>9, OtherJobs DEF CronInv

\* A call registers a task.
LEMMA RegisterCron ==
    ASSUME TypeInv, CronInv, NEW c \in Callers, Register(c),
           UNCHANGED <<adding, removing>>
    PROVE  CronInv'
<1>0. PICK k : k = call[c].job
  OBVIOUS
<1>1. /\ UNCHANGED <<jobs, cut>> /\ crons' = Put(crons, NewUuid, k)
      /\ cpc[c] \in {"adding", "registering"}
  BY <1>0 DEF Register, Goto
<1>2. k \in Jobs /\ call[c] \in Calls
  BY <1>0, <1>1 DEF TypeInv, BusyInv, TypeOK, Calls
<1>3. /\ Named(c).job = k /\ Named(c).uuid = NewUuid
      /\ Named(c).parses = call[c].parses
  <2> HIDE DEF NewUuid
  <2> QED
    BY <1>0, <1>2 DEF Named, Calls
<1>4. /\ cpc[c] = "adding" => cpc'[c] = "inserting"
      /\ cpc[c] = "registering" => cpc'[c] = "renaming"
      /\ call'[c] = Named(c)
      /\ \A d \in Callers \ {c} : SameCall(d)
  BY <1>1, Continuations, BecomesEffect
<1>5. NewUuid \notin DOMAIN crons
  BY NewUuidIsNew DEF TypeInv
<1> HIDE DEF NewUuid, Named
<1>6. CronNames'
  BY <1>1, <1>2, <1>3, <1>4, NamesMinted DEF CronInv, Minting
<1>7. \A i \in DOMAIN jobs' : Served(i) => Served(i)'
  <2>1. \A v \in DOMAIN crons : v \in DOMAIN crons' /\ crons'[v] = crons[v]
    BY <1>1, <1>5 DEF Put
  <2> QED
    BY <1>1, <2>1 DEF Served
<1>8. ASSUME NEW i, Excused(i)
      PROVE  Excused(i)'
  <2>1. CASE Going(i) \/ i \in cut
    BY <1>1, <2>1 DEF Excused, Going
  <2>2. CASE Coming(i)
    <3>1. PICK d \in Callers : cpc[d] \in Updating /\ call[d].job = i /\ call[d].parses
      BY <2>2 DEF Coming
    <3>2. cpc'[d] \in Updating /\ call'[d].job = i /\ call'[d].parses
      BY <1>0, <1>1, <1>3, <1>4, <3>1 DEF Updating, SameCall
    <3> QED
      BY <3>2 DEF Excused, Coming
  <2> QED
    BY <1>8, <2>1, <2>2 DEF Excused
<1>9. \A d \in Callers : cpc'[d] = "replacing" => SameCall(d)
  BY <1>1, <1>4
<1>10. JobsServed' /\ UpdatesServe'
  <2>1. JobsServed'
    BY <1>1, <1>7, <1>8 DEF CronInv, JobsServed
  <2>2. UpdatesServe'
    BY <1>1, <1>8, <1>9 DEF CronInv, UpdatesServe, SameCall
  <2> QED
    BY <2>1, <2>2
<1> QED
  BY <1>6, <1>10 DEF CronInv

\* A call, or list, tells the map of the task of job k.
LEMMA GivenServes ==
    ASSUME TypeInv, CronInv, NEW k, CronNames', Served(k)', k \in DOMAIN jobs',
           \A d \in Callers : cpc'[d] = "replacing" => call'[d].uuid # jobs'[k].uuid,
           \A d \in Callers : cpc'[d] = "replacing" => SameCall(d),
           \A i \in DOMAIN jobs' : i # k => i \in DOMAIN jobs /\ jobs'[i] = jobs[i],
           UNCHANGED <<crons, removing>>, cut' = cut \ {k},
           \A i : i # k /\ Coming(i) => Coming(i)'
    PROVE  CronInv'
<1>1. \A i \in DOMAIN jobs' : i # k => (Served(i) => Served(i)') /\ (Excused(i) => Excused(i)')
  BY DEF Served, Excused, Going
<1> QED
  BY <1>1, OtherJobs DEF CronInv

LEMMA InsertCron ==
    ASSUME TypeInv, CronInv, NEW c \in Callers, Insert(c),
           UNCHANGED <<adding, removing>>
    PROVE  CronInv'
<1>0. PICK k, u : k = call[c].job /\ u = call[c].uuid
  OBVIOUS
<1> DEFINE e == InMap(Fresh, u)
<1>1. /\ cpc[c] = "inserting" /\ UNCHANGED crons
      /\ jobs' = Put(jobs, k, e) /\ cut' = cut \ {k}
  BY <1>0 DEF Insert, Goto
<1>2. /\ cpc'[c] = "saving" /\ call'[c] = NoCall
      /\ \A d \in Callers \ {c} : SameCall(d)
  BY Continuations, BecomesEffect
<1>3. e.uuid = u
  BY DEF InMap
<1> HIDE DEF e
<1>4. /\ k \in DOMAIN jobs' /\ jobs'[k].uuid = u
      /\ \A i \in DOMAIN jobs' : i # k => i \in DOMAIN jobs /\ jobs'[i] = jobs[i]
  BY <1>1, <1>3 DEF Put
<1>5. NoCall.uuid = 0
  BY DEF NoCall
<1>6. /\ u \in DOMAIN crons /\ u # 0
      /\ \A i \in DOMAIN jobs : jobs[i].uuid # u
      /\ \A d \in Callers \ {c} : call[d].uuid # u
      /\ \A i \in DOMAIN adding : adding[i].uuid # u
      /\ \A i \in DOMAIN removing : removing[i] # u
  BY <1>0, <1>1 DEF CronInv, CronNames, CallNames, Minting, TypeInv, TypeOK
<1>7. crons[u] = k
  BY <1>0, <1>6 DEF CronInv, CronNames, Names, Remembers
<1>8. \A d \in Callers : call'[d].uuid # u
  BY <1>2, <1>5, <1>6 DEF SameCall
<1>9. \A d \in Callers : \/ call'[d].uuid = 0 /\ cpc'[d] \notin Minting \cup {"removing"}
                         \/ SameCall(d)
  BY <1>2, <1>5 DEF Minting
<1>10. /\ CronNames' /\ Served(k)'
       /\ \A d \in Callers : cpc'[d] = "replacing" => call'[d].uuid # jobs'[k].uuid
  BY <1>1, <1>4, <1>6, <1>7, <1>8, <1>9, NamesGiven DEF CronInv
<1>11. \A i : Coming(i) => Coming(i)'
  BY <1>1, <1>2 DEF Coming, SameCall, Updating
<1>12. \A d \in Callers : cpc'[d] = "replacing" => SameCall(d)
  BY <1>2
<1> QED
  BY <1>1, <1>4, <1>10, <1>11, <1>12, GivenServes

LEMMA RenameCron ==
    ASSUME TypeInv, CronInv, NEW c \in Callers, Rename(c),
           UNCHANGED <<adding, removing>>
    PROVE  CronInv'
<1>0. PICK k, u : k = call[c].job /\ u = call[c].uuid
  OBVIOUS
<1>11. JobsType
  BY TypeParts DEF TypeInv
<1>1. /\ cpc[c] = "renaming" /\ UNCHANGED crons
      /\ jobs' = Renamed(c) /\ cut' = cut \ {k}
  BY <1>0 DEF Rename, Goto
<1>2. /\ cpc'[c] = "saving" /\ call'[c] = NoCall
      /\ \A d \in Callers \ {c} : SameCall(d)
  BY Continuations, BecomesEffect
<1>3. NoCall.uuid = 0
  BY DEF NoCall
<1>4. /\ u \in DOMAIN crons /\ u # 0
      /\ \A i \in DOMAIN jobs : jobs[i].uuid # u
      /\ \A d \in Callers \ {c} : call[d].uuid # u
      /\ \A i \in DOMAIN adding : adding[i].uuid # u
      /\ \A i \in DOMAIN removing : removing[i] # u
  BY <1>0, <1>1 DEF CronInv, CronNames, CallNames, Minting, TypeInv, TypeOK
<1>5. crons[u] = k
  BY <1>0, <1>4 DEF CronInv, CronNames, Names, Remembers
<1>6. \A d \in Callers : cpc'[d] = "replacing" => SameCall(d)
  BY <1>2
<1>7. \A i : i # k /\ Coming(i) => Coming(i)'
  BY <1>0, <1>2 DEF Coming, SameCall
<1>8. /\ DOMAIN jobs' = DOMAIN jobs
      /\ k \in DOMAIN jobs => jobs'[k].uuid = u
      /\ \A i \in DOMAIN jobs : i # k => jobs'[i] = jobs[i]
  BY <1>0, <1>1, <1>11 DEF Renamed, JobsType, Entries
<1>9. CASE k \in DOMAIN jobs
  <2>1. \A d \in Callers : call'[d].uuid # u
    BY <1>2, <1>3, <1>4 DEF SameCall
  <2>2. \A d \in Callers :
           \/ call'[d].uuid = 0 /\ cpc'[d] \notin Minting \cup {"removing"}
           \/ SameCall(d)
    BY <1>2, <1>3 DEF Minting
  <2>3. /\ CronNames' /\ Served(k)'
        /\ \A d \in Callers : cpc'[d] = "replacing" => call'[d].uuid # jobs'[k].uuid
    BY <1>1, <1>4, <1>5, <1>8, <1>9, <2>1, <2>2, NamesGiven DEF CronInv
  <2> QED
    BY <1>1, <1>6, <1>7, <1>8, <1>9, <2>3, GivenServes
<1>10. CASE k \notin DOMAIN jobs
  <2>1. CronNames'
    BY <1>1, <1>2, <1>3, <1>8, <1>10, NamesKept DEF CronInv, SameCall, Minting
  <2>2. \A i \in DOMAIN jobs' :
           /\ i # k
           /\ Served(i) => Served(i)'
           /\ Excused(i) => Excused(i)'
    BY <1>1, <1>7, <1>8, <1>10 DEF Served, Excused, Going
  <2> QED
    BY <1>6, <1>8, <1>10, <2>1, <2>2, OtherJobs DEF CronInv
<1> QED
  BY <1>9, <1>10

\* The call of a removal removes a task that is no job's.
LEMMA UnregisterCron ==
    ASSUME TypeInv, CronInv, NEW c \in Callers, Unregister(c),
           UNCHANGED <<adding, removing>>
    PROVE  CronInv'
<1>0. PICK u : u = call[c].uuid
  OBVIOUS
<1>1. /\ cpc[c] = "removing" /\ UNCHANGED <<jobs, cut>> /\ crons' = Drop(crons, u)
  BY <1>0 DEF Unregister, Goto
<1>2. /\ cpc'[c] \in {"saving", "idle"} /\ call'[c] = NoCall
      /\ \A d \in Callers \ {c} : SameCall(d)
  BY Continuations, BecomesEffect
<1>3. NoCall.uuid = 0
  BY DEF NoCall
<1>4. /\ DOMAIN crons' = DOMAIN crons \ {u}
      /\ \A v \in DOMAIN crons : v # u => crons'[v] = crons[v]
  BY <1>1, DropEffect
<1>5. CronNames'
  BY <1>0, <1>1, <1>2, <1>3, <1>4, NamesKept DEF CronInv, SameCall, Minting
<1>6. \A i \in DOMAIN jobs : jobs[i].uuid # u
  BY <1>0, <1>1 DEF CronInv, CronNames, OldNames
<1>7. \A i \in DOMAIN jobs' : Served(i) => Served(i)'
  BY <1>1, <1>4, <1>6 DEF Served
<1>8. \A i : Excused(i) => Excused(i)'
  BY <1>1, <1>2 DEF Excused, Going, Coming, SameCall, Updating
<1>9. \A d \in Callers : cpc'[d] = "replacing" => SameCall(d)
  BY <1>2
<1>10. JobsServed'
  BY <1>1, <1>7, <1>8 DEF CronInv, JobsServed
<1>11. UpdatesServe'
  BY <1>1, <1>8, <1>9 DEF CronInv, UpdatesServe, SameCall
<1> QED
  BY <1>5, <1>10, <1>11 DEF CronInv

\* Of the tasks that go under a name kept for job k, none is another job's.
LEMMA DropServes ==
    ASSUME CronNames, NEW k, NEW u, crons' = Drop(crons, u),
           u = 0 \/ Remembers(k, u),
           NEW i \in DOMAIN jobs, i # k, Served(i), jobs'[i].uuid = jobs[i].uuid
    PROVE  Served(i)'
<1>1. jobs[i].uuid # u
  BY DEF CronNames, Names, JobNames, Remembers
<1>2. \A v \in DOMAIN crons : v # u => v \in DOMAIN crons' /\ crons'[v] = crons[v]
  BY DropEffect
<1> QED
  BY <1>1, <1>2 DEF Served

\* An update removes the old task.  The one that then fails takes a task away
\* that the job may not miss.
LEMMA ReplaceCron ==
    ASSUME TypeInv, CronInv, NEW c \in Callers, Replace(c),
           UNCHANGED <<adding, removing>>
    PROVE  CronInv'
<1>0. PICK k, u : k = call[c].job /\ u = call[c].uuid
  OBVIOUS
<1>1. /\ cpc[c] = "replacing" /\ UNCHANGED <<jobs, cut>> /\ crons' = Drop(crons, u)
  BY <1>0 DEF Replace, jobVars
<1>2. /\ call[c].parses => cpc'[c] = "registering" /\ call'[c] = call[c]
      /\ ~call[c].parses => cpc'[c] = "idle" /\ call'[c] = NoCall
      /\ \A d \in Callers \ {c} : SameCall(d)
  BY Continuations, BecomesEffect
<1>3. NoCall.uuid = 0
  BY DEF NoCall
<1>4. /\ DOMAIN crons' = DOMAIN crons \ {u}
      /\ \A v \in DOMAIN crons : v # u => crons'[v] = crons[v]
  BY <1>1, DropEffect
<1>5. CronNames'
  <2>1. \A d \in Callers : call'[d].uuid = 0 \/ call'[d] = call[d]
    BY <1>2, <1>3 DEF SameCall
  <2>2. \A d \in Callers : cpc'[d] \in Minting \cup {"removing"} => SameCall(d)
    BY <1>2 DEF Minting
  <2> QED
    BY <1>0, <1>1, <1>4, <2>1, <2>2, NamesKept DEF CronInv, Minting
<1>6. u = 0 \/ Remembers(k, u)
  BY <1>0 DEF Remembers
<1>7. \A i \in DOMAIN jobs' : i # k /\ Served(i) => Served(i)'
  BY <1>1, <1>6, DropServes DEF CronInv
<1>8. ASSUME NEW i, Excused(i)
      PROVE  Excused(i)'
  <2>1. CASE Going(i) \/ i \in cut
    BY <1>1, <2>1 DEF Excused, Going
  <2>2. CASE Coming(i)
    <3>1. PICK d \in Callers : cpc[d] \in Updating /\ call[d].job = i /\ call[d].parses
      BY <2>2 DEF Coming
    <3>2. cpc'[d] \in Updating /\ call'[d].job = i /\ call'[d].parses
      BY <1>2, <3>1 DEF Updating, SameCall
    <3> QED
      BY <3>2 DEF Excused, Coming
  <2> QED
    BY <1>8, <2>1, <2>2 DEF Excused
<1>9. \A d \in Callers : cpc'[d] = "replacing" => SameCall(d)
  BY <1>2
<1>10. k \in DOMAIN jobs' => ~jobs'[k].parses \/ Served(k)' \/ Excused(k)'
  <2> HAVE k \in DOMAIN jobs'
  <2>1. CASE u = jobs[k].uuid
    BY <1>0, <1>1, <1>8, <2>1 DEF CronInv, UpdatesServe
  <2>2. CASE u # jobs[k].uuid /\ Served(k)
    BY <1>1, <1>4, <2>2 DEF Served
  <2>3. ~jobs[k].parses \/ Served(k) \/ Excused(k)
    BY <1>1 DEF CronInv, JobsServed
  <2> QED
    BY <1>1, <1>8, <2>1, <2>2, <2>3
<1>11. \A d \in Callers :
          /\ k \in DOMAIN jobs' /\ cpc'[d] = "replacing" /\ call'[d].job = k
          /\ call'[d].uuid = jobs'[k].uuid
          => ~jobs'[k].parses \/ Excused(k)'
  BY <1>1, <1>8, <1>9 DEF CronInv, UpdatesServe, SameCall
<1> QED
  BY <1>1, <1>5, <1>7, <1>8, <1>9, <1>10, <1>11, OtherJobs DEF CronInv

LEMMA CallActionCron ==
    ASSUME TypeInv, CronInv, CallAction
    PROVE  CronInv'
<1>0. UNCHANGED <<adding, removing>> /\ JobsType
  BY CallActionType, TypeParts DEF CallRest, TypeInv
<1>1. NoCall.uuid = 0 /\ \A j : [NoCall EXCEPT !.job = j].uuid = 0
  BY DEF NoCall
<1>2. ASSUME NEW c \in Callers, NEW j \in Jobs,
             Add(c, j) \/ Pause(c, j) \/ Unpause(c, j) \/ Kill(c, j)
      PROVE  CronInv'
  <2>1. /\ UNCHANGED <<crons, cut>> /\ cpc[c] = "idle"
        /\ \/ jobs' = jobs
           \/ j \in DOMAIN jobs
              /\ \E b \in BOOLEAN : jobs' = [jobs EXCEPT ![j].paused = b]
    BY <1>2 DEF Add, Pause, Unpause, Kill, Begin, jobVars
  <2>2. \A i \in DOMAIN jobs' : /\ i \in DOMAIN jobs
                               /\ jobs'[i].uuid = jobs[i].uuid
                               /\ jobs'[i].parses = jobs[i].parses
    BY <1>0, <2>1 DEF JobsType, Entries
  <2>3. PICK next \in {"adding", "saving", "killing"},
             kept \in {NoCall, [NoCall EXCEPT !.job = j]} :
           Becomes(c, next, kept)
    BY <1>2, Beginnings
  <2>5. kept.uuid = 0
    BY <1>1
  <2>4. /\ cpc'[c] \in {"adding", "saving", "killing"} /\ call'[c].uuid = 0
        /\ \A d \in Callers \ {c} : SameCall(d)
    BY <2>3, <2>5, BecomesEffect
  <2> QED
    BY <1>0, <2>1, <2>2, <2>4, QuietCall DEF Minting, Updating
<1>3. ASSUME NEW c \in Callers, Save(c) \/ CancelToken(c) \/ DropCall(c)
      PROVE  CronInv'
  <2>1. /\ cpc'[c] = "idle" /\ call'[c].uuid = 0
        /\ \A d \in Callers \ {c} : SameCall(d)
    BY <1>1, <1>3, Continuations, BecomesEffect
  <2>2. /\ UNCHANGED <<jobs, crons>>
        /\ cut' = IF cpc[c] \in Updating THEN cut \cup {call[c].job} ELSE cut
    BY <1>3 DEF Save, CancelToken, DropCall, jobVars, Updating
  <2> QED
    BY <1>0, <2>1, <2>2, QuietCall DEF Minting, Updating
<1> QED
  BY <1>0, <1>2, <1>3, RemoveCron, UpdateCron, RegisterCron, InsertCron, RenameCron,
     UnregisterCron, ReplaceCron DEF CallAction, CallStep

-----------------------------------------------------------------------------
LEMMA ListActionCron ==
    ASSUME TypeInv, CronInv, List
    PROVE  CronInv'
<1>0. /\ UNCHANGED <<cpc, call>> /\ JobsType /\ CronNames
      /\ \A d \in Callers : SameCall(d)
  BY ListActionType, TypeParts DEF ListRest, TypeInv, CronInv, SameCall
<1>1. \A i : Coming(i) => Coming(i)'
  BY <1>0 DEF Coming
\* Jobs, tasks and what is excused stay: so does the rest.
<1>2. ASSUME CronNames', UNCHANGED <<jobs, crons>>,
             \A i \in DOMAIN jobs : Excused(i) => Excused(i)'
      PROVE  CronInv'
  <2>1. JobsServed'
    BY <1>2 DEF CronInv, JobsServed, Served
  <2>2. UpdatesServe'
    BY <1>0, <1>2 DEF CronInv, UpdatesServe
  <2> QED
    BY <1>2, <2>1, <2>2 DEF CronInv
<1>3. CASE ListRead \/ ListEnd
  <2>1. UNCHANGED <<jobs, crons, cut, adding, removing>>
    BY <1>3 DEF ListRead, ListEnd, jobVars
  <2>2. CronNames'
    BY <1>0, <2>1, NamesKept
  <2>3. \A i : Excused(i) => Excused(i)'
    BY <1>1, <2>1 DEF Excused, Going
  <2> QED
    BY <1>2, <2>1, <2>2, <2>3
<1>4. CASE ListDiff
  <2>1. /\ lpc = "read" /\ UNCHANGED <<jobs, crons, cut>>
        /\ \A j \in DOMAIN adding' : adding'[j] = InMap(seen[j], 0)
        /\ DOMAIN removing' = ToRemove
        /\ \A j \in ToRemove : removing'[j] = jobs[j].uuid
    BY <1>4 DEF ListDiff, jobVars
  <2>2. /\ \A j \in DOMAIN adding' : adding'[j].uuid = 0
        /\ \A j \in DOMAIN removing' : j \in DOMAIN jobs /\ removing'[j] = jobs[j].uuid
    BY <2>1 DEF InMap, ToRemove
  <2>3. CronNames'
    BY <1>0, <2>1, <2>2, NamesKept
  <2>4. DOMAIN removing = {}
    BY <2>1 DEF TypeInv, BusyInv
  <2>5. \A i : Excused(i) => Excused(i)'
    BY <1>1, <2>1, <2>4 DEF Excused, Going
  <2> QED
    BY <1>2, <2>1, <2>3, <2>5
<1>5. CASE DropList
  <2>1. /\ UNCHANGED <<jobs, crons>>
        /\ DOMAIN adding' = {} /\ DOMAIN removing' = {}
        /\ cut' = cut \cup {j \in DOMAIN removing : removing[j] = 0}
    BY <1>5, EmptyEffect DEF DropList
  <2>2. CronNames'
    BY <1>0, <2>1, NamesKept
  <2>3. \A i : Excused(i) => Excused(i)'
    BY <1>1, <2>1 DEF Excused, Going
  <2> QED
    BY <1>2, <2>1, <2>2, <2>3
<1>6. ASSUME NEW j \in Jobs, ListSkip(j)
      PROVE  CronInv'
  <2>1. UNCHANGED <<jobs, crons, cut, removing>> /\ adding' = Drop(adding, j)
    BY <1>6 DEF ListSkip, jobVars
  <2>2. \A i \in DOMAIN adding' : i \in DOMAIN adding /\ adding'[i] = adding[i]
    BY <2>1, MapDropped
  <2>3. CronNames'
    BY <1>0, <2>1, <2>2, NamesKept
  <2>4. \A i : Excused(i) => Excused(i)'
    BY <1>1, <2>1 DEF Excused, Going
  <2> QED
    BY <1>2, <2>1, <2>3, <2>4
<1>7. ASSUME NEW k \in Jobs, ListRegister(k)
      PROVE  CronInv'
  <2>1. /\ UNCHANGED <<jobs, cut, removing>> /\ k \in DOMAIN adding
        /\ crons' = Put(crons, NewUuid, k)
        /\ adding' = [adding EXCEPT ![k].uuid = NewUuid]
    BY <1>7 DEF ListRegister
  <2>2. NewUuid \notin DOMAIN crons
    BY NewUuidIsNew DEF TypeInv
  <2>3. \A i \in DOMAIN adding : adding[i] \in Entries
    BY DEF TypeInv, TypeOK
  <2> HIDE DEF NewUuid
  <2>4. /\ DOMAIN adding' = DOMAIN adding /\ adding'[k].uuid = NewUuid
        /\ \A i \in DOMAIN adding \ {k} : adding'[i].uuid = adding[i].uuid
    BY <2>1, <2>3 DEF Entries
  <2>5. CronNames'
    BY <1>0, <2>1, <2>4, NamesMinted
  <2>6. \A i \in DOMAIN jobs : Served(i) => Served(i)'
    <3>1. \A v \in DOMAIN crons : v \in DOMAIN crons' /\ crons'[v] = crons[v]
      BY <2>1, <2>2 DEF Put
    <3> QED
      BY <2>1, <3>1 DEF Served
  <2>7. \A i : Excused(i) => Excused(i)'
    BY <1>1, <2>1 DEF Excused, Going
  <2>8. JobsServed'
    BY <2>1, <2>6, <2>7 DEF CronInv, JobsServed
  <2>9. UpdatesServe'
    BY <1>0, <2>1, <2>7 DEF CronInv, UpdatesServe
  <2> QED
    BY <2>5, <2>8, <2>9 DEF CronInv
<1>8. ASSUME NEW k \in Jobs, ListInsert(k)
      PROVE  CronInv'
  <2>0. PICK e, u : e = adding[k] /\ u = adding[k].uuid
    OBVIOUS
  <2>1. /\ UNCHANGED <<crons, removing>> /\ k \in DOMAIN adding /\ u # 0
        /\ jobs' = Put(jobs, k, e) /\ cut' = cut \ {k}
        /\ adding' = Drop(adding, k)
    BY <1>8, <2>0 DEF ListInsert
  <2>2. /\ k \in DOMAIN jobs' /\ jobs'[k].uuid = u
        /\ \A i \in DOMAIN jobs' : i # k => i \in DOMAIN jobs /\ jobs'[i] = jobs[i]
    BY <2>0, <2>1 DEF Put
  <2>3. /\ u \in DOMAIN crons
        /\ \A i \in DOMAIN jobs : jobs[i].uuid # u
        /\ \A d \in Callers : call[d].uuid # u
        /\ \A i \in DOMAIN removing : removing[i] # u
    BY <1>0, <2>0, <2>1 DEF CronNames, ListNames
  <2>4. Remembers(k, u)
    BY <2>0, <2>1 DEF Remembers
  <2>5. crons[u] = k
    BY <1>0, <2>3, <2>4 DEF CronNames, Names
  <2>6. /\ k \notin DOMAIN adding'
        /\ \A i \in DOMAIN adding' : i \in DOMAIN adding /\ adding'[i] = adding[i]
    BY <2>1, MapDropped
  <2>7. ASSUME NEW i \in DOMAIN adding', adding'[i].uuid = u
        PROVE  FALSE
    <3>1. i \in DOMAIN adding /\ adding[i].uuid = u /\ i # k
      BY <2>6, <2>7
    <3>2. Remembers(i, u)
      BY <2>1, <3>1 DEF Remembers
    <3>3. crons[u] = i
      BY <1>0, <2>3, <3>2 DEF CronNames, Names
    <3> QED
      BY <2>5, <3>1, <3>3
  <2>8. /\ CronNames' /\ Served(k)'
        /\ \A d \in Callers : cpc'[d] = "replacing" => call'[d].uuid # jobs'[k].uuid
    BY <1>0, <2>1, <2>2, <2>3, <2>5, <2>6, <2>7, NamesGiven
  <2> QED
    BY <1>0, <1>1, <2>1, <2>2, <2>8, GivenServes
<1>9. ASSUME NEW k \in Jobs, ListUnregister(k)
      PROVE  CronInv'
  <2>0. PICK u : u = removing[k]
    OBVIOUS
  <2>1. /\ UNCHANGED <<jobs, cut, adding>> /\ k \in DOMAIN removing /\ u # 0
        /\ crons' = Drop(crons, u) /\ removing' = [removing EXCEPT ![k] = 0]
    BY <1>9, <2>0 DEF ListUnregister
  <2>2. /\ DOMAIN removing' = DOMAIN removing /\ removing'[k] = 0
        /\ \A i \in DOMAIN removing : i # k => removing'[i] = removing[i]
    BY <2>1
  <2>3. /\ DOMAIN crons' = DOMAIN crons \ {u}
        /\ \A v \in DOMAIN crons : v # u => crons'[v] = crons[v]
    BY <2>1, DropEffect
  <2>4. CronNames'
    BY <1>0, <2>0, <2>1, <2>2, <2>3, NamesKept
  <2>5. Remembers(k, u)
    BY <2>0, <2>1 DEF Remembers
  <2>6. \A i \in DOMAIN jobs : i # k /\ Served(i) => Served(i)'
    BY <1>0, <2>1, <2>5, DropServes
  <2>7. \A i : Excused(i) => Excused(i)'
    BY <1>1, <2>1, <2>2 DEF Excused, Going
  <2>8. Excused(k)'
    BY <2>1, <2>2 DEF Excused, Going
  <2> QED
    BY <1>0, <2>1, <2>4, <2>6, <2>7, <2>8, OtherJobs DEF CronInv
<1>10. ASSUME NEW k \in Jobs, ListForget(k)
       PROVE  CronInv'
  <2>1. /\ UNCHANGED <<crons, adding>> /\ cut' = cut \ {k}
        /\ jobs' = Drop(jobs, k) /\ removing' = Drop(removing, k)
    BY <1>10 DEF ListForget
  <2>2. /\ k \notin DOMAIN jobs'
        /\ \A i \in DOMAIN jobs' : i \in DOMAIN jobs /\ jobs'[i] = jobs[i]
        /\ \A i \in DOMAIN removing' : i \in DOMAIN removing /\ removing'[i] = removing[i]
    BY <2>1, MapDropped
  <2>3. CronNames'
    BY <1>0, <2>1, <2>2, NamesKept
  <2>4. \A i \in DOMAIN removing : i # k => i \in DOMAIN removing' /\ removing'[i] = removing[i]
    BY <2>1, DropEffect
  <2>5. \A i : i # k /\ Excused(i) => Excused(i)'
    BY <1>1, <2>1, <2>4 DEF Excused, Going
  <2>6. \A i \in DOMAIN jobs' : Served(i) => Served(i)'
    BY <2>1, <2>2 DEF Served
  <2> QED
    BY <1>0, <2>2, <2>3, <2>5, <2>6, OtherJobs DEF CronInv
<1> QED
  BY <1>3, <1>4, <1>5, <1>6, <1>7, <1>8, <1>9, <1>10 DEF List

LEMMA CrashCron ==
    ASSUME TypeInv, Crash
    PROVE  CronInv'
<1>1. /\ CrashRest
      /\ jobs' = [j \in Loaded |-> InMap(disk'[j], LoadedUuid[j])]
      /\ \A j \in Loaded : LoadedUuid[j] \in DOMAIN crons' /\ crons'[LoadedUuid[j]] = j
      /\ 0 \notin DOMAIN crons'
  BY CrashType DEF TypeInv, TypeOK
<1>2. \A i, j \in Loaded : LoadedUuid[i] = LoadedUuid[j] => i = j
  BY LoadedNames
<1>3. DOMAIN jobs' = Loaded /\ \A j \in Loaded : jobs'[j].uuid = LoadedUuid[j]
  BY <1>1 DEF InMap
<1>4. /\ \A c \in Callers : call'[c].uuid = 0 /\ cpc'[c] = "idle"
      /\ DOMAIN removing' = {} /\ DOMAIN adding' = {}
  BY <1>1, EmptyEffect DEF CrashRest, NoCall
<1>5. \A j, u : Remembers(j, u)' => j \in Loaded /\ LoadedUuid[j] = u
  BY <1>3, <1>4 DEF Remembers
<1>6. Names'
  BY <1>1, <1>2, <1>5 DEF Names
<1>7. CallNames' /\ ListNames' /\ OldNames'
  BY <1>4 DEF CallNames, ListNames, OldNames, Minting
<1>8. JobNames'
  BY <1>1, <1>3 DEF JobNames
<1>9. JobsServed' /\ UpdatesServe'
  BY <1>1, <1>3, <1>4 DEF JobsServed, UpdatesServe, Served
<1> QED
  BY <1>6, <1>7, <1>8, <1>9 DEF CronInv, CronNames

\* Every job whose expression can be parsed has a cron task of its own, in
\* whatever order updates, removals, list and crashes change the
\* registrations; it is without one only while an update replaces it or list
\* removes the job, and after one of these was dropped at that point.
THEOREM JobsAreServed == Spec => []JobHasCron
<1>1. CronInv => JobHasCron
  BY DEF CronInv, JobsServed, Served, Excused, Coming, Going, JobHasCron
<1>2. Init => CronInv
  <2> SUFFICES ASSUME Init PROVE CronInv
    OBVIOUS
  <2>1. /\ DOMAIN jobs = {} /\ DOMAIN removing = {} /\ DOMAIN adding = {}
        /\ \A c \in Callers : call[c].uuid = 0 /\ cpc[c] = "idle"
    BY EmptyEffect DEF Init, NoCall
  <2>2. \A j, u : ~Remembers(j, u)
    BY <2>1 DEF Remembers
  <2>3. CronNames
    BY <2>1, <2>2 DEF CronNames, Names, CallNames, ListNames, OldNames, JobNames, Minting
  <2> QED
    BY <2>1, <2>3 DEF CronInv, JobsServed, UpdatesServe
<1>3. TypeInv /\ CronInv /\ [Next]_vars => CronInv'
  <2>1. ASSUME TypeInv, CronInv, UNCHANGED vars
        PROVE  CronInv'
    <3>1. UNCHANGED <<jobs, crons, cut, cpc, call, adding, removing>>
      BY <2>1 DEF vars, jobVars, callVars, listVars
    <3>2. \A d \in Callers : SameCall(d)
      BY <3>1 DEF SameCall
    <3>3. CronNames'
      BY <2>1, <3>1, <3>2, NamesKept DEF CronInv
    <3>4. JobsServed' /\ UpdatesServe'
      BY <2>1, <3>1 DEF CronInv, JobsServed, UpdatesServe, Served, Excused, Coming, Going
    <3> QED
      BY <3>3, <3>4 DEF CronInv
  <2> QED
    BY <2>1, NextActions, RunActionCron, CallActionCron, ListActionCron, CrashCron
<1> QED
  BY <1>1, <1>2, <1>3, InitType, TypeStep, PTL DEF Spec
=============================================================================
