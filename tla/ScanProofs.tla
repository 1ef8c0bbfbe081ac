------------------------------ MODULE ScanProofs ------------------------------
(***************************************************************************)
(* Proofs about a scan job and about the scan that it runs.                *)
(*                                                                         *)
(* ScanJobs, for any numbers of processes, workers, jobs and failures: its *)
(* types, that a job has one runner at a time, that runs are repeated      *)
(* after failures only, and that the table implements JobLife.  All but    *)
(* the types rest on the two conditions under which the code is careful:   *)
(* no analysis outlives recover_stale_seconds, and processes do not        *)
(* recover at the same time.                                               *)
(*                                                                         *)
(* UnifiedScan, for every chain, token, request and static report and for  *)
(* any thresholds, windows and bounds: its types and its four invariants.  *)
(* The sums of the models are folds; the proofs use them as sums over a    *)
(* finite set, one element after another.                                  *)
(***************************************************************************)
EXTENDS ScanJobs, UnifiedScan, SequenceTheorems, FiniteSetTheorems, WellFoundedInduction, TLAPS

Careful == ~MayOverrun /\ ~StartsOverlap

Failed == crashes + failures

\* A thread that works on a job finds its row running, or finished by the update
\* that then raised, and is alone.
HoldersInv ==
  \A d \in Dispatches : disp[d] \in Holding =>
    /\ job[d[3]].status = "running" \/ (disp[d] = "fail" /\ job[d[3]].status \in Finished)
    /\ d[3] \notin old
    /\ \A e \in Dispatches : e[3] = d[3] /\ disp[e] \in Holding => e = d

\* Old rows are running, and the rows that a process read are still old when it
\* requeues them: nobody else does in the meantime.
StaleInv ==
  /\ \A j \in old : job[j].status = "running"
  /\ \A p \in Procs : stale[p] \subseteq old
  /\ \A p \in Procs : stale[p] # {} => proc[p] = "recovering"
  /\ \A p, q \in Procs : proc[p] = "recovering" /\ proc[q] = "recovering" => p = q

\* Each run but the current or the last one was ended by a failure.
AttemptsInv ==
  \A j \in Jobs :
    /\ job[j].attempts <= Failed + 1
    /\ job[j].status \in {"none", "pending"} => job[j].attempts <= Failed
    /\ job[j].status = "running" /\ ~Live(j) => job[j].attempts <= Failed

IInv == TypeOK /\ (Careful => HoldersInv /\ StaleInv /\ AttemptsInv)

-----------------------------------------------------------------------------
(* Types *)

LEMMA DispatchType ==
  ASSUME NEW d \in Dispatches
  PROVE  d[1] \in Procs /\ d[2] \in Paths /\ d[3] \in Jobs
BY DEF Dispatches

LEMMA TypeStep ==
  ASSUME TypeOK, [Next]_vars
  PROVE  TypeOK'
<1>. USE ScanJobsAssumption DEF TypeOK, Pcs, Holding, JobRows, Unfailing
<1>1. ASSUME NEW p \in Procs, NEW j \in Jobs, Submit(p, j)  PROVE TypeOK'
  BY <1>1, SMTT(30) DEF Submit, NewRow, Dispatched, Paths
<1>13. ASSUME NEW p \in Procs, NEW j \in Jobs, SubmitError(p, j)  PROVE TypeOK'
  BY <1>13 DEF SubmitError, NewRow, MayFail
<1>2. ASSUME NEW d \in Dispatches, Fire(d)  PROVE TypeOK'
  BY <1>2 DEF Fire, Goto
<1>3. ASSUME NEW d \in Dispatches, Claim(d)  PROVE TypeOK'
  BY <1>3, DispatchType DEF Claim, Goto
<1>4. ASSUME NEW d \in Dispatches, Save(d)  PROVE TypeOK'
  BY <1>4, DispatchType DEF Save, Update, Goto
<1>5. ASSUME NEW d \in Dispatches, Fail(d)  PROVE TypeOK'
  BY <1>5, DispatchType DEF Fail, Update, Goto
<1>6. ASSUME NEW d \in Dispatches, StoreError(d)  PROVE TypeOK'
  <2>1. /\ disp' \in [Dispatches -> Pcs] /\ failures' \in Nat
        /\ UNCHANGED <<proc, stale, accepted, crashes>>
    BY <1>6 DEF StoreError, Goto
  <2>2. job' \in [Jobs -> JobRows] /\ old' \subseteq Jobs
    <3>1. CASE UNCHANGED <<job, old>>
      BY <3>1
    <3>2. ASSUME NEW s \in Finished, Update(d[3], s)
          PROVE  job' \in [Jobs -> JobRows] /\ old' \subseteq Jobs
      BY <3>2, DispatchType DEF Update
    <3>. QED
      BY <1>6, <3>1, <3>2 DEF StoreError
  <2>. QED
    BY <2>1, <2>2
<1>7. ASSUME NEW j \in Jobs, Age(j)  PROVE TypeOK'
  BY <1>7 DEF Age
<1>8. ASSUME NEW p \in Procs, ReadStale(p)  PROVE TypeOK'
  BY <1>8 DEF ReadStale
<1>9. ASSUME NEW p \in Procs, Requeue(p)  PROVE TypeOK'
  BY <1>9 DEF Requeue
<1>10. ASSUME NEW p \in Procs, Resume(p)  PROVE TypeOK'
  BY <1>10 DEF Resume, Dispatched, Paths
<1>11. ASSUME NEW p \in Procs, Crash(p)  PROVE TypeOK'
  BY <1>11 DEF Crash, MayFail
<1>12. CASE UNCHANGED vars
  BY <1>12 DEF vars
<1>. QED
  BY <1>1, <1>2, <1>3, <1>4, <1>5, <1>6, <1>7, <1>8, <1>9, <1>10, <1>11, <1>12, <1>13
  DEF Next, Run, Start

\* Every row, dispatch and process keeps its type.
THEOREM TypeCorrect == Spec => []TypeOK
<1>1. Init => TypeOK
  BY ScanJobsAssumption DEF Init, TypeOK, JobRows, Pcs
<1>2. TypeOK /\ [Next]_vars => TypeOK'
  BY TypeStep
<1>. QED
  BY <1>1, <1>2, PTL DEF Spec

-----------------------------------------------------------------------------
(* One runner per job *)

\* The hypotheses every step starts from.
Core == TypeOK /\ HoldersInv /\ StaleInv /\ AttemptsInv

\* A new row, whether or not it is dispatched: threads at work stay where they are.
LEMMA NewRowStep ==
  ASSUME Core, NEW p \in Procs, NEW j \in Jobs, NewRow(p, j),
         UNCHANGED <<old, proc, stale>>, Failed' \in Nat, Failed <= Failed',
         \A d \in Dispatches : d[3] # j => disp'[d] = disp[d],
         \A d \in Dispatches : d[3] = j => disp'[d] = disp[d] \/ disp'[d] \notin Holding
  PROVE  HoldersInv' /\ StaleInv' /\ AttemptsInv'
<1>. USE DEF Core, TypeOK, JobRows, NewRow, Created
<1>1. \A k \in Jobs : /\ job'[k].attempts = job[k].attempts
                      /\ job'[k].status = IF k = j THEN "pending" ELSE job[k].status
  OBVIOUS
<1>2. \A d \in Dispatches : disp[d] \in Holding => d[3] # j
  BY ScanJobsAssumption DEF HoldersInv
<1>3. \A d \in Dispatches : disp'[d] \in Holding => disp'[d] = disp[d] /\ d[3] # j
  BY <1>2
<1>4. \A d \in Dispatches : disp[d] \in Holding => disp'[d] = disp[d]
  BY <1>2
<1>5. HoldersInv'
  BY <1>1, <1>3, DispatchType DEF HoldersInv
<1>6. StaleInv'
  BY <1>1 DEF StaleInv
<1>7. \A k \in Jobs : Live(k)' <=> Live(k)
  BY <1>3, <1>4 DEF Live
<1>8. Failed \in Nat /\ \A k \in Jobs : job[k].attempts \in Nat
  BY DEF Failed
<1>9. AttemptsInv'
  BY <1>1, <1>7, <1>8 DEF AttemptsInv
<1>. QED
  BY <1>5, <1>6, <1>9

LEMMA SubmitStep ==
  ASSUME Core, NEW p \in Procs, NEW j \in Jobs, Submit(p, j) \/ SubmitError(p, j)
  PROVE  HoldersInv' /\ StaleInv' /\ AttemptsInv'
<1>. USE DEF Core, TypeOK
<1>1. NewRow(p, j) /\ UNCHANGED <<old, proc, stale>>
  BY DEF Submit, SubmitError
<1>2. Failed' \in Nat /\ Failed <= Failed'
  BY DEF Submit, SubmitError, Failed
<1>3. \A d \in Dispatches : d[3] # j => disp'[d] = disp[d]
  BY DEF Submit, SubmitError, Dispatched
<1>4. \A d \in Dispatches : d[3] = j => disp'[d] = disp[d] \/ disp'[d] \notin Holding
  BY DEF Submit, SubmitError, Dispatched, Holding
<1>. QED
  BY <1>1, <1>2, <1>3, <1>4, NewRowStep

LEMMA FireStep ==
  ASSUME Core, NEW c \in Dispatches, Fire(c)
  PROVE  HoldersInv' /\ StaleInv' /\ AttemptsInv'
<1>. USE DEF Core, TypeOK, Fire, Goto, Unfailing
<1>1. \A d \in Dispatches : disp'[d] \in Holding <=> disp[d] \in Holding
  BY DEF Holding
<1>2. HoldersInv'
  BY <1>1 DEF HoldersInv
<1>3. StaleInv'
  BY DEF StaleInv
<1>4. AttemptsInv'
  BY <1>1 DEF AttemptsInv, Live, Failed
<1>. QED
  BY <1>2, <1>3, <1>4

LEMMA ClaimStep ==
  ASSUME Core, NEW c \in Dispatches, Claim(c)
  PROVE  HoldersInv' /\ StaleInv' /\ AttemptsInv'
<1>. USE DEF Core, TypeOK, JobRows, Unfailing
<1>1. c[3] \in Jobs /\ disp[c] \notin Holding
  BY DispatchType DEF Claim, Ready, Holding
<1>2. CASE job[c[3]].status = "pending"
  <2>1. /\ job' = [job EXCEPT ![c[3]].status = "running", ![c[3]].attempts = @ + 1]
        /\ old' = old \ {c[3]} /\ disp' = [disp EXCEPT ![c] = "run"]
        /\ UNCHANGED <<proc, stale, crashes, failures>>
    BY <1>2 DEF Claim, Goto
  <2>2. \A k \in Jobs : k # c[3] => job'[k] = job[k]
    BY <2>1
  <2>3. job'[c[3]].status = "running" /\ job'[c[3]].attempts = job[c[3]].attempts + 1
    BY <2>1, <1>1
  <2>4. \A d \in Dispatches : /\ disp'[d] \in Holding <=> disp[d] \in Holding \/ d = c
                              /\ disp[d] \in Holding => d[3] # c[3]
                              /\ d # c => disp'[d] = disp[d]
    BY <2>1, <1>2, ScanJobsAssumption DEF Holding, HoldersInv
  <2>5. HoldersInv'
    BY <2>1, <2>2, <2>3, <2>4, DispatchType DEF HoldersInv
  <2>6. c[3] \notin old
    BY <1>2 DEF StaleInv
  <2>7. StaleInv'
    BY <2>1, <2>2, <2>6 DEF StaleInv
  <2>8. Live(c[3])' /\ \A k \in Jobs : k # c[3] => (Live(k)' <=> Live(k))
    BY <2>4 DEF Live
  <2>9. AttemptsInv'
    BY <1>1, <1>2, <2>1, <2>2, <2>3, <2>8 DEF AttemptsInv, Failed
  <2>. QED
    BY <2>5, <2>7, <2>9
<1>3. CASE job[c[3]].status # "pending"
  <2>1. disp' = [disp EXCEPT ![c] = "none"] /\ UNCHANGED <<job, old, proc, stale, crashes, failures>>
    BY <1>3 DEF Claim, Goto
  <2>2. \A d \in Dispatches : /\ disp'[d] \in Holding <=> disp[d] \in Holding
                              /\ disp[d] \in Holding => disp'[d] = disp[d]
    BY <1>1, <2>1 DEF Holding
  <2>3. HoldersInv'
    BY <2>1, <2>2 DEF HoldersInv
  <2>4. StaleInv'
    BY <2>1 DEF StaleInv
  <2>5. AttemptsInv'
    BY <2>1, <2>2 DEF AttemptsInv, Live, Failed
  <2>. QED
    BY <2>3, <2>4, <2>5
<1>. QED
  BY <1>2, <1>3

\* An update of a thread, with whatever final status, and what it does next.
LEMMA UpdateStep ==
  ASSUME Core, NEW c \in Dispatches, NEW s \in Finished, NEW step \in {"none", "fail"},
         disp[c] \in Holding, Update(c[3], s), disp' = [disp EXCEPT ![c] = step],
         UNCHANGED <<proc, stale>>, Failed' \in Nat, Failed <= Failed'
  PROVE  HoldersInv' /\ StaleInv' /\ AttemptsInv'
<1>. USE DEF Core, TypeOK, JobRows
<1>1. c[3] \in Jobs /\ c[3] \notin old
  BY DispatchType DEF HoldersInv
<1>2. \A k \in Jobs : /\ job'[k].attempts = job[k].attempts
                      /\ job'[k].status = IF k = c[3] THEN s ELSE job[k].status
  BY <1>1 DEF Update
<1>3. s \notin {"none", "pending", "running"} /\ old' = old
  BY <1>1, ScanJobsAssumption DEF Update
<1>4. \A d \in Dispatches : disp[d] \in Holding /\ d # c => d[3] # c[3]
  BY DEF HoldersInv
<1>5. /\ disp'[c] = step
      /\ \A d \in Dispatches : d # c => disp'[d] = disp[d]
  OBVIOUS
<1>6. \A d \in Dispatches : disp'[d] \in Holding =>
        (d = c /\ disp'[d] = "fail") \/ (d # c /\ disp[d] \in Holding /\ disp'[d] = disp[d])
  BY <1>5 DEF Holding
<1>7. HoldersInv'
  <2>. SUFFICES ASSUME NEW d \in Dispatches, disp'[d] \in Holding
                PROVE  /\ job'[d[3]].status = "running" \/ (disp'[d] = "fail" /\ job'[d[3]].status \in Finished)
                       /\ d[3] \notin old'
                       /\ \A e \in Dispatches : e[3] = d[3] /\ disp'[e] \in Holding => e = d
    BY DEF HoldersInv
  <2>1. CASE d = c
    BY <2>1, <1>1, <1>2, <1>3, <1>4, <1>6
  <2>2. CASE d # c
    <3>1. disp[d] \in Holding /\ disp'[d] = disp[d] /\ d[3] # c[3] /\ d[3] \in Jobs
      BY <2>2, <1>4, <1>6, DispatchType
    <3>2. \A e \in Dispatches : e[3] = d[3] /\ disp'[e] \in Holding => e = d
      BY <3>1, <1>6 DEF HoldersInv
    <3>. QED
      BY <3>1, <3>2, <1>2, <1>3 DEF HoldersInv
  <2>. QED
    BY <2>1, <2>2
<1>8. StaleInv'
  BY <1>1, <1>2, <1>3 DEF StaleInv
<1>9. \A k \in Jobs : k # c[3] => (Live(k)' <=> Live(k))
  BY <1>5 DEF Live
<1>10. Failed \in Nat /\ \A k \in Jobs : job[k].attempts \in Nat
  BY DEF Failed
<1>11. AttemptsInv'
  BY <1>2, <1>3, <1>9, <1>10 DEF AttemptsInv
<1>. QED
  BY <1>7, <1>8, <1>11

LEMMA StoreErrorStep ==
  ASSUME Core, NEW c \in Dispatches, StoreError(c)
  PROVE  HoldersInv' /\ StaleInv' /\ AttemptsInv'
<1>. USE DEF Core, TypeOK, JobRows
<1>1. /\ Failed' = Failed + 1 /\ Failed \in Nat /\ \A k \in Jobs : job[k].attempts \in Nat
      /\ UNCHANGED <<proc, stale>>
  BY DEF Failed, StoreError
<1>2. CASE UNCHANGED <<job, old>>
  <2>1. /\ \A d \in Dispatches : d # c => disp'[d] = disp[d]
        /\ disp'[c] \in Holding => disp'[c] = "fail" /\ disp[c] = "run"
    BY DEF StoreError, Goto, Holding
  <2>2. \A d \in Dispatches : disp'[d] \in Holding =>
          disp[d] \in Holding /\ (disp[d] = "fail" => disp'[d] = "fail")
    BY <2>1 DEF Holding
  <2>6. HoldersInv /\ \A d \in Dispatches : d[3] \in Jobs
    BY DispatchType
  <2>3. HoldersInv'
    BY <1>2, <2>2, <2>6 DEF HoldersInv
  <2>4. StaleInv'
    BY <1>1, <1>2 DEF StaleInv
  <2>5. AttemptsInv'
    BY <1>1, <1>2 DEF AttemptsInv
  <2>. QED
    BY <2>3, <2>4, <2>5
<1>3. ASSUME NEW s \in Finished, NEW step \in {"fail", "none"}, disp[c] \in Holding,
             Update(c[3], s), Goto(c, step)
      PROVE  HoldersInv' /\ StaleInv' /\ AttemptsInv'
  <2>1. disp' = [disp EXCEPT ![c] = step]
    BY <1>3 DEF Goto
  <2>2. Failed' \in Nat /\ Failed <= Failed'
    BY <1>1
  <2>. QED
    BY <1>1, <1>3, <2>1, <2>2, UpdateStep
<1>. QED
  BY <1>2, <1>3, ScanJobsAssumption DEF StoreError, Holding

LEMMA AgeStep ==
  ASSUME Core, ~MayOverrun, NEW j \in Jobs, Age(j)
  PROVE  HoldersInv' /\ StaleInv' /\ AttemptsInv'
<1>. USE DEF Core, TypeOK, Age, Unfailing
<1>1. HoldersInv'
  BY DEF HoldersInv, Live
<1>2. StaleInv'
  BY DEF StaleInv
<1>3. AttemptsInv'
  BY DEF AttemptsInv, Live, Failed
<1>. QED
  BY <1>1, <1>2, <1>3

LEMMA ReadStaleStep ==
  ASSUME Core, ~StartsOverlap, NEW p \in Procs, ReadStale(p)
  PROVE  HoldersInv' /\ StaleInv' /\ AttemptsInv'
<1>. USE DEF Core, TypeOK, ReadStale
<1>1. HoldersInv'
  BY DEF HoldersInv
<1>2. StaleInv'
  BY DEF StaleInv
<1>3. AttemptsInv'
  BY DEF AttemptsInv, Live, Failed
<1>. QED
  BY <1>1, <1>2, <1>3

LEMMA RequeueStep ==
  ASSUME Core, NEW p \in Procs, Requeue(p)
  PROVE  HoldersInv' /\ StaleInv' /\ AttemptsInv'
<1>. USE DEF Core, TypeOK, JobRows
<1>. DEFINE rows == {j \in stale[p] : job[j].status = "running"}
<1>1. /\ rows \subseteq old /\ \A j \in rows : ~Live(j)
  BY DEF StaleInv, HoldersInv, Live
<1>2. /\ old' = old \ rows /\ stale' = [stale EXCEPT ![p] = {}]
      /\ proc[p] = "recovering" /\ proc' = [proc EXCEPT ![p] = "starting"]
      /\ UNCHANGED <<disp, crashes, failures>>
  BY DEF Requeue
<1>3. \A j \in Jobs : /\ job'[j].attempts = job[j].attempts
                      /\ job'[j].status = IF j \in rows THEN "pending" ELSE job[j].status
  BY DEF Requeue
<1>. HIDE DEF rows
<1>4. HoldersInv'
  BY <1>1, <1>2, <1>3, DispatchType DEF HoldersInv, Live
<1>5. StaleInv'
  <2>1. \A q \in Procs : q # p => stale[q] = {}
    BY <1>2 DEF StaleInv
  <2>2. \A q \in Procs : stale'[q] = {}
    BY <1>2, <2>1
  <2>3. \A j \in old' : job'[j].status = "running"
    BY <1>2, <1>3 DEF StaleInv
  <2>4. \A q, r \in Procs : proc'[q] = "recovering" /\ proc'[r] = "recovering" => q = r
    BY <1>2 DEF StaleInv
  <2>. QED
    BY <2>2, <2>3, <2>4 DEF StaleInv
<1>6. \A j \in Jobs : Live(j)' <=> Live(j)
  BY <1>2 DEF Live
<1>7. AttemptsInv'
  <2>1. \A j \in rows : job[j].attempts <= Failed
    <3>. TAKE j \in rows
    <3>1. j \in Jobs /\ job[j].status = "running" /\ ~Live(j)
      BY <1>1 DEF StaleInv
    <3>. QED
      BY <3>1 DEF AttemptsInv
  <2>. QED
    BY <1>2, <1>3, <1>6, <2>1 DEF AttemptsInv, Failed
<1>. QED
  BY <1>4, <1>5, <1>7

LEMMA ResumeStep ==
  ASSUME Core, NEW p \in Procs, Resume(p)
  PROVE  HoldersInv' /\ StaleInv' /\ AttemptsInv'
<1>. USE DEF Core, TypeOK, JobRows
<1>1. /\ UNCHANGED <<job, old, stale, crashes, failures>>
      /\ proc[p] = "starting" /\ proc' = [proc EXCEPT ![p] = "up"]
      /\ \A d \in Dispatches : disp'[d] \in Holding => disp'[d] = disp[d]
  BY DEF Resume, Dispatched, Holding
<1>2. \A d \in Dispatches : disp[d] \in Holding => disp'[d] \in Holding
  BY DispatchType, ScanJobsAssumption DEF Resume, Dispatched, HoldersInv
<1>3. HoldersInv'
  BY <1>1 DEF HoldersInv
<1>4. StaleInv'
  BY <1>1 DEF StaleInv
<1>5. AttemptsInv'
  BY <1>1, <1>2 DEF AttemptsInv, Live, Failed
<1>. QED
  BY <1>3, <1>4, <1>5

LEMMA CrashStep ==
  ASSUME Core, NEW p \in Procs, Crash(p)
  PROVE  HoldersInv' /\ StaleInv' /\ AttemptsInv'
<1>. USE DEF Core, TypeOK, JobRows, Crash, MayFail
<1>1. \A d \in Dispatches : disp'[d] \in Holding => disp'[d] = disp[d]
  BY DEF Holding
<1>2. HoldersInv'
  BY <1>1 DEF HoldersInv
<1>3. StaleInv'
  BY DEF StaleInv
<1>4. Failed' = Failed + 1 /\ Failed \in Nat /\ \A k \in Jobs : job[k].attempts \in Nat
  BY DEF Failed
<1>5. AttemptsInv'
  BY <1>4 DEF AttemptsInv
<1>. QED
  BY <1>2, <1>3, <1>5

LEMMA CoreStep ==
  ASSUME Core, Careful, [Next]_vars
  PROVE  HoldersInv' /\ StaleInv' /\ AttemptsInv'
<1>1. ASSUME NEW d \in Dispatches, Run(d)  PROVE HoldersInv' /\ StaleInv' /\ AttemptsInv'
  <2>1. CASE Fire(d)
    BY <2>1, FireStep
  <2>2. CASE Claim(d)
    BY <2>2, ClaimStep
  <2>5. ASSUME NEW s \in Finished, disp[d] \in Holding, Update(d[3], s), Goto(d, "none"), Unfailing
        PROVE  HoldersInv' /\ StaleInv' /\ AttemptsInv'
    <3>1. Failed' \in Nat /\ Failed <= Failed' /\ UNCHANGED <<proc, stale>>
      BY <2>5 DEF Core, TypeOK, Failed, Unfailing
    <3>2. disp' = [disp EXCEPT ![d] = "none"] /\ "none" \in {"none", "fail"}
      BY <2>5 DEF Goto
    <3>. QED
      BY <2>5, <3>1, <3>2, UpdateStep
  <2>3. CASE Save(d)
    BY <2>3, <2>5 DEF Save, Holding
  <2>4. CASE Fail(d)
    BY <2>4, <2>5, ScanJobsAssumption DEF Fail, Holding
  <2>. QED
    BY <1>1, <2>1, <2>2, <2>3, <2>4 DEF Run
<1>2. ASSUME NEW p \in Procs, Start(p)  PROVE HoldersInv' /\ StaleInv' /\ AttemptsInv'
  BY <1>2, ReadStaleStep, RequeueStep, ResumeStep DEF Start, Careful
<1>3. CASE UNCHANGED vars
  BY <1>3 DEF vars, Core, HoldersInv, StaleInv, AttemptsInv, Live, Failed
<1>. QED
  BY <1>1, <1>2, <1>3, SubmitStep, StoreErrorStep, AgeStep, CrashStep DEF Next, Careful

LEMMA InvInductive ==
  /\ Init => IInv
  /\ IInv /\ [Next]_vars => IInv'
<1>1. Init => IInv
  <2>. SUFFICES ASSUME Init  PROVE IInv
    OBVIOUS
  <2>1. TypeOK
    BY ScanJobsAssumption DEF Init, TypeOK, JobRows, Pcs
  <2>2. HoldersInv
    BY DEF Init, HoldersInv, Holding
  <2>3. StaleInv
    BY DEF Init, StaleInv
  <2>4. AttemptsInv
    BY DEF Init, AttemptsInv, Failed
  <2>. QED
    BY <2>1, <2>2, <2>3, <2>4 DEF IInv
<1>2. IInv /\ [Next]_vars => IInv'
  BY TypeStep, CoreStep DEF IInv, Core, Careful
<1>. QED
  BY <1>1, <1>2

LEMMA Invariance == Spec => []IInv
BY InvInductive, PTL DEF Spec

\* However many processes dispatch a job however often, at most one thread works
\* on it, and its row says 'running' until an outcome is stored.
THEOREM RunnersAreAlone == Spec => []OneRunner
<1>1. IInv => OneRunner
  BY DEF IInv, Careful, HoldersInv, OneRunner
<1>. QED
  BY <1>1, Invariance, PTL

\* A job is run once, and once more for each crash or failed store call at most.
THEOREM RunsAreCounted == Spec => []RepeatsAreRecoveries
<1>1. IInv => RepeatsAreRecoveries
  <2>. SUFFICES ASSUME IInv, Careful, NEW j \in Jobs
                PROVE  job[j].attempts <= 1 + crashes + failures
    BY DEF Careful, RepeatsAreRecoveries
  <2>. QED
    BY DEF IInv, AttemptsInv, Failed, TypeOK, JobRows
<1>. QED
  BY <1>1, Invariance, PTL

\* Recovery takes rows back to 'pending' that are old, and only recovery does so.
THEOREM ResetsAreConservative == Spec => ResetIsConservative
<1>. DEFINE Reset(j) == job[j].status = "running" /\ job'[j].status = "pending"
<1>1. ASSUME IInv, Careful, [Next]_vars, NEW j \in Jobs, Reset(j)
      PROVE  j \in old
  <2>. TypeOK /\ StaleInv
    BY <1>1 DEF IInv
  <2>1. ASSUME NEW p \in Procs, NEW k \in Jobs, NewRow(p, k)  PROVE FALSE
    BY <1>1, <2>1 DEF NewRow, Created, TypeOK, JobRows
  <2>2. ASSUME NEW d \in Dispatches, Claim(d)  PROVE FALSE
    BY <1>1, <2>2, DispatchType DEF Claim, TypeOK, JobRows
  <2>3. ASSUME NEW d \in Dispatches, NEW t \in Finished, Update(d[3], t)  PROVE FALSE
    <3>1. Update(d[3], t)
      BY <2>3
    <3>2. t # "pending"
      BY ScanJobsAssumption
    <3>. QED
      BY <1>1, <3>1, <3>2, DispatchType DEF Update, TypeOK, JobRows
  <2>4. ASSUME NEW p \in Procs, Requeue(p)  PROVE j \in old
    BY <1>1, <2>4 DEF Requeue, StaleInv
  <2>5. CASE UNCHANGED job
    BY <1>1, <2>5
  <2>. QED
    <3>1. ASSUME NEW d \in Dispatches, Run(d) \/ StoreError(d)  PROVE FALSE \/ UNCHANGED job
      BY <3>1, <2>2, <2>3, ScanJobsAssumption DEF Run, Fire, Save, Fail, StoreError
    <3>. QED
      BY <1>1, <2>1, <2>4, <2>5, <3>1
         DEF Next, Start, Submit, SubmitError, Age, ReadStale, Resume, Crash, vars
<1>2. IInv /\ [Next]_vars =>
        [MayOverrun \/ StartsOverlap \/ \A j \in Jobs : Reset(j) => j \in old]_vars
  BY <1>1 DEF Careful
<1>. QED
  BY <1>2, Invariance, PTL DEF Spec, ResetIsConservative

-----------------------------------------------------------------------------
(* The table implements JobLife *)

StatusOf == [j \in Jobs |-> job[j].status]
LifeStep == [Life!JobNext]_StatusOf

\* One row moves by an action of JobLife.
LEMMA RowMoves ==
  ASSUME TypeOK, NEW j \in Jobs, NEW row, job' = [job EXCEPT ![j] = row],
         \/ job[j].status = "none" /\ row.status = "pending"
         \/ job[j].status = "pending" /\ row.status = "running"
         \/ job[j].status = "running" /\ row.status \in Finished
         \/ job[j].status \in Finished /\ row.status = "failed"
  PROVE  LifeStep
<1>1. StatusOf' = [StatusOf EXCEPT ![j] = row.status] /\ StatusOf[j] = job[j].status
  BY DEF StatusOf, TypeOK
<1>. QED
  BY <1>1 DEF LifeStep, StatusOf, Life!JobNext, Life!SubmitJob, Life!StartJob, Life!FinishJob, Life!FailLate, Life!Move

LEMMA RowsStay ==
  ASSUME UNCHANGED job
  PROVE  LifeStep
BY DEF LifeStep, StatusOf

LEMMA UpdateMoves ==
  ASSUME Core, NEW d \in Dispatches, disp[d] \in Holding, NEW s \in Finished, Update(d[3], s),
         disp[d] = "run" \/ s = "failed"
  PROVE  LifeStep
<1>1. /\ d[3] \in Jobs
      /\ job[d[3]].status = "running" \/ (job[d[3]].status \in Finished /\ s = "failed")
  BY DispatchType DEF Core, HoldersInv
<1>2. job' = [job EXCEPT ![d[3]] = [job[d[3]] EXCEPT !.status = s]]
  BY DEF Update
<1>3. [job[d[3]] EXCEPT !.status = s].status = s
  BY <1>1 DEF Core, TypeOK, JobRows
<1>. QED
  BY <1>1, <1>2, <1>3, RowMoves DEF Core

LEMMA RequeueMoves ==
  ASSUME Core, NEW p \in Procs, Requeue(p)
  PROVE  LifeStep
<1>. DEFINE rows == {j \in stale[p] : job[j].status = "running"}
<1>1. rows \in SUBSET Jobs /\ \A j \in rows : StatusOf[j] = "running"
  BY DEF Core, TypeOK, StatusOf
<1>2. StatusOf' = [j \in Jobs |-> IF j \in rows THEN "pending" ELSE StatusOf[j]]
  BY DEF Core, TypeOK, JobRows, Requeue, StatusOf
<1>. HIDE DEF rows
<1>. QED
  BY <1>1, <1>2 DEF LifeStep, StatusOf, Life!JobNext, Life!RequeueJobs

LEMMA LifeSteps ==
  ASSUME Core, [Next]_vars
  PROVE  LifeStep
<1>1. ASSUME NEW p \in Procs, NEW j \in Jobs, NewRow(p, j)  PROVE LifeStep
  <2>1. job' = [job EXCEPT ![j] = [job[j] EXCEPT !.status = "pending"]]
    BY <1>1 DEF NewRow
  <2>2. [job[j] EXCEPT !.status = "pending"].status = "pending"
    BY DEF Core, TypeOK, JobRows
  <2>. QED
    BY <1>1, <2>1, <2>2, RowMoves DEF NewRow, Created, Core
<1>2. ASSUME NEW d \in Dispatches, Claim(d)  PROVE LifeStep
  <2>1. CASE job[d[3]].status = "pending"
    <3>. DEFINE row == [job[d[3]] EXCEPT !.status = "running", !.attempts = @ + 1]
    <3>1. job' = [job EXCEPT ![d[3]] = row] /\ row.status = "running"
      BY <1>2, <2>1, DispatchType DEF Claim, Core, TypeOK, JobRows
    <3>. QED
      BY <2>1, <3>1, DispatchType, RowMoves DEF Core
  <2>2. CASE job[d[3]].status # "pending"
    BY <1>2, <2>2, RowsStay DEF Claim
  <2>. QED
    BY <2>1, <2>2
<1>3. ASSUME NEW d \in Dispatches, Fire(d)  PROVE LifeStep
  BY <1>3, RowsStay DEF Fire
<1>4. ASSUME NEW d \in Dispatches, Save(d) \/ Fail(d)  PROVE LifeStep
  BY <1>4, UpdateMoves, ScanJobsAssumption DEF Save, Fail, Holding
<1>8. ASSUME NEW d \in Dispatches, StoreError(d)  PROVE LifeStep
  <2>1. CASE UNCHANGED <<job, old>>
    BY <2>1, RowsStay
  <2>2. CASE disp[d] \in Holding /\ Update(d[3], "failed")
    BY <2>2, UpdateMoves, ScanJobsAssumption
  <2>3. CASE disp[d] = "run" /\ \E s \in Finished : Update(d[3], s)
    BY <2>3, UpdateMoves DEF Holding
  <2>. QED
    BY <1>8, <2>1, <2>2, <2>3 DEF StoreError
<1>5. ASSUME NEW j \in Jobs, Age(j)  PROVE LifeStep
  BY <1>5, RowsStay DEF Age
<1>6. ASSUME NEW p \in Procs, ReadStale(p) \/ Resume(p) \/ Crash(p)  PROVE LifeStep
  BY <1>6, RowsStay DEF ReadStale, Resume, Crash
<1>7. CASE UNCHANGED vars
  BY <1>7, RowsStay DEF vars
<1>. QED
  BY <1>1, <1>2, <1>3, <1>4, <1>5, <1>6, <1>7, <1>8, RequeueMoves
  DEF Next, Run, Start, Submit, SubmitError

\* As long as the code is careful, what the processes do to the table is the life
\* of jobs that batches rely on: a final status is reached from 'running' only, and
\* nothing but "failed" may replace it, also when store calls raise after their commit.
THEOREM JobLifeImplemented ==
  ASSUME Careful
  PROVE  Spec => ImplementsJobLife
<1>1. Init => Life!JobInit
  BY DEF Init, Life!JobInit
<1>2. IInv /\ [Next]_vars => [Life!JobNext]_StatusOf
  BY LifeSteps DEF IInv, Core, LifeStep
<1>. QED
  BY <1>1, <1>2, Invariance, PTL DEF Spec, ImplementsJobLife, Life!JobSpec, StatusOf

-----------------------------------------------------------------------------
(* Sums over finite sets *)

Pick(s) == CHOOSE x \in s : TRUE

\* f is the running sum of the weights w on the sets of D.
Sums(f, w, D) == f = [s \in D |-> IF s = {} THEN 0 ELSE w[Pick(s)] + f[s \ {Pick(s)}]]

Running(f, w, S) == Sums(f, w, SUBSET S)

SumOver(w, S) == (CHOOSE f : Running(f, w, S))[S]

LEMMA Least ==
  ASSUME NEW T \in SUBSET Nat, T # {}
  PROVE  \E k \in T : \A l \in T : k <= l
<1>1. PICK k \in T : \A l \in T : <<l, k>> \notin OpToRel(<, Nat)
  BY WFMin, NatLessThanWellFounded, Zenon
<1>2. \A l \in T : ~(l < k)
  BY <1>1 DEF OpToRel
<1>. QED
  BY <1>2

LEMMA Smaller ==
  ASSUME NEW s, IsFiniteSet(s), NEW x \in s
  PROVE  /\ IsFiniteSet(s \ {x})
         /\ Cardinality(s) \in Nat \ {0} /\ Cardinality(s \ {x}) = Cardinality(s) - 1
<1>1. Cardinality(s) \in Nat /\ Cardinality(s) # 0
  BY FS_CardinalityType, FS_EmptySet
<1>. QED
  BY <1>1, FS_RemoveElement

LEMMA AnyIn == \A s : s # {} => Pick(s) \in s
BY DEF Pick

\* What a set takes over from all of its subsets that have one element less, all have.
LEMMA EverySubset ==
  ASSUME NEW S, IsFiniteSet(S), NEW G \in SUBSET SUBSET S, {} \in G,
         \A s \in SUBSET S : s # {} /\ (\A x \in s : s \ {x} \in G) => s \in G
  PROVE  S \in G
<1>. DEFINE Bad == {k \in Nat : \E s \in SUBSET S : Cardinality(s) = k /\ s \notin G}
<1>1. \A s \in SUBSET S : IsFiniteSet(s) /\ Cardinality(s) \in Nat
  BY FS_Subset, FS_CardinalityType
<1>2. ASSUME S \notin G PROVE FALSE
  <2>1. Bad # {}
    BY <1>1, <1>2
  <2>2. PICK k \in Bad : \A l \in Bad : k <= l
    BY <2>1, Least
  <2>3. PICK s \in SUBSET S : Cardinality(s) = k /\ s \notin G
    BY <2>2
  <2>4. PICK x \in s : s \ {x} \notin G
    BY <2>3
  <2>5. Cardinality(s \ {x}) = k - 1 /\ k - 1 \in Nat
    BY <1>1, <2>3, <2>4, Smaller
  <2>6. k - 1 \in Bad
    BY <2>4, <2>5
  <2>. QED
    BY <2>2, <2>5, <2>6
<1>. QED
  BY <1>2

UpTo(S, k) == {s \in SUBSET S : Cardinality(s) <= k}

LEMMA SumsExist ==
  ASSUME NEW S, IsFiniteSet(S), NEW w
  PROVE  \E f : Sums(f, w, SUBSET S)
<1>. DEFINE Good(k) == \E f : Sums(f, w, UpTo(S, k))
            Bad == {k \in Nat : ~Good(k)}
<1>1. \A s \in SUBSET S : IsFiniteSet(s) /\ Cardinality(s) \in Nat /\ Cardinality(s) <= Cardinality(S)
  BY FS_Subset, FS_CardinalityType
<1>2. Bad = {}
  <2>1. SUFFICES ASSUME Bad # {} PROVE FALSE
    OBVIOUS
  <2>2. PICK k \in Bad : \A l \in Bad : k <= l
    BY <2>1, Least
  <2>3. CASE k = 0
    <3>1. \A s \in UpTo(S, 0) : s = {}
      BY <1>1, FS_EmptySet DEF UpTo
    <3>2. Sums([s \in UpTo(S, 0) |-> 0], w, UpTo(S, 0))
      BY <3>1 DEF Sums
    <3>. QED
      BY <2>3, <3>2
  <2>4. CASE k # 0
    <3>1. k - 1 \in Nat /\ Good(k - 1)
      BY <2>2, <2>4
    <3>2. PICK f : Sums(f, w, UpTo(S, k - 1))
      BY <3>1
    <3>3. PICK g : g = [s \in UpTo(S, k) |-> IF s = {} THEN 0 ELSE w[Pick(s)] + f[s \ {Pick(s)}]]
      OBVIOUS
    <3>4. UpTo(S, k - 1) \subseteq UpTo(S, k)
      BY <1>1, <3>1 DEF UpTo
    <3>5. \A u \in UpTo(S, k - 1) : g[u] = f[u]
      BY <3>2, <3>3, <3>4 DEF Sums
    <3>6. ASSUME NEW s \in UpTo(S, k), s # {}
          PROVE  s \ {Pick(s)} \in UpTo(S, k - 1)
      <4>1. Pick(s) \in s /\ Cardinality(s \ {Pick(s)}) = Cardinality(s) - 1
        BY <1>1, <3>6, Smaller, AnyIn DEF UpTo
      <4>. QED
        BY <1>1, <3>1, <4>1 DEF UpTo
    <3>7. \A s \in UpTo(S, k) : s # {} => f[s \ {Pick(s)}] = g[s \ {Pick(s)}]
      BY <3>5, <3>6
    <3>8. g = [s \in UpTo(S, k) |-> IF s = {} THEN 0 ELSE w[Pick(s)] + g[s \ {Pick(s)}]]
      BY <3>3, <3>7
    <3>9. Sums(g, w, UpTo(S, k))
      BY <3>8 DEF Sums
    <3>. QED
      BY <2>2, <3>9
  <2>. QED
    BY <2>3, <2>4
<1>3. Cardinality(S) \in Nat /\ UpTo(S, Cardinality(S)) = SUBSET S
  BY <1>1, FS_CardinalityType DEF UpTo
<1>4. Good(Cardinality(S))
  BY <1>2, <1>3
<1>5. PICK f : Sums(f, w, UpTo(S, Cardinality(S)))
  BY <1>4
<1>. QED
  BY <1>3, <1>5

Follows(f, w, S) == \A s \in SUBSET S : s # {} => f[s] = w[Pick(s)] + f[s \ {Pick(s)}]

LEMMA SumsRule ==
  ASSUME NEW S, NEW w, NEW f, Running(f, w, S)
  PROVE  f[{}] = 0 /\ Follows(f, w, S)
<1>1. f = [s \in SUBSET S |-> IF s = {} THEN 0 ELSE w[Pick(s)] + f[s \ {Pick(s)}]]
  BY DEF Sums, Running
<1>. QED
  BY <1>1 DEF Follows

\* Running sums agree where their weights do.
Same(v, w, s) == \A x \in s : v[x] = w[x]

LEMMA SumsAgree ==
  ASSUME NEW S, NEW T, NEW v, NEW w, NEW f, Running(f, v, S), NEW g, Running(g, w, T)
  PROVE  \A s : s \subseteq S /\ s \subseteq T /\ IsFiniteSet(s) /\ Same(v, w, s) => f[s] = g[s]
<1>. SUFFICES ASSUME NEW s, s \subseteq S, s \subseteq T, IsFiniteSet(s), \A x \in s : v[x] = w[x]
              PROVE  f[s] = g[s]
  BY DEF Same
<1>. DEFINE G == {t \in SUBSET s : f[t] = g[t]}
<1>1. {} \in G
  BY SumsRule
<1>4. Follows(f, v, S) /\ Follows(g, w, T)
  BY SumsRule
<1>2. ASSUME NEW t \in SUBSET s, t # {}, \A x \in t : t \ {x} \in G PROVE t \in G
  <2>1. Pick(t) \in t /\ v[Pick(t)] = w[Pick(t)]
    BY <1>2, AnyIn
  <2>0. t # {} /\ t \in SUBSET S /\ t \in SUBSET T
    BY <1>2
  <2>2. f[t] = v[Pick(t)] + f[t \ {Pick(t)}]
    BY <1>4, <2>0 DEF Follows
  <2>4. g[t] = w[Pick(t)] + g[t \ {Pick(t)}]
    BY <1>4, <2>0 DEF Follows
  <2>3. f[t \ {Pick(t)}] = g[t \ {Pick(t)}]
    BY <1>2, <2>1
  <2>. QED
    BY <2>1, <2>2, <2>3, <2>4
<1>3. s \in G
  <2>1. G \in SUBSET SUBSET s
    OBVIOUS
  <2>. HIDE DEF G
  <2>. QED
    BY <1>1, <1>2, <2>1, EverySubset
<1>. QED
  BY <1>3

LEMMA SumOf ==
  ASSUME NEW S, IsFiniteSet(S), NEW w, NEW f, Running(f, w, S)
  PROVE  f[S] = SumOver(w, S)
<1>. DEFINE g == CHOOSE h : Running(h, w, S)
<1>1. Running(g, w, S)
  BY SumsExist DEF Running
<1>2. SumOver(w, S) = g[S]
  BY DEF SumOver
<1>. HIDE DEF g
<1>4. f[S] = g[S]
  <2>. QED
    BY <1>1, SumsAgree DEF Same
<1>. QED
  BY <1>2, <1>4

LEMMA SumSame ==
  ASSUME NEW S, IsFiniteSet(S), NEW v, NEW w, \A x \in S : v[x] = w[x]
  PROVE  SumOver(v, S) = SumOver(w, S)
<1>1. PICK f : Running(f, v, S)
  BY SumsExist DEF Running
<1>2. PICK g : Running(g, w, S)
  BY SumsExist DEF Running
<1>3. f[S] = g[S]
  <2>1. Same(v, w, S)
    BY DEF Same
  <2>. QED
    BY <1>1, <1>2, <2>1, SumsAgree
<1>. QED
  BY <1>1, <1>2, <1>3, SumOf

LEMMA SumRule ==
  ASSUME NEW S, IsFiniteSet(S), NEW w
  PROVE  /\ S = {} => SumOver(w, S) = 0
         /\ S # {} => SumOver(w, S) = w[Pick(S)] + SumOver(w, S \ {Pick(S)})
<1>1. PICK f : Running(f, w, S)
  BY SumsExist DEF Running
<1>2. f[S] = SumOver(w, S)
  BY <1>1, SumOf
<1>3. CASE S = {}
  BY <1>1, <1>2, <1>3, SumsRule
<1>4. CASE S # {}
  <2>. DEFINE T == S \ {Pick(S)}
  <2>1. IsFiniteSet(T) /\ T \subseteq S
    BY FS_Subset
  <2>2. PICK g : Running(g, w, T)
    BY <2>1, SumsExist DEF Running
  <2>3. f[T] = g[T]
    <3>. HIDE DEF T
    <3>. QED
      BY <1>1, <2>1, <2>2, SumsAgree DEF Same
  <2>4. g[T] = SumOver(w, T)
    BY <2>1, <2>2, SumOf
  <2>5. f[S] = w[Pick(S)] + f[T]
    BY <1>1, <1>4, SumsRule DEF Follows
  <2>. QED
    BY <1>2, <1>4, <2>3, <2>4, <2>5
<1>. QED
  BY <1>3, <1>4

LEMMA SumType ==
  ASSUME NEW S, IsFiniteSet(S), NEW w, \A x \in S : w[x] \in Int
  PROVE  SumOver(w, S) \in Int /\ ((\A x \in S : w[x] >= 0) => SumOver(w, S) >= 0)
<1>. DEFINE G == {s \in SUBSET S : SumOver(w, s) \in Int /\ ((\A x \in s : w[x] >= 0) => SumOver(w, s) >= 0)}
<1>1. {} \in G
  BY SumRule, FS_EmptySet
<1>2. ASSUME NEW s \in SUBSET S, s # {}, \A x \in s : s \ {x} \in G PROVE s \in G
  <2>1. IsFiniteSet(s) /\ Pick(s) \in s
    BY <1>2, FS_Subset, AnyIn
  <2>. DEFINE t == s \ {Pick(s)}
  <2>2. SumOver(w, s) = w[Pick(s)] + SumOver(w, t) /\ w[Pick(s)] \in Int
    BY <1>2, <2>1, SumRule
  <2>3. SumOver(w, t) \in Int /\ ((\A x \in t : w[x] >= 0) => SumOver(w, t) >= 0)
    BY <1>2, <2>1
  <2>4. (\A x \in s : w[x] >= 0) => w[Pick(s)] >= 0 /\ (\A x \in t : w[x] >= 0)
    BY <2>1
  <2>. HIDE DEF t
  <2>. QED
    BY <2>2, <2>3, <2>4
<1>3. S \in G
  <2>1. G \in SUBSET SUBSET S
    OBVIOUS
  <2>. HIDE DEF G
  <2>. QED
    BY <1>1, <1>2, <2>1, EverySubset
<1>. QED
  BY <1>3

\* In whatever order the summands are taken.
LEMMA SumTake ==
  ASSUME NEW S, IsFiniteSet(S), NEW w, \A x \in S : w[x] \in Int, NEW x \in S
  PROVE  SumOver(w, S) = w[x] + SumOver(w, S \ {x})
<1>. DEFINE G == {s \in SUBSET S : \A y \in s : SumOver(w, s) = w[y] + SumOver(w, s \ {y})}
<1>1. {} \in G
  OBVIOUS
<1>2. ASSUME NEW s \in SUBSET S, s # {}, \A y \in s : s \ {y} \in G PROVE s \in G
  <2>1. IsFiniteSet(s) /\ Pick(s) \in s
    BY <1>2, FS_Subset, AnyIn
  <2>2. PICK c : c = Pick(s)
    OBVIOUS
  <2>3. SumOver(w, s) = w[c] + SumOver(w, s \ {c})
    BY <1>2, <2>1, <2>2, SumRule
  <2>4. ASSUME NEW y \in s, y # c PROVE SumOver(w, s) = w[y] + SumOver(w, s \ {y})
    <3>1. SumOver(w, s \ {c}) = w[y] + SumOver(w, (s \ {c}) \ {y})
      BY <1>2, <2>1, <2>2, <2>4
    <3>2. SumOver(w, s \ {y}) = w[c] + SumOver(w, (s \ {y}) \ {c})
      BY <1>2, <2>1, <2>2, <2>4
    <3>3. (s \ {c}) \ {y} = (s \ {y}) \ {c}
      OBVIOUS
    <3>4. w[y] \in Int /\ w[c] \in Int /\ SumOver(w, (s \ {y}) \ {c}) \in Int
      <4>1. IsFiniteSet((s \ {y}) \ {c}) /\ (s \ {y}) \ {c} \subseteq S
        BY <2>1, FS_Subset
      <4>. QED
        BY <2>1, <2>2, <2>4, <4>1, SumType
    <3>5. PICK u : u = SumOver(w, (s \ {y}) \ {c})
      OBVIOUS
    <3>6. SumOver(w, s) = w[c] + (w[y] + u) /\ SumOver(w, s \ {y}) = w[c] + u /\ u \in Int
      BY <2>3, <3>1, <3>2, <3>3, <3>4, <3>5
    <3>7. \A i, j, k \in Int : i + (j + k) = j + (i + k)
      OBVIOUS
    <3>. QED
      BY <3>4, <3>6, <3>7
  <2>. QED
    BY <2>2, <2>3, <2>4
<1>3. S \in G
  <2>1. G \in SUBSET SUBSET S
    OBVIOUS
  <2>. HIDE DEF G
  <2>. QED
    BY <1>1, <1>2, <2>1, EverySubset
<1>. QED
  BY <1>3

LEMMA SumAdd ==
  ASSUME NEW S, IsFiniteSet(S), NEW x, x \notin S, NEW w, \A y \in S \cup {x} : w[y] \in Int
  PROVE  SumOver(w, S \cup {x}) = w[x] + SumOver(w, S)
<1>1. IsFiniteSet(S \cup {x}) /\ (S \cup {x}) \ {x} = S
  BY FS_AddElement
<1>. QED
  BY <1>1, SumTake

-----------------------------------------------------------------------------
(* The sums of the modules *)

LEMMA TotalSum ==
  ASSUME NEW S, IsFiniteSet(S)
  PROVE  Total(S) = SumOver([t \in S |-> t.amount], S)
<1>. DEFINE w == [t \in S |-> t.amount]
            Runs(f) == f = [s \in SUBSET (S) |-> IF s = {} THEN 0 ELSE Pick(s).amount + f[s \ {Pick(s)}]]
            g == CHOOSE f : Runs(f)
<1>1. Total(S) = g[S]
  BY DEF Total, MapThenSumSet, MapThenFoldSet, Pick
<1>2. \A f : Runs(f) <=> Running(f, w, S)
  BY AnyIn DEF Running, Sums
<1>3. \E f : Runs(f)
  BY <1>2, SumsExist DEF Running
<1>4. Runs(g)
  BY <1>3, Zenon
<1>5. g[S] = SumOver(w, S)
  <2>. HIDE DEF Runs, g, w
  <2>. QED
    BY <1>2, <1>4, SumOf
<1>. QED
  BY <1>1, <1>5

LEMMA WeightedSum ==
  ASSUME NEW S, NEW value, IsFiniteSet(S)
  PROVE  Weighted(value, S) = SumOver([i \in S |-> Weight[i] * value[i]], S)
<1>. DEFINE w == [i \in S |-> Weight[i] * value[i]]
            Runs(f) == f = [s \in SUBSET (S) |->
                  IF s = {} THEN 0 ELSE Weight[Pick(s)] * value[Pick(s)] + f[s \ {Pick(s)}]]
            g == CHOOSE f : Runs(f)
<1>1. Weighted(value, S) = g[S]
  BY DEF Weighted, MapThenSumSet, MapThenFoldSet, Pick
<1>2. \A f : Runs(f) <=> Running(f, w, S)
  BY AnyIn DEF Running, Sums
<1>3. \E f : Runs(f)
  BY <1>2, SumsExist DEF Running
<1>4. Runs(g)
  BY <1>3, Zenon
<1>5. g[S] = SumOver(w, S)
  <2>. HIDE DEF Runs, g, w
  <2>. QED
    BY <1>2, <1>4, SumOf
<1>. QED
  BY <1>1, <1>5

LEMMA WholeSum ==
  ASSUME NEW S, IsFiniteSet(S)
  PROVE  Whole(S) = SumOver([i \in S |-> Weight[i]], S)
<1>. DEFINE w == [i \in S |-> Weight[i]]
            Runs(f) == f = [s \in SUBSET (S) |->
                  IF s = {} THEN 0 ELSE Weight[Pick(s)] + f[s \ {Pick(s)}]]
            g == CHOOSE f : Runs(f)
<1>1. Whole(S) = g[S]
  BY DEF Whole, MapThenSumSet, MapThenFoldSet, Pick
<1>2. \A f : Runs(f) <=> Running(f, w, S)
  BY AnyIn DEF Running, Sums
<1>3. \E f : Runs(f)
  BY <1>2, SumsExist DEF Running
<1>4. Runs(g)
  BY <1>3, Zenon
<1>5. g[S] = SumOver(w, S)
  <2>. HIDE DEF Runs, g, w
  <2>. QED
    BY <1>2, <1>4, SumOf
<1>. QED
  BY <1>1, <1>5

LEMMA SeveritySum ==
  ASSUME NEW S, IsFiniteSet(S)
  PROVE  MapThenSumSet(LAMBDA f : Severity[f.severity], S)
          = SumOver([f \in S |-> Severity[f.severity]], S)
<1>. DEFINE w == [f \in S |-> Severity[f.severity]]
            Runs(f) == f = [s \in SUBSET (S) |->
                  IF s = {} THEN 0 ELSE Severity[Pick(s).severity] + f[s \ {Pick(s)}]]
            g == CHOOSE f : Runs(f)
<1>1. MapThenSumSet(LAMBDA f : Severity[f.severity], S) = g[S]
  BY DEF MapThenSumSet, MapThenFoldSet, Pick
<1>2. \A f : Runs(f) <=> Running(f, w, S)
  BY AnyIn DEF Running, Sums
<1>3. \E f : Runs(f)
  BY <1>2, SumsExist DEF Running
<1>4. Runs(g)
  BY <1>3, Zenon
<1>5. g[S] = SumOver(w, S)
  <2>. HIDE DEF Runs, g, w
  <2>. QED
    BY <1>2, <1>4, SumOf
<1>. QED
  BY <1>1, <1>5

LEMMA RawSum ==
  ASSUME NEW S, IsFiniteSet(S)
  PROVE  MapThenSumSet(LAMBDA rule : rule.raw, S) = SumOver([rule \in S |-> rule.raw], S)
<1>. DEFINE w == [rule \in S |-> rule.raw]
            Runs(f) == f = [s \in SUBSET (S) |-> IF s = {} THEN 0 ELSE Pick(s).raw + f[s \ {Pick(s)}]]
            g == CHOOSE f : Runs(f)
<1>1. MapThenSumSet(LAMBDA rule : rule.raw, S) = g[S]
  BY DEF MapThenSumSet, MapThenFoldSet, Pick
<1>2. \A f : Runs(f) <=> Running(f, w, S)
  BY AnyIn DEF Running, Sums
<1>3. \E f : Runs(f)
  BY <1>2, SumsExist DEF Running
<1>4. Runs(g)
  BY <1>3, Zenon
<1>5. g[S] = SumOver(w, S)
  <2>. HIDE DEF Runs, g, w
  <2>. QED
    BY <1>2, <1>4, SumOf
<1>. QED
  BY <1>1, <1>5

LEMMA FamilySum ==
  ASSUME NEW f0, NEW S, IsFiniteSet(S)
  PROVE  MapThenSumSet(LAMBDA family : FamilyScore(family, f0), S)
          = SumOver([family \in S |-> FamilyScore(family, f0)], S)
<1>. DEFINE w == [family \in S |-> FamilyScore(family, f0)]
            Runs(f) == f = [s \in SUBSET (S) |->
                  IF s = {} THEN 0 ELSE FamilyScore(Pick(s), f0) + f[s \ {Pick(s)}]]
            g == CHOOSE f : Runs(f)
<1>1. MapThenSumSet(LAMBDA family : FamilyScore(family, f0), S) = g[S]
  BY DEF MapThenSumSet, MapThenFoldSet, Pick
<1>2. \A f : Runs(f) <=> Running(f, w, S)
  BY AnyIn DEF Running, Sums
<1>3. \E f : Runs(f)
  BY <1>2, SumsExist DEF Running
<1>4. Runs(g)
  BY <1>3, Zenon
<1>5. g[S] = SumOver(w, S)
  <2>. HIDE DEF Runs, g, w
  <2>. QED
    BY <1>2, <1>4, SumOf
<1>. QED
  BY <1>1, <1>5

LEMMA CoverSum ==
  ASSUME NEW f0, NEW S, IsFiniteSet(S)
  PROVE  MapThenSumSet(LAMBDA n : f0[n].cov, S) = SumOver([n \in S |-> f0[n].cov], S)
<1>. DEFINE w == [n \in S |-> f0[n].cov]
            Runs(f) == f = [s \in SUBSET (S) |->
                  IF s = {} THEN 0 ELSE f0[Pick(s)].cov + f[s \ {Pick(s)}]]
            g == CHOOSE f : Runs(f)
<1>1. MapThenSumSet(LAMBDA n : f0[n].cov, S) = g[S]
  BY DEF MapThenSumSet, MapThenFoldSet, Pick
<1>2. \A f : Runs(f) <=> Running(f, w, S)
  BY AnyIn DEF Running, Sums
<1>3. \E f : Runs(f)
  BY <1>2, SumsExist DEF Running
<1>4. Runs(g)
  BY <1>3, Zenon
<1>5. g[S] = SumOver(w, S)
  <2>. HIDE DEF Runs, g, w
  <2>. QED
    BY <1>2, <1>4, SumOf
<1>. QED
  BY <1>1, <1>5

LEMMA PoolSum ==
  ASSUME NEW pools, NEW S, IsFiniteSet(S)
  PROVE  MapThenSumSet(LAMBDA p : PoolCoverage(pools[p]), S)
          = SumOver([p \in S |-> PoolCoverage(pools[p])], S)
<1>. DEFINE w == [p \in S |-> PoolCoverage(pools[p])]
            Runs(f) == f = [s \in SUBSET (S) |->
                  IF s = {} THEN 0 ELSE PoolCoverage(pools[Pick(s)]) + f[s \ {Pick(s)}]]
            g == CHOOSE f : Runs(f)
<1>1. MapThenSumSet(LAMBDA p : PoolCoverage(pools[p]), S) = g[S]
  BY DEF MapThenSumSet, MapThenFoldSet, Pick
<1>2. \A f : Runs(f) <=> Running(f, w, S)
  BY AnyIn DEF Running, Sums
<1>3. \E f : Runs(f)
  BY <1>2, SumsExist DEF Running
<1>4. Runs(g)
  BY <1>3, Zenon
<1>5. g[S] = SumOver(w, S)
  <2>. HIDE DEF Runs, g, w
  <2>. QED
    BY <1>2, <1>4, SumOf
<1>. QED
  BY <1>1, <1>5

LEMMA BalanceSum ==
  ASSUME NEW b, NEW S, IsFiniteSet(S)
  PROVE  MapThenSumSet(LAMBDA a : b[a], S) = SumOver([a \in S |-> b[a]], S)
<1>. DEFINE w == [a \in S |-> b[a]]
            Runs(f) == f = [s \in SUBSET (S) |-> IF s = {} THEN 0 ELSE b[Pick(s)] + f[s \ {Pick(s)}]]
            g == CHOOSE f : Runs(f)
<1>1. MapThenSumSet(LAMBDA a : b[a], S) = g[S]
  BY DEF MapThenSumSet, MapThenFoldSet, Pick
<1>2. \A f : Runs(f) <=> Running(f, w, S)
  BY AnyIn DEF Running, Sums
<1>3. \E f : Runs(f)
  BY <1>2, SumsExist DEF Running
<1>4. Runs(g)
  BY <1>3, Zenon
<1>5. g[S] = SumOver(w, S)
  <2>. HIDE DEF Runs, g, w
  <2>. QED
    BY <1>2, <1>4, SumOf
<1>. QED
  BY <1>1, <1>5

LEMMA SumUnion ==
  ASSUME NEW S, IsFiniteSet(S), NEW T, IsFiniteSet(T), S \cap T = {},
         NEW w, \A x \in S \cup T : w[x] \in Int
  PROVE  SumOver(w, S \cup T) = SumOver(w, S) + SumOver(w, T)
<1>. DEFINE G == {t \in SUBSET T : SumOver(w, S \cup t) = SumOver(w, S) + SumOver(w, t)}
<1>1. {} \in G
  <2>1. S \cup {} = S /\ SumOver(w, {}) = 0 /\ SumOver(w, S) \in Int
    BY SumRule, SumType, FS_EmptySet
  <2>. QED
    BY <2>1
<1>2. ASSUME NEW t \in SUBSET T, t # {}, \A x \in t : t \ {x} \in G PROVE t \in G
  <2>1. PICK x \in t : x = Pick(t)
    BY <1>2, AnyIn
  <2>. DEFINE u == t \ {x}
  <2>2. IsFiniteSet(u) /\ IsFiniteSet(S \cup u)
    BY FS_Subset, FS_Union
  <2>3. S \cup t = (S \cup u) \cup {x} /\ t = u \cup {x} /\ x \notin S \cup u /\ S \cup u \subseteq S \cup T /\ x \in T
    OBVIOUS
  <2>4. SumOver(w, S \cup u) = SumOver(w, S) + SumOver(w, u)
    BY <1>2
  <2>. HIDE DEF u
  <2>5. w[x] \in Int /\ SumOver(w, S) \in Int /\ SumOver(w, u) \in Int
    BY <2>2, <2>3, SumType
  <2>6. SumOver(w, (S \cup u) \cup {x}) = w[x] + SumOver(w, S \cup u)
    BY <2>2, <2>3, SumAdd
  <2>7. SumOver(w, u \cup {x}) = w[x] + SumOver(w, u)
    BY <2>2, <2>3, SumAdd
  <2>8. \A i, j, k \in Int : i + (j + k) = j + (i + k)
    OBVIOUS
  <2>9. SumOver(w, S \cup t) = SumOver(w, S) + SumOver(w, t)
    <3>1. SumOver(w, S \cup t) = w[x] + (SumOver(w, S) + SumOver(w, u))
      BY <2>3, <2>4, <2>6
    <3>2. SumOver(w, t) = w[x] + SumOver(w, u)
      BY <2>3, <2>7
    <3>. QED
      BY <2>5, <2>8, <3>1, <3>2
  <2>. QED
    BY <2>9
<1>3. T \in G
  <2>1. G \in SUBSET SUBSET T
    OBVIOUS
  <2>. HIDE DEF G
  <2>. QED
    BY <1>1, <1>2, <2>1, EverySubset
<1>. QED
  BY <1>3

LEMMA SumAtMost ==
  ASSUME NEW S, IsFiniteSet(S), NEW k \in Int, NEW w, \A x \in S : w[x] \in Int /\ w[x] <= k
  PROVE  SumOver(w, S) <= k * Cardinality(S)
<1>. DEFINE G == {s \in SUBSET S : SumOver(w, s) <= k * Cardinality(s)}
<1>1. {} \in G
  BY SumRule, FS_EmptySet
<1>2. ASSUME NEW s \in SUBSET S, s # {}, \A x \in s : s \ {x} \in G PROVE s \in G
  <2>1. IsFiniteSet(s) /\ Pick(s) \in s
    BY <1>2, FS_Subset, AnyIn
  <2>. DEFINE t == s \ {Pick(s)}
  <2>2. SumOver(w, s) = w[Pick(s)] + SumOver(w, t) /\ w[Pick(s)] \in Int /\ w[Pick(s)] <= k
    BY <1>2, <2>1, SumRule
  <2>3. SumOver(w, t) <= k * Cardinality(t)
    BY <1>2, <2>1
  <2>4. Cardinality(s) \in Int /\ Cardinality(t) = Cardinality(s) - 1
    BY <2>1, Smaller
  <2>5. SumOver(w, t) \in Int
    BY <2>1, SumType, FS_Subset
  <2>6. \A n \in Int : k * (n - 1) = k * n - k /\ k * n \in Int
    OBVIOUS
  <2>. HIDE DEF t
  <2>7. SumOver(w, s) <= k * Cardinality(s)
    BY <2>2, <2>3, <2>4, <2>5, <2>6
  <2>. QED
    BY <2>7
<1>3. S \in G
  <2>1. G \in SUBSET SUBSET S
    OBVIOUS
  <2>. HIDE DEF G
  <2>. QED
    BY <1>1, <1>2, <2>1, EverySubset
<1>. QED
  BY <1>3

-----------------------------------------------------------------------------
(* Rounding, and the least of two numbers *)

LEMMA MinTwo ==
  ASSUME NEW i \in Int, NEW j \in Int
  PROVE  Min({i, j}) \in {i, j} /\ Min({i, j}) <= i /\ Min({i, j}) <= j
<1>1. \E x \in {i, j} : \A y \in {i, j} : x <= y
  <2>1. CASE i <= j
    BY <2>1
  <2>2. CASE j <= i
    BY <2>2
  <2>. QED
    BY <2>1, <2>2
<1>. QED
  BY <1>1 DEF Min

LEMMA RoundIsInt ==
  ASSUME NEW i \in Int, NEW n \in Nat \ {0}
  PROVE  /\ Round(i, n) \in Int
         /\ i >= 0 => Round(i, n) >= 0
         /\ \A k \in Int : i <= k * n => Round(i, n) <= k
<1>. DEFINE q == i \div n
            r == i % n
<1>1. q \in Int /\ r \in 0..n - 1 /\ i = n * q + r
  OBVIOUS
<1>2. Round(i, n) = q \/ (Round(i, n) = q + 1 /\ r > 0)
  BY <1>1 DEF Round
<1>. HIDE DEF q, r
<1>3. Round(i, n) \in Int
  BY <1>1, <1>2
<1>4. ASSUME i >= 0 PROVE q >= 0
  <2>1. \A m \in Int : m < 0 => n * m + n <= 0
    <3>1. \A m \in Int : m < 0 => n * (m + 1) <= 0
      OBVIOUS
    <3>2. \A m \in Int : n * (m + 1) = n * m + n
      OBVIOUS
    <3>. QED
      BY <3>1, <3>2
  <2>2. n * q \in Int
    BY <1>1
  <2>. QED
    BY <1>1, <1>4, <2>1, <2>2
<1>5. ASSUME NEW k \in Int, i <= k * n PROVE q <= k /\ (r > 0 => q < k)
  <2>1. \A m \in Int : m > k => n * m >= k * n + n
    <3>1. \A m \in Int : m > k => n * (m - (k + 1)) >= 0
      OBVIOUS
    <3>2. \A m \in Int : n * (m - (k + 1)) = n * m - k * n - n
      OBVIOUS
    <3>3. \A m \in Int : n * m \in Int /\ k * n \in Int
      OBVIOUS
    <3>. QED
      BY <3>1, <3>2, <3>3
  <2>2. n * q \in Int /\ k * n \in Int /\ n * k = k * n
    BY <1>1
  <2>3. q <= k
    BY <1>1, <1>5, <2>1, <2>2
  <2>4. ASSUME r > 0, q = k PROVE FALSE
    BY <1>1, <1>5, <2>2, <2>4
  <2>. QED
    BY <1>1, <2>3, <2>4
<1>. QED
  BY <1>1, <1>2, <1>3, <1>4, <1>5

-----------------------------------------------------------------------------
(* Finite sets *)

LEMMA ImageFinite ==
  ASSUME NEW f, IsFiniteSet(DOMAIN f)
  PROVE  IsFiniteSet({f[x] : x \in DOMAIN f})
<1>. DEFINE g == [x \in DOMAIN f |-> f[x]]
            T == {f[x] : x \in DOMAIN f}
<1>1. g \in Surjection(DOMAIN f, T)
  BY DEF Surjection
<1>. HIDE DEF g, T
<1>2. IsFiniteSet(T)
  BY <1>1, FS_Surjection
<1>. QED
  BY <1>2 DEF T

\* Ten elements at most, named once or more often.
LEMMA NamesFinite ==
  \A a, b, c, d, e, f, g, h, i, j : IsFiniteSet({a, b, c, d, e, f, g, h, i, j})
<1>. SUFFICES ASSUME NEW a, NEW b, NEW c, NEW d, NEW e, NEW f, NEW g, NEW h, NEW i, NEW j
              PROVE  IsFiniteSet({a, b, c, d, e, f, g, h, i, j})
  OBVIOUS
<1>. DEFINE s == <<a, b, c, d, e, f, g, h, i, j>>
<1>1. DOMAIN s = 1..10 /\ {s[x] : x \in DOMAIN s} = {a, b, c, d, e, f, g, h, i, j}
  OBVIOUS
<1>2. IsFiniteSet(1..10)
  <2>1. 1 \in Int /\ 10 \in Int
    OBVIOUS
  <2>. QED
    BY <2>1, FS_Interval, Zenon
<1>. HIDE DEF s
<1>. QED
  BY <1>1, <1>2, ImageFinite

\* Of finitely many things that can be compared one is the greatest.
Above(R, s, t) == <<s, t>> \in R

LEMMA GreatestExists ==
  ASSUME NEW S, IsFiniteSet(S), S # {}, NEW R,
         \A s, t \in S : Above(R, s, t) \/ Above(R, t, s),
         \A s, t, u \in S : Above(R, s, t) /\ Above(R, t, u) => Above(R, s, u)
  PROVE  \E s \in S : \A t \in S : Above(R, s, t)
<1>. DEFINE G == {r \in SUBSET S : r = {} \/ \E s \in r : \A t \in r : Above(R, s, t)}
<1>1. {} \in G
  OBVIOUS
<1>2. ASSUME NEW r \in SUBSET S, r # {}, \A x \in r : r \ {x} \in G PROVE r \in G
  <2>1. PICK x \in r : TRUE
    BY <1>2
  <2>2. r \ {x} \in G
    BY <1>2
  <2>3. CASE r \ {x} = {}
    <3>1. \A t \in r : t = x
      BY <2>3
    <3>. QED
      BY <2>1, <3>1
  <2>4. CASE r \ {x} # {}
    <3>1. PICK s \in r \ {x} : \A t \in r \ {x} : Above(R, s, t)
      BY <2>2, <2>4
    <3>2. CASE Above(R, s, x)
      BY <3>1, <3>2
    <3>3. CASE Above(R, x, s)
      <4>1. \A t \in r : Above(R, x, t)
        BY <2>1, <3>1, <3>3
      <4>. QED
        BY <4>1
    <3>. QED
      BY <2>1, <3>1, <3>2, <3>3
  <2>. QED
    BY <2>3, <2>4
<1>3. S \in G
  <2>1. G \in SUBSET SUBSET S
    OBVIOUS
  <2>. HIDE DEF G
  <2>. QED
    BY <1>1, <1>2, <2>1, EverySubset
<1>. QED
  BY <1>3

LEMMA MaxIsInt ==
  ASSUME NEW S \in SUBSET Int, IsFiniteSet(S), S # {}
  PROVE  Max(S) \in Int
<1>. DEFINE R == {s \in Int \X Int : s[1] >= s[2]}
<1>1. \A s, t \in Int : Above(R, s, t) <=> s >= t
  BY DEF Above
<1>. HIDE DEF R
<1>2. \E s \in S : \A t \in S : Above(R, s, t)
  <2>1. \A s, t \in S : Above(R, s, t) \/ Above(R, t, s)
    BY <1>1
  <2>2. \A s, t, u \in S : Above(R, s, t) /\ Above(R, t, u) => Above(R, s, u)
    BY <1>1
  <2>. QED
    BY <2>1, <2>2, GreatestExists, Zenon
<1>3. \E s \in S : \A t \in S : s >= t
  BY <1>1, <1>2
<1>. QED
  BY <1>3 DEF Max

-----------------------------------------------------------------------------
(* Balances *)

Moves(log) == IsFiniteSet(log) /\ \A t \in log : t.amount \in Nat

LEMMA AddressesFinite == IsFiniteSet(Addresses)
<1>1. IsFiniteSet(Burn)
  <2>1. IsFiniteSet({Zero} \cup {Dead}) /\ Burn = {Zero} \cup {Dead}
    BY FS_Union, FS_Singleton DEF Burn
  <2>. QED
    BY <2>1
<1>2. IsFiniteSet(Wallets \cup Pairs)
  BY IntelligenceAssumption
<1>3. IsFiniteSet((Wallets \cup Pairs) \cup Burn)
  BY <1>1, <1>2, FS_Union
<1>. QED
  BY <1>3 DEF Addresses

LEMMA TotalType ==
  ASSUME NEW S, Moves(S)
  PROVE  Total(S) \in Nat
<1>. DEFINE w == [t \in S |-> t.amount]
<1>1. \A t \in S : w[t] \in Nat
  BY DEF Moves
<1>2. Total(S) = SumOver(w, S)
  BY TotalSum DEF Moves
<1>. HIDE DEF w
<1>. QED
  BY <1>1, <1>2, SumType DEF Moves

LEMMA SnapshotType ==
  ASSUME NEW log, Moves(log), NEW a \in Addresses \ {Zero}
  PROVE  Snapshot(log)[a] \in Int /\ Snapshot(log)[a] = In(log, a) - Out(log, a)
         /\ In(log, a) \in Nat /\ Out(log, a) \in Nat
<1>1. Moves({t \in log : t.to = a}) /\ Moves({t \in log : t.from = a})
  BY FS_Subset DEF Moves
<1>. QED
  BY <1>1, TotalType DEF Snapshot, In, Out

LEMMA PositiveType ==
  ASSUME NEW log
  PROVE  /\ Positive(log) \subseteq Addresses \ {Zero} /\ IsFiniteSet(Positive(log))
         /\ \A a \in Positive(log) : Snapshot(log)[a] > 0
<1>1. Positive(log) \subseteq Addresses \ {Zero} /\ \A a \in Positive(log) : Snapshot(log)[a] > 0
  BY DEF Positive, Snapshot
<1>. QED
  BY <1>1, AddressesFinite, FS_Subset

LEMMA HeldType ==
  ASSUME NEW log, Moves(log), NEW S
  PROVE  Held(log, S) \in Nat
<1>. DEFINE T == S \cap Positive(log)
            w == [a \in T |-> Snapshot(log)[a]]
<1>1. IsFiniteSet(T)
  BY PositiveType, FS_Subset
<1>2. \A a \in T : w[a] \in Nat
  BY PositiveType, SnapshotType
<1>3. Held(log, S) = SumOver(w, T)
  <2>. HIDE DEF T
  <2>1. MapThenSumSet(LAMBDA a : Snapshot(log)[a], T) = SumOver(w, T)
    BY <1>1, BalanceSum
  <2>. QED
    BY <2>1 DEF Held, T
<1>. HIDE DEF w, T
<1>. QED
  BY <1>1, <1>2, <1>3, SumType

LEMMA LargestType ==
  ASSUME NEW log, Moves(log), NEW S, IsFiniteSet(S)
  PROVE  Largest(log, S, 1) \in Int
<1>1. Cardinality(S) \in Nat
  BY FS_CardinalityType
<1>2. CASE Cardinality(S) <= 1
  BY <1>2, HeldType DEF Largest
<1>3. CASE ~(Cardinality(S) <= 1)
  <2>. DEFINE f == [T \in kSubset(1, S) |-> Held(log, T)]
              H == {f[T] : T \in DOMAIN f}
  <2>1. H = {Held(log, T) : T \in kSubset(1, S)}
    OBVIOUS
  <2>2. IsFiniteSet(DOMAIN f)
    BY FS_SUBSET, FS_Subset DEF kSubset
  <2>3. \E T \in kSubset(1, S) : TRUE
    <3>1. PICK x \in S : TRUE
      BY <1>1, <1>3, FS_EmptySet
    <3>2. {x} \in SUBSET S /\ Cardinality({x}) = 1
      BY FS_Singleton
    <3>. QED
      BY <3>2 DEF kSubset
  <2>4. H # {} /\ H \subseteq Int
    BY <2>3, HeldType
  <2>5. IsFiniteSet(H)
    <3>. HIDE DEF f
    <3>. QED
      BY <2>2, ImageFinite
  <2>6. Largest(log, S, 1) = Max(H)
    BY <1>3, <2>1 DEF Largest
  <2>. HIDE DEF H
  <2>. QED
    BY <2>4, <2>5, <2>6, MaxIsInt
<1>. QED
  BY <1>1, <1>2, <1>3

-----------------------------------------------------------------------------
(* Features *)

IsFeature(x) == "cov" \in DOMAIN x /\ x.cov \in 0..Full

Sound(f) ==
  /\ IsFiniteSet(DOMAIN f)
  /\ \A n \in DOMAIN f : IsFeature(f[n])

\* Only the bytecode says whether there is any.
Silent(f) == Sound(f) /\ "token_has_code" \notin DOMAIN f

LEMMA FeatureSound ==
  ASSUME NEW v \in 0..Full
  PROVE  \A x : IsFeature(Feature(x, v)) /\ IsFeature(Missing(v))
BY DEF IsFeature, Feature, Missing

LEMMA ShareSound ==
  \A x, y : IsFeature(Share(x, y))
BY FeatureSound DEF Share, Full

LEMMA JoinedSound ==
  ASSUME NEW f, NEW g, Sound(f), Sound(g)
  PROVE  Sound(Joined(f, g)) /\ (Silent(f) /\ Silent(g) => Silent(Joined(f, g)))
<1>1. DOMAIN Joined(f, g) = DOMAIN f \cup DOMAIN g
  BY DEF Joined
<1>2. IsFiniteSet(DOMAIN f \cup DOMAIN g)
  BY FS_Union DEF Sound
<1>3. \A n \in DOMAIN Joined(f, g) : IsFeature(Joined(f, g)[n])
  BY DEF Joined, Sound
<1>. QED
  BY <1>1, <1>2, <1>3 DEF Sound, Silent

LEMMA MadeSound ==
  ASSUME NEW f, Silent(f)
  PROVE  Silent(Made(f))
<1>1. DOMAIN Made(f) \subseteq DOMAIN f /\ \A n \in DOMAIN Made(f) : Made(f)[n] = f[n]
  BY DEF Made
<1>2. IsFiniteSet(DOMAIN Made(f))
  BY <1>1, FS_Subset DEF Silent, Sound
<1>. QED
  BY <1>1, <1>2 DEF Silent, Sound

LEMMA UncoveredSound ==
  ASSUME NEW f, Silent(f), NEW available
  PROVE  Silent(Uncovered(f, available))
<1>1. CASE available
  BY <1>1 DEF Uncovered
<1>2. CASE ~available
  <2>1. /\ DOMAIN Uncovered(f, available) = DOMAIN f
        /\ \A n \in DOMAIN f : Uncovered(f, available)[n] = [f[n] EXCEPT !.cov = 0]
    BY <1>2 DEF Uncovered
  <2>2. \A n \in DOMAIN f : "cov" \in DOMAIN f[n]
    BY DEF Silent, Sound, IsFeature
  <2>3. \A n \in DOMAIN f : IsFeature([f[n] EXCEPT !.cov = 0])
    BY <2>2 DEF IsFeature, Full
  <2>. QED
    BY <2>1, <2>3 DEF Silent, Sound
<1>. QED
  BY <1>1, <1>2

LEMMA HolderSound ==
  \A log, pairs : Silent(HolderFeatures(log, pairs))
<1>. SUFFICES ASSUME NEW log, NEW pairs PROVE Silent(HolderFeatures(log, pairs))
  OBVIOUS
<1>. DEFINE h == HolderFeatures(log, pairs)
            names == {"holder_count", "adjusted_total", "pair_balance", "burn_balance",
                      "top10_concentration", "top20_concentration", "top50_concentration",
                      "top100_concentration", "deployer_candidate_share", "probed_contract_holder_share"}
<1>1. DOMAIN h = names
  BY DEF HolderFeatures
<1>2. 0 \in 0..Full /\ Full \in 0..Full
  BY DEF Full
<1>3. \A n \in names :
       \/ \E x, v : v \in {0, Full} /\ h[n] \in {Feature(x, v), Missing(v)}
       \/ \E x, y : h[n] = Share(x, y)
  BY DEF HolderFeatures
<1>4. \A n \in names : IsFeature(h[n])
  <2>. HIDE DEF h, names
  <2>. QED
    BY <1>2, <1>3, FeatureSound, ShareSound
<1>5. IsFiniteSet(names)
  BY NamesFinite
<1>6. "token_has_code" \notin names
  OBVIOUS
<1>. HIDE DEF h, names
<1>7. Silent(h)
  BY <1>1, <1>4, <1>5, <1>6 DEF Silent, Sound
<1>. QED
  BY <1>7 DEF h

LEMMA HistorySound ==
  \A log, pairs : Silent(HistoryFeatures(log, pairs))
<1>. SUFFICES ASSUME NEW log, NEW pairs PROVE Silent(HistoryFeatures(log, pairs))
  OBVIOUS
<1>. DEFINE h == HistoryFeatures(log, pairs)
            names == {"transfer_count", "unique_buyers", "unique_sellers", "round_trip_wallets"}
<1>1. DOMAIN h = names
  BY DEF HistoryFeatures
<1>2. 0 \in 0..Full /\ Full \in 0..Full
  BY DEF Full
<1>3. \A n \in names :
       \/ \E x, v : v \in {0, Full} /\ h[n] \in {Feature(x, v), Missing(v)}
       \/ \E x, y : h[n] = Share(x, y)
  BY DEF HistoryFeatures
<1>4. \A n \in names : IsFeature(h[n])
  <2>. HIDE DEF h, names
  <2>. QED
    BY <1>2, <1>3, FeatureSound, ShareSound
<1>5. IsFiniteSet(names)
  <2>1. names = {"transfer_count", "unique_buyers", "unique_sellers",
                 "round_trip_wallets", "round_trip_wallets",
                 "round_trip_wallets", "round_trip_wallets", "round_trip_wallets",
                 "round_trip_wallets", "round_trip_wallets"}
    OBVIOUS
  <2>. QED
    BY <2>1, NamesFinite
<1>6. "token_has_code" \notin names
  OBVIOUS
<1>. HIDE DEF h, names
<1>7. Silent(h)
  BY <1>1, <1>4, <1>5, <1>6 DEF Silent, Sound
<1>. QED
  BY <1>7 DEF h

LEMMA ClusterSound ==
  \A log, pairs : Silent(ClusterFeatures(log, pairs))
<1>. SUFFICES ASSUME NEW log, NEW pairs PROVE Silent(ClusterFeatures(log, pairs))
  OBVIOUS
<1>. DEFINE h == ClusterFeatures(log, pairs)
            names == {"cluster_count", "largest_supply_share", "coordinated_fanout_bursts"}
<1>1. DOMAIN h = names
  BY DEF ClusterFeatures
<1>2. 0 \in 0..Full /\ Full \in 0..Full
  BY DEF Full
<1>3. \A n \in names :
       \/ \E x, v : v \in {0, Full} /\ h[n] \in {Feature(x, v), Missing(v)}
       \/ \E x, y : h[n] = Share(x, y)
  <2>1. \E x : h.cluster_count = Feature(x, Full)
    BY DEF ClusterFeatures
  <2>2. \E x : h.coordinated_fanout_bursts = Feature(x, Full)
    BY DEF ClusterFeatures
  <2>3. h.largest_supply_share = Missing(0) \/ \E x, y : h.largest_supply_share = Share(x, y)
    BY DEF ClusterFeatures
  <2>. HIDE DEF h
  <2>. QED
    BY <2>1, <2>2, <2>3
<1>4. \A n \in names : IsFeature(h[n])
  <2>. HIDE DEF h, names
  <2>. QED
    BY <1>2, <1>3, FeatureSound, ShareSound
<1>5. IsFiniteSet(names)
  <2>1. names = {"cluster_count", "largest_supply_share", "coordinated_fanout_bursts",
                 "coordinated_fanout_bursts", "coordinated_fanout_bursts",
                 "coordinated_fanout_bursts", "coordinated_fanout_bursts",
                 "coordinated_fanout_bursts", "coordinated_fanout_bursts",
                 "coordinated_fanout_bursts"}
    OBVIOUS
  <2>. QED
    BY <2>1, NamesFinite
<1>6. "token_has_code" \notin names
  OBVIOUS
<1>. HIDE DEF h, names
<1>7. Silent(h)
  BY <1>1, <1>4, <1>5, <1>6 DEF Silent, Sound
<1>. QED
  BY <1>7 DEF h

LEMMA DeployerSound ==
  \A log, deployer : Silent(DeployerFeatures(log, deployer))
<1>. SUFFICES ASSUME NEW log, NEW deployer PROVE Silent(DeployerFeatures(log, deployer))
  OBVIOUS
<1>. DEFINE h == DeployerFeatures(log, deployer)
            names == {"creator_verified", "candidate_supply_share"}
<1>1. DOMAIN h = names
  BY DEF DeployerFeatures
<1>2. 0 \in 0..Full /\ Full \in 0..Full
  BY DEF Full
<1>3. \A n \in names :
       \/ \E x, v : v \in {0, Full} /\ h[n] \in {Feature(x, v), Missing(v)}
       \/ \E x, y : h[n] = Share(x, y)
  BY DEF DeployerFeatures
<1>4. \A n \in names : IsFeature(h[n])
  <2>. HIDE DEF h, names
  <2>. QED
    BY <1>2, <1>3, FeatureSound, ShareSound
<1>5. IsFiniteSet(names)
  <2>1. names = {"creator_verified", "candidate_supply_share", "candidate_supply_share",
                 "candidate_supply_share", "candidate_supply_share",
                 "candidate_supply_share", "candidate_supply_share",
                 "candidate_supply_share", "candidate_supply_share",
                 "candidate_supply_share"}
    OBVIOUS
  <2>. QED
    BY <2>1, NamesFinite
<1>6. "token_has_code" \notin names
  OBVIOUS
<1>. HIDE DEF h, names
<1>7. Silent(h)
  BY <1>1, <1>4, <1>5, <1>6 DEF Silent, Sound
<1>. QED
  BY <1>7 DEF h

-----------------------------------------------------------------------------
(* Liquidity *)

PoolOK(pool) ==
  pool.supply \in Int /\ pool.log \in Seq([at : Nat, from : Addresses, to : Addresses, amount : Nat])

LEMMA PoolMoves ==
  ASSUME NEW pool, PoolOK(pool)
  PROVE  Moves(PoolLog(pool))
<1>. DEFINE L == pool.log
            f == [i \in 1..Len(L) |-> [L[i] EXCEPT !.at = i]]
<1>1. L \in Seq([at : Nat, from : Addresses, to : Addresses, amount : Nat])
  BY DEF PoolOK
<1>2. Len(L) \in Nat /\ DOMAIN L = 1..Len(L)
        /\ \A i \in 1..Len(L) : L[i] \in [at : Nat, from : Addresses, to : Addresses, amount : Nat]
  BY <1>1, LenProperties, ElementOfSeq
<1>3. PoolLog(pool) = {f[i] : i \in DOMAIN f}
  BY <1>2 DEF PoolLog
<1>4. \A i \in DOMAIN f : f[i].amount \in Nat
  BY <1>2
<1>5. IsFiniteSet(DOMAIN f)
  <2>1. IsFiniteSet(1..Len(L)) /\ DOMAIN f = 1..Len(L)
    BY <1>2, FS_Interval
  <2>. QED
    BY <2>1
<1>. HIDE DEF f
<1>. QED
  BY <1>3, <1>4, <1>5, ImageFinite DEF Moves

LEMMA PoolCoverageType ==
  ASSUME NEW pool, PoolOK(pool)
  PROVE  PoolCoverage(pool) \in 0..Full
<1>. DEFINE held == Held(PoolLog(pool), Positive(PoolLog(pool)))
<1>1. held \in Nat
  BY PoolMoves, HeldType
<1>2. CASE pool.supply > 0
  <2>1. pool.supply \in Nat \ {0} /\ Full * held \in Nat
    BY <1>1, <1>2 DEF PoolOK, Full
  <2>. DEFINE r == Round(Full * held, pool.supply)
  <2>2. r \in Nat
    BY <2>1, RoundIsInt
  <2>3. PoolCoverage(pool) = Min({Full, r})
    BY <1>2 DEF PoolCoverage
  <2>. HIDE DEF r
  <2>4. Full \in Int /\ Full >= 0
    BY DEF Full
  <2>5. Min({Full, r}) \in {Full, r} /\ Min({Full, r}) <= Full
    BY <2>2, <2>4, MinTwo
  <2>. QED
    BY <2>2, <2>3, <2>4, <2>5
<1>3. CASE ~(pool.supply > 0)
  BY <1>3 DEF PoolCoverage, Full
<1>. QED
  BY <1>2, <1>3

Ratios(R) == \A s \in R : \E n \in Int, d \in Nat \ {0} : s = Feature(<<n, d>>, Full)

LEMMA RatioOrder ==
  ASSUME NEW a \in Int, NEW b \in Nat \ {0}, NEW c \in Int, NEW d \in Nat \ {0},
         NEW e \in Int, NEW f \in Nat \ {0}, a * d >= c * b, c * f >= e * d
  PROVE  a * f >= e * b
<1>1. (a * d) * f >= (c * b) * f
  <2>1. \A i, j \in Int : i >= j => i * f >= j * f
    OBVIOUS
  <2>. QED
    BY <2>1
<1>2. (c * f) * b >= (e * d) * b
  <2>1. \A i, j \in Int : i >= j => i * b >= j * b
    OBVIOUS
  <2>. QED
    BY <2>1
<1>3. (c * b) * f = (c * f) * b
  OBVIOUS
<1>4. (a * d) * f = d * (a * f) /\ (e * d) * b = d * (e * b)
  OBVIOUS
<1>5. d * (a * f) >= d * (e * b)
  <2>1. a * d \in Int /\ c * b \in Int /\ c * f \in Int /\ e * d \in Int
    OBVIOUS
  <2>2. (a * d) * f \in Int /\ (c * b) * f \in Int /\ (e * d) * b \in Int
    OBVIOUS
  <2>. QED
    BY <1>1, <1>2, <1>3, <1>4, <2>2
<1>6. \A i, j \in Int : d * i >= d * j => i >= j
  OBVIOUS
<1>7. a * f \in Int /\ e * b \in Int
  OBVIOUS
<1>. QED
  BY <1>5, <1>6, <1>7

LEMMA MaxShareFeature ==
  ASSUME NEW R, IsFiniteSet(R), \A s \in R : s = Missing(0) \/ Ratios({s})
  PROVE  IsFeature(MaxShare(R))
<1>. DEFINE K == {s \in R : s.known}
<1>1. IsFiniteSet(K) /\ Ratios(K)
  BY FS_Subset DEF Ratios, Missing
<1>2. CASE K = {}
  BY <1>2, FeatureSound DEF MaxShare, Full
<1>3. CASE K # {}
  <2>. DEFINE Ord == {x \in K \X K : x[1].value[1] * x[2].value[2] >= x[2].value[1] * x[1].value[2]}
  <2>1. \A s \in K : s.value[1] \in Int /\ s.value[2] \in Nat \ {0} /\ IsFeature(s)
    <3>1. \A s \in K : \E n \in Int, d \in Nat \ {0} : s = Feature(<<n, d>>, Full)
      BY <1>1 DEF Ratios
    <3>2. Full \in 0..Full
      BY DEF Full
    <3>3. \A n, d : Feature(<<n, d>>, Full).value = <<n, d>> /\ IsFeature(Feature(<<n, d>>, Full))
      BY <3>2, FeatureSound DEF Feature
    <3>. HIDE DEF K
    <3>. SUFFICES ASSUME NEW s \in K
                  PROVE  s.value[1] \in Int /\ s.value[2] \in Nat \ {0} /\ IsFeature(s)
      OBVIOUS
    <3>4. PICK n \in Int, d \in Nat \ {0} : s = Feature(<<n, d>>, Full)
      BY <3>1
    <3>5. s.value = <<n, d>> /\ IsFeature(s)
      BY <3>3, <3>4
    <3>. QED
      BY <3>5
  <2>2. \A s, t \in K : Above(Ord, s, t) <=> s.value[1] * t.value[2] >= t.value[1] * s.value[2]
    BY DEF Above
  <2>. HIDE DEF Ord, K
  <2>3. \A s, t \in K : Above(Ord, s, t) \/ Above(Ord, t, s)
    <3>1. \A s, t \in K : s.value[1] * t.value[2] \in Int
      BY <2>1
    <3>. QED
      BY <2>2, <3>1
  <2>4. \A s, t, u \in K : Above(Ord, s, t) /\ Above(Ord, t, u) => Above(Ord, s, u)
    <3>1. SUFFICES ASSUME NEW s \in K, NEW t \in K, NEW u \in K, Above(Ord, s, t), Above(Ord, t, u)
                   PROVE  s.value[1] * u.value[2] >= u.value[1] * s.value[2]
      BY <2>2
    <3>2. s.value[1] * t.value[2] >= t.value[1] * s.value[2] /\ t.value[1] * u.value[2] >= u.value[1] * t.value[2]
      BY <2>2, <3>1
    <3>4. PICK a, b, c, d, e, f : /\ a = s.value[1] /\ b = s.value[2] /\ c = t.value[1] /\ d = t.value[2]
                                  /\ e = u.value[1] /\ f = u.value[2]
      OBVIOUS
    <3>5. a \in Int /\ b \in Nat \ {0} /\ c \in Int /\ d \in Nat \ {0} /\ e \in Int /\ f \in Nat \ {0}
      BY <2>1, <3>4
    <3>6. a * d >= c * b /\ c * f >= e * d
      BY <3>2, <3>4
    <3>7. a * f >= e * b
      BY <3>5, <3>6, RatioOrder
    <3>. QED
      BY <3>4, <3>7
  <2>5. \E s \in K : \A t \in K : Above(Ord, s, t)
    BY <1>1, <1>3, <2>3, <2>4, GreatestExists, Zenon
  <2>6. \E s \in K : \A t \in K : s.value[1] * t.value[2] >= t.value[1] * s.value[2]
    BY <2>2, <2>5
  <2>7. MaxShare(R) = CHOOSE s \in K : \A t \in K : s.value[1] * t.value[2] >= t.value[1] * s.value[2]
    BY <1>3 DEF MaxShare, K
  <2>8. MaxShare(R) \in K
    BY <2>6, <2>7
  <2>. QED
    BY <2>1, <2>8
<1>. QED
  BY <1>2, <1>3

LEMMA MeanType ==
  ASSUME NEW S, IsFiniteSet(S), S # {}, NEW w, \A x \in S : w[x] \in 0..Full
  PROVE  MeanOf(SumOver(w, S), Cardinality(S)) \in 0..Full
<1>1. Cardinality(S) \in Nat \ {0} /\ Full \in Int
  BY FS_CardinalityType, FS_EmptySet DEF Full
<1>2. \A x \in S : w[x] \in Int /\ w[x] >= 0 /\ w[x] <= Full
  <2>1. \A n \in 0..Full : n \in Int /\ n >= 0 /\ n <= Full
    BY DEF Full
  <2>. QED
    BY <2>1
<1>3. SumOver(w, S) \in Int /\ SumOver(w, S) >= 0
  BY <1>2, SumType
<1>4. SumOver(w, S) <= Full * Cardinality(S)
  BY <1>1, <1>2, SumAtMost
<1>5. Round(SumOver(w, S), Cardinality(S)) \in Int /\ Round(SumOver(w, S), Cardinality(S)) >= 0
        /\ Round(SumOver(w, S), Cardinality(S)) <= Full
  BY <1>1, <1>3, <1>4, RoundIsInt
<1>. QED
  BY <1>1, <1>5 DEF MeanOf

LEMMA ThreeFinite ==
  \A a, b, c : IsFiniteSet({a, b, c})
<1>. SUFFICES ASSUME NEW a, NEW b, NEW c PROVE IsFiniteSet({a, b, c})
  OBVIOUS
<1>1. IsFiniteSet({a, a, a, a, a, a, a, a, b, c})
  BY NamesFinite
<1>. QED
  BY <1>1

LEMMA SilentEmpty == Silent(<<>>)
<1>1. DOMAIN <<>> = {}
  OBVIOUS
<1>. QED
  BY <1>1, FS_EmptySet DEF Silent, Sound

LEMMA SingleSound ==
  ASSUME NEW f, NEW n, n # "token_has_code", DOMAIN f = {n}, IsFeature(f[n])
  PROVE  Silent(f)
<1>1. IsFiniteSet({n}) /\ \A x \in {n} : x = n
  BY FS_Singleton
<1>. QED
  BY <1>1 DEF Silent, Sound

LEMMA LiquiditySound ==
  ASSUME NEW pools, NEW pairs, IsFiniteSet(pairs), \A p \in pairs : PoolOK(pools[p]), NEW candidates
  PROVE  Silent(LiquidityFeatures(pools, pairs, candidates))
<1>. DEFINE A == Analyzed(pools, pairs)
            L(p) == PoolLog(pools[p])
            Top(p) == Share(Largest(L(p), Positive(L(p)), 1), Held(L(p), Positive(L(p))))
            mean == IF A = {} THEN 0
                    ELSE MeanOf(MapThenSumSet(LAMBDA p : PoolCoverage(pools[p]), A), Cardinality(A))
            shares == [max_lp_top1_share |-> MaxShare({Top(p) : p \in A}),
                       max_lp_candidate_share |->
                           MaxShare({Share(Held(L(p), candidates), pools[p].supply) : p \in A}),
                       max_lp_burned_share |->
                           MaxShare({Share(Held(L(p), Burn), pools[p].supply) : p \in A})]
            counted == [pair_count_analyzed |-> Feature(Cardinality(A), mean)]
            covered == IF A = {} THEN <<>> ELSE [lp_distribution_coverage |-> Feature(mean, mean)]
            rest == [n \in DOMAIN shares |-> [shares[n] EXCEPT !.cov = mean]]
<1>1. LiquidityFeatures(pools, pairs, candidates) = Joined(counted, Joined(covered, rest))
  BY DEF LiquidityFeatures
<1>2. IsFiniteSet(A) /\ \A p \in A : PoolOK(pools[p])
  BY FS_Subset DEF Analyzed
<1>3. mean \in 0..Full
  <2>1. CASE A = {}
    BY <2>1 DEF Full
  <2>2. CASE A # {}
    <3>. DEFINE w == [p \in A |-> PoolCoverage(pools[p])]
    <3>1. \A p \in A : w[p] \in 0..Full
      BY <1>2, PoolCoverageType
    <3>2. MapThenSumSet(LAMBDA p : PoolCoverage(pools[p]), A) = SumOver(w, A)
      <4>. HIDE DEF A
      <4>. QED
        BY <1>2, PoolSum
    <3>3. mean = MeanOf(SumOver(w, A), Cardinality(A))
      BY <2>2, <3>2
    <3>. HIDE DEF w, A, mean
    <3>. QED
      BY <1>2, <2>2, <3>1, <3>3, MeanType
  <2>. QED
    BY <2>1, <2>2
<1>4. ASSUME NEW F, DOMAIN F = A, \A p \in A : \E x, y \in Int : F[p] = Share(x, y)
      PROVE  IsFeature(MaxShare({F[p] : p \in A}))
  <2>. DEFINE R == {F[p] : p \in A}
  <2>1. IsFiniteSet(R)
    BY <1>2, <1>4, ImageFinite
  <2>2. \A s \in R : \E x, y \in Int : s = Share(x, y)
    BY <1>4
  <2>3. \A x, y \in Int : Share(x, y) = Missing(0) \/ Ratios({Share(x, y)})
    <3>. SUFFICES ASSUME NEW x \in Int, NEW y \in Int PROVE Share(x, y) = Missing(0) \/ Ratios({Share(x, y)})
      OBVIOUS
    <3>1. CASE y <= 0
      BY <3>1 DEF Share
    <3>2. CASE ~(y <= 0)
      <4>1. Share(x, y) = Feature(<<x, y>>, Full) /\ y \in Nat \ {0}
        BY <3>2 DEF Share
      <4>. QED
        BY <4>1 DEF Ratios
    <3>. QED
      BY <3>1, <3>2
  <2>4. \A s \in R : s = Missing(0) \/ Ratios({s})
    BY <2>2, <2>3
  <2>. HIDE DEF R
  <2>5. IsFeature(MaxShare(R))
    BY <2>1, <2>4, MaxShareFeature
  <2>. QED
    BY <2>5 DEF R
<1>5. \A p \in A : /\ pools[p].supply \in Int
                   /\ \A S : Held(L(p), S) \in Int
                   /\ Largest(L(p), Positive(L(p)), 1) \in Int
  <2>. SUFFICES ASSUME NEW p \in A
                PROVE  /\ pools[p].supply \in Int
                       /\ \A S : Held(L(p), S) \in Int
                       /\ Largest(L(p), Positive(L(p)), 1) \in Int
    OBVIOUS
  <2>1. pools[p].supply \in Int /\ Moves(L(p)) /\ IsFiniteSet(Positive(L(p)))
    BY <1>2, PoolMoves, PositiveType DEF PoolOK
  <2>. HIDE DEF L
  <2>. QED
    BY <2>1, HeldType, LargestType
<1>6. \A n \in DOMAIN shares : IsFeature(shares[n])
  <2>1. IsFeature(MaxShare({Top(p) : p \in A}))
    <3>. DEFINE F == [p \in A |-> Top(p)]
    <3>1. \A p \in A : F[p] = Share(Largest(L(p), Positive(L(p)), 1), Held(L(p), Positive(L(p))))
      OBVIOUS
    <3>2. IsFeature(MaxShare({F[p] : p \in A}))
      <4>1. DOMAIN F = A
        OBVIOUS
      <4>. HIDE DEF F, A, L
      <4>. QED
        BY <1>4, <1>5, <3>1, <4>1
    <3>3. {F[p] : p \in A} = {Top(p) : p \in A}
      OBVIOUS
    <3>. QED
      BY <3>2, <3>3
  <2>2. ASSUME NEW S PROVE IsFeature(MaxShare({Share(Held(L(p), S), pools[p].supply) : p \in A}))
    <3>. DEFINE F == [p \in A |-> Share(Held(L(p), S), pools[p].supply)]
    <3>1. \A p \in A : F[p] = Share(Held(L(p), S), pools[p].supply)
      OBVIOUS
    <3>2. IsFeature(MaxShare({F[p] : p \in A}))
      <4>1. DOMAIN F = A
        OBVIOUS
      <4>. HIDE DEF F, A, L
      <4>. QED
        BY <1>4, <1>5, <3>1, <4>1
    <3>3. {F[p] : p \in A} = {Share(Held(L(p), S), pools[p].supply) : p \in A}
      OBVIOUS
    <3>. QED
      BY <3>2, <3>3
  <2>. HIDE DEF A, L, Top
  <2>. QED
    BY <2>1, <2>2
<1>7. DOMAIN shares = {"max_lp_top1_share", "max_lp_candidate_share", "max_lp_burned_share"}
  OBVIOUS
<1>8. Silent(rest)
  <2>1. DOMAIN rest = DOMAIN shares /\ \A n \in DOMAIN shares : rest[n] = [shares[n] EXCEPT !.cov = mean]
    OBVIOUS
  <2>. HIDE DEF shares, rest, mean
  <2>2. \A n \in DOMAIN shares : IsFeature(rest[n])
    BY <1>3, <1>6, <2>1 DEF IsFeature
  <2>3. IsFiniteSet({"max_lp_top1_share", "max_lp_candidate_share", "max_lp_burned_share"})
    BY ThreeFinite
  <2>4. IsFiniteSet(DOMAIN rest) /\ "token_has_code" \notin DOMAIN rest
    BY <1>7, <2>1, <2>3
  <2>. QED
    BY <2>1, <2>2, <2>4 DEF Silent, Sound
<1>. HIDE DEF mean, A, rest, shares
<1>9. Silent(counted)
  <2>1. DOMAIN counted = {"pair_count_analyzed"} /\ IsFeature(counted["pair_count_analyzed"])
    BY <1>3, FeatureSound
  <2>. HIDE DEF counted
  <2>. QED
    BY <2>1, SingleSound
<1>10. Silent(covered)
  <2>1. CASE A = {}
    BY <2>1, SilentEmpty
  <2>2. CASE A # {}
    <3>1. DOMAIN covered = {"lp_distribution_coverage"} /\ IsFeature(covered["lp_distribution_coverage"])
      BY <1>3, <2>2, FeatureSound
    <3>. HIDE DEF covered
    <3>. QED
      BY <3>1, SingleSound
  <2>. QED
    BY <2>1, <2>2
<1>. HIDE DEF counted, covered
<1>. QED
  BY <1>1, <1>8, <1>9, <1>10, JoinedSound DEF Silent

-----------------------------------------------------------------------------
(* The features of a token *)

LEMMA IntelCoverageType ==
  ASSUME NEW available, NEW market, NEW analyzed
  PROVE  IntelCoverage(available, market, analyzed) \in 0..Full
<1>. DEFINE log == IF available THEN Full ELSE 0
            pools == IF analyzed # {} THEN Full ELSE IF market.error THEN 0 ELSE Full \div 2
<1>1. log \in 0..1000 /\ pools \in 0..1000
  BY DEF Full
<1>2. IntelCoverage(available, market, analyzed) = Round(4 * log + pools, 5)
  BY DEF IntelCoverage, MeanOf
<1>. HIDE DEF log, pools
<1>3. 4 * log + pools \in Int /\ 4 * log + pools >= 0 /\ 4 * log + pools <= 1000 * 5
  BY <1>1
<1>4. Round(4 * log + pools, 5) \in Int /\ Round(4 * log + pools, 5) >= 0 /\ Round(4 * log + pools, 5) <= 1000
  BY <1>3, RoundIsInt
<1>. QED
  BY <1>2, <1>4 DEF Full

MarketOK(market, pools) == \A p \in market.pairs : p \in Pairs /\ PoolOK(pools[p])

LEMMA IntelSound ==
  ASSUME NEW log, NEW available, NEW market, NEW pools, MarketOK(market, pools), NEW deployer
  PROVE  LET f == IntelFeatures(log, available, market, pools, deployer)
         IN  Silent(f) /\ DOMAIN f # {}
<1>. DEFINE pairs == IF market.error THEN {} ELSE market.pairs
            seen == IF available THEN log ELSE {}
            coverage == IntelCoverage(available, market, Analyzed(pools, pairs))
            held == HolderFeatures(seen, pairs)
            history == HistoryFeatures(seen, pairs)
            clusters == ClusterFeatures(seen, pairs)
            creator == DeployerFeatures(seen, deployer)
            ledger == Joined(Joined(held, history), Joined(clusters, creator))
            liquidity == LiquidityFeatures(pools, pairs, Candidates(seen) \cup deployer)
            overall == [intelligence_coverage |-> Feature(coverage, coverage)]
<1>1. IntelFeatures(log, available, market, pools, deployer) =
        Joined(Joined(Uncovered(Made(ledger), available), Made(liquidity)), overall)
  BY DEF IntelFeatures
<1>2. IsFiniteSet(pairs) /\ \A p \in pairs : PoolOK(pools[p])
  <2>1. IsFiniteSet(Pairs)
    BY IntelligenceAssumption, FS_Subset
  <2>2. pairs \subseteq Pairs /\ \A p \in pairs : PoolOK(pools[p])
    BY DEF MarketOK
  <2>. HIDE DEF pairs
  <2>. QED
    BY <2>1, <2>2, FS_Subset
<1>3. Silent(liquidity)
  <2>. HIDE DEF pairs, seen
  <2>. QED
    BY <1>2, LiquiditySound
<1>4. Silent(held) /\ Silent(history) /\ Silent(clusters) /\ Silent(creator)
  <2>. HIDE DEF pairs, seen
  <2>. QED
    BY HolderSound, HistorySound, ClusterSound, DeployerSound
<1>5. Silent(overall) /\ DOMAIN overall = {"intelligence_coverage"}
  <2>. HIDE DEF pairs
  <2>1. coverage \in 0..Full
    BY IntelCoverageType
  <2>2. DOMAIN overall = {"intelligence_coverage"} /\ IsFeature(overall.intelligence_coverage)
    BY <2>1, FeatureSound
  <2>. HIDE DEF overall
  <2>. QED
    BY <2>2, FS_Singleton DEF Silent, Sound
<1>. HIDE DEF held, history, clusters, creator, liquidity, overall
<1>6. Silent(ledger)
  <2>1. Silent(Joined(held, history)) /\ Silent(Joined(clusters, creator))
    BY <1>4, JoinedSound DEF Silent
  <2>. QED
    BY <2>1, JoinedSound DEF Silent
<1>. HIDE DEF ledger
<1>7. Silent(Uncovered(Made(ledger), available)) /\ Silent(Made(liquidity))
  BY <1>3, <1>6, MadeSound, UncoveredSound
<1>8. Silent(Joined(Uncovered(Made(ledger), available), Made(liquidity)))
  BY <1>7, JoinedSound DEF Silent
<1>9. PICK g : g = Joined(Uncovered(Made(ledger), available), Made(liquidity))
  OBVIOUS
<1>10. Silent(Joined(g, overall)) /\ DOMAIN Joined(g, overall) # {}
  <2>1. Silent(Joined(g, overall))
    BY <1>5, <1>8, <1>9, JoinedSound DEF Silent
  <2>2. DOMAIN Joined(g, overall) = DOMAIN g \cup DOMAIN overall
    BY DEF Joined
  <2>. QED
    BY <1>5, <2>1, <2>2
<1>. QED
  BY <1>1, <1>9, <1>10

LEMMA MarketSound ==
  ASSUME NEW market
  PROVE  Silent(MarketFeatures(market))
<1>. DEFINE cov == IF market.error THEN 0 ELSE Full
            counted == [pair_count |-> IF market.error THEN Missing(cov) ELSE Feature(Cardinality(market.pairs), cov)]
            described == IF market.error \/ market.pairs = {} THEN {} ELSE MarketNames
            rest == [n \in described |->
                       IF n \in DOMAIN market.is THEN Feature(market.is[n], cov) ELSE Missing(cov)]
<1>1. MarketFeatures(market) = Joined(counted, rest)
  BY DEF MarketFeatures
<1>2. cov \in 0..Full
  BY DEF Full
<1>. HIDE DEF cov
<1>3. Silent(counted)
  <2>1. DOMAIN counted = {"pair_count"} /\ IsFeature(counted.pair_count)
    BY <1>2, FeatureSound
  <2>. HIDE DEF counted
  <2>. QED
    BY <2>1, FS_Singleton DEF Silent, Sound
<1>4. Silent(rest)
  <2>1. IsFiniteSet(described) /\ "token_has_code" \notin described
    <3>1. IsFiniteSet(MarketNames) /\ "token_has_code" \notin MarketNames
      BY NamesFinite DEF MarketNames
    <3>. QED
      BY <3>1, FS_EmptySet
  <2>. HIDE DEF described
  <2>2. \A n \in described : IsFeature(rest[n])
    BY <1>2, FeatureSound
  <2>. QED
    BY <2>1, <2>2 DEF Silent, Sound
<1>. HIDE DEF counted, rest
<1>. QED
  BY <1>1, <1>3, <1>4, JoinedSound DEF Silent

LEMMA CodeSound ==
  ASSUME NEW code
  PROVE  /\ Sound(CodeFeatures(code))
         /\ "token_has_code" \in DOMAIN CodeFeatures(code)
         /\ CodeFeatures(code)["token_has_code"] = Feature(code.present, Full)
<1>. DEFINE has == [token_has_code |-> Feature(code.present, Full)]
            traits == [n \in CodeTraits |-> Feature(n \in code.traits, Full)]
            others == [n \in OtherTraits |-> Feature(0, Full)]
<1>1. CodeFeatures(code) = Joined(has, Joined(traits, others))
  BY DEF CodeFeatures
<1>2. Full \in 0..Full
  BY DEF Full
<1>3. DOMAIN has = {"token_has_code"} /\ has["token_has_code"] = Feature(code.present, Full)
  OBVIOUS
<1>4. Sound(has)
  <2>1. IsFeature(has["token_has_code"])
    BY <1>2, <1>3, FeatureSound
  <2>. HIDE DEF has
  <2>. QED
    BY <1>3, <2>1, FS_Singleton DEF Sound
<1>5. Sound(traits)
  <2>1. IsFiniteSet(CodeTraits)
    <3>1. CodeTraits = {"delegatecall_present", "delegatecall_present", "delegatecall_present", "delegatecall_present",
                        "delegatecall_present", "delegatecall_present", "delegatecall_present", "selfdestruct_pattern",
                        "time_or_block_logic", "proxy_detected"}
      BY DEF CodeTraits
    <3>. QED
      BY <3>1, NamesFinite
  <2>. QED
    BY <1>2, <2>1, FeatureSound DEF Sound
<1>6. Sound(others)
  <2>1. IsFiniteSet(OtherTraits)
    <3>1. OtherTraits = {"byte_length", "byte_length", "byte_length", "byte_length",
                         "external_call_present",
                         "storage_write_present", "owner_observed", "admin_observed", "fingerprint_count",
                         "deferred_behavior_signal"}
      BY DEF OtherTraits
    <3>. QED
      BY <3>1, NamesFinite
  <2>. QED
    BY <1>2, <2>1, FeatureSound DEF Sound
<1>. HIDE DEF has, traits, others
<1>7. Sound(Joined(has, Joined(traits, others)))
  BY <1>4, <1>5, <1>6, JoinedSound
<1>8. \A g : "token_has_code" \in DOMAIN Joined(has, g) /\ Joined(has, g)["token_has_code"] = has["token_has_code"]
  BY <1>3 DEF Joined
<1>. QED
  BY <1>1, <1>3, <1>7, <1>8

-----------------------------------------------------------------------------
(* The score *)

LEMMA RuleFacts ==
  /\ IsFiniteSet(Rules) /\ \A r \in Rules : r.raw \in Nat
  /\ \E r \in Rules : r.id = "no_contract_code" /\ r.needs = {"token_has_code"}
<1>1. \A r \in Rules : r.raw \in Nat
  BY SMTT(60) DEF Rules, CodeRules, HolderRules, PoolRules, HistoryRules, MarketRules, Calibrated, Fixed, Confidence
<1>2. IsFiniteSet(Rules)
  <2>1. \A a, b, c, d, e : IsFiniteSet({a, b, c, d, e})
    <3>. SUFFICES ASSUME NEW a, NEW b, NEW c, NEW d, NEW e PROVE IsFiniteSet({a, b, c, d, e})
      OBVIOUS
    <3>1. IsFiniteSet({a, b, c, d, e, e, e, e, e, e})
      BY NamesFinite
    <3>. QED
      BY <3>1
  <2>2. IsFiniteSet(CodeRules)
    BY <2>1, Zenon DEF CodeRules
  <2>3. \A a, b, c, d : IsFiniteSet({a, b, c, d})
    <3>. SUFFICES ASSUME NEW a, NEW b, NEW c, NEW d PROVE IsFiniteSet({a, b, c, d})
      OBVIOUS
    <3>1. IsFiniteSet({a, b, c, d, d})
      BY <2>1
    <3>. QED
      BY <3>1
  <2>4. IsFiniteSet(MarketRules)
    BY <2>3, Zenon DEF MarketRules
  <2>5. \A a, b, c : IsFiniteSet({a, b, c})
    BY ThreeFinite, Zenon
  <2>6. IsFiniteSet(HolderRules) /\ IsFiniteSet(HistoryRules)
    BY <2>5, Zenon DEF HolderRules, HistoryRules
  <2>7. \A a, b : IsFiniteSet({a, b})
    <3>. SUFFICES ASSUME NEW a, NEW b PROVE IsFiniteSet({a, b})
      OBVIOUS
    <3>1. IsFiniteSet({a, b, b})
      BY <2>5
    <3>. QED
      BY <3>1
  <2>8. IsFiniteSet(PoolRules)
    BY <2>7, Zenon DEF PoolRules
  <2>. QED
    BY <2>2, <2>4, <2>6, <2>8, FS_Union DEF Rules
<1>3. Fixed("no_contract_code", "chain", 45, {"token_has_code"}) \in Rules
  BY DEF Rules, CodeRules
<1>4. /\ Fixed("no_contract_code", "chain", 45, {"token_has_code"}).id = "no_contract_code"
      /\ Fixed("no_contract_code", "chain", 45, {"token_has_code"}).needs = {"token_has_code"}
  BY DEF Fixed
<1>. QED
  BY <1>1, <1>2, <1>3, <1>4

LEMMA FamilyScoreType ==
  ASSUME NEW family \in Families, NEW f
  PROVE  FamilyScore(family, f) \in Nat
<1>. DEFINE fired == Fired({r \in Rules : r.family = family}, f)
            raws == [rule \in fired |-> rule.raw]
<1>1. fired \subseteq Rules
  BY DEF Fired
<1>2. IsFiniteSet(fired) /\ \A r \in fired : raws[r] \in Nat
  BY <1>1, RuleFacts, FS_Subset
<1>3. MapThenSumSet(LAMBDA rule : rule.raw, fired) = SumOver(raws, fired)
  <2>. HIDE DEF fired
  <2>. QED
    BY <1>2, RawSum
<1>4. Cap[family] * 10000 \in Nat
  BY DEF Families, Cap
<1>5. PICK i : i = MapThenSumSet(LAMBDA rule : rule.raw, fired)
  OBVIOUS
<1>8. PICK j : j = Cap[family] * 10000
  OBVIOUS
<1>9. FamilyScore(family, f) = Min({i, j})
  BY <1>5, <1>8 DEF FamilyScore
<1>6. SumOver(raws, fired) \in Nat
  <2>. HIDE DEF fired, raws
  <2>. QED
    BY <1>2, SumType
<1>. HIDE DEF fired, raws
<1>7. i \in Nat /\ j \in Nat /\ i \in Int /\ j \in Int
  BY <1>3, <1>4, <1>5, <1>6, <1>8
<1>10. Min({i, j}) \in {i, j}
  BY <1>7, MinTwo
<1>. QED
  BY <1>7, <1>9, <1>10

LEMMA ScoreType ==
  ASSUME NEW f, Sound(f), DOMAIN f # {}
  PROVE  Score(f).score \in Scores /\ Score(f).cov \in 0..Full
<1>1. Score(f).cov \in 0..Full
  <2>. DEFINE D == DOMAIN f
              covs == [n \in D |-> f[n].cov]
  <2>1. IsFiniteSet(D) /\ \A n \in D : covs[n] \in 0..Full
    BY DEF Sound, IsFeature
  <2>2. MapThenSumSet(LAMBDA n : f[n].cov, D) = SumOver(covs, D)
    <3>. HIDE DEF D
    <3>. QED
      BY <2>1, CoverSum
  <2>3. Score(f).cov = MeanOf(SumOver(covs, D), Cardinality(D))
    BY <2>2 DEF Score, Coverage
  <2>. HIDE DEF covs
  <2>. QED
    BY <2>1, <2>3, MeanType
<1>2. Score(f).score \in Scores
  <2>. DEFINE points == [family \in Families |-> FamilyScore(family, f)]
              total == MapThenSumSet(LAMBDA family : FamilyScore(family, f), Families)
  <2>1. IsFiniteSet(Families)
    <3>1. Families = {"chain", "chain", "chain", "clusters", "contract", "deployer",
                      "historical", "holders",
                      "liquidity", "market"}
      BY DEF Families, Cap
    <3>. QED
      BY <3>1, NamesFinite
  <2>2. total = SumOver(points, Families)
    BY <2>1, FamilySum
  <2>3. \A family \in Families : points[family] \in Nat
    BY FamilyScoreType
  <2>4. total \in Nat
    <3>. HIDE DEF points, total
    <3>. QED
      BY <2>1, <2>2, <2>3, SumType
  <2>. DEFINE most == 10000
  <2>5. Score(f).score = IF HardBlocked(f) THEN most ELSE Min({most, Round(total, 100)})
    BY DEF Score
  <2>9. most \in Int /\ most >= 0
    OBVIOUS
  <2>10. \A x \in 0..most : x \in Scores
    BY DEF Scores
  <2>. HIDE DEF total, most
  <2>6. Round(total, 100) \in Nat
    BY <2>4, RoundIsInt
  <2>7. PICK n : n = Round(total, 100) /\ n \in Int /\ n >= 0
    BY <2>6
  <2>8. Min({most, n}) \in {most, n} /\ Min({most, n}) <= most
    BY <2>7, <2>9, MinTwo
  <2>11. Score(f).score \in 0..most
    BY <2>5, <2>7, <2>8, <2>9
  <2>. QED
    BY <2>10, <2>11
<1>. QED
  BY <1>1, <1>2

LEMMA NoCodeTriggers ==
  ASSUME NEW f, f["token_has_code"].value = FALSE
  PROVE  Triggered("no_contract_code", f)
BY SMT DEF Triggered

\* A token that was seen to have no code is hard blocked.
Codeless(f) == "token_has_code" \in DOMAIN f /\ f["token_has_code"] = Feature(FALSE, Full)

LEMMA NoCodeBlocks ==
  ASSUME NEW f, Codeless(f)
  PROVE  Score(f).score = 10000
<1>1. PICK r \in Rules : r.id = "no_contract_code" /\ r.needs = {"token_has_code"}
  BY RuleFacts
<1>2. f["token_has_code"].known /\ f["token_has_code"].value = FALSE
  BY DEF Codeless, Feature
<1>3. Evaluable(r, f)
  BY <1>1, <1>2 DEF Evaluable, Codeless
<1>4. Triggered("no_contract_code", f)
  BY <1>2, NoCodeTriggers
<1>5. HardBlocked(f)
  BY <1>1, <1>3, <1>4 DEF HardBlocked, Fired
<1>. QED
  BY <1>5 DEF Score

LEMMA StaticScoreType ==
  ASSUME NEW findings, IsFiniteSet(findings),
         \A f \in findings : f.severity \in {"informational", "low", "medium", "high", "critical"}
  PROVE  StaticScore(findings) \in Scores
<1>. DEFINE w == [f \in findings |-> Severity[f.severity]]
<1>1. MapThenSumSet(LAMBDA f : Severity[f.severity], findings) = SumOver(w, findings)
  BY SeveritySum
<1>2. \A f \in findings : w[f] \in Nat
  BY DEF Severity
<1>. DEFINE most == 10000
<1>3. PICK n : n = MapThenSumSet(LAMBDA f : Severity[f.severity], findings)
  OBVIOUS
<1>4. StaticScore(findings) = Min({most, n})
  BY <1>3 DEF StaticScore
<1>5. most \in Int /\ most >= 0
  OBVIOUS
<1>8. \A x \in 0..most : x \in Scores
  BY DEF Scores
<1>. HIDE DEF w, most
<1>6. n \in Int /\ n >= 0
  BY <1>1, <1>2, <1>3, SumType
<1>7. Min({most, n}) \in {most, n} /\ Min({most, n}) <= most
  BY <1>5, <1>6, MinTwo
<1>9. StaticScore(findings) \in 0..most
  BY <1>4, <1>5, <1>6, <1>7
<1>. QED
  BY <1>8, <1>9

-----------------------------------------------------------------------------
(* Coverage and band of a report *)

LEMMA SumThree ==
  ASSUME NEW w, \A i \in 1..3 : w[i] \in Int
  PROVE  SumOver(w, 1..3) = w[1] + w[2] + w[3]
<1>1. IsFiniteSet({}) /\ IsFiniteSet({1}) /\ IsFiniteSet({1, 2})
  <2>1. IsFiniteSet({1, 2, 2}) /\ {1, 2, 2} = {1, 2}
    BY ThreeFinite
  <2>. QED
    BY <2>1, FS_EmptySet, FS_Singleton
<1>2. w[1] \in Int /\ w[2] \in Int /\ w[3] \in Int
  OBVIOUS
<1>3. SumOver(w, {}) = 0
  BY <1>1, SumRule
<1>4. SumOver(w, {} \cup {1}) = w[1] + SumOver(w, {})
  <2>1. 1 \notin {} /\ \A y \in {} \cup {1} : w[y] \in Int
    BY <1>2
  <2>. QED
    BY <1>1, <2>1, SumAdd
<1>5. SumOver(w, {1} \cup {2}) = w[2] + SumOver(w, {1})
  <2>1. 2 \notin {1} /\ \A y \in {1} \cup {2} : w[y] \in Int
    BY <1>2
  <2>. QED
    BY <1>1, <2>1, SumAdd
<1>6. SumOver(w, {1, 2} \cup {3}) = w[3] + SumOver(w, {1, 2})
  <2>1. 3 \notin {1, 2} /\ \A y \in {1, 2} \cup {3} : w[y] \in Int
    BY <1>2
  <2>. QED
    BY <1>1, <2>1, SumAdd
<1>7. {} \cup {1} = {1} /\ {1} \cup {2} = {1, 2} /\ {1, 2} \cup {3} = 1..3
  OBVIOUS
<1>8. /\ SumOver(w, {1}) = w[1] /\ SumOver(w, {1, 2}) = w[2] + SumOver(w, {1})
      /\ SumOver(w, 1..3) = w[3] + SumOver(w, {1, 2})
  <2>1. SumOver(w, {1}) = w[1]
    BY <1>2, <1>3, <1>4, <1>7
  <2>2. SumOver(w, {1, 2}) = w[2] + SumOver(w, {1})
    BY <1>5, <1>7
  <2>3. SumOver(w, 1..3) = w[3] + SumOver(w, {1, 2})
    BY <1>6, <1>7
  <2>. QED
    BY <2>1, <2>2, <2>3
<1>. QED
  BY <1>2, <1>8

LEMMA EngineFacts ==
  ASSUME UnifiedTypeOK
  PROVE  /\ Engines[1] = static /\ Engines[2] = fork /\ Engines[3] = heuristics
         /\ Coverages[1] = static.cov /\ Coverages[2] = fork.cov /\ Coverages[3] = heuristics.cov
         /\ static.cov \in 0..Full /\ fork.cov \in 0..Full /\ heuristics.cov \in 0..Full
<1>1. Engines[1] = static /\ Engines[2] = fork /\ Engines[3] = heuristics
  BY DEF Engines
<1>2. \A i \in 1..3 : Coverages[i] = Engines[i].cov
  BY DEF Coverages
<1>3. \A e \in {static, fork, heuristics} : e.cov \in 0..Full
  BY Zenon DEF UnifiedTypeOK
<1>. QED
  BY <1>1, <1>2, <1>3

LEMMA OneOfThree ==
  ASSUME NEW a \in Int, NEW b \in Int, NEW c \in Int, 0 <= a, a <= 1000, 0 <= b, b <= 1000, 0 <= c, c <= 1000,
         ~(a > 0 /\ b > 0), ~(a > 0 /\ c > 0), ~(b > 0 /\ c > 0)
  PROVE  30 * a + 40 * b + 30 * c <= 400 * 100
OBVIOUS

LEMMA ThreeIndices ==
  IsFiniteSet(1..3) /\ \A S \in SUBSET (1..3) : IsFiniteSet(S)
<1>1. 1 \in Int /\ 3 \in Int
  OBVIOUS
<1>2. IsFiniteSet(1..3)
  BY <1>1, FS_Interval
<1>. QED
  BY <1>2, FS_Subset

LEMMA CoveredType ==
  ASSUME UnifiedTypeOK
  PROVE  LET c == Coverages
         IN  \A S : /\ Covered(S) \in Nat
                    /\ \A n \in Nat : 30 * c[1] + 40 * c[2] + 30 * c[3] <= n * 100 => Covered(S) <= n
<1>. DEFINE c == Coverages
            w == [i \in 1..3 |-> Weight[i] * c[i]]
            u == [i \in 1..3 |-> Weight[i]]
            total == 30 * c[1] + 40 * c[2] + 30 * c[3]
<1>1. c[1] \in Nat /\ c[2] \in Nat /\ c[3] \in Nat
  <2>1. \A n \in 0..Full : n \in Nat
    BY DEF Full
  <2>. QED
    BY <2>1, EngineFacts
<1>2. w[1] = 30 * c[1] /\ w[2] = 40 * c[2] /\ w[3] = 30 * c[3] /\ u[1] = 30 /\ u[2] = 40 /\ u[3] = 30
  BY DEF Weight
<1>3. Weighted(c, 1..3) = SumOver(w, 1..3)
  BY ThreeIndices, WeightedSum
<1>4. Whole(1..3) = SumOver(u, 1..3)
  BY ThreeIndices, WholeSum
<1>. HIDE DEF c, w, u
<1>5. \A i \in 1..3 : w[i] \in Int /\ u[i] \in Int
  BY <1>1, <1>2
<1>6. SumOver(w, 1..3) = w[1] + w[2] + w[3] /\ SumOver(u, 1..3) = u[1] + u[2] + u[3]
  BY <1>5, SumThree
<1>7. Weighted(c, 1..3) = total /\ Whole(1..3) = 100 /\ total \in Nat
  BY <1>1, <1>2, <1>3, <1>4, <1>6
<1>8. \A S : Covered(S) = Round(total, 100)
  BY <1>7 DEF Covered, c
<1>9. total \in Int /\ total >= 0
  BY <1>7
<1>. HIDE DEF total
<1>10. Round(total, 100) \in Nat /\ \A n \in Nat : total <= n * 100 => Round(total, 100) <= n
  BY <1>9, RoundIsInt
<1>. QED
  BY <1>8, <1>10 DEF total, c

LEMMA TwoElements ==
  ASSUME NEW i, NEW j, i # j
  PROVE  Cardinality({i, j}) = 2 /\ IsFiniteSet({i, j})
<1>1. Cardinality({i}) = 1 /\ IsFiniteSet({i}) /\ {i, j} = {i} \cup {j}
  BY FS_Singleton
<1>2. j \notin {i}
  OBVIOUS
<1>3. Cardinality({i} \cup {j}) = 2 /\ IsFiniteSet({i} \cup {j})
  BY <1>1, <1>2, FS_AddElement
<1>. QED
  BY <1>1, <1>3

\* One engine alone covers less than half.
LEMMA TwoEngines ==
  ASSUME UnifiedTypeOK, NEW S, NEW cov \in {Covered(S), Round(3 * Covered(S), 4)}, ~(cov < Full \div 2)
  PROVE  Cardinality({i \in 1..3 : Engines[i].cov > 0}) >= 2
<1>. DEFINE c == Coverages
            P == {i \in 1..3 : Engines[i].cov > 0}
<1>1. \A i \in 1..3 : c[i] = Engines[i].cov /\ c[i] \in 0..Full
  <2>1. \A i \in 1..3 : i = 1 \/ i = 2 \/ i = 3
    OBVIOUS
  <2>. QED
    BY <2>1, EngineFacts
<1>2. Covered(S) \in Nat /\ \A n \in Nat : 30 * c[1] + 40 * c[2] + 30 * c[3] <= n * 100 => Covered(S) <= n
  BY CoveredType
<1>3. \E i, j \in P : i # j
  <2>1. SUFFICES ASSUME ~(\E i, j \in P : i # j) PROVE FALSE
    OBVIOUS
  <2>. HIDE DEF c
  <2>2. ~(c[1] > 0 /\ c[2] > 0) /\ ~(c[1] > 0 /\ c[3] > 0) /\ ~(c[2] > 0 /\ c[3] > 0)
    BY <1>1, <2>1
  <2>3. 30 * c[1] + 40 * c[2] + 30 * c[3] <= 400 * 100
    <3>1. PICK x, y, z : x = c[1] /\ y = c[2] /\ z = c[3]
      OBVIOUS
    <3>2. x \in 0..Full /\ y \in 0..Full /\ z \in 0..Full
      BY <1>1, <3>1
    <3>3. /\ x \in Int /\ 0 <= x /\ x <= 1000 /\ y \in Int /\ 0 <= y /\ y <= 1000
          /\ z \in Int /\ 0 <= z /\ z <= 1000
      BY <3>2 DEF Full
    <3>4. ~(x > 0 /\ y > 0) /\ ~(x > 0 /\ z > 0) /\ ~(y > 0 /\ z > 0)
      BY <2>2, <3>1
    <3>5. 30 * x + 40 * y + 30 * z <= 400 * 100
      BY <3>3, <3>4, OneOfThree
    <3>. QED
      BY <3>1, <3>5
  <2>4. Covered(S) <= 400
    BY <1>2, <2>3
  <2>5. Round(3 * Covered(S), 4) \in Int /\ Round(3 * Covered(S), 4) <= 300
    <3>1. PICK x, m : x = 3 * Covered(S) /\ m = 300 /\ x \in Int /\ m \in Int /\ x <= m * 4
      BY <1>2, <2>4
    <3>2. 4 \in Nat \ {0}
      OBVIOUS
    <3>3. Round(x, 4) \in Int /\ Round(x, 4) <= m
      BY <3>1, <3>2, RoundIsInt, Zenon
    <3>. QED
      BY <3>1, <3>3
  <2>. QED
    BY <1>2, <2>4, <2>5 DEF Full
<1>4. PICK i \in P, j \in P : i # j
  BY <1>3
<1>5. IsFiniteSet(P)
  BY ThreeIndices
<1>. HIDE DEF P
<1>6. Cardinality({i, j}) = 2
  BY <1>4, TwoElements
<1>7. Cardinality({i, j}) <= Cardinality(P) /\ Cardinality(P) \in Nat
  <2>1. {i, j} \in SUBSET P
    OBVIOUS
  <2>. QED
    BY <1>5, <2>1, FS_Subset, FS_CardinalityType
<1>8. Cardinality(P) >= 2
  BY <1>6, <1>7
<1>. QED
  BY <1>8 DEF P

LEMMA SummaryTypes ==
  ASSUME UnifiedTypeOK
  PROVE  \A e \in {static, fork, heuristics} : e.score \in Scores
BY Zenon DEF UnifiedTypeOK

LEMMA ThreeElements ==
  ASSUME NEW i, NEW j, NEW k, i # j, k \notin {i, j}
  PROVE  Cardinality({i, j, k}) = 3
<1>2. Cardinality({i, j}) = 2 /\ IsFiniteSet({i, j})
  BY TwoElements
<1>3. Cardinality({i, j} \cup {k}) = 3
  BY <1>2, FS_AddElement
<1>4. {i, j, k} = {i, j} \cup {k}
  OBVIOUS
<1>. QED
  BY <1>3, <1>4

LEMMA HardBand ==
  ASSUME UnifiedTypeOK, heuristics.score = 10000
  PROVE  Band # "LOW_RISK"
<1>. DEFINE s == [i \in 1..3 |-> Engines[i].score]
            A == Available
            w == [i \in A |-> Weight[i] * s[i]]
            u == [i \in A |-> Weight[i]]
<1>1. A \in SUBSET (1..3) /\ \A i \in A : s[i] # NoScore
  BY DEF Available
<1>2. s[3] = 10000 /\ 3 \in A
  BY EngineFacts DEF Available, NoScore
<1>3. \A e \in {static, fork, heuristics} : e.score \in Scores
  BY SummaryTypes
<1>4. \A i \in 1..3 : s[i] \in Scores
  <2>1. \A i \in 1..3 : i = 1 \/ i = 2 \/ i = 3
    OBVIOUS
  <2>2. \A i \in 1..3 : s[i] = Engines[i].score
    OBVIOUS
  <2>. HIDE DEF s
  <2>. QED
    BY <1>3, <2>1, <2>2, EngineFacts
<1>5. \A x \in Scores : x # NoScore => x \in Int /\ x >= 0
  BY DEF Scores, NoScore
<1>6. \A i \in 1..3 : Weight[i] \in 30..40
  BY DEF Weight
<1>7. Weighted(s, A) = SumOver(w, A) /\ Whole(A) = SumOver(u, A) /\ IsFiniteSet(A)
  <2>1. IsFiniteSet(A)
    BY <1>1, ThreeIndices
  <2>. HIDE DEF A, s
  <2>. QED
    BY <2>1, WeightedSum, WholeSum
<1>8. \A i \in A : w[i] = Weight[i] * s[i] /\ u[i] = Weight[i]
  OBVIOUS
<1>. HIDE DEF s, A, w, u
<1>9. \A i \in A : w[i] \in Int /\ w[i] >= 0 /\ u[i] \in Int /\ u[i] <= 40
  <2>1. \A i \in A : s[i] \in Int /\ s[i] >= 0
    BY <1>1, <1>4, <1>5
  <2>2. \A i \in A : Weight[i] \in Int /\ Weight[i] >= 0 /\ Weight[i] <= 40
    BY <1>1, <1>6
  <2>3. \A i, j \in Int : i >= 0 /\ j >= 0 => i * j \in Int /\ i * j >= 0
    OBVIOUS
  <2>. QED
    BY <1>8, <2>1, <2>2, <2>3
<1>10. SumOver(w, A) = w[3] + SumOver(w, A \ {3})
  BY <1>2, <1>7, <1>9, SumTake
<1>11. SumOver(w, A \ {3}) \in Int /\ SumOver(w, A \ {3}) >= 0
  <2>1. IsFiniteSet(A \ {3}) /\ \A i \in A \ {3} : w[i] \in Int /\ w[i] >= 0
    BY <1>7, <1>9, FS_Subset
  <2>. QED
    BY <2>1, SumType
<1>12. SumOver(u, A) \in Int /\ SumOver(u, A) <= 120
  <2>1. SumOver(u, A) \in Int /\ SumOver(u, A) <= 40 * Cardinality(A)
    <3>1. \A i \in A : u[i] \in Int /\ u[i] <= 40
      BY <1>9
    <3>3. SumOver(u, A) \in Int
      BY <1>7, <3>1, SumType
    <3>2. PICK m : m = 40 /\ m \in Int
      OBVIOUS
    <3>4. SumOver(u, A) <= m * Cardinality(A)
      BY <1>7, <3>1, <3>2, SumAtMost
    <3>. QED
      BY <3>2, <3>3, <3>4
  <2>. DEFINE T == 1..3
  <2>3. Cardinality(T) = 3 /\ IsFiniteSet(T)
    <3>1. PICK i, j, k : i = 1 /\ j = 2 /\ k = 3
      OBVIOUS
    <3>2. i # j /\ k # i /\ k # j
      BY <3>1
    <3>3. T = {i, j, k}
      BY <3>1
    <3>. HIDE DEF T
    <3>4. Cardinality({i, j, k}) = 3
      BY <3>2, ThreeElements
    <3>. QED
      BY <3>3, <3>4, ThreeIndices DEF T
  <2>4. Cardinality(A) \in Int /\ Cardinality(A) <= 3
    <3>. HIDE DEF T
    <3>1. A \in SUBSET T
      BY <1>1 DEF T
    <3>2. Cardinality(A) <= Cardinality(T)
      BY <2>3, <3>1, FS_Subset
    <3>3. Cardinality(A) \in Nat
      BY <1>7, FS_CardinalityType
    <3>. QED
      BY <2>3, <3>2, <3>3
  <2>. QED
    BY <2>1, <2>4
<1>13. w[3] = 30 * 10000
  BY <1>2, <1>8 DEF Weight
<1>14. Weighted(s, A) >= 100 * 20 * Whole(A)
  <2>1. PICK x, y, z : x = SumOver(w, A) /\ y = SumOver(u, A) /\ z = SumOver(w, A \ {3})
    OBVIOUS
  <2>2. x = w[3] + z /\ z \in Int /\ z >= 0 /\ y \in Int /\ y <= 120
    BY <1>10, <1>11, <1>12, <2>1
  <2>3. x >= 100 * 20 * y
    BY <1>13, <2>2
  <2>. QED
    BY <1>7, <2>1, <2>3
<1>15. A # {}
  BY <1>2
<1>. QED
  BY <1>14, <1>15 DEF Band, A, s

-----------------------------------------------------------------------------
(* Summaries *)

LEMMA StaticFields ==
  \A F, s, c, v, a :
    LET e == Joined([findings |-> F], Summary(s, c, v, a))
    IN  e.findings = F /\ e.status = s /\ e.score = c /\ e.cov = v /\ e.anchor = a
BY DEF Joined, Summary

LEMMA ForkFields ==
  \A r, s, c, v, a :
    LET e == Joined([result |-> r], Summary(s, c, v, a))
    IN  /\ e.result = r /\ e.status = s /\ e.score = c /\ e.cov = v /\ e.anchor = a
        /\ {"result", "status", "score", "cov", "anchor"} = DOMAIN e
BY DEF Joined, Summary

LEMMA HeuristicsFields ==
  \A F, h, b, s, c, v, a :
    LET e == Joined([findings |-> F, held |-> h, buyers |-> b], Summary(s, c, v, a))
    IN  /\ e.held = h /\ e.status = s /\ e.score = c /\ e.cov = v /\ e.anchor = a
        /\ {"findings", "held", "buyers", "status", "score", "cov", "anchor"} = DOMAIN e
BY DEF Joined, Summary

Blank(e) == e.status = "unknown" /\ e.score \in {NoScore, 0} /\ e.cov = 0

LEMMA HeldFields ==
  ASSUME NEW a, NEW b
  PROVE  LET h == [NoHeuristics EXCEPT !.anchor = a]
             g == [h EXCEPT !.held = b]
         IN  /\ Blank(h) /\ h.anchor = a /\ h.held = <<>>
             /\ Blank(g) /\ g.anchor = a /\ g.held = b
<1>1. /\ NoHeuristics.status = "unknown" /\ NoHeuristics.score = NoScore /\ NoHeuristics.cov = 0
      /\ NoHeuristics.held = <<>>
      /\ DOMAIN NoHeuristics = {"findings", "held", "buyers", "status", "score", "cov", "anchor"}
  BY HeuristicsFields DEF NoHeuristics, Absent
<1>. QED
  BY <1>1 DEF Blank

LEMMA NoSummaries ==
  /\ Blank(NoStatic) /\ NoStatic.anchor = NoBlock
  /\ Blank(NoFork) /\ NoFork.anchor = NoBlock
  /\ Blank(NoHeuristics) /\ NoHeuristics.anchor = NoBlock /\ NoHeuristics.held = <<>>
  /\ \A a : Blank([NoFork EXCEPT !.anchor = a]) /\ [NoFork EXCEPT !.anchor = a].anchor = a
  /\ LET h == [NoHeuristics EXCEPT !.score = 0]
     IN  Blank(h) /\ h.anchor = NoBlock /\ h.held = <<>>
  /\ \A a : LET h == [NoHeuristics EXCEPT !.anchor = a]
            IN  Blank(h) /\ h.anchor = a /\ h.held = <<>>
<1>1. NoStatic.status = "unknown" /\ NoStatic.score = NoScore /\ NoStatic.cov = 0 /\ NoStatic.anchor = NoBlock
  BY StaticFields DEF NoStatic, Absent
<1>2. /\ NoFork.status = "unknown" /\ NoFork.score = NoScore /\ NoFork.cov = 0 /\ NoFork.anchor = NoBlock
      /\ DOMAIN NoFork = {"result", "status", "score", "cov", "anchor"}
  BY ForkFields DEF NoFork, Absent
<1>3. /\ NoHeuristics.status = "unknown" /\ NoHeuristics.score = NoScore /\ NoHeuristics.cov = 0
      /\ NoHeuristics.anchor = NoBlock /\ NoHeuristics.held = <<>>
      /\ DOMAIN NoHeuristics = {"findings", "held", "buyers", "status", "score", "cov", "anchor"}
  BY HeuristicsFields DEF NoHeuristics, Absent
<1>4. \A a : Blank([NoFork EXCEPT !.anchor = a]) /\ [NoFork EXCEPT !.anchor = a].anchor = a
  BY <1>2 DEF Blank
<1>5. LET h == [NoHeuristics EXCEPT !.score = 0]
      IN  Blank(h) /\ h.anchor = NoBlock /\ h.held = <<>>
  BY <1>3 DEF Blank
<1>6. \A a : LET h == [NoHeuristics EXCEPT !.anchor = a]
            IN  Blank(h) /\ h.anchor = a /\ h.held = <<>>
  BY HeldFields
<1>. QED
  BY <1>1, <1>2, <1>3, <1>4, <1>5, <1>6 DEF Blank

-----------------------------------------------------------------------------
(* The types *)

SummaryOK(e) ==
    /\ e.status \in {"unknown", "partial", "complete"}
    /\ e.score \in Scores /\ e.cov \in 0..Full
    /\ e.anchor \in (0..MaxBlocks) \X (0..MaxReorgs)
BlockRecord == [ver : 0..MaxReorgs, transfer : Transfers]

LEMMA TypeFacts ==
  ASSUME UnifiedTypeOK
  PROVE  /\ chain \in Seq(BlockRecord) /\ Len(chain) \in 1..MaxBlocks
         /\ obs \in Observations /\ req \in Requests \cup {NoRequest} /\ number \in Nat
         /\ reorgs \in 0..MaxReorgs
         /\ SummaryOK(static) /\ SummaryOK(fork) /\ SummaryOK(heuristics)
<1>1. \A e \in {static, fork, heuristics} : SummaryOK(e)
  BY Zenon DEF UnifiedTypeOK, SummaryOK
<1>. QED
  BY <1>1, Zenon DEF UnifiedTypeOK, BlockRecord

\* What is left to show of a step that leaves the chain and the token alone.
LEMMA TypesFrom ==
  ASSUME UnifiedTypeOK, UNCHANGED <<chain, obs, reorgs>>, req' \in Requests \cup {NoRequest},
         pc' \in {"idle", "anchor", "static", "fork", "heuristics", "read", "score", "combine"},
         number' \in Nat, SummaryOK(static'), SummaryOK(fork'), SummaryOK(heuristics'),
         \A n \in DOMAIN features' : features'[n].cov \in 0..Full,
         report'.status \in {"none", "failed", "unknown", "partial", "complete"}
  PROVE  UnifiedTypeOK'
<1>1. \A e \in {static', fork', heuristics'} :
        /\ e.status \in {"unknown", "partial", "complete"}
        /\ e.score \in Scores /\ e.cov \in 0..Full
        /\ e.anchor \in (0..MaxBlocks) \X (0..MaxReorgs)
  BY Zenon DEF SummaryOK
<1>2. /\ chain' \in Seq([ver : 0..MaxReorgs, transfer : Transfers]) /\ Len(chain') \in 1..MaxBlocks
      /\ obs' \in Observations /\ reorgs' \in 0..MaxReorgs
  BY TypeFacts DEF BlockRecord
<1>. QED
  BY <1>1, <1>2, Zenon DEF UnifiedTypeOK

LEMMA ChainTypes ==
  ASSUME UnifiedTypeOK, UNCHANGED <<obs, pc, report, scan>>, chain' \in Seq(BlockRecord),
         Len(chain') \in 1..MaxBlocks, reorgs' \in 0..MaxReorgs
  PROVE  UnifiedTypeOK'
BY Zenon DEF UnifiedTypeOK, scan, BlockRecord

LEMMA BlockType ==
  ASSUME UnifiedTypeOK, NEW n \in DOMAIN chain
  PROVE  Block(n) \in (0..MaxBlocks) \X (0..MaxReorgs) /\ Block(n)[1] = n
<1>1. n \in 1..Len(chain) /\ chain[n] \in BlockRecord /\ Len(chain) \in 1..MaxBlocks
  BY TypeFacts
<1>2. MaxBlocks \in Nat /\ MaxReorgs \in Nat
  BY UnifiedScanAssumption
<1>3. n \in 0..MaxBlocks /\ chain[n].ver \in 0..MaxReorgs
  BY <1>1, <1>2 DEF BlockRecord
<1>. QED
  BY <1>3 DEF Block

LEMMA NoBlockType == NoBlock \in (0..MaxBlocks) \X (0..MaxReorgs) /\ NoBlock[1] = 0
BY UnifiedScanAssumption DEF NoBlock

LEMMA BlankOK ==
  ASSUME NEW e, Blank(e), e.anchor \in (0..MaxBlocks) \X (0..MaxReorgs)
  PROVE  SummaryOK(e)
<1>1. 0 \in Scores /\ NoScore \in Scores
  BY DEF Scores
<1>2. 0 \in 0..Full
  BY DEF Full
<1>. QED
  BY <1>1, <1>2, Zenon DEF Blank, SummaryOK

LEMMA NoneOK == SummaryOK(NoStatic) /\ SummaryOK(NoFork) /\ SummaryOK(NoHeuristics)
BY NoSummaries, NoBlockType, BlankOK

LEMMA NoReportStatus ==
  NoReport.status = "none" /\ [NoReport EXCEPT !.status = "failed"].status = "failed"
BY DEF NoReport

LEMMA InitTypes == UnifiedInit => UnifiedTypeOK
<1>. SUFFICES ASSUME UnifiedInit PROVE UnifiedTypeOK
  OBVIOUS
<1>1. chain \in Seq([ver : 0..MaxReorgs, transfer : Transfers]) /\ Len(chain) \in 1..MaxBlocks
  <2>1. PICK t \in Transfers : chain = <<[ver |-> 0, transfer |-> t]>>
    BY DEF UnifiedInit
  <2>2. [ver |-> 0, transfer |-> t] \in [ver : 0..MaxReorgs, transfer : Transfers]
    BY UnifiedScanAssumption
  <2>. QED
    BY <2>1, <2>2, UnifiedScanAssumption
<1>2. SummaryOK(static) /\ SummaryOK(fork) /\ SummaryOK(heuristics)
  BY NoneOK DEF UnifiedInit
<1>3. \A e \in {static, fork, heuristics} :
        /\ e.status \in {"unknown", "partial", "complete"}
        /\ e.score \in Scores /\ e.cov \in 0..Full
        /\ e.anchor \in (0..MaxBlocks) \X (0..MaxReorgs)
  BY <1>2, Zenon DEF SummaryOK
<1>4. report.status = "none"
  BY NoReportStatus DEF UnifiedInit
<1>5. reorgs \in 0..MaxReorgs /\ number \in Nat /\ DOMAIN features = {}
  BY UnifiedScanAssumption DEF UnifiedInit, NoFeatures
<1>6. obs \in Observations /\ req = NoRequest /\ pc = "idle"
  BY DEF UnifiedInit
<1>. QED
  BY <1>1, <1>3, <1>4, <1>5, <1>6 DEF UnifiedTypeOK

-----------------------------------------------------------------------------
(* The work of a scan *)

\* How the heuristics start to read; what they can score; and the score of a token
\* that was seen to have no code.
Starting(h) == h = [NoHeuristics EXCEPT !.anchor = h.anchor]
Scorable(f, code) ==
  /\ Sound(f) /\ DOMAIN f # {}
  /\ code.read /\ ~code.present => Codeless(f)
Graded(h, code) == h.status # "unknown" /\ code.read /\ ~code.present => h.score = 10000

WorkInv ==
  /\ pc \notin {"idle", "combine"} => Blank(heuristics)
  /\ pc = "read" => Starting(heuristics)
  /\ pc = "score" => Scorable(features, obs.code)
  /\ Graded(heuristics, obs.code)

LEMMA TokenFacts ==
  ASSUME UnifiedTypeOK
  PROVE  /\ MarketOK(obs.market, obs.pools)
         /\ obs.code.read \in BOOLEAN /\ obs.code.present \in BOOLEAN
<1>1. obs \in Observations
  BY TypeFacts
<1>2. obs.code.read \in BOOLEAN /\ obs.code.present \in BOOLEAN
  BY <1>1, UnifiedScanAssumption
<1>3. MarketOK(obs.market, obs.pools)
  BY <1>1, UnifiedScanAssumption DEF MarketOK, PoolOK
<1>. QED
  BY <1>2, <1>3

\* What the heuristics read can be scored, and says when there is no code.
LEMMA ReadSound ==
  ASSUME UnifiedTypeOK, NEW log
  PROVE  LET code == IF obs.code.read THEN CodeFeatures(obs.code) ELSE <<>>
             counted == IF obs.logs THEN [log_count_window |-> Feature(Cardinality(log), Full)] ELSE <<>>
             intel == IntelFeatures(log, obs.logs, obs.market, obs.pools, req.deployer)
             f == Joined(Joined(MarketFeatures(obs.market), intel), Joined(code, counted))
         IN  Scorable(f, obs.code)
<1>. DEFINE code == IF obs.code.read THEN CodeFeatures(obs.code) ELSE <<>>
            counted == IF obs.logs THEN [log_count_window |-> Feature(Cardinality(log), Full)] ELSE <<>>
            intel == IntelFeatures(log, obs.logs, obs.market, obs.pools, req.deployer)
            market == MarketFeatures(obs.market)
            seen == Joined(market, intel)
            f == Joined(seen, Joined(code, counted))
            NoCode == obs.code.read /\ ~obs.code.present
<1>1. Silent(seen) /\ DOMAIN seen # {}
  <2>1. Silent(market)
    BY MarketSound
  <2>2. Silent(intel) /\ DOMAIN intel # {}
    BY TokenFacts, IntelSound
  <2>. HIDE DEF market, intel
  <2>3. Silent(seen)
    BY <2>1, <2>2, JoinedSound DEF Silent
  <2>4. DOMAIN seen = DOMAIN market \cup DOMAIN intel
    BY DEF Joined
  <2>. QED
    BY <2>2, <2>3, <2>4
<1>2. Sound(code)
  <2>1. CASE obs.code.read
    BY <2>1, CodeSound
  <2>2. CASE ~obs.code.read
    BY <2>2, SilentEmpty DEF Silent
  <2>. QED
    BY <2>1, <2>2
<1>3. Sound(counted)
  <2>1. CASE obs.logs
    <3>. DEFINE h == [log_count_window |-> Feature(Cardinality(log), Full)]
    <3>1. DOMAIN h = {"log_count_window"} /\ h["log_count_window"] = Feature(Cardinality(log), Full)
      OBVIOUS
    <3>2. IsFeature(h["log_count_window"])
      <4>1. Full \in 0..Full
        BY DEF Full
      <4>. QED
        BY <3>1, <4>1, FeatureSound
    <3>. HIDE DEF h
    <3>3. Sound(h)
      BY <3>1, <3>2, FS_Singleton DEF Sound
    <3>. QED
      BY <2>1, <3>3 DEF h
  <2>2. CASE ~obs.logs
    BY <2>2, SilentEmpty DEF Silent
  <2>. QED
    BY <2>1, <2>2
<1>4. NoCode => "token_has_code" \in DOMAIN code /\ code["token_has_code"] = Feature(FALSE, Full)
  <2>. SUFFICES ASSUME NoCode
                PROVE  "token_has_code" \in DOMAIN code /\ code["token_has_code"] = Feature(FALSE, Full)
    OBVIOUS
  <2>1. code = CodeFeatures(obs.code)
    OBVIOUS
  <2>2. obs.code.present = FALSE
    BY TokenFacts
  <2>. HIDE DEF code
  <2>. QED
    BY <2>1, <2>2, CodeSound
<1>. HIDE DEF code, counted, seen
<1>5. Sound(Joined(code, counted))
  BY <1>2, <1>3, JoinedSound
<1>6. Sound(f)
  BY <1>1, <1>5, JoinedSound DEF Silent
<1>7. DOMAIN f = DOMAIN seen \cup (DOMAIN code \cup DOMAIN counted)
  BY DEF Joined
<1>8. NoCode => f["token_has_code"] = Feature(FALSE, Full)
  BY <1>1, <1>4, <1>7 DEF Joined, Silent
<1>9. DOMAIN f # {} /\ (NoCode => "token_has_code" \in DOMAIN f)
  BY <1>1, <1>4, <1>7
<1>. HIDE DEF f
<1>10. Scorable(f, obs.code)
  BY <1>6, <1>8, <1>9 DEF Scorable, Codeless
<1>. QED
  BY <1>10 DEF f, seen, code, counted

LEMMA GrowTypes ==
  ASSUME UnifiedTypeOK, Grow
  PROVE  /\ \E t \in Transfers : LET b == [ver |-> 0, transfer |-> t]
                                 IN  Possible(chain, t) /\ b \in BlockRecord /\ chain' = Append(chain, b)
         /\ UnifiedTypeOK'
<1>1. PICK t \in Transfers : Possible(chain, t) /\ chain' = Append(chain, [ver |-> 0, transfer |-> t])
  BY DEF Grow
<1>. DEFINE b == [ver |-> 0, transfer |-> t]
<1>2. b \in BlockRecord
  BY UnifiedScanAssumption DEF BlockRecord
<1>. HIDE DEF b
<1>3. chain' = Append(chain, b) /\ Possible(chain, t)
  BY <1>1 DEF b
<1>4. chain' \in Seq(BlockRecord) /\ Len(chain') = Len(chain) + 1
  BY <1>2, <1>3, TypeFacts, AppendProperties
<1>5. Len(chain') \in 1..MaxBlocks /\ reorgs' \in 0..MaxReorgs
  BY <1>4, TypeFacts, UnifiedScanAssumption DEF Grow
<1>6. UnifiedTypeOK'
  BY <1>4, <1>5, ChainTypes DEF Grow
<1>. QED
  BY <1>2, <1>3, <1>6 DEF b

LEMMA ReorgTypes ==
  ASSUME UnifiedTypeOK, Reorg
  PROVE  /\ Len(chain) > 1 /\ Len(chain') = Len(chain) /\ Front(chain) \in Seq(BlockRecord)
         /\ Len(Front(chain)) = Len(chain) - 1 /\ \A i \in 1..Len(chain) - 1 : Front(chain)[i] = chain[i]
         /\ \E t \in Transfers : LET b == [ver |-> reorgs + 1, transfer |-> t]
              IN  Possible(Front(chain), t) /\ b \in BlockRecord /\ chain' = Append(Front(chain), b)
         /\ UnifiedTypeOK'
<1>1. PICK t \in Transfers : /\ Possible(Front(chain), t)
                             /\ chain' = [chain EXCEPT ![Len(chain)] = [ver |-> reorgs + 1, transfer |-> t]]
  BY DEF Reorg
<1>. DEFINE b == [ver |-> reorgs + 1, transfer |-> t]
<1>2. b \in BlockRecord /\ reorgs' \in 0..MaxReorgs /\ Len(chain) > 1
  <2>1. reorgs \in 0..MaxReorgs /\ reorgs < MaxReorgs /\ reorgs' = reorgs + 1 /\ Len(chain) > 1
    BY TypeFacts DEF Reorg
  <2>2. MaxReorgs \in Nat
    BY UnifiedScanAssumption
  <2>3. reorgs + 1 \in 0..MaxReorgs
    BY <2>1, <2>2
  <2>. QED
    BY <2>1, <2>3 DEF BlockRecord
<1>. HIDE DEF b
<1>3. chain' = [chain EXCEPT ![Len(chain)] = b] /\ Possible(Front(chain), t)
  BY <1>1 DEF b
<1>4. chain \in Seq(BlockRecord) /\ Len(chain) \in Nat
  BY TypeFacts
<1>5. chain' \in Seq(BlockRecord) /\ Len(chain') = Len(chain)
  BY <1>2, <1>3, <1>4, ExceptSeq
<1>6. /\ Front(chain) \in Seq(BlockRecord) /\ Len(Front(chain)) = Len(chain) - 1
      /\ \A i \in 1..Len(chain) - 1 : Front(chain)[i] = chain[i]
  BY <1>2, <1>4 DEF Front
<1>7. chain' = Append(Front(chain), b)
  <2>. DEFINE s == Append(Front(chain), b)
              n == Len(chain)
  <2>1. s \in Seq(BlockRecord) /\ Len(s) = n /\ s[n] = b /\ \A i \in 1..n - 1 : s[i] = chain[i]
    BY <1>2, <1>4, <1>6, AppendProperties
  <2>2. chain'[n] = b /\ \A i \in 1..n - 1 : chain'[i] = chain[i]
    BY <1>2, <1>3, <1>4
  <2>. HIDE DEF s
  <2>3. \A i \in 1..n : i = n \/ i \in 1..n - 1
    BY <1>4
  <2>4. \A i \in 1..n : chain'[i] = s[i]
    BY <2>1, <2>2, <2>3
  <2>5. chain' = s
    BY <1>5, <2>1, <2>4, SeqEqual
  <2>. QED
    BY <2>5 DEF s
<1>8. UnifiedTypeOK'
  BY <1>2, <1>5, TypeFacts, ChainTypes DEF Reorg
<1>. QED
  BY <1>2, <1>3, <1>5, <1>6, <1>7, <1>8 DEF b

\* A step that leaves the heuristics alone.
LEMMA WorkFrom ==
  ASSUME WorkInv, UNCHANGED <<obs, heuristics>>,
         \/ UNCHANGED <<pc, features>>
         \/ pc \notin {"idle", "combine"} /\ pc' \notin {"read", "score"}
  PROVE  WorkInv'
BY DEF WorkInv

LEMMA ChainWork ==
  ASSUME WorkInv, UNCHANGED <<obs, pc, scan>>
  PROVE  WorkInv'
BY WorkFrom DEF scan

LEMMA BeginTypes ==
  ASSUME UnifiedTypeOK, Begin
  PROVE  UnifiedTypeOK' /\ WorkInv'
<1>1. UNCHANGED <<chain, obs, features, reorgs>> /\ req' \in Requests \cup {NoRequest} /\ pc' = "anchor"
  BY DEF Begin
<1>2. number' \in Nat
  BY DEF Begin
<1>3. static' = NoStatic /\ fork' = NoFork /\ heuristics' = NoHeuristics /\ report' = NoReport
  BY DEF Begin
<1>4. \A n \in DOMAIN features' : features'[n].cov \in 0..Full
  BY <1>1, Zenon DEF UnifiedTypeOK
<1>5. UnifiedTypeOK'
  <2>1. SummaryOK(static') /\ SummaryOK(fork') /\ SummaryOK(heuristics') /\ report'.status = "none"
    BY <1>3, NoneOK, NoReportStatus
  <2>. QED
    BY <1>1, <1>2, <1>4, <2>1, TypesFrom
<1>6. Blank(heuristics')
  BY <1>3, NoSummaries
<1>7. WorkInv'
  <2>1. Graded(heuristics', obs.code')
    BY <1>6 DEF Graded, Blank
  <2>. QED
    BY <1>1, <1>6, <2>1 DEF WorkInv
<1>. QED
  BY <1>5, <1>7

LEMMA TagType ==
  ASSUME UnifiedTypeOK, NEW tag
  PROVE  TagNumber(tag) \in 1..Len(chain)
<1>1. Len(chain) \in Nat \ {0}
  BY TypeFacts
<1>. QED
  BY <1>1 DEF TagNumber

LEMMA RequestBlock ==
  ASSUME UnifiedTypeOK
  PROVE  req.block \in Nat
BY TypeFacts, UnifiedScanAssumption DEF NoRequest

LEMMA AnchorTypes ==
  ASSUME UnifiedTypeOK, WorkInv, Anchor
  PROVE  UnifiedTypeOK' /\ WorkInv'
<1>1. UNCHANGED <<chain, obs, req, static, fork, heuristics, features, report, reorgs>>
  BY DEF Anchor
<1>2. pc = "anchor" /\ pc' = "static"
  BY DEF Anchor
<1>3. number' \in Nat
  <2>1. number' = req.block \/ number' = TagNumber(req.tag)
    BY DEF Anchor
  <2>2. req.block \in Nat
    BY RequestBlock
  <2>3. TagNumber(req.tag) \in Nat
    BY TagType, TypeFacts
  <2>. QED
    BY <2>1, <2>2, <2>3
<1>4. UnifiedTypeOK'
  BY <1>1, <1>2, <1>3, Zenon DEF UnifiedTypeOK
<1>5. WorkInv'
  BY <1>1, <1>2 DEF WorkInv
<1>. QED
  BY <1>4, <1>5

LEMMA StaticTypes ==
  ASSUME UnifiedTypeOK, WorkInv, StaticRun
  PROVE  UnifiedTypeOK' /\ WorkInv'
<1>1. UNCHANGED <<chain, obs, req, number, fork, heuristics, features, report, reorgs>>
  BY DEF StaticRun
<1>2. pc = "static" /\ pc' = "fork"
  BY DEF StaticRun
<1>3. SummaryOK(static')
  <2>1. CASE ~req.project
    BY <2>1, TypeFacts DEF StaticRun
  <2>2. CASE req.project
    <3>1. PICK run \in StaticRuns :
            static' = Joined([findings |-> run.findings],
                             Summary(run.status, StaticScore(run.findings),
                                     IF run.status = "complete" THEN Full ELSE 0, NoBlock))
      BY <2>2 DEF StaticRun
    <3>2. /\ static'.status = run.status /\ static'.score = StaticScore(run.findings)
          /\ static'.cov \in {0, Full} /\ static'.anchor = NoBlock
      BY <3>1, StaticFields
    <3>3. run.status \in {"unknown", "partial", "complete"}
      BY UnifiedScanAssumption
    <3>4. StaticScore(run.findings) \in Scores
      <4>. DEFINE F == run.findings
      <4>1. /\ IsFiniteSet(F)
            /\ \A f \in F : f.severity \in {"informational", "low", "medium", "high", "critical"}
        BY UnifiedScanAssumption
      <4>. HIDE DEF F
      <4>2. StaticScore(F) \in Scores
        BY <4>1, StaticScoreType
      <4>. QED
        BY <4>2 DEF F
    <3>5. {0, Full} \subseteq 0..Full
      BY DEF Full
    <3>. QED
      BY <3>2, <3>3, <3>4, <3>5, NoBlockType DEF SummaryOK
  <2>. QED
    BY <2>1, <2>2
<1>4. UnifiedTypeOK'
  <2>1. /\ UNCHANGED <<chain, obs, reorgs>> /\ req' \in Requests \cup {NoRequest} /\ number' \in Nat
        /\ SummaryOK(fork') /\ SummaryOK(heuristics')
    BY <1>1, TypeFacts
  <2>2. /\ \A n \in DOMAIN features' : features'[n].cov \in 0..Full
        /\ report'.status \in {"none", "failed", "unknown", "partial", "complete"}
    BY <1>1, Zenon DEF UnifiedTypeOK
  <2>. QED
    BY <1>2, <1>3, <2>1, <2>2, TypesFrom
<1>5. WorkInv'
  BY <1>1, <1>2 DEF WorkInv
<1>. QED
  BY <1>4, <1>5

LEMMA ForkTypes ==
  ASSUME UnifiedTypeOK, WorkInv, ForkRun
  PROVE  UnifiedTypeOK' /\ WorkInv'
<1>1. UNCHANGED <<chain, obs, reorgs, number, static, heuristics, features, req>>
  BY DEF ForkRun
<1>2. pc = "fork" /\ pc' \in {"heuristics", "idle"}
  BY DEF ForkRun, Abort
<1>3. report'.status \in {"none", "failed", "unknown", "partial", "complete"}
  <2>1. report.status \in {"none", "failed", "unknown", "partial", "complete"}
    BY Zenon DEF UnifiedTypeOK
  <2>2. report' = report \/ report' = [NoReport EXCEPT !.status = "failed"]
    BY DEF ForkRun, Abort
  <2>. QED
    BY <2>1, <2>2, NoReportStatus
<1>4. SummaryOK(fork')
  <2>. DEFINE n == EngineNumber
  <2>1. \/ fork' = fork \/ fork' = NoFork
        \/ Anchored /\ fork' = [NoFork EXCEPT !.anchor = Block(n)]
        \/ Anchored /\ \E result : fork' = Joined([result |-> result],
                              IF result = "unknown" THEN Summary("partial", 0, 0, Block(n))
                              ELSE Summary("complete", ForkScore(result), Full, Block(n)))
    BY DEF ForkRun
  <2>2. Anchored => Block(n) \in (0..MaxBlocks) \X (0..MaxReorgs)
    BY BlockType DEF Anchored
  <2>. HIDE DEF n
  <2>3. CASE fork' = fork \/ fork' = NoFork
    BY <2>3, TypeFacts, NoneOK
  <2>4. CASE Anchored /\ fork' = [NoFork EXCEPT !.anchor = Block(n)]
    BY <2>2, <2>4, NoSummaries, BlankOK
  <2>5. ASSUME Anchored, NEW result,
               fork' = Joined([result |-> result],
                              IF result = "unknown" THEN Summary("partial", 0, 0, Block(n))
                              ELSE Summary("complete", ForkScore(result), Full, Block(n)))
        PROVE  SummaryOK(fork')
    <3>1. 0 \in 0..Full /\ Full \in 0..Full
      BY DEF Full
    <3>2. 0 \in Scores /\ ForkScore(result) \in Scores
      BY DEF Scores, ForkScore
    <3>3. \/ fork' = Joined([result |-> result], Summary("partial", 0, 0, Block(n)))
          \/ fork' = Joined([result |-> result], Summary("complete", ForkScore(result), Full, Block(n)))
      BY <2>5
    <3>4. /\ fork'.status \in {"partial", "complete"} /\ fork'.score \in {0, ForkScore(result)}
          /\ fork'.cov \in {0, Full} /\ fork'.anchor = Block(n)
      BY <3>3, ForkFields
    <3>. QED
      BY <2>2, <2>5, <3>1, <3>2, <3>4 DEF SummaryOK
  <2>. QED
    BY <2>1, <2>3, <2>4, <2>5
<1>5. UnifiedTypeOK'
  <2>1. /\ UNCHANGED <<chain, obs, reorgs>> /\ req' \in Requests \cup {NoRequest} /\ number' \in Nat
        /\ SummaryOK(static') /\ SummaryOK(heuristics')
    BY <1>1, TypeFacts
  <2>2. \A n \in DOMAIN features' : features'[n].cov \in 0..Full
    BY <1>1, Zenon DEF UnifiedTypeOK
  <2>3. pc' \in {"idle", "anchor", "static", "fork", "heuristics", "read", "score", "combine"}
    BY <1>2
  <2>. QED
    BY <1>3, <1>4, <2>1, <2>2, <2>3, TypesFrom
<1>6. WorkInv'
  BY <1>1, <1>2, WorkFrom
<1>. QED
  BY <1>5, <1>6

LEMMA ReadTypes ==
  ASSUME UnifiedTypeOK, WorkInv, HeuristicsAnchor
  PROVE  UnifiedTypeOK' /\ WorkInv'
<1>1. UNCHANGED <<chain, obs, reorgs, req, number, static, fork, features, report>>
  BY DEF HeuristicsAnchor
<1>2. pc = "heuristics" /\ pc' \in {"combine", "read"}
  BY DEF HeuristicsAnchor
<1>. DEFINE n == EngineNumber
            none == [NoHeuristics EXCEPT !.score = 0]
            h(a) == [NoHeuristics EXCEPT !.anchor = a]
<1>3. \/ pc' = "combine" /\ heuristics' = heuristics
      \/ pc' = "combine" /\ heuristics' = none
      \/ Anchored /\ pc' = "read" /\ heuristics' = h(Block(n))
  BY DEF HeuristicsAnchor
<1>4. Blank(none) /\ none.anchor = NoBlock /\ \A a : Blank(h(a)) /\ h(a).anchor = a
  BY NoSummaries
<1>5. Anchored => Block(n) \in (0..MaxBlocks) \X (0..MaxReorgs)
  BY BlockType DEF Anchored
<1>6. Starting(h(Block(n)))
  BY <1>4 DEF Starting
<1>7. Blank(heuristics)
  BY <1>2 DEF WorkInv
<1>. HIDE DEF n, none, h
<1>8. Blank(heuristics') /\ SummaryOK(heuristics')
  BY <1>3, <1>4, <1>5, <1>7, TypeFacts, NoBlockType, BlankOK
<1>9. Graded(heuristics', obs.code')
  BY <1>8 DEF Graded, Blank
<1>10. WorkInv'
  BY <1>1, <1>3, <1>6, <1>8, <1>9 DEF WorkInv
<1>11. UnifiedTypeOK'
  <2>1. /\ UNCHANGED <<chain, obs, reorgs>> /\ req' \in Requests \cup {NoRequest} /\ number' \in Nat
        /\ SummaryOK(static') /\ SummaryOK(fork')
    BY <1>1, TypeFacts
  <2>2. /\ \A m \in DOMAIN features' : features'[m].cov \in 0..Full
        /\ report'.status \in {"none", "failed", "unknown", "partial", "complete"}
    BY <1>1, Zenon DEF UnifiedTypeOK
  <2>3. pc' \in {"idle", "anchor", "static", "fork", "heuristics", "read", "score", "combine"}
    BY <1>2
  <2>. QED
    BY <1>8, <2>1, <2>2, <2>3, TypesFrom
<1>. QED
  BY <1>10, <1>11

\* What the heuristics have read, besides the holders.
LEMMA ReadStep ==
  ASSUME UnifiedTypeOK, WorkInv, HeuristicsRead
  PROVE  /\ Blank(heuristics') /\ heuristics'.anchor = heuristics.anchor
         /\ LET log == IF obs.logs THEN WindowLog(heuristics.anchor[1]) ELSE {}
            IN  heuristics'.held = Holdings(log)
<1>. DEFINE log == IF obs.logs THEN WindowLog(heuristics.anchor[1]) ELSE {}
            held == Holdings(log)
<1>1. heuristics' = [heuristics EXCEPT !.held = held]
  BY DEF HeuristicsRead
<1>2. Starting(heuristics)
  BY DEF HeuristicsRead, WorkInv
<1>. HIDE DEF held
<1>3. PICK a : a = heuristics.anchor
  OBVIOUS
<1>. DEFINE h == [NoHeuristics EXCEPT !.anchor = a]
<1>4. heuristics = h
  BY <1>2, <1>3 DEF Starting
<1>. DEFINE g == [h EXCEPT !.held = held]
<1>5. Blank(g) /\ g.anchor = a /\ g.held = held
  BY HeldFields
<1>6. heuristics' = g
  BY <1>1, <1>4
<1>. HIDE DEF g
<1>7. Blank(heuristics') /\ heuristics'.anchor = heuristics.anchor /\ heuristics'.held = held
  BY <1>3, <1>5, <1>6
<1>. QED
  BY <1>7 DEF held

LEMMA FeatureTypes ==
  ASSUME UnifiedTypeOK, WorkInv, HeuristicsRead
  PROVE  UnifiedTypeOK' /\ WorkInv'
<1>1. UNCHANGED <<chain, obs, req, number, static, fork, report, reorgs>> /\ pc' = "score"
  BY DEF HeuristicsRead
<1>2. Scorable(features', obs.code)
  <2>. DEFINE log == IF obs.logs THEN WindowLog(heuristics.anchor[1]) ELSE {}
              code == IF obs.code.read THEN CodeFeatures(obs.code) ELSE <<>>
              counted == IF obs.logs THEN [log_count_window |-> Feature(Cardinality(log), Full)] ELSE <<>>
              intel == IntelFeatures(log, obs.logs, obs.market, obs.pools, req.deployer)
              f == Joined(Joined(MarketFeatures(obs.market), intel), Joined(code, counted))
  <2>1. features' = f
    BY DEF HeuristicsRead
  <2>2. Scorable(f, obs.code)
    <3>. HIDE DEF log
    <3>. QED
      BY ReadSound
  <2>. HIDE DEF f
  <2>. QED
    BY <2>1, <2>2
<1>3. Blank(heuristics') /\ heuristics'.anchor = heuristics.anchor
  BY ReadStep
<1>4. SummaryOK(heuristics')
  <2>1. heuristics.anchor \in (0..MaxBlocks) \X (0..MaxReorgs)
    BY TypeFacts DEF SummaryOK
  <2>. QED
    BY <1>3, <2>1, BlankOK
<1>5. Graded(heuristics', obs.code')
  BY <1>3 DEF Graded, Blank
<1>6. WorkInv'
  BY <1>1, <1>2, <1>3, <1>5 DEF WorkInv
<1>7. UnifiedTypeOK'
  <2>1. /\ UNCHANGED <<chain, obs, reorgs>> /\ req' \in Requests \cup {NoRequest} /\ number' \in Nat
        /\ SummaryOK(static') /\ SummaryOK(fork')
    BY <1>1, TypeFacts
  <2>2. \A m \in DOMAIN features' : features'[m].cov \in 0..Full
    BY <1>2, Zenon DEF Scorable, Sound, IsFeature
  <2>3. report'.status \in {"none", "failed", "unknown", "partial", "complete"}
    BY <1>1, Zenon DEF UnifiedTypeOK
  <2>4. pc' \in {"idle", "anchor", "static", "fork", "heuristics", "read", "score", "combine"}
    BY <1>1
  <2>. QED
    BY <1>4, <2>1, <2>2, <2>3, <2>4, TypesFrom
<1>. QED
  BY <1>6, <1>7

LEMMA ScoreStep ==
  ASSUME HeuristicsScore
  PROVE  /\ heuristics'.held = heuristics.held /\ heuristics'.anchor = heuristics.anchor
         /\ heuristics'.score = Score(features).score /\ heuristics'.cov = Score(features).cov
         /\ heuristics'.status \in {"unknown", "partial", "complete"}
<1>1. PICK F, b, status :
        /\ status \in {"unknown", "partial", "complete"}
        /\ heuristics' = Joined([findings |-> F, held |-> heuristics.held, buyers |-> b],
                                Summary(status, Score(features).score, Score(features).cov, heuristics.anchor))
  BY DEF HeuristicsScore
<1>. QED
  BY <1>1, HeuristicsFields

LEMMA ScoreTypes ==
  ASSUME UnifiedTypeOK, WorkInv, HeuristicsScore
  PROVE  UnifiedTypeOK' /\ WorkInv'
<1>0. HeuristicsScore
  OBVIOUS
<1>1. /\ UNCHANGED <<chain, obs, req, number, static, fork, report, reorgs>>
      /\ pc = "score" /\ pc' = "combine" /\ features' = NoFeatures
  BY DEF HeuristicsScore
<1>2. Scorable(features, obs.code)
  BY <1>1 DEF WorkInv
<1>3. Score(features).score \in Scores /\ Score(features).cov \in 0..Full
  <2>1. Sound(features) /\ DOMAIN features # {}
    BY <1>2 DEF Scorable
  <2>. QED
    BY <2>1, ScoreType
<1>4. SummaryOK(heuristics')
  <2>1. heuristics.anchor \in (0..MaxBlocks) \X (0..MaxReorgs)
    BY TypeFacts DEF SummaryOK
  <2>2. /\ heuristics'.anchor = heuristics.anchor /\ heuristics'.score = Score(features).score
        /\ heuristics'.cov = Score(features).cov /\ heuristics'.status \in {"unknown", "partial", "complete"}
    BY <1>0, ScoreStep
  <2>. QED
    BY <1>3, <2>1, <2>2 DEF SummaryOK
<1>5. Graded(heuristics', obs.code')
  <2>1. obs.code.read /\ ~obs.code.present => Score(features).score = 10000
    BY <1>2, NoCodeBlocks DEF Scorable
  <2>. QED
    BY <1>1, <2>1, ScoreStep DEF Graded
<1>6. WorkInv'
  BY <1>1, <1>5 DEF WorkInv
<1>7. UnifiedTypeOK'
  <2>1. /\ UNCHANGED <<chain, obs, reorgs>> /\ req' \in Requests \cup {NoRequest} /\ number' \in Nat
        /\ SummaryOK(static') /\ SummaryOK(fork')
    BY <1>1, TypeFacts
  <2>2. \A m \in DOMAIN features' : features'[m].cov \in 0..Full
    BY <1>1 DEF NoFeatures
  <2>3. report'.status \in {"none", "failed", "unknown", "partial", "complete"}
    BY <1>1, Zenon DEF UnifiedTypeOK
  <2>4. pc' \in {"idle", "anchor", "static", "fork", "heuristics", "read", "score", "combine"}
    BY <1>1
  <2>. QED
    BY <1>4, <2>1, <2>2, <2>3, <2>4, TypesFrom
<1>. QED
  BY <1>6, <1>7

\* The report that _combine makes.
LEMMA CombineStep ==
  ASSUME UnifiedTypeOK, Combine
  PROVE  /\ UNCHANGED <<chain, obs, reorgs, scan>> /\ pc = "combine" /\ pc' = "idle"
         /\ report'.status \in {"unknown", "partial", "complete"}
         /\ \E coverage \in {Covered(Available), Round(3 * Covered(Available), 4)} :
              report'.verdict = Verdict(report'.status, coverage)
<1>. DEFINE states == {Engines[i].status : i \in 1..3}
            status == IF states = {"complete"} THEN "complete"
                      ELSE IF states \cap {"complete", "partial"} # {} THEN "partial" ELSE "unknown"
            agreed == Consistent(Anchors)
            final == IF agreed \/ status = "unknown" THEN status ELSE "partial"
            coverage == IF agreed THEN Covered(Available) ELSE Round(3 * Covered(Available), 4)
<1>1. report' = [status |-> final, verdict |-> Verdict(final, coverage),
                 trusted |-> IF agreed THEN Correlations ELSE {}]
  BY DEF Combine
<1>2. status \in {"unknown", "partial", "complete"}
  OBVIOUS
<1>. HIDE DEF status
<1>3. final \in {"unknown", "partial", "complete"}
  BY <1>2
<1>4. coverage \in {Covered(Available), Round(3 * Covered(Available), 4)}
  OBVIOUS
<1>. HIDE DEF final, coverage
<1>5. report'.status = final /\ report'.verdict = Verdict(final, coverage)
  BY <1>1
<1>6. UNCHANGED <<chain, obs, reorgs, scan>> /\ pc = "combine" /\ pc' = "idle"
  BY DEF Combine
<1>. QED
  BY <1>3, <1>4, <1>5, <1>6

LEMMA CombineTypes ==
  ASSUME UnifiedTypeOK, WorkInv, Combine
  PROVE  UnifiedTypeOK' /\ WorkInv'
<1>1. UNCHANGED <<chain, obs, req, number, static, fork, heuristics, features, reorgs>> /\ pc' = "idle"
  BY CombineStep DEF scan
<1>2. Graded(heuristics', obs.code')
  BY <1>1 DEF WorkInv
<1>3. WorkInv'
  BY <1>1, <1>2 DEF WorkInv
<1>4. UnifiedTypeOK'
  <2>1. /\ UNCHANGED <<chain, obs, reorgs>> /\ req' \in Requests \cup {NoRequest} /\ number' \in Nat
        /\ SummaryOK(static') /\ SummaryOK(fork') /\ SummaryOK(heuristics')
    BY <1>1, TypeFacts
  <2>2. \A m \in DOMAIN features' : features'[m].cov \in 0..Full
    BY <1>1, Zenon DEF UnifiedTypeOK
  <2>3. report'.status \in {"none", "failed", "unknown", "partial", "complete"}
    BY CombineStep
  <2>4. pc' \in {"idle", "anchor", "static", "fork", "heuristics", "read", "score", "combine"}
    BY <1>1
  <2>. QED
    BY <2>1, <2>2, <2>3, <2>4, TypesFrom
<1>. QED
  BY <1>3, <1>4

LEMMA WorkStep ==
  ASSUME UnifiedTypeOK, WorkInv, [UnifiedNext]_unifiedVars
  PROVE  UnifiedTypeOK' /\ WorkInv'
<1>1. CASE Grow
  BY <1>1, GrowTypes, ChainWork DEF Grow
<1>2. CASE Reorg
  BY <1>2, ReorgTypes, ChainWork DEF Reorg
<1>3. CASE Begin
  BY <1>3, BeginTypes
<1>4. CASE Anchor
  BY <1>4, AnchorTypes
<1>5. CASE StaticRun
  BY <1>5, StaticTypes
<1>6. CASE ForkRun
  BY <1>6, ForkTypes
<1>7. CASE HeuristicsAnchor
  BY <1>7, ReadTypes
<1>8. CASE HeuristicsRead
  BY <1>8, FeatureTypes
<1>9. CASE HeuristicsScore
  BY <1>9, ScoreTypes
<1>10. CASE Combine
  BY <1>10, CombineTypes
<1>11. CASE UNCHANGED unifiedVars
  <2>1. UNCHANGED <<chain, obs, pc, report, reorgs, scan>>
    BY <1>11 DEF unifiedVars, scan
  <2>2. chain \in Seq(BlockRecord) /\ Len(chain) \in 1..MaxBlocks /\ reorgs \in 0..MaxReorgs
    BY TypeFacts
  <2>. QED
    BY <2>1, <2>2, ChainTypes, ChainWork
<1>. QED
  BY <1>1, <1>2, <1>3, <1>4, <1>5, <1>6, <1>7, <1>8, <1>9, <1>10, <1>11 DEF UnifiedNext, Scan

-----------------------------------------------------------------------------
(* The report *)

ReportInv ==
  /\ Reported => pc = "idle"
  /\ NoVerdictFromOneEngine /\ NoCodeIsNeverLow

TwoSeen == Cardinality({i \in 1..3 : Engines[i].cov > 0}) >= 2

LEMMA CombineVerdict ==
  ASSUME UnifiedTypeOK, WorkInv, Combine
  PROVE  /\ report'.verdict # "UNVERIFIED" /\ ~SellBlocked /\ ~StaticCritical => TwoSeen
         /\ heuristics.status # "unknown" /\ obs.code.read /\ ~obs.code.present =>
              report'.verdict # "LOW_RISK"
<1>1. PICK coverage \in {Covered(Available), Round(3 * Covered(Available), 4)} :
        report'.verdict = Verdict(report'.status, coverage)
  BY CombineStep
<1>2. report'.verdict # "UNVERIFIED" /\ ~SellBlocked /\ ~StaticCritical => ~(coverage < Full \div 2)
  BY <1>1 DEF Verdict
<1>3. ~(coverage < Full \div 2) => TwoSeen
  BY <1>1, TwoEngines DEF TwoSeen
<1>4. heuristics.status # "unknown" /\ obs.code.read /\ ~obs.code.present => Band # "LOW_RISK"
  BY HardBand DEF WorkInv, Graded
<1>5. Band # "LOW_RISK" => report'.verdict # "LOW_RISK"
  BY <1>1 DEF Verdict
<1>. QED
  BY <1>2, <1>3, <1>4, <1>5

\* What the report is about stays.
LEMMA SameScan ==
  ASSUME UNCHANGED <<obs, scan>>
  PROVE  /\ TwoSeen' <=> TwoSeen
         /\ (SellBlocked' <=> SellBlocked) /\ (StaticCritical' <=> StaticCritical)
         /\ heuristics' = heuristics /\ obs' = obs
<1>1. static' = static /\ fork' = fork /\ heuristics' = heuristics
  BY DEF scan
<1>2. Engines' = Engines
  BY <1>1 DEF Engines
<1>3. TwoSeen' <=> TwoSeen
  BY <1>2 DEF TwoSeen
<1>. QED
  BY <1>1, <1>3 DEF SellBlocked, StaticCritical

LEMMA CombineReports ==
  ASSUME UnifiedTypeOK, WorkInv, Combine
  PROVE  ReportInv'
<1>1. UNCHANGED <<obs, scan>> /\ pc' = "idle"
  BY CombineStep
<1>2. NoVerdictFromOneEngine'
  <2>1. report'.verdict # "UNVERIFIED" /\ ~SellBlocked' /\ ~StaticCritical' => TwoSeen'
    BY <1>1, SameScan, CombineVerdict
  <2>. QED
    BY <2>1 DEF NoVerdictFromOneEngine, TwoSeen
<1>3. NoCodeIsNeverLow'
  <2>1. heuristics'.status # "unknown" /\ obs'.code.read /\ ~obs'.code.present => report'.verdict # "LOW_RISK"
    BY <1>1, SameScan, CombineVerdict
  <2>. QED
    BY <2>1 DEF NoCodeIsNeverLow
<1>. QED
  BY <1>1, <1>2, <1>3 DEF ReportInv

LEMMA ReportKept ==
  ASSUME ReportInv, UNCHANGED <<report, pc, obs, scan>>
  PROVE  ReportInv'
<1>1. /\ TwoSeen' <=> TwoSeen
      /\ (SellBlocked' <=> SellBlocked) /\ (StaticCritical' <=> StaticCritical)
      /\ heuristics' = heuristics /\ obs' = obs /\ report' = report /\ pc' = pc
      /\ (Reported' <=> Reported)
  BY SameScan DEF Reported
<1>2. NoVerdictFromOneEngine'
  BY <1>1, Zenon DEF ReportInv, NoVerdictFromOneEngine, TwoSeen
<1>3. NoCodeIsNeverLow'
  BY <1>1, Zenon DEF ReportInv, NoCodeIsNeverLow
<1>. QED
  BY <1>1, <1>2, <1>3 DEF ReportInv

LEMMA NotReported ==
  ASSUME ~Reported'
  PROVE  ReportInv'
BY DEF ReportInv, NoVerdictFromOneEngine, NoCodeIsNeverLow

LEMMA InitReport == UnifiedInit => WorkInv /\ ReportInv
<1>. SUFFICES ASSUME UnifiedInit PROVE WorkInv /\ ReportInv
  OBVIOUS
<1>1. ~Reported
  BY NoReportStatus DEF UnifiedInit, Reported
<1>2. ReportInv
  BY <1>1 DEF ReportInv, NoVerdictFromOneEngine, NoCodeIsNeverLow
<1>3. pc = "idle" /\ Blank(heuristics)
  BY NoSummaries DEF UnifiedInit
<1>4. WorkInv
  BY <1>3 DEF WorkInv, Graded, Blank
<1>. QED
  BY <1>2, <1>4

LEMMA ReportStep ==
  ASSUME UnifiedTypeOK, WorkInv, ReportInv, [UnifiedNext]_unifiedVars
  PROVE  ReportInv'
<1>1. CASE Grow \/ Reorg
  BY <1>1, ReportKept DEF Grow, Reorg
<1>2. CASE Begin
  <2>1. report'.status = "none"
    BY <1>2, NoReportStatus DEF Begin
  <2>. QED
    BY <2>1, NotReported DEF Reported
<1>3. CASE \/ Anchor \/ StaticRun \/ ForkRun
           \/ HeuristicsAnchor \/ HeuristicsRead \/ HeuristicsScore
  <2>1. pc # "idle" /\ (report' = report \/ report' = [NoReport EXCEPT !.status = "failed"])
    BY <1>3 DEF Anchor, StaticRun, ForkRun, HeuristicsAnchor, HeuristicsRead, HeuristicsScore, Abort
  <2>2. ~Reported
    BY <2>1 DEF ReportInv
  <2>3. ~Reported'
    BY <2>1, <2>2, NoReportStatus DEF Reported
  <2>. QED
    BY <2>3, NotReported
<1>4. CASE Combine
  BY <1>4, CombineReports
<1>5. CASE UNCHANGED unifiedVars
  BY <1>5, ReportKept DEF unifiedVars, scan
<1>. QED
  BY <1>1, <1>2, <1>3, <1>4, <1>5 DEF UnifiedNext, Scan

-----------------------------------------------------------------------------
(* Balances after a window *)

Entry(blocks, i) ==
    [at |-> i, from |-> blocks[i].transfer.from, to |-> blocks[i].transfer.to,
     amount |-> blocks[i].transfer.amount]

LEMMA TotalUnion ==
  ASSUME NEW S, Moves(S), NEW T, Moves(T), S \cap T = {}
  PROVE  Total(S \cup T) = Total(S) + Total(T)
<1>. DEFINE w == [t \in S \cup T |-> t.amount]
            v == [t \in S |-> t.amount]
            u == [t \in T |-> t.amount]
<1>1. IsFiniteSet(S) /\ IsFiniteSet(T) /\ \A t \in S \cup T : t.amount \in Nat
  BY DEF Moves
<1>2. IsFiniteSet(S \cup T)
  BY <1>1, FS_Union
<1>3. Total(S) = SumOver(v, S) /\ Total(T) = SumOver(u, T) /\ Total(S \cup T) = SumOver(w, S \cup T)
  BY <1>1, <1>2, TotalSum
<1>4. (\A t \in S : w[t] = v[t]) /\ (\A t \in T : w[t] = u[t]) /\ (\A t \in S \cup T : w[t] \in Int)
  BY <1>1
<1>. HIDE DEF w, v, u
<1>5. SumOver(w, S) = SumOver(v, S) /\ SumOver(w, T) = SumOver(u, T)
  BY <1>1, <1>4, SumSame
<1>6. SumOver(w, S \cup T) = SumOver(w, S) + SumOver(w, T)
  BY <1>1, <1>4, SumUnion
<1>. QED
  BY <1>3, <1>5, <1>6

LEMMA SomeMoves ==
  ASSUME NEW S, Moves(S), NEW T \in SUBSET S
  PROVE  Moves(T)
BY FS_Subset DEF Moves

LEMMA SnapshotUnion ==
  ASSUME NEW S, Moves(S), NEW T, Moves(T), S \cap T = {}, NEW a \in Addresses \ {Zero}
  PROVE  Snapshot(S \cup T)[a] = Snapshot(S)[a] + Snapshot(T)[a]
<1>. DEFINE to(X) == {t \in X : t.to = a}
            from(X) == {t \in X : t.from = a}
<1>1. to(S \cup T) = to(S) \cup to(T) /\ to(S) \cap to(T) = {}
  OBVIOUS
<1>2. from(S \cup T) = from(S) \cup from(T) /\ from(S) \cap from(T) = {}
  OBVIOUS
<1>3. Moves(to(S)) /\ Moves(to(T)) /\ Moves(from(S)) /\ Moves(from(T))
  BY SomeMoves
<1>4. \A X : In(X, a) = Total(to(X)) /\ Out(X, a) = Total(from(X))
  BY DEF In, Out
<1>. HIDE DEF to, from
<1>5. Total(to(S) \cup to(T)) = Total(to(S)) + Total(to(T))
  BY <1>1, <1>3, TotalUnion
<1>6. Total(from(S) \cup from(T)) = Total(from(S)) + Total(from(T))
  BY <1>2, <1>3, TotalUnion
<1>7. In(S \cup T, a) = In(S, a) + In(T, a) /\ Out(S \cup T, a) = Out(S, a) + Out(T, a)
  BY <1>1, <1>2, <1>4, <1>5, <1>6
<1>8. /\ Snapshot(S)[a] = In(S, a) - Out(S, a) /\ In(S, a) \in Nat /\ Out(S, a) \in Nat
      /\ Snapshot(T)[a] = In(T, a) - Out(T, a) /\ In(T, a) \in Nat /\ Out(T, a) \in Nat
  BY SnapshotType
<1>9. Snapshot(S \cup T)[a] = In(S \cup T, a) - Out(S \cup T, a)
  BY DEF Snapshot
<1>. QED
  BY <1>7, <1>8, <1>9

LEMMA SnapshotEmpty ==
  ASSUME NEW a \in Addresses \ {Zero}
  PROVE  Snapshot({})[a] = 0
<1>1. Moves({}) /\ {} \cap {} = {} /\ {} \cup {} = {}
  BY FS_EmptySet DEF Moves
<1>2. Snapshot({})[a] = Snapshot({})[a] + Snapshot({})[a] /\ Snapshot({})[a] \in Int
  BY <1>1, SnapshotUnion, SnapshotType
<1>3. \A i \in Int : i = i + i => i = 0
  OBVIOUS
<1>. QED
  BY <1>2, <1>3

LEMMA SnapshotOne ==
  ASSUME NEW t, t.amount \in Nat, NEW a \in Addresses \ {Zero}
  PROVE  Snapshot({t})[a] = (IF t.to = a THEN t.amount ELSE 0) - (IF t.from = a THEN t.amount ELSE 0)
<1>1. Total({}) = 0
  BY TotalSum, SumRule, FS_EmptySet
<1>2. Total({t}) = t.amount
  <2>. DEFINE w == [x \in {t} |-> x.amount]
  <2>1. Total({t}) = SumOver(w, {t}) /\ IsFiniteSet({t})
    BY FS_Singleton, TotalSum
  <2>2. w[t] = t.amount /\ \A x \in {t} : w[x] \in Int
    OBVIOUS
  <2>. HIDE DEF w
  <2>3. SumOver(w, {t}) = w[t] + SumOver(w, {t} \ {t})
    BY <2>1, <2>2, SumTake
  <2>4. {t} \ {t} = {} /\ SumOver(w, {}) = 0
    BY SumRule, FS_EmptySet
  <2>. QED
    BY <2>1, <2>2, <2>3, <2>4
<1>3. In({t}, a) = IF t.to = a THEN t.amount ELSE 0
  <2>1. CASE t.to = a
    <3>1. {x \in {t} : x.to = a} = {t}
      BY <2>1
    <3>. QED
      BY <1>2, <2>1, <3>1 DEF In
  <2>2. CASE t.to # a
    <3>1. {x \in {t} : x.to = a} = {}
      BY <2>2
    <3>. QED
      BY <1>1, <2>2, <3>1 DEF In
  <2>. QED
    BY <2>1, <2>2
<1>4. Out({t}, a) = IF t.from = a THEN t.amount ELSE 0
  <2>1. CASE t.from = a
    <3>1. {x \in {t} : x.from = a} = {t}
      BY <2>1
    <3>. QED
      BY <1>2, <2>1, <3>1 DEF Out
  <2>2. CASE t.from # a
    <3>1. {x \in {t} : x.from = a} = {}
      BY <2>2
    <3>. QED
      BY <1>1, <2>2, <3>1 DEF Out
  <2>. QED
    BY <2>1, <2>2
<1>5. Snapshot({t})[a] = In({t}, a) - Out({t}, a)
  BY DEF Snapshot
<1>. QED
  BY <1>3, <1>4, <1>5

Blocks(blocks) == blocks \in Seq(BlockRecord)

LEMMA EntryType ==
  ASSUME NEW blocks, Blocks(blocks), NEW i \in 1..Len(blocks)
  PROVE  /\ Entry(blocks, i).at = i /\ Entry(blocks, i).amount \in Nat
         /\ Entry(blocks, i).to = blocks[i].transfer.to /\ Entry(blocks, i).from = blocks[i].transfer.from
         /\ Entry(blocks, i).amount = blocks[i].transfer.amount
<1>1. blocks[i] \in BlockRecord
  BY DEF Blocks
<1>2. blocks[i].transfer \in Moved
  BY <1>1, UnifiedScanAssumption DEF BlockRecord
<1>. QED
  BY <1>2 DEF Entry, Moved

LEMMA LogIs ==
  ASSUME NEW blocks, Blocks(blocks), NEW first \in Int, NEW last \in Int
  PROVE  LogOf(blocks, first, last) = {Entry(blocks, i) : i \in (1..Len(blocks)) \cap (first..last)}
<1>1. DOMAIN blocks = 1..Len(blocks)
  BY DEF Blocks
<1>. QED
  BY <1>1 DEF LogOf, Entry

LEMMA LogMoves ==
  ASSUME NEW blocks, Blocks(blocks), NEW first \in Int, NEW last \in Int
  PROVE  Moves(LogOf(blocks, first, last))
<1>. DEFINE D == (1..Len(blocks)) \cap (first..last)
            e == [i \in D |-> Entry(blocks, i)]
<1>1. LogOf(blocks, first, last) = {e[i] : i \in DOMAIN e}
  BY LogIs
<1>2. IsFiniteSet(DOMAIN e)
  <2>1. Len(blocks) \in Int /\ 1 \in Int
    BY DEF Blocks
  <2>2. IsFiniteSet(1..Len(blocks))
    BY <2>1, FS_Interval
  <2>3. DOMAIN e \in SUBSET (1..Len(blocks))
    OBVIOUS
  <2>. QED
    BY <2>2, <2>3, FS_Subset
<1>3. \A i \in DOMAIN e : e[i].amount \in Nat
  BY EntryType
<1>. HIDE DEF e
<1>4. IsFiniteSet({e[i] : i \in DOMAIN e})
  BY <1>2, ImageFinite
<1>. QED
  BY <1>1, <1>3, <1>4 DEF Moves

\* A log is the log up to some block and the one from there on.
LEMMA LogSplit ==
  ASSUME NEW blocks, Blocks(blocks), NEW first \in Int, NEW m \in Int, NEW last \in Int,
         first <= m, m <= last + 1
  PROVE  /\ LogOf(blocks, first, last) = LogOf(blocks, first, m - 1) \cup LogOf(blocks, m, last)
         /\ LogOf(blocks, first, m - 1) \cap LogOf(blocks, m, last) = {}
<1>. DEFINE D == 1..Len(blocks)
            A == D \cap (first..(m - 1))
            B == D \cap (m..last)
            C == D \cap (first..last)
<1>1. C = A \cup B /\ A \cap B = {}
  OBVIOUS
<1>2. A \subseteq D /\ B \subseteq D
  OBVIOUS
<1>3. /\ LogOf(blocks, first, last) = {Entry(blocks, i) : i \in C}
      /\ LogOf(blocks, first, m - 1) = {Entry(blocks, i) : i \in A}
      /\ LogOf(blocks, m, last) = {Entry(blocks, i) : i \in B}
  BY LogIs
<1>. HIDE DEF A, B, C
<1>4. \A i \in A, k \in B : Entry(blocks, i) # Entry(blocks, k)
  BY <1>1, <1>2, EntryType
<1>. QED
  BY <1>1, <1>3, <1>4

LEMMA SamePrefix ==
  ASSUME NEW b, Blocks(b), NEW c, Blocks(c), NEW n \in Nat, n <= Len(b), n <= Len(c),
         \A i \in 1..n : b[i] = c[i]
  PROVE  LogOf(b, 1, n) = LogOf(c, 1, n)
<1>1. (1..Len(b)) \cap (1..n) = 1..n /\ (1..Len(c)) \cap (1..n) = 1..n
  BY DEF Blocks
<1>2. LogOf(b, 1, n) = {Entry(b, i) : i \in 1..n} /\ LogOf(c, 1, n) = {Entry(c, i) : i \in 1..n}
  <2>1. 1 \in Int /\ n \in Int
    OBVIOUS
  <2>. QED
    BY <1>1, <2>1, LogIs
<1>3. \A i \in 1..n : Entry(b, i) = Entry(c, i)
  BY DEF Entry
<1>. QED
  BY <1>2, <1>3

\* Nobody has less than nothing, after any block.
Solvent(blocks) == \A n \in 0..Len(blocks), a \in Addresses \ {Zero} : Balance(blocks, n, a) >= 0

LEMMA BalanceSplit ==
  ASSUME NEW blocks, Blocks(blocks), NEW m \in Int, NEW last \in Int, 1 <= m, m <= last + 1,
         NEW a \in Addresses \ {Zero}
  PROVE  /\ Balance(blocks, last, a) = Balance(blocks, m - 1, a) + Snapshot(LogOf(blocks, m, last))[a]
         /\ Balance(blocks, m - 1, a) \in Int /\ Snapshot(LogOf(blocks, m, last))[a] \in Int
<1>. DEFINE S == LogOf(blocks, 1, m - 1)
            T == LogOf(blocks, m, last)
            U == LogOf(blocks, 1, last)
<1>1. 1 \in Int /\ m - 1 \in Int
  OBVIOUS
<1>2. U = S \cup T /\ S \cap T = {}
  BY <1>1, LogSplit
<1>3. Moves(S) /\ Moves(T)
  BY <1>1, LogMoves
<1>4. Balance(blocks, last, a) = Snapshot(U)[a] /\ Balance(blocks, m - 1, a) = Snapshot(S)[a]
  BY DEF Balance
<1>. HIDE DEF S, T, U
<1>5. Snapshot(S \cup T)[a] = Snapshot(S)[a] + Snapshot(T)[a]
  BY <1>2, <1>3, SnapshotUnion
<1>6. Snapshot(S)[a] \in Int /\ Snapshot(T)[a] \in Int
  BY <1>3, SnapshotType
<1>7. /\ Balance(blocks, last, a) = Balance(blocks, m - 1, a) + Snapshot(T)[a]
      /\ Balance(blocks, m - 1, a) \in Int /\ Snapshot(T)[a] \in Int
  BY <1>2, <1>4, <1>5, <1>6
<1>. QED
  BY <1>7 DEF T

\* What came in by a window is at most what is there at its end.
LEMMA WindowBalance ==
  ASSUME NEW blocks, Blocks(blocks), Solvent(blocks), NEW last \in 0..Len(blocks),
         NEW first \in Int, first <= last, NEW a \in Addresses \ {Zero}
  PROVE  Snapshot(LogOf(blocks, first, last))[a] <= Balance(blocks, last, a)
<1>1. last \in Int /\ 1 \in Int /\ Len(blocks) \in Nat
  BY DEF Blocks
<1>2. CASE first >= 1
  <2>1. /\ Balance(blocks, last, a) = Balance(blocks, first - 1, a) + Snapshot(LogOf(blocks, first, last))[a]
        /\ Balance(blocks, first - 1, a) \in Int /\ Snapshot(LogOf(blocks, first, last))[a] \in Int
    BY <1>1, <1>2, BalanceSplit
  <2>2. Balance(blocks, first - 1, a) >= 0
    <3>1. first - 1 \in 0..Len(blocks)
      BY <1>1, <1>2
    <3>. QED
      BY <3>1 DEF Solvent
  <2>. QED
    BY <2>1, <2>2
<1>3. CASE first < 1
  <2>1. (1..Len(blocks)) \cap (first..last) = (1..Len(blocks)) \cap (1..last)
    BY <1>1, <1>3
  <2>2. LogOf(blocks, first, last) = LogOf(blocks, 1, last)
    <3>1. LogOf(blocks, first, last) = {Entry(blocks, i) : i \in (1..Len(blocks)) \cap (first..last)}
      BY <1>1, LogIs
    <3>2. LogOf(blocks, 1, last) = {Entry(blocks, i) : i \in (1..Len(blocks)) \cap (1..last)}
      BY <1>1, LogIs
    <3>. QED
      BY <2>1, <3>1, <3>2
  <2>3. Snapshot(LogOf(blocks, 1, last))[a] \in Int
    BY <1>1, LogMoves, SnapshotType
  <2>. QED
    BY <2>2, <2>3 DEF Balance
<1>. QED
  BY <1>2, <1>3

LEMMA PrefixBalance ==
  ASSUME NEW b, Blocks(b), NEW c, Blocks(c), NEW n \in Nat, n <= Len(b), n <= Len(c),
         \A i \in 1..n : b[i] = c[i]
  PROVE  \A m \in 0..n : \A a : Balance(b, m, a) = Balance(c, m, a)
<1>. SUFFICES ASSUME NEW m \in 0..n PROVE LogOf(b, 1, m) = LogOf(c, 1, m)
  BY DEF Balance
<1>1. m \in Nat /\ m <= Len(b) /\ m <= Len(c) /\ \A i \in 1..m : b[i] = c[i]
  BY DEF Blocks
<1>. QED
  BY <1>1, SamePrefix

\* A block whose transfer is possible leaves everybody solvent.
LEMMA AppendSolvent ==
  ASSUME NEW blocks, Blocks(blocks), Solvent(blocks), NEW b \in BlockRecord, Possible(blocks, b.transfer)
  PROVE  LET c == Append(blocks, b)
         IN  /\ Blocks(c) /\ Solvent(c) /\ Len(c) = Len(blocks) + 1
             /\ \A n \in 0..Len(blocks) : \A a : Balance(c, n, a) = Balance(blocks, n, a)
<1>. DEFINE c == Append(blocks, b)
            n == Len(blocks)
<1>1. Blocks(c) /\ Len(c) = n + 1 /\ c[n + 1] = b /\ n \in Nat /\ \A i \in 1..n : c[i] = blocks[i]
  BY AppendProperties DEF Blocks
<1>. HIDE DEF c
<1>2. \A m \in 0..n : \A a : Balance(c, m, a) = Balance(blocks, m, a)
  <2>1. n <= Len(c) /\ n <= Len(blocks)
    BY <1>1
  <2>. HIDE DEF n
  <2>. QED
    BY <1>1, <2>1, PrefixBalance
<1>3. ASSUME NEW a \in Addresses \ {Zero}
      PROVE  Balance(c, n + 1, a) >= 0
  <2>. DEFINE e == Entry(c, n + 1)
              k == n + 1
  <2>1. k \in Int /\ 1 <= k /\ k <= k + 1 /\ k - 1 = n /\ k \in 1..Len(c)
    BY <1>1
  <2>2. e.amount \in Nat /\ e.to = b.transfer.to /\ e.from = b.transfer.from /\ e.amount = b.transfer.amount
    <3>1. /\ e.amount \in Nat /\ e.to = c[k].transfer.to /\ e.from = c[k].transfer.from
          /\ e.amount = c[k].transfer.amount
      <4>. HIDE DEF k
      <4>. QED
        BY <1>1, <2>1, EntryType DEF k
    <3>. QED
      BY <1>1, <3>1
  <2>3. LogOf(c, k, k) = {e}
    <3>1. (1..Len(c)) \cap (k..k) = {k}
      BY <1>1
    <3>2. LogOf(c, k, k) = {Entry(c, i) : i \in {k}}
      <4>. HIDE DEF k
      <4>. QED
        BY <1>1, <2>1, <3>1, LogIs
    <3>. QED
      BY <3>2
  <2>. HIDE DEF e
  <2>4. Snapshot({e})[a] = (IF e.to = a THEN e.amount ELSE 0) - (IF e.from = a THEN e.amount ELSE 0)
    BY <2>2, SnapshotOne
  <2>5. /\ Balance(c, k, a) = Balance(c, k - 1, a) + Snapshot(LogOf(c, k, k))[a]
        /\ Balance(c, k - 1, a) \in Int
    <3>. HIDE DEF k
    <3>. QED
      BY <1>1, <2>1, BalanceSplit
  <2>6. Balance(c, k - 1, a) = Balance(blocks, n, a) /\ Balance(blocks, n, a) >= 0
    BY <1>1, <1>2, <2>1 DEF Solvent
  <2>7. e.from = a => Balance(blocks, n, a) >= e.amount
    BY <2>2 DEF Possible
  <2>. HIDE DEF k
  <2>8. Balance(c, k, a) >= 0
    BY <2>2, <2>3, <2>4, <2>5, <2>6, <2>7
  <2>. QED
    BY <2>8 DEF k
<1>4. Solvent(c)
  <2>. SUFFICES ASSUME NEW m \in 0..Len(c), NEW a \in Addresses \ {Zero} PROVE Balance(c, m, a) >= 0
    BY DEF Solvent
  <2>1. m \in 0..n \/ m = n + 1
    BY <1>1
  <2>2. m \in 0..n => Balance(blocks, m, a) >= 0
    BY DEF Solvent
  <2>. QED
    BY <1>2, <1>3, <2>1, <2>2
<1>. QED
  BY <1>1, <1>2, <1>4 DEF c

LEMMA FirstSolvent ==
  ASSUME NEW b \in BlockRecord, Mint(b.transfer)
  PROVE  Solvent(<<b>>)
<1>. DEFINE e == <<>>
<1>1. Blocks(e) /\ Len(e) = 0
  BY DEF Blocks
<1>2. <<b>> = Append(e, b)
  OBVIOUS
<1>. HIDE DEF e
<1>3. Possible(e, b.transfer)
  BY DEF Possible, Mint
<1>4. Solvent(e)
  <2>. SUFFICES ASSUME NEW n \in 0..Len(e), NEW a \in Addresses \ {Zero} PROVE Balance(e, n, a) >= 0
    BY DEF Solvent
  <2>1. 1 \in Int /\ n \in Int /\ (1..Len(e)) \cap (1..n) = {}
    BY <1>1
  <2>2. LogOf(e, 1, n) = {}
    BY <1>1, <2>1, LogIs
  <2>3. Balance(e, n, a) = Snapshot({})[a]
    BY <2>2 DEF Balance
  <2>4. Snapshot({})[a] = 0
    BY SnapshotEmpty, Zenon
  <2>. QED
    BY <2>3, <2>4
<1>5. Solvent(Append(e, b))
  BY <1>1, <1>3, <1>4, AppendSolvent
<1>. QED
  BY <1>2, <1>5

-----------------------------------------------------------------------------
(* The holders *)

\* The blocks up to here stay.
Settled == TagNumber("safe")

HeldWithin(h, blocks) ==
  \A a \in DOMAIN h.held : a \in Addresses \ {Zero} /\ h.held[a] <= Balance(blocks, h.anchor[1], a)

HoldInv ==
  req.block = 0 /\ req.tag = "safe" =>
    /\ number \in 0..Settled /\ heuristics.anchor[1] \in 0..Settled
    /\ HeldWithin(heuristics, chain)

LedgerInv == Solvent(chain) /\ HoldInv

LEMMA SettledType ==
  ASSUME UnifiedTypeOK
  PROVE  /\ Blocks(chain) /\ Settled \in 1..Len(chain) /\ Len(chain) \in Nat
         /\ Settled = IF Len(chain) > 1 THEN Len(chain) - 1 ELSE Len(chain)
<1>1. Blocks(chain) /\ Len(chain) \in Nat
  BY TypeFacts DEF Blocks
<1>. QED
  BY <1>1, TagType DEF Settled, TagNumber

LEMMA NoneHeld ==
  ASSUME NEW h, h.held = <<>>, NEW blocks
  PROVE  HeldWithin(h, blocks)
<1>1. DOMAIN h.held = {}
  OBVIOUS
<1>. QED
  BY <1>1 DEF HeldWithin

\* The chain moves on, and replaces no settled block.
LEMMA ChainStep ==
  ASSUME UnifiedTypeOK, Solvent(chain), Grow \/ Reorg
  PROVE  /\ Solvent(chain') /\ Settled' \in Nat /\ Settled \in Nat /\ Settled <= Settled'
         /\ \A n \in 0..Settled : \A a : Balance(chain', n, a) = Balance(chain, n, a)
<1>1. UnifiedTypeOK'
  BY GrowTypes, ReorgTypes
<1>2. /\ Blocks(chain) /\ Settled \in 1..Len(chain) /\ Len(chain) \in Nat
      /\ Settled = IF Len(chain) > 1 THEN Len(chain) - 1 ELSE Len(chain)
  BY SettledType
<1>3. Settled' = IF Len(chain') > 1 THEN Len(chain') - 1 ELSE Len(chain')
  BY DEF Settled, TagNumber
<1>4. CASE Grow
  <2>1. PICK b \in BlockRecord : Possible(chain, b.transfer) /\ chain' = Append(chain, b)
    <3>1. PICK t \in Transfers : LET b == [ver |-> 0, transfer |-> t]
                                 IN  Possible(chain, t) /\ b \in BlockRecord /\ chain' = Append(chain, b)
      BY <1>4, GrowTypes
    <3>2. [ver |-> 0, transfer |-> t].transfer = t
      OBVIOUS
    <3>. QED
      BY <3>1, <3>2
  <2>2. /\ Solvent(chain') /\ Len(chain') = Len(chain) + 1
        /\ \A n \in 0..Len(chain) : \A a : Balance(chain', n, a) = Balance(chain, n, a)
    BY <1>2, <2>1, AppendSolvent
  <2>3. Settled' \in Nat /\ Settled <= Settled' /\ 0..Settled \subseteq 0..Len(chain)
    BY <1>2, <1>3, <2>2
  <2>. QED
    BY <1>2, <2>2, <2>3
<1>5. CASE Reorg
  <2>. DEFINE f == Front(chain)
  <2>1. /\ Len(chain) > 1 /\ Len(chain') = Len(chain) /\ Blocks(f)
        /\ Len(f) = Len(chain) - 1 /\ \A i \in 1..Len(chain) - 1 : f[i] = chain[i]
    BY <1>5, ReorgTypes DEF Blocks
  <2>2. PICK b \in BlockRecord : Possible(f, b.transfer) /\ chain' = Append(f, b)
    <3>1. PICK t \in Transfers : LET b == [ver |-> reorgs + 1, transfer |-> t]
            IN  Possible(f, t) /\ b \in BlockRecord /\ chain' = Append(f, b)
      BY <1>5, ReorgTypes
    <3>2. [ver |-> reorgs + 1, transfer |-> t].transfer = t
      OBVIOUS
    <3>. QED
      BY <3>1, <3>2
  <2>. HIDE DEF f
  <2>3. Settled = Len(f) /\ Settled' = Len(f) /\ Len(f) \in Nat /\ Len(f) <= Len(chain)
    BY <1>2, <1>3, <2>1
  <2>4. \A n \in 0..Len(f) : \A a : Balance(f, n, a) = Balance(chain, n, a)
    <3>1. \A i \in 1..Len(f) : f[i] = chain[i]
      BY <2>1
    <3>2. PICK n : n = Len(f)
      OBVIOUS
    <3>3. n \in Nat /\ n <= Len(f) /\ n <= Len(chain) /\ \A i \in 1..n : f[i] = chain[i]
      BY <2>3, <3>1, <3>2
    <3>4. \A m \in 0..n : \A a : Balance(f, m, a) = Balance(chain, m, a)
      BY <1>2, <2>1, <3>3, PrefixBalance
    <3>. QED
      BY <3>2, <3>4
  <2>5. Solvent(f)
    <3>. SUFFICES ASSUME NEW n \in 0..Len(f), NEW a \in Addresses \ {Zero} PROVE Balance(f, n, a) >= 0
      BY DEF Solvent
    <3>1. Balance(chain, n, a) >= 0
      <4>1. n \in 0..Len(chain)
        BY <1>2, <2>3
      <4>. QED
        BY <4>1 DEF Solvent
    <3>. QED
      BY <2>4, <3>1
  <2>6. /\ Solvent(chain')
        /\ \A n \in 0..Len(f) : \A a : Balance(chain', n, a) = Balance(f, n, a)
    BY <2>1, <2>2, <2>5, AppendSolvent
  <2>7. \A n \in 0..Settled : \A a : Balance(chain', n, a) = Balance(chain, n, a)
    BY <2>3, <2>4, <2>6
  <2>. QED
    BY <2>3, <2>6, <2>7
<1>. QED
  BY <1>4, <1>5

LEMMA ChainLedger ==
  ASSUME UnifiedTypeOK, LedgerInv, Grow \/ Reorg
  PROVE  LedgerInv'
<1>1. req' = req /\ number' = number /\ heuristics' = heuristics
  BY DEF Grow, Reorg, scan
<1>2. /\ Solvent(chain') /\ Settled' \in Nat /\ Settled \in Nat /\ Settled <= Settled'
      /\ \A n \in 0..Settled : \A a : Balance(chain', n, a) = Balance(chain, n, a)
  BY ChainStep DEF LedgerInv
<1>3. ASSUME req.block = 0, req.tag = "safe"
      PROVE  number \in 0..Settled' /\ heuristics.anchor[1] \in 0..Settled' /\ HeldWithin(heuristics, chain')
  <2>1. number \in 0..Settled /\ heuristics.anchor[1] \in 0..Settled /\ HeldWithin(heuristics, chain)
    BY <1>3 DEF LedgerInv, HoldInv
  <2>2. 0..Settled \subseteq 0..Settled'
    BY <1>2
  <2>3. HeldWithin(heuristics, chain')
    BY <1>2, <2>1 DEF HeldWithin
  <2>. QED
    BY <2>1, <2>2, <2>3
<1>4. HoldInv'
  BY <1>1, <1>3 DEF HoldInv
<1>. QED
  BY <1>2, <1>4 DEF LedgerInv

LEMMA ScanLedger ==
  ASSUME UnifiedTypeOK, WorkInv, LedgerInv, Scan
  PROVE  LedgerInv'
<1>1. chain' = chain /\ Settled' = Settled
  BY DEF Scan, Begin, Anchor, StaticRun, ForkRun, HeuristicsAnchor, HeuristicsRead, HeuristicsScore,
         Combine, Settled, TagNumber
<1>2. Blocks(chain) /\ Settled \in 1..Len(chain) /\ Len(chain) \in Nat
  BY SettledType
<1>3. Solvent(chain)
  BY DEF LedgerInv
<1>4. CASE Begin
  <2>1. number' = 0 /\ heuristics' = NoHeuristics
    BY <1>4 DEF Begin
  <2>2. heuristics'.anchor[1] = 0 /\ heuristics'.held = <<>>
    BY <2>1, NoSummaries, NoBlockType
  <2>3. HeldWithin(heuristics', chain)
    BY <2>2, NoneHeld
  <2>4. HoldInv'
    BY <1>1, <1>2, <2>1, <2>2, <2>3 DEF HoldInv
  <2>. QED
    BY <1>1, <1>3, <2>4 DEF LedgerInv
<1>5. CASE Anchor
  <2>1. req' = req /\ heuristics' = heuristics /\ (number' = req.block \/ number' = TagNumber(req.tag))
    BY <1>5 DEF Anchor
  <2>2. req.block = 0 /\ req.tag = "safe" => number' \in 0..Settled
    BY <1>2, <2>1 DEF Settled
  <2>3. HoldInv'
    BY <1>1, <2>1, <2>2 DEF HoldInv, LedgerInv
  <2>. QED
    BY <1>1, <1>3, <2>3 DEF LedgerInv
<1>6. CASE StaticRun \/ ForkRun \/ Combine
  <2>1. req' = req /\ heuristics' = heuristics /\ number' = number
    BY <1>6 DEF StaticRun, ForkRun, Combine, scan
  <2>2. HoldInv'
    BY <1>1, <2>1 DEF HoldInv, LedgerInv
  <2>. QED
    BY <1>1, <1>3, <2>2 DEF LedgerInv
<1>7. CASE HeuristicsAnchor
  <2>1. req' = req /\ number' = number
    BY <1>7 DEF HeuristicsAnchor
  <2>. DEFINE n == EngineNumber
              none == [NoHeuristics EXCEPT !.score = 0]
              h(b) == [NoHeuristics EXCEPT !.anchor = b]
  <2>2. \/ heuristics' = heuristics \/ heuristics' = none
        \/ Anchored /\ heuristics' = h(Block(n))
    BY <1>7 DEF HeuristicsAnchor
  <2>3. none.anchor = NoBlock /\ none.held = <<>> /\ \A b : h(b).anchor = b /\ h(b).held = <<>>
    BY NoSummaries
  <2>4. Anchored => Block(n)[1] = n
    BY BlockType DEF Anchored
  <2>5. req.block = 0 /\ req.tag = "safe" => n \in 0..Settled
    BY <1>2 DEF EngineNumber, Settled, LedgerInv, HoldInv
  <2>. HIDE DEF n, none, h
  <2>6. CASE heuristics' = heuristics
    <3>1. HoldInv'
      BY <1>1, <2>1, <2>6 DEF HoldInv, LedgerInv
    <3>. QED
      BY <1>1, <1>3, <3>1 DEF LedgerInv
  <2>7. ASSUME heuristics'.held = <<>>,
               req.block = 0 /\ req.tag = "safe" => heuristics'.anchor[1] \in 0..Settled
        PROVE  LedgerInv'
    <3>1. HeldWithin(heuristics', chain)
      BY <2>7, NoneHeld
    <3>2. HoldInv'
      BY <1>1, <2>1, <2>7, <3>1 DEF HoldInv, LedgerInv
    <3>. QED
      BY <1>1, <1>3, <3>2 DEF LedgerInv
  <2>8. CASE heuristics' = none
    <3>1. heuristics'.held = <<>> /\ heuristics'.anchor[1] = 0 /\ 0 \in 0..Settled
      BY <1>2, <2>3, <2>8, NoBlockType
    <3>. QED
      BY <2>7, <3>1
  <2>9. CASE Anchored /\ heuristics' = h(Block(n))
    <3>1. heuristics'.held = <<>> /\ heuristics'.anchor[1] = n
      BY <2>3, <2>4, <2>9
    <3>. QED
      BY <2>5, <2>7, <3>1
  <2>. QED
    BY <2>2, <2>6, <2>8, <2>9
<1>8. CASE HeuristicsRead
  <2>1. req' = req /\ number' = number
    BY <1>8 DEF HeuristicsRead
  <2>. DEFINE log == IF obs.logs THEN WindowLog(heuristics.anchor[1]) ELSE {}
              held == Holdings(log)
  <2>2. heuristics'.anchor = heuristics.anchor /\ heuristics'.held = held
    BY <1>8, ReadStep
  <2>3. DOMAIN held = Positive(log) /\ \A a \in Positive(log) : held[a] = Snapshot(log)[a]
    BY DEF Holdings
  <2>4. ASSUME heuristics.anchor[1] \in 0..Settled, NEW a \in Positive(log)
        PROVE  a \in Addresses \ {Zero} /\ Snapshot(log)[a] <= Balance(chain, heuristics.anchor[1], a)
    <3>. DEFINE last == heuristics.anchor[1]
    <3>1. a \in Addresses \ {Zero} /\ Snapshot(log)[a] > 0
      <4>. HIDE DEF log
      <4>. QED
        BY PositiveType
    <3>2. last \in 0..Len(chain) /\ last - Window \in Int /\ last - Window <= last
      BY <1>2, <2>4, UnifiedScanAssumption
    <3>3. CASE obs.logs
      <4>1. log = LogOf(chain, last - Window, last)
        BY <3>3 DEF WindowLog
      <4>. HIDE DEF log, last
      <4>2. Snapshot(LogOf(chain, last - Window, last))[a] <= Balance(chain, last, a)
        BY <1>2, <1>3, <3>1, <3>2, WindowBalance
      <4>. QED
        BY <3>1, <4>1, <4>2 DEF last
    <3>4. CASE ~obs.logs
      <4>1. log = {}
        BY <3>4
      <4>2. Snapshot({})[a] = 0
        <5>. HIDE DEF log
        <5>. QED
          BY <3>1, SnapshotEmpty, Zenon
      <4>3. Snapshot(log)[a] = 0
        BY <4>1, <4>2
      <4>. QED
        BY <3>1, <4>3
    <3>. QED
      BY <3>3, <3>4
  <2>. HIDE DEF log, held
  <2>5. ASSUME req.block = 0, req.tag = "safe"
        PROVE  /\ number \in 0..Settled /\ heuristics'.anchor[1] \in 0..Settled
               /\ HeldWithin(heuristics', chain)
    <3>1. number \in 0..Settled /\ heuristics.anchor[1] \in 0..Settled
      BY <2>5 DEF LedgerInv, HoldInv
    <3>2. HeldWithin(heuristics', chain)
      BY <2>2, <2>3, <2>4, <3>1 DEF HeldWithin
    <3>. QED
      BY <2>2, <3>1, <3>2
  <2>6. HoldInv'
    BY <1>1, <2>1, <2>5 DEF HoldInv
  <2>. QED
    BY <1>1, <1>3, <2>6 DEF LedgerInv
<1>9. CASE HeuristicsScore
  <2>1. req' = req /\ number' = number
    BY <1>9 DEF HeuristicsScore
  <2>2. heuristics'.anchor = heuristics.anchor /\ heuristics'.held = heuristics.held
    BY <1>9, ScoreStep
  <2>3. HeldWithin(heuristics, chain) => HeldWithin(heuristics', chain)
    BY <2>2 DEF HeldWithin
  <2>4. HoldInv'
    BY <1>1, <2>1, <2>2, <2>3 DEF HoldInv, LedgerInv
  <2>. QED
    BY <1>1, <1>3, <2>4 DEF LedgerInv
<1>. QED
  BY <1>4, <1>5, <1>6, <1>7, <1>8, <1>9 DEF Scan

LEMMA InitLedger == UnifiedInit => LedgerInv
<1>. SUFFICES ASSUME UnifiedInit PROVE LedgerInv
  OBVIOUS
<1>1. UnifiedTypeOK
  BY InitTypes
<1>2. PICK t \in Transfers : Mint(t) /\ chain = <<[ver |-> 0, transfer |-> t]>>
  BY DEF UnifiedInit
<1>3. Solvent(chain)
  <2>. DEFINE b == [ver |-> 0, transfer |-> t]
  <2>1. b \in BlockRecord /\ b.transfer = t
    BY UnifiedScanAssumption DEF BlockRecord
  <2>. HIDE DEF b
  <2>2. Solvent(<<b>>)
    BY <1>2, <2>1, FirstSolvent
  <2>. QED
    BY <1>2, <2>2 DEF b
<1>4. number = 0 /\ heuristics = NoHeuristics
  BY DEF UnifiedInit
<1>5. heuristics.anchor[1] = 0 /\ heuristics.held = <<>>
  BY <1>4, NoSummaries, NoBlockType
<1>6. HeldWithin(heuristics, chain)
  BY <1>5, NoneHeld
<1>7. 0 \in 0..Settled
  BY <1>1, SettledType
<1>. QED
  BY <1>3, <1>4, <1>5, <1>6, <1>7 DEF LedgerInv, HoldInv

-----------------------------------------------------------------------------
(* The block that a scan is of *)

SafeScan == req.block = 0 /\ req.tag = "safe"

\* The anchor of an engine, once the shared one is fixed.
OfScan(b) == number # 0 => b \in {NoBlock, Block(number)}
AnchorsHold == OfScan(fork.anchor) /\ OfScan(heuristics.anchor)

\* The holders of the window, at a block of the chain.
HeldAt(blocks, n) == Holdings(LogOf(blocks, n - Window, n))
LogHolds ==
  heuristics.anchor # NoBlock /\ obs.logs /\ pc # "read" =>
      heuristics.held = HeldAt(chain, heuristics.anchor[1])

AnchorInv ==
  /\ static.anchor = NoBlock
  /\ pc = "anchor" => fork.anchor = NoBlock /\ heuristics.anchor = NoBlock
  /\ SafeScan => AnchorsHold /\ LogHolds

\* The settled blocks are the same after the chain went on.
LEMMA SettledStay ==
  ASSUME UnifiedTypeOK, Grow \/ Reorg
  PROVE  /\ UnifiedTypeOK' /\ Settled \in 1..Len(chain') /\ Settled \in 1..Len(chain)
         /\ \A i \in 1..Settled : chain'[i] = chain[i]
<1>1. UnifiedTypeOK'
  BY GrowTypes, ReorgTypes
<1>2. /\ Blocks(chain) /\ Settled \in 1..Len(chain) /\ Len(chain) \in Nat
      /\ Settled = IF Len(chain) > 1 THEN Len(chain) - 1 ELSE Len(chain)
  BY SettledType
<1>3. CASE Grow
  <2>1. PICK b \in BlockRecord : chain' = Append(chain, b)
    BY <1>3, GrowTypes
  <2>2. Len(chain') = Len(chain) + 1 /\ \A i \in 1..Len(chain) : chain'[i] = chain[i]
    BY <1>2, <2>1 DEF Blocks
  <2>. QED
    BY <1>1, <1>2, <2>2
<1>4. CASE Reorg
  <2>. DEFINE f == Front(chain)
  <2>1. /\ Len(chain) > 1 /\ Len(chain') = Len(chain) /\ f \in Seq(BlockRecord)
        /\ Len(f) = Len(chain) - 1 /\ \A i \in 1..Len(chain) - 1 : f[i] = chain[i]
    BY <1>4, ReorgTypes
  <2>2. PICK b \in BlockRecord : chain' = Append(f, b)
    BY <1>4, ReorgTypes
  <2>. HIDE DEF f
  <2>3. \A i \in 1..Len(f) : chain'[i] = f[i]
    BY <2>1, <2>2
  <2>4. Settled = Len(f)
    BY <1>2, <2>1
  <2>. QED
    BY <1>1, <1>2, <2>1, <2>3, <2>4
<1>. QED
  BY <1>3, <1>4

\* A log of blocks that stay is the same.
LEMMA SameLog ==
  ASSUME NEW b, Blocks(b), NEW c, Blocks(c), NEW first \in Int, NEW n \in Nat,
         n <= Len(b), n <= Len(c), \A i \in 1..n : b[i] = c[i]
  PROVE  LogOf(b, first, n) = LogOf(c, first, n)
<1>1. /\ (1..Len(b)) \cap (first..n) = (1..n) \cap (first..n)
      /\ (1..Len(c)) \cap (first..n) = (1..n) \cap (first..n)
  BY DEF Blocks
<1>. DEFINE D == (1..n) \cap (first..n)
<1>2. LogOf(b, first, n) = {Entry(b, i) : i \in D} /\ LogOf(c, first, n) = {Entry(c, i) : i \in D}
  BY <1>1, LogIs
<1>3. \A i \in D : Entry(b, i) = Entry(c, i)
  BY DEF Entry
<1>. HIDE DEF D
<1>. QED
  BY <1>2, <1>3

LEMMA SettledHold ==
  ASSUME UnifiedTypeOK, Grow \/ Reorg, NEW n \in 0..Settled
  PROVE  (n # 0 => Block(n)' = Block(n)) /\ HeldAt(chain', n) = HeldAt(chain, n)
<1>1. /\ UnifiedTypeOK' /\ Settled \in 1..Len(chain') /\ Settled \in 1..Len(chain)
      /\ \A i \in 1..Settled : chain'[i] = chain[i]
  BY SettledStay
<1>2. Blocks(chain) /\ Blocks(chain') /\ Len(chain) \in Nat /\ Len(chain') \in Nat
  <2>1. Blocks(chain) /\ Len(chain) \in Nat
    BY SettledType
  <2>2. chain' \in Seq([ver : 0..MaxReorgs, transfer : Transfers])
    BY <1>1, Zenon DEF UnifiedTypeOK
  <2>. QED
    BY <2>1, <2>2 DEF Blocks, BlockRecord
<1>3. n \in Nat /\ n <= Len(chain) /\ n <= Len(chain') /\ \A i \in 1..n : chain'[i] = chain[i]
  BY <1>1, <1>2
<1>4. n # 0 => Block(n)' = Block(n)
  BY <1>3 DEF Block
<1>5. n - Window \in Int
  BY <1>3, UnifiedScanAssumption
<1>6. LogOf(chain', n - Window, n) = LogOf(chain, n - Window, n)
  BY <1>2, <1>3, <1>5, SameLog
<1>. QED
  BY <1>4, <1>6 DEF HeldAt

LEMMA ChainAnchors ==
  ASSUME UnifiedTypeOK, LedgerInv, AnchorInv, Grow \/ Reorg
  PROVE  AnchorInv'
<1>1. UNCHANGED <<req, number, static, fork, heuristics, obs, pc>>
  BY DEF Grow, Reorg, scan
<1>2. SafeScan' = SafeScan
  BY <1>1 DEF SafeScan
<1>3. ASSUME SafeScan PROVE AnchorsHold' /\ LogHolds'
  <2>1. number \in 0..Settled /\ heuristics.anchor[1] \in 0..Settled
    BY <1>3 DEF SafeScan, LedgerInv, HoldInv
  <2>2. AnchorsHold /\ LogHolds
    BY <1>3 DEF AnchorInv
  <2>3. PICK n, h : n = number /\ h = heuristics.anchor[1]
    OBVIOUS
  <2>4. (n # 0 => Block(n)' = Block(n)) /\ HeldAt(chain', h) = HeldAt(chain, h)
    BY <2>1, <2>3, SettledHold
  <2>5. number # 0 => Block(number)' = Block(number)
    BY <1>1, <2>3, <2>4 DEF Block
  <2>6. AnchorsHold'
    BY <1>1, <2>2, <2>5 DEF AnchorsHold, OfScan
  <2>7. LogHolds'
    BY <1>1, <2>2, <2>3, <2>4 DEF LogHolds
  <2>. QED
    BY <2>6, <2>7
<1>. QED
  BY <1>1, <1>2, <1>3 DEF AnchorInv

LEMMA ForkAnchor ==
  ASSUME UnifiedTypeOK, ForkRun
  PROVE  fork'.anchor \in {fork.anchor, NoBlock, Block(EngineNumber)}
<1>. DEFINE n == EngineNumber
<1>1. \/ fork' = fork \/ fork' = NoFork
      \/ fork' = [NoFork EXCEPT !.anchor = Block(n)]
      \/ \E result : fork' = Joined([result |-> result],
                          IF result = "unknown" THEN Summary("partial", 0, 0, Block(n))
                          ELSE Summary("complete", ForkScore(result), Full, Block(n)))
  BY DEF ForkRun
<1>. HIDE DEF n
<1>2. ASSUME NEW result,
             fork' = Joined([result |-> result],
                            IF result = "unknown" THEN Summary("partial", 0, 0, Block(n))
                            ELSE Summary("complete", ForkScore(result), Full, Block(n)))
      PROVE  fork'.anchor = Block(n)
  <2>1. \/ fork' = Joined([result |-> result], Summary("partial", 0, 0, Block(n)))
        \/ fork' = Joined([result |-> result], Summary("complete", ForkScore(result), Full, Block(n)))
    BY <1>2
  <2>. QED
    BY <2>1, ForkFields
<1>3. fork'.anchor \in {fork.anchor, NoBlock, Block(n)}
  BY <1>1, <1>2, NoSummaries
<1>. QED
  BY <1>3 DEF n

LEMMA ScanAnchors ==
  ASSUME UnifiedTypeOK, WorkInv, AnchorInv, Scan
  PROVE  AnchorInv'
<1>1. chain' = chain /\ obs' = obs
  BY DEF Scan, Begin, Anchor, StaticRun, ForkRun, HeuristicsAnchor, HeuristicsRead, HeuristicsScore,
         Combine
<1>2. \A n : Block(n)' = Block(n)
  BY <1>1 DEF Block
<1>3. CASE Begin
  <2>1. /\ number' = 0 /\ heuristics' = NoHeuristics /\ static' = NoStatic /\ fork' = NoFork
    BY <1>3 DEF Begin
  <2>2. static'.anchor = NoBlock /\ fork'.anchor = NoBlock /\ heuristics'.anchor = NoBlock
    BY <2>1, NoSummaries
  <2>. QED
    BY <2>1, <2>2 DEF AnchorInv, AnchorsHold, OfScan, LogHolds
<1>4. CASE Anchor
  <2>1. UNCHANGED <<static, fork, heuristics>> /\ pc = "anchor" /\ pc' = "static"
    BY <1>4 DEF Anchor
  <2>2. fork'.anchor = NoBlock /\ heuristics'.anchor = NoBlock /\ static'.anchor = NoBlock
    BY <2>1 DEF AnchorInv
  <2>. QED
    BY <2>1, <2>2 DEF AnchorInv, AnchorsHold, OfScan, LogHolds
<1>5. CASE StaticRun
  <2>1. UNCHANGED <<req, number, fork, heuristics>> /\ pc = "static" /\ pc' = "fork"
    BY <1>5 DEF StaticRun
  <2>2. static'.anchor \in {static.anchor, NoBlock}
    <3>1. CASE ~req.project
      BY <1>5, <3>1 DEF StaticRun
    <3>2. CASE req.project
      <4>1. PICK run \in StaticRuns :
              static' = Joined([findings |-> run.findings],
                               Summary(run.status, StaticScore(run.findings),
                                       IF run.status = "complete" THEN Full ELSE 0, NoBlock))
        BY <1>5, <3>2 DEF StaticRun
      <4>. QED
        BY <4>1, StaticFields
    <3>. QED
      BY <3>1, <3>2
  <2>. QED
    BY <1>1, <1>2, <2>1, <2>2 DEF AnchorInv, SafeScan, AnchorsHold, OfScan, LogHolds
<1>6. CASE ForkRun
  <2>1. /\ UNCHANGED <<req, number, static, heuristics>> /\ pc = "fork" /\ pc' \in {"heuristics", "idle"}
    BY <1>6 DEF ForkRun, Abort
  <2>2. fork'.anchor \in {fork.anchor, NoBlock, Block(EngineNumber)}
    BY <1>6, ForkAnchor
  <2>3. SafeScan' => AnchorsHold'
    BY <1>2, <2>1, <2>2 DEF AnchorInv, SafeScan, AnchorsHold, OfScan, EngineNumber
  <2>4. SafeScan' => LogHolds'
    BY <1>1, <2>1 DEF AnchorInv, SafeScan, LogHolds
  <2>. QED
    BY <2>1, <2>3, <2>4 DEF AnchorInv
<1>7. CASE HeuristicsAnchor
  <2>1. /\ UNCHANGED <<req, number, static, fork>> /\ pc = "heuristics" /\ pc' \in {"combine", "read"}
    BY <1>7 DEF HeuristicsAnchor
  <2>. DEFINE none == [NoHeuristics EXCEPT !.score = 0]
              h(b) == [NoHeuristics EXCEPT !.anchor = b]
  <2>2. \/ heuristics' = heuristics \/ heuristics' = none
        \/ pc' = "read" /\ heuristics' = h(Block(EngineNumber))
    BY <1>7 DEF HeuristicsAnchor
  <2>3. none.anchor = NoBlock /\ \A b : h(b).anchor = b
    BY NoSummaries
  <2>. HIDE DEF none, h
  <2>4. \/ heuristics' = heuristics \/ heuristics'.anchor = NoBlock
        \/ pc' = "read" /\ heuristics'.anchor = Block(EngineNumber)
    BY <2>2, <2>3
  <2>5. SafeScan' => AnchorsHold'
    BY <1>2, <2>1, <2>4 DEF AnchorInv, SafeScan, AnchorsHold, OfScan, EngineNumber
  <2>6. SafeScan' => LogHolds'
    BY <1>1, <2>1, <2>4 DEF AnchorInv, SafeScan, LogHolds
  <2>. QED
    BY <2>1, <2>5, <2>6 DEF AnchorInv
<1>8. CASE HeuristicsRead
  <2>1. UNCHANGED <<req, number, static, fork>> /\ pc' = "score"
    BY <1>8 DEF HeuristicsRead
  <2>2. /\ heuristics'.anchor = heuristics.anchor
        /\ obs.logs => heuristics'.held = Holdings(WindowLog(heuristics.anchor[1]))
    BY <1>8, ReadStep
  <2>3. obs.logs => heuristics'.held = HeldAt(chain, heuristics.anchor[1])
    BY <2>2 DEF WindowLog, HeldAt
  <2>4. LogHolds'
    BY <1>1, <2>2, <2>3 DEF LogHolds
  <2>. QED
    BY <1>2, <2>1, <2>2, <2>4 DEF AnchorInv, SafeScan, AnchorsHold, OfScan
<1>9. CASE HeuristicsScore
  <2>1. UNCHANGED <<req, number, static, fork>> /\ pc = "score" /\ pc' = "combine"
    BY <1>9 DEF HeuristicsScore
  <2>2. heuristics'.anchor = heuristics.anchor /\ heuristics'.held = heuristics.held
    BY <1>9, ScoreStep
  <2>. QED
    BY <1>1, <1>2, <2>1, <2>2 DEF AnchorInv, SafeScan, AnchorsHold, OfScan, LogHolds
<1>10. CASE Combine
  <2>1. UNCHANGED <<req, number, static, fork, heuristics>> /\ pc = "combine" /\ pc' = "idle"
    BY <1>10 DEF Combine, scan
  <2>. QED
    BY <1>1, <1>2, <2>1 DEF AnchorInv, SafeScan, AnchorsHold, OfScan, LogHolds
<1>. QED
  BY <1>3, <1>4, <1>5, <1>6, <1>7, <1>8, <1>9, <1>10 DEF Scan

LEMMA AnchorStep ==
  ASSUME UnifiedTypeOK, WorkInv, LedgerInv, AnchorInv, [UnifiedNext]_unifiedVars
  PROVE  AnchorInv'
<1>1. CASE Grow \/ Reorg
  BY <1>1, ChainAnchors
<1>2. CASE Scan
  BY <1>2, ScanAnchors
<1>3. CASE UNCHANGED unifiedVars
  <2>1. UNCHANGED <<chain, obs, req, number, static, fork, heuristics, pc>>
    BY <1>3 DEF unifiedVars
  <2>2. \A n : Block(n)' = Block(n)
    BY <2>1 DEF Block
  <2>. QED
    BY <2>1, <2>2 DEF AnchorInv, SafeScan, AnchorsHold, OfScan, LogHolds
<1>. QED
  BY <1>1, <1>2, <1>3 DEF UnifiedNext

LEMMA InitAnchors == UnifiedInit => AnchorInv
<1>. SUFFICES ASSUME UnifiedInit PROVE AnchorInv
  OBVIOUS
<1>1. number = 0 /\ heuristics = NoHeuristics /\ static = NoStatic /\ fork = NoFork
  BY DEF UnifiedInit
<1>2. static.anchor = NoBlock /\ fork.anchor = NoBlock /\ heuristics.anchor = NoBlock
  BY <1>1, NoSummaries
<1>. QED
  BY <1>1, <1>2 DEF AnchorInv, AnchorsHold, OfScan, LogHolds

-----------------------------------------------------------------------------
(* The inductive invariant of UnifiedScan, and what it gives *)

UnifiedInv == UnifiedTypeOK /\ WorkInv /\ ReportInv /\ LedgerInv /\ AnchorInv

(* The invariant holds: the types, what a scan has read by the part it is at,    *)
(* the report, and the ledger of the blocks that stay.                           *)
THEOREM ScanInvariant == UnifiedSpec => []UnifiedInv
<1>1. UnifiedInit => UnifiedInv
  BY InitTypes, InitReport, InitLedger, InitAnchors DEF UnifiedInv
<1>2. UnifiedInv /\ [UnifiedNext]_unifiedVars => UnifiedInv'
  <2>. SUFFICES ASSUME UnifiedInv, [UnifiedNext]_unifiedVars
                PROVE  UnifiedInv'
    OBVIOUS
  <2>1. UnifiedTypeOK /\ WorkInv /\ ReportInv /\ LedgerInv /\ AnchorInv
    BY DEF UnifiedInv
  <2>2. UnifiedTypeOK' /\ WorkInv'
    BY <2>1, WorkStep
  <2>3. ReportInv'
    BY <2>1, ReportStep
  <2>4. LedgerInv'
    <3>1. CASE Grow \/ Reorg
      BY <2>1, <3>1, ChainLedger
    <3>2. CASE Scan
      BY <2>1, <3>2, ScanLedger
    <3>3. CASE UNCHANGED unifiedVars
      <4>1. chain' = chain /\ req' = req /\ number' = number /\ heuristics' = heuristics
        BY <3>3 DEF unifiedVars
      <4>2. Settled' = Settled
        BY <4>1 DEF Settled, TagNumber
      <4>. QED
        BY <2>1, <4>1, <4>2 DEF LedgerInv, HoldInv
    <3>. QED
      BY <3>1, <3>2, <3>3 DEF UnifiedNext
  <2>5. AnchorInv'
    BY <2>1, AnchorStep
  <2>. QED
    BY <2>2, <2>3, <2>4, <2>5 DEF UnifiedInv
<1>. QED
  BY <1>1, <1>2, PTL DEF UnifiedSpec

(* Every value stays in its type, for every chain, token and request: scores and *)
(* coverages stay in their ranges through _score_, _mean_ and _combine.          *)
THEOREM UnifiedTypes == UnifiedSpec => []UnifiedTypeOK
<1>1. UnifiedInv => UnifiedTypeOK
  BY DEF UnifiedInv
<1>. QED
  BY <1>1, ScanInvariant, PTL

(* A scan of a safe block is of that block, however long the chain grows and     *)
(* whichever of its last blocks is replaced between the parts: the anchors of    *)
(* the engines, and the window that the holders come from (the shared probe of   *)
(* analyze, anchor and get_logs).                                                *)
THEOREM OneSafeBlock == UnifiedSpec => []SafeScanIsOneBlock
<1>1. UnifiedInv => SafeScanIsOneBlock
  <2>. SUFFICES ASSUME UnifiedInv, Reported, SafeScan PROVE SafeScanIsOneBlock
    BY DEF SafeScanIsOneBlock, SafeScan
  <2>1. pc = "idle" /\ AnchorInv
    BY DEF UnifiedInv, ReportInv
  <2>2. AnchorsHold /\ LogHolds
    BY <2>1 DEF AnchorInv
  <2>3. number # 0 => Anchors \subseteq {Block(number)}
    BY <2>1, <2>2, EngineFacts DEF AnchorInv, AnchorsHold, OfScan, Anchors, Engines
  <2>. QED
    BY <2>1, <2>2, <2>3 DEF SafeScanIsOneBlock, LogHolds, HeldAt
<1>. QED
  BY <1>1, ScanInvariant, PTL

(* A verdict that no sale and no critical finding forced has two engines behind  *)
(* it: the weights of _combine let none of them reach half of the coverage.      *)
THEOREM TwoEnginesSpeak == UnifiedSpec => []NoVerdictFromOneEngine
<1>1. UnifiedInv => NoVerdictFromOneEngine
  BY DEF UnifiedInv, ReportInv
<1>. QED
  BY <1>1, ScanInvariant, PTL

(* A token without code is never of low risk: the hard block of RuleEngine.score *)
(* outweighs whatever the other engines report.                                  *)
THEOREM NoCodeNotLow == UnifiedSpec => []NoCodeIsNeverLow
<1>1. UnifiedInv => NoCodeIsNeverLow
  BY DEF UnifiedInv, ReportInv
<1>. QED
  BY <1>1, ScanInvariant, PTL

(* The holders of a window are not credited with more than they have at the      *)
(* anchor, for every chain of transfers and every length of the window.          *)
THEOREM HoldersNotOverstated == UnifiedSpec => []HoldingsNotOverstated
<1>1. UnifiedInv => HoldingsNotOverstated
  BY DEF UnifiedInv, LedgerInv, HoldInv, HeldWithin, HoldingsNotOverstated
<1>. QED
  BY <1>1, ScanInvariant, PTL
=============================================================================
