-------------------------- MODULE ExportJobsProofs ---------------------------
(***************************************************************************)
(* ExportJobs for any jobs, workers, pages, attempts and mishaps: types,   *)
(* one renderer of a job, and only complete files offered for download.    *)
(***************************************************************************)
EXTENDS ExportJobs, TLAPS

\* What a worker holds is a job, and no claim finds it: it is neither queued
\* nor running without a heartbeat, unless a live worker missed its lease.
Held == \A w \in Workers : job[w] # None /\ job[w] \notin lapsed =>
  /\ status[job[w]] \notin {"none", "queued"}
  /\ status[job[w]] = "running" => job[w] \in fresh

\* A completed job was never claimed again.
Closed == \A j \in path \ lapsed :
  /\ status[j] \in Settled /\ Renderers(j) = {}
  /\ file[j] = {} \/ Whole(j)

\* The bytes that a worker is writing, or has written, are its own.
Writing == \A w \in Workers : job[w] # None /\ job[w] \notin lapsed =>
  /\ at[w] = "flush" => file[job[w]] = {"begun"}
  /\ at[w] = "complete" => file[job[w]] = {w}

IInv == TypeOK /\ OneRenderer /\ Held /\ Closed /\ Writing
-----------------------------------------------------------------------------
LEMMA TypeInit == Init => TypeOK
BY ExportAssumption DEF Init, TypeOK, Unread, Unfinished, Settled

\* The workers' part of the types, when one of them rests.
Workforce ==
  /\ job \in [Workers -> Jobs \cup {None}]
  /\ at \in [Workers -> Working \cup {"idle", "clean"}]
  /\ \A v \in Workers : at[v] \in {"idle", "clean"} <=> job[v] = None
  /\ page \in [Workers -> 0..Pages]
  /\ \A v \in Workers : at[v] \in {"idle", "clean", "check", "render"} => page[v] < Pages
  /\ seen \in [Workers -> [status : Unfinished \cup Settled, attempts : 0..MaxAttempts]]
  /\ batch \in [Workers -> SUBSET Jobs]

LEMMA RestType ==
  ASSUME TypeOK, NEW w \in Workers, Rest(w)
  PROVE  Workforce' /\ \A v \in Workers : job'[v] # None => job'[v] = job[v]
<1>1. /\ Unread \in [status : Unfinished \cup Settled, attempts : 0..MaxAttempts]
      /\ 0 \in 0..Pages /\ 0 < Pages
  BY ExportAssumption DEF Unread, Unfinished
<1> HIDE DEF Unread
<1>2. /\ job'[w] = None /\ at'[w] = "idle" /\ page'[w] = 0
      /\ \A v \in Workers \ {w} : job'[v] = job[v] /\ at'[v] = at[v] /\ page'[v] = page[v]
  BY DEF TypeOK, Rest, Go
<1>3. /\ job' \in [Workers -> Jobs \cup {None}]
      /\ at' \in [Workers -> Working \cup {"idle", "clean"}]
      /\ page' \in [Workers -> 0..Pages]
  BY <1>1 DEF TypeOK, Rest, Go
<1>4. seen' \in [Workers -> [status : Unfinished \cup Settled, attempts : 0..MaxAttempts]]
  BY <1>1 DEF TypeOK, Rest
<1>5. batch' \in [Workers -> SUBSET Jobs]
  BY DEF TypeOK, Rest
<1>6. QED
  BY <1>1, <1>2, <1>3, <1>4, <1>5 DEF TypeOK, Workforce

LEMMA TypeNext == TypeOK /\ [Next]_vars => TypeOK'
<1> SUFFICES ASSUME TypeOK, [Next]_vars PROVE TypeOK'
  OBVIOUS
<1> USE ExportAssumption DEF TypeOK, row, Unfinished, Settled
<1>1. ASSUME NEW j \in Jobs, Create(j) \/ StopRead(j) \/ StopWrite(j) PROVE TypeOK'
  BY <1>1 DEF Create, StopRead, StopWrite, Mishap
<1>2. ASSUME NEW j \in Jobs, Lapse(j) \/ Expire(j) PROVE TypeOK'
  BY <1>2 DEF Lapse, Expire
<1>3. ASSUME NEW w \in Workers, NEW j \in Jobs, Claim(w, j) PROVE TypeOK'
  <2>1. seen' \in [Workers -> [status : Unfinished \cup Settled, attempts : 0..MaxAttempts]]
    BY <1>3 DEF Claim, Claimable
  <2>2. attempts' \in [Jobs -> 0..MaxAttempts]
    BY <1>3 DEF Claim, Claimable
  <2>3. /\ job' \in [Workers -> Jobs \cup {None}]
        /\ at' \in [Workers -> Working \cup {"idle", "clean"}]
        /\ \A v \in Workers : at'[v] \in {"idle", "clean"} <=> job'[v] = None
    BY <1>3 DEF Claim, Go, Working
  <2>4. \A v \in Workers : at'[v] \in {"idle", "clean", "check", "render"} => page'[v] < Pages
    BY <1>3 DEF Claim, Go
  <2>5. /\ status' \in [Jobs -> Unfinished \cup Settled \cup {"none"}]
        /\ \A v \in Workers : job'[v] # None => status'[job'[v]] # "none"
    BY <1>3 DEF Claim
  <2>6. QED
    BY <1>3, <2>1, <2>2, <2>3, <2>4, <2>5 DEF Claim
<1>4. ASSUME NEW w \in Workers, Check(w) PROVE TypeOK'
  <2>1. CASE Rest(w)
    <3>1. Workforce' /\ \A v \in Workers : job'[v] # None => job'[v] = job[v]
      BY <2>1, RestType
    <3>2. UNCHANGED <<row, stopping, lapsed, mishaps>>
      BY <1>4 DEF Check
    <3>3. QED
      BY <3>1, <3>2 DEF Workforce
  <2>2. CASE ~Rest(w)
    BY <1>4, <2>2 DEF Check, Go, Working
  <2>3. QED
    BY <2>1, <2>2
<1>5. ASSUME NEW w \in Workers, Beat(w) PROVE TypeOK'
  <2>1. job[w] \in Jobs /\ status[job[w]] \in Unfinished \cup Settled
    BY <1>5 DEF Beat
  <2>2. seen' \in [Workers -> [status : Unfinished \cup Settled, attempts : 0..MaxAttempts]]
    BY <1>5, <2>1 DEF Beat
  <2>3. at' \in [Workers -> Working \cup {"idle", "clean"}]
    BY <1>5 DEF Beat, Go, Working
  <2>4. \A v \in Workers : at'[v] \in {"idle", "clean", "check", "render"} => page'[v] < Pages
    BY <1>5 DEF Beat, Go
  <2>5. \A v \in Workers : at'[v] \in {"idle", "clean"} <=> job'[v] = None
    BY <1>5 DEF Beat, Go
  <2>6. QED
    BY <1>5, <2>1, <2>2, <2>3, <2>4, <2>5 DEF Beat
<1>6. ASSUME NEW w \in Workers, Render(w) PROVE TypeOK'
  <2>1. page' \in [Workers -> 0..Pages]
    BY <1>6 DEF Render
  <2>2. /\ at' \in [Workers -> Working \cup {"idle", "clean"}]
        /\ \A v \in Workers : at'[v] \in {"idle", "clean"} <=> job'[v] = None
        /\ \A v \in Workers : at'[v] \in {"idle", "clean", "check", "render"} => page'[v] < Pages
    BY <1>6 DEF Render, Go, Working
  <2>3. QED
    BY <1>6, <2>1, <2>2 DEF Render
<1>7. ASSUME NEW w \in Workers, Open(w) \/ Flush(w) PROVE TypeOK'
  <2>1. /\ at' \in [Workers -> Working \cup {"idle", "clean"}]
        /\ \A v \in Workers : at'[v] \in {"idle", "clean"} <=> job'[v] = None
        /\ \A v \in Workers : at'[v] \in {"idle", "clean", "check", "render"} => page'[v] < Pages
    BY <1>7 DEF Open, Flush, Go, Working
  <2>2. job[w] \in Jobs /\ file[job[w]] \in SUBSET (Workers \cup {"begun"})
    BY <1>7 DEF Open, Flush
  <2>3. file' \in [Jobs -> SUBSET (Workers \cup {"begun"})]
    BY <1>7, <2>2 DEF Open, Flush
  <2>4. QED
    BY <1>7, <2>1, <2>3 DEF Open, Flush
<1>8. ASSUME NEW w \in Workers, Complete(w) PROVE TypeOK'
  <2>1. Workforce' /\ \A v \in Workers : job'[v] # None => job'[v] = job[v]
    BY <1>8, RestType DEF Complete
  <2>2. job[w] \in Jobs
    BY <1>8 DEF Complete, FileWritten
  <2>3. QED
    BY <1>8, <2>1, <2>2 DEF Complete, Workforce
<1>9. ASSUME NEW w \in Workers, Fail(w) PROVE TypeOK'
  <2>1. job[w] \in Jobs
    BY <1>9 DEF Fail
  <2>2. /\ Written(w, "queued") \in Unfinished \cup Settled
        /\ Written(w, "failed") \in Unfinished \cup Settled
    BY <2>1 DEF Written
  <2>3. /\ status' \in [Jobs -> Unfinished \cup Settled \cup {"none"}]
        /\ \A j \in Jobs : status[j] # "none" => status'[j] # "none"
    <3>1. PICK to \in Unfinished \cup Settled : status' = [status EXCEPT ![job[w]] = to]
      BY <1>9, <2>2 DEF Fail
    <3>2. to # "none"
      BY <3>1
    <3>3. QED
      BY <3>1, <3>2, <2>1
  <2>4. Workforce' /\ \A v \in Workers : job'[v] # None => job'[v] = job[v]
    BY <1>9, RestType DEF Fail
  <2>5. fresh' \subseteq Jobs /\ mishaps' \in 0..MaxMishaps
    BY <1>9 DEF Fail, Mishap
  <2>6. \A v \in Workers : job'[v] # None => status'[job'[v]] # "none"
    BY <2>3, <2>4
  <2>7. QED
    BY <1>9, <2>3, <2>4, <2>5, <2>6 DEF Fail, Workforce
<1>10. ASSUME NEW w \in Workers, Lose(w) PROVE TypeOK'
  <2>1. Workforce' /\ \A v \in Workers : job'[v] # None => job'[v] = job[v]
    BY <1>10, RestType DEF Lose
  <2>2. QED
    BY <1>10, <2>1 DEF Lose, Mishap, Workforce
<1>11. ASSUME NEW w \in Workers, CleanupFiles(w) PROVE TypeOK'
  BY <1>11 DEF CleanupFiles, Go
<1>12. ASSUME NEW w \in Workers, CleanupRows(w) PROVE TypeOK'
  <2>1. Workforce' /\ \A v \in Workers : job'[v] # None => job'[v] = job[v]
    BY <1>12, RestType DEF CleanupRows
  <2>2. QED
    BY <1>12, <2>1 DEF CleanupRows, Workforce
<1>13. CASE UNCHANGED vars
  BY <1>13 DEF vars
<1>14. QED
  BY <1>1, <1>2, <1>3, <1>4, <1>5, <1>6, <1>7, <1>8, <1>9, <1>10, <1>11, <1>12, <1>13
     DEF Next, Work, Take

(* The queue, its workers and their files stay what they are.              *)
THEOREM TypeCorrect == Spec => []TypeOK
BY TypeInit, TypeNext, PTL DEF Spec
-----------------------------------------------------------------------------
(* The promises of the claim and of the lease.                             *)

LEMMA IInit == Init => IInv
<1> SUFFICES ASSUME Init PROVE IInv
  OBVIOUS
<1>1. /\ \A w \in Workers : job[w] = None
      /\ path = {}
  BY DEF Init
<1>2. QED
  BY <1>1, TypeInit DEF IInv, OneRenderer, Held, Closed, Writing

\* A worker that stops rendering breaks no promise to the others.
LEMMA RestKeeps ==
  ASSUME IInv, NEW w \in Workers, Rest(w)
  PROVE  \A v \in Workers : job'[v] # None => v # w /\ job'[v] = job[v] /\ at'[v] = at[v]
BY DEF IInv, TypeOK, Rest, Go

LEMMA IStep == IInv /\ [Next]_vars => IInv'
<1> SUFFICES ASSUME IInv, [Next]_vars PROVE (OneRenderer /\ Held /\ Closed /\ Writing)'
  BY TypeNext DEF IInv
<1> USE ExportAssumption DEF IInv, TypeOK, OneRenderer, Held, Closed, Writing, Renderers, Whole,
        Settled, Unfinished
<1>1. ASSUME NEW j \in Jobs, Create(j) \/ StopRead(j) \/ StopWrite(j)
      PROVE (OneRenderer /\ Held /\ Closed /\ Writing)'
  BY <1>1 DEF Create, StopRead, StopWrite, row
<1>2. ASSUME NEW j \in Jobs, Lapse(j) PROVE (OneRenderer /\ Held /\ Closed /\ Writing)'
  BY <1>2 DEF Lapse
<1>3. ASSUME NEW j \in Jobs, Expire(j) PROVE (OneRenderer /\ Held /\ Closed /\ Writing)'
  BY <1>3 DEF Expire
<1>4. ASSUME NEW w \in Workers, NEW j \in Jobs, Claim(w, j)
      PROVE (OneRenderer /\ Held /\ Closed /\ Writing)'
  <2>1. \A v \in Workers : job[v] = j => j \in lapsed
    BY <1>4 DEF Claim, Claimable
  <2>2. j \in path => j \in lapsed
    BY <1>4 DEF Claim, Claimable
  <2>3. /\ job' = [job EXCEPT ![w] = j] /\ at' = [at EXCEPT ![w] = "check"]
        /\ status' = [status EXCEPT ![j] = "running"] /\ fresh' = fresh \cup {j}
        /\ UNCHANGED <<path, file, lapsed>>
    BY <1>4 DEF Claim, Go
  <2>4. OneRenderer'
    BY <2>1, <2>3
  <2>5. Held' /\ Writing'
    BY <2>1, <2>3
  <2>6. ASSUME NEW i \in path' \ lapsed' PROVE status'[i] \in Settled /\ Renderers(i)' = {}
    BY <2>2, <2>3
  <2>7. Closed'
    BY <2>3, <2>6
  <2>8. QED
    BY <2>4, <2>5, <2>7
<1>5. ASSUME NEW w \in Workers, Check(w) PROVE (OneRenderer /\ Held /\ Closed /\ Writing)'
  <2>1. /\ UNCHANGED <<status, fresh, path, file, lapsed>>
        /\ \A v \in Workers : job'[v] # None => job'[v] = job[v] /\ (at'[v] = at[v] \/ at'[v] = "beat")
    BY <1>5 DEF Check, Rest, Go, row
  <2>2. \A j \in Jobs : Renderers(j)' \subseteq Renderers(j)
    BY <2>1
  <2>3. OneRenderer' /\ Held' /\ Writing'
    BY <2>1
  <2>4. Closed'
    BY <2>1, <2>2
  <2>5. QED
    BY <2>3, <2>4
<1>6. ASSUME NEW w \in Workers, Beat(w) \/ Render(w)
      PROVE (OneRenderer /\ Held /\ Closed /\ Writing)'
  <2>1. /\ UNCHANGED <<status, path, file, job, lapsed>> /\ fresh \subseteq fresh'
        /\ \A v \in Workers : at'[v] \in {"flush", "complete"} => at'[v] = at[v]
    BY <1>6 DEF Beat, Render, Go, row
  <2>2. OneRenderer' /\ Held' /\ Closed'
    BY <2>1
  <2>3. Writing'
    BY <2>1
  <2>4. QED
    BY <2>2, <2>3
<1>7. ASSUME NEW w \in Workers, Open(w) \/ Flush(w)
      PROVE (OneRenderer /\ Held /\ Closed /\ Writing)'
  <2>1. job[w] \in Jobs /\ (job[w] \in path => job[w] \in lapsed)
    BY <1>7 DEF Open, Flush
  <2>2. UNCHANGED <<status, fresh, path, job, lapsed>>
    BY <1>7 DEF Open, Flush
  <2>3. \A j \in Jobs \ {job[w]} : file'[j] = file[j]
    BY <1>7, <2>1 DEF Open, Flush
  <2>4. OneRenderer' /\ Held'
    BY <2>2
  <2>5. ASSUME NEW i \in path' \ lapsed'
        PROVE  /\ status'[i] \in Settled /\ Renderers(i)' = {}
               /\ file'[i] = {} \/ Whole(i)'
    <3>1. i \in path \ lapsed /\ i # job[w]
      BY <2>1, <2>2
    <3>2. file'[i] = file[i] /\ status'[i] = status[i] /\ Renderers(i)' = Renderers(i)
      BY <2>2, <2>3, <3>1
    <3>3. QED
      BY <3>1, <3>2
  <2>6. Closed'
    BY <2>5
  <2>7. Writing'
    BY <1>7, <2>1, <2>2 DEF Open, Flush, Go
  <2>8. QED
    BY <2>4, <2>6, <2>7
<1>8. ASSUME NEW w \in Workers, Complete(w) PROVE (OneRenderer /\ Held /\ Closed /\ Writing)'
  <2>1. job[w] \in Jobs /\ (job[w] \notin lapsed => file[job[w]] = {w})
    BY <1>8 DEF Complete, FileWritten
  <2>2. /\ status' = [status EXCEPT ![job[w]] = "succeeded"]
        /\ path' = path \cup {job[w]} /\ fresh' = fresh \cup {job[w]}
        /\ UNCHANGED <<file, lapsed>>
    BY <1>8 DEF Complete
  <2>3. \A v \in Workers : job'[v] # None => v # w /\ job'[v] = job[v] /\ at'[v] = at[v]
    BY <1>8, RestKeeps DEF Complete
  <2>4. \A j \in Jobs : Renderers(j)' \subseteq Renderers(j) \ {w}
    BY <2>3
  <2>5. \A v \in Workers : job'[v] # None /\ job[w] \notin lapsed => job'[v] # job[w]
    BY <2>1, <2>3
  <2>6. OneRenderer' /\ Writing'
    BY <2>2, <2>3
  <2>7. Held'
    BY <2>1, <2>2, <2>3
  <2>8. ASSUME NEW i \in path' \ lapsed'
         PROVE  /\ status'[i] \in Settled /\ Renderers(i)' = {}
                /\ file'[i] = {} \/ Whole(i)'
    <3>1. CASE i = job[w]
      <4>1. Renderers(i)' = {}
        BY <2>1, <2>2, <2>5, <3>1
      <4>2. Whole(i)'
        BY <2>1, <2>2, <3>1
      <4>3. QED
        BY <2>1, <2>2, <3>1, <4>1, <4>2
    <3>2. CASE i # job[w]
      <4>1. i \in path \ lapsed /\ status'[i] = status[i] /\ file'[i] = file[i]
        BY <2>1, <2>2, <3>2
      <4>2. QED
        BY <2>4, <4>1
    <3>3. QED
      BY <3>1, <3>2
  <2>9. Closed'
    BY <2>8
  <2>10. QED
    BY <2>6, <2>7, <2>9
<1>9. ASSUME NEW w \in Workers, Fail(w) PROVE (OneRenderer /\ Held /\ Closed /\ Writing)'
  <2>1. job[w] \in Jobs /\ (job[w] \in path => job[w] \in lapsed)
    BY <1>9 DEF Fail
  <2>2. /\ \A j \in Jobs \ {job[w]} : status'[j] = status[j] /\ (j \in fresh' <=> j \in fresh)
        /\ UNCHANGED <<path, file, lapsed>>
    BY <1>9 DEF Fail
  <2>3. \A v \in Workers : job'[v] # None => v # w /\ job'[v] = job[v] /\ at'[v] = at[v]
    BY <1>9, RestKeeps DEF Fail
  <2>4. \A j \in Jobs : Renderers(j)' \subseteq Renderers(j)
    BY <2>3
  <2>5. \A v \in Workers : job'[v] # None /\ job'[v] \notin lapsed => job'[v] # job[w]
    BY <2>1, <2>3
  <2>6. OneRenderer' /\ Writing'
    BY <2>2, <2>3
  <2>7. Held'
    BY <2>2, <2>3, <2>5
  <2>8. Closed'
    BY <2>1, <2>2, <2>4
  <2>9. QED
    BY <2>6, <2>7, <2>8
<1>10. ASSUME NEW w \in Workers, Lose(w) PROVE (OneRenderer /\ Held /\ Closed /\ Writing)'
  <2>1. \A v \in Workers : job'[v] # None => v # w /\ job'[v] = job[v] /\ at'[v] = at[v]
    BY <1>10, RestKeeps DEF Lose
  <2>2. UNCHANGED <<status, path, file, fresh, lapsed>>
    BY <1>10 DEF Lose, row
  <2>3. OneRenderer' /\ Held' /\ Writing'
    BY <2>1, <2>2
  <2>4. \A j \in Jobs : Renderers(j)' \subseteq Renderers(j)
    BY <2>1
  <2>5. Closed'
    BY <2>2, <2>4
  <2>6. QED
    BY <2>3, <2>5
<1>11. ASSUME NEW w \in Workers, CleanupFiles(w)
       PROVE (OneRenderer /\ Held /\ Closed /\ Writing)'
  <2>1. file' \in [Jobs -> SUBSET (Workers \cup {"begun"})]
        /\ \A j \in Jobs : file'[j] = file[j] \/ (file'[j] = {} /\ j \in path)
    BY <1>11 DEF CleanupFiles
  <2>2. /\ UNCHANGED <<status, fresh, path, job, lapsed>>
        /\ \A v \in Workers : at'[v] # at[v] => v = w /\ at'[v] = "clean"
    BY <1>11 DEF CleanupFiles, Go
  <2>3. OneRenderer' /\ Held'
    BY <2>2
  <2>4. \A j \in Jobs : Renderers(j)' = Renderers(j) /\ (Whole(j) /\ file'[j] # {} => Whole(j)')
    BY <2>1, <2>2
  <2>5. Closed'
    BY <2>1, <2>2, <2>4
  <2>6. \A v \in Workers : job[v] # None /\ job[v] \notin lapsed => job[v] \notin path
    OBVIOUS
  <2>7. Writing'
    BY <2>1, <2>2, <2>6
  <2>8. QED
    BY <2>3, <2>7, <2>5
<1>12. ASSUME NEW w \in Workers, CleanupRows(w)
       PROVE (OneRenderer /\ Held /\ Closed /\ Writing)'
  <2>1. \A v \in Workers : job'[v] # None => v # w /\ job'[v] = job[v] /\ at'[v] = at[v]
    BY <1>12, RestKeeps DEF CleanupRows
  <2>2. UNCHANGED <<status, file, fresh, lapsed>> /\ path' \subseteq path
    BY <1>12 DEF CleanupRows
  <2>3. OneRenderer' /\ Held' /\ Writing'
    BY <2>1, <2>2
  <2>4. \A j \in Jobs : Renderers(j)' \subseteq Renderers(j)
    BY <2>1
  <2>5. Closed'
    BY <2>2, <2>4
  <2>6. QED
    BY <2>3, <2>5
<1>13. CASE UNCHANGED vars
  BY <1>13 DEF vars, row
<1>14. QED
  BY <1>1, <1>2, <1>3, <1>4, <1>5, <1>6, <1>7, <1>8, <1>9, <1>10, <1>11, <1>12, <1>13
     DEF Next, Work, Take

\* Two workers render one job only after a live one missed its lease.
THEOREM OneRendererAlways == Spec => []OneRenderer
<1>1. IInv => OneRenderer
  BY DEF IInv
<1>2. QED
  BY IInit, IStep, <1>1, PTL DEF Spec

\* Whatever the retries, Stops and lost workers, what is downloaded is whole.
THEOREM ServedWholeAlways == Spec => []ServedWhole
<1>1. IInv => ServedWhole
  BY DEF IInv, Closed, ServedWhole, Ready
<1>2. QED
  BY IInit, IStep, <1>1, PTL DEF Spec
-----------------------------------------------------------------------------
(* No export waits in vain.                                                *)

\* A job that waits in the queue is one that the next free worker can claim.
QueuedClaimable == \A j \in Jobs \ lapsed : status[j] = "queued" => Claimable(j)

\* What a worker's session knows of its job's attempts is true.
Picture == \A w \in Workers : job[w] # None /\ job[w] \notin lapsed =>
  seen[w].attempts = attempts[job[w]]

Untried == \A j \in Jobs : status[j] = "none" => attempts[j] = 0

WInv == QueuedClaimable /\ Picture /\ Untried

LEMMA WInit == Init => WInv
BY ExportAssumption DEF Init, WInv, QueuedClaimable, Picture, Untried

LEMMA WStep == IInv /\ WInv /\ [Next]_vars => WInv'
<1> SUFFICES ASSUME IInv, WInv, [Next]_vars PROVE WInv'
  OBVIOUS
<1> USE ExportAssumption DEF IInv, TypeOK, WInv, QueuedClaimable, Claimable, Picture, Untried
<1>1. ASSUME NEW j \in Jobs, Create(j) PROVE WInv'
  BY <1>1 DEF Create
<1>2. ASSUME NEW j \in Jobs, StopRead(j) \/ StopWrite(j) PROVE WInv'
  BY <1>2 DEF StopRead, StopWrite, row, Unfinished
<1>3. ASSUME NEW j \in Jobs, Lapse(j) \/ Expire(j) PROVE WInv'
  BY <1>3 DEF Lapse, Expire
<1>4. ASSUME NEW w \in Workers, NEW j \in Jobs, Claim(w, j) PROVE WInv'
  <2>1. \A v \in Workers : job[v] = j => j \in lapsed
    BY <1>4 DEF Claim, Claimable, Held
  <2>2. /\ job' = [job EXCEPT ![w] = j]
        /\ status' = [status EXCEPT ![j] = "running"]
        /\ attempts' = [attempts EXCEPT ![j] = @ + 1]
        /\ lapsed' = lapsed
        /\ seen' = [seen EXCEPT ![w] = [status |-> "running", attempts |-> attempts[j] + 1]]
    BY <1>4 DEF Claim
  <2>3. Picture'
    BY <2>1, <2>2
  <2>4. QueuedClaimable' /\ Untried'
    BY <2>2
  <2>5. QED
    BY <2>3, <2>4
<1>5. ASSUME NEW w \in Workers, Check(w) PROVE WInv'
  BY <1>5 DEF Check, Rest, Go, row
<1>6. ASSUME NEW w \in Workers, Beat(w) PROVE WInv'
  BY <1>6 DEF Beat
<1>7. ASSUME NEW w \in Workers, Render(w) \/ Open(w) \/ Flush(w) PROVE WInv'
  BY <1>7 DEF Render, Open, Flush, row
<1>8. ASSUME NEW w \in Workers, Complete(w) PROVE WInv'
  BY <1>8 DEF Complete, FileWritten, Rest, Go
<1>9. ASSUME NEW w \in Workers, Fail(w) PROVE WInv'
  <2>1. /\ job[w] \in Jobs
        /\ job[w] \notin lapsed => status[job[w]] \notin {"none", "queued"}
    BY <1>9 DEF Fail, Held
  <2>2. /\ \A j \in Jobs \ {job[w]} : status'[j] = status[j]
        /\ UNCHANGED <<attempts, lapsed>>
    BY <1>9 DEF Fail
  <2>3. job[w] \notin lapsed /\ status'[job[w]] = "queued" => attempts[job[w]] < MaxAttempts
    BY <1>9, <2>1 DEF Fail, Written, AttemptsLeft
  <2>4. status'[job[w]] # "none"
    BY <1>9, <2>1 DEF Fail, Written
  <2>5. QueuedClaimable' /\ Untried'
    BY <2>1, <2>2, <2>3, <2>4
  <2>6. Picture'
    BY <1>9, <2>2 DEF Fail, Rest
  <2>7. QED
    BY <2>5, <2>6
<1>10. ASSUME NEW w \in Workers, Lose(w) PROVE WInv'
  BY <1>10 DEF Lose, Rest, row
<1>11. ASSUME NEW w \in Workers, CleanupFiles(w) PROVE WInv'
  BY <1>11 DEF CleanupFiles
<1>12. ASSUME NEW w \in Workers, CleanupRows(w) PROVE WInv'
  BY <1>12 DEF CleanupRows, Rest
<1>13. CASE UNCHANGED vars
  BY <1>13 DEF vars, row
<1>14. QED
  BY <1>1, <1>2, <1>3, <1>4, <1>5, <1>6, <1>7, <1>8, <1>9, <1>10, <1>11, <1>12, <1>13
     DEF Next, Work, Take

\* fail_job puts a job back only with an attempt left to claim it with, because
\* the attempts it judges by are the claim's own: no failure, Stop or lost worker
\* leaves a job queued that no worker will take.
THEOREM QueuedClaimableAlways == Spec => []QueuedClaimable
<1>1. WInv => QueuedClaimable
  BY DEF WInv
<1>2. QED
  BY IInit, IStep, WInit, WStep, <1>1, PTL DEF Spec
=============================================================================
