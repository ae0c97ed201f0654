----------------------------- MODULE CronProofs -----------------------------
(***************************************************************************)
(* Safety proofs for Cron.  Every section reads one of the two stores and   *)
(* leaves in both what it made of it, so the stores agree but for markers,  *)
(* and each operation on jobs keeps a slot that is owed due, moves it on    *)
(* under the eyes of the history, or belongs to a run that has finished.    *)
(* The marker of a job tells the sections apart that may start a run of it. *)
(***************************************************************************)
EXTENDS Cron, FiniteSetTheorems, TLAPS

(* The jobs a store may hold after a section. *)
Sound(jobs) ==
  /\ jobs \in [Jobs -> Stored]
  /\ \A j \in Jobs :
       /\ jobs[j].there \/ jobs[j] = NoJob
       /\ jobs[j].next # "none" => jobs[j].enabled
       /\ j \in Recurring /\ jobs[j].enabled => jobs[j].next # "none"

(* What is due is owed, what is owed is due or will be soon, unless it was  *)
(* moved on, and what is there was created.                                 *)
SlotsFit(jobs, O, A, C) ==
  /\ \A j \in Jobs : jobs[j].next = "due" => j \in O
  /\ \A j \in Jobs : j \in O \ A => jobs[j].enabled /\ jobs[j].next \in {"due", "soon"}
  /\ \A j \in Jobs \ C : ~jobs[j].there

Fits(jobs, O, A, C) == Sound(jobs) /\ SlotsFit(jobs, O, A, C)

(* Within a section, before disabled jobs are normalized.                   *)
Loose(jobs, O, A, C) ==
  /\ jobs \in [Jobs -> Stored]
  /\ \A j \in Jobs : jobs[j].there \/ jobs[j] = NoJob
  /\ SlotsFit(jobs, O, A, C)

InSync ==
  \A j \in Jobs :
    mem[j].there = disk[j].there /\ mem[j].enabled = disk[j].enabled /\ mem[j].next = disk[j].next

CallsLoaded ==
  \A c \in Calls : call[c].step # "idle" => Loaded /\ call[c].job \in Jobs

StoresFit ==
  /\ Fits(disk, owed, advanced, created)
  /\ Sound(mem)
  /\ Loaded => InSync
  /\ CallsLoaded

(* A job is in the hands of one tick, catch-up or manual run. *)
OneAgent(j) ==
  /\ tick[j] # "no" => catchup[j] = "no" /\ ManualRuns(j) = {}
  /\ catchup[j] # "no" => ManualRuns(j) = {}
  /\ \A c, d \in ManualRuns(j) : c = d

RunsAreMarked ==
  \A j \in Jobs \ cleared : Underway(j) => OneAgent(j) /\ disk[j].marked /\ mem[j].marked

IInv ==
  /\ TypeOK
  /\ StoresFit
  /\ RunsAreMarked

-----------------------------------------------------------------------------
(* Operations on jobs.                                                      *)

LEMMA SameRecord ==
  ASSUME NEW a \in Stored, NEW b \in Stored, a.there = b.there, a.enabled = b.enabled,
         a.next = b.next, a.marked = b.marked, a.over = b.over
  PROVE  a = b
BY DEF Stored

LEMMA NoJobIs ==
  /\ NoJob \in Stored /\ ~NoJob.there /\ ~NoJob.enabled /\ NoJob.next = "none" /\ ~NoJob.marked
  /\ NewJob \in Stored /\ NewJob.there /\ NewJob.enabled /\ NewJob.next = "future" /\ ~NewJob.marked
  /\ [NoJob EXCEPT !.marked = FALSE] = NoJob
  /\ [NoJob EXCEPT !.next = "none", !.marked = FALSE] = NoJob
<1> DEFINE x == [NoJob EXCEPT !.marked = FALSE]
           y == [NoJob EXCEPT !.next = "none", !.marked = FALSE]
<1>1. /\ NewJob \in Stored /\ NewJob.there /\ NewJob.enabled /\ NewJob.next = "future"
      /\ ~NewJob.marked
  BY DEF NoJob, NewJob, Stored
<1>2. /\ NoJob \in Stored /\ NoJob.there = FALSE /\ NoJob.enabled = FALSE
      /\ NoJob.next = "none" /\ NoJob.marked = FALSE /\ NoJob.over = FALSE
  BY DEF NoJob, Stored
<1>3. /\ x \in Stored /\ x.there = NoJob.there /\ x.enabled = NoJob.enabled
      /\ x.next = NoJob.next /\ x.marked = NoJob.marked /\ x.over = NoJob.over
      /\ y \in Stored /\ y.there = NoJob.there /\ y.enabled = NoJob.enabled
      /\ y.next = NoJob.next /\ y.marked = NoJob.marked /\ y.over = NoJob.over
  BY <1>2 DEF Stored
<1> HIDE DEF x, y
<1>4. x = NoJob /\ y = NoJob
  BY <1>2, <1>3, SameRecord
<1> QED
  BY <1>1, <1>2, <1>4 DEF x, y

LEMMA JobsAreFinite ==
  /\ IsFiniteSet(Jobs)
  /\ \A S : S \subseteq Jobs => IsFiniteSet(S) /\ Cardinality(S) \in Nat
BY JobsAssumption, FS_Subset, FS_CardinalityType

LEMMA NormalizedIs ==
  ASSUME NEW j \in Jobs, NEW job \in Stored, job.there \/ job = NoJob
  PROVE  LET r == Missing(j, Normalized(job))
         IN  /\ r \in Stored /\ (r.there \/ r = NoJob)
             /\ r.there = job.there /\ r.enabled = job.enabled
             /\ r.next # "none" => r.enabled
             /\ j \in Recurring /\ r.enabled => r.next # "none"
             /\ r.next = "due" => job.next = "due"
             /\ job.enabled /\ job.next # "none" => r.next = job.next
             /\ /\ job.next # "none" => job.enabled
                /\ j \in Recurring /\ job.enabled => job.next # "none"
                => r.next = job.next
<1> DEFINE n == Normalized(job)
           r == Missing(j, n)
<1>1. /\ n \in Stored /\ (n.there \/ n = NoJob) /\ n.there = job.there /\ n.enabled = job.enabled
      /\ n.next = IF job.enabled THEN job.next ELSE "none"
  <2>1. CASE job.enabled
    BY <2>1 DEF Normalized
  <2>2. CASE ~job.enabled
    <3>1. n = [job EXCEPT !.next = "none", !.marked = FALSE]
      BY <2>2 DEF Normalized
    <3>2. n \in Stored /\ n.there = job.there /\ n.enabled = job.enabled /\ n.next = "none"
      BY <3>1 DEF Stored
    <3>3. job = NoJob => n = NoJob
      BY <3>1, NoJobIs
    <3> QED
      BY <2>2, <3>2, <3>3
  <2> QED
    BY <2>1, <2>2
<1>2. r = IF n.enabled /\ n.next = "none" /\ j \in Recurring
          THEN [n EXCEPT !.next = "future"] ELSE n
  BY DEF Missing
<1> HIDE DEF n, r
<1>3. CASE n.enabled /\ n.next = "none" /\ j \in Recurring
  <2>1. r = [n EXCEPT !.next = "future"]
    BY <1>2, <1>3
  <2>2. r \in Stored /\ r.there = n.there /\ r.enabled = n.enabled /\ r.next = "future"
    BY <1>1, <2>1 DEF Stored
  <2>3. n.there /\ job.enabled /\ job.next = "none"
    BY <1>1, <1>3, NoJobIs
  <2> QED
    BY <1>1, <1>3, <2>2, <2>3 DEF n, r
<1>4. CASE ~(n.enabled /\ n.next = "none" /\ j \in Recurring)
  <2>1. r = n
    BY <1>2, <1>4
  <2> QED
    BY <1>1, <1>4, <2>1 DEF n, r
<1> QED
  BY <1>3, <1>4

LEMMA MaintainedFits ==
  ASSUME NEW jobs, NEW O, NEW A, NEW C, Loose(jobs, O, A, C)
  PROVE  Fits(Maintained(jobs), O, A, C)
<1> DEFINE r == Maintained(jobs)
<1>1. jobs \in [Jobs -> Stored] /\ \A j \in Jobs : jobs[j].there \/ jobs[j] = NoJob
  BY DEF Loose
<1>2. \A j \in Jobs : r[j] = Missing(j, Normalized(jobs[j]))
  BY DEF Maintained
<1>3. r = [j \in Jobs |-> r[j]]
  BY DEF Maintained
<1> HIDE DEF r
<1>4. \A j \in Jobs :
        /\ r[j] \in Stored /\ (r[j].there \/ r[j] = NoJob)
        /\ r[j].there = jobs[j].there /\ r[j].enabled = jobs[j].enabled
        /\ r[j].next # "none" => r[j].enabled
        /\ j \in Recurring /\ r[j].enabled => r[j].next # "none"
        /\ r[j].next = "due" => jobs[j].next = "due"
        /\ jobs[j].enabled /\ jobs[j].next # "none" => r[j].next = jobs[j].next
  BY <1>1, <1>2, NormalizedIs
<1>5. Sound(r)
  BY <1>3, <1>4 DEF Sound
<1>6. SlotsFit(r, O, A, C)
  BY <1>4 DEF SlotsFit, Loose
<1> QED
  BY <1>5, <1>6 DEF Fits, r

LEMMA SoundIsLoose ==
  ASSUME NEW jobs, NEW O, NEW A, NEW C, Fits(jobs, O, A, C)
  PROVE  Loose(jobs, O, A, C)
BY DEF Fits, Loose, Sound

(* Of sound jobs the maintenance changes only markers. *)
LEMMA MaintainedIs ==
  ASSUME NEW jobs, Sound(jobs)
  PROVE  LET r == Maintained(jobs)
         IN  /\ Sound(r)
             /\ \A j \in Jobs : r[j].there = jobs[j].there /\ r[j].enabled = jobs[j].enabled
                                /\ r[j].next = jobs[j].next
<1> DEFINE r == Maintained(jobs)
<1>1. /\ jobs \in [Jobs -> Stored]
      /\ \A j \in Jobs : /\ jobs[j].there \/ jobs[j] = NoJob
                         /\ jobs[j].next # "none" => jobs[j].enabled
                         /\ j \in Recurring /\ jobs[j].enabled => jobs[j].next # "none"
  BY DEF Sound
<1>2. \A j \in Jobs : r[j] = Missing(j, Normalized(jobs[j]))
  BY DEF Maintained
<1>3. r = [j \in Jobs |-> r[j]]
  BY DEF Maintained
<1> HIDE DEF r
<1>4. ASSUME NEW j \in Jobs
      PROVE  /\ r[j] \in Stored /\ (r[j].there \/ r[j] = NoJob)
             /\ r[j].there = jobs[j].there /\ r[j].enabled = jobs[j].enabled
             /\ r[j].next = jobs[j].next
  BY <1>1, <1>2, NormalizedIs
<1>5. Sound(r)
  BY <1>1, <1>3, <1>4 DEF Sound
<1> QED
  BY <1>4, <1>5 DEF r

LEMMA RecomputedFits ==
  ASSUME NEW jobs, NEW O, NEW A, NEW C, Fits(jobs, O, A, C)
  PROVE  LET r == Recomputed(jobs)
         IN  /\ Fits(r, O, A \cup MovedOn(jobs, r), C)
             /\ \A j \in Jobs : r[j].there = jobs[j].there
<1> DEFINE r == Recomputed(jobs)
<1>1. /\ jobs \in [Jobs -> Stored]
      /\ \A j \in Jobs : /\ jobs[j].there \/ jobs[j] = NoJob
                         /\ jobs[j].next # "none" => jobs[j].enabled
                         /\ j \in Recurring /\ jobs[j].enabled => jobs[j].next # "none"
  BY DEF Fits, Sound
<1>2. \A j \in Jobs :
        r[j] = IF j \in Recurring /\ jobs[j].enabled /\ jobs[j].next = "due"
               THEN [jobs[j] EXCEPT !.next = "future"]
               ELSE Missing(j, Normalized(jobs[j]))
  BY DEF Recomputed
<1>3. r = [j \in Jobs |-> r[j]]
  BY DEF Recomputed
<1> HIDE DEF r
<1>4. ASSUME NEW j \in Jobs
      PROVE  /\ r[j] \in Stored /\ (r[j].there \/ r[j] = NoJob)
             /\ r[j].there = jobs[j].there /\ r[j].enabled = jobs[j].enabled
             /\ r[j].next = jobs[j].next \/ (jobs[j].next = "due" /\ r[j].next = "future")
  <2>1. CASE j \in Recurring /\ jobs[j].enabled /\ jobs[j].next = "due"
    <3>1. jobs[j] \in Stored /\ jobs[j].there /\ r[j] = [jobs[j] EXCEPT !.next = "future"]
      BY <1>1, <1>2, <2>1, NoJobIs
    <3> QED
      BY <2>1, <3>1 DEF Stored
  <2>2. CASE ~(j \in Recurring /\ jobs[j].enabled /\ jobs[j].next = "due")
    <3>1. r[j] = Missing(j, Normalized(jobs[j]))
      BY <1>2, <2>2
    <3> QED
      BY <1>1, <3>1, NormalizedIs
  <2> QED
    BY <2>1, <2>2
<1>5. Sound(r)
  BY <1>1, <1>3, <1>4 DEF Sound
<1>6. SlotsFit(r, O, A \cup MovedOn(jobs, r), C)
  BY <1>4 DEF SlotsFit, Fits, MovedOn
<1> QED
  BY <1>4, <1>5, <1>6 DEF Fits, r

(* Jobs that differ from others only in their markers. *)
SameSlots(jobs, r) ==
  \A j \in Jobs : /\ r[j].there = jobs[j].there
                  /\ r[j].enabled = jobs[j].enabled
                  /\ r[j].next = jobs[j].next

LEMMA MarkedIs ==
  ASSUME NEW jobs, Sound(jobs), NEW S, \A j \in S : j \in Jobs /\ jobs[j].there
  PROVE  LET r == Marked(jobs, S)
         IN  /\ Sound(r) /\ SameSlots(jobs, r)
             /\ \A j \in Jobs : r[j].marked = (jobs[j].marked \/ j \in S)
<1> DEFINE r == Marked(jobs, S)
<1>1. /\ jobs \in [Jobs -> Stored]
      /\ \A j \in Jobs : /\ jobs[j].there \/ jobs[j] = NoJob
                         /\ jobs[j].next # "none" => jobs[j].enabled
                         /\ j \in Recurring /\ jobs[j].enabled => jobs[j].next # "none"
  BY DEF Sound
<1>2. \A j \in Jobs : r[j] = IF j \in S THEN [jobs[j] EXCEPT !.marked = TRUE] ELSE jobs[j]
  BY DEF Marked
<1>3. r = [j \in Jobs |-> r[j]]
  BY DEF Marked
<1> HIDE DEF r
<1>4. ASSUME NEW j \in Jobs
      PROVE  /\ r[j] \in Stored /\ (r[j].there \/ r[j] = NoJob)
             /\ r[j].there = jobs[j].there /\ r[j].enabled = jobs[j].enabled
             /\ r[j].next = jobs[j].next
             /\ r[j].marked = (jobs[j].marked \/ j \in S)
  <2>1. jobs[j] \in Stored
    BY <1>1
  <2> QED
    BY <1>1, <1>2, <2>1 DEF Stored
<1>5. Sound(r)
  BY <1>1, <1>3, <1>4 DEF Sound
<1> QED
  BY <1>4, <1>5 DEF SameSlots, r

LEMMA UnmarkedIs ==
  ASSUME NEW jobs, Sound(jobs)
  PROVE  Sound(Unmarked(jobs)) /\ SameSlots(jobs, Unmarked(jobs))
<1> DEFINE r == Unmarked(jobs)
<1>1. /\ jobs \in [Jobs -> Stored]
      /\ \A j \in Jobs : /\ jobs[j].there \/ jobs[j] = NoJob
                         /\ jobs[j].next # "none" => jobs[j].enabled
                         /\ j \in Recurring /\ jobs[j].enabled => jobs[j].next # "none"
  BY DEF Sound
<1>2. \A j \in Jobs : r[j] = [jobs[j] EXCEPT !.marked = FALSE]
  BY DEF Unmarked
<1>3. r = [j \in Jobs |-> r[j]]
  BY DEF Unmarked
<1> HIDE DEF r
<1>4. ASSUME NEW j \in Jobs
      PROVE  /\ r[j] \in Stored /\ (r[j].there \/ r[j] = NoJob)
             /\ r[j].there = jobs[j].there /\ r[j].enabled = jobs[j].enabled
             /\ r[j].next = jobs[j].next
  <2>1. jobs[j] \in Stored
    BY <1>1
  <2>2. jobs[j] = NoJob => r[j] = NoJob
    BY <1>2, NoJobIs
  <2> QED
    BY <1>1, <1>2, <2>1, <2>2 DEF Stored
<1>5. Sound(r)
  BY <1>1, <1>3, <1>4 DEF Sound
<1> QED
  BY <1>4, <1>5 DEF SameSlots, r

LEMMA SameSlotsFit ==
  ASSUME NEW jobs, NEW O, NEW A, NEW C, Fits(jobs, O, A, C), NEW r, Sound(r), SameSlots(jobs, r)
  PROVE  Fits(r, O, A, C)
BY DEF Fits, SlotsFit, SameSlots

LEMMA ResultsAre ==
  ASSUME NEW j \in Jobs, NEW job \in Stored, job.there, NEW x \in Results(j, job)
  PROVE  x \in Stored /\ (x.there \/ x = NoJob) /\ x.next # "due"
<1>1. CASE j \in Recurring
  BY <1>1 DEF Results, Stored
<1>2. CASE j \notin Recurring /\ x = NoJob
  BY <1>2, NoJobIs
<1>3. CASE j \notin Recurring /\ x # NoJob
  BY <1>3 DEF Results, Stored
<1> QED
  BY <1>1, <1>2, <1>3

LEMMA AppliedIs ==
  ASSUME NEW jobs, NEW O, NEW A, NEW C, Fits(jobs, O, A, C),
         NEW S, S \subseteq Jobs, NEW r \in Applied(jobs, S)
  PROVE  Loose(r, O \ S, A, C)
<1>1. /\ jobs \in [Jobs -> Stored]
      /\ \A j \in Jobs : jobs[j].there \/ jobs[j] = NoJob
  BY DEF Fits, Sound
<1> DEFINE found == {j \in S : jobs[j].there}
<1>2. PICK x \in [found -> UNION {Results(j, jobs[j]) : j \in found}] :
        /\ \A j \in found : x[j] \in Results(j, jobs[j])
        /\ r = [j \in Jobs |-> IF j \in found THEN x[j] ELSE jobs[j]]
  BY DEF Applied
<1>3. ASSUME NEW j \in Jobs
      PROVE  /\ r[j] \in Stored /\ (r[j].there \/ r[j] = NoJob)
             /\ j \notin S => r[j] = jobs[j]
             /\ j \in S => r[j].next # "due"
             /\ r[j].there => jobs[j].there
  <2>1. CASE j \in found
    <3>1. r[j] = x[j] /\ x[j] \in Results(j, jobs[j]) /\ jobs[j] \in Stored /\ jobs[j].there
      BY <1>1, <1>2, <2>1
    <3> HIDE DEF found
    <3> QED
      BY <2>1, <3>1, ResultsAre DEF found
  <2>2. CASE j \notin found
    <3>1. r[j] = jobs[j] /\ (j \in S => jobs[j] = NoJob)
      BY <1>1, <1>2, <2>2
    <3> QED
      BY <1>1, <3>1, NoJobIs
  <2> QED
    BY <2>1, <2>2
<1>4. r = [j \in Jobs |-> r[j]]
  BY <1>2
<1>5. r \in [Jobs -> Stored]
  BY <1>3, <1>4
<1>6. SlotsFit(r, O \ S, A, C)
  BY <1>3 DEF SlotsFit, Fits
<1> QED
  BY <1>3, <1>5, <1>6 DEF Loose

(* One job is replaced. *)
LEMMA ReplacedIs ==
  ASSUME NEW jobs, NEW O, NEW A, NEW C, Fits(jobs, O, A, C),
         NEW j \in Jobs, NEW job \in Stored, job.there \/ job = NoJob,
         NEW O2, \A k \in Jobs : k # j => (k \in O <=> k \in O2),
         job.next = "due" => j \in O2,
         j \in O2 \ A => job.enabled /\ job.next \in {"due", "soon"},
         NEW C2, C \subseteq C2, job.there => j \in C2
  PROVE  LET r == [jobs EXCEPT ![j] = job]
         IN  /\ Loose(r, O2, A, C2)
             /\ /\ job.next # "none" => job.enabled
                /\ j \in Recurring /\ job.enabled => job.next # "none"
                => Fits(r, O2, A, C2)
<1> DEFINE r == [jobs EXCEPT ![j] = job]
<1>1. /\ jobs \in [Jobs -> Stored]
      /\ \A k \in Jobs : /\ jobs[k].there \/ jobs[k] = NoJob
                         /\ jobs[k].next # "none" => jobs[k].enabled
                         /\ k \in Recurring /\ jobs[k].enabled => jobs[k].next # "none"
  BY DEF Fits, Sound
<1>2. r \in [Jobs -> Stored] /\ r[j] = job /\ \A k \in Jobs : k # j => r[k] = jobs[k]
  BY <1>1
<1> HIDE DEF r
<1>3. SlotsFit(r, O2, A, C2)
  <2>1. ASSUME NEW k \in Jobs
        PROVE  /\ r[k].next = "due" => k \in O2
               /\ k \in O2 \ A => r[k].enabled /\ r[k].next \in {"due", "soon"}
               /\ k \notin C2 => ~r[k].there
    <3>1. CASE k = j
      BY <1>2, <3>1
    <3>2. CASE k # j
      BY <1>2, <3>2 DEF Fits, SlotsFit
    <3> QED
      BY <3>1, <3>2
  <2> QED
    BY <2>1 DEF SlotsFit
<1>4. Loose(r, O2, A, C2)
  BY <1>1, <1>2, <1>3 DEF Loose
<1>5. ASSUME job.next # "none" => job.enabled, j \in Recurring /\ job.enabled => job.next # "none"
      PROVE  Sound(r)
  BY <1>1, <1>2, <1>5 DEF Sound
<1> QED
  BY <1>3, <1>4, <1>5 DEF Fits, r

LEMMA DeferredLoose ==
  ASSUME NEW jobs, NEW O, NEW A, NEW C, Loose(jobs, O, A, C)
  PROVE  Loose(Deferred(jobs), O, A, C)
<1> DEFINE r == Deferred(jobs)
<1>1. jobs \in [Jobs -> Stored] /\ \A j \in Jobs : jobs[j].there \/ jobs[j] = NoJob
  BY DEF Loose
<1>2. \A j \in Jobs : r[j] = IF j \in deferred /\ jobs[j].enabled
                             THEN [jobs[j] EXCEPT !.next = "soon"] ELSE jobs[j]
  BY DEF Deferred
<1>3. r = [j \in Jobs |-> r[j]]
  BY DEF Deferred
<1> HIDE DEF r
<1>4. ASSUME NEW j \in Jobs
      PROVE  /\ r[j] \in Stored /\ (r[j].there \/ r[j] = NoJob)
             /\ r[j].there = jobs[j].there /\ r[j].enabled = jobs[j].enabled
             /\ r[j].next = jobs[j].next \/ (r[j].next = "soon" /\ r[j].enabled)
  <2>1. CASE j \in deferred /\ jobs[j].enabled
    <3>1. jobs[j] \in Stored /\ jobs[j].there /\ r[j] = [jobs[j] EXCEPT !.next = "soon"]
      BY <1>1, <1>2, <2>1, NoJobIs
    <3> QED
      BY <2>1, <3>1 DEF Stored
  <2>2. CASE ~(j \in deferred /\ jobs[j].enabled)
    BY <1>1, <1>2, <2>2
  <2> QED
    BY <2>1, <2>2
<1>5. r \in [Jobs -> Stored]
  BY <1>3, <1>4
<1>6. SlotsFit(r, O, A, C)
  BY <1>4 DEF SlotsFit, Loose
<1> QED
  BY <1>4, <1>5, <1>6 DEF Loose, r

-----------------------------------------------------------------------------
(* The stores.                                                              *)

LEMMA MemFits ==
  ASSUME StoresFit, Loaded
  PROVE  Fits(mem, owed, advanced, created)
BY DEF StoresFit, Fits, SlotsFit, InSync

LEMMA PersistFits ==
  ASSUME NEW jobs, Fits(jobs, owed', advanced', created'), Persist(jobs), CallsLoaded'
  PROVE  StoresFit'
<1>1. disk' = jobs /\ mem' = jobs
  BY DEF Persist
<1>2. Fits(disk', owed', advanced', created') /\ Sound(mem')
  BY <1>1 DEF Fits
<1>3. InSync'
  BY <1>1 DEF InSync
<1> QED
  BY <1>2, <1>3 DEF StoresFit, Fits, Sound, SlotsFit

LEMMA CallsKeep ==
  ASSUME CallsLoaded, call' = call, phase' = phase \/ phase' # "new"
  PROVE  CallsLoaded'
BY DEF CallsLoaded, Loaded

LEMMA StoresKeep ==
  ASSUME StoresFit,
         disk' = disk /\ mem' = mem /\ owed' = owed /\ created' = created,
         advanced \subseteq advanced', CallsLoaded', Loaded' => Loaded
  PROVE  StoresFit'
BY DEF StoresFit, Fits, Sound, SlotsFit, InSync

LEMMA StartStoresFit ==
  ASSUME IInv, StartStep
  PROVE  StoresFit'
<1>1. StoresFit /\ CallsLoaded /\ Sound(disk) /\ Sound(mem) /\ Fits(disk, owed, advanced, created)
  BY DEF IInv, StoresFit, Fits
<1>2. CASE StartClears
  <2>1. /\ Persist(Unmarked(disk)) /\ phase' = "loaded" /\ call' = call
        /\ owed' = owed /\ advanced' = advanced /\ created' = created
    BY <1>2 DEF StartClears, bounds
  <2>2. Fits(Unmarked(disk), owed, advanced, created)
    BY <1>1, UnmarkedIs, SameSlotsFit
  <2>3. CallsLoaded'
    BY <1>1, <2>1, CallsKeep
  <2> QED
    BY <2>1, <2>2, <2>3, PersistFits
<1>3. CASE PlanCatchup
  <2> DEFINE missed == {j \in Jobs \ skip : Runnable(mem[j]) /\ ~mem[j].over}
  <2>1. /\ phase = "loaded" /\ phase' \in {"caughtUp", "catchingUp"} /\ call' = call
        /\ owed' = owed /\ advanced' = advanced /\ created' = created
    BY <1>3 DEF PlanCatchup, bounds, slots
  <2>2. \/ disk' = disk /\ mem' = mem
        \/ \E now \in SUBSET missed : Persist(Marked(mem, now))
    BY <1>3 DEF PlanCatchup, stores
  <2>3. CallsLoaded' /\ Loaded /\ Loaded'
    BY <1>1, <2>1, CallsKeep DEF Loaded
  <2>4. CASE disk' = disk /\ mem' = mem
    BY <1>1, <2>1, <2>3, <2>4, StoresKeep
  <2>5. ASSUME NEW now \in SUBSET missed, Persist(Marked(mem, now))
        PROVE  StoresFit'
    <3>1. \A j \in now : j \in Jobs /\ mem[j].there
      BY <1>1, NoJobIs DEF Runnable, Sound
    <3>2. Sound(Marked(mem, now)) /\ SameSlots(mem, Marked(mem, now))
      BY <1>1, <3>1, MarkedIs
    <3>3. Fits(Marked(mem, now), owed, advanced, created)
      BY <1>1, <2>3, <3>2, MemFits, SameSlotsFit
    <3> QED
      BY <2>1, <2>3, <2>5, <3>3, PersistFits
  <2> QED
    BY <2>2, <2>4, <2>5
<1>4. CASE ApplyCatchup
  <2> DEFINE done == {j \in Jobs : catchup[j] = "done"}
  <2>1. /\ phase = "catchingUp" /\ phase' = "caughtUp" /\ call' = call
        /\ owed' = owed \ done /\ advanced' = advanced /\ created' = created
    BY <1>4 DEF ApplyCatchup, bounds
  <2>2. PICK jobs \in Applied(mem, done) : Persist(Maintained(Deferred(jobs)))
    BY <1>4 DEF ApplyCatchup
  <2>3. CallsLoaded' /\ Loaded
    BY <1>1, <2>1, CallsKeep DEF Loaded
  <2>4. Loose(jobs, owed \ done, advanced, created)
    BY <1>1, <2>2, <2>3, MemFits, AppliedIs
  <2>5. Fits(Maintained(Deferred(jobs)), owed \ done, advanced, created)
    BY <2>4, DeferredLoose, MaintainedFits
  <2> QED
    BY <2>1, <2>2, <2>3, <2>5, PersistFits
<1>5. CASE StartArms
  <2> DEFINE jobs == Recomputed(mem)
  <2>1. /\ phase = "caughtUp" /\ phase' = "on" /\ call' = call
        /\ owed' = owed /\ advanced' = advanced \cup MovedOn(mem, jobs) /\ created' = created
        /\ (disk' = disk /\ mem' = mem) \/ Persist(jobs)
    BY <1>5 DEF StartArms, bounds, stores
  <2>2. CallsLoaded' /\ Loaded /\ Loaded'
    BY <1>1, <2>1, CallsKeep DEF Loaded
  <2>3. Fits(jobs, owed, advanced \cup MovedOn(mem, jobs), created)
    BY <1>1, <2>2, MemFits, RecomputedFits
  <2>4. CASE disk' = disk /\ mem' = mem
    BY <1>1, <2>1, <2>2, <2>4, StoresKeep
  <2>5. CASE Persist(jobs)
    BY <2>1, <2>2, <2>3, <2>5, PersistFits
  <2> QED
    BY <2>1, <2>4, <2>5
<1> QED
  BY <1>2, <1>3, <1>4, <1>5 DEF StartStep

LEMMA TickStoresFit ==
  ASSUME IInv, TickStep
  PROVE  StoresFit'
<1>1. StoresFit /\ CallsLoaded /\ Sound(disk) /\ Sound(mem) /\ Fits(disk, owed, advanced, created)
  BY DEF IInv, StoresFit, Fits
<1>2. CASE Fire \/ FireWhileRunning
  <2>1. /\ disk' = disk /\ mem' = mem /\ owed' = owed /\ created' = created
        /\ advanced' = advanced /\ call' = call /\ phase' = phase
    BY <1>2 DEF Fire, FireWhileRunning, vars, stores, scheduler, bounds, slots
  <2> QED
    BY <1>1, <2>1, CallsKeep, StoresKeep DEF Loaded
<1>3. CASE TickBegins
  <2> DEFINE due == {j \in Jobs : Runnable(disk[j])}
  <2>1. /\ phase' = phase /\ call' = call
        /\ owed' = owed /\ advanced' = advanced /\ created' = created
        /\ Persist(Maintained(disk)) \/ Persist(Marked(disk, due))
    BY <1>3 DEF TickBegins, bounds, slots
  <2>2. CallsLoaded'
    BY <1>1, <2>1, CallsKeep
  <2>3. Fits(Maintained(disk), owed, advanced, created)
    BY <1>1, SoundIsLoose, MaintainedFits
  <2>4. Fits(Marked(disk, due), owed, advanced, created)
    <3>1. \A j \in due : j \in Jobs /\ disk[j].there
      BY <1>1, NoJobIs DEF Runnable, Sound
    <3>2. Sound(Marked(disk, due)) /\ SameSlots(disk, Marked(disk, due))
      BY <1>1, <3>1, MarkedIs
    <3> QED
      BY <1>1, <3>2, SameSlotsFit
  <2> QED
    BY <2>1, <2>2, <2>3, <2>4, PersistFits
<1>4. CASE TickEnds
  <2> DEFINE done == {j \in Jobs : tick[j] = "done"}
  <2>1. /\ phase' = phase /\ call' = call
        /\ owed' = owed \ done /\ advanced' = advanced /\ created' = created
    BY <1>4 DEF TickEnds, bounds
  <2>2. PICK jobs \in Applied(disk, done) : Persist(Maintained(jobs))
    BY <1>4 DEF TickEnds
  <2>3. CallsLoaded'
    BY <1>1, <2>1, CallsKeep
  <2>4. Loose(jobs, owed \ done, advanced, created)
    BY <1>1, <2>2, AppliedIs
  <2>5. Fits(Maintained(jobs), owed \ done, advanced, created)
    BY <2>4, MaintainedFits
  <2> QED
    BY <2>1, <2>2, <2>3, <2>5, PersistFits
<1> QED
  BY <1>2, <1>3, <1>4 DEF TickStep

LEMMA ExecutionStoresFit ==
  ASSUME IInv, NEW j \in Jobs, Execution(j)
  PROVE  StoresFit'
<1>1. StoresFit /\ CallsLoaded /\ Sound(mem)
  BY DEF IInv, StoresFit
<1>2. /\ disk' = disk /\ owed' = owed /\ created' = created
      /\ advanced' = advanced /\ call' = call /\ phase' = phase
      /\ mem' = mem \/ (mem[j].there /\ mem' = [mem EXCEPT ![j].marked = TRUE])
  BY DEF Execution, CatchupExecutes, CatchupExecuted, TickExecutes, TickExecuted,
         stores, bounds, slots
<1>3. CallsLoaded'
  BY <1>1, <1>2, CallsKeep
<1>4. CASE mem' = mem
  BY <1>1, <1>2, <1>3, <1>4, StoresKeep DEF Loaded
<1>5. CASE mem[j].there /\ mem' = [mem EXCEPT ![j].marked = TRUE]
  <2>1. mem \in [Jobs -> Stored] /\ mem[j] \in Stored
    BY <1>1 DEF Sound
  <2>2. mem' = Marked(mem, {j})
    BY <1>5, <2>1 DEF Marked
  <2>3. Sound(mem') /\ SameSlots(mem, mem')
    <3>1. \A k \in {j} : k \in Jobs /\ mem[k].there
      BY <1>5
    <3>2. Sound(Marked(mem, {j})) /\ SameSlots(mem, Marked(mem, {j}))
      BY <1>1, <3>1, MarkedIs
    <3> QED
      BY <2>2, <3>2
  <2>4. Loaded' => InSync'
    BY <1>1, <1>2, <2>3 DEF StoresFit, InSync, SameSlots, Loaded
  <2> QED
    BY <1>1, <1>2, <1>3, <2>3, <2>4 DEF StoresFit, Fits, Sound, SlotsFit
<1> QED
  BY <1>2, <1>4, <1>5

(* A call is set, in a store that is loaded. *)
LEMMA CallsSet ==
  ASSUME CallsLoaded, Loaded, phase' = phase, NEW c \in Calls, NEW r,
         call \in [Calls -> [step : {"idle", "checked", "executing"}, job : Jobs \cup {"none"}]],
         call' = [call EXCEPT ![c] = r], r.step # "idle" => r.job \in Jobs
  PROVE  CallsLoaded'
BY DEF CallsLoaded, Loaded

LEMMA PreflightStoresFit ==
  ASSUME IInv, NEW c \in Calls, NEW j \in Jobs, Preflight(c, j)
  PROVE  StoresFit'
<1>1. StoresFit /\ CallsLoaded /\ Sound(mem) /\ Sound(disk)
  BY DEF IInv, StoresFit, Fits
<1>2. /\ Loaded /\ mem' = Maintained(mem) /\ disk' = disk /\ phase' = phase
      /\ owed' = owed /\ advanced' = advanced /\ created' = created
      /\ call' = [call EXCEPT ![c] = [step |-> "checked", job |-> j]]
  BY DEF Preflight, scheduler, bounds, slots
<1>3. CallsLoaded'
  BY <1>1, <1>2, CallsSet DEF IInv, TypeOK
<1>4. Sound(mem') /\ SameSlots(mem, mem')
  BY <1>1, <1>2, MaintainedIs DEF SameSlots
<1>5. InSync'
  BY <1>1, <1>2, <1>4 DEF StoresFit, InSync, SameSlots
<1> QED
  BY <1>1, <1>2, <1>3, <1>4, <1>5 DEF StoresFit, Fits, Sound, SlotsFit

LEMMA PrepareStoresFit ==
  ASSUME IInv, NEW c \in Calls, PrepareManualRun(c)
  PROVE  StoresFit'
<1> DEFINE j == call[c].job
<1>1. StoresFit /\ CallsLoaded /\ Sound(mem) /\ Sound(disk)
  BY DEF IInv, StoresFit, Fits
<1>2. /\ call[c].step = "checked" /\ phase' = phase
      /\ owed' = owed /\ advanced' = advanced /\ created' = created
  BY DEF PrepareManualRun, scheduler, bounds, slots
<1>3. Loaded /\ j \in Jobs
  BY <1>1, <1>2 DEF CallsLoaded
<1>4. CASE mem[j].there /\ ~mem[j].marked
  <2>1. /\ Persist(Marked(mem, {j}))
        /\ call' = [call EXCEPT ![c].step = "executing"]
    BY <1>4 DEF PrepareManualRun
  <2>2. CallsLoaded'
    BY <1>1, <1>2, <1>3, <2>1 DEF CallsLoaded, Loaded, IInv, TypeOK
  <2>3. \A k \in {j} : k \in Jobs /\ mem[k].there
    BY <1>3, <1>4
  <2>4. Sound(Marked(mem, {j})) /\ SameSlots(mem, Marked(mem, {j}))
    BY <1>1, <2>3, MarkedIs
  <2>5. Fits(Marked(mem, {j}), owed, advanced, created)
    BY <1>1, <1>3, <2>4, MemFits, SameSlotsFit
  <2> QED
    BY <1>2, <2>1, <2>2, <2>5, PersistFits
<1>5. CASE ~(mem[j].there /\ ~mem[j].marked)
  <2>1. disk' = disk /\ mem' = mem /\ call' = [call EXCEPT ![c] = NoCall]
    BY <1>5 DEF PrepareManualRun, stores
  <2>2. CallsLoaded'
    BY <1>1, <1>2, <1>3, <2>1, CallsSet DEF IInv, TypeOK, NoCall
  <2> QED
    BY <1>1, <1>2, <1>3, <2>1, <2>2, StoresKeep
<1> QED
  BY <1>4, <1>5

LEMMA FinishStoresFit ==
  ASSUME IInv, NEW c \in Calls, FinishManualRun(c)
  PROVE  StoresFit'
<1> DEFINE j == call[c].job
<1>1. StoresFit /\ CallsLoaded /\ Fits(disk, owed, advanced, created)
      /\ mem \in [Jobs -> Stored] /\ disk \in [Jobs -> Stored]
  BY DEF IInv, StoresFit, Fits, Sound
<1>2. /\ call[c].step = "executing" /\ phase' = phase
      /\ advanced' = advanced /\ created' = created
      /\ call' = [call EXCEPT ![c] = NoCall]
  BY DEF FinishManualRun, bounds
<1>3. Loaded /\ j \in Jobs /\ mem[j].there = disk[j].there
  BY <1>1, <1>2 DEF CallsLoaded, StoresFit, InSync
<1>4. CallsLoaded'
  BY <1>1, <1>2, <1>3, CallsSet DEF IInv, TypeOK, NoCall
<1> HIDE DEF j
<1>5. CASE mem[j].there
  <2>1. PICK job \in Results(j, mem[j]) :
          Persist(Maintained([disk EXCEPT ![j] = IF @.there THEN job ELSE @]))
    BY <1>5 DEF FinishManualRun, j
  <2>2. owed' = owed \ {j}
    BY <1>5 DEF FinishManualRun, j
  <2>3. job \in Stored /\ (job.there \/ job = NoJob) /\ job.next # "due"
    BY <1>1, <1>3, <1>5, ResultsAre
  <2> DEFINE r == [disk EXCEPT ![j] = job]
  <2>4. Persist(Maintained(r))
    <3>1. [disk EXCEPT ![j] = IF @.there THEN job ELSE @] = r
      BY <1>1, <1>3, <1>5
    <3> QED
      BY <2>1, <3>1
  <2>5. \A k \in Jobs \ created : ~disk[k].there
    BY <1>1 DEF Fits, SlotsFit
  <2>6. Loose(r, owed \ {j}, advanced, created)
    <3> DEFINE O2 == owed \ {j}
    <3>1. /\ \A k \in Jobs : k # j => (k \in owed <=> k \in O2)
          /\ j \notin O2 /\ j \in created
      BY <1>3, <1>5, <2>5
    <3> HIDE DEF O2
    <3>2. Loose(r, O2, advanced, created)
      BY <1>1, <1>3, <2>3, <3>1, ReplacedIs
    <3> QED
      BY <3>2 DEF O2
  <2>7. Fits(Maintained(r), owed', advanced', created')
    BY <1>2, <2>2, <2>6, MaintainedFits
  <2> QED
    BY <1>4, <2>4, <2>7, PersistFits
<1>6. CASE ~mem[j].there
  <2>1. disk' = disk /\ mem' = mem /\ owed' = owed
    BY <1>6 DEF FinishManualRun, j, stores
  <2> QED
    BY <1>1, <1>2, <1>3, <1>4, <2>1, StoresKeep
<1> QED
  BY <1>5, <1>6

LEMMA EditFits ==
  ASSUME IInv, NEW jobs, Edit(jobs), Fits(jobs, owed', advanced', created')
  PROVE  StoresFit'
<1>1. CallsLoaded'
  BY CallsKeep DEF IInv, StoresFit, Edit
<1> QED
  BY <1>1, PersistFits DEF Edit

LEMMA AddStoresFit ==
  ASSUME IInv, NEW j \in Jobs, Add(j)
  PROVE  StoresFit'
<1> DEFINE jobs == Recomputed(mem)
           A == advanced \cup MovedOn(mem, jobs)
<1>1. /\ j \notin created /\ created' = created \cup {j}
      /\ Edit([jobs EXCEPT ![j] = NewJob])
      /\ advanced' = A /\ owed' = owed
  BY DEF Add
<1>2. Fits(mem, owed, advanced, created)
  BY <1>1, MemFits DEF IInv, Edit
<1>3. Fits(jobs, owed, A, created)
  BY <1>2, RecomputedFits
<1> HIDE DEF jobs, A
<1>4. ~jobs[j].enabled /\ j \notin owed \ A
  <2>1. ~jobs[j].there /\ (jobs[j].there \/ jobs[j] = NoJob)
    BY <1>1, <1>3 DEF Fits, Sound, SlotsFit
  <2>2. ~jobs[j].enabled
    BY <2>1, NoJobIs
  <2> QED
    BY <1>3, <2>2 DEF Fits, SlotsFit
<1>5. Fits([jobs EXCEPT ![j] = NewJob], owed, A, created \cup {j})
  <2> DEFINE C2 == created \cup {j}
  <2>1. created \subseteq C2 /\ j \in C2
    OBVIOUS
  <2> HIDE DEF C2
  <2>2. Fits([jobs EXCEPT ![j] = NewJob], owed, A, C2)
    BY <1>3, <1>4, <2>1, NoJobIs, ReplacedIs
  <2> QED
    BY <2>2 DEF C2
<1> QED
  BY <1>1, <1>5, EditFits

(* The edits of one job, which is there. *)
LEMMA EditOfOneFits ==
  ASSUME IInv, NEW j \in Jobs, mem[j].there, NEW job \in Stored, job.there \/ job = NoJob,
         Edit([mem EXCEPT ![j] = job]), advanced' = advanced, created' = created,
         owed' = IF job.next = "due" THEN owed \cup {j} ELSE owed \ {j},
         job.next # "none" => job.enabled, j \in Recurring /\ job.enabled => job.next # "none"
  PROVE  StoresFit'
<1>1. Fits(mem, owed, advanced, created)
  BY MemFits DEF IInv, Edit
<1>2. /\ \A k \in Jobs : k # j => (k \in owed <=> k \in owed')
      /\ job.next = "due" => j \in owed'
      /\ j \in owed' \ advanced => job.enabled /\ job.next \in {"due", "soon"}
      /\ j \in created
  BY <1>1 DEF Fits, SlotsFit
<1>3. Fits([mem EXCEPT ![j] = job], owed', advanced, created)
  <2> DEFINE O2 == owed'
  <2>1. /\ \A k \in Jobs : k # j => (k \in owed <=> k \in O2)
        /\ job.next = "due" => j \in O2
        /\ j \in O2 \ advanced => job.enabled /\ job.next \in {"due", "soon"}
    BY <1>2
  <2> HIDE DEF O2
  <2>2. Fits([mem EXCEPT ![j] = job], O2, advanced, created)
    BY <1>1, <1>2, <2>1, ReplacedIs
  <2> QED
    BY <2>2 DEF O2
<1> QED
  BY <1>3, EditFits

LEMMA OtherEditsStoresFit ==
  ASSUME IInv, NEW j \in Jobs, Disable(j) \/ Reschedule(j) \/ Remove(j)
  PROVE  StoresFit'
<1>1. mem[j].there /\ mem[j] \in Stored /\ advanced' = advanced /\ created' = created
  BY DEF IInv, StoresFit, Sound, Disable, Reschedule, Remove
<1>2. CASE Disable(j)
  <2> DEFINE off == [mem[j] EXCEPT !.enabled = FALSE]
             job == Normalized(off)
  <2>1. off \in Stored /\ off.there /\ ~off.enabled
    BY <1>1 DEF Stored
  <2>2. job = [off EXCEPT !.next = "none", !.marked = FALSE]
    BY <2>1 DEF Normalized
  <2>3. job \in Stored /\ job.there /\ ~job.enabled /\ job.next = "none"
    BY <2>1, <2>2 DEF Stored
  <2>4. Edit([mem EXCEPT ![j] = job]) /\ owed' = owed \ {j}
    <3>1. [mem EXCEPT ![j] = Normalized([@ EXCEPT !.enabled = FALSE])] = [mem EXCEPT ![j] = job]
      OBVIOUS
    <3> QED
      BY <1>2, <3>1 DEF Disable
  <2> HIDE DEF job
  <2> QED
    BY <1>1, <2>3, <2>4, EditOfOneFits
<1>3. CASE Reschedule(j)
  <2>1. PICK job \in Rescheduled(j, mem[j]) :
          /\ Edit([mem EXCEPT ![j] = job])
          /\ owed' = IF job.next = "due" THEN owed \cup {j} ELSE owed \ {j}
    BY <1>3 DEF Reschedule
  <2>2. /\ job \in Stored /\ job.there /\ job.enabled
        /\ j \in Recurring => job.next = "future"
    <3>1. CASE j \in Recurring
      <4>1. job = [[mem[j] EXCEPT !.enabled = TRUE] EXCEPT !.next = "future"]
        BY <2>1, <3>1 DEF Rescheduled
      <4> QED
        BY <1>1, <4>1 DEF Stored
    <3>2. CASE j \notin Recurring
      <4>1. PICK n \in {"due", "future", "none"}, o \in BOOLEAN :
              job = [[mem[j] EXCEPT !.enabled = TRUE] EXCEPT !.next = n, !.over = o]
        <5>1. mem[j].over \in BOOLEAN
          BY <1>1 DEF Stored
        <5> DEFINE N == {"due", "future"} \cup (IF mem[j].over THEN {"none"} ELSE {})
                   O == {mem[j].over, FALSE}
                   f(n, o) == [[mem[j] EXCEPT !.enabled = TRUE] EXCEPT !.next = n, !.over = o]
        <5>2. job \in UNION {{f(n, o) : o \in O} : n \in N}
          BY <2>1, <3>2 DEF Rescheduled
        <5>3. N \subseteq {"due", "future", "none"} /\ O \subseteq BOOLEAN
          BY <5>1
        <5> HIDE DEF N, O, f
        <5>4. PICK n \in N : job \in {f(n, o) : o \in O}
          BY <5>2
        <5>5. PICK o \in O : job = f(n, o)
          BY <5>4
        <5> QED
          BY <5>3, <5>5 DEF f
      <4> QED
        BY <1>1, <3>2, <4>1 DEF Stored
    <3> QED
      BY <3>1, <3>2
  <2> QED
    BY <1>1, <2>1, <2>2, EditOfOneFits
<1>4. CASE Remove(j)
  <2>1. Edit([mem EXCEPT ![j] = NoJob]) /\ owed' = owed \ {j}
    BY <1>4 DEF Remove
  <2> QED
    BY <1>1, <2>1, NoJobIs, EditOfOneFits
<1> QED
  BY <1>2, <1>3, <1>4

LEMMA ComeIs ==
  ASSUME NEW jobs, Sound(jobs), NEW j \in Jobs
  PROVE  LET r == Come(jobs, j)
         IN  /\ Sound(r)
             /\ \A k \in Jobs : /\ r[k].there = jobs[k].there /\ r[k].enabled = jobs[k].enabled
                                /\ r[k].marked = jobs[k].marked
                                /\ k # j => r[k].next = jobs[k].next
             /\ r[j].next = IF jobs[j].next \in {"future", "soon"} THEN "due" ELSE jobs[j].next
             /\ r # jobs => r[j].next = "due"
<1> DEFINE r == Come(jobs, j)
<1>1. /\ jobs \in [Jobs -> Stored]
      /\ \A k \in Jobs : /\ jobs[k].there \/ jobs[k] = NoJob
                         /\ jobs[k].next # "none" => jobs[k].enabled
                         /\ k \in Recurring /\ jobs[k].enabled => jobs[k].next # "none"
  BY DEF Sound
<1>2. CASE jobs[j].next \in {"future", "soon"}
  <2>1. r = [jobs EXCEPT ![j] = [jobs[j] EXCEPT !.next = "due"]]
    BY <1>2 DEF Come
  <2>2. jobs[j] \in Stored /\ jobs[j].there
    BY <1>1, <1>2, NoJobIs
  <2> DEFINE job == [jobs[j] EXCEPT !.next = "due"]
  <2>3. /\ job \in Stored /\ job.there = jobs[j].there /\ job.enabled = jobs[j].enabled
        /\ job.marked = jobs[j].marked /\ job.next = "due"
    BY <2>2 DEF Stored
  <2> HIDE DEF job
  <2>4. r \in [Jobs -> Stored] /\ r[j] = job /\ \A k \in Jobs : k # j => r[k] = jobs[k]
    BY <1>1, <2>1, <2>3 DEF job
  <2> HIDE DEF r
  <2>5. Sound(r)
    BY <1>1, <1>2, <2>2, <2>3, <2>4 DEF Sound
  <2> QED
    BY <1>2, <2>3, <2>4, <2>5 DEF r
<1>3. CASE jobs[j].next \notin {"future", "soon"}
  <2>1. r = jobs
    BY <1>3 DEF Come
  <2> QED
    BY <1>3, <2>1
<1> QED
  BY <1>2, <1>3

LEMMA SlotComesStoresFit ==
  ASSUME IInv, NEW j \in Jobs, SlotComes(j)
  PROVE  StoresFit'
<1>1. /\ StoresFit /\ CallsLoaded /\ Sound(mem) /\ Sound(disk)
      /\ SlotsFit(disk, owed, advanced, created)
  BY DEF IInv, StoresFit, Fits
<1>2. /\ disk' = Come(disk, j) /\ mem' = Come(mem, j)
      /\ call' = call /\ phase' = phase /\ created' = created
      /\ \/ disk' # disk /\ owed' = owed \cup {j} /\ advanced' = advanced \ {j}
         \/ disk' = disk /\ owed' = owed /\ advanced' = advanced
  BY DEF SlotComes, scheduler, bounds
<1>3. CallsLoaded'
  BY <1>1, <1>2, CallsKeep
<1>4. /\ Sound(disk') /\ Sound(mem')
      /\ \A k \in Jobs : /\ disk'[k].there = disk[k].there /\ disk'[k].enabled = disk[k].enabled
                         /\ mem'[k].there = mem[k].there /\ mem'[k].enabled = mem[k].enabled
                         /\ k # j => disk'[k].next = disk[k].next /\ mem'[k].next = mem[k].next
      /\ disk'[j].next = IF disk[j].next \in {"future", "soon"} THEN "due" ELSE disk[j].next
      /\ mem'[j].next = IF mem[j].next \in {"future", "soon"} THEN "due" ELSE mem[j].next
      /\ disk' # disk => disk'[j].next = "due"
  BY <1>1, <1>2, ComeIs
<1>5. SlotsFit(disk', owed', advanced', created')
  <2>1. CASE disk' # disk
    <3>1. disk'[j].next = "due" /\ disk'[j].enabled
      BY <1>4, <2>1 DEF Sound
    <3> QED
      BY <1>1, <1>2, <1>4, <2>1, <3>1 DEF SlotsFit
  <2>2. CASE disk' = disk
    BY <1>1, <1>2, <2>2 DEF SlotsFit
  <2> QED
    BY <2>1, <2>2
<1>6. Loaded' => InSync'
  BY <1>1, <1>2, <1>4 DEF StoresFit, InSync, Loaded
<1> QED
  BY <1>3, <1>4, <1>5, <1>6 DEF StoresFit, Fits, Sound, SlotsFit

LEMMA CrashStoresFit ==
  ASSUME IInv, Crash
  PROVE  StoresFit'
<1>1. /\ Fits(disk, owed, advanced, created)
      /\ disk' = disk /\ owed' = owed /\ advanced' = advanced /\ created' = created
      /\ mem' = [j \in Jobs |-> NoJob] /\ phase' = "new" /\ call' = [c \in Calls |-> NoCall]
  BY DEF IInv, StoresFit, Crash, slots
<1>2. Sound(mem')
  <2>1. mem' \in [Jobs -> Stored] /\ \A j \in Jobs : mem'[j] = NoJob
    BY <1>1, NoJobIs
  <2> QED
    BY <2>1, NoJobIs DEF Sound
<1>3. CallsLoaded' /\ ~Loaded'
  BY <1>1 DEF CallsLoaded, Loaded, NoCall
<1> QED
  BY <1>1, <1>2, <1>3 DEF StoresFit, Fits, Sound, SlotsFit

LEMMA StoresStayFit ==
  ASSUME IInv, Next
  PROVE  StoresFit'
BY StartStoresFit, TickStoresFit, ExecutionStoresFit, PreflightStoresFit, PrepareStoresFit,
   FinishStoresFit, AddStoresFit, OtherEditsStoresFit, SlotComesStoresFit, CrashStoresFit
   DEF Next

-----------------------------------------------------------------------------
(* Runs.                                                                    *)

(* Of a job whose marker was not lost, and that has a run before and after  *)
(* a step, both stores keep the marker.                                     *)
MarksKept ==
  \A j \in Jobs \ cleared' :
    Underway(j) /\ Underway(j)' =>
      /\ j \notin cleared
      /\ disk[j].marked => disk'[j].marked
      /\ mem[j].marked => mem'[j].marked

(* A step gives j no further run. *)
NoNewRun(j) ==
  /\ tick'[j] # "no" => tick[j] # "no"
  /\ catchup'[j] # "no" => catchup[j] # "no"
  /\ ManualRuns(j)' \subseteq ManualRuns(j)

LEMMA MarkersLostKeeps ==
  ASSUME MarkersLost
  PROVE  /\ MarksKept
         /\ \A j \in Jobs \ cleared' : Underway(j)' => j \notin cleared
BY DEF MarkersLost, MarksKept

LEMMA RunsStayMarked ==
  ASSUME RunsAreMarked, MarksKept,
         \A j \in Jobs \ cleared' :
           NoNewRun(j) \/ (Underway(j)' => OneAgent(j)' /\ disk'[j].marked /\ mem'[j].marked)
  PROVE  RunsAreMarked'
<1> SUFFICES ASSUME NEW j \in Jobs \ cleared', Underway(j)'
             PROVE  OneAgent(j)' /\ disk'[j].marked /\ mem'[j].marked
  BY DEF RunsAreMarked
<1>1. CASE NoNewRun(j)
  <2>1. Underway(j)
    BY <1>1 DEF NoNewRun, Underway
  <2>2. OneAgent(j) /\ disk'[j].marked /\ mem'[j].marked
    BY <2>1 DEF RunsAreMarked, MarksKept
  <2>3. OneAgent(j)'
    BY <1>1, <2>2 DEF NoNewRun, OneAgent
  <2> QED
    BY <2>2, <2>3
<1> QED
  BY <1>1

(* A job without marker has no run, unless it lost the marker. *)
LEMMA UnmarkedHasNoRun ==
  ASSUME RunsAreMarked, NEW j \in Jobs \ cleared, ~disk[j].marked \/ ~mem[j].marked
  PROVE  tick[j] = "no" /\ catchup[j] = "no" /\ ManualRuns(j) = {}
BY DEF RunsAreMarked, Underway

(* Where tick, catch-up and calls stay, or end, no run is new. *)
LEMMA NoneIsNew ==
  ASSUME TypeOK, tick' = tick \/ tick' = Nothing, catchup' = catchup \/ catchup' = Nothing,
         call' = call
  PROVE  \A j \in Jobs : NoNewRun(j)
BY DEF NoNewRun, ManualRuns, Nothing

LEMMA StartRunsMarked ==
  ASSUME IInv, StartStep
  PROVE  RunsAreMarked'
<1>1. TypeOK /\ RunsAreMarked
  BY DEF IInv
<1>2. MarksKept /\ \A j \in Jobs \ cleared' : Underway(j)' => j \notin cleared
  BY MarkersLostKeeps DEF StartStep, StartClears, PlanCatchup, ApplyCatchup, StartArms
<1>3. CASE StartClears \/ ApplyCatchup \/ StartArms
  <2>1. tick' = tick /\ (catchup' = catchup \/ catchup' = Nothing) /\ call' = call
    BY <1>3 DEF StartClears, ApplyCatchup, StartArms
  <2> QED
    BY <1>1, <1>2, <2>1, NoneIsNew, RunsStayMarked
<1>4. CASE PlanCatchup
  <2> DEFINE missed == {j \in Jobs \ skip : Runnable(mem[j]) /\ ~mem[j].over}
  <2>1. PICK now \in SUBSET missed :
          /\ catchup' = [j \in Jobs |-> IF j \in now THEN "queued" ELSE "no"]
          /\ missed = {} \/ Persist(Marked(mem, now))
    BY <1>4 DEF PlanCatchup
  <2>2. tick' = tick /\ call' = call
    BY <1>4 DEF PlanCatchup
  <2>3. ASSUME NEW j \in Jobs \ cleared'
        PROVE  \/ NoNewRun(j)
               \/ Underway(j)' => OneAgent(j)' /\ disk'[j].marked /\ mem'[j].marked
    <3>1. CASE j \notin now
      <4>1. catchup'[j] = "no" /\ ManualRuns(j)' = ManualRuns(j)
        BY <2>1, <2>2, <3>1 DEF ManualRuns
      <4> QED
        BY <2>2, <4>1 DEF NoNewRun
    <3>2. CASE j \in now
      <4>1. Persist(Marked(mem, now)) /\ ~mem[j].marked /\ j \in Jobs
        BY <2>1, <3>2 DEF Runnable
      <4>2. disk'[j].marked /\ mem'[j].marked
        <5>1. mem[j] \in Stored
          BY <1>1, <4>1 DEF TypeOK
        <5>2. Marked(mem, now)[j] = [mem[j] EXCEPT !.marked = TRUE]
          BY <3>2, <4>1 DEF Marked
        <5>3. Marked(mem, now)[j].marked
          BY <5>1, <5>2 DEF Stored
        <5> QED
          BY <4>1, <5>3 DEF Persist
      <4>3. SUFFICES ASSUME Underway(j)' PROVE OneAgent(j)'
        BY <4>2
      <4>4. tick[j] = "no" /\ catchup[j] = "no" /\ ManualRuns(j) = {}
        BY <1>1, <1>2, <4>1, <4>3, UnmarkedHasNoRun
      <4>5. tick'[j] = "no" /\ ManualRuns(j)' = {}
        BY <2>2, <4>4 DEF ManualRuns
      <4> QED
        BY <4>5 DEF OneAgent
    <3> QED
      BY <3>1, <3>2
  <2> QED
    BY <1>1, <1>2, <2>3, RunsStayMarked
<1> QED
  BY <1>3, <1>4 DEF StartStep

LEMMA TickRunsMarked ==
  ASSUME IInv, TickStep
  PROVE  RunsAreMarked'
<1>1. TypeOK /\ RunsAreMarked
  BY DEF IInv
<1>2. CASE Fire \/ FireWhileRunning
  <2>1. /\ disk' = disk /\ mem' = mem /\ cleared' = cleared
        /\ tick' = tick /\ catchup' = catchup /\ call' = call
    BY <1>2 DEF Fire, FireWhileRunning, stores, vars, scheduler
  <2> QED
    BY <1>1, <2>1 DEF RunsAreMarked, Underway, OneAgent, ManualRuns
<1>3. CASE TickEnds
  <2>1. tick' = Nothing /\ catchup' = catchup /\ call' = call /\ MarkersLost
    BY <1>3 DEF TickEnds
  <2> QED
    BY <1>1, <2>1, MarkersLostKeeps, NoneIsNew, RunsStayMarked
<1>4. CASE TickBegins
  <2> DEFINE due == {j \in Jobs : Runnable(disk[j])}
  <2>1. catchup' = catchup /\ call' = call /\ MarkersLost
    BY <1>4 DEF TickBegins
  <2>2. MarksKept /\ \A j \in Jobs \ cleared' : Underway(j)' => j \notin cleared
    BY <2>1, MarkersLostKeeps
  <2>3. CASE due = {}
    <3>1. tick' = tick
      BY <1>4, <2>3 DEF TickBegins
    <3> QED
      BY <1>1, <2>1, <2>2, <3>1, NoneIsNew, RunsStayMarked
  <2>4. CASE due # {}
    <3>1. /\ tick' = [j \in Jobs |-> IF j \in due THEN "queued" ELSE "no"]
          /\ Persist(Marked(disk, due))
      BY <1>4, <2>4 DEF TickBegins
    <3>2. ASSUME NEW j \in Jobs \ cleared'
          PROVE  \/ NoNewRun(j)
                 \/ Underway(j)' => OneAgent(j)' /\ disk'[j].marked /\ mem'[j].marked
      <4>1. CASE j \notin due
        <5>1. tick'[j] = "no" /\ ManualRuns(j)' = ManualRuns(j)
          BY <2>1, <3>1, <4>1 DEF ManualRuns
        <5> QED
          BY <2>1, <5>1 DEF NoNewRun
      <4>2. CASE j \in due
        <5>1. ~disk[j].marked /\ disk[j] \in Stored
          BY <1>1, <4>2 DEF Runnable, TypeOK
        <5>2. disk'[j].marked /\ mem'[j].marked
          <6>1. Marked(disk, due)[j] = [disk[j] EXCEPT !.marked = TRUE]
            BY <4>2 DEF Marked
          <6>2. Marked(disk, due)[j].marked
            BY <5>1, <6>1 DEF Stored
          <6> QED
            BY <3>1, <6>2 DEF Persist
        <5>3. SUFFICES ASSUME Underway(j)' PROVE OneAgent(j)'
          BY <5>2
        <5>4. tick[j] = "no" /\ catchup[j] = "no" /\ ManualRuns(j) = {}
          BY <1>1, <2>2, <5>1, <5>3, UnmarkedHasNoRun
        <5>5. catchup'[j] = "no" /\ ManualRuns(j)' = {}
          BY <2>1, <5>4 DEF ManualRuns
        <5> QED
          BY <5>5 DEF OneAgent
      <4> QED
        BY <4>1, <4>2
    <3> QED
      BY <1>1, <2>2, <3>2, RunsStayMarked
  <2> QED
    BY <2>3, <2>4
<1> QED
  BY <1>2, <1>3, <1>4 DEF TickStep

LEMMA ExecutionRunsMarked ==
  ASSUME IInv, NEW j \in Jobs, Execution(j)
  PROVE  RunsAreMarked'
<1>1. TypeOK /\ RunsAreMarked
  BY DEF IInv
<1>2. /\ call' = call /\ disk' = disk
      /\ \A k \in Jobs : tick'[k] # "no" => tick[k] # "no"
      /\ \A k \in Jobs : catchup'[k] # "no" => catchup[k] # "no"
  BY <1>1 DEF Execution, CatchupExecutes, CatchupExecuted, TickExecutes, TickExecuted, TypeOK,
              stores
<1>3. \A k \in Jobs : NoNewRun(k)
  BY <1>2 DEF NoNewRun, ManualRuns
<1>4. CASE TickExecuted(j)
  BY <1>1, <1>3, <1>4, MarkersLostKeeps, RunsStayMarked DEF TickExecuted
<1>5. CASE CatchupExecutes(j) \/ CatchupExecuted(j) \/ TickExecutes(j)
  <2>1. cleared' = cleared /\ (mem' = mem \/ mem' = [mem EXCEPT ![j].marked = TRUE])
    BY <1>5 DEF CatchupExecutes, CatchupExecuted, TickExecutes, stores
  <2>2. \A k \in Jobs : mem[k].marked => mem'[k].marked
    <3>1. mem \in [Jobs -> Stored] /\ mem[j] \in Stored
      BY <1>1 DEF TypeOK
    <3>2. [mem[j] EXCEPT !.marked = TRUE].marked
      BY <3>1 DEF Stored
    <3>3. ASSUME mem' = [mem EXCEPT ![j].marked = TRUE], NEW k \in Jobs
          PROVE  mem'[k] = IF k = j THEN [mem[j] EXCEPT !.marked = TRUE] ELSE mem[k]
      BY <3>1, <3>3
    <3>4. CASE mem' = mem
      BY <3>4
    <3>5. CASE mem' = [mem EXCEPT ![j].marked = TRUE]
      BY <3>2, <3>3, <3>5
    <3> QED
      BY <2>1, <3>4, <3>5
  <2>3. MarksKept
    <3>1. ASSUME NEW k \in Jobs \ cleared', Underway(k), Underway(k)'
          PROVE  k \notin cleared
      BY <2>1, <3>1
    <3> QED
      BY <1>2, <2>2, <3>1 DEF MarksKept
  <2> QED
    BY <1>1, <1>3, <2>3, RunsStayMarked
<1> QED
  BY <1>4, <1>5 DEF Execution

LEMMA PreflightRunsMarked ==
  ASSUME IInv, NEW c \in Calls, NEW j \in Jobs, Preflight(c, j)
  PROVE  RunsAreMarked'
<1>1. TypeOK /\ RunsAreMarked
  BY DEF IInv
<1>2. /\ MarkersLost /\ tick' = tick /\ catchup' = catchup /\ call[c].step = "idle"
      /\ call' = [call EXCEPT ![c] = [step |-> "checked", job |-> j]]
  BY DEF Preflight, scheduler
<1>3. \A k \in Jobs : NoNewRun(k)
  BY <1>1, <1>2 DEF NoNewRun, ManualRuns, TypeOK
<1> QED
  BY <1>1, <1>2, <1>3, MarkersLostKeeps, RunsStayMarked

LEMMA PrepareRunsMarked ==
  ASSUME IInv, NEW c \in Calls, PrepareManualRun(c)
  PROVE  RunsAreMarked'
<1>1. TypeOK /\ RunsAreMarked /\ CallsLoaded
  BY DEF IInv, StoresFit
<1>2. MarkersLost /\ tick' = tick /\ catchup' = catchup /\ call[c].step = "checked"
  BY DEF PrepareManualRun, scheduler
<1>3. MarksKept /\ \A k \in Jobs \ cleared' : Underway(k)' => k \notin cleared
  BY <1>2, MarkersLostKeeps
<1>4. call \in [Calls -> [step : {"idle", "checked", "executing"}, job : Jobs \cup {"none"}]]
  BY <1>1 DEF TypeOK
<1> PICK j \in Jobs : j = call[c].job
  BY <1>1, <1>2 DEF CallsLoaded
<1>5. CASE mem[j].there /\ ~mem[j].marked
  <2>1. Persist(Marked(mem, {j})) /\ call' = [call EXCEPT ![c].step = "executing"]
    BY <1>5 DEF PrepareManualRun
  <2>2. \A k \in Jobs : k # j => ManualRuns(k)' = ManualRuns(k)
    BY <1>4, <2>1 DEF ManualRuns
  <2>3. ManualRuns(j)' \subseteq ManualRuns(j) \cup {c}
    BY <1>4, <2>1 DEF ManualRuns
  <2>4. ASSUME NEW k \in Jobs \ cleared'
        PROVE  \/ NoNewRun(k)
               \/ Underway(k)' => OneAgent(k)' /\ disk'[k].marked /\ mem'[k].marked
    <3>1. CASE k # j
      BY <1>2, <2>2, <3>1 DEF NoNewRun
    <3>2. CASE k = j
      <4>1. disk'[j].marked /\ mem'[j].marked
        <5>1. mem[j] \in Stored
          BY <1>1, <1>4 DEF TypeOK
        <5>2. Marked(mem, {j})[j] = [mem[j] EXCEPT !.marked = TRUE]
          BY <1>4 DEF Marked
        <5>3. Marked(mem, {j})[j].marked
          BY <5>1, <5>2 DEF Stored
        <5> QED
          BY <2>1, <5>3 DEF Persist
      <4>2. SUFFICES ASSUME Underway(j)' PROVE OneAgent(j)'
        BY <3>2, <4>1
      <4>3. tick[j] = "no" /\ catchup[j] = "no" /\ ManualRuns(j) = {}
        BY <1>1, <1>3, <1>5, <3>2, <4>2, UnmarkedHasNoRun
      <4>4. tick'[j] = "no" /\ catchup'[j] = "no" /\ ManualRuns(j)' \subseteq {c}
        BY <1>2, <2>3, <4>3
      <4> QED
        BY <4>4 DEF OneAgent
    <3> QED
      BY <3>1, <3>2
  <2> QED
    BY <1>1, <1>3, <2>4, RunsStayMarked
<1>6. CASE ~(mem[j].there /\ ~mem[j].marked)
  <2>1. call' = [call EXCEPT ![c] = NoCall]
    BY <1>6 DEF PrepareManualRun
  <2>2. \A k \in Jobs : NoNewRun(k)
    BY <1>2, <1>4, <2>1 DEF NoNewRun, ManualRuns, NoCall
  <2> QED
    BY <1>1, <1>3, <2>2, RunsStayMarked
<1> QED
  BY <1>5, <1>6

LEMMA FinishRunsMarked ==
  ASSUME IInv, NEW c \in Calls, FinishManualRun(c)
  PROVE  RunsAreMarked'
<1>1. TypeOK /\ RunsAreMarked
  BY DEF IInv
<1>2. /\ MarkersLost /\ catchup' = catchup /\ call' = [call EXCEPT ![c] = NoCall]
      /\ \/ tick' = tick
         \/ tick' = [k \in Jobs |-> IF tick[k] = "queued" THEN "detached" ELSE tick[k]]
  BY DEF FinishManualRun
<1>3. \A k \in Jobs : NoNewRun(k)
  BY <1>1, <1>2 DEF NoNewRun, ManualRuns, TypeOK, NoCall
<1> QED
  BY <1>1, <1>2, <1>3, MarkersLostKeeps, RunsStayMarked

LEMMA EditRunsMarked ==
  ASSUME IInv, NEW j \in Jobs, Add(j) \/ Disable(j) \/ Reschedule(j) \/ Remove(j)
  PROVE  RunsAreMarked'
<1>1. TypeOK /\ RunsAreMarked
  BY DEF IInv
<1>2. MarkersLost /\ tick' = tick /\ catchup' = catchup /\ call' = call
  BY DEF Add, Disable, Reschedule, Remove, Edit
<1> QED
  BY <1>1, <1>2, NoneIsNew, MarkersLostKeeps, RunsStayMarked

LEMMA SlotComesRunsMarked ==
  ASSUME IInv, NEW j \in Jobs, SlotComes(j)
  PROVE  RunsAreMarked'
<1>1. TypeOK /\ RunsAreMarked /\ Sound(disk) /\ Sound(mem)
  BY DEF IInv, StoresFit, Fits
<1>2. /\ disk' = Come(disk, j) /\ mem' = Come(mem, j) /\ cleared' = cleared
      /\ tick' = tick /\ catchup' = catchup /\ call' = call
  BY DEF SlotComes, scheduler
<1>3. \A k \in Jobs : disk'[k].marked = disk[k].marked /\ mem'[k].marked = mem[k].marked
  BY <1>1, <1>2, ComeIs
<1>4. MarksKept
  BY <1>2, <1>3 DEF MarksKept
<1> QED
  BY <1>1, <1>2, <1>4, NoneIsNew, RunsStayMarked

LEMMA CrashRunsMarked ==
  ASSUME IInv, Crash
  PROVE  RunsAreMarked'
<1>1. tick' = Nothing /\ catchup' = Nothing /\ call' = [c \in Calls |-> NoCall]
  BY DEF Crash
<1>2. \A j \in Jobs : ~Underway(j)'
  BY <1>1 DEF Underway, ManualRuns, Nothing, NoCall
<1> QED
  BY <1>2 DEF RunsAreMarked

LEMMA AllRunsStayMarked ==
  ASSUME IInv, Next
  PROVE  RunsAreMarked'
BY StartRunsMarked, TickRunsMarked, ExecutionRunsMarked, PreflightRunsMarked, PrepareRunsMarked,
   FinishRunsMarked, EditRunsMarked, SlotComesRunsMarked, CrashRunsMarked DEF Next

-----------------------------------------------------------------------------
(* The types and the limits.                                                *)

SchedulerTypes ==
  /\ phase \in {"new", "loaded", "catchingUp", "caughtUp", "on"}
  /\ timer \in BOOLEAN
  /\ running \in BOOLEAN
  /\ tick \in [Jobs -> {"no", "queued", "detached", "executing", "done"}]
  /\ catchup \in [Jobs -> {"no", "queued", "executing", "done"}]
  /\ deferred \subseteq Jobs
  /\ skip \subseteq OneShots

CallTypes == call \in [Calls -> [step : {"idle", "checked", "executing"}, job : Jobs \cup {"none"}]]

HistoryTypes == owed \cup advanced \cup cleared \cup interrupted \subseteq Jobs

Limits ==
  /\ Cardinality({j \in Jobs : tick[j] = "executing"}) <= MaxConcurrent
  /\ Cardinality({j \in Jobs : catchup[j] = "executing"}) <= 1
  /\ Cardinality({j \in Jobs : catchup[j] # "no"}) <= MaxMissed

LEMMA TypesAre ==
  TypeOK <=> /\ disk \in [Jobs -> Stored] /\ mem \in [Jobs -> Stored]
             /\ SchedulerTypes /\ CallTypes /\ HistoryTypes /\ Limits
BY DEF TypeOK, SchedulerTypes, CallTypes, HistoryTypes, Limits

LEMMA ArmTimerTypes ==
  ASSUME NEW jobs, ArmTimer(jobs)
  PROVE  timer' \in BOOLEAN
BY Zenon DEF ArmTimer

LEMMA SchedulerTypesKept ==
  ASSUME IInv, Next
  PROVE  SchedulerTypes'
<1>1. SchedulerTypes
  BY TypesAre DEF IInv
<1>2. CASE StartClears
  BY <1>1, <1>2 DEF StartClears, SchedulerTypes
<1>3. CASE PlanCatchup
  <2>1. PICK now \in SUBSET {j \in Jobs \ skip : Runnable(mem[j]) /\ ~mem[j].over} :
          /\ catchup' = [j \in Jobs |-> IF j \in now THEN "queued" ELSE "no"]
          /\ deferred' \subseteq Jobs
    BY <1>3 DEF PlanCatchup
  <2>2. phase' \in {"caughtUp", "catchingUp"} /\ timer' = timer /\ running' = running
        /\ tick' = tick /\ skip' = skip
    BY <1>3 DEF PlanCatchup
  <2> QED
    BY <1>1, <2>1, <2>2 DEF SchedulerTypes
<1>4. CASE ApplyCatchup
  BY <1>1, <1>4 DEF ApplyCatchup, SchedulerTypes, Nothing
<1>5. CASE StartArms
  <2>1. timer' \in BOOLEAN
    BY <1>5, ArmTimerTypes DEF StartArms
  <2>2. phase' = "on" /\ skip' = {}
        /\ running' = running /\ tick' = tick /\ catchup' = catchup /\ deferred' = deferred
    BY <1>5 DEF StartArms
  <2> QED
    BY <1>1, <2>1, <2>2 DEF SchedulerTypes
<1>6. CASE Fire \/ FireWhileRunning
  BY <1>1, <1>6 DEF Fire, FireWhileRunning, SchedulerTypes, vars, scheduler
<1>7. CASE TickBegins
  <2>1. timer' \in BOOLEAN
    BY <1>1, <1>7, ArmTimerTypes DEF TickBegins, SchedulerTypes
  <2>2. /\ phase' = phase /\ catchup' = catchup /\ deferred' = deferred /\ skip' = skip
        /\ running' \in {running, FALSE}
        /\ \/ tick' = tick
           \/ tick' = [j \in Jobs |->
                         IF j \in {k \in Jobs : Runnable(disk[k])} THEN "queued" ELSE "no"]
    BY <1>7 DEF TickBegins
  <2> QED
    BY <1>1, <2>1, <2>2 DEF SchedulerTypes
<1>8. CASE TickEnds
  <2>1. timer' \in BOOLEAN
    BY <1>8, ArmTimerTypes DEF TickEnds
  <2>2. /\ phase' = phase /\ catchup' = catchup /\ deferred' = deferred /\ skip' = skip
        /\ running' = FALSE /\ tick' = Nothing
    BY <1>8 DEF TickEnds
  <2> QED
    BY <1>1, <2>1, <2>2 DEF SchedulerTypes, Nothing
<1>9. ASSUME NEW j \in Jobs, Execution(j)
      PROVE  SchedulerTypes'
  BY <1>1, <1>9 DEF Execution, CatchupExecutes, CatchupExecuted, TickExecutes, TickExecuted,
                    SchedulerTypes
<1>10. ASSUME NEW c \in Calls, (\E j \in Jobs : Preflight(c, j)) \/ PrepareManualRun(c)
       PROVE  SchedulerTypes'
  BY <1>1, <1>10 DEF Preflight, PrepareManualRun, scheduler, SchedulerTypes
<1>11. ASSUME NEW c \in Calls, FinishManualRun(c)
       PROVE  SchedulerTypes'
  <2>1. timer' \in BOOLEAN
    BY <1>1, <1>11, ArmTimerTypes DEF FinishManualRun, SchedulerTypes
  <2>2. /\ phase' = phase /\ running' = running /\ catchup' = catchup
        /\ deferred' = deferred /\ skip' = skip
        /\ \/ tick' = tick
           \/ tick' = [k \in Jobs |-> IF tick[k] = "queued" THEN "detached" ELSE tick[k]]
    BY <1>11 DEF FinishManualRun
  <2> QED
    BY <1>1, <2>1, <2>2 DEF SchedulerTypes
<1>12. ASSUME NEW j \in Jobs, Add(j) \/ Disable(j) \/ Reschedule(j) \/ Remove(j)
       PROVE  SchedulerTypes'
  <2>1. PICK jobs : Edit(jobs)
    BY <1>12 DEF Add, Disable, Reschedule, Remove
  <2>2. timer' \in BOOLEAN
    BY <2>1, ArmTimerTypes DEF Edit
  <2> QED
    BY <1>1, <2>1, <2>2 DEF Edit, SchedulerTypes
<1>13. ASSUME NEW j \in Jobs, SlotComes(j)
       PROVE  SchedulerTypes'
  BY <1>1, <1>13 DEF SlotComes, scheduler, SchedulerTypes
<1>14. CASE Crash
  BY <1>14 DEF Crash, SchedulerTypes, Nothing
<1> QED
  BY <1>2, <1>3, <1>4, <1>5, <1>6, <1>7, <1>8, <1>9, <1>10, <1>11, <1>12, <1>13, <1>14
     DEF Next, StartStep, TickStep

LEMMA CallTypesKept ==
  ASSUME IInv, Next
  PROVE  CallTypes'
<1>1. CallTypes
  BY TypesAre DEF IInv
<1>2. CASE call' = call
  BY <1>1, <1>2 DEF CallTypes
<1>3. ASSUME NEW c \in Calls, NEW j \in Jobs, Preflight(c, j)
      PROVE  CallTypes'
  BY <1>1, <1>3 DEF CallTypes, Preflight
<1>4. ASSUME NEW c \in Calls, PrepareManualRun(c) \/ FinishManualRun(c)
      PROVE  CallTypes'
  <2>1. \/ call' = [call EXCEPT ![c].step = "executing"]
        \/ call' = [call EXCEPT ![c] = NoCall]
    BY <1>4 DEF PrepareManualRun, FinishManualRun
  <2> QED
    BY <1>1, <2>1 DEF CallTypes, NoCall
<1>5. CASE Crash
  BY <1>5 DEF Crash, CallTypes, NoCall
<1>6. CASE StartStep \/ TickStep
  <2>1. call' = call
    BY <1>6 DEF StartStep, StartClears, PlanCatchup, ApplyCatchup, StartArms,
                TickStep, Fire, FireWhileRunning, TickBegins, TickEnds, vars
  <2> QED
    BY <1>2, <2>1
<1>7. ASSUME NEW j \in Jobs, Execution(j)
      PROVE  call' = call
  BY <1>7 DEF Execution, CatchupExecutes, CatchupExecuted, TickExecutes, TickExecuted
<1>8. ASSUME NEW j \in Jobs, Add(j) \/ Disable(j) \/ Reschedule(j) \/ Remove(j) \/ SlotComes(j)
      PROVE  call' = call
  BY <1>8 DEF Add, Disable, Reschedule, Remove, Edit, SlotComes
<1> QED
  BY <1>2, <1>3, <1>4, <1>5, <1>6, <1>7, <1>8 DEF Next

LEMMA HistoryTypesKept ==
  ASSUME IInv, Next
  PROVE  HistoryTypes'
<1>1. HistoryTypes
  BY TypesAre DEF IInv
<1>2. cleared' \subseteq Jobs
  <2>1. cleared' = cleared \/ MarkersLost
    BY DEF Next, StartStep, StartClears, PlanCatchup, ApplyCatchup, StartArms,
           TickStep, Fire, FireWhileRunning, TickBegins, TickEnds,
           Execution, CatchupExecutes, CatchupExecuted, TickExecutes, TickExecuted,
           Preflight, PrepareManualRun, FinishManualRun, Add, Disable, Reschedule, Remove, Edit,
           SlotComes, Crash, vars
  <2>2. CASE cleared' = cleared
    BY <1>1, <2>2 DEF HistoryTypes
  <2>3. CASE MarkersLost
    BY <2>3 DEF MarkersLost
  <2> QED
    BY <2>1, <2>2, <2>3
<1>3. owed' \subseteq Jobs /\ advanced' \subseteq Jobs /\ interrupted' \subseteq Jobs
  <2>1. owed \subseteq Jobs /\ advanced \subseteq Jobs /\ interrupted \subseteq Jobs
    BY <1>1 DEF HistoryTypes
  <2>2. CASE UNCHANGED slots
    BY <2>1, <2>2 DEF slots
  <2>3. CASE StartStep
    BY <2>1, <2>3 DEF StartStep, StartClears, PlanCatchup, ApplyCatchup, StartArms, MovedOn, slots,
                      Jobs
  <2>4. CASE TickStep
    BY <2>1, <2>4 DEF TickStep, Fire, FireWhileRunning, TickBegins, TickEnds, slots, vars
  <2>5. ASSUME NEW j \in Jobs, Execution(j)
        PROVE  UNCHANGED slots
    BY <2>5 DEF Execution, CatchupExecutes, CatchupExecuted, TickExecutes, TickExecuted
  <2>6. ASSUME NEW c \in Calls, (\E j \in Jobs : Preflight(c, j)) \/ PrepareManualRun(c)
        PROVE  UNCHANGED slots
    BY <2>6 DEF Preflight, PrepareManualRun
  <2>7. ASSUME NEW c \in Calls, FinishManualRun(c)
        PROVE  owed' \subseteq owed /\ advanced' = advanced /\ interrupted' = interrupted
    BY <2>7 DEF FinishManualRun
  <2>8. ASSUME NEW j \in Jobs, Add(j) \/ Disable(j) \/ Reschedule(j) \/ Remove(j) \/ SlotComes(j)
        PROVE  owed' \subseteq Jobs /\ advanced' \subseteq Jobs /\ interrupted' \subseteq Jobs
    <3>1. CASE Add(j)
      BY <2>1, <3>1 DEF Add, MovedOn
    <3>2. CASE Disable(j) \/ Remove(j)
      BY <2>1, <3>2 DEF Disable, Remove
    <3>3. CASE Reschedule(j)
      BY <2>1, <3>3 DEF Reschedule
    <3>4. CASE SlotComes(j)
      BY <2>1, <3>4 DEF SlotComes
    <3> QED
      BY <2>8, <3>1, <3>2, <3>3, <3>4
  <2>9. CASE Crash
    BY <2>2, <2>9 DEF Crash
  <2> QED
    BY <2>1, <2>2, <2>3, <2>4, <2>5, <2>6, <2>7, <2>8, <2>9 DEF Next
<1> QED
  BY <1>2, <1>3 DEF HistoryTypes

LEMMA SmallerSet ==
  ASSUME NEW S, S \subseteq Jobs, NEW T, T \subseteq S, NEW n \in Nat, Cardinality(S) <= n
  PROVE  Cardinality(T) <= n
<1>1. IsFiniteSet(S)
  BY JobsAreFinite
<1>2. Cardinality(S) \in Nat /\ Cardinality(T) \in Nat /\ Cardinality(T) <= Cardinality(S)
  BY <1>1, JobsAreFinite, FS_Subset
<1> QED
  BY <1>2

LEMMA LargerByOne ==
  ASSUME NEW S, S \subseteq Jobs, NEW j, NEW T, T \subseteq S \cup {j}, T \subseteq Jobs,
         NEW n \in Nat, Cardinality(S) < n
  PROVE  Cardinality(T) <= n
<1>1. IsFiniteSet(S) /\ Cardinality(S) \in Nat
  BY JobsAreFinite
<1>2. /\ IsFiniteSet(S \cup {j})
      /\ Cardinality(S \cup {j}) = IF j \in S THEN Cardinality(S) ELSE Cardinality(S) + 1
  BY <1>1, FS_AddElement
<1>3. Cardinality(T) \in Nat /\ Cardinality(T) <= Cardinality(S \cup {j})
  BY <1>2, JobsAreFinite, FS_Subset
<1> QED
  BY <1>1, <1>2, <1>3

LEMMA LimitsStay ==
  ASSUME Limits,
         \A j \in Jobs : tick'[j] = "executing" => tick[j] = "executing",
         \A j \in Jobs : catchup'[j] = "executing" => catchup[j] = "executing",
         \A j \in Jobs : catchup'[j] # "no" => catchup[j] # "no"
  PROVE  Limits'
<1> DEFINE T(f) == {j \in Jobs : f[j] = "executing"}
           C(f) == {j \in Jobs : f[j] # "no"}
<1>1. /\ T(tick') \subseteq T(tick) /\ T(catchup') \subseteq T(catchup)
      /\ C(catchup') \subseteq C(catchup)
      /\ T(tick) \subseteq Jobs /\ T(catchup) \subseteq Jobs /\ C(catchup) \subseteq Jobs
  OBVIOUS
<1>2. /\ Cardinality(T(tick)) <= MaxConcurrent /\ Cardinality(T(catchup)) <= 1
      /\ Cardinality(C(catchup)) <= MaxMissed
  BY DEF Limits
<1>3. MaxConcurrent \in Nat /\ 1 \in Nat /\ MaxMissed \in Nat
  BY LimitsAssumption
<1> HIDE DEF T, C
<1>4. /\ Cardinality(T(tick')) <= MaxConcurrent /\ Cardinality(T(catchup')) <= 1
      /\ Cardinality(C(catchup')) <= MaxMissed
  BY <1>1, <1>2, <1>3, SmallerSet
<1> QED
  BY <1>4 DEF Limits, T, C

LEMMA LimitsKept ==
  ASSUME IInv, Next
  PROVE  Limits'
<1>1. SchedulerTypes /\ Limits
  BY TypesAre DEF IInv
<1>2. CASE PlanCatchup
  <2> DEFINE missed == {j \in Jobs \ skip : Runnable(mem[j]) /\ ~mem[j].over}
  <2>1. PICK now \in SUBSET missed :
          /\ Cardinality(now) = IF Cardinality(missed) < MaxMissed THEN Cardinality(missed)
                                ELSE MaxMissed
          /\ catchup' = [j \in Jobs |-> IF j \in now THEN "queued" ELSE "no"]
    BY <1>2 DEF PlanCatchup
  <2>2. now \subseteq Jobs /\ missed \subseteq Jobs
    OBVIOUS
  <2>3. Cardinality(missed) \in Nat /\ MaxMissed \in Nat
    BY <2>2, JobsAreFinite, LimitsAssumption
  <2> HIDE DEF missed
  <2>4. Cardinality(now) <= MaxMissed
    BY <2>1, <2>3
  <2>5. /\ {j \in Jobs : catchup'[j] # "no"} = now
        /\ \A j \in Jobs : catchup'[j] # "executing"
    BY <2>1, <2>2
  <2>6. {j \in Jobs : catchup'[j] = "executing"} = {}
    BY <2>5
  <2>7. Cardinality({j \in Jobs : catchup'[j] = "executing"}) <= 1
    BY <2>6, FS_EmptySet
  <2>8. tick' = tick
    BY <1>2 DEF PlanCatchup
  <2> QED
    BY <1>1, <2>4, <2>5, <2>7, <2>8 DEF Limits
<1>3. ASSUME NEW j \in Jobs, CatchupExecutes(j)
      PROVE  Limits'
  <2>1. /\ catchup[j] = "queued" /\ \A k \in Jobs : catchup[k] # "executing"
        /\ catchup' = [catchup EXCEPT ![j] = "executing"] /\ tick' = tick
    BY <1>3 DEF CatchupExecutes
  <2>2. catchup \in [Jobs -> {"no", "queued", "executing", "done"}]
    BY <1>1 DEF SchedulerTypes
  <2>3. {k \in Jobs : catchup'[k] = "executing"} = {j}
    BY <2>1, <2>2
  <2>4. {k \in Jobs : catchup'[k] # "no"} = {k \in Jobs : catchup[k] # "no"}
    BY <2>1, <2>2
  <2>5. Cardinality({k \in Jobs : catchup'[k] = "executing"}) <= 1
    <3>1. Cardinality({j}) = 1
      BY FS_Singleton
    <3> QED
      BY <2>3, <3>1
  <2> QED
    BY <1>1, <2>1, <2>4, <2>5 DEF Limits
<1>4. ASSUME NEW j \in Jobs, TickExecutes(j)
      PROVE  Limits'
  <2> DEFINE S == {k \in Jobs : tick[k] = "executing"}
             T == {k \in Jobs : tick'[k] = "executing"}
  <2>1. /\ Cardinality(S) < MaxConcurrent
        /\ tick' = [tick EXCEPT ![j] = "executing"] /\ catchup' = catchup
    BY <1>4 DEF TickExecutes
  <2>2. tick \in [Jobs -> {"no", "queued", "detached", "executing", "done"}]
    BY <1>1 DEF SchedulerTypes
  <2>3. S \subseteq Jobs /\ T \subseteq Jobs /\ T \subseteq S \cup {j} /\ MaxConcurrent \in Nat
    BY <2>1, <2>2, LimitsAssumption
  <2> HIDE DEF S, T
  <2>4. Cardinality(T) <= MaxConcurrent
    BY <2>1, <2>3, LargerByOne
  <2> QED
    BY <1>1, <2>1, <2>4 DEF Limits, T
<1> DEFINE Rest == /\ \A k \in Jobs : tick'[k] = "executing" => tick[k] = "executing"
                   /\ \A k \in Jobs : catchup'[k] = "executing" => catchup[k] = "executing"
                   /\ \A k \in Jobs : catchup'[k] # "no" => catchup[k] # "no"
<1>5. ASSUME tick' = tick \/ tick' = Nothing, catchup' = catchup \/ catchup' = Nothing
      PROVE  Rest
  BY <1>5 DEF Nothing
<1>6. CASE StartClears \/ ApplyCatchup \/ StartArms \/ Fire \/ FireWhileRunning \/ TickEnds \/ Crash
  <2>1. (tick' = tick \/ tick' = Nothing) /\ (catchup' = catchup \/ catchup' = Nothing)
    BY <1>6 DEF StartClears, ApplyCatchup, StartArms, Fire, FireWhileRunning, TickEnds, Crash,
                vars, scheduler
  <2>2. Rest
    BY <1>5, <2>1
  <2> QED
    BY <1>1, <2>2, LimitsStay
<1>7. CASE TickBegins
  <2>1. /\ catchup' = catchup
        /\ \/ tick' = tick
           \/ tick' = [j \in Jobs |->
                         IF j \in {k \in Jobs : Runnable(disk[k])} THEN "queued" ELSE "no"]
    BY <1>7 DEF TickBegins
  <2>2. Rest
    BY <2>1
  <2> QED
    BY <1>1, <2>2, LimitsStay
<1>8. ASSUME NEW j \in Jobs, CatchupExecuted(j) \/ TickExecuted(j)
      PROVE  Limits'
  <2>1. Rest
    BY <1>1, <1>8 DEF CatchupExecuted, TickExecuted, SchedulerTypes
  <2> QED
    BY <1>1, <2>1, LimitsStay
<1>9. ASSUME NEW c \in Calls,
             (\E j \in Jobs : Preflight(c, j)) \/ PrepareManualRun(c) \/ FinishManualRun(c)
      PROVE  Limits'
  <2>1. /\ catchup' = catchup
        /\ \/ tick' = tick
           \/ tick' = [k \in Jobs |-> IF tick[k] = "queued" THEN "detached" ELSE tick[k]]
    BY <1>9 DEF Preflight, PrepareManualRun, FinishManualRun, scheduler
  <2>2. Rest
    BY <2>1
  <2> QED
    BY <1>1, <2>2, LimitsStay
<1>10. ASSUME NEW j \in Jobs, Add(j) \/ Disable(j) \/ Reschedule(j) \/ Remove(j) \/ SlotComes(j)
       PROVE  Limits'
  <2>1. tick' = tick /\ catchup' = catchup
    BY <1>10 DEF Add, Disable, Reschedule, Remove, Edit, SlotComes, scheduler
  <2>2. Rest
    BY <1>5, <2>1
  <2> QED
    BY <1>1, <2>2, LimitsStay
<1> QED
  BY <1>2, <1>3, <1>4, <1>6, <1>7, <1>8, <1>9, <1>10 DEF Next, StartStep, TickStep, Execution

LEMMA TypesKept ==
  ASSUME IInv, Next
  PROVE  TypeOK'
<1>1. disk' \in [Jobs -> Stored] /\ mem' \in [Jobs -> Stored]
  BY StoresStayFit DEF StoresFit, Fits, Sound
<1>2. SchedulerTypes' /\ CallTypes' /\ HistoryTypes' /\ Limits'
  BY SchedulerTypesKept, CallTypesKept, HistoryTypesKept, LimitsKept
<1> QED
  BY <1>1, <1>2 DEF TypeOK, SchedulerTypes, CallTypes, HistoryTypes, Limits

-----------------------------------------------------------------------------
(* The invariant, and what follows from it.                                 *)

LEMMA InitIInv ==
  ASSUME Init
  PROVE  IInv
<1>1. /\ created \subseteq Jobs /\ disk = [j \in Jobs |-> IF j \in created THEN NewJob ELSE NoJob]
      /\ mem = [j \in Jobs |-> NoJob] /\ phase = "new" /\ timer = FALSE /\ running = FALSE
      /\ tick = Nothing /\ catchup = Nothing /\ deferred = {} /\ skip = {}
      /\ call = [c \in Calls |-> NoCall]
      /\ owed = {} /\ advanced = {} /\ cleared = {} /\ interrupted = {}
  BY DEF Init
<1>2. /\ disk \in [Jobs -> Stored] /\ mem \in [Jobs -> Stored]
      /\ \A j \in Jobs : mem[j] = NoJob /\ disk[j] = IF j \in created THEN NewJob ELSE NoJob
  BY <1>1, NoJobIs
<1>3. Sound(mem)
  BY <1>2, NoJobIs DEF Sound
<1>4. Sound(disk)
  BY <1>2, NoJobIs DEF Sound
<1>5. SlotsFit(disk, owed, advanced, created)
  BY <1>1, <1>2, NoJobIs DEF SlotsFit
<1>6. ~Loaded /\ CallsLoaded
  BY <1>1 DEF Loaded, CallsLoaded, NoCall
<1>7. StoresFit
  BY <1>3, <1>4, <1>5, <1>6 DEF StoresFit, Fits
<1>8. RunsAreMarked
  BY <1>1 DEF RunsAreMarked, Underway, ManualRuns, Nothing, NoCall
<1>9. SchedulerTypes /\ CallTypes /\ HistoryTypes
  BY <1>1 DEF SchedulerTypes, CallTypes, HistoryTypes, Nothing, NoCall
<1>10. Limits
  <2>1. /\ {j \in Jobs : tick[j] = "executing"} = {} /\ {j \in Jobs : catchup[j] = "executing"} = {}
        /\ {j \in Jobs : catchup[j] # "no"} = {}
    BY <1>1 DEF Nothing
  <2>2. /\ Cardinality({j \in Jobs : tick[j] = "executing"}) = 0
        /\ Cardinality({j \in Jobs : catchup[j] = "executing"}) = 0
        /\ Cardinality({j \in Jobs : catchup[j] # "no"}) = 0
    BY <2>1, FS_EmptySet
  <2>3. MaxConcurrent \in Nat /\ MaxMissed \in Nat
    BY LimitsAssumption
  <2>4. \A n \in Nat : \A m : m = 0 => m <= n
    OBVIOUS
  <2> QED
    BY <2>2, <2>3, <2>4 DEF Limits
<1> QED
  BY <1>2, <1>7, <1>8, <1>9, <1>10, TypesAre DEF IInv

LEMMA NextIInv ==
  ASSUME IInv, [Next]_vars
  PROVE  IInv'
<1>1. CASE Next
  BY <1>1, TypesKept, StoresStayFit, AllRunsStayMarked DEF IInv
<1>2. CASE UNCHANGED vars
  <2>1. /\ disk' = disk /\ mem' = mem /\ phase' = phase /\ timer' = timer /\ running' = running
        /\ tick' = tick /\ catchup' = catchup /\ deferred' = deferred /\ skip' = skip
        /\ call' = call /\ created' = created /\ owed' = owed /\ advanced' = advanced
        /\ cleared' = cleared /\ interrupted' = interrupted
    BY <1>2 DEF vars, stores, scheduler, bounds, slots
  <2>2. TypeOK'
    BY <2>1 DEF IInv, TypeOK
  <2>3. StoresFit'
    BY <2>1 DEF IInv, StoresFit, Fits, Sound, SlotsFit, Loaded, InSync, CallsLoaded
  <2>4. RunsAreMarked'
    BY <2>1 DEF IInv, RunsAreMarked, Underway, OneAgent, ManualRuns
  <2> QED
    BY <2>2, <2>3, <2>4 DEF IInv
<1> QED
  BY <1>1, <1>2

(* In every state of every behaviour the two stores hold the same jobs but  *)
(* for markers, what is due is owed and what is owed is due, soon to be, or *)
(* moved on by an addition or a start (timer.ts:806, jobs.ts:494), and what *)
(* a tick, a catch-up or a manual run has in hand is marked and not shared, *)
(* unless its marker was cleared meanwhile.                                 *)
THEOREM Invariance == Spec => []IInv
<1>1. Init => IInv
  BY InitIInv
<1>2. IInv /\ [Next]_vars => IInv'
  BY NextIInv
<1> QED
  BY <1>1, <1>2, PTL DEF Spec

(* The limits hold for any number of jobs: no tick executes more than       *)
(* maxConcurrentRuns of them at once (timer.ts:777), and a catch-up takes   *)
(* up no more than maxMissedJobsPerRestart, one after the other.            *)
THEOREM TypeCorrect == Spec => []TypeOK
<1>1. IInv => TypeOK
  BY DEF IInv
<1> QED
  BY <1>1, Invariance, PTL

(* However ticks, startup catch-up and manual runs interleave, none of them *)
(* starts a job that another has taken up (ops.ts:553, timer.ts:721), as    *)
(* long as its marker is not cleared under the run.                         *)
THEOREM NoJobRunsTwice == Spec => []OneRunPerJob
<1>1. ASSUME IInv, NEW j \in Jobs, j \notin cleared
      PROVE  Runs(j) <= 1
  <2>1. CASE ManualRuns(j) = {}
    <3>1. Cardinality(ManualRuns(j)) = 0
      BY <2>1, FS_EmptySet
    <3>2. tick[j] # "executing" \/ catchup[j] # "executing"
      BY <1>1 DEF IInv, RunsAreMarked, Underway, OneAgent
    <3> QED
      BY <3>1, <3>2 DEF Runs
  <2>2. CASE ManualRuns(j) # {}
    <3>1. OneAgent(j)
      BY <1>1, <2>2 DEF IInv, RunsAreMarked, Underway
    <3>2. tick[j] = "no" /\ catchup[j] = "no"
      BY <2>2, <3>1 DEF OneAgent
    <3>3. PICK c \in ManualRuns(j) : ManualRuns(j) = {c}
      BY <2>2, <3>1 DEF OneAgent
    <3>4. Cardinality(ManualRuns(j)) = 1
      BY <3>3, FS_Singleton
    <3> QED
      BY <3>2, <3>4 DEF Runs
  <2> QED
    BY <2>1, <2>2
<1>2. IInv => OneRunPerJob
  BY <1>1 DEF OneRunPerJob
<1> QED
  BY <1>2, Invariance, PTL

(* No sequence of ticks, catch-ups, manual runs, edits and crashes makes a  *)
(* slot of a job disappear that came due and whose run has not finished:    *)
(* the file keeps it, unless an addition or a start moved it on.            *)
THEOREM NoSlotIsLost == Spec => []SlotsAreKept
<1>1. IInv => SlotsAreKept
  BY DEF IInv, StoresFit, Fits, SlotsFit, SlotsAreKept, Jobs, TypeOK
<1> QED
  BY <1>1, Invariance, PTL

(* A tick and a catch-up plan only runs for slots that came due after the   *)
(* last run of the job finished, though they read the stores that others    *)
(* wrote, so that no slot is taken up twice (ops.ts:675).                   *)
THEOREM SlotsAreTakenOnce == Spec => SlotRunsOnce
<1> DEFINE P == \A j \in Jobs : Plans(j) => j \in owed
<1>1. ASSUME IInv, [Next]_vars, NEW j \in Jobs, Plans(j)
      PROVE  j \in owed
  <2>1. /\ StoresFit /\ \A k \in Jobs : disk[k].next = "due" => k \in owed
        /\ tick \in [Jobs -> {"no", "queued", "detached", "executing", "done"}]
        /\ catchup \in [Jobs -> {"no", "queued", "executing", "done"}]
    BY <1>1 DEF IInv, StoresFit, Fits, SlotsFit, TypeOK
  <2>2. CASE PlanCatchup
    <3>1. \/ j \in {k \in Jobs \ skip : Runnable(mem[k]) /\ ~mem[k].over}
          \/ tick'[j] = tick[j] /\ catchup'[j] = "no"
      BY <2>2 DEF PlanCatchup
    <3>2. mem[j].next = "due"
      BY <1>1, <3>1 DEF Plans, Runnable
    <3>3. Loaded
      BY <2>2 DEF PlanCatchup, Loaded
    <3> QED
      BY <2>1, <3>2, <3>3 DEF StoresFit, InSync
  <2>3. CASE TickBegins
    <3>1. /\ catchup' = catchup
          /\ tick' = tick \/ tick' = [k \in Jobs |-> IF k \in {i \in Jobs : Runnable(disk[i])}
                                                     THEN "queued" ELSE "no"]
      BY <2>3 DEF TickBegins
    <3>2. Runnable(disk[j])
      BY <1>1, <3>1 DEF Plans
    <3> QED
      BY <2>1, <3>2 DEF Runnable
  <2> DEFINE Planned == \/ tick[j] = "no" /\ tick'[j] = "queued"
                        \/ catchup[j] = "no" /\ catchup'[j] = "queued"
  <2>4. Planned
    BY <1>1 DEF Plans
  <2>5. ASSUME tick' = tick \/ tick' = Nothing, catchup' = catchup \/ catchup' = Nothing
        PROVE  ~Planned
    BY <2>5 DEF Nothing
  <2>6. CASE StartClears \/ ApplyCatchup \/ StartArms \/ Fire \/ FireWhileRunning \/ TickEnds
             \/ Crash \/ UNCHANGED vars
    <3>1. (tick' = tick \/ tick' = Nothing) /\ (catchup' = catchup \/ catchup' = Nothing)
      BY <2>6 DEF StartClears, ApplyCatchup, StartArms, Fire, FireWhileRunning, TickEnds, Crash,
                  vars, scheduler
    <3> QED
      BY <2>4, <2>5, <3>1
  <2>7. ASSUME NEW k \in Jobs, Execution(k)
        PROVE  ~Planned
    BY <2>1, <2>7 DEF Execution, CatchupExecutes, CatchupExecuted, TickExecutes, TickExecuted
  <2>8. ASSUME NEW c \in Calls,
               (\E k \in Jobs : Preflight(c, k)) \/ PrepareManualRun(c) \/ FinishManualRun(c)
        PROVE  ~Planned
    <3>1. /\ catchup' = catchup
          /\ \/ tick' = tick
             \/ tick' = [k \in Jobs |-> IF tick[k] = "queued" THEN "detached" ELSE tick[k]]
      BY <2>8 DEF Preflight, PrepareManualRun, FinishManualRun, scheduler
    <3> QED
      BY <3>1
  <2>9. ASSUME NEW k \in Jobs, Add(k) \/ Disable(k) \/ Reschedule(k) \/ Remove(k) \/ SlotComes(k)
        PROVE  ~Planned
    <3>1. tick' = tick /\ catchup' = catchup
      BY <2>9 DEF Add, Disable, Reschedule, Remove, Edit, SlotComes, scheduler
    <3> QED
      BY <2>5, <3>1
  <2> QED
    BY <1>1, <2>2, <2>3, <2>4, <2>6, <2>7, <2>8, <2>9 DEF Next, StartStep, TickStep
<1>2. IInv /\ [Next]_vars => [P]_vars
  BY <1>1
<1>3. Spec => [][P]_vars
  BY <1>2, Invariance, PTL DEF Spec
<1> QED
  BY <1>3 DEF SlotRunsOnce
=============================================================================
